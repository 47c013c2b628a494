CONSTANTS
  p1 = p1
  p2 = p2
  k1 = k1
  Kinds = {k1}
  Generations = {1, 2}
  Processes = {p1, p2}
  Enrolling = {k1}
  MaxEntries = 3
  Lease = 2
  MaxEvidence = 1
  MaxCrashes = 1
  MaxFaults = 1
SPECIFICATION Spec
SYMMETRY ProcessesAlike
CONSTRAINT NotTangled
INVARIANTS
  TypeOK
  CallsAreConfirmed
  EffectsAreRemembered
PROPERTIES
  RecordedAttemptsBlock
