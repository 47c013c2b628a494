CONSTANTS
  p1 = p1
  p2 = p2
  k1 = k1
  Kinds = {k1}
  Generations = {1, 2}
  Processes = {p1, p2}
  Enrolling = {}
  MaxEntries = 5
  Lease = 2
  MaxEvidence = 1
  MaxCrashes = 1
  MaxFaults = 0
SPECIFICATION Spec
CONSTRAINT NotTangled
PROPERTIES
  DuplicatesAreBlocked
