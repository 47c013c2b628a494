--------------------------- MODULE RelayDelivery ---------------------------
(***************************************************************************)
(* The pure delivery reducer that the Repository Relay and the local        *)
(* Runtime share (src/relay/delivery-state.ts): what one transport fact     *)
(* does to what is known of the delivery of one job.                        *)
(***************************************************************************)
EXTENDS Naturals

RelayDeliveryPhase == {"queued", "delivered", "acknowledged", "terminal-result",
                       "possibly-delivered", "expired", "cancelled", "unavailable"}

RelayDeliveryEventType == {"deliver", "acknowledge", "result", "disconnect",
                           "timeout", "reconnect", "expire", "cancel"}

\* A digest stands for the execution that produced the result; 0 is no digest,
\* and exactly a terminal result has one.
NoDigest == 0
RelayDeliveryState ==
  {s \in [phase : RelayDeliveryPhase, digest : Nat] :
     s.phase = "terminal-result" <=> s.digest # NoDigest}

CreateState(phase, digest) ==
  [phase |-> phase, digest |-> IF phase = "terminal-result" THEN digest ELSE NoDigest]

CreateRelayDeliveryState == CreateState("queued", NoDigest)

DeliveryEvidence(phase) ==
  CASE phase \in {"queued", "unavailable", "expired", "cancelled"} -> "not-delivered"
    [] phase \in {"delivered", "acknowledged", "terminal-result"}  -> "delivered"
    [] OTHER                                                       -> "delivered-ambiguous"

IsTerminal(state) == state.phase = "terminal-result"

\* Facts that arrive before anything was sent, and after.
Unsent(phase) == phase \in {"queued", "unavailable"}
InTransit(phase) == phase \in {"delivered", "acknowledged"}

\* Mutant: a deadline that passes is read as proof that nothing was delivered.
NextPhaseExpiresAll(phase, type) ==
  CASE type = "deliver" /\ Unsent(phase)                                 -> "delivered"
    [] type = "acknowledge" /\ phase \in {"queued", "delivered"}         -> "acknowledged"
    [] type = "result"                                                   -> "terminal-result"
    [] type \in {"disconnect", "timeout"} /\ Unsent(phase)               -> "unavailable"
    [] type = "expire" /\ (Unsent(phase) \/ InTransit(phase))            -> "expired"
    [] type \in {"disconnect", "timeout"} /\ InTransit(phase)            -> "possibly-delivered"
    [] type = "reconnect" /\ phase = "unavailable"                       -> "queued"
    [] type = "cancel" /\ Unsent(phase)                                  -> "cancelled"
    [] OTHER                                                             -> phase

NextPhase(phase, type) ==
  CASE type = "deliver" /\ Unsent(phase)                                 -> "delivered"
    [] type = "acknowledge" /\ phase \in {"queued", "delivered"}         -> "acknowledged"
    [] type = "result"                                                   -> "terminal-result"
    [] type \in {"disconnect", "timeout"} /\ Unsent(phase)               -> "unavailable"
    [] type = "expire" /\ Unsent(phase)                                  -> "expired"
    [] type \in {"disconnect", "timeout", "expire"} /\ InTransit(phase)  -> "possibly-delivered"
    [] type = "reconnect" /\ phase = "unavailable"                       -> "queued"
    [] type = "cancel" /\ Unsent(phase)                                  -> "cancelled"
    [] OTHER                                                             -> phase

\* expired and terminal-result ignore every further fact.
Applies(state, type) ==
  /\ state.phase # "expired"
  /\ ~IsTerminal(state)
  /\ NextPhase(state.phase, type) # state.phase

\* Mutant: facts are applied to a terminal state too.
ApplyAlways(state, type, digest) == CreateState(NextPhase(state.phase, type), digest)

ApplyRelayDeliveryEvent(state, type, digest) ==
  IF Applies(state, type) THEN CreateState(NextPhase(state.phase, type), digest) ELSE state
=============================================================================
