-------------------------- MODULE DeliveryPromise --------------------------
(***************************************************************************)
(* What the hosted relay promises for a job, whatever its transport does:   *)
(* a job is executed at most once and only after it was handed to a         *)
(* Runtime, a caller sees a result only of an execution, and "not           *)
(* delivered" is only said of a job that was not handed over.               *)
(***************************************************************************)
EXTENDS Naturals

CONSTANT Jobs

VARIABLES handed, executions, told

vars == <<handed, executions, told>>

Init ==
  /\ handed = {}
  /\ executions = [j \in Jobs |-> 0]
  /\ told = [j \in Jobs |-> {}]

HandOver(j) ==
  /\ handed' = handed \cup {j}
  /\ UNCHANGED <<executions, told>>

Execute(j) ==
  /\ j \in handed /\ executions[j] = 0
  /\ executions' = [executions EXCEPT ![j] = 1]
  /\ UNCHANGED <<handed, told>>

TellResult(j) ==
  /\ executions[j] = 1
  /\ told' = [told EXCEPT ![j] = @ \cup {"result"}]
  /\ UNCHANGED <<handed, executions>>

TellUnavailable(j) ==
  /\ j \notin handed
  /\ told' = [told EXCEPT ![j] = @ \cup {"unavailable"}]
  /\ UNCHANGED <<handed, executions>>

\* Ambiguity may be said at any time, in the step of a hand-over too.
TellAmbiguous(j) ==
  /\ handed' \in {handed, handed \cup {j}}
  /\ told' = [told EXCEPT ![j] = @ \cup {"delivered-ambiguous"}]
  /\ UNCHANGED executions

Next == \E j \in Jobs : \/ HandOver(j) \/ Execute(j) \/ TellResult(j)
                        \/ TellUnavailable(j) \/ TellAmbiguous(j)

Spec == Init /\ [][Next]_vars
=============================================================================
