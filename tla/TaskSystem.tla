----------------------------- MODULE TaskSystem -----------------------------
(***************************************************************************)
(* The calls of branch.advance of one Implementation task together with the *)
(* finalizations that terminate it and other tasks.                         *)
(*                                                                          *)
(* They meet in the repository only: Admission reads the metadata branch    *)
(* and the base that a finalization reads and writes, and neither locks     *)
(* anything.  Everything may fail, so nothing is assumed to be fair.        *)
(***************************************************************************)
EXTENDS BranchAdvance, TaskTermination

callVars == <<signed, call, rewinds>>
vars == <<repoVars, callVars, fin>>

TypeOK == RepoTypeOK /\ CallTypeOK /\ FinalTypeOK

Init == RepoInit /\ CallInit /\ FinalInit

Next ==
  \/ BranchNext /\ UNCHANGED fin
  \/ FinalNext /\ UNCHANGED callVars
  \/ (BaseMoves \/ \E t \in Tasks : ContractEdited(t)) /\ UNCHANGED <<callVars, fin>>

Spec == Init /\ [][Next]_vars

-----------------------------------------------------------------------------
(* Properties of the two together. *)

Passed(c) == call[c].pc \in ExecutorSteps \/ call[c].outcome \notin {"none", "denied", "crashed"}
             \/ call[c].landed

\* A call that began when its task was recorded as terminated never reaches the
\* Executor, though the record is read several steps later, under another
\* authorization or on another base (authoritativeTerminationAbsence,
\* src/admission/authorization.ts:437-457).
TerminatedAdmitsNothing == \A c \in Calls : call[c].doomed => ~Passed(c)

\* Not true of the code: once a task is recorded as terminated its leaf branch
\* receives no further commit from a Session (docs/IMPLEMENTATION_CONTRACT.md,
\* "every existing Session for that task fails closed").  The record is read in
\* Admission only; a call admitted before it lands after it.
TerminatedTaskRests ==
  [][Record(Task) # NoRecord => \A c \in Calls : ~Landing(c)]_<<metadata, book, call>>

=============================================================================
