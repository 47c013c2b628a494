-------------------------- MODULE TaskTermination --------------------------
(***************************************************************************)
(* Termination of Implementation tasks: the Executor appends one record per *)
(* task to the metadata branch inari/task-termination                       *)
(* (src/github/task-termination-record.ts, src/executor/task-termination.ts *)
(* and finalizeLocalExecutorTaskTermination in src/executor/execution.ts).  *)
(*                                                                          *)
(* All tasks share the branch.  A finalization reads the current            *)
(* authorization, takes a snapshot (base ref, then metadata ref), creates   *)
(* the commit, checks the base once more, updates the ref on condition of   *)
(* the head it read (of its absence, for the first record), and takes a     *)
(* second snapshot whatever the answer was.  It never retries.              *)
(***************************************************************************)
EXTENDS TaskRepo

CONSTANT TaskOf     \* the task of a finalization

ASSUME TaskOfAssumption == TaskOf \in [Finalizers -> Tasks]

VARIABLE fin

FinalSteps == {"issue", "base", "snapBase", "snapMetadata", "recheck", "update",
               "afterBase", "afterMetadata"}
Finalization == [pc : {"idle", "done"} \cup FinalSteps, auth : Authorization,
                 before : Finalizers \cup {NoCommit},
                 outcome : {"none", "success", "denied", "possible-effect", "crashed"}]

FinalTypeOK == fin \in [Finalizers -> Finalization]

FinalInit == fin = [f \in Finalizers |-> [pc |-> "idle", auth |-> NoRecord, before |-> NoCommit,
                                          outcome |-> "none"]]

FinalAt(f, step)    == fin[f].pc = step
FinalGo(f, step)    == fin' = [fin EXCEPT ![f].pc = step]
Finish(f, outcome)  == fin' = [fin EXCEPT ![f].pc = "done", ![f].outcome = outcome]
Holds(f)            == Record(TaskOf[f]) = fin[f].auth
WorkRests           == UNCHANGED <<base, contract, head, created, commit>>
MetadataRests       == UNCHANGED <<metadata, book, late>>

\* An operator supplies the authorization to terminate.
Finalize(f) ==
  /\ FinalAt(f, "idle")
  /\ fin' = [fin EXCEPT ![f].pc = "issue", ![f].auth = contract[TaskOf[f]]]
  /\ WorkRests /\ MetadataRests /\ UNCHANGED faults

\* currentAuthorization: the supplied one is what the Issue still names.
FinalReadIssue(f) ==
  /\ FinalAt(f, "issue")
  /\ IF contract[TaskOf[f]] = fin[f].auth THEN FinalGo(f, "base") ELSE Finish(f, "denied")
  /\ WorkRests /\ MetadataRests /\ UNCHANGED faults

\* The base is read as evidence, by both snapshots, and right before the effect.
FinalReadBase(f) ==
  /\ \/ FinalAt(f, "base") /\ (IF base = fin[f].auth.base THEN FinalGo(f, "snapBase") ELSE Finish(f, "denied"))
     \/ FinalAt(f, "snapBase") /\ (IF base = fin[f].auth.base THEN FinalGo(f, "snapMetadata") ELSE Finish(f, "denied"))
     \/ FinalAt(f, "recheck") /\ (IF base = fin[f].auth.base THEN FinalGo(f, "update") ELSE Finish(f, "denied"))
     \/ FinalAt(f, "afterBase") /\ (IF base = fin[f].auth.base THEN FinalGo(f, "afterMetadata")
                                    ELSE Finish(f, "possible-effect"))
  /\ WorkRests /\ MetadataRests /\ UNCHANGED faults

\* Mutant: the first record of a task is built on the base tree every time.
BookFromBase(f) == [[t \in Tasks |-> NoRecord] EXCEPT ![TaskOf[f]] = fin[f].auth]

\* The tree of the new commit: what the metadata branch holds, and the record.
BookWith(f) == [[t \in Tasks |-> Record(t)] EXCEPT ![TaskOf[f]] = fin[f].auth]

\* The metadata ref and its tree: the same record is a replay, another record
\* denies, absence leads to the creation of the commit.
Snapshot(f) ==
  /\ FinalAt(f, "snapMetadata")
  /\ IF Record(TaskOf[f]) = NoRecord
     THEN /\ fin' = [fin EXCEPT ![f].pc = "recheck", ![f].before = metadata]
          /\ book' = [book EXCEPT ![f] = BookWith(f)]
     ELSE Finish(f, IF Holds(f) THEN "success" ELSE "denied") /\ UNCHANGED book
  /\ WorkRests /\ UNCHANGED <<metadata, late, faults>>

\* Mutant: the first record is written without the condition that the branch is absent.
AcceptsWhenAbsent(f) == fin[f].before \in {metadata, NoCommit}

\* beforeOid is the head of the snapshot, or the zero object for an absent branch.
AcceptsRecord(f) == metadata = fin[f].before

\* compareAndAdvanceRef, whose answer is ignored.
FinalUpdate(f) ==
  /\ FinalAt(f, "update")
  /\ FinalGo(f, "afterBase")
  /\ \/ AcceptsRecord(f) /\ metadata' = f /\ UNCHANGED <<late, faults>>
     \/ ~AcceptsRecord(f) /\ UNCHANGED <<metadata, late, faults>>
     \/ Fault /\ UNCHANGED <<metadata, late>>
     \/ Fault /\ late' = late \cup {f} /\ UNCHANGED metadata
  /\ WorkRests /\ UNCHANGED book

LateRecord(f) ==
  /\ f \in late /\ late' = late \ {f}
  /\ metadata' = IF AcceptsRecord(f) THEN f ELSE metadata
  /\ WorkRests /\ UNCHANGED <<book, fin, faults>>

\* Mutant: an update that was sent counts as success when the base still holds.
AlwaysRecorded(f) == TRUE

\* The second snapshot proves the record.
ProvesRecord(f) == Holds(f)

FinalProof(f) ==
  /\ FinalAt(f, "afterMetadata")
  /\ Finish(f, IF ProvesRecord(f) THEN "success" ELSE "possible-effect")
  /\ WorkRests /\ MetadataRests /\ UNCHANGED faults

\* A read or a creation fails.
FinalFails(f) ==
  /\ \/ fin[f].pc \in {"issue", "base", "snapBase", "snapMetadata", "recheck"} /\ Finish(f, "denied")
     \/ fin[f].pc \in {"afterBase", "afterMetadata"} /\ Finish(f, "possible-effect")
  /\ Fault /\ WorkRests /\ MetadataRests

FinalCrashes(f) ==
  /\ fin[f].pc \in FinalSteps
  /\ Finish(f, "crashed")
  /\ Fault /\ WorkRests /\ MetadataRests

FinalNext ==
  \E f \in Finalizers : Finalize(f) \/ FinalReadIssue(f) \/ FinalReadBase(f) \/ Snapshot(f)
                        \/ FinalUpdate(f) \/ LateRecord(f) \/ FinalProof(f) \/ FinalFails(f)
                        \/ FinalCrashes(f)

-----------------------------------------------------------------------------
(* Properties of the termination records. *)

\* A termination is final: whoever else terminates this or another task on the
\* shared branch, first records and late updates included, a record that is
\* once on the metadata branch stays there unchanged
\* (task-termination-record.ts:168-234).
RecordsAreFinal ==
  [][\A t \in Tasks : Record(t) # NoRecord => Record(t)' = Record(t)]_<<metadata, book>>

\* A finalization that reports success has its record on the metadata branch,
\* also long after it (task-termination-record.ts:229-233).
SuccessIsRecorded ==
  \A f \in Finalizers : fin[f].outcome = "success" => Holds(f)

=============================================================================
