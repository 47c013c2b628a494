--------------------------- MODULE BranchAdvance ---------------------------
(***************************************************************************)
(* branch.advance: a Session asks Admission for one signed change of its    *)
(* leaf branch; Admission reads the current evidence twice and authorizes   *)
(* it (src/admission/authorization.ts); the Executor builds the commit and  *)
(* moves the branch with a conditional update                               *)
(* (src/agent-authority/branch-advance.ts).                                 *)
(*                                                                          *)
(* A call is one ExecutionIntent from its first evidence read to its        *)
(* result.  Calls with the same request are retries or duplicates: nothing  *)
(* consumes a request.  Every await is a step of its own, except that the   *)
(* reads and creations of immutable Git objects belong to the step before.  *)
(***************************************************************************)
EXTENDS TaskRepo

CONSTANTS
  Task,        \* the Implementation whose Session acts
  Requests,    \* signed requests
  RequestOf,   \* the request of a call
  Changes,     \* the changes of a request
  Scope        \* per path: the operations the Implementation scope allows

ASSUME RequestsAssumption == /\ Task \in Tasks
                             /\ RequestOf \in [Calls -> Requests]
                             /\ Changes \in [Requests -> [Paths -> Contents \cup {Missing, Keep}]]
                             /\ Scope \in [Paths -> SUBSET {"CREATE", "WRITE", "DELETE"}]

VARIABLES
  signed,    \* per request: expectedHead
  call,
  rewinds

AdmissionSteps == {"issue", "base", "issueAgain", "baseAgain", "taskBase", "termination"}
ExecutorSteps  == {"ref", "update", "reread"}
Answers        == {"none", "updated", "rejected", "thrown"}
Outcomes       == {"none", "denied", "advanced", "idempotent", "stale", "failed",
                   "recovery-required", "crashed"}
Succeeded      == {"advanced", "idempotent"}

\* at is the head of the latest read.  seen, doomed, calm and landed are
\* history: the heads since the call began; whether the task was terminated
\* when it began; that nobody and nothing disturbed it in the Executor;
\* whether its update has been applied.
Call == [pc : {"idle", "done"} \cup AdmissionSteps \cup ExecutorSteps,
         auth : Authorization, at : Heads, answer : Answers, outcome : Outcomes,
         seen : SUBSET Heads, doomed : BOOLEAN, calm : BOOLEAN, landed : BOOLEAN]

Unused == [pc |-> "idle", auth |-> NoRecord, at |-> NoCommit, answer |-> "none",
           outcome |-> "none", seen |-> {}, doomed |-> FALSE, calm |-> FALSE, landed |-> FALSE]

CallTypeOK ==
  /\ signed \in [Requests -> Heads]
  /\ call \in [Calls -> Call]
  /\ rewinds \in 0..MaxRewinds

CallInit ==
  /\ signed = [r \in Requests |-> NoCommit]
  /\ call = [c \in Calls |-> Unused]
  /\ rewinds = 0

Expected(c)  == signed[RequestOf[c]]
ChangesOf(c) == Changes[RequestOf[c]]
Changed(c)   == {p \in Paths : ChangesOf(c)[p] # Keep}
Active(c)    == call[c].pc \notin {"idle", "done"}

\* authorizeBranchAdvance: a delete needs DELETE, an upsert CREATE or WRITE.
Admitted(c, p) == IF ChangesOf(c)[p] = Missing THEN Scope[p] \cap {"DELETE"}
                  ELSE Scope[p] \cap {"CREATE", "WRITE"}
Grants(c) == \A p \in Changed(c) : Admitted(c, p) # {}

\* Mutant: any operation of the scope will do once the path is in the scope.
ScopeByPath(c, tree) == \A p \in Changed(c) : ChangesOf(c)[p] = Missing => tree[p] # Missing

\* The provider-resolved operations on the tree read are admitted, and no missing path is deleted.
Executable(c, tree) ==
  \A p \in Changed(c) : /\ ChangesOf(c)[p] = Missing => tree[p] # Missing
                        /\ Operation(tree, ChangesOf(c), p) \in Admitted(c, p)

\* Mutant: a replay compares the changed paths only.
ProvesChangedPaths(c, h) ==
  \A p \in Changed(c) : commit[h].tree[p] = ChangesOf(c)[p]

\* provesTarget: h holds exactly the tree that the request makes of its expected head.
ProvesTarget(c, h) ==
  LET before == commit[Expected(c)].tree
  IN /\ \A p \in Changed(c) : ChangesOf(c)[p] = Missing => before[p] # Missing
     /\ commit[h].tree = Target(before, ChangesOf(c))

-----------------------------------------------------------------------------
(* The leaf branch moves: a history step for every call under way. *)

\* The calls after the branch has moved to h by the hand of one of them, or of NoCommit.
Watched(h, by) ==
  [c \in Calls |-> IF Active(c) THEN [call[c] EXCEPT !.seen = @ \cup {h}, !.calm = @ /\ c = by]
                   ELSE call[c]]

\* A push of one changed path, or of a new leaf branch after a deletion.
Pushed(p) ==
  /\ p \notin created
  /\ created' = created \cup {p}
  /\ \/ /\ head # NoCommit
        /\ \E q \in Paths, x \in Contents \cup {Missing} :
             commit' = [commit EXCEPT ![p] = [parent |-> head, tree |-> [commit[head].tree EXCEPT ![q] = x]]]
     \/ head = NoCommit /\ commit' = [commit EXCEPT ![p] = [parent |-> Root, tree |-> RootTree]]
  /\ head' = p
  /\ call' = Watched(p, NoCommit)
  /\ UNCHANGED <<base, contract, metadata, book, late, faults, signed, rewinds>>

\* The commits that the branch has been at.
Visited == {Root} \cup (created \cap Pushes) \cup {c \in Calls : call[c].landed}

\* Somebody forces the branch back by one commit, or brings a deleted branch
\* back at a commit it has been at.
Rewound ==
  /\ rewinds < MaxRewinds /\ rewinds' = rewinds + 1
  /\ \E h \in Visited :
       /\ head # NoCommit => h = commit[head].parent
       /\ head' = h
       /\ call' = Watched(h, NoCommit)
  /\ UNCHANGED <<base, contract, created, commit, metadata, book, late, faults, signed>>

\* An abort or a cleanup deletes the branch.
Deleted ==
  /\ head # NoCommit
  /\ head' = NoCommit
  /\ call' = Watched(NoCommit, NoCommit)
  /\ UNCHANGED <<base, contract, created, commit, metadata, book, late, faults, signed, rewinds>>

-----------------------------------------------------------------------------
(* Admission. *)

AtStep(c, step) == call[c].pc = step
Go(c, step) == call' = [call EXCEPT ![c].pc = step]
End(c, outcome) == call' = [call EXCEPT ![c].pc = "done", ![c].outcome = outcome]
RepoRests == UNCHANGED <<base, contract, head, created, commit, metadata, book, late>>
Reads == RepoRests /\ UNCHANGED <<signed, rewinds>>

\* A Session signs the request against the head it sees, or sends it again.
Request(c) ==
  /\ AtStep(c, "idle")
  /\ \/ Expected(c) # NoCommit /\ UNCHANGED signed
     \/ Expected(c) = NoCommit /\ head # NoCommit /\ signed' = [signed EXCEPT ![RequestOf[c]] = head]
  /\ call' = [call EXCEPT ![c].pc = "issue", ![c].seen = {head}, ![c].doomed = Record(Task) # NoRecord]
  /\ RepoRests /\ UNCHANGED <<faults, rewinds>>

\* The preliminary read: the contract authorizes itself if it names the current base.
ReadIssue(c) ==
  /\ AtStep(c, "issue")
  /\ call' = [call EXCEPT ![c].pc = "base", ![c].auth = contract[Task]]
  /\ Reads /\ UNCHANGED faults

ReadBase(c) ==
  /\ \/ AtStep(c, "base") /\ (IF base = call[c].auth.base THEN Go(c, "issueAgain") ELSE End(c, "denied"))
     \/ AtStep(c, "baseAgain") /\ (IF base = call[c].auth.base THEN Go(c, "taskBase") ELSE End(c, "denied"))
     \/ AtStep(c, "taskBase") /\ (IF base = call[c].auth.base THEN Go(c, "termination") ELSE End(c, "denied"))
  /\ Reads /\ UNCHANGED faults

RereadIssue(c) ==
  /\ AtStep(c, "issueAgain")
  /\ IF contract[Task] = call[c].auth THEN Go(c, "baseAgain") ELSE End(c, "denied")
  /\ Reads /\ UNCHANGED faults

\* Mutant: a record of another authorization is no evidence of termination.
AbsentForThis(record, auth) == record # auth

\* authoritativeTerminationAbsence: a record, matching or not, denies.
AuthoritativeAbsence(record, auth) == record = NoRecord

\* The metadata branch is read; then the rest of Admission is synchronous.
ReadTermination(c) ==
  /\ AtStep(c, "termination")
  /\ IF AuthoritativeAbsence(Record(Task), call[c].auth) /\ Grants(c)
     THEN call' = [call EXCEPT ![c].pc = "ref", ![c].calm = TRUE]
     ELSE End(c, "denied")
  /\ Reads /\ UNCHANGED faults

\* An evidence read fails, or Admission denies for a reason outside this model
\* (Session, Change state, capability).
AdmissionDenies(c) ==
  /\ call[c].pc \in AdmissionSteps
  /\ End(c, "denied")
  /\ Fault /\ Reads

-----------------------------------------------------------------------------
(* The Executor: executeBranchAdvanceEffects. *)

\* The ref and what it points at are read; on the expected head the objects
\* of the new commit are created.
ReadRef(c) ==
  /\ AtStep(c, "ref")
  /\ IF head # NoCommit /\ head = Expected(c) /\ Executable(c, commit[head].tree)
     THEN /\ created' = created \cup {c}
          /\ commit' = [commit EXCEPT ![c] = [parent |-> Expected(c),
                                              tree |-> Target(commit[head].tree, ChangesOf(c))]]
          /\ call' = [call EXCEPT ![c].pc = "update", ![c].at = head]
     ELSE /\ call' = [call EXCEPT ![c].pc = "done", ![c].at = head,
                                  ![c].outcome = IF head \in {NoCommit, Expected(c)} THEN "failed"
                                                 ELSE IF ProvesTarget(c, head) THEN "idempotent"
                                                 ELSE "stale"]
          /\ UNCHANGED <<created, commit>>
  /\ UNCHANGED <<base, contract, head, metadata, book, late, faults, signed, rewinds>>

\* Mutant: the update is not conditional on the head it was prepared for.
Unconditional(c) == head # NoCommit

\* beforeOid is the expected head, which is the parent of the new commit.
AcceptsUpdate(c) == head = commit[c].parent

\* The branch moves to the call's commit; its call goes on with an answer.
Lands(c, step, answer) ==
  /\ AcceptsUpdate(c)
  /\ head' = c
  /\ call' = [Watched(c, c) EXCEPT ![c].pc = step, ![c].answer = answer, ![c].landed = TRUE]

Answered(c, answer) == call' = [call EXCEPT ![c].pc = "reread", ![c].answer = answer]
Disturbed(c, answer) ==
  call' = [call EXCEPT ![c].pc = "reread", ![c].answer = answer, ![c].calm = FALSE]

\* compareAndAdvanceRef: applied or refused, and the answer may be lost or be
\* an error either way; a request that timed out may still be under way.
Update(c) ==
  /\ AtStep(c, "update")
  /\ \/ Lands(c, "reread", "updated") /\ UNCHANGED <<late, faults>>
     \/ ~AcceptsUpdate(c) /\ Answered(c, "rejected") /\ UNCHANGED <<head, late, faults>>
     \/ /\ Fault
        /\ \/ \E answer \in {"rejected", "thrown"} : Lands(c, "reread", answer) /\ UNCHANGED late
           \/ /\ \E answer \in {"rejected", "thrown"} : Disturbed(c, answer)
              /\ UNCHANGED <<head, late>>
           \/ Disturbed(c, "thrown") /\ late' = late \cup {c} /\ UNCHANGED head
  /\ UNCHANGED <<base, contract, created, commit, metadata, book, signed, rewinds>>

\* A timed-out update arrives.
LateUpdate(c) ==
  /\ c \in late /\ late' = late \ {c}
  /\ \/ Lands(c, call[c].pc, call[c].answer)
     \/ ~AcceptsUpdate(c) /\ UNCHANGED <<head, call>>
  /\ UNCHANGED <<base, contract, created, commit, metadata, book, faults, signed, rewinds>>

\* Mutant: an update that was answered is taken for granted.
AnswerAlone(c) == IF call[c].answer = "updated" THEN "advanced"
                  ELSE IF call[c].answer = "thrown" THEN "failed" ELSE "stale"

\* resolveUncertainUpdate, and the final reread of an acknowledged update.
Verdict(c) ==
  CASE head = c -> IF call[c].answer = "updated" THEN "advanced" ELSE "idempotent"
    [] head = Expected(c) /\ call[c].answer = "thrown"   -> "failed"
    [] head = Expected(c) /\ call[c].answer = "rejected" -> "stale"
    [] OTHER -> "recovery-required"

Reread(c) ==
  /\ AtStep(c, "reread")
  /\ call' = [call EXCEPT ![c].pc = "done", ![c].at = head, ![c].outcome = Verdict(c)]
  /\ Reads /\ UNCHANGED faults

\* A Git read or creation fails, as a Git failure or as something else.
GitFails(c) ==
  /\ \E outcome \in {"failed", "recovery-required"} :
       /\ call[c].pc = "ref" \/ (call[c].pc = "reread" /\ outcome = "recovery-required")
       /\ call' = [call EXCEPT ![c].pc = "done", ![c].outcome = outcome, ![c].calm = FALSE]
  /\ Fault /\ Reads

\* The Executor or Admission process ends.
CallCrashes(c) ==
  /\ Active(c)
  /\ call' = [call EXCEPT ![c].pc = "done", ![c].outcome = "crashed", ![c].calm = FALSE]
  /\ Fault /\ Reads

CallStep(c) == ReadIssue(c) \/ ReadBase(c) \/ RereadIssue(c) \/ ReadTermination(c) \/ AdmissionDenies(c)
               \/ ReadRef(c) \/ Update(c) \/ Reread(c) \/ GitFails(c)

BranchNext ==
  \/ \E c \in Calls : Request(c) \/ CallStep(c) \/ CallCrashes(c) \/ LateUpdate(c)
  \/ \E p \in Pushes : Pushed(p)
  \/ Rewound
  \/ Deleted

-----------------------------------------------------------------------------
(* Properties of the leaf branch. *)

\* What a call reports as done was done: a call that reports advanced or
\* idempotent (branch-advance.ts:770-782, 831-874) names a head that the branch
\* had during the call and whose tree is exactly the requested change of the
\* expected head, whatever happened to the branch or to the answers between.
SucceededWasOnBranch ==
  \A c \in Calls : call[c].outcome \in Succeeded =>
     /\ call[c].at \in call[c].seen \ {NoCommit}
     /\ commit[call[c].at].tree = Target(commit[Expected(c)].tree, ChangesOf(c))

Landing(c) == call'[c].landed /\ ~call[c].landed

\* No overwrite, no operation outside the scope: an update that takes effect,
\* even late, builds on the very head it replaces, and each path it changes is
\* created, written or deleted in that head only as the Implementation scope
\* allows: permission to CREATE never overwrites a path that a concurrent push
\* has created (branch-advance.ts:783-804, 852-863; test at
\* branch-advance.test.ts:675).
LandsWithinScope ==
  [][\A c \in Calls : Landing(c) =>
       /\ commit[c].parent = head
       /\ \A p \in Changed(c) : Operation(commit[head].tree, ChangesOf(c), p) \in Scope[p]]_<<head, call, commit>>

\* A signed request takes effect at most once, however often it is sent,
\* retried or delivered late, as long as nobody forces the branch back or
\* brings it back at an old commit
\* (docs/AGENT_CAPABILITY_AUTHORIZATION.md, 13.2 and 13.3).
AppliedAtMostOnce ==
  rewinds = 0 =>
    \A c, d \in Calls : call[c].landed /\ call[d].landed /\ RequestOf[c] = RequestOf[d] => c = d

\* A retry resolves: a call that nobody disturbed in the Executor, and that
\* found the branch at the expected head with the change executable there, or
\* at the commit of an earlier call with the same request, reports success
\* (section 14, "desired state proven: verify and return the existing result").
RetryResolves ==
  \A c \in Calls :
    /\ call[c].pc = "done" /\ call[c].calm
    /\ \/ call[c].at = Expected(c) /\ Executable(c, commit[Expected(c)].tree)
       \/ \E d \in Calls : RequestOf[d] = RequestOf[c] /\ call[c].at = d
    => call[c].outcome \in Succeeded

=============================================================================
