----------------------------- MODULE TaskProofs -----------------------------
(***************************************************************************)
(* Proofs about TaskSystem for every number of calls, requests, pushes,     *)
(* finalizations, tasks, paths and faults: the variables keep their types,  *)
(* termination records are final and bar later calls, and the leaf branch   *)
(* receives what was requested, within the scope and at most once.          *)
(***************************************************************************)
EXTENDS TaskSystem, TLAPS

-----------------------------------------------------------------------------
(* Types. *)

\* The branch moves: what the calls under way remember of it.
LEMMA WatchedCalls ==
  ASSUME call \in [Calls -> Call], NEW h \in Heads, NEW by
  PROVE  /\ Watched(h, by) \in [Calls -> Call]
         /\ \A c \in Calls :
              /\ Watched(h, by)[c].pc = call[c].pc
              /\ Watched(h, by)[c].auth = call[c].auth
              /\ Watched(h, by)[c].at = call[c].at
              /\ Watched(h, by)[c].answer = call[c].answer
              /\ Watched(h, by)[c].outcome = call[c].outcome
              /\ Watched(h, by)[c].doomed = call[c].doomed
              /\ Watched(h, by)[c].landed = call[c].landed
              /\ call[c].seen \subseteq Watched(h, by)[c].seen
              /\ Active(c) => h \in Watched(h, by)[c].seen
              /\ (Watched(h, by)[c].calm <=> call[c].calm /\ (Active(c) => c = by))
<1>1. ASSUME NEW c \in Calls, Active(c)
      PROVE  [call[c] EXCEPT !.seen = @ \cup {h}, !.calm = @ /\ c = by] \in Call
  BY <1>1 DEF Call
<1>2. ASSUME NEW c \in Calls PROVE Watched(h, by)[c] \in Call
  BY <1>1 DEF Watched
<1>3. Watched(h, by) \in [Calls -> Call]
  BY <1>2 DEF Watched
<1>4. ASSUME NEW c \in Calls
      PROVE  /\ Watched(h, by)[c].pc = call[c].pc
             /\ Watched(h, by)[c].auth = call[c].auth
             /\ Watched(h, by)[c].at = call[c].at
             /\ Watched(h, by)[c].answer = call[c].answer
             /\ Watched(h, by)[c].outcome = call[c].outcome
             /\ Watched(h, by)[c].doomed = call[c].doomed
             /\ Watched(h, by)[c].landed = call[c].landed
             /\ call[c].seen \subseteq Watched(h, by)[c].seen
             /\ Active(c) => h \in Watched(h, by)[c].seen
             /\ (Watched(h, by)[c].calm <=> call[c].calm /\ (Active(c) => c = by))
  BY DEF Watched, Call
<1>5. QED
  BY <1>3, <1>4

\* Going on and ending keep the type of the calls.
LEMMA GoAndEndTypes ==
  ASSUME call \in [Calls -> Call], NEW c \in Calls,
         (\E step \in AdmissionSteps \cup ExecutorSteps : Go(c, step))
           \/ (\E outcome \in Outcomes : End(c, outcome))
  PROVE  call' \in [Calls -> Call]
BY DEF Go, End, Call

\* So does going on with an answer, on calls that have watched the branch or not.
LEMMA AnswerTypes ==
  ASSUME NEW W \in [Calls -> Call], NEW c \in Calls, NEW answer \in Answers,
         NEW step \in {"idle", "done"} \cup AdmissionSteps \cup ExecutorSteps
  PROVE  /\ [W EXCEPT ![c].pc = step, ![c].answer = answer] \in [Calls -> Call]
         /\ [W EXCEPT ![c].pc = step, ![c].answer = answer, ![c].calm = FALSE] \in [Calls -> Call]
         /\ [W EXCEPT ![c].pc = step, ![c].answer = answer, ![c].landed = TRUE] \in [Calls -> Call]
<1>1. W[c] \in Call
  OBVIOUS
<1>2. [W EXCEPT ![c].pc = step, ![c].answer = answer] \in [Calls -> Call]
  BY <1>1 DEF Call
<1>3. [W EXCEPT ![c].pc = step, ![c].answer = answer, ![c].calm = FALSE] \in [Calls -> Call]
  BY <1>1 DEF Call
<1>4. [W EXCEPT ![c].pc = step, ![c].answer = answer, ![c].landed = TRUE] \in [Calls -> Call]
  BY <1>1 DEF Call
<1>5. QED
  BY <1>2, <1>3, <1>4

\* Every step of a call keeps the types.
LEMMA CallStepTypes ==
  ASSUME TypeOK, NEW c \in Calls,
         Request(c) \/ CallStep(c) \/ CallCrashes(c) \/ LateUpdate(c)
  PROVE  RepoTypeOK' /\ CallTypeOK'
<1> USE DEF RepoTypeOK, CallTypeOK
<1>0. RepoTypeOK /\ CallTypeOK /\ call[c] \in Call /\ c \in Commits /\ c \in Heads /\ Expected(c) \in Heads
  BY RequestsAssumption DEF TypeOK, Expected, Commits, Heads
<1>1. CASE Request(c)
  <2>1. call' \in [Calls -> Call]
    BY <1>0, <1>1 DEF Request, RepoRests, AdmissionSteps, Call
  <2>2. signed' \in [Requests -> Heads]
    BY <1>0, <1>1 DEF Request, RepoRests
  <2>3. QED
    BY <1>0, <1>1, <2>1, <2>2 DEF Request, RepoRests
<1>2. CASE ReadIssue(c)
  <2>1. call' \in [Calls -> Call]
    BY <1>0, <1>2, RequestsAssumption DEF ReadIssue, Reads, RepoRests, AdmissionSteps, Call
  <2>2. QED
    BY <1>0, <1>2, <2>1 DEF ReadIssue, Reads, RepoRests
<1>3. CASE ReadBase(c)
  <2>1. call' \in [Calls -> Call]
    BY <1>0, <1>3, GoAndEndTypes, Zenon DEF ReadBase, AdmissionSteps, Outcomes
  <2>2. QED
    BY <1>0, <1>3, <2>1 DEF ReadBase, Reads, RepoRests
<1>4. CASE RereadIssue(c)
  <2>1. Go(c, "baseAgain") \/ End(c, "denied")
    BY <1>4 DEF RereadIssue
  <2>2. call' \in [Calls -> Call]
    BY <1>0, <2>1, GoAndEndTypes DEF AdmissionSteps, Outcomes
  <2>3. QED
    BY <1>0, <1>4, <2>2 DEF RereadIssue, Reads, RepoRests
<1>5. CASE ReadTermination(c)
  <2>1. call' = [call EXCEPT ![c].pc = "ref", ![c].calm = TRUE] \/ End(c, "denied")
    BY <1>5 DEF ReadTermination
  <2>2. call' \in [Calls -> Call]
    BY <1>0, <2>1 DEF End, ExecutorSteps, Outcomes, Call
  <2>3. QED
    BY <1>0, <1>5, <2>2 DEF ReadTermination, Reads, RepoRests
<1>6. CASE AdmissionDenies(c)
  <2>1. call' \in [Calls -> Call]
    BY <1>0, <1>6 DEF AdmissionDenies, End, Outcomes, Call
  <2>2. QED
    BY <1>0, <1>6, <2>1, BoundsAssumption DEF AdmissionDenies, Reads, RepoRests, Fault
<1>7. CASE ReadRef(c)
  <2>1. CASE /\ head # NoCommit /\ head = Expected(c)
             /\ created' = created \cup {c}
             /\ commit' = [commit EXCEPT ![c] = [parent |-> Expected(c),
                                              tree |-> Target(commit[head].tree, ChangesOf(c))]]
             /\ call' = [call EXCEPT ![c].pc = "update", ![c].at = head]
    <3>1. ChangesOf(c) \in [Paths -> Contents \cup {Missing, Keep}]
      BY RequestsAssumption DEF ChangesOf
    <3>2. commit[head].tree \in Trees
      BY <1>0, <2>1 DEF Heads, Commit
    <3>3. Target(commit[head].tree, ChangesOf(c)) \in Trees
      BY <3>1, <3>2 DEF Target, Trees
    <3>4. commit' \in [Commits -> Commit]
      BY <1>0, <2>1, <3>3 DEF Commit
    <3>5. call' \in [Calls -> Call]
      BY <1>0, <2>1 DEF ExecutorSteps, Call
    <3>6. QED
      BY <1>0, <1>7, <2>1, <3>4, <3>5 DEF ReadRef
  <2>2. CASE /\ \E outcome \in Outcomes :
                  call' = [call EXCEPT ![c].pc = "done", ![c].at = head, ![c].outcome = outcome]
             /\ UNCHANGED <<created, commit>>
    <3>0. PICK outcome \in Outcomes :
            call' = [call EXCEPT ![c].pc = "done", ![c].at = head, ![c].outcome = outcome]
      BY <2>2
    <3>1. call' \in [Calls -> Call]
      BY <1>0, <3>0 DEF Call
    <3>2. QED
      BY <1>0, <1>7, <2>2, <3>1 DEF ReadRef
  <2>3. QED
    BY <1>7, <2>1, <2>2 DEF ReadRef, Outcomes
<1>8. CASE Update(c)
  <2>1. CASE \E answer \in Answers : Lands(c, "reread", answer)
    <3>1. PICK answer \in Answers : Lands(c, "reread", answer)
      BY <2>1
    <3>2. Watched(c, c) \in [Calls -> Call]
      BY <1>0, WatchedCalls
    <3>3. head' = c /\ call' \in [Calls -> Call]
      BY <3>1, <3>2, AnswerTypes DEF Lands, ExecutorSteps
    <3>4. QED
      BY <1>0, <1>8, <3>3, BoundsAssumption DEF Update, Fault
  <2>2. CASE /\ \E answer \in Answers : Answered(c, answer) \/ Disturbed(c, answer)
             /\ UNCHANGED head
    <3>0. PICK answer \in Answers : Answered(c, answer) \/ Disturbed(c, answer)
      BY <2>2
    <3>1. call' \in [Calls -> Call]
      <4>1. "reread" \in {"idle", "done"} \cup AdmissionSteps \cup ExecutorSteps
        BY DEF ExecutorSteps
      <4>2. /\ [call EXCEPT ![c].pc = "reread", ![c].answer = answer] \in [Calls -> Call]
            /\ [call EXCEPT ![c].pc = "reread", ![c].answer = answer, ![c].calm = FALSE] \in [Calls -> Call]
        BY <1>0, <4>1, AnswerTypes
      <4>3. QED
        BY <3>0, <4>2, Zenon DEF Answered, Disturbed
    <3>2. QED
      BY <1>0, <1>8, <2>2, <3>1, BoundsAssumption DEF Update, Fault
  <2>3. QED
    BY <1>8, <2>1, <2>2 DEF Update, Answers
<1>9. CASE LateUpdate(c)
  <2>1. CASE Lands(c, call[c].pc, call[c].answer)
    <3>1. Watched(c, c) \in [Calls -> Call]
      BY <1>0, WatchedCalls
    <3>2. call[c].pc \in {"idle", "done"} \cup AdmissionSteps \cup ExecutorSteps /\ call[c].answer \in Answers
      BY <1>0 DEF Call
    <3>3. head' = c /\ call' \in [Calls -> Call]
      BY <2>1, <3>1, <3>2, AnswerTypes DEF Lands
    <3>4. QED
      BY <1>0, <1>9, <3>3 DEF LateUpdate
  <2>2. CASE UNCHANGED <<head, call>>
    BY <1>0, <1>9, <2>2 DEF LateUpdate
  <2>3. QED
    BY <1>9, <2>1, <2>2 DEF LateUpdate
<1>10. CASE Reread(c)
  <2>1. \E outcome \in Outcomes :
          call' = [call EXCEPT ![c].pc = "done", ![c].at = head, ![c].outcome = outcome]
    <3>1. Verdict(c) \in Outcomes
      BY DEF Verdict, Outcomes
    <3>2. QED
      BY <1>10, <3>1 DEF Reread
  <2>2. PICK outcome \in Outcomes :
          call' = [call EXCEPT ![c].pc = "done", ![c].at = head, ![c].outcome = outcome]
    BY <2>1
  <2>3. call' \in [Calls -> Call]
    BY <1>0, <2>2 DEF Call
  <2>4. QED
    BY <1>0, <1>10, <2>3 DEF Reread, Reads, RepoRests
<1>11. CASE GitFails(c)
  <2>0. PICK outcome \in {"failed", "recovery-required"} :
          call' = [call EXCEPT ![c].pc = "done", ![c].outcome = outcome, ![c].calm = FALSE]
    BY <1>11 DEF GitFails
  <2>1. call' \in [Calls -> Call]
    BY <1>0, <2>0 DEF Outcomes, Call
  <2>2. QED
    BY <1>0, <1>11, <2>1, BoundsAssumption DEF GitFails, Reads, RepoRests, Fault
<1>12. CASE CallCrashes(c)
  <2>1. call' \in [Calls -> Call]
    BY <1>0, <1>12 DEF CallCrashes, Outcomes, Call
  <2>2. QED
    BY <1>0, <1>12, <2>1, BoundsAssumption DEF CallCrashes, Reads, RepoRests, Fault
<1>13. QED
  BY <1>1, <1>2, <1>3, <1>4, <1>5, <1>6, <1>7, <1>8, <1>9, <1>10, <1>11, <1>12 DEF CallStep

\* Every step of other people keeps the types.
LEMMA PeopleTypes ==
  ASSUME TypeOK,
         \/ (\E p \in Pushes : Pushed(p)) \/ Rewound \/ Deleted
         \/ (BaseMoves \/ \E t \in Tasks : ContractEdited(t)) /\ UNCHANGED callVars
  PROVE  RepoTypeOK' /\ CallTypeOK'
<1> USE DEF RepoTypeOK, CallTypeOK
<1>0. RepoTypeOK /\ CallTypeOK
  BY DEF TypeOK
<1>1. ASSUME NEW p \in Pushes, Pushed(p) PROVE RepoTypeOK' /\ CallTypeOK'
  <2>1. p \in Commits /\ p \in Heads /\ Root \in Heads
    BY DEF Commits, Heads
  <2>2. call' \in [Calls -> Call]
    BY <1>0, <1>1, <2>1, WatchedCalls DEF Pushed
  <2>3. commit' \in [Commits -> Commit]
    <3>1. CASE head = NoCommit /\ commit' = [commit EXCEPT ![p] = [parent |-> Root, tree |-> RootTree]]
      BY <1>0, <2>1, <3>1, RootTreeAssumption DEF Commit
    <3>2. CASE /\ head # NoCommit
               /\ \E q \in Paths, x \in Contents \cup {Missing} :
                    commit' = [commit EXCEPT ![p] = [parent |-> head, tree |-> [commit[head].tree EXCEPT ![q] = x]]]
      <4>1. PICK q \in Paths, x \in Contents \cup {Missing} :
              commit' = [commit EXCEPT ![p] = [parent |-> head, tree |-> [commit[head].tree EXCEPT ![q] = x]]]
        BY <3>2
      <4>2. commit[head].tree \in Trees
        BY <1>0, <3>2 DEF Heads, Commit
      <4>3. [commit[head].tree EXCEPT ![q] = x] \in Trees
        BY <4>2 DEF Trees
      <4>4. QED
        BY <1>0, <2>1, <4>1, <4>3 DEF Commit
    <3>3. QED
      BY <1>1, <3>1, <3>2 DEF Pushed
  <2>4. QED
    BY <1>0, <1>1, <2>1, <2>2, <2>3 DEF Pushed
<1>2. CASE Rewound
  <2>1. Visited \subseteq Heads
    BY DEF Visited, Heads, Commits
  <2>2. QED
    BY <1>0, <1>2, <2>1, WatchedCalls, BoundsAssumption DEF Rewound
<1>3. CASE Deleted
  <2>1. NoCommit \in Heads
    BY DEF Heads
  <2>2. QED
    BY <1>0, <1>3, <2>1, WatchedCalls DEF Deleted
<1>4. CASE BaseMoves /\ UNCHANGED callVars
  BY <1>0, <1>4, BoundsAssumption DEF BaseMoves, callVars
<1>5. ASSUME NEW t \in Tasks, ContractEdited(t), UNCHANGED callVars PROVE RepoTypeOK' /\ CallTypeOK'
  <2>1. UNCHANGED callVars
    BY <1>5
  <2>2. PICK b \in {contract[t].base, base} :
          contract' = [contract EXCEPT ![t] = [edit |-> contract[t].edit + 1, base |-> b]]
    BY <1>5 DEF ContractEdited
  <2>3. contract[t] \in Authorization /\ contract[t].edit < MaxEdits
    BY <1>0, <1>5 DEF ContractEdited
  <2>4. [edit |-> contract[t].edit + 1, base |-> b] \in Authorization
    BY <1>0, <2>3, BoundsAssumption DEF Authorization
  <2>5. QED
    BY <1>0, <1>5, <2>1, <2>2, <2>4 DEF ContractEdited, callVars
<1>6. QED
  BY <1>1, <1>2, <1>3, <1>4, <1>5

\* Every step of a finalization keeps the types.
LEMMA FinalStepTypes ==
  ASSUME TypeOK, FinalNext, UNCHANGED callVars
  PROVE  TypeOK'
<1> USE DEF RepoTypeOK, FinalTypeOK
<1>0. RepoTypeOK /\ FinalTypeOK
  BY DEF TypeOK
<1>1. CallTypeOK'
  BY DEF TypeOK, CallTypeOK, callVars
<1>2. SUFFICES ASSUME NEW f \in Finalizers,
                      Finalize(f) \/ FinalReadIssue(f) \/ FinalReadBase(f) \/ Snapshot(f)
                        \/ FinalUpdate(f) \/ LateRecord(f) \/ FinalProof(f) \/ FinalFails(f)
                        \/ FinalCrashes(f)
               PROVE  RepoTypeOK' /\ FinalTypeOK'
  BY <1>1 DEF FinalNext, TypeOK
<1>3. TaskOf[f] \in Tasks /\ contract[TaskOf[f]] \in Authorization /\ fin[f] \in Finalization
  BY <1>0, TaskOfAssumption
<1>4. ASSUME NEW step \in FinalSteps, FinalGo(f, step) PROVE FinalTypeOK'
  BY <1>0, <1>4 DEF FinalGo, Finalization
<1>5. ASSUME NEW outcome \in {"success", "denied", "possible-effect", "crashed"}, Finish(f, outcome)
      PROVE  FinalTypeOK'
  BY <1>0, <1>5 DEF Finish, Finalization
<1>6. CASE Finalize(f)
  <2>1. FinalTypeOK'
    BY <1>0, <1>3, <1>6 DEF Finalize, FinalSteps, Finalization
  <2>2. QED
    BY <1>0, <1>6, <2>1 DEF Finalize, WorkRests, MetadataRests
<1>7. CASE FinalReadIssue(f)
  <2>1. FinalTypeOK'
    BY <1>4, <1>5, <1>7, Zenon DEF FinalReadIssue, FinalSteps
  <2>2. QED
    BY <1>0, <1>7, <2>1 DEF FinalReadIssue, WorkRests, MetadataRests
<1>8. CASE FinalReadBase(f)
  <2>1. FinalTypeOK'
    BY <1>4, <1>5, <1>8, Zenon DEF FinalReadBase, FinalSteps
  <2>2. QED
    BY <1>0, <1>8, <2>1 DEF FinalReadBase, WorkRests, MetadataRests
<1>9. CASE Snapshot(f)
  <2>1. BookWith(f) \in [Tasks -> Authorization]
    <3>1. \A t \in Tasks : Record(t) \in Authorization
      BY <1>0, BoundsAssumption DEF Record, NoRecord, Authorization
    <3>2. fin[f].auth \in Authorization
      BY <1>3 DEF Finalization
    <3>3. QED
      BY <1>3, <3>1, <3>2 DEF BookWith
  <2>2. CASE /\ fin' = [fin EXCEPT ![f].pc = "recheck", ![f].before = metadata]
             /\ book' = [book EXCEPT ![f] = BookWith(f)]
    <3>0. metadata \in Finalizers \cup {NoCommit} /\ "recheck" \in FinalSteps
      BY <1>0 DEF FinalSteps
    <3>1. FinalTypeOK'
      BY <1>0, <2>2, <3>0 DEF Finalization
    <3>2. book' \in [Finalizers -> [Tasks -> Authorization]]
      BY <1>0, <2>1, <2>2
    <3>3. QED
      BY <1>0, <1>9, <3>1, <3>2 DEF Snapshot, WorkRests
  <2>3. CASE (Finish(f, "success") \/ Finish(f, "denied")) /\ UNCHANGED book
    <3>1. FinalTypeOK'
      BY <1>5, <2>3
    <3>2. QED
      BY <1>0, <1>9, <2>3, <3>1 DEF Snapshot, WorkRests
  <2>4. QED
    BY <1>9, <2>2, <2>3 DEF Snapshot
<1>10. CASE FinalUpdate(f)
  <2>1. FinalTypeOK'
    BY <1>4, <1>10 DEF FinalUpdate, FinalSteps
  <2>2. QED
    BY <1>0, <1>10, <2>1, BoundsAssumption DEF FinalUpdate, WorkRests, Fault
<1>11. CASE LateRecord(f)
  BY <1>0, <1>11 DEF LateRecord, WorkRests
<1>12. CASE FinalProof(f)
  <2>1. FinalTypeOK'
    BY <1>5, <1>12 DEF FinalProof
  <2>2. QED
    BY <1>0, <1>12, <2>1 DEF FinalProof, WorkRests, MetadataRests
<1>13. CASE FinalFails(f)
  <2>1. FinalTypeOK'
    BY <1>5, <1>13 DEF FinalFails
  <2>2. QED
    BY <1>0, <1>13, <2>1, BoundsAssumption DEF FinalFails, WorkRests, MetadataRests, Fault
<1>14. CASE FinalCrashes(f)
  <2>1. FinalTypeOK'
    BY <1>5, <1>14 DEF FinalCrashes
  <2>2. QED
    BY <1>0, <1>14, <2>1, BoundsAssumption DEF FinalCrashes, WorkRests, MetadataRests, Fault
<1>15. QED
  BY <1>2, <1>6, <1>7, <1>8, <1>9, <1>10, <1>11, <1>12, <1>13, <1>14

\* The initial state has the types.
LEMMA InitialTypes == Init => TypeOK
<1> SUFFICES ASSUME Init PROVE TypeOK
  OBVIOUS
<1>1. RepoTypeOK
  <2>1. NoRecord \in Authorization
    BY BoundsAssumption DEF NoRecord, Authorization
  <2>2. [edit |-> 1, base |-> 1] \in Authorization
    BY BoundsAssumption DEF Authorization
  <2>3. [parent |-> NoCommit, tree |-> RootTree] \in Commit
    BY RootTreeAssumption DEF Commit, Heads
  <2>4. QED
    BY <2>1, <2>2, <2>3, BoundsAssumption DEF Init, RepoInit, RepoTypeOK, Heads, Commits
<1>2. CallTypeOK
  <2>1. Unused \in Call
    BY BoundsAssumption DEF Unused, Call, NoRecord, Authorization, Heads, Answers, Outcomes
  <2>2. QED
    BY <2>1, BoundsAssumption DEF Init, CallInit, CallTypeOK, Heads
<1>3. FinalTypeOK
  BY BoundsAssumption DEF Init, FinalInit, FinalTypeOK, Finalization, NoRecord, Authorization
<1>4. QED
  BY <1>1, <1>2, <1>3 DEF TypeOK

\* Every step keeps the types.
LEMMA TypesKept == TypeOK /\ [Next]_vars => TypeOK'
<1> SUFFICES ASSUME TypeOK, [Next]_vars PROVE TypeOK'
  OBVIOUS
<1>1. CASE UNCHANGED vars
  BY <1>1 DEF vars, repoVars, callVars, TypeOK, RepoTypeOK, CallTypeOK, FinalTypeOK
<1>2. CASE BranchNext /\ UNCHANGED fin
  <2>1. RepoTypeOK' /\ CallTypeOK'
    <3>1. ASSUME NEW c \in Calls, Request(c) \/ CallStep(c) \/ CallCrashes(c) \/ LateUpdate(c)
          PROVE  RepoTypeOK' /\ CallTypeOK'
      BY <3>1, CallStepTypes
    <3>2. CASE (\E p \in Pushes : Pushed(p)) \/ Rewound \/ Deleted
      BY <3>2, PeopleTypes
    <3>3. QED
      BY <1>2, <3>1, <3>2 DEF BranchNext
  <2>2. QED
    BY <1>2, <2>1 DEF TypeOK, FinalTypeOK
<1>3. CASE FinalNext /\ UNCHANGED callVars
  BY <1>3, FinalStepTypes
<1>4. CASE (BaseMoves \/ \E t \in Tasks : ContractEdited(t)) /\ UNCHANGED <<callVars, fin>>
  <2>1. RepoTypeOK' /\ CallTypeOK'
    BY <1>4, PeopleTypes
  <2>2. QED
    BY <1>4, <2>1 DEF TypeOK, FinalTypeOK
<1>5. QED
  BY <1>1, <1>2, <1>3, <1>4 DEF Next

\* Repository, calls and finalizations keep their types in every behaviour.
THEOREM TypeCorrect == Spec => []TypeOK
<1>1. QED
  BY InitialTypes, TypesKept, PTL DEF Spec
-----------------------------------------------------------------------------
(* Termination records. *)

BookOf(m) == IF m = NoCommit THEN [t \in Tasks |-> NoRecord] ELSE book[m]
Past(f) == fin[f].pc \in {"afterBase", "afterMetadata", "done"}
Prepared(f) == fin[f].pc \in {"recheck", "update", "afterBase", "afterMetadata"} \/ f \in late

\* Whoever may still publish a commit has built it on a published one: its
\* records, and one for a task that had none.
PreparedWell(f) ==
  /\ fin[f].before # NoCommit => Past(fin[f].before)
  /\ BookOf(fin[f].before)[TaskOf[f]] = NoRecord
  /\ \A t \in Tasks : book[f][t] = IF t = TaskOf[f] THEN fin[f].auth ELSE BookOf(fin[f].before)[t]

FinalInv ==
  /\ metadata # NoCommit => Past(metadata)
  /\ \A f \in Finalizers :
       /\ f \in late => Past(f)
       /\ Prepared(f) => PreparedWell(f)
       /\ fin[f].pc # "done" => fin[f].outcome = "none"
       /\ fin[f].pc # "idle" => fin[f].auth.edit >= 1
       /\ fin[f].outcome = "success" => Holds(f)
  /\ \A t \in Tasks : contract[t].edit >= 1

\* Nothing is terminated or being terminated at the start.
LEMMA InitialFinalInv == Init => FinalInv
BY BoundsAssumption DEF Init, RepoInit, FinalInit, FinalInv, Prepared

\* A step that publishes nothing keeps what is published.
LEMMA FinalStepsOfOthers ==
  ASSUME TypeOK, FinalInv, UNCHANGED <<metadata, book, fin>>,
         \A f \in Finalizers : f \in late' => f \in late,
         \A t \in Tasks : contract'[t].edit >= 1
  PROVE  FinalInv'
<1>1. \A f \in Finalizers : Prepared(f)' => Prepared(f)
  BY DEF Prepared
<1>2. \A f \in Finalizers : PreparedWell(f) => PreparedWell(f)'
  BY DEF PreparedWell, Past, BookOf
<1>3. \A f \in Finalizers : Holds(f) => Holds(f)'
  BY DEF Holds, Record
<1>4. QED
  BY <1>1, <1>2, <1>3 DEF FinalInv, Past

\* The publication of a prepared commit leaves every record as it is.
LEMMA PublishingKeepsRecords ==
  ASSUME TypeOK, FinalInv, NEW f \in Finalizers, Prepared(f), AcceptsRecord(f), metadata' = f, UNCHANGED book
  PROVE  /\ \A t \in Tasks : Record(t) # NoRecord => Record(t)' = Record(t)
         /\ Record(TaskOf[f])' = fin[f].auth
<1>0. f # NoCommit /\ TaskOf[f] \in Tasks
  BY CommitsAssumption, TaskOfAssumption
<1>1. PreparedWell(f) /\ fin[f].before = metadata
  BY DEF FinalInv, AcceptsRecord
<1>2. \A t \in Tasks : Record(t) = BookOf(metadata)[t]
  BY DEF Record, BookOf
<1>3. \A t \in Tasks : Record(t)' = book[f][t]
  BY <1>0 DEF Record
<1>4. QED
  BY <1>0, <1>1, <1>2, <1>3 DEF PreparedWell

\* What a finalization may do without touching the metadata branch.
LEMMA FinalStepsBesides ==
  ASSUME TypeOK, FinalInv, NEW f \in Finalizers,
         UNCHANGED <<metadata, book, contract>>, \A g \in Finalizers : g \in late' => g \in late,
         NEW step, NEW outcome, NEW auth,
         fin'[f].pc = step, fin'[f].outcome = outcome, fin'[f].auth = auth, fin'[f].before = fin[f].before,
         \A g \in Finalizers \ {f} : fin'[g] = fin[g],
         Past(f) => step \in {"afterBase", "afterMetadata", "done"},
         step \in {"recheck", "update", "afterBase", "afterMetadata"} => Prepared(f),
         step # "done" => outcome = "none",
         step # "idle" => auth.edit >= 1,
         fin[f].pc # "idle" => auth = fin[f].auth,
         f \in late => step # "idle",
         outcome = "success" => Record(TaskOf[f]) = auth
  PROVE  /\ \A t \in Tasks : Record(t) # NoRecord => Record(t)' = Record(t)
         /\ FinalInv'
<1>0. /\ TaskOf[f] \in Tasks /\ f # NoCommit /\ fin \in [Finalizers -> Finalization]
      /\ metadata \in Finalizers \cup {NoCommit}
      /\ book \in [Finalizers -> [Tasks -> Authorization]]
      /\ \A t \in Tasks : contract[t].edit >= 1
  BY TaskOfAssumption, CommitsAssumption DEF TypeOK, RepoTypeOK, FinalTypeOK, FinalInv
<1>1. \A t \in Tasks : Record(t)' = Record(t)
  BY DEF Record
<1>2. /\ fin'[f].pc = step /\ fin'[f].outcome = outcome /\ fin'[f].auth = auth
      /\ fin'[f].before = fin[f].before
  BY <1>0 DEF Finalization
<1>3. \A g \in Finalizers : Past(g) => Past(g)'
  BY <1>2 DEF Past
<1>4. \A g \in Finalizers : Prepared(g)' => Prepared(g)
  BY <1>2 DEF Prepared
<1>5. ASSUME NEW g \in Finalizers, Prepared(g) PROVE PreparedWell(g)'
  <2>1. PreparedWell(g)
    BY <1>5 DEF FinalInv
  <2>2. fin'[g].auth = fin[g].auth /\ fin'[g].before = fin[g].before
    BY <1>2, <1>5 DEF Prepared, FinalInv, Past
  <2>3. BookOf(fin[g].before)' = BookOf(fin[g].before)
    BY <2>2 DEF BookOf
  <2>4. fin[g].before \in Finalizers \cup {NoCommit}
    BY <1>0 DEF Finalization
  <2>5. QED
    BY <1>3, <2>1, <2>2, <2>3, <2>4 DEF PreparedWell
<1>6. metadata' # NoCommit => Past(metadata)'
  BY <1>0, <1>3 DEF FinalInv, Past
<1>7. ASSUME NEW g \in Finalizers
      PROVE  /\ g \in late' => Past(g)'
             /\ fin'[g].pc # "done" => fin'[g].outcome = "none"
             /\ fin'[g].pc # "idle" => fin'[g].auth.edit >= 1
             /\ fin'[g].outcome = "success" => Holds(g)'
  <2>1. CASE g = f
    BY <1>0, <1>1, <1>2, <1>3, <2>1 DEF FinalInv, Holds
  <2>2. CASE g # f
    <3>1. Holds(g) => Holds(g)'
      BY <1>1, <1>7, <2>2, TaskOfAssumption DEF Holds
    <3>2. QED
      BY <1>3, <2>2, <3>1 DEF FinalInv
  <2>3. QED
    BY <2>1, <2>2
<1>8. \A t \in Tasks : contract'[t].edit >= 1
  BY <1>0
<1>9. QED
  BY <1>1, <1>4, <1>5, <1>6, <1>7, <1>8 DEF FinalInv

\* The update of the metadata branch, at once or late, applied or not.
LEMMA FinalStepsPublishing ==
  ASSUME TypeOK, FinalInv, NEW f \in Finalizers, Prepared(f),
         UNCHANGED <<book, contract>>,
         metadata' = metadata \/ (AcceptsRecord(f) /\ metadata' = f),
         fin'[f] = fin[f] \/ (fin[f].pc = "update" /\ fin'[f] = [fin[f] EXCEPT !.pc = "afterBase"]),
         \A g \in Finalizers \ {f} : fin'[g] = fin[g],
         \A g \in Finalizers : g \in late' => g \in late \/ g = f,
         Past(f)'
  PROVE  /\ \A t \in Tasks : Record(t) # NoRecord => Record(t)' = Record(t)
         /\ FinalInv'
<1>0. /\ f # NoCommit /\ fin \in [Finalizers -> Finalization]
      /\ metadata \in Finalizers \cup {NoCommit}
      /\ \A t \in Tasks : contract[t].edit >= 1
  BY CommitsAssumption DEF TypeOK, RepoTypeOK, FinalTypeOK, FinalInv
<1>1. \A t \in Tasks : Record(t) # NoRecord => Record(t)' = Record(t)
  <2>1. CASE metadata' = metadata
    BY <2>1 DEF Record
  <2>2. CASE AcceptsRecord(f) /\ metadata' = f
    BY <2>2, PublishingKeepsRecords
  <2>3. QED
    BY <2>1, <2>2
<1>2. ASSUME NEW g \in Finalizers
      PROVE  /\ fin'[g].outcome = fin[g].outcome /\ fin'[g].auth = fin[g].auth
             /\ fin'[g].before = fin[g].before
             /\ fin[g].pc # "idle" <=> fin'[g].pc # "idle"
             /\ fin[g].pc = "done" <=> fin'[g].pc = "done"
             /\ Past(g) => Past(g)'
             /\ g # f => (Past(g)' => Past(g))
  BY <1>0 DEF Finalization, Past
<1>3. \A g \in Finalizers : Prepared(g)' => Prepared(g)
  BY <1>2 DEF Prepared
<1>4. ASSUME NEW g \in Finalizers, Prepared(g) PROVE PreparedWell(g)'
  <2>1. PreparedWell(g)
    BY <1>4 DEF FinalInv
  <2>2. BookOf(fin[g].before)' = BookOf(fin[g].before)
    BY <1>2 DEF BookOf
  <2>3. fin[g].before \in Finalizers \cup {NoCommit}
    BY <1>0 DEF Finalization
  <2>4. QED
    BY <1>2, <2>1, <2>2, <2>3 DEF PreparedWell
<1>5. metadata' # NoCommit => Past(metadata)'
  BY <1>0, <1>2 DEF FinalInv, Past
<1>6. ASSUME NEW g \in Finalizers
      PROVE  /\ g \in late' => Past(g)'
             /\ fin'[g].pc # "done" => fin'[g].outcome = "none"
             /\ fin'[g].pc # "idle" => fin'[g].auth.edit >= 1
  BY <1>2 DEF FinalInv
<1>7. ASSUME NEW g \in Finalizers, fin'[g].outcome = "success" PROVE Holds(g)'
  <2>1. Holds(g) /\ fin[g].auth.edit >= 1 /\ TaskOf[g] \in Tasks
    BY <1>2, <1>7, TaskOfAssumption DEF FinalInv
  <2>2. Record(TaskOf[g]) # NoRecord
    BY <2>1 DEF Holds, NoRecord
  <2>3. QED
    BY <1>1, <1>2, <2>1, <2>2 DEF Holds
<1>8. \A t \in Tasks : contract'[t].edit >= 1
  BY <1>0
<1>9. QED
  BY <1>1, <1>3, <1>4, <1>5, <1>6, <1>7, <1>8 DEF FinalInv

\* The creation of a commit from a snapshot.
LEMMA SnapshotPrepares ==
  ASSUME TypeOK, FinalInv, NEW f \in Finalizers, FinalAt(f, "snapMetadata"), Record(TaskOf[f]) = NoRecord,
         fin' = [fin EXCEPT ![f].pc = "recheck", ![f].before = metadata],
         book' = [book EXCEPT ![f] = BookWith(f)],
         UNCHANGED <<metadata, contract, late>>
  PROVE  /\ \A t \in Tasks : Record(t)' = Record(t)
         /\ FinalInv'
<1>0. /\ f # NoCommit /\ fin \in [Finalizers -> Finalization] /\ TaskOf[f] \in Tasks
      /\ metadata \in Finalizers \cup {NoCommit}
      /\ book \in [Finalizers -> [Tasks -> Authorization]]
      /\ fin[f].pc = "snapMetadata"
  BY CommitsAssumption, TaskOfAssumption DEF TypeOK, RepoTypeOK, FinalTypeOK, FinalAt
<1>1. /\ fin'[f].pc = "recheck" /\ fin'[f].before = metadata /\ fin'[f].auth = fin[f].auth
      /\ fin'[f].outcome = fin[f].outcome
      /\ \A g \in Finalizers \ {f} : fin'[g] = fin[g] /\ book'[g] = book[g]
      /\ book'[f] = BookWith(f)
  BY <1>0 DEF Finalization
<1>2. ~Past(f) /\ f \notin late
  BY <1>0 DEF Past, FinalInv
<1>3. \A g \in Finalizers : Past(g) => Past(g)' /\ g # f /\ book'[g] = book[g]
  BY <1>1, <1>2 DEF Past
<1>4. \A t \in Tasks : Record(t)' = Record(t)
  BY <1>0, <1>3 DEF FinalInv, Record
<1>5. ASSUME NEW g \in Finalizers, g # f, Prepared(g)' PROVE PreparedWell(g)'
  <2>1. Prepared(g)
    BY <1>1, <1>5 DEF Prepared
  <2>2. PreparedWell(g)
    BY <2>1 DEF FinalInv
  <2>3. fin[g].before \in Finalizers \cup {NoCommit}
    BY <1>0 DEF Finalization
  <2>4. BookOf(fin[g].before)' = BookOf(fin[g].before)
    BY <1>1, <1>3, <1>5, <2>2, <2>3 DEF BookOf, PreparedWell
  <2>5. QED
    BY <1>1, <1>3, <1>5, <2>2, <2>3, <2>4 DEF PreparedWell
<1>6. PreparedWell(f)'
  <2>1. BookOf(metadata)' = BookOf(metadata)
    BY <1>0, <1>3 DEF BookOf, FinalInv
  <2>2. \A t \in Tasks : Record(t) = BookOf(metadata)[t]
    BY DEF Record, BookOf
  <2>3. \A t \in Tasks : BookWith(f)[t] = IF t = TaskOf[f] THEN fin[f].auth ELSE BookOf(metadata)[t]
    BY <1>0, <2>2 DEF BookWith
  <2>4. metadata # NoCommit => Past(metadata)'
    BY <1>0, <1>3 DEF FinalInv
  <2>5. QED
    BY <1>0, <1>1, <2>1, <2>2, <2>3, <2>4 DEF PreparedWell, Past
<1>7. metadata' # NoCommit => Past(metadata)'
  BY <1>0, <1>3 DEF FinalInv, Past
<1>8. ASSUME NEW g \in Finalizers
      PROVE  /\ g \in late' => Past(g)'
             /\ fin'[g].pc # "done" => fin'[g].outcome = "none"
             /\ fin'[g].pc # "idle" => fin'[g].auth.edit >= 1
             /\ fin'[g].outcome = "success" => Holds(g)'
  <2>1. CASE g = f
    BY <1>0, <1>1, <1>2, <2>1 DEF FinalInv
  <2>2. CASE g # f
    <3>1. Holds(g) => Holds(g)'
      BY <1>1, <1>4, <2>2, TaskOfAssumption DEF Holds
    <3>2. QED
      BY <1>1, <1>3, <2>2, <3>1 DEF FinalInv
  <2>3. QED
    BY <2>1, <2>2
<1>9. \A t \in Tasks : contract'[t].edit >= 1
  BY DEF FinalInv
<1>10. QED
  BY <1>4, <1>5, <1>6, <1>7, <1>8, <1>9 DEF FinalInv

\* Every step of a finalization keeps the records and what is known of them.
LEMMA FinalStepKeepsRecords ==
  ASSUME TypeOK, FinalInv, NEW f \in Finalizers,
         Finalize(f) \/ FinalReadIssue(f) \/ FinalReadBase(f) \/ Snapshot(f)
           \/ FinalUpdate(f) \/ LateRecord(f) \/ FinalProof(f) \/ FinalFails(f) \/ FinalCrashes(f)
  PROVE  /\ \A t \in Tasks : Record(t) # NoRecord => Record(t)' = Record(t)
         /\ FinalInv'
<1>0. /\ TaskOf[f] \in Tasks /\ f # NoCommit /\ fin \in [Finalizers -> Finalization]
      /\ metadata \in Finalizers \cup {NoCommit}
      /\ book \in [Finalizers -> [Tasks -> Authorization]]
      /\ \A t \in Tasks : contract[t].edit >= 1
  BY TaskOfAssumption, CommitsAssumption DEF TypeOK, RepoTypeOK, FinalTypeOK, FinalInv
<1>1. ASSUME UNCHANGED <<metadata, book, contract, late>>, NEW step \in FinalSteps, FinalGo(f, step),
             fin[f].pc # "idle", Past(f) => step \in {"afterBase", "afterMetadata"}, fin[f].pc # "done",
             step \in {"recheck", "update", "afterBase", "afterMetadata"} => Prepared(f)
      PROVE  /\ \A t \in Tasks : Record(t) # NoRecord => Record(t)' = Record(t)
             /\ FinalInv'
  <2>1. /\ fin'[f].pc = step /\ fin'[f].outcome = fin[f].outcome /\ fin'[f].auth = fin[f].auth
        /\ fin'[f].before = fin[f].before
        /\ \A g \in Finalizers \ {f} : fin'[g] = fin[g]
    BY <1>0, <1>1 DEF FinalGo, Finalization
  <2>2. fin[f].outcome = "none" /\ fin[f].auth.edit >= 1
    BY <1>1 DEF FinalInv
  <2>3. step # "idle" /\ step # "done"
    BY <1>1 DEF FinalSteps
  <2>4. QED
    BY <1>1, <2>1, <2>2, <2>3, FinalStepsBesides
<1>2. ASSUME UNCHANGED <<metadata, book, contract, late>>,
             NEW outcome \in {"success", "denied", "possible-effect", "crashed"}, Finish(f, outcome),
             fin[f].pc # "idle", outcome = "success" => Holds(f)
      PROVE  /\ \A t \in Tasks : Record(t) # NoRecord => Record(t)' = Record(t)
             /\ FinalInv'
  <2>1. /\ fin'[f].pc = "done" /\ fin'[f].outcome = outcome /\ fin'[f].auth = fin[f].auth
        /\ fin'[f].before = fin[f].before
        /\ \A g \in Finalizers \ {f} : fin'[g] = fin[g]
    BY <1>0, <1>2 DEF Finish, Finalization
  <2>2. fin[f].auth.edit >= 1
    BY <1>2 DEF FinalInv
  <2>3. outcome = "success" => Record(TaskOf[f]) = fin[f].auth
    BY <1>2 DEF Holds
  <2>4. QED
    BY <1>2, <2>1, <2>2, <2>3, FinalStepsBesides
<1>3. CASE Finalize(f)
  <2>1. UNCHANGED <<metadata, book, contract, late>> /\ fin[f].pc = "idle" /\ contract[TaskOf[f]].edit >= 1
    BY <1>0, <1>3 DEF Finalize, FinalAt, WorkRests, MetadataRests
  <2>2. /\ fin'[f].pc = "issue" /\ fin'[f].outcome = "none" /\ fin'[f].auth = contract[TaskOf[f]]
        /\ fin'[f].before = fin[f].before
        /\ \A g \in Finalizers \ {f} : fin'[g] = fin[g]
    <3>1. fin[f].outcome = "none"
      BY <2>1 DEF FinalInv
    <3>2. QED
      BY <1>0, <1>3, <3>1 DEF Finalize, Finalization
  <2>3. ~Past(f) /\ f \notin late
    BY <2>1 DEF FinalInv, Past
  <2>4. QED
    BY <2>1, <2>2, <2>3, FinalStepsBesides
<1>4. CASE FinalReadIssue(f)
  <2>1. /\ UNCHANGED <<metadata, book, contract, late>> /\ fin[f].pc = "issue"
        /\ FinalGo(f, "base") \/ Finish(f, "denied")
    BY <1>4 DEF FinalReadIssue, FinalAt, WorkRests, MetadataRests
  <2>2. ~Past(f)
    BY <2>1 DEF Past
  <2>3. QED
    BY <1>1, <1>2, <2>1, <2>2 DEF FinalSteps
<1>5. CASE FinalReadBase(f)
  <2>1. UNCHANGED <<metadata, book, contract, late>>
    BY <1>5 DEF FinalReadBase, WorkRests, MetadataRests
  <2>2. \/ fin[f].pc = "base" /\ (FinalGo(f, "snapBase") \/ Finish(f, "denied"))
        \/ fin[f].pc = "snapBase" /\ (FinalGo(f, "snapMetadata") \/ Finish(f, "denied"))
        \/ fin[f].pc = "recheck" /\ (FinalGo(f, "update") \/ Finish(f, "denied"))
        \/ fin[f].pc = "afterBase" /\ (FinalGo(f, "afterMetadata") \/ Finish(f, "possible-effect"))
    BY <1>5 DEF FinalReadBase, FinalAt
  <2>3. CASE Finish(f, "denied") \/ Finish(f, "possible-effect")
    BY <1>2, <2>1, <2>2, <2>3
  <2>4. CASE fin[f].pc \in {"base", "snapBase"} /\ (FinalGo(f, "snapBase") \/ FinalGo(f, "snapMetadata"))
    BY <1>1, <2>1, <2>4 DEF FinalSteps, Past
  <2>5. CASE fin[f].pc = "recheck" /\ FinalGo(f, "update")
    BY <1>1, <2>1, <2>5 DEF FinalSteps, Past, Prepared
  <2>6. CASE fin[f].pc = "afterBase" /\ FinalGo(f, "afterMetadata")
    BY <1>1, <2>1, <2>6 DEF FinalSteps, Past, Prepared
  <2>7. QED
    BY <2>2, <2>3, <2>4, <2>5, <2>6
<1>6. CASE Snapshot(f)
  <2>1. UNCHANGED <<metadata, contract, late>> /\ FinalAt(f, "snapMetadata") /\ fin[f].pc # "idle"
    BY <1>6 DEF Snapshot, FinalAt, WorkRests
  <2>2. CASE Record(TaskOf[f]) = NoRecord
    BY <1>6, <2>1, <2>2, SnapshotPrepares DEF Snapshot
  <2>3. CASE Record(TaskOf[f]) # NoRecord
    <3>1. ((Finish(f, "success") /\ Holds(f)) \/ Finish(f, "denied")) /\ UNCHANGED book
      BY <1>6, <2>3 DEF Snapshot
    <3>2. QED
      BY <1>2, <2>1, <3>1
  <2>4. QED
    BY <2>2, <2>3
<1>7. CASE FinalUpdate(f)
  <2>1. /\ UNCHANGED <<book, contract>> /\ fin[f].pc = "update"
        /\ metadata' = metadata \/ (AcceptsRecord(f) /\ metadata' = f)
        /\ late' = late \/ late' = late \cup {f}
    BY <1>7 DEF FinalUpdate, FinalAt, WorkRests
  <2>2. /\ fin'[f] = [fin[f] EXCEPT !.pc = "afterBase"]
        /\ \A g \in Finalizers \ {f} : fin'[g] = fin[g]
    BY <1>0, <1>7 DEF FinalUpdate, FinalGo
  <2>3. Prepared(f) /\ Past(f)'
    BY <1>0, <2>1, <2>2 DEF Prepared, Past, Finalization
  <2>4. QED
    BY <2>1, <2>2, <2>3, FinalStepsPublishing
<1>8. CASE LateRecord(f)
  <2>1. /\ UNCHANGED <<book, contract, fin>> /\ f \in late
        /\ metadata' = metadata \/ (AcceptsRecord(f) /\ metadata' = f)
        /\ late' = late \ {f}
    BY <1>8 DEF LateRecord, WorkRests
  <2>2. Prepared(f) /\ Past(f)'
    BY <2>1 DEF Prepared, Past, FinalInv
  <2>3. QED
    BY <2>1, <2>2, FinalStepsPublishing
<1>9. CASE FinalProof(f)
  <2>1. /\ UNCHANGED <<metadata, book, contract, late>> /\ fin[f].pc = "afterMetadata"
        /\ (Finish(f, "success") /\ Holds(f)) \/ Finish(f, "possible-effect")
    BY <1>9 DEF FinalProof, ProvesRecord, FinalAt, WorkRests, MetadataRests
  <2>2. QED
    BY <1>2, <2>1
<1>10. CASE FinalFails(f)
  <2>1. /\ UNCHANGED <<metadata, book, contract, late>> /\ fin[f].pc # "idle"
        /\ Finish(f, "denied") \/ Finish(f, "possible-effect")
    BY <1>10 DEF FinalFails, WorkRests, MetadataRests
  <2>2. QED
    BY <1>2, <2>1
<1>11. CASE FinalCrashes(f)
  <2>1. UNCHANGED <<metadata, book, contract, late>> /\ fin[f].pc # "idle" /\ Finish(f, "crashed")
    BY <1>11 DEF FinalCrashes, FinalSteps, WorkRests, MetadataRests
  <2>2. QED
    BY <1>2, <2>1
<1>12. QED
  BY <1>3, <1>4, <1>5, <1>6, <1>7, <1>8, <1>9, <1>10, <1>11
-----------------------------------------------------------------------------
(* The leaf branch and its calls. *)

\* Where the branch has been, and its absence.
Been == {NoCommit} \cup Visited

\* The commit of a call is the requested change of the expected head.
MadeWell(c) ==
  /\ commit[c].parent = Expected(c) /\ Expected(c) \in created /\ Expected(c) # c
  /\ commit[c].tree = Target(commit[Expected(c)].tree, ChangesOf(c))
  /\ Executable(c, commit[Expected(c)].tree)

CommitsWell ==
  /\ Root \in created /\ head \in Been
  /\ \A r \in Requests : signed[r] \in Been
  /\ \A x \in created : commit[x].parent \in Been
  /\ \A c \in Calls : c \in created => MadeWell(c)

\* As long as nobody forces the branch back it never returns to where an update was applied.
NeverBack == rewinds = 0 => \A c \in Calls : call[c].landed => head # commit[c].parent

Staged(c) ==
  /\ call[c].pc \in {"idle", "ref"} \cup AdmissionSteps => c \notin created
  /\ call[c].pc # "done" => call[c].outcome = "none"
  /\ call[c].pc # "idle" => Expected(c) # NoCommit
  /\ call[c].pc \in {"update", "reread"} \/ call[c].landed \/ c \in late => c \in created
  /\ c \in late => call[c].pc \in {"reread", "done"} /\ ~call[c].calm
  /\ call[c].pc \in {"idle"} \cup AdmissionSteps => ~call[c].calm

Proven(c) ==
  /\ call[c].at \in call[c].seen /\ call[c].at \in created /\ Expected(c) \in created
  /\ commit[call[c].at].tree = Target(commit[Expected(c)].tree, ChangesOf(c))

Watching(c) ==
  /\ Active(c) => head \in call[c].seen
  /\ call[c].outcome \in Succeeded => Proven(c)

\* What RetryResolves asks for.
Resolvable(c) ==
  \/ call[c].at = Expected(c) /\ Executable(c, commit[Expected(c)].tree)
  \/ \E d \in Calls : RequestOf[d] = RequestOf[c] /\ call[c].at = d

Undisturbed(c) ==
  call[c].calm =>
    /\ call[c].pc = "update" => head = Expected(c)
    /\ call[c].pc = "reread" => head = c
    /\ call[c].pc = "done" /\ Resolvable(c) => call[c].outcome \in Succeeded

Barred(c) ==
  call[c].doomed =>
    /\ Record(Task) # NoRecord
    /\ call[c].pc \in AdmissionSteps \cup {"done"}
    /\ call[c].outcome \in {"none", "denied", "crashed"}
    /\ ~call[c].landed /\ c \notin late

CallWell(c) == Staged(c) /\ Watching(c) /\ Undisturbed(c) /\ Barred(c)

BranchInv ==
  /\ CommitsWell
  /\ NeverBack
  /\ AppliedAtMostOnce
  /\ \A c \in Calls : CallWell(c)

\* The branch is where it started, and no call has begun.
LEMMA InitialBranchInv == Init => BranchInv
<1> SUFFICES ASSUME Init PROVE BranchInv
  OBVIOUS
<1>1. created = {Root} /\ head = Root /\ signed = [r \in Requests |-> NoCommit] /\ late = {}
      /\ commit = [c \in Commits |-> [parent |-> NoCommit, tree |-> RootTree]]
      /\ call = [c \in Calls |-> Unused]
  BY DEF Init, RepoInit, CallInit
<1>2. Root \notin Calls /\ Root \in Commits
  BY CommitsAssumption DEF Commits
<1>3. \A c \in Calls : call[c].pc = "idle" /\ call[c].outcome = "none" /\ ~call[c].landed /\ ~call[c].calm
                      /\ ~call[c].doomed
  BY <1>1 DEF Unused
<1>4. CommitsWell
  BY <1>1, <1>2 DEF CommitsWell, Been, Visited
<1>5. ASSUME NEW c \in Calls PROVE CallWell(c)
  BY <1>1, <1>2, <1>3 DEF CallWell, Staged, Watching, Undisturbed, Barred, Active, Succeeded
<1>6. QED
  BY <1>3, <1>4, <1>5 DEF BranchInv, NeverBack, AppliedAtMostOnce

\* Everything that is a place of the branch is an object or nothing.
LEMMA BeenExists ==
  ASSUME BranchInv
  PROVE  Been \subseteq created \cup {NoCommit}
BY DEF BranchInv, CommitsWell, CallWell, Staged, Been, Visited

\* Objects and requests are not changed once they are there.
Lasting ==
  /\ created \subseteq created'
  /\ \A x \in created : commit'[x] = commit[x]
  /\ \A r \in Requests : signed[r] # NoCommit => signed'[r] = signed[r]

\* What a commit was made of is not changed.
LEMMA MadeWellLasts ==
  ASSUME BranchInv, Lasting, NEW c \in Calls, c \in created
  PROVE  MadeWell(c)' /\ Expected(c)' = Expected(c) /\ commit'[c] = commit[c]
<1>1. MadeWell(c) /\ Expected(c) # NoCommit /\ RequestOf[c] \in Requests
  BY RequestsAssumption DEF BranchInv, CommitsWell, CallWell, Staged
<1>2. Expected(c)' = Expected(c)
  BY <1>1 DEF Lasting, Expected
<1>3. commit'[Expected(c)] = commit[Expected(c)] /\ commit'[c] = commit[c] /\ Expected(c) \in created'
  BY <1>1 DEF Lasting, MadeWell
<1>4. QED
  BY <1>1, <1>2, <1>3 DEF MadeWell, Executable, ChangesOf, Changed, Admitted

\* A call that takes no step stays well, whatever happens to the branch.
LEMMA OtherCallsStayWell ==
  ASSUME TypeOK, BranchInv, Lasting, NEW c \in Calls,
         call'[c].pc = call[c].pc, call'[c].at = call[c].at, call'[c].outcome = call[c].outcome,
         call'[c].doomed = call[c].doomed, call'[c].landed = call[c].landed,
         call[c].seen \subseteq call'[c].seen,
         Active(c) => head' \in call'[c].seen,
         call'[c].calm => call[c].calm /\ (Active(c) => head' = head),
         c \in created' => c \in created, c \in late' => c \in late,
         Record(Task) # NoRecord => Record(Task)' = Record(Task)
  PROVE  CallWell(c)'
<1>0. CallWell(c) /\ RequestOf[c] \in Requests
  BY RequestsAssumption DEF BranchInv
<1>1. call[c].pc # "idle" => Expected(c)' = Expected(c)
  BY <1>0 DEF CallWell, Staged, Lasting, Expected
<1>2. Staged(c)'
  BY <1>0, <1>1 DEF CallWell, Staged, Lasting
<1>3. Watching(c)'
  <2>1. call[c].outcome \in Succeeded => call[c].pc # "idle"
    BY <1>0 DEF CallWell, Staged, Succeeded
  <2>2. QED
    BY <1>0, <1>1, <2>1 DEF CallWell, Watching, Proven, Active, Lasting, ChangesOf
<1>4. Undisturbed(c)'
  <2>1. call[c].pc = "done" => Expected(c) \in created
    BY <1>0, BeenExists DEF BranchInv, CommitsWell, CallWell, Staged, Expected
  <2>2. call[c].pc = "done" => commit'[Expected(c)] = commit[Expected(c)]
    BY <2>1 DEF Lasting
  <2>3. call[c].pc = "done" /\ Resolvable(c)' => Resolvable(c)
    BY <1>1, <2>2 DEF Resolvable, Executable, ChangesOf, Changed, Admitted
  <2>4. QED
    BY <1>0, <1>1, <2>3 DEF CallWell, Undisturbed, Active
<1>5. Barred(c)'
  BY <1>0 DEF CallWell, Barred
<1>6. QED
  BY <1>2, <1>3, <1>4, <1>5 DEF CallWell

\* A step of one call that leaves the branch, the objects and the requests alone.
LEMMA StepsBesides ==
  ASSUME TypeOK, BranchInv, NEW c \in Calls, CallWell(c)',
         UNCHANGED <<head, created, commit, signed, rewinds, metadata, book>>,
         \A d \in Calls : d # c => (d \in late' => d \in late) /\ call'[d] = call[d],
         call'[c].landed = call[c].landed
  PROVE  BranchInv'
<1>1. Lasting
  BY DEF Lasting
<1>2. \A d \in Calls : call'[d].landed = call[d].landed
  OBVIOUS
<1>3. Been' = Been
  BY <1>2 DEF Been, Visited
<1>4. CommitsWell'
  BY <1>1, <1>3, MadeWellLasts DEF BranchInv, CommitsWell
<1>5. NeverBack' /\ AppliedAtMostOnce'
  BY <1>2 DEF BranchInv, NeverBack, AppliedAtMostOnce
<1>6. ASSUME NEW d \in Calls, d # c PROVE CallWell(d)'
  <2>1. Record(Task)' = Record(Task)
    BY DEF Record
  <2>2. Active(d) => head \in call[d].seen
    BY DEF BranchInv, CallWell, Watching
  <2>3. QED
    BY <1>1, <1>6, <2>1, <2>2, OtherCallsStayWell
<1>7. QED
  BY <1>4, <1>5, <1>6 DEF BranchInv
\* The steps of Admission.
LEMMA AdmissionKeepsBranch ==
  ASSUME TypeOK, BranchInv, NEW c \in Calls,
         ReadIssue(c) \/ ReadBase(c) \/ RereadIssue(c) \/ ReadTermination(c) \/ AdmissionDenies(c)
  PROVE  BranchInv'
<1>0. /\ call \in [Calls -> Call] /\ CallWell(c) /\ UNCHANGED <<head, created, commit, signed, rewinds, metadata, book, late>>
  BY DEF TypeOK, CallTypeOK, BranchInv, ReadIssue, ReadBase, RereadIssue, ReadTermination, AdmissionDenies, Reads, RepoRests
<1>1. Expected(c)' = Expected(c) /\ Record(Task)' = Record(Task)
  BY <1>0 DEF Expected, Record
<1>2. ASSUME call[c].pc \in AdmissionSteps, NEW step \in AdmissionSteps \cup {"ref", "done"}, call'[c].pc = step,
             step = "ref" => ~call[c].doomed,
             step # "done" => call'[c].outcome = call[c].outcome,
             step = "done" => call'[c].outcome = "denied",
             step # "ref" => call'[c].calm = call[c].calm,
             call'[c].at = call[c].at, call'[c].seen = call[c].seen, call'[c].doomed = call[c].doomed,
             call'[c].landed = call[c].landed, \A d \in Calls : d # c => call'[d] = call[d]
      PROVE  BranchInv'
  <2>1. c \notin created /\ c \notin late /\ ~call[c].landed /\ ~call[c].calm /\ call[c].outcome = "none" /\ head \in call[c].seen
        /\ Expected(c) # NoCommit
    BY <1>0, <1>2 DEF CallWell, Staged, Watching, Active, AdmissionSteps
  <2>2. Staged(c)'
    BY <1>0, <1>1, <1>2, <2>1 DEF Staged, AdmissionSteps
  <2>3. Watching(c)'
    BY <1>0, <1>2, <2>1 DEF Watching, Active, Succeeded
  <2>4. Undisturbed(c)'
    BY <1>2, <2>1 DEF Undisturbed, AdmissionSteps
  <2>5. Barred(c)'
    BY <1>0, <1>1, <1>2, <2>1 DEF CallWell, Barred
  <2>6. CallWell(c)'
    BY <2>2, <2>3, <2>4, <2>5 DEF CallWell
  <2>7. QED
    BY <1>0, <1>2, <2>6, StepsBesides
<1>3. ASSUME NEW step \in AdmissionSteps, Go(c, step), call[c].pc \in AdmissionSteps PROVE BranchInv'
  <2>1. /\ call'[c].pc = step /\ call'[c].outcome = call[c].outcome /\ call'[c].calm = call[c].calm
        /\ call'[c].at = call[c].at /\ call'[c].seen = call[c].seen /\ call'[c].doomed = call[c].doomed
        /\ call'[c].landed = call[c].landed /\ \A d \in Calls : d # c => call'[d] = call[d]
    BY <1>0, <1>3 DEF Go, Call
  <2>2. step # "ref" /\ step # "done"
    BY DEF AdmissionSteps
  <2>3. QED
    BY <1>2, <1>3, <2>1, <2>2
<1>4. ASSUME End(c, "denied"), call[c].pc \in AdmissionSteps PROVE BranchInv'
  <2>1. /\ call'[c].pc = "done" /\ call'[c].outcome = "denied" /\ call'[c].calm = call[c].calm
        /\ call'[c].at = call[c].at /\ call'[c].seen = call[c].seen /\ call'[c].doomed = call[c].doomed
        /\ call'[c].landed = call[c].landed /\ \A d \in Calls : d # c => call'[d] = call[d]
    BY <1>0, <1>4 DEF End, Call
  <2>2. QED
    BY <1>2, <1>4, <2>1
<1>5. CASE ReadIssue(c)
  <2>1. /\ call[c].pc \in AdmissionSteps /\ "base" \in AdmissionSteps
        /\ call'[c].pc = "base" /\ call'[c].outcome = call[c].outcome /\ call'[c].calm = call[c].calm
        /\ call'[c].at = call[c].at /\ call'[c].seen = call[c].seen /\ call'[c].doomed = call[c].doomed
        /\ call'[c].landed = call[c].landed /\ \A d \in Calls : d # c => call'[d] = call[d]
    BY <1>0, <1>5 DEF ReadIssue, AtStep, AdmissionSteps, Call
  <2>2. QED
    BY <1>2, <2>1
<1>6. CASE ReadBase(c)
  <2>1. /\ call[c].pc \in AdmissionSteps
        /\ Go(c, "issueAgain") \/ Go(c, "taskBase") \/ Go(c, "termination") \/ End(c, "denied")
    BY <1>6 DEF ReadBase, AtStep, AdmissionSteps
  <2>2. QED
    BY <1>3, <1>4, <2>1 DEF AdmissionSteps
<1>7. CASE RereadIssue(c)
  <2>1. call[c].pc \in AdmissionSteps /\ (Go(c, "baseAgain") \/ End(c, "denied"))
    BY <1>7 DEF RereadIssue, AtStep, AdmissionSteps
  <2>2. QED
    BY <1>3, <1>4, <2>1 DEF AdmissionSteps
<1>8. CASE ReadTermination(c)
  <2>1. call[c].pc \in AdmissionSteps
    BY <1>8 DEF ReadTermination, AtStep, AdmissionSteps
  <2>2. CASE Record(Task) = NoRecord /\ call' = [call EXCEPT ![c].pc = "ref", ![c].calm = TRUE]
    <3>1. /\ call'[c].pc = "ref" /\ call'[c].outcome = call[c].outcome
          /\ call'[c].at = call[c].at /\ call'[c].seen = call[c].seen /\ call'[c].doomed = call[c].doomed
          /\ call'[c].landed = call[c].landed /\ \A d \in Calls : d # c => call'[d] = call[d]
      BY <1>0, <2>2 DEF Call
    <3>2. ~call[c].doomed
      BY <1>0, <2>2 DEF CallWell, Barred
    <3>3. QED
      BY <1>2, <2>1, <3>1, <3>2
  <2>3. CASE End(c, "denied")
    BY <1>4, <2>1, <2>3
  <2>4. QED
    BY <1>8, <2>2, <2>3 DEF ReadTermination, AuthoritativeAbsence
<1>9. CASE AdmissionDenies(c)
  BY <1>4, <1>9 DEF AdmissionDenies
<1>10. QED
  BY <1>5, <1>6, <1>7, <1>8, <1>9

\* A request is signed or sent again.
LEMMA RequestKeepsBranch ==
  ASSUME TypeOK, BranchInv, NEW c \in Calls, Request(c)
  PROVE  BranchInv'
<1>0. /\ call \in [Calls -> Call] /\ CallWell(c) /\ RequestOf[c] \in Requests /\ call[c].pc = "idle"
      /\ signed \in [Requests -> Heads] /\ created \subseteq Commits
      /\ UNCHANGED <<head, created, commit, rewinds, metadata, book, late>>
  BY RequestsAssumption DEF TypeOK, RepoTypeOK, CallTypeOK, BranchInv, Request, AtStep, RepoRests
<1>1. /\ call'[c].pc = "issue" /\ call'[c].outcome = call[c].outcome /\ call'[c].calm = call[c].calm
      /\ call'[c].at = call[c].at /\ call'[c].seen = {head}
      /\ call'[c].doomed = (Record(Task) # NoRecord)
      /\ call'[c].landed = call[c].landed /\ \A d \in Calls : d # c => call'[d] = call[d]
  BY <1>0 DEF Request, Call
<1>2. /\ signed'[RequestOf[c]] # NoCommit
      /\ \A r \in Requests : signed[r] # NoCommit => signed'[r] = signed[r]
      /\ \A r \in Requests : signed'[r] \in {signed[r], head}
  BY <1>0 DEF Request, Expected
<1>3. Lasting
  BY <1>0, <1>2 DEF Lasting
<1>4. Been' = Been /\ \A d \in Calls : call'[d].landed = call[d].landed
  BY <1>0, <1>1 DEF Been, Visited
<1>5. Record(Task)' = Record(Task)
  BY <1>0 DEF Record
<1>6. CommitsWell'
  BY <1>0, <1>2, <1>3, <1>4, MadeWellLasts DEF BranchInv, CommitsWell
<1>7. NeverBack' /\ AppliedAtMostOnce'
  BY <1>0, <1>4 DEF BranchInv, NeverBack, AppliedAtMostOnce
<1>8. CallWell(c)'
  <2>1. c \notin created /\ ~call[c].landed /\ c \notin late /\ call[c].outcome = "none" /\ ~call[c].calm
    BY <1>0 DEF CallWell, Staged
  <2>2. Staged(c)'
    BY <1>0, <1>1, <1>2, <2>1 DEF Staged, Expected, AdmissionSteps
  <2>3. Watching(c)' /\ Undisturbed(c)'
    BY <1>0, <1>1, <2>1 DEF Watching, Undisturbed, Succeeded
  <2>4. Barred(c)'
    BY <1>0, <1>1, <1>5, <2>1 DEF Barred, AdmissionSteps
  <2>5. QED
    BY <2>2, <2>3, <2>4 DEF CallWell
<1>9. ASSUME NEW d \in Calls, d # c PROVE CallWell(d)'
  <2>1. Active(d) => head \in call[d].seen
    BY DEF BranchInv, CallWell, Watching
  <2>2. QED
    BY <1>0, <1>1, <1>3, <1>5, <1>9, <2>1, OtherCallsStayWell
<1>10. QED
  BY <1>6, <1>7, <1>8, <1>9 DEF BranchInv
\* A call ends without an effect: a failure, a crash or the end of a read.
LEMMA EndsKeepBranch ==
  ASSUME TypeOK, BranchInv, NEW c \in Calls, Reread(c) \/ GitFails(c) \/ CallCrashes(c)
  PROVE  BranchInv'
<1>0. /\ call \in [Calls -> Call] /\ CallWell(c) /\ UNCHANGED <<head, created, commit, signed, rewinds, metadata, book, late>>
      /\ Active(c)
  BY DEF TypeOK, CallTypeOK, BranchInv, Reread, GitFails, CallCrashes, Reads, RepoRests, AtStep, Active
<1>1. /\ Expected(c)' = Expected(c) /\ Record(Task)' = Record(Task) /\ Expected(c) # NoCommit /\ head \in call[c].seen
      /\ Expected(c) \in created
  BY <1>0, RequestsAssumption, BeenExists
     DEF Expected, Record, CallWell, Staged, Watching, Active, BranchInv, CommitsWell
<1>2. CASE GitFails(c) \/ CallCrashes(c)
  <2>1. /\ call'[c].pc = "done" /\ call'[c].outcome \in {"failed", "recovery-required", "crashed"} /\ ~call'[c].calm
        /\ call'[c].doomed = call[c].doomed /\ call'[c].landed = call[c].landed
        /\ \A d \in Calls : d # c => call'[d] = call[d]
    <3>1. PICK outcome \in {"failed", "recovery-required", "crashed"} :
            call' = [call EXCEPT ![c].pc = "done", ![c].outcome = outcome, ![c].calm = FALSE]
      BY <1>2 DEF GitFails, CallCrashes
    <3>2. QED
      BY <1>0, <3>1 DEF Call
  <2>2. Staged(c)'
    BY <1>0, <1>1, <2>1 DEF CallWell, Staged, AdmissionSteps
  <2>3. Watching(c)' /\ Undisturbed(c)'
    BY <2>1 DEF Watching, Active, Succeeded, Undisturbed
  <2>4. Barred(c)'
    <3>1. call[c].doomed => call'[c].outcome = "crashed"
      <4>1. CASE GitFails(c)
        BY <1>0, <4>1 DEF GitFails, CallWell, Barred, AdmissionSteps
      <4>2. CASE CallCrashes(c)
        BY <1>0, <4>2 DEF CallCrashes, Call
      <4>3. QED
        BY <1>2, <4>1, <4>2
    <3>2. QED
      BY <1>0, <1>1, <2>1, <3>1 DEF CallWell, Barred
  <2>5. QED
    BY <1>0, <2>1, <2>2, <2>3, <2>4, StepsBesides DEF CallWell
<1>3. CASE Reread(c)
  <2>1. /\ call[c].pc = "reread"
        /\ call'[c].pc = "done" /\ call'[c].outcome = Verdict(c) /\ call'[c].calm = call[c].calm /\ call'[c].at = head
        /\ call'[c].doomed = call[c].doomed /\ call'[c].landed = call[c].landed /\ call'[c].seen = call[c].seen
        /\ \A d \in Calls : d # c => call'[d] = call[d]
    BY <1>0, <1>3 DEF Reread, AtStep, Call
  <2>2. c \in created /\ MadeWell(c)
    BY <1>0, <2>1 DEF CallWell, Staged, BranchInv, CommitsWell
  <2>3. Staged(c)'
    BY <1>0, <1>1, <2>1, <2>2 DEF CallWell, Staged, AdmissionSteps
  <2>4. Verdict(c) \in Succeeded => head = c
    BY DEF Verdict, Succeeded
  <2>5. Watching(c)'
    BY <1>0, <1>1, <2>1, <2>2, <2>4 DEF Watching, Active, Proven, MadeWell, ChangesOf
  <2>6. Undisturbed(c)'
    <3>1. call[c].calm => head = c
      BY <1>0, <2>1 DEF CallWell, Undisturbed
    <3>2. head = c => Verdict(c) \in Succeeded
      BY <2>2 DEF MadeWell, Verdict, Succeeded
    <3>3. QED
      BY <2>1, <3>1, <3>2 DEF Undisturbed
  <2>7. Barred(c)'
    BY <1>0, <2>1 DEF CallWell, Barred, AdmissionSteps
  <2>8. QED
    BY <1>0, <2>1, <2>3, <2>5, <2>6, <2>7, StepsBesides DEF CallWell
<1>4. QED
  BY <1>2, <1>3

\* The branch is read: the commit is made, or the call ends.
LEMMA ReadRefKeepsBranch ==
  ASSUME TypeOK, BranchInv, NEW c \in Calls, ReadRef(c)
  PROVE  BranchInv'
<1>0. /\ call \in [Calls -> Call] /\ CallWell(c) /\ call[c].pc = "ref"
      /\ UNCHANGED <<head, signed, rewinds, metadata, book, late>>
      /\ commit \in [Commits -> Commit] /\ c \in Commits /\ created \subseteq Commits
  BY DEF TypeOK, CallTypeOK, RepoTypeOK, BranchInv, ReadRef, AtStep, Commits
<1>1. /\ Expected(c)' = Expected(c) /\ Record(Task)' = Record(Task) /\ Expected(c) # NoCommit /\ head \in call[c].seen
      /\ Expected(c) \in created /\ Expected(c) \in Been /\ c \notin created /\ c \notin late
      /\ call[c].outcome = "none" /\ ~call[c].landed /\ ~call[c].doomed
  BY <1>0, RequestsAssumption, BeenExists
     DEF Expected, Record, CallWell, Staged, Watching, Active, Barred, BranchInv, CommitsWell, AdmissionSteps
<1>2. CASE /\ head = Expected(c) /\ Executable(c, commit[head].tree)
           /\ created' = created \cup {c}
           /\ commit' = [commit EXCEPT ![c] = [parent |-> Expected(c),
                                              tree |-> Target(commit[head].tree, ChangesOf(c))]]
           /\ call' = [call EXCEPT ![c].pc = "update", ![c].at = head]
  <2>1. /\ call'[c].pc = "update" /\ call'[c].outcome = "none" /\ call'[c].calm = call[c].calm /\ call'[c].at = head
        /\ call'[c].seen = call[c].seen /\ call'[c].doomed = call[c].doomed /\ call'[c].landed = call[c].landed
        /\ \A d \in Calls : d # c => call'[d] = call[d]
    BY <1>0, <1>1, <1>2 DEF Call
  <2>2. Lasting /\ commit'[c].parent = Expected(c)
        /\ commit'[c].tree = Target(commit[head].tree, ChangesOf(c))
        /\ commit'[Expected(c)] = commit[Expected(c)]
    BY <1>0, <1>1, <1>2 DEF Lasting
  <2>3. MadeWell(c)'
    BY <1>1, <1>2, <2>2 DEF MadeWell, Executable, ChangesOf, Changed, Admitted
  <2>4. Been \subseteq Been' /\ \A d \in Calls : call'[d].landed = call[d].landed
    BY <1>2, <2>1 DEF Been, Visited
  <2>5. CommitsWell'
    <3>1. ASSUME NEW d \in Calls, d \in created' PROVE MadeWell(d)'
      BY <1>2, <2>2, <2>3, <3>1, MadeWellLasts
    <3>2. ASSUME NEW x \in created' PROVE commit'[x].parent \in Been'
      BY <1>1, <1>2, <2>2, <2>4, <3>2 DEF BranchInv, CommitsWell, Lasting
    <3>3. QED
      BY <1>0, <1>2, <2>4, <3>1, <3>2 DEF BranchInv, CommitsWell
  <2>6. NeverBack' /\ AppliedAtMostOnce'
    <3>1. \A d \in Calls : call[d].landed => d \in created
      BY DEF BranchInv, CallWell, Staged
    <3>2. \A d \in Calls : call[d].landed => commit'[d] = commit[d]
      BY <2>2, <3>1 DEF Lasting
    <3>3. QED
      BY <1>0, <2>4, <3>2 DEF BranchInv, NeverBack, AppliedAtMostOnce
  <2>7. CallWell(c)'
    <3>1. Staged(c)'
      BY <1>0, <1>1, <1>2, <2>1 DEF CallWell, Staged, AdmissionSteps
    <3>2. Watching(c)' /\ Undisturbed(c)' /\ Barred(c)'
      BY <1>0, <1>1, <1>2, <2>1 DEF Watching, Succeeded, Undisturbed, Barred
    <3>3. QED
      BY <3>1, <3>2 DEF CallWell
  <2>8. ASSUME NEW d \in Calls, d # c PROVE CallWell(d)'
    <3>1. Active(d) => head \in call[d].seen
      BY DEF BranchInv, CallWell, Watching
    <3>2. QED
      BY <1>0, <1>1, <1>2, <2>1, <2>2, <2>8, <3>1, OtherCallsStayWell
  <2>9. QED
    BY <2>5, <2>6, <2>7, <2>8 DEF BranchInv
<1>3. CASE /\ ~(head # NoCommit /\ head = Expected(c) /\ Executable(c, commit[head].tree))
           /\ call' = [call EXCEPT ![c].pc = "done", ![c].at = head,
                                   ![c].outcome = IF head \in {NoCommit, Expected(c)} THEN "failed"
                                                  ELSE IF ProvesTarget(c, head) THEN "idempotent"
                                                  ELSE "stale"]
           /\ UNCHANGED <<created, commit>>
  <2> DEFINE outcome == IF head \in {NoCommit, Expected(c)} THEN "failed"
                        ELSE IF ProvesTarget(c, head) THEN "idempotent" ELSE "stale"
  <2>1. /\ call'[c].pc = "done" /\ call'[c].outcome = outcome /\ call'[c].calm = call[c].calm /\ call'[c].at = head
        /\ call'[c].seen = call[c].seen /\ call'[c].doomed = call[c].doomed /\ call'[c].landed = call[c].landed
        /\ \A d \in Calls : d # c => call'[d] = call[d]
    BY <1>0, <1>3 DEF Call
  <2>2. outcome \in Succeeded => head \notin {NoCommit, Expected(c)} /\ ProvesTarget(c, head)
    BY DEF Succeeded
  <2>3. outcome \notin Succeeded => head \in {NoCommit, Expected(c)} \/ ~ProvesTarget(c, head)
    BY DEF Succeeded
  <2> HIDE DEF outcome
  <2>4. Staged(c)'
    BY <1>0, <1>1, <1>3, <2>1 DEF Staged, AdmissionSteps
  <2>5. Watching(c)'
    <3>1. head \in created \cup {NoCommit}
      BY BeenExists DEF BranchInv, CommitsWell
    <3>2. ASSUME outcome \in Succeeded PROVE Proven(c)'
      <4>1. head \in created /\ commit[head].tree = Target(commit[Expected(c)].tree, ChangesOf(c))
        BY <2>2, <3>1, <3>2 DEF ProvesTarget
      <4>2. ChangesOf(c)' = ChangesOf(c)
        BY DEF ChangesOf
      <4>3. QED
        BY <1>0, <1>1, <1>3, <2>1, <4>1, <4>2 DEF Proven
    <3>3. QED
      BY <2>1, <3>2 DEF Watching, Active
  <2>6. Undisturbed(c)'
    <3>1. ASSUME Resolvable(c)' PROVE outcome \in Succeeded
      <4>1. \/ head = Expected(c) /\ Executable(c, commit[Expected(c)].tree)
            \/ \E d \in Calls : RequestOf[d] = RequestOf[c] /\ head = d
        BY <1>0, <1>1, <1>3, <2>1, <3>1 DEF Resolvable, Executable, ChangesOf, Changed, Admitted
      <4>2. PICK d \in Calls : RequestOf[d] = RequestOf[c] /\ head = d
        BY <1>1, <1>3, <4>1
      <4>3. d \in created /\ head # NoCommit
        BY <4>2, BeenExists, CommitsAssumption DEF BranchInv, CommitsWell
      <4>4. MadeWell(d) /\ Expected(d) = Expected(c) /\ ChangesOf(d) = ChangesOf(c) /\ Changed(d) = Changed(c)
        BY <4>2, <4>3 DEF BranchInv, CommitsWell, Expected, ChangesOf, Changed
      <4>5. ProvesTarget(c, head) /\ head # Expected(c)
        BY <4>2, <4>4 DEF MadeWell, ProvesTarget, Executable
      <4>6. QED
        BY <2>3, <4>3, <4>5
    <3>2. QED
      BY <2>1, <3>1 DEF Undisturbed
  <2>7. Barred(c)'
    BY <1>1, <2>1 DEF Barred
  <2>8. QED
    BY <1>0, <1>3, <2>1, <2>4, <2>5, <2>6, <2>7, StepsBesides DEF CallWell
<1>4. QED
  BY <1>2, <1>3 DEF ReadRef
\* A step of the branch, by a call or by people: every call that is under way
\* sees it, and no other call takes a step.
LEMMA OthersWatchTheBranch ==
  ASSUME TypeOK, BranchInv, Lasting, NEW by, head' \in Heads,
         NEW c \in Calls, c # by, call'[c] = Watched(head', by)[c],
         c \in created' => c \in created, c \in late' => c \in late,
         UNCHANGED <<metadata, book>>
  PROVE  CallWell(c)' /\ call'[c].landed = call[c].landed
<1>1. call \in [Calls -> Call]
  BY DEF TypeOK, CallTypeOK
<1>2. /\ call'[c].pc = call[c].pc /\ call'[c].at = call[c].at /\ call'[c].outcome = call[c].outcome
      /\ call'[c].doomed = call[c].doomed /\ call'[c].landed = call[c].landed
      /\ call[c].seen \subseteq call'[c].seen
      /\ Active(c) => head' \in call'[c].seen
      /\ call'[c].calm => call[c].calm /\ ~Active(c)
  BY <1>1, WatchedCalls
<1>3. Record(Task)' = Record(Task)
  BY DEF Record
<1>4. Record(Task) # NoRecord => Record(Task)' = Record(Task)
  BY <1>3
<1>5. call'[c].calm => call[c].calm /\ (Active(c) => head' = head)
  BY <1>2
<1>6. CallWell(c)'
  BY <1>2, <1>4, <1>5, OtherCallsStayWell
<1>7. QED
  BY <1>2, <1>6

\* The steps of people on the leaf branch.
LEMMA PeopleKeepBranch ==
  ASSUME TypeOK, BranchInv, (\E p \in Pushes : Pushed(p)) \/ Rewound \/ Deleted
  PROVE  BranchInv'
<1>0. /\ call \in [Calls -> Call] /\ commit \in [Commits -> Commit] /\ created \subseteq Commits /\ head \in Heads
      /\ rewinds \in 0..MaxRewinds
  BY DEF TypeOK, CallTypeOK, RepoTypeOK
<1>1. UNCHANGED <<metadata, book, late, signed>>
  BY DEF Pushed, Rewound, Deleted
<1>2. ASSUME head' \in Heads, call' = Watched(head', NoCommit), Lasting,
             \A c \in Calls : c \in created' => c \in created,
             rewinds' = 0 => rewinds = 0,
             head' \in Been',
             \A x \in created' : commit'[x].parent \in Been',
             rewinds' = 0 => \A c \in Calls : call[c].landed => head' # commit[c].parent
      PROVE  BranchInv'
  <2>1. ASSUME NEW c \in Calls PROVE CallWell(c)' /\ call'[c].landed = call[c].landed
    <3>1. c # NoCommit
      BY CommitsAssumption
    <3>2. QED
      BY <1>1, <1>2, <3>1, OthersWatchTheBranch
  <2>2. Been \subseteq Been'
    BY <1>2, <2>1 DEF Been, Visited, Lasting
  <2>3. CommitsWell'
    BY <1>1, <1>2, <2>2, MadeWellLasts DEF BranchInv, CommitsWell, Lasting
  <2>4. NeverBack'
    <3>1. \A c \in Calls : call[c].landed => c \in created
      BY DEF BranchInv, CallWell, Staged
    <3>2. \A c \in Calls : call[c].landed => commit'[c] = commit[c]
      BY <1>2, <3>1 DEF Lasting
    <3>3. QED
      BY <1>2, <2>1, <3>2 DEF NeverBack
  <2>5. AppliedAtMostOnce'
    BY <1>2, <2>1 DEF BranchInv, AppliedAtMostOnce
  <2>6. QED
    BY <2>1, <2>3, <2>4, <2>5 DEF BranchInv
<1>3. \A c \in Calls : call[c].landed => commit[c].parent \in created
  BY DEF BranchInv, CallWell, Staged, CommitsWell, MadeWell
<1>4. ASSUME NEW p \in Pushes, Pushed(p) PROVE BranchInv'
  <2>0. /\ p \in Commits /\ p \in Heads /\ p \notin created /\ p \notin Calls /\ head' = p /\ UNCHANGED rewinds
        /\ created' = created \cup {p} /\ call' = Watched(p, NoCommit)
    BY <1>4, CommitsAssumption DEF Pushed, Commits, Heads
  <2>1. \E tree : commit' = [commit EXCEPT ![p] = [parent |-> IF head = NoCommit THEN Root ELSE head, tree |-> tree]]
    BY <1>4 DEF Pushed
  <2>2. /\ Lasting
        /\ commit'[p].parent = IF head = NoCommit THEN Root ELSE head
    BY <1>0, <1>1, <2>0, <2>1 DEF Lasting
  <2>3. \A c \in Calls : call'[c].landed = call[c].landed
    BY <1>0, <2>0, WatchedCalls
  <2>4. Been \subseteq Been' /\ p \in Been' /\ Root \in Been'
    BY <2>0, <2>3 DEF Been, Visited
  <2>5. \A x \in created' : commit'[x].parent \in Been'
    BY <2>0, <2>2, <2>4 DEF BranchInv, CommitsWell, Lasting
  <2>6. QED
    BY <1>2, <1>3, <2>0, <2>2, <2>4, <2>5
<1>5. CASE Rewound
  <2>1. /\ UNCHANGED <<created, commit>> /\ rewinds' # 0 /\ head' \in Visited
        /\ call' = Watched(head', NoCommit)
    BY <1>0, <1>5, BoundsAssumption DEF Rewound
  <2>2. head' \in Heads /\ head' \in Been
    BY <2>1 DEF Visited, Been, Heads, Commits
  <2>3. \A c \in Calls : call'[c].landed = call[c].landed
    BY <1>0, <2>1, <2>2, WatchedCalls
  <2>4. Been' = Been
    BY <2>1, <2>3 DEF Been, Visited
  <2>5. QED
    BY <1>1, <1>2, <2>1, <2>2, <2>4 DEF BranchInv, CommitsWell, Lasting
<1>6. CASE Deleted
  <2>1. /\ UNCHANGED <<created, commit, rewinds>> /\ head' = NoCommit /\ head' \in Heads
        /\ call' = Watched(head', NoCommit)
    BY <1>6 DEF Deleted, Heads
  <2>2. \A c \in Calls : call'[c].landed = call[c].landed
    BY <1>0, <2>1, WatchedCalls
  <2>3. Been' = Been /\ NoCommit \in Been
    BY <2>1, <2>2 DEF Been, Visited
  <2>4. NoCommit \notin created
    BY <1>0, CommitsAssumption DEF Commits
  <2>5. \A c \in Calls : call[c].landed => head' # commit[c].parent
    BY <1>3, <2>1, <2>4
  <2>6. Lasting
    BY <1>1, <2>1 DEF Lasting
  <2>7. \A x \in created' : commit'[x].parent \in Been'
    BY <2>1, <2>3 DEF BranchInv, CommitsWell
  <2>8. QED
    BY <1>2, <2>1, <2>3, <2>5, <2>6, <2>7
<1>7. QED
  BY <1>4, <1>5, <1>6
\* The update of a call takes effect.
LEMMA LandingKeepsBranch ==
  ASSUME TypeOK, BranchInv, NEW c \in Calls, NEW step, NEW answer, Lands(c, step, answer),
         \/ call[c].pc = "update" /\ step = "reread" /\ late' = late
         \/ c \in late /\ step = call[c].pc /\ late' = late \ {c},
         UNCHANGED <<created, commit, metadata, book, signed, rewinds>>
  PROVE  /\ BranchInv'
         /\ \A d \in Calls : Landing(d) => d = c
<1>0. /\ call \in [Calls -> Call] /\ CallWell(c) /\ c \in Heads /\ c # NoCommit /\ created \subseteq Commits
      /\ c \in created
  BY CommitsAssumption DEF TypeOK, CallTypeOK, RepoTypeOK, BranchInv, CallWell, Staged, Heads, Commits
<1>1. /\ MadeWell(c) /\ head = commit[c].parent /\ head' = c /\ head \in created /\ head # c
  BY <1>0 DEF BranchInv, CommitsWell, MadeWell, Lands, AcceptsUpdate
<1>2. Watched(c, c) \in [Calls -> Call]
  BY <1>0, WatchedCalls
<1>3. /\ call'[c].pc = step /\ call'[c].landed
      /\ call'[c].at = Watched(c, c)[c].at
      /\ call'[c].outcome = Watched(c, c)[c].outcome /\ call'[c].seen = Watched(c, c)[c].seen
      /\ call'[c].doomed = Watched(c, c)[c].doomed /\ call'[c].calm = Watched(c, c)[c].calm
      /\ \A d \in Calls : d # c => call'[d] = Watched(c, c)[d]
  BY <1>2 DEF Lands, Call
<1>4. /\ call'[c].outcome = call[c].outcome /\ call[c].seen \subseteq call'[c].seen /\ call'[c].at = call[c].at
      /\ call'[c].doomed = call[c].doomed
      /\ call'[c].calm => call[c].calm
      /\ Active(c) => c \in call'[c].seen
  BY <1>0, <1>3, WatchedCalls
<1>5. Lasting
  BY DEF Lasting
<1>6. ASSUME NEW d \in Calls, d # c PROVE CallWell(d)' /\ call'[d].landed = call[d].landed
  <2>1. head' \in Heads /\ call'[d] = Watched(head', c)[d] /\ (d \in late' => d \in late)
    BY <1>0, <1>1, <1>3, <1>6
  <2>2. QED
    BY <1>5, <1>6, <2>1, OthersWatchTheBranch
<1>7. Expected(c)' = Expected(c) /\ Expected(c) = head
  BY <1>1 DEF Expected, MadeWell
<1>8. CallWell(c)'
  <2>1. /\ step \in {"reread", "done"} /\ ~call[c].doomed /\ c \notin late'
    BY <1>0 DEF CallWell, Staged, Barred, AdmissionSteps
  <2>2. step # "done" => call[c].outcome = "none"
    BY <1>0 DEF CallWell, Staged
  <2>3. Staged(c)'
    BY <1>0, <1>1, <1>3, <1>4, <1>7, <2>1, <2>2 DEF CallWell, Staged, AdmissionSteps
  <2>4. Watching(c)'
    <3>1. step = "reread" => c \in call'[c].seen
      BY <1>0, <1>4 DEF Active, CallWell, Staged
    <3>2. Active(c)' => step = "reread"
      BY <1>3, <2>1 DEF Active
    <3>3. call'[c].outcome \in Succeeded => Proven(c)'
      BY <1>0, <1>4, <1>7 DEF CallWell, Watching, Proven, ChangesOf
    <3>4. QED
      BY <1>1, <3>1, <3>2, <3>3 DEF Watching
  <2>5. Undisturbed(c)'
    <3>1. CASE c \in late
      BY <1>0, <1>4, <3>1 DEF CallWell, Staged, Undisturbed
    <3>2. CASE step = "reread"
      BY <1>1, <1>3, <3>2 DEF Undisturbed
    <3>3. QED
      BY <3>1, <3>2
  <2>6. Barred(c)'
    BY <1>4, <2>1 DEF Barred
  <2>7. QED
    BY <2>3, <2>4, <2>5, <2>6 DEF CallWell
<1>9. Been' = Been \cup {c}
  BY <1>0, <1>3, <1>6 DEF Been, Visited
<1>10. CommitsWell'
  BY <1>1, <1>5, <1>9, MadeWellLasts DEF BranchInv, CommitsWell
<1>11. ASSUME rewinds = 0 PROVE ~call[c].landed
  BY <1>1, <1>11 DEF BranchInv, NeverBack
<1>12. NeverBack'
  <2>1. ASSUME rewinds = 0, NEW d \in Calls, call[d].landed PROVE commit[d].parent # c
    <3>1. c \notin Been
      BY <1>0, <1>11, <2>1, CommitsAssumption DEF Been, Visited
    <3>2. d \in created
      BY <2>1 DEF BranchInv, CallWell, Staged
    <3>3. QED
      BY <3>1, <3>2 DEF BranchInv, CommitsWell
  <2>2. QED
    BY <1>1, <1>6, <2>1 DEF NeverBack
<1>13. AppliedAtMostOnce'
  <2>1. ASSUME rewinds = 0, NEW d \in Calls, d # c, call[d].landed, RequestOf[d] = RequestOf[c] PROVE FALSE
    <3>1. d \in created
      BY <2>1 DEF BranchInv, CallWell, Staged
    <3>2. commit[d].parent = Expected(d) /\ Expected(d) = Expected(c)
      BY <2>1, <3>1 DEF BranchInv, CommitsWell, MadeWell, Expected
    <3>3. QED
      BY <1>7, <2>1, <3>2 DEF BranchInv, NeverBack
  <2>2. QED
    BY <1>6, <2>1 DEF BranchInv, AppliedAtMostOnce
<1>14. QED
  BY <1>6, <1>8, <1>10, <1>12, <1>13 DEF BranchInv, Landing

\* The conditional update, applied or not, and the late one.
LEMMA UpdateKeepsBranch ==
  ASSUME TypeOK, BranchInv, NEW c \in Calls, Update(c) \/ LateUpdate(c)
  PROVE  /\ BranchInv'
         /\ \A d \in Calls : Landing(d) => d = c /\ AcceptsUpdate(c) /\ c \in created
<1>0. /\ call \in [Calls -> Call] /\ CallWell(c)
      /\ UNCHANGED <<created, commit, metadata, book, signed, rewinds>>
  BY DEF TypeOK, CallTypeOK, BranchInv, Update, LateUpdate
<1>1. Expected(c)' = Expected(c) /\ Record(Task)' = Record(Task)
  BY <1>0 DEF Expected, Record
<1>2. ASSUME UNCHANGED <<head, call>>, late' = late \ {c}
      PROVE  BranchInv' /\ \A d \in Calls : ~Landing(d)
  <2>1. CallWell(c)'
    <3>1. Active(c) => head \in call[c].seen
      BY <1>0 DEF CallWell, Watching
    <3>2. Lasting
      BY <1>0 DEF Lasting
    <3>3. QED
      BY <1>0, <1>1, <1>2, <3>1, <3>2, OtherCallsStayWell
  <2>2. QED
    BY <1>0, <1>2, <2>1, StepsBesides DEF Landing
<1>3. ASSUME NEW answer, call[c].pc = "update", UNCHANGED head, late' \in {late, late \cup {c}},
             \/ Answered(c, answer) /\ ~AcceptsUpdate(c) /\ late' = late
             \/ Disturbed(c, answer)
      PROVE  BranchInv' /\ \A d \in Calls : ~Landing(d)
  <2>1. c \in created /\ MadeWell(c) /\ c \notin late /\ ~call[c].doomed /\ head \in call[c].seen
        /\ call[c].outcome = "none"
    BY <1>0, <1>3 DEF CallWell, Staged, Barred, Watching, Active, AdmissionSteps, BranchInv, CommitsWell
  <2>2. /\ call'[c].pc = "reread" /\ call'[c].at = call[c].at
        /\ call'[c].outcome = call[c].outcome /\ call'[c].seen = call[c].seen
        /\ call'[c].doomed = call[c].doomed /\ call'[c].landed = call[c].landed
        /\ \A d \in Calls : d # c => call'[d] = call[d]
    BY <1>0, <1>3 DEF Answered, Disturbed, Call
  <2>3. ~call'[c].calm
    <3>1. CASE Disturbed(c, answer)
      BY <1>0, <3>1 DEF Disturbed, Call
    <3>2. CASE Answered(c, answer) /\ ~AcceptsUpdate(c)
      <4>1. call'[c].calm = call[c].calm
        BY <1>0, <3>2 DEF Answered, Call
      <4>2. call[c].calm => head = Expected(c)
        BY <1>0, <1>3 DEF CallWell, Undisturbed
      <4>3. QED
        BY <2>1, <3>2, <4>1, <4>2 DEF AcceptsUpdate, MadeWell
    <3>3. QED
      BY <1>3, <3>1, <3>2
  <2>4. CallWell(c)'
    <3>1. Staged(c)'
      BY <1>0, <1>1, <2>1, <2>2, <2>3 DEF CallWell, Staged, AdmissionSteps
    <3>2. Watching(c)' /\ Undisturbed(c)' /\ Barred(c)'
      BY <1>3, <2>1, <2>2, <2>3 DEF Watching, Undisturbed, Barred, Succeeded
    <3>3. QED
      BY <3>1, <3>2 DEF CallWell
  <2>5. QED
    BY <1>0, <1>3, <2>2, <2>4, StepsBesides DEF Landing
<1>4. CASE Update(c)
  <2>1. call[c].pc = "update" /\ c \in created
    BY <1>0, <1>4 DEF Update, AtStep, CallWell, Staged
  <2>2. CASE \E answer \in Answers : Lands(c, "reread", answer) /\ late' = late
    BY <1>0, <2>1, <2>2, LandingKeepsBranch DEF Lands
  <2>3. CASE ~AcceptsUpdate(c) /\ Answered(c, "rejected") /\ UNCHANGED <<head, late>>
    BY <1>3, <2>1, <2>3
  <2>4. CASE (\E answer \in Answers : Disturbed(c, answer)) /\ UNCHANGED head /\ late' \in {late, late \cup {c}}
    BY <1>3, <2>1, <2>4
  <2>5. QED
    BY <1>4, <2>2, <2>3, <2>4 DEF Update, Answers
<1>5. CASE LateUpdate(c)
  <2>1. c \in late /\ late' = late \ {c} /\ c \in created
    BY <1>0, <1>5 DEF LateUpdate, CallWell, Staged
  <2>2. CASE Lands(c, call[c].pc, call[c].answer)
    BY <1>0, <2>1, <2>2, LandingKeepsBranch DEF Lands
  <2>3. CASE UNCHANGED <<head, call>>
    BY <1>2, <2>1, <2>3
  <2>4. QED
    BY <1>5, <2>2, <2>3 DEF LateUpdate
<1>6. QED
  BY <1>4, <1>5
\* Steps that concern neither the branch nor its calls.
LEMMA StepsElsewhere ==
  ASSUME TypeOK, BranchInv, UNCHANGED <<head, created, commit, signed, call, rewinds>>,
         \A c \in Calls : c \in late' => c \in late,
         Record(Task) # NoRecord => Record(Task)' = Record(Task)
  PROVE  BranchInv'
<1>1. Lasting /\ Been' = Been
  BY DEF Lasting, Been, Visited
<1>2. CommitsWell'
  BY <1>1, MadeWellLasts DEF BranchInv, CommitsWell
<1>3. NeverBack' /\ AppliedAtMostOnce'
  BY DEF BranchInv, NeverBack, AppliedAtMostOnce
<1>4. ASSUME NEW c \in Calls PROVE CallWell(c)'
  <2>1. Active(c) => head \in call[c].seen
    BY DEF BranchInv, CallWell, Watching
  <2>2. QED
    BY <1>1, <2>1, OtherCallsStayWell
<1>5. QED
  BY <1>2, <1>3, <1>4 DEF BranchInv

-----------------------------------------------------------------------------
(* Both together. *)

TaskInv == TypeOK /\ FinalInv /\ BranchInv

RecordsKept == \A t \in Tasks : Record(t) # NoRecord => Record(t)' = Record(t)

\* The branch and its calls leave the records and the finalizations alone.
LEMMA BranchLeavesRecords ==
  ASSUME BranchNext
  PROVE  /\ UNCHANGED <<base, contract, metadata, book>>
         /\ \A f \in Finalizers : f \in late' => f \in late
<1>1. Calls \cap Finalizers = {}
  BY CommitsAssumption
<1>2. ASSUME NEW c \in Calls, Request(c) \/ CallStep(c) \/ CallCrashes(c) \/ LateUpdate(c)
      PROVE  /\ UNCHANGED <<base, contract, metadata, book>>
             /\ \A f \in Finalizers : f \in late' => f \in late
  <2>1. CASE Update(c)
    BY <1>1, <2>1 DEF Update
  <2>2. CASE ReadRef(c) \/ LateUpdate(c)
    BY <2>2 DEF ReadRef, LateUpdate
  <2>3. CASE ~(Update(c) \/ ReadRef(c) \/ LateUpdate(c))
    BY <1>2, <2>3 DEF Request, CallStep, CallCrashes, ReadIssue, ReadBase, RereadIssue, ReadTermination,
                      AdmissionDenies, Reread, GitFails, Reads, RepoRests
  <2>4. QED
    BY <2>1, <2>2, <2>3
<1>3. CASE (\E p \in Pushes : Pushed(p)) \/ Rewound \/ Deleted
  BY <1>3 DEF Pushed, Rewound, Deleted
<1>4. QED
  BY <1>2, <1>3 DEF BranchNext

\* A finalization leaves the branch and the lateness of its calls alone.
LEMMA FinalizationsLeaveBranch ==
  ASSUME FinalNext
  PROVE  /\ UNCHANGED <<base, contract, head, created, commit>>
         /\ \A c \in Calls : c \in late' => c \in late
<1>1. PICK f \in Finalizers : Finalize(f) \/ FinalReadIssue(f) \/ FinalReadBase(f) \/ Snapshot(f)
                        \/ FinalUpdate(f) \/ LateRecord(f) \/ FinalProof(f) \/ FinalFails(f)
                        \/ FinalCrashes(f)
  BY DEF FinalNext
<1>2. UNCHANGED <<base, contract, head, created, commit>>
  BY <1>1 DEF Finalize, FinalReadIssue, FinalReadBase, Snapshot, FinalUpdate, LateRecord, FinalProof, FinalFails,
              FinalCrashes, WorkRests
<1>3. late' \in {late, late \cup {f}, late \ {f}}
  BY <1>1 DEF Finalize, FinalReadIssue, FinalReadBase, Snapshot, FinalUpdate, LateRecord, FinalProof, FinalFails,
              FinalCrashes, MetadataRests
<1>4. QED
  BY <1>2, <1>3, CommitsAssumption

\* The invariant holds at the start.
LEMMA InitialTaskInv == Init => TaskInv
BY InitialTypes, InitialFinalInv, InitialBranchInv DEF TaskInv

\* Every step keeps the invariant and the records.
LEMMA TaskInvKept == TaskInv /\ [Next]_vars => TaskInv' /\ RecordsKept
<1> SUFFICES ASSUME TaskInv, [Next]_vars PROVE TaskInv' /\ RecordsKept
  OBVIOUS
<1>0. TypeOK /\ FinalInv /\ BranchInv /\ TypeOK' /\ Task \in Tasks
  BY TypesKept, RequestsAssumption DEF TaskInv
<1>1. \A t \in Tasks : contract[t].edit >= 1 /\ contract[t] \in Authorization
  BY <1>0 DEF FinalInv, TypeOK, RepoTypeOK
<1>2. CASE UNCHANGED vars
  <2>1. /\ UNCHANGED <<metadata, book, fin, late, contract>>
        /\ UNCHANGED <<head, created, commit, signed, call, rewinds>>
    BY <1>2 DEF vars, repoVars, callVars
  <2>2. RecordsKept
    BY <2>1 DEF RecordsKept, Record
  <2>3. FinalInv'
    BY <1>0, <1>1, <2>1, FinalStepsOfOthers
  <2>4. BranchInv'
    BY <1>0, <2>1, <2>2, StepsElsewhere DEF RecordsKept
  <2>5. QED
    BY <1>0, <2>2, <2>3, <2>4 DEF TaskInv
<1>3. CASE BranchNext /\ UNCHANGED fin
  <2>1. RecordsKept
    BY <1>3, BranchLeavesRecords DEF RecordsKept, Record
  <2>2. FinalInv'
    BY <1>0, <1>1, <1>3, BranchLeavesRecords, FinalStepsOfOthers
  <2>3. BranchInv'
    <3>1. ASSUME NEW c \in Calls, Request(c) \/ CallStep(c) \/ CallCrashes(c) \/ LateUpdate(c) PROVE BranchInv'
      BY <1>0, <3>1, RequestKeepsBranch, AdmissionKeepsBranch, ReadRefKeepsBranch, UpdateKeepsBranch, EndsKeepBranch
         DEF CallStep
    <3>2. QED
      BY <1>0, <1>3, <3>1, PeopleKeepBranch DEF BranchNext
  <2>4. QED
    BY <1>0, <2>1, <2>2, <2>3 DEF TaskInv
<1>4. CASE FinalNext /\ UNCHANGED callVars
  <2>1. RecordsKept /\ FinalInv'
    BY <1>0, <1>4, FinalStepKeepsRecords DEF FinalNext, RecordsKept
  <2>2. BranchInv'
    BY <1>0, <1>4, <2>1, FinalizationsLeaveBranch, StepsElsewhere DEF callVars, RecordsKept
  <2>3. QED
    BY <1>0, <2>1, <2>2 DEF TaskInv
<1>5. CASE (BaseMoves \/ \E t \in Tasks : ContractEdited(t)) /\ UNCHANGED <<callVars, fin>>
  <2>1. /\ UNCHANGED <<metadata, book, fin, late>>
        /\ UNCHANGED <<head, created, commit, signed, call, rewinds>>
    BY <1>5 DEF BaseMoves, ContractEdited, callVars
  <2>2. RecordsKept
    BY <2>1 DEF RecordsKept, Record
  <2>3. \A t \in Tasks : contract'[t].edit >= 1
    <3>1. CASE BaseMoves
      BY <1>1, <3>1 DEF BaseMoves
    <3>2. ASSUME NEW u \in Tasks, ContractEdited(u) PROVE \A t \in Tasks : contract'[t].edit >= 1
      <4>1. contract \in [Tasks -> Authorization]
        BY <1>0 DEF TypeOK, RepoTypeOK
      <4>2. contract'[u].edit = contract[u].edit + 1 /\ \A t \in Tasks : t # u => contract'[t] = contract[t]
        BY <3>2, <4>1 DEF ContractEdited
      <4>3. contract[u].edit \in Nat
        BY <1>1, BoundsAssumption DEF Authorization
      <4>4. QED
        BY <1>1, <4>2, <4>3
    <3>3. QED
      BY <1>5, <3>1, <3>2
  <2>4. FinalInv'
    BY <1>0, <2>1, <2>3, FinalStepsOfOthers
  <2>5. BranchInv'
    BY <1>0, <2>1, <2>2, StepsElsewhere DEF RecordsKept
  <2>6. QED
    BY <1>0, <2>2, <2>4, <2>5 DEF TaskInv
<1>6. QED
  BY <1>2, <1>3, <1>4, <1>5 DEF Next

\* The invariant holds in every behaviour.
THEOREM TaskInvariant == Spec => []TaskInv
<1>1. QED
  BY InitialTaskInv, TaskInvKept, PTL DEF Spec

\* A termination record stays on the metadata branch unchanged, whoever
\* terminates what (task-termination-record.ts).
THEOREM TerminationIsFinal == Spec => RecordsAreFinal
<1>1. TaskInv /\ [Next]_vars => [\A t \in Tasks : Record(t) # NoRecord => Record(t)' = Record(t)]_<<metadata, book>>
  BY TaskInvKept DEF RecordsKept
<1>2. QED
  BY <1>1, TaskInvariant, PTL DEF Spec, RecordsAreFinal

\* A finalization that reported success has its record for ever.
THEOREM SuccessfulTerminations == Spec => []SuccessIsRecorded
<1>1. TaskInv => SuccessIsRecorded
  BY DEF TaskInv, FinalInv, SuccessIsRecorded
<1>2. QED
  BY <1>1, TaskInvariant, PTL

\* No call that began after its task was terminated reaches the Executor.
THEOREM TerminatedTasksAreBarred == Spec => []TerminatedAdmitsNothing
<1>1. TaskInv => TerminatedAdmitsNothing
  <2> SUFFICES ASSUME TaskInv, NEW c \in Calls, call[c].doomed PROVE ~Passed(c)
    BY DEF TerminatedAdmitsNothing
  <2>1. Barred(c)
    BY DEF TaskInv, BranchInv, CallWell
  <2>2. QED
    BY <2>1 DEF Barred, Passed, AdmissionSteps, ExecutorSteps
<1>2. QED
  BY <1>1, TaskInvariant, PTL

\* What branch.advance reports as done was on the branch.
THEOREM ReportsAreTrue == Spec => []SucceededWasOnBranch
<1>1. TaskInv => SucceededWasOnBranch
  <2> SUFFICES ASSUME TaskInv, NEW c \in Calls, call[c].outcome \in Succeeded
               PROVE  /\ call[c].at \in call[c].seen \ {NoCommit}
                      /\ commit[call[c].at].tree = Target(commit[Expected(c)].tree, ChangesOf(c))
    BY DEF SucceededWasOnBranch
  <2>1. Proven(c)
    BY DEF TaskInv, BranchInv, CallWell, Watching
  <2>2. NoCommit \notin created
    BY CommitsAssumption DEF TaskInv, TypeOK, RepoTypeOK, Commits
  <2>3. QED
    BY <2>1, <2>2 DEF Proven
<1>2. QED
  BY <1>1, TaskInvariant, PTL

\* A signed request takes effect at most once while nobody forces the branch back.
THEOREM RequestsApplyOnce == Spec => []AppliedAtMostOnce
<1>1. TaskInv => AppliedAtMostOnce
  BY DEF TaskInv, BranchInv
<1>2. QED
  BY <1>1, TaskInvariant, PTL

\* An undisturbed call resolves, also as a retry of one that was applied.
THEOREM RetriesResolve == Spec => []RetryResolves
<1>1. TaskInv => RetryResolves
  BY DEF TaskInv, BranchInv, CallWell, Undisturbed, Resolvable, RetryResolves
<1>2. QED
  BY <1>1, TaskInvariant, PTL

\* Only updates land.
LEMMA OnlyUpdatesLand ==
  ASSUME TaskInv, Next, NEW c \in Calls, Landing(c)
  PROVE  AcceptsUpdate(c) /\ c \in created
<1>0. /\ TypeOK /\ BranchInv /\ call \in [Calls -> Call] /\ commit \in [Commits -> Commit] /\ head \in Heads
      /\ call[c] \in Call
  BY DEF TaskInv, TypeOK, CallTypeOK, RepoTypeOK
<1>1. call' # call
  BY DEF Landing
<1>2. BranchNext
  BY <1>1 DEF Next, callVars
<1>3. ASSUME NEW d \in Calls, Request(d) \/ CallStep(d) \/ CallCrashes(d) \/ LateUpdate(d)
      PROVE  AcceptsUpdate(c) /\ c \in created
  <2>1. CASE Update(d) \/ LateUpdate(d)
    BY <1>0, <2>1, UpdateKeepsBranch
  <2>2. CASE Request(d) \/ ReadIssue(d) \/ CallCrashes(d) \/ GitFails(d) \/ Reread(d) \/ AdmissionDenies(d)
    <3>1. call'[c].landed = call[c].landed
      BY <1>0, <2>2 DEF Request, ReadIssue, CallCrashes, GitFails, Reread, AdmissionDenies, End, Call
    <3>2. QED
      BY <3>1 DEF Landing
  <2>3. CASE ReadBase(d) \/ RereadIssue(d)
    <3>1. (\E step : Go(d, step)) \/ End(d, "denied")
      BY <2>3 DEF ReadBase, RereadIssue
    <3>2. call'[c].landed = call[c].landed
      BY <1>0, <3>1 DEF Go, End, Call
    <3>3. QED
      BY <3>2 DEF Landing
  <2>4. CASE ReadTermination(d)
    <3>1. call' = [call EXCEPT ![d].pc = "ref", ![d].calm = TRUE] \/ End(d, "denied")
      BY <2>4 DEF ReadTermination
    <3>2. call'[c].landed = call[c].landed
      BY <1>0, <3>1 DEF End, Call
    <3>3. QED
      BY <3>2 DEF Landing
  <2>5. CASE ReadRef(d)
    <3>1. \/ call' = [call EXCEPT ![d].pc = "update", ![d].at = head]
          \/ \E outcome : call' = [call EXCEPT ![d].pc = "done", ![d].at = head, ![d].outcome = outcome]
      BY <2>5 DEF ReadRef
    <3>2. call'[c].landed = call[c].landed
      BY <1>0, <3>1 DEF Call
    <3>3. QED
      BY <3>2 DEF Landing
  <2>6. QED
    BY <1>3, <2>1, <2>2, <2>3, <2>4, <2>5 DEF CallStep
<1>4. CASE (\E p \in Pushes : Pushed(p)) \/ Rewound \/ Deleted
  <2>1. \E h \in Heads : call' = Watched(h, NoCommit)
    <3>1. NoCommit \in Heads /\ \A p \in Pushes : p \in Heads
      BY DEF Heads, Commits
    <3>2. Visited \subseteq Heads
      BY DEF Visited, Heads, Commits
    <3>3. QED
      BY <1>4, <3>1, <3>2 DEF Pushed, Rewound, Deleted
  <2>2. call'[c].landed = call[c].landed
    BY <1>0, <2>1, WatchedCalls
  <2>3. QED
    BY <2>2 DEF Landing
<1>5. QED
  BY <1>2, <1>3, <1>4 DEF BranchNext

\* An update that takes effect replaces the head it was made for and does to
\* every path what the scope allows there.
THEOREM UpdatesStayWithinScope == Spec => LandsWithinScope
<1>1. ASSUME TaskInv, Next, NEW c \in Calls, Landing(c)
      PROVE  /\ commit[c].parent = head
             /\ \A p \in Changed(c) : Operation(commit[head].tree, ChangesOf(c), p) \in Scope[p]
  <2>1. commit[c].parent = head /\ MadeWell(c)
    BY <1>1, OnlyUpdatesLand DEF AcceptsUpdate, TaskInv, BranchInv, CommitsWell
  <2>2. Executable(c, commit[head].tree)
    BY <2>1 DEF MadeWell
  <2>3. QED
    BY <2>1, <2>2 DEF Executable, Admitted
<1>2. TaskInv /\ [Next]_vars =>
        [\A c \in Calls : Landing(c) =>
           /\ commit[c].parent = head
           /\ \A p \in Changed(c) : Operation(commit[head].tree, ChangesOf(c), p) \in Scope[p]]_<<head, call, commit>>
  <2>1. UNCHANGED vars => UNCHANGED <<head, call, commit>>
    BY DEF vars, repoVars, callVars
  <2>2. QED
    BY <1>1, <2>1
<1>3. QED
  BY <1>2, TaskInvariant, PTL DEF Spec, LandsWithinScope
=============================================================================
