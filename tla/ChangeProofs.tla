---------------------------- MODULE ChangeProofs ----------------------------
(***************************************************************************)
(* Proofs about ChangeExecution for every number of executions, commits,    *)
(* pull requests, faults and human steps: the variables keep their types,   *)
(* and a repeated issuance never publishes a Change a second time.          *)
(***************************************************************************)
EXTENDS ChangeExecution, TLAPS

USE DEF NoSha, BaseSha, NoPR

-----------------------------------------------------------------------------
(* GitHub: every update of the repository gives a repository. *)

\* The repository before the Change is issued is well-formed.
LEMMA FreshRepoType == FreshRepo \in Repo
BY MaxCommitsAssumption, MaxPRsAssumption, MaxGovAssumption
   DEF FreshRepo, Repo, CommitIds, Shas, PRNumbers, PRIds, Generations,
       BaseCommit, Commit, Actors, NoPullRequest, PullRequest, PRState

\* One pull request changes, or none when the number is not a pull request.
LEMMA ChangedPRType ==
  ASSUME NEW repo \in Repo, NEW pr, NEW new, pr \in PRIds => new \in PullRequest
  PROVE  [repo EXCEPT !.prs[pr] = new] \in Repo
<1>1. repo.prs \in [PRIds -> PullRequest]
  BY DEF Repo
<1>2. [repo.prs EXCEPT ![pr] = new] \in [PRIds -> PullRequest]
  BY <1>1
<1>3. QED
  BY <1>2 DEF Repo

\* A new commit object.
LEMMA WithCommitType ==
  ASSUME NEW repo \in Repo, NEW by \in Actors, NEW parent,
         NEW record \in BOOLEAN, NEW work \in BOOLEAN, NEW conform \in BOOLEAN,
         repo.n < MaxCommits
  PROVE  WithCommit(repo, by, parent, record, work, conform) \in Repo
<1> DEFINE new == [by |-> by, record |-> record \/ repo.commits[parent].record,
                   work |-> work \/ repo.commits[parent].work, conform |-> conform]
<1>1. repo.n + 1 \in CommitIds
  BY MaxCommitsAssumption DEF Repo, CommitIds
<1>2. new \in Commit
  BY DEF Commit
<1> HIDE DEF new
<1>3. [repo.commits EXCEPT ![repo.n + 1] = new] \in [CommitIds -> Commit]
  BY <1>2 DEF Repo
<1>4. [repo EXCEPT !.n = repo.n + 1, !.commits[repo.n + 1] = new] \in Repo
  BY <1>1, <1>3 DEF Repo
<1>5. QED
  BY <1>4 DEF WithCommit, new

\* The branch moves.
LEMMA WithHeadType ==
  ASSUME NEW repo \in Repo, NEW sha \in Shas
  PROVE  WithHead(repo, sha) \in Repo
<1> DEFINE prs == [p \in PRIds |->
                     IF repo.prs[p].state = "open" THEN [repo.prs[p] EXCEPT !.head = sha]
                     ELSE repo.prs[p]]
<1>1. ASSUME NEW p \in PRIds PROVE prs[p] \in PullRequest
  <2>1. repo.prs[p] \in PullRequest
    BY DEF Repo
  <2>2. [repo.prs[p] EXCEPT !.head = sha] \in PullRequest
    BY <2>1 DEF PullRequest
  <2>3. QED
    BY <2>1, <2>2
<1>2. prs \in [PRIds -> PullRequest]
  BY <1>1
<1> HIDE DEF prs
<1>3. [repo EXCEPT !.branch = sha, !.prs = prs] \in Repo
  BY <1>2 DEF Repo
<1>4. QED
  BY <1>3 DEF WithHead, prs

\* The branch disappears.
LEMMA WithoutBranchType ==
  ASSUME NEW repo \in Repo
  PROVE  WithoutBranch(repo) \in Repo
<1> DEFINE prs == [p \in PRIds |->
                     IF repo.prs[p].state = "open" THEN [repo.prs[p] EXCEPT !.state = "closed"]
                     ELSE repo.prs[p]]
<1>1. ASSUME NEW p \in PRIds PROVE prs[p] \in PullRequest
  <2>1. repo.prs[p] \in PullRequest
    BY DEF Repo
  <2>2. [repo.prs[p] EXCEPT !.state = "closed"] \in PullRequest
    BY <2>1 DEF PullRequest, PRState
  <2>3. QED
    BY <2>1, <2>2
<1>2. prs \in [PRIds -> PullRequest]
  BY <1>1
<1>3. NoSha \in Shas
  BY MaxCommitsAssumption DEF Shas
<1> HIDE DEF prs
<1>4. [repo EXCEPT !.branch = NoSha, !.prs = prs] \in Repo
  BY <1>2, <1>3 DEF Repo
<1>5. QED
  BY <1>4 DEF WithoutBranch, prs

\* A new pull request.
LEMMA WithPRType ==
  ASSUME NEW repo \in Repo, NEW by \in Actors, NEW draft \in BOOLEAN, repo.np < MaxPRs
  PROVE  WithPR(repo, by, draft) \in Repo
<1> DEFINE new == [state |-> "open", draft |-> draft, by |-> by, base |-> "default",
                   head |-> repo.branch, method |-> FALSE]
<1>1. repo.np + 1 \in PRIds /\ repo.np + 1 \in PRNumbers
  BY MaxPRsAssumption DEF Repo, PRIds, PRNumbers
<1>2. new \in PullRequest
  BY DEF PullRequest, PRState, Repo
<1> HIDE DEF new
<1>3. [repo.prs EXCEPT ![repo.np + 1] = new] \in [PRIds -> PullRequest]
  BY <1>2 DEF Repo
<1>4. [repo EXCEPT !.np = repo.np + 1, !.prs[repo.np + 1] = new] \in Repo
  BY <1>1, <1>3 DEF Repo
<1>5. QED
  BY <1>4 DEF WithPR, new

\* Only the named fields of a pull request change.
LEMMA PRFieldType ==
  ASSUME NEW repo \in Repo, NEW p \in PRIds
  PROVE  /\ repo.prs[p] \in PullRequest
         /\ [repo.prs[p] EXCEPT !.draft = FALSE] \in PullRequest
         /\ [repo.prs[p] EXCEPT !.draft = ~repo.prs[p].draft] \in PullRequest
         /\ [repo.prs[p] EXCEPT !.base = "other"] \in PullRequest
         /\ \A st \in PRState : [repo.prs[p] EXCEPT !.state = st] \in PullRequest
         /\ \A m \in BOOLEAN :
              [repo.prs[p] EXCEPT !.state = "merged", !.method = m] \in PullRequest
<1>1. repo.prs[p] \in PullRequest
  BY DEF Repo
<1>2. QED
  BY <1>1 DEF PullRequest, PRState

\* An accepted request gives a repository.
LEMMA ApplyType ==
  ASSUME NEW repo \in Repo, NEW r \in Request, Accepts(repo, r)
  PROVE  Apply(repo, r) \in Repo
<1>1. CASE r.kind = "createRef"
  <2>1. BaseSha \in Shas
    BY MaxCommitsAssumption DEF Shas
  <2>2. QED
    BY <1>1, <2>1, WithHeadType DEF Apply
<1>2. CASE r.kind = "advanceRef"
  BY <1>2, WithHeadType DEF Apply, Request
<1>3. CASE r.kind = "createPR"
  <2>1. repo.np < MaxPRs
    BY <1>3 DEF Accepts, CanOpenPR
  <2>2. r.by \in Actors
    BY DEF Request, Actors
  <2>3. WithPR(repo, r.by, TRUE) \in Repo
    BY <2>1, <2>2, WithPRType
  <2>4. QED
    BY <1>3, <2>3 DEF Apply
<1>4. CASE r.kind = "markReady"
  <2>1. [repo EXCEPT !.prs[r.pr] = [repo.prs[r.pr] EXCEPT !.draft = FALSE]] \in Repo
    BY ChangedPRType, PRFieldType
  <2>2. QED
    BY <1>4, <2>1 DEF Apply
<1>5. CASE r.kind = "closePR"
  <2>1. [repo EXCEPT !.prs[r.pr] = [repo.prs[r.pr] EXCEPT !.state = "closed"]] \in Repo
    BY ChangedPRType, PRFieldType DEF PRState
  <2>2. QED
    BY <1>5, <2>1 DEF Apply
<1>6. CASE r.kind = "deleteRef"
  BY <1>6, WithoutBranchType DEF Apply
<1>7. CASE r.kind = "mergePR"
  <2>1. [repo EXCEPT !.prs[r.pr] =
           [repo.prs[r.pr] EXCEPT !.state = "merged", !.method = MergeMethodReported]] \in Repo
    BY ChangedPRType, PRFieldType, MergeMethodAssumption
  <2>2. QED
    BY <1>7, <2>1 DEF Apply
<1>8. QED
  BY <1>1, <1>2, <1>3, <1>4, <1>5, <1>6, <1>7 DEF Request, RequestKind

-----------------------------------------------------------------------------
(* The Core: projections, plans. *)

\* A projection has a status and a state.
LEMMA ProjectionType ==
  ASSUME NEW ev
  PROVE  Status(ev) \in ProjectionStatus /\ State(ev) \in ChangeState
<1>1. Status(ev) \in ProjectionStatus
  BY DEF Status, ProjectionStatus
<1>2. State(ev) \in ChangeState
  <2>1. ASSUME NEW pr PROVE ChangeStateFromPullRequest(pr) \in ChangeState
    BY DEF ChangeStateFromPullRequest, ChangeState
  <2>2. QED
    BY <2>1 DEF State, ChangeState
<1>3. QED
  BY <1>1, <1>2

\* The only listed pull request is a pull request.
LEMMA OnlyPRType ==
  ASSUME NEW ev, SinglePR(ev)
  PROVE  OnlyPR(ev) \in PRIds /\ Listed(ev) = {OnlyPR(ev)}
<1>1. PICK p \in PRIds : Listed(ev) = {p}
  BY DEF SinglePR
<1>2. OnlyPR(ev) \in PRIds /\ OnlyPR(ev) \in Listed(ev)
  BY <1>1 DEF OnlyPR
<1>3. QED
  BY <1>1, <1>2

\* The projected number is a number.
LEMMA ProjectedPRType ==
  ASSUME NEW ev
  PROVE  ProjectedPR(ev) \in PRNumbers
<1>1. NoPR \in PRNumbers /\ PRIds \subseteq PRNumbers
  BY MaxPRsAssumption DEF PRIds, PRNumbers
<1>2. QED
  BY <1>1, OnlyPRType DEF ProjectedPR

\* Every plan is a plan, and only issuance plans a creation, from nothing listed.
LEMMA PlanType ==
  ASSUME NEW ev \in Evidence, NEW commits
  PROVE  /\ NoPlan \in Plan
         /\ IssuancePlan(ev) \in Plan
         /\ IssuancePlan(ev).kind = "create" => Listed(ev) = {}
         /\ ReadyPlan(ev, commits) \in Plan /\ ReadyPlan(ev, commits).kind # "create"
         /\ AbortPlan(ev) \in Plan /\ AbortPlan(ev).kind # "create"
         /\ MergePlan(ev) \in Plan /\ MergePlan(ev).kind # "create"
<1>1. NoSha \in Shas /\ NoPR \in PRNumbers
  BY MaxCommitsAssumption, MaxPRsAssumption DEF Shas, PRNumbers
<1>2. \A kind \in PlanKind, st \in ChangeState, sha \in Shas :
         /\ PlanOf(kind, st, ProjectedPR(ev), sha) \in Plan
         /\ PlanOf(kind, st, NoPR, sha) \in Plan
         /\ PlanOf(kind, st, ProjectedPR(ev), sha).kind = kind
         /\ PlanOf(kind, st, NoPR, sha).kind = kind
  BY <1>1, ProjectedPRType DEF PlanOf, Plan
<1>3. NoPlan \in Plan /\ NoPlan.kind = "none"
  BY <1>1 DEF NoPlan, Plan, PlanKind, ChangeState
<1>4. State(ev) \in ChangeState
  BY ProjectionType
<1>5. ev.branch \in Shas
  BY DEF Evidence
<1>6. MergeAdmissible(ev) => ev.prs[OnlyPR(ev)].head \in Shas
  <2>1. SUFFICES ASSUME SinglePR(ev) PROVE ev.prs[OnlyPR(ev)].head \in Shas
    BY DEF MergeAdmissible, IssuedByInari
  <2>2. ev.prs[OnlyPR(ev)] \in PullRequest
    BY <2>1, OnlyPRType DEF Evidence
  <2>3. QED
    BY <2>2 DEF PullRequest
<1>7. IssuancePlan(ev) \in Plan /\ (IssuancePlan(ev).kind = "create" => Listed(ev) = {})
  <2>1. Status(ev) = "absent" => Listed(ev) = {}
    BY DEF Status
  <2>2. QED
    BY <1>1, <1>2, <1>3, <1>4, <2>1 DEF IssuancePlan, PlanKind, ChangeState
<1>8. ReadyPlan(ev, commits) \in Plan /\ ReadyPlan(ev, commits).kind # "create"
  BY <1>1, <1>2, <1>3 DEF ReadyPlan, PlanKind, ChangeState
<1>9. AbortPlan(ev) \in Plan /\ AbortPlan(ev).kind # "create"
  BY <1>1, <1>2, <1>3, <1>5 DEF AbortPlan, PlanKind, ChangeState
<1>10. MergePlan(ev) \in Plan /\ MergePlan(ev).kind # "create"
  BY <1>2, <1>3, <1>6 DEF MergePlan, PlanKind, ChangeState
<1>11. QED
  BY <1>3, <1>7, <1>8, <1>9, <1>10

-----------------------------------------------------------------------------
(* The local state of an execution. *)

\* Every update an action makes gives a local state.
LEMMA ExecutionType ==
  ASSUME NEW x \in Execution
  PROVE  /\ \A st \in ExecState : Goto(x, st) \in Execution
         /\ \A r \in Outcome : Finish(x, r) \in Execution
         /\ x.step < 2 => Advance(x) \in Execution
         /\ \A m \in Mode : [x EXCEPT !.mode = m] \in Execution
         /\ \A ev \in Evidence : [x EXCEPT !.ev = ev] \in Execution
         /\ \A c \in Shas : [x EXCEPT !.made = c] \in Execution
         /\ \A p \in Plan : [x EXCEPT !.plan = p] \in Execution
         /\ \A p \in Plan : [x EXCEPT !.plan = p, !.idx = 1, !.mode = "verify"] \in Execution
         /\ \A g \in SeenGenerations : [x EXCEPT !.govSeen = g] \in Execution
<1>0. 0 \in StepNo /\ 1 \in EffectNo /\ "done" \in ExecState /\ "verify" \in Mode
  BY DEF StepNo, EffectNo, ExecState, Mode
<1>1. ASSUME NEW st \in ExecState PROVE Goto(x, st) \in Execution
  BY <1>0 DEF Goto, Execution
<1>2. ASSUME NEW r \in Outcome PROVE Finish(x, r) \in Execution
  BY <1>0 DEF Finish, Execution
<1>3. x.step < 2 => Advance(x) \in Execution
  <2>1. x.step < 2 => x.step + 1 \in StepNo
    BY DEF StepNo, Execution
  <2>2. QED
    BY <2>1 DEF Advance, Execution
<1>4. ASSUME NEW m \in Mode PROVE [x EXCEPT !.mode = m] \in Execution
  BY DEF Execution
<1>5. ASSUME NEW ev \in Evidence PROVE [x EXCEPT !.ev = ev] \in Execution
  BY DEF Execution
<1>6. ASSUME NEW c \in Shas PROVE [x EXCEPT !.made = c] \in Execution
  BY DEF Execution
<1>7. ASSUME NEW p \in Plan
      PROVE  /\ [x EXCEPT !.plan = p] \in Execution
             /\ [x EXCEPT !.plan = p, !.idx = 1, !.mode = "verify"] \in Execution
  BY <1>0 DEF Execution
<1>8. ASSUME NEW g \in SeenGenerations PROVE [x EXCEPT !.govSeen = g] \in Execution
  BY DEF Execution
<1>9. QED
  BY <1>1, <1>2, <1>3, <1>4, <1>5, <1>6, <1>7, <1>8

\* The next call, with new evidence, a new commit or a new mode.
LEMMA AdvanceType ==
  ASSUME NEW x \in Execution, x.step \in {0, 1}
  PROVE  /\ \A ev \in Evidence : Advance([x EXCEPT !.ev = ev]) \in Execution
         /\ \A c \in Shas : Advance([x EXCEPT !.made = c]) \in Execution
         /\ \A m \in Mode : Advance([x EXCEPT !.mode = m]) \in Execution
<1>1. x.step + 1 \in StepNo
  BY DEF StepNo
<1>2. ASSUME NEW ev \in Evidence PROVE Advance([x EXCEPT !.ev = ev]) \in Execution
  BY <1>1 DEF Advance, Execution
<1>3. ASSUME NEW c \in Shas PROVE Advance([x EXCEPT !.made = c]) \in Execution
  BY <1>1 DEF Advance, Execution
<1>4. ASSUME NEW m \in Mode PROVE Advance([x EXCEPT !.mode = m]) \in Execution
  BY <1>1 DEF Advance, Execution
<1>5. QED
  BY <1>2, <1>3, <1>4

\* A plan has at most three effects.
LEMMA EffectsLength ==
  ASSUME NEW kind
  PROVE  Len(Effects(kind)) \in 0 .. 3
BY DEF Effects

\* The next effect, or the reread after the last one.
LEMMA EffectDoneType ==
  ASSUME NEW x \in Execution
  PROVE  EffectDone(x) \in Execution
<1>1. CASE x.st = "applyingCompensation"
  <2>1. [x EXCEPT !.mode = "succeeded"] \in Execution
    BY ExecutionType DEF Mode
  <2>2. Goto([x EXCEPT !.mode = "succeeded"], "rereadingAfterCompensation") \in Execution
    BY <2>1, ExecutionType DEF ExecState, ReadStates
  <2>3. QED
    BY <1>1, <2>2 DEF EffectDone
<1>2. CASE x.st # "applyingCompensation" /\ x.idx < Len(Effects(x.plan.kind))
  <2>1. x.idx \in EffectNo /\ Len(Effects(x.plan.kind)) \in 0 .. 3
    BY EffectsLength DEF Execution
  <2>2. \A i \in EffectNo, n \in 0 .. 3 : i < n => i + 1 \in EffectNo
    BY DEF EffectNo
  <2>3. x.idx + 1 \in EffectNo /\ 0 \in StepNo
    <3>1. x.idx + 1 \in EffectNo
      BY <1>2, <2>1, <2>2, Zenon
    <3>2. QED
      BY <3>1 DEF StepNo
  <2>4. [x EXCEPT !.idx = x.idx + 1, !.step = 0] \in Execution
    BY <2>3 DEF Execution
  <2>5. QED
    BY <1>2, <2>4 DEF EffectDone
<1>3. CASE x.st # "applyingCompensation" /\ ~(x.idx < Len(Effects(x.plan.kind)))
  BY <1>3, ExecutionType DEF EffectDone, Mode, ExecState, ReadStates
<1>4. QED
  BY <1>1, <1>2, <1>3

\* The reread after a failed effect.
LEMMA EffectFailedType ==
  ASSUME NEW x \in Execution
  PROVE  EffectFailed(x) \in Execution
BY ExecutionType DEF EffectFailed, Mode, ExecState, ReadStates

-----------------------------------------------------------------------------
(* Type correctness. *)

\* TypeOK without calm, which Next sets apart from the actions.
Typed ==
  /\ gh \in Repo
  /\ ex \in [Execs -> Execution]
  /\ late \subseteq Request
  /\ faults \in 0 .. MaxFaults
  /\ env \in 0 .. MaxEnv
  /\ truth \in [Execs -> SUBSET (ProjectionStatus \X ChangeState)]
  /\ applied \subseteq Applied
  /\ known \in [Execs -> SUBSET PRIds]

\* No evidence is evidence, and an idle execution is an execution.
LEMMA IdleType == NoEvidence \in Evidence /\ IdleExecution \in Execution
<1>1. NoSha \in Shas /\ NoPR \in PRNumbers /\ 0 \in SeenGenerations
      /\ 0 \in StepNo /\ 1 \in EffectNo
  BY MaxCommitsAssumption, MaxPRsAssumption DEF Shas, PRNumbers, SeenGenerations, StepNo, EffectNo
<1>2. NoPullRequest \in PullRequest
  BY <1>1 DEF NoPullRequest, PullRequest, PRState, Actors
<1>3. NoEvidence \in Evidence
  BY <1>1, <1>2 DEF NoEvidence, Evidence
<1>4. NoPlan \in Plan
  BY <1>1 DEF NoPlan, Plan, PlanKind, ChangeState
<1>5. QED
  BY <1>1, <1>3, <1>4 DEF IdleExecution, Execution, ExecState, Mode, Outcome

\* What is true of the Change now.
LEMMA TruthType == Truth \in ProjectionStatus \X ChangeState
BY ProjectionType DEF Truth

\* The initial state is typed.
LEMMA InitType == Init => TypeOK
BY FreshRepoType, IdleType, BoundsAssumption DEF Init, TypeOK

\* What an applied request hit.
LEMMA HitType ==
  ASSUME Typed, NEW r \in Request
  PROVE  Hit(r) \in Applied
<1>1. gh.branch \in Shas
  BY DEF Typed, Repo
<1>2. OpenPRs(gh) \in SUBSET PRIds
  BY DEF OpenPRs
<1>3. r.pr # NoPR => r.pr \in PRIds
  BY MaxPRsAssumption DEF Request, PRNumbers, PRIds
<1>4. r.pr # NoPR => gh.prs[r.pr].base \in {"default", "other"}
  <2>1. ASSUME r.pr # NoPR PROVE gh.prs[r.pr] \in PullRequest
    BY <1>3, <2>1 DEF Typed, Repo
  <2>2. QED
    BY <2>1 DEF PullRequest
<1>5. QED
  BY <1>1, <1>2, <1>4 DEF Hit, Applied

\* A step of e that touches nothing but its local state.
LEMMA ObserveTyped ==
  ASSUME Typed, NEW e \in Execs, NEW x \in Execution, Observe(e, x)
  PROVE  Typed'
BY DEF Typed, Observe

\* The same, with a fault.
LEMMA RefusedAnywayTyped ==
  ASSUME Typed, NEW e \in Execs, NEW x \in Execution, RefusedAnyway(e, x)
  PROVE  Typed'
BY BoundsAssumption DEF Typed, RefusedAnyway

\* A request with each of its fates.
LEMMA SendTyped ==
  ASSUME Typed, NEW e \in Execs, NEW r \in Request, NEW ok \in Execution,
         NEW refused \in Execution, NEW unknown \in Execution,
         Send(e, r, ok, refused, unknown)
  PROVE  Typed'
<1>1. CASE Acknowledged(e, r, ok)
  <2>1. gh' \in Repo /\ applied' \subseteq Applied
    BY <1>1, ApplyType, HitType DEF Acknowledged, Typed
  <2>2. QED
    BY <1>1, <2>1 DEF Acknowledged, Typed
<1>2. CASE Refused(e, r, refused)
  BY <1>2, ObserveTyped DEF Refused
<1>3. CASE RefusedAnyway(e, refused)
  BY <1>3, RefusedAnywayTyped
<1>4. CASE AnswerLost(e, r, unknown)
  <2>1. gh' \in Repo /\ applied' \subseteq Applied
    BY <1>4, ApplyType, HitType DEF AnswerLost, Typed
  <2>2. QED
    BY <1>4, <2>1, BoundsAssumption DEF AnswerLost, Typed
<1>5. CASE TimedOut(e, r, unknown)
  BY <1>5, BoundsAssumption DEF TimedOut, Typed
<1>6. QED
  BY <1>1, <1>2, <1>3, <1>4, <1>5 DEF Send

\* The evidence of a complete read.
LEMMA LastReadType ==
  ASSUME Typed, NEW e \in Execs
  PROVE  LastRead(e) \in Evidence
<1>1. ex[e].ev \in Evidence
  BY DEF Typed, Execution
<1>2. gh.prs \in [PRIds -> PullRequest] /\ gh.gov \in SeenGenerations
  BY DEF Typed, Repo, SeenGenerations
<1>3. SinglePR(ex[e].ev) => gh.prs[OnlyPR(ex[e].ev)].head \in Shas
  BY <1>2, OnlyPRType DEF PullRequest
<1>4. NoSha \in Shas
  BY MaxCommitsAssumption DEF Shas
<1>5. QED
  BY <1>1, <1>2, <1>3, <1>4 DEF LastRead, Evidence

\* The step that completes a read.
LEMMA ReadDoneTyped ==
  ASSUME Typed, NEW e \in Execs, NEW x \in Execution, ReadDone(e, x)
  PROVE  Typed'
<1>1. [x EXCEPT !.ev = LastRead(e)] \in Execution
  BY LastReadType, ExecutionType
<1>2. truth[e] \cup {Truth} \in SUBSET (ProjectionStatus \X ChangeState)
  BY TruthType DEF Typed
<1>3. QED
  BY <1>1, <1>2 DEF ReadDone, Typed

\* A human step.
LEMMA HumanDoesTyped ==
  ASSUME Typed, NEW kind, NEW repo \in Repo, HumanDoes(kind, repo)
  PROVE  Typed'
BY BoundsAssumption DEF Typed, HumanDoes

\* Planning from a complete read, and finishing from one.
LEMMA PlannedType ==
  ASSUME Typed, NEW e \in Execs, NEW plan \in Plan
  PROVE  Planned(e, plan) \in Execution
<1> DEFINE x == [ex[e] EXCEPT !.plan = plan, !.idx = 1, !.mode = "verify"]
<1>1. ex[e] \in Execution
  BY DEF Typed
<1>2. x \in Execution
  BY <1>1, ExecutionType
<1>3. ApplyState(Op[e]) \in ExecState /\ "rereading" \in ExecState /\ "precondition-failed" \in Outcome
  BY DEF ApplyState, ExecState, ReadStates, ApplyStates, Outcome
<1> HIDE DEF x
<1>4. /\ Finish(x, "precondition-failed") \in Execution
      /\ Goto(x, "rereading") \in Execution
      /\ Goto(x, ApplyState(Op[e])) \in Execution
  BY <1>2, <1>3, ExecutionType
<1>5. QED
  BY <1>4 DEF Planned, x

\* The steps of a read and the control after it.
LEMMA ReadStepsTyped ==
  ASSUME Typed, NEW e \in Execs, ReadSteps(e)
  PROVE  Typed'
<1>1. ex[e] \in Execution /\ gh.prs \in [PRIds -> PullRequest] /\ gh.branch \in Shas
      /\ gh.issue \in {"open", "closed"} /\ gh.gov \in SeenGenerations
  BY DEF Typed, Repo, SeenGenerations
<1>2. \A r \in Outcome : Finish(ex[e], r) \in Execution
  BY <1>1, ExecutionType
<1>3. LastRead(e) \in Evidence
  BY LastReadType
<1>4. CASE ReadBranches(e)
  <2>1. [NoEvidence EXCEPT !.issue = gh.issue, !.branch = gh.branch] \in Evidence
    BY <1>1, IdleType DEF Evidence
  <2>2. ex[e].step \in {0, 1}
    BY <1>4 DEF ReadBranches
  <2>3. Advance([ex[e] EXCEPT !.ev = [NoEvidence EXCEPT !.issue = gh.issue, !.branch = gh.branch]])
          \in Execution
    BY <1>1, <2>1, <2>2, AdvanceType
  <2>4. QED
    BY <1>4, <2>3, TruthType DEF ReadBranches, Typed
<1>5. CASE ReadPullRequests(e)
  <2>1. [ex[e].ev EXCEPT !.prs = gh.prs] \in Evidence
    BY <1>1 DEF Execution, Evidence
  <2>2. ex[e].step \in {0, 1}
    BY <1>5 DEF ReadPullRequests
  <2>3. Advance([ex[e] EXCEPT !.ev = [ex[e].ev EXCEPT !.prs = gh.prs]]) \in Execution
    BY <1>1, <2>1, <2>2, AdvanceType
  <2>4. Advance([ex[e] EXCEPT !.ev.prs = gh.prs]) \in Execution
    BY <2>3
  <2>5. QED
    BY <1>5, <2>4, TruthType DEF ReadPullRequests, Typed
<1>6. CASE ReadFailure(e)
  <2>1. PICK r \in Outcome : ex' = [ex EXCEPT ![e] = Finish(ex[e], r)]
    BY <1>6 DEF ReadFailure, Outcome
  <2>2. QED
    BY <1>2, <1>6, <2>1, BoundsAssumption DEF ReadFailure, Typed
<1>7. CASE IssueValidateInitial(e)
  <2>1. [ex[e] EXCEPT !.govSeen = gh.gov] \in Execution
    BY <1>1, ExecutionType
  <2>2. Goto([ex[e] EXCEPT !.govSeen = gh.gov], "readingFresh") \in Execution
    BY <2>1, ExecutionType DEF ExecState, ReadStates
  <2>3. QED
    BY <1>2, <1>7, <2>2, ReadDoneTyped DEF IssueValidateInitial, Outcome
<1>8. CASE IssuePlanning(e)
  <2>1. Planned(e, IssuancePlan(LastRead(e))) \in Execution
    BY <1>3, PlanType, PlannedType
  <2>2. QED
    BY <1>2, <1>8, <2>1, ReadDoneTyped DEF IssuePlanning, Outcome
<1>9. ASSUME NEW ok PROVE Verified(e, ok) \in Execution
  BY <1>2 DEF Verified, Outcome
<1>10. CASE IssueVerifying(e)
  BY <1>9, <1>10, ReadDoneTyped DEF IssueVerifying
<1>11. CASE IssueClassifyingFailure(e)
  <2>1. Goto(ex[e], "applyingCompensation") \in Execution
    BY <1>1, ExecutionType DEF ExecState, ApplyStates
  <2>2. QED
    BY <1>2, <1>11, <2>1, ReadDoneTyped DEF IssueClassifyingFailure, Outcome
<1>12. CASE IssueRecoveryOutcome(e)
  BY <1>2, <1>12, ReadDoneTyped DEF IssueRecoveryOutcome, Outcome
<1>13. CASE ReadyPlanning(e)
  <2>1. Planned(e, ReadyPlan(LastRead(e), gh.commits)) \in Execution
    BY <1>3, PlanType, PlannedType
  <2>2. QED
    BY <1>13, <2>1, ReadDoneTyped DEF ReadyPlanning
<1>14. CASE ReadyVerifying(e)
  BY <1>2, <1>9, <1>14, ReadDoneTyped DEF ReadyVerifying, Outcome
<1>15. CASE AbortPlanning(e)
  <2>1. Planned(e, AbortPlan(LastRead(e))) \in Execution
    BY <1>3, PlanType, PlannedType
  <2>2. QED
    BY <1>2, <1>15, <2>1, ReadDoneTyped DEF AbortPlanning, Outcome
<1>16. CASE AbortVerifying(e)
  BY <1>9, <1>16, ReadDoneTyped DEF AbortVerifying
<1>17. CASE AbortRecoveryPlanning(e)
  BY <1>2, <1>17, ReadDoneTyped DEF AbortRecoveryPlanning, Outcome
<1>18. CASE MergeAdmission(e)
  <2>1. [ex[e] EXCEPT !.plan = MergePlan(LastRead(e))] \in Execution
    BY <1>1, <1>3, PlanType, ExecutionType
  <2>2. Goto([ex[e] EXCEPT !.plan = MergePlan(LastRead(e))], "merging") \in Execution
    BY <2>1, ExecutionType DEF ExecState
  <2>3. QED
    BY <1>2, <1>18, <2>2, ReadDoneTyped DEF MergeAdmission, Outcome
<1>19. CASE MergeVerifying(e)
  BY <1>2, <1>19, ReadDoneTyped DEF MergeVerifying, Outcome
<1>20. QED
  BY <1>4, <1>5, <1>6, <1>7, <1>8, <1>10, <1>11, <1>12, <1>13, <1>14, <1>15, <1>16,
     <1>17, <1>18, <1>19 DEF ReadSteps

\* The steps of effects and of the merge.
LEMMA EffectStepsTyped ==
  ASSUME Typed, ProvenanceHasParent, NEW e \in Execs, EffectSteps(e)
  PROVE  Typed'
<1>1. ex[e] \in Execution /\ ex[e].plan \in Plan /\ ex[e].made \in Shas
  BY DEF Typed, Execution
<1>2. /\ EffectDone(ex[e]) \in Execution
      /\ EffectFailed(ex[e]) \in Execution
      /\ \A r \in Outcome : Finish(ex[e], r) \in Execution
      /\ ex[e].step < 2 => Advance(ex[e]) \in Execution
  BY <1>1, EffectDoneType, EffectFailedType, ExecutionType
<1>3. NoSha \in Shas /\ BaseSha \in Shas /\ NoPR \in PRNumbers
  BY MaxCommitsAssumption, MaxPRsAssumption DEF Shas, PRNumbers
<1>4. ex[e].plan.pr \in PRNumbers /\ ex[e].plan.sha \in Shas
  BY <1>1 DEF Plan
<1>5. \A kind \in RequestKind, pr \in PRNumbers, from \in Shas, to \in Shas :
         RequestOf(e, kind, pr, from, to) \in Request
  BY DEF RequestOf, Request
<1>6. ASSUME NEW r \in Request, SendEffect(e, r) PROVE Typed'
  BY <1>2, <1>6, SendTyped DEF SendEffect
<1>7. CASE CreateBranch(e)
  BY <1>3, <1>5, <1>6, <1>7 DEF CreateBranch, RequestKind
<1>8. CASE ReadProvenance(e)
  <2>1. gh.branch \in Shas
    BY DEF Typed, Repo
  <2>2. [ex[e] EXCEPT !.made = gh.branch] \in Execution
    BY <1>1, <2>1, ExecutionType
  <2>3. ex[e].step \in {0, 1}
    BY <1>8 DEF ReadProvenance, AtEffect
  <2>4. /\ EffectDone([ex[e] EXCEPT !.made = gh.branch]) \in Execution
        /\ Advance([ex[e] EXCEPT !.made = gh.branch]) \in Execution
    BY <1>1, <2>1, <2>2, <2>3, EffectDoneType, AdvanceType
  <2>5. QED
    BY <1>2, <1>8, <2>4, ObserveTyped DEF ReadProvenance
<1>9. CASE AdvanceProvenance(e)
  <2> DEFINE new     == gh.n + 1
             created == WithCommit(gh, e, ex[e].made, TRUE, FALSE, gh.commits[ex[e].made].conform)
             r       == RequestOf(e, "advanceRef", NoPR, ex[e].made, new)
             next    == Advance([ex[e] EXCEPT !.made = new])
  <2>1. ex[e].made \in CommitIds
    BY <1>1, <1>9 DEF AdvanceProvenance, ProvenanceHasParent, Shas, CommitIds
  <2>2. gh.commits[ex[e].made].conform \in BOOLEAN
    BY <2>1 DEF Typed, Repo, Commit
  <2>3. gh.n < MaxCommits /\ e \in Actors
    BY <1>9 DEF AdvanceProvenance, Actors
  <2>4. created \in Repo
    BY <2>2, <2>3, WithCommitType DEF Typed
  <2>5. new \in Shas
    BY <2>3, MaxCommitsAssumption DEF Typed, Repo, CommitIds, Shas
  <2>6. r \in Request
    BY <1>1, <1>3, <1>5, <2>5 DEF RequestKind
  <2>7. Apply(created, r) \in Repo
    BY <2>4, <2>5, WithHeadType DEF Apply, RequestOf
  <2>8. next \in Execution
    <3>1. ex[e].step \in {0, 1}
      BY <1>9 DEF AdvanceProvenance, AtEffect
    <3>2. QED
      BY <1>1, <2>5, <3>1, AdvanceType
  <2>9. Hit(r) \in Applied
    BY <2>6, HitType
  <2> HIDE DEF new, created, r, next
  <2>10. CASE /\ Accepts(gh, r)
              /\ gh' = Apply(created, r)
              /\ applied' = applied \cup {Hit(r)}
              /\ ex' = [ex EXCEPT ![e] = next]
              /\ UNCHANGED <<late, faults, env, truth, known>>
    BY <2>7, <2>8, <2>9, <2>10 DEF Typed
  <2>11. CASE /\ ~Accepts(gh, r)
              /\ gh' = created
              /\ ex' = [ex EXCEPT ![e] = next]
              /\ UNCHANGED <<late, faults, env, truth, applied, known>>
    BY <2>4, <2>8, <2>11 DEF Typed
  <2>12. CASE /\ faults < MaxFaults
              /\ faults' = faults + 1
              /\ gh' \in {created} \cup (IF Accepts(gh, r) THEN {Apply(created, r)} ELSE {})
              /\ applied' = IF gh'.branch = new THEN applied \cup {Hit(r)} ELSE applied
              /\ late' = IF LateRequests /\ gh'.branch # new THEN late \cup {r} ELSE late
              /\ ex' = [ex EXCEPT ![e] = EffectFailed(ex[e])]
              /\ UNCHANGED <<env, truth, known>>
    <3>1. gh' \in Repo
      BY <2>4, <2>7, <2>12
    <3>2. applied' \subseteq Applied /\ late' \subseteq Request
      BY <2>6, <2>9, <2>12 DEF Typed
    <3>3. faults' \in 0 .. MaxFaults
      BY <2>12, BoundsAssumption DEF Typed
    <3>4. QED
      BY <1>2, <2>12, <3>1, <3>2, <3>3 DEF Typed
  <2>13. QED
    BY <1>9, <2>10, <2>11, <2>12 DEF AdvanceProvenance, new, created, r, next
<1>10. CASE RereadProvenance(e)
  BY <1>2, <1>10, ObserveTyped DEF RereadProvenance
<1>11. CASE CreatePullRequest(e)
  BY <1>3, <1>5, <1>6, <1>11 DEF CreatePullRequest, RequestKind
<1>12. CASE CheckDraft(e)
  BY <1>2, <1>12, ObserveTyped DEF CheckDraft, AtEffect
<1>13. CASE MarkPullRequestReady(e)
  BY <1>3, <1>4, <1>5, <1>6, <1>13 DEF MarkPullRequestReady, RequestKind
<1>14. CASE ClosePullRequest(e)
  BY <1>3, <1>4, <1>5, <1>6, <1>14 DEF ClosePullRequest, RequestKind
<1>15. CASE CheckGeneration(e)
  BY <1>2, <1>15, ObserveTyped DEF CheckGeneration, AtEffect
<1>16. CASE DeleteBranchIfUnchanged(e)
  <2>1. ExpectedSha(ex[e]) \in Shas
    BY <1>1, <1>4 DEF ExpectedSha
  <2>2. QED
    BY <1>3, <1>5, <1>6, <1>16, <2>1 DEF DeleteBranchIfUnchanged, RequestKind
<1>17. CASE EffectReadFailure(e)
  BY <1>2, <1>17, RefusedAnywayTyped DEF EffectReadFailure
<1>18. \A m \in Mode : Goto([ex[e] EXCEPT !.mode = m], "rereading") \in Execution
  <2>1. \A m \in Mode : [ex[e] EXCEPT !.mode = m] \in Execution
    BY <1>1, ExecutionType
  <2>2. QED
    BY <2>1, ExecutionType DEF ExecState, ReadStates
<1>19. CASE AdmitMergeTarget(e)
  BY <1>2, <1>18, <1>19, ObserveTyped DEF AdmitMergeTarget, Mode, Outcome
<1>20. CASE MergePullRequest(e)
  <2>1. \A m \in Mode : Advance([ex[e] EXCEPT !.mode = m]) \in Execution
    <3>1. ex[e].step \in {0, 1}
      BY <1>20 DEF MergePullRequest
    <3>2. QED
      BY <1>1, <3>1, AdvanceType
  <2>2. "accepted" \in Mode /\ "refused" \in Mode /\ "unknown" \in Mode
    BY DEF Mode
  <2>3. RequestOf(e, "mergePR", ex[e].plan.pr, ex[e].plan.sha, NoSha) \in Request
    BY <1>3, <1>4, <1>5 DEF RequestKind
  <2>4. QED
    BY <1>20, <2>1, <2>2, <2>3, SendTyped DEF MergePullRequest
<1>21. CASE RereadMerged(e)
  BY <1>2, <1>18, <1>21, ObserveTyped DEF RereadMerged, Mode, Outcome
<1>22. CASE MergeReadFailure(e)
  BY <1>2, <1>22, RefusedAnywayTyped DEF MergeReadFailure, Outcome
<1>23. QED
  BY <1>7, <1>8, <1>9, <1>10, <1>11, <1>12, <1>13, <1>14, <1>15, <1>16, <1>17, <1>19,
     <1>20, <1>21, <1>22 DEF EffectSteps

\* Human steps.
LEMMA HumanStepTyped ==
  ASSUME Typed, HumanStep
  PROVE  Typed'
<1>1. gh \in Repo /\ Human \in Actors
  BY DEF Typed, Actors
<1>2. ASSUME NEW conform \in BOOLEAN, HumanPush(conform) PROVE Typed'
  <2> DEFINE parent == IF gh.branch = NoSha THEN BaseSha ELSE gh.branch
  <2>1. WithCommit(gh, Human, parent, FALSE, TRUE, conform) \in Repo
    BY <1>1, <1>2, WithCommitType DEF HumanPush
  <2>2. gh.n + 1 \in Shas
    BY <1>1, <1>2, MaxCommitsAssumption DEF HumanPush, Repo, CommitIds, Shas
  <2>3. WithHead(WithCommit(gh, Human, parent, FALSE, TRUE, conform), gh.n + 1) \in Repo
    BY <2>1, <2>2, WithHeadType
  <2>4. QED
    BY <1>2, <2>3, HumanDoesTyped DEF HumanPush
<1>3. CASE HumanDeleteBranch
  BY <1>1, <1>3, WithoutBranchType, HumanDoesTyped DEF HumanDeleteBranch
<1>4. CASE HumanOpenPR
  <2>1. WithPR(gh, Human, FALSE) \in Repo
    BY <1>1, <1>4, WithPRType DEF HumanOpenPR, CanOpenPR
  <2>2. QED
    BY <1>4, <2>1, HumanDoesTyped DEF HumanOpenPR
<1>5. CASE HumanCloseIssue
  <2>1. [gh EXCEPT !.issue = "closed"] \in Repo
    BY <1>1 DEF Repo
  <2>2. QED
    BY <1>5, <2>1, HumanDoesTyped DEF HumanCloseIssue
<1>6. CASE GovernanceChange
  <2>1. gh.gov + 1 \in Generations
    BY <1>1, <1>6, MaxGovAssumption DEF GovernanceChange, Repo, Generations
  <2>2. [gh EXCEPT !.gov = gh.gov + 1] \in Repo
    BY <1>1, <2>1 DEF Repo
  <2>3. QED
    BY <1>6, <2>2, HumanDoesTyped DEF GovernanceChange
<1>7. ASSUME NEW p \in PRIds,
             \/ HumanClosePR(p) \/ HumanReopenPR(p) \/ HumanToggleDraft(p)
             \/ HumanMergePR(p) \/ HumanRetargetPR(p)
      PROVE  Typed'
  <2>1. /\ \A st \in PRState : [gh EXCEPT !.prs[p] = [gh.prs[p] EXCEPT !.state = st]] \in Repo
        /\ [gh EXCEPT !.prs[p] = [gh.prs[p] EXCEPT !.draft = ~gh.prs[p].draft]] \in Repo
        /\ [gh EXCEPT !.prs[p] = [gh.prs[p] EXCEPT !.base = "other"]] \in Repo
        /\ \A m \in BOOLEAN :
             [gh EXCEPT !.prs[p] = [gh.prs[p] EXCEPT !.state = "merged", !.method = m]] \in Repo
    BY <1>1, PRFieldType, ChangedPRType
  <2>2. "open" \in PRState /\ "closed" \in PRState
    BY DEF PRState
  <2>3. CASE HumanClosePR(p)
    BY <2>1, <2>2, <2>3, HumanDoesTyped DEF HumanClosePR
  <2>4. CASE HumanReopenPR(p)
    BY <2>1, <2>2, <2>4, HumanDoesTyped DEF HumanReopenPR
  <2>5. CASE HumanToggleDraft(p)
    BY <2>1, <2>5, HumanDoesTyped DEF HumanToggleDraft
  <2>6. CASE HumanMergePR(p)
    BY <2>1, <2>6, HumanDoesTyped, MergeMethodAssumption DEF HumanMergePR
  <2>7. CASE HumanRetargetPR(p)
    BY <2>1, <2>7, HumanDoesTyped DEF HumanRetargetPR
  <2>8. QED
    BY <1>7, <2>3, <2>4, <2>5, <2>6, <2>7
<1>8. QED
  BY <1>2, <1>3, <1>4, <1>5, <1>6, <1>7 DEF HumanStep

\* Every step keeps the types.
LEMMA StepTyped ==
  ASSUME TypeOK, ProvenanceHasParent, Next
  PROVE  TypeOK'
<1>1. Typed
  BY DEF TypeOK, Typed
<1>2. ASSUME NEW e \in Execs, Begin(e) PROVE Typed'
  <2>1. Goto(ex[e], IF Op[e] = "issue" THEN "readingInitial" ELSE "reading") \in Execution
    BY <1>1, ExecutionType DEF Typed, ExecState, ReadStates
  <2>2. Listed(Now) \subseteq PRIds
    BY DEF Listed
  <2>3. QED
    BY <1>1, <1>2, <2>1, <2>2 DEF Begin, Typed
<1>3. ASSUME NEW e \in Execs, Crash(e) PROVE Typed'
  <2>1. Finish(ex[e], "crashed") \in Execution
    BY <1>1, ExecutionType DEF Typed, Outcome
  <2>2. QED
    BY <1>1, <1>3, <2>1, RefusedAnywayTyped DEF Crash
<1>4. ASSUME NEW r \in late, LateArrival(r) PROVE Typed'
  <2>1. r \in Request
    BY <1>1 DEF Typed
  <2>2. gh' \in Repo /\ applied' \subseteq Applied
    BY <1>1, <1>4, <2>1, ApplyType, HitType DEF LateArrival, Typed
  <2>3. QED
    BY <1>1, <1>4, <2>2 DEF LateArrival, Typed
<1>5. Typed'
  BY <1>1, <1>2, <1>3, <1>4, ReadStepsTyped, EffectStepsTyped, HumanStepTyped
     DEF Next, Step, ExecStep
<1>6. calm' \in [Execs -> BOOLEAN]
  <2>1. ASSUME NEW e \in Execs PROVE Calm(e) \in BOOLEAN
    BY DEF Calm, TypeOK
  <2>2. QED
    BY <2>1 DEF Next
<1>7. QED
  BY <1>5, <1>6 DEF TypeOK, Typed

-----------------------------------------------------------------------------
(* The repository only grows. *)

Numbered(repo) == \A p \in PRIds : repo.prs[p].state # "none" => p <= repo.np

\* From repo to new, pull requests stay, stay off the canonical base once they
\* left it, keep their author, and a new one comes from an author in S.
Grown(repo, new, S) ==
  /\ repo.np <= new.np
  /\ Numbered(new)
  /\ \A p \in PRIds :
       /\ repo.prs[p].state # "none" =>
            /\ new.prs[p].state # "none"
            /\ repo.prs[p].base = "other" => new.prs[p].base = "other"
       /\ new.prs[p].by = repo.prs[p].by \/ new.prs[p].by \in S

\* Nothing happened.
LEMMA GrownSame ==
  ASSUME NEW repo \in Repo, NEW S, Numbered(repo)
  PROVE  Grown(repo, repo, S)
BY MaxPRsAssumption DEF Grown, Repo, PRNumbers

\* One pull request changed, without coming back to the canonical base.
LEMMA GrownPR ==
  ASSUME NEW repo \in Repo, NEW S, Numbered(repo), NEW pr, NEW new,
         pr \in PRIds => /\ repo.prs[pr].state # "none"
                         /\ new.state # "none"
                         /\ repo.prs[pr].base = "other" => new.base = "other"
                         /\ new.by = repo.prs[pr].by
  PROVE  Grown(repo, [repo EXCEPT !.prs[pr] = new], S)
<1> DEFINE after == [repo EXCEPT !.prs[pr] = new]
<1>1. /\ after.np = repo.np
      /\ \A p \in PRIds : after.prs[p] = IF p = pr THEN new ELSE repo.prs[p]
  BY DEF Repo
<1>2. repo.np <= after.np
  BY <1>1, MaxPRsAssumption DEF Repo, PRNumbers
<1> HIDE DEF after
<1>3. Grown(repo, after, S)
  BY <1>1, <1>2 DEF Grown, Numbered
<1>4. QED
  BY <1>3 DEF after

\* A branch update, a deleted branch.
LEMMA GrownBranch ==
  ASSUME NEW repo \in Repo, NEW S, Numbered(repo), NEW sha
  PROVE  Grown(repo, WithHead(repo, sha), S) /\ Grown(repo, WithoutBranch(repo), S)
<1>1. \A p \in PRIds : repo.prs[p] \in PullRequest
  BY DEF Repo
<1>2. repo.np <= repo.np
  BY MaxPRsAssumption DEF Repo, PRNumbers
<1>3. Grown(repo, WithHead(repo, sha), S)
  <2> DEFINE after == WithHead(repo, sha)
  <2>1. after.np = repo.np /\ after.prs = [p \in PRIds |->
           IF repo.prs[p].state = "open" THEN [repo.prs[p] EXCEPT !.head = sha] ELSE repo.prs[p]]
    BY DEF WithHead, Repo
  <2>2. ASSUME NEW p \in PRIds
        PROVE  /\ after.prs[p].state = repo.prs[p].state
               /\ after.prs[p].base = repo.prs[p].base
               /\ after.prs[p].by = repo.prs[p].by
    <3>1. repo.prs[p] \in PullRequest
      BY <1>1
    <3>2. /\ [repo.prs[p] EXCEPT !.head = sha].state = repo.prs[p].state
          /\ [repo.prs[p] EXCEPT !.head = sha].base = repo.prs[p].base
          /\ [repo.prs[p] EXCEPT !.head = sha].by = repo.prs[p].by
      BY <3>1 DEF PullRequest
    <3>3. QED
      BY <2>1, <3>2
  <2> HIDE DEF after
  <2>3. Grown(repo, after, S)
    BY <1>2, <2>1, <2>2 DEF Grown, Numbered
  <2>4. QED
    BY <2>3 DEF after
<1>4. Grown(repo, WithoutBranch(repo), S)
  <2> DEFINE after == WithoutBranch(repo)
  <2>1. after.np = repo.np /\ after.prs = [p \in PRIds |->
           IF repo.prs[p].state = "open" THEN [repo.prs[p] EXCEPT !.state = "closed"]
           ELSE repo.prs[p]]
    BY DEF WithoutBranch, Repo
  <2>2. ASSUME NEW p \in PRIds
        PROVE  /\ after.prs[p].state = "none" <=> repo.prs[p].state = "none"
               /\ after.prs[p].base = repo.prs[p].base
               /\ after.prs[p].by = repo.prs[p].by
    <3>1. repo.prs[p] \in PullRequest
      BY <1>1
    <3>2. /\ [repo.prs[p] EXCEPT !.state = "closed"].state = "closed"
          /\ [repo.prs[p] EXCEPT !.state = "closed"].base = repo.prs[p].base
          /\ [repo.prs[p] EXCEPT !.state = "closed"].by = repo.prs[p].by
      BY <3>1 DEF PullRequest
    <3>3. QED
      BY <2>1, <3>2
  <2> HIDE DEF after
  <2>3. Grown(repo, after, S)
    BY <1>2, <2>1, <2>2 DEF Grown, Numbered
  <2>4. QED
    BY <2>3 DEF after
<1>5. QED
  BY <1>3, <1>4

\* A new pull request gets the next number.
LEMMA GrownWithPR ==
  ASSUME NEW repo \in Repo, NEW S, Numbered(repo), NEW by \in S, NEW draft
  PROVE  Grown(repo, WithPR(repo, by, draft), S)
<1> DEFINE new   == [state |-> "open", draft |-> draft, by |-> by, base |-> "default",
                     head |-> repo.branch, method |-> FALSE]
           after == WithPR(repo, by, draft)
<1>1. repo.np \in Nat
  BY MaxPRsAssumption DEF Repo, PRNumbers
<1>2. /\ after.np = repo.np + 1
      /\ \A p \in PRIds : after.prs[p] = IF p = repo.np + 1 THEN new ELSE repo.prs[p]
  BY DEF WithPR, Repo
<1>3. new.state = "open" /\ new.by = by
  OBVIOUS
<1>4. \A p \in PRIds : p \in Nat
  BY MaxPRsAssumption DEF PRIds
<1>5. \A p \in PRIds : repo.prs[p].state # "none" => p <= repo.np /\ p # repo.np + 1 /\ p <= repo.np + 1
  BY <1>1, <1>4 DEF Numbered
<1> HIDE DEF new, after
<1>6. repo.np <= after.np /\ Numbered(after)
  BY <1>1, <1>2, <1>4, <1>5 DEF Numbered
<1>7. Grown(repo, after, S)
  BY <1>2, <1>3, <1>5, <1>6 DEF Grown
<1>8. QED
  BY <1>7 DEF after

\* An accepted request lets the repository grow.
LEMMA GrownApply ==
  ASSUME NEW repo \in Repo, NEW S, Numbered(repo), NEW r \in Request, Accepts(repo, r),
         r.kind = "createPR" => r.by \in S
  PROVE  Grown(repo, Apply(repo, r), S)
<1>0. \A p \in PRIds : repo.prs[p] \in PullRequest
  BY DEF Repo
<1>1. CASE r.kind = "createRef"
  BY <1>1, GrownBranch DEF Apply
<1>2. CASE r.kind = "advanceRef"
  BY <1>2, GrownBranch DEF Apply
<1>3. CASE r.kind = "createPR"
  BY <1>3, GrownWithPR DEF Apply
<1>4. CASE r.kind = "markReady"
  <2> DEFINE new == [repo.prs[r.pr] EXCEPT !.draft = FALSE]
  <2>1. ASSUME r.pr \in PRIds
        PROVE  /\ new.state = repo.prs[r.pr].state
               /\ new.base = repo.prs[r.pr].base
               /\ new.by = repo.prs[r.pr].by
    BY <1>0, <2>1 DEF PullRequest
  <2>2. repo.prs[r.pr].state = "open"
    BY <1>4 DEF Accepts
  <2> HIDE DEF new
  <2>3. Grown(repo, [repo EXCEPT !.prs[r.pr] = new], S)
    BY <2>1, <2>2, GrownPR
  <2>4. QED
    BY <1>4, <2>3 DEF Apply, new
<1>5. CASE r.kind = "closePR"
  <2> DEFINE new == [repo.prs[r.pr] EXCEPT !.state = "closed"]
  <2>1. ASSUME r.pr \in PRIds
        PROVE  /\ new.state = "closed"
               /\ new.base = repo.prs[r.pr].base
               /\ new.by = repo.prs[r.pr].by
    BY <1>0, <2>1 DEF PullRequest
  <2> HIDE DEF new
  <2>2. ASSUME repo.prs[r.pr].state = "open"
        PROVE  Grown(repo, [repo EXCEPT !.prs[r.pr] = new], S)
    BY <2>1, <2>2, GrownPR
  <2>3. QED
    BY <1>5, <2>2, GrownSame DEF Apply, new
<1>6. CASE r.kind = "deleteRef"
  BY <1>6, GrownBranch DEF Apply
<1>7. CASE r.kind = "mergePR"
  <2> DEFINE new == [repo.prs[r.pr] EXCEPT !.state = "merged", !.method = MergeMethodReported]
  <2>1. ASSUME r.pr \in PRIds
        PROVE  /\ new.state = "merged"
               /\ new.base = repo.prs[r.pr].base
               /\ new.by = repo.prs[r.pr].by
    BY <1>0, <2>1 DEF PullRequest
  <2>2. repo.prs[r.pr].state = "open"
    BY <1>7 DEF Accepts
  <2> HIDE DEF new
  <2>3. Grown(repo, [repo EXCEPT !.prs[r.pr] = new], S)
    BY <2>1, <2>2, GrownPR
  <2>4. QED
    BY <1>7, <2>3 DEF Apply, new
<1>8. QED
  BY <1>1, <1>2, <1>3, <1>4, <1>5, <1>6, <1>7 DEF Request, RequestKind

-----------------------------------------------------------------------------
(* What one step does to one execution. *)

Early == {"idle", "readingInitial", "readingFresh", "reading"}

\* The parts of the invariant that speak of one local state.
Fine(x) ==
  /\ x.st \in ApplyStates /\ x.step = 1 /\ EffectAt(x) = "CREATE_PROVENANCE_COMMIT" =>
       x.made # NoSha
  /\ x.st \in ApplyStates \ {"applyingCompensation"} => x.idx <= Len(Effects(x.plan.kind))

\* What holds of e after a step, relative to the repository before it.
LocalOK(e) ==
  /\ ex[e].plan.kind = "create" => ex'[e].plan.kind = "create"
  /\ ex'[e].st \in Early => ex'[e].plan.kind # "create"
  /\ \A q \in known'[e] : q <= gh.np /\ gh.prs[q].state # "none"
  /\ ex'[e].st = "readingFresh" /\ ex'[e].step = 2 =>
       \A q \in known'[e] : /\ ex'[e].ev.prs[q].state # "none"
                            /\ ex'[e].ev.prs[q].base = "other" => gh.prs[q].base = "other"
  /\ ex'[e].plan.kind = "create" => \A q \in known'[e] : gh.prs[q].base = "other"
  /\ Fine(ex'[e])

\* The executions whose pull requests may appear, and everybody else.
Creators == {e \in Execs : ex[e].plan.kind = "create"} \cup {Human}

\* The local parts and the growth of the repository give the whole invariant.
LEMMA Assemble ==
  ASSUME Typed, Typed', PublicationInv, \A e \in Execs : LocalOK(e),
         Grown(gh, gh', Creators),
         \A r \in late' : r.kind = "createPR" => r \in late \/ ex'[r.by].plan.kind = "create"
  PROVE  PublicationInv'
<1>1. ASSUME NEW e \in Execs, NEW q \in known'[e]
      PROVE  /\ q \in PRIds
             /\ q <= gh'.np
             /\ gh'.prs[q].state # "none"
             /\ gh.prs[q].base = "other" => gh'.prs[q].base = "other"
  <2>1. q \in PRIds /\ q <= gh.np /\ gh.prs[q].state # "none"
    BY <1>1 DEF Typed, LocalOK
  <2>2. gh.np <= gh'.np /\ q \in Int /\ gh.np \in Int /\ gh'.np \in Int
    BY <2>1, MaxPRsAssumption DEF Grown, Typed, Repo, PRNumbers, PRIds
  <2>3. q <= gh'.np
    BY <2>1, <2>2
  <2>4. QED
    BY <2>1, <2>3 DEF Grown
<1>2. NoPlanYet'
  BY DEF NoPlanYet, LocalOK, Early
<1>3. KnownExist'
  BY <1>1 DEF KnownExist, Grown, Numbered
<1>4. ReadIsCurrent'
  BY <1>1 DEF ReadIsCurrent, LocalOK
<1>5. CreationIsFresh'
  BY <1>1 DEF CreationIsFresh, LocalOK
<1>6. PublishedByPlan'
  <2>1. ASSUME NEW r \in late', r.kind = "createPR" PROVE ex'[r.by].plan.kind = "create"
    <3>1. r.by \in Execs
      BY DEF Typed, Request
    <3>2. CASE r \in late
      BY <2>1, <3>1, <3>2 DEF PublicationInv, PublishedByPlan, LocalOK
    <3>3. QED
      BY <2>1, <3>2
  <2>2. ASSUME NEW e \in Execs, NEW p \in PRIds, gh'.prs[p].by = e
        PROVE  ex'[e].plan.kind = "create"
    <3>1. gh.prs[p].by = e \/ e \in Creators
      BY <2>2 DEF Grown
    <3>2. ex[e].plan.kind = "create"
      BY <3>1, HumanAssumption DEF Creators, PublicationInv, PublishedByPlan
    <3>3. QED
      BY <3>2 DEF LocalOK
  <2>3. QED
    BY <2>1, <2>2 DEF PublishedByPlan
<1>7. ProvenanceHasParent'
  BY DEF ProvenanceHasParent, AtEffect, EffectAt, LocalOK, Fine
<1>8. EffectInRange'
  BY DEF EffectInRange, LocalOK, Fine
<1>9. QED
  BY <1>2, <1>3, <1>4, <1>5, <1>6, <1>7, <1>8 DEF PublicationInv

\* From x to y an execution gains and loses no create plan, and reads nothing.
Steady(x, y) ==
  /\ y.plan.kind = "create" <=> x.plan.kind = "create"
  /\ y.st \in Early => x.st \in Early
  /\ y.st = "readingFresh" /\ y.step = 2 => x.st = "readingFresh" /\ x.step = 2 /\ x.ev = y.ev
  /\ Fine(y)

\* An execution that does not move is steady.
LEMMA SteadySame ==
  ASSUME PublicationInv, NEW e \in Execs
  PROVE  Steady(ex[e], ex[e]) /\ Fine(ex[e])
BY DEF Steady, Fine, PublicationInv, ProvenanceHasParent, AtEffect, EffectInRange

\* A steady step is a good one.
LEMMA SteadyIsLocal ==
  ASSUME PublicationInv, NEW e \in Execs, known'[e] = known[e], Steady(ex[e], ex'[e])
  PROVE  LocalOK(e)
<1>1. /\ ex[e].plan.kind = "create" => ex'[e].plan.kind = "create"
      /\ Fine(ex'[e])
  BY DEF Steady
<1>2. ex'[e].st \in Early => ex'[e].plan.kind # "create"
  BY DEF Steady, PublicationInv, NoPlanYet, Early
<1>3. \A q \in known'[e] : q <= gh.np /\ gh.prs[q].state # "none"
  BY DEF PublicationInv, KnownExist
<1>4. ex'[e].st = "readingFresh" /\ ex'[e].step = 2 =>
        \A q \in known'[e] : /\ ex'[e].ev.prs[q].state # "none"
                             /\ ex'[e].ev.prs[q].base = "other" => gh.prs[q].base = "other"
  BY DEF Steady, PublicationInv, ReadIsCurrent
<1>5. ex'[e].plan.kind = "create" => \A q \in known'[e] : gh.prs[q].base = "other"
  BY DEF Steady, PublicationInv, CreationIsFresh
<1>6. QED
  BY <1>1, <1>2, <1>3, <1>4, <1>5 DEF LocalOK

\* One execution takes a steady step, the others none.
LEMMA OneMoves ==
  ASSUME Typed, PublicationInv, NEW e \in Execs, NEW y, Steady(ex[e], y),
         ex' = [ex EXCEPT ![e] = y], known' = known
  PROVE  \A f \in Execs : LocalOK(f)
<1>1. ASSUME NEW f \in Execs PROVE Steady(ex[f], ex'[f])
  <2>1. CASE f = e
    BY <2>1 DEF Typed
  <2>2. CASE f # e
    <3>1. ex'[f] = ex[f]
      BY <2>2 DEF Typed
    <3>2. QED
      BY <3>1, SteadySame
  <2>3. QED
    BY <2>1, <2>2
<1>2. QED
  BY <1>1, SteadyIsLocal

\* An execution that does not move stays good when only another one moves.
LEMMA OthersStill ==
  ASSUME Typed, PublicationInv, NEW e \in Execs, NEW y, ex' = [ex EXCEPT ![e] = y],
         NEW f \in Execs, f # e, known'[f] = known[f]
  PROVE  LocalOK(f)
<1>1. ex'[f] = ex[f]
  BY DEF Typed
<1>2. Steady(ex[f], ex'[f])
  BY <1>1, SteadySame
<1>3. QED
  BY <1>2, SteadyIsLocal

\* The updates that end an execution, or lead to a reread or to the merge.
LEMMA SteadyForms ==
  ASSUME NEW x \in Execution
  PROVE  /\ \A r : Steady(x, Finish(x, r))
         /\ \A st \in ExecState \ (Early \cup ApplyStates) : Steady(x, Goto(x, st))
         /\ \A m, st : st \notin Early \cup ApplyStates =>
              Steady(x, Goto([x EXCEPT !.mode = m], st))
         /\ x.st = "merging" => /\ Steady(x, Advance(x))
                                /\ \A m : Steady(x, Advance([x EXCEPT !.mode = m]))
<1>1. ASSUME NEW r PROVE Steady(x, Finish(x, r))
  <2>1. Finish(x, r).st = "done" /\ Finish(x, r).plan = x.plan
    BY DEF Finish, Execution
  <2>2. QED
    BY <2>1 DEF Steady, Fine, Early, ApplyStates
<1>2. ASSUME NEW st \in ExecState \ (Early \cup ApplyStates) PROVE Steady(x, Goto(x, st))
  <2>1. Goto(x, st).st = st /\ Goto(x, st).plan = x.plan
    BY DEF Goto, Execution
  <2>2. QED
    BY <2>1 DEF Steady, Fine, Early
<1>3. ASSUME NEW m, NEW st, st \notin Early \cup ApplyStates
      PROVE  Steady(x, Goto([x EXCEPT !.mode = m], st))
  <2> DEFINE y == Goto([x EXCEPT !.mode = m], st)
  <2>1. y.st = st /\ y.plan = x.plan
    BY DEF Goto, Execution
  <2> HIDE DEF y
  <2>2. Steady(x, y)
    BY <1>3, <2>1 DEF Steady, Fine, Early
  <2>3. QED
    BY <2>2 DEF y
<1>4. ASSUME x.st = "merging" PROVE Steady(x, Advance(x))
  <2>1. Advance(x).st = "merging" /\ Advance(x).plan = x.plan
    BY <1>4 DEF Advance, Execution
  <2>2. QED
    BY <2>1 DEF Steady, Fine, Early, ApplyStates
<1>5. ASSUME x.st = "merging", NEW m PROVE Steady(x, Advance([x EXCEPT !.mode = m]))
  <2> DEFINE y == Advance([x EXCEPT !.mode = m])
  <2>1. y.st = "merging" /\ y.plan = x.plan
    BY <1>5 DEF Advance, Execution
  <2> HIDE DEF y
  <2>2. Steady(x, y)
    BY <2>1 DEF Steady, Fine, Early, ApplyStates
  <2>3. QED
    BY <2>2 DEF y
<1>6. QED
  BY <1>1, <1>2, <1>3, <1>4, <1>5

\* The end of an effect.
LEMMA SteadyEffect ==
  ASSUME NEW x \in Execution, x.st \in ApplyStates
  PROVE  Steady(x, EffectDone(x)) /\ Steady(x, EffectFailed(x))
<1>1. Steady(x, EffectFailed(x))
  BY SteadyForms DEF EffectFailed, Early, ApplyStates
<1>2. Steady(x, EffectDone(x))
  <2>1. CASE x.st # "applyingCompensation" /\ x.idx < Len(Effects(x.plan.kind))
    <3> DEFINE y == [x EXCEPT !.idx = x.idx + 1, !.step = 0]
    <3>1. y.st = x.st /\ y.plan = x.plan /\ y.step = 0 /\ y.idx = x.idx + 1
      BY DEF Execution
    <3>2. x.idx \in EffectNo /\ Len(Effects(x.plan.kind)) \in 0 .. 3
      BY EffectsLength DEF Execution
    <3>3. \A i \in EffectNo, n \in 0 .. 3 : i < n => i + 1 <= n
      BY DEF EffectNo
    <3>4. y.idx <= Len(Effects(y.plan.kind))
      BY <2>1, <3>1, <3>2, <3>3, Zenon
    <3> HIDE DEF y
    <3>5. Steady(x, y)
      BY <3>1, <3>4 DEF Steady, Fine, Early, ApplyStates
    <3>6. QED
      BY <2>1, <3>5 DEF EffectDone, y
  <2>2. CASE ~(x.st # "applyingCompensation" /\ x.idx < Len(Effects(x.plan.kind)))
    BY <2>2, SteadyForms DEF EffectDone, Early, ApplyStates
  <2>3. QED
    BY <2>1, <2>2
<1>3. QED
  BY <1>1, <1>2

\* Evidence does not matter, except while an issuance reads.
LEMMA SteadyEvidence ==
  ASSUME NEW x, NEW y \in Execution, NEW ev, Steady(x, y), y.st # "readingFresh" \/ y.step = 0
  PROVE  Steady(x, [y EXCEPT !.ev = ev])
<1> DEFINE z == [y EXCEPT !.ev = ev]
<1>1. z.st = y.st /\ z.plan = y.plan /\ z.step = y.step /\ z.idx = y.idx /\ z.made = y.made
  BY DEF Execution
<1> HIDE DEF z
<1>2. Steady(x, z)
  BY <1>1 DEF Steady, Fine, EffectAt
<1>3. QED
  BY <1>2 DEF z

\* A complete read after which e goes on steadily.
LEMMA ReadDoneGood ==
  ASSUME Typed, PublicationInv, NEW e \in Execs, NEW y \in Execution, Steady(ex[e], y),
         y.st # "readingFresh" \/ y.step = 0, ReadDone(e, y)
  PROVE  \A f \in Execs : LocalOK(f)
<1>1. Steady(ex[e], [y EXCEPT !.ev = LastRead(e)])
  BY SteadyEvidence
<1>2. QED
  BY <1>1, OneMoves DEF ReadDone

\* Planning puts an execution at the first effect of its plan, or ends it.
LEMMA PlannedFine ==
  ASSUME Typed, NEW e \in Execs, NEW plan \in Plan
  PROVE  /\ Planned(e, plan).plan = plan
         /\ Planned(e, plan).st \notin Early
         /\ Fine(Planned(e, plan))
<1> DEFINE x == [ex[e] EXCEPT !.plan = plan, !.idx = 1, !.mode = "verify"]
<1>1. x \in Execution
  <2>1. ex[e] \in Execution
    BY DEF Typed
  <2>2. QED
    BY <2>1, ExecutionType
<1>2. x.plan = plan /\ x.idx = 1
  BY DEF Typed, Execution
<1> HIDE DEF x
<1>3. Finish(x, "precondition-failed").st = "done" /\ Finish(x, "precondition-failed").plan = plan
  BY <1>1, <1>2 DEF Finish, Execution
<1>4. ASSUME NEW st
      PROVE  /\ Goto(x, st).st = st /\ Goto(x, st).plan = plan
             /\ Goto(x, st).idx = 1 /\ Goto(x, st).step = 0
  BY <1>1, <1>2 DEF Goto, Execution
<1>5. Effects(plan.kind) # << >> => 1 <= Len(Effects(plan.kind))
  BY DEF Effects
<1>6. ApplyState(Op[e]) \notin Early
  BY DEF ApplyState, Early
<1>7. CASE plan.kind = "none"
  BY <1>3, <1>7 DEF Planned, x, Fine, Early, ApplyStates
<1>8. CASE plan.kind # "none" /\ Effects(plan.kind) = << >>
  <2>1. Planned(e, plan) = Goto(x, "rereading")
    BY <1>8 DEF Planned, x
  <2>2. QED
    BY <1>4, <2>1 DEF Fine, Early, ApplyStates
<1>9. CASE plan.kind # "none" /\ Effects(plan.kind) # << >>
  <2>1. Planned(e, plan) = Goto(x, ApplyState(Op[e]))
    BY <1>9 DEF Planned, x
  <2>2. QED
    BY <1>4, <1>5, <1>6, <1>9, <2>1 DEF Fine
<1>10. QED
  BY <1>7, <1>8, <1>9

\* A plan other than creation is a steady step of an execution that has none.
LEMMA PlannedSteady ==
  ASSUME Typed, PublicationInv, NEW e \in Execs, NEW plan \in Plan, plan.kind # "create",
         ex[e].st \in Early
  PROVE  Steady(ex[e], Planned(e, plan)) /\ Planned(e, plan).st # "readingFresh"
BY PlannedFine DEF Steady, PublicationInv, NoPlanYet, Early

\* Creation is planned only when every known pull request has left the base.
LEMMA IssuePlanningGood ==
  ASSUME Typed, PublicationInv, NEW e \in Execs, IssuePlanning(e)
  PROVE  \A f \in Execs : LocalOK(f)
<1> DEFINE ev   == LastRead(e)
           plan == IssuancePlan(ev)
<1>0. ex[e].st = "readingFresh" /\ ex[e].step = 2 /\ ex[e] \in Execution
  BY DEF IssuePlanning, AtLastRead, LastStep, Typed
<1>1. ev \in Evidence /\ plan \in Plan /\ (plan.kind = "create" => Listed(ev) = {})
  BY LastReadType, PlanType
<1>2. ev.prs = ex[e].ev.prs
  BY <1>0 DEF LastRead, IssuePlanning, Execution, Evidence
<1>3. Planned(e, plan) \in Execution /\ Finish(ex[e], "precondition-failed") \in Execution
  BY <1>0, <1>1, PlannedType, ExecutionType DEF Outcome
<1> HIDE DEF ev, plan
<1>4. CASE ~(gh.gov \in ValidGov /\ gh.gov = ex[e].govSeen)
  <2>1. Finish(ex[e], "precondition-failed").st = "done"
    BY <1>0 DEF Finish, Execution
  <2>2. ReadDone(e, Finish(ex[e], "precondition-failed"))
    BY <1>4 DEF IssuePlanning
  <2>3. QED
    BY <1>0, <1>3, <2>1, <2>2, SteadyForms, ReadDoneGood
<1>5. CASE gh.gov \in ValidGov /\ gh.gov = ex[e].govSeen
  <2>1. ReadDone(e, Planned(e, plan))
    BY <1>5 DEF IssuePlanning, plan, ev
  <2>2. CASE plan.kind # "create"
    <3>1. Steady(ex[e], Planned(e, plan)) /\ Planned(e, plan).st # "readingFresh"
      BY <1>0, <1>1, <2>2, PlannedSteady DEF Early
    <3>2. QED
      BY <1>3, <2>1, <3>1, ReadDoneGood
  <2>3. CASE plan.kind = "create"
    <3> DEFINE y == Planned(e, plan)
               z == [y EXCEPT !.ev = ev]
    <3>1. /\ y.plan = plan
          /\ y.st \notin Early
          /\ Fine(y)
      BY <1>1, PlannedFine
    <3>2. y \in Execution
      BY <1>3
    <3> HIDE DEF y
    <3>3. z.st = y.st /\ z.plan = plan /\ z.step = y.step /\ z.idx = y.idx /\ z.made = y.made
      BY <3>1, <3>2 DEF Execution
    <3>4. ex' = [ex EXCEPT ![e] = z] /\ known' = known
      BY <2>1 DEF ReadDone, y, ev
    <3> HIDE DEF z
    <3>5. ex'[e] = z
      BY <3>4 DEF Typed
    <3>6. \A q \in known[e] : q \in PRIds /\ q <= gh.np /\ gh.prs[q].state # "none"
      BY DEF Typed, PublicationInv, KnownExist
    <3>7. ASSUME NEW q \in known[e] PROVE gh.prs[q].base = "other"
      <4>0. /\ ex[e].ev.prs[q].state # "none"
            /\ ex[e].ev.prs[q].base = "other" => gh.prs[q].base = "other"
        BY <1>0 DEF PublicationInv, ReadIsCurrent
      <4>1. ev.prs[q].state # "none" /\ (ev.prs[q].base = "other" => gh.prs[q].base = "other")
        BY <1>2, <4>0
      <4>2. ev.prs[q].base # "default"
        BY <1>1, <2>3, <3>6, <4>1 DEF Listed
      <4>3. ev.prs[q] \in PullRequest
        BY <1>1, <3>6 DEF Evidence
      <4>4. ev.prs[q].base \in {"default", "other"}
        BY <4>3 DEF PullRequest
      <4>5. QED
        BY <4>1, <4>2, <4>4
    <3>8. Fine(z)
      BY <3>1, <3>3 DEF Fine, EffectAt
    <3>9. LocalOK(e)
      BY <2>3, <3>1, <3>3, <3>4, <3>5, <3>6, <3>7, <3>8 DEF LocalOK, Early
    <3>10. QED
      BY <3>4, <3>9, OthersStill
  <2>4. QED
    BY <2>2, <2>3
<1>6. QED
  BY <1>4, <1>5

\* The pull requests an issuance reads are the current ones.
LEMMA ReadPullRequestsGood ==
  ASSUME Typed, PublicationInv, NEW e \in Execs, ReadPullRequests(e)
  PROVE  \A f \in Execs : LocalOK(f)
<1> DEFINE y == Advance([ex[e] EXCEPT !.ev.prs = gh.prs])
<1>1. ex[e] \in Execution /\ ex[e].st \in ReadStates /\ ex[e].step = 1
  BY DEF Typed, ReadPullRequests
<1>2. y.st = ex[e].st /\ y.plan = ex[e].plan /\ y.step = 2 /\ y.ev.prs = gh.prs
  BY <1>1 DEF Advance, Execution, Evidence
<1>3. ex' = [ex EXCEPT ![e] = y] /\ known' = known
  BY DEF ReadPullRequests
<1> HIDE DEF y
<1>4. ex'[e] = y
  BY <1>3 DEF Typed
<1>5. Fine(y)
  BY <1>1, <1>2 DEF Fine, ReadStates, ApplyStates
<1>6. LocalOK(e)
  <2>1. y.st \in Early => y.plan.kind # "create"
    BY <1>2 DEF PublicationInv, NoPlanYet, Early
  <2>2. \A q \in known[e] : q <= gh.np /\ gh.prs[q].state # "none"
    BY DEF PublicationInv, KnownExist
  <2>3. y.plan.kind = "create" => \A q \in known[e] : gh.prs[q].base = "other"
    BY <1>2 DEF PublicationInv, CreationIsFresh
  <2>4. QED
    BY <1>2, <1>3, <1>4, <1>5, <2>1, <2>2, <2>3 DEF LocalOK
<1>7. QED
  BY <1>3, <1>6, OthersStill

\* Every step of a read, and the control after it.
LEMMA ReadStepsGood ==
  ASSUME Typed, PublicationInv, NEW e \in Execs, ReadSteps(e)
  PROVE  \A f \in Execs : LocalOK(f)
<1>1. ex[e] \in Execution
  BY DEF Typed
<1>2. LastRead(e) \in Evidence
  BY LastReadType
<1>3. ASSUME NEW r \in Outcome, ReadDone(e, Finish(ex[e], r)) PROVE \A f \in Execs : LocalOK(f)
  <2>1. Finish(ex[e], r).st = "done" /\ Finish(ex[e], r) \in Execution
    BY <1>1, ExecutionType DEF Finish, Execution
  <2>2. QED
    BY <1>1, <1>3, <2>1, SteadyForms, ReadDoneGood
<1>4. CASE ReadBranches(e)
  <2> DEFINE y == Advance([ex[e] EXCEPT !.ev =
                     [NoEvidence EXCEPT !.issue = gh.issue, !.branch = gh.branch]])
  <2>1. y.st = ex[e].st /\ y.plan = ex[e].plan /\ y.step = 1
    BY <1>1, <1>4 DEF ReadBranches, Advance, Execution
  <2>2. ex' = [ex EXCEPT ![e] = y] /\ known' = known /\ ex[e].st \in ReadStates
    BY <1>4 DEF ReadBranches
  <2> HIDE DEF y
  <2>3. Steady(ex[e], y)
    BY <2>1, <2>2 DEF Steady, Fine, ReadStates, ApplyStates
  <2>4. QED
    BY <2>2, <2>3, OneMoves
<1>5. CASE ReadPullRequests(e)
  BY <1>5, ReadPullRequestsGood
<1>6. CASE ReadFailure(e)
  <2>1. PICK r : ex' = [ex EXCEPT ![e] = Finish(ex[e], r)]
    BY <1>6 DEF ReadFailure
  <2>2. known' = known
    BY <1>6 DEF ReadFailure
  <2>3. QED
    BY <1>1, <2>1, <2>2, SteadyForms, OneMoves
<1>7. CASE IssueValidateInitial(e)
  <2> DEFINE y == Goto([ex[e] EXCEPT !.govSeen = gh.gov], "readingFresh")
  <2>1. CASE gh.gov \in ValidGov
    <3>1. ex[e].st = "readingInitial"
      BY <1>7 DEF IssueValidateInitial, AtLastRead
    <3>2. y.st = "readingFresh" /\ y.step = 0 /\ y.plan = ex[e].plan
      BY <1>1 DEF Goto, Execution
    <3>3. y \in Execution
      <4>1. gh.gov \in SeenGenerations
        BY DEF Typed, Repo, SeenGenerations
      <4>2. [ex[e] EXCEPT !.govSeen = gh.gov] \in Execution
        BY <1>1, <4>1, ExecutionType
      <4>3. QED
        BY <4>2, ExecutionType DEF ExecState, ReadStates
    <3>4. ReadDone(e, y)
      BY <1>7, <2>1 DEF IssueValidateInitial
    <3> HIDE DEF y
    <3>5. Steady(ex[e], y)
      BY <3>1, <3>2 DEF Steady, Fine, Early, ApplyStates
    <3>6. QED
      BY <3>2, <3>3, <3>4, <3>5, ReadDoneGood
  <2>2. CASE gh.gov \notin ValidGov
    BY <1>3, <1>7, <2>2 DEF IssueValidateInitial, Outcome
  <2>3. QED
    BY <2>1, <2>2
<1>8. CASE IssuePlanning(e)
  BY <1>8, IssuePlanningGood
<1>9. ASSUME NEW ok, ReadDone(e, Verified(e, ok)) PROVE \A f \in Execs : LocalOK(f)
  BY <1>3, <1>9 DEF Verified, Outcome
<1>10. CASE IssueVerifying(e)
  BY <1>9, <1>10 DEF IssueVerifying
<1>11. CASE IssueClassifyingFailure(e)
  <2> DEFINE y == Goto(ex[e], "applyingCompensation")
  <2>1. y.st = "applyingCompensation" /\ y.step = 0 /\ y.plan = ex[e].plan
    BY <1>1 DEF Goto, Execution
  <2>2. y \in Execution
    BY <1>1, ExecutionType DEF ExecState, ApplyStates
  <2>3. ReadDone(e, y) \/ \E r \in Outcome : ReadDone(e, Finish(ex[e], r))
    BY <1>11 DEF IssueClassifyingFailure, Outcome
  <2> HIDE DEF y
  <2>4. Steady(ex[e], y)
    BY <2>1 DEF Steady, Fine, Early, ApplyStates
  <2>5. QED
    BY <1>3, <2>1, <2>2, <2>3, <2>4, ReadDoneGood
<1>12. CASE IssueRecoveryOutcome(e)
  BY <1>3, <1>12 DEF IssueRecoveryOutcome, Outcome
<1>13. ASSUME NEW plan \in Plan, plan.kind # "create", ex[e].st = "reading",
              ReadDone(e, Planned(e, plan))
       PROVE  \A f \in Execs : LocalOK(f)
  <2>1. Steady(ex[e], Planned(e, plan)) /\ Planned(e, plan).st # "readingFresh"
    BY <1>13, PlannedSteady DEF Early
  <2>2. Planned(e, plan) \in Execution
    BY PlannedType
  <2>3. QED
    BY <1>13, <2>1, <2>2, ReadDoneGood
<1>14. CASE ReadyPlanning(e)
  <2>1. /\ ReadyPlan(LastRead(e), gh.commits) \in Plan
        /\ ReadyPlan(LastRead(e), gh.commits).kind # "create"
    BY <1>2, PlanType
  <2>2. QED
    BY <1>13, <1>14, <2>1 DEF ReadyPlanning, AtLastRead
<1>15. CASE ReadyVerifying(e)
  BY <1>3, <1>9, <1>15 DEF ReadyVerifying, Outcome
<1>16. CASE AbortPlanning(e)
  <2>1. AbortPlan(LastRead(e)) \in Plan /\ AbortPlan(LastRead(e)).kind # "create"
    BY <1>2, PlanType
  <2>2. QED
    BY <1>3, <1>13, <1>16, <2>1 DEF AbortPlanning, AtLastRead, Outcome
<1>17. CASE AbortVerifying(e)
  BY <1>9, <1>17 DEF AbortVerifying
<1>18. CASE AbortRecoveryPlanning(e)
  BY <1>3, <1>18 DEF AbortRecoveryPlanning, Outcome
<1>19. CASE MergeAdmission(e)
  <2> DEFINE plan == MergePlan(LastRead(e))
             y    == Goto([ex[e] EXCEPT !.plan = plan], "merging")
  <2>1. plan \in Plan /\ plan.kind # "create"
    BY <1>2, PlanType
  <2>2. y.st = "merging" /\ y.plan = plan
    BY <1>1 DEF Goto, Execution
  <2>3. y \in Execution
    <3>1. [ex[e] EXCEPT !.plan = plan] \in Execution
      BY <1>1, <2>1, ExecutionType
    <3>2. QED
      BY <3>1, ExecutionType DEF ExecState
  <2>4. ReadDone(e, y) \/ ReadDone(e, Finish(ex[e], "precondition-failed"))
    BY <1>19 DEF MergeAdmission
  <2>5. ex[e].plan.kind # "create"
    BY <1>19 DEF MergeAdmission, AtLastRead, PublicationInv, NoPlanYet
  <2> HIDE DEF y, plan
  <2>6. Steady(ex[e], y)
    BY <2>1, <2>2, <2>5 DEF Steady, Fine, Early, ApplyStates
  <2>7. QED
    BY <1>3, <2>2, <2>3, <2>4, <2>6, ReadDoneGood DEF Outcome
<1>20. CASE MergeVerifying(e)
  BY <1>3, <1>20 DEF MergeVerifying, Outcome
<1>21. QED
  BY <1>4, <1>5, <1>6, <1>7, <1>8, <1>10, <1>11, <1>12, <1>14, <1>15, <1>16, <1>17,
     <1>18, <1>19, <1>20 DEF ReadSteps

-----------------------------------------------------------------------------
(* Steps that change the repository. *)

\* What a step must do for Assemble.
StepGood ==
  /\ \A f \in Execs : LocalOK(f)
  /\ Grown(gh, gh', Creators)
  /\ \A r \in late' : r.kind = "createPR" => r \in late \/ ex'[r.by].plan.kind = "create"

\* The repository grows from itself.
LEMMA StillGrown ==
  ASSUME Typed, PublicationInv
  PROVE  Numbered(gh) /\ Grown(gh, gh, Creators)
BY GrownSame DEF Typed, PublicationInv, KnownExist, Numbered

\* A steady step of one execution that leaves the repository alone.
LEMMA QuietGood ==
  ASSUME Typed, PublicationInv, NEW e \in Execs, NEW y, Steady(ex[e], y),
         Observe(e, y) \/ RefusedAnyway(e, y)
  PROVE  StepGood
<1>1. ex' = [ex EXCEPT ![e] = y] /\ known' = known /\ gh' = gh /\ late' = late
  BY DEF Observe, RefusedAnyway
<1>2. QED
  BY <1>1, OneMoves, StillGrown DEF StepGood

\* A request with each of its fates.
LEMMA SendGood ==
  ASSUME Typed, PublicationInv, NEW e \in Execs, NEW r \in Request,
         r.kind = "createPR" => r.by \in Creators,
         NEW ok, NEW refused, NEW unknown,
         Steady(ex[e], ok), Steady(ex[e], refused), Steady(ex[e], unknown),
         Send(e, r, ok, refused, unknown)
  PROVE  StepGood
<1>1. Numbered(gh) /\ Grown(gh, gh, Creators) /\ gh \in Repo
  BY StillGrown DEF Typed
<1>2. CASE Acknowledged(e, r, ok)
  BY <1>1, <1>2, OneMoves, GrownApply DEF Acknowledged, StepGood
<1>3. CASE Refused(e, r, refused)
  BY <1>3, QuietGood DEF Refused
<1>4. CASE RefusedAnyway(e, refused)
  BY <1>4, QuietGood
<1>5. CASE AnswerLost(e, r, unknown)
  BY <1>1, <1>5, OneMoves, GrownApply DEF AnswerLost, StepGood
<1>6. CASE TimedOut(e, r, unknown)
  <2>1. \A f \in Execs : LocalOK(f)
    BY <1>6, OneMoves DEF TimedOut
  <2>2. r.kind = "createPR" => ex'[r.by].plan.kind = "create"
    BY <2>1, HumanAssumption DEF Creators, LocalOK, Request
  <2>3. late' \subseteq late \cup {r} /\ gh' = gh
    BY <1>6 DEF TimedOut
  <2>4. QED
    BY <1>1, <2>1, <2>2, <2>3 DEF StepGood
<1>7. QED
  BY <1>2, <1>3, <1>4, <1>5, <1>6 DEF Send

\* The pull-request effect belongs to a create plan.
LEMMA OnlyCreationPublishes ==
  ASSUME NEW kind, NEW i \in EffectNo, i <= Len(Effects(kind)),
         Effects(kind)[i] = "CREATE_PULL_REQUEST"
  PROVE  kind = "create"
BY DEF Effects, EffectNo

\* The steps of effects and of the merge.
LEMMA EffectStepsGood ==
  ASSUME Typed, PublicationInv, NEW e \in Execs, EffectSteps(e)
  PROVE  StepGood
<1>1. ex[e] \in Execution /\ ex[e].plan \in Plan /\ ex[e].made \in Shas
  BY DEF Typed, Execution
<1>2. Fine(ex[e]) /\ Numbered(gh) /\ Grown(gh, gh, Creators) /\ gh \in Repo
  BY SteadySame, StillGrown DEF Typed
<1>3. NoSha \in Shas /\ BaseSha \in Shas /\ NoPR \in PRNumbers
  BY MaxCommitsAssumption, MaxPRsAssumption DEF Shas, PRNumbers
<1>4. ex[e].plan.pr \in PRNumbers /\ ex[e].plan.sha \in Shas
  BY <1>1 DEF Plan
<1>5. \A kind \in RequestKind, pr \in PRNumbers, from \in Shas, to \in Shas :
         /\ RequestOf(e, kind, pr, from, to) \in Request
         /\ RequestOf(e, kind, pr, from, to).kind = kind
         /\ RequestOf(e, kind, pr, from, to).by = e
  BY DEF RequestOf, Request
<1>6. ex[e].st \in ApplyStates => Steady(ex[e], EffectDone(ex[e])) /\ Steady(ex[e], EffectFailed(ex[e]))
  BY <1>1, SteadyEffect
<1>7. ASSUME NEW r \in Request, r.kind = "createPR" => r.by \in Creators,
             ex[e].st \in ApplyStates, SendEffect(e, r)
      PROVE  StepGood
  BY <1>6, <1>7, SendGood DEF SendEffect
<1>8. ASSUME NEW effect, AtEffect(e, effect, 0), effect # "CREATE_PROVENANCE_COMMIT"
      PROVE  Steady(ex[e], Advance(ex[e]))
  <2>1. Advance(ex[e]).st = ex[e].st /\ Advance(ex[e]).plan = ex[e].plan /\ Advance(ex[e]).idx = ex[e].idx
    BY <1>1 DEF Advance, Execution
  <2>2. EffectAt(Advance(ex[e])) = effect
    BY <1>8, <2>1 DEF AtEffect, EffectAt
  <2>3. QED
    BY <1>2, <1>8, <2>1, <2>2 DEF Steady, Fine, AtEffect, Early, ApplyStates
<1>9. CASE CreateBranch(e)
  BY <1>3, <1>5, <1>7, <1>9 DEF CreateBranch, AtEffect, RequestKind
<1>10. CASE ReadProvenance(e)
  <2> DEFINE x == [ex[e] EXCEPT !.made = gh.branch]
  <2>1. ex[e].st \in ApplyStates /\ ex[e].step = 0 /\ gh.branch \in Shas
    BY <1>10 DEF ReadProvenance, AtEffect, Typed, Repo
  <2>2. x \in Execution
    BY <1>1, <2>1, ExecutionType
  <2>3. /\ x.st = ex[e].st /\ x.plan = ex[e].plan /\ x.idx = ex[e].idx
        /\ x.step = 0 /\ x.made = gh.branch
    BY <1>1, <2>1 DEF Execution
  <2>4. Observe(e, EffectFailed(ex[e])) \/ Observe(e, EffectDone(x))
        \/ (gh.branch # NoSha /\ Observe(e, Advance(x)))
    BY <1>10 DEF ReadProvenance
  <2> HIDE DEF x
  <2>5. Steady(ex[e], EffectDone(x))
    <3>1. Steady(x, EffectDone(x))
      BY <2>1, <2>2, <2>3, SteadyEffect
    <3>2. QED
      BY <2>1, <2>3, <3>1 DEF Steady, Early, ApplyStates
  <2>6. gh.branch # NoSha => Steady(ex[e], Advance(x))
    <3>1. /\ Advance(x).st = ex[e].st /\ Advance(x).plan = ex[e].plan
          /\ Advance(x).idx = ex[e].idx /\ Advance(x).made = gh.branch
      BY <2>2, <2>3 DEF Advance, Execution
    <3>2. QED
      BY <1>2, <2>1, <3>1 DEF Steady, Fine, Early, ApplyStates
  <2>7. QED
    BY <1>6, <2>1, <2>4, <2>5, <2>6, QuietGood
<1>11. CASE AdvanceProvenance(e)
  <2> DEFINE new     == gh.n + 1
             created == WithCommit(gh, e, ex[e].made, TRUE, FALSE, gh.commits[ex[e].made].conform)
             r       == RequestOf(e, "advanceRef", NoPR, ex[e].made, new)
             next    == Advance([ex[e] EXCEPT !.made = new])
  <2>1. ex[e].st \in ApplyStates /\ ex[e].step = 1 /\ gh.n < MaxCommits
    BY <1>11 DEF AdvanceProvenance, AtEffect
  <2>2. next.st = ex[e].st /\ next.plan = ex[e].plan /\ next.idx = ex[e].idx /\ next.step = 2
    BY <1>1, <2>1 DEF Advance, Execution
  <2>3. created \in Repo
    <3>1. ex[e].made \in CommitIds
      BY <1>1, <1>11 DEF AdvanceProvenance, PublicationInv, ProvenanceHasParent, Shas, CommitIds
    <3>2. gh.commits[ex[e].made].conform \in BOOLEAN /\ e \in Actors
      BY <1>2, <3>1 DEF Repo, Commit, Actors
    <3>3. QED
      BY <1>2, <2>1, <3>2, WithCommitType
  <2>4. created.prs = gh.prs /\ created.np = gh.np
    BY <1>2 DEF WithCommit, Repo
  <2>5. Apply(created, r) = WithHead(created, new)
    BY DEF Apply, RequestOf
  <2>6. r.kind = "advanceRef"
    BY DEF RequestOf
  <2>7. \/ /\ gh' \in {created, Apply(created, r)}
           /\ ex' = [ex EXCEPT ![e] = next]
           /\ late' = late /\ known' = known
        \/ /\ gh' \in {created, Apply(created, r)}
           /\ ex' = [ex EXCEPT ![e] = EffectFailed(ex[e])]
           /\ late' \subseteq late \cup {r} /\ known' = known
    BY <1>11 DEF AdvanceProvenance
  <2> HIDE DEF new, created, r, next
  <2>8. Steady(ex[e], next)
    BY <1>2, <2>1, <2>2 DEF Steady, Fine, Early, ApplyStates
  <2>9. \A f \in Execs : LocalOK(f)
    BY <1>6, <2>1, <2>7, <2>8, OneMoves
  <2>10. Numbered(created)
    BY <1>2, <2>4 DEF Numbered
  <2>11. Grown(created, created, Creators) /\ Grown(created, WithHead(created, new), Creators)
    BY <2>3, <2>10, GrownSame, GrownBranch
  <2>12. Grown(gh, created, Creators) /\ Grown(gh, WithHead(created, new), Creators)
    BY <2>4, <2>11 DEF Grown
  <2>13. Grown(gh, gh', Creators)
    BY <2>5, <2>7, <2>12
  <2>14. QED
    BY <2>6, <2>7, <2>9, <2>13 DEF StepGood
<1>12. CASE RereadProvenance(e)
  BY <1>6, <1>12, QuietGood DEF RereadProvenance, AtEffect
<1>13. CASE CreatePullRequest(e)
  <2>1. ex[e].plan.kind = "create"
    <3>1. ex[e].st \in ApplyStates /\ EffectAt(ex[e]) = "CREATE_PULL_REQUEST"
      BY <1>13 DEF CreatePullRequest, AtEffect
    <3>2. ex[e].st # "applyingCompensation" /\ Effects(ex[e].plan.kind)[ex[e].idx] = "CREATE_PULL_REQUEST"
      BY <3>1 DEF EffectAt
    <3>3. ex[e].idx \in EffectNo /\ ex[e].idx <= Len(Effects(ex[e].plan.kind))
      BY <1>1, <1>2, <3>1, <3>2 DEF Fine, Execution
    <3>4. QED
      BY <3>2, <3>3, OnlyCreationPublishes
  <2>2. e \in Creators
    BY <2>1 DEF Creators
  <2>3. QED
    BY <1>3, <1>5, <1>7, <1>13, <2>2 DEF CreatePullRequest, AtEffect, RequestKind
<1>14. CASE CheckDraft(e)
  BY <1>6, <1>8, <1>14, QuietGood DEF CheckDraft, AtEffect
<1>15. CASE MarkPullRequestReady(e)
  BY <1>3, <1>4, <1>5, <1>7, <1>15 DEF MarkPullRequestReady, AtEffect, RequestKind
<1>16. CASE ClosePullRequest(e)
  BY <1>3, <1>4, <1>5, <1>7, <1>16 DEF ClosePullRequest, AtEffect, RequestKind
<1>17. CASE CheckGeneration(e)
  BY <1>6, <1>8, <1>17, QuietGood DEF CheckGeneration, AtEffect
<1>18. CASE DeleteBranchIfUnchanged(e)
  <2>1. ExpectedSha(ex[e]) \in Shas
    BY <1>1, <1>4 DEF ExpectedSha
  <2>2. QED
    BY <1>3, <1>5, <1>7, <1>18, <2>1 DEF DeleteBranchIfUnchanged, AtEffect, RequestKind
<1>19. CASE EffectReadFailure(e)
  BY <1>6, <1>19, QuietGood DEF EffectReadFailure
<1>20. /\ \A m : Steady(ex[e], Goto([ex[e] EXCEPT !.mode = m], "rereading"))
       /\ \A r : Steady(ex[e], Finish(ex[e], r))
       /\ ex[e].st = "merging" => /\ Steady(ex[e], Advance(ex[e]))
                                  /\ \A m : Steady(ex[e], Advance([ex[e] EXCEPT !.mode = m]))
  BY <1>1, SteadyForms DEF Early, ApplyStates
<1>21. CASE AdmitMergeTarget(e)
  BY <1>20, <1>21, QuietGood DEF AdmitMergeTarget
<1>22. CASE MergePullRequest(e)
  <2>1. RequestOf(e, "mergePR", ex[e].plan.pr, ex[e].plan.sha, NoSha) \in Request
        /\ RequestOf(e, "mergePR", ex[e].plan.pr, ex[e].plan.sha, NoSha).kind = "mergePR"
    BY <1>3, <1>4, <1>5 DEF RequestKind
  <2>2. QED
    BY <1>20, <1>22, <2>1, SendGood DEF MergePullRequest
<1>23. CASE RereadMerged(e)
  BY <1>20, <1>23, QuietGood DEF RereadMerged
<1>24. CASE MergeReadFailure(e)
  BY <1>20, <1>24, QuietGood DEF MergeReadFailure
<1>25. QED
  BY <1>9, <1>10, <1>11, <1>12, <1>13, <1>14, <1>15, <1>16, <1>17, <1>18, <1>19, <1>21,
     <1>22, <1>23, <1>24 DEF EffectSteps

\* A human step that lets the repository grow.
LEMMA HumanDoesGood ==
  ASSUME Typed, PublicationInv, NEW kind, NEW repo, Grown(gh, repo, Creators),
         HumanDoes(kind, repo)
  PROVE  StepGood
<1>1. ex' = ex /\ known' = known /\ gh' = repo /\ late' = late
  BY DEF HumanDoes
<1>2. \A f \in Execs : LocalOK(f)
  BY <1>1, SteadySame, SteadyIsLocal
<1>3. QED
  BY <1>1, <1>2 DEF StepGood

\* Human steps: a pull request may leave the canonical base, none comes back.
LEMMA HumanStepGood ==
  ASSUME Typed, PublicationInv, HumanStep
  PROVE  StepGood
<1>1. gh \in Repo /\ Numbered(gh) /\ Grown(gh, gh, Creators) /\ Human \in Creators
  BY StillGrown DEF Typed, Creators
<1>2. ASSUME NEW conform \in BOOLEAN, HumanPush(conform) PROVE StepGood
  <2> DEFINE parent  == IF gh.branch = NoSha THEN BaseSha ELSE gh.branch
             created == WithCommit(gh, Human, parent, FALSE, TRUE, conform)
  <2>1. created \in Repo
    BY <1>1, <1>2, WithCommitType DEF HumanPush, Actors
  <2>2. created.prs = gh.prs /\ created.np = gh.np
    BY <1>1 DEF WithCommit, Repo
  <2>3. HumanDoes("push", WithHead(created, gh.n + 1))
    BY <1>2 DEF HumanPush
  <2> HIDE DEF created
  <2>4. Numbered(created)
    BY <1>1, <2>2 DEF Numbered
  <2>5. Grown(created, WithHead(created, gh.n + 1), Creators)
    BY <2>1, <2>4, GrownBranch
  <2>6. Grown(gh, WithHead(created, gh.n + 1), Creators)
    BY <2>2, <2>5 DEF Grown
  <2>7. QED
    BY <2>3, <2>6, HumanDoesGood
<1>3. CASE HumanDeleteBranch
  BY <1>1, <1>3, GrownBranch, HumanDoesGood DEF HumanDeleteBranch
<1>4. CASE HumanOpenPR
  <2>1. Grown(gh, WithPR(gh, Human, FALSE), Creators)
    BY <1>1, GrownWithPR
  <2>2. QED
    BY <1>4, <2>1, HumanDoesGood DEF HumanOpenPR
<1>5. CASE HumanCloseIssue
  <2>1. [gh EXCEPT !.issue = "closed"].prs = gh.prs /\ [gh EXCEPT !.issue = "closed"].np = gh.np
    BY <1>1 DEF Repo
  <2>2. Grown(gh, [gh EXCEPT !.issue = "closed"], Creators)
    BY <1>1, <2>1 DEF Grown, Numbered
  <2>3. QED
    BY <1>5, <2>2, HumanDoesGood DEF HumanCloseIssue
<1>6. CASE GovernanceChange
  <2> DEFINE after == [gh EXCEPT !.gov = gh.gov + 1]
  <2>1. after.prs = gh.prs /\ after.np = gh.np
    BY <1>1 DEF Repo
  <2>2. HumanDoes("governance", after)
    BY <1>6 DEF GovernanceChange
  <2> HIDE DEF after
  <2>3. Grown(gh, after, Creators)
    BY <1>1, <2>1 DEF Grown, Numbered
  <2>4. QED
    BY <2>2, <2>3, HumanDoesGood
<1>7. ASSUME NEW p \in PRIds,
             \/ HumanClosePR(p) \/ HumanReopenPR(p) \/ HumanToggleDraft(p)
             \/ HumanMergePR(p) \/ HumanRetargetPR(p)
      PROVE  StepGood
  <2>1. gh.prs[p] \in PullRequest
    BY <1>1 DEF Repo
  <2>2. ASSUME NEW new, NEW kind, gh.prs[p].state # "none",
               new.state # "none", new.by = gh.prs[p].by,
               gh.prs[p].base = "other" => new.base = "other",
               HumanDoes(kind, [gh EXCEPT !.prs[p] = new])
        PROVE  StepGood
    <3>1. Grown(gh, [gh EXCEPT !.prs[p] = new], Creators)
      BY <1>1, <2>2, GrownPR
    <3>2. QED
      BY <2>2, <3>1, HumanDoesGood
  <2>3. CASE HumanClosePR(p)
    <3> DEFINE new == [gh.prs[p] EXCEPT !.state = "closed"]
    <3>1. new.state = "closed" /\ new.by = gh.prs[p].by /\ new.base = gh.prs[p].base
      BY <2>1 DEF PullRequest
    <3>2. gh.prs[p].state # "none" /\ HumanDoes("closePR", [gh EXCEPT !.prs[p] = new])
      BY <2>3 DEF HumanClosePR
    <3> HIDE DEF new
    <3>3. QED
      BY <2>2, <3>1, <3>2
  <2>4. CASE HumanReopenPR(p)
    <3> DEFINE new == [gh.prs[p] EXCEPT !.state = "open"]
    <3>1. new.state = "open" /\ new.by = gh.prs[p].by /\ new.base = gh.prs[p].base
      BY <2>1 DEF PullRequest
    <3>2. gh.prs[p].state # "none" /\ HumanDoes("reopenPR", [gh EXCEPT !.prs[p] = new])
      BY <2>4 DEF HumanReopenPR
    <3> HIDE DEF new
    <3>3. QED
      BY <2>2, <3>1, <3>2
  <2>5. CASE HumanToggleDraft(p)
    <3> DEFINE new == [gh.prs[p] EXCEPT !.draft = ~gh.prs[p].draft]
    <3>1. /\ new.state = gh.prs[p].state /\ new.by = gh.prs[p].by
          /\ new.base = gh.prs[p].base
      BY <2>1 DEF PullRequest
    <3>2. gh.prs[p].state = "open" /\ HumanDoes("toggleDraft", [gh EXCEPT !.prs[p] = new])
      BY <2>5 DEF HumanToggleDraft
    <3> HIDE DEF new
    <3>3. QED
      BY <2>2, <3>1, <3>2
  <2>6. CASE HumanMergePR(p)
    <3>1. PICK m : HumanDoes("mergePR", [gh EXCEPT !.prs[p].state = "merged", !.prs[p].method = m])
      BY <2>6 DEF HumanMergePR
    <3> DEFINE new == [gh.prs[p] EXCEPT !.state = "merged", !.method = m]
    <3>2. new.state = "merged" /\ new.by = gh.prs[p].by /\ new.base = gh.prs[p].base
      BY <2>1 DEF PullRequest
    <3>3. gh.prs[p].state # "none" /\ HumanDoes("mergePR", [gh EXCEPT !.prs[p] = new])
      BY <2>6, <3>1 DEF HumanMergePR
    <3> HIDE DEF new
    <3>4. QED
      BY <2>2, <3>2, <3>3
  <2>7. CASE HumanRetargetPR(p)
    <3> DEFINE new == [gh.prs[p] EXCEPT !.base = "other"]
    <3>1. new.state = gh.prs[p].state /\ new.by = gh.prs[p].by /\ new.base = "other"
      BY <2>1 DEF PullRequest
    <3>2. gh.prs[p].state = "open" /\ HumanDoes("retargetPR", [gh EXCEPT !.prs[p] = new])
      BY <2>7 DEF HumanRetargetPR
    <3> HIDE DEF new
    <3>3. QED
      BY <2>2, <3>1, <3>2
  <2>8. QED
    BY <1>7, <2>3, <2>4, <2>5, <2>6, <2>7
<1>8. QED
  BY <1>2, <1>3, <1>4, <1>5, <1>6, <1>7 DEF HumanStep

\* The start of an execution: what it knows exists.
LEMMA BeginGood ==
  ASSUME Typed, PublicationInv, NEW e \in Execs, Begin(e)
  PROVE  StepGood
<1> DEFINE y == Goto(ex[e], IF Op[e] = "issue" THEN "readingInitial" ELSE "reading")
<1>1. y.st \in {"readingInitial", "reading"} /\ y.plan = ex[e].plan
  BY DEF Typed, Goto, Execution
<1>2. ex' = [ex EXCEPT ![e] = y] /\ known' = [known EXCEPT ![e] = Listed(Now)] /\ gh' = gh /\ late' = late
  BY DEF Begin
<1> HIDE DEF y
<1>3. ex'[e] = y /\ known'[e] = Listed(Now)
  BY <1>2 DEF Typed
<1>4. \A q \in Listed(Now) : q <= gh.np /\ gh.prs[q].state # "none"
  BY DEF Listed, Now, PublicationInv, KnownExist
<1>5. y.plan.kind # "create"
  BY <1>1 DEF Begin, PublicationInv, NoPlanYet
<1>6. Fine(y)
  BY <1>1 DEF Fine, ApplyStates
<1>7. LocalOK(e)
  BY <1>1, <1>3, <1>4, <1>5, <1>6 DEF LocalOK, PublicationInv, NoPlanYet, Begin
<1>8. ASSUME NEW f \in Execs, f # e PROVE LocalOK(f)
  <2>1. known'[f] = known[f]
    BY <1>2, <1>8 DEF Typed
  <2>2. QED
    BY <1>2, <1>8, <2>1, OthersStill
<1>9. QED
  BY <1>2, <1>7, <1>8, StillGrown DEF StepGood

\* Every step is good.
LEMMA NextGood ==
  ASSUME Typed, PublicationInv, Next
  PROVE  StepGood
<1>1. ASSUME NEW e \in Execs, ReadSteps(e) PROVE StepGood
  <2>1. \A f \in Execs : LocalOK(f)
    BY <1>1, ReadStepsGood
  <2>2. gh' = gh /\ late' = late
    BY <1>1 DEF ReadSteps, ReadBranches, ReadPullRequests, ReadFailure, IssueValidateInitial,
       IssuePlanning, IssueVerifying, IssueClassifyingFailure, IssueRecoveryOutcome,
       ReadyPlanning, ReadyVerifying, AbortPlanning, AbortVerifying, AbortRecoveryPlanning,
       MergeAdmission, MergeVerifying, ReadDone
  <2>3. QED
    BY <2>1, <2>2, StillGrown DEF StepGood
<1>2. ASSUME NEW e \in Execs, Crash(e) PROVE StepGood
  <2>1. ex[e] \in Execution
    BY DEF Typed
  <2>2. QED
    BY <1>2, <2>1, SteadyForms, QuietGood DEF Crash
<1>3. ASSUME NEW r \in late, LateArrival(r) PROVE StepGood
  <2>1. r \in Request /\ gh \in Repo
    BY DEF Typed
  <2>2. r.kind = "createPR" => r.by \in Creators
    BY <2>1 DEF PublicationInv, PublishedByPlan, Creators, Request
  <2>3. Grown(gh, gh', Creators)
    BY <1>3, <2>1, <2>2, GrownApply, StillGrown DEF LateArrival
  <2>4. ex' = ex /\ known' = known /\ late' \subseteq late
    BY <1>3 DEF LateArrival
  <2>5. \A f \in Execs : LocalOK(f)
    BY <2>4, SteadySame, SteadyIsLocal
  <2>6. QED
    BY <2>3, <2>4, <2>5 DEF StepGood
<1>4. QED
  BY <1>1, <1>2, <1>3, BeginGood, EffectStepsGood, HumanStepGood DEF Next, Step, ExecStep

-----------------------------------------------------------------------------
(* The theorems. *)

\* The inductive invariant: types, and the reasons a Change is published once.
Inv == TypeOK /\ PublicationInv

\* It holds before anything happened.
LEMMA InvInit == Init => Inv
<1>1. SUFFICES ASSUME Init PROVE PublicationInv
  BY InitType DEF Inv
<1>2. \A e \in Execs : /\ ex[e] = IdleExecution /\ known[e] = {}
                       /\ ex[e].st = "idle" /\ ex[e].plan.kind = "none" /\ ex[e].step = 0
  BY <1>1 DEF Init, IdleExecution, NoPlan
<1>3. \A p \in PRIds : gh.prs[p].state = "none" /\ gh.prs[p].by = Human
  BY <1>1 DEF Init, FreshRepo, NoPullRequest
<1>4. late = {}
  BY <1>1 DEF Init
<1>5. QED
  BY <1>2, <1>3, <1>4, HumanAssumption
     DEF PublicationInv, NoPlanYet, KnownExist, ReadIsCurrent, CreationIsFresh,
         PublishedByPlan, ProvenanceHasParent, EffectInRange, AtEffect, ApplyStates

\* Every step keeps it.
LEMMA InvStep ==
  ASSUME Inv, [Next]_vars
  PROVE  Inv'
<1>1. CASE Next
  <2>1. Typed
    BY DEF Inv, TypeOK, Typed
  <2>2. TypeOK'
    BY <1>1, StepTyped DEF Inv, PublicationInv
  <2>3. Typed'
    BY <2>2 DEF TypeOK, Typed
  <2>4. StepGood
    BY <1>1, <2>1, NextGood DEF Inv
  <2>5. PublicationInv'
    BY <2>1, <2>3, <2>4, Assemble DEF Inv, StepGood
  <2>6. QED
    BY <2>2, <2>5 DEF Inv
<1>2. CASE UNCHANGED vars
  BY <1>2 DEF vars, Inv, TypeOK, PublicationInv, NoPlanYet, KnownExist, ReadIsCurrent,
     CreationIsFresh, PublishedByPlan, ProvenanceHasParent, EffectInRange, AtEffect
<1>3. QED
  BY <1>1, <1>2

\* The inductive invariant holds in every reachable state, for any number of
\* executions, commits, pull requests, faults, late requests and human steps.
THEOREM InvHolds == Spec => []Inv
BY InvInit, InvStep, PTL DEF Spec

\* Every variable keeps its type; the index of an effect, the parent of the
\* provenance commit and the numbers in every plan and request stay in range.
THEOREM TypeCorrect == Spec => []TypeOK
<1>1. Inv => TypeOK
  BY DEF Inv
<1>2. QED
  BY <1>1, InvHolds, PTL

\* The plan of an issuance is made from a read no known pull request escapes.
THEOREM PublicationInvariant == Spec => []PublicationInv
<1>1. Inv => PublicationInv
  BY DEF Inv
<1>2. QED
  BY <1>1, InvHolds, PTL

\* A repeated issuance never publishes the Change a second time: an execution
\* opens a pull request only if no canonical one that existed when it started
\* is still canonical.
THEOREM PublishedOnce == Spec => []NoSecondPublication
<1>1. Inv => NoSecondPublication
  BY DEF Inv, PublicationInv, PublishedByPlan, CreationIsFresh, NoSecondPublication
<1>2. QED
  BY <1>1, InvHolds, PTL

=============================================================================
