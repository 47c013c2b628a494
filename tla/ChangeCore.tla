----------------------------- MODULE ChangeCore -----------------------------
(***************************************************************************)
(* The pure Change Core of src/change.ts: what one read of GitHub evidence  *)
(* says about a Change (projection), which effects a request plans from it, *)
(* what may be compensated or cleaned up, and when a reread proves a plan.  *)
(***************************************************************************)
EXTENDS GitHubRepo, Sequences

CONSTANT EmptyListReport   \* how the evidence reader reports an empty list:
                           \* "absent" (the production reader) or "available"
ASSUME EmptyListReportAssumption == EmptyListReport \in {"absent", "available"}

ChangeState == {"DEFINED", "DRAFT", "REVIEW", "ACCEPTED", "MERGED", "ABORTED",
                "RECOVERY_REQUIRED"}
ProjectionStatus == {"absent", "healthy", "partial", "duplicate"}
Operation == {"issue", "ready", "abort", "merge"}

(***************************************************************************)
(* Evidence of one read: the Issue state, the head of the canonical branch, *)
(* the pull requests with that head, the head the later operational read of *)
(* the pull request reported, and the governance generation.                *)
(***************************************************************************)
SeenGenerations == {0} \cup Generations
Evidence == [issue : {"open", "closed"}, branch : Shas, prs : [PRIds -> PullRequest],
             head : Shas, gov : SeenGenerations]

NoEvidence == [issue |-> "open", branch |-> NoSha,
               prs |-> [p \in PRIds |-> NoPullRequest], head |-> NoSha, gov |-> 0]

\* The list call filters on base, so a retargeted pull request is not listed.
Listed(ev) == {p \in PRIds : ev.prs[p].state # "none" /\ ev.prs[p].base = "default"}

HasBranch(ev) == ev.branch # NoSha
OnlyPR(ev)    == CHOOSE p \in PRIds : p \in Listed(ev)
SinglePR(ev)  == \E p \in PRIds : Listed(ev) = {p}

-----------------------------------------------------------------------------
(* Lifecycle and projection. *)

\* The lifecycle table: which operation leads from which state to which.
LifecycleEdges ==
  { <<"issue", "DEFINED", "DRAFT">>, <<"ready", "DRAFT", "REVIEW">>,
    <<"ready", "REVIEW", "REVIEW">>, <<"merge", "REVIEW", "MERGED">>,
    <<"merge", "ACCEPTED", "MERGED">>,
    <<"abort", "DRAFT", "ABORTED">>, <<"abort", "REVIEW", "ABORTED">>,
    <<"abort", "ABORTED", "ABORTED">>, <<"abort", "RECOVERY_REQUIRED", "ABORTED">> }

Admits(op, state) == \E to \in ChangeState : <<op, state, to>> \in LifecycleEdges

\* Only evidence marked accepted gives ACCEPTED, and no reader marks it so.
ChangeStateFromPullRequest(pr) ==
  CASE pr.state = "merged" -> "MERGED"
    [] pr.state = "closed" -> "ABORTED"
    [] OTHER -> IF pr.draft THEN "DRAFT" ELSE "REVIEW"

ClosedUnmerged(ev) == SinglePR(ev) /\ ev.prs[OnlyPR(ev)].state = "closed"

Status(ev) ==
  IF Listed(ev) # {} /\ ~SinglePR(ev) THEN "duplicate"
  ELSE IF HasBranch(ev) /\ ClosedUnmerged(ev) THEN "partial"    \* incomplete abort cleanup
  ELSE IF ~HasBranch(ev) /\ ClosedUnmerged(ev) THEN "healthy"   \* historical abort
  ELSE IF HasBranch(ev) /\ SinglePR(ev) THEN "healthy"
  ELSE IF HasBranch(ev) \/ SinglePR(ev) THEN "partial"
  ELSE "absent"

State(ev) ==
  CASE Status(ev) = "healthy" -> ChangeStateFromPullRequest(ev.prs[OnlyPR(ev)])
    [] Status(ev) = "absent" -> "DEFINED"
    [] OTHER -> "RECOVERY_REQUIRED"

ProjectedPR(ev) == IF SinglePR(ev) THEN OnlyPR(ev) ELSE NoPR

\* The pull request was opened by the Inari App.
IssuedByInari(ev) == SinglePR(ev) /\ ev.prs[OnlyPR(ev)].by # Human

-----------------------------------------------------------------------------
(* Plans. *)

PlanKind == {"none", "create", "return-existing", "mark-ready", "already-ready",
             "close-and-delete", "delete-leftover", "already-aborted", "merge"}
Plan == [kind : PlanKind, state : ChangeState, pr : PRNumbers, sha : Shas]
NoPlan == [kind |-> "none", state |-> "DEFINED", pr |-> NoPR, sha |-> NoSha]

Effects(kind) ==
  CASE kind = "create" -> <<"CREATE_BRANCH", "CREATE_PROVENANCE_COMMIT", "CREATE_PULL_REQUEST">>
    [] kind = "mark-ready" -> <<"MARK_PULL_REQUEST_READY">>
    [] kind = "close-and-delete" -> <<"CLOSE_PULL_REQUEST", "DELETE_BRANCH">>
    [] kind = "delete-leftover" -> <<"DELETE_BRANCH">>
    [] OTHER -> << >>

PlanOf(kind, state, pr, sha) == [kind |-> kind, state |-> state, pr |-> pr, sha |-> sha]

\* Mutant: an aborted Change is issued again.
IssuancePlanReissues(ev) ==
  CASE Status(ev) = "absent" \/ State(ev) = "ABORTED" -> PlanOf("create", "DRAFT", NoPR, NoSha)
    [] Status(ev) = "healthy" /\ State(ev) # "ABORTED" ->
         PlanOf("return-existing", State(ev), ProjectedPR(ev), NoSha)
    [] OTHER -> NoPlan

\* Issuance is create-or-return-existing; every other projection is refused.
IssuancePlan(ev) ==
  CASE Status(ev) = "absent" -> PlanOf("create", "DRAFT", NoPR, NoSha)
    [] Status(ev) = "healthy" -> PlanOf("return-existing", State(ev), ProjectedPR(ev), NoSha)
    [] OTHER -> NoPlan

\* The canonical branch and pull request are both there and Inari opened the latter.
MergeAdmissible(ev) == Status(ev) = "healthy" /\ HasBranch(ev) /\ IssuedByInari(ev)

\* The operational read must report the listed head, and its diff must conform.
Conformant(ev, commits) == /\ ev.head # NoSha
                           /\ ev.head = ev.prs[OnlyPR(ev)].head
                           /\ commits[ev.head].conform

ReadyValid(ev, commits) == /\ MergeAdmissible(ev)
                           /\ ev.issue = "open"
                           /\ Admits("ready", State(ev))
                           /\ Conformant(ev, commits)

ReadyPlan(ev, commits) ==
  IF ~ReadyValid(ev, commits) THEN NoPlan
  ELSE PlanOf(IF State(ev) = "DRAFT" THEN "mark-ready" ELSE "already-ready",
              "REVIEW", ProjectedPR(ev), NoSha)

\* Mutant: a branch without a pull request is not a recognised leftover.
AbortRecoveryClosedOnly(ev) == /\ Status(ev) = "partial"
                               /\ HasBranch(ev)
                               /\ ClosedUnmerged(ev)

\* The two leftovers abort may clean up: a branch whose only pull request is
\* closed unmerged, and a branch without any listed pull request.
AbortRecovery(ev) == /\ Status(ev) = "partial"
                     /\ HasBranch(ev)
                     /\ ClosedUnmerged(ev) \/ Listed(ev) = {}

AbortCleanupComplete(ev) == Status(ev) = "absent"

\* Without a pull request the executor vouches for the issuer itself.
AbortAdmissible(ev) == /\ Status(ev) \in {"healthy", "absent"} \/ AbortRecovery(ev)
                       /\ SinglePR(ev) => IssuedByInari(ev)

AbortPlan(ev) ==
  IF ~AbortAdmissible(ev) \/ ~Admits("abort", State(ev)) THEN NoPlan
  ELSE CASE State(ev) = "ABORTED" ->
              PlanOf("already-aborted", "ABORTED", ProjectedPR(ev), NoSha)
         [] State(ev) = "RECOVERY_REQUIRED" ->
              PlanOf("delete-leftover", "ABORTED", ProjectedPR(ev), ev.branch)
         [] OTHER ->
              PlanOf("close-and-delete", "ABORTED", ProjectedPR(ev), ev.branch)

MergePlan(ev) ==
  IF MergeAdmissible(ev) /\ State(ev) \in {"REVIEW", "ACCEPTED", "MERGED"}
  THEN PlanOf("merge", "MERGED", ProjectedPR(ev), ev.prs[OnlyPR(ev)].head)
  ELSE NoPlan

-----------------------------------------------------------------------------
(* Verification of a plan against a reread, and recovery. *)

BranchOnlyAbort(plan) == plan.kind = "delete-leftover" /\ plan.pr = NoPR

VerifyProjection(plan, ev) ==
  IF BranchOnlyAbort(plan) THEN AbortCleanupComplete(ev)
  ELSE /\ Status(ev) = "healthy"
       /\ State(ev) = plan.state
       /\ IssuedByInari(ev)
       /\ plan.pr # NoPR => ProjectedPR(ev) = plan.pr

\* Mutant: the reread is not validated again.
VerifyReadyStateOnly(plan, ev, commits) ==
  /\ State(ev) = "REVIEW"
  /\ VerifyProjection(plan, ev)

VerifyReady(plan, ev, commits) ==
  /\ ReadyValid(ev, commits)
  /\ State(ev) = "REVIEW"
  /\ VerifyProjection(plan, ev)

VerifyMerge(plan, ev) ==
  /\ MergeAdmissible(ev)
  /\ State(ev) = "MERGED"
  /\ ProjectedPR(ev) = plan.pr

ConfirmedAbsent(ev) == Status(ev) = "absent"

\* An empty list is "available" evidence only to a reader that says so.
ListsAvailable(ev) == /\ HasBranch(ev) \/ EmptyListReport = "available"
                      /\ Listed(ev) # {} \/ EmptyListReport = "available"

\* Mutant: only confirmed absence counts as safe.
SafeFailureProjectionAbsentOnly(ev, made) ==
  ConfirmedAbsent(ev) /\ ev.issue = "open" /\ ListsAvailable(ev) /\ made # NoSha

\* After branch and provenance succeeded and the pull request failed: the read
\* shows nothing, or exactly the branch at the generation the run recorded.
SafeFailureProjection(ev, made) ==
  /\ ConfirmedAbsent(ev) \/ (HasBranch(ev) /\ Listed(ev) = {} /\ ev.branch = made)
  /\ ev.issue = "open"
  /\ ListsAvailable(ev)

SafeAbsentProjection(ev) == ConfirmedAbsent(ev) /\ ev.issue = "open"

\* A failed transition is bounded by a valid or partial projection.
TransitionRecoverable(ev) == Status(ev) \in {"healthy", "absent", "partial"}

=============================================================================
