-------------------------- MODULE ChangeExecution --------------------------
(***************************************************************************)
(* Executions of Change operations (issue, ready, abort, merge) against one *)
(* GitHub repository.  Each execution is one run of the trusted executor:   *)
(* the XState machines of src/change/machine/ and the merge procedure of    *)
(* the trusted execution adapter, with the effect adapter underneath.       *)
(*                                                                          *)
(* An await in the code is a step boundary here.  Everything between two    *)
(* awaits (projection, validation, planning, verification) is one step.     *)
(* Several executions run at the same time: nothing in the repository makes *)
(* them exclude each other.  Humans work on the same branch.                *)
(***************************************************************************)
EXTENDS ChangeCore

CONSTANTS Op,         \* Op[e]: the operation execution e was asked for
          After,      \* After[e]: the executions the caller waits for before it starts e
          ValidGov,   \* governance generations under which the root Issue is valid
          MaxFaults,  \* bound: failed reads, lost or refused requests, crashes
          MaxEnv,     \* bound: human steps
          HumanMay,   \* the kinds of human steps that are considered
          LateRequests \* GitHub may apply a request after its sender timed out

ASSUME OpAssumption == Op \in [Execs -> Operation]
ASSUME AfterAssumption == After \in [Execs -> SUBSET Execs]
ASSUME ValidGovAssumption == ValidGov \subseteq 1 .. MaxGov
ASSUME HumanMayAssumption == HumanMay \subseteq
  {"push", "deleteBranch", "openPR", "closePR", "reopenPR", "toggleDraft", "mergePR",
   "retargetPR", "closeIssue", "governance"}
ASSUME BoundsAssumption == MaxFaults \in Nat /\ MaxEnv \in Nat /\ LateRequests \in BOOLEAN

VARIABLES
  gh,       \* the repository
  ex,       \* ex[e]: the local state of execution e
  late,     \* timed-out requests still on their way to GitHub
  faults,   \* faults so far
  env,      \* human steps so far
  truth,    \* history: what was true of the Change at each call of e's last read
  applied,  \* history: executor requests GitHub applied, and what they hit
  known,    \* history: the canonical pull requests there were when e started
  calm      \* history: nobody else acted, and nothing failed, since e started

history == <<truth, applied, known, calm>>
vars == <<gh, ex, late, faults, env, truth, applied, known, calm>>

-----------------------------------------------------------------------------
(* The local state of an execution. *)

ReadStates  == {"readingInitial", "readingFresh", "reading", "rereading",
                "rereadingAfterFailure", "rereadingAfterCompensation"}
ApplyStates == {"applyingEffect", "applyingCompensation", "markingReady", "applying"}
ExecState   == ReadStates \cup ApplyStates \cup {"idle", "merging", "done"}

Mode    == {"verify", "failed", "succeeded", "accepted", "refused", "unknown", "idempotent"}
Outcome == {"none", "verified", "returned-existing", "compensated", "failed",
            "recovery-required", "recovery-failed", "read-failed",
            "precondition-failed", "verification-failed", "crashed"}

\* step counts the awaits inside one state; made is the commit the provenance
\* effect reported as created; govSeen is the generation of the initial read.
StepNo    == 0 .. 2
EffectNo  == 1 .. 3
Execution == [st : ExecState, step : StepNo, idx : EffectNo, mode : Mode, ev : Evidence,
              govSeen : SeenGenerations, plan : Plan, made : Shas, result : Outcome]

IdleExecution == [st |-> "idle", step |-> 0, idx |-> 1, mode |-> "verify", ev |-> NoEvidence,
                  govSeen |-> 0, plan |-> NoPlan, made |-> NoSha, result |-> "none"]

Goto(x, st)   == [x EXCEPT !.st = st, !.step = 0]
Finish(x, r)  == [x EXCEPT !.st = "done", !.step = 0, !.result = r]
Advance(x)    == [x EXCEPT !.step = x.step + 1]

Running(e)    == ex[e].st \notin {"idle", "done"}

\* What an atomic look at the repository would say right now.
Now       == [issue |-> gh.issue, branch |-> gh.branch, prs |-> gh.prs,
              head |-> NoSha, gov |-> gh.gov]
Truth     == <<Status(Now), State(Now)>>
Claim(ev) == <<Status(ev), State(ev)>>

\* History of executor requests: the request and what it found.
Applied == [req : Request, head : Shas, base : {"default", "other"}, open : SUBSET PRIds]
Hit(r)  == [req |-> r, head |-> gh.branch,
            base |-> IF r.pr = NoPR THEN "default" ELSE gh.prs[r.pr].base,
            open |-> OpenPRs(gh)]

-----------------------------------------------------------------------------
(* Initial state. *)

Init == /\ gh = FreshRepo
        /\ ex = [e \in Execs |-> IdleExecution]
        /\ late = {}
        /\ faults = 0
        /\ env = 0
        /\ truth = [e \in Execs |-> {}]
        /\ applied = {}
        /\ known = [e \in Execs |-> {}]
        /\ calm = [e \in Execs |-> FALSE]

-----------------------------------------------------------------------------
(* Reading evidence.  The reader asks for the branch and for the pull       *)
(* requests in separate calls, and for governance or pull-request evidence  *)
(* after that, so the evidence of one read may mix several moments.         *)

Begin(e) ==
  /\ ex[e].st = "idle"
  /\ \A f \in After[e] : ex[f].st = "done"
  /\ ex' = [ex EXCEPT ![e] = Goto(ex[e], IF Op[e] = "issue" THEN "readingInitial" ELSE "reading")]
  /\ known' = [known EXCEPT ![e] = Listed(Now)]
  /\ UNCHANGED <<gh, late, faults, env, truth, applied>>

\* Mutant: a reread takes the branch from the evidence of the read before it.
ReadBranchesCached(e) ==
  /\ ex[e].st \in ReadStates \ {"readingInitial"}
  /\ ex[e].step = 0
  /\ ex' = [ex EXCEPT ![e] = Advance([ex[e] EXCEPT !.ev =
               [NoEvidence EXCEPT !.issue = gh.issue,
                  !.branch = IF ex[e].st = "rereadingAfterFailure" THEN ex[e].ev.branch
                             ELSE gh.branch]])]
  /\ truth' = [truth EXCEPT ![e] = {Truth}]
  /\ UNCHANGED <<gh, late, faults, env, applied, known>>

ReadBranches(e) ==
  /\ ex[e].st \in ReadStates \ {"readingInitial"}
  /\ ex[e].step = 0
  /\ ex' = [ex EXCEPT ![e] = Advance([ex[e] EXCEPT !.ev =
               [NoEvidence EXCEPT !.issue = gh.issue, !.branch = gh.branch]])]
  /\ truth' = [truth EXCEPT ![e] = {Truth}]
  /\ UNCHANGED <<gh, late, faults, env, applied, known>>

\* Abort needs nothing after the pull requests; the others make one more call.
LastStep(e) == IF ex[e].st = "readingInitial" THEN 0
               ELSE IF Op[e] = "abort" THEN 1 ELSE 2

ReadPullRequests(e) ==
  /\ ex[e].st \in ReadStates
  /\ ex[e].step = 1
  /\ LastStep(e) = 2
  /\ ex' = [ex EXCEPT ![e] = Advance([ex[e] EXCEPT !.ev.prs = gh.prs])]
  /\ truth' = [truth EXCEPT ![e] = truth[e] \cup {Truth}]
  /\ UNCHANGED <<gh, late, faults, env, applied, known>>

AtLastRead(e, st) == ex[e].st = st /\ st \in ReadStates /\ ex[e].step = LastStep(e)

\* The evidence once the last call of the read has answered.
LastRead(e) ==
  LET seen == ex[e].ev IN
  CASE Op[e] = "abort" -> [seen EXCEPT !.prs = gh.prs]
    [] Op[e] = "issue" -> [seen EXCEPT !.gov = gh.gov]
    [] OTHER -> [seen EXCEPT !.head =
                   IF SinglePR(seen) THEN gh.prs[OnlyPR(seen)].head ELSE NoSha]

\* The read is complete: e goes on as x says, with that evidence.
ReadDone(e, x) ==
  /\ ex' = [ex EXCEPT ![e] = [x EXCEPT !.ev = LastRead(e)]]
  /\ truth' = [truth EXCEPT ![e] = truth[e] \cup {Truth}]
  /\ UNCHANGED <<gh, late, faults, env, applied, known>>

\* A call of the read fails, and the machine's onError or failure branch is taken.
ReadFailure(e) ==
  /\ ex[e].st \in ReadStates
  /\ faults < MaxFaults
  /\ faults' = faults + 1
  /\ ex' = [ex EXCEPT ![e] = Finish(ex[e],
       CASE ex[e].st \in {"rereadingAfterFailure", "rereadingAfterCompensation"} -> "recovery-required"
         [] Op[e] = "abort" /\ ex[e].st = "rereading" /\ ex[e].mode = "failed" -> "recovery-failed"
         [] Op[e] = "merge" /\ ex[e].st = "rereading" -> "recovery-required"
         [] OTHER -> "read-failed")]
  /\ UNCHANGED <<gh, late, env, truth, applied, known>>

-----------------------------------------------------------------------------
(* Control after a complete read: one action per machine and read state. *)

ApplyState(op) == CASE op = "issue" -> "applyingEffect"
                    [] op = "ready" -> "markingReady"
                    [] OTHER -> "applying"

\* Nothing to apply: straight to the verifying reread.
Planned(e, plan) ==
  LET x == [ex[e] EXCEPT !.plan = plan, !.idx = 1, !.mode = "verify"] IN
  IF plan.kind = "none" THEN Finish(x, "precondition-failed")
  ELSE Goto(x, IF Effects(plan.kind) = << >> THEN "rereading" ELSE ApplyState(Op[e]))

Verified(e, ok) ==
  Finish(ex[e], IF ~ok THEN "verification-failed"
                ELSE IF Effects(ex[e].plan.kind) = << >> THEN "returned-existing"
                ELSE "verified")

IssueValidateInitial(e) ==
  /\ Op[e] = "issue"
  /\ AtLastRead(e, "readingInitial")
  /\ ReadDone(e, IF gh.gov \in ValidGov
                 THEN Goto([ex[e] EXCEPT !.govSeen = gh.gov], "readingFresh")
                 ELSE Finish(ex[e], "precondition-failed"))

IssuePlanning(e) ==
  /\ Op[e] = "issue"
  /\ AtLastRead(e, "readingFresh")
  /\ ReadDone(e, IF gh.gov \in ValidGov /\ gh.gov = ex[e].govSeen
                 THEN Planned(e, IssuancePlan(LastRead(e)))
                 ELSE Finish(ex[e], "precondition-failed"))

IssueVerifying(e) ==
  /\ Op[e] = "issue"
  /\ AtLastRead(e, "rereading")
  /\ ReadDone(e, Verified(e, VerifyProjection(ex[e].plan, LastRead(e))))

IssueClassifyingFailure(e) ==
  /\ Op[e] = "issue"
  /\ AtLastRead(e, "rereadingAfterFailure")
  /\ ReadDone(e,
       IF ex[e].idx = Len(Effects(ex[e].plan.kind))
       THEN IF SafeFailureProjection(LastRead(e), ex[e].made)
            THEN Goto(ex[e], "applyingCompensation")
            ELSE Finish(ex[e], "recovery-required")
       ELSE Finish(ex[e], IF ConfirmedAbsent(LastRead(e)) THEN "failed" ELSE "recovery-required"))

IssueRecoveryOutcome(e) ==
  /\ Op[e] = "issue"
  /\ AtLastRead(e, "rereadingAfterCompensation")
  /\ ReadDone(e, Finish(ex[e], IF ex[e].mode = "succeeded" /\ SafeAbsentProjection(LastRead(e))
                               THEN "compensated" ELSE "recovery-required"))

ReadyPlanning(e) ==
  /\ Op[e] = "ready"
  /\ AtLastRead(e, "reading")
  /\ ReadDone(e, Planned(e, ReadyPlan(LastRead(e), gh.commits)))

ReadyVerifying(e) ==
  /\ Op[e] = "ready"
  /\ AtLastRead(e, "rereading")
  /\ ReadDone(e, IF ex[e].mode = "failed" THEN Finish(ex[e], "failed")
                 ELSE Verified(e, VerifyReady(ex[e].plan, LastRead(e), gh.commits)))

\* A Change that is already clean is reported without a second read.
AbortPlanning(e) ==
  /\ Op[e] = "abort"
  /\ AtLastRead(e, "reading")
  /\ ReadDone(e, IF AbortCleanupComplete(LastRead(e)) THEN Finish(ex[e], "returned-existing")
                 ELSE Planned(e, AbortPlan(LastRead(e))))

AbortVerifying(e) ==
  /\ Op[e] = "abort"
  /\ AtLastRead(e, "rereading")
  /\ ex[e].mode = "verify"
  /\ ReadDone(e, Verified(e, VerifyProjection(ex[e].plan, LastRead(e))))

AbortRecoveryPlanning(e) ==
  /\ Op[e] = "abort"
  /\ AtLastRead(e, "rereading")
  /\ ex[e].mode = "failed"
  /\ ReadDone(e, Finish(ex[e], IF TransitionRecoverable(LastRead(e))
                               THEN "recovery-required" ELSE "recovery-failed"))

MergeAdmission(e) ==
  /\ Op[e] = "merge"
  /\ AtLastRead(e, "reading")
  /\ ReadDone(e, LET plan == MergePlan(LastRead(e)) IN
                 IF plan.kind = "none" THEN Finish(ex[e], "precondition-failed")
                 ELSE Goto([ex[e] EXCEPT !.plan = plan], "merging"))

MergeVerifying(e) ==
  /\ Op[e] = "merge"
  /\ AtLastRead(e, "rereading")
  /\ ReadDone(e, Finish(ex[e],
       IF ~VerifyMerge(ex[e].plan, LastRead(e)) THEN "verification-failed"
       ELSE IF ex[e].mode = "idempotent" THEN "returned-existing"
       ELSE "verified"))

-----------------------------------------------------------------------------
(* Applying effects. *)

EffectAt(x) == IF x.st = "applyingCompensation" THEN "DELETE_BRANCH"
               ELSE Effects(x.plan.kind)[x.idx]

\* e is about to make call number step of the effect.
AtEffect(e, effect, step) == /\ ex[e].st \in ApplyStates
                             /\ ex[e].step = step
                             /\ EffectAt(ex[e]) = effect

EffectDone(x) ==
  IF x.st = "applyingCompensation"
  THEN Goto([x EXCEPT !.mode = "succeeded"], "rereadingAfterCompensation")
  ELSE IF x.idx < Len(Effects(x.plan.kind))
  THEN [x EXCEPT !.idx = x.idx + 1, !.step = 0]
  ELSE Goto([x EXCEPT !.mode = "verify"], "rereading")

\* Mutant: a failed effect of a transition is retried for ever.
EffectFailedRetries(x) ==
  CASE x.st = "applyingCompensation" ->
         Goto([x EXCEPT !.mode = "failed"], "rereadingAfterCompensation")
    [] x.st = "applyingEffect" -> Goto([x EXCEPT !.mode = "failed"], "rereadingAfterFailure")
    [] OTHER -> x

EffectFailed(x) ==
  CASE x.st = "applyingCompensation" ->
         Goto([x EXCEPT !.mode = "failed"], "rereadingAfterCompensation")
    [] x.st = "applyingEffect" -> Goto([x EXCEPT !.mode = "failed"], "rereadingAfterFailure")
    [] OTHER -> Goto([x EXCEPT !.mode = "failed"], "rereading")

\* Mutant: delete whatever generation is there now.
ExpectedShaCurrent(x) == IF x.st = "none" THEN x.made ELSE gh.branch

\* The generation a DELETE_BRANCH of x is conditional on.
ExpectedSha(x) == IF x.st = "applyingCompensation" THEN x.made ELSE x.plan.sha

\* A call that only reads answers, and e goes on as x says.
Observe(e, x) ==
  /\ ex' = [ex EXCEPT ![e] = x]
  /\ UNCHANGED <<gh, late, faults, env, truth, applied, known>>

(* The five fates of a mutation.  ok, refused and unknown are the local      *)
(* states of e after an acknowledged, a refused and an unanswered request.   *)

Acknowledged(e, r, ok) ==
  /\ Accepts(gh, r)
  /\ gh' = Apply(gh, r)
  /\ applied' = applied \cup {Hit(r)}
  /\ ex' = [ex EXCEPT ![e] = ok]
  /\ UNCHANGED <<late, faults, env, truth, known>>

Refused(e, r, refused) ==
  /\ ~Accepts(gh, r)
  /\ Observe(e, refused)

RefusedAnyway(e, refused) ==
  /\ faults < MaxFaults
  /\ faults' = faults + 1
  /\ ex' = [ex EXCEPT ![e] = refused]
  /\ UNCHANGED <<gh, late, env, truth, applied, known>>

AnswerLost(e, r, unknown) ==
  /\ faults < MaxFaults
  /\ faults' = faults + 1
  /\ Accepts(gh, r)
  /\ gh' = Apply(gh, r)
  /\ applied' = applied \cup {Hit(r)}
  /\ ex' = [ex EXCEPT ![e] = unknown]
  /\ UNCHANGED <<late, env, truth, known>>

TimedOut(e, r, unknown) ==
  /\ faults < MaxFaults
  /\ faults' = faults + 1
  /\ late' = IF LateRequests THEN late \cup {r} ELSE late
  /\ ex' = [ex EXCEPT ![e] = unknown]
  /\ UNCHANGED <<gh, env, truth, applied, known>>

Send(e, r, ok, refused, unknown) ==
  \/ Acknowledged(e, r, ok)
  \/ Refused(e, r, refused)
  \/ RefusedAnyway(e, refused)
  \/ AnswerLost(e, r, unknown)
  \/ TimedOut(e, r, unknown)

SendEffect(e, r) ==
  Send(e, r, EffectDone(ex[e]), EffectFailed(ex[e]), EffectFailed(ex[e]))

CreateBranch(e) ==
  /\ AtEffect(e, "CREATE_BRANCH", 0)
  /\ SendEffect(e, RequestOf(e, "createRef", NoPR, NoSha, BaseSha))

\* The record may already be on the branch: then its head counts as created.
ReadProvenance(e) ==
  /\ AtEffect(e, "CREATE_PROVENANCE_COMMIT", 0)
  /\ Observe(e,
       CASE gh.branch = NoSha -> EffectFailed(ex[e])
         [] gh.branch # NoSha /\ gh.commits[gh.branch].record ->
              EffectDone([ex[e] EXCEPT !.made = gh.branch])
         [] gh.branch # NoSha /\ ~gh.commits[gh.branch].record -> Advance([ex[e] EXCEPT !.made = gh.branch]))

\* The commit object exists once it is created, the branch moves only from the
\* head that was read; the answer of the conditional update is not looked at.
AdvanceProvenance(e) ==
  /\ AtEffect(e, "CREATE_PROVENANCE_COMMIT", 1)
  /\ gh.n < MaxCommits
  /\ LET parent  == ex[e].made
         new     == gh.n + 1
         created == WithCommit(gh, e, parent, TRUE, FALSE, gh.commits[parent].conform)
         r       == RequestOf(e, "advanceRef", NoPR, parent, new)
         next    == Advance([ex[e] EXCEPT !.made = new])
     IN \/ /\ Accepts(gh, r)
           /\ gh' = Apply(created, r)
           /\ applied' = applied \cup {Hit(r)}
           /\ ex' = [ex EXCEPT ![e] = next]
           /\ UNCHANGED <<late, faults, env, truth, known>>
        \/ /\ ~Accepts(gh, r)
           /\ gh' = created
           /\ ex' = [ex EXCEPT ![e] = next]
           /\ UNCHANGED <<late, faults, env, truth, applied, known>>
        \/ /\ faults < MaxFaults
           /\ faults' = faults + 1
           /\ gh' \in {created} \cup (IF Accepts(gh, r) THEN {Apply(created, r)} ELSE {})
           /\ applied' = IF gh'.branch = new THEN applied \cup {Hit(r)} ELSE applied
           /\ late' = IF LateRequests /\ gh'.branch # new THEN late \cup {r} ELSE late
           /\ ex' = [ex EXCEPT ![e] = EffectFailed(ex[e])]
           /\ UNCHANGED <<env, truth, known>>

\* Mutant: a head that differs is read once more.
RereadProvenancePolls(e) ==
  /\ AtEffect(e, "CREATE_PROVENANCE_COMMIT", 2)
  /\ Observe(e, IF gh.branch = ex[e].made THEN EffectDone(ex[e]) ELSE Advance(ex[e]))

RereadProvenance(e) ==
  /\ AtEffect(e, "CREATE_PROVENANCE_COMMIT", 2)
  /\ Observe(e, IF gh.branch = ex[e].made THEN EffectDone(ex[e]) ELSE EffectFailed(ex[e]))

\* A metadata update that fails after the pull request exists is an AnswerLost.
CreatePullRequest(e) ==
  /\ AtEffect(e, "CREATE_PULL_REQUEST", 0)
  /\ SendEffect(e, RequestOf(e, "createPR", NoPR, NoSha, NoSha))

CheckDraft(e) ==
  /\ AtEffect(e, "MARK_PULL_REQUEST_READY", 0)
  /\ LET pr == gh.prs[ex[e].plan.pr] IN
     Observe(e, IF pr.state = "open" /\ pr.draft THEN Advance(ex[e]) ELSE EffectFailed(ex[e]))

MarkPullRequestReady(e) ==
  /\ AtEffect(e, "MARK_PULL_REQUEST_READY", 1)
  /\ SendEffect(e, RequestOf(e, "markReady", ex[e].plan.pr, NoSha, NoSha))

ClosePullRequest(e) ==
  /\ AtEffect(e, "CLOSE_PULL_REQUEST", 0)
  /\ SendEffect(e, RequestOf(e, "closePR", ex[e].plan.pr, NoSha, NoSha))

CheckGeneration(e) ==
  /\ AtEffect(e, "DELETE_BRANCH", 0)
  /\ Observe(e, IF gh.branch = NoSha THEN EffectDone(ex[e])
                ELSE IF gh.branch = ExpectedSha(ex[e]) THEN Advance(ex[e])
                ELSE EffectFailed(ex[e]))

DeleteBranchIfUnchanged(e) ==
  /\ AtEffect(e, "DELETE_BRANCH", 1)
  /\ SendEffect(e, RequestOf(e, "deleteRef", NoPR, ExpectedSha(ex[e]), NoSha))

\* A read inside an effect fails.
EffectReadFailure(e) ==
  /\ ex[e].st \in ApplyStates
  /\ \/ AtEffect(e, "CREATE_PROVENANCE_COMMIT", 0)
     \/ AtEffect(e, "CREATE_PROVENANCE_COMMIT", 2)
     \/ AtEffect(e, "MARK_PULL_REQUEST_READY", 0)
     \/ AtEffect(e, "DELETE_BRANCH", 0)
  /\ RefusedAnyway(e, EffectFailed(ex[e]))

-----------------------------------------------------------------------------
(* The Semantic PR merge authority. *)

MergedMatchingTarget(pr, plan) ==
  pr.state = "merged" /\ pr.head = plan.sha /\ pr.base = "default"
MergedAsRequested(pr, plan) == MergedMatchingTarget(pr, plan) /\ pr.method

\* Mergeability and repository policy are GitHub's to decide: policy is any value.
AdmitMergeTarget(e) ==
  /\ ex[e].st = "merging"
  /\ ex[e].step = 0
  /\ LET pr == gh.prs[ex[e].plan.pr] IN
     \E policy \in BOOLEAN :
       Observe(e,
         IF pr.head # ex[e].plan.sha \/ pr.base # "default" THEN Finish(ex[e], "precondition-failed")
         ELSE IF MergedAsRequested(pr, ex[e].plan)
         THEN Goto([ex[e] EXCEPT !.mode = "idempotent"], "rereading")
         ELSE IF pr.state # "open" \/ pr.draft \/ ~policy THEN Finish(ex[e], "precondition-failed")
         ELSE Advance(ex[e]))

\* Mutant: the merge is not conditional on the admitted head.
MergePullRequestAnyHead(e) ==
  /\ ex[e].st = "merging"
  /\ ex[e].step = 1
  /\ LET after(m) == Advance([ex[e] EXCEPT !.mode = m]) IN
     Send(e, RequestOf(e, "mergePR", ex[e].plan.pr, gh.prs[ex[e].plan.pr].head, NoSha),
          after("accepted"), after("refused"), after("unknown"))

MergePullRequest(e) ==
  /\ ex[e].st = "merging"
  /\ ex[e].step = 1
  /\ LET after(m) == Advance([ex[e] EXCEPT !.mode = m]) IN
     Send(e, RequestOf(e, "mergePR", ex[e].plan.pr, ex[e].plan.sha, NoSha),
          after("accepted"), after("refused"), after("unknown"))

\* Mutant: a lost answer counts as a refusal.
RereadMergedUnknownFailed(e) ==
  /\ ex[e].st = "merging"
  /\ ex[e].step = 2
  /\ LET pr == gh.prs[ex[e].plan.pr] IN
     Observe(e,
       CASE ex[e].mode = "accepted" /\ MergedMatchingTarget(pr, ex[e].plan) ->
              Goto([ex[e] EXCEPT !.mode = "verify"], "rereading")
         [] ex[e].mode # "accepted" /\ MergedAsRequested(pr, ex[e].plan) ->
              Goto([ex[e] EXCEPT !.mode = "idempotent"], "rereading")
         [] OTHER -> Finish(ex[e], "failed"))

RereadMerged(e) ==
  /\ ex[e].st = "merging"
  /\ ex[e].step = 2
  /\ LET pr == gh.prs[ex[e].plan.pr] IN
     Observe(e,
       CASE ex[e].mode = "accepted" /\ MergedMatchingTarget(pr, ex[e].plan) ->
              Goto([ex[e] EXCEPT !.mode = "verify"], "rereading")
         [] ex[e].mode # "accepted" /\ MergedAsRequested(pr, ex[e].plan) ->
              Goto([ex[e] EXCEPT !.mode = "idempotent"], "rereading")
         [] ex[e].mode = "unknown" /\ ~MergedAsRequested(pr, ex[e].plan) ->
              Finish(ex[e], "recovery-required")
         [] OTHER -> Finish(ex[e], "failed"))

MergeReadFailure(e) ==
  /\ ex[e].st = "merging"
  /\ ex[e].step \in {0, 2}
  /\ RefusedAnyway(e, Finish(ex[e], IF ex[e].step = 0 THEN "failed" ELSE "recovery-required"))

-----------------------------------------------------------------------------
(* Crashes, late requests and people. *)

\* The runner dies: nothing of the execution survives, its effects do.
Crash(e) ==
  /\ Running(e)
  /\ RefusedAnyway(e, Finish(ex[e], "crashed"))

LateArrival(r) ==
  /\ r \in late
  /\ late' = late \ {r}
  /\ \/ /\ Accepts(gh, r)
        /\ gh' = Apply(gh, r)
        /\ applied' = applied \cup {Hit(r)}
     \/ /\ ~Accepts(gh, r)
        /\ UNCHANGED <<gh, applied>>
  /\ UNCHANGED <<ex, faults, env, truth, known>>

\* Somebody with write access changes the repository.
HumanDoes(kind, repo) ==
  /\ kind \in HumanMay
  /\ env < MaxEnv
  /\ env' = env + 1
  /\ gh' = repo
  /\ UNCHANGED <<ex, late, faults, truth, applied, known>>

HumanPush(conform) ==
  /\ gh.n < MaxCommits
  /\ LET parent == IF gh.branch = NoSha THEN BaseSha ELSE gh.branch IN
     HumanDoes("push", WithHead(WithCommit(gh, Human, parent, FALSE, TRUE, conform), gh.n + 1))

HumanDeleteBranch ==
  /\ gh.branch # NoSha
  /\ HumanDoes("deleteBranch", WithoutBranch(gh))

HumanOpenPR ==
  /\ CanOpenPR(gh)
  /\ HumanDoes("openPR", WithPR(gh, Human, FALSE))

HumanClosePR(p) ==
  /\ gh.prs[p].state = "open"
  /\ HumanDoes("closePR", [gh EXCEPT !.prs[p].state = "closed"])

HumanReopenPR(p) ==
  /\ gh.prs[p].state = "closed"
  /\ gh.branch # NoSha
  /\ gh.branch = gh.prs[p].head
  /\ \A q \in OpenPRs(gh) : gh.prs[q].base # gh.prs[p].base
  /\ HumanDoes("reopenPR", [gh EXCEPT !.prs[p].state = "open"])

HumanToggleDraft(p) ==
  /\ gh.prs[p].state = "open"
  /\ HumanDoes("toggleDraft", [gh EXCEPT !.prs[p].draft = ~gh.prs[p].draft])

HumanMergePR(p) ==
  /\ gh.prs[p].state = "open"
  /\ ~gh.prs[p].draft
  /\ \E asRequested \in {FALSE, MergeMethodReported} :
       HumanDoes("mergePR", [gh EXCEPT !.prs[p].state = "merged",
                                          !.prs[p].method = asRequested])

HumanRetargetPR(p) ==
  /\ gh.prs[p].state = "open"
  /\ gh.prs[p].base = "default"
  /\ HumanDoes("retargetPR", [gh EXCEPT !.prs[p].base = "other"])

HumanCloseIssue ==
  /\ gh.issue = "open"
  /\ HumanDoes("closeIssue", [gh EXCEPT !.issue = "closed"])

GovernanceChange ==
  /\ gh.gov < MaxGov
  /\ HumanDoes("governance", [gh EXCEPT !.gov = gh.gov + 1])

-----------------------------------------------------------------------------
(* The next-state relation. *)

ReadSteps(e) ==
  \/ ReadBranches(e) \/ ReadPullRequests(e) \/ ReadFailure(e)
  \/ IssueValidateInitial(e) \/ IssuePlanning(e) \/ IssueVerifying(e)
  \/ IssueClassifyingFailure(e) \/ IssueRecoveryOutcome(e)
  \/ ReadyPlanning(e) \/ ReadyVerifying(e)
  \/ AbortPlanning(e) \/ AbortVerifying(e) \/ AbortRecoveryPlanning(e)
  \/ MergeAdmission(e) \/ MergeVerifying(e)

EffectSteps(e) ==
  \/ CreateBranch(e) \/ ReadProvenance(e) \/ AdvanceProvenance(e) \/ RereadProvenance(e)
  \/ CreatePullRequest(e) \/ CheckDraft(e) \/ MarkPullRequestReady(e)
  \/ ClosePullRequest(e) \/ CheckGeneration(e) \/ DeleteBranchIfUnchanged(e)
  \/ EffectReadFailure(e)
  \/ AdmitMergeTarget(e) \/ MergePullRequest(e) \/ RereadMerged(e) \/ MergeReadFailure(e)

ExecStep(e) == ReadSteps(e) \/ EffectSteps(e)

HumanStep ==
  \/ \E conform \in BOOLEAN : HumanPush(conform)
  \/ HumanDeleteBranch \/ HumanOpenPR \/ HumanCloseIssue \/ GovernanceChange
  \/ \E p \in PRIds : \/ HumanClosePR(p) \/ HumanReopenPR(p) \/ HumanToggleDraft(p)
                      \/ HumanMergePR(p) \/ HumanRetargetPR(p)

\* calm[e]: e started alone, and since then only e moved and nothing failed.
Calm(e) ==
  CASE ex[e].st = "idle" -> /\ ex'[e].st # "idle"
                            /\ late = {}
                            /\ \A f \in Execs \ {e} : ~Running(f)
    [] ex[e].st = "done" -> calm[e]
    [] OTHER -> calm[e] /\ ex'[e] # ex[e] /\ faults' = faults

Step == \/ \E e \in Execs : Begin(e) \/ ExecStep(e) \/ Crash(e)
        \/ \E r \in late : LateArrival(r)
        \/ HumanStep

Next == Step /\ calm' = [e \in Execs |-> Calm(e)]

Fairness == \A e \in Execs : WF_vars(ExecStep(e) /\ calm' = [f \in Execs |-> Calm(f)])

Spec == Init /\ [][Next]_vars
FairSpec == Spec /\ Fairness

-----------------------------------------------------------------------------
(* Properties. *)

\* Every variable keeps its type; the history of a request names its sender.
TypeOK ==
  /\ gh \in Repo
  /\ ex \in [Execs -> Execution]
  /\ late \subseteq Request
  /\ faults \in 0 .. MaxFaults
  /\ env \in 0 .. MaxEnv
  /\ truth \in [Execs -> SUBSET (ProjectionStatus \X ChangeState)]
  /\ applied \subseteq Applied
  /\ known \in [Execs -> SUBSET PRIds]
  /\ calm \in [Execs -> BOOLEAN]

Ended(e, results) == ex[e].st = "done" /\ ex[e].result \in results
Success == {"verified", "returned-existing"}

\* The evidence of one read is put together from several calls, yet what a
\* finished execution reports was true of the Change at one of those calls: a
\* success, and the confirmed absence behind "failed" and "compensated".  A
\* merged pull request stays merged, so there the merge itself must be real.
ReportWasTrue ==
  \A e \in Execs :
    \/ ~Ended(e, Success \cup {"compensated"}) /\ ~(Op[e] = "issue" /\ Ended(e, {"failed"}))
    \/ Claim(ex[e].ev) \in truth[e]
    \/ /\ State(ex[e].ev) = "MERGED"
       /\ gh.prs[OnlyPR(ex[e].ev)].state = "merged"

\* A repeated issuance never publishes the Change again: an execution opens a
\* pull request only if no canonical one that existed when it started is still
\* canonical, whatever was lost, delayed or done concurrently in between.
NoSecondPublication ==
  \A e \in Execs, p \in PRIds : gh.prs[p].by = e =>
    \A q \in known[e] : gh.prs[q].base = "other"

(* Why NoSecondPublication holds, and why TypeOK does, in named parts. *)

\* An execution that has not read everything yet has no plan.
NoPlanYet ==
  \A e \in Execs :
    ex[e].st \in {"idle", "readingInitial", "readingFresh", "reading"} => ex[e].plan.kind # "create"

\* Pull requests are numbered, and the ones known to an execution exist.
KnownExist ==
  /\ \A p \in PRIds : gh.prs[p].state # "none" => p <= gh.np
  /\ \A e \in Execs : \A q \in known[e] : q <= gh.np /\ gh.prs[q].state # "none"

\* The pull requests an issuance has read tell which of the known ones left
\* the canonical base, and a pull request never comes back to it.
ReadIsCurrent ==
  \A e \in Execs : ex[e].st = "readingFresh" /\ ex[e].step = 2 =>
    \A q \in known[e] : /\ ex[e].ev.prs[q].state # "none"
                        /\ ex[e].ev.prs[q].base = "other" => gh.prs[q].base = "other"

\* An execution plans creation only when every known pull request has left.
CreationIsFresh ==
  \A e \in Execs : ex[e].plan.kind = "create" =>
    \A q \in known[e] : gh.prs[q].base = "other"

\* A pull request of an execution, arrived or still late, comes from such a plan.
PublishedByPlan ==
  /\ \A r \in late : r.kind = "createPR" => ex[r.by].plan.kind = "create"
  /\ \A e \in Execs, p \in PRIds : gh.prs[p].by = e => ex[e].plan.kind = "create"

\* The provenance commit has a parent: the branch head that was read.
ProvenanceHasParent ==
  \A e \in Execs : AtEffect(e, "CREATE_PROVENANCE_COMMIT", 1) => ex[e].made # NoSha

\* An execution that applies a plan is at one of its effects.
EffectInRange ==
  \A e \in Execs : ex[e].st \in ApplyStates \ {"applyingCompensation"} =>
    ex[e].idx <= Len(Effects(ex[e].plan.kind))

\* The inductive invariant behind NoSecondPublication: a create plan is made
\* only from a read that no known canonical pull request can have escaped.
PublicationInv == /\ NoPlanYet
                  /\ KnownExist
                  /\ ReadIsCurrent
                  /\ CreationIsFresh
                  /\ PublishedByPlan
                  /\ ProvenanceHasParent
                  /\ EffectInRange

\* Abort only deletes the generation of the branch it decided about: the head
\* it deletes is the one its first read returned, so a push that lands between
\* the decision and the conditional delete survives.
AbortDeletesWhatItSaw ==
  \A a \in applied : a.req.kind = "deleteRef" /\ Op[a.req.by] = "abort" =>
    a.head = ex[a.req.by].plan.sha

\* Compensation deletes the branch only at the commit that this very issuance
\* put there: whatever is pushed on top of it, or put in its place, survives.
CompensationDeletesItsOwn ==
  \A a \in applied : a.req.kind = "deleteRef" /\ Op[a.req.by] = "issue" =>
    gh.commits[a.head].by = a.req.by

\* An issuance whose pull request failed and whose reread proves that the branch
\* is exactly the one it made, without a listed pull request, goes on to
\* compensate; it does not stop and leave the branch behind.
ProvenBranchIsCompensated ==
  [][\A e \in Execs :
       /\ ex[e].st = "rereadingAfterFailure"
       /\ ex[e].idx = Len(Effects("create"))
       /\ ex'[e].st = "done"
       /\ faults' = faults
       => ~ /\ HasBranch(ex'[e].ev)
            /\ Listed(ex'[e].ev) = {}
            /\ ex'[e].ev.branch = ex'[e].made
            /\ ex'[e].ev.issue = "open"]_vars

\* Branch-only abort cleanup is decided only when no pull request has the
\* canonical branch as its head.
BranchOnlyMeansNoPullRequest ==
  \A e \in Execs : ex[e].st = "applying" /\ BranchOnlyAbort(ex[e].plan) =>
    \A p \in PRIds : ex[e].ev.prs[p].state = "none"

\* A merged Change stays MERGED when its branch is cleaned up after the merge.
MergedSurvivesBranchCleanup ==
  \A p \in PRIds : Listed(Now) = {p} /\ gh.prs[p].state = "merged" => State(Now) = "MERGED"

\* A merge goes into the base branch that was admitted.
MergesIntoAdmittedBase ==
  \A a \in applied : a.req.kind = "mergePR" => a.base = "default"

\* An abort that starts alone and is not disturbed leaves nothing behind, from
\* every state that crashed or failed executions and humans can leave; it only
\* refuses a duplicate, a merged, or a foreign pull request.
UndisturbedAbortCleansUp ==
  \A e \in Execs :
    Op[e] = "abort" /\ calm[e] /\ ex[e].st = "done" =>
      \/ ex[e].result \in Success
      \/ /\ ex[e].result = "precondition-failed"
         /\ \/ Status(ex[e].ev) = "duplicate"
            \/ \E p \in Listed(ex[e].ev) : ex[e].ev.prs[p].state = "merged"
            \/ \E p \in Listed(ex[e].ev) : ex[e].ev.prs[p].by = Human

\* A Change is reported ready only for a head whose diff conforms: the head
\* that was listed and the head whose diff was evaluated are the same.
ReadyHeadConforms ==
  \A e \in Execs : Op[e] = "ready" /\ Ended(e, Success) =>
    \E p \in PRIds, c \in CommitIds : /\ ex[e].ev.prs[p].state = "open"
                                      /\ ex[e].ev.prs[p].head = c
                                      /\ gh.commits[c].conform

\* Only a pull request that Inari opened is merged, at exactly the head that
\* was admitted, although humans push between admission and merge.
MergesAdmittedHead ==
  \A a \in applied : a.req.kind = "mergePR" =>
    /\ gh.prs[a.req.pr].state = "merged"
    /\ gh.prs[a.req.pr].by \in Execs
    /\ gh.prs[a.req.pr].head = ex[a.req.by].plan.sha

\* "failed" and "precondition-failed" of a merge mean that its merge request
\* was not carried out and never will be.
MergeFailureMeansNotMerged ==
  \A e \in Execs : Op[e] = "merge" /\ Ended(e, {"failed", "precondition-failed"}) =>
    \A r \in late \cup {a.req : a \in applied} : r.by # e

(* Why requests hit what was decided about, in named parts.                 *)

Sent == late \cup {a.req : a \in applied}

\* The plan of e is made and stays.
Decided(x) == x.st \notin {"idle", "readingInitial", "readingFresh", "reading"}

\* A merge applies no effects, and only an issuance compensates.
StatesFitOperation ==
  \A e \in Execs :
    /\ ex[e].st \in ApplyStates => Op[e] # "merge"
    /\ ex[e].st = "applyingCompensation" => Op[e] = "issue"
    /\ ex[e].st = "merging" => Op[e] = "merge" /\ ex[e].plan.kind = "merge"

\* A request, arrived or late, still says what its sender's plan says.
SentAsPlanned ==
  \A r \in Sent :
    /\ Decided(ex[r.by])
    /\ r.kind = "deleteRef" /\ Op[r.by] = "abort" => r.from = ex[r.by].plan.sha
    /\ r.kind = "mergePR" =>
         /\ Op[r.by] = "merge" /\ ex[r.by].plan.kind = "merge"
         /\ r.pr = ex[r.by].plan.pr /\ r.from = ex[r.by].plan.sha

\* A conditional request hit what it was conditional on, and a merge is final.
AppliedAsSent ==
  \A a \in applied :
    /\ a.req.kind = "deleteRef" => a.head = a.req.from
    /\ a.req.kind = "mergePR" =>
         gh.prs[a.req.pr].state = "merged" /\ gh.prs[a.req.pr].head = a.req.from

\* Pull requests that were read exist, with the author that was read.
EvidenceExists ==
  \A e \in Execs, p \in PRIds : ex[e].ev.prs[p].state # "none" =>
    gh.prs[p].state # "none" /\ gh.prs[p].by = ex[e].ev.prs[p].by

\* What is planned to be merged was opened by an execution.
MergePlansAreInari ==
  \A e \in Execs : ex[e].plan.kind = "merge" =>
    /\ ex[e].plan.pr \in PRIds
    /\ gh.prs[ex[e].plan.pr].state # "none" /\ gh.prs[ex[e].plan.pr].by \in Execs

\* An execution in state x may have a merge request that was or will be applied.
MayHaveMerged(x) ==
  \/ x.st = "merging" /\ x.step = 2 /\ x.mode \in {"accepted", "unknown"}
  \/ x.st = "rereading"
  \/ x.st = "done" /\ x.result \notin {"failed", "precondition-failed"}

\* Unless pull requests are retargeted, an accepted merge is found again by
\* the reread, so that a failure is only reported without a request under way.
MergesAreAccountedFor ==
  "retargetPR" \notin HumanMay =>
    /\ \A p \in PRIds : gh.prs[p].base = "default"
    /\ \A e \in Execs : Op[e] = "merge" =>
         /\ (\E r \in Sent : r.by = e) => MayHaveMerged(ex[e])
         /\ ex[e].st = "merging" /\ ex[e].step = 2 /\ ex[e].mode = "accepted" =>
              \E a \in applied : a.req.by = e /\ a.req.kind = "mergePR"

\* Only commits that exist conform.
ConformingExist == \A c \in CommitIds : c > gh.n => ~gh.commits[c].conform

\* The inductive invariant behind AbortDeletesWhatItSaw, MergesAdmittedHead,
\* MergeFailureMeansNotMerged and ReadyHeadConforms: what an execution decided
\* stays with it and with its requests, and what it saw stays in the repository.
RequestInv == /\ StatesFitOperation
              /\ SentAsPlanned
              /\ AppliedAsSent
              /\ EvidenceExists
              /\ MergePlansAreInari
              /\ MergesAreAccountedFor
              /\ ConformingExist
              /\ ReadyHeadConforms

\* Every execution that starts comes to a result.
EveryExecutionEnds == \A e \in Execs : Running(e) ~> ex[e].st = "done"

=============================================================================
