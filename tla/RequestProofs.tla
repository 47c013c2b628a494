--------------------------- MODULE RequestProofs ---------------------------
(***************************************************************************)
(* Proofs about the requests of ChangeExecution for every number of         *)
(* executions, commits, pull requests, faults and human steps: an abort     *)
(* deletes, and a merge merges, what was decided about; a merge that is     *)
(* reported as failed was not carried out; a Change that is reported ready  *)
(* has a conforming head.                                                   *)
(***************************************************************************)
EXTENDS ChangeProofs

USE DEF NoSha, BaseSha, NoPR

-----------------------------------------------------------------------------
(* What every change of the repository keeps. *)

\* A pull request keeps its author, a merged one its head; only people change
\* the base.
PRKept(old, new) ==
  /\ old.state # "none" => new.state # "none" /\ new.by = old.by
  /\ old.state = "merged" => new.state = "merged" /\ new.head = old.head
  /\ old.base = "default" => new.base = "default" \/ "retargetPR" \in HumanMay

\* Commits are immutable, and those that do not exist yet do not conform.
CommitsKept(repo, new) ==
  /\ repo.n <= new.n
  /\ \A c \in CommitIds :
       /\ c <= repo.n => new.commits[c] = repo.commits[c]
       /\ c > new.n => ~new.commits[c].conform

Kept(repo, new) == CommitsKept(repo, new) /\ \A p \in PRIds : PRKept(repo.prs[p], new.prs[p])

Conforming(repo) == \A c \in CommitIds : c > repo.n => ~repo.commits[c].conform

\* Nothing happens to the commits.
LEMMA CommitsSame ==
  ASSUME NEW repo \in Repo, Conforming(repo), NEW new,
         new.n = repo.n, new.commits = repo.commits
  PROVE  CommitsKept(repo, new)
BY MaxCommitsAssumption DEF CommitsKept, Conforming, Repo, CommitIds

\* One pull request changes.
LEMMA KeptPR ==
  ASSUME NEW repo \in Repo, Conforming(repo), NEW pr, NEW new,
         pr \in PRIds => PRKept(repo.prs[pr], new)
  PROVE  Kept(repo, [repo EXCEPT !.prs[pr] = new])
<1> DEFINE after == [repo EXCEPT !.prs[pr] = new]
<1>1. /\ after.n = repo.n /\ after.commits = repo.commits
      /\ \A p \in PRIds : after.prs[p] = IF p = pr THEN new ELSE repo.prs[p]
  BY DEF Repo
<1> HIDE DEF after
<1>2. CommitsKept(repo, after)
  BY <1>1, CommitsSame
<1>3. \A p \in PRIds : PRKept(repo.prs[p], after.prs[p])
  BY <1>1 DEF PRKept
<1>4. QED
  BY <1>2, <1>3 DEF Kept, after

\* The branch moves or disappears.
LEMMA KeptBranch ==
  ASSUME NEW repo \in Repo, Conforming(repo), NEW sha
  PROVE  Kept(repo, WithHead(repo, sha)) /\ Kept(repo, WithoutBranch(repo))
<1>1. \A p \in PRIds : repo.prs[p] \in PullRequest
  BY DEF Repo
<1>2. Kept(repo, WithHead(repo, sha))
  <2> DEFINE after == WithHead(repo, sha)
  <2>1. /\ after.n = repo.n /\ after.commits = repo.commits
        /\ after.prs = [p \in PRIds |->
             IF repo.prs[p].state = "open" THEN [repo.prs[p] EXCEPT !.head = sha] ELSE repo.prs[p]]
    BY DEF WithHead, Repo
  <2>2. ASSUME NEW p \in PRIds PROVE PRKept(repo.prs[p], after.prs[p])
    <3>1. repo.prs[p] \in PullRequest
      BY <1>1
    <3>2. /\ [repo.prs[p] EXCEPT !.head = sha].state = repo.prs[p].state
          /\ [repo.prs[p] EXCEPT !.head = sha].base = repo.prs[p].base
          /\ [repo.prs[p] EXCEPT !.head = sha].by = repo.prs[p].by
      BY <3>1 DEF PullRequest
    <3>3. QED
      BY <2>1, <3>2 DEF PRKept
  <2> HIDE DEF after
  <2>3. Kept(repo, after)
    BY <2>1, <2>2, CommitsSame DEF Kept
  <2>4. QED
    BY <2>3 DEF after
<1>3. Kept(repo, WithoutBranch(repo))
  <2> DEFINE after == WithoutBranch(repo)
  <2>1. /\ after.n = repo.n /\ after.commits = repo.commits
        /\ after.prs = [p \in PRIds |->
             IF repo.prs[p].state = "open" THEN [repo.prs[p] EXCEPT !.state = "closed"]
             ELSE repo.prs[p]]
    BY DEF WithoutBranch, Repo
  <2>2. ASSUME NEW p \in PRIds PROVE PRKept(repo.prs[p], after.prs[p])
    <3>1. repo.prs[p] \in PullRequest
      BY <1>1
    <3>2. /\ [repo.prs[p] EXCEPT !.state = "closed"].state = "closed"
          /\ [repo.prs[p] EXCEPT !.state = "closed"].base = repo.prs[p].base
          /\ [repo.prs[p] EXCEPT !.state = "closed"].by = repo.prs[p].by
      BY <3>1 DEF PullRequest
    <3>3. QED
      BY <2>1, <3>2 DEF PRKept
  <2> HIDE DEF after
  <2>3. Kept(repo, after)
    BY <2>1, <2>2, CommitsSame DEF Kept
  <2>4. QED
    BY <2>3 DEF after
<1>4. QED
  BY <1>2, <1>3

\* A new pull request takes an unused number.
LEMMA KeptWithPR ==
  ASSUME NEW repo \in Repo, Conforming(repo), Numbered(repo), NEW by, NEW draft
  PROVE  Kept(repo, WithPR(repo, by, draft))
<1> DEFINE new   == [state |-> "open", draft |-> draft, by |-> by, base |-> "default",
                     head |-> repo.branch, method |-> FALSE]
           after == WithPR(repo, by, draft)
<1>1. /\ after.n = repo.n /\ after.commits = repo.commits
      /\ \A p \in PRIds : after.prs[p] = IF p = repo.np + 1 THEN new ELSE repo.prs[p]
  BY DEF WithPR, Repo
<1>2. new.state = "open" /\ new.base = "default"
  OBVIOUS
<1>3. repo.np \in Nat /\ \A p \in PRIds : p \in Nat
  BY MaxPRsAssumption DEF Repo, PRNumbers, PRIds
<1>4. \A p \in PRIds : p = repo.np + 1 => repo.prs[p].state = "none"
  BY <1>3 DEF Numbered
<1> HIDE DEF new, after
<1>5. \A p \in PRIds : PRKept(repo.prs[p], after.prs[p])
  BY <1>1, <1>2, <1>4 DEF PRKept
<1>6. Kept(repo, after)
  BY <1>1, <1>5, CommitsSame DEF Kept
<1>7. QED
  BY <1>6 DEF after

\* Nothing happens.
LEMMA KeptSame ==
  ASSUME NEW repo \in Repo, Conforming(repo)
  PROVE  Kept(repo, repo)
BY CommitsSame DEF Kept, PRKept

\* One change after another.
LEMMA KeptTwice ==
  ASSUME NEW repo \in Repo, NEW mid \in Repo, NEW new \in Repo,
         Kept(repo, mid), Kept(mid, new)
  PROVE  Kept(repo, new)
<1>1. CommitsKept(repo, new)
  BY MaxCommitsAssumption DEF Kept, CommitsKept, Repo, CommitIds
<1>2. \A p \in PRIds : PRKept(repo.prs[p], new.prs[p])
  BY DEF Kept, PRKept
<1>3. QED
  BY <1>1, <1>2 DEF Kept

\* A new commit object.
LEMMA KeptCommit ==
  ASSUME NEW repo \in Repo, Conforming(repo), repo.n < MaxCommits,
         NEW by, NEW parent, NEW record, NEW work, NEW conform
  PROVE  /\ Kept(repo, WithCommit(repo, by, parent, record, work, conform))
         /\ Conforming(WithCommit(repo, by, parent, record, work, conform))
         /\ Numbered(repo) => Numbered(WithCommit(repo, by, parent, record, work, conform))
<1> DEFINE new == WithCommit(repo, by, parent, record, work, conform)
<1>1. /\ new.n = repo.n + 1 /\ new.prs = repo.prs /\ new.np = repo.np
      /\ \A c \in CommitIds : c # repo.n + 1 => new.commits[c] = repo.commits[c]
  BY DEF WithCommit, Repo
<1>2. repo.n \in Nat /\ \A c \in CommitIds : c \in Nat
  BY MaxCommitsAssumption DEF Repo, CommitIds
<1> HIDE DEF new
<1>3. CommitsKept(repo, new) /\ Conforming(new)
  BY <1>1, <1>2 DEF CommitsKept, Conforming
<1>4. QED
  BY <1>1, <1>3 DEF Kept, PRKept, Numbered, new

\* An accepted request.
LEMMA KeptApply ==
  ASSUME NEW repo \in Repo, Conforming(repo), Numbered(repo), NEW r \in Request, Accepts(repo, r)
  PROVE  Kept(repo, Apply(repo, r))
<1>0. \A p \in PRIds : repo.prs[p] \in PullRequest
  BY DEF Repo
<1>1. CASE r.kind = "createRef"
  BY <1>1, KeptBranch DEF Apply
<1>2. CASE r.kind = "advanceRef"
  BY <1>2, KeptBranch DEF Apply
<1>3. CASE r.kind = "createPR"
  BY <1>3, KeptWithPR DEF Apply
<1>4. CASE r.kind = "markReady"
  <2>1. r.pr \in PRIds => PRKept(repo.prs[r.pr], [repo.prs[r.pr] EXCEPT !.draft = FALSE])
    BY <1>0 DEF PRKept, PullRequest
  <2>2. QED
    BY <1>4, <2>1, KeptPR DEF Apply
<1>5. CASE r.kind = "closePR"
  <2>1. r.pr \in PRIds /\ repo.prs[r.pr].state = "open" =>
          PRKept(repo.prs[r.pr], [repo.prs[r.pr] EXCEPT !.state = "closed"])
    BY <1>0 DEF PRKept, PullRequest
  <2>2. repo.prs[r.pr].state = "open" =>
          Kept(repo, [repo EXCEPT !.prs[r.pr] = [repo.prs[r.pr] EXCEPT !.state = "closed"]])
    BY <2>1, KeptPR
  <2>3. QED
    BY <1>5, <2>2, KeptSame DEF Apply
<1>6. CASE r.kind = "deleteRef"
  BY <1>6, KeptBranch DEF Apply
<1>7. CASE r.kind = "mergePR"
  <2> DEFINE new == [repo.prs[r.pr] EXCEPT !.state = "merged", !.method = MergeMethodReported]
  <2>1. repo.prs[r.pr].state = "open"
    BY <1>7 DEF Accepts
  <2>2. r.pr \in PRIds => PRKept(repo.prs[r.pr], new)
    BY <1>0, <2>1 DEF PRKept, PullRequest
  <2> HIDE DEF new
  <2>3. Kept(repo, [repo EXCEPT !.prs[r.pr] = new])
    BY <2>2, KeptPR
  <2>4. QED
    BY <1>7, <2>3 DEF Apply, new
<1>8. QED
  BY <1>1, <1>2, <1>3, <1>4, <1>5, <1>6, <1>7 DEF Request, RequestKind

-----------------------------------------------------------------------------
(* What a step may do to the repository. *)

\* A human step.
LEMMA KeptHuman ==
  ASSUME Typed, Numbered(gh), Conforming(gh), HumanStep
  PROVE  Kept(gh, gh')
<1>1. gh \in Repo /\ \A p \in PRIds : gh.prs[p] \in PullRequest
  BY DEF Typed, Repo
<1>2. ASSUME NEW conform \in BOOLEAN, HumanPush(conform) PROVE Kept(gh, gh')
  <2> DEFINE parent  == IF gh.branch = NoSha THEN BaseSha ELSE gh.branch
             created == WithCommit(gh, Human, parent, FALSE, TRUE, conform)
  <2>1. gh.n < MaxCommits /\ gh' = WithHead(created, gh.n + 1)
    BY <1>2 DEF HumanPush, HumanDoes
  <2>2. created \in Repo
    BY <1>1, <2>1, WithCommitType DEF Actors
  <2>3. Kept(gh, created) /\ Conforming(created)
    BY <1>1, <2>1, KeptCommit
  <2>4. gh.n + 1 \in Shas
    BY <1>1, <2>1, MaxCommitsAssumption DEF Repo, CommitIds, Shas
  <2> HIDE DEF created
  <2>5. gh' \in Repo /\ Kept(created, gh')
    BY <2>1, <2>2, <2>3, <2>4, KeptBranch, WithHeadType
  <2>6. QED
    BY <1>1, <2>2, <2>3, <2>5, KeptTwice
<1>3. CASE HumanDeleteBranch
  BY <1>1, <1>3, KeptBranch DEF HumanDeleteBranch, HumanDoes
<1>4. CASE HumanOpenPR
  BY <1>1, <1>4, KeptWithPR DEF HumanOpenPR, HumanDoes
<1>5. CASE HumanCloseIssue \/ GovernanceChange
  <2>1. /\ gh'.n = gh.n /\ gh'.commits = gh.commits /\ gh'.prs = gh.prs
    BY <1>1, <1>5 DEF HumanCloseIssue, GovernanceChange, HumanDoes, Repo
  <2>2. QED
    BY <1>1, <2>1, CommitsSame DEF Kept, PRKept
<1>6. ASSUME NEW p \in PRIds,
             HumanClosePR(p) \/ HumanReopenPR(p) \/ HumanToggleDraft(p) \/ HumanMergePR(p)
             \/ HumanRetargetPR(p)
      PROVE  Kept(gh, gh')
  <2>1. gh.prs[p] \in PullRequest
    BY <1>1
  <2>2. CASE HumanClosePR(p)
    <3> DEFINE new == [gh.prs[p] EXCEPT !.state = "closed"]
    <3>1. PRKept(gh.prs[p], new)
      BY <2>1, <2>2 DEF HumanClosePR, PRKept, PullRequest
    <3> HIDE DEF new
    <3>2. Kept(gh, [gh EXCEPT !.prs[p] = new])
      BY <1>1, <3>1, KeptPR
    <3>3. QED
      BY <2>2, <3>2 DEF HumanClosePR, HumanDoes, new
  <2>3. CASE HumanReopenPR(p)
    <3> DEFINE new == [gh.prs[p] EXCEPT !.state = "open"]
    <3>1. PRKept(gh.prs[p], new)
      BY <2>1, <2>3 DEF HumanReopenPR, PRKept, PullRequest
    <3> HIDE DEF new
    <3>2. Kept(gh, [gh EXCEPT !.prs[p] = new])
      BY <1>1, <3>1, KeptPR
    <3>3. QED
      BY <2>3, <3>2 DEF HumanReopenPR, HumanDoes, new
  <2>4. CASE HumanToggleDraft(p)
    <3> DEFINE new == [gh.prs[p] EXCEPT !.draft = ~gh.prs[p].draft]
    <3>1. PRKept(gh.prs[p], new)
      BY <2>1, <2>4 DEF HumanToggleDraft, PRKept, PullRequest
    <3> HIDE DEF new
    <3>2. Kept(gh, [gh EXCEPT !.prs[p] = new])
      BY <1>1, <3>1, KeptPR
    <3>3. QED
      BY <2>4, <3>2 DEF HumanToggleDraft, HumanDoes, new
  <2>5. CASE HumanMergePR(p)
    <3>1. PICK m \in {FALSE, MergeMethodReported} :
            gh' = [gh EXCEPT !.prs[p].state = "merged", !.prs[p].method = m]
      BY <2>5 DEF HumanMergePR, HumanDoes
    <3> DEFINE new == [gh.prs[p] EXCEPT !.state = "merged", !.method = m]
    <3>2. PRKept(gh.prs[p], new)
      BY <2>1, <2>5 DEF HumanMergePR, PRKept, PullRequest
    <3> HIDE DEF new
    <3>3. Kept(gh, [gh EXCEPT !.prs[p] = new])
      BY <1>1, <3>2, KeptPR
    <3>4. QED
      BY <3>1, <3>3 DEF new
  <2>6. CASE HumanRetargetPR(p)
    <3> DEFINE new == [gh.prs[p] EXCEPT !.base = "other"]
    <3>1. PRKept(gh.prs[p], new)
      BY <2>1, <2>6 DEF HumanRetargetPR, HumanDoes, PRKept, PullRequest
    <3> HIDE DEF new
    <3>2. Kept(gh, [gh EXCEPT !.prs[p] = new])
      BY <1>1, <3>1, KeptPR
    <3>3. QED
      BY <2>6, <3>2 DEF HumanRetargetPR, HumanDoes, new
  <2>7. QED
    BY <1>6, <2>2, <2>3, <2>4, <2>5, <2>6
<1>7. QED
  BY <1>2, <1>3, <1>4, <1>5, <1>6 DEF HumanStep

\* A request with each of its fates.
LEMMA KeptSend ==
  ASSUME Typed, Numbered(gh), Conforming(gh), NEW e, NEW r \in Request,
         NEW ok, NEW refused, NEW unknown, Send(e, r, ok, refused, unknown)
  PROVE  Kept(gh, gh')
<1>1. gh \in Repo
  BY DEF Typed
<1>2. (Accepts(gh, r) /\ gh' = Apply(gh, r)) \/ gh' = gh
  BY DEF Send, Acknowledged, Refused, RefusedAnyway, AnswerLost, TimedOut, Observe
<1>3. QED
  BY <1>1, <1>2, KeptApply, KeptSame

-----------------------------------------------------------------------------
(* What one step does to one execution, from local state x to local state y. *)

\* Each operation keeps to its states, a decided plan stays, and a merge that
\* may be carried out is not forgotten.
Control(e, x, y) ==
  /\ y.st \in ApplyStates => Op[e] # "merge"
  /\ y.st = "applyingCompensation" => Op[e] = "issue"
  /\ y.st = "merging" => Op[e] = "merge" /\ y.plan.kind = "merge"
  /\ Decided(x) => Decided(y) /\ y.plan = x.plan
  /\ Op[e] = "merge" /\ MayHaveMerged(x) => "retargetPR" \in HumanMay \/ MayHaveMerged(y)

\* Evidence is read from the repository.
Sees(x, y) == \A p \in PRIds : y.ev.prs[p].state # "none" =>
                y.ev.prs[p] = x.ev.prs[p] \/ y.ev.prs[p] = gh.prs[p]

\* A merge is planned for a pull request that was read as one of Inari.
Plans(x, y) == y.plan.kind = "merge" =>
  \/ y.plan = x.plan
  \/ /\ y.plan.pr \in PRIds
     /\ y.ev.prs[y.plan.pr].state # "none"
     /\ y.ev.prs[y.plan.pr].by # Human

HeadConforms(y, repo) ==
  \E p \in PRIds, c \in CommitIds :
    y.ev.prs[p].state = "open" /\ y.ev.prs[p].head = c /\ repo.commits[c].conform

\* Readiness is reported for a conforming head.
Reports(e, x, y) ==
  Op[e] = "ready" /\ y.st = "done" /\ y.result \in Success => y = x \/ HeadConforms(y, gh)

\* An accepted merge is in the history.
Answered(e, x, y) ==
  y.st = "merging" /\ y.step = 2 /\ y.mode = "accepted" =>
    y = x \/ \E a \in applied' : a.req.by = e /\ a.req.kind = "mergePR"

Moves(e, x, y) ==
  Control(e, x, y) /\ Sees(x, y) /\ Plans(x, y) /\ Reports(e, x, y) /\ Answered(e, x, y)

\* A step that neither reads nor plans, nor reports readiness or a merge answer.
Quiet(e, x, y) ==
  /\ Control(e, x, y)
  /\ y.plan = x.plan /\ y.ev = x.ev
  /\ Op[e] = "ready" /\ y.st = "done" => y.result \notin Success
  /\ y.st # "merging" \/ y.step # 2

\* A quiet step is such a step.
LEMMA QuietMoves ==
  ASSUME NEW e, NEW x, NEW y, Quiet(e, x, y)
  PROVE  Moves(e, x, y)
BY DEF Quiet, Moves, Sees, Plans, Reports, Answered

\* An execution that does not move.
LEMMA SameMoves ==
  ASSUME RequestInv, NEW e \in Execs
  PROVE  Moves(e, ex[e], ex[e])
BY DEF RequestInv, StatesFitOperation, Moves, Control, Sees, Plans, Reports, Answered

\* One execution moves, the others do not.
LEMMA OneExecutionMoves ==
  ASSUME Typed, RequestInv, NEW e \in Execs, NEW y, Moves(e, ex[e], y),
         ex' = [ex EXCEPT ![e] = y]
  PROVE  \A f \in Execs : Moves(f, ex[f], ex'[f])
<1>1. ASSUME NEW f \in Execs PROVE Moves(f, ex[f], ex'[f])
  <2>1. CASE f = e
    <3>1. ex'[f] = y
      BY <2>1 DEF Typed
    <3>2. QED
      BY <2>1, <3>1
  <2>2. CASE f # e
    <3>1. ex'[f] = ex[f]
      BY <2>2 DEF Typed
    <3>2. QED
      BY <3>1, SameMoves
  <2>3. QED
    BY <2>1, <2>2
<1>2. QED
  BY <1>1

\* An execution ends.
LEMMA FinishQuiet ==
  ASSUME NEW e, NEW x \in Execution, NEW r, Op[e] = "ready" => r \notin Success,
         Op[e] = "merge" /\ MayHaveMerged(x) =>
           "retargetPR" \in HumanMay \/ r \notin {"failed", "precondition-failed"}
  PROVE  Quiet(e, x, Finish(x, r))
<1> DEFINE y == Finish(x, r)
<1>1. y.st = "done" /\ y.result = r /\ y.plan = x.plan /\ y.ev = x.ev
  BY DEF Finish, Execution
<1> HIDE DEF y
<1>2. Quiet(e, x, y)
  BY <1>1 DEF Quiet, Control, Decided, MayHaveMerged, ApplyStates
<1>3. QED
  BY <1>2 DEF y

\* An execution rereads: a merge only in one state.
LEMMA RereadQuiet ==
  ASSUME NEW e, NEW x \in Execution, NEW m,
         NEW st \in {"rereading", "rereadingAfterFailure", "rereadingAfterCompensation"},
         st = "rereading" \/ x.st \in ApplyStates
  PROVE  Quiet(e, x, Goto([x EXCEPT !.mode = m], st))
<1> DEFINE y == Goto([x EXCEPT !.mode = m], st)
<1>1. y.st = st /\ y.plan = x.plan /\ y.ev = x.ev
  BY DEF Goto, Execution
<1> HIDE DEF y
<1>2. Quiet(e, x, y)
  BY <1>1 DEF Quiet, Control, Decided, MayHaveMerged, ApplyStates
<1>3. QED
  BY <1>2 DEF y

\* An execution stays in a state in which it applies effects.
LEMMA EffectStays ==
  ASSUME NEW e, NEW x \in Execution, x.st \in ApplyStates, Control(e, x, x), NEW y,
         y.st = x.st, y.plan = x.plan, y.ev = x.ev
  PROVE  Quiet(e, x, y)
BY DEF Quiet, Control, Decided, MayHaveMerged, ApplyStates

\* An effect ends, advances, or learns what it made.
LEMMA EffectQuiet ==
  ASSUME NEW e, NEW x \in Execution, x.st \in ApplyStates, Control(e, x, x)
  PROVE  /\ Quiet(e, x, EffectDone(x)) /\ Quiet(e, x, EffectFailed(x))
         /\ Quiet(e, x, Advance(x))
         /\ \A c : Quiet(e, x, Advance([x EXCEPT !.made = c]))
<1>1. Quiet(e, x, EffectFailed(x))
  BY RereadQuiet DEF EffectFailed
<1>2. Quiet(e, x, EffectDone(x))
  <2>1. CASE x.st # "applyingCompensation" /\ x.idx < Len(Effects(x.plan.kind))
    <3> DEFINE y == [x EXCEPT !.idx = x.idx + 1, !.step = 0]
    <3>1. y.st = x.st /\ y.plan = x.plan /\ y.ev = x.ev
      BY DEF Execution
    <3> HIDE DEF y
    <3>2. Quiet(e, x, y)
      BY <3>1, EffectStays
    <3>3. QED
      BY <2>1, <3>2 DEF EffectDone, y
  <2>2. CASE ~(x.st # "applyingCompensation" /\ x.idx < Len(Effects(x.plan.kind)))
    BY <2>2, RereadQuiet DEF EffectDone
  <2>3. QED
    BY <2>1, <2>2
<1>3. ASSUME NEW c PROVE Quiet(e, x, Advance([x EXCEPT !.made = c]))
  <2> DEFINE y == Advance([x EXCEPT !.made = c])
  <2>1. y.st = x.st /\ y.plan = x.plan /\ y.ev = x.ev
    BY DEF Advance, Execution
  <2> HIDE DEF y
  <2>2. Quiet(e, x, y)
    BY <2>1, EffectStays
  <2>3. QED
    BY <2>2 DEF y
<1>4. Quiet(e, x, Advance(x))
  <2>1. Advance(x).st = x.st /\ Advance(x).plan = x.plan /\ Advance(x).ev = x.ev
    BY DEF Advance, Execution
  <2>2. QED
    BY <2>1, EffectStays
<1>5. QED
  BY <1>1, <1>2, <1>3, <1>4

\* An effect that found its record goes on with the commit it found.
LEMMA MadeQuiet ==
  ASSUME NEW e, NEW x \in Execution, x.st \in ApplyStates, Control(e, x, x), NEW c \in Shas
  PROVE  Quiet(e, x, EffectDone([x EXCEPT !.made = c]))
<1> DEFINE z == [x EXCEPT !.made = c]
<1>1. z \in Execution
  BY ExecutionType
<1>2. z.st = x.st /\ z.plan = x.plan /\ z.ev = x.ev
  BY DEF Execution
<1> HIDE DEF z
<1>3. Control(e, z, z)
  BY <1>2 DEF Control, MayHaveMerged, ApplyStates
<1>4. Quiet(e, z, EffectDone(z))
  BY <1>1, <1>2, <1>3, EffectQuiet
<1>5. Quiet(e, x, EffectDone(z))
  BY <1>2, <1>4 DEF Quiet, Control, Decided, MayHaveMerged, ApplyStates
<1>6. QED
  BY <1>5 DEF z

-----------------------------------------------------------------------------
(* Reads. *)

\* A complete read replaces the evidence by what the repository shows.
LEMMA ReadSees ==
  ASSUME Typed, NEW e \in Execs, NEW y \in Execution
  PROVE  LET z == [y EXCEPT !.ev = LastRead(e)] IN
         /\ z.st = y.st /\ z.step = y.step /\ z.mode = y.mode /\ z.result = y.result
         /\ z.plan = y.plan /\ z.ev = LastRead(e)
         /\ Sees(ex[e], z)
<1> DEFINE z == [y EXCEPT !.ev = LastRead(e)]
<1>1. /\ z.st = y.st /\ z.step = y.step /\ z.mode = y.mode /\ z.result = y.result
      /\ z.plan = y.plan /\ z.ev = LastRead(e)
  BY DEF Execution
<1> HIDE DEF z
<1>2. ex[e].ev \in Evidence
  BY DEF Typed, Execution
<1>3. LastRead(e).prs = ex[e].ev.prs \/ LastRead(e).prs = gh.prs
  BY <1>2 DEF LastRead, Evidence
<1>4. Sees(ex[e], z)
  BY <1>1, <1>3 DEF Sees
<1>5. QED
  BY <1>1, <1>4 DEF z

\* A read that neither plans a merge nor reports readiness.
LEMMA ReadDoneMoves ==
  ASSUME Typed, RequestInv, NEW e \in Execs, NEW y \in Execution, Control(e, ex[e], y),
         y.plan = ex[e].plan \/ y.plan.kind # "merge",
         Op[e] = "ready" /\ y.st = "done" => y.result \notin Success,
         y.st # "merging", ReadDone(e, y)
  PROVE  \A f \in Execs : Moves(f, ex[f], ex'[f])
<1> DEFINE z == [y EXCEPT !.ev = LastRead(e)]
<1>1. /\ z.st = y.st /\ z.step = y.step /\ z.mode = y.mode /\ z.result = y.result
      /\ z.plan = y.plan /\ z.ev = LastRead(e)
      /\ Sees(ex[e], z)
  BY ReadSees
<1>2. ex' = [ex EXCEPT ![e] = z]
  BY DEF ReadDone
<1> HIDE DEF z
<1>3. Control(e, ex[e], z)
  BY <1>1 DEF Control, Decided, MayHaveMerged
<1>4. Plans(ex[e], z) /\ Reports(e, ex[e], z) /\ Answered(e, ex[e], z)
  BY <1>1 DEF Plans, Reports, Answered
<1>5. QED
  BY <1>1, <1>2, <1>3, <1>4, OneExecutionMoves DEF Moves

\* A read after which an execution ends without reporting readiness.
LEMMA ReadDoneEnds ==
  ASSUME Typed, RequestInv, NEW e \in Execs, NEW r \in Outcome,
         Op[e] = "ready" => r \notin Success,
         Op[e] = "merge" /\ MayHaveMerged(ex[e]) =>
           "retargetPR" \in HumanMay \/ r \notin {"failed", "precondition-failed"},
         ReadDone(e, Finish(ex[e], r))
  PROVE  \A f \in Execs : Moves(f, ex[f], ex'[f])
<1>1. ex[e] \in Execution
  BY DEF Typed
<1>2. Finish(ex[e], r) \in Execution /\ Quiet(e, ex[e], Finish(ex[e], r))
  BY <1>1, ExecutionType, FinishQuiet
<1>3. Finish(ex[e], r).st = "done"
  BY <1>1 DEF Finish, Execution
<1>4. QED
  BY <1>2, <1>3, ReadDoneMoves DEF Quiet

\* Only the merge plans a merge, of a pull request it read as one of Inari.
LEMMA MergePlans ==
  ASSUME NEW ev, NEW commits
  PROVE  /\ IssuancePlan(ev).kind # "merge"
         /\ ReadyPlan(ev, commits).kind # "merge"
         /\ AbortPlan(ev).kind # "merge"
         /\ MergePlan(ev).kind # "none" =>
              /\ MergePlan(ev).kind = "merge"
              /\ MergePlan(ev).pr \in PRIds
              /\ ev.prs[MergePlan(ev).pr].state # "none"
              /\ ev.prs[MergePlan(ev).pr].by # Human
<1>1. NoPlan.kind = "none" /\ \A k, st, pr, sha : /\ PlanOf(k, st, pr, sha).kind = k
                                                  /\ PlanOf(k, st, pr, sha).pr = pr
  BY DEF NoPlan, PlanOf
<1>2. IssuancePlan(ev).kind # "merge"
  BY <1>1 DEF IssuancePlan
<1>3. ReadyPlan(ev, commits).kind # "merge"
  BY <1>1 DEF ReadyPlan
<1>4. AbortPlan(ev).kind # "merge"
  BY <1>1 DEF AbortPlan
<1>5. ASSUME MergePlan(ev).kind # "none"
      PROVE  /\ MergePlan(ev).kind = "merge"
             /\ MergePlan(ev).pr \in PRIds
             /\ ev.prs[MergePlan(ev).pr].state # "none"
             /\ ev.prs[MergePlan(ev).pr].by # Human
  <2>1. MergeAdmissible(ev) /\ MergePlan(ev).kind = "merge" /\ MergePlan(ev).pr = ProjectedPR(ev)
    BY <1>1, <1>5 DEF MergePlan
  <2>2. SinglePR(ev) /\ ev.prs[OnlyPR(ev)].by # Human
    BY <2>1 DEF MergeAdmissible, IssuedByInari
  <2>3. OnlyPR(ev) \in PRIds /\ OnlyPR(ev) \in Listed(ev)
    BY <2>2, OnlyPRType
  <2>4. ProjectedPR(ev) = OnlyPR(ev)
    BY <2>2 DEF ProjectedPR
  <2>5. QED
    BY <2>1, <2>2, <2>3, <2>4 DEF Listed
<1>6. QED
  BY <1>2, <1>3, <1>4, <1>5

\* A plan that is no merge is followed by its effects, or by a reread.
LEMMA PlannedMoves ==
  ASSUME Typed, RequestInv, NEW e \in Execs, NEW plan \in Plan, plan.kind # "merge",
         Op[e] # "merge", ex[e].st \in {"readingFresh", "reading"},
         ReadDone(e, Planned(e, plan))
  PROVE  \A f \in Execs : Moves(f, ex[f], ex'[f])
<1> DEFINE x == [ex[e] EXCEPT !.plan = plan, !.idx = 1, !.mode = "verify"]
           y == Planned(e, plan)
<1>1. x \in Execution /\ x.plan = plan
  BY ExecutionType DEF Typed, Execution
<1>2. y \in Execution /\ y.plan = plan
  BY PlannedType, PlannedFine
<1>3. y.st \in {"done", "rereading", "applyingEffect", "markingReady", "applying"}
      /\ (y.st = "done" => y.result = "precondition-failed")
  <2>1. y = Finish(x, "precondition-failed") \/ y = Goto(x, "rereading") \/ y = Goto(x, ApplyState(Op[e]))
    BY DEF Planned
  <2>2. ApplyState(Op[e]) \in {"applyingEffect", "markingReady", "applying"}
    BY DEF ApplyState
  <2> HIDE DEF x, y
  <2>3. Finish(x, "precondition-failed").st = "done"
        /\ Finish(x, "precondition-failed").result = "precondition-failed"
    BY <1>1 DEF Finish, Execution
  <2>4. \A st : Goto(x, st).st = st
    BY <1>1 DEF Goto, Execution
  <2>5. QED
    BY <2>1, <2>2, <2>3, <2>4
<1> HIDE DEF x, y
<1>4. Control(e, ex[e], y)
  <2>1. ~Decided(ex[e])
    BY DEF Decided
  <2>2. y.st \notin {"applyingCompensation", "merging"}
    BY <1>3
  <2>3. QED
    BY <2>1, <2>2 DEF Control
<1>5. ReadDone(e, y)
  BY DEF y
<1>6. QED
  BY <1>2, <1>3, <1>4, <1>5, ReadDoneMoves DEF Success

\* A Change that is valid for readiness has an open pull request whose head conforms.
LEMMA ReadyValidConforms ==
  ASSUME NEW ev \in Evidence, NEW commits, ReadyValid(ev, commits)
  PROVE  \E p \in PRIds, c \in CommitIds :
           ev.prs[p].state = "open" /\ ev.prs[p].head = c /\ commits[c].conform
<1> DEFINE p == OnlyPR(ev)
<1>1. SinglePR(ev) /\ Status(ev) = "healthy"
  BY DEF ReadyValid, MergeAdmissible, IssuedByInari
<1>2. p \in PRIds /\ p \in Listed(ev)
  BY <1>1, OnlyPRType
<1>3. ev.prs[p] \in PullRequest /\ ev.prs[p].state # "none"
  BY <1>2 DEF Evidence, Listed
<1>4. State(ev) \notin {"MERGED", "ABORTED"}
  BY DEF ReadyValid, Admits, LifecycleEdges
<1>5. ev.prs[p].state = "open"
  BY <1>1, <1>3, <1>4 DEF State, ChangeStateFromPullRequest, PullRequest, PRState
<1>6. ev.head # NoSha /\ ev.head = ev.prs[p].head /\ commits[ev.head].conform
  BY DEF ReadyValid, Conformant
<1>7. ev.head \in CommitIds
  BY <1>6, MaxCommitsAssumption DEF Evidence, Shas, CommitIds
<1>8. p \in PRIds
  BY <1>2
<1> HIDE DEF p
<1>9. QED
  BY <1>5, <1>6, <1>7, <1>8, Zenon

\* One call of a read.
LEMMA CallMoves ==
  ASSUME Typed, RequestInv, NEW e \in Execs, ReadBranches(e) \/ ReadPullRequests(e)
  PROVE  \A f \in Execs : Moves(f, ex[f], ex'[f])
<1> DEFINE none == [NoEvidence EXCEPT !.issue = gh.issue, !.branch = gh.branch]
           y    == Advance([ex[e] EXCEPT !.ev = none])
           z    == Advance([ex[e] EXCEPT !.ev.prs = gh.prs])
<1>1. ex[e] \in Execution /\ ex[e].ev \in Evidence /\ ex[e].st \in ReadStates
  BY DEF Typed, Execution, ReadBranches, ReadPullRequests
<1>2. y.st = ex[e].st /\ y.plan = ex[e].plan /\ y.ev = none
  BY <1>1 DEF Advance, Execution
<1>3. \A p \in PRIds : none.prs[p].state = "none"
  BY DEF NoEvidence, NoPullRequest
<1>4. z.st = ex[e].st /\ z.plan = ex[e].plan /\ z.ev.prs = gh.prs
  BY <1>1 DEF Advance, Execution, Evidence
<1>5. ex' = [ex EXCEPT ![e] = y] \/ ex' = [ex EXCEPT ![e] = z]
  BY DEF ReadBranches, ReadPullRequests
<1> HIDE DEF none, y, z
<1>6. Sees(ex[e], y) /\ Sees(ex[e], z)
  BY <1>2, <1>3, <1>4 DEF Sees
<1>7. ASSUME NEW x, x.st = ex[e].st, x.plan = ex[e].plan
      PROVE  /\ Control(e, ex[e], x) /\ Plans(ex[e], x)
             /\ Reports(e, ex[e], x) /\ Answered(e, ex[e], x)
  BY <1>1, <1>7 DEF Control, Decided, MayHaveMerged, Plans, Reports, Answered,
     ReadStates, ApplyStates
<1>8. Moves(e, ex[e], y) /\ Moves(e, ex[e], z)
  BY <1>2, <1>4, <1>6, <1>7 DEF Moves
<1>9. QED
  BY <1>5, <1>8, OneExecutionMoves

\* Readiness is verified.
LEMMA ReadyVerifyingMoves ==
  ASSUME Typed, RequestInv, NEW e \in Execs, ReadyVerifying(e)
  PROVE  \A f \in Execs : Moves(f, ex[f], ex'[f])
<1> DEFINE ok == VerifyReady(ex[e].plan, LastRead(e), gh.commits)
<1>1. ex[e] \in Execution /\ Op[e] = "ready"
  BY DEF Typed, ReadyVerifying
<1>2. CASE ex[e].mode = "failed"
  BY <1>1, <1>2, ReadDoneEnds DEF ReadyVerifying, Success, Outcome
<1>3. CASE ex[e].mode # "failed" /\ ~ok
  BY <1>1, <1>3, ReadDoneEnds DEF ReadyVerifying, Verified, Success, Outcome
<1>4. CASE ex[e].mode # "failed" /\ ok
  <2>1. PICK r \in Success : ReadDone(e, Finish(ex[e], r))
    BY <1>4 DEF ReadyVerifying, Verified, Success
  <2> DEFINE y == Finish(ex[e], r)
             z == [y EXCEPT !.ev = LastRead(e)]
  <2>2. y \in Execution /\ y.st = "done" /\ y.plan = ex[e].plan
    <3>1. r \in Outcome
      BY <2>1 DEF Success, Outcome
    <3>2. y \in Execution
      BY <1>1, <3>1, ExecutionType
    <3>3. QED
      BY <1>1, <3>2 DEF Finish, Execution
  <2>3. ex' = [ex EXCEPT ![e] = z]
    BY <2>1 DEF ReadDone
  <2> HIDE DEF y
  <2>4. z.st = "done" /\ z.plan = ex[e].plan /\ z.ev = LastRead(e) /\ Sees(ex[e], z)
    BY <2>2, ReadSees
  <2> HIDE DEF z
  <2>5. HeadConforms(z, gh)
    BY <1>4, <2>4, LastReadType, ReadyValidConforms DEF VerifyReady, HeadConforms
  <2>6. Moves(e, ex[e], z)
    BY <1>1, <2>4, <2>5 DEF Moves, Control, Decided, Plans, Reports, Answered, ApplyStates
  <2>7. QED
    BY <2>3, <2>6, OneExecutionMoves
<1>5. QED
  BY <1>2, <1>3, <1>4

\* A merge is admitted, or ends.
LEMMA MergeAdmissionMoves ==
  ASSUME Typed, RequestInv, NEW e \in Execs, MergeAdmission(e)
  PROVE  \A f \in Execs : Moves(f, ex[f], ex'[f])
<1> DEFINE plan == MergePlan(LastRead(e))
<1>1. ex[e] \in Execution /\ ex[e].st = "reading" /\ Op[e] = "merge"
  BY DEF Typed, MergeAdmission, AtLastRead
<1>2. CASE plan.kind = "none"
  <2>1. ~MayHaveMerged(ex[e])
    BY <1>1 DEF MayHaveMerged
  <2>2. ReadDone(e, Finish(ex[e], "precondition-failed"))
    BY <1>2 DEF MergeAdmission
  <2>3. QED
    BY <1>1, <2>1, <2>2, ReadDoneEnds DEF Outcome
<1>3. CASE plan.kind # "none"
  <2> DEFINE x == [ex[e] EXCEPT !.plan = plan]
             y == Goto(x, "merging")
             z == [y EXCEPT !.ev = LastRead(e)]
  <2>1. plan \in Plan
    BY LastReadType, PlanType
  <2>2. /\ plan.kind = "merge" /\ plan.pr \in PRIds
        /\ LastRead(e).prs[plan.pr].state # "none"
        /\ LastRead(e).prs[plan.pr].by # Human
    BY <1>3, MergePlans
  <2>3. ex' = [ex EXCEPT ![e] = z]
    BY <1>3 DEF MergeAdmission, ReadDone
  <2> HIDE DEF plan
  <2>4. x \in Execution /\ x.plan = plan
    BY <1>1, <2>1, ExecutionType DEF Execution
  <2> HIDE DEF x
  <2>5. y \in Execution /\ y.st = "merging" /\ y.plan = plan /\ y.step = 0
    BY <2>4, ExecutionType DEF Goto, Execution, ExecState
  <2> HIDE DEF y
  <2>6. /\ z.st = "merging" /\ z.step = 0 /\ z.plan = plan /\ z.ev = LastRead(e)
        /\ Sees(ex[e], z)
    BY <2>5, ReadSees
  <2> HIDE DEF z
  <2>7. Control(e, ex[e], z)
    BY <1>1, <2>2, <2>6 DEF Control, Decided, MayHaveMerged, ApplyStates
  <2>8. Plans(ex[e], z) /\ Reports(e, ex[e], z) /\ Answered(e, ex[e], z)
    BY <2>2, <2>6 DEF Plans, Reports, Answered
  <2>9. QED
    BY <2>3, <2>6, <2>7, <2>8, OneExecutionMoves DEF Moves
<1>4. QED
  BY <1>2, <1>3

\* Every step of a read, and the control after it.
LEMMA ReadStepsMove ==
  ASSUME Typed, RequestInv, NEW e \in Execs, ReadSteps(e)
  PROVE  \A f \in Execs : Moves(f, ex[f], ex'[f])
<1>1. ex[e] \in Execution /\ LastRead(e) \in Evidence
  BY LastReadType DEF Typed
<1>2. ASSUME NEW r \in Outcome, Op[e] \notin {"ready", "merge"}, ReadDone(e, Finish(ex[e], r))
      PROVE  \A f \in Execs : Moves(f, ex[f], ex'[f])
  BY <1>2, ReadDoneEnds
<1>3. ASSUME NEW ok, Op[e] \notin {"ready", "merge"}, ReadDone(e, Verified(e, ok))
      PROVE  \A f \in Execs : Moves(f, ex[f], ex'[f])
  BY <1>2, <1>3 DEF Verified, Outcome
<1>4. CASE ReadFailure(e)
  <2> DEFINE r == CASE ex[e].st \in {"rereadingAfterFailure", "rereadingAfterCompensation"} ->
                         "recovery-required"
                    [] Op[e] = "abort" /\ ex[e].st = "rereading" /\ ex[e].mode = "failed" ->
                         "recovery-failed"
                    [] Op[e] = "merge" /\ ex[e].st = "rereading" -> "recovery-required"
                    [] OTHER -> "read-failed"
  <2>1. r \in {"recovery-required", "recovery-failed", "read-failed"}
    OBVIOUS
  <2>2. ex' = [ex EXCEPT ![e] = Finish(ex[e], r)]
    BY <1>4 DEF ReadFailure
  <2> HIDE DEF r
  <2>3. Quiet(e, ex[e], Finish(ex[e], r))
    BY <1>1, <2>1, FinishQuiet DEF Success
  <2>4. QED
    BY <2>2, <2>3, QuietMoves, OneExecutionMoves
<1>5. CASE IssueValidateInitial(e)
  <2> DEFINE x == [ex[e] EXCEPT !.govSeen = gh.gov]
             y == Goto(x, "readingFresh")
  <2>1. Op[e] = "issue" /\ ex[e].st = "readingInitial"
    BY <1>5 DEF IssueValidateInitial, AtLastRead
  <2>2. x \in Execution /\ x.plan = ex[e].plan
    BY <1>1, ExecutionType DEF Typed, Repo, SeenGenerations, Execution
  <2>3. ReadDone(e, y) \/ ReadDone(e, Finish(ex[e], "precondition-failed"))
    BY <1>5 DEF IssueValidateInitial
  <2> HIDE DEF x
  <2>4. y \in Execution /\ y.plan = ex[e].plan /\ y.st = "readingFresh"
    BY <2>2, ExecutionType DEF Goto, Execution, ExecState, ReadStates
  <2> HIDE DEF y
  <2>5. Control(e, ex[e], y)
    BY <2>1, <2>4 DEF Control, Decided, ApplyStates
  <2>6. QED
    BY <1>2, <2>1, <2>3, <2>4, <2>5, ReadDoneMoves DEF Outcome
<1>6. CASE IssuePlanning(e)
  <2>1. Op[e] = "issue" /\ ex[e].st = "readingFresh"
    BY <1>6 DEF IssuePlanning, AtLastRead
  <2>2. IssuancePlan(LastRead(e)) \in Plan /\ IssuancePlan(LastRead(e)).kind # "merge"
    BY <1>1, PlanType, MergePlans
  <2>3. QED
    BY <1>2, <1>6, <2>1, <2>2, PlannedMoves DEF IssuePlanning, Outcome
<1>7. CASE IssueVerifying(e)
  BY <1>3, <1>7 DEF IssueVerifying
<1>8. CASE IssueClassifyingFailure(e)
  <2> DEFINE y == Goto(ex[e], "applyingCompensation")
  <2>1. Op[e] = "issue" /\ ex[e].st = "rereadingAfterFailure"
    BY <1>8 DEF IssueClassifyingFailure, AtLastRead
  <2>2. y \in Execution /\ y.plan = ex[e].plan /\ y.st = "applyingCompensation"
    BY <1>1, ExecutionType DEF Goto, Execution, ExecState, ApplyStates
  <2>3. ReadDone(e, y) \/ \E r \in Outcome : ReadDone(e, Finish(ex[e], r))
    BY <1>8 DEF IssueClassifyingFailure, Outcome
  <2> HIDE DEF y
  <2>4. Control(e, ex[e], y)
    BY <2>1, <2>2 DEF Control, Decided
  <2>5. QED
    BY <1>2, <2>1, <2>2, <2>3, <2>4, ReadDoneMoves
<1>9. CASE IssueRecoveryOutcome(e)
  BY <1>2, <1>9 DEF IssueRecoveryOutcome, Outcome
<1>10. CASE ReadyPlanning(e)
  <2>1. Op[e] = "ready" /\ ex[e].st = "reading"
    BY <1>10 DEF ReadyPlanning, AtLastRead
  <2>2. ReadyPlan(LastRead(e), gh.commits) \in Plan /\ ReadyPlan(LastRead(e), gh.commits).kind # "merge"
    BY <1>1, PlanType, MergePlans
  <2>3. QED
    BY <1>10, <2>1, <2>2, PlannedMoves DEF ReadyPlanning
<1>11. CASE AbortPlanning(e)
  <2>1. Op[e] = "abort" /\ ex[e].st = "reading"
    BY <1>11 DEF AbortPlanning, AtLastRead
  <2>2. AbortPlan(LastRead(e)) \in Plan /\ AbortPlan(LastRead(e)).kind # "merge"
    BY <1>1, PlanType, MergePlans
  <2>3. QED
    BY <1>2, <1>11, <2>1, <2>2, PlannedMoves DEF AbortPlanning, Outcome
<1>12. CASE AbortVerifying(e)
  BY <1>3, <1>12 DEF AbortVerifying
<1>13. CASE AbortRecoveryPlanning(e)
  BY <1>2, <1>13 DEF AbortRecoveryPlanning, Outcome
<1>14. CASE MergeVerifying(e)
  BY <1>14, ReadDoneEnds DEF MergeVerifying, Outcome
<1>15. QED
  BY <1>4, <1>5, <1>6, <1>7, <1>8, <1>9, <1>10, <1>11, <1>12, <1>13, <1>14, CallMoves,
     ReadyVerifyingMoves, MergeAdmissionMoves DEF ReadSteps

-----------------------------------------------------------------------------
(* Requests. *)

\* A request says what the plan of its sender, in local state y, says.
Honest(r, y) ==
  /\ Decided(y)
  /\ r.kind = "deleteRef" /\ Op[r.by] = "abort" => r.from = y.plan.sha
  /\ r.kind = "mergePR" =>
       /\ Op[r.by] = "merge" /\ y.plan.kind = "merge"
       /\ r.pr = y.plan.pr /\ r.from = y.plan.sha
  /\ Op[r.by] = "merge" => MayHaveMerged(y)

\* An applied request hit what it was conditional on.
HitOK(a, repo) ==
  /\ a.req.kind = "deleteRef" => a.head = a.req.from
  /\ a.req.kind = "mergePR" =>
       repo.prs[a.req.pr].state = "merged" /\ repo.prs[a.req.pr].head = a.req.from

\* What a step adds to the requests, and what it does to the repository.
Requests ==
  /\ Kept(gh, gh')
  /\ applied \subseteq applied'
  /\ \A r \in Sent' : r \in Sent \/ Honest(r, ex'[r.by])
  /\ \A a \in applied' : a \in applied \/ HitOK(a, gh')

\* A step of the system.
RequestStep == Requests /\ \A f \in Execs : Moves(f, ex[f], ex'[f])

\* The invariants that a step relies on.
Ready == Typed /\ RequestInv /\ Numbered(gh)

\* The repository in such a state.
LEMMA ReadyRepo ==
  ASSUME Ready
  PROVE  gh \in Repo /\ Conforming(gh) /\ Numbered(gh) /\ Kept(gh, gh)
BY KeptSame DEF Ready, Typed, RequestInv, ConformingExist, Conforming

\* No request is sent.
LEMMA NoRequest ==
  ASSUME Ready, Kept(gh, gh'), late' \subseteq late, applied' = applied
  PROVE  Requests
BY DEF Requests, Sent

\* An accepted request hits what it is conditional on.
LEMMA AcceptedHits ==
  ASSUME Typed, NEW r \in Request, Accepts(gh, r), gh' = Apply(gh, r),
         r.kind = "mergePR" => r.pr \in PRIds
  PROVE  HitOK(Hit(r), gh')
<1>1. Hit(r).req = r /\ Hit(r).head = gh.branch
  BY DEF Hit
<1>2. r.kind = "deleteRef" => gh.branch = r.from
  BY DEF Accepts
<1>3. ASSUME r.kind = "mergePR"
      PROVE  gh'.prs[r.pr].state = "merged" /\ gh'.prs[r.pr].head = r.from
  <2> DEFINE new == [gh.prs[r.pr] EXCEPT !.state = "merged", !.method = MergeMethodReported]
  <2>1. gh.prs[r.pr] \in PullRequest /\ gh.prs[r.pr].head = r.from
    BY <1>3 DEF Accepts, Typed, Repo
  <2>2. new.state = "merged" /\ new.head = r.from
    BY <2>1 DEF PullRequest
  <2>3. gh' = [gh EXCEPT !.prs[r.pr] = new]
    BY <1>3 DEF Apply
  <2> HIDE DEF new
  <2>4. gh'.prs[r.pr] = new
    BY <1>3, <2>3 DEF Typed, Repo
  <2>5. QED
    BY <2>2, <2>4
<1>4. QED
  BY <1>1, <1>2, <1>3 DEF HitOK

\* One request is sent or applied.
LEMMA OneRequest ==
  ASSUME Ready, NEW r, Kept(gh, gh'), Honest(r, ex'[r.by]), late' \subseteq late \cup {r},
         \/ applied' = applied
         \/ applied' = applied \cup {Hit(r)} /\ HitOK(Hit(r), gh')
  PROVE  Requests
<1>1. Hit(r).req = r
  BY DEF Hit
<1>2. \A s \in Sent' : s \in Sent \/ s = r
  BY <1>1 DEF Sent
<1>3. QED
  BY <1>2 DEF Requests

\* A request of e with each of its fates.
LEMMA SendStep ==
  ASSUME Ready, NEW e \in Execs, NEW r \in Request, r.by = e,
         r.kind = "mergePR" => r.pr \in PRIds,
         NEW ok, NEW refused, NEW unknown,
         Honest(r, ok), Honest(r, unknown),
         Moves(e, ex[e], refused), Moves(e, ex[e], unknown),
         Hit(r) \in applied' => Moves(e, ex[e], ok),
         Send(e, r, ok, refused, unknown)
  PROVE  RequestStep
<1>1. Typed /\ RequestInv /\ gh \in Repo /\ Kept(gh, gh) /\ Kept(gh, gh')
  BY ReadyRepo, KeptSend DEF Ready
<1>2. ASSUME NEW y, ex' = [ex EXCEPT ![e] = y] PROVE ex'[r.by] = y
  BY <1>1, <1>2 DEF Typed
<1>3. CASE Acknowledged(e, r, ok)
  <2>1. HitOK(Hit(r), gh') /\ Hit(r) \in applied'
    BY <1>1, <1>3, AcceptedHits DEF Acknowledged
  <2>2. Requests
    BY <1>1, <1>2, <1>3, <2>1, OneRequest DEF Acknowledged
  <2>3. QED
    BY <1>1, <1>3, <2>1, <2>2, OneExecutionMoves DEF Acknowledged, RequestStep
<1>4. CASE Refused(e, r, refused) \/ RefusedAnyway(e, refused)
  <2>1. ex' = [ex EXCEPT ![e] = refused] /\ late' = late /\ applied' = applied
    BY <1>4 DEF Refused, Observe, RefusedAnyway
  <2>2. QED
    BY <1>1, <2>1, NoRequest, OneExecutionMoves DEF RequestStep
<1>5. CASE AnswerLost(e, r, unknown)
  <2>1. HitOK(Hit(r), gh')
    BY <1>1, <1>5, AcceptedHits DEF AnswerLost
  <2>2. Requests
    BY <1>1, <1>2, <1>5, <2>1, OneRequest DEF AnswerLost
  <2>3. QED
    BY <1>1, <1>5, <2>2, OneExecutionMoves DEF AnswerLost, RequestStep
<1>6. CASE TimedOut(e, r, unknown)
  <2>1. late' \subseteq late \cup {r} /\ applied' = applied /\ ex' = [ex EXCEPT ![e] = unknown]
    BY <1>6 DEF TimedOut
  <2>2. Requests
    BY <1>1, <1>2, <2>1, OneRequest
  <2>3. QED
    BY <1>1, <2>1, <2>2, OneExecutionMoves DEF RequestStep
<1>7. QED
  BY <1>3, <1>4, <1>5, <1>6 DEF Send

\* A quiet step that sends nothing.
LEMMA QuietStep ==
  ASSUME Ready, NEW e \in Execs, NEW y, Quiet(e, ex[e], y), Observe(e, y) \/ RefusedAnyway(e, y)
  PROVE  RequestStep
<1>1. /\ ex' = [ex EXCEPT ![e] = y] /\ gh' = gh
      /\ late' = late /\ applied' = applied
  BY DEF Observe, RefusedAnyway
<1>2. Requests
  BY <1>1, ReadyRepo, NoRequest
<1>3. QED
  BY <1>1, <1>2, QuietMoves, OneExecutionMoves DEF Ready, RequestStep

-----------------------------------------------------------------------------
(* Effects. *)

\* The provenance commit is created, and the branch moved to it.
LEMMA AdvanceProvenanceStep ==
  ASSUME Ready, PublicationInv, NEW e \in Execs, AdvanceProvenance(e)
  PROVE  RequestStep
<1> DEFINE new     == gh.n + 1
           created == WithCommit(gh, e, ex[e].made, TRUE, FALSE, gh.commits[ex[e].made].conform)
           r       == RequestOf(e, "advanceRef", NoPR, ex[e].made, new)
           next    == Advance([ex[e] EXCEPT !.made = new])
<1>1. /\ Typed /\ RequestInv /\ gh \in Repo /\ Conforming(gh)
      /\ ex[e] \in Execution /\ ex[e].made \in Shas
  BY ReadyRepo DEF Ready, Typed, Execution
<1>2. ex[e].st \in ApplyStates /\ gh.n < MaxCommits
  BY DEF AdvanceProvenance, AtEffect
<1>3. Control(e, ex[e], ex[e])
  BY <1>1, SameMoves DEF Moves
<1>4. Quiet(e, ex[e], next) /\ Quiet(e, ex[e], EffectFailed(ex[e]))
  BY <1>1, <1>2, <1>3, EffectQuiet
<1>5. created \in Repo /\ new \in Shas
  <2>1. ex[e].made \in CommitIds
    BY <1>1 DEF AdvanceProvenance, PublicationInv, ProvenanceHasParent, Shas, CommitIds
  <2>2. gh.commits[ex[e].made].conform \in BOOLEAN /\ e \in Actors
    BY <1>1, <2>1 DEF Repo, Commit, Actors
  <2>3. created \in Repo
    BY <1>1, <1>2, <2>2, WithCommitType
  <2>4. new \in Shas
    BY <1>1, <1>2, MaxCommitsAssumption DEF Repo, CommitIds, Shas
  <2>5. QED
    BY <2>3, <2>4
<1>6. Kept(gh, created) /\ Conforming(created)
  BY <1>1, <1>2, KeptCommit
<1>7. /\ r.kind = "advanceRef" /\ r.by = e
      /\ Apply(created, r) = WithHead(created, new)
  BY DEF RequestOf, Apply
<1>8. /\ gh' \in {created, Apply(created, r)}
      /\ ex' = [ex EXCEPT ![e] = next] \/ ex' = [ex EXCEPT ![e] = EffectFailed(ex[e])]
      /\ late' \subseteq late \cup {r}
      /\ applied' = applied \/ applied' = applied \cup {Hit(r)}
  BY DEF AdvanceProvenance
<1> HIDE DEF new, created, r, next
<1>9. Kept(gh, gh')
  <2>1. WithHead(created, new) \in Repo /\ Kept(created, WithHead(created, new))
    BY <1>5, <1>6, WithHeadType, KeptBranch
  <2>2. Kept(gh, WithHead(created, new))
    BY <1>1, <1>5, <1>6, <2>1, KeptTwice
  <2>3. QED
    BY <1>6, <1>7, <1>8, <2>2
<1>10. \A f \in Execs : Moves(f, ex[f], ex'[f])
  BY <1>1, <1>4, <1>8, QuietMoves, OneExecutionMoves
<1>11. Decided(ex'[e]) /\ Op[e] # "merge"
  <2>1. Decided(ex[e]) /\ Op[e] # "merge"
    BY <1>2, <1>3 DEF Decided, Control, ApplyStates
  <2>2. QED
    BY <1>10, <2>1 DEF Moves, Control
<1>12. Honest(r, ex'[r.by]) /\ HitOK(Hit(r), gh')
  <2>1. Hit(r).req = r
    BY DEF Hit
  <2>2. QED
    BY <1>7, <1>11, <2>1 DEF Honest, HitOK
<1>13. Requests
  BY <1>8, <1>9, <1>12, OneRequest
<1>14. QED
  BY <1>10, <1>13 DEF RequestStep

\* The steps of the effects.
LEMMA EffectsStep ==
  ASSUME Ready, PublicationInv, NEW e \in Execs,
         \/ CreateBranch(e) \/ ReadProvenance(e) \/ AdvanceProvenance(e) \/ RereadProvenance(e)
         \/ CreatePullRequest(e) \/ CheckDraft(e) \/ MarkPullRequestReady(e)
         \/ ClosePullRequest(e) \/ CheckGeneration(e) \/ DeleteBranchIfUnchanged(e)
         \/ EffectReadFailure(e)
  PROVE  RequestStep
<1>1. /\ Typed /\ RequestInv /\ ex[e] \in Execution /\ ex[e].st \in ApplyStates
      /\ gh.branch \in Shas /\ ex[e].plan \in Plan /\ ex[e].made \in Shas
  BY DEF Ready, Typed, Repo, Execution, CreateBranch, ReadProvenance, AdvanceProvenance, RereadProvenance,
     CreatePullRequest, CheckDraft, MarkPullRequestReady, ClosePullRequest, CheckGeneration,
     DeleteBranchIfUnchanged, EffectReadFailure, AtEffect
<1>2. Control(e, ex[e], ex[e])
  BY <1>1, SameMoves DEF Moves
<1>3. /\ Quiet(e, ex[e], EffectDone(ex[e])) /\ Quiet(e, ex[e], EffectFailed(ex[e]))
      /\ Quiet(e, ex[e], Advance(ex[e]))
      /\ \A c : Quiet(e, ex[e], Advance([ex[e] EXCEPT !.made = c]))
  BY <1>1, <1>2, EffectQuiet
<1>4. Decided(ex[e]) /\ Op[e] # "merge"
  BY <1>1, <1>2 DEF Decided, Control, ApplyStates
<1>5. ASSUME NEW r \in Request, r.by = e, r.kind # "mergePR",
             r.kind = "deleteRef" /\ Op[e] = "abort" => r.from = ex[e].plan.sha,
             SendEffect(e, r)
      PROVE  RequestStep
  <2>1. \A y : Quiet(e, ex[e], y) => Honest(r, y)
    BY <1>4, <1>5 DEF Quiet, Control, Honest
  <2>2. \A y : Quiet(e, ex[e], y) => Moves(e, ex[e], y)
    BY QuietMoves
  <2>3. QED
    BY <1>3, <1>5, <2>1, <2>2, SendStep DEF SendEffect
<1>6. NoSha \in Shas /\ BaseSha \in Shas /\ NoPR \in PRNumbers
      /\ ex[e].plan.pr \in PRNumbers /\ ex[e].plan.sha \in Shas
  BY <1>1, MaxCommitsAssumption, MaxPRsAssumption DEF Shas, PRNumbers, Plan
<1>7. \A kind \in RequestKind, pr \in PRNumbers, from \in Shas, to \in Shas :
         LET r == RequestOf(e, kind, pr, from, to) IN
         r \in Request /\ r.kind = kind /\ r.by = e /\ r.pr = pr /\ r.from = from
  BY DEF RequestOf, Request
<1>8. CASE CreateBranch(e)
  BY <1>5, <1>6, <1>7, <1>8 DEF CreateBranch, RequestKind
<1>9. CASE ReadProvenance(e)
  <2>1. Quiet(e, ex[e], EffectDone([ex[e] EXCEPT !.made = gh.branch]))
    BY <1>1, <1>2, MadeQuiet
  <2>2. QED
    BY <1>3, <1>9, <2>1, QuietStep DEF ReadProvenance
<1>10. CASE RereadProvenance(e)
  BY <1>3, <1>10, QuietStep DEF RereadProvenance
<1>11. CASE CreatePullRequest(e)
  BY <1>5, <1>6, <1>7, <1>11 DEF CreatePullRequest, RequestKind
<1>12. CASE CheckDraft(e)
  BY <1>3, <1>12, QuietStep DEF CheckDraft
<1>13. CASE MarkPullRequestReady(e)
  BY <1>5, <1>6, <1>7, <1>13 DEF MarkPullRequestReady, RequestKind
<1>14. CASE ClosePullRequest(e)
  BY <1>5, <1>6, <1>7, <1>14 DEF ClosePullRequest, RequestKind
<1>15. CASE CheckGeneration(e)
  BY <1>3, <1>15, QuietStep DEF CheckGeneration
<1>16. CASE DeleteBranchIfUnchanged(e)
  <2>1. ExpectedSha(ex[e]) \in Shas /\ (Op[e] = "abort" => ExpectedSha(ex[e]) = ex[e].plan.sha)
    BY <1>1, <1>2, <1>6 DEF ExpectedSha, Control
  <2>2. QED
    BY <1>5, <1>6, <1>7, <1>16, <2>1 DEF DeleteBranchIfUnchanged, RequestKind
<1>17. CASE EffectReadFailure(e)
  BY <1>3, <1>17, QuietStep DEF EffectReadFailure
<1>18. QED
  BY <1>8, <1>9, <1>10, <1>11, <1>12, <1>13, <1>14, <1>15, <1>16, <1>17, AdvanceProvenanceStep

-----------------------------------------------------------------------------
(* The merge. *)

\* An execution goes on merging after a call.
LEMMA MergingQuiet ==
  ASSUME NEW e, NEW x \in Execution, x.st = "merging", Control(e, x, x), NEW y,
         y.st = "merging", y.plan = x.plan, y.ev = x.ev, x.step # 2
  PROVE  Control(e, x, y) /\ Sees(x, y) /\ Plans(x, y) /\ Reports(e, x, y)
BY DEF Control, Decided, MayHaveMerged, Sees, Plans, Reports, ApplyStates

\* The target of a merge is checked.
LEMMA AdmitMergeTargetStep ==
  ASSUME Ready, NEW e \in Execs, AdmitMergeTarget(e)
  PROVE  RequestStep
<1>1. /\ Typed /\ RequestInv /\ ex[e] \in Execution
      /\ ex[e].st = "merging" /\ ex[e].step = 0 /\ Control(e, ex[e], ex[e])
  BY SameMoves DEF Ready, Typed, AdmitMergeTarget, Moves
<1>2. Op[e] = "merge" /\ ~MayHaveMerged(ex[e])
  BY <1>1 DEF Control, MayHaveMerged
<1>3. Quiet(e, ex[e], Finish(ex[e], "precondition-failed"))
  BY <1>1, <1>2, FinishQuiet
<1>4. Quiet(e, ex[e], Goto([ex[e] EXCEPT !.mode = "idempotent"], "rereading"))
  BY <1>1, RereadQuiet
<1>5. Quiet(e, ex[e], Advance(ex[e]))
  <2>1. /\ Advance(ex[e]).st = "merging" /\ Advance(ex[e]).plan = ex[e].plan
        /\ Advance(ex[e]).ev = ex[e].ev /\ Advance(ex[e]).step = 1
    BY <1>1 DEF Advance, Execution
  <2>2. QED
    BY <1>1, <2>1, MergingQuiet DEF Quiet
<1>6. QED
  BY <1>3, <1>4, <1>5, QuietStep DEF AdmitMergeTarget

\* The merge request is sent.
LEMMA MergePullRequestStep ==
  ASSUME Ready, NEW e \in Execs, MergePullRequest(e)
  PROVE  RequestStep
<1> DEFINE y(m) == Advance([ex[e] EXCEPT !.mode = m])
           r    == RequestOf(e, "mergePR", ex[e].plan.pr, ex[e].plan.sha, NoSha)
<1>1. /\ Typed /\ RequestInv /\ ex[e] \in Execution /\ ex[e].plan \in Plan
      /\ ex[e].st = "merging" /\ ex[e].step = 1 /\ Control(e, ex[e], ex[e])
  BY SameMoves DEF Ready, Typed, Execution, MergePullRequest, Moves
<1>2. Op[e] = "merge" /\ ex[e].plan.kind = "merge" /\ ex[e].plan.pr \in PRIds
  BY <1>1 DEF Control, RequestInv, MergePlansAreInari
<1>3. ASSUME NEW m
      PROVE  /\ y(m).st = "merging" /\ y(m).step = 2 /\ y(m).mode = m
             /\ y(m).plan = ex[e].plan /\ y(m).ev = ex[e].ev
  BY <1>1 DEF Advance, Execution
<1>4. r \in Request
  BY <1>1, MaxCommitsAssumption DEF RequestOf, Request, RequestKind, Plan, Shas
<1>5. /\ r.kind = "mergePR" /\ r.by = e /\ r.pr = ex[e].plan.pr /\ r.from = ex[e].plan.sha
      /\ Hit(r).req = r
  BY DEF RequestOf, Hit
<1>6. Send(e, r, y("accepted"), y("refused"), y("unknown"))
  BY DEF MergePullRequest
<1> HIDE DEF y, r
<1>7. ASSUME NEW m PROVE /\ Control(e, ex[e], y(m)) /\ Sees(ex[e], y(m))
                         /\ Plans(ex[e], y(m)) /\ Reports(e, ex[e], y(m))
  BY <1>1, <1>3, MergingQuiet
<1>8. Honest(r, y("accepted")) /\ Honest(r, y("unknown"))
  BY <1>2, <1>3, <1>5 DEF Honest, Decided, MayHaveMerged
<1>9. Answered(e, ex[e], y("refused")) /\ Answered(e, ex[e], y("unknown"))
  BY <1>3 DEF Answered
<1>10. Hit(r) \in applied' => Answered(e, ex[e], y("accepted"))
  BY <1>5 DEF Answered
<1>11. QED
  BY <1>2, <1>4, <1>5, <1>6, <1>7, <1>8, <1>9, <1>10, SendStep DEF Moves

\* The merge is read again: an accepted one is found, unless it was retargeted.
LEMMA RereadMergedStep ==
  ASSUME Ready, NEW e \in Execs, RereadMerged(e)
  PROVE  RequestStep
<1> DEFINE pr == gh.prs[ex[e].plan.pr]
<1>1. /\ Typed /\ RequestInv /\ ex[e] \in Execution
      /\ ex[e].st = "merging" /\ ex[e].step = 2 /\ Control(e, ex[e], ex[e])
  BY SameMoves DEF Ready, Typed, RereadMerged, Moves
<1>2. Op[e] = "merge" /\ ex[e].plan.kind = "merge" /\ ex[e].plan.pr \in PRIds
  BY <1>1 DEF Control, RequestInv, MergePlansAreInari
<1>3. \A m : Quiet(e, ex[e], Goto([ex[e] EXCEPT !.mode = m], "rereading"))
  BY <1>1, RereadQuiet
<1>4. Quiet(e, ex[e], Finish(ex[e], "recovery-required"))
  BY <1>1, FinishQuiet DEF Success
<1>5. ASSUME ex[e].mode = "accepted", "retargetPR" \notin HumanMay
      PROVE  MergedMatchingTarget(pr, ex[e].plan)
  <2>1. PICK a \in applied : a.req.by = e /\ a.req.kind = "mergePR"
    BY <1>1, <1>2, <1>5 DEF RequestInv, MergesAreAccountedFor
  <2>2. a.req \in Sent
    BY DEF Sent
  <2>3. a.req.pr = ex[e].plan.pr /\ a.req.from = ex[e].plan.sha
    BY <1>1, <2>1, <2>2 DEF RequestInv, SentAsPlanned
  <2>4. pr.state = "merged" /\ pr.head = ex[e].plan.sha
    BY <1>1, <2>1, <2>3 DEF RequestInv, AppliedAsSent
  <2>5. pr.base = "default"
    BY <1>1, <1>2, <1>5 DEF RequestInv, MergesAreAccountedFor
  <2>6. QED
    BY <2>4, <2>5 DEF MergedMatchingTarget
<1>6. \/ \E m : Observe(e, Goto([ex[e] EXCEPT !.mode = m], "rereading"))
      \/ Observe(e, Finish(ex[e], "recovery-required"))
      \/ /\ Observe(e, Finish(ex[e], "failed"))
         /\ ex[e].mode = "accepted" => ~MergedMatchingTarget(pr, ex[e].plan)
         /\ ex[e].mode # "unknown"
  BY DEF RereadMerged, MergedAsRequested
<1>7. ASSUME ex[e].mode = "accepted" => ~MergedMatchingTarget(pr, ex[e].plan), ex[e].mode # "unknown"
      PROVE  Quiet(e, ex[e], Finish(ex[e], "failed"))
  <2>1. MayHaveMerged(ex[e]) => "retargetPR" \in HumanMay
    BY <1>1, <1>5, <1>7 DEF MayHaveMerged
  <2>2. QED
    BY <1>1, <2>1, FinishQuiet DEF Success
<1>8. QED
  BY <1>3, <1>4, <1>6, <1>7, QuietStep

\* A read of the merge fails: before the request nothing happened yet.
LEMMA MergeReadFailureStep ==
  ASSUME Ready, NEW e \in Execs, MergeReadFailure(e)
  PROVE  RequestStep
<1> DEFINE r == IF ex[e].step = 0 THEN "failed" ELSE "recovery-required"
<1>1. ex[e] \in Execution /\ ex[e].st = "merging"
  BY DEF Ready, Typed, MergeReadFailure
<1>2. MayHaveMerged(ex[e]) => r = "recovery-required"
  BY <1>1 DEF MayHaveMerged
<1>3. RefusedAnyway(e, Finish(ex[e], r))
  BY DEF MergeReadFailure
<1>4. r \in {"failed", "recovery-required"}
  OBVIOUS
<1> HIDE DEF r
<1>5. Quiet(e, ex[e], Finish(ex[e], r))
  BY <1>1, <1>2, <1>4, FinishQuiet DEF Success
<1>6. QED
  BY <1>3, <1>5, QuietStep

-----------------------------------------------------------------------------
(* Every step is a step of the system in the sense above. *)

\* The start of an execution.
LEMMA BeginStep ==
  ASSUME Ready, NEW e \in Execs, Begin(e)
  PROVE  RequestStep
<1> DEFINE y == Goto(ex[e], IF Op[e] = "issue" THEN "readingInitial" ELSE "reading")
<1>1. ex[e] \in Execution /\ ex[e].st = "idle"
  BY DEF Ready, Typed, Begin
<1>2. y.st \in {"readingInitial", "reading"} /\ y.plan = ex[e].plan /\ y.ev = ex[e].ev
  BY <1>1 DEF Goto, Execution
<1>3. ex' = [ex EXCEPT ![e] = y] /\ gh' = gh /\ late' = late /\ applied' = applied
  BY DEF Begin
<1> HIDE DEF y
<1>4. Quiet(e, ex[e], y)
  BY <1>1, <1>2 DEF Quiet, Control, Decided, MayHaveMerged, ApplyStates
<1>5. Requests
  BY <1>3, ReadyRepo, NoRequest
<1>6. QED
  BY <1>3, <1>4, <1>5, QuietMoves, OneExecutionMoves DEF Ready, RequestStep

\* A late request arrives.
LEMMA LateArrivalStep ==
  ASSUME Ready, NEW r \in late, LateArrival(r)
  PROVE  RequestStep
<1>1. Typed /\ RequestInv /\ gh \in Repo /\ r \in Request
      /\ Conforming(gh) /\ Numbered(gh) /\ Kept(gh, gh)
  BY ReadyRepo DEF Ready, Typed
<1>2. ex' = ex /\ late' \subseteq late
  BY DEF LateArrival
<1>3. \A f \in Execs : Moves(f, ex[f], ex'[f])
  BY <1>1, <1>2, SameMoves
<1>4. r \in Sent /\ r.by \in Execs
  BY <1>1 DEF Sent, Request
<1>5. r.kind = "mergePR" => r.pr \in PRIds
  BY <1>1, <1>4 DEF RequestInv, SentAsPlanned, MergePlansAreInari
<1>6. CASE Accepts(gh, r) /\ gh' = Apply(gh, r) /\ applied' = applied \cup {Hit(r)}
  <2>1. HitOK(Hit(r), gh')
    BY <1>1, <1>5, <1>6, AcceptedHits
  <2>2. Kept(gh, gh')
    BY <1>1, <1>6, KeptApply
  <2>3. \A s \in Sent' : s \in Sent
    BY <1>2, <1>4, <1>6 DEF Sent, Hit
  <2>4. Requests
    BY <1>6, <2>1, <2>2, <2>3 DEF Requests
  <2>5. QED
    BY <1>3, <2>4 DEF RequestStep
<1>7. CASE UNCHANGED <<gh, applied>>
  BY <1>1, <1>2, <1>3, <1>7, NoRequest DEF RequestStep
<1>8. QED
  BY <1>6, <1>7 DEF LateArrival

\* Every step.
LEMMA EveryStep ==
  ASSUME Ready, PublicationInv, Next
  PROVE  RequestStep
<1>1. Typed /\ RequestInv
  BY DEF Ready
<1>2. ASSUME NEW e \in Execs, ReadSteps(e) PROVE RequestStep
  <2>1. gh' = gh /\ late' = late /\ applied' = applied
    BY <1>2 DEF ReadSteps, ReadBranches, ReadPullRequests, ReadFailure, IssueValidateInitial,
       IssuePlanning, IssueVerifying, IssueClassifyingFailure, IssueRecoveryOutcome,
       ReadyPlanning, ReadyVerifying, AbortPlanning, AbortVerifying, AbortRecoveryPlanning,
       MergeAdmission, MergeVerifying, ReadDone
  <2>2. Requests
    BY <2>1, ReadyRepo, NoRequest
  <2>3. QED
    BY <1>1, <1>2, <2>2, ReadStepsMove DEF RequestStep
<1>3. ASSUME NEW e \in Execs, EffectSteps(e) PROVE RequestStep
  BY <1>3, EffectsStep, AdmitMergeTargetStep, MergePullRequestStep, RereadMergedStep,
     MergeReadFailureStep DEF EffectSteps
<1>4. ASSUME NEW e \in Execs, Crash(e) PROVE RequestStep
  <2>1. ex[e] \in Execution
    BY <1>1 DEF Typed
  <2>2. Quiet(e, ex[e], Finish(ex[e], "crashed"))
    BY <2>1, FinishQuiet DEF Success
  <2>3. QED
    BY <1>4, <2>2, QuietStep DEF Crash
<1>5. CASE HumanStep
  <2>1. ex' = ex /\ late' = late /\ applied' = applied
    BY <1>5 DEF HumanStep, HumanPush, HumanDeleteBranch, HumanOpenPR, HumanClosePR, HumanReopenPR,
       HumanToggleDraft, HumanMergePR, HumanRetargetPR, HumanCloseIssue, GovernanceChange, HumanDoes
  <2>2. Requests
    BY <1>1, <1>5, <2>1, ReadyRepo, KeptHuman, NoRequest
  <2>3. QED
    BY <1>1, <2>1, <2>2, SameMoves DEF RequestStep
<1>6. QED
  BY <1>2, <1>3, <1>4, <1>5, BeginStep, LateArrivalStep DEF Next, Step, ExecStep

-----------------------------------------------------------------------------
(* The invariant. *)

\* A head that conforms still does after a step.
LEMMA StillConforms ==
  ASSUME NEW y, Ready, Kept(gh, gh'), HeadConforms(y, gh)
  PROVE  HeadConforms(y, gh')
<1>1. PICK p \in PRIds, c \in CommitIds :
        y.ev.prs[p].state = "open" /\ y.ev.prs[p].head = c /\ gh.commits[c].conform
  BY DEF HeadConforms
<1>2. gh.n \in Int /\ c \in Int /\ ~(c > gh.n)
  BY <1>1, ReadyRepo, MaxCommitsAssumption DEF Conforming, Repo, CommitIds
<1>3. gh'.commits[c] = gh.commits[c]
  BY <1>2 DEF Kept, CommitsKept
<1>4. QED
  BY <1>1, <1>3 DEF HeadConforms

\* A step of the system keeps the invariant.
LEMMA RequestInvKept ==
  ASSUME Ready, Typed', RequestStep
  PROVE  RequestInv'
<1>1. /\ Typed /\ RequestInv /\ Requests
      /\ \A p \in PRIds : PRKept(gh.prs[p], gh'.prs[p])
      /\ \A e \in Execs : Moves(e, ex[e], ex'[e])
  BY DEF Ready, RequestStep, Requests, Kept
<1>2. \A r \in Sent' : r \in Request /\ r.by \in Execs
  BY DEF Typed, Sent, Applied, Request
<1>3. ASSUME NEW a \in applied, a.req.kind = "mergePR" PROVE a.req.pr \in PRIds
  <2>1. a.req \in Sent /\ a.req.by \in Execs
    BY <1>1 DEF Sent, Typed, Applied, Request
  <2>2. QED
    BY <1>1, <1>3, <2>1 DEF RequestInv, SentAsPlanned, MergePlansAreInari
<1>4. StatesFitOperation'
  BY <1>1 DEF StatesFitOperation, Moves, Control
<1>5. SentAsPlanned'
  <2>1. ASSUME NEW r \in Sent'
        PROVE  /\ Decided(ex'[r.by])
               /\ r.kind = "deleteRef" /\ Op[r.by] = "abort" => r.from = ex'[r.by].plan.sha
               /\ r.kind = "mergePR" =>
                    /\ Op[r.by] = "merge" /\ ex'[r.by].plan.kind = "merge"
                    /\ r.pr = ex'[r.by].plan.pr /\ r.from = ex'[r.by].plan.sha
    <3>1. CASE r \in Sent
      <4>1. Decided(ex[r.by])
        BY <1>1, <3>1 DEF RequestInv, SentAsPlanned
      <4>2. Decided(ex'[r.by]) /\ ex'[r.by].plan = ex[r.by].plan
        BY <1>1, <1>2, <4>1 DEF Moves, Control
      <4>3. QED
        BY <1>1, <3>1, <4>2 DEF RequestInv, SentAsPlanned
    <3>2. CASE Honest(r, ex'[r.by])
      BY <3>2 DEF Honest
    <3>3. QED
      BY <1>1, <3>1, <3>2 DEF Requests
  <2>2. QED
    BY <2>1 DEF SentAsPlanned, Decided
<1>6. AppliedAsSent'
  <2>1. ASSUME NEW a \in applied' PROVE HitOK(a, gh')
    <3>1. CASE a \in applied
      BY <1>1, <1>3, <3>1 DEF RequestInv, AppliedAsSent, HitOK, PRKept
    <3>2. QED
      BY <1>1, <3>1 DEF Requests
  <2>2. QED
    BY <2>1 DEF AppliedAsSent, HitOK
<1>7. EvidenceExists'
  <2>1. ASSUME NEW e \in Execs, NEW p \in PRIds, ex'[e].ev.prs[p].state # "none"
        PROVE  gh'.prs[p].state # "none" /\ gh'.prs[p].by = ex'[e].ev.prs[p].by
    <3>1. ex'[e].ev.prs[p] = ex[e].ev.prs[p] \/ ex'[e].ev.prs[p] = gh.prs[p]
      BY <1>1, <2>1 DEF Moves, Sees
    <3>2. gh.prs[p].state # "none" /\ gh.prs[p].by = ex'[e].ev.prs[p].by
      BY <1>1, <2>1, <3>1 DEF RequestInv, EvidenceExists
    <3>3. QED
      BY <1>1, <3>2 DEF PRKept
  <2>2. QED
    BY <2>1 DEF EvidenceExists
<1>8. MergePlansAreInari'
  <2>1. ASSUME NEW e \in Execs, ex'[e].plan.kind = "merge"
        PROVE  /\ ex'[e].plan.pr \in PRIds
               /\ gh'.prs[ex'[e].plan.pr].state # "none" /\ gh'.prs[ex'[e].plan.pr].by \in Execs
    <3>1. CASE ex'[e].plan = ex[e].plan
      BY <1>1, <2>1, <3>1 DEF RequestInv, MergePlansAreInari, PRKept
    <3>2. CASE /\ ex'[e].plan.pr \in PRIds
               /\ ex'[e].ev.prs[ex'[e].plan.pr].state # "none"
               /\ ex'[e].ev.prs[ex'[e].plan.pr].by # Human
      <4>1. gh'.prs[ex'[e].plan.pr] \in PullRequest
        BY <3>2 DEF Typed, Repo
      <4>2. gh'.prs[ex'[e].plan.pr].by \in Execs \cup {Human}
        BY <4>1 DEF PullRequest, Actors
      <4>3. QED
        BY <1>7, <3>2, <4>2 DEF EvidenceExists
    <3>3. QED
      BY <1>1, <2>1, <3>1, <3>2 DEF Moves, Plans
  <2>2. QED
    BY <2>1 DEF MergePlansAreInari
<1>9. MergesAreAccountedFor'
  <2>1. SUFFICES ASSUME "retargetPR" \notin HumanMay
                 PROVE  /\ \A p \in PRIds : gh'.prs[p].base = "default"
                        /\ \A e \in Execs : Op[e] = "merge" =>
                             /\ (\E r \in Sent' : r.by = e) => MayHaveMerged(ex'[e])
                             /\ ex'[e].st = "merging" /\ ex'[e].step = 2 /\ ex'[e].mode = "accepted" =>
                                  \E a \in applied' : a.req.by = e /\ a.req.kind = "mergePR"
    BY DEF MergesAreAccountedFor, MayHaveMerged
  <2>2. \A p \in PRIds : gh'.prs[p].base = "default"
    BY <1>1, <2>1 DEF RequestInv, MergesAreAccountedFor, PRKept
  <2>3. ASSUME NEW e \in Execs, Op[e] = "merge", NEW r \in Sent', r.by = e
        PROVE  MayHaveMerged(ex'[e])
    <3>1. CASE r \in Sent
      BY <1>1, <2>1, <2>3, <3>1 DEF RequestInv, MergesAreAccountedFor, Moves, Control
    <3>2. CASE Honest(r, ex'[r.by])
      BY <2>3, <3>2 DEF Honest
    <3>3. QED
      BY <1>1, <3>1, <3>2 DEF Requests
  <2>4. ASSUME NEW e \in Execs, Op[e] = "merge",
               ex'[e].st = "merging", ex'[e].step = 2, ex'[e].mode = "accepted"
        PROVE  \E a \in applied' : a.req.by = e /\ a.req.kind = "mergePR"
    BY <1>1, <2>1, <2>4 DEF Moves, Answered, Requests, RequestInv, MergesAreAccountedFor
  <2>5. QED
    BY <2>2, <2>3, <2>4
<1>10. ConformingExist'
  BY <1>1 DEF Requests, Kept, CommitsKept, ConformingExist
<1>11. ReadyHeadConforms'
  <2>1. ASSUME NEW e \in Execs, Op[e] = "ready", ex'[e].st = "done", ex'[e].result \in Success
        PROVE  HeadConforms(ex'[e], gh')
    <3>1. CASE ex'[e] = ex[e]
      <4>1. HeadConforms(ex'[e], gh)
        BY <1>1, <2>1, <3>1 DEF RequestInv, ReadyHeadConforms, Ended, HeadConforms
      <4>2. QED
        BY <1>1, <4>1, StillConforms DEF Requests
    <3>2. CASE HeadConforms(ex'[e], gh)
      BY <1>1, <3>2, StillConforms DEF Requests
    <3>3. QED
      BY <1>1, <2>1, <3>1, <3>2 DEF Moves, Reports
  <2>2. QED
    BY <2>1 DEF ReadyHeadConforms, Ended, HeadConforms
<1>12. QED
  BY <1>4, <1>5, <1>6, <1>7, <1>8, <1>9, <1>10, <1>11 DEF RequestInv

-----------------------------------------------------------------------------
(* The theorems. *)

\* Nothing is planned, sent, read or reported before anything happened.
LEMMA RequestInvInit == Init => RequestInv
<1>1. SUFFICES ASSUME Init PROVE RequestInv
  OBVIOUS
<1>2. \A e \in Execs : /\ ex[e] = IdleExecution
                       /\ ex[e].st = "idle" /\ ex[e].plan.kind = "none"
                       /\ \A p \in PRIds : ex[e].ev.prs[p].state = "none"
  BY <1>1 DEF Init, IdleExecution, NoPlan, NoEvidence, NoPullRequest
<1>3. /\ \A p \in PRIds : gh.prs[p].base = "default"
      /\ \A c \in CommitIds : ~gh.commits[c].conform
  BY <1>1 DEF Init, FreshRepo, NoPullRequest, BaseCommit
<1>4. Sent = {} /\ applied = {}
  BY <1>1 DEF Init, Sent
<1>5. StatesFitOperation /\ SentAsPlanned /\ AppliedAsSent
  BY <1>2, <1>4 DEF StatesFitOperation, SentAsPlanned, AppliedAsSent, ApplyStates
<1>6. EvidenceExists /\ MergePlansAreInari /\ MergesAreAccountedFor
  BY <1>2, <1>3, <1>4 DEF EvidenceExists, MergePlansAreInari, MergesAreAccountedFor
<1>7. ConformingExist /\ ReadyHeadConforms
  BY <1>2, <1>3 DEF ConformingExist, ReadyHeadConforms, Ended
<1>8. QED
  BY <1>5, <1>6, <1>7 DEF RequestInv

\* Every step keeps the invariant.
LEMMA RequestInvStep ==
  ASSUME Inv, Inv', RequestInv, [Next]_vars
  PROVE  RequestInv'
<1>1. CASE Next
  <2>1. Typed /\ Typed' /\ PublicationInv
    BY DEF Inv, TypeOK, Typed
  <2>2. Ready
    BY <2>1, StillGrown DEF Ready
  <2>3. QED
    BY <1>1, <2>1, <2>2, EveryStep, RequestInvKept
<1>2. CASE UNCHANGED vars
  BY <1>2 DEF vars, RequestInv, StatesFitOperation, SentAsPlanned, AppliedAsSent, EvidenceExists,
     MergePlansAreInari, MergesAreAccountedFor, ConformingExist, ReadyHeadConforms, Sent,
     Decided, MayHaveMerged, Ended
<1>3. QED
  BY <1>1, <1>2

\* What an execution decided stays with it and with its requests, and what it
\* saw stays in the repository, in every reachable state.
THEOREM RequestInvariant == Spec => []RequestInv
BY RequestInvInit, RequestInvStep, InvHolds, PTL DEF Spec

\* An abort deletes exactly the generation of the branch that its read returned.
THEOREM AbortsDeleteWhatTheySaw == Spec => []AbortDeletesWhatItSaw
<1>1. RequestInv => AbortDeletesWhatItSaw
  BY DEF RequestInv, AppliedAsSent, SentAsPlanned, Sent, AbortDeletesWhatItSaw
<1>2. QED
  BY <1>1, RequestInvariant, PTL

\* A merge merges a pull request of Inari, at the admitted head and no other.
THEOREM MergesHitAdmittedHead == Spec => []MergesAdmittedHead
<1>1. RequestInv /\ TypeOK => MergesAdmittedHead
  <2>1. ASSUME RequestInv, TypeOK, NEW a \in applied, a.req.kind = "mergePR"
        PROVE  /\ gh.prs[a.req.pr].state = "merged"
               /\ gh.prs[a.req.pr].by \in Execs
               /\ gh.prs[a.req.pr].head = ex[a.req.by].plan.sha
    <3>1. a.req \in Sent /\ a.req.by \in Execs
      BY <2>1 DEF Sent, TypeOK, Applied, Request
    <3>2. QED
      BY <2>1, <3>1 DEF RequestInv, AppliedAsSent, SentAsPlanned, MergePlansAreInari
  <2>2. QED
    BY <2>1 DEF MergesAdmittedHead
<1>2. QED
  BY <1>1, RequestInvariant, TypeCorrect, PTL

\* A Change is reported ready only for a head whose diff conforms.
THEOREM ReadyHeadsConform == Spec => []ReadyHeadConforms
<1>1. RequestInv => ReadyHeadConforms
  BY DEF RequestInv
<1>2. QED
  BY <1>1, RequestInvariant, PTL

\* Where nobody retargets pull requests, a merge that is reported as failed was
\* not carried out and never will be.
THEOREM MergeFailureIsFinal ==
  "retargetPR" \notin HumanMay => (Spec => []MergeFailureMeansNotMerged)
<1>1. SUFFICES ASSUME "retargetPR" \notin HumanMay PROVE Spec => []MergeFailureMeansNotMerged
  OBVIOUS
<1>2. RequestInv => MergeFailureMeansNotMerged
  BY <1>1 DEF RequestInv, MergesAreAccountedFor, MayHaveMerged, MergeFailureMeansNotMerged, Sent, Ended
<1>3. QED
  BY <1>2, RequestInvariant, PTL

=============================================================================
