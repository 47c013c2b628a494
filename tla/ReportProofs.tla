---------------------------- MODULE ReportProofs ----------------------------
(***************************************************************************)
(* Proofs about what executions of ChangeExecution report and clean up: the *)
(* evidence of one read comes from several calls, and still a success, and  *)
(* the absence behind "failed" and "compensated", was true at one of them;  *)
(* an abort that nobody disturbs cleans up; a compensation deletes what its *)
(* issuance made.  The reason is what a read can mix: a pull request that   *)
(* is closed, and whose head the branch has left, does not move any more.   *)
(***************************************************************************)
EXTENDS RequestProofs

USE DEF NoSha, BaseSha, NoPR

-----------------------------------------------------------------------------
(* Heads of pull requests and the branch. *)

\* Heads are commits above the base, and an open pull request follows the branch.
Well(repo) ==
  /\ repo.branch <= repo.n
  /\ \A p \in PRIds : repo.prs[p].state # "none" => repo.prs[p].head \in 2 .. repo.n
  /\ \A p \in PRIds : repo.prs[p].state = "open" => repo.prs[p].head = repo.branch

\* A commit that neither the branch nor a pull request is at.
Unused(repo, c) ==
  /\ c \in 2 .. repo.n
  /\ c # repo.branch
  /\ \A p \in PRIds : repo.prs[p].state # "none" => repo.prs[p].head # c

\* A provenance commit that is still on its way was never the head of anything,
\* so the branch never returns to a head that it left.
HeadsInv ==
  /\ Well(gh)
  /\ \A r \in late : r.kind = "advanceRef" => Unused(gh, r.to)
  /\ \A r, s \in late : r.kind = "advanceRef" /\ s.kind = "advanceRef" /\ r.to = s.to => r = s

\* A pull request that nothing changes any more: reopening needs its old head.
Frozen(repo, p) ==
  \/ repo.prs[p].state = "merged"
  \/ repo.prs[p].state = "closed" /\ repo.prs[p].head # repo.branch

\* From repo to new, heads stay in order, frozen pull requests stay as they
\* are, and commits outside C that were unused still are.
Orderly(repo, new, C) ==
  /\ Well(new)
  /\ \A p \in PRIds : Frozen(repo, p) => Frozen(new, p) /\ new.prs[p] = repo.prs[p]
  /\ \A c \in Nat \ C : Unused(repo, c) => Unused(new, c)

\* Numbers are numbers.
LEMMA RepoNumbers ==
  ASSUME NEW repo \in Repo
  PROVE  /\ repo.n \in Nat /\ repo.branch \in Nat /\ repo.n >= 1
         /\ \A p \in PRIds : repo.prs[p] \in PullRequest /\ repo.prs[p].head \in Nat
<1>1. \A p \in PRIds : repo.prs[p] \in PullRequest
  BY DEF Repo
<1>2. \A p \in PRIds : repo.prs[p].head \in Shas
  BY <1>1 DEF PullRequest
<1>3. repo.n \in CommitIds /\ repo.branch \in Shas
  BY DEF Repo
<1>4. QED
  BY <1>1, <1>2, <1>3, MaxCommitsAssumption DEF CommitIds, Shas

\* Nothing happens to the branch and the pull requests.
LEMMA OrderlySame ==
  ASSUME NEW repo \in Repo, Well(repo), NEW new,
         new.n = repo.n, new.branch = repo.branch, new.prs = repo.prs
  PROVE  Orderly(repo, new, {})
BY DEF Orderly, Well, Frozen, Unused

\* One change after another.
LEMMA OrderlyTwice ==
  ASSUME NEW repo, NEW mid, NEW new, NEW C, Orderly(repo, mid, {}), Orderly(mid, new, C)
  PROVE  Orderly(repo, new, C)
BY DEF Orderly

\* A new commit object: it is unused.
LEMMA OrderlyCommit ==
  ASSUME NEW repo \in Repo, Well(repo),
         NEW by, NEW parent, NEW record, NEW work, NEW conform
  PROVE  /\ Orderly(repo, WithCommit(repo, by, parent, record, work, conform), {})
         /\ Unused(WithCommit(repo, by, parent, record, work, conform), repo.n + 1)
<1> DEFINE new == WithCommit(repo, by, parent, record, work, conform)
<1>1. new.n = repo.n + 1 /\ new.branch = repo.branch /\ new.prs = repo.prs
  BY DEF WithCommit, Repo
<1>2. /\ repo.n \in Nat /\ repo.branch \in Nat /\ repo.n >= 1
      /\ \A p \in PRIds : repo.prs[p].head \in Nat
  BY RepoNumbers
<1> HIDE DEF new
<1>3. Well(new)
  BY <1>1, <1>2 DEF Well
<1>4. Unused(new, repo.n + 1)
  BY <1>1, <1>2 DEF Well, Unused
<1>5. \A c \in Nat : Unused(repo, c) => Unused(new, c)
  BY <1>1, <1>2 DEF Unused
<1>6. \A p \in PRIds : Frozen(repo, p) => Frozen(new, p) /\ new.prs[p] = repo.prs[p]
  BY <1>1 DEF Frozen
<1>7. QED
  BY <1>3, <1>4, <1>5, <1>6 DEF Orderly, new

\* The branch moves to a commit that nobody used, or is created at the base.
LEMMA OrderlyHead ==
  ASSUME NEW repo \in Repo, Well(repo), NEW sha,
         \/ sha = BaseSha /\ repo.branch = NoSha
         \/ Unused(repo, sha)
  PROVE  Orderly(repo, WithHead(repo, sha), {sha})
<1> DEFINE new == WithHead(repo, sha)
<1>1. /\ repo.n \in Nat /\ repo.branch \in Nat /\ repo.n >= 1
      /\ \A p \in PRIds : repo.prs[p] \in PullRequest /\ repo.prs[p].head \in Nat
  BY RepoNumbers
<1>2. /\ new.n = repo.n /\ new.branch = sha
      /\ new.prs = [p \in PRIds |->
           IF repo.prs[p].state = "open" THEN [repo.prs[p] EXCEPT !.head = sha] ELSE repo.prs[p]]
  BY DEF WithHead, Repo
<1>3. ASSUME NEW p \in PRIds
      PROVE  /\ repo.prs[p].state # "open" => new.prs[p] = repo.prs[p]
             /\ repo.prs[p].state = "open" => /\ new.prs[p].state = "open"
                                              /\ new.prs[p].head = sha
  <2>1. repo.prs[p] \in PullRequest
    BY <1>1
  <2>2. /\ [repo.prs[p] EXCEPT !.head = sha].state = repo.prs[p].state
        /\ [repo.prs[p] EXCEPT !.head = sha].head = sha
    BY <2>1 DEF PullRequest
  <2>3. QED
    BY <1>2, <2>2
<1> HIDE DEF new
<1>4. sha \in 1 .. repo.n /\ \A p \in PRIds : repo.prs[p].state # "none" => repo.prs[p].head # sha
  BY <1>1 DEF Well, Unused
<1>5. \A p \in PRIds : repo.prs[p].state = "open" => sha \in 2 .. repo.n
  BY <1>1 DEF Well, Unused
<1>6. Well(new)
  <2>1. new.branch <= new.n
    BY <1>1, <1>2, <1>4
  <2>2. \A p \in PRIds : new.prs[p].state # "none" => new.prs[p].head \in 2 .. new.n
    BY <1>2, <1>3, <1>5 DEF Well
  <2>3. \A p \in PRIds : new.prs[p].state = "open" => new.prs[p].head = new.branch
    BY <1>2, <1>3
  <2>4. QED
    BY <2>1, <2>2, <2>3 DEF Well
<1>7. ASSUME NEW p \in PRIds, Frozen(repo, p) PROVE Frozen(new, p) /\ new.prs[p] = repo.prs[p]
  BY <1>2, <1>3, <1>4, <1>7 DEF Frozen
<1>8. ASSUME NEW c \in Nat \ {sha}, Unused(repo, c) PROVE Unused(new, c)
  BY <1>2, <1>3, <1>8 DEF Unused
<1>9. QED
  BY <1>6, <1>7, <1>8 DEF Orderly, new

\* The branch disappears, and closes what was open.
LEMMA OrderlyGone ==
  ASSUME NEW repo \in Repo, Well(repo)
  PROVE  Orderly(repo, WithoutBranch(repo), {})
<1> DEFINE new == WithoutBranch(repo)
<1>1. /\ repo.n \in Nat /\ repo.branch \in Nat /\ repo.n >= 1
      /\ \A p \in PRIds : repo.prs[p] \in PullRequest /\ repo.prs[p].head \in Nat
  BY RepoNumbers
<1>2. /\ new.n = repo.n /\ new.branch = 0
      /\ new.prs = [p \in PRIds |->
           IF repo.prs[p].state = "open" THEN [repo.prs[p] EXCEPT !.state = "closed"]
           ELSE repo.prs[p]]
  BY DEF WithoutBranch, Repo
<1>3. ASSUME NEW p \in PRIds
      PROVE  /\ repo.prs[p].state # "open" => new.prs[p] = repo.prs[p]
             /\ repo.prs[p].state = "open" => new.prs[p].state = "closed"
             /\ new.prs[p].head = repo.prs[p].head
  <2>1. repo.prs[p] \in PullRequest
    BY <1>1
  <2>2. /\ [repo.prs[p] EXCEPT !.state = "closed"].state = "closed"
        /\ [repo.prs[p] EXCEPT !.state = "closed"].head = repo.prs[p].head
    BY <2>1 DEF PullRequest
  <2>3. QED
    BY <1>2, <2>2
<1> HIDE DEF new
<1>4. Well(new)
  BY <1>1, <1>2, <1>3 DEF Well
<1>5. ASSUME NEW p \in PRIds, Frozen(repo, p) PROVE Frozen(new, p) /\ new.prs[p] = repo.prs[p]
  BY <1>1, <1>2, <1>3, <1>5 DEF Frozen, Well
<1>6. ASSUME NEW c \in Nat, Unused(repo, c) PROVE Unused(new, c)
  BY <1>2, <1>3, <1>6 DEF Unused
<1>7. QED
  BY <1>4, <1>5, <1>6 DEF Orderly, new

\* A pull request is opened at the head of the branch.
LEMMA OrderlyNewPR ==
  ASSUME NEW repo \in Repo, Well(repo), Numbered(repo), CanOpenPR(repo), NEW by, NEW draft
  PROVE  Orderly(repo, WithPR(repo, by, draft), {})
<1> DEFINE pr  == [state |-> "open", draft |-> draft, by |-> by, base |-> "default",
                   head |-> repo.branch, method |-> FALSE]
           new == WithPR(repo, by, draft)
<1>1. /\ repo.n \in Nat /\ repo.branch \in Nat /\ repo.n >= 1
      /\ \A p \in PRIds : repo.prs[p].head \in Nat
  BY RepoNumbers
<1>2. /\ new.n = repo.n /\ new.branch = repo.branch
      /\ \A p \in PRIds : new.prs[p] = IF p = repo.np + 1 THEN pr ELSE repo.prs[p]
  BY DEF WithPR, Repo
<1>3. pr.state = "open" /\ pr.head = repo.branch
  OBVIOUS
<1>4. repo.np \in Nat /\ \A p \in PRIds : p \in Nat
  BY MaxPRsAssumption DEF Repo, PRNumbers, PRIds
<1>5. \A p \in PRIds : p = repo.np + 1 => repo.prs[p].state = "none"
  BY <1>4 DEF Numbered
<1>6. repo.branch \in 2 .. repo.n
  BY <1>1 DEF CanOpenPR, Well
<1> HIDE DEF new, pr
<1>7. Well(new)
  BY <1>1, <1>2, <1>3, <1>6 DEF Well
<1>8. ASSUME NEW p \in PRIds, Frozen(repo, p) PROVE Frozen(new, p) /\ new.prs[p] = repo.prs[p]
  BY <1>2, <1>5, <1>8 DEF Frozen
<1>9. ASSUME NEW c \in Nat, Unused(repo, c) PROVE Unused(new, c)
  BY <1>2, <1>3, <1>9 DEF Unused
<1>10. QED
  BY <1>7, <1>8, <1>9 DEF Orderly, new

\* A pull request that is not frozen changes, at the same head.
LEMMA OrderlyPR ==
  ASSUME NEW repo \in Repo, Well(repo), NEW pr, NEW after,
         pr \in PRIds => /\ repo.prs[pr].state # "none" /\ ~Frozen(repo, pr)
                         /\ after.head = repo.prs[pr].head
                         /\ after.state = "open" => after.head = repo.branch
  PROVE  Orderly(repo, [repo EXCEPT !.prs[pr] = after], {})
<1> DEFINE new == [repo EXCEPT !.prs[pr] = after]
<1>1. /\ new.n = repo.n /\ new.branch = repo.branch
      /\ \A p \in PRIds : new.prs[p] = IF p = pr THEN after ELSE repo.prs[p]
  BY DEF Repo
<1> HIDE DEF new
<1>2. Well(new)
  BY <1>1 DEF Well
<1>3. ASSUME NEW p \in PRIds, Frozen(repo, p) PROVE Frozen(new, p) /\ new.prs[p] = repo.prs[p]
  BY <1>1, <1>3 DEF Frozen
<1>4. ASSUME NEW c \in Nat, Unused(repo, c) PROVE Unused(new, c)
  BY <1>1, <1>4 DEF Unused
<1>5. QED
  BY <1>2, <1>3, <1>4 DEF Orderly, new

-----------------------------------------------------------------------------
(* Every step keeps heads in order. *)

\* An accepted request.
LEMMA OrderlyApply ==
  ASSUME NEW repo \in Repo, Well(repo), Numbered(repo), NEW r \in Request, Accepts(repo, r),
         r.kind = "advanceRef" => Unused(repo, r.to)
  PROVE  Orderly(repo, Apply(repo, r), IF r.kind = "advanceRef" THEN {r.to} ELSE {})
<1>1. \A p \in PRIds : repo.prs[p] \in PullRequest
  BY RepoNumbers
<1>2. Orderly(repo, repo, {})
  BY OrderlySame
<1>3. CASE r.kind = "createRef"
  <2>1. Orderly(repo, WithHead(repo, BaseSha), {BaseSha})
    BY <1>3, OrderlyHead DEF Accepts
  <2>2. Orderly(repo, WithHead(repo, BaseSha), {})
    BY <2>1, RepoNumbers DEF Orderly, Unused
  <2>3. QED
    BY <1>3, <2>2 DEF Apply
<1>4. CASE r.kind = "advanceRef"
  BY <1>4, OrderlyHead DEF Apply
<1>5. CASE r.kind = "createPR"
  BY <1>5, OrderlyNewPR DEF Apply, Accepts
<1>6. CASE r.kind = "markReady"
  <2> DEFINE after == [repo.prs[r.pr] EXCEPT !.draft = FALSE]
  <2>1. r.pr \in PRIds => after.state = repo.prs[r.pr].state /\ after.head = repo.prs[r.pr].head
    BY <1>1 DEF PullRequest
  <2>2. repo.prs[r.pr].state = "open"
    BY <1>6 DEF Accepts
  <2>3. Apply(repo, r) = [repo EXCEPT !.prs[r.pr] = after]
    BY <1>6 DEF Apply
  <2> HIDE DEF after
  <2>4. Orderly(repo, [repo EXCEPT !.prs[r.pr] = after], {})
    BY <2>1, <2>2, OrderlyPR DEF Frozen, Well
  <2>5. QED
    BY <1>6, <2>3, <2>4
<1>7. CASE r.kind = "closePR"
  <2> DEFINE after == [repo.prs[r.pr] EXCEPT !.state = "closed"]
  <2>1. r.pr \in PRIds => after.state = "closed" /\ after.head = repo.prs[r.pr].head
    BY <1>1 DEF PullRequest
  <2>2. Apply(repo, r) = IF repo.prs[r.pr].state = "open" THEN [repo EXCEPT !.prs[r.pr] = after] ELSE repo
    BY <1>7 DEF Apply
  <2> HIDE DEF after
  <2>3. repo.prs[r.pr].state = "open" => Orderly(repo, [repo EXCEPT !.prs[r.pr] = after], {})
    BY <2>1, OrderlyPR DEF Frozen
  <2>4. QED
    BY <1>2, <1>7, <2>2, <2>3
<1>8. CASE r.kind = "deleteRef"
  BY <1>8, OrderlyGone DEF Apply
<1>9. CASE r.kind = "mergePR"
  <2> DEFINE after == [repo.prs[r.pr] EXCEPT !.state = "merged", !.method = MergeMethodReported]
  <2>1. r.pr \in PRIds => after.state = "merged" /\ after.head = repo.prs[r.pr].head
    BY <1>1 DEF PullRequest
  <2>2. repo.prs[r.pr].state = "open"
    BY <1>9 DEF Accepts
  <2>3. Apply(repo, r) = [repo EXCEPT !.prs[r.pr] = after]
    BY <1>9 DEF Apply
  <2> HIDE DEF after
  <2>4. Orderly(repo, [repo EXCEPT !.prs[r.pr] = after], {})
    BY <2>1, <2>2, OrderlyPR DEF Frozen
  <2>5. QED
    BY <1>9, <2>3, <2>4
<1>10. QED
  BY <1>3, <1>4, <1>5, <1>6, <1>7, <1>8, <1>9 DEF Request, RequestKind

\* A human step.
LEMMA OrderlyHuman ==
  ASSUME Typed, Numbered(gh), Well(gh), HumanStep
  PROVE  Orderly(gh, gh', {})
<1>1. gh \in Repo /\ \A p \in PRIds : gh.prs[p] \in PullRequest
  BY DEF Typed, Repo
<1>2. ASSUME NEW conform \in BOOLEAN, HumanPush(conform) PROVE Orderly(gh, gh', {})
  <2> DEFINE parent  == IF gh.branch = NoSha THEN BaseSha ELSE gh.branch
             created == WithCommit(gh, Human, parent, FALSE, TRUE, conform)
  <2>1. gh.n < MaxCommits /\ gh' = WithHead(created, gh.n + 1)
    BY <1>2 DEF HumanPush, HumanDoes
  <2>2. created \in Repo
    BY <1>1, <2>1, WithCommitType DEF Actors
  <2>3. Orderly(gh, created, {}) /\ Unused(created, gh.n + 1)
    BY <1>1, OrderlyCommit
  <2> HIDE DEF created
  <2>4. Orderly(created, gh', {gh.n + 1})
    BY <2>1, <2>2, <2>3, OrderlyHead DEF Orderly
  <2>5. Orderly(gh, gh', {gh.n + 1})
    BY <2>3, <2>4, OrderlyTwice
  <2>6. ~Unused(gh, gh.n + 1)
    BY <1>1, RepoNumbers DEF Unused
  <2>7. QED
    BY <2>5, <2>6 DEF Orderly
<1>3. CASE HumanDeleteBranch
  BY <1>1, <1>3, OrderlyGone DEF HumanDeleteBranch, HumanDoes
<1>4. CASE HumanOpenPR
  BY <1>1, <1>4, OrderlyNewPR DEF HumanOpenPR, HumanDoes
<1>5. ASSUME NEW p \in PRIds, NEW after, gh' = [gh EXCEPT !.prs[p] = after],
             gh.prs[p].state # "none", ~Frozen(gh, p),
             after.head = gh.prs[p].head, after.state = "open" => after.head = gh.branch
      PROVE  Orderly(gh, gh', {})
  BY <1>1, <1>5, OrderlyPR
<1>6. \A p \in PRIds : gh.prs[p].state = "open" => ~Frozen(gh, p) /\ gh.prs[p].head = gh.branch
  BY DEF Frozen, Well
<1>7. ASSUME NEW p \in PRIds, HumanClosePR(p) PROVE Orderly(gh, gh', {})
  <2>1. /\ [gh.prs[p] EXCEPT !.state = "closed"].state = "closed"
        /\ [gh.prs[p] EXCEPT !.state = "closed"].head = gh.prs[p].head
    BY <1>1 DEF PullRequest
  <2>2. gh.prs[p].state = "open" /\ gh' = [gh EXCEPT !.prs[p] = [gh.prs[p] EXCEPT !.state = "closed"]]
    BY <1>7 DEF HumanClosePR, HumanDoes
  <2>3. QED
    BY <1>5, <1>6, <2>1, <2>2
<1>8. ASSUME NEW p \in PRIds, HumanReopenPR(p) PROVE Orderly(gh, gh', {})
  <2>1. /\ [gh.prs[p] EXCEPT !.state = "open"].state = "open"
        /\ [gh.prs[p] EXCEPT !.state = "open"].head = gh.prs[p].head
    BY <1>1 DEF PullRequest
  <2>2. /\ gh.prs[p].state = "closed" /\ gh.branch = gh.prs[p].head
        /\ gh' = [gh EXCEPT !.prs[p] = [gh.prs[p] EXCEPT !.state = "open"]]
    BY <1>8 DEF HumanReopenPR, HumanDoes
  <2>3. QED
    BY <1>5, <2>1, <2>2 DEF Frozen
<1>9. ASSUME NEW p \in PRIds, HumanToggleDraft(p) PROVE Orderly(gh, gh', {})
  <2>1. [gh.prs[p] EXCEPT !.draft = ~gh.prs[p].draft].head = gh.prs[p].head
    BY <1>1 DEF PullRequest
  <2>2. /\ gh.prs[p].state = "open"
        /\ gh' = [gh EXCEPT !.prs[p] = [gh.prs[p] EXCEPT !.draft = ~gh.prs[p].draft]]
    BY <1>9 DEF HumanToggleDraft, HumanDoes
  <2>3. QED
    BY <1>5, <1>6, <2>1, <2>2
<1>10. ASSUME NEW p \in PRIds, HumanMergePR(p) PROVE Orderly(gh, gh', {})
  <2>1. ASSUME NEW m
        PROVE  /\ [gh.prs[p] EXCEPT !.state = "merged", !.method = m].state = "merged"
               /\ [gh.prs[p] EXCEPT !.state = "merged", !.method = m].head = gh.prs[p].head
    BY <1>1 DEF PullRequest
  <2>2. PICK m : gh' = [gh EXCEPT !.prs[p].state = "merged", !.prs[p].method = m]
    BY <1>10 DEF HumanMergePR, HumanDoes
  <2> DEFINE after == [gh.prs[p] EXCEPT !.state = "merged", !.method = m]
  <2>3. gh' = [gh EXCEPT !.prs[p] = after]
    BY <1>1, <2>2 DEF Repo
  <2>4. gh.prs[p].state = "open" /\ after.state = "merged" /\ after.head = gh.prs[p].head
    BY <1>10, <2>1 DEF HumanMergePR
  <2> HIDE DEF after
  <2>5. QED
    BY <1>5, <1>6, <2>3, <2>4
<1>11. ASSUME NEW p \in PRIds, HumanRetargetPR(p) PROVE Orderly(gh, gh', {})
  <2>1. [gh.prs[p] EXCEPT !.base = "other"].head = gh.prs[p].head
    BY <1>1 DEF PullRequest
  <2>2. gh.prs[p].state = "open" /\ gh' = [gh EXCEPT !.prs[p] = [gh.prs[p] EXCEPT !.base = "other"]]
    BY <1>11 DEF HumanRetargetPR, HumanDoes
  <2>3. QED
    BY <1>5, <1>6, <2>1, <2>2
<1>12. CASE HumanCloseIssue \/ GovernanceChange
  <2>1. gh'.n = gh.n /\ gh'.branch = gh.branch /\ gh'.prs = gh.prs
    BY <1>1, <1>12 DEF HumanCloseIssue, GovernanceChange, HumanDoes, Repo
  <2>2. QED
    BY <1>1, <2>1, OrderlySame
<1>13. QED
  BY <1>2, <1>3, <1>4, <1>7, <1>8, <1>9, <1>10, <1>11, <1>12 DEF HumanStep

\* A human step touches nothing but the repository.
LEMMA PeopleTouchRepo ==
  ASSUME HumanStep
  PROVE  UNCHANGED <<ex, late, faults, truth, applied, known>>
<1>1. \A kind, repo : HumanDoes(kind, repo) => UNCHANGED <<ex, late, faults, truth, applied, known>>
  BY DEF HumanDoes
<1>2. ASSUME NEW p \in PRIds,
             \/ HumanClosePR(p) \/ HumanReopenPR(p) \/ HumanToggleDraft(p)
             \/ HumanMergePR(p) \/ HumanRetargetPR(p)
      PROVE  \E kind, repo : HumanDoes(kind, repo)
  BY <1>2 DEF HumanClosePR, HumanReopenPR, HumanToggleDraft, HumanMergePR, HumanRetargetPR
<1>3. ASSUME \/ \E conform \in BOOLEAN : HumanPush(conform)
             \/ HumanDeleteBranch \/ HumanOpenPR \/ HumanCloseIssue \/ GovernanceChange
      PROVE  \E kind, repo : HumanDoes(kind, repo)
  BY <1>3 DEF HumanPush, HumanDeleteBranch, HumanOpenPR, HumanCloseIssue, GovernanceChange
<1>4. QED
  BY <1>1, <1>2, <1>3 DEF HumanStep

\* The parts of a step: the repository moves in order, and so do late requests.
Tidy == HeadsInv' /\ Orderly(gh, gh', Nat)

\* No provenance commit is sent late, and none arrives.
LEMMA TidyStep ==
  ASSUME Typed, HeadsInv, Orderly(gh, gh', {}),
         \A r \in late' : r \in late \/ r.kind # "advanceRef"
  PROVE  Tidy
<1>1. ASSUME NEW r \in late', r.kind = "advanceRef" PROVE Unused(gh', r.to)
  <2>1. r \in late /\ Unused(gh, r.to)
    BY <1>1 DEF HeadsInv
  <2>2. r.to \in Nat
    BY <2>1, RepoNumbers DEF Unused, Typed
  <2>3. QED
    BY <2>1, <2>2 DEF Orderly
<1>2. \A r, s \in late' : r.kind = "advanceRef" /\ s.kind = "advanceRef" /\ r.to = s.to => r = s
  BY DEF HeadsInv
<1>3. Well(gh')
  BY DEF Orderly
<1>4. HeadsInv'
  BY <1>1, <1>2, <1>3 DEF HeadsInv, Well, Unused
<1>5. QED
  BY <1>4 DEF Tidy, Orderly

\* A request that does not move the branch to a new commit.
LEMMA TidySend ==
  ASSUME Typed, Numbered(gh), HeadsInv, NEW e, NEW r \in Request, r.kind # "advanceRef",
         NEW ok, NEW refused, NEW unknown, Send(e, r, ok, refused, unknown)
  PROVE  Tidy
<1>1. gh \in Repo /\ Well(gh)
  BY DEF Typed, HeadsInv
<1>2. (Accepts(gh, r) /\ gh' = Apply(gh, r)) \/ gh' = gh
  BY DEF Send, Acknowledged, Refused, RefusedAnyway, AnswerLost, TimedOut, Observe
<1>3. late' \subseteq late \cup {r}
  BY DEF Send, Acknowledged, Refused, RefusedAnyway, AnswerLost, TimedOut, Observe
<1>4. Orderly(gh, gh', {})
  BY <1>1, <1>2, OrderlyApply, OrderlySame
<1>5. QED
  BY <1>3, <1>4, TidyStep

\* The provenance commit is created; the branch moves to it now, later or never.
LEMMA TidyAdvance ==
  ASSUME Ready, PublicationInv, HeadsInv, NEW e \in Execs, AdvanceProvenance(e)
  PROVE  Tidy
<1> DEFINE new     == gh.n + 1
           created == WithCommit(gh, e, ex[e].made, TRUE, FALSE, gh.commits[ex[e].made].conform)
           r       == RequestOf(e, "advanceRef", NoPR, ex[e].made, new)
<1>1. /\ Typed /\ gh \in Repo /\ Well(gh) /\ gh.n \in Nat
      /\ gh.n < MaxCommits
  BY ReadyRepo, RepoNumbers DEF Ready, Typed, HeadsInv, AdvanceProvenance
<1>2. created \in Repo
  <2>1. ex[e].made \in CommitIds
    BY <1>1 DEF Typed, Execution, AdvanceProvenance, PublicationInv, ProvenanceHasParent, Shas, CommitIds
  <2>2. gh.commits[ex[e].made].conform \in BOOLEAN /\ e \in Actors
    BY <1>1, <2>1 DEF Repo, Commit, Actors
  <2>3. QED
    BY <1>1, <2>2, WithCommitType
<1>3. Orderly(gh, created, {}) /\ Unused(created, new)
  BY <1>1, OrderlyCommit
<1>4. r.kind = "advanceRef" /\ r.to = new /\ Apply(created, r) = WithHead(created, new)
  BY DEF RequestOf, Apply
<1>5. \/ late' = late /\ gh' \in {created, WithHead(created, new)}
      \/ late' = late \cup {r} /\ gh' \in {created, WithHead(created, new)} /\ gh'.branch # new
  BY <1>4 DEF AdvanceProvenance
<1>6. WithHead(created, new).branch = new
  BY <1>2 DEF WithHead, Repo
<1>7. ~Unused(gh, new) /\ new \in Nat
  BY <1>1 DEF Unused
<1> HIDE DEF new, created, r
<1>8. Orderly(gh, WithHead(created, new), {})
  <2>1. Orderly(created, WithHead(created, new), {new})
    BY <1>2, <1>3, OrderlyHead DEF Orderly
  <2>2. Orderly(gh, WithHead(created, new), {new})
    BY <1>3, <2>1, OrderlyTwice
  <2>3. QED
    BY <1>7, <2>2 DEF Orderly
<1>9. CASE late' = late
  BY <1>1, <1>3, <1>5, <1>8, <1>9, TidyStep
<1>10. CASE late' = late \cup {r} /\ gh' = created
  <2>1. ASSUME NEW s \in late, s.kind = "advanceRef" PROVE Unused(gh', s.to) /\ s.to # new
    <3>1. Unused(gh, s.to)
      BY <2>1 DEF HeadsInv
    <3>2. s.to \in Nat
      BY <1>1, <3>1 DEF Unused
    <3>3. QED
      BY <1>3, <1>7, <1>10, <3>1, <3>2 DEF Orderly
  <2>2. \A s \in late' : s.kind = "advanceRef" => Unused(gh', s.to)
    BY <1>3, <1>4, <1>10, <2>1
  <2>3. \A s, t \in late' : s.kind = "advanceRef" /\ t.kind = "advanceRef" /\ s.to = t.to => s = t
    BY <1>4, <1>10, <2>1 DEF HeadsInv
  <2>4. HeadsInv'
    BY <1>3, <1>10, <2>2, <2>3 DEF HeadsInv, Orderly, Well, Unused
  <2>5. QED
    BY <1>3, <1>10, <2>4 DEF Tidy, Orderly
<1>11. QED
  BY <1>5, <1>6, <1>9, <1>10

\* A late request arrives; two of them never bring the same commit.
LEMMA TidyLate ==
  ASSUME Typed, Numbered(gh), HeadsInv, NEW r \in late, LateArrival(r)
  PROVE  Tidy
<1>1. gh \in Repo /\ Well(gh) /\ r \in Request
  BY DEF Typed, HeadsInv
<1>2. late' = late \ {r}
  BY DEF LateArrival
<1>3. CASE gh' = gh
  BY <1>1, <1>2, <1>3, OrderlySame, TidyStep
<1>4. CASE Accepts(gh, r) /\ gh' = Apply(gh, r)
  <2>1. Orderly(gh, gh', IF r.kind = "advanceRef" THEN {r.to} ELSE {})
    BY <1>1, <1>4, OrderlyApply DEF HeadsInv
  <2>2. ASSUME NEW s \in late', s.kind = "advanceRef" PROVE Unused(gh', s.to)
    <3>1. Unused(gh, s.to) /\ (r.kind = "advanceRef" => s.to # r.to)
      BY <1>2, <2>2 DEF HeadsInv
    <3>2. s.to \in Nat
      BY <1>1, <3>1, RepoNumbers DEF Unused
    <3>3. QED
      BY <2>1, <3>1, <3>2 DEF Orderly
  <2>3. \A s, t \in late' : s.kind = "advanceRef" /\ t.kind = "advanceRef" /\ s.to = t.to => s = t
    BY <1>2 DEF HeadsInv
  <2>4. HeadsInv'
    BY <2>1, <2>2, <2>3 DEF HeadsInv, Orderly, Well, Unused
  <2>5. QED
    BY <2>1, <2>4 DEF Tidy, Orderly
<1>5. QED
  BY <1>3, <1>4 DEF LateArrival

\* A step that leaves the repository and the late requests alone.
LEMMA TidySame ==
  ASSUME Typed, HeadsInv, gh' = gh, late' = late
  PROVE  Tidy
BY OrderlySame, TidyStep DEF Typed, HeadsInv

\* Every step.
LEMMA EveryStepTidy ==
  ASSUME Ready, PublicationInv, HeadsInv, Next
  PROVE  Tidy
<1>1. Typed /\ Numbered(gh) /\ Well(gh)
  BY DEF Ready, HeadsInv
<1>2. ASSUME NEW e \in Execs, Begin(e) \/ ReadSteps(e) PROVE Tidy
  <2>1. gh' = gh /\ late' = late
    BY <1>2 DEF Begin, ReadSteps, ReadBranches, ReadPullRequests, ReadFailure, IssueValidateInitial,
       IssuePlanning, IssueVerifying, IssueClassifyingFailure, IssueRecoveryOutcome,
       ReadyPlanning, ReadyVerifying, AbortPlanning, AbortVerifying, AbortRecoveryPlanning,
       MergeAdmission, MergeVerifying, ReadDone
  <2>2. QED
    BY <1>1, <2>1, TidySame
<1>3. ASSUME NEW e \in Execs,
             \/ ReadProvenance(e) \/ RereadProvenance(e) \/ CheckDraft(e) \/ CheckGeneration(e)
             \/ EffectReadFailure(e) \/ AdmitMergeTarget(e) \/ RereadMerged(e)
             \/ MergeReadFailure(e) \/ Crash(e)
      PROVE  Tidy
  <2>1. gh' = gh /\ late' = late
    BY <1>3 DEF ReadProvenance, RereadProvenance, CheckDraft, CheckGeneration, EffectReadFailure,
       AdmitMergeTarget, RereadMerged, MergeReadFailure, Crash, Observe, RefusedAnyway
  <2>2. QED
    BY <1>1, <2>1, TidySame
<1>4. ASSUME NEW e \in Execs,
             \/ CreateBranch(e) \/ CreatePullRequest(e) \/ MarkPullRequestReady(e)
             \/ ClosePullRequest(e) \/ DeleteBranchIfUnchanged(e) \/ MergePullRequest(e)
      PROVE  Tidy
  <2>1. /\ ex[e] \in Execution /\ ex[e].plan \in Plan /\ ex[e].made \in Shas
        /\ ex[e].plan.pr \in PRNumbers /\ ex[e].plan.sha \in Shas
        /\ NoSha \in Shas /\ BaseSha \in Shas /\ NoPR \in PRNumbers
    BY <1>1, MaxCommitsAssumption, MaxPRsAssumption DEF Typed, Execution, Plan, Shas, PRNumbers
  <2>2. ExpectedSha(ex[e]) \in Shas
    BY <2>1 DEF ExpectedSha
  <2>3. ASSUME NEW kind \in RequestKind, NEW pr \in PRNumbers, NEW from \in Shas, NEW to \in Shas
        PROVE  /\ RequestOf(e, kind, pr, from, to) \in Request
               /\ RequestOf(e, kind, pr, from, to).kind = kind
    BY DEF RequestOf, Request
  <2>4. \E r \in Request : \E ok, refused, unknown :
           r.kind # "advanceRef" /\ Send(e, r, ok, refused, unknown)
    <3>1. CASE CreateBranch(e)
      BY <2>1, <2>3, <3>1 DEF CreateBranch, SendEffect, RequestKind
    <3>2. CASE CreatePullRequest(e)
      BY <2>1, <2>3, <3>2 DEF CreatePullRequest, SendEffect, RequestKind
    <3>3. CASE MarkPullRequestReady(e)
      BY <2>1, <2>3, <3>3 DEF MarkPullRequestReady, SendEffect, RequestKind
    <3>4. CASE ClosePullRequest(e)
      BY <2>1, <2>3, <3>4 DEF ClosePullRequest, SendEffect, RequestKind
    <3>5. CASE DeleteBranchIfUnchanged(e)
      BY <2>1, <2>2, <2>3, <3>5 DEF DeleteBranchIfUnchanged, SendEffect, RequestKind
    <3>6. CASE MergePullRequest(e)
      BY <2>1, <2>3, <3>6 DEF MergePullRequest, RequestKind
    <3>7. QED
      BY <1>4, <3>1, <3>2, <3>3, <3>4, <3>5, <3>6
  <2>5. QED
    BY <1>1, <2>4, TidySend
<1>5. CASE HumanStep
  <2>1. late' = late
    BY <1>5, PeopleTouchRepo
  <2>2. QED
    BY <1>1, <1>5, <2>1, OrderlyHuman, TidyStep
<1>6. ASSUME NEW e \in Execs, EffectSteps(e) PROVE Tidy
  BY <1>3, <1>4, <1>6, TidyAdvance DEF EffectSteps
<1>7. QED
  BY <1>1, <1>2, <1>3, <1>5, <1>6, TidyLate DEF Next, Step, ExecStep

\* At first there is no branch and no pull request.
LEMMA HeadsInvInit == Init => HeadsInv
BY DEF Init, FreshRepo, NoPullRequest, HeadsInv, Well

\* The invariants of the other proof modules, together.
Base == Inv /\ RequestInv /\ HeadsInv

\* What a step may rely on.
LEMMA BaseReady ==
  ASSUME Base
  PROVE  Ready /\ PublicationInv /\ HeadsInv /\ Typed /\ gh \in Repo
BY StillGrown DEF Base, Inv, Ready, TypeOK, Typed

\* Every step keeps them.
LEMMA HeadsInvStep ==
  ASSUME Inv, RequestInv, HeadsInv, [Next]_vars
  PROVE  HeadsInv'
<1>1. CASE Next
  BY <1>1, BaseReady, EveryStepTidy DEF Base, Tidy
<1>2. CASE UNCHANGED vars
  BY <1>2 DEF vars, HeadsInv, Well, Unused
<1>3. QED
  BY <1>1, <1>2

\* The branch never comes back to a head that it left, in every reachable state.
THEOREM HeadsInvariant == Spec => []HeadsInv
BY HeadsInvInit, HeadsInvStep, InvHolds, RequestInvariant, PTL DEF Spec

-----------------------------------------------------------------------------
(* What the calls of one read add up to. *)

\* What a branchless read would have said of the pull requests in S.
Unbranched(repo, S) ==
  [NoEvidence EXCEPT !.prs = [p \in PRIds |-> IF p \in S THEN repo.prs[p] ELSE NoPullRequest]]

\* After the call for the branch: no branch means that the pull requests of
\* that moment are frozen, and that the one of the plan is among them.
BranchRead(repo, x, t) ==
  \/ HasBranch(x.ev)
  \/ \E S \in SUBSET PRIds :
       /\ \A p \in S : Frozen(repo, p)
       /\ Claim(Unbranched(repo, S)) \in t
       /\ x.plan.pr # NoPR => x.plan.pr \in S

\* After the call for the pull requests: what they say with the branch was
\* true at one of the calls, or is final, or cannot verify the plan.
Grounded(repo, ev, plan, t) ==
  \/ Claim(ev) \in t
  \/ Status(ev) = "partial"
  \/ State(ev) = "MERGED" /\ repo.prs[OnlyPR(ev)].state = "merged"
  \/ State(ev) = "ABORTED" /\ ProjectedPR(ev) # plan.pr

\* A plan names a pull request that exists; one that ends in ABORTED names one
\* unless it is branch-only cleanup.
Named(repo, plan) ==
  /\ plan.pr # NoPR => repo.prs[plan.pr].state # "none"
  /\ plan.state = "ABORTED" => plan.pr # NoPR \/ BranchOnlyAbort(plan)

\* What e says at its end speaks for itself, was true, or is a merge for good.
Told(repo, e, x, t) ==
  \/ x.st # "done"
  \/ x.result \notin Success \cup {"compensated"} /\ ~(Op[e] = "issue" /\ x.result = "failed")
  \/ Claim(x.ev) \in t
  \/ State(x.ev) = "MERGED" /\ repo.prs[OnlyPR(x.ev)].state = "merged"

\* All of it for e in local state x, when t was true at the calls of its read.
Reported(repo, e, x, t) ==
  /\ Named(repo, x.plan)
  /\ x.st \in ReadStates /\ x.step = 1 => BranchRead(repo, x, t)
  /\ x.st \in ReadStates /\ x.step = 2 => Grounded(repo, x.ev, x.plan, t)
  /\ Told(repo, e, x, t)

ReportInv == \A e \in Execs : Reported(gh, e, ex[e], truth[e])

\* Projection looks at the branch and at the listed pull requests only.
LEMMA SameView ==
  ASSUME NEW ev, NEW new, HasBranch(ev) <=> HasBranch(new), Listed(ev) = Listed(new),
         \A p \in Listed(ev) : ev.prs[p] = new.prs[p]
  PROVE  /\ SinglePR(ev) <=> SinglePR(new)
         /\ SinglePR(ev) => OnlyPR(ev) = OnlyPR(new) /\ ev.prs[OnlyPR(ev)] = new.prs[OnlyPR(ev)]
         /\ Status(ev) = Status(new) /\ State(ev) = State(new)
         /\ Claim(ev) = Claim(new) /\ ProjectedPR(ev) = ProjectedPR(new)
<1>1. SinglePR(ev) <=> SinglePR(new)
  BY DEF SinglePR
<1>2. SinglePR(ev) => OnlyPR(ev) = OnlyPR(new) /\ ev.prs[OnlyPR(ev)] = new.prs[OnlyPR(ev)]
  <2>1. SinglePR(ev) => Listed(ev) = {OnlyPR(ev)} /\ Listed(new) = {OnlyPR(new)}
    BY <1>1, OnlyPRType
  <2>2. QED
    BY <2>1
<1>3. ClosedUnmerged(ev) <=> ClosedUnmerged(new)
  BY <1>1, <1>2 DEF ClosedUnmerged
<1>4. Status(ev) = Status(new)
  BY <1>1, <1>3 DEF Status
<1>5. Status(ev) = "healthy" => SinglePR(ev)
  BY DEF Status, ClosedUnmerged
<1>6. State(ev) = State(new)
  BY <1>2, <1>4, <1>5 DEF State
<1>7. ProjectedPR(ev) = ProjectedPR(new)
  BY <1>1, <1>2 DEF ProjectedPR
<1>8. QED
  BY <1>1, <1>2, <1>4, <1>6, <1>7 DEF Claim

\* The same branch and the same pull requests give the same view.
LEMMA SamePRs ==
  ASSUME NEW ev, NEW new, HasBranch(ev) <=> HasBranch(new), ev.prs = new.prs
  PROVE  /\ Listed(ev) = Listed(new)
         /\ SinglePR(ev) <=> SinglePR(new)
         /\ SinglePR(ev) => OnlyPR(ev) = OnlyPR(new)
         /\ Status(ev) = Status(new) /\ State(ev) = State(new)
         /\ Claim(ev) = Claim(new) /\ ProjectedPR(ev) = ProjectedPR(new)
<1>1. Listed(ev) = Listed(new)
  BY DEF Listed
<1>2. QED
  BY <1>1, SameView

\* What the projection of a read says, case by case.
LEMMA Views ==
  ASSUME NEW ev
  PROVE  /\ Listed(ev) # {} /\ ~SinglePR(ev) => Status(ev) = "duplicate"
         /\ Listed(ev) = {} => Status(ev) = IF HasBranch(ev) THEN "partial" ELSE "absent"
         /\ SinglePR(ev) /\ ev.prs[OnlyPR(ev)].state = "closed" =>
              IF HasBranch(ev) THEN Status(ev) = "partial"
              ELSE Status(ev) = "healthy" /\ State(ev) = "ABORTED"
         /\ SinglePR(ev) /\ ev.prs[OnlyPR(ev)].state # "closed" =>
              Status(ev) = IF HasBranch(ev) THEN "healthy" ELSE "partial"
         /\ SinglePR(ev) /\ ev.prs[OnlyPR(ev)].state = "merged" /\ HasBranch(ev) =>
              State(ev) = "MERGED"
         /\ Status(ev) = "healthy" => SinglePR(ev)
         /\ State(ev) \in {"MERGED", "ABORTED"} => Status(ev) = "healthy"
         /\ Status(ev) = "absent" => State(ev) = "DEFINED"
         /\ Status(ev) \in {"duplicate", "partial"} => State(ev) = "RECOVERY_REQUIRED"
<1>1. Listed(ev) = {} => ~SinglePR(ev)
  BY DEF SinglePR
<1>2. QED
  BY <1>1 DEF Status, State, ClosedUnmerged, ChangeStateFromPullRequest

\* A complete read that took the pull requests now is grounded.
LEMMA ReadGrounds ==
  ASSUME Typed, Well(gh), NEW x, NEW t, BranchRead(gh, x, t), Truth \in t,
         NEW ev, ev.branch = x.ev.branch, ev.prs = gh.prs
  PROVE  Grounded(gh, ev, x.plan, t)
<1>1. /\ gh \in Repo /\ \A p \in PRIds : gh.prs[p] \in PullRequest
      /\ Now.prs = gh.prs /\ Now.branch = gh.branch
  BY DEF Typed, Repo, Now
<1>2. Truth = Claim(Now)
  BY DEF Truth, Claim
<1>3. HasBranch(ev) <=> HasBranch(x.ev)
  BY DEF HasBranch
<1>4. Listed(ev) = Listed(Now) /\ (SinglePR(ev) <=> SinglePR(Now))
  BY <1>1 DEF Listed, SinglePR
<1>5. CASE Listed(ev) # {} /\ ~SinglePR(ev)
  <2>1. Claim(ev) = Claim(Now)
    BY <1>4, <1>5, Views DEF Claim
  <2>2. QED
    BY <1>2, <2>1 DEF Grounded
<1>6. CASE HasBranch(ev)
  <2>1. CASE HasBranch(Now)
    BY <1>1, <1>2, <1>6, <2>1, SamePRs DEF Grounded
  <2>2. CASE ~HasBranch(Now)
    <3>1. CASE Listed(ev) = {}
      BY <1>6, <3>1, Views DEF Grounded
    <3>2. CASE SinglePR(ev)
      <4> DEFINE p == OnlyPR(ev)
      <4>1. p \in PRIds /\ p \in Listed(ev)
        BY <3>2, OnlyPRType
      <4>2. gh.prs[p].state \notin {"none", "open"} /\ gh.prs[p].state \in PRState
        BY <1>1, <2>2, <4>1 DEF Listed, Well, HasBranch, PullRequest
      <4>3. QED
        BY <1>6, <3>2, <4>2, Views DEF Grounded, PRState
    <3>3. QED
      BY <1>5, <3>1, <3>2
  <2>3. QED
    BY <2>1, <2>2
<1>7. CASE ~HasBranch(ev)
  <2>1. PICK S \in SUBSET PRIds : /\ \A p \in S : Frozen(gh, p)
                                  /\ Claim(Unbranched(gh, S)) \in t
                                  /\ x.plan.pr # NoPR => x.plan.pr \in S
    BY <1>3, <1>7 DEF BranchRead
  <2> DEFINE un == Unbranched(gh, S)
  <2>2. /\ un.prs = [p \in PRIds |-> IF p \in S THEN gh.prs[p] ELSE NoPullRequest]
        /\ ~HasBranch(un)
    BY DEF Unbranched, NoEvidence, HasBranch
  <2>3. NoPullRequest.state = "none"
    BY DEF NoPullRequest
  <2> HIDE DEF un
  <2>4. CASE Listed(ev) \subseteq S
    <3>1. Listed(un) = Listed(ev)
      BY <2>2, <2>3, <2>4 DEF Listed
    <3>2. \A p \in Listed(un) : un.prs[p] = ev.prs[p]
      BY <2>2, <2>4, <3>1
    <3>3. Claim(un) = Claim(ev)
      BY <1>7, <2>2, <3>1, <3>2, SameView
    <3>4. QED
      BY <2>1, <3>3 DEF Grounded, un
  <2>5. CASE ~(Listed(ev) \subseteq S) /\ SinglePR(ev)
    <3> DEFINE q == OnlyPR(ev)
    <3>1. q \in PRIds /\ Listed(ev) = {q}
      BY <2>5, OnlyPRType
    <3>2. q \notin S
      BY <2>5, <3>1
    <3>3. q # NoPR
      BY <3>1 DEF PRIds
    <3>4. q # x.plan.pr
      BY <2>1, <3>2, <3>3
    <3>5. ProjectedPR(ev) = q
      BY <2>5 DEF ProjectedPR
    <3>6. QED
      BY <1>7, <2>5, <3>4, <3>5, Views DEF Grounded
  <2>6. CASE ~(Listed(ev) \subseteq S) /\ ~SinglePR(ev)
    BY <1>5, <2>6
  <2>7. QED
    BY <2>4, <2>5, <2>6
<1>8. QED
  BY <1>6, <1>7

\* The first call: without a branch, every pull request is frozen.
LEMMA BranchCall ==
  ASSUME Typed, Well(gh), NEW x, x.plan \in Plan, Named(gh, x.plan),
         x.ev.branch = gh.branch
  PROVE  BranchRead(gh, x, {Truth})
<1>1. /\ gh \in Repo /\ \A p \in PRIds : gh.prs[p] \in PullRequest
      /\ Now.prs = gh.prs /\ Now.branch = gh.branch
      /\ \A p \in PRIds : gh.prs[p].head \in Nat
  BY RepoNumbers DEF Typed, Now
<1>2. Truth = Claim(Now)
  BY DEF Truth, Claim
<1>3. CASE gh.branch = NoSha
  <2> DEFINE S  == {p \in PRIds : gh.prs[p].state # "none"}
             un == Unbranched(gh, S)
  <2>1. \A p \in S : Frozen(gh, p)
    BY <1>1, <1>3 DEF Frozen, Well, PullRequest, PRState
  <2>2. /\ un.prs = [p \in PRIds |-> IF p \in S THEN gh.prs[p] ELSE NoPullRequest]
        /\ ~HasBranch(un) /\ ~HasBranch(Now)
    BY <1>1, <1>3 DEF Unbranched, NoEvidence, HasBranch
  <2>3. NoPullRequest.state = "none"
    BY DEF NoPullRequest
  <2>4. x.plan.pr # NoPR => x.plan.pr \in S
    BY MaxPRsAssumption DEF Named, Plan, PRNumbers, PRIds
  <2>5. Listed(un) = Listed(Now) /\ \A p \in Listed(un) : un.prs[p] = Now.prs[p]
    <3> HIDE DEF un
    <3>1. \A p \in PRIds : gh.prs[p].state = "none" <=> p \notin S
      OBVIOUS
    <3>2. Listed(un) = Listed(Now)
      BY <1>1, <2>2, <2>3, <3>1 DEF Listed
    <3>3. Listed(un) \subseteq S /\ S \subseteq PRIds
      BY <2>2, <2>3 DEF Listed
    <3> HIDE DEF S
    <3>4. QED
      BY <1>1, <2>2, <3>2, <3>3
  <2> HIDE DEF un
  <2>6. Claim(un) = Claim(Now)
    BY <2>2, <2>5, SameView
  <2>7. S \in SUBSET PRIds /\ Claim(un) \in {Truth}
    BY <1>2, <2>6
  <2> HIDE DEF S
  <2>8. QED
    BY <2>1, <2>4, <2>7 DEF BranchRead, un
<1>4. CASE gh.branch # NoSha
  BY <1>4 DEF BranchRead, HasBranch
<1>5. QED
  BY <1>3, <1>4

\* A grounded read that proves what it was made for was true.
LEMMA GroundedProof ==
  ASSUME NEW repo, NEW plan, NEW ev, NEW t, Grounded(repo, ev, plan, t), Named(repo, plan),
         \/ Status(ev) = "absent"
         \/ VerifyProjection(plan, ev)
         \/ Status(ev) = "healthy" /\ State(ev) = "MERGED"
  PROVE  Claim(ev) \in t \/ (State(ev) = "MERGED" /\ repo.prs[OnlyPR(ev)].state = "merged")
<1>1. CASE Status(ev) = "absent"
  BY <1>1, Views DEF Grounded
<1>2. CASE Status(ev) = "healthy" /\ State(ev) = "MERGED"
  BY <1>2 DEF Grounded
<1>3. CASE VerifyProjection(plan, ev) /\ BranchOnlyAbort(plan)
  BY <1>1, <1>3 DEF VerifyProjection, AbortCleanupComplete
<1>4. CASE VerifyProjection(plan, ev) /\ ~BranchOnlyAbort(plan)
  <2>1. Status(ev) = "healthy" /\ State(ev) = plan.state
        /\ (plan.pr # NoPR => ProjectedPR(ev) = plan.pr)
    BY <1>4 DEF VerifyProjection
  <2>2. ~(State(ev) = "ABORTED" /\ ProjectedPR(ev) # plan.pr)
    BY <1>4, <2>1 DEF Named
  <2>3. QED
    BY <2>1, <2>2 DEF Grounded
<1>5. QED
  BY <1>1, <1>2, <1>3, <1>4

-----------------------------------------------------------------------------
(* What one step does to the report of one execution. *)

\* What holds of an execution that does not move holds after the step.
LEMMA StillReported ==
  ASSUME Typed, Kept(gh, gh'), Orderly(gh, gh', Nat), NEW e, NEW x, NEW t, x.plan \in Plan,
         Reported(gh, e, x, t)
  PROVE  Reported(gh', e, x, t)
<1>1. \A p \in PRIds : PRKept(gh.prs[p], gh'.prs[p])
  BY DEF Kept
<1>2. Named(gh', x.plan)
  <2>1. x.plan.pr # NoPR => x.plan.pr \in PRIds
    BY MaxPRsAssumption DEF Plan, PRNumbers, PRIds
  <2>2. QED
    BY <1>1, <2>1 DEF Reported, Named, PRKept
<1>3. ASSUME NEW S \in SUBSET PRIds, \A p \in S : Frozen(gh, p)
      PROVE  (\A p \in S : Frozen(gh', p)) /\ Unbranched(gh', S) = Unbranched(gh, S)
  <2>1. \A p \in S : Frozen(gh', p) /\ gh'.prs[p] = gh.prs[p]
    BY <1>3 DEF Orderly
  <2>2. [p \in PRIds |-> IF p \in S THEN gh'.prs[p] ELSE NoPullRequest]
          = [p \in PRIds |-> IF p \in S THEN gh.prs[p] ELSE NoPullRequest]
    BY <2>1
  <2>3. QED
    BY <2>1, <2>2 DEF Unbranched
<1>4. BranchRead(gh, x, t) => BranchRead(gh', x, t)
  BY <1>3 DEF BranchRead
<1>5. ASSUME NEW ev, State(ev) = "MERGED", gh.prs[OnlyPR(ev)].state = "merged"
      PROVE  gh'.prs[OnlyPR(ev)].state = "merged"
  <2>1. SinglePR(ev)
    BY <1>5, Views
  <2>2. OnlyPR(ev) \in PRIds
    BY <2>1, OnlyPRType
  <2>3. QED
    BY <1>1, <1>5, <2>2 DEF PRKept
<1>6. Grounded(gh, x.ev, x.plan, t) => Grounded(gh', x.ev, x.plan, t)
  BY <1>5 DEF Grounded
<1>7. Told(gh', e, x, t)
  BY <1>5 DEF Reported, Told
<1>8. QED
  BY <1>2, <1>4, <1>6, <1>7 DEF Reported

\* One execution moves, to a local state that is reported.
LEMMA OneReported ==
  ASSUME Typed, Typed', ReportInv, Kept(gh, gh'), Orderly(gh, gh', Nat),
         NEW e \in Execs, NEW y, ex' = [ex EXCEPT ![e] = y],
         \A f \in Execs : f # e => truth'[f] = truth[f],
         Reported(gh, e, y, truth'[e])
  PROVE  ReportInv'
<1>1. ASSUME NEW f \in Execs PROVE Reported(gh', f, ex'[f], truth'[f])
  <2>1. ex'[f].plan \in Plan
    BY DEF Typed, Execution
  <2>2. CASE f = e
    <3>1. ex'[f] = y
      BY <2>2 DEF Typed
    <3>2. Reported(gh, f, ex'[f], truth'[f])
      BY <2>2, <3>1
    <3>3. QED
      BY <2>1, <3>2, StillReported
  <2>3. CASE f # e
    <3>1. ex'[f] = ex[f] /\ truth'[f] = truth[f]
      BY <2>3 DEF Typed
    <3>2. Reported(gh, f, ex'[f], truth'[f])
      BY <3>1 DEF ReportInv
    <3>3. QED
      BY <2>1, <3>2, StillReported
  <2>4. QED
    BY <2>2, <2>3
<1>2. QED
  BY <1>1 DEF ReportInv, Reported, Named, BranchRead, Frozen, Grounded, Told, Unbranched

\* A step of e that reads nothing and reports no success.
Silent(e, x, y) ==
  /\ y.plan = x.plan
  /\ y.st \in ReadStates => y.step = 0
  /\ y.st = "done" =>
       y.result \notin Success \cup {"compensated"} /\ ~(Op[e] = "issue" /\ y.result = "failed")

\* Such a step is reported.
LEMMA SilentReported ==
  ASSUME NEW e \in Execs, NEW y, ReportInv, Silent(e, ex[e], y), NEW t
  PROVE  Reported(gh, e, y, t)
BY DEF ReportInv, Reported, Silent, Told

\* The forms of such a step.
LEMMA SilentForms ==
  ASSUME NEW e, NEW x \in Execution
  PROVE  /\ \A r : r \notin Success \cup {"compensated", "failed"} => Silent(e, x, Finish(x, r))
         /\ \A r : r = "failed" /\ Op[e] # "issue" => Silent(e, x, Finish(x, r))
         /\ \A st : st # "done" => Silent(e, x, Goto(x, st))
         /\ \A m, st : st # "done" => Silent(e, x, Goto([x EXCEPT !.mode = m], st))
         /\ x.st \in ApplyStates \cup {"merging"} =>
              /\ Silent(e, x, Advance(x))
              /\ \A m : Silent(e, x, Advance([x EXCEPT !.mode = m]))
              /\ \A c : Silent(e, x, Advance([x EXCEPT !.made = c]))
<1>1. ASSUME NEW r
      PROVE  Finish(x, r).st = "done" /\ Finish(x, r).result = r /\ Finish(x, r).plan = x.plan
  BY DEF Finish, Execution
<1>2. \A r : r \notin Success \cup {"compensated", "failed"} => Silent(e, x, Finish(x, r))
  BY <1>1 DEF Silent, ReadStates
<1>3. \A r : r = "failed" /\ Op[e] # "issue" => Silent(e, x, Finish(x, r))
  BY <1>1 DEF Silent, ReadStates, Success
<1>4. ASSUME NEW st, st # "done", NEW m
      PROVE  Silent(e, x, Goto(x, st)) /\ Silent(e, x, Goto([x EXCEPT !.mode = m], st))
  <2>1. /\ Goto(x, st).st = st /\ Goto(x, st).step = 0 /\ Goto(x, st).plan = x.plan
        /\ Goto([x EXCEPT !.mode = m], st).st = st /\ Goto([x EXCEPT !.mode = m], st).step = 0
        /\ Goto([x EXCEPT !.mode = m], st).plan = x.plan
    BY DEF Goto, Execution
  <2>2. QED
    BY <1>4, <2>1 DEF Silent
<1>5. ASSUME x.st \in ApplyStates \cup {"merging"}, NEW y, y.st = x.st, y.plan = x.plan
      PROVE  Silent(e, x, y)
  BY <1>5 DEF Silent, ApplyStates, ReadStates
<1>6. ASSUME NEW c
      PROVE  /\ Advance(x).st = x.st /\ Advance(x).plan = x.plan
             /\ Advance([x EXCEPT !.mode = c]).st = x.st
             /\ Advance([x EXCEPT !.mode = c]).plan = x.plan
             /\ Advance([x EXCEPT !.made = c]).st = x.st
             /\ Advance([x EXCEPT !.made = c]).plan = x.plan
  BY DEF Advance, Execution
<1>7. QED
  BY <1>2, <1>3, <1>4, <1>5, <1>6

\* An effect that ends, with or without what it made.
LEMMA SilentEffect ==
  ASSUME NEW e, NEW x \in Execution, x.st \in ApplyStates
  PROVE  /\ Silent(e, x, EffectDone(x)) /\ Silent(e, x, EffectFailed(x))
         /\ \A c \in Shas : Silent(e, x, EffectDone([x EXCEPT !.made = c]))
<1>1. ASSUME NEW z \in Execution, z.st \in ApplyStates PROVE Silent(e, z, EffectDone(z))
  <2>1. CASE z.st # "applyingCompensation" /\ z.idx < Len(Effects(z.plan.kind))
    <3> DEFINE y == [z EXCEPT !.idx = z.idx + 1, !.step = 0]
    <3>1. y.st = z.st /\ y.plan = z.plan
      BY DEF Execution
    <3>2. EffectDone(z) = y
      BY <2>1 DEF EffectDone
    <3> HIDE DEF y
    <3>3. QED
      BY <1>1, <3>1, <3>2 DEF Silent, ApplyStates, ReadStates
  <2>2. CASE z.st = "applyingCompensation" \/ ~(z.idx < Len(Effects(z.plan.kind)))
    BY <2>2, SilentForms DEF EffectDone
  <2>3. QED
    BY <2>1, <2>2
<1>2. Silent(e, x, EffectFailed(x))
  BY SilentForms DEF EffectFailed
<1>3. ASSUME NEW c \in Shas PROVE Silent(e, x, EffectDone([x EXCEPT !.made = c]))
  <2> DEFINE z == [x EXCEPT !.made = c]
  <2>1. z \in Execution
    BY ExecutionType
  <2>2. z.st = x.st /\ z.plan = x.plan
    BY DEF Execution
  <2> HIDE DEF z
  <2>3. Silent(e, z, EffectDone(z))
    BY <1>1, <2>1, <2>2
  <2>4. Silent(e, x, EffectDone(z))
    BY <2>2, <2>3 DEF Silent
  <2>5. QED
    BY <2>4 DEF z
<1>4. QED
  BY <1>1, <1>2, <1>3

\* The steps that read nothing, and a read that fails.
LEMMA SilentSteps ==
  ASSUME Ready, NEW e \in Execs,
         Begin(e) \/ EffectSteps(e) \/ ReadFailure(e) \/ Crash(e)
  PROVE  \E y : Silent(e, ex[e], y) /\ ex' = [ex EXCEPT ![e] = y] /\ truth' = truth
<1>1. /\ ex[e] \in Execution /\ gh.branch \in Shas
      /\ ex[e].st = "merging" => Op[e] = "merge"
  BY DEF Ready, Typed, Repo, RequestInv, StatesFitOperation
<1>2. ASSUME NEW y, Silent(e, ex[e], y), ex' = [ex EXCEPT ![e] = y], truth' = truth
      PROVE  \E z : Silent(e, ex[e], z) /\ ex' = [ex EXCEPT ![e] = z] /\ truth' = truth
  BY <1>2
<1>3. ASSUME NEW y, Silent(e, ex[e], y), Observe(e, y) \/ RefusedAnyway(e, y)
      PROVE  \E z : Silent(e, ex[e], z) /\ ex' = [ex EXCEPT ![e] = z] /\ truth' = truth
  BY <1>3 DEF Observe, RefusedAnyway
<1>4. ASSUME NEW r, NEW ok, NEW refused, NEW unknown, Send(e, r, ok, refused, unknown),
             Silent(e, ex[e], ok), Silent(e, ex[e], refused), Silent(e, ex[e], unknown)
      PROVE  \E z : Silent(e, ex[e], z) /\ ex' = [ex EXCEPT ![e] = z] /\ truth' = truth
  BY <1>4 DEF Send, Acknowledged, Refused, RefusedAnyway, AnswerLost, TimedOut, Observe
<1>5. CASE Begin(e)
  BY <1>1, <1>2, <1>5, SilentForms DEF Begin
<1>6. CASE ReadFailure(e)
  <2>1. PICK r \in {"recovery-required", "recovery-failed", "read-failed"} :
          ex' = [ex EXCEPT ![e] = Finish(ex[e], r)] /\ truth' = truth
    BY <1>6 DEF ReadFailure
  <2>2. Silent(e, ex[e], Finish(ex[e], r))
    BY <1>1, SilentForms DEF Success
  <2>3. QED
    BY <1>2, <2>1, <2>2
<1>7. CASE Crash(e)
  <2>1. Silent(e, ex[e], Finish(ex[e], "crashed"))
    BY <1>1, SilentForms DEF Success
  <2>2. QED
    BY <1>3, <1>7, <2>1 DEF Crash
<1>8. ASSUME NEW r, ex[e].st \in ApplyStates, SendEffect(e, r)
      PROVE  \E z : Silent(e, ex[e], z) /\ ex' = [ex EXCEPT ![e] = z] /\ truth' = truth
  <2>1. Silent(e, ex[e], EffectDone(ex[e])) /\ Silent(e, ex[e], EffectFailed(ex[e]))
    BY <1>1, <1>8, SilentEffect
  <2>2. QED
    BY <1>4, <1>8, <2>1 DEF SendEffect
<1>9. CASE \/ CreateBranch(e) \/ CreatePullRequest(e) \/ MarkPullRequestReady(e)
           \/ ClosePullRequest(e) \/ DeleteBranchIfUnchanged(e)
  BY <1>8, <1>9 DEF CreateBranch, CreatePullRequest, MarkPullRequestReady, ClosePullRequest,
     DeleteBranchIfUnchanged, AtEffect
<1>10. ASSUME ex[e].st \in ApplyStates
       PROVE  /\ Silent(e, ex[e], EffectDone(ex[e])) /\ Silent(e, ex[e], EffectFailed(ex[e]))
              /\ Silent(e, ex[e], Advance(ex[e]))
              /\ \A c : Silent(e, ex[e], Advance([ex[e] EXCEPT !.made = c]))
              /\ Silent(e, ex[e], EffectDone([ex[e] EXCEPT !.made = gh.branch]))
  BY <1>1, <1>10, SilentEffect, SilentForms
<1>11. CASE ReadProvenance(e)
  BY <1>3, <1>10, <1>11 DEF ReadProvenance, AtEffect
<1>12. CASE RereadProvenance(e) \/ CheckDraft(e) \/ CheckGeneration(e)
  BY <1>3, <1>10, <1>12 DEF RereadProvenance, CheckDraft, CheckGeneration, AtEffect
<1>13. CASE EffectReadFailure(e)
  BY <1>3, <1>10, <1>13 DEF EffectReadFailure
<1>14. CASE AdvanceProvenance(e)
  <2>1. \/ ex' = [ex EXCEPT ![e] = Advance([ex[e] EXCEPT !.made = gh.n + 1])]
        \/ ex' = [ex EXCEPT ![e] = EffectFailed(ex[e])]
    BY <1>14 DEF AdvanceProvenance
  <2>2. truth' = truth /\ ex[e].st \in ApplyStates
    BY <1>14 DEF AdvanceProvenance, AtEffect
  <2>3. QED
    BY <1>2, <1>10, <2>1, <2>2
<1>15. ASSUME ex[e].st = "merging"
       PROVE  /\ Silent(e, ex[e], Finish(ex[e], "precondition-failed"))
              /\ Silent(e, ex[e], Finish(ex[e], "recovery-required"))
              /\ Silent(e, ex[e], Finish(ex[e], "failed"))
              /\ \A m : Silent(e, ex[e], Goto([ex[e] EXCEPT !.mode = m], "rereading"))
              /\ Silent(e, ex[e], Advance(ex[e]))
              /\ \A m : Silent(e, ex[e], Advance([ex[e] EXCEPT !.mode = m]))
  <2>1. \A r \in {"precondition-failed", "recovery-required"} :
          r \notin Success \cup {"compensated", "failed"}
    BY DEF Success
  <2>2. QED
    BY <1>1, <1>15, <2>1, SilentForms
<1>16. CASE AdmitMergeTarget(e)
  <2>1. \/ Observe(e, Finish(ex[e], "precondition-failed"))
        \/ Observe(e, Goto([ex[e] EXCEPT !.mode = "idempotent"], "rereading"))
        \/ Observe(e, Advance(ex[e]))
    BY <1>16 DEF AdmitMergeTarget
  <2>2. ex[e].st = "merging"
    BY <1>16 DEF AdmitMergeTarget
  <2>3. QED
    BY <1>3, <1>15, <2>1, <2>2
<1>17. CASE MergePullRequest(e)
  BY <1>4, <1>15, <1>17 DEF MergePullRequest
<1>18. CASE RereadMerged(e)
  <2>1. \/ \E m : Observe(e, Goto([ex[e] EXCEPT !.mode = m], "rereading"))
        \/ Observe(e, Finish(ex[e], "recovery-required"))
        \/ Observe(e, Finish(ex[e], "failed"))
    BY <1>18 DEF RereadMerged
  <2>2. ex[e].st = "merging"
    BY <1>18 DEF RereadMerged
  <2>3. QED
    BY <1>3, <1>15, <2>1, <2>2
<1>19. CASE MergeReadFailure(e)
  <2>1. \/ RefusedAnyway(e, Finish(ex[e], "failed"))
        \/ RefusedAnyway(e, Finish(ex[e], "recovery-required"))
    BY <1>19 DEF MergeReadFailure
  <2>2. ex[e].st = "merging"
    BY <1>19 DEF MergeReadFailure
  <2>3. QED
    BY <1>3, <1>15, <2>1, <2>2
<1>20. QED
  BY <1>5, <1>6, <1>7, <1>9, <1>11, <1>12, <1>13, <1>14, <1>16, <1>17, <1>18, <1>19 DEF EffectSteps

-----------------------------------------------------------------------------
(* The calls of a read, and what is made of a complete one. *)

\* e moves to a local state that is reported, and only its history changes.
Speaks(e) ==
  \E y : /\ ex' = [ex EXCEPT ![e] = y]
         /\ Reported(gh, e, y, truth'[e])
         /\ \A f \in Execs : f # e => truth'[f] = truth[f]

\* What a complete read says was true at one of its calls, or is a merge.
Proven(e) ==
  \/ Claim(LastRead(e)) \in truth[e] \cup {Truth}
  \/ State(LastRead(e)) = "MERGED" /\ gh.prs[OnlyPR(LastRead(e))].state = "merged"

\* More history keeps a read grounded, and so does evidence with the same view.
LEMMA GroundedSame ==
  ASSUME NEW repo, NEW ev, NEW new, NEW plan, NEW t, NEW u, t \subseteq u,
         ev.branch = new.branch, ev.prs = new.prs, Grounded(repo, ev, plan, t)
  PROVE  Grounded(repo, new, plan, u)
<1>1. HasBranch(ev) <=> HasBranch(new)
  BY DEF HasBranch
<1>2. /\ SinglePR(ev) => OnlyPR(ev) = OnlyPR(new)
      /\ Status(ev) = Status(new) /\ State(ev) = State(new)
      /\ Claim(ev) = Claim(new) /\ ProjectedPR(ev) = ProjectedPR(new)
  BY <1>1, SamePRs
<1>3. State(ev) = "MERGED" => SinglePR(ev)
  BY Views
<1>4. QED
  BY <1>2, <1>3 DEF Grounded

\* A complete read is grounded.
LEMMA LastReadGrounded ==
  ASSUME Typed, Well(gh), ReportInv, NEW e \in Execs, NEW st, AtLastRead(e, st),
         st # "readingInitial"
  PROVE  Grounded(gh, LastRead(e), ex[e].plan, truth[e] \cup {Truth})
<1> DEFINE t == truth[e] \cup {Truth}
<1>1. /\ ex[e] \in Execution /\ ex[e].ev \in Evidence /\ ex[e].st \in ReadStates
      /\ Reported(gh, e, ex[e], truth[e])
  BY DEF Typed, Execution, AtLastRead, ReportInv
<1>2. CASE Op[e] = "abort"
  <2>1. ex[e].step = 1
    BY <1>2 DEF AtLastRead, LastStep
  <2>2. BranchRead(gh, ex[e], truth[e])
    BY <1>1, <2>1 DEF Reported
  <2>3. BranchRead(gh, ex[e], t)
    BY <2>2 DEF BranchRead
  <2>4. LastRead(e).branch = ex[e].ev.branch /\ LastRead(e).prs = gh.prs
    BY <1>1, <1>2 DEF LastRead, Evidence
  <2>5. Truth \in t
    OBVIOUS
  <2> HIDE DEF t
  <2>6. Grounded(gh, LastRead(e), ex[e].plan, t)
    BY <2>3, <2>4, <2>5, ReadGrounds
  <2>7. QED
    BY <2>6 DEF t
<1>3. CASE Op[e] # "abort"
  <2>1. ex[e].step = 2
    BY <1>3 DEF AtLastRead, LastStep
  <2>2. Grounded(gh, ex[e].ev, ex[e].plan, truth[e])
    BY <1>1, <2>1 DEF Reported
  <2>3. LastRead(e).branch = ex[e].ev.branch /\ LastRead(e).prs = ex[e].ev.prs
    BY <1>1, <1>3 DEF LastRead, Evidence
  <2>4. QED
    BY <2>2, <2>3, GroundedSame
<1>4. QED
  BY <1>2, <1>3

\* A complete read that proves its plan, an absence or a merge was true.
LEMMA LastReadProven ==
  ASSUME Typed, Well(gh), ReportInv, NEW e \in Execs, NEW st, AtLastRead(e, st),
         st # "readingInitial",
         \/ Status(LastRead(e)) = "absent"
         \/ VerifyProjection(ex[e].plan, LastRead(e))
         \/ Status(LastRead(e)) = "healthy" /\ State(LastRead(e)) = "MERGED"
  PROVE  Proven(e)
<1>1. Grounded(gh, LastRead(e), ex[e].plan, truth[e] \cup {Truth})
  BY LastReadGrounded
<1>2. Named(gh, ex[e].plan)
  BY DEF ReportInv, Reported
<1>3. QED
  BY <1>1, <1>2, GroundedProof DEF Proven

\* A complete read leads on, or to a report that it proves.
LEMMA ReadDoneSpeaks ==
  ASSUME Typed, NEW e \in Execs, NEW y \in Execution, ReadDone(e, y),
         y.st \in ReadStates => y.step = 0, Named(gh, y.plan),
         y.st = "done" /\ (y.result \in Success \cup {"compensated"}
                           \/ (Op[e] = "issue" /\ y.result = "failed")) => Proven(e)
  PROVE  Speaks(e)
<1> DEFINE z == [y EXCEPT !.ev = LastRead(e)]
<1>1. /\ z.st = y.st /\ z.step = y.step /\ z.result = y.result /\ z.plan = y.plan
      /\ z.ev = LastRead(e)
  BY DEF Execution
<1>2. ex' = [ex EXCEPT ![e] = z] /\ truth' = [truth EXCEPT ![e] = truth[e] \cup {Truth}]
  BY DEF ReadDone
<1>3. truth'[e] = truth[e] \cup {Truth} /\ \A f \in Execs : f # e => truth'[f] = truth[f]
  BY <1>2 DEF Typed
<1> HIDE DEF z
<1>4. Told(gh, e, z, truth'[e])
  BY <1>1, <1>3 DEF Told, Proven
<1>5. Reported(gh, e, z, truth'[e])
  BY <1>1, <1>4 DEF Reported
<1>6. QED
  BY <1>2, <1>3, <1>5 DEF Speaks

\* The end of an execution after a complete read.
LEMMA ReadDoneFinishes ==
  ASSUME Typed, ReportInv, NEW e \in Execs, NEW r \in Outcome, ReadDone(e, Finish(ex[e], r)),
         r \in Success \cup {"compensated"} \/ (Op[e] = "issue" /\ r = "failed") => Proven(e)
  PROVE  Speaks(e)
<1>1. ex[e] \in Execution /\ Named(gh, ex[e].plan)
  BY DEF Typed, ReportInv, Reported
<1>2. Finish(ex[e], r) \in Execution
  BY <1>1, ExecutionType
<1>3. /\ Finish(ex[e], r).st = "done" /\ Finish(ex[e], r).result = r
      /\ Finish(ex[e], r).plan = ex[e].plan
  BY <1>1 DEF Finish, Execution
<1>4. "done" \notin ReadStates
  BY DEF ReadStates
<1>5. QED
  BY <1>1, <1>2, <1>3, <1>4, ReadDoneSpeaks

\* The end after a verifying reread.
LEMMA VerifiedSpeaks ==
  ASSUME Typed, ReportInv, NEW e \in Execs, NEW ok, ReadDone(e, Verified(e, ok)), ok => Proven(e)
  PROVE  Speaks(e)
<1>1. CASE ~ok
  <2>1. ReadDone(e, Finish(ex[e], "verification-failed"))
    BY <1>1 DEF Verified
  <2>2. QED
    BY <2>1, ReadDoneFinishes DEF Outcome, Success
<1>2. CASE ok
  <2>1. PICK r \in Success : ReadDone(e, Finish(ex[e], r))
    BY <1>2 DEF Verified, Success
  <2>2. QED
    BY <1>2, <2>1, ReadDoneFinishes DEF Outcome, Success
<1>3. QED
  BY <1>1, <1>2

\* Plans name pull requests that were read.
LEMMA PlansNamed ==
  ASSUME NEW repo, NEW ev, NEW commits,
         \A p \in PRIds : ev.prs[p].state # "none" => repo.prs[p].state # "none"
  PROVE  /\ Named(repo, NoPlan) /\ Named(repo, IssuancePlan(ev))
         /\ Named(repo, ReadyPlan(ev, commits)) /\ Named(repo, AbortPlan(ev))
         /\ Named(repo, MergePlan(ev))
<1>1. /\ NoPlan.kind = "none" /\ NoPlan.pr = NoPR /\ NoPlan.state = "DEFINED"
      /\ \A k, st, pr, sha : /\ PlanOf(k, st, pr, sha).kind = k
                             /\ PlanOf(k, st, pr, sha).state = st
                             /\ PlanOf(k, st, pr, sha).pr = pr
  BY DEF NoPlan, PlanOf
<1>2. ProjectedPR(ev) # NoPR => repo.prs[ProjectedPR(ev)].state # "none"
  BY OnlyPRType DEF ProjectedPR, Listed
<1>3. SinglePR(ev) => ProjectedPR(ev) # NoPR
  BY OnlyPRType DEF ProjectedPR, PRIds
<1>4. State(ev) = "ABORTED" => ProjectedPR(ev) # NoPR
  BY <1>3, Views
<1>5. Named(repo, NoPlan)
  BY <1>1 DEF Named
<1>6. \A k, sha : Named(repo, PlanOf(k, State(ev), ProjectedPR(ev), sha))
  BY <1>1, <1>2, <1>4 DEF Named
<1>7. \A k, st, sha : st # "ABORTED" => /\ Named(repo, PlanOf(k, st, ProjectedPR(ev), sha))
                                        /\ Named(repo, PlanOf(k, st, NoPR, sha))
  BY <1>1, <1>2 DEF Named
<1>8. Named(repo, IssuancePlan(ev))
  BY <1>5, <1>6, <1>7 DEF IssuancePlan
<1>9. Named(repo, ReadyPlan(ev, commits))
  BY <1>5, <1>7 DEF ReadyPlan
<1>10. Named(repo, MergePlan(ev))
  BY <1>5, <1>7 DEF MergePlan
<1>11. Named(repo, AbortPlan(ev))
  <2>1. \A sha : Named(repo, PlanOf("delete-leftover", "ABORTED", ProjectedPR(ev), sha))
    BY <1>1, <1>2 DEF Named, BranchOnlyAbort
  <2>2. \A k, sha : ProjectedPR(ev) # NoPR => Named(repo, PlanOf(k, "ABORTED", ProjectedPR(ev), sha))
    BY <1>1, <1>2 DEF Named
  <2>3. Admits("abort", State(ev)) /\ State(ev) \notin {"ABORTED", "RECOVERY_REQUIRED"} =>
          State(ev) \in {"DRAFT", "REVIEW"}
    BY DEF Admits, LifecycleEdges
  <2>4. State(ev) \in {"DRAFT", "REVIEW"} => SinglePR(ev)
    BY Views DEF State
  <2>5. QED
    BY <1>3, <1>4, <1>5, <2>1, <2>2, <2>3, <2>4 DEF AbortPlan
<1>12. QED
  BY <1>5, <1>8, <1>9, <1>10, <1>11

\* What was read of the pull requests exists.
LEMMA LastReadExists ==
  ASSUME Typed, EvidenceExists, NEW e \in Execs
  PROVE  \A p \in PRIds : LastRead(e).prs[p].state # "none" => gh.prs[p].state # "none"
<1>1. ex[e].ev \in Evidence
  BY DEF Typed, Execution
<1>2. LastRead(e).prs = ex[e].ev.prs \/ LastRead(e).prs = gh.prs
  BY <1>1 DEF LastRead, Evidence
<1>3. QED
  BY <1>2 DEF EvidenceExists

\* Planning.
LEMMA PlannedSpeaks ==
  ASSUME Typed, NEW e \in Execs, NEW plan \in Plan, Named(gh, plan), ReadDone(e, Planned(e, plan))
  PROVE  Speaks(e)
<1> DEFINE x == [ex[e] EXCEPT !.plan = plan, !.idx = 1, !.mode = "verify"]
           y == Planned(e, plan)
<1>1. ex[e] \in Execution
  BY DEF Typed
<1>2. x \in Execution
  BY <1>1, ExecutionType
<1>3. y \in Execution /\ y.plan = plan
  BY PlannedType, PlannedFine
<1>4. y = Finish(x, "precondition-failed") \/ y = Goto(x, "rereading") \/ y = Goto(x, ApplyState(Op[e]))
  BY DEF Planned
<1> HIDE DEF x, y
<1>5. /\ Finish(x, "precondition-failed").st = "done"
      /\ Finish(x, "precondition-failed").result = "precondition-failed"
      /\ \A st : Goto(x, st).st = st /\ Goto(x, st).step = 0
  BY <1>2 DEF Finish, Goto, Execution
<1>6. ApplyState(Op[e]) # "done"
  BY DEF ApplyState
<1>7. (y.st \in ReadStates => y.step = 0) /\ (y.st = "done" => y.result = "precondition-failed")
  BY <1>4, <1>5, <1>6 DEF ReadStates
<1>8. ReadDone(e, y)
  BY DEF y
<1>9. QED
  BY <1>3, <1>7, <1>8, ReadDoneSpeaks DEF Success

\* A call of a read that is not the last.
LEMMA CallSpeaks ==
  ASSUME Typed, Well(gh), ReportInv, NEW e \in Execs, ReadBranches(e) \/ ReadPullRequests(e)
  PROVE  Speaks(e)
<1>1. /\ ex[e] \in Execution /\ ex[e].ev \in Evidence /\ ex[e].st \in ReadStates
      /\ ex[e].plan \in Plan /\ Reported(gh, e, ex[e], truth[e])
  BY DEF Typed, Execution, ReadBranches, ReadPullRequests, ReportInv
<1>2. ex[e].st # "done"
  BY <1>1 DEF ReadStates
<1>3. CASE ReadBranches(e)
  <2> DEFINE none == [NoEvidence EXCEPT !.issue = gh.issue, !.branch = gh.branch]
             y    == Advance([ex[e] EXCEPT !.ev = none])
  <2>1. /\ y.st = ex[e].st /\ y.plan = ex[e].plan /\ y.ev = none /\ y.step = ex[e].step + 1
    BY <1>1 DEF Advance, Execution
  <2>2. none.branch = gh.branch
    BY DEF NoEvidence
  <2>3. ex[e].step = 0 /\ ex' = [ex EXCEPT ![e] = y] /\ truth' = [truth EXCEPT ![e] = {Truth}]
    BY <1>3 DEF ReadBranches
  <2> HIDE DEF y, none
  <2>4. BranchRead(gh, y, {Truth})
    BY <1>1, <2>1, <2>2, BranchCall DEF Reported
  <2>5. truth'[e] = {Truth} /\ \A f \in Execs : f # e => truth'[f] = truth[f]
    BY <2>3 DEF Typed
  <2>6. Reported(gh, e, y, truth'[e])
    BY <1>1, <1>2, <2>1, <2>3, <2>4, <2>5 DEF Reported, Told
  <2>7. QED
    BY <2>3, <2>5, <2>6 DEF Speaks
<1>4. CASE ReadPullRequests(e)
  <2> DEFINE y == Advance([ex[e] EXCEPT !.ev.prs = gh.prs])
             t == truth[e] \cup {Truth}
  <2>1. /\ y.st = ex[e].st /\ y.plan = ex[e].plan /\ y.ev.branch = ex[e].ev.branch
        /\ y.ev.prs = gh.prs /\ y.step = ex[e].step + 1
    BY <1>1 DEF Advance, Execution, Evidence
  <2>2. ex[e].step = 1 /\ ex' = [ex EXCEPT ![e] = y] /\ truth' = [truth EXCEPT ![e] = t]
    BY <1>4 DEF ReadPullRequests
  <2>3. BranchRead(gh, ex[e], truth[e])
    BY <1>1, <2>2 DEF Reported
  <2>4. BranchRead(gh, ex[e], t) /\ Truth \in t
    BY <2>3 DEF BranchRead
  <2> HIDE DEF y, t
  <2>5. Grounded(gh, y.ev, ex[e].plan, t)
    BY <2>1, <2>4, ReadGrounds
  <2>6. truth'[e] = t /\ \A f \in Execs : f # e => truth'[f] = truth[f]
    BY <2>2 DEF Typed
  <2>7. Reported(gh, e, y, truth'[e])
    BY <1>1, <1>2, <2>1, <2>2, <2>5, <2>6 DEF Reported, Told
  <2>8. QED
    BY <2>2, <2>6, <2>7 DEF Speaks
<1>5. QED
  BY <1>3, <1>4

\* What each machine makes of a complete read.
LEMMA ReadStepsSpeak ==
  ASSUME Ready, Well(gh), ReportInv, NEW e \in Execs, ReadSteps(e)
  PROVE  Speaks(e) \/ ReadFailure(e)
<1>1. /\ Typed /\ EvidenceExists /\ ex[e] \in Execution /\ LastRead(e) \in Evidence
      /\ Named(gh, ex[e].plan)
  BY LastReadType DEF Ready, RequestInv, Typed, ReportInv, Reported
<1>2. \A p \in PRIds : LastRead(e).prs[p].state # "none" => gh.prs[p].state # "none"
  BY <1>1, LastReadExists
<1>3. /\ Named(gh, NoPlan) /\ Named(gh, IssuancePlan(LastRead(e)))
      /\ Named(gh, ReadyPlan(LastRead(e), gh.commits)) /\ Named(gh, AbortPlan(LastRead(e)))
      /\ Named(gh, MergePlan(LastRead(e)))
  BY <1>2, PlansNamed
<1>4. ASSUME NEW r \in {"precondition-failed", "recovery-required", "recovery-failed",
                        "verification-failed"},
             ReadDone(e, Finish(ex[e], r))
      PROVE  Speaks(e)
  BY <1>1, <1>4, ReadDoneFinishes DEF Outcome, Success
<1>5. CASE IssueValidateInitial(e)
  <2> DEFINE y == Goto([ex[e] EXCEPT !.govSeen = gh.gov], "readingFresh")
  <2>1. CASE gh.gov \in ValidGov
    <3>1. ReadDone(e, y)
      BY <1>5, <2>1 DEF IssueValidateInitial
    <3>2. y.st = "readingFresh" /\ y.step = 0 /\ y.plan = ex[e].plan
      BY <1>1 DEF Goto, Execution
    <3>3. gh.gov \in SeenGenerations
      BY <1>1 DEF Typed, Repo, SeenGenerations
    <3>4. y \in Execution
      <4>1. [ex[e] EXCEPT !.govSeen = gh.gov] \in Execution
        BY <1>1, <3>3, ExecutionType
      <4>2. "readingFresh" \in ExecState
        BY DEF ExecState, ReadStates
      <4>3. QED
        BY <4>1, <4>2, ExecutionType
    <3> HIDE DEF y
    <3>5. QED
      BY <1>1, <3>1, <3>2, <3>4, ReadDoneSpeaks
  <2>2. CASE gh.gov \notin ValidGov
    BY <1>4, <1>5, <2>2 DEF IssueValidateInitial
  <2>3. QED
    BY <2>1, <2>2
<1>6. CASE IssuePlanning(e)
  <2>1. IssuancePlan(LastRead(e)) \in Plan
    BY <1>1, PlanType
  <2>2. ReadDone(e, Planned(e, IssuancePlan(LastRead(e))))
        \/ ReadDone(e, Finish(ex[e], "precondition-failed"))
    BY <1>6 DEF IssuePlanning
  <2>3. QED
    BY <1>1, <1>3, <1>4, <2>1, <2>2, PlannedSpeaks
<1>7. CASE IssueVerifying(e)
  <2>1. VerifyProjection(ex[e].plan, LastRead(e)) => Proven(e)
    BY <1>1, <1>7, LastReadProven DEF IssueVerifying
  <2>2. QED
    BY <1>1, <1>7, <2>1, VerifiedSpeaks DEF IssueVerifying
<1>8. CASE IssueClassifyingFailure(e)
  <2>1. ConfirmedAbsent(LastRead(e)) => Proven(e)
    BY <1>1, <1>8, LastReadProven DEF IssueClassifyingFailure, ConfirmedAbsent
  <2>2. \/ ReadDone(e, Goto(ex[e], "applyingCompensation"))
        \/ ReadDone(e, Finish(ex[e], "recovery-required"))
        \/ ReadDone(e, Finish(ex[e], "failed")) /\ ConfirmedAbsent(LastRead(e))
    BY <1>8 DEF IssueClassifyingFailure
  <2>3. CASE ReadDone(e, Goto(ex[e], "applyingCompensation"))
    <3> DEFINE y == Goto(ex[e], "applyingCompensation")
    <3>1. y.st = "applyingCompensation" /\ y.plan = ex[e].plan
      BY <1>1 DEF Goto, Execution
    <3>2. y \in Execution
      BY <1>1, ExecutionType DEF ExecState, ApplyStates
    <3> HIDE DEF y
    <3>3. QED
      BY <1>1, <2>3, <3>1, <3>2, ReadDoneSpeaks DEF ReadStates, y
  <2>4. CASE ReadDone(e, Finish(ex[e], "failed")) /\ ConfirmedAbsent(LastRead(e))
    BY <1>1, <2>1, <2>4, ReadDoneFinishes DEF Outcome
  <2>5. QED
    BY <1>4, <2>2, <2>3, <2>4
<1>9. CASE IssueRecoveryOutcome(e)
  <2>1. SafeAbsentProjection(LastRead(e)) => Proven(e)
    BY <1>1, <1>9, LastReadProven DEF IssueRecoveryOutcome, SafeAbsentProjection, ConfirmedAbsent
  <2>2. \/ ReadDone(e, Finish(ex[e], "compensated")) /\ SafeAbsentProjection(LastRead(e))
        \/ ReadDone(e, Finish(ex[e], "recovery-required"))
    BY <1>9 DEF IssueRecoveryOutcome
  <2>3. CASE ReadDone(e, Finish(ex[e], "compensated")) /\ SafeAbsentProjection(LastRead(e))
    BY <1>1, <2>1, <2>3, ReadDoneFinishes DEF Outcome
  <2>4. QED
    BY <1>4, <2>2, <2>3
<1>10. CASE ReadyPlanning(e)
  <2>1. ReadyPlan(LastRead(e), gh.commits) \in Plan
    BY <1>1, PlanType
  <2>2. QED
    BY <1>1, <1>3, <1>10, <2>1, PlannedSpeaks DEF ReadyPlanning
<1>11. CASE ReadyVerifying(e)
  <2>1. VerifyReady(ex[e].plan, LastRead(e), gh.commits) => Proven(e)
    BY <1>1, <1>11, LastReadProven DEF ReadyVerifying, VerifyReady
  <2>2. CASE ex[e].mode = "failed"
    <3>1. ReadDone(e, Finish(ex[e], "failed")) /\ Op[e] = "ready"
      BY <1>11, <2>2 DEF ReadyVerifying
    <3>2. QED
      BY <1>1, <3>1, ReadDoneFinishes DEF Outcome, Success
  <2>3. CASE ex[e].mode # "failed"
    BY <1>1, <1>11, <2>1, <2>3, VerifiedSpeaks DEF ReadyVerifying
  <2>4. QED
    BY <2>2, <2>3
<1>12. CASE AbortPlanning(e)
  <2>1. AbortCleanupComplete(LastRead(e)) => Proven(e)
    BY <1>1, <1>12, LastReadProven DEF AbortPlanning, AbortCleanupComplete
  <2>2. CASE AbortCleanupComplete(LastRead(e))
    <3>1. ReadDone(e, Finish(ex[e], "returned-existing"))
      BY <1>12, <2>2 DEF AbortPlanning
    <3>2. QED
      BY <1>1, <2>1, <2>2, <3>1, ReadDoneFinishes DEF Outcome
  <2>3. CASE ~AbortCleanupComplete(LastRead(e))
    <3>1. AbortPlan(LastRead(e)) \in Plan
      BY <1>1, PlanType
    <3>2. ReadDone(e, Planned(e, AbortPlan(LastRead(e))))
      BY <1>12, <2>3 DEF AbortPlanning
    <3>3. QED
      BY <1>1, <1>3, <3>1, <3>2, PlannedSpeaks
  <2>4. QED
    BY <2>2, <2>3
<1>13. CASE AbortVerifying(e)
  <2>1. VerifyProjection(ex[e].plan, LastRead(e)) => Proven(e)
    BY <1>1, <1>13, LastReadProven DEF AbortVerifying
  <2>2. QED
    BY <1>1, <1>13, <2>1, VerifiedSpeaks DEF AbortVerifying
<1>14. CASE AbortRecoveryPlanning(e)
  BY <1>4, <1>14 DEF AbortRecoveryPlanning
<1>15. CASE MergeAdmission(e)
  <2> DEFINE plan == MergePlan(LastRead(e))
             y    == Goto([ex[e] EXCEPT !.plan = plan], "merging")
  <2>1. CASE plan.kind = "none"
    BY <1>4, <1>15, <2>1 DEF MergeAdmission
  <2>2. CASE plan.kind # "none"
    <3>1. ReadDone(e, y)
      BY <1>15, <2>2 DEF MergeAdmission
    <3>2. plan \in Plan
      BY <1>1, PlanType
    <3>3. Named(gh, plan)
      BY <1>3
    <3> HIDE DEF plan
    <3>4. y.st = "merging" /\ y.plan = plan
      BY <1>1 DEF Goto, Execution
    <3>5. y \in Execution
      <4>1. [ex[e] EXCEPT !.plan = plan] \in Execution
        BY <1>1, <3>2, ExecutionType
      <4>2. "merging" \in ExecState
        BY DEF ExecState
      <4>3. QED
        BY <4>1, <4>2, ExecutionType
    <3> HIDE DEF y
    <3>6. QED
      BY <1>1, <3>1, <3>3, <3>4, <3>5, ReadDoneSpeaks DEF ReadStates
  <2>3. QED
    BY <2>1, <2>2
<1>16. CASE MergeVerifying(e)
  <2>1. VerifyMerge(ex[e].plan, LastRead(e)) => Proven(e)
    BY <1>1, <1>16, LastReadProven DEF MergeVerifying, VerifyMerge, MergeAdmissible
  <2>2. \/ ReadDone(e, Finish(ex[e], "verification-failed"))
        \/ \E r \in Success : ReadDone(e, Finish(ex[e], r)) /\ VerifyMerge(ex[e].plan, LastRead(e))
    BY <1>16 DEF MergeVerifying, Success
  <2>3. QED
    BY <1>1, <1>4, <2>1, <2>2, ReadDoneFinishes DEF Outcome, Success
<1>17. CASE ReadBranches(e) \/ ReadPullRequests(e)
  BY <1>1, <1>17, CallSpeaks
<1>18. QED
  BY <1>5, <1>6, <1>7, <1>8, <1>9, <1>10, <1>11, <1>12, <1>13, <1>14, <1>15, <1>16, <1>17
     DEF ReadSteps

\* Every step keeps the reports.
LEMMA ReportInvStep ==
  ASSUME Base, Base', ReportInv, [Next]_vars
  PROVE  ReportInv'
<1>1. CASE Next
  <2>1. /\ Ready /\ PublicationInv /\ HeadsInv /\ Typed /\ Well(gh)
    BY BaseReady DEF HeadsInv
  <2>2. Typed'
    BY DEF Base, Inv, TypeOK, Typed
  <2>3. Kept(gh, gh') /\ Orderly(gh, gh', Nat)
    BY <1>1, <2>1, EveryStep, EveryStepTidy DEF RequestStep, Requests, Tidy
  <2>4. ASSUME NEW e \in Execs, Speaks(e) PROVE ReportInv'
    BY <2>1, <2>2, <2>3, <2>4, OneReported DEF Speaks
  <2>5. ASSUME NEW e \in Execs, Begin(e) \/ EffectSteps(e) \/ ReadFailure(e) \/ Crash(e)
        PROVE  ReportInv'
    <3>1. PICK y : Silent(e, ex[e], y) /\ ex' = [ex EXCEPT ![e] = y] /\ truth' = truth
      BY <2>1, <2>5, SilentSteps
    <3>2. Reported(gh, e, y, truth'[e])
      BY <3>1, SilentReported
    <3>3. QED
      BY <2>1, <2>2, <2>3, <3>1, <3>2, OneReported
  <2>6. CASE ex' = ex /\ truth' = truth
    <3>1. ASSUME NEW e \in Execs PROVE Reported(gh', e, ex'[e], truth'[e])
      <4>1. Reported(gh, e, ex[e], truth[e]) /\ ex[e].plan \in Plan
        BY <2>1 DEF ReportInv, Typed, Execution
      <4>2. QED
        BY <2>1, <2>3, <2>6, <4>1, StillReported
    <3>2. QED
      BY <3>1 DEF ReportInv, Reported, Named, BranchRead, Frozen, Grounded, Told, Unbranched
  <2>7. ASSUME NEW r \in late, LateArrival(r) PROVE ReportInv'
    BY <2>6, <2>7 DEF LateArrival
  <2>8. CASE HumanStep
    BY <2>6, <2>8, PeopleTouchRepo
  <2>9. ASSUME NEW e \in Execs, ReadSteps(e) PROVE ReportInv'
    BY <2>1, <2>4, <2>5, <2>9, ReadStepsSpeak
  <2>10. QED
    BY <1>1, <2>5, <2>7, <2>8, <2>9 DEF Next, Step, ExecStep
<1>2. CASE UNCHANGED vars
  BY <1>2 DEF vars, ReportInv, Reported, Named, BranchRead, Frozen, Grounded, Told, Unbranched
<1>3. QED
  BY <1>1, <1>2

\* At first nothing was read, planned or reported.
LEMMA ReportInvInit == Init => ReportInv
<1>1. SUFFICES ASSUME Init, NEW e \in Execs PROVE Reported(gh, e, ex[e], truth[e])
  BY DEF ReportInv
<1>2. /\ ex[e].st = "idle" /\ ex[e].plan.pr = NoPR /\ ex[e].plan.state = "DEFINED"
  BY <1>1 DEF Init, IdleExecution, NoPlan
<1>3. QED
  BY <1>2 DEF Reported, Named, Told, ReadStates

\* The calls of every read add up to something that was true, in every
\* reachable state.
THEOREM ReportInvariant == Spec => []ReportInv
<1>1. Inv /\ RequestInv /\ HeadsInv => Base
  BY DEF Base
<1>2. QED
  BY <1>1, ReportInvInit, ReportInvStep, InvHolds, RequestInvariant, HeadsInvariant, PTL DEF Spec

\* What a finished execution reports was true of the Change at one of the calls
\* of its last read, whatever others did between them.
THEOREM ReportsWereTrue == Spec => []ReportWasTrue
<1>1. ReportInv => ReportWasTrue
  BY DEF ReportInv, Reported, Told, ReportWasTrue, Ended
<1>2. QED
  BY <1>1, ReportInvariant, PTL

-----------------------------------------------------------------------------
(* An abort that nobody disturbs. *)

\* What an atomic look at repo would say.
At(repo) == [issue |-> repo.issue, branch |-> repo.branch, prs |-> repo.prs,
             head |-> NoSha, gov |-> repo.gov]

\* An abort that started alone, with nobody else acting and nothing failing.
Alone(e) == Op[e] = "abort" /\ calm[e]

\* Only the branch is left to clean up.
Leftover(repo, plan) ==
  IF plan.pr = NoPR THEN Listed(At(repo)) = {} /\ plan.kind = "delete-leftover"
  ELSE /\ plan.pr \in PRIds /\ Listed(At(repo)) = {plan.pr}
       /\ repo.prs[plan.pr].state = "closed" /\ repo.prs[plan.pr].by # Human

\* The abort in local state x is at the effect that the repository still needs.
Cleans(repo, x) ==
  /\ x.plan.state = "ABORTED"
  /\ repo.branch # NoSha /\ x.plan.sha = repo.branch
  /\ \/ /\ x.plan.kind = "close-and-delete" /\ x.idx = 1 /\ x.step = 0
        /\ x.plan.pr \in PRIds /\ Listed(At(repo)) = {x.plan.pr}
        /\ repo.prs[x.plan.pr].state = "open" /\ repo.prs[x.plan.pr].by # Human
     \/ /\ x.plan.kind \in {"close-and-delete", "delete-leftover"}
        /\ x.idx = Len(Effects(x.plan.kind))
        /\ x.step \in {0, 1}
        /\ Leftover(repo, x.plan)

\* What an abort may not clean up.
Foreign(ev) ==
  \/ Status(ev) = "duplicate"
  \/ \E p \in Listed(ev) : ev.prs[p].state = "merged"
  \/ \E p \in Listed(ev) : ev.prs[p].by = Human

\* An undisturbed abort, in local state x: what it read or did is so.
Undisturbed(repo, x) ==
  /\ x.st \in {"reading", "applying", "rereading", "done"}
  /\ x.st \in {"reading", "rereading"} =>
       x.step \in {0, 1} /\ (x.step = 1 => x.ev.branch = repo.branch)
  /\ x.st = "applying" => Cleans(repo, x)
  /\ x.st = "rereading" => x.mode = "verify" /\ VerifyProjection(x.plan, At(repo))
  /\ x.st = "done" =>
       x.result \in Success \/ (x.result = "precondition-failed" /\ Foreign(x.ev))

AloneInv == \A e \in Execs : Alone(e) => Undisturbed(gh, ex[e])

\* The last effect of every abort deletes the branch.
LEMMA AbortEffects ==
  /\ Len(Effects("close-and-delete")) = 2 /\ Len(Effects("delete-leftover")) = 1
  /\ Effects("close-and-delete")[1] = "CLOSE_PULL_REQUEST"
  /\ Effects("close-and-delete")[2] = "DELETE_BRANCH"
  /\ Effects("delete-leftover")[1] = "DELETE_BRANCH"
  /\ Effects("already-aborted") = << >>
  /\ Effects("close-and-delete") # << >> /\ Effects("delete-leftover") # << >>
BY DEF Effects

\* The same branch and the same pull requests verify the same plans.
LEMMA SameVerified ==
  ASSUME NEW plan, NEW ev, NEW new, ev.branch = new.branch, ev.prs = new.prs
  PROVE  VerifyProjection(plan, ev) <=> VerifyProjection(plan, new)
<1>1. HasBranch(ev) <=> HasBranch(new)
  BY DEF HasBranch
<1>2. /\ SinglePR(ev) <=> SinglePR(new)
      /\ SinglePR(ev) => OnlyPR(ev) = OnlyPR(new)
      /\ Status(ev) = Status(new) /\ State(ev) = State(new)
      /\ ProjectedPR(ev) = ProjectedPR(new)
  BY <1>1, SamePRs
<1>3. IssuedByInari(ev) <=> IssuedByInari(new)
  BY <1>2 DEF IssuedByInari
<1>4. QED
  BY <1>2, <1>3 DEF VerifyProjection, AbortCleanupComplete

\* What an abort plans from an undisturbed read: a refusal of what is foreign,
\* nothing, or exactly the effects that are needed.
LEMMA AbortPlans ==
  ASSUME NEW repo \in Repo, Well(repo), NEW ev, ev.branch = repo.branch, ev.prs = repo.prs,
         Status(ev) # "absent", NEW plan, plan = AbortPlan(ev)
  PROVE  /\ plan.kind \in {"none", "already-aborted", "delete-leftover", "close-and-delete"}
         /\ plan.kind = "none" => Foreign(ev)
         /\ plan.kind = "already-aborted" => VerifyProjection(plan, At(repo))
         /\ plan.kind \in {"delete-leftover", "close-and-delete"} =>
              \A x : x.plan = plan /\ x.idx = 1 /\ x.step = 0 => Cleans(repo, x)
<1>1. /\ \A p \in PRIds : repo.prs[p] \in PullRequest /\ repo.prs[p].head \in Nat
      /\ At(repo).branch = ev.branch /\ At(repo).prs = ev.prs
  BY RepoNumbers DEF At
<1>2. /\ Listed(At(repo)) = Listed(ev)
      /\ \A p \in Listed(ev) : p \in PRIds /\ ev.prs[p].state # "none"
  BY <1>1 DEF Listed
<1>3. /\ NoPlan.kind = "none"
      /\ \A k, st, pr, sha : /\ PlanOf(k, st, pr, sha).kind = k
                             /\ PlanOf(k, st, pr, sha).state = st
                             /\ PlanOf(k, st, pr, sha).pr = pr
                             /\ PlanOf(k, st, pr, sha).sha = sha
  BY DEF NoPlan, PlanOf
<1>4. SinglePR(ev) => /\ OnlyPR(ev) \in PRIds /\ Listed(ev) = {OnlyPR(ev)}
                      /\ ProjectedPR(ev) = OnlyPR(ev) /\ ProjectedPR(ev) # NoPR
                      /\ ev.prs[OnlyPR(ev)].state \in {"open", "closed", "merged"}
  <2>1. SinglePR(ev) => OnlyPR(ev) \in PRIds /\ Listed(ev) = {OnlyPR(ev)}
    BY OnlyPRType
  <2>2. SinglePR(ev) => ev.prs[OnlyPR(ev)].state # "none" /\ ev.prs[OnlyPR(ev)] \in PullRequest
    BY <1>1, <1>2, <2>1
  <2>3. QED
    BY <2>1, <2>2 DEF ProjectedPR, PRIds, PullRequest, PRState
<1>5. ~SinglePR(ev) => ProjectedPR(ev) = NoPR
  BY DEF ProjectedPR
<1>6. ~HasBranch(ev) /\ SinglePR(ev) => ev.prs[OnlyPR(ev)].state # "open"
  BY <1>1, <1>4 DEF HasBranch, Well
<1>7. CASE Listed(ev) # {} /\ ~SinglePR(ev)
  <2>1. Status(ev) = "duplicate"
    BY <1>7, Views
  <2>2. plan.kind = "none"
    BY <1>3, <2>1 DEF AbortPlan, AbortAdmissible, AbortRecovery
  <2>3. QED
    BY <2>1, <2>2 DEF Foreign
<1>8. CASE Listed(ev) = {}
  <2>1. HasBranch(ev) /\ Status(ev) = "partial" /\ ~SinglePR(ev) /\ State(ev) = "RECOVERY_REQUIRED"
    BY <1>8, Views DEF SinglePR
  <2>2. AbortAdmissible(ev) /\ Admits("abort", State(ev))
    BY <1>8, <2>1 DEF AbortAdmissible, AbortRecovery, Admits, LifecycleEdges, ChangeState
  <2>3. plan = PlanOf("delete-leftover", "ABORTED", NoPR, ev.branch)
    BY <1>5, <2>1, <2>2 DEF AbortPlan
  <2>4. /\ plan.kind = "delete-leftover" /\ plan.state = "ABORTED" /\ plan.pr = NoPR
        /\ plan.sha = ev.branch
    BY <1>3, <2>3
  <2>5. Leftover(repo, plan)
    BY <1>2, <1>8, <2>4 DEF Leftover
  <2>6. \A x : x.plan = plan /\ x.idx = 1 /\ x.step = 0 => Cleans(repo, x)
    BY <2>1, <2>4, <2>5, AbortEffects DEF Cleans, HasBranch
  <2>7. QED
    BY <2>4, <2>6
<1>9. CASE SinglePR(ev)
  <2> DEFINE p == OnlyPR(ev)
  <2>1. p \in PRIds /\ Listed(ev) = {p} /\ ProjectedPR(ev) = p /\ p # NoPR
    BY <1>4, <1>9
  <2>2. CASE ev.prs[p].by = Human
    <3>1. plan.kind = "none"
      BY <1>3, <1>9, <2>2 DEF AbortPlan, AbortAdmissible, IssuedByInari
    <3>2. QED
      BY <2>1, <2>2, <3>1 DEF Foreign
  <2>3. CASE ev.prs[p].state = "merged"
    <3>1. Status(ev) \in {"healthy", "partial"}
      BY <1>9, <2>3, Views
    <3>2. plan.kind = "none"
      <4>1. CASE HasBranch(ev)
        <5>1. State(ev) = "MERGED"
          BY <1>9, <2>3, <4>1, Views
        <5>2. ~Admits("abort", State(ev))
          BY <5>1 DEF Admits, LifecycleEdges
        <5>3. QED
          BY <1>3, <5>2 DEF AbortPlan
      <4>2. CASE ~HasBranch(ev)
        <5>1. Status(ev) = "partial"
          BY <1>9, <2>3, <4>2, Views
        <5>2. ~AbortAdmissible(ev)
          BY <4>2, <5>1 DEF AbortAdmissible, AbortRecovery
        <5>3. QED
          BY <1>3, <5>2 DEF AbortPlan
      <4>3. QED
        BY <4>1, <4>2
    <3>3. QED
      BY <2>1, <2>3, <3>2 DEF Foreign
  <2>4. CASE ev.prs[p].by # Human /\ ev.prs[p].state = "closed"
    <3>1. IssuedByInari(ev) /\ ClosedUnmerged(ev)
      BY <1>9, <2>4 DEF IssuedByInari, ClosedUnmerged
    <3>2. CASE HasBranch(ev)
      <4>1. Status(ev) = "partial" /\ State(ev) = "RECOVERY_REQUIRED"
        BY <1>9, <2>4, <3>2, Views
      <4>2. AbortAdmissible(ev) /\ Admits("abort", State(ev))
        BY <3>1, <3>2, <4>1 DEF AbortAdmissible, AbortRecovery, Admits, LifecycleEdges, ChangeState
      <4>3. plan = PlanOf("delete-leftover", "ABORTED", p, ev.branch)
        BY <2>1, <4>1, <4>2 DEF AbortPlan
      <4>4. /\ plan.kind = "delete-leftover" /\ plan.state = "ABORTED" /\ plan.pr = p
            /\ plan.sha = ev.branch
        BY <1>3, <4>3
      <4> HIDE DEF p
      <4>5. Leftover(repo, plan)
        BY <1>2, <2>1, <2>4, <4>4 DEF Leftover
      <4>6. \A x : x.plan = plan /\ x.idx = 1 /\ x.step = 0 => Cleans(repo, x)
        BY <3>2, <4>4, <4>5, AbortEffects DEF Cleans, HasBranch
      <4>7. QED
        BY <4>4, <4>6
    <3>3. CASE ~HasBranch(ev)
      <4>1. Status(ev) = "healthy" /\ State(ev) = "ABORTED"
        BY <1>9, <2>4, <3>3, Views
      <4>2. AbortAdmissible(ev) /\ Admits("abort", State(ev))
        BY <3>1, <4>1 DEF AbortAdmissible, Admits, LifecycleEdges, ChangeState
      <4>3. plan = PlanOf("already-aborted", "ABORTED", p, NoSha)
        BY <2>1, <4>1, <4>2 DEF AbortPlan
      <4>4. plan.kind = "already-aborted" /\ plan.state = "ABORTED" /\ plan.pr = p
        BY <1>3, <4>3
      <4>5. VerifyProjection(plan, ev)
        BY <2>1, <3>1, <4>1, <4>4 DEF VerifyProjection, BranchOnlyAbort
      <4>6. VerifyProjection(plan, At(repo))
        BY <1>1, <4>5, SameVerified
      <4>7. QED
        BY <4>4, <4>6
    <3>4. QED
      BY <3>2, <3>3
  <2>5. CASE ev.prs[p].by # Human /\ ev.prs[p].state = "open"
    <3>1. IssuedByInari(ev) /\ HasBranch(ev)
      BY <1>6, <1>9, <2>5 DEF IssuedByInari
    <3>2. Status(ev) = "healthy"
      BY <1>9, <2>5, <3>1, Views
    <3>3. State(ev) \in {"DRAFT", "REVIEW"}
      BY <2>5, <3>2 DEF State, ChangeStateFromPullRequest
    <3>4. AbortAdmissible(ev) /\ Admits("abort", State(ev))
      BY <3>1, <3>2, <3>3 DEF AbortAdmissible, Admits, LifecycleEdges, ChangeState
    <3>5. plan = PlanOf("close-and-delete", "ABORTED", p, ev.branch)
      BY <2>1, <3>3, <3>4 DEF AbortPlan
    <3>6. /\ plan.kind = "close-and-delete" /\ plan.state = "ABORTED" /\ plan.pr = p
          /\ plan.sha = ev.branch
      BY <1>3, <3>5
    <3> HIDE DEF p
    <3>7. \A x : x.plan = plan /\ x.idx = 1 /\ x.step = 0 => Cleans(repo, x)
      BY <1>1, <1>2, <2>1, <2>5, <3>1, <3>6 DEF Cleans, HasBranch
    <3>8. QED
      BY <3>6, <3>7
  <2>6. QED
    BY <1>4, <1>9, <2>2, <2>3, <2>4, <2>5
<1>10. QED
  BY <1>7, <1>8, <1>9

\* Closing the pull request leaves the branch to clean up.
LEMMA ClosedLeavesBranch ==
  ASSUME NEW repo \in Repo, NEW x \in Execution, x.st = "applying", Cleans(repo, x),
         EffectAt(x) = "CLOSE_PULL_REQUEST",
         NEW r, r.kind = "closePR", r.pr = x.plan.pr
  PROVE  /\ EffectDone(x).st = "applying" /\ Cleans(Apply(repo, r), EffectDone(x))
<1> DEFINE after == [repo.prs[r.pr] EXCEPT !.state = "closed"]
           new   == [repo EXCEPT !.prs[r.pr] = after]
           y     == [x EXCEPT !.idx = x.idx + 1, !.step = 0]
<1>1. /\ x.plan.kind = "close-and-delete" /\ x.idx = 1 /\ x.plan.pr \in PRIds
      /\ Listed(At(repo)) = {x.plan.pr} /\ repo.prs[x.plan.pr].state = "open"
      /\ repo.prs[x.plan.pr].by # Human
  BY AbortEffects DEF Cleans, EffectAt
<1>2. repo.prs[r.pr] \in PullRequest
  BY <1>1 DEF Repo
<1>3. /\ after.state = "closed" /\ after.base = repo.prs[r.pr].base
      /\ after.by = repo.prs[r.pr].by
  BY <1>2 DEF PullRequest
<1>4. Apply(repo, r) = new
  BY <1>1 DEF Apply
<1>5. /\ new.branch = repo.branch
      /\ \A p \in PRIds : new.prs[p] = IF p = r.pr THEN after ELSE repo.prs[p]
  BY DEF Repo
<1>6. EffectDone(x) = y
  BY <1>1, AbortEffects DEF EffectDone
<1>7. y.st = "applying" /\ y.plan = x.plan /\ y.idx = 2 /\ y.step = 0
  BY <1>1 DEF Execution
<1> HIDE DEF after, new, y
<1>8. Listed(At(new)) = Listed(At(repo))
  <2>1. At(new).prs = new.prs /\ At(repo).prs = repo.prs
    BY DEF At
  <2>2. \A p \in PRIds : /\ new.prs[p].base = repo.prs[p].base
                         /\ new.prs[p].state = "none" <=> repo.prs[p].state = "none"
    BY <1>1, <1>3, <1>5
  <2>3. QED
    BY <2>1, <2>2 DEF Listed
<1>9. Leftover(new, y.plan)
  BY <1>1, <1>3, <1>5, <1>7, <1>8 DEF Leftover, PRIds
<1>10. Cleans(new, y)
  BY <1>1, <1>5, <1>7, <1>9, AbortEffects DEF Cleans
<1>11. QED
  BY <1>4, <1>6, <1>7, <1>10

\* Without the branch the abort is complete.
LEMMA GoneIsClean ==
  ASSUME NEW repo \in Repo, NEW x, Cleans(repo, x), EffectAt(x) = "DELETE_BRANCH",
         x.st = "applying"
  PROVE  VerifyProjection(x.plan, At(WithoutBranch(repo)))
<1> DEFINE new == WithoutBranch(repo)
           ev  == At(new)
<1>1. /\ x.plan.kind \in {"close-and-delete", "delete-leftover"}
      /\ x.plan.state = "ABORTED" /\ Leftover(repo, x.plan)
  BY AbortEffects DEF Cleans, EffectAt
<1>2. \A p \in PRIds : repo.prs[p] \in PullRequest
  BY DEF Repo
<1>3. /\ new.branch = NoSha
      /\ new.prs = [p \in PRIds |->
           IF repo.prs[p].state = "open" THEN [repo.prs[p] EXCEPT !.state = "closed"]
           ELSE repo.prs[p]]
  BY DEF WithoutBranch, Repo
<1>4. ASSUME NEW p \in PRIds
      PROVE  /\ new.prs[p].state = "none" <=> repo.prs[p].state = "none"
             /\ new.prs[p].base = repo.prs[p].base /\ new.prs[p].by = repo.prs[p].by
             /\ repo.prs[p].state = "closed" => new.prs[p].state = "closed"
  <2>1. /\ [repo.prs[p] EXCEPT !.state = "closed"].state = "closed"
        /\ [repo.prs[p] EXCEPT !.state = "closed"].base = repo.prs[p].base
        /\ [repo.prs[p] EXCEPT !.state = "closed"].by = repo.prs[p].by
    BY <1>2 DEF PullRequest
  <2>2. QED
    BY <1>3, <2>1
<1>5. ~HasBranch(ev) /\ ev.prs = new.prs
  BY <1>3 DEF HasBranch, At
<1> HIDE DEF new
<1>6. Listed(ev) = Listed(At(repo))
  <2>1. At(repo).prs = repo.prs
    BY DEF At
  <2>2. QED
    BY <1>4, <1>5, <2>1 DEF Listed
<1> HIDE DEF ev
<1>7. CASE x.plan.pr = NoPR
  <2>1. Status(ev) = "absent"
    BY <1>1, <1>5, <1>6, <1>7, Views DEF Leftover
  <2>2. BranchOnlyAbort(x.plan)
    BY <1>1, <1>7 DEF Leftover, BranchOnlyAbort
  <2>3. QED
    BY <2>1, <2>2 DEF VerifyProjection, AbortCleanupComplete, ev, new
<1>8. CASE x.plan.pr # NoPR
  <2> DEFINE p == x.plan.pr
  <2>1. p \in PRIds /\ Listed(ev) = {p} /\ ev.prs[p].state = "closed" /\ ev.prs[p].by # Human
    BY <1>1, <1>4, <1>5, <1>6, <1>8 DEF Leftover
  <2>2. SinglePR(ev)
    BY <2>1 DEF SinglePR
  <2>3. OnlyPR(ev) = p
    BY <2>1, <2>2, OnlyPRType
  <2>4. Status(ev) = "healthy" /\ State(ev) = "ABORTED"
    BY <1>5, <2>1, <2>2, <2>3, Views
  <2>5. IssuedByInari(ev) /\ ProjectedPR(ev) = p
    BY <2>1, <2>2, <2>3 DEF IssuedByInari, ProjectedPR
  <2>6. VerifyProjection(x.plan, ev)
    BY <1>1, <1>8, <2>4, <2>5 DEF VerifyProjection, BranchOnlyAbort
  <2>7. QED
    BY <2>6 DEF ev, new
<1>9. QED
  BY <1>7, <1>8

\* An undisturbed abort takes a step of its own, without a fault.
OwnStep(e) == ExecStep(e) /\ faults' = faults

\* It reads.
LEMMA UndisturbedReads ==
  ASSUME Typed, Well(gh), NEW e \in Execs, Op[e] = "abort", Undisturbed(gh, ex[e]),
         ex[e].st \in {"reading", "rereading"}, OwnStep(e)
  PROVE  gh' = gh /\ Undisturbed(gh, ex'[e])
<1>1. /\ ex[e] \in Execution /\ ex[e].ev \in Evidence /\ gh \in Repo /\ faults \in Nat
      /\ ex[e].step \in {0, 1} /\ LastRead(e) \in Evidence
      /\ ex[e].step = 1 => ex[e].ev.branch = gh.branch
      /\ ex[e].st = "rereading" => ex[e].mode = "verify" /\ VerifyProjection(ex[e].plan, At(gh))
  BY LastReadType, BoundsAssumption DEF Typed, Execution, Undisturbed
<1>2. ex[e].st \notin ApplyStates \cup {"merging", "idle", "done"}
  BY DEF ApplyStates
<1>3. ReadBranches(e) \/ AbortPlanning(e) \/ AbortVerifying(e)
  <2>1. ~EffectSteps(e)
    BY <1>2 DEF EffectSteps, CreateBranch, ReadProvenance, AdvanceProvenance, RereadProvenance,
       CreatePullRequest, CheckDraft, MarkPullRequestReady, ClosePullRequest, CheckGeneration,
       DeleteBranchIfUnchanged, EffectReadFailure, AdmitMergeTarget, MergePullRequest,
       RereadMerged, MergeReadFailure, AtEffect
  <2>2. ~ReadFailure(e)
    BY <1>1 DEF ReadFailure, OwnStep
  <2>3. ~ReadPullRequests(e)
    BY DEF ReadPullRequests, LastStep
  <2>4. ~AbortRecoveryPlanning(e)
    BY <1>1 DEF AbortRecoveryPlanning, AtLastRead
  <2>5. QED
    BY <2>1, <2>2, <2>3, <2>4 DEF OwnStep, ExecStep, ReadSteps, IssueValidateInitial, IssuePlanning,
       IssueVerifying, IssueClassifyingFailure, IssueRecoveryOutcome, ReadyPlanning,
       ReadyVerifying, MergeAdmission, MergeVerifying
<1>4. CASE ReadBranches(e)
  <2> DEFINE none == [NoEvidence EXCEPT !.issue = gh.issue, !.branch = gh.branch]
             y    == Advance([ex[e] EXCEPT !.ev = none])
  <2>1. /\ y.st = ex[e].st /\ y.plan = ex[e].plan /\ y.ev = none /\ y.step = ex[e].step + 1
        /\ y.mode = ex[e].mode
    BY <1>1 DEF Advance, Execution
  <2>2. none.branch = gh.branch
    BY DEF NoEvidence
  <2>3. ex[e].step = 0 /\ ex' = [ex EXCEPT ![e] = y] /\ gh' = gh
    BY <1>4 DEF ReadBranches
  <2> HIDE DEF y, none
  <2>4. ex'[e] = y
    BY <2>3 DEF Typed
  <2>5. QED
    BY <1>1, <2>1, <2>2, <2>3, <2>4 DEF Undisturbed
<1>5. ASSUME NEW st, AtLastRead(e, st), Op[e] = "abort", ex[e].st # "readingInitial"
      PROVE  /\ LastRead(e).branch = gh.branch /\ LastRead(e).prs = gh.prs
             /\ At(gh).branch = gh.branch /\ At(gh).prs = gh.prs
  <2>1. ex[e].step = 1
    BY <1>5 DEF AtLastRead, LastStep
  <2>2. QED
    BY <1>1, <1>5, <2>1 DEF LastRead, Evidence, At
<1>6. ASSUME NEW y \in Execution, ReadDone(e, y)
      PROVE  /\ gh' = gh /\ ex'[e].st = y.st /\ ex'[e].step = y.step /\ ex'[e].idx = y.idx
             /\ ex'[e].mode = y.mode
             /\ ex'[e].plan = y.plan /\ ex'[e].result = y.result /\ ex'[e].ev = LastRead(e)
  <2> DEFINE z == [y EXCEPT !.ev = LastRead(e)]
  <2>1. /\ z.st = y.st /\ z.step = y.step /\ z.idx = y.idx /\ z.mode = y.mode
        /\ z.plan = y.plan /\ z.result = y.result /\ z.ev = LastRead(e)
    BY DEF Execution
  <2>2. ex' = [ex EXCEPT ![e] = z] /\ gh' = gh
    BY <1>6 DEF ReadDone
  <2> HIDE DEF z
  <2>3. QED
    BY <2>1, <2>2 DEF Typed
<1>7. ASSUME NEW r \in Outcome
      PROVE  /\ Finish(ex[e], r) \in Execution
             /\ Finish(ex[e], r).st = "done" /\ Finish(ex[e], r).result = r
  <2>1. Finish(ex[e], r) \in Execution
    BY <1>1, ExecutionType
  <2>2. QED
    BY <1>1, <2>1 DEF Finish, Execution
<1>8. CASE AbortPlanning(e)
  <2> DEFINE plan == AbortPlan(LastRead(e))
  <2>1. LastRead(e).branch = gh.branch /\ LastRead(e).prs = gh.prs
    BY <1>5, <1>8 DEF AbortPlanning, AtLastRead
  <2>2. CASE Status(LastRead(e)) = "absent"
    <3>1. ReadDone(e, Finish(ex[e], "returned-existing"))
      BY <1>8, <2>2 DEF AbortPlanning, AbortCleanupComplete
    <3>2. QED
      BY <1>6, <1>7, <3>1 DEF Undisturbed, Outcome, Success
  <2>3. CASE Status(LastRead(e)) # "absent"
    <3> DEFINE x == [ex[e] EXCEPT !.plan = plan, !.idx = 1, !.mode = "verify"]
    <3>1. ReadDone(e, Planned(e, plan))
      BY <1>8, <2>3 DEF AbortPlanning, AbortCleanupComplete
    <3>2. plan \in Plan
      BY <1>1, PlanType
    <3>3. /\ plan.kind \in {"none", "already-aborted", "delete-leftover", "close-and-delete"}
          /\ plan.kind = "none" => Foreign(LastRead(e))
          /\ plan.kind = "already-aborted" => VerifyProjection(plan, At(gh))
          /\ plan.kind \in {"delete-leftover", "close-and-delete"} =>
               \A y : y.plan = plan /\ y.idx = 1 /\ y.step = 0 => Cleans(gh, y)
      BY <1>1, <2>1, <2>3, AbortPlans
    <3> HIDE DEF plan
    <3>4. Planned(e, plan) \in Execution
      BY <3>2, PlannedType
    <3>5. x \in Execution /\ x.plan = plan /\ x.idx = 1 /\ x.mode = "verify"
      <4>1. x \in Execution
        BY <1>1, <3>2, ExecutionType
      <4>2. QED
        BY <1>1, <4>1 DEF Execution
    <3>6. Planned(e, plan) = IF plan.kind = "none" THEN Finish(x, "precondition-failed")
            ELSE Goto(x, IF Effects(plan.kind) = << >> THEN "rereading" ELSE "applying")
      BY <1>8 DEF Planned, ApplyState, AbortPlanning
    <3> HIDE DEF x
    <3>7. /\ Finish(x, "precondition-failed").st = "done"
          /\ Finish(x, "precondition-failed").result = "precondition-failed"
          /\ \A st : /\ Goto(x, st).st = st /\ Goto(x, st).step = 0 /\ Goto(x, st).idx = 1
                     /\ Goto(x, st).plan = plan /\ Goto(x, st).mode = "verify"
      BY <3>5 DEF Finish, Goto, Execution
    <3>8. CASE plan.kind = "none"
      BY <1>6, <3>1, <3>3, <3>4, <3>6, <3>7, <3>8 DEF Undisturbed
    <3>9. CASE plan.kind = "already-aborted"
      <4>1. Planned(e, plan) = Goto(x, "rereading")
        BY <3>6, <3>9, AbortEffects
      <4>2. /\ ex'[e].st = "rereading" /\ ex'[e].step = 0 /\ ex'[e].mode = "verify"
            /\ ex'[e].plan = plan /\ gh' = gh
        BY <1>6, <3>1, <3>4, <3>7, <4>1
      <4>3. QED
        BY <3>3, <3>9, <4>2 DEF Undisturbed
    <3>10. CASE plan.kind \in {"delete-leftover", "close-and-delete"}
      <4>1. Planned(e, plan) = Goto(x, "applying")
        BY <3>6, <3>10, AbortEffects
      <4>2. /\ ex'[e].st = "applying" /\ ex'[e].step = 0 /\ ex'[e].idx = 1
            /\ ex'[e].plan = plan /\ gh' = gh
        BY <1>6, <3>1, <3>4, <3>7, <4>1
      <4>3. QED
        BY <3>3, <3>10, <4>2 DEF Undisturbed
    <3>11. QED
      BY <3>3, <3>8, <3>9, <3>10
  <2>4. QED
    BY <2>2, <2>3
<1>9. CASE AbortVerifying(e)
  <2>1. /\ LastRead(e).branch = At(gh).branch /\ LastRead(e).prs = At(gh).prs
        /\ ex[e].st = "rereading"
    BY <1>5, <1>9 DEF AbortVerifying, AtLastRead
  <2>2. VerifyProjection(ex[e].plan, LastRead(e))
    BY <1>1, <2>1, SameVerified
  <2>3. PICK r \in Success : ReadDone(e, Finish(ex[e], r))
    BY <1>9, <2>2 DEF AbortVerifying, Verified, Success
  <2>4. QED
    BY <1>6, <1>7, <2>3 DEF Undisturbed, Outcome, Success
<1>10. QED
  BY <1>3, <1>4, <1>8, <1>9

\* It applies the effect that it is at.
LEMMA UndisturbedApplies ==
  ASSUME Typed, Well(gh), NEW e \in Execs, Op[e] = "abort", Undisturbed(gh, ex[e]),
         ex[e].st = "applying", OwnStep(e)
  PROVE  Undisturbed(gh', ex'[e])
<1> DEFINE x == ex[e]
<1>1. /\ x \in Execution /\ gh \in Repo /\ faults \in Nat /\ Cleans(gh, x)
  BY BoundsAssumption DEF Typed, Undisturbed
<1>2. /\ x.st \in ApplyStates /\ x.st \notin ReadStates /\ x.st # "applyingCompensation"
      /\ x.st # "merging"
  BY DEF ApplyStates, ReadStates
<1>3. EffectAt(x) \in {"CLOSE_PULL_REQUEST", "DELETE_BRANCH"}
  BY <1>1, <1>2, AbortEffects DEF Cleans, EffectAt
<1>4. EffectAt(x) = "DELETE_BRANCH" =>
        x.idx = Len(Effects(x.plan.kind)) /\ x.step \in {0, 1} /\ Leftover(gh, x.plan)
  BY <1>1, <1>2, AbortEffects DEF Cleans, EffectAt
<1>5. ClosePullRequest(e) \/ CheckGeneration(e) \/ DeleteBranchIfUnchanged(e)
  <2>1. ~ReadSteps(e)
    BY <1>2 DEF ReadSteps, ReadBranches, ReadPullRequests, ReadFailure, IssueValidateInitial,
       IssuePlanning, IssueVerifying, IssueClassifyingFailure, IssueRecoveryOutcome,
       ReadyPlanning, ReadyVerifying, AbortPlanning, AbortVerifying, AbortRecoveryPlanning,
       MergeAdmission, MergeVerifying, AtLastRead
  <2>2. ~EffectReadFailure(e)
    BY <1>1 DEF EffectReadFailure, RefusedAnyway, OwnStep
  <2>3. QED
    BY <1>2, <1>3, <2>1, <2>2 DEF OwnStep, ExecStep, EffectSteps, CreateBranch, ReadProvenance,
       AdvanceProvenance, RereadProvenance, CreatePullRequest, CheckDraft, MarkPullRequestReady,
       AdmitMergeTarget, MergePullRequest, RereadMerged, MergeReadFailure, AtEffect
<1>6. ASSUME NEW r, SendEffect(e, r), Accepts(gh, r)
      PROVE  gh' = Apply(gh, r) /\ ex'[e] = EffectDone(x)
  <2>1. gh' = Apply(gh, r) /\ ex' = [ex EXCEPT ![e] = EffectDone(x)]
    BY <1>1, <1>6 DEF SendEffect, Send, Acknowledged, Refused, RefusedAnyway, AnswerLost, TimedOut, OwnStep
  <2>2. QED
    BY <2>1 DEF Typed
<1> HIDE DEF x
<1>7. CASE ClosePullRequest(e)
  <2> DEFINE r == RequestOf(e, "closePR", x.plan.pr, NoSha, NoSha)
  <2>1. r.kind = "closePR" /\ r.pr = x.plan.pr /\ SendEffect(e, r) /\ EffectAt(x) = "CLOSE_PULL_REQUEST"
    BY <1>7 DEF ClosePullRequest, RequestOf, AtEffect, x
  <2> HIDE DEF r
  <2>2. Accepts(gh, r)
    BY <2>1 DEF Accepts
  <2>3. gh' = Apply(gh, r) /\ ex'[e] = EffectDone(x)
    BY <1>6, <2>1, <2>2
  <2>4. x.st = "applying"
    BY DEF x
  <2>5. EffectDone(x).st = "applying" /\ Cleans(gh', EffectDone(x))
    BY <1>1, <2>1, <2>3, <2>4, ClosedLeavesBranch
  <2>6. QED
    BY <2>3, <2>5 DEF Undisturbed
<1>8. CASE CheckGeneration(e)
  <2>1. EffectAt(x) = "DELETE_BRANCH" /\ x.step = 0 /\ x.st = "applying"
    BY <1>8 DEF CheckGeneration, AtEffect, x
  <2>2. ExpectedSha(x) = gh.branch /\ gh.branch # NoSha
    BY <1>1, <2>1 DEF ExpectedSha, Cleans
  <2>3. ex' = [ex EXCEPT ![e] = Advance(x)] /\ gh' = gh
    BY <1>8, <2>2 DEF CheckGeneration, Observe, x
  <2>4. ex'[e] = Advance(x)
    BY <2>3 DEF Typed
  <2>5. /\ Advance(x).st = "applying" /\ Advance(x).step = 1 /\ Advance(x).idx = x.idx
        /\ Advance(x).plan = x.plan
    BY <1>1, <2>1 DEF Advance, Execution
  <2>6. Cleans(gh, Advance(x))
    BY <1>1, <1>4, <2>1, <2>5 DEF Cleans
  <2>7. QED
    BY <2>3, <2>4, <2>5, <2>6 DEF Undisturbed
<1>9. CASE DeleteBranchIfUnchanged(e)
  <2> DEFINE r == RequestOf(e, "deleteRef", NoPR, ExpectedSha(x), NoSha)
  <2>1. /\ r.kind = "deleteRef" /\ r.from = ExpectedSha(x) /\ SendEffect(e, r)
        /\ EffectAt(x) = "DELETE_BRANCH" /\ x.st = "applying"
    BY <1>9 DEF DeleteBranchIfUnchanged, RequestOf, AtEffect, x
  <2> HIDE DEF r
  <2>2. ExpectedSha(x) = gh.branch
    BY <1>1, <2>1 DEF ExpectedSha, Cleans
  <2>3. Accepts(gh, r) /\ Apply(gh, r) = WithoutBranch(gh)
    BY <2>1, <2>2 DEF Accepts, Apply
  <2>4. gh' = WithoutBranch(gh) /\ ex'[e] = EffectDone(x)
    BY <1>6, <2>1, <2>3
  <2>5. EffectDone(x) = Goto([x EXCEPT !.mode = "verify"], "rereading")
    BY <1>1, <1>4, <2>1, AbortEffects DEF EffectDone, Cleans
  <2>6. /\ EffectDone(x).st = "rereading" /\ EffectDone(x).step = 0
        /\ EffectDone(x).mode = "verify" /\ EffectDone(x).plan = x.plan
    BY <1>1, <2>5 DEF Goto, Execution
  <2>7. VerifyProjection(x.plan, At(gh'))
    BY <1>1, <2>1, <2>4, GoneIsClean
  <2>8. QED
    BY <2>4, <2>6, <2>7 DEF Undisturbed
<1>10. QED
  BY <1>5, <1>7, <1>8, <1>9

\* A step moves at most one execution.
LEMMA OneActs ==
  ASSUME Typed, NEW e \in Execs, NEW f \in Execs, f # e, Begin(f) \/ ExecStep(f) \/ Crash(f)
  PROVE  ex'[e] = ex[e]
<1>1. \E y : ex' = [ex EXCEPT ![f] = y]
  <2>1. CASE Begin(f)
    BY <2>1 DEF Begin
  <2>2. CASE Crash(f)
    BY <2>2 DEF Crash, RefusedAnyway
  <2>3. CASE ReadBranches(f) \/ ReadPullRequests(f) \/ ReadFailure(f)
    BY <2>3 DEF ReadBranches, ReadPullRequests, ReadFailure
  <2>4. CASE \/ IssueValidateInitial(f) \/ IssuePlanning(f) \/ IssueVerifying(f)
             \/ IssueClassifyingFailure(f) \/ IssueRecoveryOutcome(f)
             \/ ReadyPlanning(f) \/ ReadyVerifying(f)
             \/ AbortPlanning(f) \/ AbortVerifying(f) \/ AbortRecoveryPlanning(f)
             \/ MergeAdmission(f) \/ MergeVerifying(f)
    <3>1. \E y : ReadDone(f, y)
      BY <2>4 DEF IssueValidateInitial, IssuePlanning, IssueVerifying, IssueClassifyingFailure,
         IssueRecoveryOutcome, ReadyPlanning, ReadyVerifying, AbortPlanning, AbortVerifying,
         AbortRecoveryPlanning, MergeAdmission, MergeVerifying
    <3>2. QED
      BY <3>1 DEF ReadDone
  <2>5. CASE EffectSteps(f)
    <3>1. CASE \/ CreateBranch(f) \/ CreatePullRequest(f) \/ MarkPullRequestReady(f)
               \/ ClosePullRequest(f) \/ DeleteBranchIfUnchanged(f) \/ MergePullRequest(f)
      <4>1. \E r, ok, refused, unknown : Send(f, r, ok, refused, unknown)
        BY <3>1 DEF CreateBranch, CreatePullRequest, MarkPullRequestReady, ClosePullRequest,
           DeleteBranchIfUnchanged, MergePullRequest, SendEffect
      <4>2. QED
        BY <4>1 DEF Send, Acknowledged, Refused, RefusedAnyway, AnswerLost, TimedOut, Observe
    <3>2. CASE AdvanceProvenance(f)
      BY <3>2 DEF AdvanceProvenance
    <3>3. CASE \/ ReadProvenance(f) \/ RereadProvenance(f) \/ CheckDraft(f) \/ CheckGeneration(f)
               \/ EffectReadFailure(f) \/ AdmitMergeTarget(f) \/ RereadMerged(f)
               \/ MergeReadFailure(f)
      <4>1. \E y : Observe(f, y) \/ RefusedAnyway(f, y)
        BY <3>3 DEF ReadProvenance, RereadProvenance, CheckDraft, CheckGeneration,
           EffectReadFailure, AdmitMergeTarget, RereadMerged, MergeReadFailure
      <4>2. QED
        BY <4>1 DEF Observe, RefusedAnyway
    <3>4. QED
      BY <2>5, <3>1, <3>2, <3>3 DEF EffectSteps
  <2>6. QED
    BY <2>1, <2>2, <2>3, <2>4, <2>5 DEF ExecStep, ReadSteps
<1>2. PICK y : ex' = [ex EXCEPT ![f] = y]
  BY <1>1
<1>3. QED
  BY <1>2 DEF Typed

\* Nothing moves an execution that is done.
LEMMA DoneIsDone ==
  ASSUME NEW e \in Execs, ex[e].st = "done"
  PROVE  ~Begin(e) /\ ~ExecStep(e) /\ ~Crash(e)
<1>1. ex[e].st \notin ReadStates \cup ApplyStates \cup {"merging", "idle"}
  BY DEF ReadStates, ApplyStates
<1>2. ~Begin(e) /\ ~Crash(e)
  BY <1>1 DEF Begin, Crash, Running
<1>3. ~ReadSteps(e)
  BY <1>1 DEF ReadSteps, ReadBranches, ReadPullRequests, ReadFailure, IssueValidateInitial,
     IssuePlanning, IssueVerifying, IssueClassifyingFailure, IssueRecoveryOutcome,
     ReadyPlanning, ReadyVerifying, AbortPlanning, AbortVerifying, AbortRecoveryPlanning,
     MergeAdmission, MergeVerifying, AtLastRead
<1>4. ~EffectSteps(e)
  BY <1>1 DEF EffectSteps, CreateBranch, ReadProvenance, AdvanceProvenance, RereadProvenance,
     CreatePullRequest, CheckDraft, MarkPullRequestReady, ClosePullRequest, CheckGeneration,
     DeleteBranchIfUnchanged, EffectReadFailure, AdmitMergeTarget, MergePullRequest,
     RereadMerged, MergeReadFailure, AtEffect
<1>5. QED
  BY <1>2, <1>3, <1>4 DEF ExecStep

\* Every step keeps undisturbed aborts on their way.
LEMMA AloneInvStep ==
  ASSUME Base, AloneInv, [Next]_vars
  PROVE  AloneInv'
<1>1. CASE Next
  <2>1. Typed /\ Well(gh) /\ faults \in Nat
    BY BaseReady, BoundsAssumption DEF HeadsInv, Typed
  <2>2. ASSUME NEW e \in Execs, Op[e] = "abort", calm'[e] PROVE Undisturbed(gh', ex'[e])
    <3>1. Calm(e)
      BY <1>1, <2>2 DEF Next
    <3>2. ex'[e] # ex[e] => Begin(e) \/ ExecStep(e) \/ Crash(e)
      <4>1. ASSUME NEW r \in late, LateArrival(r) PROVE ex'[e] = ex[e]
        BY <4>1 DEF LateArrival
      <4>2. HumanStep => ex'[e] = ex[e]
        BY PeopleTouchRepo
      <4>3. QED
        BY <1>1, <2>1, <4>1, <4>2, OneActs DEF Next, Step
    <3>3. CASE ex[e].st = "idle"
      <4>1. ex'[e].st # "idle"
        BY <3>1, <3>3 DEF Calm
      <4>2. ~ExecStep(e) /\ ~Crash(e)
        <5>1. ex[e].st \notin ReadStates \cup ApplyStates \cup {"merging"}
          BY <3>3 DEF ReadStates, ApplyStates
        <5>2. ~ReadSteps(e)
          BY <5>1 DEF ReadSteps, ReadBranches, ReadPullRequests, ReadFailure, IssueValidateInitial,
             IssuePlanning, IssueVerifying, IssueClassifyingFailure, IssueRecoveryOutcome,
             ReadyPlanning, ReadyVerifying, AbortPlanning, AbortVerifying, AbortRecoveryPlanning,
             MergeAdmission, MergeVerifying, AtLastRead
        <5>3. ~EffectSteps(e)
          BY <5>1 DEF EffectSteps, CreateBranch, ReadProvenance, AdvanceProvenance, RereadProvenance,
             CreatePullRequest, CheckDraft, MarkPullRequestReady, ClosePullRequest, CheckGeneration,
             DeleteBranchIfUnchanged, EffectReadFailure, AdmitMergeTarget, MergePullRequest,
             RereadMerged, MergeReadFailure, AtEffect
        <5>4. ~Crash(e)
          BY <3>3 DEF Crash, Running
        <5>5. QED
          BY <5>2, <5>3, <5>4 DEF ExecStep
      <4>3. Begin(e)
        BY <3>2, <3>3, <4>1, <4>2
      <4>4. ex'[e] = Goto(ex[e], "reading")
        BY <2>1, <2>2, <4>3 DEF Begin, Typed
      <4>5. ex'[e].st = "reading" /\ ex'[e].step = 0
        BY <2>1, <4>4 DEF Goto, Typed, Execution
      <4>6. QED
        BY <4>5 DEF Undisturbed
    <3>4. CASE ex[e].st = "done"
      <4>1. calm[e]
        BY <3>1, <3>4 DEF Calm
      <4>2. ex'[e] = ex[e]
        BY <3>2, <3>4, DoneIsDone
      <4>3. Undisturbed(gh, ex[e])
        BY <2>2, <4>1 DEF AloneInv, Alone
      <4>4. QED
        BY <3>4, <4>2, <4>3 DEF Undisturbed
    <3>5. CASE ex[e].st \notin {"idle", "done"}
      <4>1. calm[e] /\ ex'[e] # ex[e] /\ faults' = faults
        BY <3>1, <3>5 DEF Calm
      <4>2. Undisturbed(gh, ex[e])
        BY <2>2, <4>1 DEF AloneInv, Alone
      <4>3. OwnStep(e)
        BY <2>1, <3>2, <3>5, <4>1 DEF OwnStep, Begin, Crash, RefusedAnyway
      <4>4. CASE ex[e].st \in {"reading", "rereading"}
        BY <2>1, <2>2, <4>2, <4>3, <4>4, UndisturbedReads
      <4>5. CASE ex[e].st = "applying"
        BY <2>1, <2>2, <4>2, <4>3, <4>5, UndisturbedApplies
      <4>6. QED
        BY <3>5, <4>2, <4>4, <4>5 DEF Undisturbed
    <3>6. QED
      BY <3>3, <3>4, <3>5
  <2>3. QED
    BY <2>2 DEF AloneInv, Alone, Undisturbed, Cleans, Leftover, At
<1>2. CASE UNCHANGED vars
  BY <1>2 DEF vars, AloneInv, Alone, Undisturbed, Cleans, Leftover, At
<1>3. QED
  BY <1>1, <1>2

\* Nobody started at first.
LEMMA AloneInvInit == Init => AloneInv
BY DEF Init, AloneInv, Alone

\* Every undisturbed abort is on its way, in every reachable state.
THEOREM AloneInvariant == Spec => []AloneInv
<1>1. Inv /\ RequestInv /\ HeadsInv => Base
  BY DEF Base
<1>2. QED
  BY <1>1, AloneInvInit, AloneInvStep, InvHolds, RequestInvariant, HeadsInvariant, PTL DEF Spec

\* An abort that starts alone and is not disturbed succeeds, unless the Change
\* has a duplicate, a merged or a foreign pull request.
THEOREM UndisturbedAbortsCleanUp == Spec => []UndisturbedAbortCleansUp
<1>1. AloneInv => UndisturbedAbortCleansUp
  BY DEF AloneInv, Alone, Undisturbed, Foreign, UndisturbedAbortCleansUp
<1>2. QED
  BY <1>1, AloneInvariant, PTL

-----------------------------------------------------------------------------
(* What a compensation deletes, when one execution issues the Change.       *)

\* At most one execution issues.  Two would adopt each other's record: the one
\* that finds it on the branch takes it for its own commit.
OneIssue == \A e, f \in Execs : Op[e] = "issue" /\ Op[f] = "issue" => e = f

\* No commit holds the provenance record.
Recordless(repo) == \A c \in CommitIds : ~repo.commits[c].record

\* The commit c exists and e made it.
Owned(repo, e, c) == c \in CommitIds /\ c <= repo.n /\ repo.commits[c].by = e

\* An issuance that has not created its provenance commit.
Unrecorded(x) ==
  \/ x.st \in {"idle", "readingInitial", "readingFresh"}
  \/ x.st = "applyingEffect" /\ (x.idx = 1 \/ (x.idx = 2 /\ x.step \in {0, 1}))

\* An issuance that reported its provenance commit as created.
Recorded(x) == x.idx = 3 \/ (x.st = "applyingEffect" /\ x.idx = 2 /\ x.step = 2)

\* Only an issuance creates, and it compensates only after its record.
Shaped(e, x) ==
  IF Op[e] = "issue"
  THEN /\ x.plan.kind \in {"none", "create", "return-existing"}
       /\ x.st \in ApplyStates => x.st \in {"applyingEffect", "applyingCompensation"}
       /\ x.st \in {"applyingEffect", "rereadingAfterFailure"} => x.plan.kind = "create"
       /\ x.st = "applyingCompensation" => x.idx = 3
  ELSE x.plan.kind # "create"

ShapedInv == \A e \in Execs : Shaped(e, ex[e])

\* What an issuance recorded, and what it asks to delete, is its own commit.
OwnInv ==
  /\ ShapedInv
  /\ \A e \in Execs : Op[e] = "issue" =>
       /\ Unrecorded(ex[e]) => Recordless(gh)
       /\ Recorded(ex[e]) => Owned(gh, e, ex[e].made)
  /\ \A r \in Sent : r.kind = "deleteRef" /\ Op[r.by] = "issue" => Owned(gh, r.by, r.from)

\* An execution goes on without creating its provenance commit.
Plain(e, x, y) ==
  /\ Shaped(e, y)
  /\ Op[e] = "issue" =>
       /\ Unrecorded(y) => Unrecorded(x)
       /\ Recorded(y) => Recorded(x) /\ y.made = x.made

\* Such a step leaves what an issuance did, and the effect it is at, alone.
LEMMA PlainStep ==
  ASSUME NEW e, NEW x, Shaped(e, x), NEW y,
         y.plan = x.plan, y.idx = x.idx, y.made = x.made,
         y.st \notin {"applyingEffect", "applyingCompensation"},
         Op[e] = "issue" => y.st \notin ApplyStates,
         Op[e] = "issue" /\ y.st = "rereadingAfterFailure" => x.plan.kind = "create",
         y.st \in {"idle", "readingInitial", "readingFresh"} =>
           x.st \in {"idle", "readingInitial", "readingFresh"}
  PROVE  Plain(e, x, y)
BY DEF Plain, Shaped, Unrecorded, Recorded

\* Another operation goes on.
LEMMA PlainOther ==
  ASSUME NEW e, NEW x, Op[e] # "issue", NEW y, y.plan.kind # "create"
  PROVE  Plain(e, x, y)
BY DEF Plain, Shaped

\* The forms of such a step.
LEMMA PlainForms ==
  ASSUME NEW e, NEW x \in Execution, Shaped(e, x)
  PROVE  /\ \A r : Plain(e, x, Finish(x, r))
         /\ \A m, st :
              (/\ st \notin ApplyStates \cup {"idle", "readingInitial", "readingFresh"}
               /\ st # "rereadingAfterFailure" \/ x.st = "applyingEffect")
              => Plain(e, x, Goto(x, st)) /\ Plain(e, x, Goto([x EXCEPT !.mode = m], st))
<1>1. ASSUME NEW r PROVE Plain(e, x, Finish(x, r))
  <2>1. /\ Finish(x, r).st = "done" /\ Finish(x, r).plan = x.plan
        /\ Finish(x, r).idx = x.idx /\ Finish(x, r).made = x.made
    BY DEF Finish, Execution
  <2>2. QED
    BY <2>1, PlainStep DEF ApplyStates
<1>2. ASSUME NEW st, st \notin ApplyStates \cup {"idle", "readingInitial", "readingFresh"},
             st # "rereadingAfterFailure" \/ x.st = "applyingEffect", NEW m
      PROVE  Plain(e, x, Goto(x, st)) /\ Plain(e, x, Goto([x EXCEPT !.mode = m], st))
  <2>1. /\ Goto(x, st).st = st /\ Goto(x, st).plan = x.plan
        /\ Goto(x, st).idx = x.idx /\ Goto(x, st).made = x.made
        /\ Goto([x EXCEPT !.mode = m], st).st = st
        /\ Goto([x EXCEPT !.mode = m], st).plan = x.plan
        /\ Goto([x EXCEPT !.mode = m], st).idx = x.idx
        /\ Goto([x EXCEPT !.mode = m], st).made = x.made
    BY DEF Goto, Execution
  <2>2. QED
    BY <1>2, <2>1, PlainStep DEF ApplyStates, Shaped
<1>3. QED
  BY <1>1, <1>2

\* The effect an issuance is at.
LEMMA IssueEffects ==
  ASSUME NEW e, NEW x \in Execution, Op[e] = "issue", Shaped(e, x), x.st \in ApplyStates,
         x.st # "applyingCompensation" => x.idx <= Len(Effects(x.plan.kind))
  PROVE  \/ x.st = "applyingCompensation" /\ EffectAt(x) = "DELETE_BRANCH"
         \/ /\ x.st = "applyingEffect" /\ Len(Effects(x.plan.kind)) = 3
            /\ x.idx = 1 => EffectAt(x) = "CREATE_BRANCH"
            /\ x.idx = 2 => EffectAt(x) = "CREATE_PROVENANCE_COMMIT"
            /\ x.idx = 3 => EffectAt(x) = "CREATE_PULL_REQUEST"
<1>1. x.idx \in 1 .. 3
  BY DEF Execution, EffectNo
<1>2. CASE x.st = "applyingCompensation"
  BY <1>2 DEF EffectAt
<1>3. CASE x.st # "applyingCompensation"
  <2>1. x.plan.kind = "create"
    BY <1>1, <1>3 DEF Shaped, Effects
  <2>2. QED
    BY <1>3, <2>1 DEF Shaped, Effects, EffectAt
<1>4. QED
  BY <1>2, <1>3

\* No other operation creates the provenance commit.
LEMMA OtherEffects ==
  ASSUME NEW e, NEW x \in Execution, Op[e] # "issue", Shaped(e, x), x.st \in ApplyStates,
         x.st # "applyingCompensation", x.idx <= Len(Effects(x.plan.kind))
  PROVE  EffectAt(x) # "CREATE_PROVENANCE_COMMIT"
<1>1. x.idx \in 1 .. 3 /\ x.plan.kind # "create"
  BY DEF Execution, EffectNo, Shaped
<1>2. CASE x.plan.kind \in {"mark-ready", "delete-leftover"}
  BY <1>1, <1>2 DEF Effects, EffectAt
<1>3. CASE x.plan.kind = "close-and-delete"
  BY <1>1, <1>3 DEF Effects, EffectAt
<1>4. CASE x.plan.kind \notin {"create", "mark-ready", "delete-leftover", "close-and-delete"}
  BY <1>1, <1>4 DEF Effects
<1>5. QED
  BY <1>1, <1>2, <1>3, <1>4

\* An effect that ends, fails or goes on does not create a record.
LEMMA PlainEffects ==
  ASSUME NEW e, NEW x \in Execution, Shaped(e, x), x.st \in ApplyStates
  PROVE  /\ Plain(e, x, EffectFailed(x))
         /\ ~(x.st = "applyingEffect" /\ x.idx = 2 /\ x.step # 2) => Plain(e, x, EffectDone(x))
         /\ Op[e] = "issue" /\ x.st # "applyingEffect" => Plain(e, x, Advance(x))
         /\ Op[e] # "issue" => Plain(e, x, Advance(x))
<1>1. Plain(e, x, EffectFailed(x))
  <2>1. CASE x.st = "applyingEffect"
    BY <2>1, PlainForms DEF EffectFailed, ApplyStates
  <2>2. CASE x.st # "applyingEffect"
    BY <2>2, PlainForms DEF EffectFailed, ApplyStates
  <2>3. QED
    BY <2>1, <2>2
<1>2. ASSUME ~(x.st = "applyingEffect" /\ x.idx = 2 /\ x.step # 2)
      PROVE  Plain(e, x, EffectDone(x))
  <2>1. CASE x.st # "applyingCompensation" /\ x.idx < Len(Effects(x.plan.kind))
    <3> DEFINE y == [x EXCEPT !.idx = x.idx + 1, !.step = 0]
    <3>1. /\ y.st = x.st /\ y.plan = x.plan /\ y.made = x.made
          /\ y.idx = x.idx + 1 /\ y.step = 0 /\ x.idx \in 1 .. 3
      BY DEF Execution, EffectNo
    <3>2. EffectDone(x) = y
      BY <2>1 DEF EffectDone
    <3> HIDE DEF y
    <3>3. Shaped(e, y)
      BY <2>1, <3>1 DEF Shaped
    <3>4. Op[e] = "issue" => x.st = "applyingEffect"
      BY <2>1 DEF Shaped
    <3>5. Op[e] = "issue" /\ Recorded(y) => Recorded(x)
      BY <1>2, <3>1, <3>4 DEF Recorded
    <3>6. Op[e] = "issue" /\ Unrecorded(y) => Unrecorded(x)
      BY <3>1, <3>4 DEF Unrecorded
    <3>7. QED
      BY <3>1, <3>2, <3>3, <3>5, <3>6 DEF Plain
  <2>2. CASE x.st = "applyingCompensation" \/ ~(x.idx < Len(Effects(x.plan.kind)))
    <3>1. \A m : /\ Plain(e, x, Goto([x EXCEPT !.mode = m], "rereading"))
                 /\ Plain(e, x, Goto([x EXCEPT !.mode = m], "rereadingAfterCompensation"))
      BY PlainForms DEF ApplyStates
    <3>2. QED
      BY <2>2, <3>1 DEF EffectDone
  <2>3. QED
    BY <2>1, <2>2
<1>3. Advance(x).st = x.st /\ Advance(x).plan = x.plan /\ Advance(x).idx = x.idx
      /\ Advance(x).made = x.made
  BY DEF Advance, Execution
<1>4. Op[e] # "issue" => Plain(e, x, Advance(x))
  BY <1>3, PlainOther DEF Shaped
<1>5. Op[e] = "issue" /\ x.st # "applyingEffect" => Plain(e, x, Advance(x))
  BY <1>3 DEF Plain, Shaped, Unrecorded, Recorded, ApplyStates
<1>6. QED
  BY <1>1, <1>2, <1>4, <1>5

\* Neither an update of a branch nor of a pull request touches a commit.
LEMMA ApplyCommits ==
  ASSUME NEW repo \in Repo, NEW r \in Request
  PROVE  Apply(repo, r).commits = repo.commits
<1>1. \A b, f : [repo EXCEPT !.branch = b, !.prs = f].commits = repo.commits
  BY DEF Repo
<1>2. \A sha : WithHead(repo, sha).commits = repo.commits
  BY <1>1 DEF WithHead
<1>3. WithoutBranch(repo).commits = repo.commits
  BY <1>1 DEF WithoutBranch
<1>4. WithPR(repo, r.by, TRUE).commits = repo.commits
  BY DEF WithPR, Repo
<1>5. /\ [repo EXCEPT !.prs[r.pr].draft = FALSE].commits = repo.commits
      /\ [repo EXCEPT !.prs[r.pr].state = "closed"].commits = repo.commits
      /\ [repo EXCEPT !.prs[r.pr].state = "merged",
                      !.prs[r.pr].method = MergeMethodReported].commits = repo.commits
  BY DEF Repo
<1>6. r.kind \in RequestKind
  BY DEF Request
<1>7. QED
  BY <1>2, <1>3, <1>4, <1>5, <1>6 DEF Apply, RequestKind

\* The request to delete the branch that an issuance may send.
Permitted(e, s) ==
  /\ s.by = e
  /\ s.kind = "deleteRef" /\ Op[e] = "issue" =>
       ex[e].st = "applyingCompensation" /\ s.from = ex[e].made

\* e moves without touching a commit, and sends what it may.
Careful(e) ==
  /\ \E y : ex' = [ex EXCEPT ![e] = y] /\ Plain(e, ex[e], y)
  /\ gh'.commits = gh.commits
  /\ \A s \in Sent' : s \in Sent \/ Permitted(e, s)

\* A step that sends nothing.
LEMMA CarefulStep ==
  ASSUME NEW e, NEW y, Plain(e, ex[e], y), ex' = [ex EXCEPT ![e] = y],
         gh' = gh, late' = late, applied' = applied
  PROVE  Careful(e)
BY DEF Careful, Sent

\* A request with each of its fates.
LEMMA CarefulSend ==
  ASSUME Typed, NEW e, NEW r \in Request, Permitted(e, r), NEW ok, NEW refused, NEW unknown,
         Plain(e, ex[e], ok), Plain(e, ex[e], refused), Plain(e, ex[e], unknown),
         Send(e, r, ok, refused, unknown)
  PROVE  Careful(e)
<1>1. \E y \in {ok, refused, unknown} : ex' = [ex EXCEPT ![e] = y]
  BY DEF Send, Acknowledged, Refused, RefusedAnyway, AnswerLost, TimedOut, Observe
<1>2. gh' \in {gh, Apply(gh, r)}
  BY DEF Send, Acknowledged, Refused, RefusedAnyway, AnswerLost, TimedOut, Observe
<1>3. applied' \subseteq applied \cup {Hit(r)} /\ late' \subseteq late \cup {r}
  BY DEF Send, Acknowledged, Refused, RefusedAnyway, AnswerLost, TimedOut, Observe
<1>4. Hit(r).req = r
  BY DEF Hit
<1>5. \A s \in Sent' : s \in Sent \/ s = r
  BY <1>3, <1>4 DEF Sent
<1>6. gh'.commits = gh.commits
  BY <1>2, ApplyCommits DEF Typed
<1>7. QED
  BY <1>1, <1>5, <1>6 DEF Careful

\* The effects, but for the creation of the provenance commit.
LEMMA CarefulEffects ==
  ASSUME Base, NEW e \in Execs, Shaped(e, ex[e]),
         ReadProvenance(e) /\ Op[e] = "issue" /\ Unrecorded(ex[e]) => Recordless(gh),
         \/ CreateBranch(e) \/ ReadProvenance(e) \/ RereadProvenance(e)
         \/ CreatePullRequest(e) \/ CheckDraft(e) \/ MarkPullRequestReady(e)
         \/ ClosePullRequest(e) \/ CheckGeneration(e) \/ DeleteBranchIfUnchanged(e)
         \/ EffectReadFailure(e)
  PROVE  Careful(e)
<1> DEFINE x == ex[e]
<1>1. /\ Typed /\ RequestInv /\ x \in Execution /\ x.st \in ApplyStates
      /\ gh.branch \in Shas /\ x.plan \in Plan /\ x.made \in Shas
      /\ x.idx \in 1 .. 3 /\ x.step \in 0 .. 2
  BY BaseReady DEF Ready, Typed, Repo, Execution, EffectNo, StepNo, CreateBranch, ReadProvenance,
     RereadProvenance, CreatePullRequest, CheckDraft, MarkPullRequestReady, ClosePullRequest,
     CheckGeneration, DeleteBranchIfUnchanged, EffectReadFailure, AtEffect
<1>2. x.st = "applyingCompensation" \/ x.idx <= Len(Effects(x.plan.kind))
  BY <1>1 DEF Base, Inv, PublicationInv, EffectInRange
<1>3. Op[e] = "issue" =>
        \/ x.st = "applyingCompensation" /\ EffectAt(x) = "DELETE_BRANCH"
        \/ /\ x.st = "applyingEffect" /\ Len(Effects(x.plan.kind)) = 3
           /\ x.idx = 1 => EffectAt(x) = "CREATE_BRANCH"
           /\ x.idx = 2 => EffectAt(x) = "CREATE_PROVENANCE_COMMIT"
           /\ x.idx = 3 => EffectAt(x) = "CREATE_PULL_REQUEST"
  BY <1>1, <1>2, IssueEffects
<1>4. Op[e] # "issue" => EffectAt(x) # "CREATE_PROVENANCE_COMMIT"
  <2>1. Op[e] # "issue" => x.st # "applyingCompensation"
    BY <1>1 DEF RequestInv, StatesFitOperation
  <2>2. QED
    BY <1>1, <1>2, <2>1, OtherEffects
<1>5. /\ Plain(e, x, EffectFailed(x))
      /\ ~(x.st = "applyingEffect" /\ x.idx = 2 /\ x.step # 2) => Plain(e, x, EffectDone(x))
      /\ Op[e] = "issue" /\ x.st # "applyingEffect" => Plain(e, x, Advance(x))
      /\ Op[e] # "issue" => Plain(e, x, Advance(x))
  BY <1>1, PlainEffects
<1>6. Op[e] # "issue" => Plain(e, x, EffectDone(x))
  <2>1. EffectDone(x).plan = x.plan
    BY <1>1 DEF EffectDone, Goto, Execution
  <2>2. QED
    BY <2>1, PlainOther DEF Shaped
<1>7. \A y : Plain(e, x, y) /\ (Observe(e, y) \/ RefusedAnyway(e, y)) => Careful(e)
  BY CarefulStep DEF Observe, RefusedAnyway
<1>8. NoSha \in Shas /\ BaseSha \in Shas /\ NoPR \in PRNumbers
      /\ x.plan.pr \in PRNumbers /\ x.plan.sha \in Shas
  BY <1>1, MaxCommitsAssumption, MaxPRsAssumption DEF Shas, PRNumbers, Plan
<1>9. \A kind \in RequestKind, pr \in PRNumbers, from \in Shas, to \in Shas :
         LET r == RequestOf(e, kind, pr, from, to) IN
         r \in Request /\ r.kind = kind /\ r.by = e /\ r.from = from
  BY DEF RequestOf, Request
<1>10. ASSUME NEW r \in Request, Permitted(e, r), SendEffect(e, r), Plain(e, x, EffectDone(x))
       PROVE  Careful(e)
  BY <1>1, <1>5, <1>10, CarefulSend DEF SendEffect
<1>11. CASE \/ CreateBranch(e) \/ CreatePullRequest(e) \/ MarkPullRequestReady(e)
            \/ ClosePullRequest(e)
  <2>1. Plain(e, x, EffectDone(x))
    BY <1>1, <1>3, <1>5, <1>6, <1>11 DEF CreateBranch, CreatePullRequest, MarkPullRequestReady,
       ClosePullRequest, AtEffect
  <2>2. \A kind \in {"createRef", "createPR", "markReady", "closePR"} :
          \A pr \in PRNumbers, from \in Shas, to \in Shas :
            LET r == RequestOf(e, kind, pr, from, to) IN
            r \in Request /\ r.by = e /\ r.kind # "deleteRef"
    BY <1>9 DEF RequestKind
  <2>3. PICK r \in Request : r.by = e /\ r.kind # "deleteRef" /\ SendEffect(e, r)
    BY <1>8, <1>11, <2>2 DEF CreateBranch, CreatePullRequest, MarkPullRequestReady,
       ClosePullRequest
  <2>4. Permitted(e, r)
    BY <2>3 DEF Permitted
  <2>5. QED
    BY <1>10, <2>1, <2>3, <2>4
<1>12. CASE ReadProvenance(e)
  <2>1. x.step = 0 /\ EffectAt(x) = "CREATE_PROVENANCE_COMMIT"
    BY <1>12 DEF ReadProvenance, AtEffect
  <2>2. Op[e] = "issue" /\ x.st = "applyingEffect" /\ x.idx = 2
    BY <1>1, <1>3, <1>4, <2>1
  <2>3. Recordless(gh)
    BY <1>12, <2>1, <2>2 DEF Unrecorded
  <2>4. gh.branch = NoSha \/ (gh.branch # NoSha /\ ~gh.commits[gh.branch].record)
    BY <1>1, <2>3 DEF Recordless, Shas, CommitIds
  <2>5. CASE gh.branch = NoSha
    <3>1. Observe(e, EffectFailed(x))
      BY <1>12, <2>5 DEF ReadProvenance
    <3>2. QED
      BY <1>5, <1>7, <3>1
  <2>6. CASE gh.branch # NoSha /\ ~gh.commits[gh.branch].record
    <3> DEFINE y == Advance([x EXCEPT !.made = gh.branch])
    <3>1. Observe(e, y)
      BY <1>12, <2>6 DEF ReadProvenance
    <3>2. y.st = x.st /\ y.plan = x.plan /\ y.idx = x.idx /\ y.step = x.step + 1
      BY <1>1 DEF Advance, Execution
    <3> HIDE DEF y, x
    <3>3. Plain(e, x, y)
      BY <2>1, <2>2, <3>2 DEF Plain, Shaped, Unrecorded, Recorded, x
    <3>4. QED
      BY <1>7, <3>1, <3>3
  <2>7. QED
    BY <2>4, <2>5, <2>6
<1>13. CASE RereadProvenance(e)
  <2>1. x.step = 2
    BY <1>13 DEF RereadProvenance, AtEffect
  <2>2. Plain(e, x, EffectDone(x))
    BY <1>5, <2>1
  <2>3. QED
    BY <1>5, <1>7, <1>13, <2>2 DEF RereadProvenance
<1>14. CASE CheckDraft(e) \/ CheckGeneration(e)
  <2>1. EffectAt(x) \in {"MARK_PULL_REQUEST_READY", "DELETE_BRANCH"}
    BY <1>14 DEF CheckDraft, CheckGeneration, AtEffect
  <2>2. Op[e] = "issue" => x.st # "applyingEffect"
    BY <1>1, <1>3, <2>1
  <2>3. Plain(e, x, EffectDone(x)) /\ Plain(e, x, Advance(x))
    BY <1>5, <1>6, <2>2
  <2>4. QED
    BY <1>5, <1>7, <1>14, <2>3 DEF CheckDraft, CheckGeneration
<1>15. CASE DeleteBranchIfUnchanged(e)
  <2> DEFINE r == RequestOf(e, "deleteRef", NoPR, ExpectedSha(x), NoSha)
  <2>1. EffectAt(x) = "DELETE_BRANCH" /\ SendEffect(e, r)
    BY <1>15 DEF DeleteBranchIfUnchanged, AtEffect
  <2>2. Op[e] = "issue" => x.st = "applyingCompensation"
    BY <1>1, <1>3, <2>1
  <2>3. ExpectedSha(x) \in Shas /\ (Op[e] = "issue" => ExpectedSha(x) = x.made)
    BY <1>1, <1>8, <2>2 DEF ExpectedSha
  <2>4. r \in Request /\ r.by = e /\ r.from = ExpectedSha(x)
    BY <1>8, <1>9, <2>3 DEF RequestKind
  <2> HIDE DEF r
  <2>5. Permitted(e, r)
    BY <2>2, <2>3, <2>4 DEF Permitted
  <2>6. Plain(e, x, EffectDone(x))
    BY <1>5, <1>6, <2>2
  <2>7. QED
    BY <1>10, <2>1, <2>4, <2>5, <2>6
<1>16. CASE EffectReadFailure(e)
  BY <1>5, <1>7, <1>16 DEF EffectReadFailure
<1>17. QED
  BY <1>11, <1>12, <1>13, <1>14, <1>15, <1>16

\* The plans of the operations: only an issuance plans to create.
LEMMA PlansShaped ==
  /\ \A ev : IssuancePlan(ev).kind \in {"none", "create", "return-existing"}
  /\ \A ev, commits : ReadyPlan(ev, commits).kind # "create"
  /\ \A ev : AbortPlan(ev).kind # "create"
  /\ \A ev : MergePlan(ev).kind # "create"
BY DEF IssuancePlan, ReadyPlan, AbortPlan, MergePlan, PlanOf, NoPlan

\* A plan that is made from a complete read starts at its first effect.
LEMMA PlannedPlain ==
  ASSUME NEW e \in Execs, ex[e] \in Execution, Op[e] # "merge", NEW plan \in Plan,
         Op[e] = "issue" => /\ ex[e].st = "readingFresh"
                            /\ plan.kind \in {"none", "create", "return-existing"},
         Op[e] # "issue" => plan.kind # "create"
  PROVE  Plain(e, ex[e], Planned(e, plan))
<1> DEFINE x == [ex[e] EXCEPT !.plan = plan, !.idx = 1, !.mode = "verify"]
           y == Planned(e, plan)
<1>1. y.plan = plan /\ y.idx = 1
  BY DEF Planned, Finish, Goto, Execution
<1>2. y.st \in {"done", "rereading", ApplyState(Op[e])}
  BY DEF Planned, Finish, Goto, Execution
<1>3. Op[e] = "issue" => ApplyState(Op[e]) = "applyingEffect"
  BY DEF ApplyState
<1> HIDE DEF y
<1>4. CASE Op[e] # "issue"
  BY <1>1, <1>4, PlainOther DEF y
<1>5. CASE Op[e] = "issue"
  <2>1. y.st = "applyingEffect" => plan.kind = "create"
    <3>1. Effects("none") = << >> /\ Effects("return-existing") = << >>
      BY DEF Effects
    <3>2. QED
      BY <1>5, <3>1 DEF y, Planned, Finish, Goto, Execution
  <2>2. Shaped(e, y)
    BY <1>1, <1>2, <1>3, <1>5, <2>1 DEF Shaped, ApplyStates
  <2>3. ~Recorded(y)
    BY <1>1 DEF Recorded
  <2>4. Unrecorded(ex[e])
    BY <1>5 DEF Unrecorded
  <2>5. QED
    BY <2>2, <2>3, <2>4 DEF Plain, y
<1>6. QED
  BY <1>4, <1>5

\* What a complete read makes of an execution does not depend on the evidence.
LEMMA CarefulRead ==
  ASSUME NEW e, NEW y \in Execution, Plain(e, ex[e], y), ReadDone(e, y)
  PROVE  Careful(e)
<1> DEFINE z == [y EXCEPT !.ev = LastRead(e)]
<1>1. z.st = y.st /\ z.plan = y.plan /\ z.idx = y.idx /\ z.step = y.step /\ z.made = y.made
  BY DEF Execution
<1>2. ex' = [ex EXCEPT ![e] = z] /\ gh' = gh /\ late' = late /\ applied' = applied
  BY DEF ReadDone
<1> HIDE DEF z
<1>3. Plain(e, ex[e], z)
  BY <1>1 DEF Plain, Shaped, Unrecorded, Recorded
<1>4. QED
  BY <1>2, <1>3, CarefulStep

\* The calls of a read.
LEMMA CarefulCalls ==
  ASSUME Typed, NEW e \in Execs, Shaped(e, ex[e]),
         ReadBranches(e) \/ ReadPullRequests(e) \/ ReadFailure(e)
  PROVE  Careful(e)
<1> DEFINE x == ex[e]
<1>1. x \in Execution /\ x.st \in ReadStates
  BY DEF Typed, ReadBranches, ReadPullRequests, ReadFailure
<1>2. gh' = gh /\ late' = late /\ applied' = applied
  BY DEF ReadBranches, ReadPullRequests, ReadFailure
<1>3. CASE ReadFailure(e)
  <2>1. \E r : ex' = [ex EXCEPT ![e] = Finish(x, r)]
    BY <1>3 DEF ReadFailure
  <2>2. QED
    BY <1>1, <1>2, <2>1, PlainForms, CarefulStep
<1>4. ASSUME NEW y, ex' = [ex EXCEPT ![e] = y], y.st = x.st, y.plan = x.plan,
             y.idx = x.idx, y.made = x.made
      PROVE  Careful(e)
  <2>1. Plain(e, x, y)
    BY <1>1, <1>4, PlainStep DEF ReadStates, ApplyStates, Shaped
  <2>2. QED
    BY <1>2, <1>4, <2>1, CarefulStep
<1>5. CASE ReadBranches(e)
  <2> DEFINE y == Advance([x EXCEPT !.ev = [NoEvidence EXCEPT !.issue = gh.issue,
                                                              !.branch = gh.branch]])
  <2>1. y.st = x.st /\ y.plan = x.plan /\ y.idx = x.idx /\ y.made = x.made
    BY <1>1 DEF Advance, Execution
  <2>2. ex' = [ex EXCEPT ![e] = y]
    BY <1>5 DEF ReadBranches
  <2> HIDE DEF y
  <2>3. QED
    BY <1>4, <2>1, <2>2
<1>6. CASE ReadPullRequests(e)
  <2> DEFINE y == Advance([x EXCEPT !.ev.prs = gh.prs])
  <2>1. y.st = x.st /\ y.plan = x.plan /\ y.idx = x.idx /\ y.made = x.made
    BY <1>1 DEF Advance, Execution
  <2>2. ex' = [ex EXCEPT ![e] = y]
    BY <1>6 DEF ReadPullRequests
  <2> HIDE DEF y
  <2>3. QED
    BY <1>4, <2>1, <2>2
<1>7. QED
  BY <1>3, <1>5, <1>6

\* What is made of a complete read.
LEMMA CarefulControl ==
  ASSUME Typed, NEW e \in Execs, Shaped(e, ex[e]),
         \/ IssueValidateInitial(e) \/ IssuePlanning(e) \/ IssueVerifying(e)
         \/ IssueClassifyingFailure(e) \/ IssueRecoveryOutcome(e)
         \/ ReadyPlanning(e) \/ ReadyVerifying(e)
         \/ AbortPlanning(e) \/ AbortVerifying(e) \/ AbortRecoveryPlanning(e)
         \/ MergeAdmission(e) \/ MergeVerifying(e)
  PROVE  Careful(e)
<1> DEFINE x == ex[e]
<1>1. x \in Execution /\ gh.gov \in SeenGenerations /\ LastRead(e) \in Evidence
  BY LastReadType DEF Typed, Repo, SeenGenerations
<1>2. \A r \in Outcome : Finish(x, r) \in Execution /\ Plain(e, x, Finish(x, r))
  BY <1>1, ExecutionType, PlainForms
<1>3. \A r \in Outcome : ReadDone(e, Finish(x, r)) => Careful(e)
  BY <1>2, CarefulRead
<1>4. ASSUME NEW plan \in Plan, ReadDone(e, Planned(e, plan)), Op[e] # "merge",
             Op[e] = "issue" => /\ x.st = "readingFresh"
                                /\ plan.kind \in {"none", "create", "return-existing"},
             Op[e] # "issue" => plan.kind # "create"
      PROVE  Careful(e)
  BY <1>1, <1>4, PlannedType, PlannedPlain, CarefulRead
<1>5. CASE \/ IssueVerifying(e) \/ IssueRecoveryOutcome(e) \/ ReadyVerifying(e)
           \/ AbortVerifying(e) \/ AbortRecoveryPlanning(e) \/ MergeVerifying(e)
  <2>1. \E r \in Outcome : ReadDone(e, Finish(x, r))
    BY <1>5 DEF IssueVerifying, IssueRecoveryOutcome, ReadyVerifying, AbortVerifying,
       AbortRecoveryPlanning, MergeVerifying, Verified, Outcome
  <2>2. QED
    BY <1>3, <2>1
<1>6. CASE IssueValidateInitial(e)
  <2> DEFINE y == Goto([x EXCEPT !.govSeen = gh.gov], "readingFresh")
  <2>1. y.st = "readingFresh" /\ y.plan = x.plan /\ y.idx = x.idx /\ y.made = x.made
    BY <1>1 DEF Goto, Execution
  <2>2. [x EXCEPT !.govSeen = gh.gov] \in Execution
    BY <1>1, ExecutionType
  <2>3. y \in Execution
    BY <2>2, ExecutionType DEF ExecState, ReadStates
  <2>4. x.st = "readingInitial"
    BY <1>6 DEF IssueValidateInitial, AtLastRead
  <2>5. ReadDone(e, y) \/ ReadDone(e, Finish(x, "precondition-failed"))
    BY <1>6 DEF IssueValidateInitial
  <2> HIDE DEF y
  <2>6. Plain(e, x, y)
    BY <2>1, <2>4, PlainStep DEF ApplyStates
  <2>7. QED
    BY <1>3, <2>3, <2>5, <2>6, CarefulRead DEF Outcome
<1>7. CASE IssuePlanning(e)
  <2>1. Op[e] = "issue" /\ x.st = "readingFresh"
    BY <1>7 DEF IssuePlanning, AtLastRead
  <2>2. \/ ReadDone(e, Planned(e, IssuancePlan(LastRead(e))))
        \/ ReadDone(e, Finish(x, "precondition-failed"))
    BY <1>7 DEF IssuePlanning
  <2>3. IssuancePlan(LastRead(e)) \in Plan
    BY <1>1, PlanType
  <2>4. QED
    BY <1>3, <1>4, <2>1, <2>2, <2>3, PlansShaped DEF Outcome
<1>8. CASE IssueClassifyingFailure(e)
  <2> DEFINE y == Goto(x, "applyingCompensation")
  <2>1. y.st = "applyingCompensation" /\ y.plan = x.plan /\ y.idx = x.idx /\ y.made = x.made
    BY <1>1 DEF Goto, Execution
  <2>2. y \in Execution
    BY <1>1, ExecutionType DEF ExecState, ApplyStates
  <2>3. Op[e] = "issue"
    BY <1>8 DEF IssueClassifyingFailure
  <2>4. \/ ReadDone(e, y) /\ x.idx = Len(Effects(x.plan.kind))
        \/ \E r \in Outcome : ReadDone(e, Finish(x, r))
    BY <1>8 DEF IssueClassifyingFailure, Outcome
  <2> HIDE DEF y
  <2>5. ASSUME x.idx = Len(Effects(x.plan.kind)) PROVE Plain(e, x, y)
    <3>1. x.idx = 3
      BY <1>1, <2>3, <2>5 DEF Shaped, Effects, Execution, EffectNo
    <3>2. QED
      BY <2>1, <2>3, <3>1 DEF Plain, Shaped, Unrecorded, Recorded
  <2>6. QED
    BY <1>3, <2>2, <2>4, <2>5, CarefulRead
<1>9. CASE ReadyPlanning(e)
  <2>1. Op[e] = "ready" /\ ReadDone(e, Planned(e, ReadyPlan(LastRead(e), gh.commits)))
    BY <1>9 DEF ReadyPlanning
  <2>2. ReadyPlan(LastRead(e), gh.commits) \in Plan
    BY <1>1, PlanType
  <2>3. QED
    BY <1>4, <2>1, <2>2, PlansShaped
<1>10. CASE AbortPlanning(e)
  <2>1. /\ Op[e] = "abort"
        /\ \/ ReadDone(e, Planned(e, AbortPlan(LastRead(e))))
           \/ ReadDone(e, Finish(x, "returned-existing"))
    BY <1>10 DEF AbortPlanning
  <2>2. AbortPlan(LastRead(e)) \in Plan
    BY <1>1, PlanType
  <2>3. QED
    BY <1>3, <1>4, <2>1, <2>2, PlansShaped DEF Outcome
<1>11. CASE MergeAdmission(e)
  <2> DEFINE plan == MergePlan(LastRead(e))
             y == Goto([x EXCEPT !.plan = plan], "merging")
  <2>1. y.plan = plan
    BY <1>1 DEF Goto, Execution
  <2>2. plan \in Plan /\ plan.kind # "create"
    BY <1>1, PlanType, PlansShaped
  <2>3. [x EXCEPT !.plan = plan] \in Execution
    BY <1>1, <2>2, ExecutionType
  <2>4. y \in Execution
    BY <2>3, ExecutionType DEF ExecState
  <2>5. Op[e] = "merge" /\ (ReadDone(e, y) \/ ReadDone(e, Finish(x, "precondition-failed")))
    BY <1>11 DEF MergeAdmission
  <2> HIDE DEF y, plan
  <2>6. Plain(e, x, y)
    BY <2>1, <2>2, <2>5, PlainOther
  <2>7. QED
    BY <1>3, <2>4, <2>5, <2>6, CarefulRead DEF Outcome
<1>12. QED
  BY <1>5, <1>6, <1>7, <1>8, <1>9, <1>10, <1>11

\* The start, the steps of the merge, and a crash.
LEMMA CarefulMerge ==
  ASSUME Base, NEW e \in Execs, Shaped(e, ex[e]),
         \/ Begin(e) \/ Crash(e) \/ AdmitMergeTarget(e) \/ MergePullRequest(e)
         \/ RereadMerged(e) \/ MergeReadFailure(e)
  PROVE  Careful(e)
<1> DEFINE x == ex[e]
<1>1. Typed /\ RequestInv /\ x \in Execution /\ x.plan \in Plan
  BY BaseReady DEF Ready, Typed, Execution
<1>2. x.st = "merging" => Op[e] = "merge" /\ x.plan.kind # "create"
  BY <1>1 DEF RequestInv, StatesFitOperation
<1>3. \A y : Plain(e, x, y) /\ (Observe(e, y) \/ RefusedAnyway(e, y)) => Careful(e)
  BY CarefulStep DEF Observe, RefusedAnyway
<1>4. \A r : Plain(e, x, Finish(x, r))
  BY <1>1, PlainForms
<1>5. CASE Begin(e)
  <2> DEFINE st == IF Op[e] = "issue" THEN "readingInitial" ELSE "reading"
             y  == Goto(x, st)
  <2>1. y.st = st /\ y.plan = x.plan /\ y.idx = x.idx /\ y.made = x.made
    BY <1>1 DEF Goto, Execution
  <2>2. ex' = [ex EXCEPT ![e] = y] /\ gh' = gh /\ late' = late /\ applied' = applied
        /\ x.st = "idle"
    BY <1>5 DEF Begin
  <2> HIDE DEF y
  <2>3. Plain(e, x, y)
    BY <2>1, <2>2, PlainStep DEF ApplyStates
  <2>4. QED
    BY <2>2, <2>3, CarefulStep
<1>6. CASE Crash(e)
  BY <1>3, <1>4, <1>6 DEF Crash
<1>7. ASSUME x.st = "merging"
      PROVE  /\ Plain(e, x, Advance(x))
             /\ \A m : /\ Plain(e, x, Advance([x EXCEPT !.mode = m]))
                       /\ Plain(e, x, Goto([x EXCEPT !.mode = m], "rereading"))
  <2>1. \A m : /\ Advance(x).plan = x.plan
               /\ Advance([x EXCEPT !.mode = m]).plan = x.plan
               /\ Goto([x EXCEPT !.mode = m], "rereading").plan = x.plan
    BY <1>1 DEF Advance, Goto, Execution
  <2>2. QED
    BY <1>2, <1>7, <2>1, PlainOther
<1>8. CASE AdmitMergeTarget(e) \/ RereadMerged(e) \/ MergeReadFailure(e)
  <2>1. \E y : /\ Observe(e, y) \/ RefusedAnyway(e, y)
               /\ \/ \E r : y = Finish(x, r)
                  \/ \E m : y = Goto([x EXCEPT !.mode = m], "rereading")
                  \/ y = Advance(x)
    BY <1>8 DEF AdmitMergeTarget, RereadMerged, MergeReadFailure
  <2>2. x.st = "merging"
    BY <1>8 DEF AdmitMergeTarget, RereadMerged, MergeReadFailure
  <2>3. QED
    BY <1>3, <1>4, <1>7, <2>1, <2>2
<1>9. CASE MergePullRequest(e)
  <2> DEFINE r == RequestOf(e, "mergePR", x.plan.pr, x.plan.sha, NoSha)
  <2>1. NoSha \in Shas /\ x.plan.pr \in PRNumbers /\ x.plan.sha \in Shas
    BY <1>1, MaxCommitsAssumption DEF Shas, Plan
  <2>2. r \in Request /\ r.by = e /\ r.kind = "mergePR"
    BY <2>1 DEF RequestOf, Request, RequestKind
  <2>3. x.st = "merging" /\ Send(e, r, Advance([x EXCEPT !.mode = "accepted"]),
                                 Advance([x EXCEPT !.mode = "refused"]),
                                 Advance([x EXCEPT !.mode = "unknown"]))
    BY <1>9 DEF MergePullRequest
  <2> HIDE DEF r
  <2>4. Permitted(e, r)
    BY <2>2 DEF Permitted
  <2>5. QED
    BY <1>1, <1>7, <2>2, <2>3, <2>4, CarefulSend
<1>10. QED
  BY <1>5, <1>6, <1>8, <1>9

\* The provenance commit is created by its issuance, which records it.
Creates(e) ==
  /\ Op[e] = "issue"
  /\ \E y : /\ ex' = [ex EXCEPT ![e] = y]
            /\ Shaped(e, y) /\ ~Unrecorded(y)
            /\ Recorded(y) => Owned(gh', e, y.made)
  /\ \A s \in Sent' : s \in Sent \/ Permitted(e, s)

\* That is what the provenance effect does.
LEMMA AdvanceCreates ==
  ASSUME Base, NEW e \in Execs, Shaped(e, ex[e]), AdvanceProvenance(e)
  PROVE  Creates(e)
<1> DEFINE x       == ex[e]
           new     == gh.n + 1
           created == WithCommit(gh, e, x.made, TRUE, FALSE, gh.commits[x.made].conform)
           r       == RequestOf(e, "advanceRef", NoPR, x.made, new)
           next    == Advance([x EXCEPT !.made = new])
<1>1. /\ Typed /\ RequestInv /\ x \in Execution /\ x.st \in ApplyStates /\ gh \in Repo
      /\ gh.n \in CommitIds /\ gh.n < MaxCommits
      /\ x.step = 1 /\ EffectAt(x) = "CREATE_PROVENANCE_COMMIT" /\ x.idx \in 1 .. 3
  BY BaseReady DEF Ready, Typed, Repo, Execution, EffectNo, AdvanceProvenance, AtEffect
<1>2. x.st = "applyingCompensation" \/ x.idx <= Len(Effects(x.plan.kind))
  BY <1>1 DEF Base, Inv, PublicationInv, EffectInRange
<1>3. Op[e] = "issue"
  <2>1. Op[e] # "issue" => x.st # "applyingCompensation"
    BY <1>1 DEF RequestInv, StatesFitOperation
  <2>2. QED
    BY <1>1, <1>2, <2>1, OtherEffects
<1>4. x.st = "applyingEffect" /\ x.idx = 2
  BY <1>1, <1>2, <1>3, IssueEffects
<1>5. new \in CommitIds
  BY <1>1, MaxCommitsAssumption DEF CommitIds
<1>6. created.n = new /\ created.commits[new].by = e
  BY <1>1, <1>5 DEF WithCommit, Repo
<1>7. Apply(created, r).n = created.n /\ Apply(created, r).commits = created.commits
  <2>1. \A b, f : /\ [created EXCEPT !.branch = b, !.prs = f].n = created.n
                  /\ [created EXCEPT !.branch = b, !.prs = f].commits = created.commits
    BY DEF WithCommit, Repo
  <2>2. Apply(created, r) = WithHead(created, r.to)
    BY DEF Apply, RequestOf
  <2> HIDE DEF created, r
  <2>3. QED
    BY <2>1, <2>2 DEF WithHead
<1>8. r.kind = "advanceRef" /\ r.by = e
  BY DEF RequestOf
<1>9. next.st = x.st /\ next.plan = x.plan /\ next.idx = x.idx /\ next.step = 2 /\ next.made = new
  BY <1>1, <1>5 DEF Advance, Execution
<1>10. /\ gh' \in {created, Apply(created, r)}
       /\ ex' = [ex EXCEPT ![e] = next] \/ ex' = [ex EXCEPT ![e] = EffectFailed(x)]
       /\ late' \subseteq late \cup {r}
       /\ applied' \subseteq applied \cup {Hit(r)}
  BY DEF AdvanceProvenance
<1> HIDE DEF new, created, r, next, x
<1>11. Owned(gh', e, new)
  BY <1>5, <1>6, <1>7, <1>10 DEF Owned, CommitIds
<1>12. \A s \in Sent' : s \in Sent \/ Permitted(e, s)
  <2>1. Hit(r).req = r
    BY DEF Hit
  <2>2. \A s \in Sent' : s \in Sent \/ s = r
    BY <1>10, <2>1 DEF Sent
  <2>3. Permitted(e, r)
    BY <1>8 DEF Permitted
  <2>4. QED
    BY <2>2, <2>3
<1>13. Shaped(e, x)
  BY DEF x
<1>14. Shaped(e, next) /\ ~Unrecorded(next) /\ (Recorded(next) => Owned(gh', e, next.made))
  BY <1>3, <1>4, <1>9, <1>11, <1>13 DEF Shaped, Unrecorded
<1>15. /\ Shaped(e, EffectFailed(x)) /\ ~Unrecorded(EffectFailed(x))
       /\ ~Recorded(EffectFailed(x))
  <2>1. /\ EffectFailed(x).st = "rereadingAfterFailure" /\ EffectFailed(x).plan = x.plan
        /\ EffectFailed(x).idx = x.idx
    BY <1>1, <1>4 DEF EffectFailed, Goto, Execution
  <2>2. QED
    BY <1>3, <1>4, <1>13, <2>1 DEF Shaped, Unrecorded, Recorded, ApplyStates
<1>16. \E y : ex' = [ex EXCEPT ![e] = y] /\ Shaped(e, y) /\ ~Unrecorded(y)
              /\ (Recorded(y) => Owned(gh', e, y.made))
  BY <1>10, <1>14, <1>15
<1>17. QED
  BY <1>3, <1>12, <1>16 DEF Creates

\* People do not make records of their own.
LEMMA HumanRecordless ==
  ASSUME Typed, Recordless(gh), HumanStep
  PROVE  Recordless(gh')
<1>1. gh \in Repo /\ gh.branch \in Shas /\ gh.n \in CommitIds /\ 1 \in CommitIds
  BY MaxCommitsAssumption DEF Typed, Repo, CommitIds
<1>2. ASSUME NEW conform \in BOOLEAN, HumanPush(conform) PROVE Recordless(gh')
  <2> DEFINE parent  == IF gh.branch = NoSha THEN BaseSha ELSE gh.branch
             created == WithCommit(gh, Human, parent, FALSE, TRUE, conform)
  <2>1. gh' = WithHead(created, gh.n + 1)
    BY <1>2 DEF HumanPush, HumanDoes
  <2>2. parent \in CommitIds
    BY <1>1 DEF Shas, CommitIds
  <2>3. ~gh.commits[parent].record
    BY <2>2 DEF Recordless
  <2> HIDE DEF parent
  <2>4. \A c \in CommitIds : created.commits[c] = gh.commits[c] \/ ~created.commits[c].record
    BY <1>1, <2>3 DEF WithCommit, Repo
  <2>5. \A b, f : [created EXCEPT !.branch = b, !.prs = f].commits = created.commits
    BY DEF WithCommit, Repo
  <2> HIDE DEF created
  <2>6. gh'.commits = created.commits
    BY <2>1, <2>5 DEF WithHead
  <2>7. QED
    BY <2>4, <2>6 DEF Recordless
<1>3. CASE ~ \E conform \in BOOLEAN : HumanPush(conform)
  <2>1. ASSUME NEW p \in PRIds,
               \/ HumanClosePR(p) \/ HumanReopenPR(p) \/ HumanToggleDraft(p)
               \/ HumanMergePR(p) \/ HumanRetargetPR(p)
        PROVE  gh'.commits = gh.commits
    <3>1. \A x : /\ [gh EXCEPT !.prs[p].state = x].commits = gh.commits
                 /\ [gh EXCEPT !.prs[p].draft = x].commits = gh.commits
                 /\ [gh EXCEPT !.prs[p].base = x].commits = gh.commits
      BY <1>1 DEF Repo
    <3>2. CASE HumanMergePR(p)
      <4>1. PICK m : gh' = [gh EXCEPT !.prs[p].state = "merged", !.prs[p].method = m]
        BY <3>2 DEF HumanMergePR, HumanDoes
      <4>2. QED
        BY <1>1, <4>1 DEF Repo
    <3>3. QED
      BY <2>1, <3>1, <3>2 DEF HumanClosePR, HumanReopenPR, HumanToggleDraft, HumanRetargetPR,
         HumanDoes
  <2>2. CASE HumanDeleteBranch \/ HumanOpenPR
    <3>1. WithoutBranch(gh).commits = gh.commits /\ WithPR(gh, Human, FALSE).commits = gh.commits
      BY <1>1 DEF WithoutBranch, WithPR, Repo
    <3>2. QED
      BY <2>2, <3>1 DEF HumanDeleteBranch, HumanOpenPR, HumanDoes, Recordless
  <2>3. CASE HumanCloseIssue \/ GovernanceChange
    <3>1. gh'.commits = gh.commits
      BY <1>1, <2>3 DEF HumanCloseIssue, GovernanceChange, HumanDoes, Repo
    <3>2. QED
      BY <3>1 DEF Recordless
  <2>4. QED
    BY <1>3, <2>1, <2>2, <2>3 DEF HumanStep, Recordless
<1>4. QED
  BY <1>2, <1>3

\* A commit stays with the execution that made it.
LEMMA StillOwned ==
  ASSUME Typed, Typed', Kept(gh, gh'), NEW e, NEW c, Owned(gh, e, c)
  PROVE  Owned(gh', e, c)
<1>1. c \in Int /\ gh.n \in Int /\ gh'.n \in Int
  BY MaxCommitsAssumption DEF Owned, Typed, Repo, CommitIds
<1>2. QED
  BY <1>1 DEF Owned, Kept, CommitsKept

\* A careful step, or one of nobody that makes no record.
LEMMA OwnKept ==
  ASSUME Typed, Typed', OwnInv, Kept(gh, gh'), Recordless(gh) => Recordless(gh'),
         \A f \in Execs : ex'[f] = ex[f] \/ Plain(f, ex[f], ex'[f]),
         \A s \in Sent' : s \in Sent \/ \E f \in Execs : Permitted(f, s)
  PROVE  OwnInv'
<1>1. \A f \in Execs : Shaped(f, ex'[f])
  BY DEF OwnInv, ShapedInv, Plain
<1>2. ASSUME NEW f \in Execs, Op[f] = "issue"
      PROVE  /\ Unrecorded(ex'[f]) => Recordless(gh')
             /\ Recorded(ex'[f]) => Owned(gh', f, ex'[f].made)
  <2>1. Unrecorded(ex'[f]) => Unrecorded(ex[f])
    BY <1>2 DEF Plain
  <2>2. Recorded(ex'[f]) => Recorded(ex[f]) /\ ex'[f].made = ex[f].made
    BY <1>2 DEF Plain
  <2>3. QED
    BY <1>2, <2>1, <2>2, StillOwned DEF OwnInv, ShapedInv
<1>3. ASSUME NEW s \in Sent', s.kind = "deleteRef", Op[s.by] = "issue"
      PROVE  Owned(gh', s.by, s.from)
  <2>1. CASE s \in Sent
    BY <1>3, <2>1, StillOwned DEF OwnInv, ShapedInv
  <2>2. ASSUME NEW f \in Execs, Permitted(f, s) PROVE Owned(gh', s.by, s.from)
    <3>1. s.by = f /\ ex[f].st = "applyingCompensation" /\ s.from = ex[f].made
      BY <1>3, <2>2 DEF Permitted
    <3>2. Recorded(ex[f])
      BY <1>3, <3>1 DEF OwnInv, ShapedInv, Shaped, Recorded
    <3>3. QED
      BY <1>3, <3>1, <3>2, StillOwned DEF OwnInv, ShapedInv
  <2>3. QED
    BY <2>1, <2>2
<1>4. QED
  BY <1>1, <1>2, <1>3 DEF OwnInv, ShapedInv, Shaped, Unrecorded, Recorded, Recordless, Owned

\* The only issuance creates its commit.
LEMMA OwnCreated ==
  ASSUME OneIssue, Typed, Typed', OwnInv, Kept(gh, gh'), NEW e \in Execs, Creates(e)
  PROVE  OwnInv'
<1>1. PICK y : /\ ex' = [ex EXCEPT ![e] = y]
               /\ Shaped(e, y) /\ ~Unrecorded(y)
               /\ Recorded(y) => Owned(gh', e, y.made)
  BY DEF Creates
<1>2. ex'[e] = y /\ \A f \in Execs : f # e => ex'[f] = ex[f] /\ Op[f] # "issue"
  BY <1>1 DEF Typed, OneIssue, Creates
<1>3. \A f \in Execs : Shaped(f, ex'[f])
  BY <1>1, <1>2 DEF OwnInv, ShapedInv
<1>4. \A f \in Execs : Op[f] = "issue" =>
         /\ Unrecorded(ex'[f]) => Recordless(gh')
         /\ Recorded(ex'[f]) => Owned(gh', f, ex'[f].made)
  BY <1>1, <1>2
<1>5. ASSUME NEW s \in Sent', s.kind = "deleteRef", Op[s.by] = "issue"
      PROVE  Owned(gh', s.by, s.from)
  <2>1. CASE s \in Sent
    BY <1>5, <2>1, StillOwned DEF OwnInv, ShapedInv
  <2>2. CASE Permitted(e, s)
    <3>1. s.by = e /\ ex[e].st = "applyingCompensation" /\ s.from = ex[e].made
      BY <1>5, <2>2 DEF Permitted
    <3>2. Recorded(ex[e])
      BY <1>5, <3>1 DEF OwnInv, ShapedInv, Shaped, Recorded
    <3>3. QED
      BY <1>5, <3>1, <3>2, StillOwned DEF OwnInv, ShapedInv
  <2>3. QED
    BY <2>1, <2>2 DEF Creates
<1>6. QED
  BY <1>3, <1>4, <1>5 DEF OwnInv, ShapedInv, Shaped, Unrecorded, Recorded, Recordless, Owned

\* Every step keeps what issuances recorded.
LEMMA OwnInvStep ==
  ASSUME OneIssue, Base, Inv', OwnInv, [Next]_vars
  PROVE  OwnInv'
<1>1. CASE Next
  <2>1. Ready /\ Typed /\ Typed' /\ PublicationInv
    BY BaseReady DEF Inv, TypeOK, Typed
  <2>2. Kept(gh, gh')
    BY <1>1, <2>1, EveryStep DEF RequestStep, Requests
  <2>3. ASSUME NEW e \in Execs, Careful(e) PROVE OwnInv'
    <3>1. PICK y : ex' = [ex EXCEPT ![e] = y] /\ Plain(e, ex[e], y)
      BY <2>3 DEF Careful
    <3>2. \A f \in Execs : ex'[f] = ex[f] \/ Plain(f, ex[f], ex'[f])
      BY <2>1, <3>1 DEF Typed
    <3>3. Recordless(gh) => Recordless(gh')
      BY <2>3 DEF Careful, Recordless
    <3>4. \A s \in Sent' : s \in Sent \/ \E f \in Execs : Permitted(f, s)
      BY <2>3 DEF Careful
    <3>5. QED
      BY <2>1, <2>2, <3>2, <3>3, <3>4, OwnKept
  <2>4. ASSUME NEW e \in Execs, Begin(e) \/ ExecStep(e) \/ Crash(e) PROVE OwnInv'
    <3>1. Shaped(e, ex[e]) /\ (Op[e] = "issue" /\ Unrecorded(ex[e]) => Recordless(gh))
      BY DEF OwnInv, ShapedInv
    <3>2. CASE AdvanceProvenance(e)
      BY <2>1, <2>2, <3>1, <3>2, AdvanceCreates, OwnCreated
    <3>3. CASE ~AdvanceProvenance(e)
      <4>1. Careful(e)
        BY <2>1, <2>4, <3>1, <3>3, CarefulEffects, CarefulCalls, CarefulControl, CarefulMerge
           DEF ExecStep, ReadSteps, EffectSteps
      <4>2. QED
        BY <2>3, <4>1
    <3>4. QED
      BY <3>2, <3>3
  <2>5. ASSUME NEW r \in late, LateArrival(r) PROVE OwnInv'
    <3>1. gh'.commits = gh.commits
      BY <2>1, <2>5, ApplyCommits DEF LateArrival, Typed
    <3>2. Hit(r).req = r
      BY DEF Hit
    <3>3. \A s \in Sent' : s \in Sent
      BY <2>5, <3>2 DEF LateArrival, Sent
    <3>4. ex' = ex
      BY <2>5 DEF LateArrival
    <3>5. Recordless(gh) => Recordless(gh')
      BY <3>1 DEF Recordless
    <3>6. QED
      BY <2>1, <2>2, <3>3, <3>4, <3>5, OwnKept
  <2>6. CASE HumanStep
    <3>1. ex' = ex /\ late' = late /\ applied' = applied
      BY <2>6, PeopleTouchRepo
    <3>2. Recordless(gh) => Recordless(gh')
      BY <2>1, <2>6, HumanRecordless
    <3>3. \A s \in Sent' : s \in Sent
      BY <3>1 DEF Sent
    <3>4. QED
      BY <2>1, <2>2, <3>1, <3>2, <3>3, OwnKept
  <2>7. QED
    BY <1>1, <2>4, <2>5, <2>6 DEF Next, Step
<1>2. CASE UNCHANGED vars
  BY <1>2 DEF vars, OwnInv, ShapedInv, Shaped, Unrecorded, Recorded, Recordless, Owned, Sent
<1>3. QED
  BY <1>1, <1>2

\* Nothing is recorded at first.
LEMMA OwnInvInit == Init => OwnInv
<1>1. SUFFICES ASSUME Init PROVE OwnInv
  OBVIOUS
<1>2. \A e \in Execs : ex[e].st = "idle" /\ ex[e].plan.kind = "none" /\ ex[e].idx = 1
  BY <1>1 DEF Init, IdleExecution, NoPlan
<1>3. Recordless(gh) /\ Sent = {}
  BY <1>1 DEF Init, FreshRepo, BaseCommit, Recordless, Sent
<1>4. QED
  BY <1>2, <1>3 DEF OwnInv, ShapedInv, Shaped, Recorded, ApplyStates

\* Where one execution issues the Change, what it recorded is its own commit, in
\* every reachable state.
THEOREM OwnInvariant == OneIssue => (Spec => []OwnInv)
<1>1. SUFFICES ASSUME OneIssue PROVE Spec => []OwnInv
  OBVIOUS
<1>2. Inv /\ Inv' /\ RequestInv /\ HeadsInv /\ OwnInv /\ [Next]_vars => OwnInv'
  BY <1>1, OwnInvStep DEF Base
<1>3. QED
  BY <1>2, OwnInvInit, InvHolds, RequestInvariant, HeadsInvariant, PTL DEF Spec

\* Where one execution issues the Change, a compensation deletes the branch only
\* at the commit that this issuance put there.
THEOREM CompensationsDeleteTheirOwn == OneIssue => (Spec => []CompensationDeletesItsOwn)
<1>1. SUFFICES ASSUME OneIssue PROVE Spec => []CompensationDeletesItsOwn
  OBVIOUS
<1>2. RequestInv /\ OwnInv => CompensationDeletesItsOwn
  BY DEF RequestInv, AppliedAsSent, OwnInv, ShapedInv, Owned, Sent, CompensationDeletesItsOwn
<1>3. QED
  BY <1>1, <1>2, OwnInvariant, RequestInvariant, PTL

-----------------------------------------------------------------------------
(* What becomes of an issuance whose pull request is not created.           *)

\* An issuance that finds the record goes on with its plan.
LEMMA FoundShaped ==
  ASSUME Typed, NEW e \in Execs, Shaped(e, ex[e]), ReadProvenance(e)
  PROVE  \E y : ex' = [ex EXCEPT ![e] = y] /\ Shaped(e, y)
<1> DEFINE x == ex[e]
           z == [x EXCEPT !.made = gh.branch]
<1>1. x \in Execution /\ x.st \in ApplyStates /\ gh.branch \in Shas
  BY DEF ReadProvenance, AtEffect, Typed, Repo
<1>2. z \in Execution
  BY <1>1, ExecutionType
<1>3. z.st = x.st /\ z.plan = x.plan /\ z.idx = x.idx
  BY <1>1 DEF Execution
<1>4. Advance(z).st = x.st /\ Advance(z).plan = x.plan /\ Advance(z).idx = x.idx
  BY <1>1 DEF Advance, Execution
<1>5. Observe(e, EffectFailed(x)) \/ Observe(e, EffectDone(z)) \/ Observe(e, Advance(z))
  BY DEF ReadProvenance
<1> HIDE DEF z, x
<1>6. Shaped(e, x)
  BY DEF x
<1>7. Shaped(e, z) /\ Shaped(e, Advance(z))
  BY <1>3, <1>4, <1>6 DEF Shaped
<1>8. Shaped(e, EffectFailed(x))
  BY <1>1, <1>6, PlainEffects DEF Plain
<1>9. Shaped(e, EffectDone(z))
  <2>1. CASE z.st # "applyingCompensation" /\ z.idx < Len(Effects(z.plan.kind))
    <3> DEFINE y == [z EXCEPT !.idx = z.idx + 1, !.step = 0]
    <3>1. y.st = z.st /\ y.plan = z.plan /\ EffectDone(z) = y
      BY <1>2, <2>1 DEF Execution, EffectDone
    <3> HIDE DEF y
    <3>2. QED
      BY <1>7, <2>1, <3>1 DEF Shaped
  <2>2. CASE z.st = "applyingCompensation" \/ ~(z.idx < Len(Effects(z.plan.kind)))
    <3>1. \A m : /\ Shaped(e, Goto([z EXCEPT !.mode = m], "rereading"))
                 /\ Shaped(e, Goto([z EXCEPT !.mode = m], "rereadingAfterCompensation"))
      BY <1>2, <1>7, PlainForms DEF Plain, ApplyStates
    <3>2. QED
      BY <2>2, <3>1 DEF EffectDone
  <2>3. QED
    BY <2>1, <2>2
<1>10. QED
  BY <1>5, <1>7, <1>8, <1>9 DEF Observe

\* Every step keeps executions in shape.
LEMMA ShapedInvStep ==
  ASSUME Base, ShapedInv, [Next]_vars
  PROVE  ShapedInv'
<1>1. CASE Next
  <2>1. Typed
    BY BaseReady
  <2>2. ASSUME NEW e \in Execs, NEW y, ex' = [ex EXCEPT ![e] = y], Shaped(e, y)
        PROVE  ShapedInv'
    <3>1. \A f \in Execs : Shaped(f, ex'[f])
      BY <2>1, <2>2 DEF Typed, ShapedInv
    <3>2. QED
      BY <3>1 DEF ShapedInv, Shaped
  <2>3. ASSUME NEW e \in Execs, Begin(e) \/ ExecStep(e) \/ Crash(e) PROVE ShapedInv'
    <3>1. Shaped(e, ex[e])
      BY DEF ShapedInv
    <3>2. CASE AdvanceProvenance(e)
      BY <2>2, <3>1, <3>2, AdvanceCreates DEF Creates
    <3>3. CASE ReadProvenance(e)
      BY <2>1, <2>2, <3>1, <3>3, FoundShaped
    <3>4. CASE ~AdvanceProvenance(e) /\ ~ReadProvenance(e)
      <4>1. Careful(e)
        BY <2>1, <2>3, <3>1, <3>4, CarefulEffects, CarefulCalls, CarefulControl, CarefulMerge
           DEF ExecStep, ReadSteps, EffectSteps
      <4>2. QED
        BY <2>2, <4>1 DEF Careful, Plain
    <3>5. QED
      BY <3>2, <3>3, <3>4
  <2>4. CASE ex' = ex
    BY <2>4 DEF ShapedInv, Shaped
  <2>5. HumanStep \/ (\E r \in late : LateArrival(r)) => ex' = ex
    BY PeopleTouchRepo DEF LateArrival
  <2>6. QED
    BY <1>1, <2>3, <2>4, <2>5 DEF Next, Step
<1>2. CASE UNCHANGED vars
  BY <1>2 DEF vars, ShapedInv, Shaped
<1>3. QED
  BY <1>1, <1>2

\* Nobody has a plan at first.
LEMMA ShapedInvInit == Init => ShapedInv
<1>1. SUFFICES ASSUME Init, NEW e \in Execs PROVE Shaped(e, ex[e])
  BY DEF ShapedInv
<1>2. ex[e].st = "idle" /\ ex[e].plan.kind = "none"
  BY <1>1 DEF Init, IdleExecution, NoPlan
<1>3. QED
  BY <1>2 DEF Shaped, ApplyStates

\* Only issuances create, and they compensate only what failed after their
\* record, in every reachable state.
THEOREM ShapedInvariant == Spec => []ShapedInv
<1>1. Inv /\ RequestInv /\ HeadsInv /\ ShapedInv /\ [Next]_vars => ShapedInv'
  BY ShapedInvStep DEF Base
<1>2. QED
  BY <1>1, ShapedInvInit, InvHolds, RequestInvariant, HeadsInvariant, PTL DEF Spec

\* The answers of an issuance that leaves everything it made to a recovery.
LeftBehind == {"recovery-required", "crashed"}

\* An issuance whose last effect failed is left to a recovery, and no issuance
\* asks GitHub to delete the branch.
IssuancesLeaveBranches ==
  /\ \A e \in Execs :
       Op[e] = "issue" /\ ex[e].st = "done" /\ ex[e].mode = "failed" /\ ex[e].idx = 3
       => ex[e].result \in LeftBehind
  /\ \A r \in Sent : r.kind = "deleteRef" => Op[r.by] # "issue"

\* An issuance never compensates; when an effect of it has failed, it rereads
\* and ends, and ends with the branch left behind if the effect was the last one.
Leaving(x) ==
  /\ x.st \notin {"applyingCompensation", "rereadingAfterCompensation"}
  /\ x.mode = "failed" =>
       \/ x.st = "rereadingAfterFailure"
       \/ x.st = "done" /\ (x.idx = 3 => x.result \in LeftBehind)

LeavingInv ==
  /\ \A e \in Execs : Op[e] = "issue" => Leaving(ex[e])
  /\ \A r \in Sent : r.kind = "deleteRef" => Op[r.by] # "issue"

\* The forms of a step of such an issuance.
LEMMA LeavingForms ==
  ASSUME NEW x \in Execution, Leaving(x), x.st # "done"
  PROVE  /\ \A y : /\ y.st = x.st /\ y.mode = x.mode /\ y.idx = x.idx /\ y.result = x.result
                   => Leaving(y)
         /\ \A r : r \in LeftBehind \/ x.idx # 3 \/ x.st # "rereadingAfterFailure"
                   => Leaving(Finish(x, r))
         /\ \A st : /\ x.st # "rereadingAfterFailure"
                    /\ st \notin {"applyingCompensation", "rereadingAfterCompensation"}
                    => Leaving(Goto(x, st))
<1>1. /\ \A r : /\ Finish(x, r).st = "done" /\ Finish(x, r).mode = x.mode
                /\ Finish(x, r).idx = x.idx /\ Finish(x, r).result = r
      /\ \A st : Goto(x, st).st = st /\ Goto(x, st).mode = x.mode
  BY DEF Finish, Goto, Execution
<1>2. QED
  BY <1>1 DEF Leaving

\* An effect of an issuance that ends, fails or goes on.
LEMMA LeavingEffects ==
  ASSUME NEW x \in Execution, Leaving(x), x.st = "applyingEffect"
  PROVE  /\ Leaving(EffectFailed(x)) /\ Leaving(EffectDone(x)) /\ Leaving(Advance(x))
<1>1. /\ \A m, st : /\ Goto([x EXCEPT !.mode = m], st).st = st
                    /\ Goto([x EXCEPT !.mode = m], st).mode = m
      /\ Advance(x).st = x.st /\ Advance(x).mode = x.mode
  BY DEF Goto, Advance, Execution
<1>2. \A i : /\ [x EXCEPT !.idx = i, !.step = 0].st = x.st
             /\ [x EXCEPT !.idx = i, !.step = 0].mode = x.mode
  BY DEF Execution
<1>3. x.mode # "failed"
  BY DEF Leaving
<1>4. Leaving(EffectFailed(x))
  BY <1>1 DEF EffectFailed, Leaving
<1>5. Leaving(EffectDone(x))
  <2>1. EffectDone(x) \in {[x EXCEPT !.idx = x.idx + 1, !.step = 0],
                          Goto([x EXCEPT !.mode = "verify"], "rereading")}
    BY DEF EffectDone
  <2>2. /\ EffectDone(x).st \in {x.st, "rereading"}
        /\ EffectDone(x).mode \in {x.mode, "verify"}
    <3> DEFINE y == [x EXCEPT !.idx = x.idx + 1, !.step = 0]
               z == Goto([x EXCEPT !.mode = "verify"], "rereading")
    <3>1. y.st = x.st /\ y.mode = x.mode /\ z.st = "rereading" /\ z.mode = "verify"
      BY <1>1, <1>2
    <3>2. EffectDone(x) = y \/ EffectDone(x) = z
      BY <2>1
    <3> HIDE DEF y, z
    <3>3. QED
      BY <3>1, <3>2
  <2>3. QED
    BY <1>3, <2>2 DEF Leaving
<1>6. QED
  BY <1>1, <1>3, <1>4, <1>5 DEF Leaving

\* With a reader that reports an empty list as absent, no read is safe to
\* compensate: the branch and a pull request would both have to be listed.
LEMMA NothingIsSafe ==
  ASSUME EmptyListReport = "absent", NEW ev, NEW made
  PROVE  ~SafeFailureProjection(ev, made)
<1>1. SUFFICES ASSUME HasBranch(ev), Listed(ev) # {}, Status(ev) = "absent" PROVE FALSE
  BY DEF SafeFailureProjection, ListsAvailable, ConfirmedAbsent
<1>2. QED
  BY <1>1 DEF Status

\* An issuance that reads, plans or finishes leaves its branch.
LEMMA ReadsLeave ==
  ASSUME EmptyListReport = "absent", Typed, NEW e \in Execs, Op[e] = "issue",
         Shaped(e, ex[e]), Leaving(ex[e]), Begin(e) \/ ReadSteps(e) \/ Crash(e)
  PROVE  Leaving(ex'[e])
<1> DEFINE x == ex[e]
<1>1. x \in Execution /\ x.st # "done"
  BY DEF Typed, Begin, Crash, Running, ReadSteps, ReadBranches, ReadPullRequests, ReadFailure,
     IssueValidateInitial, IssuePlanning, IssueVerifying, IssueClassifyingFailure,
     IssueRecoveryOutcome, ReadyPlanning, ReadyVerifying, AbortPlanning, AbortVerifying,
     AbortRecoveryPlanning, MergeAdmission, MergeVerifying, AtLastRead, ReadStates
<1>2. /\ \A y : /\ y.st = x.st /\ y.mode = x.mode /\ y.idx = x.idx /\ y.result = x.result
                => Leaving(y)
      /\ \A r : r \in LeftBehind \/ x.idx # 3 \/ x.st # "rereadingAfterFailure"
                => Leaving(Finish(x, r))
      /\ \A st : /\ x.st # "rereadingAfterFailure"
                 /\ st \notin {"applyingCompensation", "rereadingAfterCompensation"}
                 => Leaving(Goto(x, st))
  BY <1>1, LeavingForms
<1>3. ASSUME NEW y, ex' = [ex EXCEPT ![e] = y], Leaving(y) PROVE Leaving(ex'[e])
  BY <1>3 DEF Typed
<1>4. ASSUME NEW y, ReadDone(e, y), Leaving(y), y \in Execution PROVE Leaving(ex'[e])
  <2>1. ex' = [ex EXCEPT ![e] = [y EXCEPT !.ev = LastRead(e)]]
    BY <1>4 DEF ReadDone
  <2>2. /\ [y EXCEPT !.ev = LastRead(e)].st = y.st
        /\ [y EXCEPT !.ev = LastRead(e)].mode = y.mode
        /\ [y EXCEPT !.ev = LastRead(e)].idx = y.idx
        /\ [y EXCEPT !.ev = LastRead(e)].result = y.result
    BY <1>4 DEF Execution
  <2>3. Leaving([y EXCEPT !.ev = LastRead(e)])
    BY <1>4, <2>2 DEF Leaving
  <2>4. QED
    BY <1>3, <2>1, <2>3
<1>5. /\ \A r \in Outcome : Finish(x, r) \in Execution
      /\ \A g \in SeenGenerations : [x EXCEPT !.govSeen = g] \in Execution
  <2>1. ASSUME NEW r \in Outcome PROVE Finish(x, r) \in Execution
    BY <1>1, ExecutionType, Zenon
  <2>2. ASSUME NEW g \in SeenGenerations PROVE [x EXCEPT !.govSeen = g] \in Execution
    BY <1>1, ExecutionType, Zenon
  <2>3. QED
    BY <2>1, <2>2
<1>6. CASE Begin(e)
  <2>1. ex' = [ex EXCEPT ![e] = Goto(x, "readingInitial")] /\ x.st = "idle"
    BY <1>6 DEF Begin
  <2>2. QED
    BY <1>2, <1>3, <2>1
<1>7. CASE Crash(e)
  <2>1. ex' = [ex EXCEPT ![e] = Finish(x, "crashed")]
    BY <1>7 DEF Crash, RefusedAnyway
  <2>2. QED
    BY <1>2, <1>3, <2>1 DEF LeftBehind
<1>8. CASE ReadFailure(e)
  <2>1. \E r : /\ ex' = [ex EXCEPT ![e] = Finish(x, r)]
               /\ x.st = "rereadingAfterFailure" => r = "recovery-required"
    BY <1>8 DEF ReadFailure
  <2>2. QED
    BY <1>2, <1>3, <2>1 DEF LeftBehind
<1>9. CASE ReadBranches(e)
  <2> DEFINE y == Advance([x EXCEPT !.ev = [NoEvidence EXCEPT !.issue = gh.issue,
                                                              !.branch = gh.branch]])
  <2>1. y.st = x.st /\ y.mode = x.mode /\ y.idx = x.idx /\ y.result = x.result
    BY <1>1 DEF Advance, Execution
  <2>2. ex' = [ex EXCEPT ![e] = y]
    BY <1>9 DEF ReadBranches
  <2> HIDE DEF y
  <2>3. QED
    BY <1>2, <1>3, <2>1, <2>2
<1>10. CASE ReadPullRequests(e)
  <2> DEFINE y == Advance([x EXCEPT !.ev.prs = gh.prs])
  <2>1. y.st = x.st /\ y.mode = x.mode /\ y.idx = x.idx /\ y.result = x.result
    BY <1>1 DEF Advance, Execution
  <2>2. ex' = [ex EXCEPT ![e] = y]
    BY <1>10 DEF ReadPullRequests
  <2> HIDE DEF y
  <2>3. QED
    BY <1>2, <1>3, <2>1, <2>2
<1>11. ASSUME NEW r \in Outcome, ReadDone(e, Finish(x, r)),
              r \in LeftBehind \/ x.idx # 3 \/ x.st # "rereadingAfterFailure"
       PROVE  Leaving(ex'[e])
  BY <1>2, <1>4, <1>5, <1>11
<1>12. CASE IssueValidateInitial(e)
  <2> DEFINE z == [x EXCEPT !.govSeen = gh.gov]
  <2>1. x.st = "readingInitial" /\ x.mode # "failed"
    BY <1>12 DEF IssueValidateInitial, AtLastRead, Leaving
  <2>2. z \in Execution
    <3>1. gh.gov \in SeenGenerations
      BY DEF Typed, Repo, SeenGenerations
    <3>2. QED
      BY <1>5, <3>1
  <2>3. z.mode = x.mode
    BY <1>1 DEF Execution
  <2>4. ReadDone(e, Goto(z, "readingFresh")) \/ ReadDone(e, Finish(x, "precondition-failed"))
    BY <1>12 DEF IssueValidateInitial
  <2> HIDE DEF z
  <2>5. Goto(z, "readingFresh") \in Execution
    <3>1. "readingFresh" \in ExecState
      BY DEF ExecState, ReadStates
    <3>2. QED
      BY <2>2, <3>1, ExecutionType, Zenon
  <2>6. Leaving(Goto(z, "readingFresh"))
    BY <2>1, <2>2, <2>3 DEF Goto, Execution, Leaving
  <2>7. QED
    BY <1>4, <1>11, <2>1, <2>4, <2>5, <2>6 DEF Outcome
<1>13. CASE IssuePlanning(e)
  <2> DEFINE plan == IssuancePlan(LastRead(e))
             y    == Planned(e, plan)
  <2>1. x.st = "readingFresh"
    BY <1>13 DEF IssuePlanning, AtLastRead
  <2>2. plan \in Plan /\ LastRead(e) \in Evidence
    BY LastReadType, PlanType
  <2>3. ReadDone(e, y) \/ ReadDone(e, Finish(x, "precondition-failed"))
    BY <1>13 DEF IssuePlanning
  <2> HIDE DEF plan
  <2>4. y \in Execution
    BY <2>2, PlannedType
  <2>5. y.mode = "verify" /\ y.st \in {"done", "rereading", "applyingEffect"}
    BY <1>1 DEF Planned, Finish, Goto, Execution, ApplyState
  <2> HIDE DEF y
  <2>6. Leaving(y)
    BY <2>5 DEF Leaving
  <2>7. QED
    BY <1>4, <1>11, <2>1, <2>3, <2>4, <2>6 DEF Outcome
<1>14. CASE IssueVerifying(e)
  <2>1. x.st = "rereading" /\ \E r \in Outcome : ReadDone(e, Finish(x, r))
    BY <1>14 DEF IssueVerifying, AtLastRead, Verified, Outcome
  <2>2. QED
    BY <1>11, <2>1
<1>15. CASE IssueClassifyingFailure(e)
  <2>1. x.st = "rereadingAfterFailure" /\ x.plan.kind = "create"
    BY <1>15 DEF IssueClassifyingFailure, AtLastRead, Shaped
  <2>2. Len(Effects(x.plan.kind)) = 3
    BY <2>1 DEF Effects
  <2>3. ~SafeFailureProjection(LastRead(e), x.made)
    BY NothingIsSafe
  <2>4. \E r \in Outcome : ReadDone(e, Finish(x, r)) /\ (x.idx = 3 => r = "recovery-required")
    BY <1>15, <2>2, <2>3 DEF IssueClassifyingFailure, Outcome
  <2>5. QED
    BY <1>11, <2>4 DEF LeftBehind
<1>16. ~IssueRecoveryOutcome(e)
  BY DEF IssueRecoveryOutcome, AtLastRead, Leaving
<1>17. QED
  BY <1>6, <1>7, <1>8, <1>9, <1>10, <1>12, <1>13, <1>14, <1>15, <1>16
     DEF ReadSteps, ReadyPlanning, ReadyVerifying, AbortPlanning, AbortVerifying,
         AbortRecoveryPlanning, MergeAdmission, MergeVerifying

\* So does an issuance that applies its effects.
LEMMA EffectsLeave ==
  ASSUME Base, NEW e \in Execs, Op[e] = "issue", Shaped(e, ex[e]), Leaving(ex[e]), EffectSteps(e)
  PROVE  Leaving(ex'[e])
<1> DEFINE x == ex[e]
<1>1. Typed /\ RequestInv /\ x \in Execution
  BY BaseReady DEF Ready, Typed
<1>2. x.st \in ApplyStates
  <2>1. x.st # "merging"
    BY <1>1 DEF RequestInv, StatesFitOperation
  <2>2. ~ \/ AdmitMergeTarget(e) \/ MergePullRequest(e) \/ RereadMerged(e) \/ MergeReadFailure(e)
    BY <2>1 DEF AdmitMergeTarget, MergePullRequest, RereadMerged, MergeReadFailure
  <2>3. QED
    BY <2>2 DEF EffectSteps, CreateBranch, ReadProvenance, AdvanceProvenance, RereadProvenance,
       CreatePullRequest, CheckDraft, MarkPullRequestReady, ClosePullRequest, CheckGeneration,
       DeleteBranchIfUnchanged, EffectReadFailure, AtEffect
<1>3. x.st = "applyingEffect"
  BY <1>2 DEF Shaped, Leaving
<1>4. EffectAt(x) \in {"CREATE_BRANCH", "CREATE_PROVENANCE_COMMIT", "CREATE_PULL_REQUEST"}
  <2>1. x.idx <= Len(Effects(x.plan.kind)) /\ x.idx \in 1 .. 3
    BY <1>1, <1>2, <1>3 DEF Base, Inv, PublicationInv, EffectInRange, Execution, EffectNo
  <2>2. QED
    BY <1>1, <1>2, <1>3, <2>1, IssueEffects
<1>5. Leaving(EffectFailed(x)) /\ Leaving(EffectDone(x)) /\ Leaving(Advance(x))
  BY <1>1, <1>3, LeavingEffects
<1>6. ASSUME NEW y, ex' = [ex EXCEPT ![e] = y], Leaving(y) PROVE Leaving(ex'[e])
  BY <1>1, <1>6 DEF Typed
<1>7. ASSUME NEW r, SendEffect(e, r) PROVE Leaving(ex'[e])
  <2>1. ex' = [ex EXCEPT ![e] = EffectDone(x)] \/ ex' = [ex EXCEPT ![e] = EffectFailed(x)]
    BY <1>7 DEF SendEffect, Send, Acknowledged, Refused, RefusedAnyway, AnswerLost, TimedOut, Observe
  <2>2. QED
    BY <1>5, <1>6, <2>1
<1>8. ASSUME NEW c \in Shas
      PROVE  /\ Leaving(EffectDone([x EXCEPT !.made = c]))
             /\ Leaving(Advance([x EXCEPT !.made = c]))
  <2> DEFINE z == [x EXCEPT !.made = c]
  <2>1. z \in Execution
    BY <1>1, ExecutionType, Zenon
  <2>2. z.st = x.st /\ z.mode = x.mode /\ z.idx = x.idx /\ z.result = x.result
    BY <1>1 DEF Execution
  <2> HIDE DEF z
  <2>3. Leaving(z)
    BY <2>2 DEF Leaving
  <2>4. Leaving(EffectDone(z)) /\ Leaving(Advance(z))
    BY <1>3, <2>1, <2>2, <2>3, LeavingEffects
  <2>5. QED
    BY <2>4 DEF z
<1>9. CASE CreateBranch(e) \/ CreatePullRequest(e)
  BY <1>7, <1>9 DEF CreateBranch, CreatePullRequest
<1>10. CASE ReadProvenance(e)
  <2>1. gh.branch \in Shas
    BY <1>1 DEF Typed, Repo
  <2>2. \/ Observe(e, EffectFailed(x))
        \/ Observe(e, EffectDone([x EXCEPT !.made = gh.branch]))
        \/ Observe(e, Advance([x EXCEPT !.made = gh.branch]))
    BY <1>10 DEF ReadProvenance
  <2>3. QED
    BY <1>5, <1>6, <1>8, <2>1, <2>2 DEF Observe
<1>11. CASE AdvanceProvenance(e)
  <2>1. gh.n + 1 \in Shas
    <3>1. gh.n \in CommitIds /\ gh.n < MaxCommits
      BY <1>1, <1>11 DEF Typed, Repo, AdvanceProvenance
    <3>2. QED
      BY <3>1, MaxCommitsAssumption DEF CommitIds, Shas
  <2>2. \/ ex' = [ex EXCEPT ![e] = Advance([x EXCEPT !.made = gh.n + 1])]
        \/ ex' = [ex EXCEPT ![e] = EffectFailed(x)]
    BY <1>11 DEF AdvanceProvenance
  <2>3. QED
    BY <1>5, <1>6, <1>8, <2>1, <2>2
<1>12. CASE RereadProvenance(e)
  BY <1>5, <1>6, <1>12 DEF RereadProvenance, Observe
<1>13. CASE EffectReadFailure(e)
  BY <1>5, <1>6, <1>13 DEF EffectReadFailure, RefusedAnyway
<1>14. \/ CreateBranch(e) \/ CreatePullRequest(e) \/ ReadProvenance(e)
       \/ AdvanceProvenance(e) \/ RereadProvenance(e) \/ EffectReadFailure(e)
  BY <1>3, <1>4 DEF EffectSteps, CheckDraft, MarkPullRequestReady, ClosePullRequest,
     CheckGeneration, DeleteBranchIfUnchanged, AdmitMergeTarget, MergePullRequest, RereadMerged,
     MergeReadFailure, AtEffect
<1>15. QED
  BY <1>9, <1>10, <1>11, <1>12, <1>13, <1>14

\* What a step of an execution sends.
LEMMA SentByStep ==
  ASSUME Base, NEW e \in Execs, Shaped(e, ex[e]), Begin(e) \/ ExecStep(e) \/ Crash(e)
  PROVE  \A s \in Sent' : s \in Sent \/ Permitted(e, s)
<1>1. Typed
  BY BaseReady
<1>2. CASE AdvanceProvenance(e)
  BY <1>2, AdvanceCreates DEF Creates
<1>3. CASE ReadProvenance(e)
  BY <1>3 DEF ReadProvenance, Observe, Sent
<1>4. CASE ~AdvanceProvenance(e) /\ ~ReadProvenance(e)
  <2>1. Careful(e)
    BY <1>1, <1>4, CarefulEffects, CarefulCalls, CarefulControl, CarefulMerge
       DEF ExecStep, ReadSteps, EffectSteps
  <2>2. QED
    BY <2>1 DEF Careful
<1>5. QED
  BY <1>2, <1>3, <1>4

\* Every step leaves the branches of issuances.
LEMMA LeavingInvStep ==
  ASSUME EmptyListReport = "absent", Base, ShapedInv, LeavingInv, [Next]_vars
  PROVE  LeavingInv'
<1>1. Typed
  BY BaseReady
<1>2. CASE Next
  <2>1. CASE HumanStep
    <3>1. ex' = ex /\ late' = late /\ applied' = applied
      BY <2>1, PeopleTouchRepo
    <3>2. QED
      BY <3>1 DEF LeavingInv, Leaving, Sent
  <2>2. ASSUME NEW r \in late, LateArrival(r) PROVE LeavingInv'
    <3>1. Hit(r).req = r
      BY DEF Hit
    <3>2. ex' = ex /\ \A s \in Sent' : s \in Sent
      BY <2>2, <3>1 DEF LateArrival, Sent
    <3>3. QED
      BY <3>2 DEF LeavingInv, Leaving
  <2>3. ASSUME NEW e \in Execs, Begin(e) \/ ExecStep(e) \/ Crash(e) PROVE LeavingInv'
    <3>1. Shaped(e, ex[e])
      BY DEF ShapedInv
    <3>2. Op[e] = "issue" => Leaving(ex'[e])
      BY <1>1, <2>3, <3>1, ReadsLeave, EffectsLeave DEF LeavingInv, ExecStep
    <3>3. \A f \in Execs : f # e => ex'[f] = ex[f]
      BY <1>1, <2>3, OneActs
    <3>4. \A f \in Execs : Op[f] = "issue" => Leaving(ex'[f])
      BY <3>2, <3>3 DEF LeavingInv
    <3>5. ASSUME NEW s \in Sent', s.kind = "deleteRef", Op[s.by] = "issue" PROVE FALSE
      <4>1. s.by = e /\ ex[e].st = "applyingCompensation"
        BY <2>3, <3>1, <3>5, SentByStep DEF LeavingInv, Permitted
      <4>2. QED
        BY <3>5, <4>1 DEF LeavingInv, Leaving
    <3>6. QED
      BY <3>4, <3>5 DEF LeavingInv, Leaving
  <2>4. QED
    BY <1>2, <2>1, <2>2, <2>3 DEF Next, Step
<1>3. CASE UNCHANGED vars
  BY <1>3 DEF vars, LeavingInv, Leaving, Sent
<1>4. QED
  BY <1>2, <1>3

\* Nothing has failed and nothing is sent at first.
LEMMA LeavingInvInit == Init => LeavingInv
BY DEF Init, IdleExecution, LeavingInv, Leaving, Sent

\* With the reader of production, which reports an empty list of pull requests
\* as absent, an issuance whose pull request was not created always ends with
\* its branch left to a recovery, and no issuance ever asks for the deletion of
\* a branch: the compensation of change.ts is out of reach, for any executions,
\* people, faults and late requests.
THEOREM ProductionNeverCompensates ==
  EmptyListReport = "absent" => (Spec => []IssuancesLeaveBranches)
<1>1. SUFFICES ASSUME EmptyListReport = "absent" PROVE Spec => []IssuancesLeaveBranches
  OBVIOUS
<1>2. Inv /\ RequestInv /\ HeadsInv /\ ShapedInv /\ LeavingInv /\ [Next]_vars => LeavingInv'
  BY <1>1, LeavingInvStep DEF Base
<1>3. LeavingInv => IssuancesLeaveBranches
  BY DEF LeavingInv, Leaving, IssuancesLeaveBranches
<1>4. QED
  BY <1>2, <1>3, LeavingInvInit, InvHolds, RequestInvariant, HeadsInvariant, ShapedInvariant, PTL
     DEF Spec

=============================================================================
