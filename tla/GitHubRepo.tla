----------------------------- MODULE GitHubRepo -----------------------------
(***************************************************************************)
(* The slice of one GitHub repository that a Change lives in, modelled from *)
(* how the effect adapter, the evidence reader and the Semantic PR merge    *)
(* authority use it (GitHub itself is not part of the repository):          *)
(*   - the root Issue of the Change,                                        *)
(*   - the one canonical branch, given by the commit it points at,          *)
(*   - the commit objects, and                                              *)
(*   - the pull requests whose head is the canonical branch.                *)
(* A mutation is a request; GitHub accepts or refuses it in one step.       *)
(***************************************************************************)
EXTENDS Integers

CONSTANTS Execs,       \* the executions of the Change executor, each acts as Inari
          Human,       \* everybody else with write access to the repository
          MaxCommits,  \* bound: commit objects, the base commit included
          MaxPRs,      \* bound: pull requests with the canonical head
          MaxGov,      \* bound: generations of the governance tree
          MergeMethodReported  \* a merged pull request reports its merge method

ASSUME HumanAssumption == Human \notin Execs
ASSUME MaxCommitsAssumption == MaxCommits \in Nat \ {0}
ASSUME MaxPRsAssumption == MaxPRs \in Nat
ASSUME MaxGovAssumption == MaxGov \in Nat \ {0}
ASSUME MergeMethodAssumption == MergeMethodReported \in BOOLEAN

NoSha   == 0    \* no commit: an absent branch, an evidence field nobody filled
BaseSha == 1    \* the head of the default branch
NoPR    == 0

CommitIds   == 1 .. MaxCommits
Shas        == 0 .. MaxCommits
PRIds       == 1 .. MaxPRs
PRNumbers   == 0 .. MaxPRs
Generations == 1 .. MaxGov
Actors      == Execs \cup {Human}

(***************************************************************************)
(* A commit: who created the object, whether its tree holds the signed      *)
(* provenance record, whether a human commit is among it and its ancestors  *)
(* and whether its diff conforms to the Implementation contract.            *)
(***************************************************************************)
Commit == [by : Actors, record : BOOLEAN, work : BOOLEAN, conform : BOOLEAN]

(***************************************************************************)
(* A pull request from the canonical branch.  head follows the branch while *)
(* it is open; method says whether a later read reports the merge method an *)
(* executor asks for.                                                       *)
(***************************************************************************)
PRState == {"none", "open", "closed", "merged"}
PullRequest == [state : PRState, draft : BOOLEAN, by : Actors,
                base : {"default", "other"}, head : Shas, method : BOOLEAN]

Repo == [issue : {"open", "closed"}, gov : Generations, branch : Shas,
         n : CommitIds, commits : [CommitIds -> Commit],
         np : PRNumbers, prs : [PRIds -> PullRequest]]

BaseCommit == [by |-> Human, record |-> FALSE, work |-> FALSE, conform |-> FALSE]
NoPullRequest == [state |-> "none", draft |-> FALSE, by |-> Human,
                  base |-> "default", head |-> NoSha, method |-> FALSE]

\* A repository in which the root Issue exists and the Change was never issued.
FreshRepo == [issue |-> "open", gov |-> 1, branch |-> NoSha,
              n |-> 1, commits |-> [c \in CommitIds |-> BaseCommit],
              np |-> 0, prs |-> [p \in PRIds |-> NoPullRequest]]

OpenPRs(repo) == {p \in PRIds : repo.prs[p].state = "open"}

-----------------------------------------------------------------------------
(* Elementary repository updates, shared by executors and humans. *)

\* A new commit object on top of parent.
WithCommit(repo, by, parent, record, work, conform) ==
  [repo EXCEPT !.n = repo.n + 1,
               !.commits[repo.n + 1] =
                  [by |-> by, record |-> record \/ repo.commits[parent].record,
                   work |-> work \/ repo.commits[parent].work, conform |-> conform]]

\* The branch points at sha; open pull requests follow their head branch.
WithHead(repo, sha) ==
  [repo EXCEPT !.branch = sha,
               !.prs = [p \in PRIds |->
                  IF repo.prs[p].state = "open" THEN [repo.prs[p] EXCEPT !.head = sha]
                  ELSE repo.prs[p]]]

\* Deleting the head branch closes every open pull request from it.
WithoutBranch(repo) ==
  [repo EXCEPT !.branch = NoSha,
               !.prs = [p \in PRIds |->
                  IF repo.prs[p].state = "open" THEN [repo.prs[p] EXCEPT !.state = "closed"]
                  ELSE repo.prs[p]]]

WithPR(repo, by, draft) ==
  [repo EXCEPT !.np = repo.np + 1,
               !.prs[repo.np + 1] =
                  [state |-> "open", draft |-> draft, by |-> by, base |-> "default",
                   head |-> repo.branch, method |-> FALSE]]

CanOpenPR(repo) == /\ repo.branch \notin {NoSha, BaseSha}   \* "No commits between"
                   /\ \A p \in OpenPRs(repo) : repo.prs[p].base # "default"
                   /\ repo.np < MaxPRs

-----------------------------------------------------------------------------
(* The mutations an executor sends. *)

RequestKind == {"createRef", "advanceRef", "createPR", "markReady", "closePR",
                "deleteRef", "mergePR"}
Request == [by : Execs, kind : RequestKind, pr : PRNumbers, from : Shas, to : Shas]

RequestOf(e, kind, pr, from, to) ==
  [by |-> e, kind |-> kind, pr |-> pr, from |-> from, to |-> to]

\* GitHub's own precondition of a request.
Accepts(repo, r) ==
  CASE r.kind = "createRef"  -> repo.branch = NoSha
    [] r.kind = "advanceRef" -> repo.branch = r.from
    [] r.kind = "createPR"   -> CanOpenPR(repo)
    [] r.kind = "markReady"  -> repo.prs[r.pr].state = "open"
    [] r.kind = "closePR"    -> TRUE
    [] r.kind = "deleteRef"  -> repo.branch = r.from
    [] r.kind = "mergePR"    -> /\ repo.prs[r.pr].state = "open"
                                /\ ~repo.prs[r.pr].draft
                                /\ repo.prs[r.pr].head = r.from

\* What an accepted request does.
Apply(repo, r) ==
  CASE r.kind = "createRef"  -> WithHead(repo, BaseSha)
    [] r.kind = "advanceRef" -> WithHead(repo, r.to)
    [] r.kind = "createPR"   -> WithPR(repo, r.by, TRUE)
    [] r.kind = "markReady"  -> [repo EXCEPT !.prs[r.pr].draft = FALSE]
    [] r.kind = "closePR"    -> IF repo.prs[r.pr].state = "open"
                                THEN [repo EXCEPT !.prs[r.pr].state = "closed"]
                                ELSE repo
    [] r.kind = "deleteRef"  -> WithoutBranch(repo)
    [] r.kind = "mergePR"    -> [repo EXCEPT !.prs[r.pr].state = "merged",
                                             !.prs[r.pr].method = MergeMethodReported]

=============================================================================
