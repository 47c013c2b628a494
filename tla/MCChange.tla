------------------------------ MODULE MCChange ------------------------------
(***************************************************************************)
(* Small instances of ChangeExecution for TLC: which execution is asked for *)
(* what, and which executions a caller lets finish before the next.         *)
(***************************************************************************)
EXTENDS ChangeExecution, TLC

CONSTANTS e1, e2, e3, e4

IssueOnly       == e1 :> "issue"
IssueAbort      == e1 :> "issue" @@ e2 :> "abort"
IssueMerge      == e1 :> "issue" @@ e2 :> "merge"
IssueIssueAbort == e1 :> "issue" @@ e2 :> "issue" @@ e3 :> "abort"
IssueReadyMerge == e1 :> "issue" @@ e2 :> "ready" @@ e3 :> "merge"
Lifecycle       == IssueReadyMerge @@ e4 :> "abort"

Unordered  == [e \in Execs |-> {}]
IssueFirst == [e \in Execs |-> IF e = e1 THEN {} ELSE {e1}]
InSequence == e1 :> {} @@ e2 :> {e1} @@ e3 :> {e1, e2} @@ e4 :> {e1, e2, e3}

\* With IssueIssueAbort and no order, the two issuances are interchangeable.
IssuesAlike == Permutations({e1, e2})
=============================================================================
