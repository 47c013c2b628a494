------------------------------ MODULE TaskRepo ------------------------------
(***************************************************************************)
(* The slice of a repository in which one Implementation task works, as the *)
(* Git data capability (src/github/git-data-capability.ts) and the evidence *)
(* reads of the Local Executor see it (GitHub itself is not part of the     *)
(* repository):                                                             *)
(*   - the accepted base branch and the contract of every Implementation,   *)
(*   - the task's leaf branch with its commits and trees, and               *)
(*   - the metadata branch that holds the termination records.              *)
(*                                                                          *)
(* Git objects are immutable, so reading one never races with anything; a   *)
(* commit is named after the call, finalization or push that creates it.    *)
(***************************************************************************)
EXTENDS Integers

CONSTANTS
  Tasks,        \* Implementations
  Calls,        \* calls of branch.advance
  Pushes,       \* bound: commits that other people push to the leaf branch
  Finalizers,   \* finalizations of a task termination
  Root,         \* the commit the leaf branch starts at
  NoCommit,     \* no commit: an absent branch
  Paths, Contents,
  RootTree,     \* the tree of Root
  MaxBase,      \* bound: revisions of the base branch
  MaxEdits,     \* bound: edits of a contract
  MaxRewinds,   \* bound: forced updates of the leaf branch by people
  MaxFaults     \* bound: failed reads, lost or refused requests, crashes

Missing == "missing"   \* a path that is not in a tree; as a change: delete it
Keep    == "keep"      \* a change that leaves a path alone

ASSUME CommitsAssumption == /\ Root \notin Calls \cup Pushes /\ Calls \cap Pushes = {}
                            /\ NoCommit \notin {Root} \cup Calls \cup Pushes \cup Finalizers
                            /\ Calls \cap Finalizers = {}
ASSUME ContentsAssumption == {Missing, Keep} \cap Contents = {}
ASSUME BoundsAssumption == /\ MaxBase \in Nat \ {0} /\ MaxEdits \in Nat \ {0}
                           /\ MaxRewinds \in Nat /\ MaxFaults \in Nat

Commits == {Root} \cup Calls \cup Pushes
Heads   == Commits \cup {NoCommit}
Trees   == [Paths -> Contents \cup {Missing}]
Commit  == [parent : Heads, tree : Trees]

ASSUME RootTreeAssumption == RootTree \in Trees

\* What authorizes an Implementation: one edit of its body and the base revision it names.
Authorization == [edit : 0..MaxEdits, base : 0..MaxBase]
NoRecord == [edit |-> 0, base |-> 0]

VARIABLES
  base,       \* the revision of the accepted base branch
  contract,   \* per Implementation: the authorization its current body names
  head,       \* the head of the leaf branch
  created,    \* the commits of the leaf branch that exist as objects
  commit,     \* their parents and trees
  metadata,   \* the head of the metadata branch
  book,       \* per metadata commit: the termination records in its tree
  late,       \* ref updates that timed out at the client and are still under way
  faults

repoVars == <<base, contract, head, created, commit, metadata, book, late, faults>>

RepoTypeOK ==
  /\ base \in 1..MaxBase
  /\ contract \in [Tasks -> Authorization]
  /\ head \in Heads
  /\ created \subseteq Commits
  /\ commit \in [Commits -> Commit]
  /\ metadata \in Finalizers \cup {NoCommit}
  /\ book \in [Finalizers -> [Tasks -> Authorization]]
  /\ late \subseteq Calls \cup Finalizers
  /\ faults \in 0..MaxFaults

RepoInit ==
  /\ base = 1
  /\ contract = [t \in Tasks |-> [edit |-> 1, base |-> 1]]
  /\ head = Root
  /\ created = {Root}
  /\ commit = [c \in Commits |-> [parent |-> NoCommit, tree |-> RootTree]]
  /\ metadata = NoCommit
  /\ book = [f \in Finalizers |-> [t \in Tasks |-> NoRecord]]
  /\ late = {}
  /\ faults = 0

Fault == faults < MaxFaults /\ faults' = faults + 1

\* The termination record of a task on the metadata branch.
Record(t) == IF metadata = NoCommit THEN NoRecord ELSE book[metadata][t]

\* Mutant: the changes are written as they are, also where they keep a path.
WritesEveryPath(tree, changes) == [p \in Paths |-> changes[p]]

\* The tree that a request's changes make of a tree.
Target(tree, changes) == [p \in Paths |-> IF changes[p] = Keep THEN tree[p] ELSE changes[p]]

\* What a change means on a given tree.
Operation(tree, changes, p) ==
  IF changes[p] = Missing THEN "DELETE" ELSE IF tree[p] = Missing THEN "CREATE" ELSE "WRITE"

-----------------------------------------------------------------------------
(* Other people's steps that concern the authorization. *)

\* Something is merged into the base branch.
BaseMoves ==
  /\ base < MaxBase
  /\ base' = base + 1
  /\ UNCHANGED <<contract, head, created, commit, metadata, book, late, faults>>

\* The body of an Implementation is edited; it may name the current base anew.
ContractEdited(t) ==
  /\ contract[t].edit < MaxEdits
  /\ \E b \in {contract[t].base, base} :
       contract' = [contract EXCEPT ![t] = [edit |-> contract[t].edit + 1, base |-> b]]
  /\ UNCHANGED <<base, head, created, commit, metadata, book, late, faults>>

=============================================================================
