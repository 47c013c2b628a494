------------------------------- MODULE MCTask -------------------------------
(***************************************************************************)
(* Small instances of TaskSystem for TLC.                                   *)
(*                                                                          *)
(* c1 and c2 carry the same request, c3 another one.  f1 and f2 terminate   *)
(* the task of the calls, f3 another task on the same metadata branch.      *)
(***************************************************************************)
EXTENDS TaskSystem, FiniteSets, TLC

CONSTANTS c1, c2, c3, f1, f2, f3, t1, t2, p1, p2, x1, x2, r1, r2, u1, root, none

\* r1 writes p1, which the scope lets it create only; r2 deletes p2.
MCRequestOf == [c \in Calls |-> IF c = c3 THEN r2 ELSE r1]
MCChanges   == [r \in Requests |-> IF r = r1 THEN p1 :> x1 @@ p2 :> Keep ELSE p1 :> Keep @@ p2 :> Missing]
MCScope     == p1 :> {"CREATE"} @@ p2 :> {"WRITE", "DELETE"}
MCRootTree  == p1 :> Missing @@ p2 :> x1
MCTaskOf    == [f \in Finalizers |-> IF f = f3 THEN t2 ELSE t1]

CONSTANTS MaxBegun, MaxDisturbances   \* bounds: operations begun, steps of others and faults

Begun    == Cardinality({c \in Calls : call[c].pc # "idle"})
            + Cardinality({f \in Finalizers : fin[f].pc # "idle"})
Disturbances == base + contract[t1].edit + contract[t2].edit + rewinds + faults
                + Cardinality(created \cap Pushes) - 3
FewSteps == Begun <= MaxBegun /\ Disturbances <= MaxDisturbances

\* Operations of one request, and finalizations of one task, are alike.
OperationsAlike == Permutations({c1, c2}) \cup Permutations({f1, f2})
=============================================================================
