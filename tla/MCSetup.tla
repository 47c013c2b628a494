------------------------------ MODULE MCSetup ------------------------------
(***************************************************************************)
(* Small instances of SetupApplication for TLC.                             *)
(***************************************************************************)
EXTENDS SetupApplication

CONSTANTS p1, p2, k1

\* Nothing is claimed once two attempts of one kind overlap.
NotTangled == ~tangled

ProcessesAlike == Permutations(Processes)
=============================================================================
