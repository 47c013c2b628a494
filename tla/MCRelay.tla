------------------------------ MODULE MCRelay ------------------------------
(***************************************************************************)
(* Small instances of RelaySystem for TLC.                                  *)
(***************************************************************************)
EXTENDS RelaySystem, TLC

CONSTANTS j1, j2, j3

\* The relay's limits are symmetric in jobs that callers send alike.
JobsAlike == Permutations(Jobs)
=============================================================================
