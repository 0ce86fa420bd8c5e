----------------------------- MODULE MCHistorian -----------------------------
(***************************************************************************)
(* Historian for TLC: the threads that serve requests run the same code,   *)
(* so safety runs take them up to renaming.                                *)
(***************************************************************************)
EXTENDS Historian, TLC

Symmetry == Permutations(Clients)

=============================================================================
