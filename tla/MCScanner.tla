------------------------------ MODULE MCScanner ------------------------------
(***************************************************************************)
(* Scanner for TLC: a root of three places and one of a single place.      *)
(* Contents are not ordered or told apart, so a run takes them up to       *)
(* renaming; places are scanned in order and are not.                      *)
(***************************************************************************)
EXTENDS Scanner, TLC

Uneven == ({1} \X (1 .. 3)) \cup ({2} \X {1})
Single == {1} \X (1 .. 3)

Symmetry == Permutations(Contents)

=============================================================================
