------------------------------- MODULE MCDiff -------------------------------
(* Texts of two different lines. *)
EXTENDS Diff, TLC

CONSTANTS l1, l2

MCLines    == {l1, l2}
MCSymmetry == Permutations(MCLines)
=============================================================================
