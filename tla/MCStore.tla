------------------------------ MODULE MCStore ------------------------------
(* Two writers, two keys, two valid payloads and an invalid one. *)
EXTENDS Store, TLC

CONSTANTS w1, w2, k1, k2, good1, good2, bad

MCWriters  == {w1, w2}
MCKeys     == {k1, k2}
MCPayloads == {good1, good2, bad}
MCValid    == {good1, good2}

\* Writers, keys and valid payloads are interchangeable.
MCSymmetry == Permutations(MCWriters) \cup Permutations(MCKeys) \cup Permutations(MCValid)
=============================================================================
