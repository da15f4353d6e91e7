--------------------------- MODULE MCConfigSync ----------------------------
(* Two instances, a client that polls them and one that polls the database. *)
EXTENDS ConfigSync, TLC

CONSTANTS i1, i2, h1, d1

MCInstances     == {i1, i2}
MCHttpClients   == {h1}
MCDirectClients == {d1}
MCSymmetry      == Permutations(MCInstances)
=============================================================================
