----------------------------- MODULE MCClient ------------------------------
(* Two keys; one watcher of everything and one of a single key. *)
EXTENDS Client

CONSTANTS k1, k2, v1, all, one, c1

MCKeys      == {k1, k2}
MCValues    == {v1}
MCWatchers  == {all, one}
MCWatchKeys == [w \in MCWatchers |-> IF w = all THEN {k1, k2} ELSE {k2}]
MCClosers   == {c1}

\* For the run that needs no second watcher.
MCOneWatcher   == {one}
MCOneWatchKeys == [w \in MCOneWatcher |-> {k2}]
=============================================================================
