-------------------------------- MODULE MCTui --------------------------------
(* Two keys, the first of them in a group, so that the first row is a header. *)
EXTENDS Tui

CONSTANTS a, b, g, t1, t2, f1, f2

MCOrder   == <<a, b>>
MCGroup   == (a :> g) @@ (b :> NoGroup)
MCFilters == {{a, b}, {b}}
MCTexts   == {t1, t2}
MCFormats == {f1, f2}

\* Both keys have an older version with another text.
Rewritten == <<[value |-> [text |-> t1, format |-> f1], live |-> TRUE],
               [value |-> [text |-> t2, format |-> f1], live |-> TRUE]>>
MCSeeds   == {Rewritten}
=============================================================================
