------------------------------- MODULE MCView -------------------------------
(* Four keys over a letter and the underscore, which LIKE takes for a        *)
(* wildcard, and prefixes that nest, repeat, contain wildcards or are empty. *)
EXTENDS View

CONSTANTS v1, v2

a == 97

MCValues     == {v1, v2}
MCKeys       == {<<a>>, <<a, a>>, <<a, Underscore>>, <<Underscore, a>>}
MCPrefixArgs == {<<>>, <<<<>>, <<a>>>>, <<<<a>>, <<a, Underscore>>>>,
                 <<<<Underscore>>, <<Underscore>>>>, <<<<a, Percent>>, <<Backslash>>>>,
                 <<<<a, Underscore>>, <<Underscore>>, <<a, a>>>>}
MCGroupArgs  == {<<>>, <<a>>, <<a, Underscore>>, <<Underscore>>, <<Percent>>, <<a, a, a>>}
=============================================================================
