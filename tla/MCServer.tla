------------------------------ MODULE MCServer ------------------------------
(* One long poll (long polls do not interact); Run's goroutine, which is one of  *)
(* two callers of stop when the server is embedded.                              *)
EXTENDS Server

CONSTANTS w1, s1, s2

MCWaiters  == {w1}
MCStoppers == {s1, s2}
=============================================================================
