------------------------------- MODULE MCLsctl -------------------------------
(* A shell that goes through a server and runs every command, and one with a    *)
(* database connection that writes what the first one reads; one key.           *)
EXTENDS Lsctl

CONSTANTS http, db, k1, good1, good2, bad

MCWriters  == {http, db}
MCServed   == {http}
MCKeys     == {k1}
MCPayloads == {good1, good2, bad}
MCValid    == {good1, good2}
MCFlags    == 0 .. 1

MCTyped == [w \in MCWriters |->
    IF w = http
      THEN {c \in SetCmd : c.payload # good2} \cup PreviewCmd \cup RmCmd \cup RollbackCmd
           \cup GetCmd \cup HistoryCmd \cup ListCmd \cup MigrateCmd
           \cup {c \in DiffCmd : c.v2 = 0}
      ELSE {c \in SetCmd : c.payload = good2} \cup RmCmd \cup MigrateCmd
           \cup {c \in RollbackCmd \cup DiffCmd : c.v1 = 1 /\ (c.name = "diff" => c.v2 = 1)}
           \cup {c \in GetCmd : c.v1 = 0}]
=============================================================================
