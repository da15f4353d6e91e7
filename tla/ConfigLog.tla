----------------------------- MODULE ConfigLog -----------------------------
(***************************************************************************)
(* What the store promises, seen from outside a transaction: one global    *)
(* log of published changes.  Every successful call takes effect in one    *)
(* step, raises the revision by exactly one, appends one entry to its      *)
(* key's history and leaves the current row that entry prescribes.  A call *)
(* that fails leaves no trace.  Store implements this with a transaction   *)
(* of seven statements.                                                    *)
(***************************************************************************)
EXTENDS Integers, Sequences

CONSTANTS
    Keys,      \* the keys ValidateKey accepts
    Payloads,  \* the (value, format) pairs ValidateValue accepts
    NoPayload  \* the key has no row

VARIABLES
    revision,  \* lite_config_meta.revision
    config,    \* the row of a key in lite_config, or NoPayload
    log        \* the entries of a key in lite_config_history, oldest first

logVars == <<revision, config, log>>

Ops == {"set", "delete", "rollback"}

Entry == [op : Ops, payload : Payloads]

LogTypeOK ==
    /\ revision \in Nat
    /\ config \in [Keys -> Payloads \cup {NoPayload}]
    /\ log \in [Keys -> Seq(Entry)]

LogInit ==
    /\ revision = 0
    /\ config = [k \in Keys |-> NoPayload]
    /\ log = [k \in Keys |-> << >>]

Publish(k, op, p) ==
    /\ revision' = revision + 1
    /\ config' = [config EXCEPT ![k] = IF op = "delete" THEN NoPayload ELSE p]
    /\ log' = [log EXCEPT ![k] = Append(@, [op |-> op, payload |-> p])]

\* Publish a value, creating the key if absent.
Set(k) == \E p \in Payloads : Publish(k, "set", p)

\* Hard-delete a key that exists; the entry keeps the value removed.
Delete(k) ==
    /\ config[k] # NoPayload
    /\ Publish(k, "delete", config[k])

\* Publish again the value of any earlier version, deleted keys included.
Rollback(k) ==
    \E v \in 1 .. Len(log[k]) : Publish(k, "rollback", log[k][v].payload)

LogNext == \E k \in Keys : Set(k) \/ Delete(k) \/ Rollback(k)

LogSpec == LogInit /\ [][LogNext]_logVars
=============================================================================
