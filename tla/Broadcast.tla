------------------------------ MODULE Broadcast ------------------------------
(***************************************************************************)
(* What a server instance promises its long polls, seen from outside: a    *)
(* request whose baseline is the instance's watermark blocks, and the step *)
(* that moves the watermark, either way, wakes every request that is       *)
(* blocked.  No lock, channel or goroutine appears here: RevisionWatcher   *)
(* implements this with them, and ConfigSync builds on no more than this.  *)
(***************************************************************************)
EXTENDS Integers

CONSTANT Callers   \* the requests that may be in Wait

VARIABLES
    watermark,  \* -1 until a heartbeat has been answered
    call,       \* of each request: "out" of Wait, "blocked" in it or "woken"
    baseline    \* the since it called Wait with; -1 when it is out

broadcastVars == <<watermark, call, baseline>>

Revisions == Nat \cup {-1}

BroadcastInit ==
    /\ watermark = -1
    /\ call = [w \in Callers |-> "out"]
    /\ baseline = [w \in Callers |-> -1]

\* The heartbeat brings a watermark; a different one wakes whoever is blocked.
Move ==
    /\ watermark' \in Nat
    /\ call' = [w \in Callers |->
                  IF call[w] = "blocked" /\ watermark' # watermark
                    THEN "woken" ELSE call[w]]
    /\ UNCHANGED baseline

\* Only a request that knows the watermark blocks; a cold start never does.
Enter(w) ==
    /\ call[w] = "out"
    /\ baseline' \in [Callers -> Revisions]
    /\ \A v \in Callers \ {w} : baseline'[v] = baseline[v]
    /\ call' = [call EXCEPT ![w] =
                  IF baseline'[w] >= 0 /\ baseline'[w] = watermark
                    THEN "blocked" ELSE "woken"]
    /\ UNCHANGED watermark

\* Requests leave: woken, timed out, released by Close or lost with their client.
Leave(ws) ==
    /\ call' = [w \in Callers |-> IF w \in ws THEN "out" ELSE call[w]]
    /\ baseline' = [w \in Callers |-> IF w \in ws THEN -1 ELSE baseline[w]]

\* The instance dies with its requests and comes back without a watermark.
Die == Leave(Callers) /\ watermark' = -1

BroadcastNext ==
    \/ Move
    \/ \E w \in Callers : Enter(w)
    \/ \E ws \in SUBSET Callers : Leave(ws) /\ UNCHANGED watermark
    \/ Die

BroadcastSpec == BroadcastInit /\ [][BroadcastNext]_broadcastVars

\* Who is blocked has seen the present watermark, so nothing was missed.
BlockedHaveSeen ==
    \A w \in Callers : call[w] = "blocked" => baseline[w] = watermark
=============================================================================
