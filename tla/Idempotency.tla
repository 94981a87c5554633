----------------------------- MODULE Idempotency -----------------------------
(***************************************************************************)
(* IdempotencyInterceptor on one Idempotency-Key of one customer: copies   *)
(* of a request, each of which may be a retry while the others are under   *)
(* way, and the Redis key that holds a marker and then the response.       *)
(***************************************************************************)
EXTENDS Naturals, FiniteSets

CONSTANTS
    Calls,          \* copies of the request under way at a time
    MaxLapses       \* bound: times the key expires too early

VARIABLES
    key,            \* "none", "in_flight" or "response"
    call,           \* the step each copy is at
    completed,      \* history: handlers that ran to their end
    lapses          \* history: expiries of the key after a handler had started

vars == <<key, call, completed, lapses>>

TypeOK ==
    /\ key \in {"none", "in_flight", "response"}
    /\ call \in [Calls -> {"idle", "get", "claim", "handle", "store"}]
    /\ completed \in 0 .. MaxLapses + 1 /\ lapses \in 0 .. MaxLapses

Init ==
    /\ key = "none" /\ completed = 0 /\ lapses = 0
    /\ call = [c \in Calls |-> "idle"]

-----------------------------------------------------------------------------

Goto(c, step) == call' = [call EXCEPT ![c] = step]
Running == {c \in Calls : call[c] = "handle"}

Arrive(c) ==
    /\ call[c] = "idle" /\ Goto(c, "get")
    /\ UNCHANGED <<key, completed, lapses>>

\* A marker is answered with a conflict, a response with itself.
Get(c) ==
    /\ call[c] = "get"
    /\ Goto(c, IF key = "none" THEN "claim" ELSE "idle")
    /\ UNCHANGED <<key, completed, lapses>>

\* Mutant: SET without NX.
Claimed_Always == TRUE

\* SET NX EX 60
Claimed == key = "none"

Claim(c) ==
    /\ call[c] = "claim"
    /\ IF Claimed THEN key' = "in_flight" /\ Goto(c, "handle")
       ELSE UNCHANGED key /\ Goto(c, "idle")
    /\ UNCHANGED <<completed, lapses>>

Handle(c) ==
    /\ call[c] = "handle"
    /\ completed' = completed + 1
    /\ Goto(c, "store")
    /\ UNCHANGED <<key, lapses>>

\* The marker stays after an error: a retry is a conflict until it expires.
HandlerFails(c) ==
    /\ call[c] = "handle" /\ Goto(c, "idle")
    /\ UNCHANGED <<key, completed, lapses>>

\* Not awaited: the customer may have the answer before it is stored, whatever
\* the key holds by then, or it is never stored.
Store(c) ==
    /\ call[c] = "store"
    /\ key' = "response" \/ UNCHANGED key
    /\ Goto(c, "idle")
    /\ UNCHANGED <<completed, lapses>>

\* Redis drops the marker after a minute, the response after IDEMPOTENCY_TTL_SEC.
Expire ==
    /\ key # "none" /\ key' = "none"
    /\ IF Running # {} \/ completed > 0
       THEN lapses < MaxLapses /\ lapses' = lapses + 1
       ELSE UNCHANGED lapses
    /\ UNCHANGED <<call, completed>>

Next ==
    \/ Expire
    \/ \E c \in Calls :
          Arrive(c) \/ Get(c) \/ Claim(c) \/ Handle(c) \/ HandlerFails(c) \/ Store(c)

Spec == Init /\ [][Next]_vars

-----------------------------------------------------------------------------
(* Properties *)

\* However copies of a request overlap and repeat, its handler runs once, and
\* once more for every time the key expired although a handler had started.
KeyRunsOnce == completed + Cardinality(Running) <= 1 + lapses

\* While the key is free one more handler may start: that is why it cannot be
\* said of the handlers alone.
FreeKeyRunsNone == key = "none" => completed + Cardinality(Running) <= lapses

IInv == TypeOK /\ KeyRunsOnce /\ FreeKeyRunsNone
=============================================================================
