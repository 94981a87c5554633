------------------------------ MODULE PriceFeed ------------------------------
(***************************************************************************)
(* The rates: the polls of workers/price-feed.worker.ts, which store a row *)
(* in PostgreSQL and publish to Redis, the price:stale flag that they and  *)
(* the liquidation monitor write, and getCurrentRate, which reads all of   *)
(* it for quotes and checkouts.                                            *)
(*                                                                         *)
(* Time is relative: one Tick is the poll interval, ages grow up to Old    *)
(* and are then too old for every reader, and a TTL runs down.  A price is *)
(* its age and whether it is positive; setInterval does not wait for the   *)
(* poll before.                                                            *)
(***************************************************************************)
EXTENDS Integers

CONSTANTS
    Polls,          \* calls of runCycle that may overlap
    CacheTtl,       \* PRICE_CACHE_TTL_SEC, in ticks
    StaleAfter,     \* PRICE_FEED_STALE_MS
    AlertAfter,     \* STALE_ALERT_THRESHOLD_MS
    CycleTime       \* ticks a poll may be under way: its requests time out

\* The last line: a price leaves the cache before it is too old for a quote.
ASSUME PriceFeedAssumption ==
    /\ CacheTtl \in Nat \ {0} /\ StaleAfter \in Nat /\ AlertAfter \in Nat
    /\ CycleTime \in Nat
    /\ CacheTtl + CycleTime <= StaleAfter + 1

Old  == StaleAfter + 1
None == -1
Ages == 0 .. Old
Older(age) == IF age \in 0 .. StaleAfter THEN age + 1 ELSE age

VARIABLES
    db,             \* age of the latest price_feeds row; Old: or there is none
    price,          \* price:SAT_NGN, gone when its ttl is 0
    flag,           \* age of the time price:stale holds, or None
    since,          \* stale_since in the worker's memory: its age, or None
    poll,           \* the calls of runCycle
    due,            \* the timer has fired and its call has not started
    healthy         \* the provider, PostgreSQL, Redis and the worker are up

vars == <<db, price, flag, since, poll, due, healthy>>

Idle   == [step |-> "idle", age |-> 0, sound |-> TRUE]
NoPrice == [ttl |-> 0, age |-> 0, sound |-> TRUE]

TypeOK ==
    /\ db \in Ages
    /\ price \in [ttl : 0 .. CacheTtl, age : Ages, sound : BOOLEAN]
    /\ flag \in Ages \cup {None} /\ since \in Ages \cup {None}
    /\ poll \in [Polls -> [step : {"idle", "store", "publish", "alert"},
                           age : Ages, sound : BOOLEAN]]
    /\ due \in BOOLEAN /\ healthy \in BOOLEAN

Init ==
    /\ db = Old /\ price = NoPrice
    /\ flag = None /\ since = None
    /\ poll = [p \in Polls |-> Idle]
    /\ due = TRUE /\ healthy = TRUE

-----------------------------------------------------------------------------
(* runCycle *)

Busy(p) == poll[p].step # "idle"

\* The earliest poll first takes the timer's call.
Fetch(p, sound) ==
    /\ due /\ ~Busy(p)
    /\ poll' = [poll EXCEPT ![p] = [step |-> "store", age |-> 0, sound |-> sound]]
    /\ due' = FALSE
    /\ UNCHANGED <<db, price, flag, since, healthy>>

\* The row of each pair; the latest by fetched_at is what readers find.
Store(p) ==
    /\ poll[p].step = "store"
    /\ db' = IF poll[p].age < db THEN poll[p].age ELSE db
    /\ poll' = [poll EXCEPT ![p].step = "publish"]
    /\ UNCHANGED <<price, flag, since, due, healthy>>

\* Mutant: the flag is left for the next restart to clear.
Publish_KeepsFlag(p) ==
    /\ poll[p].step = "publish"
    /\ price' = [ttl |-> CacheTtl, age |-> poll[p].age, sound |-> poll[p].sound]
    /\ since' = None
    /\ poll' = [poll EXCEPT ![p] = Idle]
    /\ UNCHANGED <<db, flag, due, healthy>>

\* Mutant: a longer TTL than the cache is meant to have.
Publish_LongTtl(p) ==
    /\ poll[p].step = "publish"
    /\ price' = [ttl |-> CacheTtl + 1, age |-> poll[p].age, sound |-> poll[p].sound]
    /\ flag' = None /\ since' = None
    /\ poll' = [poll EXCEPT ![p] = Idle]
    /\ UNCHANGED <<db, due, healthy>>

\* The pipeline: the price with its TTL, del of the flag; stale_since = null.
Publish(p) ==
    /\ poll[p].step = "publish"
    /\ price' = [ttl |-> CacheTtl, age |-> poll[p].age, sound |-> poll[p].sound]
    /\ flag' = None /\ since' = None
    /\ poll' = [poll EXCEPT ![p] = Idle]
    /\ UNCHANGED <<db, due, healthy>>

\* exec() reports a command that failed in its answer, which nobody reads.
PublishLost(p) ==
    /\ poll[p].step = "publish" /\ ~healthy
    /\ since' = None
    /\ poll' = [poll EXCEPT ![p] = Idle]
    /\ UNCHANGED <<db, price, flag, due, healthy>>

\* The catch: stale_since keeps the first failure, and the flag is set to it;
\* a set that fails is ignored.
Fail(p) ==
    /\ since' = IF since = None THEN 0 ELSE since
    /\ flag' \in {flag, since'}
    /\ poll' = [poll EXCEPT ![p] = [step |-> "alert", age |-> 0, sound |-> TRUE]]

FetchFails(p) ==
    /\ due /\ ~Busy(p) /\ ~healthy
    /\ due' = FALSE
    /\ Fail(p)
    /\ UNCHANGED <<db, price, healthy>>

\* Promise.all rejects with the first insert that fails: the others stay.
StoreFails(p) ==
    /\ poll[p].step = "store" /\ ~healthy
    /\ db' \in {db, IF poll[p].age < db THEN poll[p].age ELSE db}
    /\ Fail(p)
    /\ UNCHANGED <<price, due, healthy>>

\* now - stale_since, where null counts as 0: an overlapping poll may have
\* cleared it.  Ops are told, and the outage is counted from now.
Alert(p) ==
    /\ poll[p].step = "alert"
    /\ since' = IF since > AlertAfter \/ since = None THEN 0 ELSE since
    /\ poll' = [poll EXCEPT ![p] = Idle]
    /\ UNCHANGED <<db, price, flag, due, healthy>>

\* stale_since is lost with the process; main runs a cycle at once.
WorkerRestart ==
    /\ ~healthy
    /\ poll' = [p \in Polls |-> Idle]
    /\ since' = None
    /\ due' = TRUE
    /\ UNCHANGED <<db, price, flag, healthy>>

-----------------------------------------------------------------------------
(* The other writer of the flag, the clock, and the environment            *)

\* runLiquidationCycle, not stopped by the flag, reads a rate that is not positive.
FlagSuspect ==
    /\ flag = None /\ price.ttl > 0 /\ ~price.sound
    /\ flag' = 0
    /\ UNCHANGED <<db, price, since, poll, due, healthy>>

Tick ==
    /\ ~due
    /\ \A p \in Polls : Busy(p) => poll[p].age < CycleTime
    /\ due' = TRUE
    /\ db' = Older(db)
    /\ price' = IF price.ttl <= 1 THEN NoPrice
                ELSE [price EXCEPT !.ttl = @ - 1, !.age = Older(@)]
    /\ flag' = Older(flag) /\ since' = Older(since)
    /\ poll' = [p \in Polls |-> IF Busy(p) THEN [poll[p] EXCEPT !.age = Older(@)] ELSE Idle]
    /\ UNCHANGED healthy

Environment ==
    /\ healthy' = ~healthy
    /\ UNCHANGED <<db, price, flag, since, poll, due>>

Step(p) == Store(p) \/ Publish(p) \/ Alert(p)

Next ==
    \/ \E p \in Polls, sound \in BOOLEAN : Fetch(p, sound)
    \/ \E p \in Polls : Step(p) \/ PublishLost(p) \/ FetchFails(p) \/ StoreFails(p)
    \/ WorkerRestart \/ FlagSuspect \/ Tick \/ Environment

\* The timer fires, its call starts, and a poll under way goes on.
Fairness ==
    /\ WF_vars(Tick)
    /\ WF_vars(\E p \in Polls, sound \in BOOLEAN : Fetch(p, sound))
    /\ \A p \in Polls : WF_vars(Step(p))

Spec == Init /\ [][Next]_vars /\ Fairness

-----------------------------------------------------------------------------
(* getCurrentRate: the flag, then the cache, then the latest row.          *)

Cached == price.ttl > 0

\* Mutant: whatever row there is will do.
RowServes_Any == TRUE

\* isPastStaleness
RowServes == db <= StaleAfter

Serves == flag <= StaleAfter /\ (Cached \/ RowServes)

ServedAge == IF Cached THEN price.age ELSE db

-----------------------------------------------------------------------------
(* Properties *)

\* Although an alert restarts stale_since, a restart forgets it, the monitor
\* overwrites the flag, and a slow poll publishes an old rate with a full TTL
\* over a newer one, no quote is made at a rate older than PRICE_FEED_STALE_MS.
ServedRateIsRecent == Serves => ServedAge <= StaleAfter

\* When the outage ends quotes come back and stay, whatever flags it left.
RecoversAfterOutage == <>[]healthy => <>[]Serves
=============================================================================
