---------------------------- MODULE PriceFeedProofs ----------------------------
(***************************************************************************)
(* For every TTL, window and number of overlapping polls that satisfy      *)
(* PriceFeedAssumption: no quote is made at a rate older than the window.  *)
(***************************************************************************)
EXTENDS PriceFeed, TLAPS

\* No poll is under way longer than its requests may take.
PollsEnd == \A p \in Polls : poll[p].age <= CycleTime

\* What a cached price has aged and has left to live: a slow poll's price has
\* aged on the way, and keeps the full TTL.
CacheAges == price.ttl > 0 => price.age + price.ttl <= CacheTtl + CycleTime

IInv == TypeOK /\ PollsEnd /\ CacheAges

\* A clock's reading stays a reading, and moves on by one tick at most.
LEMMA OlderAges ==
    ASSUME StaleAfter \in Nat,
           NEW a \in Ages \cup {None}
    PROVE  /\ Older(a) \in Ages \cup {None}
           /\ a \in Ages => Older(a) \in Ages /\ Older(a) <= a + 1
    BY DEF Ages, Old, None, Older

\* Before the first poll nothing is cached.
LEMMA InitIInv == Init => IInv
    BY PriceFeedAssumption
    DEF PriceFeedAssumption, Init, IInv, TypeOK, PollsEnd, CacheAges, NoPrice, Idle, Ages, Old,
        None

\* A failed poll remembers when failures began, and says so or not.
LEMMA FailKeeps ==
    ASSUME IInv, NEW p \in Polls, Fail(p)
    PROVE  /\ since' \in Ages \cup {None} /\ flag' \in Ages \cup {None}
           /\ poll' \in [Polls -> [step : {"idle", "store", "publish", "alert"},
                                   age : Ages, sound : BOOLEAN]]
           /\ PollsEnd'
<1>1. 0 \in Ages /\ 0 <= CycleTime
    BY PriceFeedAssumption DEF PriceFeedAssumption, Ages, Old
<1>2. since' \in Ages \cup {None}
    BY <1>1 DEF IInv, TypeOK, Fail
<1>3. flag' \in Ages \cup {None}
    BY <1>2 DEF IInv, TypeOK, Fail
<1>4. poll' = [poll EXCEPT ![p] = [step |-> "alert", age |-> 0, sound |-> TRUE]]
    BY DEF Fail
<1>5. poll' \in [Polls -> [step : {"idle", "store", "publish", "alert"},
                          age : Ages, sound : BOOLEAN]]
    BY <1>1, <1>4 DEF IInv, TypeOK
<1>6. PollsEnd'
    BY <1>1, <1>4 DEF IInv, TypeOK, PollsEnd
<1>7. QED
    BY <1>2, <1>3, <1>5, <1>6

\* Each step of the feed, its flag and its clock keeps the invariant.
LEMMA NextIInv == IInv /\ [Next]_vars => IInv'
<1> SUFFICES ASSUME IInv, [Next]_vars
             PROVE  IInv'
    OBVIOUS
<1> USE PriceFeedAssumption DEF PriceFeedAssumption
<1>1. ASSUME NEW p \in Polls, NEW sound \in BOOLEAN, Fetch(p, sound)
      PROVE  IInv'
    <2>1. 0 \in Ages /\ 0 <= CycleTime
        BY DEF Ages, Old
    <2>2. poll' = [poll EXCEPT ![p] = [step |-> "store", age |-> 0, sound |-> sound]]
        BY <1>1 DEF Fetch
    <2>3. /\ poll' \in [Polls -> [step : {"idle", "store", "publish", "alert"},
                                  age : Ages, sound : BOOLEAN]]
          /\ PollsEnd'
        BY <2>1, <2>2 DEF IInv, TypeOK, PollsEnd
    <2>4. QED
        BY <1>1, <2>3 DEF IInv, TypeOK, CacheAges, Fetch
<1>2. ASSUME NEW p \in Polls, Store(p)
      PROVE  IInv'
    BY <1>2 DEF IInv, TypeOK, PollsEnd, CacheAges, Store, Ages, Old
<1>3. ASSUME NEW p \in Polls, Publish(p)
      PROVE  IInv'
    BY <1>3 DEF IInv, TypeOK, PollsEnd, CacheAges, Publish, Idle, Ages, Old
<1>4. ASSUME NEW p \in Polls, Alert(p)
      PROVE  IInv'
    BY <1>4 DEF IInv, TypeOK, PollsEnd, CacheAges, Alert, Idle, Ages, Old
<1>5. ASSUME NEW p \in Polls, PublishLost(p)
      PROVE  IInv'
    BY <1>5 DEF IInv, TypeOK, PollsEnd, CacheAges, PublishLost, Idle, Ages, Old
<1>6. ASSUME NEW p \in Polls, FetchFails(p)
      PROVE  IInv'
    BY <1>6, FailKeeps DEF IInv, TypeOK, CacheAges, FetchFails
<1>7. ASSUME NEW p \in Polls, StoreFails(p)
      PROVE  IInv'
    <2>1. db' \in Ages
        BY <1>7 DEF IInv, TypeOK, StoreFails
    <2>2. QED
        BY <1>7, <2>1, FailKeeps DEF IInv, TypeOK, CacheAges, StoreFails
<1>8. CASE WorkerRestart
    BY <1>8 DEF IInv, TypeOK, PollsEnd, CacheAges, WorkerRestart, Idle, Ages, Old
<1>9. CASE FlagSuspect
    BY <1>9 DEF IInv, TypeOK, PollsEnd, CacheAges, FlagSuspect, Ages, Old
<1>10. CASE Tick
    <2>1. db' \in Ages /\ flag' \in Ages \cup {None} /\ since' \in Ages \cup {None}
        BY <1>10, OlderAges DEF IInv, TypeOK, Tick
    <2>2. /\ price' \in [ttl : 0 .. CacheTtl, age : Ages, sound : BOOLEAN]
          /\ CacheAges'
        <3>1. CASE price.ttl <= 1
            BY <1>10, <3>1 DEF Tick, NoPrice, CacheAges, Ages, Old
        <3>2. CASE price.ttl > 1
            <4>1. Older(price.age) \in Ages /\ Older(price.age) <= price.age + 1
                BY OlderAges DEF IInv, TypeOK
            <4>2. price' = [price EXCEPT !.ttl = @ - 1, !.age = Older(@)]
                BY <1>10, <3>2 DEF Tick, IInv, TypeOK
            <4>3. /\ price.ttl \in 0 .. CacheTtl /\ price.ttl - 1 \in 0 .. CacheTtl
                  /\ price.age \in Ages /\ price.age \in Int
                BY <3>2 DEF IInv, TypeOK, Ages, Old
            <4>4. price' \in [ttl : 0 .. CacheTtl, age : Ages, sound : BOOLEAN]
                BY <4>1, <4>2, <4>3 DEF IInv, TypeOK
            <4>5. price'.ttl = price.ttl - 1 /\ price'.age = Older(price.age)
                BY <4>2, <4>3 DEF IInv, TypeOK
            <4>6. Older(price.age) \in Int
                BY <4>1 DEF Ages, Old
            <4>7. CacheAges'
                BY <3>2, <4>1, <4>3, <4>5, <4>6 DEF IInv, CacheAges
            <4>8. QED
                BY <4>4, <4>7
        <3>3. QED
            BY <3>1, <3>2 DEF IInv, TypeOK
    <2>3. /\ poll' \in [Polls -> [step : {"idle", "store", "publish", "alert"},
                                  age : Ages, sound : BOOLEAN]]
          /\ PollsEnd'
        <3>1. ASSUME NEW p \in Polls
              PROVE  /\ poll'[p] \in [step : {"idle", "store", "publish", "alert"},
                                      age : Ages, sound : BOOLEAN]
                     /\ poll'[p].age <= CycleTime
            <4>1. poll[p].age \in Ages
                BY DEF IInv, TypeOK
            <4>2. Older(poll[p].age) \in Ages /\ Older(poll[p].age) <= poll[p].age + 1
                BY <4>1, OlderAges
            <4>3. CASE Busy(p)
                BY <1>10, <4>1, <4>2, <4>3 DEF Tick, IInv, TypeOK, Ages, Old
            <4>4. CASE ~Busy(p)
                BY <1>10, <4>4 DEF Tick, Idle, Ages, Old
            <4>5. QED
                BY <4>3, <4>4
        <3>2. QED
            BY <1>10, <3>1 DEF Tick, PollsEnd
    <2>4. due' \in BOOLEAN /\ healthy' \in BOOLEAN
        BY <1>10 DEF Tick, IInv, TypeOK
    <2>5. QED
        BY <2>1, <2>2, <2>3, <2>4 DEF IInv, TypeOK
<1>11. CASE Environment
    BY <1>11 DEF IInv, TypeOK, PollsEnd, CacheAges, Environment
<1>12. CASE UNCHANGED vars
    BY <1>12 DEF IInv, TypeOK, PollsEnd, CacheAges, vars
<1>13. QED
    BY <1>1, <1>2, <1>3, <1>4, <1>5, <1>6, <1>7, <1>8, <1>9, <1>10, <1>11, <1>12
    DEF Next, Step

\* The invariant bounds the age of what getCurrentRate returns, from the cache
\* and from the row.
LEMMA IInvServes == IInv => ServedRateIsRecent
    BY PriceFeedAssumption
    DEF PriceFeedAssumption, IInv, TypeOK, CacheAges, ServedRateIsRecent, Serves, ServedAge, Cached,
        RowServes, Ages, Old

\* The invariant holds however polls overlap, fail and restart.
THEOREM Invariant == Spec => []IInv
<1>1. Init => IInv
    BY InitIInv
<1>2. IInv /\ [Next]_vars => IInv'
    BY NextIInv
<1>3. QED
    BY <1>1, <1>2, PTL DEF Spec

\* Rows, cache, flag and the worker's memory keep their form.
THEOREM TypeCorrect == Spec => []TypeOK
<1>1. IInv => TypeOK
    BY DEF IInv
<1>2. QED
    BY <1>1, Invariant, PTL

\* getCurrentRate: whatever the polls, the alerts, the monitor and restarts did
\* to the flag, no quote is made at a rate older than PRICE_FEED_STALE_MS.
THEOREM QuotesAreRecent == Spec => []ServedRateIsRecent
<1>1. IInv => ServedRateIsRecent
    BY IInvServes
<1>2. QED
    BY <1>1, Invariant, PTL
=============================================================================
