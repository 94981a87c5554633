---------------------------- MODULE ServicesProofs ----------------------------
(***************************************************************************)
(* For every number of requests, runs and failures: what is asked for twice *)
(* is done once, and what a customer has (the accounts, the number of an    *)
(* identity, the feed, the open top-up) is as the services promise; what a  *)
(* provider or a look-up is reported to say is so.  The services are those  *)
(* of MCServices, and so are their variables: s1, s2, ... in the order in   *)
(* which a service declares them.                                           *)
(***************************************************************************)
EXTENDS MCServices, FiniteSetTheorems, TLAPS

\* Calls are finitely many.
LEMMA CallsSize ==
    /\ \A Q \in SUBSET Calls : Cardinality(Q) \in Nat /\ (Cardinality(Q) = 0 <=> Q = {})
    /\ \A Q \in SUBSET Calls : \A c \in Calls \ Q : Cardinality(Q \cup {c}) = Cardinality(Q) + 1
    /\ \A Q \in SUBSET Calls : \A c \in Q : Cardinality(Q \ {c}) = Cardinality(Q) - 1
<1>1. IsFiniteSet(Calls)
    BY ServicesAssumption DEF ServicesAssumption
<1>2. \A Q \in SUBSET Calls : IsFiniteSet(Q)
    BY <1>1, FS_Subset
<1>3. QED
    BY <1>1, <1>2, FS_CardinalityType, FS_EmptySet, FS_AddElement, FS_RemoveElement

\* How many requests there are.
Many == Cardinality(Calls)

\* A set of requests from which one goes, or into which it comes.
LEMMA OneMoves ==
    ASSUME NEW Q \in SUBSET Calls, NEW W \in SUBSET Calls, NEW c \in Calls, Q \ {c} = W \ {c}
    PROVE  Cardinality(W) = Cardinality(Q) + (IF c \in W THEN 1 ELSE 0) - (IF c \in Q THEN 1 ELSE 0)
<1>1. Cardinality(Q) \in Nat /\ Cardinality(W) \in Nat
    BY CallsSize
<1>2. CASE c \in Q /\ c \in W
    <2>1. Q = W
        BY <1>2
    <2>2. QED
        BY <1>1, <1>2, <2>1
<1>3. CASE c \notin Q /\ c \notin W
    <2>1. Q = W
        BY <1>3
    <2>2. QED
        BY <1>1, <1>3, <2>1
<1>4. CASE c \in Q /\ c \notin W
    <2>1. W = Q \ {c}
        BY <1>4
    <2>2. Cardinality(W) = Cardinality(Q) - 1
        BY <1>4, <2>1, CallsSize
    <2>3. QED
        BY <1>1, <1>4, <2>2
<1>5. CASE c \notin Q /\ c \in W
    <2>1. W = Q \cup {c} /\ c \in Calls \ Q
        BY <1>5
    <2>2. Cardinality(W) = Cardinality(Q) + 1
        BY <2>1, CallsSize
    <2>3. QED
        BY <1>1, <1>5, <2>2
<1>6. QED
    BY <1>2, <1>3, <1>4, <1>5

\* No set of requests is larger than one it is part of, nor than all of them.
LEMMA PartIsSmaller ==
    /\ Many \in Nat
    /\ \A Q, W \in SUBSET Calls : Q \subseteq W => Cardinality(Q) <= Cardinality(W)
    /\ \A Q \in SUBSET Calls : Cardinality(Q) \in 0 .. Many
<1>1. IsFiniteSet(Calls)
    BY ServicesAssumption DEF ServicesAssumption
<1>2. \A Q \in SUBSET Calls : IsFiniteSet(Q)
    BY <1>1, FS_Subset
<1>3. \A Q, W \in SUBSET Calls : Q \subseteq W => Cardinality(Q) <= Cardinality(W)
    BY <1>2, FS_Subset
<1>4. QED
    BY <1>3, CallsSize DEF Many

\* Below a natural number there are finitely many.
Less == {ss \in Nat \X Nat : ss[1] < ss[2]}

\* There is no end to going down in them.
LEMMA LessIsWellFounded == IsWellFoundedOn(Less, Nat)
BY NatLessThanWellFounded DEF OpToRel, Less

\* Natural numbers, if any, have a least one.
LEMMA LeastNumber == \A Q \in SUBSET Nat : Q # {} => \E x \in Q : \A y \in Q : x <= y
<1> SUFFICES ASSUME NEW Q \in SUBSET Nat, Q # {}
             PROVE  \E x \in Q : \A y \in Q : x <= y
    OBVIOUS
<1>1. PICK x \in Q : \A y \in Q : <<y, x>> \notin Less
    BY LessIsWellFounded, WFMin
<1>2. \A y \in Q : ~(y < x)
    BY <1>1 DEF Less
<1>3. QED
    BY <1>2

-----------------------------------------------------------------------------
(* The Idempotency-Key: s1 key, s2 call, s3 completed, s4 lapses           *)

\* The service counts as everybody does.
LEMMA KeyCounts == \A Q : I!Cardinality(Q) = Cardinality(Q)
BY DEF I!Cardinality, Cardinality

\* No handler has run, and none runs.
LEMMA KeyInit == I!Init => I!IInv
<1> SUFFICES ASSUME I!Init
             PROVE  I!IInv
    OBVIOUS
<1>1. I!Running = {}
    BY DEF I!Init, I!Running
<1>2. Cardinality(I!Running) = 0
    BY <1>1, FS_EmptySet
<1>3. s3 = 0 /\ s4 = 0 /\ s1 = "none" /\ s2 = [c \in Calls |-> "idle"]
    BY DEF I!Init
<1>4. QED
    BY <1>2, <1>3, KeyCounts, ServicesAssumption
    DEF ServicesAssumption, I!IInv, I!TypeOK, I!KeyRunsOnce, I!FreeKeyRunsNone

\* A copy's step changes who runs by the copy itself.
LEMMA KeyGoto ==
    ASSUME I!TypeOK, NEW c \in Calls,
           NEW step \in {"idle", "get", "claim", "handle", "store"}, I!Goto(c, step)
    PROVE  /\ s2' \in [Calls -> {"idle", "get", "claim", "handle", "store"}]
           /\ (I!Running)' = IF step = "handle" THEN I!Running \cup {c} ELSE I!Running \ {c}
BY DEF I!TypeOK, I!Goto, I!Running

\* Only a free key lets a handler start, and then it is taken; it is free again
\* at the end of a lapse alone, or before any handler has started.
LEMMA KeyNext == I!IInv /\ I!Next => I!IInv'
<1> SUFFICES ASSUME I!IInv, I!Next
             PROVE  I!IInv'
    OBVIOUS
<1> DEFINE running == Cardinality(I!Running)
<1>t. I!TypeOK /\ s3 \in Nat /\ s4 \in Nat /\ s4 <= MaxLapses /\ MaxLapses \in Nat
    BY ServicesAssumption DEF ServicesAssumption, I!IInv, I!TypeOK
<1>r. s3 + running <= 1 + s4 /\ (s1 = "none" => s3 + running <= s4)
    BY KeyCounts DEF I!IInv, I!KeyRunsOnce, I!FreeKeyRunsNone
<1>c. running \in Nat /\ (running = 0 <=> I!Running = {}) /\ I!Running \in SUBSET Calls
    BY CallsSize DEF I!Running
<1>q. ASSUME s1' \in {"none", "in_flight", "response"},
             s2' \in [Calls -> {"idle", "get", "claim", "handle", "store"}],
             s3' \in Nat, s4' \in 0 .. MaxLapses, running' \in Nat, s3' + running' <= 1 + s4',
             s1' = "none" => s3' + running' <= s4'
      PROVE  I!IInv'
    BY <1>q, <1>t, KeyCounts DEF I!IInv, I!TypeOK, I!KeyRunsOnce, I!FreeKeyRunsNone
<1>1. CASE I!Expire
    <2>1. running' = running /\ s2' = s2 /\ s3' = s3 /\ s1 # "none" /\ s1' = "none"
        BY <1>1 DEF I!Expire, I!Running
    <2>2. CASE I!Running # {} \/ s3 > 0
        <3>1. s4' = s4 + 1 /\ s4 < MaxLapses
            BY <1>1, <2>2 DEF I!Expire
        <3>2. QED
            BY <1>q, <1>t, <1>r, <1>c, <2>1, <3>1 DEF I!TypeOK
    <2>3. CASE ~(I!Running # {} \/ s3 > 0)
        <3>1. s4' = s4 /\ s3 = 0 /\ running = 0
            BY <1>1, <1>t, <1>c, <2>3 DEF I!Expire
        <3>2. QED
            BY <1>q, <1>t, <1>r, <1>c, <2>1, <3>1 DEF I!TypeOK
    <2>4. QED
        BY <2>2, <2>3
<1>2. ASSUME NEW c \in Calls, I!Arrive(c) \/ I!Get(c)
      PROVE  I!IInv'
    <2>1. PICK step \in {"get", "claim", "idle"} : I!Goto(c, step)
        BY <1>2 DEF I!Arrive, I!Get
    <2>2. (I!Running)' = I!Running /\ s2' \in [Calls -> {"idle", "get", "claim", "handle", "store"}]
        BY <1>2, <1>t, <2>1, KeyGoto DEF I!Arrive, I!Get, I!Running
    <2>3. UNCHANGED <<s1, s3, s4>>
        BY <1>2 DEF I!Arrive, I!Get
    <2>4. QED
        BY <1>q, <1>t, <1>r, <1>c, <2>2, <2>3 DEF I!TypeOK
<1>3. ASSUME NEW c \in Calls, I!Claim(c)
      PROVE  I!IInv'
    <2>1. c \notin I!Running
        BY <1>3 DEF I!Claim, I!Running
    <2>2. CASE s1 = "none"
        <3>1. s1' = "in_flight" /\ I!Goto(c, "handle") /\ UNCHANGED <<s3, s4>>
            BY <1>3, <2>2 DEF I!Claim, I!Claimed
        <3>2. (I!Running)' = I!Running \cup {c} /\ s2' \in [Calls -> {"idle", "get", "claim", "handle", "store"}]
            BY <1>t, <3>1, KeyGoto
        <3>3. running' = running + 1
            BY <1>c, <2>1, <3>2, CallsSize
        <3>4. QED
            BY <1>q, <1>t, <1>r, <1>c, <2>2, <3>1, <3>2, <3>3 DEF I!TypeOK
    <2>3. CASE s1 # "none"
        <3>1. s1' = s1 /\ I!Goto(c, "idle") /\ UNCHANGED <<s3, s4>>
            BY <1>3, <2>3 DEF I!Claim, I!Claimed
        <3>2. (I!Running)' = I!Running /\ s2' \in [Calls -> {"idle", "get", "claim", "handle", "store"}]
            BY <1>t, <2>1, <3>1, KeyGoto
        <3>3. QED
            BY <1>q, <1>t, <1>r, <1>c, <3>1, <3>2 DEF I!TypeOK
    <2>4. QED
        BY <2>2, <2>3
<1>4. ASSUME NEW c \in Calls, I!Handle(c) \/ I!HandlerFails(c)
      PROVE  I!IInv'
    <2>1. c \in I!Running /\ s1' = s1 /\ s4' = s4 /\ s3' \in {s3, s3 + 1}
        BY <1>4 DEF I!Handle, I!HandlerFails, I!Running
    <2>2. PICK step \in {"store", "idle"} : I!Goto(c, step)
        BY <1>4 DEF I!Handle, I!HandlerFails
    <2>3. (I!Running)' = I!Running \ {c} /\ s2' \in [Calls -> {"idle", "get", "claim", "handle", "store"}]
        BY <1>t, <2>2, KeyGoto
    <2>4. running' = running - 1 /\ running' \in Nat
        BY <1>c, <2>1, <2>3, CallsSize
    <2>5. QED
        BY <1>q, <1>t, <1>r, <1>c, <2>1, <2>3, <2>4 DEF I!TypeOK
<1>5. ASSUME NEW c \in Calls, I!Store(c)
      PROVE  I!IInv'
    <2>1. (I!Running)' = I!Running /\ s2' \in [Calls -> {"idle", "get", "claim", "handle", "store"}]
        BY <1>5, <1>t, KeyGoto DEF I!Store, I!Running
    <2>2. s1' \in {s1, "response"} /\ UNCHANGED <<s3, s4>>
        BY <1>5 DEF I!Store
    <2>3. QED
        BY <1>q, <1>t, <1>r, <1>c, <2>1, <2>2 DEF I!TypeOK
<1>6. QED
    BY <1>1, <1>2, <1>3, <1>4, <1>5 DEF I!Next
-----------------------------------------------------------------------------
(* Remedies: s1 status, s2 rate, s3 address, s4 released, s5 locked, s6    *)
(* run, s7 sends, s8 slips                                                 *)

RunRecords == [step : {"idle", "restore", "read", "send", "stamp", "unlock"}, script : BOOLEAN]

\* Calm: no releases crossed, none ended unstamped.
Calm == s8 \cap {"beside", "unstamped"} = {}

\* A run's step moves that run alone.
OtherRuns(c) == \A d \in Calls \ {c} : s6'[d] = s6[d]

\* No run is under way.
LEMMA RemedyInit == M!Init => M!IInv
<1> SUFFICES ASSUME M!Init
             PROVE  M!IInv
    OBVIOUS
<1>1. s6 = [c \in Calls |-> [step |-> "idle", script |-> FALSE]]
    BY DEF M!Init, M!Idle
<1>2. M!Releasing = {} /\ \A c \in Calls : ~M!At(c, "restore")
    BY <1>1 DEF M!Releasing, M!At
<1>3. /\ s1 \in {"ACTIVE", "LIQUIDATED"} /\ (s2 = "none") = (s1 # "LIQUIDATED")
      /\ s2 \in {"none", "bad", "market"} /\ s3 = FALSE /\ s4 = FALSE /\ s5 = FALSE
      /\ s7 = 0 /\ s8 = {}
    BY DEF M!Init
<1>4. M!TypeOK
    <2>1. s6 \in [Calls -> RunRecords] /\ s7 \in 0 .. MaxSends
        BY <1>1, <1>3, ServicesAssumption DEF ServicesAssumption, RunRecords
    <2>2. QED
        BY <1>3, <2>1 DEF M!TypeOK, RunRecords
<1>5. M!OneRelease /\ M!FoundIsSo
    BY <1>2, <1>3 DEF M!OneRelease, M!FoundIsSo
<1>6. QED
    BY <1>4, <1>5 DEF M!IInv

\* The records of the runs, whichever way one of them moves.
LEMMA RunMoves ==
    ASSUME s6 \in [Calls -> RunRecords], NEW c \in Calls,
           NEW step \in {"idle", "restore", "read", "send", "stamp", "unlock"},
           \/ M!Goto(c, step)
           \/ M!Begin(c, step, TRUE) \/ M!Begin(c, step, FALSE)
           \/ M!End(c) /\ step = "idle"
    PROVE  s6' \in [Calls -> RunRecords] /\ OtherRuns(c) /\ s6'[c].step = step
<1>1. CASE M!Goto(c, step)
    <2>1. s6' = [s6 EXCEPT ![c] = [s6[c] EXCEPT !.step = step]]
        BY <1>1 DEF M!Goto
    <2>2. [s6[c] EXCEPT !.step = step] \in RunRecords
        BY DEF RunRecords
    <2>3. QED
        BY <2>1, <2>2 DEF RunRecords, OtherRuns
<1>2. CASE \E script \in BOOLEAN : M!Begin(c, step, script)
    BY <1>2 DEF M!Begin, RunRecords, OtherRuns
<1>3. CASE M!End(c) /\ step = "idle"
    BY <1>3 DEF M!End, M!Idle, RunRecords, OtherRuns
<1>4. QED
    BY <1>1, <1>2, <1>3

\* The types survive every step.
LEMMA RemedyTypes == M!IInv /\ M!Next => M!TypeOK'
<1> SUFFICES ASSUME M!IInv, M!Next
             PROVE  M!TypeOK'
    OBVIOUS
<1>t. M!TypeOK /\ s6 \in [Calls -> RunRecords]
    BY DEF M!IInv, M!TypeOK, RunRecords
<1>1. CASE M!Repay
    BY <1>t, <1>1 DEF M!Repay, M!TypeOK
<1>2. CASE M!Liquidate
    BY <1>t, <1>2 DEF M!Liquidate, M!TypeOK
<1>3. CASE M!SetAddress
    BY <1>t, <1>3 DEF M!SetAddress, M!TypeOK
<1>4. ASSUME NEW c \in Calls, NEW script \in BOOLEAN, M!FindAffected(c, script)
      PROVE  M!TypeOK'
    <2>1. s6' \in [Calls -> RunRecords]
        BY <1>t, <1>4, RunMoves DEF M!FindAffected
    <2>2. QED
        BY <1>t, <1>4, <2>1 DEF M!FindAffected, M!TypeOK, RunRecords
<1>5. ASSUME NEW c \in Calls, M!RestoreOne(c)
      PROVE  M!TypeOK'
    <2>1. s6' \in [Calls -> RunRecords]
        BY <1>t, <1>5, RunMoves DEF M!RestoreOne
    <2>2. QED
        BY <1>t, <1>5, <2>1 DEF M!RestoreOne, M!TypeOK, RunRecords
<1>6. ASSUME NEW c \in Calls, M!RestoreEnds(c) \/ M!SendFails(c)
      PROVE  M!TypeOK'
    <2>1. s6' \in [Calls -> RunRecords]
        BY <1>t, <1>6, RunMoves DEF M!RestoreEnds, M!SendFails
    <2>2. QED
        BY <1>t, <1>6, <2>1 DEF M!RestoreEnds, M!SendFails, M!TypeOK, RunRecords
<1>7. ASSUME NEW c \in Calls, M!ReadForRelease(c) \/ M!ReadUnderLock(c)
      PROVE  M!TypeOK'
    <2>1. s6' \in [Calls -> RunRecords]
        BY <1>t, <1>7, RunMoves DEF M!ReadForRelease, M!ReadUnderLock
    <2>2. QED
        BY <1>t, <1>7, <2>1 DEF M!ReadForRelease, M!ReadUnderLock, M!TypeOK, RunRecords
<1>8. ASSUME NEW c \in Calls, M!TakeLock(c) \/ M!Unlock(c) \/ M!Stamp(c)
      PROVE  M!TypeOK'
    <2>1. s6' \in [Calls -> RunRecords]
        BY <1>t, <1>8, RunMoves DEF M!TakeLock, M!Unlock, M!Stamp
    <2>2. QED
        BY <1>t, <1>8, <2>1 DEF M!TakeLock, M!Unlock, M!Stamp, M!TypeOK, RunRecords
<1>9. ASSUME NEW c \in Calls, M!Send(c)
      PROVE  M!TypeOK'
    <2>1. s6' \in [Calls -> RunRecords]
        BY <1>t, <1>9, RunMoves DEF M!Send
    <2>2. s7' \in 0 .. MaxSends
        BY <1>t, <1>9, ServicesAssumption DEF ServicesAssumption, M!Send, M!TypeOK
    <2>3. s8' \subseteq {"moved", "undone", "beside", "unstamped"}
        <3>1. s8' = s8 \/ s8' = s8 \cup {"unstamped"}
            BY <1>9 DEF M!Send
        <3>2. QED
            BY <1>t, <3>1 DEF M!TypeOK
    <2>4. QED
        BY <1>t, <1>9, <2>1, <2>2, <2>3 DEF M!Send, M!TypeOK, RunRecords
<1>10. QED
    BY <1>1, <1>2, <1>3, <1>4, <1>5, <1>6, <1>7, <1>8, <1>9 DEF M!Next

\* A run that begins to release while none does finds nothing sent; until it
\* stamps or loses its payment it is the only one.
LEMMA RemedyOneRelease == M!IInv /\ M!Next => M!OneRelease'
<1> SUFFICES ASSUME M!IInv, M!Next
             PROVE  M!OneRelease'
    OBVIOUS
<1>t. s6 \in [Calls -> RunRecords] /\ s7 \in Nat /\ s4 \in BOOLEAN
    BY ServicesAssumption DEF ServicesAssumption, M!IInv, M!TypeOK, RunRecords
<1>o. M!OneRelease
    BY DEF M!IInv
<1>s. \A c : c \in M!Releasing <=> c \in Calls /\ s6[c].step \in {"send", "stamp"}
    BY DEF M!Releasing
<1>p. \A c : c \in (M!Releasing)' <=> c \in Calls /\ s6'[c].step \in {"send", "stamp"}
    BY DEF M!Releasing
<1>1. CASE M!Repay \/ M!Liquidate \/ M!SetAddress
    <2>1. UNCHANGED <<s4, s6, s7, s8>>
        BY <1>1 DEF M!Repay, M!Liquidate, M!SetAddress
    <2>2. (M!Releasing)' = M!Releasing
        BY <2>1 DEF M!Releasing
    <2>3. QED
        BY <1>o, <2>1, <2>2 DEF M!OneRelease, M!At
\* Beside the releases.
<1>b. ASSUME NEW c \in Calls, OtherRuns(c), s6'[c].step \notin {"send", "stamp"},
             s6[c].step \notin {"send", "stamp"}, s8 \subseteq s8', UNCHANGED <<s4, s7>>
      PROVE  M!OneRelease'
    <2>1. (M!Releasing)' = M!Releasing /\ \A d \in M!Releasing : s6'[d] = s6[d]
        BY <1>b DEF OtherRuns, M!Releasing
    <2>2. Calm' => Calm
        BY <1>b DEF Calm
    <2>3. QED
        BY <1>b, <1>o, <2>1, <2>2 DEF M!OneRelease, M!At, Calm
\* A release begins.
<1>r. ASSUME NEW c \in Calls, OtherRuns(c), s6'[c].step = "send", ~s4, UNCHANGED <<s4, s7>>,
             s8' = IF M!Releasing = {} THEN s8 ELSE s8 \cup {"beside"}
      PROVE  M!OneRelease'
    <2>1. CASE M!Releasing = {}
        <3>1. \A d \in (M!Releasing)' : d = c
            BY <1>r, <1>s, <1>p, <2>1 DEF OtherRuns
        <3>2. Calm => s7 = 0
            BY <1>r, <1>t, <1>o, <2>1 DEF M!OneRelease, Calm
        <3>3. QED
            BY <1>r, <2>1, <3>1, <3>2 DEF M!OneRelease, M!At, Calm
    <2>2. CASE M!Releasing # {}
        BY <1>r, <2>2 DEF M!OneRelease
    <2>3. QED
        BY <2>1, <2>2
\* A release ends, nothing sent by it, or stamped.
<1>e. ASSUME NEW c \in Calls, OtherRuns(c), s6'[c].step \notin {"send", "stamp"},
             s8' = s8, s7' = s7, (M!At(c, "send") /\ s4' = s4) \/ (M!At(c, "stamp") /\ s4' = TRUE)
      PROVE  M!OneRelease'
    <2>1. c \in M!Releasing
        BY <1>e, <1>s DEF M!At
    <2>2. Calm => \A d \in Calls \ {c} : d \notin M!Releasing
        BY <1>o, <2>1 DEF M!OneRelease, Calm
    <2>3. Calm => (M!Releasing)' = {}
        BY <1>e, <1>s, <1>p, <2>2 DEF OtherRuns
    <2>4. Calm => s7 <= 1 /\ (M!At(c, "send") => s7 = 0)
        BY <1>o, <2>1 DEF M!OneRelease, Calm
    <2>5. QED
        BY <1>e, <1>t, <2>3, <2>4 DEF M!OneRelease, Calm
<1>2. ASSUME NEW c \in Calls, NEW script \in BOOLEAN, M!FindAffected(c, script)
      PROVE  M!OneRelease'
    BY <1>2, <1>b, <1>t, RunMoves DEF M!FindAffected, M!At
<1>3. ASSUME NEW c \in Calls,
             M!RestoreOne(c) \/ M!RestoreEnds(c) \/ M!TakeLock(c) \/ M!Unlock(c)
      PROVE  M!OneRelease'
    <2>1. PICK step \in {"idle", "read"} :
              M!Begin(c, step, FALSE) \/ (M!End(c) /\ step = "idle")
        BY <1>3 DEF M!RestoreOne, M!RestoreEnds, M!TakeLock, M!Unlock
    <2>2. OtherRuns(c) /\ s6'[c].step = step
        BY <1>t, <2>1, RunMoves
    <2>3. s6[c].step \notin {"send", "stamp"} /\ s8 \subseteq s8' /\ UNCHANGED <<s4, s7>>
        BY <1>3 DEF M!RestoreOne, M!RestoreEnds, M!TakeLock, M!Unlock, M!At
    <2>4. QED
        BY <1>b, <2>2, <2>3
<1>4. ASSUME NEW c \in Calls, M!ReadForRelease(c)
      PROVE  M!OneRelease'
    BY <1>4, <1>r, <1>t, RunMoves DEF M!ReadForRelease, M!Releasable
<1>5. ASSUME NEW c \in Calls, M!ReadUnderLock(c)
      PROVE  M!OneRelease'
    <2>1. CASE s1 = "REPAID" /\ s3 /\ ~s4
        BY <1>5, <1>r, <1>t, <2>1, RunMoves DEF M!ReadUnderLock
    <2>2. CASE ~(s1 = "REPAID" /\ s3 /\ ~s4)
        BY <1>5, <1>b, <1>t, <2>2, RunMoves DEF M!ReadUnderLock, M!At
    <2>3. QED
        BY <2>1, <2>2
<1>6. ASSUME NEW c \in Calls, M!Send(c)
      PROVE  M!OneRelease'
    <2>1. c \in M!Releasing /\ s7' = s7 + 1 /\ s4' = s4 /\ s6[c].step = "send"
        BY <1>6, <1>s DEF M!Send, M!At
    <2>2. CASE M!Goto(c, "stamp") /\ s8' = s8
        <3>1. OtherRuns(c) /\ s6'[c].step = "stamp"
            BY <1>t, <2>2, RunMoves
        <3>2. Calm => s7 = 0 /\ \A d \in M!Releasing : d = c
            BY <1>o, <2>1 DEF M!OneRelease, M!At, Calm
        <3>3. Calm => \A d \in (M!Releasing)' : d = c
            BY <1>s, <1>p, <3>1, <3>2 DEF OtherRuns
        <3>4. c \in (M!Releasing)'
            BY <1>p, <3>1
        <3>5. QED
            BY <1>t, <2>1, <2>2, <3>1, <3>2, <3>3, <3>4 DEF M!OneRelease, M!At, Calm
    <2>3. CASE s8' = s8 \cup {"unstamped"}
        BY <2>3 DEF M!OneRelease
    <2>4. QED
        BY <1>6, <2>2, <2>3 DEF M!Send
<1>7. ASSUME NEW c \in Calls, M!SendFails(c) \/ M!Stamp(c)
      PROVE  M!OneRelease'
    <2>1. PICK step \in {"idle", "unlock"} : M!Goto(c, step) \/ (M!End(c) /\ step = "idle")
        BY <1>7 DEF M!SendFails, M!Stamp
    <2>2. OtherRuns(c) /\ s6'[c].step = step
        BY <1>t, <2>1, RunMoves
    <2>3. s6'[c].step \notin {"send", "stamp"}
        BY <2>2
    <2>4. s8' = s8 /\ s7' = s7 /\ ((M!At(c, "send") /\ s4' = s4) \/ (M!At(c, "stamp") /\ s4' = TRUE))
        BY <1>7 DEF M!SendFails, M!Stamp
    <2>5. QED
        BY <1>e, <2>2, <2>3, <2>4
<1>8. QED
    BY <1>1, <1>2, <1>3, <1>4, <1>5, <1>6, <1>7 DEF M!Next

\* What a run found to restore is restored or found again first by another, and
\* a loan leaves REPAID in no other way.
LEMMA RemedyFoundIsSo == M!IInv /\ M!Next => M!FoundIsSo'
<1> SUFFICES ASSUME M!IInv, M!Next
             PROVE  M!FoundIsSo'
    OBVIOUS
<1>t. s6 \in [Calls -> RunRecords] /\ s7 \in Nat
    BY ServicesAssumption DEF ServicesAssumption, M!IInv, M!TypeOK, RunRecords
<1>o. M!FoundIsSo
    BY DEF M!IInv
<1>s. \A c : c \in M!Releasing <=> c \in Calls /\ s6[c].step \in {"send", "stamp"}
    BY DEF M!Releasing
<1>p. \A c : c \in (M!Releasing)' <=> c \in Calls /\ s6'[c].step \in {"send", "stamp"}
    BY DEF M!Releasing
<1>1. CASE M!Repay \/ M!Liquidate \/ M!SetAddress
    <2>1. UNCHANGED <<s6, s7, s8>> /\ (M!Releasing)' = M!Releasing
        BY <1>1 DEF M!Repay, M!Liquidate, M!SetAddress, M!Releasing
    <2>2. QED
        BY <1>1, <1>o, <2>1 DEF M!Repay, M!Liquidate, M!SetAddress, M!FoundIsSo, M!At
\* Nothing is found, and a release goes on as one of a loan that is REPAID.
<1>g. ASSUME NEW c \in Calls, OtherRuns(c), s6'[c].step # "restore", UNCHANGED <<s1, s2>>,
             "moved" \notin s8' => "moved" \notin s8,
             "undone" \in s8' => "undone" \in s8,
             s6'[c].step \in {"send", "stamp"} => s1 = "REPAID" \/ c \in M!Releasing,
             s7' > 0 => s7 > 0 \/ c \in M!Releasing
      PROVE  M!FoundIsSo'
    <2>1. \A d \in Calls : s6'[d].step = "restore" => s6[d].step = "restore"
        BY <1>g DEF OtherRuns
    <2>2. (M!Releasing)' # {} => M!Releasing # {} \/ s1 = "REPAID"
        BY <1>g, <1>s, <1>p DEF OtherRuns
    <2>3. QED
        BY <1>g, <1>o, <2>1, <2>2 DEF M!FoundIsSo, M!At
<1>2. ASSUME NEW c \in Calls, NEW script \in BOOLEAN, M!FindAffected(c, script)
      PROVE  M!FoundIsSo'
    <2>1. OtherRuns(c) /\ s6'[c].step = "restore"
        BY <1>2, <1>t, RunMoves DEF M!FindAffected
    <2>2. (M!Releasing)' = M!Releasing
        BY <1>2, <2>1 DEF OtherRuns, M!Releasing, M!FindAffected, M!At
    <2>3. \A d \in Calls \ {c} : s6'[d] = s6[d]
        BY <2>1 DEF OtherRuns
    <2>4. UNCHANGED <<s1, s2, s7, s8>> /\ s1 = "LIQUIDATED" /\ s2 = "bad"
        BY <1>2 DEF M!FindAffected, M!Affected
    <2>5. QED
        BY <1>o, <2>2, <2>3, <2>4 DEF M!FoundIsSo, M!At
<1>3. ASSUME NEW c \in Calls, M!RestoreOne(c)
      PROVE  M!FoundIsSo'
    <2>1. OtherRuns(c) /\ s6'[c].step = "idle" /\ s6[c].step = "restore"
        BY <1>3, <1>t, RunMoves DEF M!RestoreOne, M!At
    <2>2. SUFFICES ASSUME "moved" \notin s8'
                   PROVE  /\ "undone" \notin s8'
                          /\ \A d \in Calls : s6'[d].step # "restore"
                          /\ (M!Releasing)' = {} /\ ~(s7' > 0)
        BY DEF M!FoundIsSo, M!At
    <2>3. "moved" \notin s8 /\ \A d \in Calls \ {c} : s6[d].step # "restore"
        BY <1>3, <2>2 DEF M!RestoreOne, M!At
    <2>4. s1 = "LIQUIDATED" /\ s2 = "bad" /\ "undone" \notin s8 /\ M!Releasing = {} /\ ~(s7 > 0)
        BY <1>o, <2>1, <2>3 DEF M!FoundIsSo, M!At
    <2>5. "undone" \notin s8' /\ s7' = s7
        BY <1>3, <2>4 DEF M!RestoreOne
    <2>6. (M!Releasing)' = {}
        BY <1>s, <1>p, <2>1, <2>4 DEF OtherRuns
    <2>7. \A d \in Calls : s6'[d].step # "restore"
        BY <2>1, <2>3 DEF OtherRuns
    <2>8. QED
        BY <2>4, <2>5, <2>6, <2>7
<1>4. ASSUME NEW c \in Calls,
             \/ M!RestoreEnds(c) \/ M!TakeLock(c) \/ M!Unlock(c)
             \/ M!SendFails(c) \/ M!Stamp(c)
      PROVE  M!FoundIsSo'
    <2>1. PICK step \in {"idle", "read", "unlock"} :
              \/ M!Begin(c, step, FALSE) \/ M!Goto(c, step)
              \/ M!End(c) /\ step = "idle"
        BY <1>4 DEF M!RestoreEnds, M!TakeLock, M!Unlock, M!SendFails, M!Stamp
    <2>2. OtherRuns(c) /\ s6'[c].step = step
        BY <1>t, <2>1, RunMoves
    <2>3. UNCHANGED <<s1, s2, s7, s8>>
        BY <1>4 DEF M!RestoreEnds, M!TakeLock, M!Unlock, M!SendFails, M!Stamp
    <2>4. QED
        BY <1>g, <2>2, <2>3
<1>5. ASSUME NEW c \in Calls, M!ReadForRelease(c) \/ M!ReadUnderLock(c)
      PROVE  M!FoundIsSo'
    <2>1. PICK step \in {"send", "unlock"} : M!Begin(c, step, TRUE) \/ M!Goto(c, step)
        BY <1>5 DEF M!ReadForRelease, M!ReadUnderLock
    <2>2. OtherRuns(c) /\ s6'[c].step = step
        BY <1>t, <2>1, RunMoves
    <2>3. UNCHANGED <<s1, s2, s7>> /\ s8' \in {s8, s8 \cup {"beside"}}
        BY <1>5 DEF M!ReadForRelease, M!ReadUnderLock
    <2>4. s6'[c].step = "send" => s1 = "REPAID"
        <3>1. CASE M!ReadForRelease(c)
            BY <3>1 DEF M!ReadForRelease, M!Releasable
        <3>2. CASE M!ReadUnderLock(c) /\ M!Goto(c, "unlock")
            BY <1>t, <3>2, RunMoves
        <3>3. QED
            BY <1>5, <3>1, <3>2 DEF M!ReadUnderLock
    <2>5. QED
        BY <1>g, <2>2, <2>3, <2>4
<1>6. ASSUME NEW c \in Calls, M!Send(c)
      PROVE  M!FoundIsSo'
    <2>1. PICK step \in {"stamp", "idle", "unlock"} : M!Goto(c, step) \/ (M!End(c) /\ step = "idle")
        BY <1>6 DEF M!Send
    <2>2. OtherRuns(c) /\ s6'[c].step = step
        BY <1>t, <2>1, RunMoves
    <2>3. UNCHANGED <<s1, s2>> /\ s8' \in {s8, s8 \cup {"unstamped"}} /\ c \in M!Releasing
        BY <1>6, <1>s DEF M!Send, M!At
    <2>4. QED
        BY <1>g, <2>2, <2>3
<1>7. QED
    BY <1>1, <1>2, <1>3, <1>4, <1>5, <1>6 DEF M!Next

\* What ops does by hand keeps the invariant.
LEMMA RemedyNext == M!IInv /\ M!Next => M!IInv'
BY RemedyTypes, RemedyOneRelease, RemedyFoundIsSo DEF M!IInv

\* It implies what is promised of it.
LEMMA RemedyPromise == M!IInv => M!RemediesHold
<1> SUFFICES ASSUME M!IInv
             PROVE  M!SentOnce /\ M!RestoresWhatWasSeized
    BY DEF M!RemediesHold
<1>1. s7 \in Nat
    BY ServicesAssumption DEF ServicesAssumption, M!IInv, M!TypeOK
<1>2. M!SentOnce
    BY <1>1 DEF M!IInv, M!OneRelease, M!SentOnce
<1>3. M!RestoresWhatWasSeized
    BY DEF M!IInv, M!FoundIsSo, M!RestoresWhatWasSeized
<1>4. QED
    BY <1>2, <1>3

-----------------------------------------------------------------------------
(* Replay: s1 order, s2 unsigned, s3 loan, s4 logRows, s5 logged, s6       *)
(* inflow, s7 job, s8 credits, s9 trusted, s10 swallowed                   *)

\* What one job knows, as JobsAreTrue says it of all.
JobIsTrue(c) ==
    /\ s7[c].step \in {"requery", "persist", "credit"} => s1.ours
    /\ s7[c].step = "store" =>
          s7[c].why = "nobody" \/ (s7[c].why \in {"unmatched", "untrusted"} /\ s1.ours)
    /\ s7[c].step \in {"persist", "credit"} =>
          \/ s7[c].why = "books" /\ s1.books = "settled"
          \/ s7[c].why = "signature" /\ s1.signed
          \/ s7[c].why = "operator"
    /\ s7[c].step = "outcome" =>
          /\ s7[c].why \in R!Details
          /\ s7[c].why = "PROCESSED" => s6 = "matched" \/ s10

\* A job's step moves that job alone.
OtherJobs(c) == \A d \in Calls \ {c} : s7'[d] = s7[d]

\* The steps of a job, of a delivery or of the script.
JobSteps(c) ==
    \/ R!RunScript(c, TRUE) \/ R!RunScript(c, FALSE)
    \/ R!Receive(c) \/ R!Verify(c) \/ R!Outcome(c) \/ R!Check(c) \/ R!Select(c) \/ R!Store(c)
    \/ R!Requery(c) \/ R!Persist(c) \/ R!Credit(c) \/ R!CreditNoOp(c) \/ R!CreditThrows(c)

\* And the others.
BesidesJobs == R!Prune \/ \E l \in R!Loans : R!Apply(l) \/ R!LoanMoves(l)

\* There are no others.
LEMMA ReplaySteps == R!Next <=> BesidesJobs \/ \E c \in Calls : JobSteps(c)
BY DEF R!Next, BesidesJobs, JobSteps

\* JobIsTrue is JobsAreTrue, one job at a time.
LEMMA JobByJob == R!JobsAreTrue <=> \A c \in Calls : JobIsTrue(c)
BY DEF R!JobsAreTrue, R!At, JobIsTrue

\* A job that waits is a job.
LEMMA IdleIsAJob ==
    /\ R!Idle \in R!Jobs
    /\ R!Idle = [step |-> "idle", script |-> FALSE, row |-> 0, left |-> {}, loan |-> 0,
                 skip |-> FALSE, why |-> "none"]
BY ServicesAssumption DEF ServicesAssumption, R!Idle, R!Jobs, R!Whys, R!Loans

\* The jobs, whatever becomes of one of them.
LEMMA JobMoves ==
    ASSUME s7 \in [Calls -> R!Jobs], NEW c \in Calls, NEW j \in R!Jobs,
           s7' = [s7 EXCEPT ![c] = j]
    PROVE  s7' \in [Calls -> R!Jobs] /\ OtherJobs(c) /\ s7'[c] = j
BY DEF OtherJobs

\* A job goes on as it was.
LEMMA JobGoto ==
    ASSUME s7 \in [Calls -> R!Jobs], NEW c \in Calls,
           NEW step \in {"idle", "verify", "check", "select", "requery", "store", "persist",
                         "credit", "outcome"},
           R!Goto(c, step)
    PROVE  /\ s7' \in [Calls -> R!Jobs] /\ OtherJobs(c)
           /\ s7'[c].step = step /\ s7'[c].why = s7[c].why
<1> DEFINE j == [s7[c] EXCEPT !.step = step]
<1>1. s7[c] \in R!Jobs
    OBVIOUS
<1>2. j \in R!Jobs /\ j.step = step /\ j.why = s7[c].why
    BY <1>1 DEF R!Jobs
<1>3. s7' = [s7 EXCEPT ![c] = j]
    BY DEF R!Goto
<1> HIDE DEF j
<1>4. QED
    BY <1>2, <1>3, JobMoves

\* A job is done: a delivery has its outcome to log, the script its next row.
LEMMA JobFinish ==
    ASSUME s7 \in [Calls -> R!Jobs], NEW c \in Calls, NEW detail \in R!Details,
           R!Finish(c, detail)
    PROVE  /\ s7' \in [Calls -> R!Jobs] /\ OtherJobs(c)
           /\ \/ s7'[c].step \in {"idle", "check"}
              \/ s7'[c].step = "outcome" /\ s7'[c].why = detail
<1>1. s7[c] \in R!Jobs
    OBVIOUS
<1>2. CASE s7[c].script /\ s7[c].left = {}
    <2>1. s7' = [s7 EXCEPT ![c] = R!Idle]
        BY <1>2 DEF R!Finish
    <2>2. QED
        BY <2>1, IdleIsAJob, JobMoves
<1>3. CASE s7[c].script /\ s7[c].left # {}
    <2> DEFINE j == [R!Idle EXCEPT !.step = "check", !.script = TRUE, !.skip = s7[c].skip,
                                   !.left = s7[c].left]
    <2>1. s7' = [s7 EXCEPT ![c] = j]
        BY <1>3 DEF R!Finish
    <2>2. j \in R!Jobs /\ j.step = "check"
        BY <1>1, IdleIsAJob DEF R!Jobs
    <2> HIDE DEF j
    <2>3. QED
        BY <2>1, <2>2, JobMoves
<1>4. CASE ~s7[c].script
    <2> DEFINE j == [R!Idle EXCEPT !.step = "outcome", !.row = s7[c].row, !.why = detail]
    <2>1. s7' = [s7 EXCEPT ![c] = j]
        BY <1>4 DEF R!Finish
    <2>2. j \in R!Jobs /\ j.step = "outcome" /\ j.why = detail
        BY <1>1, IdleIsAJob DEF R!Jobs, R!Whys
    <2> HIDE DEF j
    <2>3. QED
        BY <2>1, <2>2, JobMoves
<1>5. QED
    BY <1>2, <1>3, <1>4

\* A job's step leaves the jobs well formed, and what that job knows is so.
LEMMA ReplayJob ==
    ASSUME R!IInv, NEW c \in Calls, JobSteps(c)
    PROVE  s7' \in [Calls -> R!Jobs] /\ OtherJobs(c) /\ JobIsTrue(c)'
<1>t. s7 \in [Calls -> R!Jobs] /\ s7[c] \in R!Jobs /\ s4 \subseteq [n : 1 .. MaxLog, detail : R!Details]
    BY DEF R!IInv, R!TypeOK
<1>u. JobIsTrue(c)
    BY JobByJob DEF R!IInv
<1>d. /\ \A w \in {"SIGNATURE_INVALID", "orderStatus", "IGNORED", "DEFERRED", "ERROR"} :
            w \in R!Details /\ w # "PROCESSED"
      /\ "PROCESSED" \in R!Details
    BY DEF R!Details
\* A job that knows nothing is right.
<1>n. ASSUME s7'[c].step \in {"idle", "verify", "check", "select"}
      PROVE  JobIsTrue(c)'
    BY <1>n DEF JobIsTrue
\* A delivery that ends, and not as processed.
<1>f. ASSUME NEW w \in {"SIGNATURE_INVALID", "orderStatus", "IGNORED", "DEFERRED", "ERROR"},
             R!Finish(c, w)
      PROVE  s7' \in [Calls -> R!Jobs] /\ OtherJobs(c) /\ JobIsTrue(c)'
    <2>1. /\ s7' \in [Calls -> R!Jobs] /\ OtherJobs(c)
          /\ \/ s7'[c].step \in {"idle", "check"}
             \/ s7'[c].step = "outcome" /\ s7'[c].why = w
        BY <1>t, <1>d, <1>f, JobFinish
    <2>2. QED
        BY <1>d, <2>1 DEF JobIsTrue
\* The script finds its candidates.
<1>1. ASSUME NEW skip \in BOOLEAN, R!RunScript(c, skip)
      PROVE  s7' \in [Calls -> R!Jobs] /\ OtherJobs(c) /\ JobIsTrue(c)'
    <2> DEFINE j == [R!Idle EXCEPT !.step = "check", !.script = TRUE, !.skip = skip,
                                   !.left = R!Candidates]
    <2>1. R!Candidates \subseteq 1 .. MaxLog
        BY <1>t DEF R!Candidates
    <2>2. j \in R!Jobs /\ j.step = "check"
        BY <2>1, IdleIsAJob DEF R!Jobs
    <2>3. s7' = [s7 EXCEPT ![c] = j]
        BY <1>1 DEF R!RunScript
    <2> HIDE DEF j
    <2>4. QED
        BY <1>t, <1>n, <2>2, <2>3, JobMoves
<1>2. CASE R!Receive(c)
    <2>1. CASE R!Goto(c, "verify")
        BY <1>t, <1>n, <2>1, JobGoto
    <2>2. CASE s5 < MaxLog /\ s7' = [s7 EXCEPT ![c] = [R!Idle EXCEPT !.step = "verify", !.row = s5 + 1]]
        <3> DEFINE j == [R!Idle EXCEPT !.step = "verify", !.row = s5 + 1]
        <3>1. s5 + 1 \in 0 .. MaxLog
            BY <2>2, ServicesAssumption DEF ServicesAssumption, R!IInv, R!TypeOK
        <3>2. j \in R!Jobs /\ j.step = "verify"
            BY <3>1, IdleIsAJob DEF R!Jobs
        <3>3. s7' = [s7 EXCEPT ![c] = j]
            BY <2>2
        <3> HIDE DEF j
        <3>4. QED
            BY <1>t, <1>n, <3>2, <3>3, JobMoves
    <2>3. QED
        BY <1>2, <2>1, <2>2 DEF R!Receive
<1>3. CASE R!Verify(c)
    <2>1. CASE R!Goto(c, "select")
        BY <1>t, <1>n, <2>1, JobGoto
    <2>2. QED
        BY <1>3, <1>f, <2>1 DEF R!Verify
<1>4. CASE R!Outcome(c)
    <2>1. s7' = [s7 EXCEPT ![c] = R!Idle]
        BY <1>4 DEF R!Outcome
    <2>2. QED
        BY <1>t, <1>n, <2>1, IdleIsAJob, JobMoves
<1>5. CASE R!Check(c)
    <2> DEFINE n    == CHOOSE k \in s7[c].left : \A m \in s7[c].left : k <= m
               rest == s7[c].left \ {n}
    <2>1. s7[c].step = "check" /\ rest \subseteq 1 .. MaxLog
        BY <1>t, <1>5 DEF R!Check, R!At, R!Jobs
    <2>2. \/ s7' = [s7 EXCEPT ![c].step = "select", ![c].left = rest]
          \/ s7' = [s7 EXCEPT ![c] = IF rest = {} THEN R!Idle ELSE [s7[c] EXCEPT !.left = rest]]
        BY <1>5 DEF R!Check
    <2> HIDE DEF n, rest
    <2>3. CASE s7' = [s7 EXCEPT ![c].step = "select", ![c].left = rest]
        <3> DEFINE j == [s7[c] EXCEPT !.step = "select", !.left = rest]
        <3>1. s7' = [s7 EXCEPT ![c] = j]
            BY <1>t, <2>3
        <3>2. j \in R!Jobs /\ j.step = "select"
            BY <1>t, <2>1 DEF R!Jobs
        <3> HIDE DEF j
        <3>3. QED
            BY <1>t, <1>n, <3>1, <3>2, JobMoves
    <2>4. CASE /\ s7' = [s7 EXCEPT ![c] = IF rest = {} THEN R!Idle ELSE [s7[c] EXCEPT !.left = rest]]
               /\ rest # {}
        <3> DEFINE j == [s7[c] EXCEPT !.left = rest]
        <3>1. s7' = [s7 EXCEPT ![c] = j]
            BY <2>4
        <3>2. j \in R!Jobs /\ j.step = "check"
            BY <1>t, <2>1 DEF R!Jobs
        <3> HIDE DEF j
        <3>3. QED
            BY <1>t, <1>n, <3>1, <3>2, JobMoves
    <2>5. CASE /\ s7' = [s7 EXCEPT ![c] = IF rest = {} THEN R!Idle ELSE [s7[c] EXCEPT !.left = rest]]
               /\ rest = {}
        <3>1. s7' = [s7 EXCEPT ![c] = R!Idle]
            BY <2>5
        <3>2. QED
            BY <1>t, <1>n, <3>1, IdleIsAJob, JobMoves
    <2>6. QED
        BY <2>2, <2>3, <2>4, <2>5
\* To store, with the reason why.
<1>s. ASSUME NEW step \in {"store", "persist"}, NEW w \in R!Whys,
             s7' = [s7 EXCEPT ![c].step = step, ![c].why = w]
      PROVE  /\ s7' \in [Calls -> R!Jobs] /\ OtherJobs(c)
             /\ s7'[c].step = step /\ s7'[c].why = w
    <2> DEFINE j == [s7[c] EXCEPT !.step = step, !.why = w]
    <2>1. s7' = [s7 EXCEPT ![c] = j]
        BY <1>t, <1>s
    <2>2. j \in R!Jobs /\ j.step = step /\ j.why = w
        BY <1>t DEF R!Jobs
    <2> HIDE DEF j
    <2>3. QED
        BY <1>t, <2>1, <2>2, JobMoves
<1>w. {"nobody", "unmatched", "untrusted", "books", "signature", "operator"} \subseteq R!Whys
    BY DEF R!Whys
<1>6. CASE R!Select(c)
    <2>1. CASE ~s1.ours /\ s7' = [s7 EXCEPT ![c].step = "store", ![c].why = "nobody"]
        <3>1. /\ s7' \in [Calls -> R!Jobs] /\ OtherJobs(c)
              /\ s7'[c].step = "store" /\ s7'[c].why = "nobody"
            BY <1>s, <1>w, <2>1
        <3>2. QED
            BY <3>1 DEF JobIsTrue
    <2>2. CASE s1.ours /\ s7' = [s7 EXCEPT ![c].step = "store", ![c].why = "unmatched"]
        <3>1. /\ s7' \in [Calls -> R!Jobs] /\ OtherJobs(c)
              /\ s7'[c].step = "store" /\ s7'[c].why = "unmatched"
            BY <1>s, <1>w, <2>2
        <3>2. s1' = s1
            BY <1>6 DEF R!Select, R!facts
        <3>3. QED
            BY <2>2, <3>1, <3>2 DEF JobIsTrue
    <2>3. ASSUME NEW l \in R!Loans, s1.ours, s7' = [s7 EXCEPT ![c].step = "requery", ![c].loan = l]
          PROVE  s7' \in [Calls -> R!Jobs] /\ OtherJobs(c) /\ JobIsTrue(c)'
        <3> DEFINE j == [s7[c] EXCEPT !.step = "requery", !.loan = l]
        <3>1. s7' = [s7 EXCEPT ![c] = j]
            BY <1>t, <2>3
        <3>2. j \in R!Jobs /\ j.step = "requery"
            BY <1>t DEF R!Jobs
        <3> HIDE DEF j
        <3>3. s7' \in [Calls -> R!Jobs] /\ OtherJobs(c) /\ s7'[c].step = "requery" /\ s1' = s1
            BY <1>t, <1>6, <3>1, <3>2, JobMoves DEF R!Select, R!facts
        <3>4. QED
            BY <2>3, <3>3 DEF JobIsTrue
    <2>4. CASE R!Finish(c, "IGNORED")
        BY <1>f, <2>4
    <2>5. s1.ours \in BOOLEAN
        BY DEF R!IInv, R!TypeOK, R!OrderFacts
    <2>6. QED
        BY <1>6, <2>1, <2>2, <2>3, <2>4, <2>5 DEF R!Select, R!Active
<1>7. CASE R!Store(c)
    BY <1>7, <1>f DEF R!Store
<1>8. CASE R!Requery(c)
    <2>1. s1' = s1 /\ s7[c].step = "requery" /\ s1.ours
        BY <1>8, <1>u DEF R!Requery, R!At, R!facts, JobIsTrue
    <2>2. ASSUME NEW w \in R!Reasons(c), s7' = [s7 EXCEPT ![c].step = "persist", ![c].why = w]
          PROVE  s7' \in [Calls -> R!Jobs] /\ OtherJobs(c) /\ JobIsTrue(c)'
        <3>1. w \in {"books", "signature", "operator"}
            BY <2>2 DEF R!Reasons
        <3>2. /\ s7' \in [Calls -> R!Jobs] /\ OtherJobs(c)
              /\ s7'[c].step = "persist" /\ s7'[c].why = w
            BY <1>s, <1>w, <2>2, <3>1
        <3>3. \/ w = "books" /\ s1.books = "settled"
              \/ w = "signature" /\ s1.signed
              \/ w = "operator"
            BY <2>2 DEF R!Reasons, R!SignatureOnly
        <3>4. QED
            BY <2>1, <3>2, <3>3 DEF JobIsTrue
    <2>3. CASE s7' = [s7 EXCEPT ![c].step = "store", ![c].why = "untrusted"]
        <3>1. /\ s7' \in [Calls -> R!Jobs] /\ OtherJobs(c)
              /\ s7'[c].step = "store" /\ s7'[c].why = "untrusted"
            BY <1>s, <1>w, <2>3
        <3>2. QED
            BY <2>1, <3>1 DEF JobIsTrue
    <2>4. CASE R!Finish(c, "IGNORED") \/ R!Finish(c, "DEFERRED")
        BY <1>f, <2>4
    <2>5. QED
        BY <1>8, <2>2, <2>3, <2>4 DEF R!Requery
<1>9. CASE R!Persist(c)
    <2>1. CASE R!Goto(c, "credit")
        <3>1. /\ s7' \in [Calls -> R!Jobs] /\ OtherJobs(c)
              /\ s7'[c].step = "credit" /\ s7'[c].why = s7[c].why
            BY <1>t, <2>1, JobGoto
        <3>2. s1' = s1 /\ s7[c].step = "persist"
            BY <1>9 DEF R!Persist, R!At, R!facts
        <3>3. QED
            BY <1>u, <3>1, <3>2 DEF JobIsTrue
    <2>2. CASE R!Finish(c, "IGNORED")
        BY <1>f, <2>2
    <2>3. QED
        BY <1>9, <2>1, <2>2 DEF R!Persist
<1>10. CASE R!Credit(c) \/ R!CreditNoOp(c)
    <2>1. R!Finish(c, "PROCESSED") /\ (s6' = "matched" \/ s10')
        BY <1>10 DEF R!Credit, R!CreditNoOp
    <2>2. /\ s7' \in [Calls -> R!Jobs] /\ OtherJobs(c)
          /\ \/ s7'[c].step \in {"idle", "check"}
             \/ s7'[c].step = "outcome" /\ s7'[c].why = "PROCESSED"
        BY <1>t, <1>d, <2>1, JobFinish
    <2>3. QED
        BY <1>d, <2>1, <2>2 DEF JobIsTrue
<1>11. CASE R!CreditThrows(c)
    <2>1. R!Finish(c, "IGNORED") \/ R!Finish(c, "ERROR")
        BY <1>11 DEF R!CreditThrows
    <2>2. QED
        BY <1>f, <2>1
<1>12. QED
    BY <1>1, <1>2, <1>3, <1>4, <1>5, <1>6, <1>7, <1>8, <1>9, <1>10, <1>11 DEF JobSteps

\* Replay counts as everybody does.
LEMMA ReplayCounts == R!Cardinality(Calls) \in Nat
<1>1. R!Cardinality(Calls) = Cardinality(Calls)
    BY DEF R!Cardinality, Cardinality
<1>2. QED
    BY <1>1, CallsSize

\* The order stays what it is; an inflow that is matched stays so, and a credit
\* that was swallowed is not forgotten.
LEMMA ReplayKeeps ==
    ASSUME R!IInv, R!Next
    PROVE  /\ s1' = s1 /\ s2' = s2
           /\ s6 = "matched" => s6' = "matched"
           /\ s10 => s10'
<1>1. CASE BesidesJobs
    BY <1>1 DEF BesidesJobs, R!Prune, R!Apply, R!LoanMoves, R!facts, R!ghosts
<1>2. ASSUME NEW c \in Calls, JobSteps(c)
      PROVE  /\ s1' = s1 /\ s2' = s2
             /\ s6 = "matched" => s6' = "matched"
             /\ s10 => s10'
    BY <1>2 DEF JobSteps, R!RunScript, R!Receive, R!Verify, R!Outcome, R!Check, R!Select,
                R!Store, R!Requery, R!Persist, R!Credit, R!CreditNoOp, R!CreditThrows,
                R!facts, R!ghosts
<1>3. QED
    BY <1>1, <1>2, ReplaySteps

\* What a job knows stays so while others work.
LEMMA ReplayJobs == R!IInv /\ R!Next => s7' \in [Calls -> R!Jobs] /\ R!JobsAreTrue'
<1> SUFFICES ASSUME R!IInv, R!Next
             PROVE  s7' \in [Calls -> R!Jobs] /\ \A d \in Calls : JobIsTrue(d)'
    BY DEF R!JobsAreTrue, R!At, JobIsTrue
<1>t. s7 \in [Calls -> R!Jobs]
    BY DEF R!IInv, R!TypeOK
<1>u. \A d \in Calls : JobIsTrue(d)
    BY JobByJob DEF R!IInv
<1>1. ASSUME NEW d \in Calls, s7'[d] = s7[d]
      PROVE  JobIsTrue(d)'
    BY <1>1, <1>u, ReplayKeeps DEF JobIsTrue
<1>2. CASE BesidesJobs
    <2>1. s7' = s7
        BY <1>2 DEF BesidesJobs, R!Prune, R!Apply, R!LoanMoves
    <2>2. QED
        BY <1>1, <1>t, <2>1
<1>3. ASSUME NEW c \in Calls, JobSteps(c)
      PROVE  s7' \in [Calls -> R!Jobs] /\ \A d \in Calls : JobIsTrue(d)'
    BY <1>1, <1>3, ReplayJob DEF OtherJobs
<1>4. QED
    BY <1>2, <1>3, ReplaySteps

\* The credits, the inflow and why a credit was given, step by step: one credit
\* and the inflow is matched by it.
LEMMA ReplayCredits ==
    ASSUME R!IInv, R!Next
    PROVE  /\ s6' \in {"none", "unmatched", "untrusted", "nobody", "matched"}
           /\ s8' \in 0 .. R!Cardinality(Calls) + 1
           /\ s9' \subseteq {"books", "signature", "operator", "customer"}
           /\ s10' \in BOOLEAN
           /\ R!OrderCreditedOnce' /\ R!CreditsAreTrusted' /\ R!InflowIsOurs'
<1>k. s1' = s1
    BY ReplayKeeps
<1>t. /\ s6 \in {"none", "unmatched", "untrusted", "nobody", "matched"}
      /\ s8 \in {0, 1}
      /\ s9 \subseteq {"books", "signature", "operator", "customer"}
      /\ s10 \in BOOLEAN
    BY ReplayCounts DEF R!IInv, R!TypeOK, R!ReplayHolds, R!OrderCreditedOnce
<1>c. 0 \in 0 .. R!Cardinality(Calls) + 1 /\ 1 \in 0 .. R!Cardinality(Calls) + 1
    BY ReplayCounts
<1>o. /\ s8 = 1 <=> s6 = "matched"
      /\ R!CreditsAreTrusted
      /\ s6 \in {"unmatched", "matched"} => s1.ours
    BY DEF R!IInv, R!ReplayHolds, R!OrderCreditedOnce, R!InflowIsOurs
<1>u. \A c \in Calls : JobIsTrue(c)
    BY JobByJob DEF R!IInv
\* Nothing is credited, and the inflow is stored at most.
<1>s. ASSUME s8' = s8, s9' = s9, s10' \in BOOLEAN,
             \/ s6' = s6
             \/ s6 = "none" /\ s6' \in {"unmatched", "untrusted"} /\ s1.ours
             \/ s6 = "none" /\ s6' = "nobody"
      PROVE  /\ s6' \in {"none", "unmatched", "untrusted", "nobody", "matched"}
             /\ s8' \in 0 .. R!Cardinality(Calls) + 1
             /\ s9' \subseteq {"books", "signature", "operator", "customer"}
             /\ s10' \in BOOLEAN
             /\ R!OrderCreditedOnce' /\ R!CreditsAreTrusted' /\ R!InflowIsOurs'
    BY <1>k, <1>t, <1>c, <1>o, <1>s
       DEF R!OrderCreditedOnce, R!CreditsAreTrusted, R!InflowIsOurs
\* The first credit.
<1>g. ASSUME NEW w \in {"books", "signature", "operator", "customer"},
             s8 = 0, s8' = s8 + 1, s9' = s9 \cup {w}, s10' = s10, s6' = "matched", s1.ours,
             w = "books" => s1.books = "settled", w = "signature" => s1.signed
      PROVE  /\ s6' \in {"none", "unmatched", "untrusted", "nobody", "matched"}
             /\ s8' \in 0 .. R!Cardinality(Calls) + 1
             /\ s9' \subseteq {"books", "signature", "operator", "customer"}
             /\ s10' \in BOOLEAN
             /\ R!OrderCreditedOnce' /\ R!CreditsAreTrusted' /\ R!InflowIsOurs'
    <2>1. s8' = 1
        BY <1>g
    <2>2. s9' \subseteq {"books", "signature", "operator", "customer"}
        BY <1>t, <1>g
    <2>3. R!CreditsAreTrusted'
        BY <1>k, <1>o, <1>g DEF R!CreditsAreTrusted
    <2>4. QED
        BY <1>k, <1>t, <1>c, <1>g, <2>1, <2>2, <2>3 DEF R!OrderCreditedOnce, R!InflowIsOurs
<1>1. CASE BesidesJobs
    <2>1. CASE R!Prune \/ \E l \in R!Loans : R!LoanMoves(l)
        BY <1>t, <1>s, <2>1 DEF R!Prune, R!LoanMoves, R!ghosts
    <2>2. ASSUME NEW l \in R!Loans, R!Apply(l)
          PROVE  /\ s8 = 0 /\ s8' = s8 + 1 /\ s9' = s9 \cup {"customer"} /\ s10' = s10
                 /\ s6' = "matched" /\ s1.ours
        BY <1>o, <2>2 DEF R!Apply, R!RepaymentFree
    <2>3. QED
        BY <1>1, <1>g, <2>1, <2>2 DEF BesidesJobs
<1>2. ASSUME NEW c \in Calls, JobSteps(c)
      PROVE  /\ s6' \in {"none", "unmatched", "untrusted", "nobody", "matched"}
             /\ s8' \in 0 .. R!Cardinality(Calls) + 1
             /\ s9' \subseteq {"books", "signature", "operator", "customer"}
             /\ s10' \in BOOLEAN
             /\ R!OrderCreditedOnce' /\ R!CreditsAreTrusted' /\ R!InflowIsOurs'
    <2>1. CASE \/ R!RunScript(c, TRUE) \/ R!RunScript(c, FALSE)
               \/ R!Receive(c) \/ R!Verify(c) \/ R!Outcome(c) \/ R!Check(c) \/ R!Select(c)
               \/ R!Requery(c) \/ R!CreditNoOp(c) \/ R!CreditThrows(c)
        <3>1. s6' = s6 /\ s8' = s8 /\ s9' = s9 /\ s10' \in {s10, TRUE}
            BY <2>1 DEF R!RunScript, R!Receive, R!Verify, R!Outcome, R!Check, R!Select,
                        R!Requery, R!CreditNoOp, R!CreditThrows, R!ghosts
        <3>2. QED
            BY <1>t, <1>s, <3>1
    <2>2. CASE R!Store(c)
        <3>1. /\ s8' = s8 /\ s9' = s9 /\ s10' = s10 /\ s7[c].step = "store"
              /\ s6' = s6 \/ (s6 = "none" /\ s6' = s7[c].why)
            BY <2>2 DEF R!Store, R!At, R!ghosts
        <3>2. \/ s7[c].why = "nobody"
              \/ s7[c].why \in {"unmatched", "untrusted"} /\ s1.ours
            BY <1>u, <3>1 DEF JobIsTrue
        <3>3. QED
            BY <1>t, <1>s, <3>1, <3>2
    <2>3. CASE R!Persist(c)
        <3>1. /\ s8' = s8 /\ s9' = s9 /\ s10' = s10 /\ s7[c].step = "persist"
              /\ s6' = s6 \/ (s6 = "none" /\ s6' = "unmatched")
            BY <2>3 DEF R!Persist, R!At, R!ghosts
        <3>2. s1.ours
            BY <1>u, <3>1 DEF JobIsTrue
        <3>3. QED
            BY <1>t, <1>s, <3>1, <3>2
    <2>4. CASE R!Credit(c)
        <3>1. /\ s8 = 0 /\ s8' = s8 + 1 /\ s9' = s9 \cup {s7[c].why} /\ s10' = s10
              /\ s6' = "matched" /\ s7[c].step = "credit"
            BY <2>4 DEF R!Credit, R!RepaymentFree, R!At
        <3>2. /\ s1.ours
              /\ \/ s7[c].why = "books" /\ s1.books = "settled"
                 \/ s7[c].why = "signature" /\ s1.signed
                 \/ s7[c].why = "operator"
            BY <1>u, <3>1 DEF JobIsTrue
        <3>3. QED
            BY <1>g, <3>1, <3>2
    <2>5. QED
        BY <1>2, <2>1, <2>2, <2>3, <2>4 DEF JobSteps
<1>3. QED
    BY <1>1, <1>2, ReplaySteps

\* The log and the loans: a row is said to be processed by a delivery that
\* knows it.
LEMMA ReplayLog ==
    ASSUME R!IInv, R!Next
    PROVE  /\ s3' \in [R!Loans -> {"none", "ACTIVE", "REPAID", "LIQUIDATED"}]
           /\ s4' \subseteq [n : 1 .. MaxLog, detail : R!Details]
           /\ s5' \in 0 .. MaxLog
           /\ R!LogIsTrue'
<1>k. (s6 = "matched" \/ s10) => (s6' = "matched" \/ s10')
    BY ReplayKeeps
<1>t. /\ s3 \in [R!Loans -> {"none", "ACTIVE", "REPAID", "LIQUIDATED"}]
      /\ s4 \subseteq [n : 1 .. MaxLog, detail : R!Details]
      /\ s5 \in 0 .. MaxLog
      /\ s7 \in [Calls -> R!Jobs]
    BY DEF R!IInv, R!TypeOK
<1>o. R!LogIsTrue
    BY DEF R!IInv, R!ReplayHolds
\* No row is new.
<1>r. ASSUME s4' \subseteq s4
      PROVE  s4' \subseteq [n : 1 .. MaxLog, detail : R!Details] /\ R!LogIsTrue'
    BY <1>k, <1>t, <1>o, <1>r DEF R!LogIsTrue
<1>1. CASE BesidesJobs
    <2>1. CASE R!Prune
        BY <1>t, <1>r, <2>1 DEF R!Prune
    <2>2. ASSUME NEW l \in R!Loans, R!Apply(l) \/ R!LoanMoves(l)
          PROVE  /\ s3' \in [R!Loans -> {"none", "ACTIVE", "REPAID", "LIQUIDATED"}]
                 /\ s4' = s4 /\ s5' = s5
        BY <1>t, <2>2 DEF R!Apply, R!LoanMoves, R!logVars
    <2>3. QED
        BY <1>1, <1>t, <1>r, <2>1, <2>2 DEF BesidesJobs
<1>2. ASSUME NEW c \in Calls, JobSteps(c)
      PROVE  /\ s3' \in [R!Loans -> {"none", "ACTIVE", "REPAID", "LIQUIDATED"}]
             /\ s4' \subseteq [n : 1 .. MaxLog, detail : R!Details]
             /\ s5' \in 0 .. MaxLog
             /\ R!LogIsTrue'
    <2>1. CASE \/ R!RunScript(c, TRUE) \/ R!RunScript(c, FALSE)
               \/ R!Verify(c) \/ R!Check(c) \/ R!Select(c) \/ R!Store(c)
               \/ R!Requery(c) \/ R!Persist(c) \/ R!CreditNoOp(c) \/ R!CreditThrows(c)
        <3>1. s3' = s3 /\ s4' = s4 /\ s5' = s5
            BY <2>1 DEF R!RunScript, R!Verify, R!Check, R!Select, R!Store, R!Requery,
                        R!Persist, R!CreditNoOp, R!CreditThrows, R!logVars
        <3>2. QED
            BY <1>t, <1>r, <3>1
    <2>2. CASE R!Credit(c)
        <3>1. s4' = s4 /\ s5' = s5 /\ \E s \in {"ACTIVE", "REPAID"} : s3' = [s3 EXCEPT ![s7[c].loan] = s]
            BY <2>2 DEF R!Credit, R!logVars
        <3>2. QED
            BY <1>t, <1>r, <3>1
    <2>3. CASE R!Receive(c)
        <3>1. CASE s4' = s4 /\ s5' = s5
            BY <1>t, <1>r, <2>3, <3>1 DEF R!Receive
        <3>2. CASE /\ s5 < MaxLog /\ s5' = s5 + 1
                   /\ s4' = s4 \cup {[n |-> s5 + 1, detail |-> "RECEIVED"]}
            <4>1. s5 + 1 \in 1 .. MaxLog /\ s5' \in 0 .. MaxLog
                BY <1>t, <3>2, ServicesAssumption DEF ServicesAssumption
            <4>2. "RECEIVED" \in R!Details /\ "RECEIVED" # "PROCESSED"
                BY DEF R!Details
            <4>3. s4' \subseteq [n : 1 .. MaxLog, detail : R!Details]
                BY <1>t, <3>2, <4>1, <4>2
            <4>4. \A r \in s4' : r.detail = "PROCESSED" => r \in s4
                BY <3>2
            <4>5. QED
                BY <1>k, <1>t, <1>o, <2>3, <4>1, <4>3, <4>4 DEF R!LogIsTrue, R!Receive
        <3>3. QED
            BY <2>3, <3>1, <3>2 DEF R!Receive, R!logVars
    <2>4. CASE R!Outcome(c)
        <3> DEFINE n == s7[c].row
                   w == s7[c].why
        <3>1. /\ s4' = {IF r.n = n THEN [r EXCEPT !.detail = w] ELSE r : r \in s4}
              /\ s3' = s3 /\ s5' = s5 /\ s7[c].step = "outcome"
            BY <2>4 DEF R!Outcome, R!Log, R!At
        <3>2. w \in R!Details /\ (w = "PROCESSED" => s6 = "matched" \/ s10)
            BY <3>1, JobByJob DEF R!IInv, JobIsTrue
        <3> HIDE DEF n, w
        <3>3. ASSUME NEW r \in s4
              PROVE  /\ [r EXCEPT !.detail = w] \in [n : 1 .. MaxLog, detail : R!Details]
                     /\ [r EXCEPT !.detail = w].detail = w
            BY <1>t, <3>2
        <3>4. ASSUME NEW q \in s4'
              PROVE  /\ q \in [n : 1 .. MaxLog, detail : R!Details]
                     /\ q.detail = "PROCESSED" => s6 = "matched" \/ s10
            <4>1. PICK r \in s4 : q = IF r.n = n THEN [r EXCEPT !.detail = w] ELSE r
                BY <3>1
            <4>2. r.detail = "PROCESSED" => s6 = "matched" \/ s10
                BY <1>o DEF R!LogIsTrue
            <4>3. QED
                BY <1>t, <3>2, <3>3, <4>1, <4>2
        <3>5. QED
            BY <1>k, <1>t, <3>1, <3>4 DEF R!LogIsTrue
    <2>5. QED
        BY <1>2, <2>1, <2>2, <2>3, <2>4 DEF JobSteps
<1>3. QED
    BY <1>1, <1>2, ReplaySteps

\* The invariant of the webhook, its log and the script survives every step.
LEMMA ReplayNext == R!IInv /\ R!Next => R!IInv'
<1> SUFFICES ASSUME R!IInv, R!Next
             PROVE  R!IInv'
    OBVIOUS
<1>1. s1' = s1 /\ s2' = s2 /\ s1 \in R!OrderFacts /\ s2 \in BOOLEAN
    BY ReplayKeeps DEF R!IInv, R!TypeOK
<1>2. R!TypeOK'
    BY <1>1, ReplayJobs, ReplayCredits, ReplayLog DEF R!TypeOK
<1>3. QED
    BY <1>2, ReplayJobs, ReplayCredits, ReplayLog DEF R!IInv, R!ReplayHolds

\* An order of the kinds considered, of which an earlier version may have
\* dropped a delivery.
LEMMA ReplayInit == R!Init => R!IInv
<1> SUFFICES ASSUME R!Init
             PROVE  R!IInv
    OBVIOUS
<1>1. Orders \subseteq R!OrderFacts
    <2>1. Plain \in R!OrderFacts
        BY DEF Plain, R!OrderFacts
    <2>2. Hidden \in R!OrderFacts
        BY <2>1 DEF Hidden, R!OrderFacts
    <2>3. /\ [Hidden EXCEPT !.signed = FALSE] \in R!OrderFacts
          /\ [Plain EXCEPT !.books = "refuted"] \in R!OrderFacts
          /\ [Plain EXCEPT !.ours = FALSE] \in R!OrderFacts
          /\ [Plain EXCEPT !.small = TRUE] \in R!OrderFacts
          /\ [Plain EXCEPT !.success = FALSE] \in R!OrderFacts
        BY <2>1, <2>2 DEF R!OrderFacts
    <2>4. QED
        BY <2>1, <2>2, <2>3 DEF Orders
<1>2. /\ s1 \in R!OrderFacts /\ s2 \in BOOLEAN
      /\ s3 \in [R!Loans -> {"none", "ACTIVE", "REPAID", "LIQUIDATED"}]
    <2>1. s1 \in Orders /\ s2 = ~s1.signed /\ s3 \in [R!Loans -> {"none", "LIQUIDATED"}]
        BY DEF R!Init
    <2>2. QED
        BY <1>1, <2>1 DEF R!OrderFacts
<1>3. /\ s4 = {[n |-> k, detail |-> "orderStatus"] : k \in 1 .. s5}
      /\ s5 \in 0 .. 1 /\ s6 = "none" /\ s7 = [c \in Calls |-> R!Idle]
      /\ s8 = 0 /\ s9 = {} /\ s10 = FALSE
    BY DEF R!Init
<1>4. s4 \subseteq [n : 1 .. MaxLog, detail : R!Details] /\ s5 \in 0 .. MaxLog
    BY <1>3, ServicesAssumption DEF ServicesAssumption, R!Details
<1>5. \A r \in s4 : r.detail # "PROCESSED"
    BY <1>3
<1>6. R!TypeOK
    <2>1. s7 \in [Calls -> R!Jobs]
        BY <1>3, IdleIsAJob
    <2>2. /\ s8 \in 0 .. R!Cardinality(Calls) + 1
          /\ s9 \subseteq {"books", "signature", "operator", "customer"}
          /\ s10 \in BOOLEAN
        <3>1. s8 = 0 /\ s9 = {} /\ s10 = FALSE
            BY <1>3
        <3>2. s8 \in 0 .. R!Cardinality(Calls) + 1
            BY <3>1, ReplayCounts
        <3>3. QED
            BY <3>1, <3>2
    <2>3. s6 \in {"none", "unmatched", "untrusted", "nobody", "matched"}
        BY <1>3
    <2>4. QED
        BY <1>2, <1>4, <2>1, <2>2, <2>3 DEF R!TypeOK
<1>7. R!ReplayHolds /\ R!InflowIsOurs
    BY <1>3, <1>5 DEF R!ReplayHolds, R!OrderCreditedOnce, R!CreditsAreTrusted, R!LogIsTrue,
                      R!InflowIsOurs
<1>8. R!JobsAreTrue
    BY <1>3, IdleIsAJob DEF R!JobsAreTrue, R!At
<1>9. QED
    BY <1>6, <1>7, <1>8 DEF R!IInv

-----------------------------------------------------------------------------
(* Disbursement accounts: s1 accounts, s2 rows, s3 verified, s4 used, s5   *)
(* call, s6 raced                                                          *)

\* The accounts count as everybody does.
LEMMA AccountCounts == \A Q : A!Cardinality(Q) = Cardinality(Q) /\ (A!IsFiniteSet(Q) <=> IsFiniteSet(Q))
BY DEF A!Cardinality, Cardinality, A!IsFiniteSet, IsFiniteSet

AccountCalls ==
    [step : {"idle", "duplicate", "gate", "lookup", "create", "default", "delete"},
     n : 0 .. MaxRows, dest : Destinations \cup {"none"}, default : BOOLEAN, late : BOOLEAN]

\* A request's step moves that request alone.
OtherAccounts(c) == \A d \in Calls \ {c} : s5'[d] = s5[d]

\* A request that waits is a request.
LEMMA IdleIsAnAccount ==
    /\ A!Idle \in AccountCalls /\ A!Idle.step = "idle" /\ A!Idle.n = 0 /\ A!Idle.dest = "none"
    /\ A!Idle.default = FALSE /\ A!Idle.late = FALSE
<1>1. 0 \in 0 .. MaxRows
    BY ServicesAssumption DEF ServicesAssumption
<1>2. QED
    BY <1>1 DEF A!Idle, AccountCalls

\* What a request becomes when it goes on, or ends.
LEMMA AccountGoto ==
    ASSUME s5 \in [Calls -> AccountCalls], NEW c \in Calls,
           NEW step \in {"idle", "gate", "lookup", "create"},
           A!Goto(c, step) \/ (A!End(c) /\ step = "idle")
    PROVE  /\ s5' \in [Calls -> AccountCalls] /\ OtherAccounts(c)
           /\ s5'[c].step = step
           /\ step # "idle" => /\ s5'[c].dest = s5[c].dest /\ s5'[c].default = s5[c].default
                               /\ s5'[c].late = s5[c].late
<1>1. CASE A!Goto(c, step)
    <2> DEFINE j == [s5[c] EXCEPT !.step = step]
    <2>1. s5' = [s5 EXCEPT ![c] = j]
        BY <1>1 DEF A!Goto
    <2>2. /\ j \in AccountCalls /\ j.step = step /\ j.dest = s5[c].dest
          /\ j.default = s5[c].default /\ j.late = s5[c].late
        BY DEF AccountCalls
    <2> HIDE DEF j
    <2>3. QED
        BY <2>1, <2>2 DEF OtherAccounts
<1>2. CASE A!End(c) /\ step = "idle"
    <2>1. s5' = [s5 EXCEPT ![c] = A!Idle]
        BY <1>2 DEF A!End
    <2>2. QED
        BY <1>2, <2>1, IdleIsAnAccount DEF OtherAccounts
<1>3. QED
    BY <1>1, <1>2

\* The types, and the parts of them that a step may disturb.
AccountTyped ==
    /\ s1 \subseteq A!Row /\ s2 \in 0 .. MaxRows
    /\ \A a, b \in s1 : a.n = b.n => a = b
    /\ s3 \in BOOLEAN /\ s4 \subseteq 1 .. MaxRows
    /\ s5 \in [Calls -> AccountCalls]
    /\ s6 \in BOOLEAN

\* It is the one that Accounts states.
LEMMA AccountTypes == A!TypeOK <=> AccountTyped
BY DEF A!TypeOK, AccountTyped, AccountCalls

\* What a request has read is current.
CurrentIn(call, rows) ==
    /\ call.step \in {"duplicate", "gate", "lookup", "create"} => call.dest \in Destinations
    /\ ~call.late =>
          /\ call.step \in {"duplicate", "gate", "lookup", "create"} =>
                Cardinality(rows) < Limit /\ call.default = (rows = {})
          /\ call.step \in {"gate", "lookup", "create"} => \A a \in rows : a.dest # call.dest
          /\ call.step = "default" => \E a \in rows : a.n = call.n
          /\ call.step = "delete" => \E a \in rows : a.n = call.n /\ a.default = call.default

\* So it is for all of them.
LEMMA AccountReads == A!ReadIsCurrent <=> \A c \in Calls : CurrentIn(s5[c], s1)
BY AccountCounts DEF A!ReadIsCurrent, CurrentIn, A!Adding, A!At

AddingSteps == {"duplicate", "gate", "lookup", "create"}

\* A step of a request that leaves the rows alone: a request that begins to add
\* has found a place.
LEMMA AccountCallMoves ==
    ASSUME A!IInv, NEW c \in Calls, UNCHANGED <<s1, s2, s3, s4, s6>>,
           s5' \in [Calls -> AccountCalls], OtherAccounts(c), CurrentIn(s5'[c], s1),
           s5'[c].step \in AddingSteps =>
              s5[c].step \in AddingSteps \/ Cardinality(s1) < Limit
    PROVE  A!IInv'
<1>1. AccountTyped
    BY AccountTypes DEF A!IInv
<1>2. A!TypeOK'
    BY <1>1 DEF AccountTyped, A!TypeOK, AccountCalls
<1>3. A!ReadIsCurrent'
    <2>1. \A d \in Calls : CurrentIn(s5'[d], s1')
        BY AccountReads DEF A!IInv, OtherAccounts
    <2>2. QED
        BY <2>1, AccountCounts DEF A!ReadIsCurrent, CurrentIn, A!Adding, A!At
<1>4. A!PlacesCounted'
    <2>1. /\ IsFiniteSet(s1) /\ Cardinality(s1) \in Nat
          /\ Cardinality(s1) + Cardinality(A!Adding) <= Limit + Many - 1
        BY AccountCounts, FS_CardinalityType DEF A!IInv, A!PlacesCounted, Many
    <2>2. /\ A!Adding \in SUBSET Calls /\ (A!Adding)' \in SUBSET Calls
          /\ A!Adding \ {c} = (A!Adding)' \ {c}
          /\ c \in A!Adding <=> s5[c].step \in AddingSteps
          /\ c \in (A!Adding)' <=> s5'[c].step \in AddingSteps
        BY DEF A!Adding, AddingSteps, OtherAccounts
    <2> DEFINE Q == A!Adding
               W == (A!Adding)'
    <2>3. /\ Cardinality(W) = Cardinality(Q) + (IF c \in W THEN 1 ELSE 0) - (IF c \in Q THEN 1 ELSE 0)
          /\ Cardinality(Q) \in 0 .. Many /\ Cardinality(W) \in 0 .. Many /\ Many \in Nat
        BY <2>2, OneMoves, PartIsSmaller
    <2>4. Cardinality(s1) + Cardinality(W) <= Limit + Many - 1
        <3> HIDE DEF Q, W
        <3>0. Limit \in Nat
            BY ServicesAssumption DEF ServicesAssumption
        <3>1. CASE c \in W /\ c \notin Q
            <4>1. Cardinality(s1) < Limit
                BY <2>2, <3>1 DEF Q, W
            <4>2. QED
                BY <2>1, <2>3, <3>0, <4>1
        <3>2. CASE c \notin W \/ c \in Q
            <4>1. Cardinality(W) <= Cardinality(Q)
                BY <2>3, <3>2
            <4>2. QED
                BY <2>1, <2>3, <3>0, <4>1 DEF Q
        <3>3. QED
            BY <3>1, <3>2
    <2>5. QED
        BY <2>1, <2>4, AccountCounts DEF A!IInv, A!PlacesCounted, Many
<1>5. A!DefaultKept'
    <2>1. A!Defaults(s1)' = A!Defaults(s1)
        BY DEF A!Defaults
    <2>2. QED
        BY <2>1, AccountCounts DEF A!IInv, A!DefaultKept
<1>6. QED
    BY <1>2, <1>3, <1>4, <1>5 DEF A!IInv

\* A commit: the index has admitted the rows; if nothing was overtaken they
\* keep what they promise.
LEMMA AccountCommit ==
    ASSUME A!IInv, NEW c \in Calls, NEW rows, A!Commit(c, rows), A!IndexAdmits(rows),
           s3' = s3, s4' = s4, s2' \in s2 .. MaxRows,
           rows \subseteq A!Row, \A a, b \in rows : a.n = b.n => a = b,
           IsFiniteSet(rows), \A a \in rows : a.n <= s2',
           Cardinality(rows) <= Cardinality(s1) + (IF s5[c].step \in AddingSteps THEN 1 ELSE 0),
           rows # {} /\ ~s6 /\ ~s5[c].late =>
              /\ A!Defaults(rows) # {} /\ Cardinality(rows) <= Limit
              /\ \A a, b \in rows : a.dest = b.dest => a = b
    PROVE  A!IInv'
<1>1. AccountTyped
    BY AccountTypes DEF A!IInv
<1>2. /\ s1' = rows /\ s6' = (rows # {} /\ (s6 \/ s5[c].late))
      /\ s5' = [d \in Calls |-> IF d = c \/ s5[d].step = "idle" THEN A!Idle
                                ELSE [s5[d] EXCEPT !.late = TRUE]]
    BY DEF A!Commit, A!At
<1>3. /\ s5' \in [Calls -> AccountCalls] /\ s5'[c].step = "idle"
      /\ \A d \in Calls : /\ s5'[d].step = "idle" \/ s5'[d].late
                          /\ s5'[d].step # "idle" => /\ d # c /\ s5'[d].step = s5[d].step
                                                     /\ s5'[d].dest = s5[d].dest
                          /\ d # c => s5'[d].step = s5[d].step
    <2>1. ASSUME NEW d \in Calls
          PROVE  /\ [s5[d] EXCEPT !.late = TRUE] \in AccountCalls
                 /\ [s5[d] EXCEPT !.late = TRUE].late = TRUE
                 /\ [s5[d] EXCEPT !.late = TRUE].step = s5[d].step
                 /\ [s5[d] EXCEPT !.late = TRUE].dest = s5[d].dest
        <3>1. s5[d] \in AccountCalls
            BY <1>1 DEF AccountTyped
        <3>2. QED
            BY <3>1 DEF AccountCalls
    <2>2. QED
        BY <1>2, <2>1, IdleIsAnAccount
<1>4. s6' \in BOOLEAN /\ s2' \in 0 .. MaxRows
    <2>1. s5[c].late \in BOOLEAN
        BY <1>1 DEF AccountTyped, AccountCalls
    <2>2. s6' \in BOOLEAN
        BY <1>1, <1>2, <2>1 DEF AccountTyped
    <2>3. QED
        BY <1>1, <2>2, ServicesAssumption DEF AccountTyped, ServicesAssumption
<1>5. A!TypeOK'
    BY <1>1, <1>2, <1>3, <1>4 DEF AccountTyped, A!TypeOK, AccountCalls
<1>6. A!ReadIsCurrent'
    <2>1. \A d \in Calls : CurrentIn(s5'[d], s1')
        BY <1>3, AccountReads DEF A!IInv, CurrentIn
    <2>2. QED
        BY <2>1, AccountCounts DEF A!ReadIsCurrent, CurrentIn, A!Adding, A!At
<1>7. /\ A!PlacesCounted' /\ Cardinality(s1') <= Limit + Many - 1
    <2>1. /\ IsFiniteSet(s1) /\ Cardinality(s1) \in Nat /\ Cardinality(rows) \in Nat
          /\ Cardinality(s1) + Cardinality(A!Adding) <= Limit + Many - 1
        BY AccountCounts, FS_CardinalityType DEF A!IInv, A!PlacesCounted, Many
    <2>2. /\ A!Adding \in SUBSET Calls /\ (A!Adding)' \in SUBSET Calls
          /\ A!Adding \ {c} = (A!Adding)' \ {c}
          /\ c \in A!Adding <=> s5[c].step \in AddingSteps
          /\ c \notin (A!Adding)'
        BY <1>3 DEF A!Adding, AddingSteps
    <2> DEFINE Q == A!Adding
               W == (A!Adding)'
    <2>3. /\ Cardinality(W) = Cardinality(Q) + (IF c \in W THEN 1 ELSE 0) - (IF c \in Q THEN 1 ELSE 0)
          /\ Cardinality(Q) \in 0 .. Many /\ Cardinality(W) \in 0 .. Many /\ Many \in Nat
        BY <2>2, OneMoves, PartIsSmaller
    <2>4. Cardinality(rows) + Cardinality(W) <= Limit + Many - 1 /\ Cardinality(rows) <= Limit + Many - 1
        <3> HIDE DEF Q, W
        <3>0. Limit \in Nat
            BY ServicesAssumption DEF ServicesAssumption
        <3>1. c \notin W /\ (c \in Q <=> s5[c].step \in AddingSteps)
            BY <2>2 DEF Q, W
        <3>2. Cardinality(s1) + Cardinality(Q) <= Limit + Many - 1
            BY <2>1 DEF Q
        <3>3. Cardinality(rows) + Cardinality(W) <= Cardinality(s1) + Cardinality(Q)
            BY <2>1, <2>3, <3>1
        <3>4. QED
            BY <2>1, <2>3, <3>0, <3>2, <3>3
    <2>5. QED
        BY <1>2, <2>1, <2>4, AccountCounts DEF A!PlacesCounted, Many
<1>8. A!DefaultKept'
    <2>1. A!Cardinality(A!Defaults(rows)) <= 1
        BY DEF A!IndexAdmits
    <2>2. rows = {} => Cardinality(rows) = 0 /\ 0 <= Limit
        BY FS_EmptySet, ServicesAssumption DEF ServicesAssumption
    <2>3. ~s6' => /\ rows # {} => A!Defaults(rows) # {}
                  /\ Cardinality(rows) <= Limit
                  /\ \A a, b \in rows : a.dest = b.dest => a = b
        BY <1>2, <2>2
    <2>4. A!Defaults(s1)' = A!Defaults(rows)
        BY <1>2 DEF A!Defaults
    <2>5. QED
        BY <1>2, <1>7, <2>1, <2>3, <2>4, AccountCounts DEF A!DefaultKept, Many
<1>9. QED
    BY <1>5, <1>6, <1>7, <1>8 DEF A!IInv

\* An account is added, under the index of one default.
LEMMA AccountAdded ==
    ASSUME A!IInv, NEW c \in Calls, A!AddCreate(c)
    PROVE  A!IInv'
<1> DEFINE new  == [n |-> s2 + 1, dest |-> s5[c].dest, default |-> s5[c].default, matched |-> TRUE]
           rows == s1 \cup {new}
<1>1. AccountTyped /\ s2 \in Nat /\ s2 < MaxRows /\ s2' = s2 + 1
    BY AccountTypes, ServicesAssumption
    DEF A!IInv, A!AddCreate, AccountTyped, ServicesAssumption
<1>2. /\ s5[c].step = "create" /\ CurrentIn(s5[c], s1) /\ A!Commit(c, rows)
      /\ A!IndexAdmits(rows) /\ s3' = s3 /\ s4' = s4
    BY AccountReads DEF A!IInv, A!AddCreate, A!Added, A!At
<1>3. s2 + 1 \in 1 .. MaxRows /\ s2' \in s2 .. MaxRows
    BY <1>1, ServicesAssumption DEF ServicesAssumption
<1>4. /\ new \in A!Row /\ new.n = s2 + 1 /\ new.dest = s5[c].dest /\ new.default = s5[c].default
    <2>1. s5[c].dest \in Destinations /\ s5[c].default \in BOOLEAN
        BY <1>1, <1>2 DEF AccountTyped, AccountCalls, CurrentIn
    <2>2. QED
        BY <1>3, <2>1 DEF A!Row
<1>5. /\ IsFiniteSet(s1) /\ \A a \in s1 : a.n <= s2 /\ a.n \in Nat
      /\ Cardinality(s1) \in Nat
    BY <1>1, AccountCounts, FS_CardinalityType DEF A!IInv, A!PlacesCounted, AccountTyped, A!Row
<1> HIDE DEF new
<1>6. /\ rows \subseteq A!Row /\ \A a, b \in rows : a.n = b.n => a = b
      /\ \A a \in rows : a.n <= s2'
    <2>1. \A a \in s1 : a.n # s2 + 1
        BY <1>1, <1>5
    <2>2. \A a, b \in rows : a.n = b.n => a = b
        BY <1>1, <1>4, <2>1 DEF AccountTyped
    <2>3. \A a \in rows : a.n <= s2'
        BY <1>1, <1>4, <1>5
    <2>4. QED
        BY <1>1, <1>4, <2>2, <2>3 DEF AccountTyped
<1>7. /\ IsFiniteSet(rows) /\ Cardinality(rows) <= Cardinality(s1) + 1
      /\ Cardinality(rows) \in Nat
    BY <1>5, FS_AddElement, FS_CardinalityType
<1>8. ASSUME ~s6, ~s5[c].late
      PROVE  /\ A!Defaults(rows) # {} /\ Cardinality(rows) <= Limit
             /\ \A a, b \in rows : a.dest = b.dest => a = b
    <2>1. /\ Cardinality(s1) < Limit /\ new.default = (s1 = {})
          /\ \A a \in s1 : a.dest # new.dest
        BY <1>2, <1>4, <1>8 DEF CurrentIn
    <2>2. /\ s1 # {} => A!Defaults(s1) # {}
          /\ \A a, b \in s1 : a.dest = b.dest => a = b
        BY <1>8 DEF A!IInv, A!DefaultKept
    <2>3. A!Defaults(rows) # {}
        BY <2>1, <2>2 DEF A!Defaults
    <2>4. Cardinality(rows) <= Limit
        BY <1>5, <1>7, <2>1, ServicesAssumption DEF ServicesAssumption
    <2>5. \A a, b \in rows : a.dest = b.dest => a = b
        BY <2>1, <2>2
    <2>6. QED
        BY <2>3, <2>4, <2>5
<1> HIDE DEF rows
<1>9. Cardinality(rows) <= Cardinality(s1) + (IF s5[c].step \in AddingSteps THEN 1 ELSE 0)
    BY <1>2, <1>7 DEF AddingSteps
<1>10. QED
    BY <1>2, <1>3, <1>6, <1>7, <1>8, <1>9, AccountCommit

\* Another account is made the default, in a row for each row.
LEMMA AccountMadeDefault ==
    ASSUME A!IInv, NEW c \in Calls, A!DefaultWrite(c)
    PROVE  A!IInv'
<1> DEFINE n    == s5[c].n
           rows == A!MadeDefault(n)
           f    == [a \in s1 |-> [a EXCEPT !.default = (a.n = n)]]
<1>1. AccountTyped /\ s2 \in Nat /\ s2' \in s2 .. MaxRows /\ s2' = s2
    BY AccountTypes, ServicesAssumption
    DEF A!IInv, A!DefaultWrite, AccountTyped, ServicesAssumption
<1>2. /\ s5[c].step = "default" /\ \E a \in s1 : a.n = n
      /\ A!Commit(c, rows) /\ A!IndexAdmits(rows) /\ s3' = s3 /\ s4' = s4
    BY DEF A!DefaultWrite, A!At
<1>3. /\ IsFiniteSet(s1) /\ Cardinality(s1) \in Nat /\ \A a \in s1 : a.n <= s2
    BY AccountCounts, FS_CardinalityType DEF A!IInv, A!PlacesCounted
<1>4. \A a \in s1 : /\ f[a] \in A!Row /\ f[a].n = a.n /\ f[a].dest = a.dest
                    /\ f[a].default = (a.n = n)
    BY <1>1 DEF AccountTyped, A!Row
<1>5. rows = {f[a] : a \in s1}
    BY DEF A!MadeDefault
<1> HIDE DEF n, f, rows
<1>6. \A b \in rows : \E a \in s1 : b = f[a]
    BY <1>5
<1>7. /\ rows \subseteq A!Row /\ \A a, b \in rows : a.n = b.n => a = b
      /\ \A a \in rows : a.n <= s2'
    <2>1. \A a, b \in rows : a.n = b.n => a = b
        BY <1>1, <1>4, <1>6 DEF AccountTyped
    <2>2. QED
        BY <1>1, <1>3, <1>4, <1>6, <2>1
<1>8. IsFiniteSet(rows) /\ Cardinality(rows) <= Cardinality(s1) /\ Cardinality(rows) \in Nat
    <2>1. f \in Surjection(s1, rows)
        BY <1>5, <1>6 DEF Surjection, f
    <2>2. QED
        BY <1>3, <2>1, FS_Surjection, FS_CardinalityType
<1>9. ASSUME ~s6
      PROVE  /\ A!Defaults(rows) # {} /\ Cardinality(rows) <= Limit
             /\ \A a, b \in rows : a.dest = b.dest => a = b
    <2>1. Cardinality(s1) <= Limit /\ \A a, b \in s1 : a.dest = b.dest => a = b
        BY <1>9, AccountCounts DEF A!IInv, A!DefaultKept
    <2>2. A!Defaults(rows) # {}
        BY <1>2, <1>4, <1>5 DEF A!Defaults
    <2>3. \A a, b \in rows : a.dest = b.dest => a = b
        BY <1>4, <1>6, <2>1
    <2>4. Cardinality(rows) <= Limit
        BY <1>3, <1>8, <2>1, ServicesAssumption DEF ServicesAssumption
    <2>5. QED
        BY <2>2, <2>3, <2>4
<1>10. Cardinality(rows) <= Cardinality(s1) + (IF s5[c].step \in AddingSteps THEN 1 ELSE 0)
    BY <1>2, <1>8, <1>3 DEF AddingSteps
<1>11. QED
    BY <1>1, <1>2, <1>7, <1>8, <1>9, <1>10, AccountCommit

\* An account is deleted; if it was the default, the oldest one left is.
LEMMA AccountDeleted ==
    ASSUME A!IInv, NEW c \in Calls, A!DeleteWrite(c)
    PROVE  A!IInv'
<1> DEFINE left == {a \in s1 : a.n # s5[c].n}
           o    == A!Oldest(left)
           new  == [o EXCEPT !.default = TRUE]
           rows == A!Deleted(c)
<1>1. AccountTyped /\ s2 \in Nat /\ s2' \in s2 .. MaxRows /\ s2' = s2
    BY AccountTypes, ServicesAssumption
    DEF A!IInv, A!DeleteWrite, AccountTyped, ServicesAssumption
<1>2. /\ s5[c].step = "delete" /\ CurrentIn(s5[c], s1)
      /\ A!Commit(c, rows) /\ A!IndexAdmits(rows) /\ s3' = s3 /\ s4' = s4
    BY AccountReads DEF A!IInv, A!DeleteWrite, A!Deletable, A!At
<1>3. /\ IsFiniteSet(s1) /\ Cardinality(s1) \in Nat /\ \A a \in s1 : a.n <= s2 /\ a.n \in Nat
    BY <1>1, AccountCounts, FS_CardinalityType DEF A!IInv, A!PlacesCounted, AccountTyped, A!Row
<1>4. IsFiniteSet(left) /\ Cardinality(left) \in Nat /\ Cardinality(left) <= Cardinality(s1)
    <2>1. left \in SUBSET s1
        OBVIOUS
    <2> HIDE DEF left
    <2>2. QED
        BY <1>3, <2>1, FS_Subset, FS_CardinalityType
<1>5. left # {} => o \in left
    <2>1. SUFFICES ASSUME left # {}
                   PROVE  \E a \in left : \A b \in left : a.n <= b.n
        BY DEF A!Oldest
    <2>2. {a.n : a \in left} \in SUBSET Nat /\ {a.n : a \in left} # {}
        BY <1>3, <2>1
    <2>3. PICK x \in {a.n : a \in left} : \A y \in {a.n : a \in left} : x <= y
        BY <2>2, LeastNumber
    <2>4. QED
        BY <2>3
<1>6. rows = IF s5[c].default /\ left # {} THEN (left \ {o}) \cup {new} ELSE left
    BY DEF A!Deleted
<1>7. left # {} => /\ new \in A!Row /\ new.n = o.n /\ new.dest = o.dest /\ new.default = TRUE
                   /\ o \in s1
    <2>1. SUFFICES ASSUME left # {}
                   PROVE  /\ new \in A!Row /\ new.n = o.n /\ new.dest = o.dest
                          /\ new.default = TRUE /\ o \in s1
        OBVIOUS
    <2>2. o \in A!Row /\ o \in s1
        BY <1>1, <1>5, <2>1 DEF AccountTyped
    <2> HIDE DEF o
    <2>3. QED
        BY <2>2 DEF A!Row
<1> HIDE DEF o, new, rows
<1>8. CASE s5[c].default /\ left # {}
    <2>1. /\ rows = (left \ {o}) \cup {new} /\ o \in left /\ o \in s1 /\ new \in A!Row
          /\ new.n = o.n /\ new.dest = o.dest /\ new.default = TRUE
        BY <1>5, <1>6, <1>7, <1>8
    <2>2. /\ rows \subseteq A!Row /\ \A a, b \in rows : a.n = b.n => a = b
          /\ \A a \in rows : a.n <= s2'
        <3>1. \A a \in left \ {o} : a.n # new.n
            BY <1>1, <2>1 DEF AccountTyped
        <3>2. QED
            BY <1>1, <1>3, <2>1, <3>1 DEF AccountTyped
    <2>3. IsFiniteSet(rows) /\ Cardinality(rows) <= Cardinality(s1) /\ Cardinality(rows) \in Nat
        <3> HIDE DEF left
        <3>1. IsFiniteSet(left \ {o}) /\ Cardinality(left \ {o}) = Cardinality(left) - 1
            BY <1>4, <2>1, FS_RemoveElement
        <3>2. /\ IsFiniteSet(rows)
              /\ Cardinality(rows) = IF new \in left \ {o} THEN Cardinality(left \ {o})
                                     ELSE Cardinality(left \ {o}) + 1
            BY <2>1, <3>1, FS_AddElement
        <3>3. QED
            BY <1>3, <1>4, <3>1, <3>2, FS_CardinalityType
    <2>4. ASSUME ~s6
          PROVE  /\ A!Defaults(rows) # {} /\ Cardinality(rows) <= Limit
                 /\ \A a, b \in rows : a.dest = b.dest => a = b
        <3>1. Cardinality(s1) <= Limit /\ \A a, b \in s1 : a.dest = b.dest => a = b
            BY <2>4, AccountCounts DEF A!IInv, A!DefaultKept
        <3>2. A!Defaults(rows) # {}
            BY <2>1 DEF A!Defaults
        <3>3. \A a \in left \ {o} : a.dest # new.dest
            BY <2>1, <3>1
        <3>4. \A a, b \in rows : a.dest = b.dest => a = b
            BY <2>1, <3>1, <3>3
        <3>5. Cardinality(rows) <= Limit
            BY <1>3, <2>3, <3>1, ServicesAssumption DEF ServicesAssumption
        <3>6. QED
            BY <3>2, <3>4, <3>5
    <2>5. Cardinality(rows) <= Cardinality(s1) + (IF s5[c].step \in AddingSteps THEN 1 ELSE 0)
        BY <1>2, <1>3, <2>3 DEF AddingSteps
    <2>6. QED
        BY <1>1, <1>2, <2>2, <2>3, <2>4, <2>5, AccountCommit
<1>9. CASE ~(s5[c].default /\ left # {})
    <2>1. rows = left
        BY <1>6, <1>9
    <2>2. /\ rows \subseteq A!Row /\ \A a, b \in rows : a.n = b.n => a = b
          /\ \A a \in rows : a.n <= s2'
        BY <1>1, <1>3, <2>1 DEF AccountTyped
    <2>3. ASSUME ~s6, ~s5[c].late, rows # {}
          PROVE  /\ A!Defaults(rows) # {} /\ Cardinality(rows) <= Limit
                 /\ \A a, b \in rows : a.dest = b.dest => a = b
        <3>1. /\ Cardinality(s1) <= Limit /\ \A a, b \in s1 : a.dest = b.dest => a = b
              /\ s1 # {} => A!Defaults(s1) # {}
            BY <2>3, AccountCounts DEF A!IInv, A!DefaultKept
        <3>2. PICK d \in s1 : d.default
            BY <2>1, <2>3, <3>1 DEF A!Defaults
        <3>3. PICK a \in s1 : a.n = s5[c].n /\ a.default = s5[c].default
            BY <1>2, <2>3 DEF CurrentIn
        <3>4. d.n # s5[c].n
            BY <1>1, <1>9, <2>1, <2>3, <3>2, <3>3 DEF AccountTyped
        <3>5. A!Defaults(rows) # {}
            BY <2>1, <3>2, <3>4 DEF A!Defaults
        <3>6. Cardinality(rows) <= Limit
            BY <1>3, <1>4, <2>1, <3>1, ServicesAssumption DEF ServicesAssumption
        <3>7. QED
            BY <2>1, <3>1, <3>5, <3>6
    <2>4. Cardinality(rows) <= Cardinality(s1) + (IF s5[c].step \in AddingSteps THEN 1 ELSE 0)
        BY <1>2, <1>3, <1>4, <2>1 DEF AddingSteps
    <2>5. QED
        BY <1>1, <1>2, <1>4, <2>1, <2>2, <2>3, <2>4, AccountCommit
<1>10. QED
    BY <1>8, <1>9

\* A request's other steps move the request alone.
LEMMA AccountSteps ==
    ASSUME A!IInv, NEW c \in Calls,
           \/ A!AddDuplicate(c) \/ A!AddGate(c) \/ A!AddLookup(c) \/ A!AddRefused(c)
           \/ A!DefaultRefused(c) \/ A!DeleteRefused(c)
    PROVE  A!IInv'
<1> DEFINE j == s5[c]
<1>1. /\ s5 \in [Calls -> AccountCalls] /\ CurrentIn(j, s1)
      /\ UNCHANGED <<s1, s2, s3, s4, s6>>
    BY AccountTypes, AccountReads
    DEF A!IInv, AccountTyped, A!AddDuplicate, A!AddGate, A!AddLookup, A!AddRefused,
        A!DefaultRefused, A!DeleteRefused
<1>2. ASSUME A!End(c)
      PROVE  A!IInv'
    <2>1. s5' \in [Calls -> AccountCalls] /\ OtherAccounts(c) /\ s5'[c].step = "idle"
        BY <1>1, <1>2, AccountGoto
    <2>2. QED
        BY <1>1, <2>1, AccountCallMoves DEF CurrentIn, AddingSteps
<1>3. ASSUME NEW step \in {"gate", "lookup", "create"}, A!Goto(c, step), j.step \in AddingSteps,
             \A a \in s1 : ~j.late => a.dest # j.dest
      PROVE  A!IInv'
    <2>1. /\ s5' \in [Calls -> AccountCalls] /\ OtherAccounts(c) /\ s5'[c].step = step
          /\ s5'[c].dest = j.dest /\ s5'[c].default = j.default /\ s5'[c].late = j.late
        BY <1>1, <1>3, AccountGoto
    <2>2. CurrentIn(s5'[c], s1)
        BY <1>1, <1>3, <2>1 DEF CurrentIn, AddingSteps
    <2>3. QED
        BY <1>1, <1>3, <2>1, <2>2, AccountCallMoves
<1>4. CASE A!AddDuplicate(c)
    BY <1>2, <1>3, <1>4 DEF A!AddDuplicate, A!At, AddingSteps
<1>5. CASE A!AddGate(c) \/ A!AddLookup(c)
    BY <1>1, <1>2, <1>3, <1>5 DEF A!AddGate, A!AddLookup, A!At, AddingSteps, CurrentIn
<1>6. CASE A!AddRefused(c) \/ A!DefaultRefused(c) \/ A!DeleteRefused(c)
    BY <1>2, <1>6 DEF A!AddRefused, A!DefaultRefused, A!DeleteRefused
<1>7. QED
    BY <1>4, <1>5, <1>6

\* A request begins with what it counts or reads.
LEMMA AccountBegins ==
    ASSUME A!IInv, NEW c \in Calls,
           \/ \E d \in Destinations : A!AddCount(c, d)
           \/ \E a \in s1 : A!DefaultRead(c, a) \/ A!DeleteRead(c, a)
    PROVE  A!IInv'
<1>1. s5 \in [Calls -> AccountCalls] /\ s1 \subseteq A!Row
    BY AccountTypes DEF A!IInv, AccountTyped
<1>2. ASSUME NEW d \in Destinations, A!AddCount(c, d)
      PROVE  A!IInv'
    <2> DEFINE j == [A!Idle EXCEPT !.step = "duplicate", !.dest = d, !.default = (s1 = {})]
    <2>1. /\ s5' = [s5 EXCEPT ![c] = j] /\ UNCHANGED <<s1, s2, s3, s4, s6>>
          /\ Cardinality(s1) < Limit
        BY <1>2, AccountCounts DEF A!AddCount
    <2>2. j \in AccountCalls
        BY IdleIsAnAccount DEF AccountCalls
    <2>3. j.step = "duplicate" /\ j.dest = d /\ j.default = (s1 = {})
        BY IdleIsAnAccount DEF AccountCalls
    <2> HIDE DEF j
    <2>4. CurrentIn(j, s1)
        BY <2>1, <2>3 DEF CurrentIn
    <2>5. s5' \in [Calls -> AccountCalls] /\ OtherAccounts(c) /\ s5'[c] = j
        BY <1>1, <2>1, <2>2 DEF OtherAccounts
    <2>6. QED
        BY <2>1, <2>4, <2>5, AccountCallMoves
<1>3. ASSUME NEW a \in s1, A!DefaultRead(c, a)
      PROVE  A!IInv'
    <2> DEFINE j == [A!Idle EXCEPT !.step = "default", !.n = a.n]
    <2>1. s5' = [s5 EXCEPT ![c] = j] /\ UNCHANGED <<s1, s2, s3, s4, s6>>
        BY <1>3 DEF A!DefaultRead
    <2>2. j \in AccountCalls /\ j.step = "default" /\ j.n = a.n
        <3>1. a.n \in 0 .. MaxRows
            BY <1>1, ServicesAssumption DEF A!Row, ServicesAssumption
        <3>2. QED
            BY <3>1, IdleIsAnAccount DEF AccountCalls
    <2> HIDE DEF j
    <2>3. CurrentIn(j, s1)
        BY <2>2 DEF CurrentIn
    <2>4. s5' \in [Calls -> AccountCalls] /\ OtherAccounts(c) /\ s5'[c] = j
        BY <1>1, <2>1, <2>2 DEF OtherAccounts
    <2>5. QED
        BY <2>1, <2>2, <2>3, <2>4, AccountCallMoves DEF AddingSteps
<1>4. ASSUME NEW a \in s1, A!DeleteRead(c, a)
      PROVE  A!IInv'
    <2> DEFINE j == [A!Idle EXCEPT !.step = "delete", !.n = a.n, !.default = a.default]
    <2>1. s5' = [s5 EXCEPT ![c] = j] /\ UNCHANGED <<s1, s2, s3, s4, s6>>
        BY <1>4 DEF A!DeleteRead
    <2>2. j \in AccountCalls /\ j.step = "delete" /\ j.n = a.n /\ j.default = a.default
        <3>1. a.n \in 0 .. MaxRows /\ a.default \in BOOLEAN
            BY <1>1, ServicesAssumption DEF A!Row, ServicesAssumption
        <3>2. QED
            BY <3>1, IdleIsAnAccount DEF AccountCalls
    <2> HIDE DEF j
    <2>3. CurrentIn(j, s1)
        BY <2>2 DEF CurrentIn
    <2>4. s5' \in [Calls -> AccountCalls] /\ OtherAccounts(c) /\ s5'[c] = j
        BY <1>1, <2>1, <2>2 DEF OtherAccounts
    <2>5. QED
        BY <2>1, <2>2, <2>3, <2>4, AccountCallMoves DEF AddingSteps
<1>5. QED
    BY <1>2, <1>3, <1>4

\* A verification, or a loan to an account, changes no account.
LEMMA AccountsRest ==
    ASSUME A!IInv, UNCHANGED <<s1, s2, s5, s6>>, s3' \in BOOLEAN, s4' \subseteq 1 .. MaxRows
    PROVE  A!IInv'
<1>1. A!TypeOK'
    <2>1. AccountTyped
        BY AccountTypes DEF A!IInv
    <2>2. QED
        BY <2>1 DEF AccountTyped, A!TypeOK, AccountCalls
<1>2. A!Adding' = A!Adding /\ A!Defaults(s1)' = A!Defaults(s1)
    BY DEF A!Adding, A!Defaults
<1>3. A!PlacesCounted' /\ A!DefaultKept'
    BY <1>2, AccountCounts DEF A!IInv, A!PlacesCounted, A!DefaultKept
<1>4. A!ReadIsCurrent'
    BY <1>2, AccountCounts DEF A!IInv, A!ReadIsCurrent, A!At
<1>5. QED
    BY <1>1, <1>3, <1>4 DEF A!IInv

\* Every step of the accounts preserves the invariant.
LEMMA AccountNext == A!IInv /\ A!Next => A!IInv'
<1> SUFFICES ASSUME A!IInv, A!Next
             PROVE  A!IInv'
    OBVIOUS
<1>1. AccountTyped
    BY AccountTypes DEF A!IInv
<1>2. CASE A!Kyc
    <2>1. UNCHANGED <<s1, s2, s5, s6>> /\ s3' \in BOOLEAN /\ s4' \subseteq 1 .. MaxRows
        BY <1>1, <1>2 DEF A!Kyc, AccountTyped
    <2>2. QED
        BY <2>1, AccountsRest
<1>3. ASSUME NEW a \in s1, A!Borrow(a)
      PROVE  A!IInv'
    <2>1. UNCHANGED <<s1, s2, s5, s6>> /\ s3' \in BOOLEAN /\ s4' \subseteq 1 .. MaxRows
        BY <1>1, <1>3 DEF A!Borrow, AccountTyped, A!Row
    <2>2. QED
        BY <2>1, AccountsRest
<1>4. QED
    BY <1>2, <1>3, AccountBegins, AccountSteps, AccountAdded, AccountMadeDefault, AccountDeleted
    DEF A!Next

\* No account at first, or one.
LEMMA AccountInit == A!Init => A!IInv
<1> SUFFICES ASSUME A!Init
             PROVE  A!IInv
    OBVIOUS
<1>1. /\ s5 = [c \in Calls |-> A!Idle] /\ s4 = {} /\ s6 = FALSE /\ s3 \in BOOLEAN
      /\ \/ s1 = {} /\ s2 = 0
         \/ \E d \in Destinations :
               s1 = {[n |-> 1, dest |-> d, default |-> TRUE, matched |-> FALSE]} /\ s2 = 1
    BY DEF A!Init
<1>2. 0 \in 0 .. MaxRows /\ 1 \in 0 .. MaxRows /\ 1 \in 1 .. MaxRows /\ Limit >= 1 /\ Limit \in Nat
    BY ServicesAssumption DEF ServicesAssumption
<1>a. (s1 = {} /\ s2 = 0) \/ (s2 = 1 /\ \E a \in A!Row : s1 = {a} /\ a.n = 1 /\ a.default)
    <2>1. ASSUME NEW d \in Destinations
          PROVE  LET a == [n |-> 1, dest |-> d, default |-> TRUE, matched |-> FALSE]
                 IN  a \in A!Row /\ a.n = 1 /\ a.default
        BY <1>2 DEF A!Row
    <2>2. QED
        BY <1>1, <2>1
<1>3. A!TypeOK
    <2>1. s1 \subseteq A!Row /\ s2 \in 0 .. MaxRows /\ \A a, b \in s1 : a.n = b.n => a = b
        BY <1>2, <1>a
    <2>2. AccountTyped
        BY <1>1, <2>1, IdleIsAnAccount DEF AccountTyped
    <2>3. QED
        BY <2>2, AccountTypes
<1>4. A!ReadIsCurrent
    <2>1. \A c \in Calls : CurrentIn(s5[c], s1)
        BY <1>1, IdleIsAnAccount DEF CurrentIn
    <2>2. QED
        BY <2>1, AccountReads
<1>5. IsFiniteSet(s1) /\ Cardinality(s1) \in 0 .. 1
    <2>1. CASE s1 = {}
        BY <2>1, FS_EmptySet
    <2>2. ASSUME NEW a, s1 = {a}
          PROVE  IsFiniteSet(s1) /\ Cardinality(s1) = 1
        BY <2>2, FS_Singleton
    <2>3. QED
        BY <1>a, <2>1, <2>2
<1>6. Many \in Nat \ {0}
    BY ServicesAssumption, CallsSize DEF ServicesAssumption, Many
<1>7. A!PlacesCounted
    <2>1. A!Adding = {}
        BY <1>1, IdleIsAnAccount DEF A!Adding
    <2>2. Cardinality(A!Adding) = 0
        BY <2>1, FS_EmptySet
    <2>3. \A a \in s1 : a.n <= s2
        BY <1>a
    <2>4. Cardinality(s1) + Cardinality(A!Adding) <= Limit + Many - 1
        BY <1>2, <1>5, <1>6, <2>2
    <2>5. QED
        BY <1>5, <2>3, <2>4, AccountCounts DEF A!PlacesCounted, Many
<1>8. A!DefaultKept
    <2>1. A!Defaults(s1) \in SUBSET s1 /\ (s1 # {} => A!Defaults(s1) # {})
        BY <1>a DEF A!Defaults
    <2>2. Cardinality(A!Defaults(s1)) <= Cardinality(s1) /\ Cardinality(A!Defaults(s1)) \in Nat
        BY <1>5, <2>1, FS_Subset, FS_CardinalityType
    <2>3. \A a, b \in s1 : a = b
        BY <1>a
    <2>4. /\ Cardinality(A!Defaults(s1)) <= 1 /\ Cardinality(s1) <= Limit + Many - 1
          /\ Cardinality(s1) <= Limit
        BY <1>2, <1>5, <1>6, <2>2
    <2>5. QED
        BY <2>1, <2>3, <2>4, AccountCounts DEF A!DefaultKept, Many
<1>9. QED
    BY <1>3, <1>4, <1>7, <1>8 DEF A!IInv

-----------------------------------------------------------------------------
(* Identity: s1 held, s2 legacy, s3 tier, s4 vas, s5 opened, s6 call,      *)
(* s7 lifted, s8 changed                                                   *)

\* Identity counts as everybody does.
LEMMA IdentityCounts == \A Q : K!Cardinality(Q) = Cardinality(Q)
BY DEF K!Cardinality, Cardinality

IdentityCalls ==
    [step : {"idle", "own", "taken", "provider", "upsert", "active", "identity", "open",
             "insert"},
     u : Users \cup {"none"}, id : Numbers \cup {"none"}, va : 0 .. MaxAccounts,
     replace : BOOLEAN]

VaRows == [va : 1 .. MaxAccounts, u : Users, id : Numbers, active : BOOLEAN]

\* A call's step moves that call alone.
OtherIdentities(c) == \A d \in Calls \ {c} : s6'[d] = s6[d]

\* What a call becomes: at a step, for a user, with a number, for an account.
Becomes(c, step, u, id, va, replace) ==
    /\ s6' \in [Calls -> IdentityCalls] /\ OtherIdentities(c)
    /\ s6'[c].step = step /\ s6'[c].u = u /\ s6'[c].id = id /\ s6'[c].va = va
    /\ s6'[c].replace = replace

\* A call that waits is a call.
LEMMA IdleIsAnIdentity ==
    /\ K!Idle \in IdentityCalls /\ K!Idle.step = "idle" /\ K!Idle.u = "none"
    /\ K!Idle.id = "none" /\ K!Idle.va = 0 /\ K!Idle.replace = FALSE
<1>1. 0 \in 0 .. MaxAccounts
    BY ServicesAssumption DEF ServicesAssumption
<1>2. QED
    BY <1>1 DEF K!Idle, K!NoNumber, IdentityCalls

\* The calls, whatever becomes of one of them.
LEMMA IdentityGoto ==
    ASSUME s6 \in [Calls -> IdentityCalls], NEW c \in Calls,
           NEW step \in {"idle", "own", "taken", "provider", "upsert", "active", "identity",
                         "open", "insert"},
           K!Goto(c, step)
    PROVE  Becomes(c, step, s6[c].u, s6[c].id, s6[c].va, s6[c].replace)
<1> DEFINE j == [s6[c] EXCEPT !.step = step]
<1>1. s6' = [s6 EXCEPT ![c] = j]
    BY DEF K!Goto
<1>2. /\ j \in IdentityCalls /\ j.step = step /\ j.u = s6[c].u /\ j.id = s6[c].id
      /\ j.va = s6[c].va /\ j.replace = s6[c].replace
    BY DEF IdentityCalls
<1> HIDE DEF j
<1>3. QED
    BY <1>1, <1>2 DEF Becomes, OtherIdentities

\* A call that ends waits again.
LEMMA IdentityEnd ==
    ASSUME s6 \in [Calls -> IdentityCalls], NEW c \in Calls, K!End(c)
    PROVE  Becomes(c, "idle", "none", "none", 0, FALSE)
<1>1. s6' = [s6 EXCEPT ![c] = K!Idle]
    BY DEF K!End
<1>2. QED
    BY <1>1, IdleIsAnIdentity DEF Becomes, OtherIdentities

\* A call that begins, is asked to open an account, reads a number or opens.
LEMMA IdentitySubmit ==
    ASSUME s6 \in [Calls -> IdentityCalls], NEW c \in Calls, NEW u \in Users,
           NEW id \in Numbers, K!Submit(c, u, id)
    PROVE  Becomes(c, "own", u, id, 0, FALSE)
<1> DEFINE j == [K!Idle EXCEPT !.step = "own", !.u = u, !.id = id]
<1>1. s6' = [s6 EXCEPT ![c] = j]
    BY DEF K!Submit
<1>2. /\ j \in IdentityCalls /\ j.step = "own" /\ j.u = u /\ j.id = id /\ j.va = 0
      /\ j.replace = FALSE
    BY IdleIsAnIdentity DEF IdentityCalls
<1> HIDE DEF j
<1>3. QED
    BY <1>1, <1>2 DEF Becomes, OtherIdentities

\* A call that asks for an account, or that has one replaced.
LEMMA IdentityAsked ==
    ASSUME s6 \in [Calls -> IdentityCalls], NEW c \in Calls, NEW u \in Users,
           NEW replace \in BOOLEAN, K!Asked(c, u, replace)
    PROVE  Becomes(c, "active", u, "none", 0, replace)
<1> DEFINE j == [K!Idle EXCEPT !.step = "active", !.u = u, !.replace = replace]
<1>1. s6' = [s6 EXCEPT ![c] = j]
    BY DEF K!Asked
<1>2. /\ j \in IdentityCalls /\ j.step = "active" /\ j.u = u /\ j.id = "none" /\ j.va = 0
      /\ j.replace = replace
    BY IdleIsAnIdentity DEF IdentityCalls
<1> HIDE DEF j
<1>3. QED
    BY <1>1, <1>2 DEF Becomes, OtherIdentities

\* A call that has read the number that its user holds.
LEMMA IdentityReads ==
    ASSUME s6 \in [Calls -> IdentityCalls], NEW c \in Calls, NEW id \in Numbers,
           s6' = [s6 EXCEPT ![c].step = "open", ![c].id = id]
    PROVE  Becomes(c, "open", s6[c].u, id, s6[c].va, s6[c].replace)
<1> DEFINE j == [s6[c] EXCEPT !.step = "open", !.id = id]
<1>1. s6' = [s6 EXCEPT ![c] = j]
    OBVIOUS
<1>2. /\ j \in IdentityCalls /\ j.step = "open" /\ j.u = s6[c].u /\ j.id = id
      /\ j.va = s6[c].va /\ j.replace = s6[c].replace
    BY DEF IdentityCalls
<1> HIDE DEF j
<1>3. QED
    BY <1>1, <1>2 DEF Becomes, OtherIdentities

\* A call for which the provider has opened an account.
LEMMA IdentityOpens ==
    ASSUME s6 \in [Calls -> IdentityCalls], NEW c \in Calls, NEW va \in 0 .. MaxAccounts,
           s6' = [s6 EXCEPT ![c].step = "insert", ![c].va = va]
    PROVE  Becomes(c, "insert", s6[c].u, s6[c].id, va, s6[c].replace)
<1> DEFINE j == [s6[c] EXCEPT !.step = "insert", !.va = va]
<1>1. s6' = [s6 EXCEPT ![c] = j]
    OBVIOUS
<1>2. /\ j \in IdentityCalls /\ j.step = "insert" /\ j.u = s6[c].u /\ j.id = s6[c].id
      /\ j.va = va /\ j.replace = s6[c].replace
    BY DEF IdentityCalls
<1> HIDE DEF j
<1>3. QED
    BY <1>1, <1>2 DEF Becomes, OtherIdentities

-----------------------------------------------------------------------------
\* The parts that a step may disturb: the rows, the accounts and the call.
IdentityTyped ==
    /\ s1 \in [Users -> Numbers \cup {"none"}] /\ s2 \subseteq Users
    /\ s3 \in [Users -> 0 .. TopTier]
    /\ s4 \subseteq VaRows /\ \A a, b \in s4 : a.va = b.va => a = b
    /\ s5 \in 0 .. MaxAccounts
    /\ s6 \in [Calls -> IdentityCalls]
    /\ s7 \subseteq Users /\ s8 \subseteq Users

\* They are the types.
LEMMA IdentityTypes == K!TypeOK <=> IdentityTyped
BY DEF K!TypeOK, K!NoNumber, IdentityTyped, IdentityCalls, VaRows

\* A step of a call that leaves the rows and the accounts alone.
LEMMA IdentityCallMoves ==
    ASSUME K!IInv, NEW c \in Calls, UNCHANGED <<s1, s2, s3, s4, s7, s8>>,
           s5' \in s5 .. MaxAccounts,
           NEW step, NEW u, NEW id, NEW va, NEW replace, Becomes(c, step, u, id, va, replace),
           step # "idle" => u \in Users,
           step \in {"own", "taken", "provider", "upsert", "open", "insert"} => id \in Numbers,
           step \in {"open", "insert"} /\ u \notin s8 => id = s1[u],
           step = "insert" => va = s5 + 1 /\ s5' = s5 + 1
    PROVE  K!IInv'
<1>1. IdentityTyped /\ IdentityTyped'
    <2>1. IdentityTyped
        BY IdentityTypes DEF K!IInv
    <2>2. s5' \in 0 .. MaxAccounts
        BY <2>1, ServicesAssumption DEF IdentityTyped, ServicesAssumption
    <2>3. QED
        BY <2>1, <2>2 DEF IdentityTyped, Becomes
<1>2. K!TypeOK'
    BY <1>1 DEF K!TypeOK, K!NoNumber, IdentityTyped, IdentityCalls, VaRows
<1>3. K!CallsAreTrue'
    BY DEF K!IInv, K!CallsAreTrue, K!At, Becomes, OtherIdentities
<1>4. K!NumbersAreNew'
    <2>0. s5 \in Nat /\ s5' \in Nat /\ s5 <= s5' /\ \A a \in s4 : a.va \in Nat
        BY <1>1, ServicesAssumption DEF IdentityTyped, VaRows, ServicesAssumption
    <2>1. \A a \in s4' : a.va <= s5'
        BY <2>0 DEF K!IInv, K!NumbersAreNew
    <2>2. \A d \in Calls : s6[d].step = "insert" => s6[d].va \in 1 .. s5 /\ s6[d].va \in 1 .. s5'
        BY <2>0 DEF K!IInv, K!NumbersAreNew, K!At
    <2>3. step = "insert" => /\ va \in 1 .. s5' /\ \A a \in s4 : a.va # va
                             /\ \A k \in 1 .. s5 : k # va
        BY <2>0 DEF K!IInv, K!NumbersAreNew
    <2>4. \A d \in Calls : s6'[d].step = "insert" =>
             /\ s6'[d].va \in 1 .. s5'
             /\ \A a \in s4' : a.va # s6'[d].va
        BY <2>2, <2>3 DEF K!IInv, K!NumbersAreNew, K!At, Becomes, OtherIdentities
    <2>5. \A d, e \in Calls : d # e /\ s6'[d].step = "insert" /\ s6'[e].step = "insert" =>
             s6'[d].va # s6'[e].va
        BY <2>2, <2>3 DEF K!IInv, K!NumbersAreNew, K!At, Becomes, OtherIdentities
    <2>6. QED
        BY <2>1, <2>4, <2>5 DEF K!NumbersAreNew, K!At
<1>5. K!IdentityHolds'
    <2>1. K!OneHolder' /\ K!TierBacked'
        BY DEF K!IInv, K!IdentityHolds, K!OneHolder, K!TierBacked, K!HoldersBut
    <2>2. \A v : K!Active(v)' = K!Active(v)
        BY DEF K!Active
    <2>3. K!AccountBacked'
        BY <2>2, IdentityCounts DEF K!IInv, K!IdentityHolds, K!AccountBacked
    <2>4. QED
        BY <2>1, <2>3 DEF K!IdentityHolds
<1>6. QED
    BY <1>2, <1>3, <1>4, <1>5 DEF K!IInv

-----------------------------------------------------------------------------
\* The calls, when a verification or a tier changes and the accounts do not.
LEMMA IdentityRowMoves ==
    ASSUME K!IInv, UNCHANGED <<s4, s5>>,
           \A d \in Calls : s6'[d] = s6[d] \/ (s6'[d].step = "active" /\ s6'[d].u \in Users),
           s6' \in [Calls -> IdentityCalls],
           s1' \in [Users -> Numbers \cup {"none"}], s2' \subseteq Users,
           s3' \in [Users -> 0 .. TopTier], s7' \subseteq Users, s8' \subseteq Users,
           s8 \subseteq s8', \A u \in Users \ s8' : s1[u] \in {"none", s1'[u]},
           \A u \in Users \ s7' : s3'[u] >= 1 <=> s1'[u] # "none",
           \A u \in Users \ s2', v \in Users \ s2' :
              u # v /\ s1'[u] # "none" => s1'[u] # s1'[v]
    PROVE  K!IInv'
<1>1. IdentityTyped /\ IdentityTyped'
    BY IdentityTypes DEF K!IInv, IdentityTyped
<1>2. K!TypeOK'
    BY <1>1 DEF K!TypeOK, K!NoNumber, IdentityTyped, IdentityCalls, VaRows
<1>3. K!CallsAreTrue'
    <2>1. \A d \in Calls : s6'[d].step \in {"own", "taken", "provider", "upsert", "open", "insert"} =>
             s6'[d] = s6[d]
        OBVIOUS
    <2>2. \A d \in Calls : s6[d].step \in {"open", "insert"} /\ s6[d].u \notin s8' =>
             s6[d].id = s1'[s6[d].u]
        BY <1>1, ServicesAssumption DEF K!IInv, K!CallsAreTrue, K!At, ServicesAssumption
    <2>3. QED
        BY <2>1, <2>2 DEF K!IInv, K!CallsAreTrue, K!At
<1>4. K!NumbersAreNew'
    BY DEF K!IInv, K!NumbersAreNew, K!At
<1>5. K!OneHolder' /\ K!TierBacked'
    BY <1>1 DEF K!OneHolder, K!TierBacked, K!HoldersBut, K!NoNumber
<1>6. K!AccountBacked'
    <2>1. \A v : K!Active(v)' = K!Active(v)
        BY DEF K!Active
    <2>2. \A u \in Users \ s8' : \A a \in K!Active(u) : a.id = s1'[u]
        <3>1. SUFFICES ASSUME NEW u \in Users \ s8', NEW a \in K!Active(u)
                       PROVE  a.id = s1'[u]
            OBVIOUS
        <3>2. a.id = s1[u]
            BY <3>1 DEF K!IInv, K!IdentityHolds, K!AccountBacked
        <3>3. a.id # "none"
            BY <1>1, <3>1, ServicesAssumption
            DEF K!Active, IdentityTyped, VaRows, ServicesAssumption
        <3>4. QED
            BY <3>1, <3>2, <3>3
    <2>3. QED
        BY <2>1, <2>2, IdentityCounts DEF K!IInv, K!IdentityHolds, K!AccountBacked
<1>7. QED
    BY <1>2, <1>3, <1>4, <1>5, <1>6 DEF K!IInv, K!IdentityHolds

\* The verification of a submission, which the index lets in.
LEMMA IdentityUpsert ==
    ASSUME K!IInv, NEW c \in Calls, K!Upsert(c)
    PROVE  K!IInv'
<1> DEFINE u  == s6[c].u
           id == s6[c].id
<1>1. /\ IdentityTyped /\ u \in Users /\ id \in Numbers /\ id # "none"
    BY IdentityTypes, ServicesAssumption
    DEF K!IInv, K!Upsert, K!At, K!CallsAreTrue, ServicesAssumption
<1>2. /\ s1' = [s1 EXCEPT ![u] = id] /\ s2' = s2 \ {u} /\ s3' = [s3 EXCEPT ![u] = 1]
      /\ s8' = IF s1[u] \in {"none", id} THEN s8 ELSE s8 \cup {u}
      /\ UNCHANGED <<s4, s5, s7>>
      /\ {v \in Users \ {u} : s1[v] = id /\ v \notin s2} = {}
    BY DEF K!Upsert, K!NoNumber, K!vaVars, K!HashIndexAdmits, K!HoldersBut
<1>3. Becomes(c, "active", u, id, s6[c].va, s6[c].replace)
    BY <1>1, IdentityGoto DEF K!Upsert, IdentityTyped
<1> HIDE DEF u, id
<1>4. 1 \in 0 .. TopTier
    BY ServicesAssumption DEF ServicesAssumption
<1>5. /\ s1' \in [Users -> Numbers \cup {"none"}] /\ s2' \subseteq Users
      /\ s3' \in [Users -> 0 .. TopTier] /\ s7' \subseteq Users /\ s8' \subseteq Users
      /\ s8 \subseteq s8'
    BY <1>1, <1>2, <1>4 DEF IdentityTyped
<1>6. \A v \in Users \ s8' : s1[v] \in {"none", s1'[v]}
    BY <1>1, <1>2 DEF IdentityTyped
<1>7. \A v \in Users \ s7' : s3'[v] >= 1 <=> s1'[v] # "none"
    BY <1>1, <1>2 DEF IdentityTyped, K!IInv, K!IdentityHolds, K!TierBacked, K!NoNumber
<1>8. \A v \in Users \ s2', w \in Users \ s2' : v # w /\ s1'[v] # "none" => s1'[v] # s1'[w]
    BY <1>1, <1>2 DEF IdentityTyped, K!IInv, K!IdentityHolds, K!OneHolder, K!NoNumber,
                      K!HoldersBut
<1>9. /\ s6' \in [Calls -> IdentityCalls]
      /\ \A d \in Calls : s6'[d] = s6[d] \/ (s6'[d].step = "active" /\ s6'[d].u \in Users)
    BY <1>1, <1>3 DEF Becomes, OtherIdentities
<1>10. QED
    BY <1>2, <1>5, <1>6, <1>7, <1>8, <1>9, IdentityRowMoves

\* Ops take a verification or a tier.
LEMMA IdentityRevoke ==
    ASSUME K!IInv, NEW u \in Users, NEW target \in 0 .. TopTier, K!Revoke(u, target)
    PROVE  K!IInv'
<1>1. IdentityTyped
    BY IdentityTypes DEF K!IInv
<1>2. /\ s1' = [s1 EXCEPT ![u] = IF target = 0 THEN "none" ELSE s1[u]]
      /\ s2' = (IF target = 0 THEN s2 \ {u} ELSE s2) /\ s3' = [s3 EXCEPT ![u] = target]
      /\ s7' = (IF target > s3[u] THEN s7 \cup {u} ELSE s7)
      /\ s8' = (IF target = 0 THEN s8 \cup {u} ELSE s8)
      /\ UNCHANGED <<s4, s5, s6>>
    BY DEF K!Revoke, K!NoNumber, K!vaVars
<1>3. /\ s1' \in [Users -> Numbers \cup {"none"}] /\ s2' \subseteq Users
      /\ s3' \in [Users -> 0 .. TopTier] /\ s7' \subseteq Users /\ s8' \subseteq Users
      /\ s8 \subseteq s8' /\ s6' \in [Calls -> IdentityCalls]
    BY <1>1, <1>2 DEF IdentityTyped
<1>4. \A v \in Users \ s8' : s1[v] \in {"none", s1'[v]}
    BY <1>1, <1>2 DEF IdentityTyped
<1>5. \A v \in Users \ s7' : s3'[v] >= 1 <=> s1'[v] # "none"
    <2>1. SUFFICES ASSUME NEW v \in Users \ s7'
                   PROVE  s3'[v] >= 1 <=> s1'[v] # "none"
        OBVIOUS
    <2>2. v \notin s7 /\ (s3[v] >= 1 <=> s1[v] # "none") /\ s3[v] \in Nat
        BY <1>1, <1>2, <2>1, ServicesAssumption
        DEF IdentityTyped, K!IInv, K!IdentityHolds, K!TierBacked, K!NoNumber, ServicesAssumption
    <2>3. CASE v # u
        BY <1>1, <1>2, <2>2, <2>3 DEF IdentityTyped
    <2>4. CASE v = u
        <3>1. s3'[v] = target /\ target \in Nat /\ ~(target > s3[v])
            BY <1>1, <1>2, <2>1, <2>4 DEF IdentityTyped
        <3>2. s1'[v] = IF target = 0 THEN "none" ELSE s1[v]
            BY <1>1, <1>2, <2>4 DEF IdentityTyped
        <3>3. QED
            BY <2>2, <3>1, <3>2
    <2>5. QED
        BY <2>3, <2>4
<1>6. \A v \in Users \ s2', w \in Users \ s2' : v # w /\ s1'[v] # "none" => s1'[v] # s1'[w]
    BY <1>1, <1>2 DEF IdentityTyped, K!IInv, K!IdentityHolds, K!OneHolder, K!NoNumber,
                      K!HoldersBut
<1>7. QED
    BY <1>2, <1>3, <1>4, <1>5, <1>6, IdentityRowMoves

\* The script rehashes a row that the index lets in.
LEMMA IdentityRehash ==
    ASSUME K!IInv, NEW u \in Users, K!Rehash(u)
    PROVE  K!IInv'
<1>1. IdentityTyped
    BY IdentityTypes DEF K!IInv
<1>2. /\ s2' = s2 \ {u} /\ UNCHANGED <<s1, s3, s4, s5, s6, s7, s8>>
      /\ {v \in Users \ {u} : s1[v] = s1[u] /\ v \notin s2} = {}
    BY DEF K!Rehash, K!vaVars, K!ghosts, K!HashIndexAdmits, K!HoldersBut
<1>3. \A v \in Users \ s7' : s3'[v] >= 1 <=> s1'[v] # "none"
    BY <1>2 DEF K!IInv, K!IdentityHolds, K!TierBacked, K!NoNumber
<1>4. \A v \in Users \ s2', w \in Users \ s2' : v # w /\ s1'[v] # "none" => s1'[v] # s1'[w]
    BY <1>1, <1>2 DEF IdentityTyped, K!IInv, K!IdentityHolds, K!OneHolder, K!NoNumber,
                      K!HoldersBut
<1>5. /\ s1' \in [Users -> Numbers \cup {"none"}] /\ s2' \subseteq Users
      /\ s3' \in [Users -> 0 .. TopTier] /\ s7' \subseteq Users /\ s8' \subseteq Users
      /\ s8 \subseteq s8' /\ s6' \in [Calls -> IdentityCalls]
    BY <1>1, <1>2 DEF IdentityTyped
<1>6. QED
    BY <1>2, <1>3, <1>4, <1>5, IdentityRowMoves

\* The account a call opened becomes the active one, which the index lets in.
LEMMA IdentityInsert ==
    ASSUME K!IInv, NEW c \in Calls, K!Insert(c),
           NEW u, NEW id, NEW va, u = s6[c].u, id = s6[c].id, va = s6[c].va
    PROVE  K!IInv'
<1> DEFINE old == K!Before(c)
           new == [va |-> va, u |-> u, id |-> id, active |-> TRUE]
<1>1. /\ IdentityTyped /\ u \in Users /\ id \in Numbers /\ va \in 1 .. s5
      /\ u \notin s8 => id = s1[u]
      /\ \A a \in s4 : a.va # va
      /\ \A d \in Calls \ {c} : s6[d].step = "insert" => s6[d].va # va
    BY IdentityTypes DEF K!IInv, K!Insert, K!At, K!CallsAreTrue, K!NumbersAreNew
<1>2. /\ s4' = old \cup {new} /\ UNCHANGED <<s1, s2, s3, s5, s7, s8>>
      /\ \A b \in old : b.u = u => ~b.active
    BY DEF K!Insert, K!kycVars, K!ghosts, K!ActiveIndexAdmits
<1>3. Becomes(c, "idle", "none", "none", 0, FALSE)
    BY <1>1, IdentityEnd DEF K!Insert, IdentityTyped
<1>4. /\ \A b \in old : \E a \in s4 :
            /\ b \in VaRows /\ b.va = a.va /\ b.u = a.u
            /\ b = IF s6[c].replace /\ a.u = u THEN [a EXCEPT !.active = FALSE] ELSE a
      /\ \A a \in s4 : a.u # u => a \in old
    <2>1. CASE s6[c].replace
        <3>1. old = {IF a.u = u THEN [a EXCEPT !.active = FALSE] ELSE a : a \in s4}
            BY <2>1 DEF K!Before, K!Retired
        <3>2. \A a \in s4 : /\ [a EXCEPT !.active = FALSE] \in VaRows
                            /\ [a EXCEPT !.active = FALSE].va = a.va
                            /\ [a EXCEPT !.active = FALSE].u = a.u
                            /\ a \in VaRows
            BY <1>1 DEF IdentityTyped, VaRows
        <3> HIDE DEF old, new
        <3>3. \A a \in s4 : a.u # u => a \in old
            BY <3>1
        <3>4. ASSUME NEW b \in old
              PROVE  \E a \in s4 :
                        /\ b \in VaRows /\ b.va = a.va /\ b.u = a.u
                        /\ b = IF s6[c].replace /\ a.u = u THEN [a EXCEPT !.active = FALSE] ELSE a
            <4>1. PICK a \in s4 : b = IF a.u = u THEN [a EXCEPT !.active = FALSE] ELSE a
                BY <3>1
            <4>2. b \in VaRows /\ b.va = a.va /\ b.u = a.u
                BY <3>2, <4>1
            <4>3. b = IF s6[c].replace /\ a.u = u THEN [a EXCEPT !.active = FALSE] ELSE a
                BY <2>1, <4>1
            <4>4. QED
                BY <4>2, <4>3
        <3>5. QED
            BY <3>3, <3>4
    <2>2. CASE ~s6[c].replace
        <3>1. old = s4
            BY <2>2 DEF K!Before
        <3>2. QED
            BY <1>1, <2>2, <3>1 DEF IdentityTyped
    <2>3. QED
        BY <2>1, <2>2
<1>5. va \in 1 .. MaxAccounts /\ va \in Nat /\ s5 \in Nat
    BY <1>1, ServicesAssumption DEF IdentityTyped, ServicesAssumption
<1>6. /\ new \in VaRows /\ new.va = va /\ new.u = u /\ new.id = id /\ new.active
    BY <1>1, <1>5 DEF VaRows
<1> HIDE DEF old, new
<1>7. K!TypeOK'
    <2>1. s4' \subseteq VaRows
        BY <1>2, <1>4, <1>6
    <2>2. \A a \in old : a.va # va
        BY <1>1, <1>4
    <2>3. \A a, b \in old : a.va = b.va => a = b
        <3>1. SUFFICES ASSUME NEW a \in old, NEW b \in old, a.va = b.va
                       PROVE  a = b
            OBVIOUS
        <3>2. PICK x \in s4 :
                 /\ a.va = x.va
                 /\ a = IF s6[c].replace /\ x.u = u THEN [x EXCEPT !.active = FALSE] ELSE x
            BY <1>4
        <3>3. PICK y \in s4 :
                 /\ b.va = y.va
                 /\ b = IF s6[c].replace /\ y.u = u THEN [y EXCEPT !.active = FALSE] ELSE y
            BY <1>4
        <3>4. x = y
            BY <1>1, <3>1, <3>2, <3>3 DEF IdentityTyped
        <3>5. QED
            BY <3>2, <3>3, <3>4
    <2>4. \A a, b \in s4' : a.va = b.va => a = b
        BY <1>2, <1>6, <2>2, <2>3
    <2>5. IdentityTyped'
        BY <1>1, <1>2, <1>3, <2>1, <2>4 DEF IdentityTyped, Becomes
    <2>6. QED
        BY <2>5 DEF K!TypeOK, K!NoNumber, IdentityTyped, IdentityCalls, VaRows
<1>8. K!CallsAreTrue'
    BY <1>1, <1>2, <1>3 DEF K!IInv, K!CallsAreTrue, K!At, Becomes, OtherIdentities
<1>9. K!NumbersAreNew'
    <2>1. \A a \in s4' : a.va <= s5'
        <3>1. \A a \in s4 : a.va <= s5
            BY DEF K!IInv, K!NumbersAreNew
        <3>2. va <= s5
            BY <1>1, <1>5
        <3>3. QED
            BY <1>2, <1>4, <1>6, <3>1, <3>2
    <2>2. \A d \in Calls : s6'[d].step = "insert" => d # c /\ s6[d].step = "insert" /\ s6'[d] = s6[d]
        BY <1>3 DEF Becomes, OtherIdentities
    <2>3. \A d \in Calls : s6'[d].step = "insert" => \A a \in s4' : a.va # s6'[d].va
        BY <1>1, <1>2, <1>4, <1>6, <2>2 DEF K!IInv, K!NumbersAreNew, K!At
    <2>4. QED
        BY <1>2, <2>1, <2>2, <2>3 DEF K!IInv, K!NumbersAreNew, K!At
<1>10. K!OneHolder' /\ K!TierBacked'
    BY <1>2 DEF K!IInv, K!IdentityHolds, K!OneHolder, K!TierBacked, K!HoldersBut
<1>11. K!AccountBacked'
    <2>1. K!Active(u)' = {new}
        BY <1>2, <1>6 DEF K!Active
    <2>2. \A v \in Users \ {u} : K!Active(v)' = K!Active(v)
        <3>1. SUFFICES ASSUME NEW v \in Users \ {u}
                       PROVE  {a \in s4' : a.u = v /\ a.active} = {a \in s4 : a.u = v /\ a.active}
            BY DEF K!Active
        <3>2. \A b \in s4' : b.u = v => b \in s4
            BY <1>2, <1>4, <1>6, <3>1
        <3>3. \A a \in s4 : a.u = v => a \in s4'
            BY <1>2, <1>4, <3>1
        <3>4. QED
            BY <3>2, <3>3
    <2>3. \A v \in Users : K!Cardinality(K!Active(v)') <= 1
        <3>1. Cardinality({new}) = 1
            BY FS_Singleton
        <3>2. QED
            BY <2>1, <2>2, <3>1, IdentityCounts DEF K!IInv, K!IdentityHolds, K!AccountBacked
    <2>4. \A v \in Users \ s8' : \A a \in K!Active(v)' : a.id = s1'[v]
        BY <1>1, <1>2, <1>6, <2>1, <2>2 DEF K!IInv, K!IdentityHolds, K!AccountBacked
    <2>5. QED
        BY <2>3, <2>4, IdentityCounts DEF K!AccountBacked
<1>12. QED
    BY <1>7, <1>8, <1>9, <1>10, <1>11 DEF K!IInv, K!IdentityHolds

\* A call's other steps move the call alone, or open an account at PalmPay.
LEMMA IdentitySteps ==
    ASSUME K!IInv, NEW c \in Calls,
           \/ K!OwnRead(c) \/ K!TakenRead(c) \/ K!Resolve(c) \/ K!UpsertRefused(c)
           \/ K!FindActive(c) \/ K!ReadIdentity(c) \/ K!Open(c) \/ K!InsertRefused(c)
    PROVE  K!IInv'
<1> DEFINE j == s6[c]
<1>1. /\ IdentityTyped /\ s5 \in 0 .. MaxAccounts
      /\ j.step # "idle" => j.u \in Users
      /\ j.step \in {"own", "taken", "provider", "upsert", "open", "insert"} => j.id \in Numbers
      /\ j.step \in {"open", "insert"} /\ j.u \notin s8 => j.id = s1[j.u]
    BY IdentityTypes DEF K!IInv, K!CallsAreTrue, K!At, IdentityTyped
<1>2. s5 \in s5 .. MaxAccounts /\ s5 \in Nat /\ MaxAccounts \in Nat
    BY <1>1, ServicesAssumption DEF ServicesAssumption
<1>3. UNCHANGED <<s1, s2, s3, s4, s7, s8>>
    BY DEF K!OwnRead, K!TakenRead, K!Resolve, K!UpsertRefused, K!FindActive, K!ReadIdentity,
           K!Open, K!InsertRefused, K!kycVars, K!vaVars, K!ghosts
<1>4. ASSUME K!End(c), s5' = s5
      PROVE  K!IInv'
    <2>1. Becomes(c, "idle", "none", "none", 0, FALSE)
        BY <1>1, <1>4, IdentityEnd DEF IdentityTyped
    <2>2. QED
        BY <1>2, <1>3, <1>4, <2>1, IdentityCallMoves
<1>5. ASSUME NEW step \in {"taken", "provider", "upsert", "identity"}, K!Goto(c, step), s5' = s5,
             j.step # "idle",
             step # "identity" => j.step \in {"own", "taken", "provider"}
      PROVE  K!IInv'
    <2>1. Becomes(c, step, j.u, j.id, j.va, j.replace)
        BY <1>1, <1>5, IdentityGoto DEF IdentityTyped
    <2>2. QED
        BY <1>1, <1>2, <1>3, <1>5, <2>1, IdentityCallMoves
<1>6. CASE K!OwnRead(c)
    BY <1>4, <1>5, <1>6 DEF K!OwnRead, K!At, K!vaVars
<1>7. CASE K!TakenRead(c)
    BY <1>4, <1>5, <1>7 DEF K!TakenRead, K!At, K!vaVars
<1>8. CASE K!Resolve(c)
    BY <1>4, <1>5, <1>8 DEF K!Resolve, K!At, K!vaVars
<1>9. CASE K!UpsertRefused(c)
    BY <1>4, <1>9 DEF K!UpsertRefused, K!vaVars
<1>10. CASE K!FindActive(c)
    BY <1>4, <1>5, <1>10 DEF K!FindActive, K!At, K!vaVars
<1>11. CASE K!ReadIdentity(c)
    <2>1. s5' = s5 /\ j.step = "identity" /\ j.u \in Users
        BY <1>1, <1>11 DEF K!ReadIdentity, K!At, K!vaVars
    <2>2. CASE s1[j.u] = "none"
        BY <1>4, <1>11, <2>1, <2>2 DEF K!ReadIdentity, K!NoNumber
    <2>3. CASE s1[j.u] # "none"
        <3>1. s1[j.u] \in Numbers
            BY <1>1, <2>1, <2>3 DEF IdentityTyped
        <3>2. s6' = [s6 EXCEPT ![c].step = "open", ![c].id = s1[j.u]]
            BY <1>11, <2>3 DEF K!ReadIdentity, K!NoNumber
        <3>3. Becomes(c, "open", j.u, s1[j.u], j.va, j.replace)
            BY <1>1, <3>1, <3>2, IdentityReads DEF IdentityTyped
        <3>4. QED
            BY <1>2, <1>3, <2>1, <3>1, <3>3, IdentityCallMoves
    <2>4. QED
        BY <2>2, <2>3
<1>12. CASE K!Open(c)
    <2>1. j.step = "open"
        BY <1>12 DEF K!Open, K!At
    <2>2. CASE K!End(c) /\ s5' = s5
        BY <1>4, <2>2
    <2>3. CASE /\ s5 < MaxAccounts /\ s5' = s5 + 1
               /\ s6' = [s6 EXCEPT ![c].step = "insert", ![c].va = s5 + 1]
        <3>1. s5 + 1 \in 0 .. MaxAccounts /\ s5' \in s5 .. MaxAccounts
            BY <1>2, <2>3
        <3>2. Becomes(c, "insert", j.u, j.id, s5 + 1, j.replace)
            BY <1>1, <2>3, <3>1, IdentityOpens DEF IdentityTyped
        <3>3. QED
            BY <1>1, <1>3, <2>1, <2>3, <3>1, <3>2, IdentityCallMoves
    <2>4. QED
        BY <1>12, <2>2, <2>3 DEF K!Open
<1>13. CASE K!InsertRefused(c)
    BY <1>4, <1>13 DEF K!InsertRefused, K!vaVars
<1>14. QED
    BY <1>6, <1>7, <1>8, <1>9, <1>10, <1>11, <1>12, <1>13

\* Every step of Identity preserves the invariant.
LEMMA IdentityNext == K!IInv /\ K!Next => K!IInv'
<1> SUFFICES ASSUME K!IInv, K!Next
             PROVE  K!IInv'
    OBVIOUS
<1>1. IdentityTyped /\ s5 \in s5 .. MaxAccounts
    <2>1. IdentityTyped
        BY IdentityTypes DEF K!IInv
    <2>2. QED
        BY <2>1, ServicesAssumption DEF IdentityTyped, ServicesAssumption
<1>2. ASSUME NEW c \in Calls, NEW u \in Users, NEW id \in Numbers, K!Submit(c, u, id)
      PROVE  K!IInv'
    <2>1. Becomes(c, "own", u, id, 0, FALSE)
        BY <1>1, <1>2, IdentitySubmit DEF IdentityTyped
    <2>2. UNCHANGED <<s1, s2, s3, s4, s5, s7, s8>>
        BY <1>2 DEF K!Submit, K!kycVars, K!vaVars, K!ghosts
    <2>3. QED
        BY <1>1, <2>1, <2>2, IdentityCallMoves
<1>3. ASSUME NEW c \in Calls, NEW u \in Users, NEW replace \in BOOLEAN, K!Asked(c, u, replace)
      PROVE  K!IInv'
    <2>1. Becomes(c, "active", u, "none", 0, replace)
        BY <1>1, <1>3, IdentityAsked DEF IdentityTyped
    <2>2. UNCHANGED <<s1, s2, s3, s4, s5, s7, s8>>
        BY <1>3 DEF K!Asked, K!kycVars, K!vaVars, K!ghosts
    <2>3. QED
        BY <1>1, <2>1, <2>2, IdentityCallMoves
<1>4. QED
    BY <1>2, <1>3, IdentitySteps, IdentityUpsert, IdentityInsert, IdentityRevoke, IdentityRehash
    DEF K!Next, K!Provision, K!Replace

\* At first nothing is opened; two customers of the salted scheme may share a
\* number.
LEMMA IdentityInit == K!Init => K!IInv
<1> SUFFICES ASSUME K!Init
             PROVE  K!IInv
    OBVIOUS
<1>1. /\ s1 \in [Users -> Numbers \cup {"none"}] /\ s2 = {u \in Users : s1[u] # "none"}
      /\ s3 = [u \in Users |-> IF s1[u] = "none" THEN 0 ELSE 1]
      /\ s4 = {} /\ s5 = 0 /\ s6 = [c \in Calls |-> K!Idle] /\ s7 = {} /\ s8 = {}
    BY DEF K!Init, K!NoNumber
<1>2. 0 \in 0 .. MaxAccounts /\ 0 \in 0 .. TopTier /\ 1 \in 0 .. TopTier
    BY ServicesAssumption DEF ServicesAssumption
<1>3. K!TypeOK
    <2>1. IdentityTyped
        BY <1>1, <1>2, IdleIsAnIdentity DEF IdentityTyped
    <2>2. QED
        BY <2>1, IdentityTypes
<1>4. K!CallsAreTrue /\ K!NumbersAreNew
    BY <1>1, IdleIsAnIdentity DEF K!CallsAreTrue, K!NumbersAreNew, K!At
<1>5. K!OneHolder /\ K!TierBacked
    BY <1>1 DEF K!OneHolder, K!TierBacked, K!HoldersBut, K!NoNumber
<1>6. K!AccountBacked
    <2>1. \A u : K!Active(u) = {}
        BY <1>1 DEF K!Active
    <2>2. Cardinality({}) = 0
        BY FS_EmptySet
    <2>3. QED
        BY <2>1, <2>2, IdentityCounts DEF K!AccountBacked
<1>7. QED
    BY <1>3, <1>4, <1>5, <1>6 DEF K!IInv, K!IdentityHolds

-----------------------------------------------------------------------------
(* The first rows of a list *)

\* Up gives those above each of Q, in a strict order.
StrictOrder(Q, Up) ==
    /\ Up \in [Q -> SUBSET Q]
    /\ \A r \in Q : r \notin Up[r]
    /\ \A r \in Q : \A s \in Up[r] : Up[s] \subseteq Up[r]
    /\ \A r, s \in Q : r # s => r \in Up[s] \/ s \in Up[r]

FirstOf(Q, Up, n) == {r \in Q : Cardinality(Up[r]) < n}

\* In a strict order of finitely many, with those above each of them: the first
\* n are n, unless all are fewer; the others are below each of them; one of
\* them is the last.
LEMMA TopOfOrder ==
    ASSUME NEW Q, IsFiniteSet(Q), NEW Up, StrictOrder(Q, Up), NEW n \in Nat \ {0},
           NEW top, top = FirstOf(Q, Up, n)
    PROVE  /\ IsFiniteSet(top) /\ Cardinality(top) \in 0 .. n
           /\ top # Q => Cardinality(top) = n
           /\ \A r \in Q \ top, t \in top : t \in Up[r]
           /\ top # {} => \E z \in top : \A t \in top \ {z} : t \in Up[z]
           /\ Q # {} => top # {}
<1> DEFINE rank(r) == Cardinality(Up[r])
<1>0. /\ Up \in [Q -> SUBSET Q]
      /\ \A r \in Q : r \notin Up[r]
      /\ \A r \in Q : \A s \in Up[r] : Up[s] \subseteq Up[r]
      /\ \A r, s \in Q : r # s => r \in Up[s] \/ s \in Up[r]
      /\ top = {r \in Q : Cardinality(Up[r]) < n}
    BY DEF StrictOrder, FirstOf
<1>1. \A r \in Q : IsFiniteSet(Up[r]) /\ rank(r) \in Nat
    BY <1>0, FS_Subset, FS_CardinalityType
<1>2. \A r \in Q : \A s \in Up[r] : rank(s) < rank(r)
    <2>1. SUFFICES ASSUME NEW r \in Q, NEW s \in Up[r]
                   PROVE  rank(s) < rank(r)
        OBVIOUS
    <2>2. s \in Q /\ s \notin Up[s] /\ Up[s] \in SUBSET Up[r] /\ Up[s] # Up[r]
        BY <1>0, <2>1
    <2>3. rank(s) <= rank(r) /\ rank(r) # rank(s)
        BY <1>1, <2>2, FS_Subset
    <2>4. QED
        BY <1>1, <2>2, <2>3
<1>3. \A r \in Q : r \in top <=> rank(r) < n
    BY <1>0
<1> HIDE DEF rank
<1>4. IsFiniteSet(top) /\ Cardinality(top) \in Nat /\ top \in SUBSET Q
    BY <1>0, FS_Subset, FS_CardinalityType
<1>5. \A r \in Q \ top, t \in top : t \in Up[r]
    <2>1. SUFFICES ASSUME NEW r \in Q \ top, NEW t \in top, t \notin Up[r]
                   PROVE  FALSE
        OBVIOUS
    <2>2. r \in Up[t] /\ t \in Q /\ r \in Q
        BY <1>0, <1>4, <2>1
    <2>3. rank(r) < rank(t) /\ ~(rank(r) < n) /\ rank(t) < n /\ rank(r) \in Nat /\ rank(t) \in Nat
        BY <1>1, <1>2, <1>3, <2>1, <2>2
    <2>4. QED
        BY <2>3
<1>6. top # {} => \E z \in top : \A t \in top \ {z} : t \in Up[z]
    <2>1. SUFFICES ASSUME top # {}
                   PROVE  \E z \in top : \A t \in top \ {z} : t \in Up[z]
        OBVIOUS
    <2>2. \A t \in top : rank(t) \in Nat /\ rank(t) < n /\ n - rank(t) \in Nat
        BY <1>1, <1>3, <1>4
    <2>3. {n - rank(t) : t \in top} \in SUBSET Nat /\ {n - rank(t) : t \in top} # {}
        BY <2>1, <2>2
    <2>4. PICK x \in {n - rank(t) : t \in top} : \A y \in {n - rank(t) : t \in top} : x <= y
        BY <2>3, LeastNumber
    <2>5. PICK z \in top : x = n - rank(z)
        BY <2>4
    <2>6. \A t \in top : n - rank(z) <= n - rank(t)
        BY <2>4, <2>5
    <2>7. \A t \in top : ~(rank(z) < rank(t))
        BY <2>2, <2>6
    <2>8. \A t \in top \ {z} : t \in Up[z]
        BY <1>0, <1>2, <1>4, <2>7
    <2>9. QED
        BY <2>8
<1>7. Cardinality(top) <= n
    <2>1. CASE top = {}
        BY <2>1, FS_EmptySet
    <2>2. CASE top # {}
        <3>1. PICK z \in top : \A t \in top \ {z} : t \in Up[z]
            BY <1>6, <2>2
        <3>2. /\ top \in SUBSET (Up[z] \cup {z}) /\ IsFiniteSet(Up[z]) /\ rank(z) \in Nat
              /\ rank(z) < n /\ z \notin Up[z]
            BY <1>0, <1>1, <1>3, <1>4, <3>1
        <3>3. IsFiniteSet(Up[z] \cup {z}) /\ Cardinality(Up[z] \cup {z}) = rank(z) + 1
            BY <3>2, FS_AddElement DEF rank
        <3>4. Cardinality(top) <= rank(z) + 1
            BY <3>2, <3>3, FS_Subset
        <3>5. QED
            BY <1>4, <3>2, <3>4
    <2>3. QED
        BY <2>1, <2>2
<1>8. top # Q => Cardinality(top) = n
    <2>1. SUFFICES ASSUME top # Q
                   PROVE  n <= Cardinality(top)
        BY <1>4, <1>7
    <2>2. \A r \in Q \ top : rank(r) \in Nat /\ ~(rank(r) < n)
        BY <1>1, <1>3
    <2>3. {rank(r) : r \in Q \ top} \in SUBSET Nat /\ {rank(r) : r \in Q \ top} # {}
        BY <1>4, <2>1, <2>2
    <2>4. PICK x \in {rank(r) : r \in Q \ top} : \A y \in {rank(r) : r \in Q \ top} : x <= y
        BY <2>3, LeastNumber
    <2>5. PICK z \in Q \ top : x = rank(z)
        BY <2>4
    <2>6. \A r \in Q \ top : rank(z) <= rank(r)
        BY <2>4, <2>5
    <2>7. Up[z] \in SUBSET top
        <3>1. SUFFICES ASSUME NEW r \in Up[z], r \notin top
                       PROVE  FALSE
            OBVIOUS
        <3>2. r \in Q /\ rank(r) < rank(z) /\ rank(z) <= rank(r)
            BY <1>0, <1>2, <2>5, <2>6, <3>1
        <3>3. QED
            BY <1>1, <2>2, <2>5, <3>2
    <2>8. rank(z) <= Cardinality(top)
        BY <1>4, <2>7, FS_Subset DEF rank
    <2>9. QED
        BY <1>4, <2>2, <2>5, <2>8
<1>9. Q # {} => top # {}
    BY <1>8, FS_EmptySet
<1>10. QED
    BY <1>4, <1>5, <1>6, <1>7, <1>8, <1>9

-----------------------------------------------------------------------------
(* The feed: s1 rows, s2 matched, s3 limit, s4 cursor, s5 logRead, s6      *)
(* inflowRead, s7 finished, s8 first, s9 shown, s10 repeated               *)

\* The feed counts as everybody does.
LEMMA FeedCounts == \A Q : F!Cardinality(Q) = Cardinality(Q) /\ (F!IsFiniteSet(Q) <=> IsFiniteSet(Q))
BY DEF F!Cardinality, Cardinality, F!IsFiniteSet, IsFiniteSet

\* The rows, and what numbers they have.
FeedTyped ==
    /\ s1 \subseteq F!Rows /\ s2 \subseteq s1 /\ s3 \in Nat \ {0} /\ s3 \in PageSizes
    /\ s4 \in F!Rows \cup {F!NoRow}
    /\ s5 \subseteq F!Rows \cup {F!NoRow} /\ s6 \subseteq F!Rows \cup {F!NoRow}
    /\ s7 \in BOOLEAN
    /\ s8 \subseteq s1 /\ s9 \subseteq s1 /\ s10 \subseteq s9

\* It is the one that Feed states.
LEMMA FeedTypes == F!TypeOK <=> FeedTyped
BY ServicesAssumption DEF ServicesAssumption, F!TypeOK, FeedTyped

\* What a row has, and that no row has none.
LEMMA RowNumbers ==
    /\ F!NoRow \notin F!Rows
    /\ \A r \in F!Rows : r.id \in Nat /\ r.at \in Nat /\ r.source \in {"log", "inflow"}
<1>1. F!NoRow.source = "none"
    BY DEF F!NoRow
<1>2. \A r \in F!Rows : r.id \in Ids /\ r.at \in Times /\ r.source \in {"log", "inflow"}
    BY DEF F!Rows, F!Row
<1>3. QED
    BY <1>1, <1>2, ServicesAssumption DEF ServicesAssumption

\* The two orders are strict and total: that of one query, of one source, and
\* that of the merged list, which without a tie is the same.
LEMMA NewerOrders ==
    ASSUME FeedTyped, NEW Q \in SUBSET s1, \A r, s \in Q : r.id = s.id => r = s
    PROVE  /\ \A r \in Q : ~F!Newer(r, r)
           /\ \A r, s, t \in Q : F!Newer(t, s) /\ F!Newer(s, r) => F!Newer(t, r)
           /\ \A r, s \in Q : r # s => F!Newer(r, s) \/ F!Newer(s, r)
<1>1. \A r \in Q : r.id \in Nat /\ r.at \in Nat
    BY RowNumbers DEF FeedTyped
<1>2. QED
    BY <1>1 DEF F!Newer

\* And so does what the page sorts by, which is newer rows first but for ties.
LEMMA AboveOrders ==
    ASSUME FeedTyped, NEW Q \in SUBSET s1, \A r, s \in Q : r.id = s.id => r = s
    PROVE  /\ \A r \in Q : ~F!Above(r, r)
           /\ \A r, s, t \in Q : F!Above(t, s) /\ F!Above(s, r) => F!Above(t, r)
           /\ \A r, s \in Q : r # s => F!Above(r, s) \/ F!Above(s, r)
           /\ ~F!Tie => \A r, s \in Q : F!Above(r, s) => F!Newer(r, s)
<1>1. \A r \in Q : r.id \in Nat /\ r.at \in Nat /\ r.source \in {"log", "inflow"} /\ r \in s1
    BY RowNumbers DEF FeedTyped
<1>2. \A r \in Q : ~F!Above(r, r)
    BY <1>1 DEF F!Newer, F!Above
<1>3. \A r, s, t \in Q : F!Above(t, s) /\ F!Above(s, r) => F!Above(t, r)
    BY <1>1 DEF F!Newer, F!Above
<1>4. \A r, s \in Q : r # s => F!Above(r, s) \/ F!Above(s, r)
    BY <1>1 DEF F!Newer, F!Above
<1>5. ~F!Tie => \A r, s \in Q : F!Above(r, s) => F!Newer(r, s)
    BY <1>1 DEF F!Newer, F!Above, F!Tie
<1>6. QED
    BY <1>2, <1>3, <1>4, <1>5

\* The first rows of a query, and of the merged list.
NewestOf(Q)  == {r \in Q : Cardinality({s \in Q : F!Newer(s, r)}) < s3}
HighestOf(Q) == {r \in Q : Cardinality({s \in Q : F!Above(s, r)}) < s3}

\* What a query returns, of the rows below the cursor.
LEMMA QueryReturns ==
    ASSUME F!IInv, NEW Q \in SUBSET s1, NEW top, top = NewestOf(Q)
    PROVE  /\ top \subseteq Q /\ Cardinality(top) \in 0 .. s3
           /\ \A r \in Q : \/ r \in top
                          \/ (Cardinality(top) = s3 /\ \A s \in top : F!Newer(s, r))
<1> DEFINE Up == [r \in Q |-> {s \in Q : F!Newer(s, r)}]
<1>1. FeedTyped /\ IsFiniteSet(s1) /\ \A r, s \in s1 : r.id = s.id => r = s
    BY FeedTypes, FeedCounts DEF F!IInv, F!CursorHolds, F!Distinct
<1>2. IsFiniteSet(Q)
    BY <1>1, FS_Subset
<1>3. /\ \A r \in Q : ~F!Newer(r, r)
      /\ \A r, s, t \in Q : F!Newer(t, s) /\ F!Newer(s, r) => F!Newer(t, r)
      /\ \A r, s \in Q : r # s => F!Newer(r, s) \/ F!Newer(s, r)
    BY <1>1, <1>2, NewerOrders
<1>4. StrictOrder(Q, Up)
    BY <1>3 DEF StrictOrder
<1>5. top = FirstOf(Q, Up, s3)
    BY DEF FirstOf, NewestOf
<1>6. \A r \in Q : \A s \in Up[r] : F!Newer(s, r)
    OBVIOUS
<1>7. s3 \in Nat \ {0}
    BY <1>1 DEF FeedTyped
<1> HIDE DEF Up
<1>8. /\ Cardinality(top) \in 0 .. s3
      /\ top # Q => Cardinality(top) = s3
      /\ \A r \in Q \ top, t \in top : t \in Up[r]
    BY <1>2, <1>4, <1>5, <1>7, TopOfOrder
<1>9. top \subseteq Q
    BY <1>5 DEF FirstOf
<1>10. QED
    BY <1>6, <1>8, <1>9

\* What a page is, of what the two queries have returned.
LEMMA PageReturns ==
    ASSUME F!IInv, NEW Q \in SUBSET s1, NEW page, page = HighestOf(Q)
    PROVE  /\ page \in SUBSET Q /\ IsFiniteSet(page) /\ Cardinality(page) \in 0 .. s3
           /\ page # Q => Cardinality(page) = s3
           /\ \A r \in Q \ page, t \in page : F!Above(t, r)
           /\ page # {} => /\ F!Last(page) \in page
                           /\ \A t \in page \ {F!Last(page)} : F!Above(t, F!Last(page))
           /\ Q # {} => page # {}
<1> DEFINE Up == [r \in Q |-> {s \in Q : F!Above(s, r)}]
<1>1. FeedTyped /\ IsFiniteSet(s1) /\ \A r, s \in s1 : r.id = s.id => r = s
    BY FeedTypes, FeedCounts DEF F!IInv, F!CursorHolds, F!Distinct
<1>2. IsFiniteSet(Q) /\ \A r, s \in Q : r.id = s.id => r = s
    BY <1>1, FS_Subset
<1>3. /\ \A r \in Q : ~F!Above(r, r)
      /\ \A r, s, t \in Q : F!Above(t, s) /\ F!Above(s, r) => F!Above(t, r)
      /\ \A r, s \in Q : r # s => F!Above(r, s) \/ F!Above(s, r)
    BY <1>1, <1>2, AboveOrders
<1>4. StrictOrder(Q, Up)
    BY <1>3 DEF StrictOrder
<1>5. page = FirstOf(Q, Up, s3)
    BY DEF FirstOf, HighestOf
<1>6. \A r \in Q : \A s \in Up[r] : F!Above(s, r)
    OBVIOUS
<1>7. s3 \in Nat \ {0}
    BY <1>1 DEF FeedTyped
<1> HIDE DEF Up
<1>8. /\ IsFiniteSet(page) /\ Cardinality(page) \in 0 .. s3
      /\ page # Q => Cardinality(page) = s3
      /\ \A r \in Q \ page, t \in page : t \in Up[r]
      /\ page # {} => \E z \in page : \A t \in page \ {z} : t \in Up[z]
      /\ Q # {} => page # {}
    BY <1>2, <1>4, <1>5, <1>7, TopOfOrder
<1>9. page \subseteq Q
    BY <1>5 DEF FirstOf
<1>10. page # {} => /\ F!Last(page) \in page
                    /\ \A t \in page \ {F!Last(page)} : F!Above(t, F!Last(page))
    <2>1. page # {} => \E z \in page : \A t \in page \ {z} : F!Above(t, z)
        BY <1>6, <1>8, <1>9
    <2>2. QED
        BY <2>1 DEF F!Last
<1>11. QED
    BY <1>6, <1>8, <1>9, <1>10

\* What a query has returned holds, whatever has appeared or been matched since.
LEMMA QueryStays ==
    ASSUME F!IInv, s1 \subseteq s1', s2 \subseteq s2', UNCHANGED <<s3, s4, s8>>,
           NEW read, NEW source, F!QueryHolds(read, source)
    PROVE  F!QueryHolds(read, source)'
<1>1. \A r : F!Older(r)' = F!Older(r)
    BY DEF F!Older
<1>2. s8 \subseteq s1
    BY FeedTypes DEF F!IInv, FeedTyped
<1>3. CASE read = F!NotRead
    BY <1>3 DEF F!QueryHolds, F!NotRead, F!NoRow
<1>4. CASE read # F!NotRead
    <2>1. /\ read \subseteq {r \in s1 : r.source = source /\ F!Older(r)} /\ Cardinality(read) <= s3
          /\ \A r \in (s8 \ s2) \cap {q \in s1 : q.source = source /\ F!Older(q)} :
                r \in read \/ (Cardinality(read) = s3 /\ \A s \in read : F!Newer(s, r))
        BY <1>4, FeedCounts DEF F!QueryHolds, F!Below
    <2>2. read \subseteq {r \in s1' : r.source = source /\ F!Older(r)}
        BY <2>1
    <2>3. \A r \in (s8 \ s2') \cap {q \in s1' : q.source = source /\ F!Older(q)} :
             r \in read \/ (Cardinality(read) = s3 /\ \A s \in read : F!Newer(s, r))
        BY <1>2, <2>1
    <2>4. QED
        BY <1>1, <2>1, <2>2, <2>3, FeedCounts DEF F!QueryHolds, F!Below, F!NotRead, F!NoRow, F!Newer
<1>5. QED
    BY <1>3, <1>4

\* A row appears, or a transfer is credited.
LEMMA FeedGrows ==
    ASSUME F!IInv, s1' \subseteq F!Rows, s1 \subseteq s1', s2 \subseteq s2', s2' \subseteq s1',
           UNCHANGED <<s3, s4, s5, s6, s7, s8, s9, s10>>, ~s7,
           IsFiniteSet(s1'), \A r, s \in s1' : r.id = s.id => r = s
    PROVE  F!IInv'
<1>1. FeedTyped
    BY FeedTypes DEF F!IInv
<1>2. F!TypeOK'
    BY <1>1 DEF FeedTyped, F!TypeOK
<1>3. /\ F!QueryHolds(s5, "log")' /\ F!QueryHolds(s6, "inflow")'
    <2>1. \A read : F!QueryHolds(read, "log") => F!QueryHolds(read, "log")'
        BY QueryStays
    <2>2. \A read : F!QueryHolds(read, "inflow") => F!QueryHolds(read, "inflow")'
        BY QueryStays
    <2>3. QED
        BY <2>1, <2>2 DEF F!IInv
<1>4. (F!Tie => F!Tie') /\ (F!Hidden => F!Hidden')
    BY DEF F!Tie, F!Hidden
<1>5. \A r : F!Older(r)' = F!Older(r)
    BY DEF F!Older
<1>6. F!CursorHolds'
    BY <1>4, <1>5, FeedCounts DEF F!IInv, F!CursorHolds, F!Distinct
<1>7. F!FeedHolds'
    BY <1>4 DEF F!IInv, F!FeedHolds
<1>8. QED
    BY <1>2, <1>3, <1>6, <1>7 DEF F!IInv

\* A query of the page is answered.
LEMMA FeedReads ==
    ASSUME F!IInv, F!ReadLog \/ F!ReadInflows
    PROVE  F!IInv'
<1>1. FeedTyped /\ s8 \subseteq s1 /\ ~s7
    BY FeedTypes DEF F!IInv, FeedTyped, F!ReadLog, F!ReadInflows
<1>2. UNCHANGED <<s1, s2, s3, s4, s7, s8, s9, s10>>
    BY DEF F!ReadLog, F!ReadInflows
<1>3. ASSUME NEW source \in {"log", "inflow"}, NEW top, top = F!Query(source)
      PROVE  top \subseteq F!Rows /\ F!QueryHolds(top, source)
    <2> DEFINE Q == {r \in s1 \ s2 : r.source = source /\ F!Older(r)}
    <2>1. Q \in SUBSET s1 /\ top = NewestOf(Q)
        BY <1>3, FeedCounts DEF F!Query, F!Top, NewestOf
    <2> HIDE DEF Q
    <2>2. /\ top \subseteq Q /\ Cardinality(top) \in 0 .. s3
          /\ \A r \in Q : r \in top \/ (Cardinality(top) = s3 /\ \A s \in top : F!Newer(s, r))
        BY <2>1, QueryReturns
    <2>3. Cardinality(top) <= s3
        BY <1>1, <2>2 DEF FeedTyped
    <2>4. top \subseteq F!Rows
        BY <1>1, <2>1, <2>2 DEF FeedTyped
    <2>5. F!QueryHolds(top, source)
        BY <1>1, <2>2, <2>3, FeedCounts DEF F!QueryHolds, F!Below, Q
    <2>6. QED
        BY <2>4, <2>5
<1>4. \A read, source : F!QueryHolds(read, source) => F!QueryHolds(read, source)'
    BY <1>2, QueryStays
<1>5. F!CursorHolds' /\ F!FeedHolds'
    <2>1. (F!Tie' <=> F!Tie) /\ (F!Hidden' <=> F!Hidden)
        BY <1>2 DEF F!Tie, F!Hidden
    <2>2. \A r : F!Older(r)' = F!Older(r)
        BY <1>2 DEF F!Older
    <2>3. QED
        BY <1>2, <2>1, <2>2, FeedCounts DEF F!IInv, F!CursorHolds, F!FeedHolds, F!Distinct
<1>6. CASE F!ReadLog
    <2>1. s6' = s6 /\ s5' \subseteq F!Rows /\ F!QueryHolds(s5', "log")
        BY <1>3, <1>6 DEF F!ReadLog
    <2>2. F!QueryHolds(s5, "log")' /\ F!QueryHolds(s6, "inflow")'
        BY <1>4, <2>1 DEF F!IInv
    <2>3. F!TypeOK'
        BY <1>1, <1>2, <2>1 DEF FeedTyped, F!TypeOK
    <2>4. QED
        BY <1>5, <2>2, <2>3 DEF F!IInv
<1>7. CASE F!ReadInflows
    <2>1. s5' = s5 /\ s6' \subseteq F!Rows /\ F!QueryHolds(s6', "inflow")
        BY <1>3, <1>7 DEF F!ReadInflows
    <2>2. F!QueryHolds(s5, "log")' /\ F!QueryHolds(s6, "inflow")'
        BY <1>4, <2>1 DEF F!IInv
    <2>3. F!TypeOK'
        BY <1>1, <1>2, <2>1 DEF FeedTyped, F!TypeOK
    <2>4. QED
        BY <1>5, <2>2, <2>3 DEF F!IInv
<1>8. QED
    BY <1>6, <1>7

\* The page: it is below what has been shown, and what is left is below it.
LEMMA FeedAnswers ==
    ASSUME F!IInv, F!Answer, NEW page, page = HighestOf(F!Merged)
    PROVE  F!IInv'
<1> DEFINE Q == F!Merged
           z == F!Last(page)
<1>1. /\ FeedTyped /\ ~s7 /\ s3 \in Nat \ {0}
      /\ \A r \in F!Rows : r.id \in Nat /\ r.at \in Nat /\ r.source \in {"log", "inflow"}
    BY FeedTypes, RowNumbers DEF F!IInv, F!Answer, FeedTyped
<1>2. /\ s5 # F!NotRead /\ s6 # F!NotRead
      /\ s9' = s9 \cup page /\ s10' = s10 \cup (page \cap s9)
      /\ IF F!HasMore /\ page # {} THEN s4' = z /\ s7' = s7 ELSE s7' = TRUE /\ s4' = s4
      /\ s5' = F!NotRead /\ s6' = F!NotRead /\ UNCHANGED <<s1, s2, s3, s8>>
    BY FeedCounts DEF F!Answer, F!Top, HighestOf
<1>3. /\ s5 \subseteq {r \in s1 : r.source = "log" /\ F!Older(r)}
      /\ s6 \subseteq {r \in s1 : r.source = "inflow" /\ F!Older(r)}
      /\ Q = s5 \cup {r \in s6 : r.trusted} /\ Q \in SUBSET s1
      /\ \A r \in Q : F!Older(r)
    BY <1>2 DEF F!IInv, F!QueryHolds, F!Below, F!Merged
<1>4. /\ page \in SUBSET Q /\ IsFiniteSet(page) /\ Cardinality(page) \in 0 .. s3
      /\ page # Q => Cardinality(page) = s3
      /\ \A r \in Q \ page, t \in page : F!Above(t, r)
      /\ page # {} => z \in page /\ \A t \in page \ {z} : F!Above(t, z)
      /\ Q # {} => page # {}
    <2>1. Q \in SUBSET s1 /\ page = HighestOf(Q)
        BY <1>3
    <2> HIDE DEF Q
    <2>2. QED
        BY <2>1, PageReturns
<1>5. \A r, s \in s1 : ~F!Tie /\ F!Above(r, s) => F!Newer(r, s)
    BY <1>1, AboveOrders DEF F!IInv, F!CursorHolds, F!Distinct
\* What a query has missed is below a full one.
<1>6. ASSUME NEW r \in s8 \ s2, F!Older(r)
      PROVE  \E read \in {s5, s6} :
                /\ F!Hidden \/ read \subseteq Q
                /\ \/ r \in read
                   \/ Cardinality(read) = s3 /\ \A s \in read : F!Newer(s, r)
    <2>1. r \in s1 /\ r.source \in {"log", "inflow"}
        BY <1>1, <1>6 DEF FeedTyped
    <2>2. CASE r.source = "log"
        <3>1. r \in s5 \/ (Cardinality(s5) = s3 /\ \A s \in s5 : F!Newer(s, r))
            BY <1>2, <1>6, <2>1, <2>2, FeedCounts DEF F!IInv, F!QueryHolds, F!Below
        <3>2. QED
            BY <1>3, <3>1
    <2>3. CASE r.source = "inflow"
        <3>1. r \in s6 \/ (Cardinality(s6) = s3 /\ \A s \in s6 : F!Newer(s, r))
            BY <1>2, <1>6, <2>1, <2>3, FeedCounts DEF F!IInv, F!QueryHolds, F!Below
        <3>2. F!Hidden \/ s6 \subseteq Q
            BY <1>3 DEF F!Hidden
        <3>3. QED
            BY <3>1, <3>2
    <2>4. QED
        BY <2>1, <2>2, <2>3
<1> HIDE DEF Q, z
<1>7. F!TypeOK'
    <2>1. page \subseteq s1 /\ s1 \subseteq F!Rows /\ (page # {} => z \in F!Rows)
        BY <1>1, <1>3, <1>4 DEF FeedTyped
    <2>2. /\ s4' \in F!Rows \cup {F!NoRow} /\ s7' \in BOOLEAN /\ s9' \subseteq s1 /\ s10' \subseteq s9'
        BY <1>1, <1>2, <2>1 DEF FeedTyped
    <2>3. s5' = {F!NoRow} /\ s6' = {F!NoRow}
        BY <1>2 DEF F!NotRead
    <2>4. QED
        BY <1>1, <1>2, <2>2, <2>3 DEF FeedTyped, F!TypeOK
<1>8. F!QueryHolds(s5, "log")' /\ F!QueryHolds(s6, "inflow")'
    BY <1>2 DEF F!QueryHolds, F!NotRead, F!NoRow
<1>9. (F!Tie' <=> F!Tie) /\ (F!Hidden' <=> F!Hidden)
    BY <1>2 DEF F!Tie, F!Hidden
\* Nothing below the cursor has been shown.
<1>10. ~F!Tie => page \cap s9 = {}
    BY <1>1, <1>3, <1>4 DEF F!IInv, F!CursorHolds
<1>11. ASSUME F!HasMore, page # {}
       PROVE  F!CursorHolds' /\ F!FeedHolds'
    <2>1. /\ s4' = z /\ ~s7' /\ z \in page /\ z \in Q /\ z \in s1 /\ z \in F!Rows /\ z # F!NoRow
          /\ F!Older(z)
        BY <1>1, <1>2, <1>3, <1>4, <1>11, RowNumbers DEF FeedTyped
    <2>2. \A r : F!Older(r)' <=> F!Newer(z, r)
        <3>1. SUFFICES ASSUME NEW r
                       PROVE  F!Older(r)' <=> (r.at < z.at \/ (r.at = z.at /\ r.id < z.id))
            BY DEF F!Newer
        <3>2. QED
            BY <2>1 DEF F!Older
    <2>3. ASSUME ~F!Tie
          PROVE  \A r \in s9 \cup page : ~F!Newer(z, r)
        <3>1. SUFFICES ASSUME NEW r \in s9 \cup page
                       PROVE  ~F!Newer(z, r)
            OBVIOUS
        <3>2. r \in s1 /\ r.at \in Nat /\ r.id \in Nat /\ z.at \in Nat /\ z.id \in Nat
            BY <1>1, <1>3, <1>4, <2>1, <3>1 DEF FeedTyped
        <3>3. CASE r \in s9
            <4>1. ~F!Older(r)
                BY <1>1, <2>3, <3>3 DEF F!IInv, F!CursorHolds
            <4>2. s4.at \in Nat /\ s4.id \in Nat
                BY <1>1, <4>1 DEF FeedTyped, F!Older
            <4>3. QED
                BY <2>1, <3>2, <4>1, <4>2 DEF F!Older, F!Newer
        <3>4. CASE r = z
            BY <3>2, <3>4 DEF F!Newer
        <3>5. CASE r \in page /\ r # z
            <4>1. F!Newer(r, z)
                BY <1>4, <1>5, <2>1, <2>3, <3>2, <3>5
            <4>2. QED
                BY <3>2, <4>1 DEF F!Newer
        <3>6. QED
            BY <3>1, <3>3, <3>4, <3>5
    <2>4. ASSUME ~F!Tie, ~F!Hidden, NEW r \in s8 \ s2, r \notin s9, r \notin page
          PROVE  F!Newer(z, r)
        <3>1. F!Older(r) /\ r \in s1
            BY <1>1, <2>4 DEF F!IInv, F!CursorHolds, FeedTyped
        <3>2. PICK read \in {s5, s6} :
                 /\ read \subseteq Q
                 /\ r \in read \/ (Cardinality(read) = s3 /\ \A s \in read : F!Newer(s, r))
            BY <1>6, <2>4, <3>1
        <3>3. CASE r \in read
            BY <1>3, <1>4, <1>5, <2>1, <2>4, <3>1, <3>2, <3>3
        <3>4. CASE Cardinality(read) = s3 /\ \A s \in read : F!Newer(s, r)
            <4>1. CASE z \in read
                BY <3>4, <4>1
            <4>2. CASE z \notin read
                <5>1. PICK s \in read : s \notin page
                    <6>1. SUFFICES ASSUME read \subseteq page
                                   PROVE  FALSE
                        OBVIOUS
                    <6>2. /\ IsFiniteSet(page \ {z}) /\ Cardinality(page \ {z}) = Cardinality(page) - 1
                        BY <1>4, <2>1, FS_RemoveElement
                    <6>3. read \in SUBSET (page \ {z})
                        BY <4>2, <6>1
                    <6>4. Cardinality(read) <= Cardinality(page) - 1
                        BY <6>2, <6>3, FS_Subset
                    <6>5. QED
                        BY <1>1, <1>4, <3>4, <6>4
                <5>2. F!Newer(z, s) /\ F!Newer(s, r) /\ s \in s1
                    BY <1>3, <1>4, <1>5, <2>1, <2>4, <3>2, <3>4, <5>1
                <5>3. QED
                    <6>1. \A q \in s1 : q.at \in Nat /\ q.id \in Nat
                        BY <1>1 DEF FeedTyped
                    <6>2. QED
                        BY <2>1, <3>1, <5>2, <6>1 DEF F!Newer
            <4>3. QED
                BY <4>1, <4>2
        <3>5. QED
            BY <3>2, <3>3, <3>4
    <2>5. F!CursorHolds'
        <3>1. IsFiniteSet(s1') /\ F!Distinct(s1') /\ s4' \in s1'
            BY <1>2, <2>1, FeedCounts DEF F!IInv, F!CursorHolds, F!Distinct
        <3>2. ~F!Tie' => \A r \in s9' : ~F!Older(r)'
            BY <1>2, <1>9, <2>2, <2>3
        <3>3. ~F!Tie' /\ ~F!Hidden' => \A r \in s8' \ s2' : r \in s9' \/ F!Older(r)'
            BY <1>2, <1>9, <2>2, <2>4
        <3>4. QED
            BY <3>1, <3>2, <3>3, FeedCounts DEF F!CursorHolds, F!Distinct
    <2>6. F!FeedHolds'
        BY <1>2, <1>9, <1>10, <2>1 DEF F!IInv, F!FeedHolds
    <2>7. QED
        BY <2>5, <2>6
\* The last page: nothing is left below it.
<1>12. ASSUME ~(F!HasMore /\ page # {})
       PROVE  F!CursorHolds' /\ F!FeedHolds'
    <2>1. s7' /\ s4' = s4
        BY <1>2, <1>12
    <2>2. F!CursorHolds'
        BY <1>2, <2>1, FeedCounts DEF F!IInv, F!CursorHolds, F!Distinct
    <2>3. ASSUME ~F!Tie, ~F!Hidden
          PROVE  s8 \ s2 \subseteq s9 \cup page
        <3>1. SUFFICES ASSUME NEW r \in s8 \ s2, r \notin s9, r \notin page
                       PROVE  FALSE
            OBVIOUS
        <3>2. F!Older(r)
            BY <1>1, <2>3, <3>1 DEF F!IInv, F!CursorHolds
        <3>3. PICK read \in {s5, s6} :
                 /\ read \subseteq Q
                 /\ r \in read \/ Cardinality(read) = s3
            BY <1>6, <2>3, <3>1, <3>2
        <3>4. CASE Cardinality(read) = s3
            <4>1. F!HasMore
                BY <3>3, <3>4, FeedCounts DEF F!HasMore
            <4>2. read # {}
                BY <1>1, <3>4, FS_EmptySet
            <4>3. page # {}
                BY <1>4, <3>3, <4>2
            <4>4. QED
                BY <1>12, <4>1, <4>3
        <3>5. CASE r \in read
            <4>1. page # Q /\ Cardinality(page) = s3 /\ page # {}
                BY <1>4, <3>1, <3>3, <3>5
            <4>2. IsFiniteSet(Q)
                BY <1>3, FS_Subset, FeedCounts DEF F!IInv, F!CursorHolds
            <4>3. Cardinality(Q) > s3
                <5>1. Cardinality(page) <= Cardinality(Q) /\ Cardinality(page) # Cardinality(Q)
                    BY <1>4, <4>1, <4>2, FS_Subset
                <5>2. Cardinality(Q) \in Nat
                    BY <4>2, FS_CardinalityType
                <5>3. QED
                    BY <1>1, <4>1, <5>1, <5>2
            <4>4. F!HasMore
                BY <4>3, FeedCounts DEF F!HasMore, Q
            <4>5. QED
                BY <1>12, <4>1, <4>4
        <3>6. QED
            BY <3>3, <3>4, <3>5
    <2>4. F!FeedHolds'
        BY <1>1, <1>2, <1>9, <1>10, <2>3 DEF F!IInv, F!FeedHolds
    <2>5. QED
        BY <2>2, <2>4
<1>13. QED
    BY <1>7, <1>8, <1>11, <1>12 DEF F!IInv

\* Every step of the feed preserves the invariant.
LEMMA FeedNext == F!IInv /\ F!Next => F!IInv'
<1> SUFFICES ASSUME F!IInv, F!Next
             PROVE  F!IInv'
    OBVIOUS
<1>1. FeedTyped /\ IsFiniteSet(s1) /\ \A r, s \in s1 : r.id = s.id => r = s
    BY FeedTypes, FeedCounts DEF F!IInv, F!CursorHolds, F!Distinct
<1>2. CASE F!Appear
    <2>1. PICK r \in F!Rows \ s1 : F!Distinct(s1 \cup {r}) /\ s1' = s1 \cup {r}
        BY <1>2 DEF F!Appear
    <2>2. IsFiniteSet(s1') /\ \A q, s \in s1' : q.id = s.id => q = s
        BY <1>1, <2>1, FS_AddElement DEF F!Distinct
    <2>3. /\ s1 \subseteq s1' /\ s1' \subseteq F!Rows /\ s2 \subseteq s2' /\ s2' \subseteq s1' /\ ~s7
          /\ UNCHANGED <<s3, s4, s5, s6, s7, s8, s9, s10>>
        BY <1>1, <1>2, <2>1 DEF F!Appear, FeedTyped
    <2>4. QED
        BY <2>2, <2>3, FeedGrows
<1>3. ASSUME NEW r \in s1, F!Matched(r)
      PROVE  F!IInv'
    <2>1. /\ s1 \subseteq s1' /\ s1' \subseteq F!Rows /\ s2 \subseteq s2' /\ s2' \subseteq s1' /\ ~s7
          /\ s1' = s1 /\ UNCHANGED <<s3, s4, s5, s6, s7, s8, s9, s10>>
        BY <1>1, <1>3 DEF F!Matched, FeedTyped
    <2>2. QED
        BY <1>1, <2>1, FeedGrows
<1>4. CASE F!Answer
    BY <1>4, FeedAnswers
<1>5. QED
    BY <1>2, <1>3, <1>4, FeedReads DEF F!Next

\* Nothing is shown at first.
LEMMA FeedInit == F!Init => F!IInv
<1> SUFFICES ASSUME F!Init
             PROVE  F!IInv
    OBVIOUS
<1>1. PICK present \in SUBSET Ids :
         s1 \in {{f[i] : i \in present} :
                   f \in {g \in [present -> F!Rows] : \A i \in present : g[i].id = i}}
    BY DEF F!Init
<1>2. PICK f \in [present -> F!Rows] :
         s1 = {f[i] : i \in present} /\ \A i \in present : f[i].id = i
    BY <1>1
<1>3. /\ s3 \in PageSizes /\ s4 = F!NoRow /\ s5 = F!NotRead /\ s6 = F!NotRead /\ s7 = FALSE
      /\ s8 = s1 /\ s2 = {} /\ s9 = {} /\ s10 = {}
    BY DEF F!Init
<1>4. F!TypeOK
    BY <1>2, <1>3 DEF F!TypeOK, F!NotRead
<1>5. IsFiniteSet(s1) /\ \A r, s \in s1 : r.id = s.id => r = s
    <2>1. IsFiniteSet(present)
        BY ServicesAssumption, FS_Subset DEF ServicesAssumption
    <2>2. f \in Surjection(present, s1)
        BY <1>2 DEF Surjection
    <2>3. QED
        BY <1>2, <2>1, <2>2, FS_Surjection
<1>6. F!CursorHolds
    BY <1>3, <1>5, FeedCounts DEF F!CursorHolds, F!Distinct, F!Older
<1>7. F!QueryHolds(s5, "log") /\ F!QueryHolds(s6, "inflow") /\ F!FeedHolds
    BY <1>3 DEF F!QueryHolds, F!FeedHolds
<1>8. QED
    BY <1>4, <1>6, <1>7 DEF F!IInv

-----------------------------------------------------------------------------
(* Top-ups: s1 status, s2 step, s3 topup, s4 cached, s5 invoice, s6        *)
(* inflow, s7 deliveries                                                   *)

\* Top-ups count as everybody does.
LEMMA TopUpCounts == \A Q : T!Cardinality(Q) = Cardinality(Q)
BY DEF T!Cardinality, Cardinality

\* No top-up is open at first.
LEMMA TopUpInit == T!Init => T!IInv
<1> SUFFICES ASSUME T!Init
             PROVE  T!IInv
    OBVIOUS
<1>1. T!TypeOK
    <2>1. 0 \in 0 .. MaxDeliveries
        BY ServicesAssumption DEF ServicesAssumption
    <2>2. QED
        BY <2>1 DEF T!Init, T!TypeOK
<1>2. T!Open = {}
    BY DEF T!Init, T!Open
<1>3. T!ShownIsOpen
    BY DEF T!Init, T!ShownIsOpen
<1>4. T!OneOpenTopUp
    <2>1. T!Cardinality(T!Open) = 0
        BY <1>2, TopUpCounts, FS_EmptySet
    <2>2. QED
        BY <2>1 DEF T!OneOpenTopUp, T!Init
<1>5. QED
    BY <1>1, <1>3, <1>4 DEF T!IInv

\* The types survive.
LEMMA TopUpTypes == T!TypeOK /\ T!Next => T!TypeOK'
<1> SUFFICES ASSUME T!TypeOK, T!Next
             PROVE  T!TypeOK'
    OBVIOUS
<1>1. CASE T!LoanEnds
    BY <1>1 DEF T!LoanEnds, T!TypeOK
<1>2. ASSUME NEW c \in Calls, T!ReadLoan(c) \/ T!MakeInvoice(c) \/ T!Create(c) \/ T!Cache(c)
      PROVE  T!TypeOK'
    BY <1>2 DEF T!ReadLoan, T!MakeInvoice, T!Create, T!Cache, T!Goto, T!TypeOK
<1>3. ASSUME NEW c \in Calls, T!Pay(c) \/ T!Lapse(c) \/ T!KeyExpires(c)
      PROVE  T!TypeOK'
    BY <1>3 DEF T!Pay, T!Lapse, T!KeyExpires, T!TypeOK
<1>4. ASSUME NEW c \in Calls, T!Webhook(c)
      PROVE  T!TypeOK'
    <2>1. s7' = [s7 EXCEPT ![c] = s7[c] + 1] /\ s7[c] < MaxDeliveries
        BY <1>4 DEF T!Webhook
    <2>2. s7[c] + 1 \in 0 .. MaxDeliveries
        BY <2>1, ServicesAssumption DEF ServicesAssumption, T!TypeOK
    <2>3. s7' \in [Calls -> 0 .. MaxDeliveries]
        BY <2>1, <2>2 DEF T!TypeOK
    <2>4. QED
        BY <1>4, <2>3 DEF T!Webhook, T!TypeOK
<1>5. QED
    BY <1>1, <1>2, <1>3, <1>4 DEF T!Next, T!Step

\* Every step of the top-ups preserves the invariant: the index lets one in.
LEMMA TopUpNext == T!IInv /\ T!Next => T!IInv'
<1> SUFFICES ASSUME T!IInv, T!Next
             PROVE  T!IInv'
    OBVIOUS
<1>0. T!TypeOK'
    BY TopUpTypes DEF T!IInv
<1>t. /\ s2 \in [Calls -> {"idle", "invoice", "create", "cache", "shown", "failed"}]
      /\ s3 \in [Calls -> {"none", "PENDING_COLLATERAL", "RECEIVED", "EXPIRED", "CANCELLED"}]
      /\ s5 \in [Calls -> {"none", "open", "paid", "lapsed"}]
      /\ T!Cardinality(T!Open) <= 1
      /\ \A c \in Calls : s5[c] = "paid" => c \in T!Open
      /\ \A c \in Calls : s2[c] \in {"cache", "shown"} => c \in T!Open
    BY DEF T!IInv, T!TypeOK, T!OneOpenTopUp, T!ShownIsOpen
\* The one step that opens a top-up.
<1>1. ASSUME NEW c \in Calls, T!Create(c), T!PendingIndexAdmits
      PROVE  T!IInv'
    <2>1. /\ s3' = [s3 EXCEPT ![c] = "PENDING_COLLATERAL"] /\ s2' = [s2 EXCEPT ![c] = "cache"]
          /\ s5' = s5 /\ T!Open = {}
        BY <1>1 DEF T!Create, T!Goto, T!PendingIndexAdmits
    <2>2. (T!Open)' = {c}
        BY <1>t, <2>1 DEF T!Open
    <2>3. T!Cardinality(T!Open)' <= 1
        <3>1. Cardinality({c}) = 1
            BY FS_Singleton
        <3>2. QED
            BY <2>2, <3>1, TopUpCounts
    <2>4. QED
        BY <1>0, <1>t, <2>1, <2>2, <2>3 DEF T!IInv, T!OneOpenTopUp, T!ShownIsOpen
\* The others.
<1>2. ASSUME s3' = s3,
             \A c \in Calls : s5'[c] = "paid" => s5[c] = "paid" \/ s2[c] = "shown",
             \A c \in Calls : s2'[c] \in {"cache", "shown"} => s2[c] \in {"cache", "shown"}
      PROVE  T!IInv'
    <2>1. (T!Open)' = T!Open
        BY <1>2 DEF T!Open
    <2>2. T!Cardinality(T!Open)' <= 1
        BY <1>t, <2>1, TopUpCounts
    <2>3. QED
        BY <1>0, <1>t, <1>2, <2>1, <2>2 DEF T!IInv, T!OneOpenTopUp, T!ShownIsOpen
<1>3. CASE T!LoanEnds
    BY <1>2, <1>3 DEF T!LoanEnds
<1>4. ASSUME NEW c \in Calls,
             \/ T!ReadLoan(c) \/ T!MakeInvoice(c) \/ T!Cache(c)
             \/ T!Create(c) /\ ~T!PendingIndexAdmits
             \/ T!Pay(c) \/ T!Lapse(c) \/ T!KeyExpires(c) \/ T!Webhook(c)
      PROVE  T!IInv'
    <2>1. s3' = s3
        BY <1>4 DEF T!ReadLoan, T!MakeInvoice, T!Create, T!Cache, T!Pay, T!Lapse, T!KeyExpires,
                    T!Webhook
    <2>2. \A d \in Calls : s5'[d] = "paid" => s5[d] = "paid" \/ s2[d] = "shown"
        BY <1>t, <1>4 DEF T!ReadLoan, T!MakeInvoice, T!Create, T!Cache, T!Pay, T!Lapse,
                    T!KeyExpires, T!Webhook
    <2>3. \A d \in Calls : s2'[d] \in {"cache", "shown"} => s2[d] \in {"cache", "shown"}
        BY <1>t, <1>4 DEF T!ReadLoan, T!MakeInvoice, T!Create, T!Cache, T!Pay, T!Lapse,
                    T!KeyExpires, T!Webhook, T!Goto
    <2>4. QED
        BY <1>2, <2>1, <2>2, <2>3
<1>5. QED
    BY <1>1, <1>3, <1>4 DEF T!Next, T!Step

-----------------------------------------------------------------------------
(* Providers: s1 kind, s2 hosted, s3 fate, s4 placed, s5 waiting, s6       *)
(* results, s7 inFlight                                                    *)

AnswersSay ==
    {"none", "SUCCESS", "PENDING", "FAILURE", "refused", "success", "nothing", "missing",
     "1: processing", "successful", "failed"}

AnswerRecords == [arrives : BOOLEAN, errors : BOOLEAN, says : AnswersSay]

Waits == [step : {"idle", "resolve", "send", "placing", "asking"}, answer : AnswerRecords]

\* A call's step moves that call alone: it is then at a step, with an answer.
WaitIs(c, step, answer) ==
    /\ s5' \in [Calls -> Waits]
    /\ \A d \in Calls \ {c} : s5'[d] = s5[d]
    /\ s5'[c].step = step /\ s5'[c].answer = answer

\* A call that waits for nothing is a call.
LEMMA IdleIsAWait ==
    P!Idle \in Waits /\ P!Idle.step = "idle" /\ P!Idle.answer = P!NoAnswer
    /\ P!NoAnswer \in AnswerRecords /\ P!NoAnswer.says = "none"
BY DEF P!Idle, P!NoAnswer, Waits, AnswerRecords, AnswersSay

\* A call goes on.
LEMMA WaitGoto ==
    ASSUME s5 \in [Calls -> Waits], NEW c \in Calls,
           NEW step \in {"resolve", "send"}, P!Goto(c, step)
    PROVE  WaitIs(c, step, s5[c].answer)
<1> DEFINE j == [s5[c] EXCEPT !.step = step]
<1>1. s5' = [s5 EXCEPT ![c] = j]
    BY DEF P!Goto
<1>2. j \in Waits /\ j.step = step /\ j.answer = s5[c].answer
    BY DEF Waits
<1> HIDE DEF j
<1>3. QED
    BY <1>1, <1>2 DEF WaitIs

\* A call returns.
LEMMA WaitReturn ==
    ASSUME s5 \in [Calls -> Waits], NEW c \in Calls, NEW result, P!Return(c, result)
    PROVE  WaitIs(c, "idle", P!NoAnswer) /\ s6' = s6 \cup {result}
BY IdleIsAWait DEF P!Return, WaitIs

\* A call sends, and an answer will come to it.
LEMMA WaitSend ==
    ASSUME s5 \in [Calls -> Waits], NEW c \in Calls, NEW a \in AnswerRecords,
           NEW step \in {"placing", "asking"},
           s5' = [s5 EXCEPT ![c] = [step |-> step, answer |-> a]]
    PROVE  WaitIs(c, step, a)
<1> DEFINE j == [step |-> step, answer |-> a]
<1>1. j \in Waits /\ j.step = step /\ j.answer = a
    BY DEF Waits
<1> HIDE DEF j
<1>2. s5' = [s5 EXCEPT ![c] = j]
    BY DEF j
<1>3. QED
    BY <1>1, <1>2 DEF WaitIs

ProviderTyped ==
    /\ s1 \in P!Kinds /\ s2 \in BOOLEAN
    /\ s3 \in {"none", "open", "done", "failed"}
    /\ s4 \in BOOLEAN
    /\ s6 \subseteq {"returned", "threw", "processing", "successful", "failed", "not_found",
                     "unknown"}
    /\ s7 \in BOOLEAN

\* The types, and the parts of them that a step disturbs.
LEMMA ProviderTypes == P!TypeOK <=> ProviderTyped /\ s5 \in [Calls -> Waits]
BY DEF P!TypeOK, ProviderTyped, Waits, AnswerRecords, AnswersSay

\* What the provider has been asked to do is not there at first.
LEMMA ProviderInit == P!Init => P!IInv
<1> SUFFICES ASSUME P!Init
             PROVE  P!IInv
    OBVIOUS
<1>1. s5 \in [Calls -> Waits] /\ \A c \in Calls : s5[c] = P!Idle
    BY IdleIsAWait DEF P!Init
<1>2. P!TypeOK
    BY <1>1, ProviderTypes DEF P!Init, ProviderTyped
<1>3. \A c \in Calls : P!At(c, "idle") /\ s5[c].step = "idle"
    BY <1>1, IdleIsAWait DEF P!At
<1>4. P!OnePlaces /\ P!AnswersAreTrue
    BY <1>3 DEF P!OnePlaces, P!AnswersAreTrue, P!At, P!Init
<1>5. QED
    BY <1>2, <1>4 DEF P!Init, P!IInv, P!ReturnedIsDone, P!AnswersHold, P!VerdictsAreFinal,
        P!ReturnsAreOrders

\* The order is settled while calls wait.
LEMMA ProviderSettles ==
    ASSUME P!IInv, P!Settle
    PROVE  P!IInv'
<1>1. P!TypeOK'
    BY DEF P!IInv, P!TypeOK, P!Settle
<1>2. P!OnePlaces'
    BY DEF P!IInv, P!OnePlaces, P!Settle, P!At
<1>3. P!AnswersAreTrue'
    BY DEF P!IInv, P!AnswersAreTrue, P!Settle, P!At
<1>4. P!ReturnedIsDone' /\ P!AnswersHold'
    BY DEF P!IInv, P!ReturnedIsDone, P!AnswersHold, P!VerdictsAreFinal, P!ReturnsAreOrders,
        P!Settle
<1>5. QED
    BY <1>1, <1>2, <1>3, <1>4 DEF P!IInv

\* A call begins to place the order.
LEMMA ProviderPlace ==
    ASSUME P!IInv, NEW c \in Calls, P!Place(c)
    PROVE  P!IInv'
<1>1. P!TypeOK /\ ProviderTyped /\ s5 \in [Calls -> Waits]
    BY ProviderTypes DEF P!IInv
<1>2. PICK step \in {"resolve", "send"} : P!Goto(c, step)
    BY DEF P!Place
<1>3. WaitIs(c, step, s5[c].answer)
    BY <1>1, <1>2, WaitGoto
<1>4. P!TypeOK'
    BY <1>1, <1>3 DEF ProviderTyped, P!TypeOK, P!Place, WaitIs, Waits, AnswerRecords, AnswersSay
<1>5. s3 = "none" /\ \A d \in Calls : s5[d].step = "idle"
    BY DEF P!IInv, P!OnePlaces, P!Place, P!At
<1>6. P!OnePlaces'
    BY <1>3, <1>5 DEF P!OnePlaces, P!At, P!Place, WaitIs
<1>7. P!AnswersAreTrue'
    BY <1>3, <1>5 DEF P!AnswersAreTrue, P!At, WaitIs
<1>8. P!ReturnedIsDone' /\ P!AnswersHold'
    BY DEF P!IInv, P!ReturnedIsDone, P!AnswersHold, P!VerdictsAreFinal, P!ReturnsAreOrders,
        P!Place
<1>9. QED
    BY <1>4, <1>6, <1>7, <1>8 DEF P!IInv

\* The wallet is resolved, or it is not and the call throws.
LEMMA ProviderResolve ==
    ASSUME P!IInv, NEW c \in Calls, P!ResolveWallet(c)
    PROVE  P!IInv'
<1>1. P!TypeOK /\ ProviderTyped /\ s5 \in [Calls -> Waits]
    BY ProviderTypes DEF P!IInv
<1>2. PICK step \in {"send", "idle"}, a \in AnswerRecords :
          WaitIs(c, step, a) /\ s6' \in {s6, s6 \cup {"threw"}}
    <2>1. CASE P!Goto(c, "send") /\ UNCHANGED s6
        <3>1. s5[c].answer \in AnswerRecords
            BY <1>1 DEF Waits
        <3>2. QED
            BY <1>1, <2>1, <3>1, WaitGoto
    <2>2. CASE P!Return(c, "threw")
        BY <1>1, <2>2, WaitReturn, IdleIsAWait
    <2>3. QED
        BY <2>1, <2>2 DEF P!ResolveWallet
<1>3. P!TypeOK'
    BY <1>1, <1>2 DEF ProviderTyped, P!TypeOK, P!ResolveWallet, WaitIs, Waits, AnswerRecords,
        AnswersSay
<1>4. P!OnePlaces'
    BY <1>2 DEF P!IInv, P!OnePlaces, P!At, P!ResolveWallet, WaitIs
<1>5. P!AnswersAreTrue'
    BY <1>2 DEF P!IInv, P!AnswersAreTrue, P!At, P!ResolveWallet, WaitIs
<1>6. \A r \in {"returned", "successful", "failed"} : r \in s6' <=> r \in s6
    BY <1>2
<1>7. P!ReturnedIsDone' /\ P!AnswersHold'
    BY <1>6 DEF P!IInv, P!ReturnedIsDone, P!AnswersHold, P!VerdictsAreFinal,
        P!ReturnsAreOrders, P!ResolveWallet
<1>8. QED
    BY <1>3, <1>4, <1>5, <1>7 DEF P!IInv

\* The request leaves, and with it comes to be an answer.
LEMMA ProviderCall ==
    ASSUME P!IInv, NEW c \in Calls, NEW fates \in SUBSET {"none", "open", "done", "failed"},
           P!Call(c, fates)
    PROVE  P!IInv'
<1>1. P!TypeOK /\ ProviderTyped /\ s5 \in [Calls -> Waits]
    BY ProviderTypes DEF P!IInv
<1>2. PICK a \in P!PlacedAnswers(s3') :
          s5' = [s5 EXCEPT ![c] = [step |-> "placing", answer |-> a]]
    BY DEF P!Call
<1>3. /\ a \in AnswerRecords
      /\ a.arrives => a.says \in P!SaysPlaced(s3')
    <2>1. P!SaysPlaced(s3') \subseteq AnswersSay
        BY DEF P!SaysPlaced, AnswersSay
    <2>2. CASE a = P!NoAnswer
        BY <2>2, IdleIsAWait DEF P!NoAnswer
    <2>3. CASE a # P!NoAnswer
        <3>1. \E e \in BOOLEAN : a \in [arrives : {TRUE}, says : P!SaysPlaced(s3'), errors : {e}]
            BY <2>3 DEF P!PlacedAnswers, P!Answers
        <3>2. QED
            BY <2>1, <3>1 DEF AnswerRecords
    <2>4. QED
        BY <2>2, <2>3
<1>4. WaitIs(c, "placing", a)
    BY <1>1, <1>2, <1>3, WaitSend
<1>5. s3' \in {"none", "open", "done", "failed"}
    BY DEF P!Call
<1>6. P!TypeOK'
    BY <1>1, <1>4, <1>5 DEF ProviderTyped, P!TypeOK, P!Call, WaitIs, Waits, AnswerRecords,
        AnswersSay
<1>7. /\ s3 = "none" /\ s4 = TRUE /\ s5[c].step = "send"
      /\ \A d \in Calls \ {c} : s5[d].step \in {"idle", "asking"}
    BY <1>1 DEF P!IInv, P!OnePlaces, P!Call, P!At, Waits, ProviderTyped
<1>8. P!OnePlaces'
    BY <1>4, <1>7 DEF P!OnePlaces, P!At, P!Call, WaitIs
<1>9. P!AnswersAreTrue'
    <2> SUFFICES ASSUME NEW d \in Calls
                 PROVE  LET says == s5'[d].answer.says
                        IN  /\ s5'[d].step = "placing" /\ s5'[d].answer.arrives =>
                                  /\ says = "SUCCESS" => s3' = "done"
                                  /\ says \in {"PENDING", "success"} => s3' # "none"
                                  /\ IF s1' \in P!BlinkSends
                                     THEN says \in {"SUCCESS", "PENDING", "FAILURE"}
                                     ELSE says \in {"success", "refused"}
                            /\ s5'[d].step = "asking" =>
                                  /\ says = "successful" => s3' = "done"
                                  /\ says = "failed" => s3' = "failed"
        BY DEF P!AnswersAreTrue, P!At
    <2>1. CASE d = c
        BY <1>3, <1>4, <1>5, <2>1 DEF WaitIs, P!SaysPlaced, P!Call
    <2>2. CASE d # c
        BY <1>4, <1>7, <2>2 DEF WaitIs, P!IInv, P!AnswersAreTrue, P!At
    <2>3. QED
        BY <2>1, <2>2
<1>10. P!ReturnedIsDone' /\ P!AnswersHold'
    BY <1>7 DEF P!IInv, P!ReturnedIsDone, P!AnswersHold, P!VerdictsAreFinal,
        P!ReturnsAreOrders, P!Call
<1>11. QED
    BY <1>6, <1>8, <1>9, <1>10 DEF P!IInv

\* What the call that places the order makes of its answer.
LEMMA ProviderPlaced ==
    ASSUME P!IInv, NEW c \in Calls, P!Placed(c)
    PROVE  P!IInv'
<1>1. P!TypeOK /\ ProviderTyped /\ s5 \in [Calls -> Waits]
    BY ProviderTypes DEF P!IInv
<1>2. /\ WaitIs(c, "idle", P!NoAnswer)
      /\ \/ s6' = s6 \cup {"threw"}
         \/ /\ s6' = s6 \cup {"returned"}
            /\ s5[c].answer.arrives = TRUE /\ ~P!Refuses(s5[c].answer)
      /\ s7' \in BOOLEAN /\ (s7 => s7')
      /\ s5[c].answer.arrives = TRUE /\ s5[c].answer.says = "PENDING" => s7' = TRUE
    <2>1. s5[c].answer.arrives \in BOOLEAN /\ s7 \in BOOLEAN
        BY <1>1 DEF Waits, AnswerRecords, ProviderTyped
    <2>2. PICK result : /\ P!Return(c, result)
                        /\ result = IF ~s5[c].answer.arrives \/ P!Refuses(s5[c].answer)
                                    THEN "threw" ELSE "returned"
        BY DEF P!Placed
    <2>3. WaitIs(c, "idle", P!NoAnswer) /\ s6' = s6 \cup {result}
        BY <1>1, <2>2, WaitReturn
    <2>4. s7' = (s7 \/ (s5[c].answer.arrives /\ s5[c].answer.says = "PENDING"))
        BY DEF P!Placed
    <2>5. QED
        BY <2>1, <2>2, <2>3, <2>4
<1>3. P!TypeOK'
    BY <1>1, <1>2 DEF ProviderTyped, P!TypeOK, P!Placed, WaitIs, Waits, AnswerRecords,
        AnswersSay
<1>4. P!OnePlaces'
    BY <1>2 DEF P!IInv, P!OnePlaces, P!At, P!Placed, WaitIs
<1>5. P!AnswersAreTrue'
    BY <1>2 DEF P!IInv, P!AnswersAreTrue, P!At, P!Placed, WaitIs
<1>6. s6' = s6 \cup {"returned"} =>
          \/ "returned" \in s6 /\ s6' = s6
          \/ /\ s3 # "none"
             /\ s1 \in P!BlinkSends => s3 = "done" \/ s7' = TRUE
    <2> SUFFICES ASSUME s6' = s6 \cup {"returned"}, "returned" \notin s6
                 PROVE  /\ s3 # "none"
                        /\ s1 \in P!BlinkSends => s3 = "done" \/ s7' = TRUE
        OBVIOUS
    <2>1. s5[c].answer.arrives = TRUE /\ ~P!Refuses(s5[c].answer)
        BY <1>2
    <2>2. s5[c].answer.says \notin {"refused", "FAILURE"}
        BY <2>1 DEF P!Refuses
    <2>3. QED
        BY <1>2, <2>1, <2>2 DEF P!IInv, P!AnswersAreTrue, P!Placed, P!At
<1>7. /\ "successful" \in s6' <=> "successful" \in s6
      /\ "failed" \in s6' <=> "failed" \in s6
      /\ "returned" \in s6' =>
            \/ "returned" \in s6
            \/ s3 # "none" /\ (s1 \in P!BlinkSends => s3 = "done" \/ s7' = TRUE)
      /\ UNCHANGED <<s1, s3>>
    BY <1>2, <1>6 DEF P!Placed
<1>8. s7 \in BOOLEAN /\ s7' \in BOOLEAN /\ (s7 = TRUE => s7' = TRUE)
    BY <1>1, <1>2 DEF ProviderTyped
<1>9. P!ReturnedIsDone' /\ P!AnswersHold'
    BY <1>7, <1>8 DEF P!IInv, P!ReturnedIsDone, P!AnswersHold, P!VerdictsAreFinal,
        P!ReturnsAreOrders
<1>10. QED
    BY <1>3, <1>4, <1>5, <1>9 DEF P!IInv

\* A call asks about the order, and its answer sets out.
LEMMA ProviderAsk ==
    ASSUME P!IInv, NEW c \in Calls, P!Ask(c)
    PROVE  P!IInv'
<1>1. P!TypeOK /\ ProviderTyped /\ s5 \in [Calls -> Waits]
    BY ProviderTypes DEF P!IInv
<1>2. PICK a \in P!Answers(P!SaysAsked) :
          s5' = [s5 EXCEPT ![c] = [step |-> "asking", answer |-> a]]
    BY DEF P!Ask
<1>3. /\ a \in AnswerRecords
      /\ a.says = "successful" => s3 = "done"
      /\ a.says = "failed" => s3 = "failed"
    <2>1. /\ P!SaysAsked \subseteq AnswersSay
          /\ "successful" \in P!SaysAsked => s3 = "done"
          /\ "failed" \in P!SaysAsked => s3 = "failed"
        BY DEF P!SaysAsked, AnswersSay
    <2>2. CASE a = P!NoAnswer
        BY <2>2, IdleIsAWait
    <2>3. CASE a # P!NoAnswer
        <3>1. a \in [arrives : {TRUE}, says : P!SaysAsked, errors : {FALSE}]
            BY <2>3 DEF P!Answers
        <3>2. QED
            BY <2>1, <3>1 DEF AnswerRecords
    <2>4. QED
        BY <2>2, <2>3
<1>4. WaitIs(c, "asking", a)
    BY <1>1, <1>2, <1>3, WaitSend
<1>5. P!TypeOK'
    BY <1>1, <1>4 DEF ProviderTyped, P!TypeOK, P!Ask, WaitIs, Waits, AnswerRecords, AnswersSay
<1>6. P!OnePlaces'
    BY <1>4 DEF P!IInv, P!OnePlaces, P!At, P!Ask, WaitIs
<1>7. P!AnswersAreTrue'
    BY <1>3, <1>4 DEF P!IInv, P!AnswersAreTrue, P!At, P!Ask, WaitIs
<1>8. P!ReturnedIsDone' /\ P!AnswersHold'
    BY DEF P!IInv, P!ReturnedIsDone, P!AnswersHold, P!VerdictsAreFinal, P!ReturnsAreOrders,
        P!Ask
<1>9. QED
    BY <1>5, <1>6, <1>7, <1>8 DEF P!IInv

\* What a call that asked makes of its answer.
LEMMA ProviderAsked ==
    ASSUME P!IInv, NEW c \in Calls, P!Asked(c)
    PROVE  P!IInv'
<1>1. P!TypeOK /\ ProviderTyped /\ s5 \in [Calls -> Waits]
    BY ProviderTypes DEF P!IInv
<1>2. PICK result :
          /\ P!Return(c, result)
          /\ result \in {"threw", P!TransferStatus(s5[c].answer.says),
                         P!CollectionStatus(s5[c].answer.says)}
    BY DEF P!Asked
<1>3. /\ result \in {"threw", "processing", "successful", "failed", "not_found", "unknown"}
      /\ result = "successful" => s5[c].answer.says = "successful"
      /\ result = "failed" => s5[c].answer.says = "failed"
    BY <1>2 DEF P!TransferStatus, P!CollectionStatus
<1>4. WaitIs(c, "idle", P!NoAnswer) /\ s6' = s6 \cup {result}
    BY <1>1, <1>2, WaitReturn
<1>5. P!TypeOK'
    BY <1>1, <1>3, <1>4 DEF ProviderTyped, P!TypeOK, P!Asked, WaitIs, Waits, AnswerRecords,
        AnswersSay
<1>6. P!OnePlaces'
    BY <1>4 DEF P!IInv, P!OnePlaces, P!At, P!Asked, WaitIs
<1>7. P!AnswersAreTrue'
    BY <1>4 DEF P!IInv, P!AnswersAreTrue, P!At, P!Asked, WaitIs
<1>8. /\ result = "successful" => s3 = "done"
      /\ result = "failed" => s3 = "failed"
    BY <1>3 DEF P!IInv, P!AnswersAreTrue, P!At, P!Asked
<1>9. P!ReturnedIsDone' /\ P!AnswersHold'
    BY <1>3, <1>4, <1>8 DEF P!IInv, P!ReturnedIsDone, P!AnswersHold, P!VerdictsAreFinal,
        P!ReturnsAreOrders, P!Asked
<1>10. QED
    BY <1>5, <1>6, <1>7, <1>9 DEF P!IInv

\* Every step keeps what answers say true of the order.
LEMMA ProviderNext == P!IInv /\ P!Next => P!IInv'
<1> SUFFICES ASSUME P!IInv, P!Next
             PROVE  P!IInv'
    OBVIOUS
<1>1. ASSUME NEW c \in Calls, P!Send(c) \/ P!Make(c) \/ P!Order(c)
      PROVE  P!IInv'
    <2>1. P!Call(c, {"none", "open", "done", "failed"}) \/ P!Call(c, {"none", "open"})
        BY <1>1 DEF P!Send, P!Make, P!Order
    <2>2. QED
        BY <2>1, ProviderCall
<1>2. QED
    BY <1>1, ProviderSettles, ProviderPlace, ProviderResolve, ProviderPlaced, ProviderAsk,
        ProviderAsked DEF P!Next

-----------------------------------------------------------------------------
(* Look-ups: s1 service, s2 document, s3 holder, s4 token, s5 looks, s6    *)
(* verified, s7 early                                                      *)

LookAnswers ==
    [ok : BOOLEAN, code : BOOLEAN,
     data : [name : {"same", "other", "none"}, born : {"same", "other", "none"}]]

LookRecords ==
    [step : {"idle", "token", "issued", "ask", "answered"}, lives : 0 .. TokenLife,
     late : 0 .. TokenLife, says : LookAnswers]

TokenRecords == [thought : 0 .. TokenLife, lives : 0 .. TokenLife, late : 0 .. TokenLife]

LookTyped ==
    /\ s1 \in {"qoreid", "dojah", "easeid", "palmpay"}
    /\ s2 \in U!Served \cup {"account"}
    /\ s3 \in U!Person \cup {U!Nobody}
    /\ s4 \in TokenRecords
    /\ s6 \subseteq {"same", "other", "none"} /\ s7 \in BOOLEAN

\* The types, and the parts of them that a step disturbs.
LEMMA LookTypes == U!TypeOK <=> LookTyped /\ s5 \in [Calls -> LookRecords]
BY DEF U!TypeOK, LookTyped, TokenRecords, LookRecords, LookAnswers

\* What a look-up may know: whom an answer is about, and the age of its token.
LookIsTrue(look) ==
    /\ look.step # "idle" => U!Supported
    /\ look.step = "answered" => look.says \in U!Answers
    /\ look.step = "issued" => look.lives + look.late >= TokenLife
    /\ look.step = "ask" /\ s1 = "qoreid" => look.lives + look.late > 1

\* So it is for all of them.
LEMMA LookByLook ==
    U!AnswersAreTheirs /\ U!AgesAreKnown <=>
        s4.thought <= s4.lives + s4.late /\ \A c \in Calls : LookIsTrue(s5[c])
BY DEF U!AnswersAreTheirs, U!AgesAreKnown, LookIsTrue, U!At

\* A look-up that waits is a look-up.
LEMMA IdleIsALook == U!Idle \in LookRecords /\ U!Idle.step = "idle"
<1>1. TokenLife \in Nat /\ 0 \in 0 .. TokenLife
    BY ServicesAssumption DEF ServicesAssumption
<1>2. QED
    BY <1>1 DEF U!Idle, LookRecords, LookAnswers, U!Nobody

PersonData == [name : {"same", "other", "none"}, born : {"same", "other", "none"}]

\* What there is of a person is theirs.
LEMMA PartsAreTheirs ==
    /\ U!Nobody \in PersonData /\ U!Nobody.name = "none" /\ U!Person \subseteq PersonData
    /\ \A p \in PersonData : \A q \in U!Partly(p) :
          q \in PersonData /\ q.name \in {p.name, "none"} /\ q.born \in {p.born, "none"}
<1>1. U!Nobody \in PersonData /\ U!Nobody.name = "none"
    BY DEF U!Nobody, PersonData
<1>2. U!Person \subseteq PersonData
    BY DEF U!Person, PersonData
<1>3. ASSUME NEW p \in PersonData, NEW q \in U!Partly(p)
      PROVE  q \in PersonData /\ q.name \in {p.name, "none"} /\ q.born \in {p.born, "none"}
    <2>1. p.name \in {"same", "other", "none"} /\ p.born \in {"same", "other", "none"}
        BY DEF PersonData
    <2>2. q \in [name : {p.name, "none"}, born : {p.born, "none"}]
        BY DEF U!Partly
    <2>3. QED
        BY <2>1, <2>2 DEF PersonData
<1>4. QED
    BY <1>1, <1>2, <1>3

\* What the services answer is an answer; of a success with data it is the
\* holder's, or missing.
LEMMA AnswersAreAnswers ==
    ASSUME LookTyped, NEW a \in U!Answers
    PROVE  /\ a \in LookAnswers
           /\ a.code = TRUE /\ a.data.name # "none" =>
                 a.data.name = s3.name /\ a.data.born \in {s3.born, "none"}
<1>1. CASE a \in [ok : BOOLEAN, code : {FALSE},
                  data : {U!Nobody} \cup U!Partly([name |-> "same", born |-> "same"])]
    <2>1. [name |-> "same", born |-> "same"] \in PersonData
        BY DEF PersonData
    <2>2. a.data \in {U!Nobody} \cup U!Partly([name |-> "same", born |-> "same"])
          /\ a.code = FALSE
          /\ a \in [ok : BOOLEAN, code : BOOLEAN,
                    data : {U!Nobody} \cup U!Partly([name |-> "same", born |-> "same"])]
        BY <1>1
    <2>3. {U!Nobody} \cup U!Partly([name |-> "same", born |-> "same"]) \subseteq PersonData
        BY <2>1, PartsAreTheirs
    <2>4. a \in [ok : BOOLEAN, code : BOOLEAN, data : PersonData]
        BY <2>2, <2>3
    <2>5. QED
        BY <2>2, <2>4 DEF LookAnswers, PersonData
<1>2. CASE a \in [ok : {TRUE}, code : {TRUE}, data : {U!Nobody} \cup U!SomeData]
    <2>1. a.data \in {U!Nobody} \cup U!SomeData
          /\ a \in [ok : BOOLEAN, code : BOOLEAN, data : {U!Nobody} \cup U!SomeData]
        BY <1>2
    <2>2. s3 # U!Nobody => s3 \in PersonData /\ U!SomeData = U!Partly(s3)
        BY PartsAreTheirs DEF LookTyped, U!SomeData
    <2>3. s3 = U!Nobody => U!SomeData = {}
        BY DEF U!SomeData
    <2>4. {U!Nobody} \cup U!SomeData \subseteq PersonData
        BY <2>2, <2>3, PartsAreTheirs
    <2>5. a \in [ok : BOOLEAN, code : BOOLEAN, data : PersonData]
        BY <2>1, <2>4
    <2>6. a.data.name # "none" =>
              a.data.name = s3.name /\ a.data.born \in {s3.born, "none"}
        BY <2>1, <2>2, <2>3, PartsAreTheirs
    <2>7. QED
        BY <2>5, <2>6 DEF LookAnswers, PersonData
<1>3. QED
    BY <1>1, <1>2 DEF U!Answers

\* A call that looks up, gets a token or an answer moves alone.
LEMMA LookMoves ==
    ASSUME U!IInv, NEW c \in Calls, NEW j \in LookRecords, s5' = [s5 EXCEPT ![c] = j],
           LookIsTrue(j), UNCHANGED <<s1, s2, s3>>, s4' \in TokenRecords,
           s4'.thought <= s4'.lives + s4'.late,
           s6' \subseteq {"same", "other", "none"}, s7' \in BOOLEAN, U!LookupsHold'
    PROVE  U!IInv'
<1>1. LookTyped /\ s5 \in [Calls -> LookRecords] /\ \A d \in Calls : LookIsTrue(s5[d])
    BY LookTypes, LookByLook DEF U!IInv
<1>2. s5' \in [Calls -> LookRecords] /\ s5'[c] = j /\ \A d \in Calls \ {c} : s5'[d] = s5[d]
    BY <1>1
<1>3. U!TypeOK'
    BY <1>1, <1>2 DEF LookTyped, U!TypeOK, TokenRecords, LookRecords, LookAnswers
<1>4. \A d \in Calls : LookIsTrue(s5'[d])
    BY <1>1, <1>2
<1>5. U!Supported' = U!Supported /\ U!Answers' = U!Answers
    BY DEF U!Supported, U!Answers, U!SomeData
<1>6. U!AnswersAreTheirs' /\ U!AgesAreKnown'
    BY <1>4, <1>5 DEF LookIsTrue, U!AnswersAreTheirs, U!AgesAreKnown, U!At
<1>7. QED
    BY <1>3, <1>6 DEF U!IInv

\* Nothing verified, nothing refused.
LEMMA LookStays == U!LookupsHold /\ UNCHANGED <<s1, s2, s3, s6, s7>> => U!LookupsHold'
BY DEF U!LookupsHold, U!VerifiedIsHolder, U!TokensServe, U!Supported

\* Nobody has asked at first.
LEMMA LookInit == U!Init => U!IInv
<1> SUFFICES ASSUME U!Init
             PROVE  U!IInv
    OBVIOUS
<1>1. TokenLife \in Nat /\ 0 \in 0 .. TokenLife
    BY ServicesAssumption DEF ServicesAssumption
<1>2. s4 \in TokenRecords /\ s4.thought = 0 /\ s4.lives = 0 /\ s4.late = 0
    BY <1>1 DEF U!Init, TokenRecords
<1>3. s5 \in [Calls -> LookRecords] /\ \A c \in Calls : s5[c] = U!Idle
    BY IdleIsALook DEF U!Init
<1>4. U!TypeOK
    BY <1>2, <1>3, LookTypes DEF U!Init, LookTyped, U!Served
<1>5. \A c \in Calls : LookIsTrue(s5[c])
    BY <1>3, IdleIsALook DEF LookIsTrue
<1>6. QED
    BY <1>2, <1>4, <1>5, LookByLook DEF U!Init, U!IInv, U!LookupsHold, U!VerifiedIsHolder,
        U!TokensServe

\* Tokens age where they are.
LEMMA LookTick ==
    ASSUME U!IInv, U!Tick
    PROVE  U!IInv'
<1>1. /\ TokenLife \in Nat /\ LookTyped /\ s5 \in [Calls -> LookRecords]
      /\ s4 \in TokenRecords /\ s4.thought <= s4.lives + s4.late
      /\ \A c \in Calls : LookIsTrue(s5[c])
    BY ServicesAssumption, LookTypes, LookByLook DEF ServicesAssumption, U!IInv, LookTyped
<1>2. \A n \in 0 .. TokenLife : U!Aged(n) \in 0 .. TokenLife /\ U!Aged(n) <= n /\ n <= U!Aged(n) + 1
    BY <1>1 DEF U!Aged
<1>3. s4' \in TokenRecords /\ s4'.thought <= s4'.lives + s4'.late
    <2>1. /\ s4.thought \in 0 .. TokenLife /\ s4.lives \in 0 .. TokenLife
          /\ s4.late \in 0 .. TokenLife
        BY <1>1 DEF TokenRecords
    <2>2. s4' \in TokenRecords /\ s4'.thought = U!Aged(s4.thought)
          /\ s4'.lives = U!Aged(s4.lives) /\ s4'.late = s4.late
        BY <1>1, <1>2, <2>1 DEF U!Tick, TokenRecords
    <2>3. U!Aged(s4.thought) <= U!Aged(s4.lives) + s4.late
        BY <1>1, <2>1 DEF U!Aged
    <2>4. QED
        BY <2>2, <2>3
<1>4. ASSUME NEW c \in Calls
      PROVE  s5'[c] \in LookRecords /\ LookIsTrue(s5'[c])
    <2>1. s5[c] \in LookRecords /\ s5[c].late < TokenLife /\ LookIsTrue(s5[c])
        BY <1>1 DEF U!Tick
    <2>2. CASE s5[c].step \in {"issued", "ask"}
        <3> DEFINE j == [s5[c] EXCEPT !.lives = U!Aged(@), !.late = @ + 1]
        <3>1. s5'[c] = j
            BY <2>2 DEF U!Tick
        <3>2. s5[c].lives \in 0 .. TokenLife /\ s5[c].late \in 0 .. TokenLife
            BY <2>1 DEF LookRecords
        <3>3. s5[c].late + 1 \in 0 .. TokenLife
            BY <1>1, <2>1, <3>2
        <3>4. /\ j \in LookRecords /\ j.step = s5[c].step /\ j.says = s5[c].says
              /\ j.lives = U!Aged(s5[c].lives) /\ j.late = s5[c].late + 1
            BY <1>2, <2>1, <3>2, <3>3 DEF LookRecords
        <3> HIDE DEF j
        <3>5. j.lives + j.late >= s5[c].lives + s5[c].late
            BY <1>1, <1>2, <3>2, <3>4
        <3>6. j.lives \in 0 .. TokenLife /\ j.late \in 0 .. TokenLife
            BY <3>4 DEF LookRecords
        <3>7. LookIsTrue(j)
            BY <1>1, <2>1, <3>2, <3>4, <3>5, <3>6 DEF LookIsTrue
        <3>8. QED
            BY <3>1, <3>4, <3>7
    <2>3. CASE s5[c].step \notin {"issued", "ask"}
        BY <2>1, <2>3 DEF U!Tick
    <2>4. QED
        BY <2>2, <2>3
<1>5. U!TypeOK'
    <2>1. s5' \in [Calls -> LookRecords]
        <3>1. s5' = [c \in Calls |-> s5'[c]]
            BY DEF U!Tick
        <3>2. QED
            BY <1>4, <3>1
    <2>2. QED
        BY <1>1, <1>3, <2>1 DEF LookTyped, U!TypeOK, TokenRecords, LookRecords, LookAnswers,
            U!Tick
<1>6. U!Supported' = U!Supported /\ U!Answers' = U!Answers /\ s1' = s1
    BY DEF U!Supported, U!Answers, U!SomeData, U!Tick
<1>7. U!AnswersAreTheirs' /\ U!AgesAreKnown'
    BY <1>3, <1>4, <1>6 DEF LookIsTrue, U!AnswersAreTheirs, U!AgesAreKnown, U!At
<1>8. U!LookupsHold'
    BY LookStays DEF U!Tick, U!IInv
<1>9. QED
    BY <1>5, <1>7, <1>8 DEF U!IInv

\* A call takes the cached token or asks for one, gets one, and caches it.
LEMMA LookTokens ==
    ASSUME U!IInv, NEW c \in Calls, U!Look(c) \/ U!IssueToken(c) \/ U!StoreToken(c)
    PROVE  U!IInv'
<1>1. /\ TokenLife \in Nat \ {0, 1} /\ LookTyped /\ s5 \in [Calls -> LookRecords]
      /\ s4 \in TokenRecords /\ s4.thought <= s4.lives + s4.late
      /\ s5[c] \in LookRecords /\ LookIsTrue(s5[c])
    BY ServicesAssumption, LookTypes, LookByLook DEF ServicesAssumption, U!IInv, LookTyped
<1>2. /\ s4.thought \in 0 .. TokenLife /\ s4.lives \in 0 .. TokenLife
      /\ s4.late \in 0 .. TokenLife /\ s5[c].lives \in 0 .. TokenLife
      /\ s5[c].late \in 0 .. TokenLife /\ s5[c].says \in LookAnswers
    BY <1>1 DEF TokenRecords, LookRecords
<1>3. s6 \subseteq {"same", "other", "none"} /\ s7 \in BOOLEAN /\ U!LookupsHold
    BY <1>1 DEF LookTyped, U!IInv
<1>4. CASE U!Look(c)
    <2> DEFINE j == [s5[c] EXCEPT !.step = IF s1 = "qoreid" /\ ~U!Usable THEN "token" ELSE "ask",
                                  !.lives = s4.lives, !.late = s4.late]
    <2>1. s5' = [s5 EXCEPT ![c] = j]
        BY <1>4 DEF U!Look
    <2>2. /\ j \in LookRecords /\ j.lives = s4.lives /\ j.late = s4.late
          /\ j.step = IF s1 = "qoreid" /\ ~U!Usable THEN "token" ELSE "ask"
        BY <1>1, <1>2 DEF LookRecords
    <2> HIDE DEF j
    <2>3. LookIsTrue(j)
        BY <1>1, <1>2, <1>4, <2>2 DEF LookIsTrue, U!Usable, U!Look
    <2>4. QED
        BY <1>1, <1>3, <1>4, <2>1, <2>2, <2>3, LookMoves, LookStays DEF U!Look
<1>5. CASE U!IssueToken(c) /\ U!End(c)
    BY <1>1, <1>3, <1>5, IdleIsALook, LookMoves, LookStays DEF U!IssueToken, U!End, LookIsTrue
<1>6. CASE U!IssueToken(c) /\ ~U!End(c)
    <2> DEFINE j == [s5[c] EXCEPT !.step = "issued", !.lives = TokenLife, !.late = 0]
    <2>1. s5' = [s5 EXCEPT ![c] = j]
        BY <1>6 DEF U!IssueToken
    <2>2. TokenLife \in 0 .. TokenLife /\ 0 \in 0 .. TokenLife
        BY <1>1
    <2>3. j \in LookRecords /\ j.step = "issued" /\ j.lives = TokenLife /\ j.late = 0
        BY <1>1, <2>2 DEF LookRecords
    <2> HIDE DEF j
    <2>4. LookIsTrue(j)
        BY <1>1, <1>6, <2>3 DEF LookIsTrue, U!IssueToken, U!At
    <2>5. QED
        BY <1>1, <1>3, <1>6, <2>1, <2>3, <2>4, LookMoves, LookStays DEF U!IssueToken
<1>7. CASE U!StoreToken(c)
    <2> DEFINE j == [s5[c] EXCEPT !.step = "ask"]
    <2>1. s5' = [s5 EXCEPT ![c] = j]
        BY <1>7 DEF U!StoreToken
    <2>2. /\ j \in LookRecords /\ j.step = "ask" /\ j.lives = s5[c].lives
          /\ j.late = s5[c].late
        BY <1>1 DEF LookRecords
    <2> HIDE DEF j
    <2>3. s5[c].step = "issued" /\ s5[c].lives + s5[c].late >= TokenLife /\ U!Supported
        BY <1>1, <1>7 DEF U!StoreToken, U!At, LookIsTrue
    <2>4. LookIsTrue(j)
        BY <1>1, <1>2, <2>2, <2>3 DEF LookIsTrue
    <2>5. s4' = [thought |-> TokenLife, lives |-> s5[c].lives, late |-> s5[c].late]
        BY <1>7 DEF U!StoreToken
    <2>6. s4' \in TokenRecords /\ s4'.thought <= s4'.lives + s4'.late
        BY <1>1, <1>2, <2>3, <2>5 DEF TokenRecords
    <2>7. QED
        BY <1>1, <1>3, <1>7, <2>1, <2>2, <2>4, <2>6, LookMoves, LookStays DEF U!StoreToken
<1>8. QED
    BY <1>4, <1>5, <1>6, <1>7

\* The question: a token refused has lost more than the margin on its way.
LEMMA LookAsk ==
    ASSUME U!IInv, NEW c \in Calls, U!Ask(c)
    PROVE  U!IInv'
<1>1. /\ TokenLife \in Nat /\ LookTyped /\ s5 \in [Calls -> LookRecords]
      /\ s4 \in TokenRecords /\ s4.thought <= s4.lives + s4.late
      /\ s5[c] \in LookRecords /\ LookIsTrue(s5[c])
      /\ s6 \subseteq {"same", "other", "none"} /\ s7 \in BOOLEAN /\ U!LookupsHold
    BY ServicesAssumption, LookTypes, LookByLook DEF ServicesAssumption, U!IInv, LookTyped
<1>2. s5[c].step = "ask" /\ U!Supported
    BY <1>1 DEF U!Ask, U!At, LookIsTrue
<1>3. CASE s1 = "qoreid" /\ s5[c].lives = 0
    <2>1. s5[c].late \in 0 .. TokenLife
        BY <1>1 DEF LookRecords
    <2>2. s5[c].late > 1
        BY <1>1, <1>2, <1>3, <2>1 DEF LookIsTrue
    <2>3. ~(s5[c].late <= 1)
        BY <1>1, <2>1, <2>2
    <2>4. s7' = (s7 \/ s5[c].late <= 1) /\ U!End(c) /\ UNCHANGED <<s1, s2, s3, s4, s6>>
        BY <1>3 DEF U!Ask
    <2>5. s7' = s7
        BY <1>1, <2>3, <2>4
    <2>6. LookIsTrue(U!Idle)
        BY IdleIsALook DEF LookIsTrue
    <2>7. QED
        BY <1>1, <2>4, <2>5, <2>6, IdleIsALook, LookMoves, LookStays DEF U!End
<1>4. CASE ~(s1 = "qoreid" /\ s5[c].lives = 0)
    <2>1. PICK a \in U!Answers :
              s5' = [s5 EXCEPT ![c] = [U!Idle EXCEPT !.step = "answered", !.says = a]]
        BY <1>4 DEF U!Ask
    <2> DEFINE j == [U!Idle EXCEPT !.step = "answered", !.says = a]
    <2>2. a \in LookAnswers
        BY <1>1, AnswersAreAnswers
    <2>3. j \in LookRecords /\ j.step = "answered" /\ j.says = a
        BY <2>2, IdleIsALook DEF LookRecords
    <2>4. s5' = [s5 EXCEPT ![c] = j]
        BY <2>1
    <2> HIDE DEF j
    <2>5. LookIsTrue(j)
        BY <1>2, <2>3 DEF LookIsTrue
    <2>6. QED
        BY <1>1, <1>4, <2>3, <2>4, <2>5, LookMoves, LookStays DEF U!Ask
<1>5. QED
    BY <1>3, <1>4

\* The verdict: who is verified is the holder.
LEMMA LookVerdict ==
    ASSUME U!IInv, NEW c \in Calls, U!Verdict(c)
    PROVE  U!IInv'
<1>1. /\ LookTyped /\ s5 \in [Calls -> LookRecords] /\ LookIsTrue(s5[c])
      /\ s4 \in TokenRecords /\ s4.thought <= s4.lives + s4.late
      /\ s6 \subseteq {"same", "other", "none"} /\ s7 \in BOOLEAN /\ U!LookupsHold
    BY LookTypes, LookByLook DEF U!IInv, LookTyped
<1>2. U!Supported /\ s5[c].says \in U!Answers
    BY <1>1 DEF U!Verdict, U!At, LookIsTrue
<1> DEFINE a == s5[c].says
<1>3. /\ a.code \in BOOLEAN /\ a.ok \in BOOLEAN
      /\ a.data.born \in {"same", "other", "none"}
      /\ a.code = TRUE /\ a.data.name # "none" =>
            a.data.name = s3.name /\ a.data.born \in {s3.born, "none"}
    BY <1>1, <1>2, AnswersAreAnswers DEF LookAnswers
<1>4. U!Named(a) => a.code = TRUE
    BY <1>1, <1>3 DEF U!Named, U!QoreidNames, U!DojahNames, U!EaseidNames, U!PalmpayNames,
        LookTyped
<1>5. /\ s6' = IF U!Named(a) /\ U!Matches(a.data) THEN s6 \cup {a.data.born} ELSE s6
      /\ U!End(c) /\ UNCHANGED <<s1, s2, s3, s4, s7>>
    BY DEF U!Verdict
<1>6. s6' \subseteq {"same", "other", "none"}
    BY <1>1, <1>3, <1>5
<1>7. U!LookupsHold'
    <2>1. CASE ~(U!Named(a) /\ U!Matches(a.data))
        BY <1>1, <1>5, <2>1, LookStays
    <2>2. CASE U!Named(a) /\ U!Matches(a.data)
        <3>1. /\ a.data.name = "same" /\ s3.name = "same"
              /\ s1 # "palmpay" => a.data.born \in {"same", "none"}
              /\ a.data.born \in {s3.born, "none"}
            BY <1>3, <1>4, <2>2 DEF U!Matches
        <3>2. s6' = s6 \cup {a.data.born} /\ U!Supported'
            BY <1>2, <1>5, <2>2 DEF U!Supported
        <3>3. s1 # "palmpay" => "other" \notin s6 /\ ("same" \in s6 => s3.born = "same")
            BY <1>1 DEF U!LookupsHold, U!VerifiedIsHolder
        <3> HIDE DEF a
        <3>4. U!VerifiedIsHolder'
            BY <1>5, <3>1, <3>2, <3>3 DEF U!VerifiedIsHolder
        <3>5. QED
            BY <1>1, <1>5, <3>4 DEF U!LookupsHold, U!TokensServe
    <2>3. QED
        BY <2>1, <2>2
<1>8. LookIsTrue(U!Idle)
    BY IdleIsALook DEF LookIsTrue
<1>9. QED
    BY <1>1, <1>5, <1>6, <1>7, <1>8, IdleIsALook, LookMoves DEF U!End

\* Every step keeps what is known of the holder and of the token's age.
LEMMA LookNext == U!IInv /\ U!Next => U!IInv'
BY LookTick, LookTokens, LookAsk, LookVerdict DEF U!Next

-----------------------------------------------------------------------------
(* The services together *)

\* A behaviour is of one service, and these nine keep their invariants.
Inv ==
    /\ mode = "key"      => I!IInv
    /\ mode = "replay"   => R!IInv
    /\ mode = "remedy"   => M!IInv
    /\ mode = "accounts" => A!IInv
    /\ mode = "identity" => K!IInv
    /\ mode = "feed"     => F!IInv
    /\ mode = "topup"    => T!IInv
    /\ mode = "provider" => P!IInv
    /\ mode = "lookup"   => U!IInv

\* Whichever service begins.
LEMMA InitInv == Init => Inv
BY KeyInit, ReplayInit, RemedyInit, AccountInit, IdentityInit, FeedInit, TopUpInit,
    ProviderInit, LookInit DEF Init, Inv

\* Whichever service moves, or none.
LEMMA NextInv == Inv /\ [Next]_vars => Inv'
<1> SUFFICES ASSUME Inv, [Next]_vars
             PROVE  Inv'
    OBVIOUS
<1>1. CASE Next
    <2>1. mode' = mode
        BY <1>1 DEF Next, Rest
    <2>2. CASE mode = "key"
        BY <1>1, <2>1, <2>2, KeyNext DEF Next, Inv
    <2>3. CASE mode = "replay"
        BY <1>1, <2>1, <2>3, ReplayNext DEF Next, Inv
    <2>4. CASE mode = "remedy"
        BY <1>1, <2>1, <2>4, RemedyNext DEF Next, Inv
    <2>5. CASE mode = "accounts"
        BY <1>1, <2>1, <2>5, AccountNext DEF Next, Inv
    <2>6. CASE mode = "identity"
        BY <1>1, <2>1, <2>6, IdentityNext DEF Next, Inv
    <2>7. CASE mode = "feed"
        BY <1>1, <2>1, <2>7, FeedNext DEF Next, Inv
    <2>8. CASE mode = "topup"
        BY <1>1, <2>1, <2>8, TopUpNext DEF Next, Inv
    <2>9. CASE mode = "provider"
        BY <1>1, <2>1, <2>9, ProviderNext DEF Next, Inv
    <2>10. CASE mode = "lookup"
        BY <1>1, <2>1, <2>10, LookNext DEF Next, Inv
    <2>11. QED
        BY <2>1, <2>2, <2>3, <2>4, <2>5, <2>6, <2>7, <2>8, <2>9, <2>10 DEF Inv
<1>2. CASE UNCHANGED vars
    <2>1. I!IInv => I!IInv'
        BY <1>2 DEF vars, I!IInv, I!TypeOK, I!KeyRunsOnce, I!FreeKeyRunsNone, I!Running
    <2>2. R!IInv => R!IInv'
        BY <1>2 DEF vars, R!IInv, R!TypeOK, R!ReplayHolds, R!OrderCreditedOnce,
                    R!CreditsAreTrusted, R!LogIsTrue, R!JobsAreTrue, R!At, R!InflowIsOurs
    <2>3. M!IInv => M!IInv'
        BY <1>2 DEF vars, M!IInv, M!TypeOK, M!OneRelease, M!FoundIsSo, M!Releasing, M!At
    <2>4. A!IInv => A!IInv'
        BY <1>2, AccountCounts DEF vars, A!IInv, A!TypeOK, A!PlacesCounted, A!ReadIsCurrent,
            A!DefaultKept, A!Defaults, A!Adding, A!At
    <2>5. K!IInv => K!IInv'
        BY <1>2, IdentityCounts DEF vars, K!IInv, K!TypeOK, K!CallsAreTrue, K!NumbersAreNew,
            K!IdentityHolds, K!OneHolder, K!HoldersBut, K!TierBacked, K!AccountBacked,
            K!Active, K!At
    <2>6. F!IInv => F!IInv'
        BY <1>2, FeedCounts DEF vars, F!IInv, F!TypeOK, F!CursorHolds, F!QueryHolds, F!Below,
            F!FeedHolds, F!Tie, F!Hidden, F!Distinct, F!Older, F!Newer
    <2>7. T!IInv => T!IInv'
        BY <1>2, TopUpCounts DEF vars, T!IInv, T!TypeOK, T!OneOpenTopUp, T!ShownIsOpen, T!Open
    <2>8. P!IInv => P!IInv'
        BY <1>2 DEF vars, P!IInv, P!TypeOK, P!OnePlaces, P!AnswersAreTrue, P!ReturnedIsDone,
            P!AnswersHold, P!VerdictsAreFinal, P!ReturnsAreOrders, P!At
    <2>9. U!IInv => U!IInv'
        BY <1>2 DEF vars, U!IInv, U!TypeOK, U!AnswersAreTheirs, U!AgesAreKnown, U!Supported,
            U!Answers, U!SomeData, U!LookupsHold, U!VerifiedIsHolder, U!TokensServe, U!At
    <2>10. mode' = mode
        BY <1>2 DEF vars
    <2>11. QED
        BY <2>1, <2>2, <2>3, <2>4, <2>5, <2>6, <2>7, <2>8, <2>9, <2>10 DEF Inv
<1>3. QED
    BY <1>1, <1>2

\* What is asked for twice is done once: the handler under an Idempotency-Key,
\* but for a claim that lapsed; the credit of an order, whichever of the
\* webhook, the script and the customer comes first; the release that is
\* retried by hand, but for one that crossed another or was not stamped.  And a
\* provider's order is reported as done, or as failed and so to be tried again,
\* only when it is so for good.
THEOREM ServicesRunOnce == Spec => []RunsOnce
<1>1. Inv => RunsOnce
    BY RemedyPromise DEF Inv, RunsOnce, I!IInv, R!IInv, P!IInv
<1>2. QED
    BY <1>1, InitInv, NextInv, PTL DEF Spec

\* What a customer has is kept, however their requests overlap: one default
\* account of a kind, and the limit; one holder of a number, and a tier and an
\* account with the number behind them; a feed without gaps or repetitions; one
\* open top-up, whose invoice is the one that is paid.  Whoever is verified is
\* the one whom the identity service has under the number.
THEOREM CustomerIsHeld == Spec => []CustomerHolds
<1>1. Inv => CustomerHolds
    BY DEF Inv, CustomerHolds, A!IInv, K!IInv, F!IInv, T!IInv, U!IInv
<1>2. QED
    BY <1>1, InitInv, NextInv, PTL DEF Spec
=============================================================================
