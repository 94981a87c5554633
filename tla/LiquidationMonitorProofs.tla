---------------------- MODULE LiquidationMonitorProofs ----------------------
(***************************************************************************)
(* For every number of loans, overlapping sweeps and failures, and every   *)
(* set of rates and balances: a loan's collateral leaves once unless two   *)
(* parties held the loan, and notices keep their distance.                 *)
(***************************************************************************)
EXTENDS LiquidationMonitor, FiniteSetTheorems, TLAPS

Steps == {"idle", "rate", "select", "assess", "liquidate", "swap", "warn",
          "call", "mail", "alert", "page"}
Cycles == [step : Steps, rate : Rates \cup {NoRate}, todo : SUBSET Loans,
           owes : [Loans -> Balances \cup {0}], l : Loans \cup {NoLoan}, kind : Kinds]

-----------------------------------------------------------------------------
(* The inductive invariants                                                *)

OnLoan == {"liquidate", "swap", "warn", "call", "mail", "alert", "page"}

\* A sweep is about a loan only at that loan's steps, and has then taken it off
\* its list; only customers' notices are mailed.
SweepShape ==
    \A s \in Sweeps :
        /\ sweep[s].step \in {"idle", "rate", "select"} => sweep[s].todo = {}
        /\ sweep[s].step \in OnLoan <=> sweep[s].l \in Loans
        /\ sweep[s].l \notin sweep[s].todo
        /\ At(s, "mail") => sweep[s].kind \in {"warn", "call"}

Selling(s, l) == At(s, "swap") /\ sweep[s].l = l

\* An uncontested loan is in the hands of one sweep at most, which finds it as
\* it selected it until the sweep itself has seized it.
Undisputed(l) ==
    /\ \A s, t \in Sweeps : Holds(s, l) /\ Holds(t, l) => s = t
    /\ \A s \in Sweeps : Holds(s, l) /\ ~Selling(s, l) => status[l] = "ACTIVE"
    /\ \A s \in Sweeps : Selling(s, l) => status[l] = "LIQUIDATED" /\ moved[l] = << >>
    /\ status[l] = "ACTIVE" => moved[l] = << >>
    /\ Len(moved[l]) <= 1
    /\ status[l] = "REPAID" /\ moved[l] # << >> => moved[l][1] = "returned"
Custody == \A l \in Loans \ contested : Undisputed(l)

\* One sweep at most is about to mail a notice, and then it is not told yet;
\* a key that is free was not told.
Mailing(s, k) == At(s, "mail") /\ <<sweep[s].kind, sweep[s].l>> = k
Mailed ==
    \A k \in {"warn", "call"} \X Loans :
        /\ \A s, t \in Sweeps : Mailing(s, k) /\ Mailing(t, k) => s = t
        /\ \A s \in Sweeps : Mailing(s, k) => k \in keys /\ told[k] = 0
        /\ k \notin keys => told[k] = 0
        /\ told[k] <= 1

\* Sweeps that found no alert key and have not set it yet.
Paging(l) == {s \in Sweeps : At(s, "page") /\ sweep[s].l = l}
Alerted ==
    \A l \in Loans :
        /\ <<"alert", l>> \notin keys => told[<<"alert", l>>] = 0
        /\ told[<<"alert", l>>] + Cardinality(Paging(l)) <= Cardinality(Sweeps)

Shape == TypeOK /\ SweepShape
IInv == Shape /\ Custody /\ Mailed /\ Alerted

-----------------------------------------------------------------------------
(* What a step of a sweep does to it                                       *)

\* A sweep's step moves that sweep and no other.
Others(s) == \A t \in Sweeps \ {s} : sweep'[t] = sweep[t]

\* It is done with its loan, or had none yet, and goes on or ends.
Leaves(s) ==
    /\ sweep'[s].step \in {"idle", "rate", "select", "assess"} /\ sweep'[s].l = NoLoan
    /\ sweep'[s].todo \subseteq sweep[s].todo
    /\ sweep'[s].step # "assess" => sweep'[s].todo = {}

\* It takes a loan of its list to act on it.
Takes(s) ==
    /\ sweep'[s].step \in {"liquidate", "warn", "alert"}
    /\ sweep'[s].l \in sweep[s].todo /\ sweep'[s].todo = sweep[s].todo \ {sweep'[s].l}
    /\ At(s, "assess")

\* It does one more thing about its loan.
Keeps(s) ==
    /\ sweep[s].step \in OnLoan /\ sweep'[s].step \in OnLoan
    /\ sweep'[s].l = sweep[s].l /\ sweep'[s].todo = sweep[s].todo
    /\ sweep'[s].step = "mail" => sweep'[s].kind \in {"warn", "call"}

\* Goto changes the step alone.
LEMMA GotoCycle ==
    ASSUME sweep \in [Sweeps -> Cycles], NEW s \in Sweeps, NEW step \in Steps, Goto(s, step)
    PROVE  /\ sweep' \in [Sweeps -> Cycles] /\ Others(s)
           /\ sweep'[s].step = step /\ sweep'[s].l = sweep[s].l
           /\ sweep'[s].todo = sweep[s].todo /\ sweep'[s].kind = sweep[s].kind
<1>1. sweep' = [sweep EXCEPT ![s] = [sweep[s] EXCEPT !.step = step]]
    BY DEF Goto
<1>2. [sweep[s] EXCEPT !.step = step] \in Cycles
    BY DEF Cycles
<1>3. QED
    BY <1>1, <1>2 DEF Cycles, Others

\* The next loan of what is left to do, or the end of the sweep.
LEMMA NextLoanCycle ==
    ASSUME TypeOK, sweep \in [Sweeps -> Cycles], NEW s \in Sweeps, NEW todo,
           todo \subseteq sweep[s].todo, sweep' = [sweep EXCEPT ![s] = NextLoan(s, todo)]
    PROVE  /\ sweep' \in [Sweeps -> Cycles] /\ Others(s) /\ Leaves(s)
           /\ sweep'[s].step \in {"idle", "assess"}
<1>1. CASE todo = {}
    <2>1. sweep' = [sweep EXCEPT ![s] = Idle]
        BY <1>1 DEF NextLoan
    <2>2. Idle \in Cycles
        BY DEF Idle, Nothing, Cycles, Steps, NoLoan, NoRate, Kinds
    <2>3. QED
        BY <2>1, <2>2 DEF Idle, Others, Leaves
<1>2. CASE todo # {}
    <2> DEFINE j == [sweep[s] EXCEPT !.step = "assess", !.todo = todo, !.l = NoLoan, !.kind = "warn"]
    <2>1. sweep' = [sweep EXCEPT ![s] = j]
        BY <1>2 DEF NextLoan
    <2>2. j \in Cycles /\ j.step = "assess" /\ j.l = NoLoan /\ j.todo = todo
        BY DEF Cycles, Steps, Kinds
    <2> HIDE DEF j
    <2>3. sweep' \in [Sweeps -> Cycles] /\ sweep'[s] = j /\ Others(s)
        BY <2>1, <2>2 DEF Others
    <2>4. QED
        BY <2>2, <2>3 DEF Leaves
<1>3. QED
    BY <1>1, <1>2

\* A sweep that proceeds leaves its loan.
LEMMA ProceedCycle ==
    ASSUME TypeOK, sweep \in [Sweeps -> Cycles], NEW s \in Sweeps, Proceed(s)
    PROVE  /\ sweep' \in [Sweeps -> Cycles] /\ Others(s) /\ Leaves(s)
           /\ sweep'[s].step \in {"idle", "assess"}
BY NextLoanCycle DEF Proceed

\* The rate is read before any loan.
LEMMA ReadRateCycle ==
    ASSUME TypeOK, SweepShape, sweep \in [Sweeps -> Cycles], NEW s \in Sweeps, ReadRate(s)
    PROVE  sweep' \in [Sweeps -> Cycles] /\ Others(s) /\ Leaves(s)
<1>1. sweep' = [sweep EXCEPT ![s] = [sweep[s] EXCEPT !.step = "select", !.rate = price]]
    BY DEF ReadRate
<1>2. [sweep[s] EXCEPT !.step = "select", !.rate = price] \in Cycles
    BY DEF Cycles, Steps, TypeOK
<1>3. sweep[s].todo = {} /\ sweep[s].l = NoLoan
    BY DEF SweepShape, ReadRate, At, OnLoan, Cycles
<1>4. QED
    BY <1>1, <1>2, <1>3 DEF Cycles, Others, Leaves

\* The sweep that selects has the ACTIVE loans before it, or ends.
LEMMA SelectCycle ==
    ASSUME TypeOK, SweepShape, sweep \in [Sweeps -> Cycles], NEW s \in Sweeps, Select(s)
    PROVE  /\ sweep' \in [Sweeps -> Cycles] /\ Others(s)
           /\ sweep'[s].step \in {"idle", "assess"} /\ sweep'[s].l = NoLoan
           /\ sweep'[s].todo = Selected /\ sweep[s].todo = {} /\ sweep[s].l = NoLoan
<1>1. sweep[s].todo = {} /\ sweep[s].l = NoLoan
    BY DEF SweepShape, Select, At, OnLoan, Cycles
<1>2. CASE Selected = {}
    <2>1. sweep' = [sweep EXCEPT ![s] = Idle]
        BY <1>2 DEF Select
    <2>2. Idle \in Cycles
        BY DEF Idle, Nothing, Cycles, Steps, NoLoan, NoRate, Kinds
    <2>3. QED
        BY <1>1, <1>2, <2>1, <2>2 DEF Idle, Others
<1>3. CASE Selected # {}
    <2> DEFINE j == [sweep[s] EXCEPT !.step = "assess", !.todo = Selected, !.owes = owed]
    <2>1. sweep' = [sweep EXCEPT ![s] = j]
        BY <1>3 DEF Select
    <2>2. /\ j \in Cycles /\ j.step = "assess" /\ j.todo = Selected /\ j.l = sweep[s].l
          /\ j.rate = sweep[s].rate /\ j.owes = owed /\ j.kind = sweep[s].kind
        BY DEF Cycles, Steps, TypeOK, Selected, ActiveLoans
    <2> HIDE DEF j
    <2>3. sweep' \in [Sweeps -> Cycles] /\ sweep'[s] = j /\ Others(s)
        BY <2>1, <2>2 DEF Others
    <2>4. QED
        BY <1>1, <1>3, <2>2, <2>3
<1>4. QED
    BY <1>2, <1>3

\* A loan that is assessed is taken, or passed over.
LEMMA AssessCycle ==
    ASSUME TypeOK, sweep \in [Sweeps -> Cycles], NEW s \in Sweeps, NEW l \in Loans, Assess(s, l)
    PROVE  /\ sweep' \in [Sweeps -> Cycles] /\ Others(s)
           /\ Leaves(s) \/ Takes(s)
<1>1. CASE Verdict(s, l) = "skip"
    <2>1. sweep' = [sweep EXCEPT ![s] = NextLoan(s, sweep[s].todo \ {l})]
        BY <1>1 DEF Assess
    <2>2. QED
        BY <2>1, NextLoanCycle
<1>2. CASE Verdict(s, l) # "skip"
    <2>1. sweep' = [sweep EXCEPT ![s] = [sweep[s] EXCEPT !.step = Verdict(s, l), !.l = l, !.todo = sweep[s].todo \ {l}]]
        BY <1>2 DEF Assess
    <2>2. Verdict(s, l) \in {"liquidate", "warn", "alert"}
        BY <1>2 DEF Verdict
    <2>3. [sweep[s] EXCEPT !.step = Verdict(s, l), !.l = l, !.todo = sweep[s].todo \ {l}] \in Cycles
        BY <2>2 DEF Cycles, Steps
    <2>4. QED
        BY <2>1, <2>2, <2>3 DEF Cycles, Others, Takes, Assess
<1>3. QED
    BY <1>1, <1>2

\* After a notice comes the margin call, or the alert.
LEMMA AfterStep ==
    \A s \in Sweeps, kind \in Kinds : After(s, kind) \in {"call", "alert"}
BY DEF After

\* A key that is free sends the sweep to the mail, one that is taken past it.
LEMMA ClaimCycle ==
    ASSUME TypeOK, sweep \in [Sweeps -> Cycles], NEW s \in Sweeps, NEW kind \in Kinds, Claim(s, kind)
    PROVE  /\ sweep' \in [Sweeps -> Cycles] /\ Others(s) /\ Keeps(s)
           /\ IF <<kind, sweep[s].l>> \in keys THEN sweep'[s].step \in {"call", "alert"}
              ELSE sweep'[s].step = "mail" /\ sweep'[s].kind = kind
<1>1. kind \in {"warn", "call"} /\ sweep[s].step = kind
    BY DEF Claim, At, Kinds
<1>2. CASE <<kind, sweep[s].l>> \in keys
    <2>1. Goto(s, After(s, kind))
        BY <1>2 DEF Claim, Goto
    <2>2. After(s, kind) \in Steps /\ After(s, kind) \in {"call", "alert"}
        BY AfterStep DEF Steps
    <2>3. QED
        BY <1>1, <1>2, <2>1, <2>2, GotoCycle DEF Keeps, OnLoan
<1>3. CASE <<kind, sweep[s].l>> \notin keys
    <2>1. sweep' = [sweep EXCEPT ![s] = [sweep[s] EXCEPT !.step = "mail", !.kind = kind]]
        BY <1>3 DEF Claim
    <2>2. [sweep[s] EXCEPT !.step = "mail", !.kind = kind] \in Cycles
        BY DEF Cycles, Steps
    <2>3. QED
        BY <1>1, <1>3, <2>1, <2>2 DEF Cycles, Others, Keeps, OnLoan
<1>4. QED
    BY <1>2, <1>3

\* A sweep that is broken off is idle.
LEMMA AbortCycle ==
    ASSUME TypeOK, sweep \in [Sweeps -> Cycles], NEW s \in Sweeps, Abort(s)
    PROVE  sweep' \in [Sweeps -> Cycles] /\ Others(s) /\ Leaves(s)
<1>1. Idle \in Cycles
    BY DEF Idle, Nothing, Cycles, Steps, NoLoan, NoRate, Kinds
<1>2. QED
    BY <1>1 DEF Abort, Idle, Others, Leaves

-----------------------------------------------------------------------------
(* Shape                                                                   *)

\* Every sweep begins idle.
LEMMA InitShape == Init => Shape
<1> SUFFICES ASSUME Init
             PROVE  Shape
    OBVIOUS
<1>1. Idle \in Cycles /\ NoLoan \notin Loans
    BY MonitorAssumption
    DEF MonitorAssumption, Idle, Nothing, Cycles, Steps, NoLoan, NoRate, Kinds
<1>2. sweep \in [Sweeps -> Cycles]
    BY <1>1 DEF Init
<1>3. owed \in [Loans -> Balances \cup {0}]
    BY DEF Init
<1>4. told \in [Kinds \X Loans -> Nat] /\ faults \in 0 .. MaxFaults
    BY MonitorAssumption DEF MonitorAssumption, Init
<1>5. status \in [Loans -> {"ACTIVE", "REPAID", "LIQUIDATED"}]
    BY DEF Init
<1>r. log \in [Loans -> Seq(LogRow)] /\ moved \in [Loans -> Seq({"swapped", "returned"})]
    <2>1. << >> \in Seq(LogRow) /\ << >> \in Seq({"swapped", "returned"})
        OBVIOUS
    <2>2. log = [l \in Loans |-> << >>] /\ moved = [l \in Loans |-> << >>]
        BY DEF Init
    <2>3. QED
        BY <2>1, <2>2
<1>l. /\ price \in Rates \cup {NoRate} /\ stale \in BOOLEAN
      /\ keys \subseteq Kinds \X Loans /\ contested \subseteq Loans
    BY DEF Init
<1>s. sweep \in [Sweeps ->
          [step : {"idle", "rate", "select", "assess", "liquidate", "swap", "warn",
                   "call", "mail", "alert", "page"},
           rate : Rates \cup {NoRate}, todo : SUBSET Loans, owes : [Loans -> Balances \cup {0}],
           l : Loans \cup {NoLoan}, kind : Kinds]]
    BY <1>2 DEF Cycles, Steps
<1>t. TypeOK
    BY <1>s, <1>3, <1>4, <1>5, <1>r, <1>l DEF TypeOK
<1>6. SweepShape
    BY <1>1 DEF Init, SweepShape, OnLoan, Idle, At
<1>7. QED
    BY <1>t, <1>6 DEF Shape

\* Each way a sweep moves leaves its record well formed, and the others' alone.
LEMMA SweepShapeKept ==
    ASSUME SweepShape, NEW s \in Sweeps, Others(s), sweep \in [Sweeps -> Cycles],
           sweep' \in [Sweeps -> Cycles], Leaves(s) \/ Takes(s) \/ Keeps(s)
    PROVE  SweepShape'
<1>n. NoLoan \notin Loans
    BY MonitorAssumption DEF MonitorAssumption, NoLoan
<1> SUFFICES ASSUME NEW t \in Sweeps
             PROVE  /\ sweep'[t].step \in {"idle", "rate", "select"} => sweep'[t].todo = {}
                    /\ sweep'[t].step \in OnLoan <=> sweep'[t].l \in Loans
                    /\ sweep'[t].l \notin sweep'[t].todo
                    /\ sweep'[t].step = "mail" => sweep'[t].kind \in {"warn", "call"}
    BY DEF SweepShape, At
<1>1. CASE t # s
    BY <1>1 DEF Others, SweepShape, At
<1>2. CASE t = s /\ Leaves(s)
    <2>1. sweep'[s].todo \subseteq Loans /\ sweep'[s].l = NoLoan
        BY <1>2 DEF Leaves, Cycles
    <2>2. QED
        BY <1>n, <1>2, <2>1 DEF Leaves, OnLoan
<1>3. CASE t = s /\ Takes(s)
    <2>1. sweep[s].todo \subseteq Loans
        BY DEF Cycles
    <2>2. QED
        BY <1>3, <2>1 DEF Takes, OnLoan
<1>4. CASE t = s /\ Keeps(s)
    BY <1>4 DEF Keeps, OnLoan, SweepShape
<1>5. QED
    BY <1>1, <1>2, <1>3, <1>4

\* A status update that is recorded in the log.
LEMMA RecordLogs ==
    ASSUME log \in [Loans -> Seq(LogRow)], NEW l \in Loans, NEW from \in Statuses,
           NEW to \in Statuses, NEW reason \in Reasons, Record(l, from, to, reason)
    PROVE  log' \in [Loans -> Seq(LogRow)]
<1>1. [from |-> from, to |-> to, reason |-> reason] \in LogRow
    BY DEF LogRow
<1>2. QED
    BY <1>1 DEF Record

\* One more notice of a key.
LEMMA ToldMore ==
    ASSUME told \in [Kinds \X Loans -> Nat], NEW k \in Kinds \X Loans,
           told' = [told EXCEPT ![k] = @ + 1]
    PROVE  /\ told' \in [Kinds \X Loans -> Nat] /\ told'[k] = told[k] + 1
           /\ \A j \in (Kinds \X Loans) \ {k} : told'[j] = told[j]
<1>1. told[k] + 1 \in Nat
    OBVIOUS
<1>2. told' = [told EXCEPT ![k] = told[k] + 1]
    OBVIOUS
<1>3. QED
    BY <1>1, <1>2

\* A sweep of a step that is not about selecting leaves, takes or keeps a loan.
Moves(s) ==
    sweep' \in [Sweeps -> Cycles] /\ Others(s) /\ (Leaves(s) \/ Takes(s) \/ Keeps(s))

\* Before it selects, and where it fails, a sweep leaves what it had.
LEMMA LeavesMoves ==
    ASSUME Shape, NEW s \in Sweeps,
           \/ Begin(s) \/ NoRateSkip(s) \/ NonPositive(s) \/ ReadRate(s)
           \/ LiquidateFails(s) \/ Swap(s) \/ SwapFails(s) \/ AlertSet(s) \/ Abort(s)
    PROVE  Moves(s) /\ Leaves(s)
<1>1. TypeOK /\ SweepShape /\ sweep \in [Sweeps -> Cycles]
    BY DEF Shape, TypeOK, Cycles, Steps
<1>2. CASE Begin(s) \/ NoRateSkip(s) \/ NonPositive(s)
    <2>1. sweep[s].todo = {} /\ sweep[s].l = NoLoan
        BY <1>1, <1>2 DEF SweepShape, Begin, NoRateSkip, NonPositive, At, OnLoan, Cycles
    <2>2. "idle" \in Steps /\ "rate" \in Steps
        BY DEF Steps
    <2>3. PICK step \in {"idle", "rate"} : Goto(s, step)
        BY <1>2 DEF Begin, NoRateSkip, NonPositive
    <2>4. QED
        BY <1>1, <2>1, <2>2, <2>3, GotoCycle DEF Moves, Leaves
<1>3. CASE ReadRate(s)
    BY <1>1, <1>3, ReadRateCycle DEF Moves
<1>4. CASE LiquidateFails(s) \/ Swap(s) \/ SwapFails(s) \/ AlertSet(s)
    BY <1>1, <1>4, ProceedCycle DEF Moves, LiquidateFails, Swap, SwapFails, AlertSet
<1>5. CASE Abort(s)
    BY <1>1, <1>5, AbortCycle DEF Moves
<1>6. QED
    BY <1>2, <1>3, <1>4, <1>5

\* A sweep that acts on its loan keeps it until it leaves it.
LEMMA KeepsMoves ==
    ASSUME Shape, NEW s \in Sweeps,
           Liquidate(s) \/ Mail(s) \/ MailFails(s) \/ ClaimFails(s)
    PROVE  /\ Moves(s) /\ Keeps(s)
           /\ sweep'[s].step = IF At(s, "liquidate") THEN "swap"
                               ELSE IF At(s, "mail") THEN After(s, sweep[s].kind) ELSE "alert"
<1>1. TypeOK /\ SweepShape /\ sweep \in [Sweeps -> Cycles]
    BY DEF Shape, TypeOK, Cycles, Steps
<1>2. sweep[s].step \in OnLoan
    BY DEF Liquidate, Mail, MailFails, ClaimFails, At, OnLoan
<1>3. sweep[s].kind \in Kinds
    BY <1>1 DEF Cycles
<1> DEFINE step == IF At(s, "liquidate") THEN "swap"
                   ELSE IF At(s, "mail") THEN After(s, sweep[s].kind) ELSE "alert"
<1>4. step \in Steps /\ step \in OnLoan /\ step # "mail"
    BY <1>3, AfterStep DEF Steps, OnLoan
<1>5. Goto(s, step)
    BY DEF Liquidate, Mail, MailFails, ClaimFails, At
<1>6. QED
    <2> HIDE DEF step
    <2>1. Moves(s) /\ Keeps(s) /\ sweep'[s].step = step
        BY <1>1, <1>2, <1>4, <1>5, GotoCycle DEF Moves, Keeps
    <2>2. QED
        BY <2>1 DEF step

\* A claim keeps the loan.
LEMMA ClaimMoves ==
    ASSUME Shape, NEW s \in Sweeps, NEW kind \in Kinds, Claim(s, kind)
    PROVE  /\ Moves(s) /\ Keeps(s)
           /\ IF <<kind, sweep[s].l>> \in keys THEN sweep'[s].step \in {"call", "alert"}
              ELSE sweep'[s].step = "mail" /\ sweep'[s].kind = kind
<1>1. TypeOK /\ SweepShape /\ sweep \in [Sweeps -> Cycles]
    BY DEF Shape, TypeOK, Cycles, Steps
<1>2. QED
    BY <1>1, ClaimCycle DEF Moves

\* The alert's key is found, and the loan is left; or it is not, and ops are paged.
LEMMA AlertGetMoves ==
    ASSUME Shape, NEW s \in Sweeps, AlertGet(s)
    PROVE  /\ Moves(s)
           /\ IF AlertKey(s) \in keys THEN Leaves(s) ELSE Keeps(s) /\ sweep'[s].step = "page"
<1>1. TypeOK /\ SweepShape /\ sweep \in [Sweeps -> Cycles]
    BY DEF Shape, TypeOK, Cycles, Steps
<1>2. CASE AlertKey(s) \in keys
    BY <1>1, <1>2, ProceedCycle DEF AlertGet, Moves
<1>3. CASE AlertKey(s) \notin keys
    BY <1>1, <1>3, GotoCycle DEF AlertGet, Moves, Keeps, OnLoan, At, Steps
<1>4. QED
    BY <1>2, <1>3

\* An assessment takes the loan or passes over it.
LEMMA AssessMoves ==
    ASSUME Shape, NEW s \in Sweeps, NEW l \in Loans, Assess(s, l)
    PROVE  Moves(s) /\ (Leaves(s) \/ Takes(s))
<1>1. TypeOK /\ SweepShape /\ sweep \in [Sweeps -> Cycles]
    BY DEF Shape, TypeOK, Cycles, Steps
<1>2. QED
    BY <1>1, AssessCycle DEF Moves

\* The shape survives every step.
LEMMA NextShape == Shape /\ [Next]_vars => Shape'
<1> SUFFICES ASSUME Shape, [Next]_vars
             PROVE  Shape'
    OBVIOUS
<1> USE MonitorAssumption DEF MonitorAssumption
<1>t. TypeOK /\ SweepShape /\ sweep \in [Sweeps -> Cycles]
    BY DEF Shape, TypeOK, Cycles, Steps
<1>m. ASSUME NEW s \in Sweeps, Moves(s)
      PROVE  SweepShape' /\ sweep' \in [Sweeps -> Cycles]
    BY <1>m, <1>t, SweepShapeKept DEF Moves
<1>f. Fault => faults' \in 0 .. MaxFaults
    BY <1>t DEF Fault, TypeOK
<1>1. ASSUME NEW rate \in Rates, Publish(rate)
      PROVE  Shape'
    BY <1>t, <1>1 DEF Publish, Shape, TypeOK, SweepShape, At, toldVars
<1>2. ASSUME FeedFails \/ PriceExpires
      PROVE  Shape'
    BY <1>t, <1>2 DEF FeedFails, PriceExpires, Shape, TypeOK, SweepShape, At, toldVars
<1>3. ASSUME NEW l \in Loans, Repay(l)
      PROVE  Shape'
    <2>1. Record(l, "ACTIVE", "REPAID", "REPAYMENT_COMPLETED")
        BY <1>3 DEF Repay, Transition
    <2>2. log' \in [Loans -> Seq(LogRow)]
        BY <1>t, <2>1, RecordLogs DEF TypeOK, Statuses, Reasons
    <2>3. status' = [status EXCEPT ![l] = "REPAID"]
        BY <1>3 DEF Repay, Transition
    <2>4. status' \in [Loans -> {"ACTIVE", "REPAID", "LIQUIDATED"}]
        BY <1>t, <2>3 DEF TypeOK
    <2>5. contested' \subseteq Loans /\ owed' \in [Loans -> Balances \cup {0}]
        BY <1>t, <1>3 DEF Repay, TypeOK
    <2>6. QED
        BY <1>t, <1>3, <2>2, <2>4, <2>5 DEF Repay, Shape, TypeOK, SweepShape, At, toldVars, feedVars
<1>4. ASSUME NEW l \in Loans, Return(l)
      PROVE  Shape'
    <2>1. moved' \in [Loans -> Seq({"swapped", "returned"})]
        BY <1>t, <1>4 DEF Return, TypeOK
    <2>2. QED
        BY <1>t, <1>4, <2>1 DEF Return, Shape, TypeOK, SweepShape, At, toldVars, feedVars
<1>5. ASSUME NEW l \in Loans, NEW balance \in Balances, Owes(l, balance)
      PROVE  Shape'
    <2>1. owed' \in [Loans -> Balances \cup {0}]
        BY <1>t, <1>5 DEF Owes, TypeOK
    <2>2. QED
        BY <1>t, <1>5, <2>1 DEF Owes, Shape, TypeOK, SweepShape, At, toldVars, feedVars
<1>6. ASSUME NEW s \in Sweeps,
             Begin(s) \/ NoRateSkip(s) \/ NonPositive(s) \/ ReadRate(s)
      PROVE  Shape'
    <2>1. Moves(s)
        BY <1>6, LeavesMoves
    <2>2. QED
        BY <1>6, <1>t, <1>m, <2>1
        DEF Begin, NoRateSkip, NonPositive, ReadRate, Shape, TypeOK, Cycles, Steps, toldVars, feedVars
<1>7. ASSUME NEW s \in Sweeps,
             LiquidateFails(s) \/ SwapFails(s) \/ Abort(s)
      PROVE  Shape'
    <2>1. Moves(s)
        BY <1>7, LeavesMoves
    <2>2. QED
        BY <1>7, <1>t, <1>m, <1>f, <2>1
        DEF LiquidateFails, SwapFails, Abort, Shape, TypeOK, Cycles, Steps, toldVars, feedVars
<1>8. ASSUME NEW s \in Sweeps, MailFails(s) \/ ClaimFails(s)
      PROVE  Shape'
    <2>1. Moves(s)
        BY <1>8, KeepsMoves
    <2>2. QED
        BY <1>8, <1>t, <1>m, <1>f, <2>1
        DEF MailFails, ClaimFails, Shape, TypeOK, Cycles, Steps, toldVars, feedVars
<1>9. ASSUME NEW s \in Sweeps, Select(s)
      PROVE  Shape'
    <2>1. /\ sweep' \in [Sweeps -> Cycles] /\ Others(s)
          /\ sweep'[s].step \in {"idle", "assess"} /\ sweep'[s].l = NoLoan
          /\ sweep'[s].todo = Selected /\ sweep[s].step = "select"
        BY <1>9, <1>t, SelectCycle DEF Select, At
    <2>e. sweep'[s].step = "idle" => sweep'[s].todo = {}
        BY <1>9, <1>t, <2>1 DEF Select, Idle, Cycles
    <2>n. NoLoan \notin Loans /\ Selected \subseteq Loans
        BY DEF NoLoan, Selected, ActiveLoans
    <2>s. SweepShape'
        BY <1>t, <2>1, <2>e, <2>n DEF SweepShape, At, Others, OnLoan
    <2>2. contested' \subseteq Loans
        BY <1>9, <1>t DEF Select, TypeOK, Selected, ActiveLoans
    <2>3. QED
        BY <1>9, <1>t, <2>1, <2>s, <2>2 DEF Select, Shape, TypeOK, Cycles, Steps, toldVars, feedVars
<1>10. ASSUME NEW s \in Sweeps, NEW l \in Loans, Assess(s, l)
       PROVE  Shape'
    <2>1. Moves(s)
        BY <1>10, AssessMoves
    <2>2. QED
        BY <1>10, <1>t, <1>m, <2>1 DEF Assess, Shape, TypeOK, Cycles, Steps, toldVars, feedVars
<1>11. ASSUME NEW s \in Sweeps, Liquidate(s)
       PROVE  Shape'
    <2>1. Moves(s) /\ sweep[s].l \in Loans
        BY <1>11, <1>t, KeepsMoves DEF Liquidate, SweepShape, At, OnLoan
    <2>2. Record(sweep[s].l, "ACTIVE", "LIQUIDATED", "LIQUIDATION_COMPLETED")
        BY <1>11 DEF Liquidate
    <2>3. log' \in [Loans -> Seq(LogRow)]
        BY <1>t, <2>1, <2>2, RecordLogs DEF TypeOK, Statuses, Reasons
    <2>4. status' \in [Loans -> {"ACTIVE", "REPAID", "LIQUIDATED"}]
        BY <1>11, <1>t DEF Liquidate, TypeOK
    <2>5. QED
        BY <1>11, <1>t, <1>m, <2>1, <2>3, <2>4
        DEF Liquidate, Shape, TypeOK, Cycles, Steps, toldVars, feedVars
<1>12. ASSUME NEW s \in Sweeps, Swap(s)
       PROVE  Shape'
    <2>1. Moves(s)
        BY <1>12, LeavesMoves
    <2>l. sweep[s].l \in Loans
        BY <1>12, <1>t DEF Swap, SweepShape, At, OnLoan
    <2>a. moved' = [moved EXCEPT ![sweep[s].l] = Append(moved[sweep[s].l], "swapped")]
        BY <1>12 DEF Swap
    <2>2. moved' \in [Loans -> Seq({"swapped", "returned"})]
        BY <1>t, <2>l, <2>a DEF TypeOK
    <2>3. QED
        BY <1>12, <1>t, <1>m, <2>1, <2>2 DEF Swap, Shape, TypeOK, Cycles, Steps, toldVars, feedVars
<1>13. ASSUME NEW s \in Sweeps, NEW kind \in Kinds, Claim(s, kind)
       PROVE  Shape'
    <2>1. Moves(s) /\ sweep[s].l \in Loans
        BY <1>13, <1>t, ClaimMoves DEF Claim, Kinds, SweepShape, At, OnLoan
    <2>2. keys' \subseteq Kinds \X Loans
        BY <1>13, <1>t, <2>1 DEF Claim, TypeOK
    <2>3. QED
        BY <1>13, <1>t, <1>m, <2>1, <2>2 DEF Claim, Shape, TypeOK, Cycles, Steps, feedVars
<1>14. ASSUME NEW s \in Sweeps, Mail(s)
       PROVE  Shape'
    <2>1. Moves(s) /\ <<sweep[s].kind, sweep[s].l>> \in Kinds \X Loans
        BY <1>14, <1>t, KeepsMoves DEF Mail, SweepShape, At, OnLoan, Kinds
    <2>2. told' \in [Kinds \X Loans -> Nat]
        BY <1>14, <1>t, <2>1, ToldMore DEF Mail, TypeOK
    <2>3. QED
        BY <1>14, <1>t, <1>m, <2>1, <2>2 DEF Mail, Shape, TypeOK, Cycles, Steps, feedVars
<1>15. ASSUME NEW s \in Sweeps, AlertGet(s)
       PROVE  Shape'
    <2>1. Moves(s)
        BY <1>15, AlertGetMoves
    <2>2. QED
        BY <1>15, <1>t, <1>m, <2>1 DEF AlertGet, Shape, TypeOK, Cycles, Steps, toldVars, feedVars
<1>16. ASSUME NEW s \in Sweeps, AlertSet(s)
       PROVE  Shape'
    <2>1. Moves(s) /\ sweep[s].l \in Loans
        BY <1>16, <1>t, LeavesMoves DEF AlertSet, SweepShape, At, OnLoan
    <2>k. AlertKey(s) \in Kinds \X Loans
        BY <2>1 DEF AlertKey, Kinds
    <2>2. told' \in [Kinds \X Loans -> Nat]
        BY <1>16, <1>t, <2>k, ToldMore DEF AlertSet, TypeOK
    <2>3. keys' \subseteq Kinds \X Loans
        BY <1>16, <1>t, <2>1 DEF AlertSet, AlertKey, TypeOK, Kinds
    <2>4. QED
        BY <1>16, <1>t, <1>m, <2>1, <2>2, <2>3 DEF AlertSet, Shape, TypeOK, Cycles, Steps, feedVars
<1>17. ASSUME NEW k \in Kinds \X Loans, KeyExpires(k)
       PROVE  Shape'
    <2>1. told' \in [Kinds \X Loans -> Nat] /\ keys' \subseteq Kinds \X Loans
        BY <1>17, <1>t DEF KeyExpires, TypeOK
    <2>2. QED
        BY <1>17, <1>t, <2>1 DEF KeyExpires, Shape, TypeOK, SweepShape, At, feedVars
<1>18. ASSUME WorkerDies
       PROVE  Shape'
    <2>1. Idle \in Cycles /\ NoLoan \notin Loans
        BY DEF Idle, Nothing, Cycles, Steps, NoLoan, NoRate, Kinds
    <2>2. sweep' \in [Sweeps -> Cycles] /\ SweepShape'
        BY <1>18, <2>1 DEF WorkerDies, SweepShape, OnLoan, Idle, At
    <2>3. QED
        BY <1>18, <1>t, <1>f, <2>2 DEF WorkerDies, Shape, TypeOK, Cycles, Steps, toldVars, feedVars
<1>19. CASE UNCHANGED vars
    BY <1>19, <1>t DEF vars, Shape, TypeOK, SweepShape, At, toldVars, feedVars
<1>20. QED
    BY <1>1, <1>2, <1>3, <1>4, <1>5, <1>6, <1>7, <1>8, <1>9, <1>10, <1>11, <1>12, <1>13,
       <1>14, <1>15, <1>16, <1>17, <1>18, <1>19
    DEF Next, Step, Fails

-----------------------------------------------------------------------------
(* Custody: who has a loan in hand                                         *)

\* The sweep gets hold of no loan, sells none now, and lets go of what it sold.
Ebbs(s) ==
    \A l \in Loans :
        /\ Holds(s, l)' => Holds(s, l) /\ ~Selling(s, l)
        /\ ~Selling(s, l)'

\* No move of a sweep but the seizure has it sell.
LEMMA MovesEbb ==
    ASSUME Shape, NEW s \in Sweeps, Moves(s), sweep'[s].step # "swap",
           Keeps(s) => ~At(s, "swap")
    PROVE  Ebbs(s)
<1> SUFFICES ASSUME NEW l \in Loans, sweep'[s].l = l \/ l \in sweep'[s].todo
             PROVE  Holds(s, l) /\ ~Selling(s, l)
    BY DEF Ebbs, Holds, Selling, At
<1>1. sweep[s].l \notin sweep[s].todo /\ l # NoLoan
    BY MonitorAssumption DEF MonitorAssumption, NoLoan, Shape, SweepShape
<1>2. CASE Leaves(s)
    BY <1>1, <1>2 DEF Leaves, Holds, Selling
<1>3. CASE Takes(s)
    BY <1>3 DEF Takes, Holds, Selling, At
<1>4. CASE Keeps(s)
    BY <1>4 DEF Keeps, Holds, Selling
<1>5. QED
    BY <1>2, <1>3, <1>4 DEF Moves

\* Letting go of loans disputes nobody's hold.
LEMMA EbbKeepsCustody ==
    ASSUME Custody, NEW s \in Sweeps, Others(s), Ebbs(s), UNCHANGED <<status, moved, contested>>
    PROVE  Custody'
<1> SUFFICES ASSUME NEW l \in Loans \ contested
             PROVE  Undisputed(l)'
    BY DEF Custody
<1>1. Undisputed(l)
    BY DEF Custody
<1>2. \A t \in Sweeps : Holds(t, l)' => Holds(t, l) /\ (Selling(t, l)' <=> Selling(t, l))
    BY DEF Others, Ebbs, Holds, Selling, At
<1>3. \A t \in Sweeps : Selling(t, l)' => Selling(t, l)
    BY DEF Others, Ebbs, Selling, At
<1>4. QED
    BY <1>1, <1>2, <1>3 DEF Undisputed

\* The sweeps, the loans and their collateral stay as they are.
LEMMA StillKeepsCustody ==
    ASSUME Custody, UNCHANGED <<status, moved, contested, sweep>>
    PROVE  Custody'
BY DEF Custody, Undisputed, Holds, Selling, At

\* Nobody holds the loan a payment closes, or it is contested from now on.
LEMMA RepayKeepsCustody ==
    ASSUME Shape, Custody, NEW l \in Loans, Repay(l)
    PROVE  Custody'
<1> SUFFICES ASSUME NEW k \in Loans \ contested'
             PROVE  Undisputed(k)'
    BY DEF Custody
<1>1. k \notin contested /\ Undisputed(k)
    BY DEF Custody, Repay
<1>2. status' = [status EXCEPT ![l] = "REPAID"] /\ status[l] = "ACTIVE"
    BY DEF Repay, Transition
<1>3. UNCHANGED <<moved, sweep>>
    BY DEF Repay
<1>4. CASE k = l
    <2>1. \A s \in Sweeps : ~Holds(s, l)
        BY <1>4 DEF Repay, Held
    <2>2. status'[l] = "REPAID"
        BY <1>2 DEF Shape, TypeOK
    <2>3. QED
        BY <1>1, <1>2, <1>3, <1>4, <2>1, <2>2 DEF Undisputed, Holds, Selling, At
<1>5. CASE k # l
    BY <1>1, <1>2, <1>3, <1>5 DEF Undisputed, Holds, Selling, At, Shape, TypeOK
<1>6. QED
    BY <1>4, <1>5

\* What is returned has not been sold.
LEMMA ReturnKeepsCustody ==
    ASSUME Shape, Custody, NEW l \in Loans, Return(l)
    PROVE  Custody'
<1> SUFFICES ASSUME NEW k \in Loans \ contested
             PROVE  Undisputed(k)'
    BY DEF Custody, Return
<1>1. Undisputed(k)
    BY DEF Custody
<1>2. moved[l] \in Seq({"swapped", "returned"}) /\ moved' = [moved EXCEPT ![l] = Append(moved[l], "returned")]
    BY DEF Return, Shape, TypeOK
<1>3. UNCHANGED <<status, sweep>>
    BY DEF Return
<1>4. CASE k = l
    <2>1. status[l] = "REPAID" /\ \A s \in Sweeps : ~Selling(s, l)
        BY <1>1, <1>4 DEF Return, Undisputed
    <2>2. moved[l] = << >>
        <3>1. SUFFICES ASSUME moved[l] # << >>
                       PROVE  FALSE
            OBVIOUS
        <3>2. 1 \in DOMAIN moved[l] /\ moved[l][1] = "returned"
            BY <1>1, <1>2, <1>4, <2>1, <3>1 DEF Undisputed
        <3>3. QED
            BY <3>2 DEF Return
    <2>3. moved'[l] = << "returned" >>
        BY <1>2, <2>2 DEF Shape, TypeOK
    <2>4. QED
        BY <1>1, <1>3, <1>4, <2>1, <2>3 DEF Undisputed, Holds, Selling, At
<1>5. CASE k # l
    BY <1>1, <1>2, <1>3, <1>5 DEF Undisputed, Holds, Selling, At, Shape, TypeOK
<1>6. QED
    BY <1>4, <1>5

\* A sweep gets hold of ACTIVE loans; those another holds are contested now.
LEMMA SelectKeepsCustody ==
    ASSUME Shape, Custody, NEW s \in Sweeps, Select(s)
    PROVE  Custody'
<1> SUFFICES ASSUME NEW l \in Loans \ contested'
             PROVE  Undisputed(l)'
    BY DEF Custody
<1>1. l \notin contested /\ Undisputed(l)
    BY DEF Custody, Select
<1>2. UNCHANGED <<status, moved>>
    BY DEF Select
<1>3. /\ Others(s) /\ sweep'[s].step \in {"idle", "assess"} /\ sweep'[s].l = NoLoan
      /\ sweep'[s].todo = Selected /\ NoLoan \notin Loans
    BY SelectCycle, MonitorAssumption DEF MonitorAssumption, NoLoan, Shape, TypeOK, Cycles, Steps
<1>4. Holds(s, l)' <=> l \in Selected
    BY <1>3 DEF Holds
<1>5. \A t \in Sweeps \ {s} : /\ Holds(t, l)' <=> Holds(t, l)
                              /\ Selling(t, l)' <=> Selling(t, l)
    BY <1>3 DEF Others, Holds, Selling, At
<1>6. ~Selling(s, l)'
    BY <1>3 DEF Selling, At
<1>7. CASE l \in Selected
    <2>1. \A t \in Sweeps \ {s} : ~Holds(t, l)
        BY <1>7 DEF Select
    <2>2. status[l] = "ACTIVE"
        BY <1>7 DEF Selected, ActiveLoans
    <2>3. \A t \in Sweeps \ {s} : ~Selling(t, l)
        BY <2>1 DEF Holds, Selling
    <2>4. QED
        BY <1>1, <1>2, <1>5, <1>6, <2>1, <2>2, <2>3 DEF Undisputed
<1>8. CASE l \notin Selected
    BY <1>1, <1>2, <1>4, <1>5, <1>6, <1>8 DEF Undisputed
<1>9. QED
    BY <1>7, <1>8

\* The loan that is seized, unless contested, is as it was selected: ACTIVE,
\* with its collateral in place, although the UPDATE does not look.
LEMMA LiquidateKeepsCustody ==
    ASSUME Shape, Custody, NEW s \in Sweeps, Liquidate(s)
    PROVE  Custody'
<1> SUFFICES ASSUME NEW l \in Loans \ contested
             PROVE  Undisputed(l)'
    BY DEF Custody, Liquidate
<1>1. Undisputed(l)
    BY DEF Custody
<1>2. UNCHANGED moved /\ status' = [status EXCEPT ![sweep[s].l] = "LIQUIDATED"] /\ At(s, "liquidate")
    BY DEF Liquidate
<1>3. /\ Others(s) /\ sweep'[s].step = "swap"
      /\ sweep'[s].l = sweep[s].l /\ sweep'[s].todo = sweep[s].todo
    BY <1>2, KeepsMoves DEF Moves, Keeps
<1>4. \A t \in Sweeps : Holds(t, l)' <=> Holds(t, l)
    BY <1>3 DEF Others, Holds
<1>5. \A t \in Sweeps \ {s} : Selling(t, l)' <=> Selling(t, l)
    BY <1>3 DEF Others, Selling, At
<1>6. CASE sweep[s].l = l
    <2>1. Holds(s, l) /\ ~Selling(s, l) /\ Selling(s, l)'
        BY <1>2, <1>3, <1>6 DEF Holds, Selling, At
    <2>2. status[l] = "ACTIVE" /\ moved[l] = << >>
        BY <1>1, <2>1 DEF Undisputed
    <2>3. status'[l] = "LIQUIDATED"
        BY <1>2, <1>6 DEF Shape, TypeOK
    <2>4. \A t \in Sweeps \ {s} : ~Holds(t, l)
        BY <1>1, <2>1 DEF Undisputed
    <2>5. QED
        BY <1>1, <1>2, <1>4, <2>1, <2>2, <2>3, <2>4 DEF Undisputed, Holds, Selling
<1>7. CASE sweep[s].l # l
    <2>1. status'[l] = status[l]
        BY <1>2, <1>7 DEF Shape, TypeOK
    <2>2. ~Selling(s, l) /\ ~Selling(s, l)'
        BY <1>3, <1>7 DEF Selling
    <2>3. QED
        BY <1>1, <1>2, <1>4, <1>5, <2>1, <2>2 DEF Undisputed
<1>8. QED
    BY <1>6, <1>7

\* What is sold is sold by its only holder, who then lets go of it.
LEMMA SwapKeepsCustody ==
    ASSUME Shape, Custody, NEW s \in Sweeps, Swap(s)
    PROVE  Custody'
<1> SUFFICES ASSUME NEW l \in Loans \ contested
             PROVE  Undisputed(l)'
    BY DEF Custody, Swap
<1>1. Undisputed(l)
    BY DEF Custody
<1>2. /\ moved' = [moved EXCEPT ![sweep[s].l] = Append(moved[sweep[s].l], "swapped")]
      /\ UNCHANGED status /\ At(s, "swap")
    BY DEF Swap
<1>3. Others(s) /\ Leaves(s)
    BY LeavesMoves DEF Moves
<1>4. Ebbs(s)
    BY <1>3, LeavesMoves, MovesEbb DEF Leaves, Keeps, OnLoan
<1>5. \A t \in Sweeps : Holds(t, l)' => Holds(t, l) /\ (Selling(t, l)' <=> Selling(t, l))
    BY <1>3, <1>4 DEF Others, Ebbs, Holds, Selling, At
<1>6. CASE sweep[s].l = l
    <2>1. Selling(s, l) /\ Holds(s, l)
        BY <1>2, <1>6 DEF Selling, Holds
    <2>2. status[l] = "LIQUIDATED" /\ moved[l] = << >>
        BY <1>1, <2>1 DEF Undisputed
    <2>3. \A t \in Sweeps : ~Holds(t, l)'
        BY <1>1, <1>4, <1>5, <2>1 DEF Undisputed, Ebbs
    <2>4. \A t \in Sweeps : ~Selling(t, l)'
        BY <2>3 DEF Holds, Selling
    <2>5. moved'[l] = << "swapped" >>
        BY <1>2, <1>6, <2>2 DEF Shape, TypeOK
    <2>6. QED
        BY <1>1, <1>2, <2>2, <2>3, <2>4, <2>5 DEF Undisputed
<1>7. CASE sweep[s].l # l
    <2>1. moved'[l] = moved[l]
        BY <1>2, <1>7 DEF Shape, TypeOK
    <2>2. \A t \in Sweeps : Selling(t, l)' => Selling(t, l)
        BY <1>3, <1>4 DEF Others, Ebbs, Selling, At
    <2>3. QED
        BY <1>1, <1>2, <1>5, <2>1, <2>2 DEF Undisputed
<1>8. QED
    BY <1>6, <1>7

\* Dead sweeps hold nothing.
LEMMA DeathKeepsCustody ==
    ASSUME Shape, Custody, WorkerDies
    PROVE  Custody'
<1> SUFFICES ASSUME NEW l \in Loans \ contested
             PROVE  Undisputed(l)'
    BY DEF Custody, WorkerDies
<1>1. Undisputed(l) /\ UNCHANGED <<status, moved>> /\ l # NoLoan
    BY MonitorAssumption DEF MonitorAssumption, NoLoan, Custody, WorkerDies
<1>2. \A t \in Sweeps : ~Holds(t, l)' /\ ~Selling(t, l)'
    BY <1>1 DEF WorkerDies, Idle, Holds, Selling, At
<1>3. QED
    BY <1>1, <1>2 DEF Undisputed

\* Custody survives every step.
LEMMA NextCustody == Shape /\ Custody /\ [Next]_vars => Custody'
<1> SUFFICES ASSUME Shape, Custody, [Next]_vars
             PROVE  Custody'
    OBVIOUS
<1>e. ASSUME NEW s \in Sweeps, Moves(s), sweep'[s].step # "swap", Keeps(s) => ~At(s, "swap"),
             UNCHANGED <<status, moved, contested>>
      PROVE  Custody'
    BY <1>e, MovesEbb, EbbKeepsCustody DEF Moves
<1>1. ASSUME NEW rate \in Rates, Publish(rate)
      PROVE  Custody'
    BY <1>1, StillKeepsCustody DEF Publish
<1>2. CASE FeedFails \/ PriceExpires \/ UNCHANGED vars
    BY <1>2, StillKeepsCustody DEF FeedFails, PriceExpires, vars
<1>3. ASSUME NEW l \in Loans, Repay(l) \/ Return(l)
      PROVE  Custody'
    BY <1>3, RepayKeepsCustody, ReturnKeepsCustody
<1>4. ASSUME NEW l \in Loans, NEW balance \in Balances, Owes(l, balance)
      PROVE  Custody'
    BY <1>4, StillKeepsCustody DEF Owes
<1>5. ASSUME NEW k \in Kinds \X Loans, KeyExpires(k)
      PROVE  Custody'
    BY <1>5, StillKeepsCustody DEF KeyExpires
<1>6. ASSUME NEW s \in Sweeps,
             \/ Begin(s) \/ NoRateSkip(s) \/ NonPositive(s) \/ ReadRate(s)
             \/ LiquidateFails(s) \/ SwapFails(s) \/ AlertSet(s) \/ Abort(s)
      PROVE  Custody'
    <2>1. Moves(s) /\ Leaves(s)
        BY <1>6, LeavesMoves
    <2>2. sweep'[s].step # "swap" /\ ~Keeps(s)
        BY <2>1 DEF Leaves, Keeps, OnLoan
    <2>3. UNCHANGED <<status, moved, contested>>
        BY <1>6 DEF Begin, NoRateSkip, NonPositive, ReadRate, LiquidateFails, SwapFails, AlertSet, Abort
    <2>4. QED
        BY <1>e, <2>1, <2>2, <2>3
<1>7. ASSUME NEW s \in Sweeps, Mail(s) \/ MailFails(s) \/ ClaimFails(s)
      PROVE  Custody'
    <2>1. Moves(s) /\ ~At(s, "liquidate") /\ ~At(s, "swap")
        BY <1>7, KeepsMoves DEF Mail, MailFails, ClaimFails, At
    <2>2. sweep'[s].step # "swap"
        BY <1>7, <2>1, KeepsMoves, AfterStep DEF After
    <2>3. UNCHANGED <<status, moved, contested>>
        BY <1>7 DEF Mail, MailFails, ClaimFails
    <2>4. QED
        BY <1>e, <2>1, <2>2, <2>3
<1>8. ASSUME NEW s \in Sweeps, NEW kind \in Kinds, Claim(s, kind)
      PROVE  Custody'
    <2>1. Moves(s) /\ sweep'[s].step # "swap"
        BY <1>8, ClaimMoves
    <2>2. ~At(s, "swap") /\ UNCHANGED <<status, moved, contested>>
        BY <1>8 DEF Claim, At, Kinds
    <2>3. QED
        BY <1>e, <2>1, <2>2
<1>9. ASSUME NEW s \in Sweeps, AlertGet(s)
      PROVE  Custody'
    <2>1. Moves(s) /\ sweep'[s].step # "swap"
        BY <1>9, AlertGetMoves DEF Leaves
    <2>2. ~At(s, "swap") /\ UNCHANGED <<status, moved, contested>>
        BY <1>9 DEF AlertGet, At
    <2>3. QED
        BY <1>e, <2>1, <2>2
<1>10. ASSUME NEW s \in Sweeps, NEW l \in Loans, Assess(s, l)
       PROVE  Custody'
    <2>1. Moves(s) /\ sweep'[s].step # "swap"
        BY <1>10, AssessMoves DEF Leaves, Takes
    <2>2. ~At(s, "swap") /\ UNCHANGED <<status, moved, contested>>
        BY <1>10 DEF Assess, At
    <2>3. QED
        BY <1>e, <2>1, <2>2
<1>11. ASSUME NEW s \in Sweeps, Select(s) \/ Liquidate(s) \/ Swap(s)
       PROVE  Custody'
    BY <1>11, SelectKeepsCustody, LiquidateKeepsCustody, SwapKeepsCustody
<1>12. CASE WorkerDies
    BY <1>12, DeathKeepsCustody
<1>13. QED
    BY <1>1, <1>2, <1>3, <1>4, <1>5, <1>6, <1>7, <1>8, <1>9, <1>10, <1>11, <1>12
    DEF Next, Step, Fails

-----------------------------------------------------------------------------
(* Notices to the customer                                                 *)

Notices == {"warn", "call"} \X Loans

\* No sweep comes to mail, and what is told and claimed stays so.
LEMMA QuietKeepsMailed ==
    ASSUME Mailed, keys \subseteq keys', \A k \in Notices : told'[k] = told[k],
           \A t \in Sweeps, k \in Notices : Mailing(t, k)' => Mailing(t, k)
    PROVE  Mailed'
BY DEF Mailed, Notices

\* A sweep that moves without mailing next leaves the others mailing.
LEMMA MovesMail ==
    ASSUME NEW s \in Sweeps, Others(s), sweep'[s].step # "mail"
    PROVE  \A t \in Sweeps, k \in Notices : Mailing(t, k)' => t # s /\ Mailing(t, k)
BY DEF Others, Mailing, At

\* Of the sweeps that want a key one has it, and mails what was not told.
LEMMA ClaimKeepsMailed ==
    ASSUME Shape, Mailed, NEW s \in Sweeps, NEW kind \in Kinds, Claim(s, kind)
    PROVE  Mailed'
<1>1. /\ Others(s) /\ sweep'[s].l = sweep[s].l
      /\ IF <<kind, sweep[s].l>> \in keys THEN sweep'[s].step \in {"call", "alert"}
         ELSE sweep'[s].step = "mail" /\ sweep'[s].kind = kind
    BY ClaimMoves DEF Moves, Keeps
<1>2. keys' = keys \cup {<<kind, sweep[s].l>>} /\ UNCHANGED told
    BY DEF Claim
<1>3. CASE <<kind, sweep[s].l>> \in keys
    BY <1>1, <1>2, <1>3, MovesMail, QuietKeepsMailed
<1>4. CASE <<kind, sweep[s].l>> \notin keys
    <2> SUFFICES ASSUME NEW k \in {"warn", "call"} \X Loans
                 PROVE  /\ \A t, u \in Sweeps : Mailing(t, k)' /\ Mailing(u, k)' => t = u
                        /\ \A t \in Sweeps : Mailing(t, k)' => k \in keys' /\ told'[k] = 0
                        /\ k \notin keys' => told'[k] = 0
                        /\ told'[k] <= 1
        BY DEF Mailed
    <2>1. \A t \in Sweeps \ {s} : Mailing(t, k)' <=> Mailing(t, k)
        BY <1>1 DEF Others, Mailing, At
    <2>2. Mailing(s, k)' <=> k = <<kind, sweep[s].l>>
        BY <1>1, <1>4 DEF Mailing, At
    <2>3. CASE k = <<kind, sweep[s].l>>
        BY <1>2, <1>4, <2>1, <2>2, <2>3 DEF Mailed
    <2>4. CASE k # <<kind, sweep[s].l>>
        BY <1>2, <2>1, <2>2, <2>4 DEF Mailed
    <2>5. QED
        BY <2>3, <2>4
<1>5. QED
    BY <1>3, <1>4

\* The one sweep that has the key tells the notice for the first time.
LEMMA MailKeepsMailed ==
    ASSUME Shape, Mailed, NEW s \in Sweeps, Mail(s)
    PROVE  Mailed'
<1> DEFINE j == <<sweep[s].kind, sweep[s].l>>
<1>1. Others(s) /\ sweep'[s].step # "mail"
    BY KeepsMoves, AfterStep DEF Mail, At, Moves, After
<1>2. Mailing(s, j) /\ j \in Notices
    BY DEF Mail, Mailing, Notices, Shape, SweepShape, At, OnLoan
<1>3. told' = [told EXCEPT ![j] = @ + 1] /\ UNCHANGED keys
    BY DEF Mail
<1>4. j \in Kinds \X Loans
    BY <1>2 DEF Notices, Kinds
<1>5. told'[j] = told[j] + 1 /\ \A k \in Notices \ {j} : told'[k] = told[k]
    <2>1. Notices \subseteq Kinds \X Loans /\ told \in [Kinds \X Loans -> Nat]
        BY DEF Notices, Kinds, Shape, TypeOK
    <2> HIDE DEF j
    <2>2. QED
        BY <1>3, <1>4, <2>1, ToldMore
<1> SUFFICES ASSUME NEW k \in {"warn", "call"} \X Loans
             PROVE  /\ \A t, u \in Sweeps : Mailing(t, k)' /\ Mailing(u, k)' => t = u
                    /\ \A t \in Sweeps : Mailing(t, k)' => k \in keys' /\ told'[k] = 0
                    /\ k \notin keys' => told'[k] = 0
                    /\ told'[k] <= 1
    BY DEF Mailed
<1> HIDE DEF j
<1>6. \A t \in Sweeps : Mailing(t, k)' => t # s /\ Mailing(t, k)
    BY <1>1, MovesMail DEF Notices
<1>7. CASE k = j
    <2>1. \A t \in Sweeps : ~Mailing(t, k)'
        BY <1>2, <1>6, <1>7 DEF Mailed
    <2>2. k \in keys /\ told[k] = 0
        BY <1>2, <1>7 DEF Mailed
    <2>3. QED
        BY <1>3, <1>5, <1>7, <2>1, <2>2
<1>8. CASE k # j
    BY <1>3, <1>5, <1>6, <1>8 DEF Mailed, Notices
<1>9. QED
    BY <1>7, <1>8

\* A key runs out when nobody mails under it, and its count starts anew.
LEMMA ExpiryKeepsMailed ==
    ASSUME Shape, Mailed, NEW j \in Kinds \X Loans, KeyExpires(j)
    PROVE  Mailed'
<1> SUFFICES ASSUME NEW k \in {"warn", "call"} \X Loans
             PROVE  /\ \A t, u \in Sweeps : Mailing(t, k)' /\ Mailing(u, k)' => t = u
                    /\ \A t \in Sweeps : Mailing(t, k)' => k \in keys' /\ told'[k] = 0
                    /\ k \notin keys' => told'[k] = 0
                    /\ told'[k] <= 1
    BY DEF Mailed
<1>1. keys' = keys \ {j} /\ told' = [told EXCEPT ![j] = 0] /\ UNCHANGED sweep
    BY DEF KeyExpires
<1>2. \A t \in Sweeps : (Mailing(t, k)' <=> Mailing(t, k)) /\ ~Mailing(t, j)
    BY <1>1 DEF Mailing, At, KeyExpires
<1>3. told \in [Kinds \X Loans -> Nat]
    BY DEF Shape, TypeOK
<1>4. CASE k = j
    BY <1>1, <1>2, <1>3, <1>4
<1>5. CASE k # j
    BY <1>1, <1>2, <1>3, <1>5 DEF Mailed
<1>6. QED
    BY <1>4, <1>5

\* The alert of ops has a key of its own.
LEMMA AlertSetKeepsMailed ==
    ASSUME Shape, Mailed, NEW s \in Sweeps, AlertSet(s)
    PROVE  Mailed'
<1>1. Others(s) /\ sweep'[s].step # "mail" /\ sweep[s].l \in Loans
    BY LeavesMoves DEF Moves, Leaves, AlertSet, Shape, SweepShape, At, OnLoan
<1>2. AlertKey(s) \in Kinds \X Loans /\ AlertKey(s) \notin Notices
    BY <1>1 DEF AlertKey, Kinds, Notices
<1>3. Notices \subseteq Kinds \X Loans /\ told \in [Kinds \X Loans -> Nat]
    BY DEF Notices, Kinds, Shape, TypeOK
<1>4. \A k \in Notices : told'[k] = told[k]
    BY <1>2, <1>3, ToldMore DEF AlertSet
<1>5. keys \subseteq keys'
    BY DEF AlertSet
<1>6. QED
    BY <1>1, <1>4, <1>5, MovesMail, QuietKeepsMailed

\* Mailed survives every step.
LEMMA NextMailed == Shape /\ Mailed /\ [Next]_vars => Mailed'
<1> SUFFICES ASSUME Shape, Mailed, [Next]_vars
             PROVE  Mailed'
    OBVIOUS
<1>s. ASSUME UNCHANGED <<keys, told, sweep>>
      PROVE  Mailed'
    BY <1>s DEF Mailed, Mailing, At
<1>q. ASSUME NEW s \in Sweeps, Others(s), sweep'[s].step # "mail", UNCHANGED <<keys, told>>
      PROVE  Mailed'
    BY <1>q, MovesMail, QuietKeepsMailed
<1>1. ASSUME NEW rate \in Rates, Publish(rate)
      PROVE  Mailed'
    BY <1>1, <1>s DEF Publish, toldVars
<1>2. CASE FeedFails \/ PriceExpires \/ UNCHANGED vars
    BY <1>2, <1>s DEF FeedFails, PriceExpires, vars, toldVars
<1>3. ASSUME NEW l \in Loans, Repay(l) \/ Return(l)
      PROVE  Mailed'
    BY <1>3, <1>s DEF Repay, Return, toldVars
<1>4. ASSUME NEW l \in Loans, NEW balance \in Balances, Owes(l, balance)
      PROVE  Mailed'
    BY <1>4, <1>s DEF Owes, toldVars
<1>5. ASSUME NEW k \in Kinds \X Loans, KeyExpires(k)
      PROVE  Mailed'
    BY <1>5, ExpiryKeepsMailed
<1>6. ASSUME NEW s \in Sweeps,
             \/ Begin(s) \/ NoRateSkip(s) \/ NonPositive(s) \/ ReadRate(s)
             \/ LiquidateFails(s) \/ Swap(s) \/ SwapFails(s) \/ Abort(s)
      PROVE  Mailed'
    <2>1. Others(s) /\ sweep'[s].step # "mail"
        BY <1>6, LeavesMoves DEF Moves, Leaves
    <2>2. UNCHANGED <<keys, told>>
        BY <1>6 DEF Begin, NoRateSkip, NonPositive, ReadRate, LiquidateFails, Swap, SwapFails,
                    Abort, toldVars
    <2>3. QED
        BY <1>q, <2>1, <2>2
<1>7. ASSUME NEW s \in Sweeps, Liquidate(s) \/ MailFails(s) \/ ClaimFails(s)
      PROVE  Mailed'
    <2>1. Others(s) /\ sweep'[s].step # "mail"
        BY <1>7, KeepsMoves, AfterStep DEF Moves, After
    <2>2. UNCHANGED <<keys, told>>
        BY <1>7 DEF Liquidate, MailFails, ClaimFails, toldVars
    <2>3. QED
        BY <1>q, <2>1, <2>2
<1>8. ASSUME NEW s \in Sweeps, NEW kind \in Kinds, Claim(s, kind)
      PROVE  Mailed'
    BY <1>8, ClaimKeepsMailed
<1>9. ASSUME NEW s \in Sweeps, AlertGet(s)
      PROVE  Mailed'
    <2>1. Others(s) /\ sweep'[s].step # "mail"
        BY <1>9, AlertGetMoves DEF Moves, Leaves
    <2>2. QED
        BY <1>9, <1>q, <2>1 DEF AlertGet, toldVars
<1>10. ASSUME NEW s \in Sweeps, NEW l \in Loans, Assess(s, l)
       PROVE  Mailed'
    <2>1. Others(s) /\ sweep'[s].step # "mail"
        BY <1>10, AssessMoves DEF Moves, Leaves, Takes
    <2>2. QED
        BY <1>10, <1>q, <2>1 DEF Assess, toldVars
<1>11. ASSUME NEW s \in Sweeps, Select(s)
       PROVE  Mailed'
    <2>1. Others(s) /\ sweep'[s].step # "mail"
        BY <1>11, SelectCycle DEF Shape, TypeOK, Cycles, Steps
    <2>2. QED
        BY <1>11, <1>q, <2>1 DEF Select, toldVars
<1>12. ASSUME NEW s \in Sweeps, Mail(s) \/ AlertSet(s)
       PROVE  Mailed'
    BY <1>12, MailKeepsMailed, AlertSetKeepsMailed
<1>13. CASE WorkerDies
    <2>1. \A t \in Sweeps, k \in Notices : ~Mailing(t, k)'
        BY <1>13 DEF WorkerDies, Idle, Mailing, At
    <2>2. QED
        BY <1>13, <2>1, QuietKeepsMailed DEF WorkerDies, toldVars
<1>14. QED
    BY <1>1, <1>2, <1>3, <1>4, <1>5, <1>6, <1>7, <1>8, <1>9, <1>10, <1>11, <1>12, <1>13
    DEF Next, Step, Fails

-----------------------------------------------------------------------------
(* Alerts of ops                                                           *)

\* Sweeps that page are sweeps.
LEMMA PagingSize ==
    /\ \A S \in SUBSET Sweeps : Cardinality(S) \in Nat /\ Cardinality(S) <= Cardinality(Sweeps)
    /\ \A S \in SUBSET Sweeps : \A s \in S : Cardinality(S \ {s}) = Cardinality(S) - 1
    /\ \A S \in SUBSET Sweeps : \A T \in SUBSET S : Cardinality(T) <= Cardinality(S)
    /\ Cardinality(Sweeps) \in Nat
<1>1. IsFiniteSet(Sweeps)
    BY MonitorAssumption DEF MonitorAssumption
<1>2. \A S \in SUBSET Sweeps : IsFiniteSet(S)
    BY <1>1, FS_Subset
<1>3. QED
    BY <1>1, <1>2, FS_Subset, FS_CardinalityType, FS_RemoveElement

\* The sweeps that page ops about a loan, and those that come to.
PagingNext(l) == {t \in Sweeps : sweep'[t].step = "page" /\ sweep'[t].l = l}

\* No sweep comes to page, and what is alerted and claimed stays so.
LEMMA QuietKeepsAlerted ==
    ASSUME Shape, Alerted, keys \subseteq keys',
           \A l \in Loans : told'[<<"alert", l>>] = told[<<"alert", l>>],
           \A l \in Loans : PagingNext(l) \subseteq Paging(l)
    PROVE  Alerted'
<1> SUFFICES ASSUME NEW l \in Loans
             PROVE  /\ <<"alert", l>> \notin keys' => told'[<<"alert", l>>] = 0
                    /\ told'[<<"alert", l>>] + Cardinality(PagingNext(l)) <= Cardinality(Sweeps)
    BY DEF Alerted, PagingNext, Paging, At
<1>1. told[<<"alert", l>>] \in Nat
    BY DEF Shape, TypeOK, Kinds
<1>2. /\ PagingNext(l) \in SUBSET Paging(l) /\ Paging(l) \in SUBSET Sweeps
      /\ PagingNext(l) \in SUBSET Sweeps
    BY DEF PagingNext, Paging
<1>3. /\ Cardinality(PagingNext(l)) <= Cardinality(Paging(l))
      /\ Cardinality(PagingNext(l)) \in Nat /\ Cardinality(Paging(l)) \in Nat
      /\ Cardinality(Sweeps) \in Nat
    BY <1>2, PagingSize
<1>4. /\ <<"alert", l>> \notin keys => told[<<"alert", l>>] = 0
      /\ told[<<"alert", l>>] + Cardinality(Paging(l)) <= Cardinality(Sweeps)
    BY DEF Alerted
<1>5. told'[<<"alert", l>>] = told[<<"alert", l>>]
    OBVIOUS
<1>6. QED
    BY <1>1, <1>3, <1>4, <1>5

\* A sweep that moves without paging next leaves the others paging.
LEMMA MovesPage ==
    ASSUME NEW s \in Sweeps, Others(s), sweep'[s].step # "page"
    PROVE  \A l \in Loans : PagingNext(l) \subseteq Paging(l) \ {s}
BY DEF Others, PagingNext, Paging, At

\* A sweep comes to page while the key is free and nobody has been told.
LEMMA AlertGetKeepsAlerted ==
    ASSUME Shape, Alerted, NEW s \in Sweeps, AlertGet(s)
    PROVE  Alerted'
<1>1. Others(s) /\ UNCHANGED <<keys, told>>
    BY AlertGetMoves DEF Moves, AlertGet, toldVars
<1>2. CASE AlertKey(s) \in keys
    <2>1. sweep'[s].step # "page"
        BY <1>2, AlertGetMoves DEF Leaves
    <2>2. QED
        BY <1>1, <2>1, MovesPage, QuietKeepsAlerted
<1>3. CASE AlertKey(s) \notin keys
    <2>1. sweep'[s].l = sweep[s].l
        BY <1>3, AlertGetMoves DEF Keeps
    <2> SUFFICES ASSUME NEW l \in Loans
                 PROVE  /\ <<"alert", l>> \notin keys' => told'[<<"alert", l>>] = 0
                        /\ told'[<<"alert", l>>] + Cardinality(PagingNext(l)) <= Cardinality(Sweeps)
        BY DEF Alerted, PagingNext, Paging, At
    <2>2. /\ PagingNext(l) \in SUBSET Sweeps /\ Paging(l) \in SUBSET Sweeps
          /\ told[<<"alert", l>>] \in Nat
        BY DEF PagingNext, Paging, Shape, TypeOK, Kinds
    <2>3. /\ <<"alert", l>> \notin keys => told[<<"alert", l>>] = 0
          /\ told[<<"alert", l>>] + Cardinality(Paging(l)) <= Cardinality(Sweeps)
        BY DEF Alerted
    <2>4. CASE l = sweep[s].l
        <3>1. told[<<"alert", l>>] = 0
            BY <1>3, <2>3, <2>4 DEF AlertKey
        <3>2. Cardinality(PagingNext(l)) \in Nat /\ Cardinality(PagingNext(l)) <= Cardinality(Sweeps)
            BY <2>2, PagingSize
        <3>3. QED
            BY <1>1, <3>1, <3>2
    <2>5. CASE l # sweep[s].l
        <3>1. PagingNext(l) = Paging(l)
            <4>1. \A t \in Sweeps \ {s} : sweep'[t] = sweep[t]
                BY <1>1 DEF Others
            <4>2. sweep'[s].l # l /\ sweep[s].l # l
                BY <2>1, <2>5
            <4>3. QED
                BY <4>1, <4>2 DEF PagingNext, Paging, At
        <3>2. QED
            BY <1>1, <2>3, <3>1
    <2>6. QED
        BY <2>4, <2>5
<1>4. QED
    BY <1>2, <1>3

\* The sweep that pages is counted before as paging and then as told.
LEMMA AlertSetKeepsAlerted ==
    ASSUME Shape, Alerted, NEW s \in Sweeps, AlertSet(s)
    PROVE  Alerted'
<1>1. Others(s) /\ sweep'[s].step # "page" /\ sweep[s].l \in Loans
    BY LeavesMoves DEF Moves, Leaves, AlertSet, Shape, SweepShape, At, OnLoan
<1>2. AlertKey(s) \in Kinds \X Loans /\ told \in [Kinds \X Loans -> Nat]
    BY <1>1 DEF AlertKey, Kinds, Shape, TypeOK
<1>3. /\ told'[AlertKey(s)] = told[AlertKey(s)] + 1
      /\ \A j \in (Kinds \X Loans) \ {AlertKey(s)} : told'[j] = told[j]
    BY <1>2, ToldMore DEF AlertSet
<1>4. keys' = keys \cup {AlertKey(s)}
    BY DEF AlertSet
<1> SUFFICES ASSUME NEW l \in Loans
             PROVE  /\ <<"alert", l>> \notin keys' => told'[<<"alert", l>>] = 0
                    /\ told'[<<"alert", l>>] + Cardinality(PagingNext(l)) <= Cardinality(Sweeps)
    BY DEF Alerted, PagingNext, Paging, At
<1>5. <<"alert", l>> \in Kinds \X Loans /\ told[<<"alert", l>>] \in Nat
    BY <1>2 DEF Kinds
<1>6. /\ <<"alert", l>> \notin keys => told[<<"alert", l>>] = 0
      /\ told[<<"alert", l>>] + Cardinality(Paging(l)) <= Cardinality(Sweeps)
    BY DEF Alerted
<1>7. PagingNext(l) \in SUBSET (Paging(l) \ {s}) /\ Paging(l) \in SUBSET Sweeps
    BY <1>1, MovesPage DEF Paging
<1>8. /\ Cardinality(PagingNext(l)) <= Cardinality(Paging(l) \ {s})
      /\ Cardinality(PagingNext(l)) <= Cardinality(Paging(l))
      /\ s \in Paging(l) => Cardinality(Paging(l) \ {s}) = Cardinality(Paging(l)) - 1
      /\ Cardinality(PagingNext(l)) \in Nat /\ Cardinality(Paging(l)) \in Nat
      /\ Cardinality(Paging(l) \ {s}) \in Nat /\ Cardinality(Sweeps) \in Nat
    <2>1. Paging(l) \ {s} \in SUBSET Sweeps /\ PagingNext(l) \in SUBSET Sweeps
          /\ PagingNext(l) \in SUBSET Paging(l)
        BY <1>7
    <2>2. QED
        BY <1>7, <2>1, PagingSize
<1>9. CASE l = sweep[s].l
    <2>1. s \in Paging(l) /\ AlertKey(s) = <<"alert", l>>
        BY <1>9 DEF AlertSet, Paging, AlertKey
    <2>2. QED
        BY <1>3, <1>4, <1>5, <1>6, <1>8, <2>1
<1>10. CASE l # sweep[s].l
    <2>1. <<"alert", l>> # AlertKey(s)
        BY <1>10 DEF AlertKey
    <2>2. QED
        BY <1>3, <1>4, <1>5, <1>6, <1>8, <2>1
<1>11. QED
    BY <1>9, <1>10

\* The alert's key runs out when no sweep has yet to set it.
LEMMA ExpiryKeepsAlerted ==
    ASSUME Shape, Alerted, NEW j \in Kinds \X Loans, KeyExpires(j)
    PROVE  Alerted'
<1>1. keys' = keys \ {j} /\ told' = [told EXCEPT ![j] = 0] /\ UNCHANGED sweep
    BY DEF KeyExpires
<1>2. told \in [Kinds \X Loans -> Nat]
    BY DEF Shape, TypeOK
<1> SUFFICES ASSUME NEW l \in Loans
             PROVE  /\ <<"alert", l>> \notin keys' => told'[<<"alert", l>>] = 0
                    /\ told'[<<"alert", l>>] + Cardinality(Paging(l)) <= Cardinality(Sweeps)
    BY <1>1 DEF Alerted, Paging, At
<1>3. <<"alert", l>> \in Kinds \X Loans
    BY DEF Kinds
<1>4. /\ <<"alert", l>> \notin keys => told[<<"alert", l>>] = 0
      /\ told[<<"alert", l>>] + Cardinality(Paging(l)) <= Cardinality(Sweeps)
    BY DEF Alerted
<1>5. CASE <<"alert", l>> = j
    <2>1. told'[<<"alert", l>>] = 0
        BY <1>1, <1>2, <1>3, <1>5
    <2>2. Cardinality(Paging(l)) \in Nat /\ Cardinality(Paging(l)) <= Cardinality(Sweeps)
        BY PagingSize DEF Paging
    <2>3. QED
        BY <2>1, <2>2
<1>6. CASE <<"alert", l>> # j
    BY <1>1, <1>2, <1>3, <1>4, <1>6
<1>7. QED
    BY <1>5, <1>6

\* Alerted survives every step.
LEMMA NextAlerted == Shape /\ Alerted /\ [Next]_vars => Alerted'
<1> SUFFICES ASSUME Shape, Alerted, [Next]_vars
             PROVE  Alerted'
    OBVIOUS
<1>s. ASSUME UNCHANGED <<keys, told, sweep>>
      PROVE  Alerted'
    BY <1>s DEF Alerted, Paging, At
<1>q. ASSUME NEW s \in Sweeps, Others(s), sweep'[s].step # "page", keys \subseteq keys',
             \A l \in Loans : told'[<<"alert", l>>] = told[<<"alert", l>>]
      PROVE  Alerted'
    BY <1>q, MovesPage, QuietKeepsAlerted
<1>1. ASSUME NEW rate \in Rates, Publish(rate)
      PROVE  Alerted'
    BY <1>1, <1>s DEF Publish, toldVars
<1>2. CASE FeedFails \/ PriceExpires \/ UNCHANGED vars
    BY <1>2, <1>s DEF FeedFails, PriceExpires, vars, toldVars
<1>3. ASSUME NEW l \in Loans, Repay(l) \/ Return(l)
      PROVE  Alerted'
    BY <1>3, <1>s DEF Repay, Return, toldVars
<1>4. ASSUME NEW l \in Loans, NEW balance \in Balances, Owes(l, balance)
      PROVE  Alerted'
    BY <1>4, <1>s DEF Owes, toldVars
<1>5. ASSUME NEW k \in Kinds \X Loans, KeyExpires(k)
      PROVE  Alerted'
    BY <1>5, ExpiryKeepsAlerted
<1>6. ASSUME NEW s \in Sweeps,
             \/ Begin(s) \/ NoRateSkip(s) \/ NonPositive(s) \/ ReadRate(s)
             \/ LiquidateFails(s) \/ Swap(s) \/ SwapFails(s) \/ Abort(s)
      PROVE  Alerted'
    <2>1. Others(s) /\ sweep'[s].step # "page"
        BY <1>6, LeavesMoves DEF Moves, Leaves
    <2>2. UNCHANGED <<keys, told>>
        BY <1>6 DEF Begin, NoRateSkip, NonPositive, ReadRate, LiquidateFails, Swap, SwapFails,
                    Abort, toldVars
    <2>3. QED
        BY <1>q, <2>1, <2>2
<1>7. ASSUME NEW s \in Sweeps, Liquidate(s) \/ MailFails(s) \/ ClaimFails(s)
      PROVE  Alerted'
    <2>1. Others(s) /\ sweep'[s].step # "page"
        BY <1>7, KeepsMoves, AfterStep DEF Moves, After
    <2>2. UNCHANGED <<keys, told>>
        BY <1>7 DEF Liquidate, MailFails, ClaimFails, toldVars
    <2>3. QED
        BY <1>q, <2>1, <2>2
<1>8. ASSUME NEW s \in Sweeps, Mail(s)
      PROVE  Alerted'
    <2>1. Others(s) /\ sweep'[s].step # "page"
        BY <1>8, KeepsMoves, AfterStep DEF Moves, After
    <2>2. sweep[s].kind # "alert" /\ <<sweep[s].kind, sweep[s].l>> \in Kinds \X Loans
        BY <1>8 DEF Mail, Shape, SweepShape, At, OnLoan, Kinds
    <2>3. told \in [Kinds \X Loans -> Nat] /\ \A l \in Loans : <<"alert", l>> \in Kinds \X Loans
        BY DEF Shape, TypeOK, Kinds
    <2>4. \A l \in Loans : told'[<<"alert", l>>] = told[<<"alert", l>>]
        BY <1>8, <2>2, <2>3, ToldMore DEF Mail
    <2>5. keys \subseteq keys'
        BY <1>8 DEF Mail
    <2>6. QED
        BY <1>q, <2>1, <2>4, <2>5
<1>9. ASSUME NEW s \in Sweeps, NEW kind \in Kinds, Claim(s, kind)
      PROVE  Alerted'
    <2>1. Others(s) /\ sweep'[s].step # "page"
        BY <1>9, ClaimMoves DEF Moves
    <2>2. QED
        BY <1>9, <1>q, <2>1 DEF Claim
<1>10. ASSUME NEW s \in Sweeps, NEW l \in Loans, Assess(s, l)
       PROVE  Alerted'
    <2>1. Others(s) /\ sweep'[s].step # "page"
        BY <1>10, AssessMoves DEF Moves, Leaves, Takes
    <2>2. QED
        BY <1>10, <1>q, <2>1 DEF Assess, toldVars
<1>11. ASSUME NEW s \in Sweeps, Select(s)
       PROVE  Alerted'
    <2>1. Others(s) /\ sweep'[s].step # "page"
        BY <1>11, SelectCycle DEF Shape, TypeOK, Cycles, Steps
    <2>2. QED
        BY <1>11, <1>q, <2>1 DEF Select, toldVars
<1>12. ASSUME NEW s \in Sweeps, AlertGet(s) \/ AlertSet(s)
       PROVE  Alerted'
    BY <1>12, AlertGetKeepsAlerted, AlertSetKeepsAlerted
<1>13. CASE WorkerDies
    <2>1. \A l \in Loans : PagingNext(l) = {}
        BY <1>13 DEF WorkerDies, Idle, PagingNext
    <2>2. QED
        BY <1>13, <2>1, QuietKeepsAlerted DEF WorkerDies, toldVars
<1>14. QED
    BY <1>1, <1>2, <1>3, <1>4, <1>5, <1>6, <1>7, <1>8, <1>9, <1>10, <1>11, <1>12, <1>13
    DEF Next, Step, Fails

-----------------------------------------------------------------------------
(* The theorems                                                            *)

\* At the start every loan is ACTIVE, its collateral in place, no sweep runs
\* and no key is set.
LEMMA InitIInv == Init => IInv
<1> SUFFICES ASSUME Init
             PROVE  IInv
    OBVIOUS
<1>1. Shape /\ NoLoan \notin Loans
    BY InitShape, MonitorAssumption DEF MonitorAssumption, NoLoan
<1>2. \A s \in Sweeps : sweep[s].step = "idle" /\ sweep[s].l = NoLoan /\ sweep[s].todo = {}
    BY DEF Init, Idle
<1>3. Custody
    <2>1. \A l \in Loans : status[l] = "ACTIVE" /\ moved[l] = << >>
        BY DEF Init
    <2>2. \A l \in Loans, s \in Sweeps : ~Holds(s, l) /\ ~Selling(s, l)
        BY <1>1, <1>2 DEF Holds, Selling
    <2>3. \A l \in Loans : Undisputed(l)
        <3> SUFFICES ASSUME NEW l \in Loans
                     PROVE  Undisputed(l)
            OBVIOUS
        <3>1. Len(moved[l]) = 0
            BY <2>1
        <3>2. QED
            BY <2>1, <2>2, <3>1 DEF Undisputed
    <2>4. QED
        BY <2>3 DEF Custody
<1>4. \A k \in Kinds \X Loans : told[k] = 0
    BY DEF Init
<1>5. Mailed
    <2> SUFFICES ASSUME NEW k \in {"warn", "call"} \X Loans
                 PROVE  told[k] = 0 /\ \A s \in Sweeps : ~Mailing(s, k)
        BY DEF Mailed
    <2>1. {"warn", "call"} \X Loans \subseteq Kinds \X Loans
        BY DEF Kinds
    <2>2. QED
        BY <1>2, <1>4, <2>1 DEF Mailing, At
<1>6. Alerted
    <2> SUFFICES ASSUME NEW l \in Loans
                 PROVE  /\ told[<<"alert", l>>] = 0
                        /\ told[<<"alert", l>>] + Cardinality(Paging(l)) <= Cardinality(Sweeps)
        BY DEF Alerted
    <2>1. told[<<"alert", l>>] = 0
        BY <1>4 DEF Kinds
    <2>2. Cardinality(Paging(l)) \in Nat /\ Cardinality(Paging(l)) <= Cardinality(Sweeps)
        BY PagingSize DEF Paging
    <2>3. QED
        BY <2>1, <2>2
<1>7. QED
    BY <1>1, <1>3, <1>5, <1>6 DEF IInv

\* The inductive invariant holds throughout.
LEMMA Invariance == Spec => []IInv
<1>1. IInv /\ [Next]_vars => IInv'
    BY NextShape, NextCustody, NextMailed, NextAlerted DEF IInv
<1>2. QED
    BY InitIInv, <1>1, PTL DEF Spec

\* The rows, keys and sweeps keep their types.
THEOREM TypeCorrect == Spec => []TypeOK
<1>1. IInv => TypeOK
    BY DEF IInv, Shape
<1>2. QED
    BY Invariance, <1>1, PTL

\* Whatever sweeps overlap and fail, a loan's collateral leaves once, unless two
\* sweeps held the loan or its customer paid it off while one did: only then can
\* liquidateLoan's UPDATE by id overwrite, and its swap sell, what was settled.
THEOREM LeavesOnce == Spec => []CollateralLeavesOnce
<1>1. IInv => CollateralLeavesOnce
    <2> SUFFICES ASSUME IInv, NEW l \in Loans, l \notin contested
                 PROVE  ~(Len(moved[l]) > 1)
        BY DEF CollateralLeavesOnce
    <2>1. Len(moved[l]) <= 1 /\ moved[l] \in Seq({"swapped", "returned"})
        BY DEF IInv, Shape, TypeOK, Custody, Undisputed
    <2>2. Len(moved[l]) \in Nat
        BY <2>1
    <2>3. QED
        BY <2>1, <2>2
<1>2. QED
    BY Invariance, <1>1, PTL

\* A customer gets one mail of a tier in its cooldown, from however many sweeps;
\* ops get one alert at most of each.
THEOREM Spaced == Spec => []NoticesSpaced
<1>1. IInv => NoticesSpaced
    <2> SUFFICES ASSUME IInv, NEW l \in Loans
                 PROVE  /\ told[<<"warn", l>>] <= 1 /\ told[<<"call", l>>] <= 1
                        /\ told[<<"alert", l>>] <= Cardinality(Sweeps)
        BY DEF NoticesSpaced
    <2>1. told[<<"warn", l>>] <= 1 /\ told[<<"call", l>>] <= 1
        <3>1. <<"warn", l>> \in {"warn", "call"} \X Loans /\ <<"call", l>> \in {"warn", "call"} \X Loans
            OBVIOUS
        <3>2. QED
            BY <3>1 DEF IInv, Mailed
    <2>2. told[<<"alert", l>>] \in Nat
        BY DEF IInv, Shape, TypeOK, Kinds
    <2>3. Cardinality(Paging(l)) \in Nat /\ Cardinality(Sweeps) \in Nat
        BY PagingSize DEF Paging
    <2>4. told[<<"alert", l>>] + Cardinality(Paging(l)) <= Cardinality(Sweeps)
        BY DEF IInv, Alerted
    <2>5. QED
        BY <2>1, <2>2, <2>3, <2>4
<1>2. QED
    BY Invariance, <1>1, PTL
=============================================================================
