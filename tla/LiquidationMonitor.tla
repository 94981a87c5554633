-------------------------- MODULE LiquidationMonitor --------------------------
(***************************************************************************)
(* runLiquidationCycle of workers/liquidation-monitor.worker.ts, one       *)
(* action per await: the flag, the rate, the ACTIVE loans and what they    *)
(* owe, then per loan the seizure and its swap, the coverage notices and   *)
(* the alert of ops.  setInterval does not wait for the sweep before, and  *)
(* the row locks of the SELECT end with it, so sweeps overlap.             *)
(*                                                                         *)
(* The feed publishes and fails as it likes (PriceFeed); a customer pays,  *)
(* a repaid loan's collateral is returned (CollateralRelease).  A loan's   *)
(* collateral is one unit, so its value is the rate.                       *)
(***************************************************************************)
EXTENDS LoanStatus, FiniteSets, Integers

CONSTANTS
    Sweeps,             \* calls of runLiquidationCycle that may overlap
    Rates,              \* what the feed may publish
    Balances,           \* what an open loan may owe
    RateAtCreation,     \* sat_ngn_rate_at_creation
    MaxFaults           \* bound: failures of PostgreSQL, Redis, Blink, mail, the process

ASSUME MonitorAssumption ==
    /\ Rates \subseteq Nat /\ Balances \subseteq Nat \ {0} /\ Balances # {}
    /\ RateAtCreation \in Nat \ {0} /\ MaxFaults \in Nat
    /\ "none" \notin Loans /\ IsFiniteSet(Sweeps)

VARIABLES
    owed,               \* AccrualService.compute of each loan; 0 once it is repaid
    price,              \* the cached rate, or NoRate
    stale,              \* price:stale exists
    keys,               \* <<kind, loan>> of the Redis keys that mark a notice as sent
    told,               \* history: notices sent since their key was last free
    moved,              \* where each loan's collateral went
    sweep,
    contested,          \* history: loans a sweep held while another selected, or a payment closed, them
    faults

feedVars == <<price, stale>>
toldVars == <<keys, told>>
vars == <<status, log, owed, feedVars, toldVars, moved, sweep, contested, faults>>

NoRate == -1
NoLoan == "none"
Kinds  == {"warn", "call", "alert"}
Nothing == [l \in Loans |-> 0]
Idle   == [step |-> "idle", rate |-> NoRate, todo |-> {}, owes |-> Nothing,
           l |-> NoLoan, kind |-> "warn"]

TypeOK ==
    /\ status \in [Loans -> {"ACTIVE", "REPAID", "LIQUIDATED"}]
    /\ log \in [Loans -> Seq(LogRow)]
    /\ owed \in [Loans -> Balances \cup {0}]
    /\ price \in Rates \cup {NoRate} /\ stale \in BOOLEAN
    /\ keys \subseteq Kinds \X Loans
    /\ told \in [Kinds \X Loans -> Nat]
    /\ moved \in [Loans -> Seq({"swapped", "returned"})]
    /\ sweep \in [Sweeps ->
          [step : {"idle", "rate", "select", "assess", "liquidate", "swap", "warn",
                   "call", "mail", "alert", "page"},
           rate : Rates \cup {NoRate}, todo : SUBSET Loans, owes : [Loans -> Balances \cup {0}],
           l : Loans \cup {NoLoan}, kind : Kinds]]
    /\ contested \subseteq Loans
    /\ faults \in 0 .. MaxFaults

Init ==
    /\ status = [l \in Loans |-> "ACTIVE"]
    /\ log = [l \in Loans |-> << >>]
    /\ owed \in [Loans -> Balances]
    /\ price = NoRate /\ stale = FALSE
    /\ keys = {} /\ told = [k \in Kinds \X Loans |-> 0]
    /\ moved = [l \in Loans |-> << >>]
    /\ sweep = [s \in Sweeps |-> Idle]
    /\ contested = {}
    /\ faults = 0

-----------------------------------------------------------------------------
(* The coverage of a loan: collateral / outstanding, in percent            *)

LIQUIDATION_THRESHOLD == 110
COVERAGE_MARGIN_CALL_TIER == 115
COVERAGE_WARN_TIER == 120
ALERT_THRESHOLD == 120

AtMost(rate, owes, percent) == 100 * rate <= percent * owes
Below(rate, owes, percent)  == 100 * rate < percent * owes

\* MIN_LIQUIDATION_RATE_FRACTION
Suspect(rate) == 2 * rate < RateAtCreation

-----------------------------------------------------------------------------
(* The feed and the customers                                              *)

Publish(rate) ==
    /\ price' = rate /\ stale' = FALSE
    /\ UNCHANGED <<status, log, owed, toldVars, moved, sweep, contested, faults>>

FeedFails ==
    /\ stale' = TRUE
    /\ UNCHANGED <<status, log, owed, price, toldVars, moved, sweep, contested, faults>>

PriceExpires ==
    /\ price' = NoRate
    /\ UNCHANGED <<status, log, owed, stale, toldVars, moved, sweep, contested, faults>>

Holds(s, l) == l \in sweep[s].todo \/ sweep[s].l = l
Held(l) == \E s \in Sweeps : Holds(s, l)

\* Interest, or a payment that leaves something to pay.
Owes(l, balance) ==
    /\ status[l] = "ACTIVE" /\ owed[l] # balance
    /\ owed' = [owed EXCEPT ![l] = balance]
    /\ UNCHANGED <<status, log, feedVars, toldVars, moved, sweep, contested, faults>>

\* creditInflow of what closes the loan.
Repay(l) ==
    /\ status[l] = "ACTIVE"
    /\ Transition(l, "ACTIVE", "REPAID", "REPAYMENT_COMPLETED")
    /\ owed' = [owed EXCEPT ![l] = 0]
    /\ contested' = IF Held(l) THEN contested \cup {l} ELSE contested
    /\ UNCHANGED <<feedVars, toldVars, moved, sweep, faults>>

\* releaseForLoan of a REPAID loan; its own repeats are CollateralRelease's.
Return(l) ==
    /\ status[l] = "REPAID" /\ "returned" \notin {moved[l][n] : n \in DOMAIN moved[l]}
    /\ moved' = [moved EXCEPT ![l] = Append(@, "returned")]
    /\ UNCHANGED <<status, log, owed, feedVars, toldVars, sweep, contested, faults>>

-----------------------------------------------------------------------------
(* The sweep                                                               *)

At(s, step)   == sweep[s].step = step
Goto(s, step) == sweep' = [sweep EXCEPT ![s].step = step]
Fault         == faults < MaxFaults /\ faults' = faults + 1
ActiveLoans   == {l \in Loans : status[l] = "ACTIVE"}

\* The flag is read; a sweep that finds it skips its cycle.
Begin(s) ==
    /\ At(s, "idle") /\ ~stale
    /\ Goto(s, "rate")
    /\ UNCHANGED <<status, log, owed, feedVars, toldVars, moved, contested, faults>>

NoRateSkip(s) ==
    /\ At(s, "rate") /\ price = NoRate
    /\ Goto(s, "idle")
    /\ UNCHANGED <<status, log, owed, feedVars, toldVars, moved, contested, faults>>

\* A rate that is not positive stops the sweeps until the feed clears the flag.
NonPositive(s) ==
    /\ At(s, "rate") /\ price = 0
    /\ stale' = TRUE
    /\ Goto(s, "idle")
    /\ UNCHANGED <<status, log, owed, price, toldVars, moved, contested, faults>>

ReadRate(s) ==
    /\ At(s, "rate") /\ price > 0
    /\ sweep' = [sweep EXCEPT ![s].step = "select", ![s].rate = price]
    /\ UNCHANGED <<status, log, owed, feedVars, toldVars, moved, contested, faults>>

\* Mutant: the loans are selected without their status.
Selected_Any == Loans

Selected == ActiveLoans

\* The ACTIVE loans and, in the statement after, their repayments.
Select(s) ==
    /\ At(s, "select")
    /\ sweep' = [sweep EXCEPT ![s] =
          IF Selected = {} THEN Idle
          ELSE [sweep[s] EXCEPT !.step = "assess", !.todo = Selected, !.owes = owed]]
    /\ contested' = contested \cup
          {l \in Selected : \E t \in Sweeps \ {s} : Holds(t, l)}
    /\ UNCHANGED <<status, log, owed, feedVars, toldVars, moved, faults>>

\* Mutant: the threshold is compared with < as the tiers are.
Verdict_Strict(s, l) ==
    LET rate == sweep[s].rate
        owes == sweep[s].owes[l]
    IN  IF Suspect(rate) THEN "skip"
        ELSE IF Below(rate, owes, LIQUIDATION_THRESHOLD) THEN "liquidate"
        ELSE IF Below(rate, owes, COVERAGE_WARN_TIER) THEN "warn"
        ELSE "skip"

\* What is to be done for loan l at what was read of it.
Verdict(s, l) ==
    LET rate == sweep[s].rate
        owes == sweep[s].owes[l]
    IN  IF Suspect(rate) THEN "skip"
        ELSE IF AtMost(rate, owes, LIQUIDATION_THRESHOLD) THEN "liquidate"
        ELSE IF Below(rate, owes, COVERAGE_WARN_TIER) THEN "warn"
        ELSE IF AtMost(rate, owes, ALERT_THRESHOLD) THEN "alert"
        ELSE "skip"

\* The sweep of s goes on to its next loan, or has ended.
NextLoan(s, todo) ==
    IF todo = {} THEN Idle
    ELSE [sweep[s] EXCEPT !.step = "assess", !.todo = todo, !.l = NoLoan, !.kind = "warn"]

Proceed(s) == sweep' = [sweep EXCEPT ![s] = NextLoan(s, sweep[s].todo)]

Assess(s, l) ==
    /\ At(s, "assess") /\ l \in sweep[s].todo
    /\ sweep' = [sweep EXCEPT ![s] =
          IF Verdict(s, l) = "skip" THEN NextLoan(s, sweep[s].todo \ {l})
          ELSE [sweep[s] EXCEPT !.step = Verdict(s, l), !.l = l, !.todo = sweep[s].todo \ {l}]]
    /\ UNCHANGED <<status, log, owed, feedVars, toldVars, moved, contested, faults>>

-----------------------------------------------------------------------------
(* Seizure *)

\* Mutant: the wrong member of the enumeration.
Liquidate_WrongStatus(s) ==
    /\ At(s, "liquidate")
    /\ status' = [status EXCEPT ![sweep[s].l] = "EXPIRED"]
    /\ Record(sweep[s].l, "ACTIVE", "EXPIRED", "LIQUIDATION_COMPLETED")
    /\ Goto(s, "swap")
    /\ UNCHANGED <<owed, feedVars, toldVars, moved, contested, faults>>

\* liquidateLoan, by id and past transition().
Liquidate(s) ==
    /\ At(s, "liquidate")
    /\ status' = [status EXCEPT ![sweep[s].l] = "LIQUIDATED"]
    /\ Record(sweep[s].l, "ACTIVE", "LIQUIDATED", "LIQUIDATION_COMPLETED")
    /\ Goto(s, "swap")
    /\ UNCHANGED <<owed, feedVars, toldVars, moved, contested, faults>>

LiquidateFails(s) ==
    /\ At(s, "liquidate") /\ Fault
    /\ Proceed(s)
    /\ UNCHANGED <<status, log, owed, feedVars, toldVars, moved, contested>>

\* swapBtcToUsd of the loan's SAT.
Swap(s) ==
    /\ At(s, "swap")
    /\ moved' = [moved EXCEPT ![sweep[s].l] = Append(@, "swapped")]
    /\ Proceed(s)
    /\ UNCHANGED <<status, log, owed, feedVars, toldVars, contested, faults>>

\* It is logged and never tried again.
SwapFails(s) ==
    /\ At(s, "swap") /\ Fault
    /\ Proceed(s)
    /\ UNCHANGED <<status, log, owed, feedVars, toldVars, moved, contested>>

-----------------------------------------------------------------------------
(* evaluateCoverageTiers: each tier's key, then its mail                   *)

\* After the notice of the given kind, for what the loan was found to cover.
After(s, kind) ==
    IF kind = "warn" /\ Below(sweep[s].rate, sweep[s].owes[sweep[s].l], COVERAGE_MARGIN_CALL_TIER)
    THEN "call" ELSE "alert"

\* Mutant: the key is looked at, as it is for ops, and set with the mail.
Claim_GetThenSet(s, kind) ==
    /\ At(s, kind) /\ kind # "alert"
    /\ sweep' = IF <<kind, sweep[s].l>> \in keys
                THEN [sweep EXCEPT ![s].step = After(s, kind)]
                ELSE [sweep EXCEPT ![s].step = "mail", ![s].kind = kind]
    /\ UNCHANGED <<status, log, owed, feedVars, toldVars, moved, contested, faults>>

\* SET key 1 EX NX
Claim(s, kind) ==
    /\ At(s, kind) /\ kind # "alert"
    /\ keys' = keys \cup {<<kind, sweep[s].l>>}
    /\ sweep' = IF <<kind, sweep[s].l>> \in keys
                THEN [sweep EXCEPT ![s].step = After(s, kind)]
                ELSE [sweep EXCEPT ![s].step = "mail", ![s].kind = kind]
    /\ UNCHANGED <<status, log, owed, feedVars, told, moved, contested, faults>>

\* sendCoverageNotice
Mail(s) ==
    /\ At(s, "mail")
    /\ told' = [told EXCEPT ![<<sweep[s].kind, sweep[s].l>>] = @ + 1]
    /\ Goto(s, After(s, sweep[s].kind))
    /\ UNCHANGED <<status, log, owed, feedVars, keys, moved, contested, faults>>

\* No user, no virtual account, or the provider fails: logged, the key stays.
MailFails(s) ==
    /\ At(s, "mail") /\ Fault
    /\ Goto(s, After(s, sweep[s].kind))
    /\ UNCHANGED <<status, log, owed, feedVars, toldVars, moved, contested>>

\* The SET fails: caught, and no notice of a later tier is tried.
ClaimFails(s) ==
    /\ (At(s, "warn") \/ At(s, "call")) /\ Fault
    /\ Goto(s, "alert")
    /\ UNCHANGED <<status, log, owed, feedVars, toldVars, moved, contested>>

-----------------------------------------------------------------------------
(* The alert of ops: GET, then SET                                         *)

AlertKey(s) == <<"alert", sweep[s].l>>

AlertGet(s) ==
    /\ At(s, "alert")
    /\ IF AlertKey(s) \in keys THEN Proceed(s) ELSE Goto(s, "page")
    /\ UNCHANGED <<status, log, owed, feedVars, toldVars, moved, contested, faults>>

AlertSet(s) ==
    /\ At(s, "page")
    /\ keys' = keys \cup {AlertKey(s)}
    /\ told' = [told EXCEPT ![AlertKey(s)] = @ + 1]
    /\ Proceed(s)
    /\ UNCHANGED <<status, log, owed, feedVars, moved, contested, faults>>

\* A key's time runs out; 8 and 24 hours are longer than any mail takes.
KeyExpires(k) ==
    /\ k \in keys
    /\ \A s \in Sweeps : At(s, "mail") => k # <<sweep[s].kind, sweep[s].l>>
    /\ \A s \in Sweeps : At(s, "page") => k # AlertKey(s)
    /\ keys' = keys \ {k}
    /\ told' = [told EXCEPT ![k] = 0]
    /\ UNCHANGED <<status, log, owed, feedVars, moved, sweep, contested, faults>>

-----------------------------------------------------------------------------
(* Redis or PostgreSQL fails where nothing catches it: the rest of the     *)
(* cycle is dropped.  Or the process dies with its sweeps.                 *)

Uncaught == {"rate", "select", "alert", "page"}

Abort(s) ==
    /\ sweep[s].step \in Uncaught /\ Fault
    /\ sweep' = [sweep EXCEPT ![s] = Idle]
    /\ UNCHANGED <<status, log, owed, feedVars, toldVars, moved, contested>>

WorkerDies ==
    /\ Fault
    /\ sweep' = [s \in Sweeps |-> Idle]
    /\ UNCHANGED <<status, log, owed, feedVars, toldVars, moved, contested>>

-----------------------------------------------------------------------------

Step(s) ==
    \/ Begin(s) \/ NoRateSkip(s) \/ NonPositive(s) \/ ReadRate(s) \/ Select(s)
    \/ \E l \in Loans : Assess(s, l)
    \/ Liquidate(s) \/ Swap(s)
    \/ \E kind \in Kinds : Claim(s, kind)
    \/ Mail(s) \/ AlertGet(s) \/ AlertSet(s)

Fails(s) ==
    LiquidateFails(s) \/ SwapFails(s) \/ MailFails(s) \/ ClaimFails(s) \/ Abort(s)

Next ==
    \/ \E rate \in Rates : Publish(rate)
    \/ FeedFails \/ PriceExpires
    \/ \E l \in Loans : Repay(l) \/ Return(l)
    \/ \E l \in Loans, balance \in Balances : Owes(l, balance)
    \/ \E s \in Sweeps : Step(s) \/ Fails(s)
    \/ \E k \in Kinds \X Loans : KeyExpires(k)
    \/ WorkerDies

\* A sweep runs to its end and the next one starts.
Fairness == \A s \in Sweeps : WF_vars(Step(s))

Spec == Init /\ [][Next]_vars /\ Fairness

-----------------------------------------------------------------------------
(* Properties *)

\* A loan's collateral leaves once, sold or returned, although liquidateLoan
\* overwrites whatever status the loan has by then and the swap follows
\* blindly; but for a loan two sweeps hold, or one its customer pays off
\* while a sweep holds it.
CollateralLeavesOnce == \A l \in Loans : Len(moved[l]) > 1 => l \in contested

\* However sweeps overlap and the coverage swings across the tiers, a customer
\* gets one mail of a tier in its cooldown; ops, whose key is read and then
\* set, get at most one alert of each overlapping sweep.
NoticesSpaced ==
    \A l \in Loans :
        /\ told[<<"warn", l>>] <= 1 /\ told[<<"call", l>>] <= 1
        /\ told[<<"alert", l>>] <= Cardinality(Sweeps)

Seizable(l) ==
    /\ ~stale /\ price > 0 /\ ~Suspect(price)
    /\ AtMost(price, owed[l], LIQUIDATION_THRESHOLD)

\* A loan whose coverage stays at the threshold at a plausible rate does not
\* stay ACTIVE, although sweeps skip, die, or fail on it or on another loan.
LowCoverageIsSeized ==
    \A l \in Loans : <>[]Seizable(l) => <>(status[l] # "ACTIVE")
=============================================================================
