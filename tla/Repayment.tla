------------------------------ MODULE Repayment ------------------------------
(***************************************************************************)
(* Naira coming back: the PalmPay collection webhook, the customer's claim *)
(* of an unmatched inflow, creditInflow, the liquidation sweep and the ops *)
(* restore of a loan liquidated at a bad rate.                             *)
(*                                                                         *)
(* All loans and inflows are one customer's: the webhook and the claim     *)
(* select by user.  creditInflow locks the loan's row and is one action;   *)
(* every other step reads, awaits and acts on what it read.  What a loan   *)
(* owes (AccrualService.compute over its repayments) is the variable owed. *)
(* No step is owed by anyone: a request that dies is one that takes no     *)
(* further step, and PalmPay's next delivery is another request.           *)
(***************************************************************************)
EXTENDS LoanStatus, FiniteSets

CONSTANTS
    Inflows,        \* PalmPay orders into the customer's virtual account
    Amount,         \* what each order pays
    Debt,           \* what each loan owes at first
    Collateral,     \* SAT of each loan
    Floor,          \* MIN_PARTIAL_REPAYMENT_NGN
    Tolerance,      \* INFLOW_OUTSTANDING_MATCH_TOLERANCE_NGN
    Rates,          \* SAT/NGN rates the feed may report, all positive
    OriginRate,     \* sat_ngn_rate_at_creation
    Visible,        \* orders PalmPay's lookup can show
    Legacy,         \* loans liquidated at a bad rate before the worker had
                    \* its sanity bound
    Deliveries,     \* webhook requests that may be in progress at once
    Claims,         \* claim and apply requests that may be
    MaxDays         \* bound: days of interest

ASSUME RepaymentAssumption ==
    /\ Loans \subseteq Nat \ {0}    \* numbered in the order of created_at
    /\ "none" \notin Inflows
    /\ Amount \in [Inflows -> Nat \ {0}]
    /\ Debt \in [Loans -> Nat \ {0}]
    /\ Collateral \in [Loans -> Nat \ {0}]
    /\ Floor \in Nat /\ Tolerance \in Nat
    /\ Rates \subseteq Nat \ {0} /\ OriginRate \in Nat \ {0}
    /\ Visible \subseteq Inflows /\ Legacy \subseteq Loans
    /\ Deliveries \cap Claims = {}
    /\ MaxDays \in Nat

Callers == Deliveries \cup Claims

VARIABLES
    owed,           \* what each loan owes now
    closedBy,       \* loans.repayment_reference
    soldBadly,      \* loans whose liquidation_rate_actual is suspect
    order,          \* what PalmPay's lookup says of each order
    row,            \* inflows row of each order
    repayments,     \* loan_repayments rows
    paged,          \* ops got a page about the inflow
    creditFailed,   \* webhook_logs has a CREDIT_FAILED row for the order
    job,            \* the call each caller is in
    sweep,          \* the liquidation cycle
    restoring,      \* loans the ops restore read as liquidated at a bad rate
    day,
    swallowed       \* history: inflows credited to a loan that was REPAID

loanVars  == <<status, log, owed, closedBy, soldBadly>>
moneyVars == <<order, row, repayments>>
pageVars  == <<paged, creditFailed>>
opsVars   == <<sweep, restoring>>
vars == <<loanVars, moneyVars, pageVars, opsVars, job, day, swallowed>>

Untrusted == {"requery_mismatch", "requery_unconfirmed"}
Unmatched == Untrusted \cup {"below_floor", "no_active_loans", "multiple_active_loans"}

NoLoan == 0
NoRow == [state |-> "none", reason |-> "none", loan |-> NoLoan]
Idle  == [step |-> "idle", i |-> "none", l |-> NoLoan, reason |-> "none"]
Rest  == [step |-> "idle", rate |-> 0, loans |-> {}]

TypeOK ==
    /\ status \in [Loans -> Statuses]
    /\ log \in [Loans -> Seq(LogRow)]
    /\ owed \in [Loans -> Nat]
    /\ closedBy \in [Loans -> Inflows \cup {"none"}]
    /\ soldBadly \subseteq Loans
    /\ order \in [Inflows -> {"settling", "settled", "refuted", "hidden", "unsigned"}]
    /\ row \in [Inflows -> [state : {"none", "unmatched", "matched"},
                            reason : Unmatched \cup {"none"}, loan : Loans \cup {NoLoan}]]
    /\ repayments \subseteq [i : Inflows, l : Loans, applied : Nat, overpay : Nat,
                             method : {"AUTO_AMOUNT", "CUSTOMER_CLAIM"}]
    /\ paged \subseteq Inflows /\ creditFailed \subseteq Inflows
    /\ job \in [Callers ->
          [step : {"idle", "floor", "select", "match", "requery", "store", "persist",
                   "credit", "recheck", "page", "pageFailed"},
           i : Inflows \cup {"none"}, l : Loans \cup {NoLoan},
           reason : Unmatched \cup {"none"}]]
    /\ sweep \in [step : {"idle", "assess", "liquidate"}, rate : Rates \cup {0},
                  loans : SUBSET Loans]
    /\ restoring \subseteq Loans
    /\ day \in 0 .. MaxDays
    /\ swallowed \subseteq Inflows

-----------------------------------------------------------------------------
(* Rates *)

\* MIN_LIQUIDATION_RATE_FRACTION = 0.5 of the rate at creation.
Suspect(rate) == 2 * rate < OriginRate

\* Collateral over outstanding at or below LIQUIDATION_THRESHOLD = 1.10; the
\* quotient by an outstanding of zero is infinite, and so is it here.
Undercollateralised(l, rate) == 10 * Collateral[l] * rate <= 11 * owed[l]

Init ==
    /\ soldBadly = Legacy
    /\ status = [l \in Loans |-> IF l \in Legacy THEN "LIQUIDATED" ELSE "ACTIVE"]
    /\ log = [l \in Loans |-> << >>]
    /\ owed = Debt
    /\ closedBy = [l \in Loans |-> "none"]
    /\ order \in [Inflows -> {"settling", "hidden", "unsigned"}]
    /\ \A i \in Inflows : i \in Visible <=> order[i] = "settling"
    /\ row = [i \in Inflows |-> NoRow]
    /\ repayments = {}
    /\ paged = {} /\ creditFailed = {}
    /\ job = [p \in Callers |-> Idle]
    /\ sweep = Rest
    /\ restoring = {}
    /\ day = 0
    /\ swallowed = {}

-----------------------------------------------------------------------------
(* The webhook: one action per await *)

At(p, step)   == job[p].step = step
Goto(p, step) == job' = [job EXCEPT ![p].step = step]
Finish(p)     == job' = [job EXCEPT ![p] = Idle]
Park(p, reason) == job' = [job EXCEPT ![p].step = "store", ![p].reason = reason]
Pick(p, l)    == job' = [job EXCEPT ![p].step = "requery", ![p].l = l]

ActiveLoans == {l \in Loans : status[l] = "ACTIVE"}
Oldest(S)   == {l \in S : \A k \in S : l <= k}

\* A delivery with orderStatus success; PalmPay re-sends each order for a day.
Deliver(p, i) ==
    /\ At(p, "idle")
    /\ job' = [job EXCEPT ![p] =
          [Idle EXCEPT !.step = IF Amount[i] < Floor THEN "floor" ELSE "select", !.i = i]]
    /\ UNCHANGED <<loanVars, moneyVars, pageVars, opsVars, day, swallowed>>

\* amountClosesAnyActiveLoan
ClosesAnyLoan(amount) == \E l \in ActiveLoans : amount + Tolerance >= owed[l]

CheckFloor(p) ==
    /\ At(p, "floor")
    /\ IF ClosesAnyLoan(Amount[job[p].i]) THEN Goto(p, "select") ELSE Park(p, "below_floor")
    /\ UNCHANGED <<loanVars, moneyVars, pageVars, opsVars, day, swallowed>>

SelectLoan(p) ==
    /\ At(p, "select")
    /\ \/ ActiveLoans = {} /\ Park(p, "no_active_loans")
       \/ \E l \in Loans : ActiveLoans = {l} /\ Pick(p, l)
       \/ Cardinality(ActiveLoans) > 1 /\ Goto(p, "match")
    /\ UNCHANGED <<loanVars, moneyVars, pageVars, opsVars, day, swallowed>>

\* findActiveLoanMatchingOutstanding, over the loans as they are by then.
Matching(amount) ==
    {l \in ActiveLoans : owed[l] <= amount + Tolerance /\ amount <= owed[l] + Tolerance}

MatchLoan(p) ==
    /\ At(p, "match")
    /\ LET found == Matching(Amount[job[p].i]) IN
          \/ found = {} /\ Park(p, "multiple_active_loans")
          \/ \E l \in Oldest(found) : Pick(p, l)
    /\ UNCHANGED <<loanVars, moneyVars, pageVars, opsVars, day, swallowed>>

\* PalmPay's books agree, or cannot show the order and the event is signed.
Confirmed(i) == order[i] \in {"settled", "hidden"}

Requery(p) ==
    /\ At(p, "requery")
    /\ LET i == job[p].i IN
          \/ Confirmed(i) /\ Goto(p, "persist")
          \/ ~Confirmed(i) /\ order[i] = "refuted" /\ Park(p, "requery_mismatch")
          \/ ~Confirmed(i) /\ order[i] = "unsigned" /\ Park(p, "requery_unconfirmed")
          \/ ~Confirmed(i) /\ order[i] = "settling" /\ Finish(p)
    /\ UNCHANGED <<loanVars, moneyVars, pageVars, opsVars, day, swallowed>>

\* The lookup throws: DEFERRED, and no row.
RequeryThrows(p) ==
    /\ At(p, "requery")
    /\ Finish(p)
    /\ UNCHANGED <<loanVars, moneyVars, pageVars, opsVars, day, swallowed>>

\* Keyed by provider_reference: the row of an earlier delivery stays.
NewRow(i, reason) ==
    row' = IF row[i].state # "none" THEN row
           ELSE [row EXCEPT ![i] = [NoRow EXCEPT !.state = "unmatched", !.reason = reason]]

\* _storeUnmatchedInflow pages unless the row was there (P2002).
StoreUnmatched(p) ==
    /\ At(p, "store")
    /\ NewRow(job[p].i, job[p].reason)
    /\ IF row[job[p].i].state = "none" THEN Goto(p, "page") ELSE Finish(p)
    /\ UNCHANGED <<loanVars, order, repayments, pageVars, opsVars, day, swallowed>>

\* inflow.upsert with an empty update, then is_matched of what it returned.
Persist(p) ==
    /\ At(p, "persist")
    /\ NewRow(job[p].i, "none")
    /\ IF row[job[p].i].state = "matched" THEN Finish(p) ELSE Goto(p, "credit")
    /\ UNCHANGED <<loanVars, order, repayments, pageVars, opsVars, day, swallowed>>

-----------------------------------------------------------------------------
(* creditInflow: one transaction behind the row lock of the loan           *)

\* Mutant: the waterfall does not stop at what is owed.
Applied_Uncapped(amount, outstanding) == amount

\* What _waterfall takes of a payment for interest and principal together.
Applied(amount, outstanding) == IF amount < outstanding THEN amount ELSE outstanding

\* Mutant: loan_repayments.inflow_id carries no unique index.
RepaymentFree_NoIndex(i) == TRUE

RepaymentFree(i) == \A r \in repayments : r.i # i

\* Mutant: the payment is compared with the principal, interest forgotten.
FullyRepaid_Principal(l, applied) == applied >= Debt[l]

FullyRepaid(l, applied) == owed[l] = applied

Repay(i, l, method) ==
    LET applied == Applied(Amount[i], owed[l]) IN
    /\ repayments' = repayments \cup
          {[i |-> i, l |-> l, applied |-> applied, overpay |-> Amount[i] - applied,
            method |-> method]}
    /\ row' = [row EXCEPT ![i].state = "matched", ![i].loan = l]
    /\ owed' = [owed EXCEPT ![l] = @ - applied]
    /\ IF FullyRepaid(l, applied)
       THEN /\ closedBy' = [closedBy EXCEPT ![l] = i]
            /\ Transition(l, status[l], "REPAID", "REPAYMENT_COMPLETED")
       ELSE /\ Transition(l, status[l], "ACTIVE", "REPAYMENT_PARTIAL_NGN")
            /\ UNCHANGED closedBy

Creditable(l) == status[l] = "ACTIVE"

\* The webhook does not ask creditInflow to skip the floor; the claim does.
AboveFloor(p) == p \in Claims \/ Amount[job[p].i] >= Floor

Credit(p) ==
    /\ At(p, "credit")
    /\ AboveFloor(p) /\ Creditable(job[p].l) /\ RepaymentFree(job[p].i)
    /\ Repay(job[p].i, job[p].l, IF p \in Claims THEN "CUSTOMER_CLAIM" ELSE "AUTO_AMOUNT")
    /\ Finish(p)
    /\ UNCHANGED <<soldBadly, order, pageVars, opsVars, day, swallowed>>

\* Already REPAID: nothing is written, and the caller is told it worked.
CreditNoOp(p) ==
    /\ At(p, "credit")
    /\ AboveFloor(p) /\ ~Creditable(job[p].l) /\ status[job[p].l] = "REPAID"
    /\ swallowed' = swallowed \cup {job[p].i}
    /\ Finish(p)
    /\ UNCHANGED <<loanVars, moneyVars, pageVars, opsVars, day>>

\* Below the floor, a loan neither ACTIVE nor REPAID, or a second repayment
\* for the inflow: the exception ends a claim and is handled by the webhook.
CreditThrows(p) ==
    /\ At(p, "credit")
    /\ \/ ~AboveFloor(p)
       \/ ~Creditable(job[p].l) /\ status[job[p].l] # "REPAID"
       \/ Creditable(job[p].l) /\ ~RepaymentFree(job[p].i)
    /\ IF p \in Claims THEN Finish(p) ELSE Goto(p, "recheck")
    /\ UNCHANGED <<loanVars, moneyVars, pageVars, opsVars, day, swallowed>>

\* Mutant: the handler takes every failed credit for a duplicate delivery.
Duplicate_Always(i) == TRUE

\* _inflowIsMatched
Duplicate(i) == row[i].state = "matched"

\* A concurrent delivery's credit, or a failure ops heard of: no page.
Recheck(p) ==
    /\ At(p, "recheck")
    /\ IF Duplicate(job[p].i) \/ job[p].i \in creditFailed
       THEN Finish(p) ELSE Goto(p, "pageFailed")
    /\ UNCHANGED <<loanVars, moneyVars, pageVars, opsVars, day, swallowed>>

\* alertUnmatchedInflow; the webhook_logs row of a failed credit follows it.
PageOps(p) ==
    /\ At(p, "page") \/ At(p, "pageFailed")
    /\ paged' = paged \cup {job[p].i}
    /\ creditFailed' = IF At(p, "pageFailed") THEN creditFailed \cup {job[p].i}
                       ELSE creditFailed
    /\ Finish(p)
    /\ UNCHANGED <<loanVars, moneyVars, opsVars, day, swallowed>>

-----------------------------------------------------------------------------
(* The customer: applyInflowToLoan, also behind claimInflow, which picks   *)
(* the latest inflow above the floor                                       *)

\* Mutant: the reason marker is not looked at.
Claimable_Untrusted(i) == row[i].state = "unmatched"

Claimable(i) == row[i].state = "unmatched" /\ row[i].reason \notin Untrusted

Claim(p, i, l) ==
    /\ At(p, "idle") /\ status[l] = "ACTIVE" /\ Claimable(i)
    /\ job' = [job EXCEPT ![p] = [Idle EXCEPT !.step = "credit", !.i = i, !.l = l]]
    /\ UNCHANGED <<loanVars, moneyVars, pageVars, opsVars, day, swallowed>>

-----------------------------------------------------------------------------
(* The liquidation sweep: the rate, then the ACTIVE loans, whose row locks *)
(* end with the statement; then the repayments; then one loan at a time.   *)

\* The feed may report any rate at any time; a cycle that finds it stale, or a
\* rate that is not positive, ends here and is not a step.
SweepSelects ==
    /\ sweep.step = "idle" /\ ActiveLoans # {}
    /\ \E rate \in Rates :
          sweep' = [step |-> "assess", rate |-> rate, loans |-> ActiveLoans]
    /\ UNCHANGED <<loanVars, moneyVars, pageVars, restoring, job, day,
                   swallowed>>

\* Mutant: the sanity bound of the rate is missing.
Doomed_Unbounded(rate) ==
    {l \in sweep.loans : Undercollateralised(l, rate)}

Doomed(rate) ==
    {l \in sweep.loans : Undercollateralised(l, rate) /\ ~Suspect(rate)}

SweepAssesses ==
    /\ sweep.step = "assess"
    /\ sweep' = IF Doomed(sweep.rate) = {} THEN Rest
                ELSE [sweep EXCEPT !.step = "liquidate", !.loans = Doomed(sweep.rate)]
    /\ UNCHANGED <<loanVars, moneyVars, pageVars, restoring, job, day,
                   swallowed>>

\* liquidateLoan, by id and past transition(); the swap of the SAT follows.
LiquidateLoan(l) ==
    /\ sweep.step = "liquidate" /\ l \in sweep.loans
    /\ status' = [status EXCEPT ![l] = "LIQUIDATED"]
    /\ soldBadly' = IF Suspect(sweep.rate) THEN soldBadly \cup {l} ELSE soldBadly \ {l}
    /\ Record(l, "ACTIVE", "LIQUIDATED", "LIQUIDATION_COMPLETED")
    /\ sweep' = IF sweep.loans = {l} THEN Rest ELSE [sweep EXCEPT !.loans = @ \ {l}]
    /\ UNCHANGED <<owed, closedBy, moneyVars, pageVars, restoring, job, day,
                   swallowed>>

-----------------------------------------------------------------------------
(* Ops: restoreFromBadLiquidation, one request at a time                   *)

RestoreRead(l) ==
    /\ restoring = {} /\ status[l] = "LIQUIDATED" /\ l \in soldBadly
    /\ restoring' = {l}
    /\ UNCHANGED <<loanVars, moneyVars, pageVars, sweep, job, day,
                   swallowed>>

RestoreWrite(l) ==
    /\ l \in restoring
    /\ restoring' = {}
    /\ status' = [status EXCEPT ![l] = "ACTIVE"]
    /\ soldBadly' = soldBadly \ {l}
    /\ Record(l, "LIQUIDATED", "ACTIVE", "LIQUIDATION_REVERSED_BAD_RATE")
    /\ UNCHANGED <<owed, closedBy, moneyVars, pageVars, sweep, job, day,
                   swallowed>>

-----------------------------------------------------------------------------
(* Outside: PalmPay settles an order, a day passes        *)

Settle(i) ==
    /\ order[i] = "settling"
    /\ \E result \in {"settled", "refuted"} : order' = [order EXCEPT ![i] = result]
    /\ UNCHANGED <<loanVars, row, repayments, pageVars, opsVars, job, day, swallowed>>

\* Interest accrues on what is owed, whatever the status.
DayPasses ==
    /\ day < MaxDays
    /\ day' = day + 1
    /\ owed' = [l \in Loans |-> IF owed[l] > 0 THEN owed[l] + 1 ELSE 0]
    /\ UNCHANGED <<status, log, closedBy, soldBadly, moneyVars, pageVars, opsVars, job,
                   swallowed>>

Handle(p) ==
    \/ CheckFloor(p) \/ SelectLoan(p) \/ MatchLoan(p)
    \/ Requery(p) \/ StoreUnmatched(p) \/ Persist(p)
    \/ Credit(p) \/ CreditNoOp(p) \/ CreditThrows(p) \/ Recheck(p) \/ PageOps(p)

Next ==
    \/ \E p \in Deliveries, i \in Inflows : Deliver(p, i)
    \/ \E p \in Claims, i \in Inflows, l \in Loans : Claim(p, i, l)
    \/ \E p \in Callers : Handle(p)
    \/ \E p \in Deliveries : RequeryThrows(p)
    \/ SweepSelects \/ SweepAssesses
    \/ \E l \in Loans : LiquidateLoan(l) \/ RestoreRead(l) \/ RestoreWrite(l)
    \/ \E i \in Inflows : Settle(i)
    \/ DayPasses

Spec == Init /\ [][Next]_vars

-----------------------------------------------------------------------------
(* Properties *)

\* No inflow pays twice, although its deliveries and claims may aim at
\* different loans, whose locks do not exclude each other: one repayment per
\* inflow, and the inflow is matched to the loan of that repayment.
InflowCreditedOnce ==
    /\ \A r, s \in repayments : r.i = s.i => r = s
    /\ \A i \in Inflows :
          IF row[i].state = "matched"
          THEN \E r \in repayments : r.i = i /\ r.l = row[i].loan
          ELSE \A r \in repayments : r.i # i

\* A loan is closed exactly when nothing is owed, and by an inflow credited to
\* it; an ACTIVE loan owes something (the sweep divides by it).
ClosedWhenPaid ==
    \A l \in Loans :
        /\ status[l] = "REPAID" => owed[l] = 0
        /\ status[l] = "ACTIVE" => owed[l] > 0
        /\ owed[l] = 0 <=> closedBy[l] # "none"
        /\ closedBy[l] # "none" => \E r \in repayments : r.i = closedBy[l] /\ r.l = l

\* REPAYMENT_COMPLETED is logged at most once per loan, so its collateral is
\* handed to the release once: no sweep that overwrote a REPAID loan can be
\* restored and repaid again, for it does not sell at a suspect rate.
ClosedOnce ==
    \A l \in Loans : Cardinality({n \in DOMAIN log[l] :
                                    log[l][n].reason = "REPAYMENT_COMPLETED"}) <= 1

\* What is credited automatically PalmPay confirmed (or cannot look up and
\* signed); what the customer claims carries no untrusted marker, whatever
\* redeliveries stored since (applyInflowToLoan's guard).
CreditsAreTrusted ==
    \A r \in repayments :
        IF r.method = "AUTO_AMOUNT" THEN order[r.i] \in {"settled", "hidden"}
        ELSE row[r.i].reason \notin Untrusted

\* Ops hear of every inflow that stays unmatched once its requests ended,
\* unless the credit met a loan that was REPAID by then.
UnmatchedIsPaged ==
    \A i \in Inflows \ swallowed :
        row[i].state = "unmatched" /\ (\A p \in Deliveries : job[p].i # i) => i \in paged
=============================================================================
