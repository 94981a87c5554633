-------------------------------- MODULE Ledger --------------------------------
(***************************************************************************)
(* The money of one active loan: CalculatorService's collateral,           *)
(* AccrualService.compute, the waterfall of creditInflow and the two       *)
(* decimals a loan_repayments row keeps of it.                             *)
(*                                                                         *)
(* Decimals are integers here, in parts of a kobo fine enough for a day's  *)
(* interest on whole kobo to be exact.  An amount that is stored is        *)
(* rounded to a kobo; what is computed from the rows is not.               *)
(***************************************************************************)
EXTENDS Integers, Sequences

CONSTANTS
    Principals,     \* kobo lent
    Payments,       \* kobo a payment may have
    Rates,          \* prices of a satoshi at checkout, in kobo
    TicksPerDay,    \* MS_PER_DAY, in steps of the clock
    MaxTick,        \* bound: the clock
    MaxPayments     \* bound: repayments

VARIABLES
    principal,      \* loans.principal_ngn
    collateral,     \* loans.collateral_amount_sat
    rate,           \* loans.sat_ngn_rate_at_creation
    now,            \* ticks since collateral_received_at
    rows,           \* loan_repayments
    repaid          \* the loan is REPAID

vars == <<principal, collateral, rate, now, rows, repaid>>

Kobo  == 1000       \* parts of a kobo
Naira == 100 * Kobo
DailyRate == 3      \* of a kobo's parts: DAILY_INTEREST_RATE_BPS, 30 of 10,000
Ltv == <<3, 5>>     \* LOAN_LTV_PERCENT

Row == [at : 0 .. MaxTick, amount : Nat, interest : Nat, principal : Nat, overpay : Nat]

TypeOK ==
    /\ principal \in {p * Kobo : p \in Principals} /\ rate \in Rates
    /\ collateral \in Nat /\ now \in 0 .. MaxTick /\ repaid \in BOOLEAN
    /\ Len(rows) <= MaxPayments
    /\ \A i \in DOMAIN rows : rows[i] \in Row /\ (i > 1 => rows[i - 1].at <= rows[i].at)

-----------------------------------------------------------------------------

CeilDiv(a, b) == (a + b - 1) \div b
Least(a, b) == IF a < b THEN a ELSE b
Minus(a, b) == IF a < b THEN 0 ELSE a - b       \* Decimal.max(a - b, 0)

\* A numeric(20, 2) column rounds half away from zero.
Stored(x) == ((x + Kobo \div 2) \div Kobo) * Kobo

\* ceil(principal / LTV / rate), in whole satoshis, for kobo and kobo.
Collateral(p, r) == CeilDiv(p * Ltv[2], Ltv[1] * r)

Sum(s) ==
    LET sum[n \in 0 .. Len(s)] == IF n = 0 THEN 0 ELSE sum[n - 1] + s[n]
    IN  sum[Len(s)]

\* What the rows add up to.
PaidPrincipal == Sum([i \in DOMAIN rows |-> rows[i].principal])
PaidInterest  == Sum([i \in DOMAIN rows |-> rows[i].interest])
Overpaid      == Sum([i \in DOMAIN rows |-> rows[i].overpay])
Received      == Sum([i \in DOMAIN rows |-> rows[i].amount])

\* ceilDays
Days(tick) == CeilDiv(tick, TicksPerDay)

\* One repayment of compute's walk: interest up to its day, then less principal.
Segment(walk, r) ==
    [day       |-> Days(r.at),
     principal |-> walk.principal - r.principal,
     interest  |-> walk.interest
                     + (walk.principal \div Kobo) * DailyRate * (Days(r.at) - walk.day)]

\* The walk over the repayments rs of a loan of p.
Walk(rs, p) ==
    LET walk[n \in 0 .. Len(rs)] ==
          IF n = 0 THEN [day |-> 0, principal |-> p, interest |-> 0]
          ELSE Segment(walk[n - 1], rs[n])
    IN  walk[Len(rs)]

\* The walk over the rows, and the tail up to now.
GrossInterest ==
    LET last == Walk(rows, principal)
    IN  last.interest + (last.principal \div Kobo) * DailyRate * (Days(now) - last.day)

\* AccrualService.compute
Outstanding ==
    LET p == Minus(principal, PaidPrincipal)
        i == Minus(GrossInterest, PaidInterest)
    IN  [principal |-> p, interest |-> i, total |-> p + i]

\* Mutant: principal first.
Waterfall_PrincipalFirst(amount, owed) ==
    LET p == Least(amount, owed.principal)
        i == Least(amount - p, owed.interest)
    IN  [interest |-> i, principal |-> p, overpay |-> amount - p - i]

\* _waterfall; custody is zero.
Waterfall(amount, owed) ==
    LET i == Least(amount, owed.interest)
        p == Least(amount - i, owed.principal)
    IN  [interest |-> i, principal |-> p, overpay |-> amount - i - p]

-----------------------------------------------------------------------------

\* The loan is activated the moment its collateral is there.
Init ==
    /\ principal \in {p * Kobo : p \in Principals} /\ rate \in Rates
    /\ collateral = Collateral(principal \div Kobo, rate)
    /\ now = 0 /\ rows = <<>> /\ repaid = FALSE

Tick ==
    /\ ~repaid /\ now < MaxTick
    /\ now' = now + 1
    /\ UNCHANGED <<principal, collateral, rate, rows, repaid>>

\* displayNgn(total, 'ceil')
Displayed == CeilDiv(Outstanding.total, Naira) * Naira

\* creditInflow: accrual as of now, and a row whose created_at may be later.
Credit(amount, lag) ==
    LET owed  == Outstanding
        parts == Waterfall(amount, owed)
    IN  /\ ~repaid /\ Len(rows) < MaxPayments /\ now + lag <= MaxTick
        /\ rows' = Append(rows,
              [at |-> now + lag, amount |-> amount, interest |-> Stored(parts.interest),
               principal |-> Stored(parts.principal), overpay |-> Stored(parts.overpay)])
        /\ repaid' = (owed.total <= parts.interest + parts.principal)
        /\ now' = now + lag
        /\ UNCHANGED <<principal, collateral, rate>>

Next ==
    \/ Tick
    \/ \E amount \in {a * Kobo : a \in Payments} \cup {Displayed}, lag \in {0, 1} :
          Credit(amount, lag)

Spec == Init /\ [][Next]_vars

-----------------------------------------------------------------------------
(* Properties *)

\* The principal a day was charged on: what payments of earlier days had left.
PrincipalOn(d) ==
    principal - Sum([i \in DOMAIN rows |-> IF Days(rows[i].at) < d THEN rows[i].principal ELSE 0])

Apart(a, b) == IF a < b THEN b - a ELSE a - b

ChargedTo(day) == Sum([d \in 1 .. day |-> (PrincipalOn(d) \div Kobo) * DailyRate])

\* The walk over the payments charges every day once, on the principal left
\* from the days before, whichever side of a day's end a payment falls.
EveryDayChargedOnce == GrossInterest = ChargedTo(Days(now))

\* Rounding to kobo moves no more than a kobo per payment, and a row written on
\* the other side of a day's end no more than that day: the rows account for
\* the payments, a repaid loan has paid its principal and interest, and one
\* whose principal is gone owes no more than such a rest, for good.
RoundingIsBounded ==
    LET slack  == Len(rows) * Kobo
        oneDay == DailyRate * (principal \div Kobo)
        kept   == Received - Overpaid
    IN  /\ PaidPrincipal <= principal
        /\ Apart(kept, PaidPrincipal + PaidInterest) <= slack
        /\ repaid => Apart(kept, principal + ChargedTo(Days(now))) <= slack + oneDay
        /\ PaidPrincipal = principal => Outstanding.interest <= slack + oneDay

\* Until it is a day old, a loan is far from the liquidation threshold of 1.10
\* at the rate it was made at, although its collateral is in whole satoshis.
FreshLoanIsCovered ==
    Days(now) <= 1 => 10 * collateral * rate >= 11 * (Outstanding.total \div Kobo)

LedgerHolds == EveryDayChargedOnce /\ RoundingIsBounded /\ FreshLoanIsCovered
=============================================================================
