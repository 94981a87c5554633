-------------------------------- MODULE Replay --------------------------------
(***************************************************************************)
(* The log of PalmPay's collection webhooks, and the script that credits   *)
(* what an earlier version of the webhook dropped: WebhooksLogService, the *)
(* frame of the webhook that writes the log, the worker that prunes it and *)
(* replay-dropped-palmpay-collections.                                     *)
(*                                                                         *)
(* One order of PalmPay's, delivered again and again while the script runs *)
(* and the customer applies it by hand.  How the webhook matches an order  *)
(* to a loan is the business of Repayment; here it is one read.  An order  *)
(* does not change: PalmPay's lookup shows it settled, refutes it or       *)
(* cannot show it.                                                         *)
(***************************************************************************)
EXTENDS Naturals, FiniteSets

CONSTANTS
    Runs,           \* deliveries and runs of the script that may overlap
    Orders,         \* the orders considered: what PalmPay's lookup says, whose
                    \* account, below the floor, signed (or without a signature),
                    \* and whether the event has the status of success
    MaxLog          \* bound: rows of webhook_logs

Loans == {1, 2}     \* of the customer

VARIABLES
    order,          \* the order
    unsigned,       \* allow_unsigned_webhooks, set where it matters
    loan,           \* loans.status
    logRows,        \* webhook_logs
    logged,         \* webhook_logs rows ever inserted
    inflow,         \* the order's row of inflows
    job,
    credits,        \* history: loan_repayments of the order
    trusted,        \* history: why a credit was given
    swallowed       \* history: a credit to a loan that was REPAID did nothing

facts == <<order, unsigned>>
logVars == <<logRows, logged>>
ghosts == <<credits, trusted, swallowed>>
vars == <<facts, loan, logVars, inflow, job, ghosts>>

OrderFacts == [books : {"settled", "refuted", "hidden"}, ours : BOOLEAN,
               small : BOOLEAN, signed : BOOLEAN, success : BOOLEAN]

Idle == [step |-> "idle", script |-> FALSE, row |-> 0, left |-> {}, loan |-> 0,
         skip |-> FALSE, why |-> "none"]

Details == {"RECEIVED", "SIGNATURE_INVALID", "orderStatus", "IGNORED",
            "DEFERRED", "PROCESSED", "ERROR"}
Whys == Details \cup {"none", "unmatched", "untrusted", "nobody", "books", "signature",
                      "operator"}
Jobs == [step : {"idle", "verify", "check", "select", "requery", "store", "persist",
                 "credit", "outcome"},
         script : BOOLEAN, row : 0 .. MaxLog, left : SUBSET (1 .. MaxLog),
         loan : Loans \cup {0}, skip : BOOLEAN, why : Whys]

TypeOK ==
    /\ order \in OrderFacts /\ unsigned \in BOOLEAN
    /\ loan \in [Loans -> {"none", "ACTIVE", "REPAID", "LIQUIDATED"}]
    /\ logRows \subseteq [n : 1 .. MaxLog, detail : Details]
    /\ logged \in 0 .. MaxLog
    /\ inflow \in {"none", "unmatched", "untrusted", "nobody", "matched"}
    /\ job \in [Runs -> Jobs]
    /\ credits \in 0 .. Cardinality(Runs) + 1
    /\ trusted \subseteq {"books", "signature", "operator", "customer"}
    /\ swallowed \in BOOLEAN

\* The earlier version took orderStatus 1 for a failure, and logged that.
Init ==
    /\ order \in Orders /\ unsigned = ~order.signed
    /\ loan \in [Loans -> {"none", "LIQUIDATED"}]
    /\ logged \in 0 .. 1
    /\ logged > 0 => order.success /\ order.signed
    /\ logRows = {[n |-> k, detail |-> "orderStatus"] : k \in 1 .. logged}
    /\ inflow = "none"
    /\ job = [c \in Runs |-> Idle]
    /\ credits = 0 /\ trusted = {} /\ swallowed = FALSE

-----------------------------------------------------------------------------

At(c, step)   == job[c].step = step
Goto(c, step) == job' = [job EXCEPT ![c].step = step]

\* WebhooksLogService.updateOutcome, best effort: no row, nothing to update.
Log(n, detail) ==
    logRows' = {IF r.n = n THEN [r EXCEPT !.detail = detail] ELSE r : r \in logRows}

\* The end of a delivery, whose outcome is logged last; the script goes on
\* with its next row, and logs nothing.
Finish(c, detail) ==
    IF job[c].script
    THEN job' = [job EXCEPT ![c] =
                    IF job[c].left = {} THEN Idle
                    ELSE [Idle EXCEPT !.step = "check", !.script = TRUE,
                                      !.skip = job[c].skip, !.left = job[c].left]]
    ELSE job' = [job EXCEPT ![c] = [Idle EXCEPT !.step = "outcome", !.row = job[c].row,
                                                !.why = detail]]

-----------------------------------------------------------------------------
(* handle: the row is recorded before the signature is looked at           *)

Receive(c) ==
    /\ At(c, "idle")
    /\ \/ /\ logged < MaxLog
          /\ logged' = logged + 1
          /\ logRows' = logRows \cup {[n |-> logged + 1, detail |-> "RECEIVED"]}
          /\ job' = [job EXCEPT ![c] = [Idle EXCEPT !.step = "verify", !.row = logged + 1]]
       \/ Goto(c, "verify") /\ UNCHANGED logVars    \* record failed
    /\ UNCHANGED <<facts, loan, inflow, ghosts>>

\* verifyWebhookSignature
Verified == order.signed \/ unsigned

\* The status gate of the webhook, of the script too.
Verify(c) ==
    /\ At(c, "verify")
    /\ IF ~Verified THEN Finish(c, "SIGNATURE_INVALID")
       ELSE IF ~order.success THEN Finish(c, "orderStatus")
       ELSE Goto(c, "select")
    /\ UNCHANGED <<facts, loan, logVars, inflow, ghosts>>

Outcome(c) ==
    /\ At(c, "outcome")
    /\ Log(job[c].row, job[c].why)
    /\ job' = [job EXCEPT ![c] = Idle]
    /\ UNCHANGED <<facts, loan, logged, inflow, ghosts>>

\* deleteMany of rows past their retention, oldest first.
Prune ==
    /\ \E n \in 1 .. logged : logRows' = {r \in logRows : r.n > n}
    /\ logRows' # logRows
    /\ UNCHANGED <<facts, loan, logged, inflow, job, ghosts>>

-----------------------------------------------------------------------------
(* The script: its candidates once, then one row after the other           *)

Candidates == {r.n : r \in {x \in logRows : x.detail = "orderStatus"}}

RunScript(c, skip) ==
    /\ At(c, "idle") /\ Candidates # {}
    /\ job' = [job EXCEPT ![c] = [Idle EXCEPT !.step = "check", !.script = TRUE,
                                              !.skip = skip, !.left = Candidates]]
    /\ UNCHANGED <<facts, loan, logVars, inflow, ghosts>>

\* A genuine failure is skipped, and what is credited already.
Check(c) ==
    LET n == CHOOSE k \in job[c].left : \A m \in job[c].left : k <= m
        rest == job[c].left \ {n}
    IN  /\ At(c, "check")
        /\ IF order.success /\ inflow # "matched"
           THEN job' = [job EXCEPT ![c].step = "select", ![c].left = rest]
           ELSE job' = [job EXCEPT ![c] = IF rest = {} THEN Idle ELSE [@ EXCEPT !.left = rest]]
        /\ UNCHANGED <<facts, loan, logVars, inflow, ghosts>>

-----------------------------------------------------------------------------
(* _handle and replayOne: the account, the floor, a loan                   *)

Active == {l \in Loans : loan[l] = "ACTIVE"}

\* Repayment has when an amount below the floor, or one of two loans, is
\* picked; the script has no exception from the floor.
MayPick(c) == ~order.small \/ ~job[c].script

\* The webhook leaves an order into another merchant's account alone; the
\* script stores it, for nobody.
Select(c) ==
    /\ At(c, "select")
    /\ IF ~order.ours
       THEN IF job[c].script
            THEN job' = [job EXCEPT ![c].step = "store", ![c].why = "nobody"]
            ELSE Finish(c, "IGNORED")
       ELSE \/ /\ order.small \/ Cardinality(Active) # 1
               /\ job' = [job EXCEPT ![c].step = "store", ![c].why = "unmatched"]
            \/ /\ MayPick(c)
               /\ \E l \in Active :
                     job' = [job EXCEPT ![c].step = "requery", ![c].loan = l]
    /\ UNCHANGED <<facts, loan, logVars, inflow, ghosts>>

\* storeUnmatchedInflow: the row of an earlier delivery stays as it is.
Store(c) ==
    /\ At(c, "store")
    /\ inflow' = IF inflow = "none" THEN job[c].why ELSE inflow
    /\ Finish(c, "IGNORED")
    /\ UNCHANGED <<facts, loan, logVars, ghosts>>

\* Mutant: an order PalmPay cannot show is credited signed or not.
SignatureOnly_Any == order.books = "hidden"

SignatureOnly == order.books = "hidden" /\ order.signed

\* Why an order is credited, by the webhook and by the script, to which an
\* order PalmPay cannot show is a mismatch.
Reasons(c) ==
    {w \in {"books", "signature", "operator"} :
        \/ w = "books" /\ order.books = "settled" /\ ~job[c].skip
        \/ w = "signature" /\ ~job[c].script /\ SignatureOnly
        \/ w = "operator" /\ job[c].skip}

Requery(c) ==
    /\ At(c, "requery")
    /\ \/ \E w \in Reasons(c) :
             job' = [job EXCEPT ![c].step = "persist", ![c].why = w]
       \/ /\ Reasons(c) = {}
          /\ IF job[c].script THEN Finish(c, "IGNORED")
             ELSE job' = [job EXCEPT ![c].step = "store", ![c].why = "untrusted"]
       \/ ~job[c].skip /\ Finish(c, "DEFERRED")     \* the lookup throws
    /\ UNCHANGED <<facts, loan, logVars, inflow, ghosts>>

Persist(c) ==
    /\ At(c, "persist")
    /\ inflow' = IF inflow = "none" THEN "unmatched" ELSE inflow
    /\ IF inflow = "matched" THEN Finish(c, "IGNORED") ELSE Goto(c, "credit")
    /\ UNCHANGED <<facts, loan, logVars, ghosts>>

-----------------------------------------------------------------------------
(* creditInflow *)

\* Mutant: without the unique index on loan_repayments.inflow_id.
RepaymentFree_NoIndex == TRUE

RepaymentFree == credits = 0

AboveFloor == ~order.small

\* The loan may be paid in full or in part.
Credit(c) ==
    /\ At(c, "credit") /\ AboveFloor /\ loan[job[c].loan] = "ACTIVE" /\ RepaymentFree
    /\ credits' = credits + 1
    /\ trusted' = trusted \cup {job[c].why}
    /\ inflow' = "matched"
    /\ \E s \in {"ACTIVE", "REPAID"} : loan' = [loan EXCEPT ![job[c].loan] = s]
    /\ Finish(c, "PROCESSED")
    /\ UNCHANGED <<facts, logVars, swallowed>>

\* A loan that is REPAID by now takes nothing, and the caller hears success.
CreditNoOp(c) ==
    /\ At(c, "credit") /\ AboveFloor /\ loan[job[c].loan] = "REPAID"
    /\ swallowed' = TRUE
    /\ Finish(c, "PROCESSED")
    /\ UNCHANGED <<facts, loan, logVars, inflow, credits, trusted>>

CreditThrows(c) ==
    /\ At(c, "credit")
    /\ \/ ~AboveFloor \/ loan[job[c].loan] = "LIQUIDATED"
       \/ loan[job[c].loan] = "ACTIVE" /\ ~RepaymentFree
    /\ Finish(c, IF inflow = "matched" THEN "IGNORED" ELSE "ERROR")
    /\ UNCHANGED <<facts, loan, logVars, inflow, ghosts>>

-----------------------------------------------------------------------------
(* The customer and the loans *)

\* applyInflowToLoan: not what is untrusted, nor what is nobody's.
Apply(l) ==
    /\ inflow = "unmatched" /\ loan[l] = "ACTIVE" /\ RepaymentFree
    /\ credits' = credits + 1 /\ trusted' = trusted \cup {"customer"}
    /\ inflow' = "matched"
    /\ UNCHANGED <<facts, loan, logVars, job, swallowed>>

LoanMoves(l) ==
    /\ \/ loan[l] = "none" /\ loan' = [loan EXCEPT ![l] = "ACTIVE"]
       \/ /\ loan[l] = "ACTIVE"
          /\ \E s \in {"REPAID", "LIQUIDATED"} : loan' = [loan EXCEPT ![l] = s]
    /\ UNCHANGED <<facts, logVars, inflow, job, ghosts>>

-----------------------------------------------------------------------------

Next ==
    \/ Prune
    \/ \E c \in Runs, skip \in BOOLEAN : RunScript(c, skip)
    \/ \E c \in Runs :
          \/ Receive(c) \/ Verify(c) \/ Outcome(c) \/ Check(c) \/ Select(c) \/ Store(c)
          \/ Requery(c) \/ Persist(c) \/ Credit(c) \/ CreditNoOp(c) \/ CreditThrows(c)
    \/ \E l \in Loans : Apply(l) \/ LoanMoves(l)

Spec == Init /\ [][Next]_vars

-----------------------------------------------------------------------------
(* Properties *)

\* However deliveries, runs of the script and the customer overlap, an order
\* is credited once, and then its inflow is matched.
OrderCreditedOnce == credits <= 1 /\ (credits = 1 <=> inflow = "matched")

\* What is credited without the customer's doing was settled by PalmPay's
\* books, or signed by PalmPay, or the operator gave up asking; an order into
\* an account of another merchant is never credited.
CreditsAreTrusted ==
    /\ "books" \in trusted => order.books = "settled"
    /\ "signature" \in trusted => order.signed
    /\ trusted # {} => order.ours

\* A delivery is logged as processed only if the order was credited, by it,
\* unless the loan it picked was REPAID meanwhile.
LogIsTrue ==
    \A r \in logRows : r.detail = "PROCESSED" => inflow = "matched" \/ swallowed

ReplayHolds == OrderCreditedOnce /\ CreditsAreTrusted /\ LogIsTrue

\* What each job knows of the order it is about to store, credit or log.
JobsAreTrue ==
    \A c \in Runs :
        /\ job[c].step \in {"requery", "persist", "credit"} => order.ours
        /\ At(c, "store") =>
              job[c].why = "nobody" \/ (job[c].why \in {"unmatched", "untrusted"} /\ order.ours)
        /\ job[c].step \in {"persist", "credit"} =>
              \/ job[c].why = "books" /\ order.books = "settled"
              \/ job[c].why = "signature" /\ order.signed
              \/ job[c].why = "operator"
        /\ At(c, "outcome") =>
              /\ job[c].why \in Details
              /\ job[c].why = "PROCESSED" => inflow = "matched" \/ swallowed

\* An inflow a loan may be given is of the customer's account.
InflowIsOurs == inflow \in {"unmatched", "matched"} => order.ours

IInv == TypeOK /\ ReplayHolds /\ JobsAreTrue /\ InflowIsOurs
=============================================================================
