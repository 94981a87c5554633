----------------------------- MODULE Origination -----------------------------
(***************************************************************************)
(* From checkout to the disbursement of a loan: LoansService.checkoutLoan, *)
(* cancelLoan and activateLoan, PaymentRequestsService, InflowsService,    *)
(* the Blink webhook handler and the loan-expiry worker.                   *)
(*                                                                         *)
(* Four kinds of process share the rows of one loan without a common lock: *)
(* the checkout request, the customer's cancel request, any number of      *)
(* deliveries of the payment event (Blink repeats a delivery it saw no 200 *)
(* for) and the expiry worker.  Each is split where the code awaits the    *)
(* database: an action is one statement or one transaction.                *)
(***************************************************************************)
EXTENDS Naturals, FiniteSets, LoanStatus

CONSTANTS
    Users,          \* customers
    Deliveries,     \* webhook requests that may be in progress at once
    Overlapping,    \* loans whose event may be delivered again while an
                    \* earlier delivery of it is still being handled
    MaxFaults       \* bound: handler and worker failures in one behaviour

ASSUME OriginationAssumption ==
    /\ Overlapping \subseteq Loans
    /\ MaxFaults \in Nat
    /\ "none" \notin Loans \cup Users

VARIABLES
    owner,          \* loans.user_id; "none" before checkout
    received,       \* loans.collateral_received_at is set
    checkout,       \* progress of the request that creates the loan
    pr,             \* payment_requests.status; "NONE" without a row
    lapsed,         \* payment_requests.expires_at has passed
    paid,           \* the customer's SAT settled on the invoice
    inflow,         \* inflows row of that payment: none, stored, matched
    cancelling,     \* a cancel request read PENDING_COLLATERAL, not yet written
    sweep,          \* rows the expiry cycle selected and has still to process
    pc,             \* next step of a webhook request
    event,          \* the loan whose invoice the request is about
    disbursed,      \* disbursements rows created for the loan
    dispatched,     \* of those, handed to OutflowsService.dispatch
    raced,          \* history: loans for which two requests were past
                    \* existsForLoan and not yet past createForLoan at once
    faults          \* failures so far

loanVars     == <<status, log, owner, received>>
invoiceVars  == <<pr, lapsed, paid>>
handlerVars  == <<pc, event>>
payoutVars   == <<disbursed, dispatched, raced>>
vars == <<loanVars, invoiceVars, handlerVars, payoutVars, checkout, inflow,
          cancelling, sweep, faults>>

CheckoutSteps == {"idle", "counted", "rejected", "created", "failed", "issued"}
HandlerSteps ==
    {"idle", "find", "match", "activate", "stamp", "exists", "create", "dispatch"}

TypeOK ==
    /\ status \in [Loans -> Statuses \cup {"NONE"}]
    /\ log \in [Loans -> Seq(LogRow)]
    /\ owner \in [Loans -> Users \cup {"none"}]
    /\ received \in [Loans -> BOOLEAN]
    /\ checkout \in [Loans -> CheckoutSteps]
    /\ pr \in [Loans -> {"NONE", "PENDING", "PAID", "EXPIRED"}]
    /\ lapsed \in [Loans -> BOOLEAN]
    /\ paid \in [Loans -> BOOLEAN]
    /\ inflow \in [Loans -> {"none", "stored", "matched"}]
    /\ cancelling \in [Loans -> BOOLEAN]
    /\ sweep \subseteq Loans
    /\ pc \in [Deliveries -> HandlerSteps]
    /\ event \in [Deliveries -> Loans \cup {"none"}]
    /\ disbursed \in [Loans -> Nat]
    /\ dispatched \in [Loans -> Nat]
    /\ raced \subseteq Loans
    /\ faults \in 0 .. MaxFaults

Init ==
    /\ status = [l \in Loans |-> "NONE"]
    /\ log = [l \in Loans |-> << >>]
    /\ owner = [l \in Loans |-> "none"]
    /\ received = [l \in Loans |-> FALSE]
    /\ checkout = [l \in Loans |-> "idle"]
    /\ pr = [l \in Loans |-> "NONE"]
    /\ lapsed = [l \in Loans |-> FALSE]
    /\ paid = [l \in Loans |-> FALSE]
    /\ inflow = [l \in Loans |-> "none"]
    /\ cancelling = [l \in Loans |-> FALSE]
    /\ sweep = {}
    /\ pc = [d \in Deliveries |-> "idle"]
    /\ event = [d \in Deliveries |-> "none"]
    /\ disbursed = [l \in Loans |-> 0]
    /\ dispatched = [l \in Loans |-> 0]
    /\ raced = {}
    /\ faults = 0

-----------------------------------------------------------------------------
(* checkoutLoan *)

HasPending(u) == \E l \in Loans : owner[l] = u /\ status[l] = "PENDING_COLLATERAL"

\* The pre-check: the loan row is inserted only several awaits later.
CheckoutCount(u, l) ==
    /\ checkout[l] = "idle"
    /\ ~HasPending(u)
    /\ checkout' = [checkout EXCEPT ![l] = "counted"]
    /\ owner' = [owner EXCEPT ![l] = u]
    /\ UNCHANGED <<status, log, received, invoiceVars, handlerVars, payoutVars,
                   inflow, cancelling, sweep, faults>>

\* Mutant: the partial unique index loans_user_id_pending_unique is missing.
IndexAdmits_NoIndex(l) == TRUE

IndexAdmits(l) == ~HasPending(owner[l])

CheckoutCreate(l) ==
    /\ checkout[l] = "counted"
    /\ IndexAdmits(l)
    /\ checkout' = [checkout EXCEPT ![l] = "created"]
    /\ status' = [status EXCEPT ![l] = "PENDING_COLLATERAL"]
    /\ Record(l, "NONE", "PENDING_COLLATERAL", "LOAN_CREATED")
    /\ UNCHANGED <<owner, received, invoiceVars, handlerVars, payoutVars,
                   inflow, cancelling, sweep, faults>>

\* P2002 on the index: PendingLoanAlreadyExistsException.
CheckoutConflict(l) ==
    /\ checkout[l] = "counted"
    /\ ~IndexAdmits(l)
    /\ checkout' = [checkout EXCEPT ![l] = "rejected"]
    /\ UNCHANGED <<loanVars, invoiceVars, handlerVars, payoutVars,
                   inflow, cancelling, sweep, faults>>

\* PaymentRequestsService.create, outside the loan's transaction.
IssueInvoice(l) ==
    /\ checkout[l] = "created"
    /\ checkout' = [checkout EXCEPT ![l] = "issued"]
    /\ pr' = [pr EXCEPT ![l] = "PENDING"]
    /\ UNCHANGED <<loanVars, lapsed, paid, handlerVars, payoutVars,
                   inflow, cancelling, sweep, faults>>

\* CollateralInvoiceFailedException, or the process dies: the loan stays.
InvoiceFails(l) ==
    /\ checkout[l] = "created"
    /\ checkout' = [checkout EXCEPT ![l] = "failed"]
    /\ UNCHANGED <<loanVars, invoiceVars, handlerVars, payoutVars,
                   inflow, cancelling, sweep, faults>>

-----------------------------------------------------------------------------
(* The invoice, at Blink: fixed amount, payable until it expires, and not  *)
(* withdrawn when the loan is cancelled.                                   *)

LapseInvoice(l) ==
    /\ checkout[l] = "issued" /\ ~lapsed[l]
    /\ lapsed' = [lapsed EXCEPT ![l] = TRUE]
    /\ UNCHANGED <<loanVars, pr, paid, handlerVars, payoutVars, checkout,
                   inflow, cancelling, sweep, faults>>

PayInvoice(l) ==
    /\ checkout[l] = "issued" /\ ~lapsed[l] /\ ~paid[l]
    /\ paid' = [paid EXCEPT ![l] = TRUE]
    /\ UNCHANGED <<loanVars, pr, lapsed, handlerVars, payoutVars, checkout,
                   inflow, cancelling, sweep, faults>>

-----------------------------------------------------------------------------
(* cancelLoan: findFirst, then transition() from the status it read *)

CancelRead(l) ==
    /\ status[l] = "PENDING_COLLATERAL" /\ ~cancelling[l]
    /\ cancelling' = [cancelling EXCEPT ![l] = TRUE]
    /\ UNCHANGED <<loanVars, invoiceVars, handlerVars, payoutVars, checkout,
                   inflow, sweep, faults>>

CancelWrite(l) ==
    /\ cancelling[l]
    /\ cancelling' = [cancelling EXCEPT ![l] = FALSE]
    /\ Transition(l, "PENDING_COLLATERAL", "CANCELLED", "CUSTOMER_CANCELLED")
    /\ UNCHANGED <<owner, received, invoiceVars, handlerVars, payoutVars, checkout,
                   inflow, sweep, faults>>

-----------------------------------------------------------------------------
(* loan-expiry worker: one SELECT whose row locks end with the statement,  *)
(* then one transaction per row                                            *)

\* Mutant: the SELECT asks for requests already EXPIRED.
Expirable_WrongStatus ==
    {l \in Loans : status[l] = "PENDING_COLLATERAL" /\ pr[l] = "EXPIRED" /\ lapsed[l]}

Expirable ==
    {l \in Loans : status[l] = "PENDING_COLLATERAL" /\ pr[l] = "PENDING" /\ lapsed[l]}

Sweep ==
    /\ sweep = {} /\ Expirable # {}
    /\ sweep' = Expirable
    /\ UNCHANGED <<loanVars, invoiceVars, handlerVars, payoutVars, checkout,
                   inflow, cancelling, faults>>

\* Mutant: the worker, which bypasses transition(), forgets its log row.
ExpireLoan_NoLog(l) ==
    /\ status' = [status EXCEPT ![l] = "EXPIRED"]
    /\ UNCHANGED log

ExpireLoan(l) ==
    /\ status' = [status EXCEPT ![l] = "EXPIRED"]
    /\ Record(l, "PENDING_COLLATERAL", "EXPIRED", "INVOICE_EXPIRED")

Expire(l) ==
    /\ l \in sweep
    /\ sweep' = sweep \ {l}
    /\ ExpireLoan(l)
    /\ pr' = [pr EXCEPT ![l] = "EXPIRED"]
    /\ UNCHANGED <<owner, received, lapsed, paid, handlerVars, payoutVars, checkout,
                   inflow, cancelling, faults>>

\* expiry_failed: logged, and the cycle goes on to the next row.
ExpireFails(l) ==
    /\ l \in sweep /\ faults < MaxFaults
    /\ sweep' = sweep \ {l}
    /\ faults' = faults + 1
    /\ UNCHANGED <<loanVars, invoiceVars, handlerVars, payoutVars, checkout,
                   inflow, cancelling>>

-----------------------------------------------------------------------------
(* The Blink webhook: InflowsService.ingest, then _handleLoanCollateral.   *)

At(d, step) == pc[d] = step
Goto(d, step) == pc' = [pc EXCEPT ![d] = step] /\ UNCHANGED event

\* Mutant: the request keeps its event after it ended.
Finish_KeepsEvent(d) ==
    /\ pc' = [pc EXCEPT ![d] = "done"]
    /\ UNCHANGED event

Finish(d) ==
    /\ pc' = [pc EXCEPT ![d] = "idle"]
    /\ event' = [event EXCEPT ![d] = "none"]

Handling(l) == \E d \in Deliveries : event[d] = l

\* A (re)delivery arrives; _createInflow inserts the row or finds it by its
\* unique provider_reference.
Receive(d, l) ==
    /\ At(d, "idle") /\ paid[l]
    /\ l \in Overlapping \/ ~Handling(l)
    /\ pc' = [pc EXCEPT ![d] = "find"]
    /\ event' = [event EXCEPT ![d] = l]
    /\ inflow' = [inflow EXCEPT ![l] = IF @ = "none" THEN "stored" ELSE @]
    /\ UNCHANGED <<loanVars, invoiceVars, payoutVars, checkout, cancelling, sweep, faults>>

\* findPendingByReceivingAddress: by the cached id or by address, in both
\* cases only a row still PENDING.  None: the event is IGNORED with a 200.
Ignore(d) ==
    /\ At(d, "find") /\ pr[event[d]] # "PENDING"
    /\ Finish(d)
    /\ UNCHANGED <<loanVars, invoiceVars, payoutVars, checkout, inflow, cancelling,
                   sweep, faults>>

\* Mutant: the handler activates the loan before it matches the inflow.
FindPending_ThenActivate(d) ==
    /\ At(d, "find") /\ pr[event[d]] = "PENDING"
    /\ Goto(d, "activate")
    /\ UNCHANGED <<loanVars, invoiceVars, payoutVars, checkout, inflow, cancelling,
                   sweep, faults>>

FindPending(d) ==
    /\ At(d, "find") /\ pr[event[d]] = "PENDING"
    /\ Goto(d, "match")
    /\ UNCHANGED <<loanVars, invoiceVars, payoutVars, checkout, inflow, cancelling,
                   sweep, faults>>

\* Mutant: matchInflow marks the request PAID and leaves the inflow unmatched.
MatchInflow_LeavesInflow(d) ==
    /\ At(d, "match")
    /\ pr' = [pr EXCEPT ![event[d]] = "PAID"]
    /\ Goto(d, "activate")
    /\ UNCHANGED <<loanVars, lapsed, paid, payoutVars, checkout, inflow, cancelling,
                   sweep, faults>>

\* matchInflow: keyed by the request's id, whatever its status is by now.
MatchInflow(d) ==
    /\ At(d, "match")
    /\ pr' = [pr EXCEPT ![event[d]] = "PAID"]
    /\ inflow' = [inflow EXCEPT ![event[d]] = "matched"]
    /\ Goto(d, "activate")
    /\ UNCHANGED <<loanVars, lapsed, paid, payoutVars, checkout, cancelling, sweep, faults>>

\* Mutant: the handler ends where activateLoan has nothing to do.
SkipActivation_Ends(d) ==
    /\ At(d, "activate") /\ status[event[d]] # "PENDING_COLLATERAL"
    /\ Finish(d)
    /\ UNCHANGED <<loanVars, invoiceVars, payoutVars, checkout, inflow, cancelling,
                   sweep, faults>>

\* activateLoan finds the loan past PENDING_COLLATERAL and returns.
SkipActivation(d) ==
    /\ At(d, "activate") /\ status[event[d]] # "PENDING_COLLATERAL"
    /\ Goto(d, "exists")
    /\ UNCHANGED <<loanVars, invoiceVars, payoutVars, checkout, inflow, cancelling,
                   sweep, faults>>

ReadPending(d) ==
    /\ At(d, "activate") /\ status[event[d]] = "PENDING_COLLATERAL"
    /\ Goto(d, "stamp")
    /\ UNCHANGED <<loanVars, invoiceVars, payoutVars, checkout, inflow, cancelling,
                   sweep, faults>>

\* Mutant: the transaction moves the status and forgets the stamp.
StampReceived_Forgotten(l) == UNCHANGED received

StampReceived(l) == received' = [received EXCEPT ![l] = TRUE]

Activate(d) ==
    /\ At(d, "stamp")
    /\ StampReceived(event[d])
    /\ Transition(event[d], "PENDING_COLLATERAL", "ACTIVE", "COLLATERAL_CONFIRMED")
    /\ Goto(d, "exists")
    /\ UNCHANGED <<owner, invoiceVars, payoutVars, checkout, inflow, cancelling,
                   sweep, faults>>

\* Mutant: a handler that does not ask whether a disbursement exists.
ExistsForLoan_Never(l) == FALSE

ExistsForLoan(l) == disbursed[l] > 0

AlreadyDisbursed(d) ==
    /\ At(d, "exists") /\ ExistsForLoan(event[d])
    /\ Finish(d)
    /\ UNCHANGED <<loanVars, invoiceVars, payoutVars, checkout, inflow, cancelling,
                   sweep, faults>>

NotYetDisbursed(d) ==
    /\ At(d, "exists") /\ ~ExistsForLoan(event[d])
    /\ Goto(d, "create")
    /\ raced' = IF \E e \in Deliveries : At(e, "create") /\ event[e] = event[d]
                THEN raced \cup {event[d]} ELSE raced
    /\ UNCHANGED <<loanVars, invoiceVars, disbursed, dispatched, checkout, inflow,
                   cancelling, sweep, faults>>

CreateForLoan(d) ==
    /\ At(d, "create")
    /\ disbursed' = [disbursed EXCEPT ![event[d]] = @ + 1]
    /\ Goto(d, "dispatch")
    /\ UNCHANGED <<loanVars, invoiceVars, dispatched, raced, checkout, inflow, cancelling,
                   sweep, faults>>

Dispatch(d) ==
    /\ At(d, "dispatch")
    /\ dispatched' = [dispatched EXCEPT ![event[d]] = @ + 1]
    /\ Finish(d)
    /\ UNCHANGED <<loanVars, invoiceVars, disbursed, raced, checkout, inflow, cancelling,
                   sweep, faults>>

\* An await throws, or the process dies, between any two steps: no 200, so
\* Blink delivers the event again.
HandlerFails(d) ==
    /\ ~At(d, "idle") /\ faults < MaxFaults
    /\ faults' = faults + 1
    /\ Finish(d)
    /\ UNCHANGED <<loanVars, invoiceVars, payoutVars, checkout, inflow, cancelling, sweep>>

-----------------------------------------------------------------------------

Handle(d) ==
    \/ Ignore(d) \/ FindPending(d) \/ MatchInflow(d)
    \/ SkipActivation(d) \/ ReadPending(d) \/ Activate(d)
    \/ AlreadyDisbursed(d) \/ NotYetDisbursed(d) \/ CreateForLoan(d) \/ Dispatch(d)

Next ==
    \/ \E u \in Users, l \in Loans : CheckoutCount(u, l)
    \/ \E l \in Loans :
          \/ CheckoutCreate(l) \/ CheckoutConflict(l)
          \/ IssueInvoice(l) \/ InvoiceFails(l)
          \/ LapseInvoice(l) \/ PayInvoice(l)
          \/ CancelRead(l) \/ CancelWrite(l)
          \/ Expire(l) \/ ExpireFails(l)
    \/ Sweep
    \/ \E d \in Deliveries, l \in Loans : Receive(d, l)
    \/ \E d \in Deliveries : Handle(d) \/ HandlerFails(d)

(***************************************************************************)
(* The worker polls for ever (setInterval); a request in progress runs on  *)
(* unless it fails; Blink repeats a delivery until it is answered 200, and *)
(* no request about a PENDING payment request ever was.  Customers owe     *)
(* nothing.                                                                *)
(***************************************************************************)
Fairness ==
    /\ WF_vars(Sweep)
    /\ \A l \in Loans : WF_vars(Expire(l))
    /\ \A d \in Deliveries : WF_vars(Handle(d))
    /\ \A l \in Loans :
          SF_vars(pr[l] = "PENDING" /\ \E d \in Deliveries : Receive(d, l))

Spec == Init /\ [][Next]_vars /\ Fairness

-----------------------------------------------------------------------------
(* Properties *)

\* At most one PENDING_COLLATERAL loan per user, although checkout counts
\* long before it inserts (loans.service.ts:166).
OnePendingPerUser ==
    \A k, l \in Loans :
        /\ k # l
        /\ status[k] = "PENDING_COLLATERAL" /\ status[l] = "PENDING_COLLATERAL"
        => owner[k] # owner[l]

\* No naira leaves for a loan whose SAT did not come in: every disbursement
\* row belongs to a loan whose own invoice was paid and whose inflow was
\* matched to it, however the webhook, cancel and expiry steps fall.
DisbursedOnlyAgainstCollateral ==
    \A l \in Loans :
        disbursed[l] > 0 => paid[l] /\ inflow[l] = "matched" /\ pr[l] # "NONE"

\* A re-delivered or retried collateral webhook creates no second
\* disbursement, wherever earlier deliveries are or failed, unless two of them
\* were between existsForLoan and createForLoan at the same time
\* (disbursements.service.ts:59, its comment rules out only the former).
OneDisbursementPerEvent ==
    \A l \in Loans \ raced : disbursed[l] <= 1

\* A loan is ACTIVE, or ever stamped as having its collateral, only when the
\* inflow of its own invoice was matched; the stamp and the status agree.
ActiveMeansCollateralised ==
    \A l \in Loans :
        /\ status[l] = "ACTIVE" => received[l]
        /\ received[l] => inflow[l] = "matched" /\ paid[l]

\* The audit trail of every loan starts at its creation, ends at the status
\* the row has and contains only steps of the tables, with three writers of
\* loans.status of which one (the expiry worker) bypasses transition().
AuditTrailComplete == \A l \in Loans : TrailOK(status[l], log[l])

\* The detailed protocol implements the abstract one.
Promise ==
    INSTANCE Funding WITH
        Repeatable <- Overlapping,
        opened     <- {l \in Loans : status[l] # "NONE"},
        secured    <- {l \in Loans : inflow[l] = "matched"},
        payouts    <- disbursed

\* Origination keeps Funding's promise step by step: loans open once, are
\* secured once and after they opened, and are paid out only when secured and
\* once (the webhook's ingest, activate, existsForLoan, createForLoan order).
FundingPromise == Promise!Spec

\* A loan whose invoice lapsed unpaid leaves PENDING_COLLATERAL (and frees
\* its user to borrow again) unless a late delivery marks the invoice PAID.
LapsedLoanResolves ==
    \A l \in Loans :
        (status[l] = "PENDING_COLLATERAL" /\ pr[l] = "PENDING" /\ lapsed[l])
            ~> (status[l] # "PENDING_COLLATERAL" \/ pr[l] = "PAID")

\* Collateral that arrived ends in a dispatched disbursement through any
\* number of failed deliveries, unless the request expired before its event
\* was handled, or a step failed after matchInflow had marked it PAID.
PaidLoanIsFunded ==
    \A l \in Loans :
        paid[l] ~> \/ dispatched[l] > 0
                   \/ pr[l] = "EXPIRED"
                   \/ pr[l] = "PAID" /\ faults > 0

(***************************************************************************)
(* A statement of the repository that its code does not keep.              *)
(***************************************************************************)

\* Only a loan that was activated has an obligation to fund: the webhook logs
\* "loan <id> activated" and ops-disbursements.service.ts:175 says EXPIRED
\* and PENDING loans have "no obligation to fund".
OnlyActivatedLoansAreFunded == \A l \in Loans : disbursed[l] > 0 => received[l]
=============================================================================
