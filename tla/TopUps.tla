-------------------------------- MODULE TopUps --------------------------------
(***************************************************************************)
(* LoansService.createCollateralTopUp, one action per await, and what      *)
(* becomes of the SAT that a customer sends: the Blink webhook looks for a *)
(* payment request, and a top-up has none.  One loan; each request creates *)
(* at most one invoice.  Nothing in src/ or workers/ reads a top-up again. *)
(***************************************************************************)
EXTENDS Naturals, FiniteSets

CONSTANTS
    Requests,       \* of the customer
    MaxDeliveries   \* bound: deliveries of a payment's webhook

VARIABLES
    status,         \* of the loan
    step,           \* of each request
    topup,          \* the row of collateral_topups a request created
    cached,         \* requests whose collateral_topup:pending key exists
    invoice,        \* the invoice at Blink
    inflow,         \* of a payment: none, or stored without a match
    deliveries      \* history: how often a payment's webhook was answered

vars == <<status, step, topup, cached, invoice, inflow, deliveries>>

TypeOK ==
    /\ status \in {"ACTIVE", "REPAID", "LIQUIDATED"}
    /\ step \in [Requests -> {"idle", "invoice", "create", "cache", "shown", "failed"}]
    /\ topup \in [Requests -> {"none", "PENDING_COLLATERAL", "RECEIVED", "EXPIRED", "CANCELLED"}]
    /\ cached \subseteq Requests
    /\ invoice \in [Requests -> {"none", "open", "paid", "lapsed"}]
    /\ inflow \in [Requests -> {"none", "unmatched"}]
    /\ deliveries \in [Requests -> 0 .. MaxDeliveries]

Init ==
    /\ status = "ACTIVE"
    /\ step = [c \in Requests |-> "idle"]
    /\ topup = [c \in Requests |-> "none"]
    /\ cached = {}
    /\ invoice = [c \in Requests |-> "none"]
    /\ inflow = [c \in Requests |-> "none"]
    /\ deliveries = [c \in Requests |-> 0]

-----------------------------------------------------------------------------

Goto(c, s) == step' = [step EXCEPT ![c] = s]
Open == {c \in Requests : topup[c] = "PENDING_COLLATERAL"}

\* A loan that is not ACTIVE is refused.
ReadLoan(c) ==
    /\ step[c] = "idle"
    /\ Goto(c, IF status = "ACTIVE" THEN "invoice" ELSE "failed")
    /\ UNCHANGED <<status, topup, cached, invoice, inflow, deliveries>>

MakeInvoice(c) ==
    /\ step[c] = "invoice"
    /\ \/ invoice' = [invoice EXCEPT ![c] = "open"] /\ Goto(c, "create")
       \/ Goto(c, "failed") /\ UNCHANGED invoice
    /\ UNCHANGED <<status, topup, cached, inflow, deliveries>>

\* Mutant: without the partial unique index.
PendingIndexAdmits_Any == TRUE

\* collateral_topups_loan_id_pending_unique
PendingIndexAdmits == Open = {}

Create(c) ==
    /\ step[c] = "create"
    /\ IF PendingIndexAdmits
       THEN topup' = [topup EXCEPT ![c] = "PENDING_COLLATERAL"] /\ Goto(c, "cache")
       ELSE Goto(c, "failed") /\ UNCHANGED topup
    /\ UNCHANGED <<status, cached, invoice, inflow, deliveries>>

\* The customer sees the invoice if the key could be set.
Cache(c) ==
    /\ step[c] = "cache"
    /\ \/ cached' = cached \cup {c} /\ Goto(c, "shown")
       \/ Goto(c, "failed") /\ UNCHANGED cached
    /\ UNCHANGED <<status, topup, invoice, inflow, deliveries>>

-----------------------------------------------------------------------------
(* The invoice and its webhook *)

Pay(c) ==
    /\ step[c] = "shown" /\ invoice[c] = "open"
    /\ invoice' = [invoice EXCEPT ![c] = "paid"]
    /\ UNCHANGED <<status, step, topup, cached, inflow, deliveries>>

Lapse(c) ==
    /\ invoice[c] = "open"
    /\ invoice' = [invoice EXCEPT ![c] = "lapsed"]
    /\ UNCHANGED <<status, step, topup, cached, inflow, deliveries>>

KeyExpires(c) ==
    /\ c \in cached /\ invoice[c] # "open"
    /\ cached' = cached \ {c}
    /\ UNCHANGED <<status, step, topup, invoice, inflow, deliveries>>

\* ingest finds no payment request; a delivery again finds the inflow.
Webhook(c) ==
    /\ invoice[c] = "paid" /\ deliveries[c] < MaxDeliveries
    /\ inflow' = [inflow EXCEPT ![c] = "unmatched"]
    /\ deliveries' = [deliveries EXCEPT ![c] = @ + 1]
    /\ UNCHANGED <<status, step, topup, cached, invoice>>

LoanEnds ==
    /\ status = "ACTIVE" /\ status' \in {"REPAID", "LIQUIDATED"}
    /\ UNCHANGED <<step, topup, cached, invoice, inflow, deliveries>>

-----------------------------------------------------------------------------

Step(c) == ReadLoan(c) \/ MakeInvoice(c) \/ Create(c) \/ Cache(c)

Next ==
    \/ LoanEnds
    \/ \E c \in Requests : Step(c) \/ Pay(c) \/ Lapse(c) \/ KeyExpires(c) \/ Webhook(c)

\* Requests end, invoices lapse if they are not paid, webhooks are delivered.
Fairness ==
    \A c \in Requests :
        WF_vars(Step(c)) /\ WF_vars(Lapse(c)) /\ WF_vars(KeyExpires(c)) /\ WF_vars(Webhook(c))

Spec == Init /\ [][Next]_vars /\ Fairness

-----------------------------------------------------------------------------
(* Properties *)

\* However requests overlap, one top-up of the loan is open, and what the
\* customer pays is its invoice, never that of a request that lost the race.
OneOpenTopUp ==
    /\ Cardinality(Open) <= 1
    /\ \A c \in Requests : invoice[c] = "paid" => c \in Open

\* What the refusal of a second top-up says: wait for the first to expire or
\* to be received.
OpenTopUpCloses ==
    \A c \in Requests : topup[c] = "PENDING_COLLATERAL" ~> topup[c] # "PENDING_COLLATERAL"

\* A request shows an invoice only of the top-up it created.
ShownIsOpen ==
    \A c \in Requests : step[c] \in {"cache", "shown"} => c \in Open

IInv == TypeOK /\ OneOpenTopUp /\ ShownIsOpen
=============================================================================
