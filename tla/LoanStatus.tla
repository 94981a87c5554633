----------------------------- MODULE LoanStatus -----------------------------
(***************************************************************************)
(* The loan state machine every writer of loans.status goes through, or    *)
(* ought to: LoanStatusService.transition and its two tables.              *)
(*                                                                         *)
(* transition() validates the from_status its CALLER read, not the row:    *)
(* the UPDATE it then issues is keyed by the loan's id alone.  Transition  *)
(* below keeps that: nothing in it looks at status[l].                     *)
(***************************************************************************)
EXTENDS Naturals, Sequences

CONSTANT Loans          \* loan ids
VARIABLES
    status,             \* loans.status; "NONE" while the row does not exist
    log                 \* loan_status_logs, oldest row first

Statuses ==
    {"PENDING_COLLATERAL", "ACTIVE", "REPAID", "LIQUIDATED", "EXPIRED", "CANCELLED"}

VALID_TRANSITIONS == [s \in Statuses |->
    CASE s = "PENDING_COLLATERAL" -> {"ACTIVE", "EXPIRED", "CANCELLED"}
      [] s = "ACTIVE"             -> {"REPAID", "LIQUIDATED"}
      [] OTHER                    -> {}]

SELF_TRANSITION_REASONS == [s \in Statuses |->
    CASE s = "ACTIVE" -> {"REPAYMENT_PARTIAL_NGN", "COLLATERAL_TOPPED_UP"}
      [] s = "REPAID" -> {"COLLATERAL_RELEASED"}
      [] OTHER        -> {}]

Reasons ==
    {"LOAN_CREATED", "COLLATERAL_CONFIRMED", "INVOICE_EXPIRED", "CUSTOMER_CANCELLED",
     "REPAYMENT_PARTIAL_NGN", "REPAYMENT_COMPLETED", "COLLATERAL_TOPPED_UP",
     "COLLATERAL_RELEASED", "LIQUIDATION_COMPLETED", "LIQUIDATION_REVERSED_BAD_RATE"}

\* _assertValidTransition
Legal(from, to, reason) ==
    IF from = to THEN reason \in SELF_TRANSITION_REASONS[from]
                 ELSE to \in VALID_TRANSITIONS[from]

LogRow == [from : Statuses \cup {"NONE"}, to : Statuses, reason : Reasons]

Record(l, from, to, reason) ==
    log' = [log EXCEPT ![l] = Append(@, [from |-> from, to |-> to, reason |-> reason])]

\* transition(): from = "NONE" is the null of a loan's creation, where the row
\* is inserted by the caller and only the log row is written here.
Transition(l, from, to, reason) ==
    /\ Legal(from, to, reason)
    /\ status' = IF from = to THEN status ELSE [status EXCEPT ![l] = to]
    /\ Record(l, from, to, reason)

(***************************************************************************)
(* What the audit trail promises a reader: it starts with the loan's       *)
(* creation, ends at the status the row has, and every later row is a step *)
(* the tables allow.                                                       *)
(***************************************************************************)
TrailOK(s, rows) ==
    IF s = "NONE" THEN rows = << >>
    ELSE /\ Len(rows) > 0
         /\ rows[1] = [from |-> "NONE", to |-> "PENDING_COLLATERAL", reason |-> "LOAN_CREATED"]
         /\ rows[Len(rows)].to = s
         /\ \A i \in 2 .. Len(rows) :
                /\ rows[i].from # "NONE"
                /\ Legal(rows[i].from, rows[i].to, rows[i].reason)
=============================================================================
