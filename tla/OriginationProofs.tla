-------------------------- MODULE OriginationProofs --------------------------
(***************************************************************************)
(* Proofs about Origination for every set of users, loans and deliveries,  *)
(* every choice of Overlapping and every number of faults.                 *)
(***************************************************************************)
EXTENDS Origination, TLAPS

-----------------------------------------------------------------------------
(* The loan state machine *)

\* A row that transition() or the expiry worker appends is a legal log row.
LEMMA RowType ==
    ASSUME NEW from \in Statuses \cup {"NONE"}, NEW to \in Statuses, NEW reason \in Reasons
    PROVE  [from |-> from, to |-> to, reason |-> reason] \in LogRow
BY DEF LogRow

\* Recording a row keeps the log a function from loans to sequences of rows.
LEMMA RecordType ==
    ASSUME log \in [Loans -> Seq(LogRow)], NEW l \in Loans,
           NEW from \in Statuses \cup {"NONE"}, NEW to \in Statuses, NEW reason \in Reasons,
           Record(l, from, to, reason)
    PROVE  log' \in [Loans -> Seq(LogRow)]
<1>1. [from |-> from, to |-> to, reason |-> reason] \in LogRow
  BY RowType
<1>2. Append(log[l], [from |-> from, to |-> to, reason |-> reason]) \in Seq(LogRow)
  BY <1>1
<1> QED BY <1>2 DEF Record

\* A transition between two different statuses keeps the types of both tables.
LEMMA TransitionType ==
    ASSUME status \in [Loans -> Statuses \cup {"NONE"}], log \in [Loans -> Seq(LogRow)],
           NEW l \in Loans, NEW from \in Statuses, NEW to \in Statuses, NEW reason \in Reasons,
           Transition(l, from, to, reason)
    PROVE  /\ status' \in [Loans -> Statuses \cup {"NONE"}]
           /\ log' \in [Loans -> Seq(LogRow)]
BY RecordType DEF Transition

-----------------------------------------------------------------------------
(* Type correctness.  It is inductive together with EventHeld: a request   *)
(* that has not ended knows the loan it is about.                          *)

EventHeld == \A d \in Deliveries : At(d, "idle") <=> event[d] = "none"

\* The types hold at first, and every handler holds an event.
LEMMA InitTypeOK == Init => TypeOK /\ EventHeld
BY OriginationAssumption DEF Init, TypeOK, EventHeld, At, CheckoutSteps, HandlerSteps

\* The steps of checkout, of the invoice, of cancel and of the worker.
LEMMA LoanStepTypeOK ==
    ASSUME TypeOK, EventHeld, NEW l \in Loans,
           \/ \E u \in Users : CheckoutCount(u, l)
           \/ CheckoutCreate(l) \/ CheckoutConflict(l)
           \/ IssueInvoice(l) \/ InvoiceFails(l)
           \/ LapseInvoice(l) \/ PayInvoice(l)
           \/ CancelRead(l) \/ CancelWrite(l)
           \/ Expire(l) \/ ExpireFails(l)
    PROVE  TypeOK' /\ EventHeld'
<1> USE DEF TypeOK, EventHeld, At, CheckoutSteps, Statuses, Reasons,
        loanVars, invoiceVars, payoutVars, handlerVars
<1>1. CASE \E u \in Users : CheckoutCount(u, l)
  BY <1>1 DEF CheckoutCount
<1>2. CASE CheckoutCreate(l)
  BY <1>2, RecordType DEF CheckoutCreate
<1>3. CASE CheckoutConflict(l)
  BY <1>3 DEF CheckoutConflict
<1>4. CASE IssueInvoice(l)
  BY <1>4 DEF IssueInvoice
<1>5. CASE InvoiceFails(l)
  BY <1>5 DEF InvoiceFails
<1>6. CASE LapseInvoice(l)
  BY <1>6 DEF LapseInvoice
<1>7. CASE PayInvoice(l)
  BY <1>7 DEF PayInvoice
<1>8. CASE CancelRead(l)
  BY <1>8 DEF CancelRead
<1>9. CASE CancelWrite(l)
  BY <1>9, TransitionType DEF CancelWrite
<1>10. CASE Expire(l)
  BY <1>10, RecordType DEF Expire, ExpireLoan
<1>11. CASE ExpireFails(l)
  BY <1>11, OriginationAssumption DEF ExpireFails
<1> QED
  BY <1>1, <1>2, <1>3, <1>4, <1>5, <1>6, <1>7, <1>8, <1>9, <1>10, <1>11

\* The steps of a webhook request.
LEMMA HandlerStepTypeOK ==
    ASSUME TypeOK, EventHeld, NEW d \in Deliveries,
           \/ \E l \in Loans : Receive(d, l)
           \/ Handle(d)
           \/ HandlerFails(d)
    PROVE  TypeOK' /\ EventHeld'
<1> USE OriginationAssumption
    DEF TypeOK, EventHeld, At, Goto, Finish, HandlerSteps,
        loanVars, invoiceVars, payoutVars
<1>0. CASE \E l \in Loans : Receive(d, l)
  BY <1>0 DEF Receive
<1>1. CASE Ignore(d)
  BY <1>1 DEF Ignore
<1>2. CASE FindPending(d)
  BY <1>2 DEF FindPending
<1>3. CASE MatchInflow(d)
  BY <1>3 DEF MatchInflow
<1>4. CASE SkipActivation(d)
  BY <1>4 DEF SkipActivation
<1>5. CASE ReadPending(d)
  BY <1>5 DEF ReadPending
<1>6. CASE Activate(d)
  <2>1. event[d] \in Loans
    BY <1>6 DEF Activate
  <2>2. /\ status' \in [Loans -> Statuses \cup {"NONE"}]
        /\ log' \in [Loans -> Seq(LogRow)]
    BY <1>6, <2>1, TransitionType DEF Activate, Statuses, Reasons
  <2> QED BY <1>6, <2>1, <2>2 DEF Activate, StampReceived
<1>7. CASE AlreadyDisbursed(d)
  BY <1>7 DEF AlreadyDisbursed
<1>8. CASE NotYetDisbursed(d)
  BY <1>8 DEF NotYetDisbursed
<1>9. CASE CreateForLoan(d)
  BY <1>9 DEF CreateForLoan
<1>10. CASE Dispatch(d)
  BY <1>10 DEF Dispatch
<1>11. CASE HandlerFails(d)
  BY <1>11 DEF HandlerFails
<1> QED
  BY <1>0, <1>1, <1>2, <1>3, <1>4, <1>5, <1>6, <1>7, <1>8, <1>9, <1>10, <1>11 DEF Handle

\* Every step keeps the types.
LEMMA StepTypeOK == TypeOK /\ EventHeld /\ [Next]_vars => TypeOK' /\ EventHeld'
<1> SUFFICES ASSUME TypeOK, EventHeld, [Next]_vars
             PROVE  TypeOK' /\ EventHeld'
  OBVIOUS
<1>1. CASE Sweep
  BY <1>1 DEF Sweep, Expirable, TypeOK, EventHeld, At, loanVars, invoiceVars,
              handlerVars, payoutVars
<1>2. CASE UNCHANGED vars
  BY <1>2 DEF vars, TypeOK, EventHeld, At, loanVars, invoiceVars, handlerVars, payoutVars
<1> QED BY <1>1, <1>2, LoanStepTypeOK, HandlerStepTypeOK DEF Next

\* They always hold.
LEMMA TypeInvariant == Spec => [](TypeOK /\ EventHeld)
BY InitTypeOK, StepTypeOK, PTL DEF Spec

\* Every state of every behaviour is well typed.
THEOREM TypeCorrect == Spec => []TypeOK
BY TypeInvariant, PTL

-----------------------------------------------------------------------------
(* The inductive invariant.                                                *)
(*                                                                         *)
(* Lifecycle ties the loan row and the payment request to the progress of  *)
(* checkout, so that a cancel or an expiry that was decided on a row finds *)
(* one when it writes.  Custody follows the SAT from the invoice to the    *)
(* disbursement: what each step of a handler may rely on.  Single is the   *)
(* argument for one disbursement: unless a race was recorded, one request  *)
(* at most is about to create a row for a loan, and it saw none; and where *)
(* deliveries do not overlap no race is ever recorded.                     *)

Lifecycle ==
    \A l \in Loans :
        /\ status[l] = "NONE" <=> checkout[l] \in {"idle", "counted", "rejected"}
        /\ pr[l] # "NONE" <=> checkout[l] = "issued"
        /\ paid[l] => checkout[l] = "issued"
        /\ cancelling[l] => status[l] # "NONE"
        /\ l \in sweep => pr[l] # "NONE"

AfterMatch(d) == pc[d] \in {"activate", "stamp", "exists", "create", "dispatch"}

Custody ==
    /\ \A l \in Loans :
          /\ inflow[l] # "none" => paid[l]
          /\ received[l] \/ disbursed[l] > 0 => inflow[l] = "matched"
          /\ status[l] = "ACTIVE" => received[l]
    /\ \A d \in Deliveries :
          /\ ~At(d, "idle") => inflow[event[d]] # "none"
          /\ AfterMatch(d) => inflow[event[d]] = "matched"

Single ==
    /\ \A d, e \in Deliveries :
          event[d] = event[e] /\ event[d] \in Loans \ Overlapping => d = e
    /\ raced \subseteq Overlapping
    /\ \A d, e \in Deliveries :
          At(d, "create") /\ At(e, "create") /\ event[d] = event[e] /\ event[d] \notin raced
             => d = e
    /\ \A d \in Deliveries :
          At(d, "create") /\ event[d] \notin raced => disbursed[event[d]] = 0
    /\ OneDisbursementPerEvent

IInv ==
    /\ TypeOK
    /\ EventHeld
    /\ Lifecycle
    /\ Custody
    /\ Single
    /\ OnePendingPerUser
    /\ AuditTrailComplete

\* The inductive invariant holds at first.
LEMMA InitIInv == Init => IInv
<1> SUFFICES ASSUME Init PROVE IInv
  OBVIOUS
<1>1. TypeOK /\ EventHeld
  BY InitTypeOK
<1>2. Lifecycle /\ Custody /\ OnePendingPerUser
  BY DEF Init, Lifecycle, Custody, AfterMatch, At, OnePendingPerUser
<1>3. Single
  BY OriginationAssumption DEF Init, Single, At, OneDisbursementPerEvent
<1>4. AuditTrailComplete
  BY DEF Init, AuditTrailComplete, TrailOK
<1> QED BY <1>1, <1>2, <1>3, <1>4 DEF IInv

\* Every step keeps what a status says of the loan's invoice and payout.
LEMMA StepLifecycle ==
    ASSUME IInv, [Next]_vars
    PROVE  Lifecycle'
<1> USE DEF IInv, TypeOK, Lifecycle, loanVars, invoiceVars, handlerVars, payoutVars
<1>1. ASSUME NEW u \in Users, NEW l \in Loans, CheckoutCount(u, l) PROVE Lifecycle'
  BY <1>1 DEF CheckoutCount
<1>2. ASSUME NEW l \in Loans, CheckoutCreate(l) PROVE Lifecycle'
  BY <1>2 DEF CheckoutCreate
<1>3. ASSUME NEW l \in Loans, CheckoutConflict(l) PROVE Lifecycle'
  BY <1>3 DEF CheckoutConflict
<1>4. ASSUME NEW l \in Loans, IssueInvoice(l) PROVE Lifecycle'
  BY <1>4 DEF IssueInvoice
<1>5. ASSUME NEW l \in Loans, InvoiceFails(l) PROVE Lifecycle'
  BY <1>5 DEF InvoiceFails
<1>6. ASSUME NEW l \in Loans, LapseInvoice(l) PROVE Lifecycle'
  BY <1>6 DEF LapseInvoice
<1>6a. ASSUME NEW l \in Loans, PayInvoice(l) PROVE Lifecycle'
  BY <1>6a DEF PayInvoice
<1>7. ASSUME NEW l \in Loans, CancelRead(l) PROVE Lifecycle'
  BY <1>7 DEF CancelRead
<1>8. ASSUME NEW l \in Loans, CancelWrite(l) PROVE Lifecycle'
  BY <1>8 DEF CancelWrite, Transition
<1>9. ASSUME NEW l \in Loans, Expire(l) PROVE Lifecycle'
  BY <1>9 DEF Expire, ExpireLoan
<1>10. ASSUME NEW l \in Loans, ExpireFails(l) PROVE Lifecycle'
  BY <1>10 DEF ExpireFails
<1>11. CASE Sweep
  BY <1>11 DEF Sweep, Expirable
<1>12. ASSUME NEW d \in Deliveries, NEW l \in Loans, Receive(d, l) PROVE Lifecycle'
  BY <1>12 DEF Receive
<1>13. ASSUME NEW d \in Deliveries, MatchInflow(d) PROVE Lifecycle'
  <2>1. event[d] \in Loans /\ checkout[event[d]] = "issued"
    BY <1>13 DEF MatchInflow, EventHeld, Custody, At
  <2> QED BY <1>13, <2>1 DEF MatchInflow
<1>14. ASSUME NEW d \in Deliveries, Activate(d) PROVE Lifecycle'
  <2>1. event[d] \in Loans /\ inflow[event[d]] # "none"
    BY <1>14 DEF Activate, EventHeld, Custody, At
  <2>2. status[event[d]] # "NONE"
    BY <2>1 DEF Custody
  <2> QED BY <1>14, <2>1, <2>2 DEF Activate, Transition
<1>15. ASSUME NEW d \in Deliveries,
              \/ Ignore(d) \/ FindPending(d) \/ SkipActivation(d) \/ ReadPending(d)
              \/ AlreadyDisbursed(d) \/ NotYetDisbursed(d) \/ CreateForLoan(d)
              \/ Dispatch(d) \/ HandlerFails(d)
       PROVE  Lifecycle'
  BY <1>15 DEF Ignore, FindPending, SkipActivation, ReadPending, AlreadyDisbursed,
       NotYetDisbursed, CreateForLoan, Dispatch, HandlerFails
<1>16. CASE UNCHANGED vars
  BY <1>16 DEF vars
<1> QED
  BY <1>1, <1>2, <1>3, <1>4, <1>5, <1>6, <1>6a, <1>7, <1>8, <1>9, <1>10, <1>11, <1>12,
     <1>13, <1>14, <1>15, <1>16 DEF Next, Handle

\* Every step keeps the collateral with the loans that left the checkout.
LEMMA StepCustody ==
    ASSUME IInv, [Next]_vars
    PROVE  Custody'
<1> USE DEF IInv, TypeOK, EventHeld, Custody, AfterMatch, At, Goto, Finish,
        loanVars, invoiceVars, handlerVars, payoutVars
<1>1. ASSUME NEW u \in Users, NEW l \in Loans, CheckoutCount(u, l) PROVE Custody'
  BY <1>1 DEF CheckoutCount
<1>2. ASSUME NEW l \in Loans, CheckoutCreate(l) PROVE Custody'
  BY <1>2 DEF CheckoutCreate
<1>3. ASSUME NEW l \in Loans,
             \/ CheckoutConflict(l) \/ IssueInvoice(l) \/ InvoiceFails(l)
             \/ LapseInvoice(l) \/ CancelRead(l) \/ ExpireFails(l)
      PROVE  Custody'
  BY <1>3 DEF CheckoutConflict, IssueInvoice, InvoiceFails, LapseInvoice, CancelRead,
              ExpireFails
<1>4. ASSUME NEW l \in Loans, PayInvoice(l) PROVE Custody'
  BY <1>4 DEF PayInvoice
<1>5. ASSUME NEW l \in Loans, CancelWrite(l) PROVE Custody'
  BY <1>5 DEF CancelWrite, Transition
<1>6. ASSUME NEW l \in Loans, Expire(l) PROVE Custody'
  BY <1>6 DEF Expire, ExpireLoan
<1>7. CASE Sweep
  BY <1>7 DEF Sweep
<1>8. ASSUME NEW d \in Deliveries, NEW l \in Loans, Receive(d, l) PROVE Custody'
  <2>1. \A k \in Loans : inflow[k] # "none" => inflow'[k] = inflow[k]
    BY <1>8 DEF Receive
  <2>2. event[d] = "none" /\ inflow'[l] # "none" /\ paid'[l]
    BY <1>8 DEF Receive
  <2> QED BY <1>8, <2>1, <2>2, OriginationAssumption DEF Receive
<1>9. ASSUME NEW d \in Deliveries, MatchInflow(d) PROVE Custody'
  BY <1>9 DEF MatchInflow
<1>10. ASSUME NEW d \in Deliveries, Activate(d) PROVE Custody'
  BY <1>10 DEF Activate, StampReceived, Transition
<1>11. ASSUME NEW d \in Deliveries, CreateForLoan(d) PROVE Custody'
  BY <1>11 DEF CreateForLoan
<1>12. ASSUME NEW d \in Deliveries,
              \/ Ignore(d) \/ FindPending(d) \/ AlreadyDisbursed(d)
              \/ Dispatch(d) \/ HandlerFails(d)
       PROVE  Custody'
  <2>1. UNCHANGED <<inflow, paid, received, disbursed, status>>
    BY <1>12 DEF Ignore, FindPending, AlreadyDisbursed, Dispatch, HandlerFails
  <2>2. Finish(d) \/ (Goto(d, "match") /\ At(d, "find"))
    BY <1>12 DEF Ignore, FindPending, AlreadyDisbursed, Dispatch, HandlerFails
  <2>3. CASE Finish(d)
    <3>1. pc'[d] = "idle" /\ \A e \in Deliveries \ {d} : pc'[e] = pc[e] /\ event'[e] = event[e]
      BY <2>3
    <3>3. \A e \in Deliveries :
             /\ pc'[e] # "idle" => inflow'[event'[e]] # "none"
             /\ AfterMatch(e)' => inflow'[event'[e]] = "matched"
      <4> TAKE e \in Deliveries
      <4>1. CASE e = d
        BY <3>1, <4>1
      <4>2. CASE e # d
        <5>1. pc'[e] = pc[e] /\ event'[e] = event[e] /\ inflow' = inflow
          BY <2>1, <3>1, <4>2
        <5> QED BY <5>1
      <4> QED BY <4>1, <4>2
    <3>4. \A l \in Loans :
             /\ inflow'[l] # "none" => paid'[l]
             /\ received'[l] \/ disbursed'[l] > 0 => inflow'[l] = "matched"
             /\ status'[l] = "ACTIVE" => received'[l]
      BY <2>1
    <3> QED BY <3>3, <3>4
  <2>4. CASE Goto(d, "match") /\ At(d, "find")
    BY <2>1, <2>4
  <2> QED BY <2>2, <2>3, <2>4
<1>13. ASSUME NEW d \in Deliveries,
              SkipActivation(d) \/ ReadPending(d) \/ NotYetDisbursed(d)
       PROVE  Custody'
  BY <1>13 DEF SkipActivation, ReadPending, NotYetDisbursed
<1>14. CASE UNCHANGED vars
  BY <1>14 DEF vars
<1> QED
  BY <1>1, <1>2, <1>3, <1>4, <1>5, <1>6, <1>7, <1>8, <1>9, <1>10, <1>11, <1>12, <1>13,
     <1>14 DEF Next, Handle

\* Every step keeps one disbursement per event.
LEMMA StepSingle ==
    ASSUME IInv, [Next]_vars
    PROVE  Single'
<1> USE DEF IInv, TypeOK, EventHeld, Single, OneDisbursementPerEvent, At, Goto, Finish,
        loanVars, invoiceVars, handlerVars, payoutVars
<1>1. ASSUME NEW l \in Loans,
             \/ \E u \in Users : CheckoutCount(u, l)
             \/ CheckoutCreate(l) \/ CheckoutConflict(l) \/ IssueInvoice(l)
             \/ InvoiceFails(l) \/ LapseInvoice(l) \/ PayInvoice(l) \/ CancelRead(l)
             \/ CancelWrite(l) \/ Expire(l) \/ ExpireFails(l)
      PROVE  Single'
  <2>1. UNCHANGED <<pc, event, disbursed, raced>>
    BY <1>1 DEF CheckoutCount, CheckoutCreate, CheckoutConflict, IssueInvoice,
       InvoiceFails, LapseInvoice, PayInvoice, CancelRead, CancelWrite, Expire, ExpireFails
  <2> QED BY <2>1
<1>2. CASE Sweep \/ UNCHANGED vars
  BY <1>2 DEF Sweep, vars
<1>3. ASSUME NEW d \in Deliveries, NEW l \in Loans, Receive(d, l) PROVE Single'
  <2>1. event[d] = "none" /\ event' = [event EXCEPT ![d] = l]
    BY <1>3 DEF Receive
  <2>2. l \in Overlapping \/ \A e \in Deliveries : event[e] # l
    BY <1>3 DEF Receive, Handling
  <2>3. pc' = [pc EXCEPT ![d] = "find"] /\ UNCHANGED <<disbursed, raced>>
    BY <1>3 DEF Receive
  <2> QED BY <2>1, <2>2, <2>3
<1>4. ASSUME NEW d \in Deliveries, Ignore(d) \/ AlreadyDisbursed(d) \/ Dispatch(d)
                                   \/ HandlerFails(d)
      PROVE  Single'
  <2>1. Finish(d) /\ UNCHANGED <<disbursed, raced>>
    BY <1>4 DEF Ignore, AlreadyDisbursed, Dispatch, HandlerFails
  <2> QED BY <2>1, OriginationAssumption
<1>5. ASSUME NEW d \in Deliveries,
             \/ FindPending(d) \/ MatchInflow(d) \/ SkipActivation(d)
             \/ ReadPending(d) \/ Activate(d)
      PROVE  Single'
  <2>1. /\ UNCHANGED <<event, disbursed, raced>>
        /\ \E step \in HandlerSteps \ {"create"} : pc' = [pc EXCEPT ![d] = step]
    BY <1>5 DEF FindPending, MatchInflow, SkipActivation, ReadPending, Activate, HandlerSteps
  <2> QED BY <2>1
<1>6. ASSUME NEW d \in Deliveries, NotYetDisbursed(d) PROVE Single'
  <2>1. event[d] \in Loans /\ disbursed[event[d]] = 0 /\ UNCHANGED <<event, disbursed>>
    BY <1>6 DEF NotYetDisbursed, ExistsForLoan
  <2>2. pc' = [pc EXCEPT ![d] = "create"] /\ pc[d] = "exists"
    BY <1>6 DEF NotYetDisbursed
  <2>3. /\ raced \subseteq raced' /\ raced' \subseteq raced \cup {event[d]}
        /\ (\E e \in Deliveries : At(e, "create") /\ event[e] = event[d])
              => event[d] \in raced'
    BY <1>6 DEF NotYetDisbursed
  <2>4. event[d] \in raced' \ raced => event[d] \in Overlapping
    <3>1. PICK e \in Deliveries : event[d] \in raced' \ raced =>
             pc[e] = "create" /\ event[e] = event[d]
      BY <1>6 DEF NotYetDisbursed
    <3> QED BY <2>1, <2>2, <3>1
  <2>5. raced' \subseteq Overlapping
    BY <2>3, <2>4
  <2>6. \A b, c \in Deliveries :
           pc'[b] = "create" /\ pc'[c] = "create" /\ event[b] = event[c]
             /\ event[b] \notin raced' => b = c
    BY <2>2, <2>3
  <2>7. \A b \in Deliveries :
           pc'[b] = "create" /\ event[b] \notin raced' => disbursed[event[b]] = 0
    BY <2>1, <2>2, <2>3
  <2>8. \A l \in Loans \ raced' : disbursed[l] <= 1
    BY <2>3
  <2> QED BY <2>1, <2>5, <2>6, <2>7, <2>8
<1>7. ASSUME NEW d \in Deliveries, CreateForLoan(d) PROVE Single'
  <2>1. PICK l \in Loans : l = event[d]
    BY <1>7 DEF CreateForLoan
  <2>2. /\ pc[d] = "create" /\ pc' = [pc EXCEPT ![d] = "dispatch"]
        /\ disbursed' = [disbursed EXCEPT ![l] = disbursed[l] + 1]
        /\ UNCHANGED <<event, raced>>
    BY <1>7, <2>1 DEF CreateForLoan
  <2> QED BY <2>1, <2>2
<1> QED BY <1>1, <1>2, <1>3, <1>4, <1>5, <1>6, <1>7 DEF Next, Handle

\* Only CheckoutCreate makes a loan pending, behind the unique index.
LEMMA StepOnePending ==
    ASSUME IInv, [Next]_vars
    PROVE  OnePendingPerUser'
<1> USE DEF IInv, TypeOK, EventHeld, OnePendingPerUser, At,
        loanVars, invoiceVars, handlerVars, payoutVars
<1>1. ASSUME NEW u \in Users, NEW l \in Loans, CheckoutCount(u, l) PROVE OnePendingPerUser'
  BY <1>1 DEF CheckoutCount, Lifecycle
<1>2. ASSUME NEW l \in Loans, CheckoutCreate(l) PROVE OnePendingPerUser'
  BY <1>2 DEF CheckoutCreate, IndexAdmits, HasPending
<1>3. ASSUME NEW l \in Loans, CancelWrite(l) \/ Expire(l) PROVE OnePendingPerUser'
  <2>1. \A k \in Loans : status'[k] = "PENDING_COLLATERAL" => status[k] = "PENDING_COLLATERAL"
    BY <1>3 DEF CancelWrite, Transition, Expire, ExpireLoan
  <2>2. UNCHANGED owner
    BY <1>3 DEF CancelWrite, Expire
  <2> QED BY <2>1, <2>2
<1>4. ASSUME NEW d \in Deliveries, Activate(d) PROVE OnePendingPerUser'
  <2>1. \A k \in Loans : status'[k] = "PENDING_COLLATERAL" => status[k] = "PENDING_COLLATERAL"
    BY <1>4 DEF Activate, Transition
  <2>2. UNCHANGED owner
    BY <1>4 DEF Activate
  <2> QED BY <2>1, <2>2
<1>5. CASE UNCHANGED <<status, owner>>
  BY <1>5
<1> QED
  BY <1>1, <1>2, <1>3, <1>4, <1>5
  DEF Next, Handle, CheckoutConflict, IssueInvoice, InvoiceFails, LapseInvoice, PayInvoice,
      CancelRead, ExpireFails, Sweep, Receive, Ignore, FindPending, MatchInflow,
      SkipActivation, ReadPending, AlreadyDisbursed, NotYetDisbursed, CreateForLoan,
      Dispatch, HandlerFails, vars

\* Appending a legal row whose target is the new status keeps a trail whole.
LEMMA TrailExtends ==
    ASSUME NEW rows \in Seq(LogRow), NEW s \in Statuses, NEW from \in Statuses,
           NEW to \in Statuses, NEW reason \in Reasons,
           TrailOK(s, rows), Legal(from, to, reason)
    PROVE  TrailOK(to, Append(rows, [from |-> from, to |-> to, reason |-> reason]))
<1> DEFINE row == [from |-> from, to |-> to, reason |-> reason]
           longer == Append(rows, row)
<1>1. s # "NONE" /\ to # "NONE" /\ from # "NONE"
  BY DEF Statuses
<1>2. /\ Len(rows) \in Nat /\ Len(rows) > 0
      /\ Len(longer) = Len(rows) + 1
      /\ longer[Len(longer)] = row
      /\ \A i \in 1 .. Len(rows) : longer[i] = rows[i]
  BY <1>1, RowType DEF TrailOK
<1>3. \A i \in 2 .. Len(longer) :
         longer[i].from # "NONE" /\ Legal(longer[i].from, longer[i].to, longer[i].reason)
  <2> TAKE i \in 2 .. Len(longer)
  <2>1. CASE i \in 2 .. Len(rows)
    BY <1>1, <1>2, <2>1 DEF TrailOK
  <2>2. CASE i = Len(longer)
    BY <1>1, <1>2, <2>2
  <2> QED BY <1>2, <2>1, <2>2
<1> HIDE DEF longer
<1> QED BY <1>1, <1>2, <1>3 DEF TrailOK, longer

\* Every step logs the transition it makes.
LEMMA StepAuditTrail ==
    ASSUME IInv, [Next]_vars
    PROVE  AuditTrailComplete'
<1>0. /\ status \in [Loans -> Statuses \cup {"NONE"}]
      /\ log \in [Loans -> Seq(LogRow)]
      /\ \A l \in Loans : TrailOK(status[l], log[l])
      /\ event \in [Deliveries -> Loans \cup {"none"}]
      /\ EventHeld /\ Lifecycle /\ Custody
  BY DEF IInv, TypeOK, AuditTrailComplete
<1>1. ASSUME NEW l \in Loans, CheckoutCreate(l) PROVE AuditTrailComplete'
  <2> DEFINE row == [from |-> "NONE", to |-> "PENDING_COLLATERAL", reason |-> "LOAN_CREATED"]
  <2>1. log[l] = << >>
    BY <1>0, <1>1 DEF CheckoutCreate, Lifecycle, TrailOK
  <2>2. log'[l] = << row >> /\ status'[l] = "PENDING_COLLATERAL"
    BY <1>0, <1>1, <2>1 DEF CheckoutCreate, Record
  <2>3. TrailOK(status'[l], log'[l])
    BY <2>2 DEF TrailOK
  <2>4. \A k \in Loans \ {l} : status'[k] = status[k] /\ log'[k] = log[k]
    BY <1>0, <1>1 DEF CheckoutCreate, Record
  <2> QED BY <1>0, <2>3, <2>4 DEF AuditTrailComplete
<1>2. ASSUME NEW l \in Loans, NEW to \in Statuses, NEW reason \in Reasons,
             status[l] # "NONE", Legal("PENDING_COLLATERAL", to, reason),
             status' = [status EXCEPT ![l] = to],
             Record(l, "PENDING_COLLATERAL", to, reason)
      PROVE  AuditTrailComplete'
  <2>1. TrailOK(to, Append(log[l],
            [from |-> "PENDING_COLLATERAL", to |-> to, reason |-> reason]))
    <3>1. log[l] \in Seq(LogRow) /\ status[l] \in Statuses /\ TrailOK(status[l], log[l])
      BY <1>0, <1>2
    <3>2. "PENDING_COLLATERAL" \in Statuses
      BY DEF Statuses
    <3> QED BY <1>2, <3>1, <3>2, TrailExtends
  <2>2. TrailOK(status'[l], log'[l])
    BY <1>0, <1>2, <2>1 DEF Record
  <2>3. \A k \in Loans \ {l} : status'[k] = status[k] /\ log'[k] = log[k]
    BY <1>0, <1>2 DEF Record
  <2> QED BY <1>0, <2>2, <2>3 DEF AuditTrailComplete
<1>3. ASSUME NEW l \in Loans, CancelWrite(l) PROVE AuditTrailComplete'
  BY <1>0, <1>2, <1>3 DEF CancelWrite, Transition, Lifecycle, Statuses, Reasons
<1>4. ASSUME NEW l \in Loans, Expire(l) PROVE AuditTrailComplete'
  <2>1. Legal("PENDING_COLLATERAL", "EXPIRED", "INVOICE_EXPIRED")
    BY DEF Legal, VALID_TRANSITIONS, Statuses
  <2>2. status[l] # "NONE"
    BY <1>0, <1>4 DEF Expire, Lifecycle
  <2> QED BY <1>2, <1>4, <2>1, <2>2 DEF Expire, ExpireLoan, Statuses, Reasons
<1>5. ASSUME NEW d \in Deliveries, Activate(d) PROVE AuditTrailComplete'
  <2>1. event[d] \in Loans /\ inflow[event[d]] # "none"
    BY <1>0, <1>5 DEF Activate, EventHeld, Custody, At
  <2>2. status[event[d]] # "NONE"
    BY <1>0, <2>1 DEF Custody, Lifecycle
  <2> QED BY <1>2, <1>5, <2>1, <2>2 DEF Activate, Transition, Statuses, Reasons
<1>6. CASE UNCHANGED <<status, log>>
  BY <1>0, <1>6 DEF AuditTrailComplete
<1> QED
  BY <1>1, <1>3, <1>4, <1>5, <1>6
  DEF Next, Handle, CheckoutCount, CheckoutConflict, IssueInvoice, InvoiceFails,
      LapseInvoice, PayInvoice, CancelRead, ExpireFails, Sweep, Receive, Ignore,
      FindPending, MatchInflow, SkipActivation, ReadPending, AlreadyDisbursed,
      NotYetDisbursed, CreateForLoan, Dispatch, HandlerFails, vars,
      loanVars, invoiceVars, payoutVars, handlerVars

\* Every step keeps the inductive invariant.
LEMMA StepIInv == IInv /\ [Next]_vars => IInv'
BY StepTypeOK, StepLifecycle, StepCustody, StepSingle, StepOnePending, StepAuditTrail
   DEF IInv

\* It always holds.
LEMMA Invariance == Spec => []IInv
BY InitIInv, StepIInv, PTL DEF Spec

-----------------------------------------------------------------------------
(* What the invariant shows of the code *)

\* The unique index keeps the promise the count pre-check cannot.
THEOREM OnePending == Spec => []OnePendingPerUser
BY Invariance, PTL DEF IInv

\* A loan is ACTIVE only with its own collateral in custody.
THEOREM ActiveCollateralised == Spec => []ActiveMeansCollateralised
<1>1. IInv => ActiveMeansCollateralised
  BY DEF IInv, Custody, ActiveMeansCollateralised
<1> QED BY <1>1, Invariance, PTL

\* No disbursement without the loan's own collateral.
THEOREM CollateralFirst == Spec => []DisbursedOnlyAgainstCollateral
<1>1. IInv => DisbursedOnlyAgainstCollateral
  BY DEF IInv, TypeOK, Custody, Lifecycle, DisbursedOnlyAgainstCollateral
<1> QED BY <1>1, Invariance, PTL

\* One disbursement per loan, through any sequence of failures and overlapping
\* redeliveries, unless two requests raced from existsForLoan to createForLoan.
THEOREM OneDisbursement == Spec => []OneDisbursementPerEvent
BY Invariance, PTL DEF IInv, Single

\* The audit trail of every loan is complete and legal.
THEOREM AuditTrail == Spec => []AuditTrailComplete
BY Invariance, PTL DEF IInv

-----------------------------------------------------------------------------
(* Refinement: checkout's insert opens a loan, matchInflow's first success *)
(* secures it, createForLoan pays it out, and every other step stutters.   *)

Opened  == {l \in Loans : status[l] # "NONE"}
Secured == {l \in Loans : inflow[l] = "matched"}

\* Every step is one of the promise, or none of its steps.
LEMMA StepPromise ==
    ASSUME IInv, [Next]_vars
    PROVE  Promise!Next \/ UNCHANGED <<Opened, Secured, disbursed>>
<1> USE DEF IInv, TypeOK, Opened, Secured
<1>1. ASSUME NEW l \in Loans, CheckoutCreate(l) PROVE Promise!Next
  <2>1. Promise!Open(l)
    BY <1>1 DEF CheckoutCreate, Lifecycle, payoutVars, Promise!Open
  <2> QED BY <2>1 DEF Promise!Next
<1>2. ASSUME NEW d \in Deliveries, MatchInflow(d)
      PROVE  Promise!Next \/ UNCHANGED <<Opened, Secured, disbursed>>
  <2>1. PICK l \in Loans : l = event[d] /\ inflow[l] # "none"
    BY <1>2 DEF MatchInflow, EventHeld, Custody, At
  <2>2. status[l] # "NONE"
    BY <2>1 DEF Custody, Lifecycle
  <2>3. UNCHANGED <<status, disbursed>> /\ inflow' = [inflow EXCEPT ![l] = "matched"]
    BY <1>2, <2>1 DEF MatchInflow, loanVars, payoutVars
  <2>4. CASE inflow[l] = "matched"
    BY <2>3, <2>4
  <2>5. CASE inflow[l] # "matched"
    <3>1. Promise!Secure(l)
      BY <2>2, <2>3, <2>5 DEF Promise!Secure
    <3> QED BY <3>1 DEF Promise!Next
  <2> QED BY <2>4, <2>5
<1>3. ASSUME NEW d \in Deliveries, CreateForLoan(d) PROVE Promise!Next
  <2>1. PICK l \in Loans : l = event[d] /\ inflow[l] = "matched"
    BY <1>3 DEF CreateForLoan, EventHeld, Custody, AfterMatch, At
  <2>2. disbursed[l] = 0 \/ l \in Overlapping
    BY <1>3, <2>1 DEF CreateForLoan, Single
  <2>3. Promise!PayOut(l)
    BY <1>3, <2>1, <2>2 DEF CreateForLoan, loanVars, Promise!PayOut
  <2> QED BY <2>3 DEF Promise!Next
<1>4. ASSUME NEW l \in Loans, CancelWrite(l) \/ Expire(l)
      PROVE  UNCHANGED <<Opened, Secured, disbursed>>
  <2>1. /\ status[l] # "NONE" /\ UNCHANGED <<inflow, disbursed>>
        /\ \E to \in Statuses : status' = [status EXCEPT ![l] = to]
    BY <1>4 DEF CancelWrite, Expire, ExpireLoan, Transition, Lifecycle, Statuses, payoutVars
  <2> QED BY <2>1 DEF Statuses
<1>5. ASSUME NEW d \in Deliveries, Activate(d)
      PROVE  UNCHANGED <<Opened, Secured, disbursed>>
  <2>1. event[d] \in Loans /\ inflow[event[d]] # "none"
    BY <1>5 DEF Activate, EventHeld, Custody, At
  <2>2. status[event[d]] # "NONE"
    BY <2>1 DEF Custody, Lifecycle
  <2>3. UNCHANGED <<inflow, disbursed>> /\ status' = [status EXCEPT ![event[d]] = "ACTIVE"]
    BY <1>5 DEF Activate, Transition, payoutVars
  <2> QED BY <2>1, <2>2, <2>3
<1>6. ASSUME NEW d \in Deliveries, NEW l \in Loans, Receive(d, l)
      PROVE  UNCHANGED <<Opened, Secured, disbursed>>
  BY <1>6 DEF Receive, loanVars, payoutVars
<1>7. CASE UNCHANGED <<status, inflow, disbursed>>
  BY <1>7
<1> QED
  BY <1>1, <1>2, <1>3, <1>4, <1>5, <1>6, <1>7
  DEF Next, Handle, CheckoutCount, CheckoutConflict, IssueInvoice, InvoiceFails,
      LapseInvoice, PayInvoice, CancelRead, ExpireFails, Sweep, Ignore, FindPending,
      SkipActivation, ReadPending, AlreadyDisbursed, NotYetDisbursed, Dispatch,
      HandlerFails, vars, loanVars, invoiceVars, payoutVars, handlerVars

\* The detailed protocol implements Funding: a loan is opened once, secured
\* once and after that, and paid out only when secured, once unless its
\* deliveries may overlap.
THEOREM Refinement == Spec => FundingPromise
<1>1. Init => Promise!Init
  BY DEF Init, Promise!Init
<1>2. IInv /\ [Next]_vars => [Promise!Next]_<<Opened, Secured, disbursed>>
  BY StepPromise
<1> QED BY <1>1, <1>2, Invariance, PTL DEF Spec, FundingPromise, Promise!Spec, Opened, Secured
=============================================================================
