------------------------------- MODULE Payout -------------------------------
(***************************************************************************)
(* The naira side of a loan: the disbursements created for it and the      *)
(* outflows (attempts) of each, from OutflowsService.dispatch to a settled *)
(* or held row.  Writers: the call that creates a disbursement, PalmPay's  *)
(* payout webhook, the outflow reconciler and four ops endpoints (retry,   *)
(* cancel, abandon attempt, recreate).                                     *)
(*                                                                         *)
(* None of them locks the rows it decided on: every call is split at its   *)
(* awaits, keeps what it read, and writes by id whatever the row is by     *)
(* then.  A call in progress is an entry of job.                           *)
(***************************************************************************)
EXTENDS Naturals, FiniteSets

CONSTANTS
    Disbursements,  \* disbursement ids the loan may get
    Requests,       \* webhook and ops requests that may be in progress at once
    Worker,         \* the outflow reconciler
    MaxAttempts,    \* bound: outflows per disbursement
    MaxFaults       \* bound: calls that fail or die half way

ASSUME PayoutAssumption ==
    /\ "none" \notin Disbursements
    /\ Worker \notin Requests
    /\ MaxAttempts \in Nat \ {0}
    /\ MaxFaults \in Nat

Attempts == 1 .. MaxAttempts
Outflows == Disbursements \X Attempts
Callers  == Requests \cup {Worker}

VARIABLES
    disbursement,   \* disbursements.status; "NONE" without a row
    alerted,        \* disbursements.on_hold_alerted_at is set
    outflow,        \* outflows.status; "NONE" without a row
    transfer,       \* the transfer under outflow's reference, at PalmPay
    job,            \* the call each caller is in
    queue,          \* outflows the reconciler selected and has still to probe
    faults,
    overlapped      \* history: disbursements on which two calls overlapped

rows == <<disbursement, alerted, outflow>>
vars == <<rows, transfer, job, queue, faults, overlapped>>

Steps == {"idle", "recreate", "dispatch", "create", "mark", "send", "sent", "fail",
          "hold", "page", "query", "succeed", "settle", "cancel"}

TypeOK ==
    /\ disbursement \in [Disbursements ->
          {"NONE", "PENDING", "PROCESSING", "ON_HOLD", "SUCCESSFUL", "CANCELLED"}]
    /\ alerted \in [Disbursements -> BOOLEAN]
    /\ outflow \in [Outflows -> {"NONE", "PENDING", "PROCESSING", "SUCCESSFUL", "FAILED"}]
    /\ transfer \in [Outflows -> {"none", "accepted", "paid", "rejected"}]
    /\ job \in [Callers -> [step : Steps, d : Disbursements \cup {"none"},
                            n : 0 .. MaxAttempts, rest : SUBSET Attempts]]
    /\ queue \subseteq Outflows
    /\ faults \in 0 .. MaxFaults
    /\ overlapped \subseteq Disbursements

Idle == [step |-> "idle", d |-> "none", n |-> 0, rest |-> {}]

Init ==
    /\ disbursement = [d \in Disbursements |-> "NONE"]
    /\ alerted = [d \in Disbursements |-> FALSE]
    /\ outflow = [o \in Outflows |-> "NONE"]
    /\ transfer = [o \in Outflows |-> "none"]
    /\ job = [p \in Callers |-> Idle]
    /\ queue = {}
    /\ faults = 0
    /\ overlapped = {}

-----------------------------------------------------------------------------

At(p, step)   == job[p].step = step
Goto(p, step) == job' = [job EXCEPT ![p].step = step]
Start(p, step, d, n) ==
    job' = [job EXCEPT ![p] = [step |-> step, d |-> d, n |-> n, rest |-> {}]]
Finish(p)     == job' = [job EXCEPT ![p] = Idle]

Target(p) == <<job[p].d, job[p].n>>         \* the outflow p is working on

Made(d)   == {n \in Attempts : outflow[<<d, n>>] # "NONE"}
Active(d) == {n \in Attempts : outflow[<<d, n>>] \in {"PENDING", "PROCESSING"}}

\* Mutant: the attempt number is off by one.
NextAttempt_Skips(d) == Cardinality(Made(d)) + 2

NextAttempt(d) == Cardinality(Made(d)) + 1

Terminal == {"SUCCESSFUL", "CANCELLED"}

Busy(d) == \/ \E p \in Callers : job[p].d = d
           \/ \E o \in queue : o[1] = d

\* A new request about d begins.
Arrive(r, d) ==
    /\ At(r, "idle")
    /\ overlapped' = IF Busy(d) THEN overlapped \cup {d} ELSE overlapped

-----------------------------------------------------------------------------
(* DisbursementsService.createForLoan, then OutflowsService.dispatch.      *)

\* The collateral webhook creates the loan's first disbursement.
CreateForLoan(r, d) ==
    /\ Arrive(r, d)
    /\ \A e \in Disbursements : disbursement[e] = "NONE"
    /\ disbursement' = [disbursement EXCEPT ![d] = "PENDING"]
    /\ Start(r, "dispatch", d, 0)
    /\ UNCHANGED <<alerted, outflow, transfer, queue, faults>>

\* recreateForActiveLoan: the loan is ACTIVE and no disbursement of it blocks;
\* the row is inserted after the audit row's transaction.
RecreateRead(r) ==
    /\ At(r, "idle")
    /\ \E e \in Disbursements : disbursement[e] # "NONE"
    /\ Cardinality({p \in Callers : At(p, "recreate")})
          < Cardinality({e \in Disbursements : disbursement[e] = "NONE"})
    /\ \A e \in Disbursements : disbursement[e] \in {"NONE"} \cup Terminal
    /\ Goto(r, "recreate")
    /\ UNCHANGED <<rows, transfer, queue, faults, overlapped>>

Recreate(r, d) ==
    /\ At(r, "recreate") /\ disbursement[d] = "NONE"
    /\ disbursement' = [disbursement EXCEPT ![d] = "PENDING"]
    /\ Start(r, "dispatch", d, 0)
    /\ UNCHANGED <<alerted, outflow, transfer, queue, faults, overlapped>>

\* dispatch: skips what is terminal or has an active outflow, else numbers
\* the attempt by the rows it read.
DispatchSkips(p) ==
    /\ At(p, "dispatch")
    /\ disbursement[job[p].d] \in Terminal \/ Active(job[p].d) # {}
    /\ Finish(p)
    /\ UNCHANGED <<rows, transfer, queue, faults, overlapped>>

DispatchReads(p) ==
    /\ At(p, "dispatch")
    /\ disbursement[job[p].d] \notin Terminal /\ Active(job[p].d) = {}
    /\ Start(p, "create", job[p].d, NextAttempt(job[p].d))
    /\ UNCHANGED <<rows, transfer, queue, faults, overlapped>>

\* Mutant: ops may retry whatever the disbursement's status is.
Retriable_Any(d) == disbursement[d] # "NONE"

Retriable(d) == disbursement[d] = "ON_HOLD"

\* retryDispatch asks only for ON_HOLD, not for active outflows.
Retry(r, d) ==
    /\ Arrive(r, d) /\ Retriable(d)
    /\ Cardinality(Made(d)) < MaxAttempts
    /\ Start(r, "create", d, NextAttempt(d))
    /\ UNCHANGED <<rows, transfer, queue, faults>>

-----------------------------------------------------------------------------
(* _executeDispatch *)

\* Mutant: provider_reference carries no unique index.
ReferenceFree_NoIndex(o) == TRUE

ReferenceFree(o) == outflow[o] = "NONE"

CreateOutflow(p) ==
    /\ At(p, "create") /\ ReferenceFree(Target(p))
    /\ outflow' = [outflow EXCEPT ![Target(p)] = "PENDING"]
    /\ Goto(p, "mark")
    /\ UNCHANGED <<disbursement, alerted, transfer, queue, faults, overlapped>>

\* P2002 on provider_reference: the call throws.
CreateConflicts(p) ==
    /\ At(p, "create") /\ ~ReferenceFree(Target(p))
    /\ Finish(p)
    /\ UNCHANGED <<rows, transfer, queue, faults, overlapped>>

MarkProcessing(p) ==
    /\ At(p, "mark")
    /\ disbursement' = [disbursement EXCEPT ![job[p].d] = "PROCESSING"]
    /\ alerted' = [alerted EXCEPT ![job[p].d] = FALSE]
    /\ Goto(p, "send")
    /\ UNCHANGED <<outflow, transfer, queue, faults, overlapped>>

\* initiateTransfer: accepted and answered; accepted although the call throws
\* (a lost answer, or the update after it failing); or refused.
Initiate(p) ==
    /\ At(p, "send")
    /\ \/ transfer' = [transfer EXCEPT ![Target(p)] = "accepted"] /\ Goto(p, "sent")
       \/ transfer' = [transfer EXCEPT ![Target(p)] = "accepted"] /\ Goto(p, "fail")
       \/ UNCHANGED transfer /\ Goto(p, "fail")
    /\ UNCHANGED <<rows, queue, faults, overlapped>>

RecordSent(p) ==
    /\ At(p, "sent")
    /\ outflow' = [outflow EXCEPT ![Target(p)] = "PROCESSING"]
    /\ Finish(p)
    /\ UNCHANGED <<disbursement, alerted, transfer, queue, faults, overlapped>>

-----------------------------------------------------------------------------
(* handleFailure, also the catch of _executeDispatch *)

RecordFailure(p) ==
    /\ At(p, "fail")
    /\ outflow' = [outflow EXCEPT ![Target(p)] = "FAILED"]
    /\ Goto(p, "hold")
    /\ UNCHANGED <<disbursement, alerted, transfer, queue, faults, overlapped>>

\* The next outflow of an abandon, or the end of the call.
NextFailure(p) ==
    IF job[p].rest = {} THEN Finish(p)
    ELSE \E n \in job[p].rest :
            job' = [job EXCEPT ![p] = [step |-> "fail", d |-> job[p].d, n |-> n,
                                       rest |-> job[p].rest \ {n}]]

\* markOnHold: the conditional update decides who pages ops.
MarkOnHold(p) ==
    /\ At(p, "hold")
    /\ disbursement[job[p].d] # "ON_HOLD"
    /\ disbursement' = [disbursement EXCEPT ![job[p].d] = "ON_HOLD"]
    /\ Goto(p, "page")
    /\ UNCHANGED <<alerted, outflow, transfer, queue, faults, overlapped>>

AlreadyOnHold(p) ==
    /\ At(p, "hold")
    /\ disbursement[job[p].d] = "ON_HOLD"
    /\ NextFailure(p)
    /\ UNCHANGED <<rows, transfer, queue, faults, overlapped>>

\* Mutant: the alert goes out and on_hold_alerted_at is not stamped.
MarkOnHoldAlerted_Forgotten(d) == UNCHANGED alerted

MarkOnHoldAlerted(d) == alerted' = [alerted EXCEPT ![d] = TRUE]

PageOps(p) ==
    /\ At(p, "page")
    /\ MarkOnHoldAlerted(job[p].d)
    /\ NextFailure(p)
    /\ UNCHANGED <<disbursement, outflow, transfer, queue, faults, overlapped>>

-----------------------------------------------------------------------------
(* handleSuccess *)

RecordSuccess(p) ==
    /\ At(p, "succeed")
    /\ outflow' = [outflow EXCEPT ![Target(p)] = "SUCCESSFUL"]
    /\ Goto(p, "settle")
    /\ UNCHANGED <<disbursement, alerted, transfer, queue, faults, overlapped>>

\* Mutant: handleSuccess settles the outflow alone.
MarkSuccessful_Forgotten(d) == UNCHANGED disbursement

MarkSuccessful(d) == disbursement' = [disbursement EXCEPT ![d] = "SUCCESSFUL"]

Settle(p) ==
    /\ At(p, "settle")
    /\ MarkSuccessful(job[p].d)
    /\ Finish(p)
    /\ UNCHANGED <<alerted, outflow, transfer, queue, faults, overlapped>>

-----------------------------------------------------------------------------
(* The payout webhook and the reconciler: both read a row that is not      *)
(* settled, ask PalmPay, and act on the answer.                            *)

\* A notification, at any time and any number of times, for a reference
\* PalmPay knows; one whose outflow is terminal is ignored.
Notify(r, o) ==
    /\ Arrive(r, o[1]) /\ transfer[o] # "none"
    /\ outflow[o] \in {"PENDING", "PROCESSING"}
    /\ Start(r, "query", o[1], o[2])
    /\ UNCHANGED <<rows, transfer, queue, faults>>

\* Mutant: the reconciler looks for rows still PENDING.
Stale_Pending == {o \in Outflows : outflow[o] = "PENDING"}

\* The row locks of the SELECT end with the statement; the age of a row is
\* abstracted, any PROCESSING row may be stale.
Stale == {o \in Outflows : outflow[o] = "PROCESSING"}

SelectStale ==
    /\ At(Worker, "idle") /\ queue = {} /\ Stale # {}
    /\ queue' = Stale
    /\ overlapped' = overlapped \cup {o[1] : o \in {x \in Stale : Busy(x[1])}}
    /\ UNCHANGED <<rows, transfer, job, faults>>

Probe(o) ==
    /\ At(Worker, "idle") /\ o \in queue
    /\ queue' = queue \ {o}
    /\ Start(Worker, "query", o[1], o[2])
    /\ UNCHANGED <<rows, transfer, faults, overlapped>>

\* Mutant: the handler trusts the notification and does not ask PalmPay.
Confirmed_Unasked(o) == TRUE

Confirmed(o) == transfer[o] = "paid"

\* getTransferStatus: successful, failed, or anything else: leave the row.
Query(p) ==
    /\ At(p, "query")
    /\ \/ Confirmed(Target(p)) /\ Goto(p, "succeed")
       \/ transfer[Target(p)] = "rejected" /\ Goto(p, "fail")
       \/ transfer[Target(p)] = "accepted" /\ Finish(p)
    /\ UNCHANGED <<rows, transfer, queue, faults, overlapped>>

-----------------------------------------------------------------------------
(* Ops *)

CancelRead(r, d) ==
    /\ Arrive(r, d) /\ disbursement[d] \notin {"NONE"} \cup Terminal
    /\ Start(r, "cancel", d, 0)
    /\ UNCHANGED <<rows, transfer, queue, faults>>

\* markCancelled, by id; the outflows stay as they are.
CancelWrite(p) ==
    /\ At(p, "cancel")
    /\ disbursement' = [disbursement EXCEPT ![job[p].d] = "CANCELLED"]
    /\ Finish(p)
    /\ UNCHANGED <<alerted, outflow, transfer, queue, faults, overlapped>>

AbandonAttempt(r, d) ==
    /\ Arrive(r, d) /\ disbursement[d] \notin {"NONE"} \cup Terminal
    /\ \E n \in Active(d) :
          job' = [job EXCEPT ![r] = [step |-> "fail", d |-> d, n |-> n,
                                     rest |-> Active(d) \ {n}]]
    /\ UNCHANGED <<rows, transfer, queue, faults>>

-----------------------------------------------------------------------------

\* PalmPay settles an accepted transfer.
Decide(o) ==
    /\ transfer[o] = "accepted"
    /\ \E result \in {"paid", "rejected"} : transfer' = [transfer EXCEPT ![o] = result]
    /\ UNCHANGED <<rows, job, queue, faults, overlapped>>

\* An await throws, or the process dies, between two steps of a call.
CallFails(p) ==
    /\ ~At(p, "idle") /\ faults < MaxFaults
    /\ faults' = faults + 1
    /\ Finish(p)
    /\ UNCHANGED <<rows, transfer, queue, overlapped>>

Step(p) ==
    \/ \E d \in Disbursements : Recreate(p, d)
    \/ DispatchSkips(p) \/ DispatchReads(p)
    \/ CreateOutflow(p) \/ CreateConflicts(p) \/ MarkProcessing(p) \/ Initiate(p)
    \/ RecordSent(p) \/ RecordFailure(p) \/ MarkOnHold(p) \/ AlreadyOnHold(p) \/ PageOps(p)
    \/ RecordSuccess(p) \/ Settle(p)
    \/ Query(p) \/ CancelWrite(p)

Next ==
    \/ \E r \in Requests, d \in Disbursements :
          CreateForLoan(r, d) \/ Retry(r, d) \/ CancelRead(r, d) \/ AbandonAttempt(r, d)
    \/ \E r \in Requests : RecreateRead(r)
    \/ \E r \in Requests, o \in Outflows : Notify(r, o)
    \/ SelectStale
    \/ \E o \in Outflows : Probe(o) \/ Decide(o)
    \/ \E p \in Callers : Step(p) \/ CallFails(p)

(***************************************************************************)
(* A call in progress runs on unless it fails; the reconciler polls for    *)
(* ever (setInterval); PalmPay settles what it accepted.  No notification  *)
(* is relied upon: the webhook acknowledges one it defers.                 *)
(***************************************************************************)
Fairness ==
    /\ \A p \in Callers : WF_vars(Step(p))
    /\ WF_vars(SelectStale)
    /\ WF_vars(\E o \in Outflows : Probe(o))
    /\ \A o \in Outflows : WF_vars(Decide(o))

Spec == Init /\ [][Next]_vars /\ Fairness

-----------------------------------------------------------------------------
(* Properties *)

\* The books never run ahead of the bank: a SUCCESSFUL outflow's own transfer
\* was paid, and a SUCCESSFUL disbursement has such an outflow, in whatever
\* order webhook, reconciler, dispatch and ops wrote.
BooksMatchProvider ==
    /\ \A o \in Outflows : outflow[o] = "SUCCESSFUL" => transfer[o] = "paid"
    /\ \A d \in Disbursements : disbursement[d] = "SUCCESSFUL" =>
          \E n \in Attempts : transfer[<<d, n>>] = "paid"

\* PalmPay never gets one reference twice, although two retries may count the
\* same attempts: of two calls past the insert of an outflow, no two share it,
\* and what a call is about to send was not sent (provider_reference @unique).
ReferenceUsedOnce ==
    \A p \in Callers : job[p].step \in {"mark", "send"} =>
        /\ transfer[Target(p)] = "none"
        /\ \A q \in Callers \ {p} :
              job[q].step \in {"mark", "send", "sent"} => Target(q) # Target(p)

\* Ops are paged for every disbursement that goes on hold, by the one writer
\* whose conditional update put it there, unless that call died
\* (markOnHold, is_first_transition).
HeldIsPaged ==
    faults = 0 => \A d \in Disbursements : disbursement[d] = "ON_HOLD" =>
        alerted[d] \/ \E p \in Callers : At(p, "page") /\ job[p].d = d

\* With no call in progress and none that failed, the status of a
\* disbursement whose calls never overlapped sums up its outflows: in flight
\* exactly one, held with all failed, successful with one paid and no more to
\* come (a retry only after a failure; dispatch and retry one attempt at a time).
DisbursementAgrees ==
    faults = 0 => \A d \in Disbursements \ overlapped : ~Busy(d) =>
        /\ disbursement[d] = "PROCESSING" => Cardinality(Active(d)) = 1
        /\ disbursement[d] = "ON_HOLD" =>
              Made(d) # {} /\ \A n \in Made(d) : outflow[<<d, n>>] = "FAILED"
        /\ disbursement[d] = "SUCCESSFUL" =>
              /\ Active(d) = {}
              /\ \E n \in Made(d) : outflow[<<d, n>>] = "SUCCESSFUL"
        /\ disbursement[d] = "CANCELLED" => Cardinality(Active(d)) <= 1

\* No PROCESSING outflow stays so for ever, webhooks or not: the reconciler
\* probes it until PalmPay has settled the transfer.
ProcessingResolves ==
    \A o \in Outflows :
        (outflow[o] = "PROCESSING" ~> outflow[o] # "PROCESSING")

\* A paid transfer whose outflow is PROCESSING reaches the books: its
\* disbursement becomes SUCCESSFUL, unless ops abandoned the attempt or a
\* call died between the two updates of handleSuccess.
PaidIsRecorded ==
    \A o \in Outflows :
        (transfer[o] = "paid" /\ outflow[o] = "PROCESSING" ~>
            disbursement[o[1]] = "SUCCESSFUL" \/ outflow[o] = "FAILED" \/ faults > 0)
=============================================================================
