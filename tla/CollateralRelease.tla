-------------------------- MODULE CollateralRelease --------------------------
(***************************************************************************)
(* The SAT going back: CollateralReleaseService.releaseForLoan under its   *)
(* Redis lock, called by the release cycle and by requests (the hand-off   *)
(* of creditInflow, the ops endpoint), and setReleaseAddress beside it.    *)
(*                                                                         *)
(* releaseForLoan is split at its awaits.  Its lock holds no owner: it is  *)
(* a key that is set if absent, expires, and is deleted by whoever ends.   *)
(* A send is what Blink accepted, the status PENDING included, as in       *)
(* blink.provider.ts.  The sweep that may overwrite REPAID is Repayment's. *)
(***************************************************************************)
EXTENDS LoanStatus, FiniteSets

CONSTANTS
    Addresses,      \* Lightning addresses
    Workers,        \* release cycles; setInterval does not wait for the last one
    Requests,       \* hand-offs and ops requests; each makes one call
    Limit,          \* MAX_LOANS_PER_CYCLE
    MaxFaults       \* bound: failures of the database, Redis, the network, a process

ASSUME ReleaseAssumption ==
    /\ "none" \notin Addresses \cup Loans
    /\ Workers \cap Requests = {}
    /\ Limit \in Nat \ {0}
    /\ MaxFaults \in Nat

Callers == Workers \cup Requests

VARIABLES
    address,        \* collateral_release_address
    released,       \* which send collateral_release_reference names; 0: no stamp
    repaid,         \* REPAID loans in the order of repaid_at
    sends,          \* what Blink accepted for each loan
    locked,         \* loans whose lock key exists
    alerted,        \* loans whose alert dedupe key exists
    paged,          \* loans ops were paged about since that key was last cleared
    critical,       \* loans with a SEND_OK_STAMP_FAILED page
    job,            \* the call each caller is in
    cycle,          \* loans a cycle selected and has not called yet
    change,         \* the setReleaseAddress request of each loan's customer
    faults,
    overrun,        \* history: loans whose lock expired under a call
    silent          \* history: loans with a send, or an alert, its call never told of

rowVars  == <<status, log, address, released, repaid>>
keyVars  == <<locked, alerted>>
pageVars == <<paged, critical>>
ghosts   == <<overrun, silent>>
vars == <<rowVars, keyVars, pageVars, ghosts, sends, job, cycle, change, faults>>

NoLoan == "none"
Idle == [step |-> "idle", l |-> NoLoan, to |-> "none", ref |-> 0]
Done == [Idle EXCEPT !.step = "done"]
NoChange == [to |-> "none", repaid |-> FALSE]

TypeOK ==
    /\ status \in [Loans -> {"ACTIVE", "REPAID"}]
    /\ log \in [Loans -> Seq(LogRow)]
    /\ address \in [Loans -> Addresses \cup {"none"}]
    /\ released \in [Loans -> Nat]
    /\ repaid \in Seq(Loans)
    /\ sends \in [Loans -> Seq(Addresses)]
    /\ locked \subseteq Loans /\ alerted \subseteq Loans
    /\ paged \subseteq Loans /\ critical \subseteq Loans
    /\ job \in [Callers ->
          [step : {"idle", "read", "send", "refused", "page", "stamp", "clear",
                   "critical", "unlock", "done"},
           l : Loans \cup {NoLoan}, to : Addresses \cup {"none"}, ref : Nat]]
    /\ cycle \in [Workers -> SUBSET Loans]
    /\ change \in [Loans -> [to : Addresses \cup {"none"}, repaid : BOOLEAN]]
    /\ faults \in 0 .. MaxFaults
    /\ overrun \subseteq Loans /\ silent \subseteq Loans

Init ==
    /\ status = [l \in Loans |-> "ACTIVE"]
    /\ log = [l \in Loans |-> << >>]
    /\ address = [l \in Loans |-> "none"]
    /\ released = [l \in Loans |-> 0]
    /\ repaid = << >>
    /\ sends = [l \in Loans |-> << >>]
    /\ locked = {} /\ alerted = {} /\ paged = {} /\ critical = {}
    /\ job = [c \in Callers |-> Idle]
    /\ cycle = [w \in Workers |-> {}]
    /\ change = [l \in Loans |-> NoChange]
    /\ faults = 0
    /\ overrun = {} /\ silent = {}

-----------------------------------------------------------------------------
(* The loan is repaid; the customer sets or changes the address            *)

\* creditInflow; the release it hands off is one of Requests.
Repay(l) ==
    /\ status[l] = "ACTIVE"
    /\ Transition(l, "ACTIVE", "REPAID", "REPAYMENT_COMPLETED")
    /\ repaid' = Append(repaid, l)
    /\ UNCHANGED <<address, released, keyVars, pageVars, ghosts, sends, job, cycle,
                   change, faults>>

\* setReleaseAddress reads the loan, then verifies codes.
ChangeRead(l, a) ==
    /\ change[l] = NoChange /\ released[l] = 0
    /\ change' = [change EXCEPT ![l] = [to |-> a, repaid |-> status[l] = "REPAID"]]
    /\ UNCHANGED <<rowVars, keyVars, pageVars, ghosts, sends, job, cycle, faults>>

\* Then it writes by id.
ChangeWrite(l) ==
    /\ change[l] # NoChange
    /\ address' = [address EXCEPT ![l] = change[l].to]
    /\ IF change[l].repaid
       THEN alerted' = alerted \ {l} /\ paged' = paged \ {l}
       ELSE UNCHANGED <<alerted, paged>>
    /\ change' = [change EXCEPT ![l] = NoChange]
    /\ UNCHANGED <<status, log, released, repaid, locked, critical, ghosts, sends, job,
                   cycle, faults>>

-----------------------------------------------------------------------------
(* runCollateralReleaseCycle *)

\* Mutant: the address is not looked at.
Eligible_NoAddress(l) == released[l] = 0 /\ status[l] = "REPAID"

Eligible(l) == released[l] = 0 /\ address[l] # "none" /\ status[l] = "REPAID"

\* The loans at the first Limit of these positions of repaid.
First(positions) ==
    {repaid[n] : n \in {m \in positions : Cardinality({k \in positions : k <= m}) <= Limit}}

\* Mutant: the limit is applied before the filter.
Batch_Unfiltered == First(DOMAIN repaid)

\* The Limit eligible loans that were repaid first.
Batch == First({n \in DOMAIN repaid : Eligible(repaid[n])})

Select(w) ==
    /\ job[w] = Idle /\ cycle[w] = {} /\ Batch # {}
    /\ cycle' = [cycle EXCEPT ![w] = Batch]
    /\ UNCHANGED <<rowVars, keyVars, pageVars, ghosts, sends, job, change, faults>>

-----------------------------------------------------------------------------
(* releaseForLoan, one action per await *)

At(c, step)   == job[c].step = step
Goto(c, step) == job' = [job EXCEPT ![c].step = step]
End(c)        == job' = [job EXCEPT ![c] = IF c \in Workers THEN Idle ELSE Done]
Fault         == faults < MaxFaults /\ faults' = faults + 1

\* A cycle calls for what it selected, a request for any loan.
Calls(c, l) == job[c] = Idle /\ (c \in Workers => l \in cycle[c])
Called(c, l) ==
    cycle' = IF c \in Workers THEN [cycle EXCEPT ![c] = @ \ {l}] ELSE cycle

\* Mutant: SET without NX.
LockFree_Always(l) == TRUE

LockFree(l) == l \notin locked

TakeLock(c, l) ==
    /\ Calls(c, l) /\ LockFree(l)
    /\ locked' = locked \cup {l}
    /\ job' = [job EXCEPT ![c] = [step |-> "read", l |-> l, to |-> "none", ref |-> 0]]
    /\ Called(c, l)
    /\ UNCHANGED <<rowVars, alerted, pageVars, ghosts, sends, change, faults>>

\* in_flight
BackOff(c, l) ==
    /\ Calls(c, l) /\ ~LockFree(l)
    /\ End(c)
    /\ Called(c, l)
    /\ UNCHANGED <<rowVars, keyVars, pageVars, ghosts, sends, change, faults>>

\* not_eligible and already_released go straight to the finally.
Read(c) ==
    /\ At(c, "read")
    /\ IF Eligible(job[c].l)
       THEN job' = [job EXCEPT ![c].step = "send", ![c].to = address[job[c].l]]
       ELSE Goto(c, "unlock")
    /\ UNCHANGED <<rowVars, keyVars, pageVars, ghosts, sends, cycle, change, faults>>

Send(c) == sends' = [sends EXCEPT ![job[c].l] = Append(@, job[c].to)]

\* sendToLightningAddress: accepted, refused, or accepted with the answer lost.
Accepted(c) ==
    /\ At(c, "send")
    /\ Send(c)
    /\ job' = [job EXCEPT ![c].step = "stamp", ![c].ref = Len(sends[job[c].l]) + 1]
    /\ UNCHANGED <<rowVars, keyVars, pageVars, ghosts, cycle, change, faults>>

Refused(c) ==
    /\ At(c, "send")
    /\ Goto(c, "refused")
    /\ UNCHANGED <<rowVars, keyVars, pageVars, ghosts, sends, cycle, change, faults>>

AnswerLost(c) ==
    /\ At(c, "send") /\ Fault
    /\ Send(c)
    /\ silent' = silent \cup {job[c].l}
    /\ Goto(c, "refused")
    /\ UNCHANGED <<rowVars, keyVars, pageVars, overrun, cycle, change>>

\* Mutant: the answer of SET NX is read the wrong way round.
Dedupe_Inverted(c) ==
    /\ At(c, "refused")
    /\ alerted' = alerted \cup {job[c].l}
    /\ Goto(c, IF job[c].l \in alerted THEN "page" ELSE "unlock")
    /\ UNCHANGED <<rowVars, locked, pageVars, ghosts, sends, cycle, change, faults>>

\* _maybeAlertOps: SET NX of the dedupe key, then the page.
Dedupe(c) ==
    /\ At(c, "refused")
    /\ alerted' = alerted \cup {job[c].l}
    /\ Goto(c, IF job[c].l \in alerted THEN "unlock" ELSE "page")
    /\ UNCHANGED <<rowVars, locked, pageVars, ghosts, sends, cycle, change, faults>>

Page(c) ==
    /\ At(c, "page")
    /\ paged' = paged \cup {job[c].l}
    /\ Goto(c, "unlock")
    /\ UNCHANGED <<rowVars, keyVars, critical, ghosts, sends, cycle, change, faults>>

\* Mutant: updateMany without collateral_released_at: null.
Unstamped_Always(l) == TRUE

Unstamped(l) == released[l] = 0

\* The transaction of the stamp and its log row.
Stamp(c) ==
    /\ At(c, "stamp") /\ Unstamped(job[c].l)
    /\ released' = [released EXCEPT ![job[c].l] = job[c].ref]
    /\ Transition(job[c].l, "REPAID", "REPAID", "COLLATERAL_RELEASED")
    /\ Goto(c, "clear")
    /\ UNCHANGED <<address, repaid, keyVars, pageVars, ghosts, sends, cycle, change, faults>>

AlreadyStamped(c) ==
    /\ At(c, "stamp") /\ ~Unstamped(job[c].l)
    /\ Goto(c, "critical")
    /\ UNCHANGED <<rowVars, keyVars, pageVars, ghosts, sends, cycle, change, faults>>

\* One catch for the transaction and for the del of the dedupe key after it.
AfterSendFails(c) ==
    /\ At(c, "stamp") \/ At(c, "clear")
    /\ Fault
    /\ Goto(c, "critical")
    /\ UNCHANGED <<rowVars, keyVars, pageVars, ghosts, sends, cycle, change>>

\* Mutant: a failure after the send ends the call like any other.
PageCritical_Forgotten(c) ==
    /\ At(c, "critical")
    /\ Goto(c, "unlock")
    /\ UNCHANGED <<rowVars, keyVars, pageVars, ghosts, sends, cycle, change, faults>>

PageCritical(c) ==
    /\ At(c, "critical")
    /\ critical' = critical \cup {job[c].l}
    /\ Goto(c, "unlock")
    /\ UNCHANGED <<rowVars, keyVars, paged, ghosts, sends, cycle, change, faults>>

ClearAlert(c) ==
    /\ At(c, "clear")
    /\ alerted' = alerted \ {job[c].l} /\ paged' = paged \ {job[c].l}
    /\ Goto(c, "unlock")
    /\ UNCHANGED <<rowVars, locked, critical, ghosts, sends, cycle, change, faults>>

\* The finally: del, whoever set the key.
Unlock(c) ==
    /\ At(c, "unlock")
    /\ locked' = locked \ {job[c].l}
    /\ End(c)
    /\ UNCHANGED <<rowVars, alerted, pageVars, ghosts, sends, cycle, change, faults>>

InCall(c, l) == job[c].l = l
Unrecorded(c) == job[c].ref # 0 /\ released[job[c].l] # job[c].ref

\* The process dies, or Redis fails the call outside its try: the lock stays.
Dies(c) ==
    /\ job[c].l \in Loans /\ Fault
    /\ silent' = IF Unrecorded(c) \/ At(c, "page") THEN silent \cup {job[c].l} ELSE silent
    /\ End(c)
    /\ UNCHANGED <<rowVars, keyVars, pageVars, overrun, sends, cycle, change>>

\* EX 60
LockExpires(l) ==
    /\ l \in locked
    /\ locked' = locked \ {l}
    /\ overrun' = IF \E c \in Callers : InCall(c, l) THEN overrun \cup {l} ELSE overrun
    /\ UNCHANGED <<rowVars, alerted, pageVars, silent, sends, job, cycle, change, faults>>

\* EX 24 * 60 * 60
AlertExpires(l) ==
    /\ l \in alerted
    /\ alerted' = alerted \ {l} /\ paged' = paged \ {l}
    /\ UNCHANGED <<rowVars, locked, critical, ghosts, sends, job, cycle, change, faults>>

-----------------------------------------------------------------------------

\* What the process does of itself, the answers of Blink left out.
Step(c) ==
    \/ Read(c) \/ Dedupe(c) \/ Page(c) \/ Stamp(c) \/ AlreadyStamped(c)
    \/ PageCritical(c) \/ ClearAlert(c) \/ Unlock(c)

Start(c) == \E l \in Loans : TakeLock(c, l) \/ BackOff(c, l)

Next ==
    \/ \E l \in Loans : Repay(l) \/ ChangeWrite(l) \/ LockExpires(l) \/ AlertExpires(l)
    \/ \E l \in Loans, a \in Addresses : ChangeRead(l, a)
    \/ \E w \in Workers : Select(w)
    \/ \E c \in Callers : Start(c) \/ Step(c)
    \/ \E c \in Callers : Accepted(c) \/ Refused(c)
    \/ \E c \in Callers : AnswerLost(c) \/ AfterSendFails(c) \/ Dies(c)

(***************************************************************************)
(* A cycle runs to its end and the next one starts (setInterval); keys     *)
(* expire.  Blink answers a cycle's sends, and if the cycle keeps sending  *)
(* for a loan, it accepts one.  Requests are owed nothing.                 *)
(***************************************************************************)
Fairness ==
    /\ \A l \in Loans : WF_vars(LockExpires(l))
    /\ \A w \in Workers :
          /\ WF_vars(Select(w)) /\ WF_vars(Start(w)) /\ WF_vars(Step(w))
          /\ WF_vars(Accepted(w) \/ Refused(w))
          /\ \A l \in Loans : SF_vars(InCall(w, l) /\ Accepted(w))

Spec == Init /\ [][Next]_vars /\ Fairness

-----------------------------------------------------------------------------
(* Properties *)

\* The lock is what keeps a loan from being paid twice: it is paid again only
\* after the lock expired under a call, or a call ended without the stamp of
\* its send, and that ops were told unless the call died or heard nothing.
PaidOnceUnderLock ==
    \A l \in Loans : Len(sends[l]) > 1 => l \in overrun \cup silent \cup critical

\* Overlapping calls included: once the calls of a loan have ended, ops know
\* of its second payment, unless a call died or lost Blink's answer.
SecondPaymentIsPaged ==
    \A l \in Loans :
        Len(sends[l]) > 1 /\ (\A c \in Callers : ~InCall(c, l)) => l \in critical \cup silent

\* However many calls overlap, one stamp wins, it names a send that was made,
\* for a REPAID loan, and the audit log shows it once.
StampedOnce ==
    \A l \in Loans :
        /\ released[l] # 0 => released[l] \in DOMAIN sends[l] /\ status[l] = "REPAID"
        /\ Cardinality({n \in DOMAIN log[l] : log[l][n].reason = "COLLATERAL_RELEASED"})
             = IF released[l] # 0 THEN 1 ELSE 0

\* The dedupe key never silences a page nobody got, unless the call between
\* the two died: ops heard of the release since the key was last cleared.
DedupedWasPaged ==
    \A l \in alerted \ silent : l \in paged \/ \E c \in Callers : InCall(c, l) /\ At(c, "page")

OpsAreTold == SecondPaymentIsPaged /\ DedupedWasPaged

\* A repaid loan with an address gets its collateral back, although earlier
\* loans fill the batch, calls die with the lock held and sends fail.
EventuallyReleased ==
    \A l \in Loans : status[l] = "REPAID" /\ address[l] # "none" ~> released[l] # 0
=============================================================================
