----------------------- MODULE CollateralReleaseProofs -----------------------
(***************************************************************************)
(* For every number of loans, cycles, requests and failures: who may pay a *)
(* loan's collateral twice, that one stamp wins, and that ops are told.    *)
(***************************************************************************)
EXTENDS CollateralRelease, FiniteSetTheorems, TLAPS

Calling == {"read", "send", "refused", "page", "stamp", "clear", "critical", "unlock"}

Jobs == [step : Calling \cup {"idle", "done"}, l : Loans \cup {NoLoan},
         to : Addresses \cup {"none"}, ref : Nat]

-----------------------------------------------------------------------------
(* The inductive invariants                                                *)

\* A call is about a loan, and a caller in none is about no loan; what is sent
\* goes to an address.
JobShape ==
    \A c \in Callers :
        /\ job[c].l \in Loans <=> job[c].step \in Calling
        /\ At(c, "send") => job[c].to # "none"

\* What a call past its read knows: the loan is REPAID for good, and what it is
\* about to stamp was sent.
Ready ==
    \A c \in Callers :
        /\ job[c].step \in {"send", "stamp"} => status[job[c].l] = "REPAID"
        /\ At(c, "stamp") => job[c].ref \in DOMAIN sends[job[c].l]

\* Until the lock expires under a call, calls of one loan exclude each other,
\* and one that is about to send finds the loan as it read it.
Exclusive ==
    \A l \in Loans \ overrun :
        /\ \A c \in Callers : InCall(c, l) =>
              l \in locked /\ (At(c, "send") => released[l] = 0)
        /\ \A c, e \in Callers : InCall(c, l) /\ InCall(e, l) => c = e

\* Unless a call died or lost Blink's answer, or ops were paged, each send is
\* the one the stamp names or is in the hands of a call that will stamp or page.
Holds(c, l, n) == InCall(c, l) /\ job[c].step \in {"stamp", "critical"} /\ job[c].ref = n
Accounted ==
    \A l \in Loans \ (critical \cup silent) : \A n \in DOMAIN sends[l] :
        released[l] = n \/ \E c \in Callers : Holds(c, l, n)

Shape == TypeOK /\ JobShape
IInv ==
    /\ Shape /\ Ready /\ StampedOnce
    /\ Exclusive /\ Accounted /\ PaidOnceUnderLock /\ DedupedWasPaged

-----------------------------------------------------------------------------
(* Calls in progress                                                       *)

\* A caller's step moves its own job and nobody else's.
Others(c) == \A e \in Callers \ {c} : job'[e] = job[e]

\* Goto changes the step alone.
LEMMA GotoJob ==
    ASSUME job \in [Callers -> Jobs], NEW c \in Callers,
           NEW step \in Calling \cup {"idle", "done"}, Goto(c, step)
    PROVE  /\ job' \in [Callers -> Jobs] /\ Others(c)
           /\ job'[c].step = step /\ job'[c].l = job[c].l
           /\ job'[c].to = job[c].to /\ job'[c].ref = job[c].ref
<1>1. job' = [job EXCEPT ![c] = [job[c] EXCEPT !.step = step]]
    BY DEF Goto
<1>2. [job[c] EXCEPT !.step = step] \in Jobs
    BY DEF Jobs
<1>3. QED
    BY <1>1, <1>2 DEF Jobs, Others

\* End leaves the caller without a loan.
LEMMA EndJob ==
    ASSUME job \in [Callers -> Jobs], NEW c \in Callers, End(c)
    PROVE  /\ job' \in [Callers -> Jobs] /\ Others(c)
           /\ job'[c].l = NoLoan /\ job'[c].step \notin Calling
<1>1. Idle \in Jobs /\ Done = [step |-> "done", l |-> NoLoan, to |-> "none", ref |-> 0]
    BY DEF Idle, Done, Jobs, NoLoan
<1>2. Done \in Jobs
    BY <1>1 DEF Jobs
<1>3. QED
    BY <1>1, <1>2 DEF End, Idle, Calling, Others

\* A call begins with its read.
LEMMA TakeLockJob ==
    ASSUME job \in [Callers -> Jobs], NEW c \in Callers, NEW l \in Loans, TakeLock(c, l)
    PROVE  /\ job' \in [Callers -> Jobs] /\ Others(c)
           /\ job'[c].step = "read" /\ job'[c].l = l
<1>1. job' = [job EXCEPT ![c] = [step |-> "read", l |-> l, to |-> "none", ref |-> 0]]
    BY DEF TakeLock
<1>2. [step |-> "read", l |-> l, to |-> "none", ref |-> 0] \in Jobs
    BY DEF Jobs, Calling
<1>3. QED
    BY <1>1, <1>2 DEF Others

\* The read passes on the address it found, if the loan is eligible.
LEMMA ReadJob ==
    ASSUME TypeOK, job \in [Callers -> Jobs], NEW c \in Callers, job[c].l \in Loans, Read(c)
    PROVE  /\ job' \in [Callers -> Jobs] /\ Others(c)
           /\ job'[c].l = job[c].l /\ job'[c].step \in {"send", "unlock"}
           /\ job'[c].step = "send" => Eligible(job[c].l) /\ job'[c].to # "none"
<1>1. CASE Eligible(job[c].l)
    <2> DEFINE j == [job[c] EXCEPT !.step = "send", !.to = address[job[c].l]]
    <2>1. job' = [job EXCEPT ![c] = j]
        BY <1>1 DEF Read
    <2>2. j \in Jobs /\ j.step = "send" /\ j.l = job[c].l /\ j.to = address[job[c].l]
        BY DEF Jobs, Calling, TypeOK
    <2> HIDE DEF j
    <2>3. job' \in [Callers -> Jobs] /\ job'[c] = j /\ Others(c)
        BY <2>1, <2>2 DEF Others
    <2>4. QED
        BY <1>1, <2>2, <2>3 DEF Eligible
<1>2. CASE ~Eligible(job[c].l)
    BY <1>2, GotoJob DEF Read, Calling
<1>3. QED
    BY <1>1, <1>2

\* An accepted send is remembered by its number.
LEMMA AcceptedJob ==
    ASSUME TypeOK, job \in [Callers -> Jobs], NEW c \in Callers, job[c].l \in Loans, Accepted(c)
    PROVE  /\ job' \in [Callers -> Jobs] /\ Others(c)
           /\ job'[c].l = job[c].l /\ job'[c].step = "stamp"
           /\ job'[c].ref = Len(sends[job[c].l]) + 1
<1>1. Len(sends[job[c].l]) + 1 \in Nat
    BY DEF TypeOK
<1>2. job' = [job EXCEPT ![c] = [job[c] EXCEPT !.step = "stamp", !.ref = Len(sends[job[c].l]) + 1]]
    BY DEF Accepted
<1>3. [job[c] EXCEPT !.step = "stamp", !.ref = Len(sends[job[c].l]) + 1] \in Jobs
    BY <1>1 DEF Jobs, Calling
<1>4. QED
    BY <1>2, <1>3 DEF Jobs, Others

\* A send goes to an address, after those before it.
LEMMA SendSends ==
    ASSUME TypeOK, JobShape, NEW c \in Callers, At(c, "send"), Send(c)
    PROVE  /\ sends' \in [Loans -> Seq(Addresses)]
           /\ DOMAIN sends'[job[c].l] = DOMAIN sends[job[c].l] \cup {Len(sends[job[c].l]) + 1}
           /\ Len(sends'[job[c].l]) = Len(sends[job[c].l]) + 1
           /\ \A l \in Loans \ {job[c].l} : sends'[l] = sends[l]
<1> DEFINE l == job[c].l
<1>1. l \in Loans /\ job[c].to \in Addresses /\ sends[l] \in Seq(Addresses)
    BY DEF TypeOK, JobShape, At, Calling
<1>2. Append(sends[l], job[c].to) \in Seq(Addresses)
    BY <1>1
<1>3. sends' = [sends EXCEPT ![l] = Append(sends[l], job[c].to)]
    BY DEF Send
<1>4. Len(sends'[l]) = Len(sends[l]) + 1
    BY <1>1, <1>3 DEF TypeOK
<1>5. DOMAIN sends[l] = 1 .. Len(sends[l]) /\ DOMAIN sends'[l] = 1 .. Len(sends'[l])
    BY <1>1, <1>2, <1>3 DEF TypeOK
<1>6. Len(sends[l]) \in Nat
    BY <1>1
<1>7. DOMAIN sends'[l] = DOMAIN sends[l] \cup {Len(sends[l]) + 1}
    BY <1>4, <1>5, <1>6
<1>8. QED
    BY <1>1, <1>2, <1>3, <1>4, <1>7 DEF TypeOK

-----------------------------------------------------------------------------
(* Shape                                                                   *)

\* The types hold at first, and nobody is at work.
LEMMA InitShape == Init => Shape
    BY ReleaseAssumption
    DEF ReleaseAssumption, Init, Shape, TypeOK, JobShape, Calling, Idle, NoChange, NoLoan, At

\* A transition of a loan adds one row to its log.
LEMMA TransitionLogs ==
    ASSUME log \in [Loans -> Seq(LogRow)], NEW l \in Loans, NEW from \in Statuses,
           NEW to \in Statuses, NEW reason \in Reasons, Transition(l, from, to, reason)
    PROVE  /\ log' \in [Loans -> Seq(LogRow)]
           /\ log' = [log EXCEPT ![l] =
                  Append(log[l], [from |-> from, to |-> to, reason |-> reason])]
           /\ [from |-> from, to |-> to, reason |-> reason] \in LogRow
<1> DEFINE new == [from |-> from, to |-> to, reason |-> reason]
<1>1. new \in LogRow
    BY DEF LogRow
<1>2. log' = [log EXCEPT ![l] = Append(log[l], new)]
    BY DEF Transition, Record
<1>3. log' \in [Loans -> Seq(LogRow)]
    BY <1>1, <1>2
<1>4. QED
    BY <1>1, <1>2, <1>3

\* The jobs of the other callers keep their form, and c's has it.
LEMMA JobShapeKept ==
    ASSUME JobShape, NEW c \in Callers, Others(c),
           job'[c].l \in Loans <=> job'[c].step \in Calling,
           job'[c].step = "send" => job'[c].to # "none"
    PROVE  JobShape'
    BY DEF JobShape, Others, At

\* A batch is drawn from the loans that are repaid.
LEMMA BatchLoans == TypeOK => Batch \subseteq Loans
<1>1. ASSUME TypeOK, NEW positions \in SUBSET DOMAIN repaid
      PROVE  First(positions) \subseteq Loans
    <2>1. DOMAIN repaid = 1 .. Len(repaid) /\ \A n \in 1 .. Len(repaid) : repaid[n] \in Loans
        BY <1>1 DEF TypeOK
    <2>2. QED
        BY <2>1 DEF First
<1>2. {n \in DOMAIN repaid : Eligible(repaid[n])} \in SUBSET DOMAIN repaid
    OBVIOUS
<1>3. QED
    BY <1>1, <1>2 DEF Batch

\* Every step keeps the types.
LEMMA NextShape == Shape /\ [Next]_vars => Shape'
<1> SUFFICES ASSUME Shape, [Next]_vars
             PROVE  Shape'
    OBVIOUS
<1> USE ReleaseAssumption DEF ReleaseAssumption
<1>j. job \in [Callers -> Jobs] /\ TypeOK /\ JobShape /\ NoLoan \notin Loans
    BY DEF Shape, TypeOK, Jobs, Calling, NoLoan
<1>1. ASSUME NEW l \in Loans, Repay(l)
     PROVE  Shape'
    <2>1. status' \in [Loans -> {"ACTIVE", "REPAID"}] /\ log' \in [Loans -> Seq(LogRow)]
        BY <1>1, <1>j, TransitionLogs DEF Repay, Transition, TypeOK, Statuses, Reasons
    <2>2. repaid' \in Seq(Loans)
        BY <1>1, <1>j DEF Repay, TypeOK
    <2>3. QED
        BY <1>1, <1>j, <2>1, <2>2 DEF Repay, Shape, TypeOK, JobShape, At, keyVars, pageVars, ghosts
<1>2. ASSUME NEW l \in Loans, ChangeWrite(l)
     PROVE  Shape'
    BY <1>2, <1>j DEF ChangeWrite, Shape, TypeOK, JobShape, At, NoChange, ghosts
<1>3. ASSUME NEW l \in Loans, LockExpires(l)
     PROVE  Shape'
    BY <1>3, <1>j DEF LockExpires, Shape, TypeOK, JobShape, At, rowVars, pageVars
<1>4. ASSUME NEW l \in Loans, AlertExpires(l)
     PROVE  Shape'
    BY <1>4, <1>j DEF AlertExpires, Shape, TypeOK, JobShape, At, rowVars, ghosts
<1>5. ASSUME NEW l \in Loans, NEW a \in Addresses, ChangeRead(l, a)
     PROVE  Shape'
    BY <1>5, <1>j DEF ChangeRead, Shape, TypeOK, JobShape, At, rowVars, keyVars, pageVars, ghosts
<1>6. ASSUME NEW w \in Workers, Select(w)
     PROVE  Shape'
    BY <1>6, <1>j, BatchLoans DEF Select, Shape, TypeOK, JobShape, At, rowVars, keyVars, pageVars, ghosts
<1>7. ASSUME NEW c \in Callers, NEW l \in Loans, TakeLock(c, l)
      PROVE  Shape'
    <2>1. job' \in [Callers -> Jobs] /\ JobShape'
        BY <1>7, <1>j, JobShapeKept, TakeLockJob DEF TakeLock, JobShape, At, Calling
    <2>2. QED
        BY <1>7, <1>j, <2>1 DEF TakeLock, Shape, TypeOK, JobShape, At, Jobs, Calling, rowVars, keyVars, pageVars, ghosts, Called
<1>8. ASSUME NEW c \in Callers, NEW l \in Loans, BackOff(c, l)
      PROVE  Shape'
    <2>1. job' \in [Callers -> Jobs] /\ JobShape'
        BY <1>8, <1>j, JobShapeKept, EndJob DEF BackOff, JobShape, At, Calling
    <2>2. QED
        BY <1>8, <1>j, <2>1 DEF BackOff, Shape, TypeOK, JobShape, At, Jobs, Calling, rowVars, keyVars, pageVars, ghosts, Called, Calls, Idle
<1>9. ASSUME NEW c \in Callers, Read(c)
      PROVE  Shape'
    <2>1. job' \in [Callers -> Jobs] /\ JobShape'
        BY <1>9, <1>j, JobShapeKept, ReadJob DEF Read, JobShape, At, Calling
    <2>2. QED
        BY <1>9, <1>j, <2>1 DEF Read, Shape, TypeOK, JobShape, At, Jobs, Calling, rowVars, keyVars, pageVars, ghosts
<1>10. ASSUME NEW c \in Callers, Dedupe(c)
      PROVE  Shape'
    <2>1. job' \in [Callers -> Jobs] /\ JobShape'
        BY <1>10, <1>j, JobShapeKept, GotoJob DEF Dedupe, JobShape, At, Calling
    <2>2. QED
        BY <1>10, <1>j, <2>1 DEF Dedupe, Shape, TypeOK, JobShape, At, Jobs, Calling, rowVars, keyVars, pageVars, ghosts
<1>11. ASSUME NEW c \in Callers, Page(c)
      PROVE  Shape'
    <2>1. job' \in [Callers -> Jobs] /\ JobShape'
        BY <1>11, <1>j, JobShapeKept, GotoJob DEF Page, JobShape, At, Calling
    <2>2. QED
        BY <1>11, <1>j, <2>1 DEF Page, Shape, TypeOK, JobShape, At, Jobs, Calling, rowVars, keyVars, pageVars, ghosts
<1>12. ASSUME NEW c \in Callers, Stamp(c)
      PROVE  Shape'
    <2>1. job' \in [Callers -> Jobs] /\ JobShape'
        BY <1>12, <1>j, JobShapeKept, GotoJob DEF Stamp, JobShape, At, Calling
    <2>l. job[c].l \in Loans
        BY <1>12, <1>j DEF Stamp, JobShape, At, Calling
    <2>t. Transition(job[c].l, "REPAID", "REPAID", "COLLATERAL_RELEASED")
        BY <1>12 DEF Stamp
    <2>2. log' \in [Loans -> Seq(LogRow)] /\ status' = status
        <3>1. "REPAID" \in Statuses /\ "COLLATERAL_RELEASED" \in Reasons
            BY DEF Statuses, Reasons
        <3>2. log \in [Loans -> Seq(LogRow)]
            BY <1>j DEF TypeOK
        <3>3. QED
            BY <2>l, <2>t, <3>1, <3>2, TransitionLogs DEF Transition
    <2>3. released' \in [Loans -> Nat]
        BY <1>12, <1>j DEF Stamp, TypeOK
    <2>4. QED
        BY <1>12, <1>j, <2>1, <2>2, <2>3 DEF Stamp, Shape, TypeOK, Jobs, Calling, keyVars, pageVars, ghosts
<1>13. ASSUME NEW c \in Callers, AlreadyStamped(c)
      PROVE  Shape'
    <2>1. job' \in [Callers -> Jobs] /\ JobShape'
        BY <1>13, <1>j, JobShapeKept, GotoJob DEF AlreadyStamped, JobShape, At, Calling
    <2>2. QED
        BY <1>13, <1>j, <2>1 DEF AlreadyStamped, Shape, TypeOK, JobShape, At, Jobs, Calling, rowVars, keyVars, pageVars, ghosts
<1>14. ASSUME NEW c \in Callers, PageCritical(c)
      PROVE  Shape'
    <2>1. job' \in [Callers -> Jobs] /\ JobShape'
        BY <1>14, <1>j, JobShapeKept, GotoJob DEF PageCritical, JobShape, At, Calling
    <2>2. QED
        BY <1>14, <1>j, <2>1 DEF PageCritical, Shape, TypeOK, JobShape, At, Jobs, Calling, rowVars, keyVars, pageVars, ghosts
<1>15. ASSUME NEW c \in Callers, ClearAlert(c)
      PROVE  Shape'
    <2>1. job' \in [Callers -> Jobs] /\ JobShape'
        BY <1>15, <1>j, JobShapeKept, GotoJob DEF ClearAlert, JobShape, At, Calling
    <2>2. QED
        BY <1>15, <1>j, <2>1 DEF ClearAlert, Shape, TypeOK, JobShape, At, Jobs, Calling, rowVars, keyVars, pageVars, ghosts
<1>16. ASSUME NEW c \in Callers, Unlock(c)
      PROVE  Shape'
    <2>1. job' \in [Callers -> Jobs] /\ JobShape'
        BY <1>16, <1>j, JobShapeKept, EndJob DEF Unlock, JobShape, At, Calling
    <2>2. QED
        BY <1>16, <1>j, <2>1 DEF Unlock, Shape, TypeOK, JobShape, At, Jobs, Calling, rowVars, keyVars, pageVars, ghosts
<1>17. ASSUME NEW c \in Callers, Accepted(c)
      PROVE  Shape'
    <2>1. job' \in [Callers -> Jobs] /\ JobShape'
        BY <1>17, <1>j, JobShapeKept, AcceptedJob, SendSends DEF Accepted, JobShape, At, Calling
    <2>2. sends' \in [Loans -> Seq(Addresses)]
        BY <1>17, <1>j, SendSends DEF Accepted
    <2>3. TypeOK'
        BY <1>17, <1>j, <2>1, <2>2 DEF Accepted, TypeOK, Jobs, Calling, rowVars, keyVars, pageVars, ghosts
    <2>4. QED
        BY <2>1, <2>3 DEF Shape
<1>18. ASSUME NEW c \in Callers, Refused(c)
      PROVE  Shape'
    <2>1. job' \in [Callers -> Jobs] /\ JobShape'
        BY <1>18, <1>j, JobShapeKept, GotoJob DEF Refused, JobShape, At, Calling
    <2>2. QED
        BY <1>18, <1>j, <2>1 DEF Refused, Shape, TypeOK, JobShape, At, Jobs, Calling, rowVars, keyVars, pageVars, ghosts
<1>19. ASSUME NEW c \in Callers, AnswerLost(c)
      PROVE  Shape'
    <2>1. job' \in [Callers -> Jobs] /\ JobShape'
        BY <1>19, <1>j, JobShapeKept, GotoJob, SendSends DEF AnswerLost, JobShape, At, Calling
    <2>2. sends' \in [Loans -> Seq(Addresses)] /\ job[c].l \in Loans
        BY <1>19, <1>j, SendSends DEF AnswerLost, JobShape, At, Calling
    <2>3. TypeOK'
        BY <1>19, <1>j, <2>1, <2>2 DEF AnswerLost, TypeOK, Jobs, Calling, rowVars, keyVars, pageVars, Fault
    <2>4. QED
        BY <2>1, <2>3 DEF Shape
<1>20. ASSUME NEW c \in Callers, AfterSendFails(c)
      PROVE  Shape'
    <2>1. job' \in [Callers -> Jobs] /\ JobShape'
        BY <1>20, <1>j, JobShapeKept, GotoJob DEF AfterSendFails, JobShape, At, Calling
    <2>2. QED
        BY <1>20, <1>j, <2>1 DEF AfterSendFails, Shape, TypeOK, JobShape, At, Jobs, Calling, rowVars, keyVars, pageVars, ghosts, Fault
<1>21. ASSUME NEW c \in Callers, Dies(c)
      PROVE  Shape'
    <2>1. job' \in [Callers -> Jobs] /\ JobShape'
        BY <1>21, <1>j, JobShapeKept, EndJob DEF Dies, JobShape, At, Calling
    <2>2. QED
        BY <1>21, <1>j, <2>1 DEF Dies, Shape, TypeOK, JobShape, At, Jobs, Calling, rowVars, keyVars, pageVars, ghosts, Fault
<1>22. CASE UNCHANGED vars
    BY <1>22, <1>j DEF vars, Shape, TypeOK, JobShape, At, rowVars, keyVars, pageVars, ghosts
<1>23. QED
    BY <1>1, <1>2, <1>3, <1>4, <1>5, <1>6, <1>7, <1>8, <1>9, <1>10, <1>11, <1>12,
       <1>13, <1>14, <1>15, <1>16, <1>17, <1>18, <1>19, <1>20, <1>21, <1>22
    DEF Next, Start, Step

-----------------------------------------------------------------------------
(* What the steps move: once per action, for the invariants below          *)

\* The call goes on, holding what it holds.
Proceeds(c) ==
    \/ Read(c) \/ Refused(c) \/ Dedupe(c) \/ Page(c) \/ AlreadyStamped(c)
    \/ AfterSendFails(c) \/ PageCritical(c) \/ ClearAlert(c)

\* The call is over.
Ends(c) == Unlock(c) \/ Dies(c) \/ \E l \in Loans : BackOff(c, l)

\* No call is involved.
Beside ==
    \/ \E l \in Loans : Repay(l) \/ ChangeWrite(l) \/ AlertExpires(l)
    \/ \E l \in Loans, a \in Addresses : ChangeRead(l, a)
    \/ \E w \in Workers : Select(w)

\* Every step is one of these.
LEMMA NextKinds ==
    Next => \/ Beside
            \/ \E l \in Loans : LockExpires(l)
            \/ \E c \in Callers : \/ Proceeds(c) \/ Ends(c)
                                  \/ \E l \in Loans : TakeLock(c, l)
                                  \/ Accepted(c) \/ AnswerLost(c) \/ Stamp(c)
    BY DEF Next, Start, Step, Beside, Proceeds, Ends

\* Before it sends, a call makes sure of the loan; once it has sent, it stamps
\* or goes on to the critical page.
LEMMA ProceedsMoves ==
    ASSUME Shape, NEW c \in Callers, Proceeds(c)
    PROVE  /\ UNCHANGED <<status, log, released, sends, locked, overrun, silent>>
           /\ critical \subseteq critical'
           /\ Others(c) /\ job[c].l \in Loans
           /\ job'[c].l = job[c].l /\ job'[c].ref = job[c].ref
           /\ job'[c].step \notin {"stamp", "idle", "done"}
           /\ job'[c].step = "send" => status[job[c].l] = "REPAID" /\ released[job[c].l] = 0
           /\ job[c].step \in {"stamp", "critical"} =>
                 job'[c].step = "critical" \/ job[c].l \in critical'
<1>j. job \in [Callers -> Jobs] /\ TypeOK /\ JobShape
    BY DEF Shape, TypeOK, Jobs, Calling
<1>l. job[c].l \in Loans
    BY <1>j DEF Proceeds, Read, Refused, Dedupe, Page, AlreadyStamped, AfterSendFails,
                PageCritical, ClearAlert, JobShape, At, Calling
<1>1. CASE Read(c)
    <2>1. job'[c].ref = job[c].ref
        BY <1>1, <1>j, GotoJob DEF Read, Calling, Jobs
    <2>2. QED
        BY <1>1, <1>j, <1>l, <2>1, ReadJob DEF Read, Eligible, At, rowVars, keyVars, pageVars, ghosts
<1>2. CASE Refused(c)
    BY <1>2, <1>j, <1>l, GotoJob DEF Refused, At, Calling, rowVars, keyVars, pageVars, ghosts
<1>3. CASE Dedupe(c)
    BY <1>3, <1>j, <1>l, GotoJob DEF Dedupe, At, Calling, rowVars, keyVars, pageVars, ghosts
<1>4. CASE Page(c)
    BY <1>4, <1>j, <1>l, GotoJob DEF Page, At, Calling, rowVars, keyVars, pageVars, ghosts
<1>5. CASE AlreadyStamped(c)
    BY <1>5, <1>j, <1>l, GotoJob DEF AlreadyStamped, At, Calling, rowVars, keyVars, pageVars, ghosts
<1>6. CASE AfterSendFails(c)
    BY <1>6, <1>j, <1>l, GotoJob DEF AfterSendFails, At, Calling, rowVars, keyVars, pageVars, ghosts
<1>7. CASE PageCritical(c)
    BY <1>7, <1>j, <1>l, GotoJob DEF PageCritical, At, Calling, rowVars, keyVars, pageVars, ghosts
<1>8. CASE ClearAlert(c)
    BY <1>8, <1>j, <1>l, GotoJob DEF ClearAlert, At, Calling, rowVars, keyVars, pageVars, ghosts
<1>9. QED
    BY <1>1, <1>2, <1>3, <1>4, <1>5, <1>6, <1>7, <1>8 DEF Proceeds

\* A call that ends lets go of its own lock at most, and one that dies with a
\* send unrecorded is remembered as silent.
LEMMA EndsMoves ==
    ASSUME Shape, NEW c \in Callers, Ends(c)
    PROVE  /\ UNCHANGED <<status, log, released, sends, overrun, critical>>
           /\ silent \subseteq silent'
           /\ locked \ {job[c].l} \subseteq locked'
           /\ Others(c) /\ job'[c].l \notin Loans /\ job'[c].step \notin Calling
           /\ job[c].step \in {"stamp", "critical"} =>
                 job[c].ref \in {0, released[job[c].l]} \/ job[c].l \in silent'
<1> USE ReleaseAssumption DEF ReleaseAssumption
<1>j. job \in [Callers -> Jobs] /\ TypeOK /\ JobShape /\ NoLoan \notin Loans
    BY DEF Shape, TypeOK, Jobs, Calling, NoLoan
<1>1. CASE Unlock(c)
    BY <1>1, <1>j, EndJob DEF Unlock, At, rowVars, keyVars, pageVars, ghosts
<1>2. CASE Dies(c)
    BY <1>2, <1>j, EndJob DEF Dies, Unrecorded, rowVars, keyVars, pageVars, ghosts
<1>3. ASSUME NEW l \in Loans, BackOff(c, l)
      PROVE  /\ UNCHANGED <<status, log, released, sends, overrun, critical, silent, locked>>
             /\ job[c].step = "idle" /\ End(c)
    BY <1>3, <1>j DEF BackOff, Calls, Idle, rowVars, keyVars, pageVars, ghosts
<1>4. QED
    BY <1>1, <1>2, <1>3, <1>j, EndJob DEF Ends

\* Beside the calls, a loan is repaid for good and nothing else they rest on moves.
LEMMA BesideMoves ==
    ASSUME Shape, Beside
    PROVE  /\ UNCHANGED <<job, released, sends, locked, overrun, silent, critical>>
           /\ \A l \in Loans : status[l] = "REPAID" => status'[l] = "REPAID"
<1>1. ASSUME NEW l \in Loans, Repay(l)
      PROVE  /\ UNCHANGED <<job, released, sends, locked, overrun, silent, critical>>
             /\ \A k \in Loans : status[k] = "REPAID" => status'[k] = "REPAID"
    BY <1>1 DEF Shape, TypeOK, Repay, Transition, rowVars, keyVars, pageVars, ghosts
<1>2. ASSUME NEW l \in Loans, ChangeWrite(l) \/ AlertExpires(l)
      PROVE  UNCHANGED <<job, released, sends, locked, overrun, silent, critical, status>>
    BY <1>2 DEF ChangeWrite, AlertExpires, rowVars, keyVars, pageVars, ghosts
<1>3. ASSUME \/ \E l \in Loans, a \in Addresses : ChangeRead(l, a)
             \/ \E w \in Workers : Select(w)
      PROVE  UNCHANGED <<job, released, sends, locked, overrun, silent, critical, status>>
    BY <1>3 DEF ChangeRead, Select, rowVars, keyVars, pageVars, ghosts
<1>4. QED
    BY <1>1, <1>2, <1>3 DEF Beside

\* A stamp names the call's own send, and only where there is no stamp.
LEMMA StampMoves ==
    ASSUME Shape, NEW c \in Callers, Stamp(c)
    PROVE  /\ UNCHANGED <<status, sends, locked, overrun, silent, critical>>
           /\ job[c].l \in Loans /\ At(c, "stamp") /\ released[job[c].l] = 0
           /\ released' = [released EXCEPT ![job[c].l] = job[c].ref]
           /\ Others(c) /\ job'[c].l = job[c].l /\ job'[c].step = "clear"
<1>j. job \in [Callers -> Jobs] /\ TypeOK /\ JobShape
    BY DEF Shape, TypeOK, Jobs, Calling
<1>1. job[c].l \in Loans
    BY <1>j DEF Stamp, JobShape, At, Calling
<1>2. QED
    BY <1>1, <1>j, GotoJob DEF Stamp, Unstamped, Transition, Calling, keyVars, pageVars, ghosts

\* A send that Blink took leaves the keys and the rows alone.
LEMMA SendMoves ==
    ASSUME Shape, NEW c \in Callers, Accepted(c) \/ AnswerLost(c)
    PROVE  /\ UNCHANGED <<status, log, released, locked, overrun, critical>>
           /\ job[c].l \in Loans /\ At(c, "send") /\ Send(c)
           /\ Others(c) /\ job'[c].l = job[c].l
           /\ Accepted(c) => /\ silent' = silent
                             /\ job'[c].step = "stamp"
                             /\ job'[c].ref = Len(sends[job[c].l]) + 1
           /\ ~Accepted(c) => silent' = silent \cup {job[c].l} /\ job'[c].step = "refused"
<1>j. job \in [Callers -> Jobs] /\ TypeOK /\ JobShape
    BY DEF Shape, TypeOK, Jobs, Calling
<1>l. job[c].l \in Loans
    BY <1>j DEF Accepted, AnswerLost, JobShape, At, Calling
<1>1. CASE Accepted(c)
    BY <1>1, <1>j, <1>l, AcceptedJob DEF Accepted, rowVars, keyVars, pageVars, ghosts
<1>2. CASE AnswerLost(c) /\ ~Accepted(c)
    BY <1>2, <1>j, <1>l, GotoJob DEF AnswerLost, Calling, rowVars, keyVars, pageVars
<1>3. QED
    BY <1>1, <1>2

-----------------------------------------------------------------------------
(* Ready and StampedOnce                                                   *)

\* Stamps of a loan in the audit log.
StampsIn(rows) == {n \in DOMAIN rows : rows[n].reason = "COLLATERAL_RELEASED"}
Stamps(l) == StampsIn(log[l])

\* A row at the end of a log is one stamp more or none.
LEMMA CountStamps ==
    ASSUME NEW rows \in Seq(LogRow), NEW new \in LogRow
    PROVE  Cardinality(StampsIn(Append(rows, new))) =
               Cardinality(StampsIn(rows)) + IF new.reason = "COLLATERAL_RELEASED" THEN 1 ELSE 0
<1> DEFINE last == Len(rows) + 1
<1>1. /\ Len(rows) \in Nat /\ DOMAIN rows = 1 .. Len(rows)
      /\ DOMAIN Append(rows, new) = DOMAIN rows \cup {last} /\ last \notin DOMAIN rows
      /\ \A n \in DOMAIN rows : Append(rows, new)[n] = rows[n]
      /\ Append(rows, new)[last] = new
    OBVIOUS
<1>2. StampsIn(rows) \subseteq 1 .. Len(rows) /\ last \notin StampsIn(rows)
    BY <1>1 DEF StampsIn
<1>3. IsFiniteSet(1 .. Len(rows))
    BY <1>1, FS_Interval
<1>4. IsFiniteSet(StampsIn(rows))
    BY <1>2, <1>3, FS_Subset
<1>5. StampsIn(Append(rows, new)) =
          IF new.reason = "COLLATERAL_RELEASED" THEN StampsIn(rows) \cup {last} ELSE StampsIn(rows)
    BY <1>1 DEF StampsIn
<1>6. Cardinality(StampsIn(rows)) \in Nat
    BY <1>4, FS_CardinalityType
<1>7. Cardinality(StampsIn(rows) \cup {last}) = Cardinality(StampsIn(rows)) + 1
    BY <1>2, <1>4, FS_AddElement
<1> HIDE DEF last
<1>8. QED
    BY <1>5, <1>6, <1>7

\* What a call is about to stamp does not change under it.
LEMMA NextReady == Shape /\ Ready /\ [Next]_vars => Ready'
<1> SUFFICES ASSUME Shape, Ready, [Next]_vars
             PROVE  Ready'
    OBVIOUS
<1>j. /\ TypeOK /\ JobShape
      /\ \A c \in Callers : job[c].step \in {"send", "stamp"} => job[c].l \in Loans
    BY DEF Shape, JobShape, Calling
<1>1. CASE Beside
    BY <1>1, <1>j, BesideMoves DEF Ready, At
<1>2. ASSUME NEW l \in Loans, LockExpires(l)
      PROVE  Ready'
    BY <1>2 DEF LockExpires, Ready, At, rowVars
<1>3. ASSUME NEW c \in Callers, Proceeds(c)
      PROVE  Ready'
    BY <1>3, <1>j, ProceedsMoves DEF Ready, At, Others
<1>4. ASSUME NEW c \in Callers, Ends(c)
      PROVE  Ready'
    BY <1>4, <1>j, EndsMoves DEF Ready, At, Others, Calling
<1>5. ASSUME NEW c \in Callers, NEW l \in Loans, TakeLock(c, l)
      PROVE  Ready'
    <2>1. job \in [Callers -> Jobs]
        BY <1>j DEF TypeOK, Jobs, Calling
    <2>2. QED
        BY <1>5, <2>1, TakeLockJob DEF TakeLock, Ready, At, Others, rowVars
<1>6. ASSUME NEW c \in Callers, Accepted(c) \/ AnswerLost(c)
      PROVE  Ready'
    <2>1. \A l \in Loans : DOMAIN sends[l] \subseteq DOMAIN sends'[l]
        BY <1>6, <1>j, SendMoves, SendSends
    <2>2. Accepted(c) => job'[c].ref \in DOMAIN sends'[job[c].l]
        BY <1>6, <1>j, SendMoves, SendSends
    <2>3. QED
        BY <1>6, <1>j, <2>1, <2>2, SendMoves DEF Ready, At, Others
<1>7. ASSUME NEW c \in Callers, Stamp(c)
      PROVE  Ready'
    BY <1>7, <1>j, StampMoves DEF Ready, At, Others
<1>8. CASE UNCHANGED vars
    BY <1>8 DEF vars, Ready, At, rowVars
<1>9. QED
    BY <1>1, <1>2, <1>3, <1>4, <1>5, <1>6, <1>7, <1>8, NextKinds

\* What StampedOnce says of one loan.
OneStampOf(l) ==
    /\ released[l] # 0 => released[l] \in DOMAIN sends[l] /\ status[l] = "REPAID"
    /\ Cardinality(Stamps(l)) = IF released[l] # 0 THEN 1 ELSE 0

\* Every step keeps one stamp in the log of a loan that is released.
LEMMA NextStampedOnce == Shape /\ Ready /\ StampedOnce /\ [Next]_vars => StampedOnce'
<1> SUFFICES ASSUME Shape, Ready, StampedOnce, [Next]_vars, NEW l \in Loans
             PROVE  OneStampOf(l)'
    BY DEF StampedOnce, OneStampOf, Stamps, StampsIn
<1>j. TypeOK /\ JobShape /\ OneStampOf(l) /\ log[l] \in Seq(LogRow) /\ log \in [Loans -> Seq(LogRow)]
    BY DEF Shape, TypeOK, StampedOnce, OneStampOf, Stamps, StampsIn
<1>0. ASSUME released'[l] = released[l], log'[l] = log[l], DOMAIN sends[l] \subseteq DOMAIN sends'[l],
             status[l] = "REPAID" => status'[l] = "REPAID"
      PROVE  OneStampOf(l)'
    BY <1>0, <1>j DEF OneStampOf, Stamps
<1>1. CASE Beside
    <2>1. ASSUME NEW k \in Loans, Repay(k)
          PROVE  OneStampOf(l)'
        <3>1. Transition(k, "ACTIVE", "REPAID", "REPAYMENT_COMPLETED")
            BY <2>1 DEF Repay
        <3> DEFINE new == [from |-> "ACTIVE", to |-> "REPAID", reason |-> "REPAYMENT_COMPLETED"]
        <3>2. log' = [log EXCEPT ![k] = Append(log[k], new)] /\ new \in LogRow
            BY <3>1, <1>j, TransitionLogs DEF Statuses, Reasons
        <3>3. k # l => log'[l] = log[l]
            BY <3>2, <1>j
        <3>4. k = l => log'[l] = Append(log[l], new)
            BY <3>2, <1>j
        <3>5. new.reason # "COLLATERAL_RELEASED"
            OBVIOUS
        <3>6. Cardinality(Stamps(l)) \in Nat
            BY <1>j DEF OneStampOf
        <3> HIDE DEF new
        <3>7. k = l => Cardinality(Stamps(l)') = Cardinality(Stamps(l))
            BY <1>j, <3>2, <3>4, <3>5, <3>6, CountStamps DEF Stamps
        <3>8. QED
            BY <1>0, <1>1, <1>j, <3>3, <3>7, BesideMoves DEF OneStampOf
    <2>2. ASSUME NEW k \in Loans, ChangeWrite(k) \/ AlertExpires(k)
          PROVE  log' = log
        BY <2>2 DEF ChangeWrite, AlertExpires, rowVars
    <2>3. ASSUME \/ \E k \in Loans, a \in Addresses : ChangeRead(k, a)
                 \/ \E w \in Workers : Select(w)
          PROVE  log' = log
        BY <2>3 DEF ChangeRead, Select, rowVars
    <2>4. QED
        BY <1>0, <1>1, <2>1, <2>2, <2>3, BesideMoves DEF Beside
<1>2. ASSUME NEW k \in Loans, LockExpires(k)
      PROVE  OneStampOf(l)'
    BY <1>2, <1>0 DEF LockExpires, rowVars
<1>3. ASSUME NEW c \in Callers, Proceeds(c) \/ Ends(c)
      PROVE  OneStampOf(l)'
    BY <1>3, <1>0, ProceedsMoves, EndsMoves
<1>5. ASSUME NEW c \in Callers, NEW k \in Loans, TakeLock(c, k)
      PROVE  OneStampOf(l)'
    BY <1>5, <1>0 DEF TakeLock, rowVars
<1>6. ASSUME NEW c \in Callers, Accepted(c) \/ AnswerLost(c)
      PROVE  OneStampOf(l)'
    <2>1. DOMAIN sends[l] \subseteq DOMAIN sends'[l]
        BY <1>6, <1>j, SendMoves, SendSends
    <2>2. QED
        BY <1>6, <1>0, <2>1, SendMoves
<1>7. ASSUME NEW c \in Callers, Stamp(c)
      PROVE  OneStampOf(l)'
    <2> DEFINE k == job[c].l
               new == [from |-> "REPAID", to |-> "REPAID", reason |-> "COLLATERAL_RELEASED"]
    <2>1. k \in Loans /\ released[k] = 0 /\ job[c].ref \in DOMAIN sends[k] /\ status[k] = "REPAID"
        BY <1>7, StampMoves DEF Ready, At
    <2>2. Transition(k, "REPAID", "REPAID", "COLLATERAL_RELEASED")
        BY <1>7 DEF Stamp
    <2>3. log' = [log EXCEPT ![k] = Append(log[k], new)] /\ new \in LogRow
        BY <2>1, <2>2, <1>j, TransitionLogs DEF Statuses, Reasons
    <2>4. CASE l # k
        <3>1. log'[l] = log[l] /\ released'[l] = released[l]
            BY <2>1, <2>3, <2>4, <1>j, <1>7, StampMoves DEF TypeOK
        <3>2. QED
            BY <1>0, <1>7, <3>1, StampMoves
    <2>5. CASE l = k
        <3>1. log'[l] = Append(log[l], new)
            BY <2>3, <2>5, <1>j
        <3>2. released'[l] = job[c].ref
            BY <1>7, <2>1, <2>5, <1>j, StampMoves DEF TypeOK
        <3>3. new.reason = "COLLATERAL_RELEASED"
            OBVIOUS
        <3>4. Cardinality(Stamps(l)) = 0
            BY <1>j, <2>1, <2>5 DEF OneStampOf
        <3>5. job[c].ref # 0 /\ sends' = sends /\ status' = status
            BY <1>7, <1>j, <2>1, StampMoves DEF TypeOK
        <3> HIDE DEF new
        <3>6. Cardinality(Stamps(l)') = 1
            BY <1>j, <2>3, <3>1, <3>3, <3>4, CountStamps DEF Stamps
        <3>7. QED
            BY <2>1, <2>5, <3>2, <3>5, <3>6 DEF OneStampOf
    <2>6. QED
        BY <2>4, <2>5
<1>8. CASE UNCHANGED vars
    BY <1>8, <1>0 DEF vars, rowVars
<1>9. QED
    BY <1>1, <1>2, <1>3, <1>5, <1>6, <1>7, <1>8, NextKinds

-----------------------------------------------------------------------------
(* Exclusive and Accounted                                                 *)

\* The lock keeps calls of a loan apart until it expires under one.
LEMMA NextExclusive == Shape /\ Exclusive /\ [Next]_vars => Exclusive'
<1> SUFFICES ASSUME Shape, Exclusive, [Next]_vars
             PROVE  Exclusive'
    OBVIOUS
<1>j. TypeOK /\ JobShape /\ job \in [Callers -> Jobs]
    BY DEF Shape, TypeOK, Jobs, Calling
<1>1. CASE Beside
    BY <1>1, BesideMoves DEF Exclusive, InCall, At
<1>2. ASSUME NEW l \in Loans, LockExpires(l)
      PROVE  Exclusive'
    BY <1>2 DEF LockExpires, Exclusive, InCall, At, rowVars
<1>3. ASSUME NEW c \in Callers, Proceeds(c)
      PROVE  Exclusive'
    BY <1>3, ProceedsMoves DEF Exclusive, InCall, At, Others
<1>4. ASSUME NEW c \in Callers, Ends(c)
      PROVE  Exclusive'
    BY <1>4, EndsMoves DEF Exclusive, InCall, At, Others
<1>5. ASSUME NEW c \in Callers, NEW l \in Loans, TakeLock(c, l)
      PROVE  Exclusive'
    <2>1. /\ Others(c) /\ job'[c].step = "read" /\ job'[c].l = l
        BY <1>5, <1>j, TakeLockJob
    <2>2. /\ l \notin locked /\ locked' = locked \cup {l}
          /\ overrun' = overrun /\ released' = released
        BY <1>5 DEF TakeLock, LockFree, rowVars, ghosts
    <2>3. QED
        BY <2>1, <2>2 DEF Exclusive, InCall, At, Others
<1>6. ASSUME NEW c \in Callers, Accepted(c) \/ AnswerLost(c)
      PROVE  Exclusive'
    BY <1>6, SendMoves DEF Exclusive, InCall, At, Others
<1>7. ASSUME NEW c \in Callers, Stamp(c)
      PROVE  Exclusive'
    <2>1. \A k \in Loans \ {job[c].l} : released'[k] = released[k]
        BY <1>7, <1>j, StampMoves DEF TypeOK
    <2>2. QED
        BY <1>7, <2>1, StampMoves DEF Exclusive, InCall, At, Others
<1>8. CASE UNCHANGED vars
    BY <1>8 DEF vars, Exclusive, InCall, At, rowVars, keyVars, ghosts
<1>9. QED
    BY <1>1, <1>2, <1>3, <1>4, <1>5, <1>6, <1>7, <1>8, NextKinds

\* No send goes astray: it is stamped, in hand, paged, or known to be silent.
LEMMA NextAccounted == Shape /\ Ready /\ Accounted /\ [Next]_vars => Accounted'
<1> SUFFICES ASSUME Shape, Ready, Accounted, [Next]_vars,
                    NEW l \in Loans, l \notin critical' \cup silent', NEW n \in DOMAIN sends'[l]
             PROVE  released'[l] = n \/ \E c \in Callers : Holds(c, l, n)'
    BY DEF Accounted
<1>j. TypeOK /\ JobShape /\ job \in [Callers -> Jobs]
    BY DEF Shape, TypeOK, Jobs, Calling
<1>k. n \in Nat \ {0}
    <2>1. sends' \in [Loans -> Seq(Addresses)]
        BY NextShape DEF Shape, TypeOK
    <2>2. QED
        BY <2>1
<1>a. ASSUME l \notin critical \cup silent, n \in DOMAIN sends[l]
      PROVE  released[l] = n \/ \E c \in Callers : Holds(c, l, n)
    BY <1>a DEF Accounted
<1>1. CASE Beside
    BY <1>1, <1>a, BesideMoves DEF Holds, InCall
<1>2. ASSUME NEW k \in Loans, LockExpires(k)
      PROVE  released'[l] = n \/ \E c \in Callers : Holds(c, l, n)'
    BY <1>2, <1>a DEF LockExpires, Holds, InCall, rowVars, pageVars
<1>3. ASSUME NEW c \in Callers, Proceeds(c)
      PROVE  released'[l] = n \/ \E e \in Callers : Holds(e, l, n)'
    <2>1. ASSUME NEW e \in Callers, Holds(e, l, n)
          PROVE  Holds(e, l, n)'
        BY <1>3, <2>1, ProceedsMoves DEF Holds, InCall, Others
    <2>2. QED
        BY <1>3, <1>a, <2>1, ProceedsMoves
<1>4. ASSUME NEW c \in Callers, Ends(c)
      PROVE  released'[l] = n \/ \E e \in Callers : Holds(e, l, n)'
    <2>1. ASSUME NEW e \in Callers, Holds(e, l, n)
          PROVE  released'[l] = n \/ Holds(e, l, n)'
        BY <1>4, <1>k, <2>1, EndsMoves DEF Holds, InCall, Others
    <2>2. QED
        BY <1>4, <1>a, <2>1, EndsMoves
<1>5. ASSUME NEW c \in Callers, NEW k \in Loans, TakeLock(c, k)
      PROVE  released'[l] = n \/ \E e \in Callers : Holds(e, l, n)'
    <2>0. job[c].step = "idle"
        BY <1>5 DEF TakeLock, Calls, Idle
    <2>1. Others(c) /\ job[c].step = "idle"
        BY <1>5, <1>j, <2>0, TakeLockJob
    <2>2. ASSUME NEW e \in Callers, Holds(e, l, n)
          PROVE  Holds(e, l, n)'
        BY <2>1, <2>2 DEF Holds, InCall, Others
    <2>3. UNCHANGED <<released, sends, critical, silent>>
        BY <1>5 DEF TakeLock, rowVars, pageVars, ghosts
    <2>4. QED
        BY <1>a, <2>2, <2>3
<1>6. ASSUME NEW c \in Callers, Accepted(c) \/ AnswerLost(c)
      PROVE  released'[l] = n \/ \E e \in Callers : Holds(e, l, n)'
    <2>0. l \notin critical \cup silent /\ released' = released /\ job[c].step = "send"
        BY <1>6, SendMoves DEF At
    <2>1. n \in DOMAIN sends[l] \/ (l = job[c].l /\ n = Len(sends[l]) + 1)
        BY <1>6, <1>j, SendMoves, SendSends
    <2>2. ASSUME NEW e \in Callers, Holds(e, l, n)
          PROVE  Holds(e, l, n)'
        BY <1>6, <2>0, <2>2, SendMoves DEF Holds, InCall, Others
    <2>3. CASE n \in DOMAIN sends[l]
        BY <1>a, <2>0, <2>2, <2>3
    <2>4. CASE l = job[c].l /\ n = Len(sends[l]) + 1
        <3>1. Accepted(c)
            BY <1>6, <2>4, SendMoves
        <3>2. Holds(c, l, n)'
            BY <3>1, <2>4, SendMoves DEF Holds, InCall
        <3>3. QED
            BY <3>2
    <2>5. QED
        BY <2>1, <2>3, <2>4
<1>7. ASSUME NEW c \in Callers, Stamp(c)
      PROVE  released'[l] = n \/ \E e \in Callers : Holds(e, l, n)'
    <2>1. released[l] = n => released'[l] = n
        BY <1>7, <1>j, <1>k, StampMoves DEF TypeOK
    <2>2. ASSUME NEW e \in Callers, Holds(e, l, n)
          PROVE  released'[l] = n \/ Holds(e, l, n)'
        <3>1. e # c => Holds(e, l, n)'
            BY <1>7, <2>2, StampMoves DEF Holds, InCall, Others
        <3>2. e = c => released'[l] = n
            BY <1>7, <1>j, <2>2, StampMoves DEF Holds, InCall, TypeOK
        <3>3. QED
            BY <3>1, <3>2
    <2>3. QED
        BY <1>7, <1>a, <2>1, <2>2, StampMoves
<1>8. CASE UNCHANGED vars
    BY <1>8, <1>a DEF vars, Holds, InCall, rowVars, pageVars, ghosts
<1>9. QED
    BY <1>1, <1>2, <1>3, <1>4, <1>5, <1>6, <1>7, <1>8, NextKinds

-----------------------------------------------------------------------------
(* PaidOnceUnderLock and DedupedWasPaged                                   *)

\* A call that sends again either broke in on another or found no trace of it.
LEMMA NextPaidOnce ==
    Shape /\ Exclusive /\ Accounted /\ PaidOnceUnderLock /\ [Next]_vars => PaidOnceUnderLock'
<1> SUFFICES ASSUME Shape, Exclusive, Accounted, PaidOnceUnderLock, [Next]_vars,
                    NEW l \in Loans, Len(sends'[l]) > 1
             PROVE  l \in overrun' \cup silent' \cup critical'
    BY DEF PaidOnceUnderLock
<1>j. TypeOK /\ JobShape /\ (Len(sends[l]) > 1 => l \in overrun \cup silent \cup critical)
    BY DEF Shape, PaidOnceUnderLock
<1>1. CASE Beside
    BY <1>1, <1>j, BesideMoves
<1>2. ASSUME NEW k \in Loans, LockExpires(k)
      PROVE  l \in overrun' \cup silent' \cup critical'
    BY <1>2, <1>j DEF LockExpires, pageVars
<1>3. ASSUME NEW c \in Callers, Proceeds(c)
      PROVE  l \in overrun' \cup silent' \cup critical'
    BY <1>3, <1>j, ProceedsMoves
<1>4. ASSUME NEW c \in Callers, Ends(c)
      PROVE  l \in overrun' \cup silent' \cup critical'
    BY <1>4, <1>j, EndsMoves
<1>5. ASSUME NEW c \in Callers, NEW k \in Loans, TakeLock(c, k)
      PROVE  l \in overrun' \cup silent' \cup critical'
    BY <1>5, <1>j DEF TakeLock, pageVars, ghosts
<1>6. ASSUME NEW c \in Callers, Accepted(c) \/ AnswerLost(c)
      PROVE  l \in overrun' \cup silent' \cup critical'
    <2>1. CASE l # job[c].l \/ Len(sends[l]) > 1
        BY <1>6, <1>j, <2>1, SendMoves, SendSends
    <2>2. CASE l = job[c].l /\ ~(Len(sends[l]) > 1)
        <3>1. 1 \in DOMAIN sends[l]
            <4>1. sends[l] \in Seq(Addresses) /\ Len(sends'[l]) = Len(sends[l]) + 1
                BY <1>6, <1>j, <2>2, SendMoves, SendSends DEF TypeOK
            <4>2. QED
                BY <4>1, <2>2
        <3>2. ASSUME l \notin overrun \cup silent \cup critical
              PROVE  FALSE
            <4>1. At(c, "send") /\ InCall(c, l)
                BY <1>6, <2>2, SendMoves DEF InCall
            <4>2. released[l] = 0
                BY <3>2, <4>1 DEF Exclusive
            <4>3. \E e \in Callers : Holds(e, l, 1)
                BY <3>1, <3>2, <4>2 DEF Accounted
            <4>4. QED
                BY <3>2, <4>1, <4>3 DEF Exclusive, Holds, InCall, At
        <3>3. QED
            BY <1>6, <3>2, SendMoves
    <2>3. QED
        BY <2>1, <2>2
<1>7. ASSUME NEW c \in Callers, Stamp(c)
      PROVE  l \in overrun' \cup silent' \cup critical'
    BY <1>7, <1>j, StampMoves
<1>8. CASE UNCHANGED vars
    BY <1>8, <1>j DEF vars, pageVars, ghosts
<1>9. QED
    BY <1>1, <1>2, <1>3, <1>4, <1>5, <1>6, <1>7, <1>8, NextKinds

\* The key is set by the call that goes on to page, and cleared with the page.
LEMMA NextDeduped == Shape /\ DedupedWasPaged /\ [Next]_vars => DedupedWasPaged'
<1> SUFFICES ASSUME Shape, DedupedWasPaged, [Next]_vars
             PROVE  DedupedWasPaged'
    OBVIOUS
<1>s. alerted' \subseteq Loans
    BY NextShape DEF Shape, TypeOK
<1> SUFFICES ASSUME NEW l \in Loans, l \in alerted' \ silent'
             PROVE  l \in paged' \/ \E e \in Callers : InCall(e, l)' /\ At(e, "page")'
    BY <1>s DEF DedupedWasPaged
<1> DEFINE Paging == \E e \in Callers : InCall(e, l) /\ At(e, "page")
<1>j. /\ TypeOK /\ JobShape /\ job \in [Callers -> Jobs]
      /\ l \in alerted \ silent => l \in paged \/ Paging
    BY DEF Shape, TypeOK, Jobs, Calling, DedupedWasPaged
\* Enough, for a call's step: the keys and pages stay, and it was not at its page.
<1>0. ASSUME NEW c \in Callers, Others(c), ~At(c, "page"),
             UNCHANGED <<alerted, paged>>, silent \subseteq silent'
      PROVE  l \in paged' \/ Paging'
    BY <1>0, <1>j DEF InCall, At, Others
<1>1. CASE Beside
    <2>1. job' = job /\ silent' = silent
        BY <1>1, BesideMoves
    <2>2. (alerted' = alerted /\ paged' = paged)
              \/ \E k \in Loans : alerted' = alerted \ {k} /\ paged' = paged \ {k}
        <3>1. ASSUME NEW k \in Loans, Repay(k) \/ ChangeWrite(k) \/ AlertExpires(k)
              PROVE  \/ alerted' = alerted /\ paged' = paged
                     \/ alerted' = alerted \ {k} /\ paged' = paged \ {k}
            BY <3>1 DEF Repay, ChangeWrite, AlertExpires, keyVars, pageVars
        <3>2. ASSUME \/ \E k \in Loans, a \in Addresses : ChangeRead(k, a)
                     \/ \E w \in Workers : Select(w)
              PROVE  alerted' = alerted /\ paged' = paged
            BY <3>2 DEF ChangeRead, Select, keyVars, pageVars
        <3>3. QED
            BY <1>1, <3>1, <3>2 DEF Beside
    <2>3. QED
        BY <2>1, <2>2, <1>j DEF InCall, At
<1>2. ASSUME NEW k \in Loans, LockExpires(k)
      PROVE  l \in paged' \/ Paging'
    BY <1>2, <1>j DEF LockExpires, InCall, At, pageVars
<1>3. ASSUME NEW c \in Callers, Proceeds(c)
      PROVE  l \in paged' \/ Paging'
    <2>1. Others(c) /\ silent' = silent /\ job[c].l \in Loans /\ job'[c].l = job[c].l
        BY <1>3, ProceedsMoves
    <2>2. CASE Dedupe(c)
        <3>1. /\ alerted' = alerted \cup {job[c].l} /\ paged' = paged /\ ~At(c, "page")
              /\ job[c].l \notin alerted => Goto(c, "page")
            BY <2>2 DEF Dedupe, pageVars, At
        <3>2. job[c].l \notin alerted => At(c, "page")'
            BY <3>1, <1>j, GotoJob DEF Calling, At
        <3>3. CASE l = job[c].l /\ l \notin alerted
            BY <2>1, <3>2, <3>3 DEF InCall
        <3>4. CASE ~(l = job[c].l /\ l \notin alerted)
            BY <2>1, <3>1, <3>4, <1>j DEF InCall, At, Others
        <3>5. QED
            BY <3>3, <3>4
    <2>3. CASE Page(c)
        <3>1. paged' = paged \cup {job[c].l} /\ alerted' = alerted
            BY <2>3 DEF Page, keyVars
        <3>2. QED
            BY <2>1, <3>1, <1>j DEF InCall, At, Others
    <2>4. CASE ClearAlert(c)
        <3>1. paged' = paged \ {job[c].l} /\ alerted' = alerted \ {job[c].l} /\ ~At(c, "page")
            BY <2>4 DEF ClearAlert, At
        <3>2. QED
            BY <2>1, <3>1, <1>j DEF InCall, At, Others
    <2>5. CASE Read(c) \/ Refused(c) \/ AlreadyStamped(c) \/ AfterSendFails(c) \/ PageCritical(c)
        <3>1. UNCHANGED <<alerted, paged>> /\ ~At(c, "page")
            BY <2>5 DEF Read, Refused, AlreadyStamped, AfterSendFails, PageCritical, At,
                        keyVars, pageVars
        <3>2. QED
            BY <1>0, <2>1, <3>1
    <2>6. QED
        BY <1>3, <2>2, <2>3, <2>4, <2>5 DEF Proceeds
<1>4. ASSUME NEW c \in Callers, Ends(c)
      PROVE  l \in paged' \/ Paging'
    <2>1. Others(c) /\ silent \subseteq silent'
        BY <1>4, EndsMoves
    <2>2. UNCHANGED <<alerted, paged>>
        BY <1>4 DEF Ends, Unlock, Dies, BackOff, keyVars, pageVars
    <2>3. At(c, "page") => job[c].l \in silent'
        BY <1>4 DEF Ends, Unlock, Dies, BackOff, Calls, Idle, At
    <2>4. QED
        BY <2>1, <2>2, <2>3, <1>j DEF InCall, At, Others
<1>5. ASSUME NEW c \in Callers, NEW k \in Loans, TakeLock(c, k)
      PROVE  l \in paged' \/ Paging'
    <2>1. UNCHANGED <<alerted, paged, silent>> /\ ~At(c, "page")
        BY <1>5 DEF TakeLock, Calls, Idle, At, pageVars, ghosts
    <2>2. Others(c)
        BY <1>5, <1>j, TakeLockJob
    <2>3. QED
        BY <1>0, <2>1, <2>2
<1>6. ASSUME NEW c \in Callers, Accepted(c) \/ AnswerLost(c)
      PROVE  l \in paged' \/ Paging'
    <2>1. UNCHANGED <<alerted, paged>>
        BY <1>6 DEF Accepted, AnswerLost, keyVars, pageVars
    <2>2. QED
        BY <1>0, <1>6, <2>1, SendMoves DEF At
<1>7. ASSUME NEW c \in Callers, Stamp(c)
      PROVE  l \in paged' \/ Paging'
    <2>1. UNCHANGED <<alerted, paged>>
        BY <1>7 DEF Stamp, keyVars, pageVars
    <2>2. QED
        BY <1>0, <1>7, <2>1, StampMoves DEF At
<1>8. CASE UNCHANGED vars
    BY <1>8, <1>j DEF vars, InCall, At, keyVars, pageVars, ghosts
<1>9. QED
    BY <1>1, <1>2, <1>3, <1>4, <1>5, <1>6, <1>7, <1>8, NextKinds

-----------------------------------------------------------------------------
(* The theorems                                                            *)

\* The inductive invariant holds at first.
LEMMA InitIInv == Init => IInv
<1> SUFFICES ASSUME Init PROVE IInv
    OBVIOUS
<1>1. Shape
    BY InitShape
<1>2. \A l \in Loans : released[l] = 0 /\ sends[l] = << >> /\ log[l] = << >>
    BY DEF Init
<1>3. \A c \in Callers : job[c].l \notin Loans /\ job[c].step = "idle"
    BY ReleaseAssumption DEF Init, Idle, NoLoan, ReleaseAssumption
<1>4. Ready
    BY <1>3 DEF Ready, At
<1>5. StampedOnce
    <2>1. ASSUME NEW l \in Loans PROVE Stamps(l) = {}
        BY <1>2 DEF Stamps, StampsIn
    <2>2. QED
        BY <1>2, <2>1, FS_EmptySet DEF StampedOnce, Stamps, StampsIn
<1>6. Exclusive
    BY <1>3 DEF Exclusive, InCall
<1>7. Accounted /\ PaidOnceUnderLock
    BY <1>2 DEF Accounted, PaidOnceUnderLock
<1>8. DedupedWasPaged
    BY DEF Init, DedupedWasPaged
<1>9. QED
    BY <1>1, <1>4, <1>5, <1>6, <1>7, <1>8 DEF IInv

\* Every step keeps it.
LEMMA NextIInv == IInv /\ [Next]_vars => IInv'
    BY NextShape, NextReady, NextStampedOnce, NextExclusive, NextAccounted, NextPaidOnce,
       NextDeduped
    DEF IInv

\* It always holds.
LEMMA Invariance == Spec => []IInv
    BY InitIInv, NextIInv, PTL DEF Spec

\* Types are kept by every action.
THEOREM TypeCorrect == Spec => []TypeOK
<1>1. IInv => TypeOK
    BY DEF IInv, Shape
<1>2. QED
    BY <1>1, Invariance, PTL

\* releaseForLoan under its Redis lock: whatever cycles and requests overlap,
\* a loan is paid a second time only past an expired lock, a silent call or a
\* critical page.
THEOREM PaidOnce == Spec => []PaidOnceUnderLock
<1>1. IInv => PaidOnceUnderLock
    BY DEF IInv
<1>2. QED
    BY <1>1, Invariance, PTL

\* updateMany with collateral_released_at: null: of all calls that sent, one
\* stamps, and the audit log has one COLLATERAL_RELEASED row.
THEOREM OneStamp == Spec => []StampedOnce
<1>1. IInv => StampedOnce
    BY DEF IInv
<1>2. QED
    BY <1>1, Invariance, PTL

\* alertCollateralReleaseSendOkStampFailed and _maybeAlertOps: a second payment
\* is paged once its calls have ended, and no dedupe key hides a page nobody
\* got, unless a call died or lost Blink's answer.
THEOREM OpsHear == Spec => []OpsAreTold
<1>1. ASSUME IInv, NEW l \in Loans, Len(sends[l]) > 1, \A c \in Callers : ~InCall(c, l)
      PROVE  l \in critical \cup silent
    <2>1. 1 \in DOMAIN sends[l] /\ 2 \in DOMAIN sends[l]
        <3>1. sends[l] \in Seq(Addresses)
            BY <1>1 DEF IInv, Shape, TypeOK
        <3>2. QED
            BY <1>1, <3>1
    <2>2. l \notin critical \cup silent => released[l] = 1 /\ released[l] = 2
        BY <1>1, <2>1 DEF IInv, Accounted, Holds
    <2>3. QED
        BY <2>2
<1>2. IInv => OpsAreTold
    BY <1>1 DEF IInv, OpsAreTold, SecondPaymentIsPaged
<1>3. QED
    BY <1>2, Invariance, PTL
=============================================================================
