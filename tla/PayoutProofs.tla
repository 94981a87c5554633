---------------------------- MODULE PayoutProofs ----------------------------
(***************************************************************************)
(* Proofs about Payout for every set of disbursements and requests, every  *)
(* number of attempts and every number of faults.                          *)
(***************************************************************************)
EXTENDS Payout, FiniteSetTheorems, TLAPS

-----------------------------------------------------------------------------
(* Calls in progress *)

Jobs == [step : Steps, d : Disbursements \cup {"none"}, n : 0 .. MaxAttempts,
         rest : SUBSET Attempts]

\* A caller's step moves its own job and nobody else's.
OnlyJob(p, new) == job'[p] = new /\ \A q \in Callers \ {p} : job'[q] = job[q]

\* Goto changes the step alone.
LEMMA GotoJob ==
    ASSUME job \in [Callers -> Jobs], NEW p \in Callers, NEW step \in Steps, Goto(p, step)
    PROVE  /\ job' \in [Callers -> Jobs]
           /\ job'[p].step = step /\ job'[p].d = job[p].d
           /\ job'[p].n = job[p].n /\ job'[p].rest = job[p].rest
           /\ \A q \in Callers \ {p} : job'[q] = job[q]
<1>1. job' = [job EXCEPT ![p] = [job[p] EXCEPT !.step = step]]
  BY DEF Goto
<1>2. [job[p] EXCEPT !.step = step] \in Jobs
  BY DEF Jobs
<1> QED BY <1>1, <1>2 DEF Jobs

\* Start gives the caller a job of its own.
LEMMA StartJob ==
    ASSUME job \in [Callers -> Jobs], NEW p \in Callers, NEW step \in Steps,
           NEW d \in Disbursements, NEW n \in 0 .. MaxAttempts, Start(p, step, d, n)
    PROVE  /\ job' \in [Callers -> Jobs]
           /\ OnlyJob(p, [step |-> step, d |-> d, n |-> n, rest |-> {}])
BY DEF Start, Jobs, OnlyJob

\* Finish leaves the caller idle.
LEMMA FinishJob ==
    ASSUME job \in [Callers -> Jobs], NEW p \in Callers, Finish(p)
    PROVE  job' \in [Callers -> Jobs] /\ OnlyJob(p, Idle)
<1>1. Idle \in Jobs
  BY PayoutAssumption DEF Idle, Jobs, Steps
<1> QED BY <1>1 DEF Finish, OnlyJob

\* What is left of an abandon starts with one of the attempts it read.
LEMMA NextFailureJob ==
    ASSUME job \in [Callers -> Jobs], NEW p \in Callers, job[p].d \in Disbursements,
           NextFailure(p)
    PROVE  /\ job' \in [Callers -> Jobs]
           /\ \A q \in Callers \ {p} : job'[q] = job[q]
           /\ \/ job'[p] = Idle
              \/ /\ job'[p].step = "fail" /\ job'[p].d = job[p].d
                 /\ job'[p].n \in job[p].rest /\ job'[p].rest \subseteq job[p].rest
<1>1. CASE job[p].rest = {}
  BY <1>1, FinishJob DEF NextFailure, OnlyJob
<1>2. CASE job[p].rest # {}
  <2>1. PICK n \in job[p].rest :
           job' = [job EXCEPT ![p] = [step |-> "fail", d |-> job[p].d, n |-> n,
                                      rest |-> job[p].rest \ {n}]]
    BY <1>2 DEF NextFailure
  <2>2. job[p].rest \subseteq Attempts
    BY DEF Jobs
  <2>3. [step |-> "fail", d |-> job[p].d, n |-> n, rest |-> job[p].rest \ {n}] \in Jobs
    BY <2>2, PayoutAssumption DEF Jobs, Steps, Attempts
  <2> QED BY <2>1, <2>3
<1> QED BY <1>1, <1>2

\* The attempts of a disbursement are finite, and counting none gives the first.
LEMMA MadeFinite ==
    ASSUME NEW d
    PROVE  IsFiniteSet(Made(d)) /\ Cardinality(Made(d)) \in Nat
<1>1. IsFiniteSet(Attempts)
  BY PayoutAssumption, FS_Interval DEF Attempts
<1>2. Made(d) \subseteq Attempts
  BY DEF Made
<1> QED BY <1>1, <1>2, FS_Subset, FS_CardinalityType

-----------------------------------------------------------------------------
(* Type correctness.  That an attempt is numbered within bounds rests on   *)
(* who may be working on a disbursement when dispatch numbers its first    *)
(* attempt: the call that made the row, and an ops cancel.                 *)

OnAttempt == {"create", "mark", "send", "sent", "fail", "hold", "page", "query",
              "succeed", "settle"}

\* A call knows its disbursement, and past the count also its attempt.
JobShape ==
    \A p \in Callers :
        /\ job[p].step \in {"idle", "recreate"} <=> job[p].d = "none"
        /\ job[p].step \in OnAttempt => job[p].n \in Attempts

NoOutflow(d) == \A n \in Attempts : outflow[<<d, n>>] = "NONE"

Fresh ==
    \A p \in Callers : At(p, "dispatch") =>
        /\ NoOutflow(job[p].d)
        /\ disbursement[job[p].d] \in {"PENDING", "CANCELLED"}
        /\ \A q \in Callers \ {p} : job[q].d = job[p].d => At(q, "cancel")

\* Nothing happens to a disbursement before its row exists.
Unused ==
    \A d \in Disbursements : disbursement[d] = "NONE" =>
        NoOutflow(d) /\ \A p \in Callers : job[p].d # d

Queued == \A o \in queue : outflow[o] # "NONE"

Shape == TypeOK /\ JobShape /\ Fresh /\ Unused /\ Queued

\* The types hold at first, and nobody is at work.
LEMMA InitShape == Init => Shape
<1> SUFFICES ASSUME Init PROVE Shape
  OBVIOUS
<1>1. Idle \in Jobs
  BY PayoutAssumption DEF Idle, Jobs, Steps
<1>2. TypeOK
  <2>1. faults \in 0 .. MaxFaults
    BY PayoutAssumption DEF Init
  <2> QED BY <1>1, <2>1 DEF Init, TypeOK, Jobs
<1>3. \A p \in Callers : job[p].step = "idle" /\ job[p].d = "none"
  BY DEF Init, Idle
<1>4. JobShape /\ Fresh
  BY <1>3 DEF JobShape, Fresh, At, OnAttempt
<1>5. \A d \in Disbursements : NoOutflow(d)
  BY DEF Init, NoOutflow, Outflows
<1>6. Unused
  BY <1>3, <1>5, PayoutAssumption DEF Unused
<1>7. Queued
  BY DEF Init, Queued
<1> QED BY <1>2, <1>4, <1>6, <1>7 DEF Shape

\* The outflow a call is working on.
LEMMA TargetType ==
    ASSUME TypeOK, JobShape, NEW p \in Callers, job[p].step \in OnAttempt
    PROVE  /\ job[p].d \in Disbursements /\ job[p].n \in Attempts
           /\ Target(p) = <<job[p].d, job[p].n>> /\ Target(p) \in Outflows
BY DEF TypeOK, JobShape, Target, Outflows, OnAttempt, Steps

\* A call past its dispatch writes rows of its own disbursement only, makes no
\* row unmade and ends or stays with its disbursement: who is at dispatch, what
\* is unused and what is queued stay as they were.
LEMMA OwnRows ==
    ASSUME Shape, NEW p \in Callers, job[p].step \in OnAttempt,
           \A q \in Callers \ {p} : job'[q] = job[q],
           job'[p].d \in {job[p].d, "none"}, job'[p].step # "dispatch",
           \A d \in Disbursements \ {job[p].d} : disbursement'[d] = disbursement[d],
           disbursement'[job[p].d] # "NONE",
           \A o \in Outflows : outflow'[o] # outflow[o] =>
               o[1] = job[p].d /\ outflow'[o] # "NONE",
           queue' = queue
    PROVE  Fresh' /\ Unused' /\ Queued'
<1>1. job[p].d \in Disbursements
  BY TargetType DEF Shape
<1>2. \A q \in Callers : At(q, "dispatch") => job[q].d # job[p].d /\ q # p
  BY <1>1 DEF Shape, Fresh, At, OnAttempt
<1>3. \A q \in Callers : At(q, "dispatch") => job[q].d \in Disbursements
  BY PayoutAssumption DEF Shape, TypeOK, JobShape, At
<1>4. \A d \in Disbursements \ {job[p].d} : NoOutflow(d) => NoOutflow(d)'
  BY DEF NoOutflow, Outflows
<1>5. Fresh'
  <2> SUFFICES ASSUME NEW q \in Callers, At(q, "dispatch")'
               PROVE  /\ NoOutflow(job[q].d)'
                      /\ disbursement'[job'[q].d] \in {"PENDING", "CANCELLED"}
                      /\ \A r \in Callers \ {q} : job'[r].d = job'[q].d => At(r, "cancel")'
    BY DEF Fresh
  <2>1. q # p /\ job'[q] = job[q] /\ At(q, "dispatch")
    BY DEF At
  <2>2. /\ job[q].d \in Disbursements \ {job[p].d}
        /\ NoOutflow(job[q].d)
        /\ disbursement[job[q].d] \in {"PENDING", "CANCELLED"}
        /\ \A r \in Callers \ {q} : job[r].d = job[q].d => At(r, "cancel")
    BY <2>1, <1>2, <1>3 DEF Shape, Fresh
  <2>3. NoOutflow(job[q].d)'
    BY <2>1, <2>2 DEF NoOutflow, Outflows
  <2>4. job'[p].d # job[q].d
    BY <2>2, PayoutAssumption
  <2> QED BY <2>1, <2>2, <2>3, <2>4 DEF At
<1>6. Unused'
  BY <1>1, <1>4, PayoutAssumption DEF Shape, Unused
<1>7. Queued'
  BY DEF Shape, TypeOK, Queued
<1> QED BY <1>5, <1>6, <1>7

\* What a step of a call past its dispatch does to the calls.
Advances(p) ==
    /\ job' \in [Callers -> Jobs]
    /\ \A q \in Callers \ {p} : job'[q] = job[q]
    /\ \/ job'[p] = Idle
       \/ /\ job'[p].step \in OnAttempt
          /\ job'[p].d = job[p].d /\ job'[p].n \in Attempts

\* What it does to the rows.
WritesOwn(p) ==
    /\ disbursement' \in [Disbursements ->
          {"NONE", "PENDING", "PROCESSING", "ON_HOLD", "SUCCESSFUL", "CANCELLED"}]
    /\ alerted' \in [Disbursements -> BOOLEAN]
    /\ outflow' \in [Outflows -> {"NONE", "PENDING", "PROCESSING", "SUCCESSFUL", "FAILED"}]
    /\ transfer' \in [Outflows -> {"none", "accepted", "paid", "rejected"}]
    /\ \A d \in Disbursements \ {job[p].d} : disbursement'[d] = disbursement[d]
    /\ disbursement'[job[p].d] # "NONE"
    /\ \A o \in Outflows : outflow'[o] # outflow[o] =>
          o[1] = job[p].d /\ outflow'[o] # "NONE"
    /\ UNCHANGED <<queue, overlapped>> /\ faults' \in 0 .. MaxFaults

\* A step on an attempt that writes its own rows alone keeps the shape.
LEMMA AttemptStep ==
    ASSUME Shape, NEW p \in Callers, job[p].step \in OnAttempt, Advances(p), WritesOwn(p)
    PROVE  Shape'
<1>0. job[p].d \in Disbursements
  BY TargetType DEF Shape
<1>1. job'[p].d \in {job[p].d, "none"} /\ job'[p].step # "dispatch"
  BY DEF Advances, Idle, OnAttempt
<1>2. Fresh' /\ Unused' /\ Queued'
  BY <1>1, OwnRows DEF Advances, WritesOwn
<1>3. TypeOK'
  BY DEF Shape, TypeOK, Advances, WritesOwn, Jobs
<1>4. JobShape'
  BY <1>0, PayoutAssumption DEF Shape, JobShape, Advances, Idle, OnAttempt
<1> QED BY <1>2, <1>3, <1>4 DEF Shape

\* Goto between two steps on an attempt, and the end of a call, advance it.
LEMMA GotoAdvances ==
    ASSUME Shape, NEW p \in Callers, job[p].step \in OnAttempt, NEW step \in OnAttempt,
           Goto(p, step) \/ Finish(p)
    PROVE  Advances(p)
<1>1. job \in [Callers -> Jobs] /\ step \in Steps
  BY DEF Shape, TypeOK, Jobs, OnAttempt, Steps
<1>2. job[p].n \in Attempts
  BY DEF Shape, JobShape
<1>3. CASE Goto(p, step)
  BY <1>1, <1>2, <1>3, GotoJob DEF Advances
<1>4. CASE Finish(p)
  BY <1>1, <1>4, FinishJob DEF Advances, OnlyJob
<1> QED BY <1>3, <1>4

\* After a failed attempt its caller goes to the next one, or ends.
LEMMA NextFailureAdvances ==
    ASSUME Shape, NEW p \in Callers, job[p].step \in OnAttempt, NextFailure(p)
    PROVE  Advances(p)
<1>1. job \in [Callers -> Jobs] /\ job[p].d \in Disbursements
  BY TargetType DEF Shape, TypeOK, Jobs
<1>2. job[p].rest \subseteq Attempts
  BY <1>1 DEF Jobs
<1> QED BY <1>1, <1>2, NextFailureJob DEF Advances, OnAttempt

\* A disbursement somebody is working on has a row.
LEMMA OwnRowExists ==
    ASSUME Shape, NEW p \in Callers, job[p].d \in Disbursements
    PROVE  disbursement[job[p].d] # "NONE"
BY DEF Shape, Unused

\* Every step of a call past its dispatch advances it, and writes its own rows.
LEMMA AttemptMoves ==
    ASSUME Shape, NEW p \in Callers, job[p].step \in OnAttempt,
           \/ CreateOutflow(p) \/ CreateConflicts(p) \/ MarkProcessing(p) \/ Initiate(p)
           \/ RecordSent(p) \/ RecordFailure(p) \/ MarkOnHold(p) \/ AlreadyOnHold(p)
           \/ PageOps(p) \/ RecordSuccess(p) \/ Settle(p) \/ Query(p) \/ CallFails(p)
    PROVE  Advances(p) /\ WritesOwn(p)
<1>1. /\ job[p].d \in Disbursements /\ Target(p) \in Outflows
      /\ Target(p) = <<job[p].d, job[p].n>>
      /\ disbursement[job[p].d] # "NONE"
      /\ TypeOK
  BY TargetType, OwnRowExists DEF Shape
<1>2. \A step \in OnAttempt : Goto(p, step) \/ Finish(p) => Advances(p)
  BY GotoAdvances
<1>3. NextFailure(p) => Advances(p)
  BY NextFailureAdvances
<1> USE <1>1 DEF WritesOwn, TypeOK, rows
<1>4. CASE CreateOutflow(p)
  <2>1. WritesOwn(p)
    BY <1>4 DEF CreateOutflow
  <2> QED BY <1>4, <2>1, <1>2 DEF CreateOutflow, OnAttempt
<1>5. CASE CreateConflicts(p)
  <2>1. WritesOwn(p)
    BY <1>5 DEF CreateConflicts
  <2> QED BY <1>5, <2>1, <1>2 DEF CreateConflicts, OnAttempt
<1>6. CASE MarkProcessing(p)
  <2>1. WritesOwn(p)
    BY <1>6 DEF MarkProcessing
  <2> QED BY <1>6, <2>1, <1>2 DEF MarkProcessing, OnAttempt
<1>7. CASE Initiate(p)
  <2>1. WritesOwn(p)
    BY <1>7 DEF Initiate
  <2> QED BY <1>7, <2>1, <1>2 DEF Initiate, OnAttempt
<1>8. CASE RecordSent(p)
  <2>1. WritesOwn(p)
    BY <1>8 DEF RecordSent
  <2> QED BY <1>8, <2>1, <1>2 DEF RecordSent, OnAttempt
<1>9. CASE RecordFailure(p)
  <2>1. WritesOwn(p)
    BY <1>9 DEF RecordFailure
  <2> QED BY <1>9, <2>1, <1>2 DEF RecordFailure, OnAttempt
<1>10. CASE MarkOnHold(p)
  <2>1. WritesOwn(p)
    BY <1>10 DEF MarkOnHold
  <2> QED BY <1>10, <2>1, <1>2 DEF MarkOnHold, OnAttempt
<1>11. CASE AlreadyOnHold(p)
  <2>1. WritesOwn(p)
    BY <1>11 DEF AlreadyOnHold
  <2> QED BY <1>11, <2>1, <1>3 DEF AlreadyOnHold
<1>12. CASE PageOps(p)
  <2>1. WritesOwn(p)
    BY <1>12 DEF PageOps, MarkOnHoldAlerted
  <2> QED BY <1>12, <2>1, <1>3 DEF PageOps
<1>13. CASE RecordSuccess(p)
  <2>1. WritesOwn(p)
    BY <1>13 DEF RecordSuccess
  <2> QED BY <1>13, <2>1, <1>2 DEF RecordSuccess, OnAttempt
<1>14. CASE Settle(p)
  <2>1. WritesOwn(p)
    BY <1>14 DEF Settle, MarkSuccessful
  <2> QED BY <1>14, <2>1, <1>2 DEF Settle, OnAttempt
<1>15. CASE Query(p)
  <2>1. WritesOwn(p)
    BY <1>15 DEF Query
  <2> QED BY <1>15, <2>1, <1>2 DEF Query, OnAttempt
<1>16. CASE CallFails(p)
  <2>1. faults' \in 0 .. MaxFaults
    BY <1>16, PayoutAssumption DEF CallFails
  <2>2. WritesOwn(p)
    BY <1>16, <2>1 DEF CallFails
  <2> QED BY <1>16, <2>2, <1>2 DEF CallFails, OnAttempt
<1> QED
  BY <1>4, <1>5, <1>6, <1>7, <1>8, <1>9, <1>10, <1>11, <1>12, <1>13, <1>14, <1>15, <1>16

\* The steps of an attempt keep the shape.
LEMMA AttemptShape ==
    ASSUME Shape, NEW p \in Callers, job[p].step \in OnAttempt,
           \/ CreateOutflow(p) \/ CreateConflicts(p) \/ MarkProcessing(p) \/ Initiate(p)
           \/ RecordSent(p) \/ RecordFailure(p) \/ MarkOnHold(p) \/ AlreadyOnHold(p)
           \/ PageOps(p) \/ RecordSuccess(p) \/ Settle(p) \/ Query(p) \/ CallFails(p)
    PROVE  Shape'
BY AttemptMoves, AttemptStep

\* A call that is over, and one whose first writes are still to come, leave
\* the others' claims on a disbursement as they were.
LEMMA EntryStep ==
    ASSUME Shape, NEW p \in Callers, NEW j \in Jobs,
           j.step \in {"idle", "recreate"} <=> j.d = "none",
           j.step \in OnAttempt => j.n \in Attempts,
           j.step # "dispatch",
           j.step # "cancel" =>
               \A q \in Callers \ {p} : At(q, "dispatch") => job[q].d # j.d,
           j.d \in Disbursements => disbursement[j.d] # "NONE",
           job' = [job EXCEPT ![p] = j],
           UNCHANGED <<outflow, disbursement, alerted, transfer>>,
           queue' \subseteq queue, faults' \in 0 .. MaxFaults,
           overlapped' \subseteq Disbursements
    PROVE  Shape'
<1>0. /\ job \in [Callers -> Jobs] /\ job' \in [Callers -> Jobs]
      /\ job'[p] = j /\ \A q \in Callers \ {p} : job'[q] = job[q]
  BY DEF Shape, TypeOK, Jobs
<1>1. TypeOK'
  BY <1>0 DEF Shape, TypeOK, Jobs
<1>2. JobShape'
  BY <1>0 DEF Shape, JobShape
<1>3. Fresh'
  <2> SUFFICES ASSUME NEW q \in Callers, At(q, "dispatch")'
               PROVE  /\ NoOutflow(job[q].d)'
                      /\ disbursement'[job'[q].d] \in {"PENDING", "CANCELLED"}
                      /\ \A r \in Callers \ {q} : job'[r].d = job'[q].d => At(r, "cancel")'
    BY DEF Fresh
  <2>1. q # p /\ job'[q] = job[q] /\ At(q, "dispatch")
    BY <1>0 DEF At
  <2>2. /\ NoOutflow(job[q].d) /\ job[q].d # "none"
        /\ disbursement[job[q].d] \in {"PENDING", "CANCELLED"}
        /\ \A r \in Callers \ {q} : job[r].d = job[q].d => At(r, "cancel")
    BY <2>1 DEF Shape, Fresh, JobShape, At
  <2>3. NoOutflow(job[q].d)'
    BY <2>1, <2>2 DEF NoOutflow
  <2>4. job'[p].d = job[q].d => At(p, "cancel")'
    BY <1>0, <2>1, <2>2 DEF At
  <2> QED BY <1>0, <2>1, <2>2, <2>3, <2>4 DEF At
<1>4. Unused'
  <2> SUFFICES ASSUME NEW d \in Disbursements, disbursement'[d] = "NONE"
               PROVE  NoOutflow(d)' /\ \A q \in Callers : job'[q].d # d
    BY DEF Unused
  <2> QED BY <1>0 DEF Shape, Unused, NoOutflow
<1>5. Queued'
  BY DEF Shape, Queued
<1> QED BY <1>1, <1>2, <1>3, <1>4, <1>5 DEF Shape

\* A disbursement with an outflow has a row.
LEMMA MadeHasRow ==
    ASSUME Shape, NEW o \in Outflows, outflow[o] # "NONE"
    PROVE  /\ o[1] \in Disbursements /\ o[2] \in Attempts /\ o = <<o[1], o[2]>>
           /\ ~NoOutflow(o[1]) /\ disbursement[o[1]] # "NONE"
<1>1. o[1] \in Disbursements /\ o[2] \in Attempts /\ o = <<o[1], o[2]>>
  BY DEF Outflows
<1>2. ~NoOutflow(o[1])
  BY <1>1 DEF NoOutflow
<1> QED BY <1>1, <1>2 DEF Shape, Unused

\* Nobody numbers the first attempt of a disbursement that has one or is held.
LEMMA DispatchingOther ==
    ASSUME Shape, NEW d \in Disbursements,
           ~NoOutflow(d) \/ disbursement[d] \notin {"PENDING", "CANCELLED"},
           NEW q \in Callers, At(q, "dispatch")
    PROVE  job[q].d # d
BY DEF Shape, Fresh

\* A caller that ends keeps it.
LEMMA EndShape ==
    ASSUME Shape, NEW p \in Callers, Finish(p),
           UNCHANGED <<rows, transfer, queue, overlapped>>, faults' \in 0 .. MaxFaults
    PROVE  Shape'
<1>1. Idle \in Jobs /\ Idle.step = "idle" /\ Idle.d = "none"
  BY PayoutAssumption DEF Idle, Jobs, Steps
<1>2. \A q \in Callers : At(q, "dispatch") => job[q].d # "none"
  BY DEF Shape, JobShape, At
<1>3. overlapped' \subseteq Disbursements
  BY DEF Shape, TypeOK
<1> QED BY <1>1, <1>2, <1>3, EntryStep, PayoutAssumption DEF Finish, rows, OnAttempt

\* The insert of a disbursement row by the call that will dispatch it.
LEMMA NewRowShape ==
    ASSUME Shape, NEW p \in Callers, NEW d \in Disbursements,
           disbursement[d] = "NONE",
           disbursement' = [disbursement EXCEPT ![d] = "PENDING"],
           Start(p, "dispatch", d, 0),
           UNCHANGED <<alerted, outflow, transfer, queue, faults>>,
           overlapped' \subseteq Disbursements
    PROVE  Shape'
<1>0. TypeOK /\ job \in [Callers -> Jobs]
  BY DEF Shape, TypeOK, Jobs
<1>1. /\ job' \in [Callers -> Jobs]
      /\ OnlyJob(p, [step |-> "dispatch", d |-> d, n |-> 0, rest |-> {}])
  BY <1>0, StartJob, PayoutAssumption DEF Steps
<1>2. NoOutflow(d) /\ \A q \in Callers : job[q].d # d
  BY DEF Shape, Unused
<1>3. TypeOK'
  BY <1>0, <1>1 DEF TypeOK, Jobs
<1>4. JobShape'
  BY <1>1, PayoutAssumption DEF Shape, JobShape, OnlyJob, OnAttempt
<1>5. Fresh'
  <2> SUFFICES ASSUME NEW q \in Callers, At(q, "dispatch")'
               PROVE  /\ NoOutflow(job[q].d)'
                      /\ disbursement'[job'[q].d] \in {"PENDING", "CANCELLED"}
                      /\ \A r \in Callers \ {q} :
                            job'[r].d = job'[q].d => At(r, "cancel")'
    BY DEF Fresh
  <2>1. CASE q = p
    BY <2>1, <1>0, <1>1, <1>2 DEF OnlyJob, NoOutflow, TypeOK
  <2>2. CASE q # p
    <3>1. job'[q] = job[q] /\ At(q, "dispatch")
      BY <2>2, <1>1 DEF OnlyJob, At
    <3>2. /\ NoOutflow(job[q].d) /\ job[q].d # d
          /\ disbursement[job[q].d] \in {"PENDING", "CANCELLED"}
          /\ \A r \in Callers \ {q} : job[r].d = job[q].d => At(r, "cancel")
      BY <3>1, <1>2 DEF Shape, Fresh
    <3>3. job[q].d \in Disbursements
      BY <3>1, <1>0 DEF Shape, JobShape, At, Jobs
    <3> QED BY <1>0, <1>1, <3>1, <3>2, <3>3 DEF OnlyJob, NoOutflow, TypeOK, At
  <2> QED BY <2>1, <2>2
<1>6. Unused'
  <2> SUFFICES ASSUME NEW e \in Disbursements, disbursement'[e] = "NONE"
               PROVE  NoOutflow(e)' /\ \A q \in Callers : job'[q].d # e
    BY DEF Unused
  <2>1. e # d /\ disbursement[e] = "NONE"
    BY <1>0 DEF TypeOK
  <2> QED BY <2>1, <1>1 DEF Shape, Unused, OnlyJob, NoOutflow
<1>7. Queued'
  BY DEF Shape, Queued
<1> QED BY <1>3, <1>4, <1>5, <1>6, <1>7 DEF Shape

\* The steps of a call before and at its dispatch, and of an ops cancel.
LEMMA EarlyShape ==
    ASSUME Shape, NEW p \in Callers,
           \/ \E d \in Disbursements : Recreate(p, d)
           \/ DispatchSkips(p) \/ DispatchReads(p) \/ CancelWrite(p)
           \/ CallFails(p) /\ job[p].step \notin OnAttempt
    PROVE  Shape'
<1>0. TypeOK /\ job \in [Callers -> Jobs]
  BY DEF Shape, TypeOK, Jobs
<1>1. ASSUME NEW d \in Disbursements, Recreate(p, d) PROVE Shape'
  BY <1>0, <1>1, NewRowShape DEF Recreate, TypeOK
<1>2. CASE DispatchSkips(p)
  BY <1>2, <1>0, EndShape DEF DispatchSkips, TypeOK
<1>3. CASE DispatchReads(p)
  <2> DEFINE j == [step |-> "create", d |-> job[p].d, n |-> 1, rest |-> {}]
  <2>1. /\ job[p].d \in Disbursements /\ NoOutflow(job[p].d)
        /\ \A q \in Callers \ {p} : At(q, "dispatch") => job[q].d # job[p].d
    BY <1>0, <1>3 DEF DispatchReads, Shape, Fresh, JobShape, At, Jobs
  <2>2. Made(job[p].d) = {}
    BY <2>1 DEF NoOutflow, Made
  <2>3. NextAttempt(job[p].d) = 1
    BY <2>2, FS_EmptySet DEF NextAttempt
  <2>4. j \in Jobs /\ j.n \in Attempts
    BY <2>1, PayoutAssumption DEF Jobs, Steps, Attempts
  <2>5. job' = [job EXCEPT ![p] = j] /\ UNCHANGED <<rows, transfer, queue, faults, overlapped>>
    BY <1>3, <2>3 DEF DispatchReads, Start
  <2>6. disbursement[j.d] # "NONE" /\ j.d # "none" /\ j.d = job[p].d /\ j.step = "create"
    BY <2>1, OwnRowExists, PayoutAssumption
  <2>7. faults' \in 0 .. MaxFaults /\ overlapped' \subseteq Disbursements
    BY <2>5, <1>0 DEF TypeOK
  <2> HIDE DEF j
  <2> QED BY <2>1, <2>4, <2>5, <2>6, <2>7, EntryStep DEF rows
<1>4. CASE CancelWrite(p)
  <2>0. job[p].d \in Disbursements
    BY <1>0, <1>4 DEF CancelWrite, Shape, JobShape, At, Jobs
  <2>1. job' \in [Callers -> Jobs] /\ OnlyJob(p, Idle) /\ Idle.step = "idle" /\ Idle.d = "none"
    BY <1>0, <1>4, FinishJob DEF CancelWrite, Idle
  <2>2. /\ disbursement'[job[p].d] = "CANCELLED"
        /\ \A d \in Disbursements \ {job[p].d} : disbursement'[d] = disbursement[d]
        /\ UNCHANGED <<alerted, outflow, transfer, queue, faults, overlapped>>
    BY <1>0, <1>4, <2>0 DEF CancelWrite, TypeOK
  <2>3. TypeOK'
    BY <1>0, <1>4, <2>1 DEF CancelWrite, TypeOK, Jobs
  <2>4. JobShape'
    BY <2>1 DEF Shape, JobShape, OnlyJob, OnAttempt
  <2>5. Fresh'
    <3> SUFFICES ASSUME NEW q \in Callers, At(q, "dispatch")'
                 PROVE  /\ NoOutflow(job[q].d)'
                        /\ disbursement'[job'[q].d] \in {"PENDING", "CANCELLED"}
                        /\ \A r \in Callers \ {q} :
                              job'[r].d = job'[q].d => At(r, "cancel")'
      BY DEF Fresh
    <3>1. q # p /\ job'[q] = job[q] /\ At(q, "dispatch")
      BY <2>1 DEF OnlyJob, At
    <3>2. /\ NoOutflow(job[q].d) /\ job[q].d \in Disbursements /\ job[q].d # "none"
          /\ disbursement[job[q].d] \in {"PENDING", "CANCELLED"}
          /\ \A r \in Callers \ {q} : job[r].d = job[q].d => At(r, "cancel")
      BY <3>1, <1>0 DEF Shape, Fresh, JobShape, At, Jobs
    <3> QED BY <2>1, <2>2, <3>1, <3>2 DEF OnlyJob, NoOutflow, At
  <2>6. Unused'
    <3> SUFFICES ASSUME NEW e \in Disbursements, disbursement'[e] = "NONE"
                 PROVE  NoOutflow(e)' /\ \A q \in Callers : job'[q].d # e
      BY DEF Unused
    <3>1. disbursement[e] = "NONE"
      BY <2>2
    <3> QED BY <3>1, <2>1, <2>2, PayoutAssumption DEF Shape, Unused, OnlyJob, NoOutflow
  <2>7. Queued'
    BY <2>2 DEF Shape, Queued
  <2> QED BY <2>3, <2>4, <2>5, <2>6, <2>7 DEF Shape
<1>5. CASE CallFails(p)
  <2>1. faults' \in 0 .. MaxFaults
    BY <1>5, <1>0, PayoutAssumption DEF CallFails, TypeOK
  <2> QED BY <1>5, <2>1, EndShape DEF CallFails
<1> QED BY <1>1, <1>2, <1>3, <1>4, <1>5

\* A request that arrives, or a row the reconciler takes up.
LEMMA ArrivalShape ==
    ASSUME Shape,
           \/ \E r \in Requests, d \in Disbursements :
                 CreateForLoan(r, d) \/ Retry(r, d) \/ CancelRead(r, d) \/ AbandonAttempt(r, d)
           \/ \E r \in Requests : RecreateRead(r)
           \/ \E r \in Requests, o \in Outflows : Notify(r, o)
           \/ \E o \in Outflows : Probe(o)
    PROVE  Shape'
<1>0. TypeOK /\ job \in [Callers -> Jobs] /\ Requests \subseteq Callers /\ Worker \in Callers
  BY DEF Shape, TypeOK, Jobs, Callers
<1>1. \A r, d : Arrive(r, d) /\ d \in Disbursements => overlapped' \subseteq Disbursements
  BY <1>0 DEF Arrive, TypeOK
<1>2. ASSUME NEW r \in Requests, NEW d \in Disbursements, CreateForLoan(r, d) PROVE Shape'
  <2>1. disbursement[d] = "NONE" /\ overlapped' \subseteq Disbursements
    BY <1>1, <1>2 DEF CreateForLoan
  <2> QED BY <1>0, <1>2, <2>1, NewRowShape DEF CreateForLoan
<1>3. ASSUME NEW r \in Requests, NEW d \in Disbursements, Retry(r, d) PROVE Shape'
  <2> DEFINE j == [step |-> "create", d |-> d, n |-> NextAttempt(d), rest |-> {}]
  <2>1. disbursement[d] = "ON_HOLD" /\ overlapped' \subseteq Disbursements
    BY <1>1, <1>3 DEF Retry, Retriable
  <2>2. NextAttempt(d) \in Attempts /\ NextAttempt(d) \in 0 .. MaxAttempts
    BY <1>3, MadeFinite, PayoutAssumption DEF Retry, NextAttempt, Attempts
  <2>3. j \in Jobs /\ j.step = "create" /\ j.d = d /\ j.n \in Attempts
    BY <2>2 DEF Jobs, Steps
  <2>4. \A q \in Callers \ {r} : At(q, "dispatch") => job[q].d # d
    BY <2>1, DispatchingOther
  <2>5. /\ job' = [job EXCEPT ![r] = j]
        /\ UNCHANGED <<rows, transfer, queue, faults>>
    BY <1>3 DEF Retry, Start
  <2>6. faults' \in 0 .. MaxFaults
    BY <1>0, <2>5 DEF TypeOK
  <2> HIDE DEF j
  <2> QED BY <1>0, <2>1, <2>3, <2>4, <2>5, <2>6, EntryStep, PayoutAssumption DEF rows
<1>4. ASSUME NEW r \in Requests, NEW d \in Disbursements, CancelRead(r, d) PROVE Shape'
  <2> DEFINE j == [step |-> "cancel", d |-> d, n |-> 0, rest |-> {}]
  <2>1. disbursement[d] # "NONE" /\ overlapped' \subseteq Disbursements
    BY <1>1, <1>4 DEF CancelRead
  <2>2. j \in Jobs /\ j.step = "cancel" /\ j.d = d
    BY PayoutAssumption DEF Jobs, Steps
  <2>3. /\ job' = [job EXCEPT ![r] = j]
        /\ UNCHANGED <<rows, transfer, queue, faults>>
    BY <1>4 DEF CancelRead, Start
  <2>4. faults' \in 0 .. MaxFaults
    BY <1>0, <2>3 DEF TypeOK
  <2> HIDE DEF j
  <2> QED BY <1>0, <2>1, <2>2, <2>3, <2>4, EntryStep, PayoutAssumption DEF rows, OnAttempt
<1>5. ASSUME NEW r \in Requests, NEW d \in Disbursements, AbandonAttempt(r, d) PROVE Shape'
  <2>0. PICK n \in Active(d) :
           job' = [job EXCEPT ![r] = [step |-> "fail", d |-> d, n |-> n,
                                      rest |-> Active(d) \ {n}]]
    BY <1>5 DEF AbandonAttempt
  <2> DEFINE j == [step |-> "fail", d |-> d, n |-> n, rest |-> Active(d) \ {n}]
  <2>1. disbursement[d] # "NONE" /\ overlapped' \subseteq Disbursements
    BY <1>1, <1>5 DEF AbandonAttempt
  <2>2. Active(d) \subseteq Attempts /\ ~NoOutflow(d)
    BY DEF Active, NoOutflow
  <2>3. j \in Jobs /\ j.step = "fail" /\ j.d = d /\ j.n \in Attempts
    BY <2>2, PayoutAssumption DEF Jobs, Steps, Attempts
  <2>4. \A q \in Callers \ {r} : At(q, "dispatch") => job[q].d # d
    BY <2>2, DispatchingOther
  <2>5. /\ job' = [job EXCEPT ![r] = j]
        /\ UNCHANGED <<rows, transfer, queue, faults>>
    BY <1>5, <2>0 DEF AbandonAttempt
  <2>6. faults' \in 0 .. MaxFaults
    BY <1>0, <2>5 DEF TypeOK
  <2> HIDE DEF j
  <2> QED BY <1>0, <2>1, <2>3, <2>4, <2>5, <2>6, EntryStep, PayoutAssumption DEF rows
<1>6. ASSUME NEW r \in Requests, RecreateRead(r) PROVE Shape'
  <2> DEFINE j == [job[r] EXCEPT !.step = "recreate"]
  <2>1. job[r].d = "none" /\ job[r] \in Jobs
    BY <1>0, <1>6 DEF RecreateRead, Shape, JobShape, At
  <2>2. j \in Jobs /\ j.step = "recreate" /\ j.d = "none"
    BY <2>1 DEF Jobs, Steps
  <2>3. /\ job' = [job EXCEPT ![r] = j]
        /\ UNCHANGED <<rows, transfer, queue, faults, overlapped>>
    BY <1>6 DEF RecreateRead, Goto
  <2>4. faults' \in 0 .. MaxFaults /\ overlapped' \subseteq Disbursements
    BY <1>0, <2>3 DEF TypeOK
  <2>5. \A q \in Callers : At(q, "dispatch") => job[q].d # "none"
    BY DEF Shape, JobShape, At
  <2> HIDE DEF j
  <2> QED BY <1>0, <2>2, <2>3, <2>4, <2>5, EntryStep, PayoutAssumption DEF rows, OnAttempt
<1>7. ASSUME NEW r \in Callers, NEW o \in Outflows, outflow[o] # "NONE",
             Start(r, "query", o[1], o[2]),
             UNCHANGED <<rows, transfer, faults>>, queue' \subseteq queue,
             overlapped' \subseteq Disbursements
      PROVE Shape'
  <2> DEFINE j == [step |-> "query", d |-> o[1], n |-> o[2], rest |-> {}]
  <2>1. /\ o[1] \in Disbursements /\ o[2] \in Attempts
        /\ ~NoOutflow(o[1]) /\ disbursement[o[1]] # "NONE"
    BY <1>7, MadeHasRow
  <2>2. j \in Jobs /\ j.step = "query" /\ j.d = o[1] /\ j.n \in Attempts
    BY <2>1, PayoutAssumption DEF Jobs, Steps, Attempts
  <2>3. \A q \in Callers \ {r} : At(q, "dispatch") => job[q].d # o[1]
    BY <2>1, DispatchingOther
  <2>4. job' = [job EXCEPT ![r] = j]
    BY <1>7 DEF Start
  <2>5. faults' \in 0 .. MaxFaults
    BY <1>0, <1>7 DEF TypeOK
  <2> HIDE DEF j
  <2> QED BY <1>7, <2>1, <2>2, <2>3, <2>4, <2>5, EntryStep, PayoutAssumption DEF rows
<1>8. ASSUME NEW r \in Requests, NEW o \in Outflows, Notify(r, o) PROVE Shape'
  <2>1. o[1] \in Disbursements
    BY DEF Outflows
  <2>2. overlapped' \subseteq Disbursements
    BY <1>1, <1>8, <2>1 DEF Notify
  <2> QED BY <1>0, <1>7, <1>8, <2>2 DEF Notify
<1>9. ASSUME NEW o \in Outflows, Probe(o) PROVE Shape'
  <2>1. outflow[o] # "NONE"
    BY <1>9 DEF Probe, Shape, Queued
  <2>2. overlapped' \subseteq Disbursements
    BY <1>0, <1>9 DEF Probe, TypeOK
  <2> QED BY <1>0, <1>7, <1>9, <2>1, <2>2 DEF Probe
<1> QED BY <1>2, <1>3, <1>4, <1>5, <1>6, <1>8, <1>9

\* Every step keeps the shape.
LEMMA StepShape == Shape /\ [Next]_vars => Shape'
<1> SUFFICES ASSUME Shape, [Next]_vars PROVE Shape'
  OBVIOUS
<1>1. CASE SelectStale
  <2>1. TypeOK'
    BY <1>1 DEF SelectStale, Stale, Shape, TypeOK, Outflows, rows
  <2>2. JobShape' /\ Queued'
    BY <1>1 DEF SelectStale, Stale, Shape, JobShape, Queued, rows
  <2>3. Fresh' /\ Unused'
    BY <1>1 DEF SelectStale, Shape, Fresh, Unused, NoOutflow, At, rows
  <2> QED BY <2>1, <2>2, <2>3 DEF Shape
<1>2. ASSUME NEW o \in Outflows, Decide(o) PROVE Shape'
  <2>1. TypeOK'
    BY <1>2 DEF Decide, Shape, TypeOK, rows
  <2>2. JobShape' /\ Queued' /\ Fresh' /\ Unused'
    BY <1>2 DEF Decide, Shape, JobShape, Queued, Fresh, Unused, NoOutflow, At, rows
  <2> QED BY <2>1, <2>2 DEF Shape
<1>3. ASSUME NEW p \in Callers, Step(p) \/ CallFails(p) PROVE Shape'
  <2>1. CASE job[p].step \in OnAttempt
    <3>1. ~(\E d \in Disbursements : Recreate(p, d)) /\ ~DispatchSkips(p)
          /\ ~DispatchReads(p) /\ ~CancelWrite(p)
      BY <2>1 DEF Recreate, DispatchSkips, DispatchReads, CancelWrite, At, OnAttempt
    <3> QED BY <1>3, <2>1, <3>1, AttemptShape DEF Step
  <2>2. CASE job[p].step \notin OnAttempt
    <3>1. /\ ~CreateOutflow(p) /\ ~CreateConflicts(p) /\ ~MarkProcessing(p) /\ ~Initiate(p)
          /\ ~RecordSent(p) /\ ~RecordFailure(p) /\ ~MarkOnHold(p) /\ ~AlreadyOnHold(p)
          /\ ~PageOps(p) /\ ~RecordSuccess(p) /\ ~Settle(p) /\ ~Query(p)
      BY <2>2 DEF CreateOutflow, CreateConflicts, MarkProcessing, Initiate, RecordSent,
         RecordFailure, MarkOnHold, AlreadyOnHold, PageOps, RecordSuccess, Settle, Query,
         At, OnAttempt
    <3> QED BY <1>3, <2>2, <3>1, EarlyShape DEF Step
  <2> QED BY <2>1, <2>2
<1>4. CASE UNCHANGED vars
  BY <1>4 DEF vars, rows, Shape, TypeOK, JobShape, Queued, Fresh, Unused, NoOutflow, At
<1> QED BY <1>1, <1>2, <1>3, <1>4, ArrivalShape DEF Next

\* It always holds.
LEMMA ShapeInvariant == Spec => []Shape
BY InitShape, StepShape, PTL DEF Spec

\* Every state of every behaviour is well typed: no attempt is numbered past
\* the bound, whoever counts the attempts made.
THEOREM TypeCorrect == Spec => []TypeOK
BY ShapeInvariant, PTL DEF Shape

-----------------------------------------------------------------------------
(* References and books.  ReferenceUsedOnce is inductive once a reference  *)
(* nobody made is known to be unknown to PalmPay, and one being sent to be *)
(* in the outflows.  The books follow: what a call learnt from PalmPay     *)
(* stays true, for a paid transfer's reference is never sent again.        *)

InTransit == {"mark", "send", "sent"}

UnmadeUnknown == \A o \in Outflows : outflow[o] = "NONE" => transfer[o] = "none"

TransitMade ==
    \A p \in Callers : job[p].step \in InTransit => outflow[Target(p)] # "NONE"

LearntPaid ==
    \A p \in Callers : job[p].step \in {"succeed", "settle"} => transfer[Target(p)] = "paid"

Safe == UnmadeUnknown /\ TransitMade /\ ReferenceUsedOnce /\ LearntPaid /\ BooksMatchProvider

\* No reference is used at first.
LEMMA InitSafe == Init => Safe
BY DEF Init, Safe, UnmadeUnknown, TransitMade, ReferenceUsedOnce, LearntPaid,
   BooksMatchProvider, Idle, InTransit

\* A step of p that touches neither PalmPay nor the transit of a reference, and
\* settles nothing.
Calm(p) ==
    /\ \A q \in Callers \ {p} : job'[q] = job[q]
    /\ job'[p].step \notin InTransit \cup {"succeed", "settle"}
    /\ transfer' = transfer
    /\ \A o \in Outflows : outflow'[o] # outflow[o] => outflow'[o] \in {"PROCESSING", "FAILED"}
    /\ \A d \in Disbursements :
          disbursement'[d] # disbursement[d] => disbursement'[d] # "SUCCESSFUL"

\* A calm step keeps the books behind the bank.
LEMMA CalmSafe ==
    ASSUME Shape, Safe, NEW p \in Callers, Calm(p)
    PROVE  Safe'
<1>1. ASSUME NEW q \in Callers, job'[q].step \in InTransit \cup {"succeed", "settle"}
      PROVE  /\ q # p /\ job'[q] = job[q] /\ Target(q) \in Outflows
             /\ <<job'[q].d, job'[q].n>> = Target(q)
  <2>1. q # p /\ job'[q] = job[q]
    BY <1>1 DEF Calm
  <2> QED BY <1>1, <2>1, TargetType DEF Shape, InTransit, OnAttempt
<1>2. UnmadeUnknown'
  BY DEF Safe, UnmadeUnknown, Calm
<1>3. TransitMade'
  BY <1>1 DEF Safe, TransitMade, Calm, Target
<1>4. ReferenceUsedOnce'
  BY <1>1 DEF Safe, ReferenceUsedOnce, Calm, Target, InTransit
<1>5. LearntPaid'
  BY <1>1 DEF Safe, LearntPaid, Calm, Target
<1>6. BooksMatchProvider'
  BY DEF Safe, BooksMatchProvider, Calm
<1> QED BY <1>2, <1>3, <1>4, <1>5, <1>6 DEF Safe

\* Most steps are calm.
LEMMA CalmSteps ==
    ASSUME Shape, NEW p \in Callers,
           \/ \E d \in Disbursements :
                 CreateForLoan(p, d) \/ Retry(p, d) \/ CancelRead(p, d) \/ AbandonAttempt(p, d)
                 \/ Recreate(p, d)
           \/ \E o \in Outflows : Notify(p, o)
           \/ p = Worker /\ \E o \in Outflows : Probe(o)
           \/ RecreateRead(p) \/ DispatchSkips(p) \/ DispatchReads(p) \/ CreateConflicts(p)
           \/ RecordSent(p) \/ RecordFailure(p) \/ MarkOnHold(p) \/ AlreadyOnHold(p)
           \/ PageOps(p) \/ CancelWrite(p) \/ CallFails(p)
    PROVE  Calm(p)
<1>0. job \in [Callers -> Jobs] /\ TypeOK
  BY DEF Shape, TypeOK, Jobs
<1> USE <1>0 DEF Calm, InTransit, Idle, rows, Start, Finish, Goto
<1>1. CASE \E d \in Disbursements :
             CreateForLoan(p, d) \/ Retry(p, d) \/ CancelRead(p, d) \/ Recreate(p, d)
  BY <1>1 DEF CreateForLoan, Retry, CancelRead, Recreate, TypeOK
<1>2. CASE \E d \in Disbursements : AbandonAttempt(p, d)
  BY <1>2 DEF AbandonAttempt
<1>3. CASE \E o \in Outflows : Notify(p, o)
  BY <1>3 DEF Notify
<1>4. CASE p = Worker /\ \E o \in Outflows : Probe(o)
  BY <1>4 DEF Probe
<1>5. CASE RecreateRead(p)
  BY <1>5 DEF RecreateRead, Jobs
<1>6. CASE DispatchSkips(p) \/ CreateConflicts(p) \/ CallFails(p)
  BY <1>6 DEF DispatchSkips, CreateConflicts, CallFails
<1>7. CASE DispatchReads(p)
  BY <1>7 DEF DispatchReads
<1>8. CASE RecordSent(p)
  BY <1>8 DEF RecordSent, TypeOK
<1>9. CASE RecordFailure(p)
  BY <1>9 DEF RecordFailure, TypeOK, Jobs
<1>10. CASE MarkOnHold(p)
  BY <1>10 DEF MarkOnHold, TypeOK, Jobs
<1>11. CASE AlreadyOnHold(p) \/ PageOps(p)
  <2>1. job[p].d \in Disbursements /\ NextFailure(p)
    BY <1>11, TargetType DEF AlreadyOnHold, PageOps, Shape, At, OnAttempt
  <2>2. /\ \A q \in Callers \ {p} : job'[q] = job[q]
        /\ job'[p] = Idle \/ job'[p].step = "fail"
    BY <2>1, NextFailureJob
  <2> QED BY <1>11, <2>2 DEF AlreadyOnHold, PageOps
<1>12. CASE CancelWrite(p)
  BY <1>12 DEF CancelWrite, TypeOK
<1> QED BY <1>1, <1>2, <1>3, <1>4, <1>5, <1>6, <1>7, <1>8, <1>9, <1>10, <1>11, <1>12

\* The others keep the references and the books.
LEMMA StepSafe == Shape /\ Safe /\ [Next]_vars => Safe'
<1> SUFFICES ASSUME Shape, Safe, [Next]_vars PROVE Safe'
  OBVIOUS
<1>0. job \in [Callers -> Jobs] /\ TypeOK /\ Requests \subseteq Callers /\ Worker \in Callers
  BY DEF Shape, TypeOK, Jobs, Callers
<1>1. ASSUME NEW p \in Callers, CreateOutflow(p) PROVE Safe'
  <2>1. /\ Target(p) \in Outflows /\ outflow[Target(p)] = "NONE"
        /\ transfer[Target(p)] = "none" /\ job'[p].step = "mark"
        /\ job'[p].d = job[p].d /\ job'[p].n = job[p].n
        /\ \A q \in Callers \ {p} : job'[q] = job[q]
        /\ UNCHANGED <<transfer, disbursement>>
    BY <1>0, <1>1, TargetType, GotoJob
       DEF CreateOutflow, ReferenceFree, Safe, UnmadeUnknown, Shape, At, OnAttempt, Steps
  <2>2. /\ outflow'[Target(p)] = "PENDING"
        /\ \A o \in Outflows \ {Target(p)} : outflow'[o] = outflow[o]
    BY <1>0, <1>1, <2>1 DEF CreateOutflow, TypeOK
  <2>3. \A q \in Callers : job[q].step \in InTransit => Target(q) # Target(p)
    BY <2>1 DEF Safe, TransitMade
  <2>4. \A q \in Callers : job[q].step \in OnAttempt => Target(q) \in Outflows
    BY TargetType DEF Shape
  <2>5. UnmadeUnknown' /\ BooksMatchProvider'
    BY <2>1, <2>2 DEF Safe, UnmadeUnknown, BooksMatchProvider
  <2>6. TransitMade' /\ LearntPaid'
    BY <2>1, <2>2, <2>4 DEF Safe, TransitMade, LearntPaid, Target, InTransit, OnAttempt
  <2>7. ReferenceUsedOnce'
    BY <2>1, <2>3 DEF Safe, ReferenceUsedOnce, Target, InTransit
  <2> QED BY <2>5, <2>6, <2>7 DEF Safe
<1>2. ASSUME NEW p \in Callers, MarkProcessing(p) PROVE Safe'
  <2>1. /\ job[p].step = "mark" /\ job'[p].step = "send"
        /\ job'[p].d = job[p].d /\ job'[p].n = job[p].n
        /\ \A q \in Callers \ {p} : job'[q] = job[q]
        /\ UNCHANGED <<outflow, transfer>>
    BY <1>0, <1>2, GotoJob DEF MarkProcessing, At, Steps
  <2>2. \A d \in Disbursements :
           disbursement'[d] # disbursement[d] => disbursement'[d] # "SUCCESSFUL"
    BY <1>0, <1>2 DEF MarkProcessing, TypeOK
  <2>3. UnmadeUnknown' /\ BooksMatchProvider'
    BY <2>1, <2>2 DEF Safe, UnmadeUnknown, BooksMatchProvider
  <2>4. TransitMade' /\ LearntPaid'
    BY <2>1 DEF Safe, TransitMade, LearntPaid, Target, InTransit
  <2>5. ReferenceUsedOnce'
    BY <2>1 DEF Safe, ReferenceUsedOnce, Target
  <2> QED BY <2>3, <2>4, <2>5 DEF Safe
<1>3. ASSUME NEW p \in Callers, Initiate(p) PROVE Safe'
  <2>1. /\ job[p].step = "send" /\ job'[p].step \in {"sent", "fail"}
        /\ job'[p].d = job[p].d /\ job'[p].n = job[p].n
        /\ \A q \in Callers \ {p} : job'[q] = job[q]
        /\ UNCHANGED <<outflow, disbursement>>
    BY <1>0, <1>3, GotoJob DEF Initiate, At, Steps, rows
  <2>2. /\ Target(p) \in Outflows /\ outflow[Target(p)] # "NONE"
        /\ transfer[Target(p)] = "none"
    BY <2>1, TargetType
       DEF Shape, OnAttempt, Safe, TransitMade, ReferenceUsedOnce, InTransit
  <2>3. /\ \A o \in Outflows \ {Target(p)} : transfer'[o] = transfer[o]
        /\ \A o \in Outflows : transfer[o] = "paid" => transfer'[o] = "paid"
    BY <1>0, <1>3, <2>2 DEF Initiate, TypeOK
  <2>4. \A q \in Callers : job[q].step \in OnAttempt => Target(q) \in Outflows
    BY TargetType DEF Shape
  <2>5. \A q \in Callers \ {p} : job[q].step \in {"mark", "send"} => Target(q) # Target(p)
    BY <2>1 DEF Safe, ReferenceUsedOnce
  <2>6. UnmadeUnknown'
    BY <2>1, <2>2, <2>3 DEF Safe, UnmadeUnknown
  <2>7. BooksMatchProvider'
    BY <2>1, <2>3 DEF Safe, BooksMatchProvider, Outflows
  <2>8. TransitMade'
    BY <2>1 DEF Safe, TransitMade, Target, InTransit
  <2>9. LearntPaid'
    BY <2>1, <2>3, <2>4 DEF Safe, LearntPaid, Target, OnAttempt
  <2>10. ReferenceUsedOnce'
    BY <2>1, <2>3, <2>4, <2>5 DEF Safe, ReferenceUsedOnce, Target, OnAttempt
  <2> QED BY <2>6, <2>7, <2>8, <2>9, <2>10 DEF Safe
<1>4. ASSUME NEW p \in Callers, RecordSuccess(p) \/ Query(p) \/ Settle(p) PROVE Safe'
  <2>1. /\ job[p].step \in {"query", "succeed", "settle"}
        /\ Target(p) \in Outflows /\ Target(p) = <<job[p].d, job[p].n>>
        /\ job[p].d \in Disbursements /\ job[p].n \in Attempts
        /\ job[p].step # "query" => transfer[Target(p)] = "paid"
    BY <1>4, TargetType
       DEF RecordSuccess, Query, Settle, At, Shape, OnAttempt, Safe, LearntPaid
  <2>2. /\ \A q \in Callers \ {p} : job'[q] = job[q]
        /\ \/ job'[p].step \in {"fail", "idle"}
           \/ /\ job'[p].step \in {"succeed", "settle"} /\ transfer[Target(p)] = "paid"
              /\ job'[p].d = job[p].d /\ job'[p].n = job[p].n
        /\ transfer' = transfer
    BY <1>0, <1>4, <2>1, GotoJob, FinishJob
       DEF RecordSuccess, Query, Settle, Confirmed, Steps, OnlyJob, Idle, At
  <2>3. /\ \A o \in Outflows : outflow'[o] # outflow[o] =>
             o = Target(p) /\ outflow'[o] = "SUCCESSFUL" /\ transfer[o] = "paid"
        /\ \A d \in Disbursements : disbursement'[d] # disbursement[d] =>
             d = job[p].d /\ transfer[Target(p)] = "paid"
    BY <1>0, <1>4, <2>1 DEF RecordSuccess, Query, Settle, MarkSuccessful, TypeOK, rows, At
  <2>4. \A q \in Callers : job[q].step \in OnAttempt => Target(q) \in Outflows
    BY TargetType DEF Shape
  <2>5. UnmadeUnknown' /\ BooksMatchProvider'
    BY <2>1, <2>2, <2>3 DEF Safe, UnmadeUnknown, BooksMatchProvider
  <2>6. TransitMade' /\ LearntPaid' /\ ReferenceUsedOnce'
    <3>1. TransitMade'
      BY <2>2, <2>3, <2>4 DEF Safe, TransitMade, Target, InTransit, OnAttempt
    <3>2. LearntPaid'
      BY <2>2 DEF Safe, LearntPaid, Target
    <3>3. ReferenceUsedOnce'
      BY <2>2 DEF Safe, ReferenceUsedOnce, Target
    <3> QED BY <3>1, <3>2, <3>3
  <2> QED BY <2>5, <2>6 DEF Safe
<1>5. ASSUME NEW o \in Outflows, Decide(o) PROVE Safe'
  <2>1. /\ UNCHANGED <<job, outflow, disbursement>> /\ transfer[o] = "accepted"
        /\ \A x \in Outflows \ {o} : transfer'[x] = transfer[x]
    BY <1>0, <1>5 DEF Decide, rows, TypeOK
  <2>2. \A q \in Callers : job[q].step \in OnAttempt => Target(q) \in Outflows
    BY TargetType DEF Shape
  <2>3. UnmadeUnknown' /\ BooksMatchProvider'
    BY <2>1 DEF Safe, UnmadeUnknown, BooksMatchProvider, Outflows
  <2>4. TransitMade' /\ LearntPaid'
    BY <2>1, <2>2 DEF Safe, TransitMade, LearntPaid, Target, OnAttempt
  <2>5. ReferenceUsedOnce'
    BY <2>1, <2>2 DEF Safe, ReferenceUsedOnce, Target, OnAttempt
  <2> QED BY <2>3, <2>4, <2>5 DEF Safe
<1>6. CASE SelectStale \/ UNCHANGED vars
  <2>1. UNCHANGED <<job, outflow, disbursement, transfer>>
    BY <1>6 DEF SelectStale, vars, rows
  <2> QED BY <2>1 DEF Safe, UnmadeUnknown, TransitMade, ReferenceUsedOnce, LearntPaid,
               BooksMatchProvider, Target
<1>7. CASE \E p \in Callers : Calm(p)
  BY <1>7, CalmSafe
<1> QED
  BY <1>0, <1>1, <1>2, <1>3, <1>4, <1>5, <1>6, <1>7, CalmSteps DEF Next, Step

\* They always are.
LEMMA SafeInvariant == Spec => [](Shape /\ Safe)
BY InitShape, StepShape, InitSafe, StepSafe, PTL DEF Spec

\* Of two retries that count the same attempts only one reaches PalmPay, and
\* no reference reaches it twice.
THEOREM OneUsePerReference == Spec => []ReferenceUsedOnce
BY SafeInvariant, PTL DEF Safe

\* The books never run ahead of the bank, however webhook, reconciler,
\* dispatch and ops interleave and fail.
THEOREM BooksBehindBank == Spec => []BooksMatchProvider
BY SafeInvariant, PTL DEF Safe

-----------------------------------------------------------------------------
(* Paging.  HeldIsPaged is inductive as it stands: the writer whose update *)
(* put the disbursement on hold owes the page, and only the page, a failed *)
(* call or the end of the hold takes that debt away.                       *)

\* A step that puts nothing on hold, takes no stamp and pays no debt.
NoPage(p) ==
    /\ job[p].step # "page" /\ \A q \in Callers \ {p} : job'[q] = job[q]
    /\ UNCHANGED <<alerted, faults>>
    /\ \A d \in Disbursements :
          disbursement'[d] # disbursement[d] => disbursement'[d] # "ON_HOLD"

\* Steps that hold nothing and page nobody keep the duty to page.
LEMMA NoPageHeld ==
    ASSUME HeldIsPaged, NEW p \in Callers, NoPage(p)
    PROVE  HeldIsPaged'
BY DEF HeldIsPaged, NoPage, At

\* These are such steps.
LEMMA NoPageSteps ==
    ASSUME Shape, NEW p \in Callers,
           \/ \E d \in Disbursements :
                 CreateForLoan(p, d) \/ Retry(p, d) \/ CancelRead(p, d) \/ AbandonAttempt(p, d)
                 \/ Recreate(p, d)
           \/ \E o \in Outflows : Notify(p, o)
           \/ p = Worker /\ \E o \in Outflows : Probe(o)
           \/ RecreateRead(p) \/ DispatchSkips(p) \/ DispatchReads(p) \/ CreateConflicts(p)
           \/ CreateOutflow(p) \/ Initiate(p) \/ RecordSent(p) \/ RecordFailure(p)
           \/ AlreadyOnHold(p) \/ RecordSuccess(p) \/ Settle(p) \/ Query(p) \/ CancelWrite(p)
    PROVE  NoPage(p)
<1>0. job \in [Callers -> Jobs] /\ TypeOK
  BY DEF Shape, TypeOK, Jobs
<1> USE <1>0 DEF NoPage, Idle, rows, Start, Finish, Goto, At, Arrive
<1>1. CASE \E d \in Disbursements :
             CreateForLoan(p, d) \/ Retry(p, d) \/ CancelRead(p, d) \/ Recreate(p, d)
  BY <1>1 DEF CreateForLoan, Retry, CancelRead, Recreate, TypeOK
<1>2. CASE \E d \in Disbursements : AbandonAttempt(p, d)
  BY <1>2 DEF AbandonAttempt
<1>3. CASE \E o \in Outflows : Notify(p, o)
  BY <1>3 DEF Notify
<1>4. CASE p = Worker /\ \E o \in Outflows : Probe(o)
  BY <1>4 DEF Probe
<1>5. CASE RecreateRead(p)
  BY <1>5 DEF RecreateRead
<1>6. CASE DispatchSkips(p) \/ CreateConflicts(p) \/ DispatchReads(p)
  BY <1>6 DEF DispatchSkips, CreateConflicts, DispatchReads
<1>7. CASE CreateOutflow(p) \/ RecordSent(p) \/ RecordFailure(p) \/ RecordSuccess(p)
  BY <1>7 DEF CreateOutflow, RecordSent, RecordFailure, RecordSuccess
<1>8. CASE Initiate(p) \/ Query(p)
  BY <1>8 DEF Initiate, Query
<1>9. CASE AlreadyOnHold(p)
  <2>1. job[p].d \in Disbursements /\ NextFailure(p)
    BY <1>9, TargetType DEF AlreadyOnHold, Shape, OnAttempt
  <2>2. \A q \in Callers \ {p} : job'[q] = job[q]
    BY <2>1, NextFailureJob
  <2> QED BY <1>9, <2>2 DEF AlreadyOnHold
<1>10. CASE Settle(p) \/ CancelWrite(p)
  BY <1>10 DEF Settle, MarkSuccessful, CancelWrite, TypeOK
<1> QED BY <1>1, <1>2, <1>3, <1>4, <1>5, <1>6, <1>7, <1>8, <1>9, <1>10

\* Every step keeps the duty to page.
LEMMA StepHeld == Shape /\ HeldIsPaged /\ [Next]_vars => HeldIsPaged'
<1> SUFFICES ASSUME Shape, HeldIsPaged, [Next]_vars PROVE HeldIsPaged'
  OBVIOUS
<1>0. job \in [Callers -> Jobs] /\ TypeOK /\ Requests \subseteq Callers /\ Worker \in Callers
  BY DEF Shape, TypeOK, Jobs, Callers
<1>1. ASSUME NEW p \in Callers, MarkOnHold(p) PROVE HeldIsPaged'
  <2>1. /\ job[p].step = "hold" /\ job'[p].step = "page" /\ job'[p].d = job[p].d
        /\ \A q \in Callers \ {p} : job'[q] = job[q]
        /\ UNCHANGED <<alerted, faults>>
    BY <1>0, <1>1, GotoJob DEF MarkOnHold, At, Steps
  <2>2. \A d \in Disbursements \ {job[p].d} : disbursement'[d] = disbursement[d]
    BY <1>0, <1>1 DEF MarkOnHold, TypeOK
  <2> QED BY <2>1, <2>2 DEF HeldIsPaged, At
<1>2. ASSUME NEW p \in Callers, PageOps(p) PROVE HeldIsPaged'
  <2>1. job[p].d \in Disbursements /\ NextFailure(p)
    BY <1>2, TargetType DEF PageOps, Shape, At, OnAttempt
  <2>2. \A q \in Callers \ {p} : job'[q] = job[q]
    BY <1>0, <2>1, NextFailureJob
  <2>3. /\ alerted'[job[p].d] = TRUE
        /\ \A d \in Disbursements \ {job[p].d} : alerted'[d] = alerted[d]
        /\ UNCHANGED <<disbursement, faults>>
    BY <1>0, <1>2, <2>1 DEF PageOps, MarkOnHoldAlerted, TypeOK
  <2>4. ASSUME faults' = 0, NEW d \in Disbursements, disbursement'[d] = "ON_HOLD",
               d # job[p].d
        PROVE  alerted'[d] \/ \E q \in Callers : job'[q].step = "page" /\ job'[q].d = d
    BY <2>2, <2>3, <2>4 DEF HeldIsPaged, At
  <2> QED BY <2>3, <2>4 DEF HeldIsPaged, At
<1>3. ASSUME NEW p \in Callers, MarkProcessing(p) PROVE HeldIsPaged'
  <2>1. /\ job[p].step = "mark" /\ \A q \in Callers \ {p} : job'[q] = job[q]
        /\ faults' = faults
    BY <1>0, <1>3, GotoJob DEF MarkProcessing, At, Steps
  <2>2. \A d \in Disbursements : disbursement'[d] = "ON_HOLD" =>
            disbursement[d] = "ON_HOLD" /\ alerted'[d] = alerted[d]
    BY <1>0, <1>3 DEF MarkProcessing, TypeOK
  <2> QED BY <2>1, <2>2 DEF HeldIsPaged, At
<1>4. ASSUME NEW p \in Callers, CallFails(p) PROVE HeldIsPaged'
  BY <1>0, <1>4 DEF CallFails, HeldIsPaged, TypeOK
<1>5. CASE SelectStale \/ (\E o \in Outflows : Decide(o)) \/ UNCHANGED vars
  BY <1>5 DEF SelectStale, Decide, vars, rows, HeldIsPaged, At
<1>6. CASE \E p \in Callers : NoPage(p)
  BY <1>6, NoPageHeld
<1> QED
  BY <1>0, <1>1, <1>2, <1>3, <1>4, <1>5, <1>6, NoPageSteps DEF Next, Step

\* Nobody puts a disbursement on hold without paging ops, and exactly the call
\* whose conditional update did it owes the page, unless a call failed.
THEOREM Paged == Spec => []HeldIsPaged
<1>1. Init => HeldIsPaged
  BY DEF Init, HeldIsPaged
<1> QED BY <1>1, InitShape, StepShape, StepHeld, PTL DEF Spec

-----------------------------------------------------------------------------
(* The status sums up the outflows.  While no call fails and no two calls  *)
(* overlap on a disbursement, one at most is at work on it, and what it    *)
(* has done so far is known from its step.                                 *)

\* Every attempt made has failed.
Spent(d) == \A n \in Attempts : outflow[<<d, n>>] \in {"NONE", "FAILED"}

\* Attempt n is in flight and every other one made has failed.
Lone(d, n) ==
    /\ n \in Attempts /\ outflow[<<d, n>>] \in {"PENDING", "PROCESSING"}
    /\ \A m \in Attempts \ {n} : outflow[<<d, m>>] \in {"NONE", "FAILED"}

\* One attempt was paid and none is in flight.
PaidOff(d) ==
    /\ \A n \in Attempts : outflow[<<d, n>>] \notin {"PENDING", "PROCESSING"}
    /\ \E n \in Attempts : outflow[<<d, n>>] = "SUCCESSFUL"

InFlight(d, n) == disbursement[d] \in {"PROCESSING", "CANCELLED"} /\ Lone(d, n)
Failed(d) == Spent(d) /\ ~NoOutflow(d)

\* A disbursement nobody is at work on.
Quiet(d) ==
    /\ disbursement[d] \in {"NONE", "PENDING"} => NoOutflow(d)
    /\ disbursement[d] = "PROCESSING" => \E n \in Attempts : Lone(d, n)
    /\ disbursement[d] = "ON_HOLD" => Failed(d)
    /\ disbursement[d] = "SUCCESSFUL" => PaidOff(d)
    /\ disbursement[d] = "CANCELLED" => Spent(d) \/ \E n \in Attempts : Lone(d, n)

\* What the one call at work on a disbursement knows at each of its steps.
Working(p) ==
    LET d == job[p].d
        n == job[p].n
    IN  /\ job[p].rest = {}
        /\ At(p, "dispatch") => disbursement[d] = "PENDING" /\ NoOutflow(d)
        /\ At(p, "create") => \/ disbursement[d] = "PENDING" /\ NoOutflow(d)
                              \/ disbursement[d] = "ON_HOLD" /\ Failed(d)
        /\ At(p, "mark") => Lone(d, n)
        /\ At(p, "send") \/ At(p, "sent") => disbursement[d] = "PROCESSING" /\ Lone(d, n)
        /\ At(p, "fail") \/ At(p, "query") \/ At(p, "succeed") => InFlight(d, n)
        /\ At(p, "hold") => disbursement[d] \in {"PROCESSING", "CANCELLED"} /\ Failed(d)
        /\ At(p, "page") => disbursement[d] = "ON_HOLD" /\ Failed(d)
        /\ At(p, "settle") => PaidOff(d)
        /\ At(p, "cancel") =>
              disbursement[d] \in {"PENDING", "PROCESSING", "ON_HOLD"} /\ Quiet(d)

\* One call at most is at work on d, or the reconciler is about to be.
Alone(d) ==
    /\ \A p, q \in Callers : job[p].d = d /\ job[q].d = d => p = q
    /\ \A p \in Callers, o \in queue : job[p].d = d => o[1] # d

SumsUp(d) ==
    /\ Alone(d)
    /\ \A p \in Callers : job[p].d = d => Working(p)
    /\ \A o \in queue : o[1] = d => InFlight(d, o[2])
    /\ ~Busy(d) => Quiet(d)

Agrees == faults = 0 => \A d \in Disbursements \ overlapped : SumsUp(d)

\* The rows of d are as they were.
SameRows(d) ==
    disbursement'[d] = disbursement[d]
    /\ \A n \in Attempts : outflow'[<<d, n>>] = outflow[<<d, n>>]

\* Then what is known of them is, too.
LEMMA SameKnown ==
    ASSUME NEW d, SameRows(d)
    PROVE  /\ Quiet(d) => Quiet(d)'
           /\ \A n : InFlight(d, n) => InFlight(d, n)'
           /\ \A p : job[p].d = d /\ job'[p] = job[p] /\ Working(p) => Working(p)'
<1>1. /\ Spent(d)' <=> Spent(d)
      /\ NoOutflow(d)' <=> NoOutflow(d)
      /\ PaidOff(d)' <=> PaidOff(d)
      /\ \A n : Lone(d, n)' <=> Lone(d, n)
  BY DEF SameRows, Spent, NoOutflow, PaidOff, Lone
<1>2. Quiet(d)' <=> Quiet(d)
  BY <1>1 DEF SameRows, Quiet, Failed
<1>3. ASSUME NEW p, job[p].d = d, job'[p] = job[p], Working(p)
      PROVE  Working(p)'
  BY <1>1, <1>2, <1>3 DEF SameRows, Working, InFlight, Failed, At
<1> QED BY <1>1, <1>2, <1>3 DEF SameRows, InFlight

\* A step elsewhere leaves d summed up.
LEMMA ElsewhereKept ==
    ASSUME NEW d, SumsUp(d), SameRows(d),
           \A q \in Callers : job[q].d = d \/ job'[q].d = d => job'[q] = job[q],
           \A o : o[1] = d => (o \in queue' <=> o \in queue)
    PROVE  SumsUp(d)'
<1>1. Alone(d)'
  BY DEF SumsUp, Alone
<1>2. Busy(d) => Busy(d)'
  BY DEF Busy
<1>3. \A p \in Callers : job'[p].d = d => Working(p)'
  BY SameKnown DEF SumsUp
<1>4. \A o \in queue' : o[1] = d => InFlight(d, o[2])'
  BY SameKnown DEF SumsUp
<1>5. ~Busy(d)' => Quiet(d)'
  BY <1>2, SameKnown DEF SumsUp
<1> QED BY <1>1, <1>3, <1>4, <1>5 DEF SumsUp

\* A call's step on its own disbursement: what it knows there is kept, or it
\* ends and leaves the disbursement quiet.
LEMMA OwnStep ==
    ASSUME Shape, Agrees, NEW p \in Callers, NEW d \in Disbursements, job[p].d = d,
           \A q \in Callers \ {p} : job'[q] = job[q],
           UNCHANGED <<queue, faults, overlapped>>,
           \A e \in Disbursements \ {d} : SameRows(e),
           \/ job'[p].d = d /\ (Working(p) => Working(p)')
           \/ job'[p].d = "none" /\ (Working(p) => Quiet(d)')
    PROVE  Agrees'
<1> SUFFICES ASSUME faults = 0, NEW e \in Disbursements, e \notin overlapped, SumsUp(e)
             PROVE  SumsUp(e)'
  BY DEF Agrees
<1>1. CASE e # d
  <2>1. \A q \in Callers : job[q].d = e \/ job'[q].d = e => job'[q] = job[q]
    BY <1>1, PayoutAssumption
  <2> QED BY <1>1, <2>1, ElsewhereKept
<1>2. CASE e = d
  <2>1. Working(p) /\ \A q \in Callers \ {p} : job[q].d # d /\ job'[q].d # d
    BY <1>2 DEF SumsUp, Alone
  <2>2. \A o \in queue' : o[1] # d
    BY <1>2 DEF SumsUp, Alone
  <2>3. CASE job'[p].d = d
    <3>1. Working(p)'
      BY <2>1, <2>3, PayoutAssumption
    <3>2. Alone(d)' /\ Busy(d)'
      BY <2>1, <2>2, <2>3 DEF Alone, Busy
    <3>3. \A q \in Callers : job'[q].d = d => Working(q)'
      BY <2>1, <3>1
    <3> QED BY <1>2, <2>2, <3>2, <3>3 DEF SumsUp
  <2>4. CASE job'[p].d = "none"
    <3>1. Quiet(d)' /\ \A q \in Callers : job'[q].d # d
      BY <2>1, <2>4, PayoutAssumption
    <3> QED BY <1>2, <2>2, <3>1 DEF SumsUp, Alone
  <2> QED BY <2>3, <2>4
<1> QED BY <1>1, <1>2

\* A call that begins with d finds it quiet, or the two overlap.
LEMMA BeginStep ==
    ASSUME Shape, Agrees, NEW p \in Callers, NEW d \in Disbursements,
           job[p].d = "none", job'[p].d = d,
           \A q \in Callers \ {p} : job'[q] = job[q],
           UNCHANGED <<queue, faults>>, overlapped \subseteq overlapped',
           \A e \in Disbursements \ {d} : SameRows(e),
           Busy(d) => d \in overlapped',
           Quiet(d) => Working(p)'
    PROVE  Agrees'
<1> SUFFICES ASSUME faults = 0, NEW e \in Disbursements, e \notin overlapped', SumsUp(e)
             PROVE  SumsUp(e)'
  BY DEF Agrees
<1>1. CASE e # d
  <2>1. \A q \in Callers : job[q].d = e \/ job'[q].d = e => job'[q] = job[q]
    BY <1>1, PayoutAssumption
  <2> QED BY <1>1, <2>1, ElsewhereKept
<1>2. CASE e = d
  <2>1. Quiet(d) /\ (\A q \in Callers : job[q].d # d) /\ \A o \in queue : o[1] # d
    BY <1>2 DEF SumsUp, Busy
  <2>2. \A q \in Callers : job'[q].d = d => q = p
    BY <2>1
  <2>3. Alone(d)' /\ Busy(d)'
    BY <2>1, <2>2 DEF Alone, Busy
  <2> QED BY <1>2, <2>1, <2>2, <2>3 DEF SumsUp
<1> QED BY <1>1, <1>2

\* The steps of a call past its dispatch.
LEMMA AttemptAgrees ==
    ASSUME Shape, Agrees, NEW p \in Callers, job[p].step \in OnAttempt,
           \/ CreateOutflow(p) \/ CreateConflicts(p) \/ MarkProcessing(p) \/ Initiate(p)
           \/ RecordSent(p) \/ RecordFailure(p) \/ MarkOnHold(p) \/ AlreadyOnHold(p)
           \/ PageOps(p) \/ RecordSuccess(p) \/ Settle(p) \/ Query(p)
    PROVE  Agrees'
<1>r. PICK d, n : d = job[p].d /\ n = job[p].n
  OBVIOUS
<1> USE <1>r
<1>0. TypeOK /\ job \in [Callers -> Jobs]
  BY DEF Shape, TypeOK, Jobs
<1>1. d \in Disbursements /\ n \in Attempts /\ Target(p) = <<d, n>> /\ Target(p) \in Outflows
  BY TargetType DEF Shape
<1>2. Advances(p) /\ WritesOwn(p)
  BY AttemptMoves
<1>3. /\ \A q \in Callers \ {p} : job'[q] = job[q]
      /\ UNCHANGED <<queue, overlapped>>
      /\ \A e \in Disbursements \ {d} : SameRows(e)
      /\ faults' = faults
  <2>1. \A e \in Disbursements \ {d}, m \in Attempts : outflow'[<<e, m>>] = outflow[<<e, m>>]
    BY <1>2 DEF WritesOwn, Outflows
  <2>2. faults' = faults
    BY DEF CreateOutflow, CreateConflicts, MarkProcessing, Initiate, RecordSent, RecordFailure,
           MarkOnHold, AlreadyOnHold, PageOps, RecordSuccess, Settle, Query
  <2> QED BY <1>2, <2>1, <2>2 DEF Advances, WritesOwn, SameRows
\* What is left to show of each step.
<1>4. ASSUME \/ job'[p].d = d /\ (Working(p) => Working(p)')
             \/ job'[p].d = "none" /\ (Working(p) => Quiet(d)')
      PROVE  Agrees'
  BY <1>1, <1>3, <1>4, OwnStep
\* Steps that write no row.
<1>5. (disbursement' = disbursement /\ outflow' = outflow) => SameRows(d)
  BY DEF SameRows
<1>6. ASSUME NEW step \in Steps, Goto(p, step)
      PROVE  job'[p].step = step /\ job'[p].d = d /\ job'[p].n = n /\ job'[p].rest = job[p].rest
  BY <1>0, <1>6, GotoJob
<1>7. Finish(p) => job'[p].d = "none"
  BY <1>0, FinishJob DEF OnlyJob, Idle
\* Writes of the attempt, and of the disbursement.
<1>8. ASSUME NEW s, outflow' = [outflow EXCEPT ![Target(p)] = s]
      PROVE  /\ outflow'[<<d, n>>] = s
             /\ \A m \in Attempts \ {n} : outflow'[<<d, m>>] = outflow[<<d, m>>]
  <2>1. \A m \in Attempts : <<d, m>> \in Outflows
    BY <1>1 DEF Outflows
  <2> QED BY <1>0, <1>1, <1>8, <2>1 DEF TypeOK
<1>9. ASSUME NEW s, disbursement' = [disbursement EXCEPT ![d] = s]
      PROVE  disbursement'[d] = s
  BY <1>0, <1>1, <1>9 DEF TypeOK
<1>10. CASE CreateOutflow(p)
  <2>1. /\ At(p, "create") /\ At(p, "mark")' /\ job'[p].d = d /\ job'[p].n = n /\ job'[p].rest = job[p].rest
        /\ disbursement' = disbursement
        /\ outflow'[<<d, n>>] = "PENDING"
        /\ \A m \in Attempts \ {n} : outflow'[<<d, m>>] = outflow[<<d, m>>]
    BY <1>6, <1>8, <1>10 DEF CreateOutflow, At, Steps
  <2>2. Working(p) => Spent(d)
    BY <2>1 DEF Working, Failed, Spent, NoOutflow
  <2>3. Working(p) => Lone(d, n)'
    BY <1>1, <2>1, <2>2 DEF Spent, Lone
  <2>4. Working(p) => Working(p)'
    BY <2>1, <2>3 DEF Working, At
  <2> QED BY <1>4, <2>1, <2>4
<1>11. CASE CreateConflicts(p)
  <2>1. At(p, "create") /\ job'[p].d = "none" /\ SameRows(d)
    BY <1>5, <1>7, <1>11 DEF CreateConflicts, rows
  <2>2. Working(p) => Quiet(d)
    BY <2>1 DEF Working, Quiet
  <2> QED BY <1>4, <2>1, <2>2, SameKnown
<1>12. CASE MarkProcessing(p)
  <2>1. /\ At(p, "mark") /\ At(p, "send")' /\ job'[p].d = d /\ job'[p].n = n /\ job'[p].rest = job[p].rest
        /\ outflow' = outflow /\ disbursement'[d] = "PROCESSING"
    BY <1>6, <1>9, <1>12 DEF MarkProcessing, At, Steps
  <2>2. Working(p) => Lone(d, n)'
    BY <2>1 DEF Working, Lone
  <2>3. Working(p) => Working(p)'
    BY <2>1, <2>2 DEF Working, At
  <2> QED BY <1>4, <2>1, <2>3
<1>13. CASE Initiate(p)
  <2>1. /\ At(p, "send") /\ (At(p, "sent")' \/ At(p, "fail")')
        /\ job'[p].d = d /\ job'[p].n = n /\ job'[p].rest = job[p].rest
        /\ outflow' = outflow /\ disbursement' = disbursement
    BY <1>6, <1>13 DEF Initiate, At, Steps, rows
  <2>2. Working(p) => Lone(d, n)' /\ disbursement'[d] = "PROCESSING"
    <3>1. Working(p) => Lone(d, n) /\ disbursement[d] = "PROCESSING"
      BY <2>1 DEF Working
    <3> QED BY <2>1, <3>1 DEF Lone
  <2>3. Working(p) => Working(p)'
    BY <2>1, <2>2 DEF Working, At, InFlight
  <2> QED BY <1>4, <2>1, <2>3
<1>14. CASE RecordSent(p)
  <2>1. /\ At(p, "sent") /\ job'[p].d = "none" /\ disbursement' = disbursement
        /\ outflow'[<<d, n>>] = "PROCESSING"
        /\ \A m \in Attempts \ {n} : outflow'[<<d, m>>] = outflow[<<d, m>>]
    BY <1>7, <1>8, <1>14 DEF RecordSent
  <2>2. Working(p) => Lone(d, n)' /\ disbursement'[d] = "PROCESSING"
    BY <1>1, <2>1 DEF Working, Lone
  <2>3. Working(p) => Quiet(d)'
    BY <1>1, <2>2 DEF Quiet
  <2> QED BY <1>4, <2>1, <2>3
<1>15. CASE RecordFailure(p)
  <2>1. /\ At(p, "fail") /\ At(p, "hold")' /\ job'[p].d = d /\ job'[p].rest = job[p].rest
        /\ disbursement' = disbursement
        /\ outflow'[<<d, n>>] = "FAILED"
        /\ \A m \in Attempts \ {n} : outflow'[<<d, m>>] = outflow[<<d, m>>]
    BY <1>6, <1>8, <1>15 DEF RecordFailure, At, Steps
  <2>2. Working(p) => InFlight(d, n)
    BY <2>1 DEF Working
  <2>3. Working(p) => Failed(d)'
    BY <1>1, <2>1, <2>2 DEF InFlight, Lone, Failed, Spent, NoOutflow
  <2>4. Working(p) => Working(p)'
    BY <2>1, <2>2, <2>3 DEF Working, At, InFlight
  <2> QED BY <1>4, <2>1, <2>4
<1>16. CASE MarkOnHold(p)
  <2>1. /\ At(p, "hold") /\ At(p, "page")' /\ job'[p].d = d /\ job'[p].rest = job[p].rest
        /\ outflow' = outflow /\ disbursement'[d] = "ON_HOLD"
    BY <1>6, <1>9, <1>16 DEF MarkOnHold, At, Steps
  <2>2. Working(p) => Failed(d)'
    BY <2>1 DEF Working, Failed, Spent, NoOutflow
  <2>3. Working(p) => Working(p)'
    BY <2>1, <2>2 DEF Working, At
  <2> QED BY <1>4, <2>1, <2>3
<1>17. CASE AlreadyOnHold(p)
  <2>1. At(p, "hold") /\ disbursement[d] = "ON_HOLD"
    BY <1>17 DEF AlreadyOnHold
  <2>2. ~Working(p)
    BY <2>1 DEF Working
  <2>3. job'[p].d \in {d, "none"}
    BY <1>2 DEF Advances, Idle
  <2> QED BY <1>4, <2>2, <2>3
<1>18. CASE PageOps(p)
  <2>1. At(p, "page") /\ disbursement' = disbursement /\ outflow' = outflow /\ NextFailure(p)
    BY <1>18 DEF PageOps
  <2>2. Working(p) => job[p].rest = {} /\ disbursement[d] = "ON_HOLD" /\ Failed(d)
    BY <2>1 DEF Working
  <2>3. Working(p) => job'[p].d = "none"
    BY <1>7, <2>1, <2>2 DEF NextFailure
  <2>4. Working(p) => Quiet(d)
    BY <2>2 DEF Quiet
  <2>5. job'[p].d \in {d, "none"}
    BY <1>2 DEF Advances, Idle
  <2>6. Working(p) => Quiet(d)'
    BY <1>5, <2>1, <2>4, SameKnown
  <2> QED BY <1>1, <1>4, <2>3, <2>5, <2>6, PayoutAssumption
<1>19. CASE RecordSuccess(p)
  <2>1. /\ At(p, "succeed") /\ At(p, "settle")' /\ job'[p].d = d /\ job'[p].rest = job[p].rest
        /\ outflow'[<<d, n>>] = "SUCCESSFUL"
        /\ \A m \in Attempts \ {n} : outflow'[<<d, m>>] = outflow[<<d, m>>]
    BY <1>6, <1>8, <1>19 DEF RecordSuccess, At, Steps
  <2>2. Working(p) => PaidOff(d)'
    BY <1>1, <2>1 DEF Working, InFlight, Lone, PaidOff
  <2>3. Working(p) => Working(p)'
    BY <2>1, <2>2 DEF Working, At
  <2> QED BY <1>4, <2>1, <2>3
<1>20. CASE Settle(p)
  <2>1. /\ At(p, "settle") /\ job'[p].d = "none" /\ outflow' = outflow
        /\ disbursement'[d] = "SUCCESSFUL"
    BY <1>7, <1>9, <1>20 DEF Settle, MarkSuccessful
  <2>2. Working(p) => PaidOff(d)'
    BY <2>1 DEF Working, PaidOff
  <2>3. Working(p) => Quiet(d)'
    BY <2>1, <2>2 DEF Quiet
  <2> QED BY <1>4, <2>1, <2>3
<1>21. CASE Query(p)
  <2>1. At(p, "query") /\ disbursement' = disbursement /\ outflow' = outflow
    BY <1>21 DEF Query, rows
  <2>2. Working(p) => InFlight(d, n)
    BY <2>1 DEF Working
  <2>3. Working(p) => Quiet(d)
    BY <1>1, <2>2 DEF InFlight, Quiet
  <2>4. \/ Finish(p)
        \/ Goto(p, "succeed")
        \/ Goto(p, "fail")
    BY <1>21 DEF Query
  <2>5. CASE Finish(p)
    <3>1. Working(p) => Quiet(d)'
      BY <1>5, <2>1, <2>3, SameKnown
    <3> QED BY <1>4, <1>7, <2>5, <3>1
  <2>6. CASE Goto(p, "succeed")
    <3>1. At(p, "succeed")' /\ job'[p].d = d /\ job'[p].n = n /\ job'[p].rest = job[p].rest
      BY <1>6, <2>6 DEF At, Steps
    <3>2. Working(p) => InFlight(d, n)'
      BY <2>1, <2>2 DEF InFlight, Lone
    <3>3. Working(p) => Working(p)'
      BY <3>1, <3>2 DEF Working, At
    <3> QED BY <1>4, <3>1, <3>3
  <2>7. CASE Goto(p, "fail")
    <3>1. At(p, "fail")' /\ job'[p].d = d /\ job'[p].n = n /\ job'[p].rest = job[p].rest
      BY <1>6, <2>7 DEF At, Steps
    <3>2. Working(p) => InFlight(d, n)'
      BY <2>1, <2>2 DEF InFlight, Lone
    <3>3. Working(p) => Working(p)'
      BY <3>1, <3>2 DEF Working, At
    <3> QED BY <1>4, <3>1, <3>3
  <2> QED BY <2>4, <2>5, <2>6, <2>7
<1> QED
  BY <1>10, <1>11, <1>12, <1>13, <1>14, <1>15, <1>16, <1>17, <1>18, <1>19, <1>20, <1>21

\* A step that moves no call at work on a disbursement, no row and no queue.
LEMMA IdleAgrees ==
    ASSUME Agrees, UNCHANGED <<disbursement, outflow, queue, faults, overlapped>>,
           \A q \in Callers :
              job[q].d \in Disbursements \/ job'[q].d \in Disbursements => job'[q] = job[q]
    PROVE  Agrees'
<1> SUFFICES ASSUME faults = 0, NEW d \in Disbursements, d \notin overlapped, SumsUp(d)
             PROVE  SumsUp(d)'
  BY DEF Agrees
<1>1. SameRows(d)
  BY DEF SameRows
<1> QED BY <1>1, ElsewhereKept

\* An attempt of a quiet disbursement that is in flight is its only one.
LEMMA QuietInFlight ==
    ASSUME NEW d, Quiet(d), NEW n \in Attempts, disbursement[d] \in
               {"NONE", "PENDING", "PROCESSING", "ON_HOLD", "SUCCESSFUL", "CANCELLED"},
           outflow[<<d, n>>] \in {"PENDING", "PROCESSING"}
    PROVE  InFlight(d, n) /\ Active(d) \ {n} = {}
<1>1. disbursement[d] \in {"PROCESSING", "CANCELLED"} /\ \E m \in Attempts : Lone(d, m)
  BY DEF Quiet, NoOutflow, Failed, Spent, PaidOff
<1>2. Lone(d, n)
  BY <1>1 DEF Lone
<1> QED BY <1>1, <1>2 DEF InFlight, Lone, Active

\* The steps before and at the dispatch, and of an ops cancel.
LEMMA EarlyAgrees ==
    ASSUME Shape, Agrees, NEW p \in Callers,
           \/ \E d \in Disbursements : Recreate(p, d)
           \/ DispatchSkips(p) \/ DispatchReads(p) \/ CancelWrite(p)
    PROVE  Agrees'
<1>0. TypeOK /\ job \in [Callers -> Jobs]
  BY DEF Shape, TypeOK, Jobs
<1>1. ASSUME NEW d \in Disbursements, Recreate(p, d) PROVE Agrees'
  <2>1. job'[p] = [step |-> "dispatch", d |-> d, n |-> 0, rest |-> {}]
        /\ \A q \in Callers \ {p} : job'[q] = job[q]
    BY <1>0, <1>1, StartJob, PayoutAssumption DEF Recreate, OnlyJob, Steps
  <2>2. job[p].d = "none" /\ disbursement[d] = "NONE"
        /\ UNCHANGED <<outflow, queue, faults, overlapped>>
    BY <1>1 DEF Recreate, Shape, JobShape, At
  <2>3. disbursement'[d] = "PENDING" /\ \A e \in Disbursements \ {d} : SameRows(e)
    BY <1>0, <1>1, <2>2 DEF Recreate, TypeOK, SameRows
  <2>4. NoOutflow(d) /\ ~Busy(d)
    BY <2>2, MadeHasRow DEF Shape, Unused, Busy, Queued, TypeOK
  <2>5. NoOutflow(d)'
    BY <2>2, <2>4 DEF NoOutflow
  <2>6. Working(p)'
    BY <2>1, <2>3, <2>5 DEF Working, At
  <2> QED BY <2>1, <2>2, <2>3, <2>4, <2>6, BeginStep
<1>2. CASE DispatchSkips(p) \/ DispatchReads(p)
  <2>1. PICK d : d = job[p].d /\ d \in Disbursements
    BY <1>0, <1>2 DEF DispatchSkips, DispatchReads, Shape, JobShape, At, Jobs
  <2>2. /\ NoOutflow(d) /\ At(p, "dispatch")
        /\ UNCHANGED <<disbursement, outflow, queue, faults, overlapped>>
    BY <1>2, <2>1 DEF DispatchSkips, DispatchReads, Shape, Fresh, rows
  <2>3. \A e \in Disbursements : SameRows(e)
    BY <2>2 DEF SameRows
  <2>4. Working(p) => disbursement[d] = "PENDING"
    BY <2>1, <2>2 DEF Working
  <2>5. NoOutflow(d)' /\ Active(d) = {}
    BY <2>2 DEF NoOutflow, Active
  <2>6. CASE DispatchSkips(p)
    <3>1. job'[p].d = "none" /\ \A q \in Callers \ {p} : job'[q] = job[q]
      BY <1>0, <2>6, FinishJob DEF DispatchSkips, OnlyJob, Idle
    <3>2. ~Working(p)
      BY <2>1, <2>4, <2>5, <2>6 DEF DispatchSkips, Terminal
    <3> QED BY <2>1, <2>2, <2>3, <3>1, <3>2, OwnStep
  <2>7. CASE DispatchReads(p)
    <3>1. Made(d) = {}
      BY <2>2 DEF NoOutflow, Made
    <3>2. NextAttempt(d) \in 0 .. MaxAttempts
      BY <3>1, FS_EmptySet, PayoutAssumption DEF NextAttempt
    <3>3. /\ job'[p] = [step |-> "create", d |-> d, n |-> NextAttempt(d), rest |-> {}]
          /\ \A q \in Callers \ {p} : job'[q] = job[q]
      BY <1>0, <2>1, <2>7, <3>2, StartJob DEF DispatchReads, OnlyJob, Steps
    <3>4. Working(p) => Working(p)'
      BY <2>2, <2>4, <2>5, <3>3 DEF Working, At
    <3> QED BY <2>1, <2>2, <2>3, <3>3, <3>4, OwnStep
  <2> QED BY <1>2, <2>6, <2>7
<1>3. CASE CancelWrite(p)
  <2>1. PICK d : d = job[p].d /\ d \in Disbursements
    BY <1>0, <1>3 DEF CancelWrite, Shape, JobShape, At, Jobs
  <2>2. job'[p].d = "none" /\ \A q \in Callers \ {p} : job'[q] = job[q]
    BY <1>0, <1>3, FinishJob DEF CancelWrite, OnlyJob, Idle
  <2>3. /\ disbursement'[d] = "CANCELLED" /\ \A e \in Disbursements \ {d} : SameRows(e)
        /\ UNCHANGED <<outflow, queue, faults, overlapped>> /\ At(p, "cancel")
    BY <1>0, <1>3, <2>1 DEF CancelWrite, TypeOK, SameRows
  <2>4. Working(p) => Quiet(d) /\ disbursement[d] \in {"PENDING", "PROCESSING", "ON_HOLD"}
    BY <2>1, <2>3 DEF Working
  <2>5. Working(p) => Spent(d) \/ \E n \in Attempts : Lone(d, n)
    BY <2>4 DEF Quiet, Failed, NoOutflow, Spent
  <2>6. Working(p) => (Spent(d) \/ \E n \in Attempts : Lone(d, n))'
    BY <2>3, <2>5 DEF Spent, Lone
  <2>7. Working(p) => Quiet(d)'
    BY <2>3, <2>6 DEF Quiet
  <2> QED BY <2>1, <2>2, <2>3, <2>7, OwnStep
<1> QED BY <1>1, <1>2, <1>3

\* The requests that arrive, and the reconciler's turn to an outflow it selected.
LEMMA ArrivalAgrees ==
    ASSUME Shape, Agrees,
           \/ \E r \in Requests, d \in Disbursements :
                 CreateForLoan(r, d) \/ Retry(r, d) \/ CancelRead(r, d) \/ AbandonAttempt(r, d)
           \/ \E r \in Requests : RecreateRead(r)
           \/ \E r \in Requests, o \in Outflows : Notify(r, o)
           \/ \E o \in Outflows : Probe(o)
           \/ SelectStale
    PROVE  Agrees'
<1>0. TypeOK /\ job \in [Callers -> Jobs] /\ Requests \subseteq Callers /\ Worker \in Callers
  BY DEF Shape, TypeOK, Jobs, Callers
\* What a request that begins with d has still to show.
<1>1. ASSUME NEW r \in Requests, NEW d \in Disbursements, Arrive(r, d), job'[r].d = d,
             \A q \in Callers \ {r} : job'[q] = job[q],
             UNCHANGED <<queue, faults>>, \A e \in Disbursements \ {d} : SameRows(e),
             Quiet(d) => Working(r)'
      PROVE  Agrees'
  <2>1. job[r].d = "none" /\ overlapped \subseteq overlapped' /\ (Busy(d) => d \in overlapped')
    BY <1>0, <1>1 DEF Arrive, Shape, JobShape, At
  <2> QED BY <1>0, <1>1, <2>1, BeginStep
<1>2. ASSUME NEW r \in Requests, NEW d \in Disbursements, CreateForLoan(r, d) PROVE Agrees'
  <2>1. /\ job'[r] = [step |-> "dispatch", d |-> d, n |-> 0, rest |-> {}]
        /\ \A q \in Callers \ {r} : job'[q] = job[q]
    BY <1>0, <1>2, StartJob, PayoutAssumption DEF CreateForLoan, OnlyJob, Steps
  <2>2. /\ Arrive(r, d) /\ disbursement[d] = "NONE"
        /\ UNCHANGED <<outflow, queue, faults>>
    BY <1>2 DEF CreateForLoan
  <2>3. disbursement'[d] = "PENDING" /\ \A e \in Disbursements \ {d} : SameRows(e)
    BY <1>0, <1>2 DEF CreateForLoan, TypeOK, SameRows
  <2>4. NoOutflow(d)'
    BY <2>2 DEF Shape, Unused, NoOutflow
  <2>5. Working(r)'
    BY <2>1, <2>3, <2>4 DEF Working, At
  <2> QED BY <1>1, <2>1, <2>2, <2>3, <2>5
\* The others write no row, and start with a job about d.
<1>3. ASSUME NEW r \in Requests, NEW d \in Disbursements, Arrive(r, d),
             NEW step, NEW n, job' = [job EXCEPT ![r] =
                 [step |-> step, d |-> d, n |-> n, rest |-> {}]],
             UNCHANGED <<disbursement, outflow, queue, faults>>,
             Quiet(d) => (step = "create" => disbursement[d] = "ON_HOLD"),
             Quiet(d) => (step = "cancel" =>
                 disbursement[d] \in {"PENDING", "PROCESSING", "ON_HOLD"}),
             Quiet(d) => (step \in {"fail", "query"} => InFlight(d, n)),
             step \in {"create", "cancel", "fail", "query"}
      PROVE  Agrees'
  <2>1. /\ job'[r].step = step /\ job'[r].d = d /\ job'[r].n = n /\ job'[r].rest = {}
        /\ \A q \in Callers \ {r} : job'[q] = job[q]
    BY <1>0, <1>3
  <2>2. \A e : SameRows(e)
    BY <1>3 DEF SameRows
  <2>3. Quiet(d) => Quiet(d)' /\ (InFlight(d, n) => InFlight(d, n)')
    BY <2>2, SameKnown
  <2>4. Quiet(d) /\ disbursement[d] = "ON_HOLD" => Failed(d)'
    BY <1>3 DEF Quiet, Failed, Spent, NoOutflow
  <2>5. Quiet(d) => Working(r)'
    BY <1>3, <2>1, <2>3, <2>4 DEF Working, At
  <2> QED BY <1>1, <1>3, <2>1, <2>2, <2>5
<1>4. ASSUME NEW r \in Requests, NEW d \in Disbursements, Retry(r, d) PROVE Agrees'
  BY <1>3, <1>4 DEF Retry, Retriable, Start, rows
<1>5. ASSUME NEW r \in Requests, NEW d \in Disbursements, CancelRead(r, d) PROVE Agrees'
  <2>1. disbursement[d] \in {"PENDING", "PROCESSING", "ON_HOLD"}
    BY <1>0, <1>5 DEF CancelRead, Terminal, TypeOK
  <2> QED BY <1>3, <1>5, <2>1 DEF CancelRead, Start, rows
<1>6. ASSUME NEW r \in Requests, NEW d \in Disbursements, AbandonAttempt(r, d) PROVE Agrees'
  <2>1. PICK n \in Active(d) :
            job' = [job EXCEPT ![r] = [step |-> "fail", d |-> d, n |-> n,
                                       rest |-> Active(d) \ {n}]]
    BY <1>6 DEF AbandonAttempt
  <2>2. Arrive(r, d) /\ UNCHANGED <<disbursement, outflow, queue, faults>>
    BY <1>6 DEF AbandonAttempt, rows
  <2>3. Quiet(d) => InFlight(d, n) /\ Active(d) \ {n} = {}
    BY <1>0, <2>1, QuietInFlight DEF Active, TypeOK
  <2>4. CASE Quiet(d)
    BY <1>3, <2>1, <2>2, <2>3, <2>4
  <2>5. CASE ~Quiet(d)
    <3>1. /\ job'[r].d = d /\ \A q \in Callers \ {r} : job'[q] = job[q]
          /\ \A e : SameRows(e)
      BY <1>0, <2>1, <2>2 DEF SameRows
    <3> QED BY <1>1, <2>2, <2>5, <3>1
  <2> QED BY <2>4, <2>5
<1>7. ASSUME NEW r \in Requests, NEW o \in Outflows, Notify(r, o) PROVE Agrees'
  <2>1. PICK d, n : o = <<d, n>> /\ d \in Disbursements /\ n \in Attempts
    BY DEF Outflows
  <2>2. /\ Arrive(r, d) /\ UNCHANGED <<disbursement, outflow, queue, faults>>
        /\ outflow[<<d, n>>] \in {"PENDING", "PROCESSING"}
        /\ job' = [job EXCEPT ![r] = [step |-> "query", d |-> d, n |-> n, rest |-> {}]]
    BY <1>7, <2>1 DEF Notify, Start, rows
  <2>3. Quiet(d) => InFlight(d, n)
    BY <1>0, <2>1, <2>2, QuietInFlight DEF TypeOK
  <2> QED BY <1>3, <2>1, <2>2, <2>3
<1>8. ASSUME NEW r \in Requests, RecreateRead(r) PROVE Agrees'
  <2>1. /\ job[r].d = "none" /\ job'[r].d = "none"
        /\ \A q \in Callers \ {r} : job'[q] = job[q]
        /\ UNCHANGED <<disbursement, outflow, queue, faults, overlapped>>
    BY <1>0, <1>8, GotoJob DEF RecreateRead, Shape, JobShape, At, Steps, rows
  <2> QED BY <2>1, IdleAgrees, PayoutAssumption
<1>9. ASSUME NEW o \in Outflows, Probe(o) PROVE Agrees'
  <2>1. PICK d, n : o = <<d, n>> /\ d \in Disbursements /\ n \in Attempts
    BY DEF Outflows
  <2>2. /\ o \in queue /\ queue' = queue \ {o} /\ At(Worker, "idle")
        /\ UNCHANGED <<disbursement, outflow, faults, overlapped>>
        /\ job' = [job EXCEPT ![Worker] = [step |-> "query", d |-> d, n |-> n, rest |-> {}]]
    BY <1>9, <2>1 DEF Probe, Start, rows
  <2>3. /\ job[Worker].d = "none" /\ \A q \in Callers \ {Worker} : job'[q] = job[q]
        /\ job'[Worker] = [step |-> "query", d |-> d, n |-> n, rest |-> {}]
    BY <1>0, <2>2 DEF Shape, JobShape, At
  <2>4. \A e : SameRows(e)
    BY <2>2 DEF SameRows
  <2> SUFFICES ASSUME faults = 0, NEW e \in Disbursements, e \notin overlapped, SumsUp(e)
               PROVE  SumsUp(e)'
    BY <2>2 DEF Agrees
  <2>5. CASE e # d
    BY <2>1, <2>2, <2>3, <2>4, <2>5, ElsewhereKept, PayoutAssumption
  <2>6. CASE e = d
    <3>1. InFlight(d, n) /\ (\A x \in queue : x[1] = d => InFlight(d, x[2]))
          /\ \A q \in Callers : job[q].d # d
      BY <2>1, <2>2, <2>6 DEF SumsUp, Alone
    <3>2. \A x \in queue' : x[1] # d
      <4> SUFFICES ASSUME NEW x \in queue, x[1] = d PROVE x = o
        BY <2>2
      <4>1. x \in Outflows /\ Lone(d, n) /\ Lone(d, x[2])
        BY <1>0, <3>1 DEF TypeOK, InFlight
      <4>2. x[2] = n
        BY <4>1 DEF Lone
      <4> QED BY <2>1, <4>1, <4>2 DEF Outflows
    <3>3. InFlight(d, n)'
      BY <2>4, <3>1, SameKnown
    <3>4. Working(Worker)'
      BY <2>3, <3>3 DEF Working, At
    <3>5. \A q \in Callers : job'[q].d = d => q = Worker
      BY <2>3, <3>1
    <3>6. Busy(d)'
      BY <1>0, <2>3 DEF Busy
    <3> QED BY <2>6, <3>2, <3>4, <3>5, <3>6 DEF SumsUp, Alone
  <2> QED BY <2>5, <2>6
<1>10. CASE SelectStale
  <2>1. /\ queue = {} /\ queue' = Stale /\ UNCHANGED <<disbursement, outflow, job, faults>>
        /\ overlapped \subseteq overlapped'
        /\ \A o \in Stale : Busy(o[1]) => o[1] \in overlapped'
    BY <1>10 DEF SelectStale, rows
  <2>2. \A e : SameRows(e)
    BY <2>1 DEF SameRows
  <2> SUFFICES ASSUME faults = 0, NEW d \in Disbursements, d \notin overlapped', SumsUp(d)
               PROVE  SumsUp(d)'
    BY <2>1 DEF Agrees
  <2>3. CASE \A o \in Stale : o[1] # d
    BY <2>1, <2>2, <2>3, ElsewhereKept
  <2>4. CASE \E o \in Stale : o[1] = d
    <3>1. ~Busy(d) /\ Quiet(d)
      BY <2>1, <2>4 DEF SumsUp
    <3>2. ASSUME NEW o \in Stale, o[1] = d PROVE InFlight(d, o[2])'
      <4>1. o = <<d, o[2]>> /\ o[2] \in Attempts /\ outflow[o] = "PROCESSING"
        BY <3>2 DEF Stale, Outflows
      <4>2. InFlight(d, o[2])
        BY <1>0, <3>1, <4>1, QuietInFlight DEF TypeOK
      <4> QED BY <2>2, <4>2, SameKnown
    <3>3. \A q \in Callers : job'[q].d # d
      BY <2>1, <3>1 DEF Busy
    <3>4. Busy(d)'
      BY <2>1, <2>4 DEF Busy
    <3> QED BY <2>1, <3>2, <3>3, <3>4 DEF SumsUp, Alone
  <2> QED BY <2>3, <2>4
<1> QED BY <1>2, <1>4, <1>5, <1>6, <1>7, <1>8, <1>9, <1>10

\* Every status agrees with its outflows at first, when there are none.
LEMMA InitAgrees == Init => Agrees
<1> SUFFICES ASSUME Init, NEW d \in Disbursements PROVE SumsUp(d)
  BY DEF Agrees
<1>1. /\ \A p \in Callers : job[p].d = "none"
      /\ queue = {} /\ disbursement[d] = "NONE" /\ NoOutflow(d)
  BY DEF Init, Idle, NoOutflow, Outflows
<1>2. Quiet(d)
  BY <1>1 DEF Quiet
<1> QED BY <1>1, <1>2, PayoutAssumption DEF SumsUp, Alone

\* Every step keeps the agreement.
LEMMA StepAgrees == Shape /\ Agrees /\ [Next]_vars => Agrees'
<1> SUFFICES ASSUME Shape, Agrees, [Next]_vars PROVE Agrees'
  OBVIOUS
<1>1. ASSUME NEW p \in Callers, CallFails(p) PROVE Agrees'
  <2>1. faults \in Nat /\ faults' = faults + 1
    BY <1>1, PayoutAssumption DEF CallFails, Shape, TypeOK
  <2> QED BY <2>1 DEF Agrees
<1>2. CASE (\E o \in Outflows : Decide(o)) \/ UNCHANGED vars
  BY <1>2, IdleAgrees DEF Decide, vars, rows
<1>3. ASSUME NEW p \in Callers, Step(p) PROVE Agrees'
  <2>1. CASE \/ \E d \in Disbursements : Recreate(p, d)
             \/ DispatchSkips(p) \/ DispatchReads(p) \/ CancelWrite(p)
    BY <2>1, EarlyAgrees
  <2>2. CASE \/ CreateOutflow(p) \/ CreateConflicts(p) \/ MarkProcessing(p) \/ Initiate(p)
             \/ RecordSent(p) \/ RecordFailure(p) \/ MarkOnHold(p) \/ AlreadyOnHold(p)
             \/ PageOps(p) \/ RecordSuccess(p) \/ Settle(p) \/ Query(p)
    <3>1. job[p].step \in OnAttempt
      BY <2>2 DEF CreateOutflow, CreateConflicts, MarkProcessing, Initiate, RecordSent,
                  RecordFailure, MarkOnHold, AlreadyOnHold, PageOps, RecordSuccess, Settle,
                  Query, At, OnAttempt
    <3> QED BY <2>2, <3>1, AttemptAgrees
  <2> QED BY <1>3, <2>1, <2>2 DEF Step
<1>4. CASE \/ \E r \in Requests, d \in Disbursements :
                 CreateForLoan(r, d) \/ Retry(r, d) \/ CancelRead(r, d) \/ AbandonAttempt(r, d)
           \/ \E r \in Requests : RecreateRead(r)
           \/ \E r \in Requests, o \in Outflows : Notify(r, o)
           \/ \E o \in Outflows : Probe(o)
           \/ SelectStale
  BY <1>4, ArrivalAgrees
<1> QED BY <1>1, <1>2, <1>3, <1>4 DEF Next

\* What Agrees says of a disbursement nobody is at work on.
LEMMA AgreesCounts == Shape /\ Agrees => DisbursementAgrees
<1> SUFFICES ASSUME Shape, faults = 0, NEW d \in Disbursements, Quiet(d)
             PROVE  /\ disbursement[d] = "PROCESSING" => Cardinality(Active(d)) = 1
                    /\ disbursement[d] = "ON_HOLD" =>
                          Made(d) # {} /\ \A n \in Made(d) : outflow[<<d, n>>] = "FAILED"
                    /\ disbursement[d] = "SUCCESSFUL" =>
                          /\ Active(d) = {}
                          /\ \E n \in Made(d) : outflow[<<d, n>>] = "SUCCESSFUL"
                    /\ disbursement[d] = "CANCELLED" => Cardinality(Active(d)) <= 1
  BY DEF DisbursementAgrees, Agrees, SumsUp
<1>1. ASSUME NEW n \in Attempts, Lone(d, n) PROVE Cardinality(Active(d)) = 1
  <2>1. Active(d) = {n}
    BY <1>1 DEF Active, Lone
  <2> QED BY <2>1, FS_Singleton
<1>2. Spent(d) => Cardinality(Active(d)) = 0
  <2>1. Spent(d) => Active(d) = {}
    BY DEF Active, Spent
  <2> QED BY <2>1, FS_EmptySet
<1>3. Failed(d) => Made(d) # {} /\ \A n \in Made(d) : outflow[<<d, n>>] = "FAILED"
  BY DEF Failed, Spent, NoOutflow, Made
<1>4. PaidOff(d) => Active(d) = {} /\ \E n \in Made(d) : outflow[<<d, n>>] = "SUCCESSFUL"
  BY DEF PaidOff, Active, Made
<1> QED BY <1>1, <1>2, <1>3, <1>4 DEF Quiet

\* Where calls did not overlap or fail, the status of a disbursement says what
\* became of its outflows (dispatch, retry, cancel and abandon of
\* DisbursementsService and OutflowsService, and the handlers that settle).
THEOREM StatusSumsUp == Spec => []DisbursementAgrees
BY InitShape, StepShape, InitAgrees, StepAgrees, AgreesCounts, PTL DEF Spec
=============================================================================
