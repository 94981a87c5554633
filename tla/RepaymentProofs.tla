--------------------------- MODULE RepaymentProofs ---------------------------
(***************************************************************************)
(* Proofs about Repayment for every set of loans, inflows, deliveries and  *)
(* claims, every amount, debt, floor, tolerance and set of rates.          *)
(***************************************************************************)
EXTENDS Repayment, FiniteSetTheorems, TLAPS

-----------------------------------------------------------------------------
(* Calls in progress *)

Steps == {"idle", "floor", "select", "match", "requery", "store", "persist",
          "credit", "recheck", "page", "pageFailed"}

Jobs == [step : Steps, i : Inflows \cup {"none"}, l : Loans \cup {NoLoan},
         reason : Unmatched \cup {"none"}]

\* Steps of a call that has picked a loan.
OnLoan == {"requery", "persist", "credit", "recheck", "pageFailed"}

\* A call that has not ended knows its inflow and, once picked, its loan.
WellFormed(p, j) ==
    /\ j \in Jobs
    /\ j.step # "idle" => j.i \in Inflows
    /\ j.step \in OnLoan => j.l \in Loans
    /\ p \in Claims => j.step \in {"idle", "credit"}

JobShape == \A p \in Callers : WellFormed(p, job[p])

\* The caller's new job is j, the others keep theirs.
Moves(p, j) == job' = [job EXCEPT ![p] = j]

\* A caller's well-formed new job leaves the jobs well formed.
LEMMA MovesShape ==
    ASSUME job \in [Callers -> Jobs], JobShape, NEW p \in Callers, NEW j, WellFormed(p, j),
           Moves(p, j)
    PROVE  job' \in [Callers -> Jobs] /\ JobShape'
BY DEF Moves, JobShape, WellFormed

\* Goto changes the step alone.
LEMMA GotoMoves ==
    ASSUME job \in [Callers -> Jobs], NEW p \in Callers, NEW step \in Steps, Goto(p, step)
    PROVE  \E j \in Jobs : /\ Moves(p, j) /\ j.step = step
                           /\ j.i = job[p].i /\ j.l = job[p].l /\ j.reason = job[p].reason
<1> DEFINE j == [job[p] EXCEPT !.step = step]
<1>1. Moves(p, j)
  BY DEF Goto, Moves
<1>2. j \in Jobs /\ j.step = step /\ j.i = job[p].i /\ j.l = job[p].l /\ j.reason = job[p].reason
  BY DEF Jobs
<1> QED BY <1>1, <1>2

\* Finish makes the caller idle.
LEMMA FinishMoves ==
    ASSUME NEW p \in Callers, Finish(p)
    PROVE  Moves(p, Idle) /\ Idle \in Jobs /\ WellFormed(p, Idle)
BY RepaymentAssumption DEF Finish, Moves, Idle, Jobs, Steps, WellFormed, OnLoan

\* Park sends the job to the row's insert with its reason.
LEMMA ParkMoves ==
    ASSUME job \in [Callers -> Jobs], NEW p \in Callers, NEW reason \in Unmatched,
           Park(p, reason)
    PROVE  \E j \in Jobs : /\ Moves(p, j) /\ j.step = "store" /\ j.i = job[p].i
                           /\ j.l = job[p].l /\ j.reason = reason
<1> DEFINE j == [job[p] EXCEPT !.step = "store", !.reason = reason]
<1>1. Moves(p, j)
  BY DEF Park, Moves
<1>2. j \in Jobs /\ j.step = "store" /\ j.i = job[p].i /\ j.l = job[p].l /\ j.reason = reason
  BY DEF Jobs, Steps
<1> QED BY <1>1, <1>2

\* Pick sends the job to the requery with its loan.
LEMMA PickMoves ==
    ASSUME job \in [Callers -> Jobs], NEW p \in Callers, NEW l \in Loans, Pick(p, l)
    PROVE  \E j \in Jobs : /\ Moves(p, j) /\ j.step = "requery" /\ j.i = job[p].i
                           /\ j.l = l /\ j.reason = job[p].reason
<1> DEFINE j == [job[p] EXCEPT !.step = "requery", !.l = l]
<1>1. Moves(p, j)
  BY DEF Pick, Moves
<1>2. j \in Jobs /\ j.step = "requery" /\ j.i = job[p].i /\ j.l = l /\ j.reason = job[p].reason
  BY DEF Jobs, Steps
<1> QED BY <1>1, <1>2

-----------------------------------------------------------------------------
(* The steps of a call that leave loans, inflows and repayments alone: what *)
(* job they leave the caller in, and what they page or swallow.             *)

\* Steps at which the call still owes ops a page about its inflow.
Pending == {"credit", "recheck", "page", "pageFailed"}

CalmStep(p) ==
    \/ \E i \in Inflows : p \in Deliveries /\ Deliver(p, i)
    \/ \E i \in Inflows, l \in Loans : p \in Claims /\ Claim(p, i, l)
    \/ CheckFloor(p) \/ SelectLoan(p) \/ MatchLoan(p) \/ Requery(p)
    \/ p \in Deliveries /\ RequeryThrows(p)
    \/ CreditNoOp(p) \/ CreditThrows(p) \/ Recheck(p) \/ PageOps(p)

\* The caller has paged, swallowed or lost to another credit what it owed a
\* page for, or still owes it.
Settles(p, j) ==
    p \in Deliveries /\ job[p].step \in Pending =>
        \/ j.i = job[p].i /\ j.step \in Pending
        \/ job[p].i \in paged' \cup swallowed'
        \/ row[job[p].i].state = "matched"

Leaves(p, j) ==
    /\ Moves(p, j) /\ WellFormed(p, j)
    /\ j.step = "persist" => Confirmed(j.i)
    /\ j.step = "credit" => p \in Claims /\ Claimable(j.i)
    /\ Settles(p, j)

CalmFrame ==
    /\ UNCHANGED <<loanVars, moneyVars, opsVars, day>>
    /\ paged \subseteq paged' /\ paged' \subseteq Inflows
    /\ creditFailed' \subseteq paged'
    /\ swallowed \subseteq swallowed' /\ swallowed' \subseteq Inflows

\* A calm step leaves the money alone and gives its caller a well-formed job.
LEMMA CalmMoves ==
    ASSUME TypeOK, JobShape, creditFailed \subseteq paged, NEW p \in Callers, CalmStep(p)
    PROVE  CalmFrame /\ \E j \in Jobs : Leaves(p, j)
<1>0. /\ job \in [Callers -> Jobs] /\ WellFormed(p, job[p])
      /\ paged \subseteq Inflows /\ swallowed \subseteq Inflows
      /\ p \in Deliveries <=> p \notin Claims
  BY RepaymentAssumption DEF TypeOK, JobShape, Jobs, Steps, Callers
<1> DEFINE Frame == UNCHANGED <<loanVars, moneyVars, pageVars, opsVars, day>>
<1>f. ASSUME Frame, swallowed' = swallowed
      PROVE  CalmFrame
  BY <1>0, <1>f DEF CalmFrame, pageVars
<1>1. ASSUME NEW i \in Inflows, p \in Deliveries, Deliver(p, i)
      PROVE  CalmFrame /\ \E j \in Jobs : Leaves(p, j)
  <2> DEFINE j == [Idle EXCEPT !.step = IF Amount[i] < Floor THEN "floor" ELSE "select", !.i = i]
  <2>1. j \in Jobs /\ j.step \in {"floor", "select"} /\ j.i = i
    BY DEF Idle, Jobs, Steps
  <2>2. WellFormed(p, j) /\ Moves(p, j)
    BY <2>1, <1>1, <1>0 DEF WellFormed, OnLoan, Moves, Deliver
  <2>3. Settles(p, j)
    BY <1>1 DEF Settles, Deliver, At, Pending
  <2>4. Leaves(p, j)
    BY <2>1, <2>2, <2>3 DEF Leaves
  <2> QED BY <2>1, <2>4, <1>f, <1>1 DEF Deliver
<1>2. ASSUME NEW i \in Inflows, NEW l \in Loans, p \in Claims, Claim(p, i, l)
      PROVE  CalmFrame /\ \E j \in Jobs : Leaves(p, j)
  <2> DEFINE j == [Idle EXCEPT !.step = "credit", !.i = i, !.l = l]
  <2>1. j \in Jobs /\ j.step = "credit" /\ j.i = i /\ j.l = l
    BY DEF Idle, Jobs, Steps
  <2>2. WellFormed(p, j) /\ Moves(p, j)
    BY <2>1, <1>2, <1>0 DEF WellFormed, OnLoan, Moves, Claim
  <2>3. Claimable(j.i) /\ Settles(p, j)
    BY <2>1, <1>2, <1>0 DEF Settles, Claim
  <2>4. Leaves(p, j)
    BY <2>1, <2>2, <2>3, <1>2 DEF Leaves
  <2> QED BY <2>1, <2>4, <1>f, <1>2 DEF Claim
<1>g. ASSUME Frame, swallowed' = swallowed, p \in Deliveries,
             job[p].step \notin Pending \cup {"idle"},
             NEW step \in {"select", "match"}, Goto(p, step)
      PROVE  CalmFrame /\ \E j \in Jobs : Leaves(p, j)
  <2>1. PICK j \in Jobs : /\ Moves(p, j) /\ j.step = step
                          /\ j.i = job[p].i /\ j.l = job[p].l /\ j.reason = job[p].reason
    BY <1>g, <1>0, GotoMoves DEF Steps
  <2>2. WellFormed(p, j) /\ Settles(p, j)
    BY <2>1, <1>g, <1>0 DEF WellFormed, OnLoan, Settles
  <2> QED BY <2>1, <2>2, <1>f, <1>g DEF Leaves
<1>k. ASSUME Frame, swallowed' = swallowed, p \in Deliveries,
             job[p].step \notin Pending \cup {"idle"},
             NEW reason \in Unmatched, Park(p, reason)
      PROVE  CalmFrame /\ \E j \in Jobs : Leaves(p, j)
  <2>1. PICK j \in Jobs : /\ Moves(p, j) /\ j.step = "store" /\ j.i = job[p].i
                          /\ j.l = job[p].l /\ j.reason = reason
    BY <1>k, <1>0, ParkMoves
  <2>2. WellFormed(p, j) /\ Settles(p, j)
    BY <2>1, <1>k, <1>0 DEF WellFormed, OnLoan, Settles
  <2> QED BY <2>1, <2>2, <1>f, <1>k DEF Leaves
<1>p. ASSUME Frame, swallowed' = swallowed, p \in Deliveries,
             job[p].step \notin Pending \cup {"idle"},
             NEW l \in Loans, Pick(p, l)
      PROVE  CalmFrame /\ \E j \in Jobs : Leaves(p, j)
  <2>1. PICK j \in Jobs : /\ Moves(p, j) /\ j.step = "requery" /\ j.i = job[p].i
                          /\ j.l = l /\ j.reason = job[p].reason
    BY <1>p, <1>0, PickMoves
  <2>2. WellFormed(p, j) /\ Settles(p, j)
    BY <2>1, <1>p, <1>0 DEF WellFormed, OnLoan, Settles
  <2> QED BY <2>1, <2>2, <1>f, <1>p DEF Leaves
<1>e. ASSUME CalmFrame, Settles(p, Idle), Finish(p)
      PROVE  CalmFrame /\ \E j \in Jobs : Leaves(p, j)
  <2>1. Moves(p, Idle) /\ Idle \in Jobs /\ WellFormed(p, Idle)
    BY <1>e, FinishMoves
  <2>2. Idle.step = "idle"
    BY DEF Idle
  <2>3. Leaves(p, Idle)
    BY <2>1, <2>2, <1>e DEF Leaves
  <2> QED BY <2>1, <2>3, <1>e
<1>u. /\ "below_floor" \in Unmatched /\ "no_active_loans" \in Unmatched
      /\ "multiple_active_loans" \in Unmatched /\ "requery_mismatch" \in Unmatched
      /\ "requery_unconfirmed" \in Unmatched
  BY DEF Unmatched, Untrusted
<1>3. CASE CheckFloor(p)
  <2>1. Frame /\ swallowed' = swallowed /\ job[p].step = "floor"
    BY <1>3 DEF CheckFloor, At
  <2>2. p \in Deliveries /\ job[p].step \notin Pending \cup {"idle"}
    BY <2>1, <1>0 DEF WellFormed, Pending
  <2>3. Goto(p, "select") \/ Park(p, "below_floor")
    BY <1>3 DEF CheckFloor
  <2>4. CASE Goto(p, "select")
    BY <2>1, <2>2, <2>4, <1>g
  <2>5. CASE Park(p, "below_floor")
    BY <2>1, <2>2, <2>5, <1>u, <1>k
  <2> QED BY <2>3, <2>4, <2>5
<1>4. CASE SelectLoan(p)
  <2>1. Frame /\ swallowed' = swallowed /\ job[p].step = "select"
    BY <1>4 DEF SelectLoan, At
  <2>2. p \in Deliveries /\ job[p].step \notin Pending \cup {"idle"}
    BY <2>1, <1>0 DEF WellFormed, Pending
  <2>3. Park(p, "no_active_loans") \/ Goto(p, "match") \/ \E l \in Loans : Pick(p, l)
    BY <1>4 DEF SelectLoan
  <2>4. CASE Park(p, "no_active_loans")
    BY <2>1, <2>2, <2>4, <1>u, <1>k
  <2>5. CASE Goto(p, "match")
    BY <2>1, <2>2, <2>5, <1>g
  <2>6. ASSUME NEW l \in Loans, Pick(p, l)
        PROVE  CalmFrame /\ \E j \in Jobs : Leaves(p, j)
    BY <2>1, <2>2, <2>6, <1>p
  <2> QED BY <2>3, <2>4, <2>5, <2>6
<1>5. CASE MatchLoan(p)
  <2>1. Frame /\ swallowed' = swallowed /\ job[p].step = "match"
    BY <1>5 DEF MatchLoan, At
  <2>2. p \in Deliveries /\ job[p].step \notin Pending \cup {"idle"}
    BY <2>1, <1>0 DEF WellFormed, Pending
  <2>3. Park(p, "multiple_active_loans") \/ \E l \in Loans : Pick(p, l)
    BY <1>5 DEF MatchLoan, Oldest, Matching, ActiveLoans
  <2>4. CASE Park(p, "multiple_active_loans")
    BY <2>1, <2>2, <2>4, <1>u, <1>k
  <2>5. ASSUME NEW l \in Loans, Pick(p, l)
        PROVE  CalmFrame /\ \E j \in Jobs : Leaves(p, j)
    BY <2>1, <2>2, <2>5, <1>p
  <2> QED BY <2>3, <2>4, <2>5
<1>6. CASE Requery(p) \/ (p \in Deliveries /\ RequeryThrows(p))
  <2>1. Frame /\ swallowed' = swallowed /\ job[p].step = "requery"
    BY <1>6 DEF Requery, RequeryThrows, At
  <2>2. p \in Deliveries /\ job[p].step \notin Pending \cup {"idle"}
    BY <2>1, <1>0 DEF WellFormed, Pending
  <2>3. \/ Confirmed(job[p].i) /\ Goto(p, "persist")
        \/ Park(p, "requery_mismatch") \/ Park(p, "requery_unconfirmed")
        \/ Finish(p)
    BY <1>6 DEF Requery, RequeryThrows
  <2>4. CASE Confirmed(job[p].i) /\ Goto(p, "persist")
    <3>1. PICK j \in Jobs : /\ Moves(p, j) /\ j.step = "persist"
                            /\ j.i = job[p].i /\ j.l = job[p].l /\ j.reason = job[p].reason
      BY <2>4, <1>0, GotoMoves DEF Steps
    <3>2. WellFormed(p, j) /\ Settles(p, j)
      BY <3>1, <2>1, <2>2, <1>0 DEF WellFormed, OnLoan, Settles
    <3> QED BY <3>1, <3>2, <2>1, <2>4, <1>f DEF Leaves
  <2>5. CASE Park(p, "requery_mismatch") \/ Park(p, "requery_unconfirmed")
    BY <2>1, <2>2, <2>5, <1>u, <1>k
  <2>6. CASE Finish(p)
    BY <2>1, <2>2, <2>6, <1>f, <1>e DEF Settles
  <2> QED BY <2>3, <2>4, <2>5, <2>6
<1>7. CASE CreditNoOp(p)
  <2>1. /\ UNCHANGED <<loanVars, moneyVars, pageVars, opsVars, day>>
        /\ swallowed' = swallowed \cup {job[p].i} /\ job[p].step = "credit" /\ Finish(p)
    BY <1>7 DEF CreditNoOp, At
  <2>2. job[p].i \in Inflows
    BY <2>1, <1>0 DEF WellFormed
  <2>3. CalmFrame
    BY <2>1, <2>2, <1>0 DEF CalmFrame, pageVars
  <2>4. Settles(p, Idle)
    BY <2>1 DEF Settles
  <2> QED BY <2>1, <2>3, <2>4, <1>e
<1>8. CASE CreditThrows(p)
  <2>1. Frame /\ swallowed' = swallowed /\ job[p].step = "credit"
    BY <1>8 DEF CreditThrows, At
  <2>2. CASE p \in Claims
    BY <2>1, <2>2, <1>8, <1>0, <1>f, <1>e DEF CreditThrows, Settles
  <2>3. CASE p \in Deliveries
    <3>1. Goto(p, "recheck")
      BY <2>3, <1>8, <1>0 DEF CreditThrows
    <3>2. PICK j \in Jobs : /\ Moves(p, j) /\ j.step = "recheck"
                            /\ j.i = job[p].i /\ j.l = job[p].l /\ j.reason = job[p].reason
      BY <3>1, <1>0, GotoMoves DEF Steps
    <3>3. WellFormed(p, j)
      BY <3>2, <2>1, <2>3, <1>0 DEF WellFormed, OnLoan
    <3>4. Settles(p, j)
      BY <3>2 DEF Settles, Pending
    <3> QED BY <3>2, <3>3, <3>4, <2>1, <1>f DEF Leaves
  <2> QED BY <2>2, <2>3, <1>0
<1>9. CASE Recheck(p)
  <2>1. Frame /\ swallowed' = swallowed /\ job[p].step = "recheck"
    BY <1>9 DEF Recheck, At
  <2>2. p \in Deliveries
    BY <2>1, <1>0 DEF WellFormed
  <2>3. CASE Duplicate(job[p].i) \/ job[p].i \in creditFailed
    <3>1. Finish(p)
      BY <2>3, <1>9 DEF Recheck
    <3>2. paged' = paged
      BY <2>1 DEF pageVars
    <3>3. Settles(p, Idle)
      BY <2>3, <3>2 DEF Settles, Duplicate
    <3> QED BY <3>1, <3>3, <2>1, <1>f, <1>e
  <2>4. CASE ~(Duplicate(job[p].i) \/ job[p].i \in creditFailed)
    <3>1. Goto(p, "pageFailed")
      BY <2>4, <1>9 DEF Recheck
    <3>2. PICK j \in Jobs : /\ Moves(p, j) /\ j.step = "pageFailed"
                            /\ j.i = job[p].i /\ j.l = job[p].l /\ j.reason = job[p].reason
      BY <3>1, <1>0, GotoMoves DEF Steps
    <3>3. WellFormed(p, j)
      BY <3>2, <2>1, <2>2, <1>0 DEF WellFormed, OnLoan
    <3>4. Settles(p, j)
      BY <3>2 DEF Settles, Pending
    <3> QED BY <3>2, <3>3, <3>4, <2>1, <1>f DEF Leaves
  <2> QED BY <2>3, <2>4
<1>10. CASE PageOps(p)
  <2>1. /\ UNCHANGED <<loanVars, moneyVars, opsVars, day, swallowed>>
        /\ paged' = paged \cup {job[p].i} /\ Finish(p)
        /\ creditFailed' \subseteq creditFailed \cup {job[p].i}
        /\ job[p].step \in {"page", "pageFailed"}
    BY <1>10 DEF PageOps, At
  <2>2. job[p].i \in Inflows
    BY <2>1, <1>0 DEF WellFormed
  <2>3. CalmFrame
    BY <2>1, <2>2, <1>0 DEF CalmFrame
  <2>4. Settles(p, Idle)
    BY <2>1 DEF Settles
  <2> QED BY <2>1, <2>3, <2>4, <1>e
<1>11. CASE \E i \in Inflows : p \in Deliveries /\ Deliver(p, i)
  BY <1>1, <1>11
<1>12. CASE \E i \in Inflows, l \in Loans : p \in Claims /\ Claim(p, i, l)
  BY <1>2, <1>12
<1> QED BY <1>3, <1>4, <1>5, <1>6, <1>7, <1>8, <1>9, <1>10, <1>11, <1>12 DEF CalmStep

-----------------------------------------------------------------------------
(* Every step is calm, or one of those below.                              *)

OtherStep ==
    \/ \E p \in Callers : StoreUnmatched(p) \/ Persist(p) \/ Credit(p)
    \/ SweepSelects \/ SweepAssesses
    \/ \E l \in Loans : LiquidateLoan(l) \/ RestoreRead(l) \/ RestoreWrite(l)
    \/ \E i \in Inflows : Settle(i)
    \/ DayPasses

\* Every step is a calm one or one that moves money, rows or loans.
LEMMA NextSplit == Next => OtherStep \/ \E p \in Callers : CalmStep(p)
BY DEF Next, OtherStep, CalmStep, Handle, Callers

-----------------------------------------------------------------------------
(* Type correctness                                                        *)

Typed == TypeOK /\ JobShape /\ creditFailed \subseteq paged

LoanTypes == status \in [Loans -> Statuses] /\ log \in [Loans -> Seq(LogRow)]

\* A row added to a loan's log is of the log's type.
LEMMA RecordType ==
    ASSUME LoanTypes, NEW l \in Loans, NEW from \in Statuses, NEW to \in Statuses,
           NEW reason \in Reasons, Record(l, from, to, reason)
    PROVE  log' \in [Loans -> Seq(LogRow)]
<1>1. [from |-> from, to |-> to, reason |-> reason] \in LogRow
  BY DEF LogRow
<1> QED BY <1>1 DEF Record, LoanTypes

\* A transition keeps the types of the statuses and the logs.
LEMMA TransitionType ==
    ASSUME LoanTypes, NEW l \in Loans, NEW from \in Statuses, NEW to \in Statuses,
           NEW reason \in Reasons, Transition(l, from, to, reason)
    PROVE  LoanTypes'
<1>1. log' \in [Loans -> Seq(LogRow)]
  BY RecordType DEF Transition
<1>2. status' \in [Loans -> Statuses]
  BY DEF Transition, LoanTypes
<1> QED BY <1>1, <1>2 DEF LoanTypes

\* A row once inserted stays; a new one is unmatched.
LEMMA NewRowKeeps ==
    ASSUME TypeOK, NEW i \in Inflows, NEW reason \in Unmatched \cup {"none"}, NewRow(i, reason)
    PROVE  /\ row' \in [Inflows -> [state : {"none", "unmatched", "matched"},
                              reason : Unmatched \cup {"none"}, loan : Loans \cup {NoLoan}]]
           /\ row'[i].state # "none"
           /\ \A k \in Inflows :
                 \/ row'[k] = row[k]
                 \/ k = i /\ row[k].state = "none" /\ row'[k].state = "unmatched"
BY DEF TypeOK, NewRow, NoRow

\* What the waterfall takes is what there is to take, or all of the payment.
LEMMA AppliedBounds ==
    ASSUME NEW amount \in Nat, NEW outstanding \in Nat
    PROVE  /\ Applied(amount, outstanding) \in Nat
           /\ Applied(amount, outstanding) <= outstanding
           /\ amount - Applied(amount, outstanding) \in Nat
           /\ outstanding - Applied(amount, outstanding) \in Nat
BY DEF Applied

\* The job a delivery is left in by the two steps that insert the row.
LEMMA StoreMoves ==
    ASSUME Typed, NEW p \in Callers, StoreUnmatched(p)
    PROVE  /\ p \in Deliveries /\ job[p].i \in Inflows /\ job[p].reason \in Unmatched \cup {"none"}
           /\ \E j \in Jobs :
                 /\ Moves(p, j) /\ WellFormed(p, j) /\ j.step \in {"idle", "page"}
                 /\ j.step = "page" => j.i = job[p].i
                 /\ row[job[p].i].state = "none" => j.step = "page"
<1>0. /\ job \in [Callers -> Jobs] /\ WellFormed(p, job[p]) /\ job[p].step = "store"
      /\ p \in Deliveries <=> p \notin Claims
  BY RepaymentAssumption DEF Typed, TypeOK, JobShape, Jobs, Steps, Callers, StoreUnmatched, At
<1>1. p \in Deliveries /\ job[p].i \in Inflows /\ job[p].reason \in Unmatched \cup {"none"}
  BY <1>0 DEF WellFormed, Jobs
<1>2. CASE row[job[p].i].state = "none"
  <2>1. PICK j \in Jobs : /\ Moves(p, j) /\ j.step = "page"
                          /\ j.i = job[p].i /\ j.l = job[p].l /\ j.reason = job[p].reason
    BY <1>2, <1>0, GotoMoves DEF StoreUnmatched, Steps
  <2> QED BY <2>1, <1>1, <1>0 DEF WellFormed, OnLoan
<1>3. CASE row[job[p].i].state # "none"
  BY <1>1, <1>3, FinishMoves DEF StoreUnmatched, Idle
<1> QED BY <1>1, <1>2, <1>3

\* A delivery that stores its inflow goes on to the credit or ends.
LEMMA PersistMoves ==
    ASSUME Typed, NEW p \in Callers, Persist(p)
    PROVE  /\ p \in Deliveries /\ job[p].i \in Inflows
           /\ \E j \in Jobs :
                 /\ Moves(p, j) /\ WellFormed(p, j) /\ j.step \in {"idle", "credit"}
                 /\ j.step = "credit" => j.i = job[p].i
                 /\ row[job[p].i].state # "matched" => j.step = "credit"
<1>0. /\ job \in [Callers -> Jobs] /\ WellFormed(p, job[p]) /\ job[p].step = "persist"
      /\ p \in Deliveries <=> p \notin Claims
  BY RepaymentAssumption DEF Typed, TypeOK, JobShape, Jobs, Steps, Callers, Persist, At
<1>1. p \in Deliveries /\ job[p].i \in Inflows /\ job[p].l \in Loans
  BY <1>0 DEF WellFormed, OnLoan
<1>2. CASE row[job[p].i].state # "matched"
  <2>1. PICK j \in Jobs : /\ Moves(p, j) /\ j.step = "credit"
                          /\ j.i = job[p].i /\ j.l = job[p].l /\ j.reason = job[p].reason
    BY <1>2, <1>0, GotoMoves DEF Persist, Steps
  <2> QED BY <2>1, <1>1, <1>0 DEF WellFormed
<1>3. CASE row[job[p].i].state = "matched"
  BY <1>1, <1>3, FinishMoves DEF Persist, Idle
<1> QED BY <1>1, <1>2, <1>3

Repaid(i, l, method) ==
    LET applied == Applied(Amount[i], owed[l])
    IN  [i |-> i, l |-> l, applied |-> applied, overpay |-> Amount[i] - applied,
         method |-> method]

\* What a credit does: it consumes the inflow for an ACTIVE loan.
LEMMA CreditEffect ==
    ASSUME Typed, NEW p \in Callers, Credit(p)
    PROVE  \E i \in Inflows, l \in Loans, method \in {"AUTO_AMOUNT", "CUSTOMER_CLAIM"} :
              /\ i = job[p].i /\ l = job[p].l /\ job[p].step = "credit"
              /\ method = "CUSTOMER_CLAIM" <=> p \in Claims
              /\ status[l] = "ACTIVE" /\ RepaymentFree(i) /\ Repay(i, l, method)
              /\ Moves(p, Idle)
              /\ UNCHANGED <<soldBadly, order, pageVars, opsVars, day, swallowed>>
<1>0. /\ job \in [Callers -> Jobs] /\ WellFormed(p, job[p]) /\ job[p].step = "credit"
  BY DEF Typed, TypeOK, JobShape, Jobs, Steps, Credit, At
<1>1. job[p].i \in Inflows /\ job[p].l \in Loans
  BY <1>0 DEF WellFormed, OnLoan
<1> QED BY <1>0, <1>1, FinishMoves DEF Credit, Creditable

\* The repayment of an ACTIVE loan keeps the types of what it writes.
LEMMA RepayType ==
    ASSUME TypeOK, NEW i \in Inflows, NEW l \in Loans,
           NEW method \in {"AUTO_AMOUNT", "CUSTOMER_CLAIM"},
           status[l] = "ACTIVE", Repay(i, l, method)
    PROVE  /\ LoanTypes'
           /\ owed' \in [Loans -> Nat]
           /\ closedBy' \in [Loans -> Inflows \cup {"none"}]
           /\ row' \in [Inflows -> [state : {"none", "unmatched", "matched"},
                              reason : Unmatched \cup {"none"}, loan : Loans \cup {NoLoan}]]
           /\ repayments' \subseteq [i : Inflows, l : Loans, applied : Nat, overpay : Nat,
                                     method : {"AUTO_AMOUNT", "CUSTOMER_CLAIM"}]
<1> DEFINE applied == Applied(Amount[i], owed[l])
<1>0. LoanTypes /\ "ACTIVE" \in Statuses /\ "REPAID" \in Statuses
      /\ "REPAYMENT_COMPLETED" \in Reasons /\ "REPAYMENT_PARTIAL_NGN" \in Reasons
  BY DEF TypeOK, LoanTypes, Statuses, Reasons
<1>1. /\ applied \in Nat /\ Amount[i] - applied \in Nat /\ owed[l] - applied \in Nat
  BY AppliedBounds, RepaymentAssumption DEF TypeOK
<1>2. LoanTypes'
  BY <1>0, TransitionType DEF Repay
<1>3. /\ repayments' = repayments \cup
            {[i |-> i, l |-> l, applied |-> applied, overpay |-> Amount[i] - applied,
              method |-> method]}
      /\ row' = [row EXCEPT ![i].state = "matched", ![i].loan = l]
      /\ owed' = [owed EXCEPT ![l] = @ - applied]
      /\ closedBy' = [closedBy EXCEPT ![l] = i] \/ closedBy' = closedBy
  BY DEF Repay
<1> HIDE DEF applied
<1>4. owed' \in [Loans -> Nat]
  BY <1>3, <1>1 DEF TypeOK
<1>5. closedBy' \in [Loans -> Inflows \cup {"none"}]
  BY <1>3 DEF TypeOK
<1>6. row' \in [Inflows -> [state : {"none", "unmatched", "matched"},
                    reason : Unmatched \cup {"none"}, loan : Loans \cup {NoLoan}]]
  <2> DEFINE RowType == [state : {"none", "unmatched", "matched"},
                         reason : Unmatched \cup {"none"}, loan : Loans \cup {NoLoan}]
  <2>1. [row[i] EXCEPT !.state = "matched", !.loan = l] \in RowType
    <3>1. row[i] \in RowType
      BY DEF TypeOK
    <3> QED BY <3>1
  <2>2. row' = [row EXCEPT ![i] = [row[i] EXCEPT !.state = "matched", !.loan = l]]
    BY <1>3 DEF TypeOK
  <2>3. row \in [Inflows -> RowType]
    BY DEF TypeOK
  <2> HIDE DEF RowType
  <2>4. row' \in [Inflows -> RowType]
    BY <2>1, <2>2, <2>3
  <2> QED BY <2>4 DEF RowType
<1>7. repayments' \subseteq [i : Inflows, l : Loans, applied : Nat, overpay : Nat,
                             method : {"AUTO_AMOUNT", "CUSTOMER_CLAIM"}]
  BY <1>3, <1>1 DEF TypeOK
<1> QED BY <1>2, <1>4, <1>5, <1>6, <1>7

\* A sweep or a restore writes the status and the log of one loan.
LEMMA OverwriteType ==
    ASSUME LoanTypes, NEW l \in Loans, NEW from \in Statuses, NEW to \in Statuses,
           NEW reason \in Reasons, Record(l, from, to, reason),
           status' = [status EXCEPT ![l] = to]
    PROVE  LoanTypes'
<1>1. log' \in [Loans -> Seq(LogRow)]
  BY RecordType
<1> QED BY <1>1 DEF LoanTypes

\* Calm steps keep the types.
LEMMA CalmTyped ==
    ASSUME Typed, NEW p \in Callers, CalmStep(p)
    PROVE  Typed'
<1>1. CalmFrame /\ \E j \in Jobs : Leaves(p, j)
  BY CalmMoves DEF Typed
<1>2. job' \in [Callers -> Jobs] /\ JobShape'
  BY <1>1, MovesShape DEF Leaves, Typed, TypeOK, Jobs, Steps
<1>3. TypeOK'
  BY <1>1, <1>2 DEF Typed, TypeOK, CalmFrame, Jobs, Steps, loanVars, moneyVars, opsVars
<1> QED BY <1>1, <1>2, <1>3 DEF Typed, CalmFrame

\* The other steps keep the types.
LEMMA OtherTyped ==
    ASSUME Typed, OtherStep
    PROVE  Typed'
<1>0. TypeOK /\ JobShape /\ job \in [Callers -> Jobs] /\ LoanTypes
  BY DEF Typed, TypeOK, Jobs, Steps, LoanTypes
<1>u. /\ {"ACTIVE", "LIQUIDATED"} \subseteq Statuses
      /\ {"LIQUIDATION_COMPLETED", "LIQUIDATION_REVERSED_BAD_RATE"} \subseteq Reasons
  BY DEF Statuses, Reasons
<1>1. ASSUME NEW p \in Callers, StoreUnmatched(p) PROVE Typed'
  <2>1. PICK j \in Jobs : Moves(p, j) /\ WellFormed(p, j)
    BY <1>1, StoreMoves
  <2>2. job' \in [Callers -> Jobs] /\ JobShape'
    BY <1>0, <2>1, MovesShape
  <2>3. job[p].i \in Inflows /\ job[p].reason \in Unmatched \cup {"none"}
    BY <1>1, StoreMoves
  <2>4. row' \in [Inflows -> [state : {"none", "unmatched", "matched"},
                    reason : Unmatched \cup {"none"}, loan : Loans \cup {NoLoan}]]
    BY <2>3, <1>1, <1>0, NewRowKeeps DEF StoreUnmatched
  <2> QED BY <1>1, <2>2, <2>4 DEF StoreUnmatched, Typed, TypeOK, Jobs, Steps,
                                  loanVars, pageVars, opsVars
<1>2. ASSUME NEW p \in Callers, Persist(p) PROVE Typed'
  <2>1. PICK j \in Jobs : Moves(p, j) /\ WellFormed(p, j)
    BY <1>2, PersistMoves
  <2>2. job' \in [Callers -> Jobs] /\ JobShape'
    BY <1>0, <2>1, MovesShape
  <2>3. job[p].i \in Inflows
    BY <1>2, PersistMoves
  <2>4. row' \in [Inflows -> [state : {"none", "unmatched", "matched"},
                    reason : Unmatched \cup {"none"}, loan : Loans \cup {NoLoan}]]
    BY <2>3, <1>2, <1>0, NewRowKeeps DEF Persist
  <2> QED BY <1>2, <2>2, <2>4 DEF Persist, Typed, TypeOK, Jobs, Steps,
                                  loanVars, pageVars, opsVars
<1>3. ASSUME NEW p \in Callers, Credit(p) PROVE Typed'
  <2>1. PICK i \in Inflows, l \in Loans, method \in {"AUTO_AMOUNT", "CUSTOMER_CLAIM"} :
           /\ status[l] = "ACTIVE" /\ Repay(i, l, method) /\ Moves(p, Idle)
           /\ UNCHANGED <<soldBadly, order, pageVars, opsVars, day, swallowed>>
    BY <1>3, CreditEffect
  <2>2. Idle \in Jobs /\ WellFormed(p, Idle)
    BY FinishMoves, <1>3 DEF Credit
  <2>3. job' \in [Callers -> Jobs] /\ JobShape'
    BY <1>0, <2>1, <2>2, MovesShape
  <2>4. /\ status' \in [Loans -> Statuses] /\ log' \in [Loans -> Seq(LogRow)]
        /\ owed' \in [Loans -> Nat]
        /\ closedBy' \in [Loans -> Inflows \cup {"none"}]
        /\ row' \in [Inflows -> [state : {"none", "unmatched", "matched"},
                           reason : Unmatched \cup {"none"}, loan : Loans \cup {NoLoan}]]
        /\ repayments' \subseteq [i : Inflows, l : Loans, applied : Nat, overpay : Nat,
                                  method : {"AUTO_AMOUNT", "CUSTOMER_CLAIM"}]
    BY <1>0, <2>1, RepayType DEF LoanTypes
  <2> QED BY <2>1, <2>3, <2>4 DEF Typed, TypeOK, Jobs, Steps, pageVars, opsVars
<1>4. CASE SweepSelects
  BY <1>4, <1>0 DEF SweepSelects, ActiveLoans, Typed, TypeOK, JobShape,
                    loanVars, moneyVars, pageVars
<1>5. CASE SweepAssesses
  BY <1>5, <1>0 DEF SweepAssesses, Doomed, Rest, Typed, TypeOK, JobShape,
                    loanVars, moneyVars, pageVars
<1>6. ASSUME NEW l \in Loans, LiquidateLoan(l) PROVE Typed'
  <2>1. LoanTypes'
    BY <1>6, <1>0, <1>u, OverwriteType DEF LiquidateLoan
  <2>2. soldBadly' \subseteq Loans
    BY <1>6 DEF LiquidateLoan, Typed, TypeOK
  <2>3. sweep' \in [step : {"idle", "assess", "liquidate"}, rate : Rates \cup {0},
                    loans : SUBSET Loans]
    BY <1>6 DEF LiquidateLoan, Rest, Typed, TypeOK
  <2> QED BY <2>1, <2>2, <2>3, <1>6 DEF LiquidateLoan, Typed, TypeOK, JobShape, LoanTypes,
                                        moneyVars, pageVars
<1>7. ASSUME NEW l \in Loans, RestoreRead(l) PROVE Typed'
  BY <1>7 DEF RestoreRead, Typed, TypeOK, JobShape, loanVars, moneyVars, pageVars
<1>8. ASSUME NEW l \in Loans, RestoreWrite(l) PROVE Typed'
  <2>1. LoanTypes'
    BY <1>8, <1>0, <1>u, OverwriteType DEF RestoreWrite
  <2> QED BY <2>1, <1>8 DEF RestoreWrite, Typed, TypeOK, JobShape, LoanTypes,
                            moneyVars, pageVars
<1>9. ASSUME NEW i \in Inflows, Settle(i) PROVE Typed'
  BY <1>9 DEF Settle, Typed, TypeOK, JobShape, loanVars, pageVars, opsVars
<1>10. CASE DayPasses
  BY <1>10, RepaymentAssumption DEF DayPasses, Typed, TypeOK, JobShape,
                                     moneyVars, pageVars, opsVars
<1> QED BY <1>1, <1>2, <1>3, <1>4, <1>5, <1>6, <1>7, <1>8, <1>9, <1>10 DEF OtherStep

\* A step that changes nothing keeps the types.
LEMMA StutterTyped == Typed /\ UNCHANGED vars => Typed'
BY DEF Typed, TypeOK, JobShape, vars, loanVars, moneyVars, pageVars, opsVars

\* The types hold at first.
LEMMA InitTyped == Init => Typed
BY RepaymentAssumption DEF Init, Typed, TypeOK, JobShape, WellFormed, Jobs, Steps, OnLoan,
                           Idle, Rest, NoRow, NoLoan, Statuses

\* Every step keeps them.
LEMMA StepTyped == Typed /\ [Next]_vars => Typed'
BY NextSplit, CalmTyped, OtherTyped, StutterTyped

\* They always hold.
LEMMA TypedInvariant == Spec => []Typed
BY InitTyped, StepTyped, PTL DEF Spec

\* Every state of every behaviour is well typed: no delivery or claim loses
\* track of its inflow and loan, and no loan's debt falls below zero, whatever
\* is paid while interest accrues.
THEOREM TypeCorrect == Spec => []TypeOK
<1>1. Typed => TypeOK
  BY DEF Typed
<1> QED BY <1>1, TypedInvariant, PTL

-----------------------------------------------------------------------------
(* The ledger.                                                             *)
(*                                                                         *)
(* That an inflow pays once needs nothing but the row and its repayment    *)
(* agreeing.  That an ACTIVE loan owes something needs an account of what  *)
(* ops may restore: a loan goes back from LIQUIDATED to ACTIVE only if it  *)
(* was sold at a suspect rate, the worker no longer sells at one, and so   *)
(* no loan that a sweep finds ACTIVE, and none that was paid off while a   *)
(* sweep held it, is ever restorable.                                      *)

Restorable ==
    /\ restoring \subseteq soldBadly
    /\ \A l \in soldBadly : status[l] = "LIQUIDATED" /\ owed[l] > 0
    /\ sweep.loans \cap soldBadly = {}
    /\ sweep.step = "liquidate" => ~Suspect(sweep.rate)

\* The rows of l's log that say it was repaid.
Completed(l) == {n \in DOMAIN log[l] : log[l][n].reason = "REPAYMENT_COMPLETED"}

Completion ==
    \A l \in Loans :
        /\ closedBy[l] = "none" => Completed(l) = {}
        /\ \A m, n \in Completed(l) : m = n

Ledger == InflowCreditedOnce /\ Restorable /\ ClosedWhenPaid /\ Completion

\* A row with another reason leaves the completions of the loan alone.
LEMMA RecordCompletion ==
    ASSUME LoanTypes, NEW l \in Loans, NEW from, NEW to, NEW reason, Record(l, from, to, reason)
    PROVE  /\ \A k \in Loans \ {l} : Completed(k)' = Completed(k)
           /\ reason # "REPAYMENT_COMPLETED" => Completed(l)' = Completed(l)
           /\ reason = "REPAYMENT_COMPLETED" => Completed(l)' = Completed(l) \cup {Len(log[l]) + 1}
<1>1. log' = [log EXCEPT ![l] = Append(@, [from |-> from, to |-> to, reason |-> reason])]
      /\ log \in [Loans -> Seq(LogRow)]
  BY DEF Record, LoanTypes
<1>2. \A k \in Loans \ {l} : log'[k] = log[k]
  BY <1>1
<1> DEFINE rows == log[l]
           new == [from |-> from, to |-> to, reason |-> reason]
<1>3. rows \in Seq(LogRow) /\ log'[l] = Append(rows, new) /\ new.reason = reason
  BY <1>1
<1>4. /\ DOMAIN log'[l] = DOMAIN rows \cup {Len(rows) + 1}
      /\ \A n \in DOMAIN rows : log'[l][n] = rows[n]
      /\ log'[l][Len(rows) + 1] = new
  <2> HIDE DEF rows, new
  <2> QED BY <1>3
<1>5. /\ \A k \in Loans : Completed(k)' =
            {n \in DOMAIN log'[k] : log'[k][n].reason = "REPAYMENT_COMPLETED"}
      /\ Completed(l) = {n \in DOMAIN rows : rows[n].reason = "REPAYMENT_COMPLETED"}
  BY DEF Completed
<1>6. \A k \in Loans \ {l} : Completed(k)' = Completed(k)
  BY <1>2, <1>5 DEF Completed
<1> DEFINE last == Len(log[l]) + 1
<1>7. last = Len(rows) + 1
  OBVIOUS
<1> HIDE DEF rows, new, last
<1>8. reason # "REPAYMENT_COMPLETED" => Completed(l)' = Completed(l)
  BY <1>3, <1>4, <1>5, <1>7
<1>9. reason = "REPAYMENT_COMPLETED" => Completed(l)' = Completed(l) \cup {last}
  BY <1>3, <1>4, <1>5, <1>7
<1> QED BY <1>6, <1>8, <1>9 DEF last

\* No inflow is credited and no loan is closed at first.
LEMMA InitLedger == Init => Ledger
<1> SUFFICES ASSUME Init PROVE Ledger
  OBVIOUS
<1>1. InflowCreditedOnce
  <2>1. \A r : r \notin repayments
    BY DEF Init
  <2>2. \A i \in Inflows : row[i].state = "none"
    BY DEF Init, NoRow
  <2> QED BY <2>1, <2>2 DEF InflowCreditedOnce
<1>2. \A l \in Loans : owed[l] \in Nat /\ owed[l] > 0 /\ owed[l] # 0
  <2>1. \A l \in Loans : owed[l] = Debt[l]
    BY DEF Init
  <2> TAKE l \in Loans
  <2>2. Debt[l] \in Nat \ {0}
    BY RepaymentAssumption
  <2>3. owed[l] = Debt[l]
    BY <2>1
  <2> QED BY <2>2, <2>3
<1>8. \A l \in Loans :
        /\ closedBy[l] = "none" /\ log[l] = << >>
        /\ status[l] = IF l \in Legacy THEN "LIQUIDATED" ELSE "ACTIVE"
  BY DEF Init
<1>3. /\ \A l \in soldBadly : l \in Legacy /\ l \in Loans
      /\ \A l \in restoring : FALSE
  BY RepaymentAssumption DEF Init
<1>4. sweep.step = "idle" /\ sweep.loans = {}
  BY DEF Init, Rest
<1>5. Restorable
  BY <1>2, <1>3, <1>4, <1>8 DEF Restorable
<1>6. ClosedWhenPaid
  BY <1>2, <1>8 DEF ClosedWhenPaid
<1>7. Completion
  <2>1. ASSUME NEW l \in Loans PROVE Completed(l) = {}
    <3>1. DOMAIN log[l] = {}
      BY <1>8
    <3> QED BY <3>1 DEF Completed
  <2> QED BY <2>1 DEF Completion
<1> QED BY <1>1, <1>5, <1>6, <1>7 DEF Ledger

\* The ledger is a matter of the loans, the rows and repayments, the sweep and
\* the restore.
LEMMA LedgerFrame ==
    ASSUME Ledger, UNCHANGED <<status, log, owed, closedBy, soldBadly, row, repayments,
                               sweep, restoring>>
    PROVE  Ledger'
BY DEF Ledger, InflowCreditedOnce, Restorable, ClosedWhenPaid, Completion, Completed

\* A row stored without a match changes neither credits nor loans.
LEMMA RowLedger ==
    ASSUME Typed, Ledger, NEW i \in Inflows, NEW reason \in Unmatched \cup {"none"},
           NewRow(i, reason), UNCHANGED <<loanVars, opsVars, repayments>>
    PROVE  Ledger'
<1>1. InflowCreditedOnce'
  <2>1. \A k \in Inflows :
           \/ row'[k] = row[k]
           \/ k = i /\ row[k].state = "none" /\ row'[k].state = "unmatched"
    BY NewRowKeeps DEF Typed
  <2> QED BY <2>1 DEF Ledger, InflowCreditedOnce
<1>2. Restorable' /\ ClosedWhenPaid' /\ Completion'
  BY DEF Ledger, Restorable, ClosedWhenPaid, Completion, Completed, loanVars, opsVars
<1> QED BY <1>1, <1>2 DEF Ledger

\* A credit, which locks the loan and finds the inflow free, keeps the books.
LEMMA RepayLedger ==
    ASSUME Typed, Ledger, NEW i \in Inflows, NEW l \in Loans,
           NEW method \in {"AUTO_AMOUNT", "CUSTOMER_CLAIM"},
           status[l] = "ACTIVE", RepaymentFree(i), Repay(i, l, method),
           UNCHANGED <<soldBadly, opsVars>>
    PROVE  Ledger'
<1> DEFINE applied == Applied(Amount[i], owed[l])
           r0 == [i |-> i, l |-> l, applied |-> applied, overpay |-> Amount[i] - applied,
                  method |-> method]
<1>0. /\ TypeOK /\ LoanTypes /\ i # "none" /\ owed[l] > 0 /\ owed[l] \in Nat
      /\ closedBy[l] = "none"
  BY RepaymentAssumption DEF Typed, TypeOK, LoanTypes, Ledger, ClosedWhenPaid
<1>1. /\ applied \in Nat /\ applied <= owed[l]
  BY <1>0, AppliedBounds, RepaymentAssumption
<1>2. /\ repayments' = repayments \cup {r0} /\ r0.i = i /\ r0.l = l
      /\ row' = [row EXCEPT ![i].state = "matched", ![i].loan = l]
      /\ owed' = [owed EXCEPT ![l] = @ - applied]
  BY DEF Repay
<1>3. \/ /\ owed[l] = applied /\ closedBy' = [closedBy EXCEPT ![l] = i]
         /\ status' = [status EXCEPT ![l] = "REPAID"]
         /\ Record(l, status[l], "REPAID", "REPAYMENT_COMPLETED")
      \/ /\ owed[l] # applied /\ closedBy' = closedBy /\ status' = status
         /\ Record(l, status[l], "ACTIVE", "REPAYMENT_PARTIAL_NGN")
  BY DEF Repay, FullyRepaid, Transition
<1> HIDE DEF applied, r0
<1>4. InflowCreditedOnce'
  <2>1. /\ \A k \in Inflows \ {i} : row'[k] = row[k]
        /\ row'[i].state = "matched" /\ row'[i].loan = l
    BY <1>2, <1>0 DEF TypeOK
  <2>2. \A r \in repayments : r.i # i
    BY DEF RepaymentFree
  <2>3. \A r, s \in repayments' : r.i = s.i => r = s
    BY <1>2, <2>2 DEF Ledger, InflowCreditedOnce
  <2>4. \A k \in Inflows :
          IF row'[k].state = "matched"
          THEN \E r \in repayments' : r.i = k /\ r.l = row'[k].loan
          ELSE \A r \in repayments' : r.i # k
    <3>1. \E r \in repayments' : r.i = i /\ r.l = row'[i].loan
      BY <1>2, <2>1
    <3>2. \A k \in Inflows \ {i} :
            IF row'[k].state = "matched"
            THEN \E r \in repayments' : r.i = k /\ r.l = row'[k].loan
            ELSE \A r \in repayments' : r.i # k
      <4> TAKE k \in Inflows \ {i}
      <4>1. row'[k] = row[k] /\ \A r \in repayments' : r.i = k => r \in repayments
        BY <1>2, <2>1
      <4>2. CASE row[k].state = "matched"
        BY <4>1, <4>2, <1>2 DEF Ledger, InflowCreditedOnce
      <4>3. CASE row[k].state # "matched"
        BY <4>1, <4>3 DEF Ledger, InflowCreditedOnce
      <4> QED BY <4>2, <4>3
    <3> QED BY <3>1, <3>2, <2>1
  <2> QED BY <2>3, <2>4 DEF InflowCreditedOnce
<1>5. /\ \A k \in Loans \ {l} : status'[k] = status[k] /\ owed'[k] = owed[k]
                                /\ closedBy'[k] = closedBy[k]
      /\ owed'[l] = owed[l] - applied
  BY <1>2, <1>3, <1>0 DEF TypeOK
<1>6. Restorable'
  <2>1. l \notin soldBadly /\ soldBadly \subseteq Loans
    BY <1>0 DEF Ledger, Restorable, TypeOK
  <2> QED BY <2>1, <1>5 DEF Ledger, Restorable, opsVars
<1>7. ClosedWhenPaid'
  <2>1. \/ status'[l] = "REPAID" /\ owed'[l] = 0 /\ closedBy'[l] = i
        \/ status'[l] = "ACTIVE" /\ owed'[l] > 0 /\ closedBy'[l] = "none"
    BY <1>0, <1>1, <1>3, <1>5 DEF TypeOK
  <2>2. \A k \in Loans \ {l} :
          /\ status'[k] = "REPAID" => owed'[k] = 0
          /\ status'[k] = "ACTIVE" => owed'[k] > 0
          /\ owed'[k] = 0 <=> closedBy'[k] # "none"
          /\ closedBy'[k] # "none" => \E r \in repayments' : r.i = closedBy'[k] /\ r.l = k
    BY <1>2, <1>5 DEF Ledger, ClosedWhenPaid
  <2>3. /\ status'[l] = "REPAID" => owed'[l] = 0
        /\ status'[l] = "ACTIVE" => owed'[l] > 0
        /\ owed'[l] = 0 <=> closedBy'[l] # "none"
        /\ closedBy'[l] # "none" => \E r \in repayments' : r.i = closedBy'[l] /\ r.l = l
    BY <2>1, <1>0, <1>2
  <2> QED BY <2>2, <2>3 DEF ClosedWhenPaid
<1>8. Completion'
  <2>1. \A k \in Loans \ {l} : Completed(k)' = Completed(k)
    <3>1. CASE Record(l, status[l], "REPAID", "REPAYMENT_COMPLETED")
      BY <3>1, <1>0, RecordCompletion
    <3>2. CASE Record(l, status[l], "ACTIVE", "REPAYMENT_PARTIAL_NGN")
      BY <3>2, <1>0, RecordCompletion
    <3> QED BY <3>1, <3>2, <1>3
  <2>2. Completed(l) = {}
    BY <1>0 DEF Ledger, Completion
  <2>3. \/ closedBy'[l] # "none" /\ Completed(l)' = {Len(log[l]) + 1}
        \/ Completed(l)' = {}
    <3>1. CASE /\ closedBy' = [closedBy EXCEPT ![l] = i]
               /\ Record(l, status[l], "REPAID", "REPAYMENT_COMPLETED")
      <4>1. closedBy'[l] # "none"
        BY <3>1, <1>0 DEF TypeOK
      <4>2. Completed(l)' = Completed(l) \cup {Len(log[l]) + 1}
        BY <3>1, <1>0, RecordCompletion
      <4> QED BY <4>1, <4>2, <2>2
    <3>2. CASE Record(l, status[l], "ACTIVE", "REPAYMENT_PARTIAL_NGN")
      BY <3>2, <1>0, <2>2, RecordCompletion
    <3> QED BY <3>1, <3>2, <1>3
  <2>4. \A k \in Loans \ {l} :
          /\ closedBy'[k] = "none" => Completed(k)' = {}
          /\ \A m, n \in Completed(k)' : m = n
    BY <2>1, <1>5 DEF Ledger, Completion
  <2>5. /\ closedBy'[l] = "none" => Completed(l)' = {}
        /\ \A m, n \in Completed(l)' : m = n
    BY <2>3
  <2> QED BY <2>4, <2>5 DEF Completion
<1> QED BY <1>4, <1>6, <1>7, <1>8 DEF Ledger

\* What the sweep and the restore leave alone, and how they write the status.
LEMMA OverwriteLedger ==
    ASSUME Typed, Ledger, NEW l \in Loans, NEW from, NEW to, NEW reason,
           to = "ACTIVE" => owed[l] > 0, to # "REPAID",
           reason # "REPAYMENT_COMPLETED",
           status' = [status EXCEPT ![l] = to], Record(l, from, to, reason),
           UNCHANGED <<owed, closedBy, moneyVars>>
    PROVE  InflowCreditedOnce' /\ ClosedWhenPaid' /\ Completion'
<1>0. LoanTypes
  BY DEF Typed, TypeOK, LoanTypes
<1>1. InflowCreditedOnce'
  BY DEF Ledger, InflowCreditedOnce, moneyVars
<1>2. /\ status'[l] = to
      /\ \A k \in Loans \ {l} : status'[k] = status[k]
  BY <1>0 DEF LoanTypes
<1>3. ClosedWhenPaid'
  BY <1>2 DEF Ledger, ClosedWhenPaid, moneyVars
<1>4. \A k \in Loans : Completed(k)' = Completed(k)
  BY <1>0, RecordCompletion
<1>5. Completion'
  BY <1>4 DEF Ledger, Completion
<1> QED BY <1>1, <1>3, <1>5

\* So do the sweep, the liquidation and the restore by ops.
LEMMA OpsLedger ==
    ASSUME Typed, Ledger,
           \/ SweepSelects \/ SweepAssesses
           \/ \E l \in Loans : LiquidateLoan(l) \/ RestoreRead(l) \/ RestoreWrite(l)
    PROVE  Ledger'
<1>0. /\ TypeOK /\ LoanTypes
      /\ InflowCreditedOnce /\ Restorable /\ ClosedWhenPaid /\ Completion
  BY DEF Typed, TypeOK, LoanTypes, Ledger
<1>f. ASSUME UNCHANGED <<loanVars, moneyVars>>
      PROVE  InflowCreditedOnce' /\ ClosedWhenPaid' /\ Completion'
  BY <1>0, <1>f DEF InflowCreditedOnce, ClosedWhenPaid, Completion, Completed,
                    loanVars, moneyVars
<1>1. CASE SweepSelects
  <2>1. /\ sweep'.step = "assess" /\ sweep'.loans = ActiveLoans
        /\ UNCHANGED <<loanVars, moneyVars, restoring>>
    BY <1>1 DEF SweepSelects
  <2>2. Restorable'
    BY <2>1, <1>0 DEF Restorable, ActiveLoans, loanVars
  <2> QED BY <2>1, <2>2, <1>f DEF Ledger
<1>2. CASE SweepAssesses
  <2>1. /\ sweep'.loans \subseteq sweep.loans
        /\ sweep'.step = "liquidate" => ~Suspect(sweep'.rate)
        /\ UNCHANGED <<loanVars, moneyVars, restoring>>
    <3>1. CASE Doomed(sweep.rate) = {}
      BY <3>1, <1>2 DEF SweepAssesses, Rest
    <3>2. CASE Doomed(sweep.rate) # {}
      <4>1. /\ Doomed(sweep.rate) \subseteq sweep.loans
            /\ ~Suspect(sweep.rate)
        BY <3>2 DEF Doomed
      <4>2. sweep'.loans = Doomed(sweep.rate) /\ sweep'.rate = sweep.rate
        BY <3>2, <1>2, <1>0 DEF SweepAssesses, TypeOK
      <4>3. UNCHANGED <<loanVars, moneyVars, restoring>>
        BY <1>2 DEF SweepAssesses
      <4> QED BY <4>1, <4>2, <4>3
    <3> QED BY <3>1, <3>2
  <2>2. Restorable'
    BY <2>1, <1>0 DEF Restorable, loanVars
  <2> QED BY <2>1, <2>2, <1>f DEF Ledger
<1>3. ASSUME NEW l \in Loans, LiquidateLoan(l) PROVE Ledger'
  <2>1. l \in sweep.loans /\ l \notin soldBadly /\ ~Suspect(sweep.rate)
    BY <1>3, <1>0 DEF LiquidateLoan, Restorable
  <2>2. /\ soldBadly' = soldBadly \ {l}
        /\ status' = [status EXCEPT ![l] = "LIQUIDATED"]
        /\ Record(l, "ACTIVE", "LIQUIDATED", "LIQUIDATION_COMPLETED")
        /\ UNCHANGED <<owed, closedBy, moneyVars, restoring>>
    BY <1>3, <2>1 DEF LiquidateLoan
  <2>3. /\ sweep'.loans \subseteq sweep.loans
        /\ sweep'.step = "liquidate" => ~Suspect(sweep'.rate)
    BY <1>3, <1>0, <2>1 DEF LiquidateLoan, Rest, TypeOK
  <2>4. InflowCreditedOnce' /\ ClosedWhenPaid' /\ Completion'
    BY <2>2, OverwriteLedger
  <2>5. soldBadly' = soldBadly /\ \A k \in soldBadly : status'[k] = status[k]
    BY <2>1, <2>2, <1>0 DEF TypeOK
  <2>6. Restorable'
    BY <2>2, <2>3, <2>5, <1>0 DEF Restorable
  <2> QED BY <2>4, <2>6 DEF Ledger
<1>4. ASSUME NEW l \in Loans, RestoreRead(l) PROVE Ledger'
  <2>1. /\ l \in soldBadly /\ restoring' = {l}
        /\ UNCHANGED <<loanVars, moneyVars, sweep>>
    BY <1>4 DEF RestoreRead
  <2>2. Restorable'
    BY <2>1, <1>0 DEF Restorable, loanVars
  <2> QED BY <2>1, <2>2, <1>f DEF Ledger
<1>5. ASSUME NEW l \in Loans, RestoreWrite(l) PROVE Ledger'
  <2>1. owed[l] > 0 /\ l \in soldBadly
    BY <1>5, <1>0 DEF RestoreWrite, Restorable
  <2>2. /\ soldBadly' = soldBadly \ {l} /\ restoring' = {}
        /\ status' = [status EXCEPT ![l] = "ACTIVE"]
        /\ Record(l, "LIQUIDATED", "ACTIVE", "LIQUIDATION_REVERSED_BAD_RATE")
        /\ UNCHANGED <<owed, closedBy, moneyVars, sweep>>
    BY <1>5 DEF RestoreWrite
  <2>3. InflowCreditedOnce' /\ ClosedWhenPaid' /\ Completion'
    BY <2>1, <2>2, OverwriteLedger
  <2>4. \A k \in soldBadly' : k \in soldBadly /\ status'[k] = status[k]
    BY <2>2, <1>0 DEF TypeOK
  <2>5. Restorable'
    BY <2>2, <2>4, <1>0 DEF Restorable
  <2> QED BY <2>3, <2>5 DEF Ledger
<1> QED BY <1>1, <1>2, <1>3, <1>4, <1>5

\* Interest accrues on a debt that is not zero, and never on one that is.
LEMMA AccrualLedger ==
    ASSUME Typed, Ledger, DayPasses
    PROVE  Ledger'
<1>1. /\ UNCHANGED <<status, log, closedBy, soldBadly, row, repayments, sweep, restoring>>
      /\ \A l \in Loans : owed'[l] = IF owed[l] > 0 THEN owed[l] + 1 ELSE 0
  BY DEF DayPasses, moneyVars, opsVars
<1>2. \A l \in Loans : owed[l] \in Nat
  BY DEF Typed, TypeOK
<1>3. \A l \in Loans : (owed'[l] = 0 <=> owed[l] = 0) /\ (owed[l] > 0 => owed'[l] > 0)
  <2> TAKE l \in Loans
  <2>1. owed[l] \in Nat /\ owed'[l] = IF owed[l] > 0 THEN owed[l] + 1 ELSE 0
    BY <1>1, <1>2
  <2> QED BY <2>1
<1>4. InflowCreditedOnce' /\ Completion'
  BY <1>1 DEF Ledger, InflowCreditedOnce, Completion, Completed
<1>5. Restorable'
  <2>1. soldBadly \subseteq Loans
    BY DEF Typed, TypeOK
  <2> QED BY <2>1, <1>1, <1>3 DEF Ledger, Restorable
<1>6. ClosedWhenPaid'
  BY <1>1, <1>3 DEF Ledger, ClosedWhenPaid
<1> QED BY <1>4, <1>5, <1>6 DEF Ledger

\* Every step keeps the books.
LEMMA StepLedger == Typed /\ Ledger /\ [Next]_vars => Ledger'
<1> SUFFICES ASSUME Typed, Ledger, [Next]_vars PROVE Ledger'
  OBVIOUS
<1>1. ASSUME NEW p \in Callers, CalmStep(p) PROVE Ledger'
  <2>1. CalmFrame
    BY <1>1, CalmMoves DEF Typed
  <2> QED BY <2>1, LedgerFrame DEF CalmFrame, loanVars, moneyVars, opsVars
<1>2. ASSUME NEW p \in Callers, StoreUnmatched(p) PROVE Ledger'
  <2>1. job[p].i \in Inflows /\ job[p].reason \in Unmatched \cup {"none"}
    BY <1>2, StoreMoves
  <2> QED BY <1>2, <2>1, RowLedger DEF StoreUnmatched
<1>3. ASSUME NEW p \in Callers, Persist(p) PROVE Ledger'
  <2>1. job[p].i \in Inflows
    BY <1>3, PersistMoves
  <2> QED BY <1>3, <2>1, RowLedger DEF Persist
<1>4. ASSUME NEW p \in Callers, Credit(p) PROVE Ledger'
  <2>1. PICK i \in Inflows, l \in Loans, method \in {"AUTO_AMOUNT", "CUSTOMER_CLAIM"} :
           /\ status[l] = "ACTIVE" /\ RepaymentFree(i) /\ Repay(i, l, method)
           /\ UNCHANGED <<soldBadly, order, pageVars, opsVars, day, swallowed>>
    BY <1>4, CreditEffect
  <2> QED BY <2>1, RepayLedger
<1>5. CASE \/ SweepSelects \/ SweepAssesses
           \/ \E l \in Loans : LiquidateLoan(l) \/ RestoreRead(l) \/ RestoreWrite(l)
  BY <1>5, OpsLedger
<1>6. ASSUME NEW i \in Inflows, Settle(i) PROVE Ledger'
  BY <1>6, LedgerFrame DEF Settle, loanVars, opsVars
<1>7. CASE DayPasses
  BY <1>7, AccrualLedger
<1>8. CASE UNCHANGED vars
  BY <1>8, LedgerFrame DEF vars, loanVars, moneyVars, opsVars
<1> QED BY NextSplit, <1>1, <1>2, <1>3, <1>4, <1>5, <1>6, <1>7, <1>8 DEF OtherStep

\* They always hold.
LEMMA LedgerInvariant == Spec => []Ledger
<1>1. Init => Ledger
  BY InitLedger
<1>2. Typed /\ Ledger /\ [Next]_vars => Ledger'
  BY StepLedger
<1> QED BY <1>1, <1>2, TypedInvariant, PTL DEF Spec

\* Whatever deliveries and claims race for an inflow, and for which loans, one
\* repayment consumes it, and its row names the loan of that repayment.
THEOREM OneCreditPerInflow == Spec => []InflowCreditedOnce
<1>1. Ledger => InflowCreditedOnce
  BY DEF Ledger
<1> QED BY <1>1, LedgerInvariant, PTL

\* Closing and paying off are the same thing, through sweeps that overwrite a
\* paid-off loan, restores that make a liquidated one ACTIVE, and interest.
THEOREM PaidMeansClosed == Spec => []ClosedWhenPaid
<1>1. Ledger => ClosedWhenPaid
  BY DEF Ledger
<1> QED BY <1>1, LedgerInvariant, PTL

\* No loan is repaid in full twice.
THEOREM OneCompletion == Spec => []ClosedOnce
<1>1. Typed /\ Ledger => ClosedOnce
  <2> SUFFICES ASSUME Typed, Ledger, NEW l \in Loans
               PROVE  Cardinality(Completed(l)) <= 1
    BY DEF ClosedOnce, Completed
  <2>1. CASE Completed(l) = {}
    BY <2>1, FS_EmptySet
  <2>2. ASSUME NEW n \in Completed(l) PROVE Cardinality(Completed(l)) <= 1
    <3>1. Completed(l) = {n}
      BY <2>2 DEF Ledger, Completion
    <3>2. Cardinality({n}) = 1
      BY FS_Singleton
    <3> QED BY <3>1, <3>2
  <2> QED BY <2>1, <2>2
<1> QED BY <1>1, TypedInvariant, LedgerInvariant, PTL

-----------------------------------------------------------------------------
(* What callers owe.                                                       *)
(*                                                                         *)
(* A delivery past its re-query carries an inflow PalmPay vouches for, and *)
(* a claim past its check one whose row has no untrusted marker; neither   *)
(* changes while they wait.  An unmatched inflow nobody paged is one that  *)
(* a delivery still has in hand.                                           *)

Vouched ==
    /\ \A p \in Deliveries : job[p].step \in {"persist", "credit"} => Confirmed(job[p].i)
    /\ \A p \in Claims : job[p].step = "credit" =>
          row[job[p].i].state # "none" /\ row[job[p].i].reason \notin Untrusted

Trust == Vouched /\ CreditsAreTrusted

InHand(i) == \E p \in Deliveries : job[p].i = i /\ job[p].step \in Pending

Pages ==
    \A i \in Inflows : row[i].state = "unmatched" =>
        i \in paged \cup swallowed \/ InHand(i)

Duties == Trust /\ Pages

\* Nothing is trusted or owed to ops at first.
LEMMA InitDuties == Init => Duties
<1> SUFFICES ASSUME Init PROVE Duties
  OBVIOUS
<1>1. \A p \in Callers : job[p].step = "idle"
  BY DEF Init, Idle
<1>2. \A i \in Inflows : row[i].state = "none"
  BY DEF Init, NoRow
<1>3. \A r : r \notin repayments
  BY DEF Init
<1>4. Vouched
  BY <1>1 DEF Vouched, Callers
<1>5. CreditsAreTrusted
  BY <1>3 DEF CreditsAreTrusted
<1> QED BY <1>2, <1>4, <1>5 DEF Duties, Trust, Pages

\* The other callers' jobs stay as they are.
LEMMA MovesOthers ==
    ASSUME job \in [Callers -> Jobs], NEW p \in Callers, NEW j, Moves(p, j)
    PROVE  job'[p] = j /\ \A q \in Callers \ {p} : job'[q] = job[q]
BY DEF Moves

\* The duties depend on these variables alone.
LEMMA DutiesFrame ==
    ASSUME Duties, UNCHANGED <<row, repayments, order, job, paged, swallowed>>
    PROVE  Duties'
BY DEF Duties, Trust, Vouched, Confirmed, CreditsAreTrusted, Pages, InHand

\* Calm steps keep the duties.
LEMMA CalmDuties ==
    ASSUME Typed, Duties, NEW p \in Callers, CalmStep(p)
    PROVE  Duties'
<1>1. PICK j \in Jobs : Leaves(p, j)
  BY CalmMoves DEF Typed
<1>2. CalmFrame
  BY CalmMoves DEF Typed
<1>3. /\ job'[p] = j /\ \A q \in Callers \ {p} : job'[q] = job[q]
      /\ UNCHANGED <<row, repayments, order>>
      /\ p \in Deliveries <=> p \notin Claims
  BY <1>1, <1>2, MovesOthers, RepaymentAssumption
     DEF Leaves, Typed, TypeOK, Jobs, Steps, CalmFrame, moneyVars, Callers
<1>4. Vouched'
  <2>1. ASSUME NEW q \in Deliveries, job'[q].step \in {"persist", "credit"}
        PROVE  order'[job'[q].i] \in {"settled", "hidden"}
    <3>1. CASE q = p
      BY <3>1, <2>1, <1>1, <1>3 DEF Leaves, Confirmed
    <3>2. CASE q # p
      BY <3>2, <2>1, <1>3 DEF Duties, Trust, Vouched, Confirmed, Callers
    <3> QED BY <3>1, <3>2
  <2>2. ASSUME NEW q \in Claims, job'[q].step = "credit"
        PROVE  row'[job'[q].i].state # "none" /\ row'[job'[q].i].reason \notin Untrusted
    <3>1. CASE q = p
      BY <3>1, <2>2, <1>1, <1>3 DEF Leaves, Claimable
    <3>2. CASE q # p
      BY <3>2, <2>2, <1>3 DEF Duties, Trust, Vouched, Callers
    <3> QED BY <3>1, <3>2
  <2> QED BY <2>1, <2>2 DEF Vouched, Confirmed
<1>5. CreditsAreTrusted'
  BY <1>3 DEF Duties, Trust, CreditsAreTrusted
<1>6. Pages'
  <2> SUFFICES ASSUME NEW i \in Inflows, row'[i].state = "unmatched",
                      i \notin paged' \cup swallowed'
               PROVE  InHand(i)'
    BY DEF Pages
  <2>1. PICK q \in Deliveries : job[q].i = i /\ job[q].step \in Pending
    BY <1>2, <1>3 DEF Duties, Pages, InHand, CalmFrame
  <2>2. CASE q = p
    <3>1. j.i = i /\ j.step \in Pending
      BY <2>1, <2>2, <1>1, <1>3 DEF Leaves, Settles
    <3> QED BY <3>1, <2>1, <2>2, <1>3 DEF InHand
  <2>3. CASE q # p
    BY <2>1, <2>3, <1>3 DEF InHand, Callers
  <2> QED BY <2>2, <2>3
<1> QED BY <1>4, <1>5, <1>6 DEF Duties, Trust

\* A step that inserts the row of its inflow, or finds it there.
LEMMA RowDuties ==
    ASSUME Typed, Ledger, Duties, NEW p \in Deliveries, NEW j \in Jobs, Moves(p, j),
           NEW reason \in Unmatched \cup {"none"}, job[p].i \in Inflows,
           NewRow(job[p].i, reason),
           job[p].step \notin Pending,
           j.step \in {"idle", "page", "credit"},
           j.step = "credit" => Confirmed(j.i),
           row[job[p].i].state = "none" => j.i = job[p].i /\ j.step \in Pending,
           UNCHANGED <<repayments, order, paged, swallowed>>
    PROVE  Duties'
<1>1. /\ job'[p] = j /\ \A q \in Callers \ {p} : job'[q] = job[q]
      /\ p \in Callers /\ p \notin Claims
  BY MovesOthers, RepaymentAssumption DEF Typed, TypeOK, Jobs, Steps, Callers
<1>2. \A k \in Inflows :
         \/ row'[k] = row[k]
         \/ k = job[p].i /\ row[k].state = "none" /\ row'[k].state = "unmatched"
  BY NewRowKeeps DEF Typed
<1>3. Vouched'
  <2>1. ASSUME NEW q \in Deliveries, job'[q].step \in {"persist", "credit"}
        PROVE  order'[job'[q].i] \in {"settled", "hidden"}
    BY <2>1, <1>1 DEF Duties, Trust, Vouched, Confirmed, Callers
  <2>2. ASSUME NEW q \in Claims, job'[q].step = "credit"
        PROVE  row'[job'[q].i].state # "none" /\ row'[job'[q].i].reason \notin Untrusted
    <3>1. job'[q] = job[q] /\ job[q].i \in Inflows
      BY <2>2, <1>1 DEF Typed, JobShape, WellFormed, Callers
    <3>2. row[job[q].i].state # "none" /\ row[job[q].i].reason \notin Untrusted
      BY <3>1, <2>2 DEF Duties, Trust, Vouched
    <3> QED BY <3>1, <3>2, <1>2
  <2> QED BY <2>1, <2>2 DEF Vouched, Confirmed
<1>4. CreditsAreTrusted'
  <2> SUFFICES ASSUME NEW r \in repayments
               PROVE  /\ r.i \in Inflows
                      /\ row'[r.i] = row[r.i]
    BY DEF Duties, Trust, CreditsAreTrusted
  <2>1. r.i \in Inflows
    BY DEF Typed, TypeOK
  <2>2. row[r.i].state = "matched"
    BY <2>1 DEF Ledger, InflowCreditedOnce
  <2> QED BY <2>1, <2>2, <1>2
<1>5. Pages'
  <2> SUFFICES ASSUME NEW i \in Inflows, row'[i].state = "unmatched",
                      i \notin paged \cup swallowed
               PROVE  InHand(i)'
    BY DEF Pages
  <2>1. CASE row[i].state = "unmatched"
    <3>1. PICK q \in Deliveries : job[q].i = i /\ job[q].step \in Pending
      BY <2>1 DEF Duties, Pages, InHand
    <3> QED BY <3>1, <1>1 DEF InHand, Callers
  <2>2. CASE row[i].state # "unmatched"
    <3>1. i = job[p].i /\ row[i].state = "none"
      BY <2>2, <1>2
    <3> QED BY <3>1, <1>1 DEF InHand
  <2> QED BY <2>1, <2>2
<1> QED BY <1>3, <1>4, <1>5 DEF Duties, Trust

\* So does a credit, whose order was vouched for.
LEMMA CreditDuties ==
    ASSUME Typed, Ledger, Duties, NEW p \in Callers, Credit(p)
    PROVE  Duties'
<1>1. PICK i \in Inflows, l \in Loans, method \in {"AUTO_AMOUNT", "CUSTOMER_CLAIM"} :
         /\ i = job[p].i /\ job[p].step = "credit"
         /\ method = "CUSTOMER_CLAIM" <=> p \in Claims
         /\ Repay(i, l, method) /\ Moves(p, Idle)
         /\ UNCHANGED <<order, pageVars, swallowed>>
  BY CreditEffect
<1>2. /\ job'[p].step = "idle" /\ \A q \in Callers \ {p} : job'[q] = job[q]
      /\ p \in Deliveries <=> p \notin Claims
  BY <1>1, MovesOthers, RepaymentAssumption DEF Typed, TypeOK, Jobs, Steps, Callers, Idle
<1>3. /\ \A k \in Inflows \ {i} : row'[k] = row[k]
      /\ row'[i].state = "matched" /\ row'[i].reason = row[i].reason
  BY <1>1 DEF Repay, Typed, TypeOK
<1>4. Vouched'
  <2>1. ASSUME NEW q \in Deliveries, job'[q].step \in {"persist", "credit"}
        PROVE  order'[job'[q].i] \in {"settled", "hidden"}
    BY <2>1, <1>1, <1>2 DEF Duties, Trust, Vouched, Confirmed, Callers
  <2>2. ASSUME NEW q \in Claims, job'[q].step = "credit"
        PROVE  row'[job'[q].i].state # "none" /\ row'[job'[q].i].reason \notin Untrusted
    <3>1. job'[q] = job[q] /\ job[q].i \in Inflows
      BY <2>2, <1>2 DEF Typed, JobShape, WellFormed, Callers
    <3>2. row[job[q].i].state # "none" /\ row[job[q].i].reason \notin Untrusted
      BY <3>1, <2>2 DEF Duties, Trust, Vouched
    <3> QED BY <3>1, <3>2, <1>3
  <2> QED BY <2>1, <2>2 DEF Vouched, Confirmed
<1>5. CreditsAreTrusted'
  <2>1. ASSUME NEW r \in repayments
        PROVE  IF r.method = "AUTO_AMOUNT" THEN order'[r.i] \in {"settled", "hidden"}
               ELSE row'[r.i].reason \notin Untrusted
    <3>1. r.i \in Inflows
      BY DEF Typed, TypeOK
    <3>2. row'[r.i].reason = row[r.i].reason /\ order' = order
      BY <3>1, <1>1, <1>3
    <3> QED BY <3>2 DEF Duties, Trust, CreditsAreTrusted
  <2>2. ASSUME NEW r \in repayments', r \notin repayments
        PROVE  IF r.method = "AUTO_AMOUNT" THEN order'[r.i] \in {"settled", "hidden"}
               ELSE row'[r.i].reason \notin Untrusted
    <3>1. r.i = i /\ r.method = method
      BY <2>2, <1>1 DEF Repay
    <3>2. CASE p \in Claims
      <4>1. row[i].reason \notin Untrusted
        BY <3>2, <1>1 DEF Duties, Trust, Vouched
      <4> QED BY <4>1, <3>1, <3>2, <1>1, <1>3
    <3>3. CASE p \in Deliveries
      <4>1. order[i] \in {"settled", "hidden"} /\ method = "AUTO_AMOUNT"
        BY <3>3, <1>1, <1>2 DEF Duties, Trust, Vouched, Confirmed
      <4> QED BY <4>1, <3>1, <1>1
    <3> QED BY <3>2, <3>3, <1>2
  <2> QED BY <2>1, <2>2 DEF CreditsAreTrusted
<1>6. Pages'
  <2> SUFFICES ASSUME NEW k \in Inflows, row'[k].state = "unmatched",
                      k \notin paged \cup swallowed
               PROVE  InHand(k)'
    BY <1>1 DEF Pages, pageVars
  <2>1. k # i /\ row[k].state = "unmatched"
    BY <1>3
  <2>2. PICK q \in Deliveries : job[q].i = k /\ job[q].step \in Pending
    BY <2>1 DEF Duties, Pages, InHand
  <2> QED BY <2>1, <2>2, <1>1, <1>2 DEF InHand, Callers
<1> QED BY <1>4, <1>5, <1>6 DEF Duties, Trust

\* What PalmPay vouched for it does not take back.
LEMMA SettleDuties ==
    ASSUME Typed, Duties, NEW i \in Inflows, Settle(i)
    PROVE  Duties'
<1>1. /\ UNCHANGED <<row, repayments, job, paged, swallowed>>
      /\ order[i] = "settling" /\ \A k \in Inflows \ {i} : order'[k] = order[k]
  BY DEF Settle, pageVars, Typed, TypeOK
<1>2. Vouched'
  <2>1. ASSUME NEW q \in Deliveries, job'[q].step \in {"persist", "credit"}
        PROVE  order'[job'[q].i] \in {"settled", "hidden"}
    <3>1. job[q].i \in Inflows
      BY <2>1, <1>1 DEF Typed, JobShape, WellFormed, Callers
    <3> QED BY <3>1, <2>1, <1>1 DEF Duties, Trust, Vouched, Confirmed
  <2> QED BY <2>1, <1>1 DEF Duties, Trust, Vouched, Confirmed
<1>3. CreditsAreTrusted'
  <2>1. \A r \in repayments : r.i \in Inflows
    BY DEF Typed, TypeOK
  <2> QED BY <2>1, <1>1 DEF Duties, Trust, CreditsAreTrusted
<1>4. Pages'
  BY <1>1 DEF Duties, Pages, InHand
<1> QED BY <1>2, <1>3, <1>4 DEF Duties, Trust

\* Every step keeps the duties.
LEMMA StepDuties == Typed /\ Ledger /\ Duties /\ [Next]_vars => Duties'
<1> SUFFICES ASSUME Typed, Ledger, Duties, [Next]_vars PROVE Duties'
  OBVIOUS
<1>1. ASSUME NEW p \in Callers, CalmStep(p) PROVE Duties'
  BY <1>1, CalmDuties
<1>2. ASSUME NEW p \in Callers, StoreUnmatched(p) PROVE Duties'
  <2>1. /\ p \in Deliveries /\ job[p].i \in Inflows
        /\ job[p].reason \in Unmatched \cup {"none"}
    BY <1>2, StoreMoves
  <2>2. PICK j \in Jobs : /\ Moves(p, j) /\ j.step \in {"idle", "page"}
                          /\ j.step = "page" => j.i = job[p].i
                          /\ row[job[p].i].state = "none" => j.step = "page"
    BY <1>2, StoreMoves
  <2>3. /\ NewRow(job[p].i, job[p].reason) /\ job[p].step = "store"
        /\ UNCHANGED <<repayments, order, paged, swallowed>>
    BY <1>2 DEF StoreUnmatched, At, pageVars
  <2>4. job[p].step \notin Pending
    BY <2>3 DEF Pending
  <2>5. /\ j.step \in {"idle", "page", "credit"}
        /\ j.step = "credit" => Confirmed(j.i)
        /\ row[job[p].i].state = "none" => j.i = job[p].i /\ j.step \in Pending
    BY <2>2 DEF Pending
  <2> QED BY <2>1, <2>2, <2>3, <2>4, <2>5, RowDuties
<1>3. ASSUME NEW p \in Callers, Persist(p) PROVE Duties'
  <2>1. p \in Deliveries /\ job[p].i \in Inflows
    BY <1>3, PersistMoves
  <2>2. PICK j \in Jobs : /\ Moves(p, j) /\ j.step \in {"idle", "credit"}
                          /\ j.step = "credit" => j.i = job[p].i
                          /\ row[job[p].i].state # "matched" => j.step = "credit"
    BY <1>3, PersistMoves
  <2>3. /\ NewRow(job[p].i, "none") /\ job[p].step = "persist"
        /\ UNCHANGED <<repayments, order, paged, swallowed>>
    BY <1>3 DEF Persist, At, pageVars
  <2>4. job[p].step \notin Pending
    BY <2>3 DEF Pending
  <2>5. Confirmed(job[p].i)
    BY <2>1, <2>3 DEF Duties, Trust, Vouched
  <2>6. /\ j.step \in {"idle", "page", "credit"}
        /\ j.step = "credit" => Confirmed(j.i)
        /\ row[job[p].i].state = "none" => j.i = job[p].i /\ j.step \in Pending
    BY <2>2, <2>5 DEF Pending
  <2> QED BY <2>1, <2>2, <2>3, <2>4, <2>6, RowDuties
<1>4. ASSUME NEW p \in Callers, Credit(p) PROVE Duties'
  BY <1>4, CreditDuties
<1>5. ASSUME NEW i \in Inflows, Settle(i) PROVE Duties'
  BY <1>5, SettleDuties
<1>6. CASE \/ SweepSelects \/ SweepAssesses \/ DayPasses
           \/ \E l \in Loans : LiquidateLoan(l) \/ RestoreRead(l) \/ RestoreWrite(l)
  <2>1. UNCHANGED <<row, repayments, order, job, paged, swallowed>>
    BY <1>6 DEF SweepSelects, SweepAssesses, DayPasses, LiquidateLoan, RestoreRead,
                RestoreWrite, moneyVars, pageVars
  <2> QED BY <2>1, DutiesFrame
<1>7. CASE UNCHANGED vars
  BY <1>7, DutiesFrame DEF vars, moneyVars, pageVars
<1> QED BY NextSplit, <1>1, <1>2, <1>3, <1>4, <1>5, <1>6, <1>7 DEF OtherStep

\* They always hold.
LEMMA DutiesInvariant == Spec => []Duties
<1>1. Init => Duties
  BY InitDuties
<1>2. Typed /\ Ledger /\ Duties /\ [Next]_vars => Duties'
  BY StepDuties
<1> QED BY <1>1, <1>2, TypedInvariant, LedgerInvariant, PTL DEF Spec

\* Nothing is credited that PalmPay did not confirm, or that carries the
\* marker of a failed re-query, whatever is redelivered or settles meanwhile.
THEOREM TrustedCredits == Spec => []CreditsAreTrusted
<1>1. Duties => CreditsAreTrusted
  BY DEF Duties, Trust
<1> QED BY <1>1, DutiesInvariant, PTL

\* No unmatched inflow is left that ops do not know of, except the ones
\* credited to a loan that was REPAID by then.
THEOREM UnmatchedPaged == Spec => []UnmatchedIsPaged
<1>1. Duties => UnmatchedIsPaged
  BY DEF Duties, Pages, InHand, UnmatchedIsPaged
<1> QED BY <1>1, DutiesInvariant, PTL
=============================================================================
