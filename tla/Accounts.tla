------------------------------- MODULE Accounts -------------------------------
(***************************************************************************)
(* A customer's disbursement accounts of one name-matched kind:            *)
(* DisbursementAccountsService.addAccount, setDefault and deleteAccount,   *)
(* split where they await. What a call counted or read is old by the time  *)
(* it writes; all that excludes overlapping calls is the index of one      *)
(* default per kind and the foreign key of a loan's account. The index on  *)
(* the destination, which the schema's comment still promises, was dropped *)
(* by a migration.                                                         *)
(***************************************************************************)
EXTENDS Naturals, FiniteSets

CONSTANTS
    Requests,       \* requests of the customer that may overlap
    Destinations,   \* provider_code and account_unique
    Limit,          \* MAX_DISBURSEMENT_ACCOUNTS_PER_KIND
    MaxRows         \* bound: accounts ever added

VARIABLES
    accounts,       \* the rows; n is the order of created_at
    rows,           \* rows ever inserted
    verified,       \* users.kyc_tier >= 1
    used,           \* accounts a loan refers to
    call,           \* the request each process is in
    raced           \* history: the rows were written by a call that had read older ones

vars == <<accounts, rows, verified, used, call, raced>>

Row  == [n : 1 .. MaxRows, dest : Destinations, default : BOOLEAN, matched : BOOLEAN]
Idle == [step |-> "idle", n |-> 0, dest |-> "none", default |-> FALSE,
         late |-> FALSE]

TypeOK ==
    /\ accounts \subseteq Row /\ rows \in 0 .. MaxRows
    /\ \A a, b \in accounts : a.n = b.n => a = b
    /\ verified \in BOOLEAN /\ used \subseteq 1 .. MaxRows
    /\ call \in [Requests ->
          [step : {"idle", "duplicate", "gate", "lookup", "create", "default", "delete"},
           n : 0 .. MaxRows, dest : Destinations \cup {"none"}, default : BOOLEAN,
           late : BOOLEAN]]
    /\ raced \in BOOLEAN

\* Nothing yet, or an account from the time before addAccount asked for KYC.
Init ==
    /\ \/ accounts = {} /\ rows = 0
       \/ /\ \E d \in Destinations :
                accounts = {[n |-> 1, dest |-> d, default |-> TRUE, matched |-> FALSE]}
          /\ rows = 1
    /\ verified \in BOOLEAN
    /\ used = {} /\ raced = FALSE
    /\ call = [r \in Requests |-> Idle]

-----------------------------------------------------------------------------

At(r, step) == call[r].step = step
Goto(r, step) == call' = [call EXCEPT ![r].step = step]
End(r) == call' = [call EXCEPT ![r] = Idle]
Defaults(some) == {a \in some : a.default}

\* A commit by r ends its call; others under way have read what is now old.
Commit(r, some) ==
    /\ accounts' = some
    /\ raced' = (some # {} /\ (raced \/ call[r].late))
    /\ call' = [q \in Requests |->
          IF q = r \/ At(q, "idle") THEN Idle ELSE [call[q] EXCEPT !.late = TRUE]]

\* (user_id, kind) WHERE is_default
IndexAdmits(some) == Cardinality(Defaults(some)) <= 1

\* Identity's submitTier1 and revokeToTier.
Kyc ==
    /\ verified' = ~verified
    /\ UNCHANGED <<accounts, rows, used, call, raced>>

\* checkoutLoan inserts a loan that refers to an account: a matched one if the
\* customer is verified (a small loan asks for no KYC).
Borrow(a) ==
    /\ verified => a.matched
    /\ used' = used \cup {a.n}
    /\ UNCHANGED <<accounts, rows, verified, call, raced>>

-----------------------------------------------------------------------------
(* addAccount *)

AddCount(r, d) ==
    /\ At(r, "idle") /\ Cardinality(accounts) < Limit /\ rows < MaxRows
    /\ call' = [call EXCEPT ![r] =
          [Idle EXCEPT !.step = "duplicate", !.dest = d, !.default = accounts = {}]]
    /\ UNCHANGED <<accounts, rows, verified, used, raced>>

AddDuplicate(r) ==
    /\ At(r, "duplicate")
    /\ IF \E a \in accounts : a.dest = call[r].dest THEN End(r) ELSE Goto(r, "gate")
    /\ UNCHANGED <<accounts, rows, verified, used, raced>>

AddGate(r) ==
    /\ At(r, "gate")
    /\ IF verified THEN Goto(r, "lookup") ELSE End(r)
    /\ UNCHANGED <<accounts, rows, verified, used, raced>>

\* The holder's name matches, or the call ends.
AddLookup(r) ==
    /\ At(r, "lookup")
    /\ Goto(r, "create") \/ End(r)
    /\ UNCHANGED <<accounts, rows, verified, used, raced>>

Added(r) ==
    accounts \cup {[n |-> rows + 1, dest |-> call[r].dest, default |-> call[r].default,
                    matched |-> TRUE]}

AddCreate(r) ==
    /\ At(r, "create") /\ rows < MaxRows /\ IndexAdmits(Added(r))
    /\ rows' = rows + 1
    /\ Commit(r, Added(r))
    /\ UNCHANGED <<verified, used>>

\* The index refuses the insert, which nothing catches, or the bound is reached.
AddRefused(r) ==
    /\ At(r, "create") /\ (~IndexAdmits(Added(r)) \/ rows = MaxRows)
    /\ End(r)
    /\ UNCHANGED <<accounts, rows, verified, used, raced>>

-----------------------------------------------------------------------------
(* setDefault: the account, the user's tier, one transaction               *)

DefaultRead(r, a) ==
    /\ At(r, "idle")
    /\ verified => a.matched
    /\ call' = [call EXCEPT ![r] = [Idle EXCEPT !.step = "default", !.n = a.n]]
    /\ UNCHANGED <<accounts, rows, verified, used, raced>>

MadeDefault(n) == {[a EXCEPT !.default = a.n = n] : a \in accounts}

DefaultWrite(r) ==
    /\ At(r, "default") /\ \E a \in accounts : a.n = call[r].n
    /\ IndexAdmits(MadeDefault(call[r].n))
    /\ Commit(r, MadeDefault(call[r].n))
    /\ UNCHANGED <<rows, verified, used>>

\* The account is gone (P2025), or another transaction took the default.
DefaultRefused(r) ==
    /\ At(r, "default") /\ call[r].late
    /\ End(r)
    /\ UNCHANGED <<accounts, rows, verified, used, raced>>

-----------------------------------------------------------------------------
(* deleteAccount: is_default as it was read decides the promotion          *)

DeleteRead(r, a) ==
    /\ At(r, "idle")
    /\ call' = [call EXCEPT ![r] =
          [Idle EXCEPT !.step = "delete", !.n = a.n, !.default = a.default]]
    /\ UNCHANGED <<accounts, rows, verified, used, raced>>

Oldest(some) == CHOOSE a \in some : \A b \in some : a.n <= b.n

\* Mutant: nothing is promoted.
Deleted_NoPromotion(r) == {a \in accounts : a.n # call[r].n}

Deleted(r) ==
    LET left == {a \in accounts : a.n # call[r].n}
    IN  IF call[r].default /\ left # {}
        THEN (left \ {Oldest(left)}) \cup {[Oldest(left) EXCEPT !.default = TRUE]}
        ELSE left

Deletable(r) ==
    /\ \E a \in accounts : a.n = call[r].n
    /\ call[r].n \notin used
    /\ IndexAdmits(Deleted(r))

DeleteWrite(r) ==
    /\ At(r, "delete") /\ Deletable(r)
    /\ Commit(r, Deleted(r))
    /\ UNCHANGED <<rows, verified, used>>

DeleteRefused(r) ==
    /\ At(r, "delete") /\ ~Deletable(r)
    /\ End(r)
    /\ UNCHANGED <<accounts, rows, verified, used, raced>>

-----------------------------------------------------------------------------

Next ==
    \/ Kyc
    \/ \E a \in accounts : Borrow(a)
    \/ \E r \in Requests, d \in Destinations : AddCount(r, d)
    \/ \E r \in Requests :
          \/ AddDuplicate(r) \/ AddGate(r) \/ AddLookup(r) \/ AddCreate(r) \/ AddRefused(r)
          \/ DefaultWrite(r) \/ DefaultRefused(r) \/ DeleteWrite(r) \/ DeleteRefused(r)
    \/ \E r \in Requests, a \in accounts : DefaultRead(r, a) \/ DeleteRead(r, a)

Spec == Init /\ [][Next]_vars

-----------------------------------------------------------------------------
(* Properties *)

\* While a kind has accounts, exactly one is the default payouts go to, there
\* are no more than the limit and none twice; requests that overlapped may
\* lose the default or exceed the limit, by one each at most, but not make two
\* defaults.
DefaultKept ==
    /\ Cardinality(Defaults(accounts)) <= 1
    /\ Cardinality(accounts) <= Limit + Cardinality(Requests) - 1
    /\ ~raced =>
          /\ accounts # {} => Defaults(accounts) # {}
          /\ Cardinality(accounts) <= Limit
          /\ \A a, b \in accounts : a.dest = b.dest => a = b

\* Calls that may still add an account.
Adding == {r \in Requests : call[r].step \in {"duplicate", "gate", "lookup", "create"}}

\* Each of them has its place, beyond the limit if need be.
PlacesCounted ==
    /\ IsFiniteSet(accounts) /\ \A a \in accounts : a.n <= rows
    /\ Cardinality(accounts) + Cardinality(Adding) <= Limit + Cardinality(Requests) - 1

\* What a call read still holds, unless another has committed since.
ReadIsCurrent ==
    \A r \in Requests :
        /\ r \in Adding => call[r].dest \in Destinations
        /\ ~call[r].late =>
              /\ r \in Adding =>
                    Cardinality(accounts) < Limit /\ call[r].default = (accounts = {})
              /\ call[r].step \in {"gate", "lookup", "create"} =>
                    \A a \in accounts : a.dest # call[r].dest
              /\ At(r, "default") => \E a \in accounts : a.n = call[r].n
              /\ At(r, "delete") =>
                    \E a \in accounts : a.n = call[r].n /\ a.default = call[r].default

IInv == TypeOK /\ PlacesCounted /\ ReadIsCurrent /\ DefaultKept
=============================================================================
