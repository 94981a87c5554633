------------------------------- MODULE Identity -------------------------------
(***************************************************************************)
(* Who a customer is, and the account their repayments go to: KycService.  *)
(* submitTier1 and revokeToTier, ensureForUser, replaceForUser and the     *)
(* script that rehashes identity numbers.                                  *)
(*                                                                         *)
(* submitTier1 and the provisioning it ends with are split at their        *)
(* awaits.  A virtual account carries the identity number it was opened    *)
(* with at PalmPay; its row names the user.                                *)
(***************************************************************************)
EXTENDS Naturals, FiniteSets

CONSTANTS
    Users,
    Numbers,        \* identity numbers, of one id_type
    Calls,          \* submissions, ops provisionings and replacements under way
    TopTier,        \* the highest target of a revoke
    MaxAccounts     \* bound: virtual accounts opened at PalmPay

VARIABLES
    held,           \* the number in each user's tier-1 verification row
    legacy,         \* users whose row has a hash of the salted scheme
    tier,           \* users.kyc_tier
    vas,            \* repayment accounts: PalmPay's number, user, identity, is_active
    opened,         \* virtual accounts opened at PalmPay
    call,
    lifted,         \* history: users ops put on a tier they had not reached
    changed         \* history: users whose verification ops deleted, or a second
                    \* submission, under way with the first, overwrote

kycVars == <<held, legacy, tier>>
vaVars  == <<vas, opened>>
ghosts  == <<lifted, changed>>
vars == <<kycVars, vaVars, call, ghosts>>

NoNumber == "none"
Idle == [step |-> "idle", u |-> "none", id |-> NoNumber, va |-> 0, replace |-> FALSE]

TypeOK ==
    /\ held \in [Users -> Numbers \cup {NoNumber}]
    /\ legacy \subseteq Users
    /\ tier \in [Users -> 0 .. TopTier]
    /\ vas \subseteq [va : 1 .. MaxAccounts, u : Users, id : Numbers, active : BOOLEAN]
    /\ \A a, b \in vas : a.va = b.va => a = b
    /\ opened \in 0 .. MaxAccounts
    /\ call \in [Calls ->
          [step : {"idle", "own", "taken", "provider", "upsert", "active", "identity",
                   "open", "insert"},
           u : Users \cup {"none"}, id : Numbers \cup {NoNumber}, va : 0 .. MaxAccounts,
           replace : BOOLEAN]]
    /\ lifted \subseteq Users /\ changed \subseteq Users

\* Any customer may have been verified before the hashes were peppered, without
\* a virtual account; two of them even with one number.
Init ==
    /\ held \in [Users -> Numbers \cup {NoNumber}]
    /\ legacy = {u \in Users : held[u] # NoNumber}
    /\ tier = [u \in Users |-> IF held[u] = NoNumber THEN 0 ELSE 1]
    /\ vas = {} /\ opened = 0
    /\ call = [c \in Calls |-> Idle]
    /\ lifted = {} /\ changed = {}

-----------------------------------------------------------------------------

At(c, step)   == call[c].step = step
Goto(c, step) == call' = [call EXCEPT ![c].step = step]
End(c)        == call' = [call EXCEPT ![c] = Idle]
Active(u)     == {a \in vas : a.u = u /\ a.active}

\* Users other than u whose row the peppered hash of a number finds.
HoldersBut(u, id) == {v \in Users \ {u} : held[v] = id /\ v \notin legacy}

-----------------------------------------------------------------------------
(* submitTier1 *)

Submit(c, u, id) ==
    /\ At(c, "idle")
    /\ call' = [call EXCEPT ![c] = [Idle EXCEPT !.step = "own", !.u = u, !.id = id]]
    /\ UNCHANGED <<kycVars, vaVars, ghosts>>

\* KycAlreadyVerifiedException; nothing writes another status than VERIFIED.
OwnAllows(u) == held[u] = NoNumber

OwnRead(c) ==
    /\ At(c, "own")
    /\ IF OwnAllows(call[c].u) THEN Goto(c, "taken") ELSE End(c)
    /\ UNCHANGED <<kycVars, vaVars, ghosts>>

TakenRead(c) ==
    /\ At(c, "taken")
    /\ IF HoldersBut(call[c].u, call[c].id) = {} THEN Goto(c, "provider") ELSE End(c)
    /\ UNCHANGED <<kycVars, vaVars, ghosts>>

\* The provider knows the number and the biodata match, or the call ends.
Resolve(c) ==
    /\ At(c, "provider")
    /\ Goto(c, "upsert") \/ End(c)
    /\ UNCHANGED <<kycVars, vaVars, ghosts>>

\* Mutant: without the index on (id_type, id_number_hash).
HashIndexAdmits_Dropped(u, id) == TRUE

HashIndexAdmits(u, id) == HoldersBut(u, id) = {}

\* The transaction: the row, whoever wrote it since it was read, and the tier.
Upsert(c) ==
    /\ At(c, "upsert") /\ HashIndexAdmits(call[c].u, call[c].id)
    /\ held' = [held EXCEPT ![call[c].u] = call[c].id]
    /\ legacy' = legacy \ {call[c].u}
    /\ tier' = [tier EXCEPT ![call[c].u] = 1]
    /\ changed' = IF held[call[c].u] \in {NoNumber, call[c].id} THEN changed
                  ELSE changed \cup {call[c].u}
    /\ Goto(c, "active")
    /\ UNCHANGED <<vaVars, lifted>>

\* KycIdNumberTakenException
UpsertRefused(c) ==
    /\ At(c, "upsert") /\ ~HashIndexAdmits(call[c].u, call[c].id)
    /\ End(c)
    /\ UNCHANGED <<kycVars, vaVars, ghosts>>

-----------------------------------------------------------------------------
(* ensureForUser, of submitTier1 or of ops, and replaceForUser             *)

Asked(c, u, replace) ==
    /\ At(c, "idle")
    /\ call' = [call EXCEPT ![c] =
          [Idle EXCEPT !.step = "active", !.u = u, !.replace = replace]]
    /\ UNCHANGED <<kycVars, vaVars, ghosts>>

\* Ops' provisionVa.
Provision(c, u) == Asked(c, u, FALSE)

\* The script that replaces the accounts at a bank, of a customer who has one.
Replace(c, u) == Active(u) # {} /\ Asked(c, u, TRUE)

FindActive(c) ==
    /\ At(c, "active")
    /\ IF Active(call[c].u) # {} /\ ~call[c].replace THEN End(c) ELSE Goto(c, "identity")
    /\ UNCHANGED <<kycVars, vaVars, ghosts>>

\* _provision reads the verification; without one there is nothing to open.
ReadIdentity(c) ==
    /\ At(c, "identity")
    /\ IF held[call[c].u] = NoNumber THEN End(c)
       ELSE call' = [call EXCEPT ![c].step = "open", ![c].id = held[call[c].u]]
    /\ UNCHANGED <<kycVars, vaVars, ghosts>>

\* createVirtualAccount, or its failure, which submitTier1 and ops survive.
Open(c) ==
    /\ At(c, "open")
    /\ \/ /\ opened < MaxAccounts
          /\ opened' = opened + 1
          /\ call' = [call EXCEPT ![c].step = "insert", ![c].va = opened + 1]
       \/ End(c) /\ UNCHANGED opened
    /\ UNCHANGED <<kycVars, vas, ghosts>>

\* replaceForUser: updateMany over the user's active rows.
Retired(u) == {IF a.u = u THEN [a EXCEPT !.active = FALSE] ELSE a : a \in vas}

Before(c) == IF call[c].replace THEN Retired(call[c].u) ELSE vas

\* (user_id) WHERE is_active
ActiveIndexAdmits(c) == {a \in Before(c) : a.u = call[c].u /\ a.active} = {}

Insert(c) ==
    /\ At(c, "insert") /\ ActiveIndexAdmits(c)
    /\ vas' = Before(c) \cup
          {[va |-> call[c].va, u |-> call[c].u, id |-> call[c].id, active |-> TRUE]}
    /\ End(c)
    /\ UNCHANGED <<kycVars, opened, ghosts>>

\* P2002; of two replacements, the transaction that commits second.
InsertRefused(c) ==
    /\ At(c, "insert")
    /\ ~ActiveIndexAdmits(c) \/ (call[c].replace /\ call[c].va < opened)
    /\ End(c)
    /\ UNCHANGED <<kycVars, vaVars, ghosts>>

-----------------------------------------------------------------------------
(* Ops: revokeToTier, and the rehash of legacy rows                        *)

Revoke(u, target) ==
    /\ held' = [held EXCEPT ![u] = IF target = 0 THEN NoNumber ELSE @]
    /\ legacy' = IF target = 0 THEN legacy \ {u} ELSE legacy
    /\ tier' = [tier EXCEPT ![u] = target]
    /\ lifted' = IF target > tier[u] THEN lifted \cup {u} ELSE lifted
    /\ changed' = IF target = 0 THEN changed \cup {u} ELSE changed
    /\ UNCHANGED <<vaVars, call>>

\* One row of the script; a conflict with the index is listed for ops.
Rehash(u) ==
    /\ u \in legacy /\ HashIndexAdmits(u, held[u])
    /\ legacy' = legacy \ {u}
    /\ UNCHANGED <<held, tier, vaVars, call, ghosts>>

-----------------------------------------------------------------------------

Next ==
    \/ \E c \in Calls, u \in Users, id \in Numbers : Submit(c, u, id)
    \/ \E c \in Calls, u \in Users : Provision(c, u) \/ Replace(c, u)
    \/ \E c \in Calls :
          \/ OwnRead(c) \/ TakenRead(c) \/ Resolve(c) \/ Upsert(c) \/ UpsertRefused(c)
          \/ FindActive(c) \/ ReadIdentity(c) \/ Open(c) \/ Insert(c) \/ InsertRefused(c)
    \/ \E u \in Users, target \in 0 .. TopTier : Revoke(u, target)
    \/ \E u \in Users : Rehash(u)

Spec == Init /\ [][Next]_vars

-----------------------------------------------------------------------------
(* Properties *)

\* A number belongs to one customer, the rows of the salted scheme aside.
OneHolder == \A u \in Users \ legacy : held[u] # NoNumber => HoldersBut(u, held[u]) = {}

\* A tier has the verification it stands for, whatever submissions a revoke
\* overtakes, unless ops lifted the customer to a tier they had not reached.
TierBacked == \A u \in Users \ lifted : tier[u] >= 1 <=> held[u] # NoNumber

\* The one active account of a customer was opened with the number they hold,
\* although it is looked up before the account is opened, unless ops deleted a
\* verification of theirs or two submissions of theirs overlapped, which both
\* leave the account as it is.
AccountBacked ==
    \A u \in Users :
        /\ Cardinality(Active(u)) <= 1
        /\ u \notin changed => \A a \in Active(u) : a.id = held[u]

IdentityHolds == OneHolder /\ TierBacked /\ AccountBacked

\* A call is about a user, and opens an account with the number they hold.
CallsAreTrue ==
    \A c \in Calls :
        /\ ~At(c, "idle") => call[c].u \in Users
        /\ call[c].step \in {"own", "taken", "provider", "upsert", "open", "insert"} =>
              call[c].id \in Numbers
        /\ call[c].step \in {"open", "insert"} /\ call[c].u \notin changed =>
              call[c].id = held[call[c].u]

\* PalmPay's numbers are new, and each is inserted by the call that opened it.
NumbersAreNew ==
    /\ \A a \in vas : a.va <= opened
    /\ \A c \in Calls : At(c, "insert") =>
          /\ call[c].va \in 1 .. opened
          /\ \A a \in vas : a.va # call[c].va
          /\ \A d \in Calls \ {c} : At(d, "insert") => call[d].va # call[c].va

IInv == TypeOK /\ CallsAreTrue /\ NumbersAreNew /\ IdentityHolds
=============================================================================
