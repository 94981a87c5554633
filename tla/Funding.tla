------------------------------- MODULE Funding -------------------------------
(***************************************************************************)
(* What origination promises the lender, whatever the requests, webhooks   *)
(* and workers do: a loan is opened, its collateral arrives once, and only *)
(* then, and only once, is a disbursement created for it.                  *)
(***************************************************************************)
EXTENDS Naturals

CONSTANTS
    Loans,
    Repeatable      \* loans the promise of a single disbursement excludes

VARIABLES
    opened,         \* loans with a row
    secured,        \* loans whose collateral is in
    payouts         \* disbursements created per loan

Init ==
    /\ opened = {}
    /\ secured = {}
    /\ payouts = [l \in Loans |-> 0]

Open(l) ==
    /\ l \notin opened
    /\ opened' = opened \cup {l}
    /\ UNCHANGED <<secured, payouts>>

Secure(l) ==
    /\ l \in opened \ secured
    /\ secured' = secured \cup {l}
    /\ UNCHANGED <<opened, payouts>>

PayOut(l) ==
    /\ l \in secured
    /\ payouts[l] = 0 \/ l \in Repeatable
    /\ payouts' = [payouts EXCEPT ![l] = @ + 1]
    /\ UNCHANGED <<opened, secured>>

Next == \E l \in Loans : Open(l) \/ Secure(l) \/ PayOut(l)

Spec == Init /\ [][Next]_<<opened, secured, payouts>>
=============================================================================
