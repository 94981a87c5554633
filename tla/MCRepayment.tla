----------------------------- MODULE MCRepayment -----------------------------
(* Repayment for a customer with two loans (one that i1 pays off) or one.  *)
EXTENDS Repayment, TLC
CONSTANTS i1, i2, d1, d2, c1

TwoLoans     == {1, 2}
OneLoan      == {1}
TwoInflows   == {i1, i2}
Amounts      == (i1 :> 6) @@ (i2 :> 3)
Debts        == [l \in Loans |-> 3 + 2 * l]
Sats         == [l \in Loans |-> 1]
TwoDeliveries == {d1, d2}
OneClaim     == {c1}
DeliverySymmetry == Permutations(TwoDeliveries)
=============================================================================
