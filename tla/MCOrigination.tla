---------------------------- MODULE MCOrigination ----------------------------
(* Origination on two loans, which one or two users open. *)
EXTENDS Origination, TLC
CONSTANTS u1, l1, l2, d1, d2

OneUser       == {u1}
TwoLoans      == {l1, l2}
OneLoan       == {l1}
TwoDeliveries == {d1, d2}
DeliverySymmetry == Permutations(TwoDeliveries)
=============================================================================
