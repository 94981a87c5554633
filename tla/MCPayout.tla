------------------------------ MODULE MCPayout ------------------------------
(* Payout for a loan that gets one or two disbursements. *)
EXTENDS Payout, TLC
CONSTANTS d1, d2, r1, r2, w

OneDisbursement  == {d1}
TwoDisbursements == {d1, d2}
OneRequest       == {r1}
TwoRequests      == {r1, r2}
RequestSymmetry  == Permutations(TwoRequests)
=============================================================================
