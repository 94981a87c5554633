------------------------- MODULE MCCollateralRelease -------------------------
(* CollateralRelease for two loans that share a cycle's batch, or for one. *)
EXTENDS CollateralRelease, TLC
CONSTANTS l1, l2, a1, w, r1, r2

OneLoan      == {l1}
TwoLoans     == {l1, l2}
OneAddress   == {a1}
OneWorker    == {w}
NoRequests   == {}
TwoRequests  == {r1, r2}
RequestSymmetry == Permutations(TwoRequests)
=============================================================================
