------------------------ MODULE MCLiquidationMonitor ------------------------
(* LiquidationMonitor for one loan, whose coverage its debt moves between the bands. *)
EXTENDS LiquidationMonitor
CONSTANTS l1, s1, s2

OneLoan   == {l1}
TwoSweeps == {s1, s2}

\* A rate that is not positive, and one at which the debts are 110 % covered, to
\* be seized, and 113 %, called and warned.
TwoRates    == {0, 110}
TwoBalances == {97, 100}
=============================================================================
