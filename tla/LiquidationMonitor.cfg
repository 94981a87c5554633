\* One loan, two sweeps that may overlap, one failure anywhere.
CONSTANTS
    l1 = l1
    s1 = s1
    s2 = s2
    Loans <- OneLoan
    Sweeps <- TwoSweeps
    Rates <- TwoRates
    Balances <- TwoBalances
    RateAtCreation = 100
    MaxFaults = 1
SPECIFICATION Spec
INVARIANTS
    TypeOK
    CollateralLeavesOnce
    NoticesSpaced
PROPERTY LowCoverageIsSeized
