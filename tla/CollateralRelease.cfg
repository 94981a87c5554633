\* One loan, the cycle and two requests that may overlap, two failures.
CONSTANTS
    l1 = l1
    l2 = l2
    a1 = a1
    w = w
    r1 = r1
    r2 = r2
    Loans <- OneLoan
    Addresses <- OneAddress
    Workers <- OneWorker
    Requests <- TwoRequests
    Limit = 1
    MaxFaults = 2
SPECIFICATION Spec
INVARIANTS
    TypeOK
    PaidOnceUnderLock
    StampedOnce
    
SYMMETRY RequestSymmetry
CHECK_DEADLOCK FALSE
