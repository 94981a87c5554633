\* One disbursement; two requests and the reconciler at once, two attempts,
\* one call that dies half way.
CONSTANTS
    d1 = d1
    d2 = d2
    r1 = r1
    r2 = r2
    w = w
    Disbursements <- OneDisbursement
    Requests <- TwoRequests
    Worker = w
    MaxAttempts = 2
    MaxFaults = 1
SPECIFICATION Spec
INVARIANTS
    TypeOK
    BooksMatchProvider
    ReferenceUsedOnce
    
    DisbursementAgrees
SYMMETRY RequestSymmetry
CHECK_DEADLOCK FALSE
