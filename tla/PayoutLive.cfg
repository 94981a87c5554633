\* Two disbursements, so that ops can recreate; a request and the reconciler
\* at once, one attempt each, one call that dies half way.
CONSTANTS
    d1 = d1
    d2 = d2
    r1 = r1
    r2 = r2
    w = w
    Disbursements <- TwoDisbursements
    Requests <- OneRequest
    Worker = w
    MaxAttempts = 1
    MaxFaults = 1
SPECIFICATION Spec
PROPERTIES
    ProcessingResolves
    
CHECK_DEADLOCK FALSE
