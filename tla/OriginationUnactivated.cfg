\* A payment that settles while its loan is cancelled or expired (no failure needed).
CONSTANTS
    u1 = u1
    l1 = l1
    l2 = l2
    d1 = d1
    d2 = d2
    Users <- OneUser
    Loans <- OneLoan
    Deliveries <- TwoDeliveries
    Overlapping = {}
    MaxFaults = 0
SPECIFICATION Spec
INVARIANT OnlyActivatedLoansAreFunded
CHECK_DEADLOCK FALSE
