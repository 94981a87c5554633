\* One loan, two requests that may overlap, two failures anywhere: liveness.
CONSTANTS
    u1 = u1
    l1 = l1
    l2 = l2
    d1 = d1
    d2 = d2
    Users <- OneUser
    Loans <- OneLoan
    Deliveries <- TwoDeliveries
    Overlapping <- OneLoan
    MaxFaults = 2
SPECIFICATION Spec
PROPERTIES
    LapsedLoanResolves
    
CHECK_DEADLOCK FALSE
