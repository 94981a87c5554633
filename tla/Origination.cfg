\* Both loans are the same user's, so that the pre-check and the index matter;
\* only l2's event may be delivered while an earlier delivery is in progress.
CONSTANTS
    u1 = u1
    l1 = l1
    l2 = l2
    d1 = d1
    d2 = d2
    Users <- OneUser
    Loans <- TwoLoans
    Deliveries <- TwoDeliveries
    Overlapping = {l2}
    MaxFaults = 1
SPECIFICATION Spec
INVARIANTS
    TypeOK
    OnePendingPerUser
    DisbursedOnlyAgainstCollateral
    OneDisbursementPerEvent
    ActiveMeansCollateralised
    AuditTrailComplete
PROPERTY FundingPromise
SYMMETRY DeliverySymmetry
CHECK_DEADLOCK FALSE
