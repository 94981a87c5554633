\* Two loans and two inflows: i1 may pay off a loan, i2 is below the floor.
CONSTANTS
    i1 = i1
    i2 = i2
    d1 = d1
    d2 = d2
    c1 = c1
    Loans <- TwoLoans
    Inflows <- TwoInflows
    Amount <- Amounts
    Debt <- Debts
    Collateral <- Sats
    Floor = 4
    Tolerance = 0
    Rates = {4, 6}
    OriginRate = 10
    Visible = {i1}
    Legacy = {2}
    Deliveries <- TwoDeliveries
    Claims <- OneClaim
    MaxDays = 1
SPECIFICATION Spec
INVARIANTS
    TypeOK
    InflowCreditedOnce
    
    
    CreditsAreTrusted
    
SYMMETRY DeliverySymmetry
CHECK_DEADLOCK FALSE
