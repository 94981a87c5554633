\* Two requests that may overlap, of one customer, or two in Identity.
CONSTANTS
    Calls = {c1, c2}
    Users = {u1, u2}
    Numbers = {i1, i2}
    Destinations = {e1, e2}
    Limit = 2
    MaxRows = 3
    TopTier = 1
    MaxAccounts = 2
    OtpAttempts = 1
    MaxAttempts = 2
    MaxCodes = 2
    MaxSessions = 1
    MaxPins = 2
    MaxSecrets = 2
    MaxStale = 1
    MaxTokens = 2
    MaxLapses = 2
    Principals = {500, 501}
    Payments = {1, 101, 250, 333}
    Rates = {7}
    TicksPerDay = 2
    MaxTick = 7
    MaxPayments = 3
    MaxLog = 2
    Ids = {1, 2, 3}
    Times = {1, 2}
    PageSizes = {2}
    MaxDeliveries = 2
    MaxSends = 2
    Letters = {1, 2}
    MaxLetters = 4
    MaxNameTokens = 3
    TokenLife = 3
SPECIFICATION Spec
INVARIANTS
    TypeOK
    
    AccessHolds
    RunsOnce
    LedgerHolds
    NamesHold
SYMMETRY Symmetry
CHECK_DEADLOCK FALSE
