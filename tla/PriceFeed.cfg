\* The constants of the code in ticks of five minutes; a poll may cross one tick.
CONSTANTS
    p1 = p1
    p2 = p2
    Polls <- TwoPolls
    CacheTtl = 2
    StaleAfter = 4
    AlertAfter = 3
    CycleTime = 1
SPECIFICATION Spec
INVARIANTS
    TypeOK
    ServedRateIsRecent
PROPERTIES
    RecoversAfterOutage
