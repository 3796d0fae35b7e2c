CONSTANTS
    r1 = r1  r2 = r2
    Requests <- TwoRequests
    InitialLimit = 1
    LimitInputs <- OneOrTwo
    MaxConns = 1
    HasTimeout = TRUE
    DrainWindow = 2
    RequestTimeout = 2
SPECIFICATION ShutdownFairSpec
INVARIANTS ShutdownTypeOK SlotWhileWorking OneQueue TimeoutsAreReal NobodyCutOff
PROPERTIES EveryRequestAnswered ShutdownEnds
