CONSTANTS
    r1 = r1  r2 = r2  r3 = r3  r4 = r4
    NoObservation = NoObservation
    Requests <- FourRequests
    InitialLimit = 1
    LimitInputs <- OneToTwo
    CfgMinLimit = 1
    CfgMaxLimit = 2
    CfgStep = 2
    CfgHighThreshold = 0
    CfgLowThreshold = 60
SPECIFICATION HeuristicFairSpec
INVARIANTS HeuristicTypeOK
PROPERTIES ShrinksOnlyUncrowded GrowsOnlyCrowded GrowsWhenSaturated ShrinksWhenIdle
