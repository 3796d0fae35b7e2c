CONSTANTS
    r1 = r1  r2 = r2  r3 = r3  r4 = r4
    NoObservation = NoObservation
    Requests <- TwoRequests
    InitialLimit = 3
    LimitInputs <- OneToThree
    CfgMinLimit = 1
    CfgMaxLimit = 3
    CfgStep = 2
    CfgHighThreshold = 0
    CfgLowThreshold = 0
SPECIFICATION HeuristicFairSpec
PROPERTY IdleShrinks
