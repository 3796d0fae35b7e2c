CONSTANTS
    r1 = r1  h1 = h1  h2 = h2
    Never = Never  Idle = Idle  Stale = Stale  NoPost = NoPost  Failed = Failed
    Requests <- OneRequest
    Posters <- TwoPosts
    InitialLimit = 3
    LimitInputs <- OneToFive
    Candidates <- OneToFive
    CfgMinLimit = 1
    CfgMaxLimit = 5
    CfgMaxDelta = 2
    CfgCooldown = 1
    CfgFallbackTo = 1
    CfgFreshTimeout = 3
    MaxLag = 0
    SafetyMin = 1
    SafetyMax = 5
    SafetyDelta = 2
    HysteresisPercent = 5
    Window = 4
    GridStep = 2
    SafetyCooldown = 1
    Heartbeat = 2
    Predictors <- Moody
    SteadyCost <- KneeAtFive
    MaxGap = 2
SPECIFICATION LoopFairSpec
INVARIANTS LoopTypeOK
PROPERTIES LiveLoopStaysFresh LayersAgree ConvergesToTarget
