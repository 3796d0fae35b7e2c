CONSTANTS
    r1 = r1  h1 = h1  h2 = h2
    Never = Never  Idle = Idle  Stale = Stale
    Requests <- OneRequest
    Posters <- TwoHandlers
    InitialLimit = 3
    LimitInputs <- OneToFive
    Candidates <- MCCandidates
    CfgMinLimit = 0
    CfgMaxLimit = 5
    CfgMaxDelta = 2
    CfgCooldown = 2
    CfgFallbackTo = 0
    CfgFreshTimeout = 3
    MaxLag = 1
SPECIFICATION TelemetrySpec
PROPERTY FallbackReverts
