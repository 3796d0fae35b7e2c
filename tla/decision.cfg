CONSTANTS
    SafetyMin = 1
    SafetyMax = 6
    SafetyDelta = 2
    HysteresisPercent = 5
    Window = 3
    GridStep = 2
    WeightLatency = 1
    WeightError = 60
    WeightWait = 30
    WeightResource = 1
    Scale = 60
    Limits <- ZeroToSeven
    Predictions <- MCPredictions
    Observations <- MCObservations
    Failed = Failed
    NoDecision = NoDecision
    NoTelemetry = NoTelemetry
SPECIFICATION DecisionSpec
INVARIANTS EnvelopeHolds ConvexNoRegret NeverUndone ContentNearRecommended GrowsUnderPressure
CHECK_DEADLOCK FALSE
