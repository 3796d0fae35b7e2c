CONSTANTS
    r1 = r1  r2 = r2  r3 = r3  r4 = r4
    Requests <- ThreeRequests
    InitialLimit = 1
    LimitInputs <- MCLimitInputs
SPECIFICATION ControllerSpec
INVARIANT WaitingIsQueueLength
