CONSTANTS
    r1 = r1  r2 = r2  r3 = r3  r4 = r4
    Requests <- FourRequests
    InitialLimit = 0
    LimitInputs <- MCLimitInputs
SPECIFICATION ControllerFairSpec
INVARIANTS ControllerTypeOK SlotAccounting QueueExact WorkConserving DriftBounded
PROPERTIES NoOverAdmission NoBarging NoStarvation ShrinkConverges ImplementsGate
