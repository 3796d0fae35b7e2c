CONSTANTS
    Unset = Unset  Garbage = Garbage  Error = Error
    Refused = Refused  Down = Down
    Environments <- MCEnvironments
    Files <- MCFiles
SPECIFICATION ConfigSpec
INVARIANTS SoundEnvelope AcceptsSense SameEnvelope
CHECK_DEADLOCK FALSE
