SPECIFICATION LoopSpec
CONSTANTS
    AutoStart = FALSE
    StartupTimeout = 0
    Retry = 2
    MaxStall = 1
    MaxInFlight = 1
    ClockSteps = TRUE
    MaybeDown = {}
    Flaky = {"velocity"}
    Timeout <- MCTimeout
    Offered <- MCOffered
INVARIANTS
    FinishedIsSafe
PROPERTIES
    MotionSupervised
    FaultHandsOver
    ArrivalFinishes
