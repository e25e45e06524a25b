SPECIFICATION LoopSpec
CONSTANTS
    AutoStart = FALSE
    StartupTimeout = 0
    Retry = 2
    MaxStall = 1
    MaxInFlight = 1
    ClockSteps = FALSE
    MaybeDown = {}
    Flaky = {"odometry"}
    Timeout <- MCTimeout
    Offered <- MCOffered
PROPERTIES
    StopHalts
