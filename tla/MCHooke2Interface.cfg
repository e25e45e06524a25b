SPECIFICATION Spec
CONSTANTS
    CounterModulus = 4
    InitialHold = 1
    ShiftHold = 1
    ThreshCycles = 1
    RecoverNum = 1
    MaxSpeed = 500
    MaxThrottle = 40
    MaxBrake = 80
    EmergencyBrake = 70
    CommandTimeout = 1000
    TickMs = 1000
    DrivingInterface = 2
    None = None
    Scripts <- MCScripts
INVARIANTS
    TypeOK
    NoUnrequestedEnable
    TakeoverHolds
PROPERTIES
    EmergencyReachesBus
    OverrideReleasesBus
    EngageEnables
    HoldEnds
    LampsFollow
CHECK_DEADLOCK FALSE
