SPECIFICATION Spec
CONSTANTS
    AutoStart = TRUE
    StartupTimeout = 0
    Retry = 2
    MaxStall = 1
    Timeout <- MCTimeout
    MaybeDown = {"engage"}
    Flaky <- MCFlaky
    Offered <- MCOffered
INVARIANTS
    TypeOK
    AcceptanceIsOurs
    EngageOrdered
    GateSeesPhase
PROPERTIES
    EnabledFromStop
