CONSTANTS
    Frame <- MCFrame
    Scripts <- MCScripts
    RecvLen = 2
    TxDepth = 2
    Capacity = 2
    BusDepth = 1
    Faults = 1
    Brands = {"socket", "innodisk", "esd", "kvaser", "unknown"}
SPECIFICATION PathSpec
INVARIANTS CanTypeOK DeviceOpenWhileUsed
PROPERTIES InFlightKept StopEnds EchoSettles
CHECK_DEADLOCK FALSE
