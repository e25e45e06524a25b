CONSTANTS
    StoreTime = 4
    DiffThresh = 1
    MinDecel <- MCMinDecel
    MaxAccel = 3
    Timeout = 2
    Scripts <- MCScripts
    Dropouts = 1
    None = None
SPECIFICATION Spec
INVARIANTS TypeOK NoFalseAlarm
PROPERTIES FaultFound AlarmEnds SilenceReported
