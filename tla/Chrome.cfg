CONSTANTS
    Builtins = 2
    CapMin = 1
    CapMax = 2
    CapStep = 1
    InitialCap = 1
    MaxActs = 4
    MaxUnderWay = 2
SPECIFICATION Spec
INVARIANTS BodyFits SettingsAgree
PROPERTIES BarTimed
CHECK_DEADLOCK FALSE
