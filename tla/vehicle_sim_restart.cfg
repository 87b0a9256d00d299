SPECIFICATION FairSpec
CONSTANTS
    Commands <- SimCommands
    MaxCommands = 3
    MaxPending = 2
    StatusHWM = 1
    MaxSync = 2
    Crashable = {"manager"}
    MaxCrashes = 1
PROPERTIES
    RealMotorsRest
