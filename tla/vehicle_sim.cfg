SPECIFICATION FairSpec
CONSTANTS
    Commands <- SimCommands
    MaxCommands = 3
    MaxPending = 3
    StatusHWM = 1
    MaxSync = 2
    Crashable = {"manager"}
    MaxCrashes = 1
INVARIANTS
    SimNeverArmed
    SimWindowWithoutRestart
PROPERTIES
    SimIsolation
    MuteAgrees
