SPECIFICATION FairSpec
CONSTANTS
    Commands <- AutoCommands
    MaxCommands = 3
    MaxPending = 2
    StatusHWM = 1
    MaxSync = 2
    Crashable = {"manager", "gnc"}
    MaxCrashes = 1
PROPERTIES
    AutoRunEndsInZero
    DisarmedComesToRest
    EmergencyStopHolds
    ArmingAgrees
    ModeAgrees
