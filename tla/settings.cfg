SPECIFICATION FairSpec
CONSTANTS
    Torn = Torn
    Invalid = Invalid
    NumRelays = 2
    PulseTicks = 2
    GncConfigs = {0, 1}
    FailsafeConfigs = {0, 1}
    DefaultGnc = 0
    DefaultFailsafe = 0
    MaxCommands = 2
    StatusHWM = 1
    Crashable = {"manager", "gnc"}
    MaxCrashes = 1
INVARIANTS
    NoSettingLost
    RelayAsCommanded
PROPERTIES
    GncConfigAgrees
