SPECIFICATION FairSpec
CONSTANTS
    Torn = Torn
    Invalid = Invalid
    NumRelays = 1
    PulseTicks = 2
    GncConfigs = {0, 1}
    FailsafeConfigs = {0, 1}
    DefaultGnc = 0
    DefaultFailsafe = 0
    MaxCommands = 1
    StatusHWM = 1
    Crashable = {}
    MaxCrashes = 0
PROPERTIES
    FailsafeAgrees
