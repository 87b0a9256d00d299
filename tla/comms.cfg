SPECIFICATION CommsSpec
CONSTANTS
    MaxConns = 2
    MaxGiven = 3
    MaxInFlight = 2
    MaxFaults = 1
    Configs <- MCConfigs
    MaxPushes = 2
    MaxThreads = 3
    MaxUpsets = 1
    Requests = {r1, r2}
    MaxDeaths = 1
    PageSize = 2
    Buffer = 5
    MaxLines = 8
    MaxLoads = 4
    Waypoints = 3
    Steps = 7
    Decimation = 2
INVARIANTS
    TypesHold
    AckedIsPublished
    LoggerFollows
    ServedInOrder
PROPERTIES
    ServiceSpec
    GroundRecovers
CHECK_DEADLOCK FALSE
