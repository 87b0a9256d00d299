SPECIFICATION Spec
CONSTANTS
    Nodes = {"gnss", "power"}
    MaxFaults = 2
    MaxRequests = 2
    Stall = 2
    UplinkEvery = 2
    RetryAfter = 1
    MaxBad = 1
    MaxEpoch = 3
    MaxLostRun = 5
    MaxFrames = 30
    MaxPower = 2
    Capacities = {0, 10}
    DefaultCapacity = 20
    MaxGap = 4
    Waits = {1, 3, 5}
    MaxDelay = 1
    MaxClock = 9
    Percents = {0, 1, 29}
    Short = {29}
    SimFix = "rtk"
    MaxQueue = 1
    MaxSims = 1
    MaxChanges = 1
INVARIANTS
    TypesHold
    Coherent
    EnergySinceStart
    OneSourcePerFilter
PROPERTIES
    DriversAreFaithful
    
    BoardFollows
    FixIsFollowed
CHECK_DEADLOCK FALSE
