SPECIFICATION Spec
CONSTANTS
    Shore = 3
    Plans <- MCPlans
    Completions = {"stop", "loop", "loop_reverse"}
    Radius = 1
    Cruise = 2
    Ramp = 2
    MaxDrifts = 1
    MaxOrders = 2
    Reach = 4
    Stations <- MCStations
    Radii <- MCRadii
    Thrust = 2
    SlowDown = 2
    MaxPushes = 5
    MaxStarts = 2
    Cruises = {1, 2, 3, 4}
    Thresholds = {10, 30}
    CruiseLimit = 3
    DefaultCruise = 3
    DefaultThreshold = 10
    Turn = 256
    Targets = {64, 125, 192}
    RateLimit = 16
    IntLimit = 2
    Threshold = 3
    Errors <- MCErrors
    MaxTurns = 2
    Legs = 3
    Length = 3
    Circle = 1
    LookAhead = {1, 2}
INVARIANTS
    TypesHold
    OneCruise
PROPERTIES
    PlanIsKept
    MotionIsSteady
    
CHECK_DEADLOCK FALSE
