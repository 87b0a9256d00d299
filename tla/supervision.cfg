SPECIFICATION SupervisionSpec
CONSTANTS
    InsTimeout = 2
    CommTimeout = 3
    LossTimeout = 1
    NavGap = 1
    StatusGap = 1
    LinkGap = 1
    HistoryBound = 8
    Services = {s1, s2}
    MaxRestarts = 3
    Window = 7
    MaxBackoff = 2
    MaxStep = 2
    ClockSteps = {1, 2}
SYMMETRY Interchangeable
INVARIANTS
    OutageDelayed
    SilenceAnswered
    NoFalseAlarmWhileArmed
    EmergencyStopFinal
    OneAlarmPerOutage
    PromptRestart
    RestartsBounded
PROPERTIES
    GivesUpOnlyInCrashLoop
    GivenUpStaysDown
