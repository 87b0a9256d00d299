SPECIFICATION Spec
CONSTANTS
    InsTimeout = 2
    CommTimeout = 2
    LossTimeout = 1
    NavGap = 0
    StatusGap = 0
    LinkGap = 1
    HistoryBound = 8
INVARIANTS
    OutageAnswered
