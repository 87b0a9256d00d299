SPECIFICATION EspSpec
CONSTANTS
    Percents = {0, 1, 29}
    Short = {29}
PROPERTIES
    IntactFrameAccepted
CHECK_DEADLOCK FALSE
