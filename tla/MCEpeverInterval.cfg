SPECIFICATION Spec
CONSTANTS
    TIMEOUT = 2
    DEFAULT_INTERVAL = 12
    Intervals <- MCIntervals
    CLOCK = 14
    MaxLag = 1
    MaxDelay = 9
    Prompt = 0
    MaxFaults = 2
PROPERTIES IntervalApplied
