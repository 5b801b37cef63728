SPECIFICATION Spec
CONSTANTS
    Channels = {c1}
    MASTER = master
    MAX_LEVEL = 3
    MAX_TICK = 3
    FADE_STEP_TICK = 2
    IR_STEP = 1
    IR_MIN = 2
    OnLevels <- MCOnLevels
    StepSizes <- MCStepSizes
    MaxCmds = 2
    MaxPowerCycles = 1
INVARIANTS LevelSaved
CHECK_DEADLOCK FALSE
