SPECIFICATION BothSpec
CONSTANTS
    Channels = {c1, c2}
    MASTER = master
    MAX_LEVEL = 3
    MAX_TICK = 3
    FADE_STEP_TICK = 2
    IR_STEP = 1
    IR_MIN = 2
    OnLevels <- MCOnLevels
    StepSizes <- MCStepSizes
    MaxCmds = 3
    MaxPowerCycles = 1
    Toggles = {toggle}
    UpDown = {up}
    NoKey = NoKey
    BITS = 2
    UPDN = 1
    DIFF = 1
    SAME = 2
    TickMod = 3
    MaxLag = 1
    MaxFrames = 3
    MaxNoise = 1
INVARIANTS TypeOK NoOrphanTimer FadeArmed TargetFollows NeverDeaf TogglesOnce
PROPERTIES Quiesces
CHECK_DEADLOCK FALSE
