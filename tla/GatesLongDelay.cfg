SPECIFICATION GatesSpec
CONSTANTS
    Gates = {1}
    RatioOne = 5
    OperateThreshold = 1
    DelayFloor = 1
    RetentionTicks = 3
    NominalDrive = 3
    PowerEnabled = TRUE
    ThermalEnabled = TRUE
    Loads <- Light
    Ratios <- Fifths
    MaxTick = 7
INVARIANT CommitAccepted
CHECK_DEADLOCK FALSE
