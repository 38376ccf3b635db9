SPECIFICATION StepSpec
CONSTANTS
    Gates = {1}
    RatioOne = 5
    OperateThreshold = 1
    DelayFloor = 1
    RetentionTicks = 3
    NominalDrive = 3
    PowerEnabled = TRUE
    ThermalEnabled = TRUE
    Loads <- LightAndMedium
    Ratios <- Fifths
    MaxTick = 6
INVARIANTS TransitionsMerge StrengthFollowsPower LostOnlyToTakeover BatchIsOneByOne
PROPERTIES OutputWasAskedFor PoweredGatesRespond
CHECK_DEADLOCK FALSE
