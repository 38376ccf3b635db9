SPECIFICATION Spec
CONSTANTS
    Items <- MCItems
    Stamps <- MCStamps
    Path <- MCPath
    Delay <- MCDelay
    Transitions <- MCTransitions
    Horizon = 1
    MaxNumber = 6
    MaxElements = 8
    MaxBatch = 2
    MaxTick = 3
INVARIANTS ValidationPasses
PROPERTIES ImplementsCalendar
CHECK_DEADLOCK FALSE
