SPECIFICATION Spec
CONSTANTS
    Plans <- MCPlans
    KindOf <- MCKind
    Host <- MCHost
    Clash <- MCClash
    Touch <- MCTouch
    Station <- MCStation
    MaxId = 5
    MaxDamage = 2
    MaxTick = 2
CONSTRAINT OneScene
INVARIANT DamagedTrackResolves
CHECK_DEADLOCK FALSE
