SPECIFICATION BothSpec
CONSTANTS
    Sites = {1, 2}
    Target <- MCTarget
    RequiredWork <- MCRequiredWork
    Builders = {11, 12}
    Stations <- MCStations
    FootprintOf <- MCFootprintOf
    BodyRadius = 0
    WorkPerTick = 2
    PowerPerWork <- MCPowerPerWork
    Ratios <- MCRatios
PROPERTIES WorkSharedInOrder NobodyBuildsInVain DamageAccounted
