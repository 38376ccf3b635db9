SPECIFICATION PartsSpec
CONSTANTS
    Edges = {1, 2, 3, 4, 5}
    Shape <- Yard
    Nominal = 6
    One = 4
    Ratios = {0, 3}
    Levels = {"Low", "High", "X"}
INVARIANTS WaysAreBest RegionsSolvent MobilesKeepTheTrack
PROPERTY LoopsEnd
CHECK_DEADLOCK FALSE
