SPECIFICATION MCSpec
CONSTANTS
    PlaceEdit = PlaceEdit
    RemoveEdit = RemoveEdit
    FinishEdit = FinishEdit
    BreakEdit = BreakEdit
    TickCredit = 8
    Elapsed <- MCElapsed
    MaxProbes = 1
    ProbeHistory = 2
    Offered <- MCOffered
    Replays <- MCReplays
    MaxQueue = 2
    MaxTicks = 3
    MaxEdits = 2
    MaxAdded = 2
    MaxResets = 1
INVARIANTS SessionReplays FramesSplit ViewsFollow HostsAgree
PROPERTY PlaybackEnds
CHECK_DEADLOCK FALSE
