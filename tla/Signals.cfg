SPECIFICATION Spec
CONSTANTS
    Gates <- MCGates
    Wires <- MCWires
    Junctions <- MCJunctions
    Ports <- MCPorts
    PortGate <- MCPortGate
    Drivers <- MCDrivers
    Sinks <- MCSinks
    DriverPort <- MCDriverPort
    SinkPort <- MCSinkPort
    Length <- MCLength
    Segments <- MCSegments
    LinearK <- MCLinearK
    QuadraticK <- MCQuadraticK
    FixedOne = 1
    Reach <- MCReach
    Outputs <- MCOutputs
    LogicThreshold = 1
    MaxEdits = 8
    MaxRevision = 2
    MaxTick = 5
CONSTRAINT OneNetwork
INVARIANTS RevisionsAgree StepNeverFails RoutesServed NoGhostSlot SinksResolved
PROPERTIES SlotsAdvance
CHECK_DEADLOCK FALSE
