--------------------------- MODULE MCPowerAndTrack ---------------------------
(***************************************************************************)
(* The power network and the track, each for itself; a behaviour stays in  *)
(* its own part.                                                           *)
(*   routes  PowerRouteSearch: a triangle of wires between a junction      *)
(*           (10), a source (20) and a gate port (12), a second wire       *)
(*           beside one side and a dead end; lengths tie in several ways   *)
(*   grid    PowerGrid: two sources (20, 21) that wires 1 and 3 can join   *)
(*           at a junction (10), a gate (port 12) behind wire 2, a mobile  *)
(*           in the middle of wire 2                                       *)
(*   track   Mobility: two junctions joined by two edges, a bend of dead   *)
(*           ends at one of them, and a free edge that ends where a        *)
(*           junction is without being bound                               *)
(***************************************************************************)
EXTENDS Mobility

VARIABLES
    part,                                       \* stage and ratio are shared
    placed, pieces,                             \* routes and grid
    loads, unvisited, frontier, component, components, load, best, queue,   \* routes
    intents, nominal, route, open, lower, upper, turn, grants, heat         \* grid

Triangle ==
    (1 :> [a |-> 10, b |-> 20, segments |-> <<2, 1>>, lower |-> "A", tokens |-> {"A", "B"}]) @@
    (2 :> [a |-> 20, b |-> 12, segments |-> <<1>>, lower |-> "A", tokens |-> {"A", "B"}]) @@
    (3 :> [a |-> 12, b |-> 10, segments |-> <<1, 1>>, lower |-> "B", tokens |-> {"A", "B"}]) @@
    (4 :> [a |-> 10, b |-> 20, segments |-> <<3>>, lower |-> "B", tokens |-> {"A", "B"}]) @@
    (5 :> [a |-> 12, b |-> 30, segments |-> <<2>>, lower |-> "A", tokens |-> {"A"}])
LoadOffsets == (1 :> {2}) @@ (2 :> {}) @@ (3 :> {}) @@ (4 :> {2}) @@ (5 :> {2})

Chain ==
    (1 :> [a |-> 10, b |-> 20, segments |-> <<3, 2>>, lower |-> "A", tokens |-> {"A", "B"}]) @@
    (2 :> [a |-> 10, b |-> 12, segments |-> <<4>>, lower |-> "A", tokens |-> {"A", "B"}]) @@
    (3 :> [a |-> 21, b |-> 10, segments |-> <<6>>, lower |-> "B", tokens |-> {"A", "B"}])
GateProbe == [idle |-> 1, drive |-> 1, switch |-> 2]
Rates == [leakage |-> <<1, 2>>, sensing |-> <<1, 3>>, movement |-> <<1, 1>>]
Curve == [linear |-> <<1, 1>>, quadratic |-> <<1, 2>>, power |-> <<1, 1>>, floor |-> 4]

Loose(p, out) == [place |-> p, bound |-> FALSE, out |-> out]
Tied(p, out) == [place |-> p, bound |-> TRUE, out |-> out]
Yard ==
    <<[length |-> 3, A |-> Tied(<<0, 1>>, <<1, 0>>), B |-> Tied(<<0, 2>>, <<-2, 0>>)],
      [length |-> 2, A |-> Tied(<<0, 1>>, <<2, 2>>), B |-> Loose(<<0, 3>>, <<0, -1>>)],
      [length |-> 2, A |-> Tied(<<0, 2>>, <<0, -3>>), B |-> Tied(<<0, 1>>, <<2, -1>>)],
      [length |-> 1, A |-> Loose(<<0, 4>>, <<1, 0>>), B |-> Tied(<<0, 1>>, <<-3, 0>>)],
      [length |-> 2, A |-> Loose(<<0, 5>>, <<0, 1>>), B |-> Loose(<<0, 2>>, <<0, -1>>)]>>

Search == INSTANCE PowerRouteSearch
          WITH Wires <- 1..5, Body <- Triangle, Sources <- {20, 21}, Ports <- {12},
               Offsets <- LoadOffsets
Grid == INSTANCE PowerGrid
        WITH Wires <- 1..3, Body <- Chain, FixedOne <- 6, Sources <- (20 :> 4) @@ (21 :> 7),
             Ports <- (101 :> 12), Stations <- (201 :> <<2, 3>>), GateDemands <- GateProbe,
             PerLength <- Rates, MoveDistance <- 6,
             OtherDemands <- [construction |-> {2}, live |-> {3}],
             LossK <- <<1, 2>>, Supported <- 7, Overcap <- Curve, HeatFraction <- <<1, 2>>,
             Comparisons <- 3

ASSUME Search!BodyAssumption /\ Search!SearchAssumption
ASSUME Grid!BodyAssumption /\ Grid!GridAssumption
ASSUME ShapeAssumption /\ MobilityAssumption

network == <<placed, pieces>>
search == <<loads, unvisited, frontier, component, components, load, best, queue>>
grid == <<intents, nominal, route, open, lower, upper, turn, grants, heat>>
mobile == <<live, place, controls, granted, walk>>
parts == <<part, stage, network, search, grid, ratio, mobile>>

NoSearch ==
    /\ loads = <<>> /\ unvisited = {} /\ frontier = {} /\ component = {} /\ components = {}
    /\ load = <<>> /\ best = <<>> /\ queue = {}
NoGrid ==
    /\ intents = <<>> /\ nominal = <<>> /\ route = <<>> /\ open = {}
    /\ lower = 0 /\ upper = 0 /\ turn = 0 /\ grants = <<>> /\ heat = {}
NoMobile ==
    /\ live = {} /\ place = None /\ controls = Stopped /\ granted = 0
    /\ walk = [at |-> None, left |-> 0]

PartsInit ==
    \/ part = "routes" /\ Search!Init /\ NoGrid /\ ratio = <<>> /\ NoMobile
    \/ part = "grid" /\ Grid!Init /\ NoSearch /\ NoMobile
    \/ part = "track" /\ Init /\ NoSearch /\ NoGrid /\ placed = {} /\ pieces = {}

SearchStep == part = "routes" /\ Search!Next /\ UNCHANGED <<part, grid, ratio, mobile>>
GridStep == part = "grid" /\ Grid!Next /\ UNCHANGED <<part, search, mobile>>
MobileStep == part = "track" /\ Next /\ UNCHANGED <<part, network, search, grid>>
MovementStep == part = "track" /\ Movement /\ UNCHANGED <<part, network, search, grid>>
PartsNext == SearchStep \/ GridStep \/ MobileStep

\* Both loops are a single thread's: nothing else runs until they are done.
PartsSpec ==
    PartsInit /\ [][PartsNext]_parts /\ WF_parts(SearchStep) /\ WF_parts(MovementStep)

-----------------------------------------------------------------------------

\* The compiled regions are the connected parts of the network, and the search
\* with one priority per node finds the least routes there are, each of a form
\* the solver takes; and at a junction a mobile finds the least turn, or the
\* sharpest to the side it is told, by the compass.
WaysAreBest ==
    /\ part = "routes" =>
          Search!ComponentsAreClasses /\ Search!RoutesAreLeast /\ Search!RoutesWellFormed
    /\ part = "track" => TurnsByCompass

\* No region hands out more than it generates, what is lost is heat, every
\* demand gets the ratio of its region, the greatest that can be afforded, and
\* the support of an overloaded network is shared out to the unit.
RegionsSolvent ==
    part = "grid" =>
        /\ Grid!TypeOK /\ Grid!RegionsSolvent /\ Grid!LossBecomesHeat /\ Grid!EveryLoadGranted
        /\ Grid!SupportIsShared /\ Grid!SolverConverges /\ Grid!RatioIsGreatest

\* The search for routes and the movement of a mobile come to an end.
LoopsEnd ==
    /\ stage \in {"components", "routes"} ~> stage = "done"
    /\ stage = "move" ~> stage = "edit"
=============================================================================
