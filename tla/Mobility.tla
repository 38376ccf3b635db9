------------------------------ MODULE Mobility ------------------------------
(***************************************************************************)
(* Mobiles on the track: Phase 0 places them, Phase 3 samples their        *)
(* controls, Phases 5 and 6 grant a budget, Phase 7 spends it turn by turn *)
(* and Phase 11 commits where they are (crates/aon-sim/src/mobility.rs,    *)
(* structural_geometry.rs and simulation.rs).  Mobiles pass through each   *)
(* other; one is enough.                                                   *)
(*                                                                         *)
(* An edge of the track is an open-world wire: a length and two ends.  An  *)
(* end has a place (a point of the world), may be bound to the junction at *)
(* it, and an outgoing direction, the vector of its first segment seen     *)
(* from there.  The course between the ends is irrelevant to movement.     *)
(* Wires that share a junction are in one power region (PowerGrid), so the *)
(* ratio is one per connected part of the track.                           *)
(***************************************************************************)
EXTENDS Numeric, FiniteSets, SequencesExt, TLC

CONSTANTS
    Edges,      \* wire ids in their order
    Shape,      \* edge -> [length, A, B]; an end is [place, bound, out]
    Nominal,    \* distance of a tick at full power
    One,        \* raw value of the ratio one
    Ratios,     \* ratios a region may have
    Levels      \* levels of a control sink

MobilityAssumption ==
    /\ Nominal \in Nat \ {0} /\ One \in Nat \ {0} /\ Ratios \subseteq 0..One
    /\ Levels \subseteq {"Low", "High", "X"}

None == [on |-> "nowhere"]
Stopped == [stop |-> "High", left |-> "Low", right |-> "Low"]

-----------------------------------------------------------------------------
\* The track, as pure operators (TrackGraph).

Ends == {"A", "B"}
EndRank(end) == IF end = "A" THEN 0 ELSE 1

ShapeAssumption ==
    /\ IsFiniteSet(Edges) /\ Edges \subseteq Nat
    /\ \A e \in Edges :
          /\ Shape[e].length \in Nat \ {0}
          /\ \A end \in Ends : Shape[e][end].out \in (Int \X Int) \ {<<0, 0>>}
          /\ Shape[e].A.bound /\ Shape[e].B.bound => Shape[e].A.place # Shape[e].B.place

Edge(e, offset, heading) == [on |-> "edge", edge |-> e, offset |-> offset, heading |-> heading]
Junction(j, incoming) == [on |-> "junction", junction |-> j, edge |-> incoming]
Opposite(heading) == IF heading = "Forward" THEN "Reverse" ELSE "Forward"

\* Bound ends that meet at a place, of the edges that live.
Incidents(live, place) ==
    {i \in [edge : live, end : Ends] :
        Shape[i.edge][i.end].bound /\ Shape[i.edge][i.end].place = place}
IncidentBefore(x, y) == LexLess(<<x.edge, EndRank(x.end)>>, <<y.edge, EndRank(y.end)>>)
Least(incidents) == CHOOSE x \in incidents : \A y \in incidents : x = y \/ IncidentBefore(x, y)

Leaving(i) ==
    IF i.end = "A" THEN Edge(i.edge, 0, "Forward")
    ELSE Edge(i.edge, Shape[i.edge].length, "Reverse")

\* A point of the world: a place, or a point inside an edge.
Inside(e, offset) == <<e, offset>>
PointAt(e, offset) ==
    IF offset = 0 THEN Shape[e].A.place
    ELSE IF offset = Shape[e].length THEN Shape[e].B.place ELSE Inside(e, offset)
world_position(position) ==
    IF position.on = "junction" THEN position.junction
    ELSE PointAt(position.edge, position.offset)

\* Both refuse a position the track does not carry.
Resolves(live, position) ==
    IF position.on = "junction"
    THEN Cardinality({i \in Incidents(live, position.junction) : i.edge = position.edge}) = 1
    ELSE position.edge \in live /\ position.offset \in 0..Shape[position.edge].length

power_attachment_position(live, position) ==
    IF position.on = "edge" THEN <<position.edge, position.offset>>
    ELSE LET i == CHOOSE x \in Incidents(live, position.junction) : x.edge = position.edge
         IN  <<i.edge, IF i.end = "A" THEN 0 ELSE Shape[i.edge].length>>

\* Where a mobile that is placed at a point starts: a junction sends it out on
\* its least incident, elsewhere the first edge that passes the point takes it.
locate(live, point) ==
    LET here == Incidents(live, point)
        passing == {e \in live : \E x \in 0..Shape[e].length : PointAt(e, x) = point}
        first == CHOOSE e \in passing : \A f \in passing : e <= f
        offset == CHOOSE x \in 0..Shape[first].length :
                      PointAt(first, x) = point /\
                      \A y \in 0..Shape[first].length : PointAt(first, y) = point => x <= y
    IN  IF here # {} THEN {Leaving(Least(here))}
        ELSE IF passing = {} THEN {}
        ELSE {Edge(first, offset,
                   IF offset = Shape[first].length THEN "Reverse" ELSE "Forward")}

-----------------------------------------------------------------------------
(* Turns, compared without angles.                                         *)

Cross(u, v) == u[1] * v[2] - u[2] * v[1]
Dot(u, v) == u[1] * v[1] + u[2] * v[2]
Size(n) == IF n < 0 THEN -n ELSE n

exact_turn_side(incoming, outgoing) ==
    LET cross == Cross(incoming, outgoing)
    IN  IF cross > 0 THEN "Left" ELSE IF cross < 0 THEN "Right"
        ELSE IF Dot(incoming, outgoing) > 0 THEN "Straight" ELSE "Reverse"

Region(dot) == IF dot > 0 THEN 0 ELSE IF dot = 0 THEN 1 ELSE 2
\* The angle to u is smaller than the angle to v.
SmallerTurn_OneTangent(incoming, u, v) ==
    LET du == Dot(incoming, u)
        dv == Dot(incoming, v)
    IN  \/ Region(du) < Region(dv)
        \/ /\ Region(du) = Region(dv) /\ du # 0
           /\ Size(Cross(incoming, u)) * Size(dv) < Size(Cross(incoming, v)) * Size(du)
SmallerTurn(incoming, u, v) ==
    LET du == Dot(incoming, u)
        dv == Dot(incoming, v)
        tu == Size(Cross(incoming, u)) * Size(dv)
        tv == Size(Cross(incoming, v)) * Size(du)
    IN  \/ Region(du) < Region(dv)
        \/ Region(du) = Region(dv) /\ ((du > 0 /\ tu < tv) \/ (du < 0 /\ tv < tu))

Outgoing(i) == Shape[i.edge][i.end].out
Incoming(i) == <<-Outgoing(i)[1], -Outgoing(i)[2]>>

\* candidate_is_better, iterated: the extreme turn, of equal turns the least
\* incident.
Preferred(candidates, incoming, smallest) ==
    CHOOSE x \in candidates : \A y \in candidates \ {x} :
        LET less == SmallerTurn(incoming, Outgoing(x), Outgoing(y))
            more == SmallerTurn(incoming, Outgoing(y), Outgoing(x))
        IN  IF smallest THEN less \/ (~more /\ IncidentBefore(x, y))
            ELSE more \/ (~less /\ IncidentBefore(x, y))

\* The incident a mobile leaves a junction by; none when the side it asks for
\* is missing or a control is undetermined.
select_junction_incident(live, j, incoming, left, right) ==
    LET here == Incidents(live, j)
        back == CHOOSE i \in here : i.edge = incoming
        others == {i \in here : i.edge # incoming}
        Turning(side) == {i \in others : exact_turn_side(Incoming(back), Outgoing(i)) = side}
        Sharpest(side) == IF Turning(side) = {} THEN {}
                          ELSE {Preferred(Turning(side), Incoming(back), FALSE)}
    IN  IF left = "High" /\ right = "High" THEN {back}
        ELSE IF left = "Low" /\ right = "Low"
             THEN {IF others = {} THEN back ELSE Preferred(others, Incoming(back), TRUE)}
        ELSE IF left = "High" THEN Sharpest("Left")
        ELSE IF right = "High" THEN Sharpest("Right") ELSE {}

-----------------------------------------------------------------------------
(* Runs along an edge.                                                     *)

\* A free edge reflects at both ends; the position after any distance follows
\* from the distance modulo a period of there and back.
advance_reflecting_edge_NoBounce(length, offset, heading, distance) ==
    <<IF heading = "Forward" THEN offset + distance ELSE offset - distance, heading>>
advance_reflecting_edge_OnePeriod(length, offset, heading, distance) ==
    LET start == IF heading = "Forward" THEN offset ELSE 2 * length - offset
        phase == (start + distance) % (2 * length)
    IN  IF distance = 0 THEN <<offset, heading>>
        ELSE IF phase <= length THEN <<phase, "Forward">>
        ELSE <<2 * length - phase, "Reverse">>
advance_reflecting_edge(length, offset, heading, distance) ==
    LET start == IF heading = "Forward" THEN offset ELSE 2 * length - offset
        phase == (start + distance) % (2 * length)
    IN  IF distance = 0 THEN <<offset, heading>>
        ELSE IF phase = 0 THEN <<0, "Reverse">>
        ELSE IF phase <= length THEN <<phase, "Forward">>
        ELSE <<2 * length - phase, "Reverse">>

FreeEdge(e) == ~Shape[e].A.bound /\ ~Shape[e].B.bound
HeadedEnd(p) == IF p.heading = "Forward" THEN "B" ELSE "A"
EndOffset(p) == IF p.heading = "Forward" THEN Shape[p.edge].length ELSE 0
ToEnd(p) == IF p.heading = "Forward" THEN Shape[p.edge].length - p.offset ELSE p.offset
AtHeadedJunction(p) == Junction(Shape[p.edge][HeadedEnd(p)].place, p.edge)
Bound(p) == Shape[p.edge][HeadedEnd(p)].bound

\* One turn of the loop of stage_movement, for a budget left > 0 on an edge.
AfterTurn_KeepsBudget(p, left) ==
    IF FreeEdge(p.edge)
    THEN LET to == advance_reflecting_edge(Shape[p.edge].length, p.offset, p.heading, left)
         IN  [at |-> Edge(p.edge, to[1], to[2]), left |-> 0]
    ELSE IF left < ToEnd(p)
    THEN [at |-> Edge(p.edge, p.offset + (IF p.heading = "Forward" THEN left ELSE -left), p.heading),
          left |-> 0]
    ELSE IF Bound(p) THEN [at |-> AtHeadedJunction(p), left |-> left]
    ELSE [at |-> Edge(p.edge, EndOffset(p), Opposite(p.heading)), left |-> left - ToEnd(p)]
AfterTurn(p, left) ==
    IF FreeEdge(p.edge)
    THEN LET to == advance_reflecting_edge(Shape[p.edge].length, p.offset, p.heading, left)
         IN  [at |-> Edge(p.edge, to[1], to[2]), left |-> 0]
    ELSE IF left < ToEnd(p)
    THEN [at |-> Edge(p.edge, p.offset + (IF p.heading = "Forward" THEN left ELSE -left), p.heading),
          left |-> 0]
    ELSE IF Bound(p) THEN [at |-> AtHeadedJunction(p), left |-> left - ToEnd(p)]
    ELSE [at |-> Edge(p.edge, EndOffset(p),
                      IF left = ToEnd(p) THEN p.heading ELSE Opposite(p.heading)),
          left |-> left - ToEnd(p)]

-----------------------------------------------------------------------------
\* A mobile.

VARIABLES
    live,       \* edges of the track
    place,      \* committed position of the mobile, or None
    stage,      \* "edit", "grant", "move"
    controls,   \* sample of its sinks
    ratio,      \* edge -> ratio of its region; <<>> without the power system
    granted,    \* budget of the tick
    walk        \* staged movement: [at, left]

vars == <<live, place, stage, controls, ratio, granted, walk>>

Longest == CHOOSE n \in {Shape[e].length : e \in Edges} : \A e \in Edges : Shape[e].length <= n
Points == {Shape[e][end].place : e \in Edges, end \in Ends}
          \cup {Inside(e, x) : e \in Edges, x \in 1..Longest}

Init ==
    /\ live \in SUBSET Edges /\ place = None /\ stage = "edit" /\ controls = Stopped
    /\ ratio = <<>> /\ granted = 0 /\ walk = [at |-> None, left |-> 0]

-----------------------------------------------------------------------------

\* place_mobile_substrate, as far as the track goes.
PlaceMobile(point) ==
    /\ stage = "edit" /\ place = None
    /\ \E p \in locate(live, point) : place' = p
    /\ UNCHANGED <<live, stage, controls, ratio, granted, walk>>

\* Commands and damage change the track; StructuralLifecycle says what they
\* leave a mobile to stand on.
Rewire(edges) ==
    /\ stage = "edit" /\ edges # live
    /\ place # None => Resolves(edges, place)
    /\ live' = edges
    /\ UNCHANGED <<place, stage, controls, ratio, granted, walk>>

\* Phases 1 and 3.  sample: levels of the control sinks.
Sample(sample) ==
    /\ stage = "edit" /\ place # None
    /\ controls' = sample /\ stage' = "grant"
    /\ UNCHANGED <<live, place, ratio, granted, walk>>

grants_stage0_movement ==
    controls.stop = "Low" /\ controls.left # "X" /\ controls.right # "X"

\* Edges that meet at a junction are in one power region.
Meet(f, g) ==
    \E x, y \in Ends : /\ Shape[f][x].bound /\ Shape[g][y].bound
                      /\ Shape[f][x].place = Shape[g][y].place
Regional(rho) == \A f, g \in live : Meet(f, g) => rho[f] = rho[g]

\* scale_movement: nearest even.
scale_movement(nominal, rho) == RoundDivNearestEven(nominal * rho, One)
Granted_AnyRegion(rho) == scale_movement(Nominal, (CHOOSE r \in {rho[e] : e \in live} : \A e \in live : rho[e] <= r))
Granted(rho) == scale_movement(Nominal, rho[power_attachment_position(live, place)[1]])
GrantFrom(rho) ==
    /\ stage = "grant"
    /\ ratio' = rho
    /\ granted' = IF ~grants_stage0_movement THEN 0
                  ELSE IF rho = <<>> THEN Nominal ELSE Granted(rho)
    /\ walk' = [at |-> place, left |-> granted']
    /\ stage' = "move"
    /\ UNCHANGED <<live, place, controls>>

Powered(e) == ratio = <<>> \/ ratio[e] > 0
Moving == stage = "move" /\ walk.left > 0

Glide ==
    /\ Moving /\ walk.at.on = "edge"
    /\ walk' = AfterTurn(walk.at, walk.left)
    /\ UNCHANGED <<live, place, stage, controls, ratio, granted>>

Choice == select_junction_incident(live, walk.at.junction, walk.at.edge,
                                   controls.left, controls.right)
Ways == {i \in Choice : Powered(i.edge)}
LeaveJunction ==
    /\ Moving /\ walk.at.on = "junction"
    /\ \E i \in Ways : walk' = [walk EXCEPT !.at = Leaving(i)]
    /\ UNCHANGED <<live, place, stage, controls, ratio, granted>>

\* What is left when the loop breaks at a junction is not spent.
Stays == walk.at.on = "junction" /\ Ways = {}
Commit ==
    /\ stage = "move"
    /\ walk.left = 0 \/ Stays
    /\ place' = walk.at
    /\ walk' = [at |-> None, left |-> 0] /\ granted' = 0
    /\ ratio' = <<>> /\ controls' = Stopped /\ stage' = "edit"
    /\ UNCHANGED live

Movement == Glide \/ LeaveJunction \/ Commit
Next ==
    \/ \E point \in Points : PlaceMobile(point)
    \/ \E edges \in SUBSET Edges : Rewire(edges)
    \/ \E s, l, r \in Levels : Sample([stop |-> s, left |-> l, right |-> r])
    \/ GrantFrom(<<>>)
    \/ stage = "grant" /\ \E rho \in [live -> Ratios] : Regional(rho) /\ GrantFrom(rho)
    \/ Movement

\* Phase 7 is a loop of a single thread: nothing else runs until it is done.
Spec == Init /\ [][Next]_vars /\ WF_vars(Movement)

-----------------------------------------------------------------------------

\* Where a mobile stands, and where its movement has brought it, is found on
\* the track, and its power attachment is the same point of the world: Phases
\* 1 and 4 of the next tick cannot fail on it.
PositionsResolve ==
    \A p \in {place, walk.at} \ {None} :
        /\ Resolves(live, p)
        /\ LET at == power_attachment_position(live, p)
           IN  PointAt(at[1], at[2]) = world_position(p)

\* A mobile never jumps: a turn leads along one edge by what it spends, or
\* through a junction for nothing.
NeverJumps ==
    [][stage = "move" /\ stage' = "move" =>
          LET from == power_attachment_position(live, walk.at)
              to == power_attachment_position(live, walk'.at)
          IN  \/ world_position(walk.at) = world_position(walk'.at) /\ walk'.left = walk.left
              \/ /\ from[1] = to[1]
                 /\ IF FreeEdge(from[1]) THEN Size(from[2] - to[2]) <= walk.left - walk'.left
                    ELSE Size(from[2] - to[2]) = walk.left - walk'.left]_vars

\* The reference: a budget spent one unit at a time, on the track, by the
\* controls and with the power of a tick.
Tick == [live |-> live, controls |-> controls, ratio |-> ratio]
WaysOut(tick, p) ==
    {i \in select_junction_incident(tick.live, p.junction, p.edge,
                                    tick.controls.left, tick.controls.right) :
        tick.ratio = <<>> \/ tick.ratio[i.edge] > 0}
Stuck(tick, p) == p.on = "junction" /\ WaysOut(tick, p) = {}
\* Off a junction, and round at an end.
Ready(tick, p) ==
    IF p.on = "junction" THEN Leaving(CHOOSE i \in WaysOut(tick, p) : TRUE)
    ELSE IF ToEnd(p) = 0 THEN [p EXCEPT !.heading = Opposite(@)] ELSE p
Onward(p) ==
    LET to == [p EXCEPT !.offset = IF p.heading = "Forward" THEN @ + 1 ELSE @ - 1]
    IN  IF ToEnd(to) = 0 /\ Bound(to) THEN AtHeadedJunction(to) ELSE to
UnitStep(tick, w) ==
    IF Stuck(tick, w.at) THEN w
    ELSE [at |-> Onward(Ready(tick, w.at)), spent |-> w.spent + 1]
UnitWalk(tick, start, budget) ==
    LET w[n \in 0..budget] ==
            IF n = 0 THEN [at |-> start, spent |-> 0] ELSE UnitStep(tick, w[n - 1])
    IN  w[budget]

\* A budget takes a mobile exactly where single units would, over junctions,
\* dead ends and any number of reflections, and what it cannot spend is what
\* they could not; so it makes no difference how grants are split into ticks.
SpentUnitByUnit ==
    stage = "move" /\ (walk.left = 0 \/ Stays) =>
        LET w == UnitWalk(Tick, place, granted)
        IN  walk = [at |-> w.at, left |-> granted - w.spent]

\* A mobile that has power for its movement never meets an edge without: the
\* refusal in stage_movement cannot come up.
DarkNeverBlocks ==
    Moving /\ walk.at.on = "junction" => Ways = Choice

\* A mobile keeps to the track: it is always found there, on a powered edge
\* where it moves, and its budget takes it where single units would.
MobilesKeepTheTrack == PositionsResolve /\ DarkNeverBlocks /\ SpentUnitByUnit

\* Turns by the compass, in hundredths of a degree.
Compass ==
    (<<1, 0>> :> 0) @@ (<<2, 1>> :> 2657) @@ (<<1, 1>> :> 4500) @@ (<<1, 2>> :> 6343)
Rotated(v, k) ==
    CASE k = 0 -> v [] k = 1 -> <<-v[2], v[1]>> [] k = 2 -> <<-v[1], -v[2]>> [] k = 3 -> <<v[2], -v[1]>>
Degrees(v) ==
    LET c == CHOOSE c \in (DOMAIN Compass) \X (0..3) \X (1..3) :
                 v = <<c[3] * Rotated(c[1], c[2])[1], c[3] * Rotated(c[1], c[2])[2]>>
    IN  Compass[c[1]] + 9000 * c[2]

\* At a junction a mobile goes as straight as it can, or takes the sharpest
\* turn to the side it is told, and stays when there is none.
TurnsByCompass ==
    Moving /\ walk.at.on = "junction" =>
        LET back == CHOOSE i \in Incidents(live, walk.at.junction) : i.edge = walk.at.edge
            others == Incidents(live, walk.at.junction) \ {back}
            turn == [i \in others |->
                        (Degrees(Outgoing(i)) - Degrees(Outgoing(back)) - 18000) % 36000]
            Bend(i) == IF turn[i] <= 18000 THEN turn[i] ELSE 36000 - turn[i]
            Wanted == IF controls.left = "High" THEN 1..17999 ELSE 18001..35999
        IN  IF controls.left = controls.right
            THEN IF controls.left = "High" \/ others = {} THEN Choice = {back}
                 ELSE \E i \in others : Choice = {i} /\ \A x \in others : Bend(i) <= Bend(x)
            ELSE /\ Choice = {} <=> \A x \in others : turn[x] \notin Wanted
                 /\ \A i \in Choice : /\ i \in others /\ turn[i] \in Wanted
                                      /\ \A x \in others : turn[x] \in Wanted => Bend(x) <= Bend(i)

\* The loop over the turns of a movement ends: no cycle costs nothing.
MovementEnds == stage = "move" ~> stage = "edit"
=============================================================================
