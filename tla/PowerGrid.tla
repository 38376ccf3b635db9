----------------------------- MODULE PowerGrid -----------------------------
(***************************************************************************)
(* Power in one tick: Phase 4 collects what every part of the network asks *)
(* for, Phase 5 compiles the regions, seeks one common ratio per region    *)
(* and grants, and what is lost on the way becomes heat for Phase 8        *)
(* (crates/aon-sim/src/power.rs, power_runtime.rs, capacity.rs,            *)
(* capacity_support.rs and Phases 4 and 5 of simulation.rs).               *)
(*                                                                         *)
(* Nothing here survives the tick.  The network, the intents of gates,     *)
(* mobiles and live wires come from other components and are arbitrary.    *)
(***************************************************************************)
EXTENDS PowerRoutes

CONSTANTS
    FixedOne,       \* raw value of the ratio one and of a unit of length
    Sources,        \* site of a source -> generation per tick
    Ports,          \* gate -> site of its power port
    Stations,       \* mobile -> <<wire, offset>>
    GateDemands,    \* [idle, drive, switch] nominal energies
    PerLength,      \* [leakage, sensing, movement]: energy per unit of length, <<n, d>>
    MoveDistance,   \* base distance of a movement
    OtherDemands,   \* [construction, live]: sets of nominal energies
    LossK,          \* transmission loss coefficient <<n, d>>
    Supported,      \* capacity the main core supports
    Overcap,        \* [linear, quadratic, power: <<n, d>>, floor: capacity]
    HeatFraction,   \* part of a granted support that becomes heat, <<n, d>>
    Comparisons     \* turns of the search for the ratio

Pow2(n) == FoldLeft(LAMBDA acc, i : 2 * acc, 1, Steps(n))

GridAssumption ==
    /\ FixedOne \in Nat \ {0} /\ MoveDistance \in Nat \ {0} /\ Supported \in Nat
    /\ \A s \in DOMAIN Sources : s \in Nat /\ Sources[s] \in Nat \ {0}
    /\ LossK[1] \in Nat /\ LossK[2] \in Nat \ {0}
    /\ Pow2(Comparisons) >= FixedOne + 1 /\ Pow2(Comparisons - 1) < FixedOne + 1

VARIABLES
    stage,      \* "world", "solve", "report"
    placed,     \* wires of the world
    intents,    \* what the phases before decided
    nominal,    \* demand -> [nominal, at: node]; a demand is <<owner, kind>>
    pieces,     \* adjacency of the compiled graph
    route,      \* demand -> its route to a source, where there is one
    open,       \* regions not solved yet; a region is its set of nodes
    lower, upper, turn,     \* the search for the ratio of the current region
    ratio,      \* solved region -> ratio
    grants,     \* granted demand -> [granted, loss, ratio]
    heat        \* rows [wire, kind, demand, energy]

vars == <<stage, placed, intents, nominal, pieces, route, open, lower, upper, turn,
          ratio, grants, heat>>

-----------------------------------------------------------------------------
(* Capacity accounting.                                                    *)

Used(ws) == FoldSet(LAMBDA w, acc : acc + BodyLength(w), 0, ws)
Excess(ws) == Larger(0, Used(ws) - Supported)

\* One rounding at the end: power * (linear * x + quadratic * x^2 / base).
SupportDemand(ws) ==
    LET x == Excess(ws)
        base == Larger(Supported, Overcap.floor)
        lin == Overcap.linear
        quad == Overcap.quadratic
        pow == Overcap.power
    IN  CeilQuotient(pow[1] * (lin[1] * x * quad[2] * base + quad[1] * x * x * lin[2]),
                     pow[2] * lin[2] * quad[2] * base * FixedOne)

\* Shares in proportion to length, rounded down; what remains goes out one by
\* one in the order of the wires.
FloorShare(total, part, whole) == (total * part) \div whole
FloorsOf(total, parts) ==
    LET whole == FoldSet(LAMBDA w, acc : acc + parts[w], 0, DOMAIN parts)
    IN  [w \in DOMAIN parts |-> FloorShare(total, parts[w], whole)]
Apportion_DropsRest(total, parts) == FloorsOf(total, parts)
Apportion(total, parts) ==
    LET floors == FloorsOf(total, parts)
        rest == total - FoldSet(LAMBDA w, acc : acc + floors[w], 0, DOMAIN parts)
    IN  [w \in DOMAIN parts |->
            IF Cardinality({v \in DOMAIN parts : v < w}) < rest
            THEN floors[w] + 1 ELSE floors[w]]

SupportShares(ws) == Apportion(SupportDemand(ws), [w \in ws |-> BodyLength(w)])

-----------------------------------------------------------------------------
(* Phase 4: every load of the tick, before any is granted.                 *)

PerWire(rate, w) == CeilQuotient(rate[1] * BodyLength(w), rate[2] * FixedOne)
Demands(rows) ==
    [id \in {r.id : r \in rows} |->
        LET row == CHOOSE r \in rows : r.id = id IN [nominal |-> row.nominal, at |-> row.at]]
Row(owner, kind, energy, at) == [id |-> <<owner, kind>>, nominal |-> energy, at |-> at]

GateRows(gate) ==
    LET at == Site(Ports[gate])
    IN  {Row(gate, "GateIdle", GateDemands.idle, at)}
        \cup (IF gate \in intents.driving
              THEN {Row(gate, "GateDrive", GateDemands.drive, at)} ELSE {})
        \cup (IF gate \in intents.switching
              THEN {Row(gate, "GateSwitch", GateDemands.switch, at)} ELSE {})

WireRows(w, support) ==
    LET at == NodeAt(w, Midpoint(w))
    IN  {Row(w, "WireLeakage", PerWire(PerLength.leakage, w), at),
         Row(w, "WireSensing", PerWire(PerLength.sensing, w), at)}
        \cup (IF support > 0
              THEN {Row(w, "OvercapacitySupport", support, at)} ELSE {})
        \cup (IF w \in DOMAIN intents.live
              THEN {Row(w, "LiveWire", intents.live[w], at)} ELSE {})

MobileRows(mobile) ==
    LET at == NodeAt(Stations[mobile][1], Stations[mobile][2])
        rate == PerLength.movement
    IN  (IF mobile \in intents.moving
         THEN {Row(mobile, "Movement",
                   CeilQuotient(rate[1] * MoveDistance, rate[2] * FixedOne), at)} ELSE {})
        \cup (IF mobile \in DOMAIN intents.building
              THEN {Row(mobile, "Construction", intents.building[mobile], at)} ELSE {})

Riding == {m \in DOMAIN Stations : Stations[m][1] \in placed}
AllRows == LET shares == SupportShares(placed)
           IN  UNION {GateRows(g) : g \in DOMAIN Ports}
               \cup UNION {WireRows(w, shares[w]) : w \in placed}
               \cup UNION {MobileRows(m) : m \in Riding}

\* Offsets the graph is split at: those of loads in the middle of a wire.
LoadOffsets(ids) ==
    [w \in Wires |->
        {Stations[m][2] : m \in {x \in Riding : Stations[x][1] = w /\
                                     \E k \in {"Movement", "Construction"} : <<x, k>> \in ids}}]

Anchors == {Site(s) : s \in DOMAIN Sources} \cup {nominal[id].at : id \in DOMAIN nominal}
Regions == {Component(n, pieces, Anchors) : n \in Nodes(pieces, Anchors)}

-----------------------------------------------------------------------------
(* The solver.                                                             *)

LoadsOf_AtEnds(region) == {id \in DOMAIN nominal : nominal[id].at \in region /\ nominal[id].at[1] = "site"}
LoadsOf(region) == {id \in DOMAIN nominal : nominal[id].at \in region}
SourcesOf(region) == {s \in DOMAIN Sources : Site(s) \in region}
Generation(region) == FoldSet(LAMBDA s, acc : acc + Sources[s], 0, SourcesOf(region))

\* The least route to a source of the region, as compile_load_route picks it
\* (PowerRouteSearch checks that its search finds it).
Fed(node) == \E s \in DOMAIN Sources : Site(s) \in Component(node, pieces, Anchors)
LeastRoute(node) ==
    LeastKey({r.key : r \in {x \in AllRoutes(node, pieces) :
                                x.node \in {Site(s) : s \in DOMAIN Sources}}})
Routes ==
    LET byNode == [n \in {x \in {nominal[id].at : id \in DOMAIN nominal} : Fed(x)} |->
                      LeastRoute(n)]
    IN  [id \in {i \in DOMAIN nominal : nominal[i].at \in DOMAIN byNode} |->
            byNode[nominal[id].at]]

ScaleEnergy(energy, rho) == RoundDivNearestEven(energy * rho, FixedOne)
TransmissionLoss(distance, delivered) ==
    CeilQuotient(LossK[1] * distance * delivered * delivered, LossK[2] * FixedOne)

Grant(id, rho, powered) ==
    LET granted == ScaleEnergy(nominal[id].nominal, rho)
    IN  [granted |-> granted, ratio |-> rho,
         loss |-> IF powered THEN TransmissionLoss(route[id].length, granted) ELSE 0]

Cost_GrantsOnly(region, rho) ==
    FoldSet(LAMBDA id, acc : acc + Grant(id, rho, TRUE).granted, 0, LoadsOf(region))
Cost(region, rho) ==
    FoldSet(LAMBDA id, acc : LET g == Grant(id, rho, TRUE) IN acc + g.granted + g.loss,
            0, LoadsOf(region))

Affordable_Strictly(region, rho) == Cost(region, rho) < Generation(region)
Affordable(region, rho) == Cost(region, rho) <= Generation(region)

\* Heat a loss leaves on each wire of its route.
LossRows(id, loss) ==
    LET spans == route[id].spans
        parts == [w \in {spans[i].wire : i \in 1..Len(spans)} |->
                     LET i == CHOOSE j \in 1..Len(spans) : spans[j].wire = w
                     IN  spans[i].high - spans[i].low]
    IN  IF loss = 0 THEN {}
        ELSE {[wire |-> w, kind |-> "TransmissionLoss", demand |-> id,
               energy |-> Apportion(loss, parts)[w]] : w \in DOMAIN parts}

OwnRows(id, granted) ==
    {[wire |-> id[1], kind |-> k, demand |-> id,
      energy |-> IF k = "WireLeakage" THEN granted
                 ELSE RoundDivNearestEven(HeatFraction[1] * granted, HeatFraction[2])] :
        k \in {id[2]} \cap {"WireLeakage", "OvercapacitySupport"}}

Warmed_KeepsEmpty(rows) == rows
Warmed(rows) == {r \in rows : r.energy > 0}

-----------------------------------------------------------------------------

NoIntents == [driving |-> {}, switching |-> {}, moving |-> {},
              live |-> <<>>, building |-> <<>>]

Init ==
    /\ stage = "world" /\ placed \in SUBSET Wires /\ intents = NoIntents
    /\ nominal = <<>> /\ pieces = {} /\ route = <<>> /\ open = {}
    /\ lower = 0 /\ upper = 0 /\ turn = 0
    /\ ratio = <<>> /\ grants = <<>> /\ heat = {}

\* Phases 0 to 3 leave a network and intents.
Decide(ws, drive, switch, move, live, build) ==
    /\ stage = "world"
    /\ placed' = ws
    /\ intents' = [driving |-> drive, switching |-> switch, moving |-> move,
                   live |-> live, building |-> build]
    /\ stage' = "collect"
    /\ UNCHANGED <<nominal, pieces, route, open, lower, upper, turn, ratio, grants, heat>>

Collect ==
    /\ stage = "collect"
    /\ nominal' = Demands(AllRows)
    /\ pieces' = Pieces(placed, LoadOffsets(DOMAIN nominal'))
    /\ stage' = "compile"
    /\ UNCHANGED <<placed, intents, route, open, lower, upper, turn, ratio, grants, heat>>

StartSolve(rest) ==
    /\ open' = rest /\ stage' = IF rest = {} THEN "report" ELSE "solve"
    /\ lower' = 0 /\ upper' = FixedOne /\ turn' = 0

Compile ==
    /\ stage = "compile" /\ StartSolve(Regions) /\ route' = Routes
    /\ UNCHANGED <<placed, intents, nominal, pieces, ratio, grants, heat>>

\* The regions are solved in turn; which comes first makes no difference to
\* the others, and the model takes any order.
Current == CHOOSE region \in open : TRUE
Powered(region) == Generation(region) > 0

UpperMid_RoundsDown(low, high) == low + (high - low) \div 2
UpperMid(low, high) == low + CeilQuotient(high - low, 2)
Bisect ==
    /\ stage = "solve" /\ Powered(Current) /\ turn < Comparisons
    /\ LET middle == UpperMid(lower, upper)
       IN  IF Affordable(Current, middle)
           THEN lower' = middle /\ UNCHANGED upper
           ELSE upper' = middle - 1 /\ UNCHANGED lower
    /\ turn' = turn + 1
    /\ UNCHANGED <<stage, placed, intents, nominal, pieces, route, open, ratio, grants, heat>>

GrantRegion(region, rho) ==
    LET powered == SourcesOf(region) # {}
        given == [id \in LoadsOf(region) |-> Grant(id, rho, powered)]
        warmed == UNION {(IF powered THEN LossRows(id, given[id].loss) ELSE {})
                         \cup OwnRows(id, given[id].granted) : id \in DOMAIN given}
    IN  /\ ratio' = ratio @@ (region :> rho)
        /\ grants' = grants @@ given
        /\ heat' = heat \cup Warmed(warmed)
        /\ StartSolve(open \ {region})
        /\ UNCHANGED <<placed, intents, nominal, pieces, route>>

GrantPowered ==
    /\ stage = "solve" /\ Powered(Current) /\ turn = Comparisons /\ lower = upper
    /\ GrantRegion(Current, lower)
GrantNothing ==
    /\ stage = "solve" /\ ~Powered(Current)
    /\ GrantRegion(Current, 0)

\* The report goes out and the derived state is dropped.
EndTick ==
    /\ stage = "report" /\ stage' = "world"
    /\ intents' = NoIntents
    /\ nominal' = <<>> /\ pieces' = {} /\ route' = <<>> /\ open' = {}
    /\ lower' = 0 /\ upper' = 0 /\ turn' = 0
    /\ ratio' = <<>> /\ grants' = <<>> /\ heat' = {}
    /\ UNCHANGED placed

Next ==
    \/ \E ws \in SUBSET Wires, drive, switch \in SUBSET DOMAIN Ports :
          \E move \in SUBSET {m \in DOMAIN Stations : Stations[m][1] \in ws},
             lit \in SUBSET ws :
             \E live \in [lit -> OtherDemands.live],
                built \in SUBSET {m \in DOMAIN Stations : Stations[m][1] \in ws} :
                \E build \in [built -> OtherDemands.construction] :
                   Decide(ws, drive, switch, move, live, build)
    \/ Collect \/ Compile \/ Bisect \/ GrantPowered \/ GrantNothing \/ EndTick

Spec == Init /\ [][Next]_vars

-----------------------------------------------------------------------------

DemandKinds == {"GateIdle", "GateSwitch", "GateDrive", "WireLeakage", "WireSensing",
                "LiveWire", "OvercapacitySupport", "Movement", "Construction"}
PowerRatio == 0..FixedOne
DemandId == (DOMAIN Ports \cup DOMAIN Stations \cup Wires) \X DemandKinds
PowerGrant == [granted : Nat, ratio : PowerRatio, loss : Nat]
HeatRow == [wire : Wires, kind : DemandKinds \cup {"TransmissionLoss"},
            demand : DemandId, energy : Nat \ {0}]

\* Demands are named by owner and kind, rows of heat are never empty, and the
\* search for a ratio stays inside [0, 1] although it moves both its ends.
TypeOK ==
    /\ DOMAIN nominal \subseteq DemandId
    /\ \A id \in DOMAIN nominal : nominal[id].nominal \in Nat
    /\ \A id \in DOMAIN grants : grants[id] \in PowerGrant
    /\ heat \subseteq HeatRow
    /\ \A region \in DOMAIN ratio : ratio[region] \in PowerRatio
    /\ stage = "solve" => 0 <= lower /\ lower <= upper /\ upper <= FixedOne

SumOver(S, f(_)) == FoldSet(LAMBDA x, acc : acc + f(x), 0, S)

\* No region hands out more than its sources generate, losses included.
RegionsSolvent ==
    \A region \in DOMAIN ratio :
        SumOver(LoadsOf(region), LAMBDA id : grants[id].granted + grants[id].loss)
            <= Generation(region)

\* The common ratio is the greatest that can be afforded, although rounding
\* makes the cost a staircase: the next one up would exceed the generation.
RatioIsGreatest ==
    \A region \in DOMAIN ratio :
        Powered(region) =>
            ratio[region] = FixedOne \/ Cost(region, ratio[region] + 1) > Generation(region)

\* The fixed number of comparisons settles the search, so that the step never
\* fails with SolverInvariantViolation.
SolverConverges ==
    stage = "solve" /\ turn = Comparisons => lower = upper

\* What a demand loses on its way is found as heat on the wires of its route,
\* to the unit, and no other wire warms.
LossBecomesHeat ==
    \A id \in DOMAIN grants :
        LET rows == {r \in heat : r.demand = id /\ r.kind = "TransmissionLoss"}
        IN  /\ SumOver(rows, LAMBDA r : r.energy) = grants[id].loss
            /\ \A r \in rows : r.wire \in placed

\* The support a network beyond its capacity needs is asked for by its wires
\* to the unit, each within one unit of its part of the length.
SupportIsShared ==
    stage \in {"compile", "solve", "report"} =>
        LET share(w) == IF <<w, "OvercapacitySupport">> \in DOMAIN nominal
                        THEN nominal[<<w, "OvercapacitySupport">>].nominal ELSE 0
            total == SupportDemand(placed)
        IN  /\ SumOver(placed, share) = (IF placed = {} THEN 0 ELSE total)
            /\ \A w \in placed :
                  /\ share(w) * Used(placed) <= total * BodyLength(w) + Used(placed)
                  /\ share(w) * Used(placed) >= total * BodyLength(w) - Used(placed)

\* Every load is granted in the tick it is collected in, with the ratio of the
\* region it hangs in.
EveryLoadGranted ==
    stage = "report" =>
        /\ DOMAIN grants = DOMAIN nominal
        /\ \A id \in DOMAIN nominal :
              \E region \in DOMAIN ratio :
                  nominal[id].at \in region /\ grants[id].ratio = ratio[region]
=============================================================================
