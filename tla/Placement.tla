----------------------------- MODULE Placement ------------------------------
(***************************************************************************)
(* What may be built where: the commands of crates/aon-sim/src/            *)
(* structural.rs that place wires, junctions, gates and substrates, bind   *)
(* the ends of wires and remove what was placed, with the checks of        *)
(* geometry they make, and the wires as power_adapter.rs takes them.       *)
(*                                                                         *)
(* An item is a thing that may be placed, with its shape; it is placed at  *)
(* most once at a time.  A command that is refused changes nothing and has *)
(* no step.  Identity, batches, sites and damage are StructuralLifecycle.  *)
(***************************************************************************)
EXTENDS SegmentGeometry, TLC

CONSTANTS
    Item,           \* name -> [kind, domain, ...], see below
    Quantum,        \* wire_geometry_quantum
    WorldPitch, CircuitPitch,
    Half,           \* half of the side of a gate
    Anchor          \* port -> offset from the origin of a gate

Names == DOMAIN Item
Of(kind) == {n \in Names : Item[n].kind = kind}
Wires == Of("wire")         \* points
Junctions == Of("junction") \* at
Gates == Of("gate")         \* origin
Boards == Of("board")       \* origin, area, footprint
Mobiles == Of("mobile")     \* origin, area, footprint
Fixtures == Of("core") \cup Of("source")    \* at; there from the start
World == "world"            \* a domain: World, a board or a mobile
Ports == DOMAIN Anchor
Ends == {"A", "B"}

PlacementAssumption ==
    /\ {Quantum, WorldPitch, CircuitPitch, Half} \subseteq Nat \ {0}
    /\ \A n \in Wires \cup Junctions \cup Gates : Item[n].domain \in {World} \cup Boards \cup Mobiles

VARIABLES
    live,       \* names of what is placed
    bound,      \* wire -> end -> target
    track       \* mobile -> the wire on which it stands

vars == <<live, bound, track>>

Free == <<"free">>
ToJunction(j) == <<"junction", j>>
ToGate(g, port) == <<"gate", g, port>>
ToFixture(f) == <<"fixture", f>>
ToMobile(m) == <<"mobile", m>>
ToSense(w, end) == <<"sense", w, end>>
Targets(there) ==
    {Free} \cup {ToJunction(j) : j \in Junctions \cap there}
    \cup {ToGate(g, p) : g \in Gates \cap there, p \in Ports}
    \cup {ToFixture(f) : f \in Fixtures} \cup {ToMobile(m) : m \in Mobiles \cap there}
    \cup {ToSense(w, e) : w \in Wires \cap there, e \in Ends}

Init ==
    /\ live = Fixtures /\ track = <<>>
    /\ bound = [w \in {} |-> [e \in Ends |-> Free]]

-----------------------------------------------------------------------------
(* The checks.                                                             *)

Plus(p, q) == <<p[1] + q[1], p[2] + q[2]>>
Minus(p, q) == <<p[1] - q[1], p[2] - q[2]>>
point_is_quantized(p, q) == p[1] % q = 0 /\ p[2] % q = 0
aabb_is_quantized(b, q) == point_is_quantized(b.min, q) /\ point_is_quantized(b.max, q)
is_nonempty_box(b) == b.min[1] < b.max[1] /\ b.min[2] < b.max[2]
translated(b, p) == [min |-> Plus(b.min, p), max |-> Plus(b.max, p)]

routing_pitch(domain) == IF domain = World THEN WorldPitch ELSE CircuitPitch
\* The circuit of a board is laid out in the world, that of a mobile on itself.
Local(p, domain) == IF domain \in Boards THEN Minus(p, Item[domain].origin) ELSE p
DomainLives(there, domain) == domain = World \/ domain \in there
WithinArea(p, domain) == domain # World => contains_point(Item[domain].area, Local(p, domain))
validate_routed_point(p, domain) ==
    point_is_quantized(Local(p, domain), routing_pitch(domain)) /\ WithinArea(p, domain)

Segs(w) == {<<Item[w].points[i], Item[w].points[i + 1]>> : i \in 1..Len(Item[w].points) - 1}
EndAt(w, end) == IF end = "A" THEN Item[w].points[1] ELSE Item[w].points[Len(Item[w].points)]
\* Ends of the wire among those of one of its segments.
PhysicalEnds(w, i) ==
    (IF i = 1 THEN {EndAt(w, "A")} ELSE {})
    \cup (IF i + 1 = Len(Item[w].points) THEN {EndAt(w, "B")} ELSE {})
Seg(w, i) == <<Item[w].points[i], Item[w].points[i + 1]>>
Count(w) == Len(Item[w].points) - 1

gate_aabb(origin) == [min |-> Minus(origin, <<Half, Half>>), max |-> Plus(origin, <<Half, Half>>)]
PortAt(g, port) == Plus(Item[g].origin, Anchor[port])
validate_wire_gate_contact(w, g) ==
    {Item[w].domain, Item[g].domain} \cap Mobiles = {} \/ Item[w].domain = Item[g].domain =>
      \A i \in 1..Count(w) :
          LET box == gate_aabb(Item[g].origin)
          IN  /\ ~segment_intersects_aabb_interior(Seg(w, i), box)
              /\ ~segment_overlaps_aabb_boundary(Seg(w, i), box)
              /\ segment_touches_aabb_boundary(Seg(w, i), box) =>
                    /\ Item[w].domain = Item[g].domain
                    /\ \E p \in PhysicalEnds(w, i), port \in Ports : p = PortAt(g, port)

OwnClearance(w) ==
    \A i, j \in 1..Count(w) : i < j =>
        /\ ~segments_have_positive_collinear_overlap(Seg(w, i), Seg(w, j))
        /\ j > i + 1 /\ parallel_segments_are_too_close(Seg(w, i), Seg(w, j), routing_pitch(Item[w].domain))
              => PhysicalEnds(w, i) \cap PhysicalEnds(w, j) # {}
ClearOf_OverlapOnly(w, v) ==
    Item[w].domain = Item[v].domain =>
        \A i \in 1..Count(w), j \in 1..Count(v) :
            ~segments_have_positive_collinear_overlap(Seg(w, i), Seg(v, j))
ClearOf(w, v) ==
    Item[w].domain = Item[v].domain =>
        \A i \in 1..Count(w), j \in 1..Count(v) :
            /\ ~segments_have_positive_collinear_overlap(Seg(w, i), Seg(v, j))
            /\ parallel_segments_are_too_close(Seg(w, i), Seg(v, j), routing_pitch(Item[w].domain))
                  => PhysicalEnds(w, i) \cap PhysicalEnds(v, j) # {}
MissesJunction(w, j) ==
    Item[w].domain = Item[j].domain =>
        \A s \in Segs(w) : ~point_is_strict_segment_interior(Item[j].at, s)

validate_endpoint(there, w, end, target) ==
    LET kind == target[1]
        p == EndAt(w, end)
    IN  /\ target \in Targets(there)
        /\ kind = "junction" => Item[target[2]].domain = Item[w].domain /\ Item[target[2]].at = p
        /\ kind = "gate" => Item[target[2]].domain = Item[w].domain /\ PortAt(target[2], target[3]) = p
        /\ kind = "fixture" => Item[target[2]].at = p /\
                               (Item[target[2]].kind = "core" => Item[w].domain = World)
        /\ kind = "mobile" => Item[w].domain = target[2] /\ contains_point(Item[target[2]].area, p)
        /\ kind = "sense" => Item[target[2]].domain = Item[w].domain /\ EndAt(target[2], target[3]) = p
open_world_wire_binds_same_junction(w, a, b) ==
    Item[w].domain = World /\ a = b /\ a[1] = "junction"

AcceptsWire(there, w) ==
    LET points == Item[w].points
    IN  /\ Len(points) >= 2 /\ DomainLives(there, Item[w].domain)
        /\ \A i \in 1..Len(points) : point_is_quantized(points[i], Quantum)
        /\ \A s \in Segs(w) : s[1] # s[2]
        /\ \A i \in 1..Len(points) :
              IF i \in {1, Len(points)} THEN WithinArea(points[i], Item[w].domain)
              ELSE validate_routed_point(points[i], Item[w].domain)
        /\ OwnClearance(w)
        /\ \A v \in Wires \cap there : ClearOf(w, v)
        /\ \A j \in Junctions \cap there : MissesJunction(w, j)
        /\ \A g \in Gates \cap there : validate_wire_gate_contact(w, g)
AcceptsJunction_AnyWire(there, j) ==
    /\ DomainLives(there, Item[j].domain) /\ point_is_quantized(Item[j].at, Quantum)
    /\ validate_routed_point(Item[j].at, Item[j].domain)
AcceptsJunction(there, j) ==
    /\ DomainLives(there, Item[j].domain) /\ point_is_quantized(Item[j].at, Quantum)
    /\ validate_routed_point(Item[j].at, Item[j].domain)
    /\ \A w \in Wires \cap there : MissesJunction(w, j)
AcceptsGate_SameDomain(there, g) ==
    /\ Item[g].domain # World /\ DomainLives(there, Item[g].domain)
    /\ point_is_quantized(Item[g].origin, Quantum)
    /\ point_is_quantized(Local(Item[g].origin, Item[g].domain), CircuitPitch)
    /\ contains_aabb(Item[Item[g].domain].area, gate_aabb(Local(Item[g].origin, Item[g].domain)))
    /\ \A h \in Gates \cap there :
          Item[h].domain = Item[g].domain => ~interior_overlaps(gate_aabb(Item[g].origin), gate_aabb(Item[h].origin))
    /\ \A w \in Wires \cap there : Item[w].domain = Item[g].domain => validate_wire_gate_contact(w, g)
AcceptsGate(there, g) ==
    /\ Item[g].domain # World /\ DomainLives(there, Item[g].domain)
    /\ point_is_quantized(Item[g].origin, Quantum)
    /\ point_is_quantized(Local(Item[g].origin, Item[g].domain), CircuitPitch)
    /\ contains_aabb(Item[Item[g].domain].area, gate_aabb(Local(Item[g].origin, Item[g].domain)))
    /\ \A h \in Gates \cap there :
          Item[h].domain = Item[g].domain => ~interior_overlaps(gate_aabb(Item[g].origin), gate_aabb(Item[h].origin))
    /\ \A w \in Wires \cap there : validate_wire_gate_contact(w, g)
SubstrateShape(s) ==
    /\ is_nonempty_box(Item[s].area) /\ is_nonempty_box(Item[s].footprint)
    /\ point_is_quantized(Item[s].origin, Quantum)
    /\ aabb_is_quantized(Item[s].area, Quantum) /\ aabb_is_quantized(Item[s].footprint, Quantum)
    /\ aabb_is_quantized(Item[s].area, CircuitPitch)
    /\ contains_aabb(Item[s].footprint, Item[s].area)
AcceptsBoard(there, b) ==
    /\ SubstrateShape(b) /\ point_is_quantized(Item[b].origin, WorldPitch)
    /\ \A c \in Boards \cap there :
          ~interior_overlaps(translated(Item[b].footprint, Item[b].origin),
                             translated(Item[c].footprint, Item[c].origin))
\* A mobile needs track under it.
TrackAt(there, p) ==
    {w \in Wires \cap there : Item[w].domain = World /\ \E s \in Segs(w) : point_lies_on_segment(p, s)}
AcceptsMobile(there, m) == SubstrateShape(m) /\ TrackAt(there, Item[m].origin) # {}

-----------------------------------------------------------------------------
(* The commands.                                                           *)

place_wire(w, a, b) ==
    /\ w \in Wires \ live /\ AcceptsWire(live, w)
    /\ validate_endpoint(live, w, "A", a) /\ validate_endpoint(live, w, "B", b)
    /\ ~open_world_wire_binds_same_junction(w, a, b)
    /\ live' = live \cup {w} /\ bound' = bound @@ (w :> [A |-> a, B |-> b])
    /\ UNCHANGED track
Place(n) ==
    /\ n \notin live
    /\ \/ n \in Junctions /\ AcceptsJunction(live, n)
       \/ n \in Gates /\ AcceptsGate(live, n)
       \/ n \in Boards /\ AcceptsBoard(live, n)
    /\ live' = live \cup {n} /\ UNCHANGED <<bound, track>>
\* Phase 7 may move it from there; here it stays where it is put.
place_mobile_substrate(m, w) ==
    /\ m \in Mobiles \ live /\ AcceptsMobile(live, m)
    /\ w \in TrackAt(live, Item[m].origin)
    /\ live' = live \cup {m} /\ track' = track @@ (m :> w)
    /\ UNCHANGED bound

wire_is_occupied(w) == \E m \in DOMAIN track : track[m] = w
bind_port(w, end, target) ==
    /\ w \in Wires \cap live /\ ~wire_is_occupied(w)
    /\ target # bound[w][end] /\ ~(target[1] = "sense" /\ target[2] = w)
    /\ \A g \in Gates \cap live : validate_wire_gate_contact(w, g)
    /\ validate_endpoint(live, w, end, target)
    /\ LET ends == [bound[w] EXCEPT ![end] = target]
       IN  /\ ~open_world_wire_binds_same_junction(w, ends.A, ends.B)
           /\ bound' = [bound EXCEPT ![w] = ends]
    /\ UNCHANGED <<live, track>>

junction_is_occupied(j) ==
    \E m \in DOMAIN track, end \in Ends :
        bound[track[m]][end] = ToJunction(j) /\ EndAt(track[m], end) = Item[m].origin
substrate_is_in_use_ByGates(s) == \E n \in live : n \in Gates /\ Item[n].domain = s
substrate_is_in_use(s) ==
    \E n \in live : n \in Gates \cup Wires \cup Junctions /\ Item[n].domain = s
Detached_Keeps(n) == [w \in (Wires \cap live) \ {n} |-> bound[w]]
\* Ends that were bound to what is gone are free.
Detached(n) ==
    [w \in (Wires \cap live) \ {n} |->
        [e \in Ends |-> IF Len(bound[w][e]) > 1 /\ bound[w][e][2] = n THEN Free ELSE bound[w][e]]]
remove_entity(n) ==
    /\ n \in live \ Fixtures
    /\ n \in Wires => ~wire_is_occupied(n)
    /\ n \in Junctions => ~junction_is_occupied(n)
    /\ n \in Boards \cup Mobiles => ~substrate_is_in_use(n)
    /\ live' = live \ {n} /\ bound' = Detached(n)
    /\ track' = [m \in DOMAIN track \ {n} |-> track[m]]

Next ==
    \/ \E w \in Wires, a, b \in Targets(live) : place_wire(w, a, b)
    \/ \E n \in Names : Place(n) \/ remove_entity(n)
    \/ \E m \in Mobiles, w \in Wires : place_mobile_substrate(m, w)
    \/ \E w \in Wires, e \in Ends, t \in Targets(live) : bind_port(w, e, t)

Spec == Init /\ [][Next]_vars

-----------------------------------------------------------------------------
(* What the order of building must not change.                             *)

Near(p, s, pitch) ==
    LET d == Delta(s[1], s[2])
        along == dot_delta(d, Delta(s[1], p))
    IN  IF 0 <= along /\ along <= dot_delta(d, d)
        THEN Cross3(s[1], s[2], p) * Cross3(s[1], s[2], p) < pitch * pitch * dot_delta(d, d)
        ELSE \E i \in 1..2 : squared_distance(p, s[i]) < pitch * pitch
Facing(s, t, pitch) ==
    /\ cross_delta(Delta(s[1], s[2]), Delta(t[1], t[2])) = 0
    /\ \E i \in 1..2 : Near(s[i], t, pitch) \/ Near(t[i], s, pitch)

\* Wires of a domain that run side by side keep the pitch, except where they
\* meet end to end; whichever was built first.
WiresKeepPitch ==
    \A w, v \in Wires \cap live :
        w # v /\ Item[w].domain = Item[v].domain =>
            \A i \in 1..Count(w), j \in 1..Count(v) :
                Facing(Seg(w, i), Seg(v, j), routing_pitch(Item[w].domain)) =>
                    \E e, f \in Ends : /\ EndAt(w, e) = EndAt(v, f)
                                       /\ EndAt(w, e) \in {Seg(w, i)[1], Seg(w, i)[2]}
                                       /\ EndAt(v, f) \in {Seg(v, j)[1], Seg(v, j)[2]}

\* A junction never cuts a wire: a wire passes one only at a corner or an end.
JunctionsCutNoWire ==
    \A j \in Junctions \cap live, w \in Wires \cap live :
        Item[j].domain = Item[w].domain =>
            \A s \in Segs(w) : Item[j].at \notin {s[1], s[2]} => ~point_lies_on_segment(Item[j].at, s)

\* No wire runs into a gate it could see, be it of its own domain, of a board
\* below or above the open world; and one that reaches the edge of a gate ends
\* at a port of it.
GatesAreEntered ==
    \A g \in Gates \cap live, w \in Wires \cap live :
        ({Item[g].domain, Item[w].domain} \cap Mobiles = {} \/ Item[g].domain = Item[w].domain) =>
            LET box == gate_aabb(Item[g].origin)
                reaches == \E i \in 1..Count(w) : segment_touches_aabb_boundary(Seg(w, i), box)
                inside == \E i \in 1..Count(w) : segment_intersects_aabb_interior(Seg(w, i), box)
            IN  ~inside /\ (reaches => \E e \in Ends, p \in Ports : EndAt(w, e) = PortAt(g, p))

\* The end of a wire is where its target is, in its own domain; only power
\* sources join domains.  Removal and rebinding leave no end elsewhere.
EndsMeetTargets ==
    \A w \in Wires \cap live, e \in Ends :
        LET t == bound[w][e]
            p == EndAt(w, e)
        IN  /\ t # Free => t[2] \in live
            /\ t[1] = "junction" => Item[t[2]].at = p
            /\ t[1] = "gate" => PortAt(t[2], t[3]) = p
            /\ t[1] = "fixture" => Item[t[2]].at = p
            /\ t[1] = "sense" => EndAt(t[2], t[3]) = p /\ t[2] # w
            /\ t[1] \in {"junction", "gate", "sense"} => Item[t[2]].domain = Item[w].domain

\* Nothing outlives the substrate it was built on, and nothing leaves its area.
CircuitsStayOnSubstrate ==
    \A n \in live \cap (Wires \cup Junctions \cup Gates) :
        Item[n].domain # World =>
            /\ Item[n].domain \in live
            /\ n \in Wires => \A i \in 1..Len(Item[n].points) : WithinArea(Item[n].points[i], Item[n].domain)

Accepts(there, n) ==
    CASE n \in Wires -> AcceptsWire(there, n)
      [] n \in Junctions -> AcceptsJunction(there, n)
      [] n \in Gates -> AcceptsGate(there, n)
      [] n \in Boards -> AcceptsBoard(there, n)
      [] n \in Mobiles -> AcceptsMobile(there, n)
\* Of two things that could each be built now, whether the second still can
\* does not depend on which is first.
PlacementsCommute ==
    \A m, n \in Names \ live :
        Accepts(live, m) /\ Accepts(live, n) /\ m # n =>
            (Accepts(live \cup {m}, n) <=> Accepts(live \cup {n}, m))

-----------------------------------------------------------------------------
(* The power graph takes a wire.                                           *)

\* adapt_wire needs an order of the ends: by target, then by position.
adapt_wire(w) ==
    LET corners == canonical_polyline_points(Item[w].points)
    IN  /\ EndAt(w, "A") # EndAt(w, "B")
        /\ Len(corners) >= 2
        /\ corners[1] = EndAt(w, "A") /\ corners[Len(corners)] = EndAt(w, "B")

\* Every wire that is accepted can be taken into the power graph of Phase 5.
EveryWireAdapts == \A w \in Wires \cap live : adapt_wire(w)

-----------------------------------------------------------------------------
(***************************************************************************)
(* A module is a drawing of boards, gates, junctions and wires that can be *)
(* kept, shared and built elsewhere.  crates/aon-sim/src/module.rs checks  *)
(* one as a whole, with rules of its own; structural.rs checks the same    *)
(* pieces one at a time as they are placed.  Here a drawing is a set of the *)
(* names of items with the ends of its wires.                              *)
(***************************************************************************)

\* The domains that occur in a drawing.
Boards_(drawn) == Boards \cap drawn
LiesInside(drawn, domain) == domain = World \/ domain \in Boards_(drawn)

\* CanonicalModule::validate_references
validate_references(drawn, ends) ==
    /\ \A g \in Gates \cap drawn : Item[g].domain \in Boards_(drawn)
    /\ \A n \in (Junctions \cup Wires) \cap drawn : LiesInside(drawn, Item[n].domain)
    /\ \A w \in Wires \cap drawn, e \in Ends :
          \/ ends[w][e] = Free
          \/ \E j \in Junctions \cap drawn : ends[w][e] = ToJunction(j)
          \/ \E g \in Gates \cap drawn, p \in Ports : ends[w][e] = ToGate(g, p)

boards_fit(drawn) ==
    /\ \A b \in Boards_(drawn) :
          LET i == Item[b] IN
          /\ is_nonempty_box(i.footprint) /\ is_nonempty_box(i.area)
          /\ point_is_quantized(i.origin, Quantum) /\ point_is_quantized(i.origin, WorldPitch)
          /\ \A q \in {Quantum, CircuitPitch} : aabb_is_quantized(i.area, q)
          /\ aabb_is_quantized(i.footprint, Quantum)
          /\ contains_aabb(i.footprint, i.area)
    /\ \A b, c \in Boards_(drawn) :
          b # c => ~interior_overlaps(translated(Item[b].footprint, Item[b].origin),
                                      translated(Item[c].footprint, Item[c].origin))

gates_fit(drawn) ==
    /\ \A g \in Gates \cap drawn :
          LET local_origin == Minus(Item[g].origin, Item[Item[g].domain].origin) IN
          /\ point_is_quantized(Item[g].origin, Quantum)
          /\ point_is_quantized(local_origin, CircuitPitch)
          /\ contains_aabb(Item[Item[g].domain].area, gate_aabb(local_origin))
    /\ \A g, h \in Gates \cap drawn :
          g # h /\ Item[g].domain = Item[h].domain =>
              ~interior_overlaps(gate_aabb(Item[g].origin), gate_aabb(Item[h].origin))

\* An end of a wire need only lie on the board, a point between must be on the grid.
validate_wire_domain_endpoint(w, point) ==
    Item[w].domain = World
    \/ contains_point(Item[Item[w].domain].area, Minus(point, Item[Item[w].domain].origin))
ModuleRoutedPoint(domain, point) ==
    /\ point_is_quantized(point, Quantum)
    /\ IF domain = World THEN point_is_quantized(point, WorldPitch)
       ELSE LET local == Minus(point, Item[domain].origin) IN
            point_is_quantized(local, CircuitPitch) /\ contains_point(Item[domain].area, local)

wires_fit(drawn) ==
    \A w \in Wires \cap drawn :
        LET points == Item[w].points IN
        /\ Len(points) >= 2
        /\ \A i \in 1 .. Count(w) : points[i] # points[i + 1]
        /\ \A i \in DOMAIN points : point_is_quantized(points[i], Quantum)
        /\ \A i \in 2 .. Count(w) : ModuleRoutedPoint(Item[w].domain, points[i])
        /\ \A i \in {1, Len(points)} : validate_wire_domain_endpoint(w, points[i])

\* Two segments may be this close: not one over the other, and side by side
\* only where their wires meet end to end.
segments_share_physical_endpoint(w, i, v, j) == PhysicalEnds(w, i) \cap PhysicalEnds(v, j) # {}
Spaced(w, i, v, j) ==
    parallel_segments_are_too_close(Seg(w, i), Seg(v, j), routing_pitch(Item[w].domain)) =>
        segments_share_physical_endpoint(w, i, v, j)
Disjoint(w, i, v, j) == ~segments_have_positive_collinear_overlap(Seg(w, i), Seg(v, j))

gate_boundary_contact_is_profile_anchor(w, i, g) ==
    /\ Item[w].domain = Item[g].domain
    /\ \E p \in Ports : \/ i = 1 /\ EndAt(w, "A") = PortAt(g, p)
                        \/ i = Count(w) /\ EndAt(w, "B") = PortAt(g, p)
ModuleGateContact(w, g) ==
    LET box == gate_aabb(Item[g].origin) IN
    \A i \in 1 .. Count(w) :
        /\ ~segment_intersects_aabb_interior(Seg(w, i), box)
        /\ ~segment_overlaps_aabb_boundary(Seg(w, i), box)
        /\ segment_touches_aabb_boundary(Seg(w, i), box) =>
              gate_boundary_contact_is_profile_anchor(w, i, g)

validate_structural_geometry_laws_OneDomain(drawn) ==
    \A w \in Wires \cap drawn :
        /\ \A i, j \in 1 .. Count(w) :
              i < j => Disjoint(w, i, w, j) /\ (j > i + 1 => Spaced(w, i, w, j))
        /\ \A v \in (Wires \cap drawn) \ {w} : Item[v].domain = Item[w].domain =>
              \A i \in 1 .. Count(w), j \in 1 .. Count(v) : Disjoint(w, i, v, j) /\ Spaced(w, i, v, j)
        /\ \A j \in Junctions \cap drawn : Item[j].domain = Item[w].domain =>
              \A s \in Segs(w) : ~point_is_strict_segment_interior(Item[j].at, s)
        /\ \A g \in Gates \cap drawn : Item[g].domain = Item[w].domain => ModuleGateContact(w, g)
validate_structural_geometry_laws(drawn) ==
    \A w \in Wires \cap drawn :
        /\ \A i, j \in 1 .. Count(w) :
              i < j => Disjoint(w, i, w, j) /\ (j > i + 1 => Spaced(w, i, w, j))
        /\ \A v \in (Wires \cap drawn) \ {w} : Item[v].domain = Item[w].domain =>
              \A i \in 1 .. Count(w), j \in 1 .. Count(v) : Disjoint(w, i, v, j) /\ Spaced(w, i, v, j)
        /\ \A j \in Junctions \cap drawn : Item[j].domain = Item[w].domain =>
              \A s \in Segs(w) : ~point_is_strict_segment_interior(Item[j].at, s)
        /\ \A g \in Gates \cap drawn : ModuleGateContact(w, g)

\* CanonicalModule::endpoint_target and the check of an end against it.
endpoint_target(target) ==
    IF target[1] = "junction" THEN <<Item[target[2]].domain, Item[target[2]].at>>
    ELSE <<Item[target[2]].domain, PortAt(target[2], target[3])>>
validate_wire_endpoint(w, end, target) ==
    target # Free => endpoint_target(target) = <<Item[w].domain, EndAt(w, end)>>

validate_geometry(drawn, ends) ==
    /\ boards_fit(drawn) /\ gates_fit(drawn)
    /\ \A j \in Junctions \cap drawn : ModuleRoutedPoint(Item[j].domain, Item[j].at)
    /\ wires_fit(drawn)
    /\ validate_structural_geometry_laws(drawn)
    /\ \A w \in Wires \cap drawn :
          /\ \A e \in Ends : validate_wire_endpoint(w, e, ends[w][e])
          /\ ~ /\ Item[w].domain = World /\ ends[w].A[1] = "junction"
               /\ ends[w].A = ends[w].B

validate_module_against(drawn, ends) ==
    validate_references(drawn, ends) /\ validate_geometry(drawn, ends)

-----------------------------------------------------------------------------
\* Ends that a drawing can name: nothing of the world it will be built in.
Drawable(drawn) == {t \in Targets(drawn) : t[1] \in {"free", "junction", "gate"}}
\* The world now holds a drawing and nothing else.
HoldsDrawing ==
    /\ live \cap Mobiles = {}
    /\ \A w \in Wires \cap live, e \in Ends : bound[w][e] \in Drawable(live)

\* What was built piece by piece is a module that is accepted, and a piece
\* can be added to it exactly if the larger drawing is accepted.
ModulesAreWhatBuilds ==
    HoldsDrawing =>
        LET drawn == live \ Fixtures
            larger(n) == drawn \cup {n}
        IN  /\ validate_module_against(drawn, bound)
            /\ \A n \in (Junctions \cup Gates \cup Boards) \ live :
                  validate_module_against(larger(n), bound) <=> Accepts(live, n)
            /\ \A w \in Wires \ live, a, b \in Drawable(live) :
                  validate_module_against(larger(w), bound @@ (w :> [A |-> a, B |-> b])) <=>
                      /\ AcceptsWire(live, w)
                      /\ validate_endpoint(live, w, "A", a) /\ validate_endpoint(live, w, "B", b)
                      /\ ~open_world_wire_binds_same_junction(w, a, b)
=============================================================================
