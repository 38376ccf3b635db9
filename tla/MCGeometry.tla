------------------------------ MODULE MCGeometry ------------------------------
(***************************************************************************)
(* What is decided by exact geometry, each part for itself; a behaviour    *)
(* stays in its own.                                                       *)
(*   segments  every pair of segments, every segment and box of a small    *)
(*             grid                                                        *)
(*   contacts  every movement and every straight wire around zero: swept   *)
(*             circles, chunks, footprints                                 *)
(*   limbs     WideIntegers: the arithmetic below them                     *)
(*   open      Placement in the open world, with a mobile and pieces that  *)
(*             exclude each other                                          *)
(*   board     Placement of gates, wires and boards that overlap           *)
(* What is built in the last two is judged as a drawing, too.              *)
(***************************************************************************)
EXTENDS SegmentGeometry, TLC

VARIABLES
    part,
    first,      \* a segment; or where the center of a hostile moves in a tick
    second,     \* another, or the diagonal of a box; or the two ends of a wire
    left, right, direct, output, row, column, carry,    \* limbs
    live, bound, track  \* open and board

Size == 3               \* coordinates of segments are 0..Size
Pitches == {1, 2, 3}    \* clearances asked for
Reach == 1              \* coordinates of movements and wires are -Reach..Reach
Radii == {0, 1, 2}      \* radii of hostiles, of wire bodies and of sensing
ChunkSizes == {1, 2, 3} \* sides of a chunk

Grid == (0..Size) \X (0..Size)
Segments == {s \in Grid \X Grid : s[1] # s[2]}
InitSegments == first \in Segments /\ second = first
Meet(s) == second = first /\ second' = s /\ UNCHANGED first
NextSegment == \E s \in Segments : Meet(s)

Around == (-Reach..Reach) \X (-Reach..Reach)
InitContacts == \E p, q \in Around : first = <<p, p>> /\ q # p /\ second = <<p, q>>
Arrive(p, q) == first' = <<p, q>> /\ UNCHANGED second
Lay(p, q) == p # q /\ second' = <<p, q>> /\ UNCHANGED first
NextContact == \E p, q \in Around : Arrive(p, q) \/ Lay(p, q)

-----------------------------------------------------------------------------
\* segments and boxes

Shared == {p \in {first[1], first[2], second[1], second[2]} :
              point_lies_on_segment(p, first) /\ point_lies_on_segment(p, second)}

\* Overlap is a common piece: it has two ends, and they are among the four.
OverlapIsCommonPiece ==
    segments_have_positive_collinear_overlap(first, second) <=> Cardinality(Shared) >= 2

\* A point is nearer than pitch to a first: by the foot of the perpendicular
\* where there is one.
Near(p, s, pitch) ==
    LET d == Delta(s[1], s[2])
        along == dot_delta(d, Delta(s[1], p))
    IN  IF 0 <= along /\ along <= dot_delta(d, d)
        THEN Cross3(s[1], s[2], p) * Cross3(s[1], s[2], p) < pitch * pitch * dot_delta(d, d)
        ELSE \E i \in 1..2 : squared_distance(p, s[i]) < pitch * pitch

\* Two parallel segments are too close exactly if an end of one is: however
\* they are drawn and whichever comes first, so clearance cannot depend on
\* the order in which wires are placed.
ClearanceIsDistance ==
    \A pitch \in Pitches :
        parallel_segments_are_too_close(first, second, pitch) <=>
            /\ cross_delta(Delta(first[1], first[2]), Delta(second[1], second[2])) = 0
            /\ \E i \in 1..2 : Near(first[i], second, pitch) \/ Near(second[i], first, pitch)

Box == [min |-> <<Lower(second[1][1], second[2][1]), Lower(second[1][2], second[2][2])>>,
        max |-> <<Higher(second[1][1], second[2][1]), Higher(second[1][2], second[2][2])>>]
Nonempty == Box.min[1] < Box.max[1] /\ Box.min[2] < Box.max[2]

\* Points of the first, fine enough to hold every crossing of a side of the
\* box and a point between any two of them, in units of 1 / Fineness.
Span(axis) == LET n == first[2][axis] - first[1][axis]
              IN  IF n = 0 THEN 1 ELSE IF n < 0 THEN -n ELSE n
Fineness == 2 * Span(1) * Span(2)
Along(k) == [axis \in 1..2 |-> first[1][axis] * Fineness
                               + k * (first[2][axis] - first[1][axis])]
Within(p) == \A axis \in 1..2 : Box.min[axis] * Fineness <= p[axis] /\ p[axis] <= Box.max[axis] * Fineness
Inside(p) == \A axis \in 1..2 : Box.min[axis] * Fineness < p[axis] /\ p[axis] < Box.max[axis] * Fineness

\* The clip of a first by a box is empty exactly if no point of the first
\* is inside, and it touches the boundary exactly if a point of it is there.
BoxMeetsPointwise ==
    Nonempty =>
        /\ segment_intersects_aabb_interior(first, Box) <=> \E k \in 0..Fineness : Inside(Along(k))
        /\ segment_touches_aabb_boundary(first, Box) <=>
               \E k \in 0..Fineness : Within(Along(k)) /\ ~Inside(Along(k))

Path == first \o second
Halves(p, q) == <<p[1] + q[1], p[2] + q[2]>>
Doubled(p) == <<2 * p[1], 2 * p[2]>>
Bisected == <<Doubled(Path[1]), Halves(Path[1], Path[2]), Doubled(Path[2]),
              Halves(Path[2], Path[3]), Doubled(Path[3]), Doubled(Path[4])>>
Lengths(points) ==
    FoldLeft(LAMBDA sum, i : sum + segment_length(points[i], points[i + 1]),
             0, [i \in 1..Len(points) - 1 |-> i])

\* The length of a wire is that of its corners: the power graph, which sums
\* its canonical segments, and the track, the signal delays and the capacity
\* cost, which measure the polyline, agree, and cutting a run in two adds
\* nothing.
LengthIsThatOfCorners ==
    /\ polyline_length(Path) = Lengths(canonical_polyline_points(Path))
    /\ polyline_length(Bisected) = polyline_length([i \in 1..4 |-> Doubled(Path[i])])

\* The test for equal products gives the answer of the products.
ProductsEqual ==
    signed_products_equal(first[1][1] - 1, first[1][2], second[1][1], first[2][2] - 2) <=>
        (first[1][1] - 1) * first[1][2] = second[1][1] * (first[2][2] - 2)

-----------------------------------------------------------------------------
\* circles against wires

Absolute1(n) == IF n = 0 THEN 1 ELSE Absolute(n)

\* Moments of the movement, fine enough to hold the one where the center is
\* nearest to the second: an end of the movement, the foot of the perpendicular
\* from an end of the second, or the crossing.
Moments == Absolute1(squared_distance(first[1], first[2]))
            * Absolute1(cross_delta(Delta(first[1], first[2]), Delta(second[1], second[2])))
Scaled(p) == [axis \in 1..2 |-> Moments * p[axis]]
At(k) == [axis \in 1..2 |-> Moments * first[1][axis] + k * (first[2][axis] - first[1][axis])]

\* A disk and a second meet: the foot of the perpendicular, if it is on the
\* second, or an end is in the disk.
Meets(p, s, r) ==
    LET d == Delta(s[1], s[2])
        along == dot_delta(d, Delta(s[1], p))
        cross == cross_delta(d, Delta(s[1], p))
    IN  \/ \E i \in 1..2 : squared_distance(p, s[i]) <= r * r
        \/ 0 <= along /\ along <= dot_delta(d, d) /\ cross * cross <= r * r * dot_delta(d, d)

\* A movement hits a second exactly if at some moment of it the circle touches
\* the body: a fast hostile does not jump a second, and none is hit in passing.
SweepIsTouching ==
    \A r \in Radii, body \in Radii :
        swept_circle_intersects_wire_body(first, r, second, body) <=>
            \E k \in 0..Moments :
                Meets(At(k), <<Scaled(second[1]), Scaled(second[2])>>, Moments * (r + body))

\* Looking through the chunks finds a second occupied exactly if some hostile is
\* near it, on either side of zero and however large one of them is.
GridMissesNobody ==
    \A one, two, sense \in Radii, size \in ChunkSizes :
        LET hostiles == {[center |-> first[1], radius |-> one],
                         [center |-> first[2], radius |-> two]}
        IN  sample_wire_sensing(second, hostiles, sense, size) <=>
                \E h \in hostiles : Meets(h.center, second, h.radius + sense)

\* A footprint and a point of the second nearest to it: an end, the foot of a
\* perpendicular from a corner, or where the second passes a side.
Footprint == [min |-> <<Lower(first[1][1], first[2][1]), Lower(first[1][2], first[2][2])>>,
              max |-> <<Higher(first[1][1], first[2][1]), Higher(first[1][2], first[2][2])>>]
Steps == squared_distance(second[1], second[2])
         * Absolute1(second[2][1] - second[1][1]) * Absolute1(second[2][2] - second[1][2])
OnWire(k) == [axis \in 1..2 |-> Steps * second[1][axis] + k * (second[2][axis] - second[1][axis])]
Outside(v, low, high) == IF v < low THEN low - v ELSE IF v > high THEN v - high ELSE 0
Gap(p, axis) == Outside(p[axis], Steps * Footprint.min[axis], Steps * Footprint.max[axis])

\* A builder reaches the body of a second exactly if some point of the second is
\* that near to its footprint, also where the second runs through it or past a
\* corner.
FootprintReachesWire ==
    (Footprint.min[1] < Footprint.max[1] /\ Footprint.min[2] < Footprint.max[2]) =>
    \A r \in Radii :
        wire_target_intersects_aabb(second, Footprint, r) <=>
            \E k \in 0..Steps :
                Gap(OnWire(k), 1) * Gap(OnWire(k), 1) + Gap(OnWire(k), 2) * Gap(OnWire(k), 2)
                    <= Steps * Steps * r * r

-----------------------------------------------------------------------------
\* sites

World == "world"
Wire(domain, points) == [kind |-> "wire", domain |-> domain, points |-> points]
Joint(domain, at) == [kind |-> "junction", domain |-> domain, at |-> at]
Gate(domain, origin) == [kind |-> "gate", domain |-> domain, origin |-> origin]
Square(lower, upper) == [min |-> <<lower, lower>>, max |-> <<upper, upper>>]
Substrate(kind, origin, box) == [kind |-> kind, origin |-> origin, area |-> box, footprint |-> box]
Fixture(kind, at) == [kind |-> kind, at |-> at]

Sides == ("InputA" :> <<-1, 0>>) @@ ("Output" :> <<1, 0>>) @@ ("Power" :> <<0, -1>>)

OpenSite ==
    ("J" :> Joint(World, <<2, 0>>)) @@
    ("core" :> Fixture("core", <<0, 0>>)) @@
    ("long" :> Wire(World, <<<<0, 0>>, <<4, 0>>>>)) @@
    ("short" :> Wire(World, <<<<0, 0>>, <<2, 0>>>>)) @@
    ("beside" :> Wire(World, <<<<1, 1>>, <<3, 1>>>>)) @@
    ("hook" :> Wire(World, <<<<2, 0>>, <<2, 2>>, <<3, 3>>>>)) @@
    ("loop" :> Wire(World, <<<<2, 0>>, <<6, 0>>, <<4, 2>>, <<2, 0>>>>)) @@
    ("M" :> Substrate("mobile", <<2, 0>>, Square(0, 2))) @@
    ("inner" :> Wire("M", <<<<0, 0>>, <<1, 0>>>>))

BoardSite ==
    ("B" :> Substrate("board", <<2, 0>>, Square(0, 4))) @@
    ("C" :> Substrate("board", <<4, 2>>, Square(0, 3))) @@
    ("G" :> Gate("B", <<4, 2>>)) @@
    ("H" :> Gate("B", <<5, 2>>)) @@
    ("S" :> Fixture("source", <<2, 2>>)) @@
    ("feed" :> Wire("B", <<<<2, 2>>, <<3, 2>>>>)) @@
    ("under" :> Wire("B", <<<<2, 1>>, <<4, 1>>>>)) @@
    ("over" :> Wire(World, <<<<4, 2>>, <<4, 6>>>>)) @@
    ("out" :> Wire("B", <<<<5, 2>>, <<6, 2>>>>)) @@
    ("tap" :> Wire("B", <<<<6, 4>>, <<6, 2>>>>)) @@
    ("K" :> Joint("B", <<3, 1>>))

Limbs == INSTANCE WideIntegers WITH Base <- 4, Digits <- {0, 1, 3}
Open == INSTANCE Placement
        WITH Item <- OpenSite, Quantum <- 1, WorldPitch <- 2, CircuitPitch <- 1,
             Half <- 1, Anchor <- Sides
Board == INSTANCE Placement
         WITH Item <- BoardSite, Quantum <- 1, WorldPitch <- 2, CircuitPitch <- 1,
              Half <- 1, Anchor <- Sides

ASSUME Limbs!WideAssumption
ASSUME Open!PlacementAssumption /\ Board!PlacementAssumption

lines == <<first, second>>
limbs == <<left, right, direct, output, row, column, carry>>
pieces == <<live, bound, track>>
vars == <<part, lines, limbs, pieces>>

NoLines == first = <<>> /\ second = <<>>
NoLimbs == /\ left = <<>> /\ right = <<>> /\ direct = FALSE /\ output = <<>>
           /\ row = 0 /\ column = 0 /\ carry = 0
NoPieces == live = {} /\ bound = <<>> /\ track = <<>>

Init ==
    \/ part = "segments" /\ InitSegments /\ NoLimbs /\ NoPieces
    \/ part = "contacts" /\ InitContacts /\ NoLimbs /\ NoPieces
    \/ part = "limbs" /\ Limbs!Init /\ NoLines /\ NoPieces
    \/ part = "open" /\ Open!Init /\ NoLines /\ NoLimbs
    \/ part = "board" /\ Board!Init /\ NoLines /\ NoLimbs
Next ==
    /\ \/ part = "segments" /\ NextSegment /\ UNCHANGED <<limbs, pieces>>
       \/ part = "contacts" /\ NextContact /\ UNCHANGED <<limbs, pieces>>
       \/ part = "limbs" /\ Limbs!Next /\ UNCHANGED <<lines, pieces>>
       \/ part = "open" /\ Open!Next /\ UNCHANGED <<lines, limbs>>
       \/ part = "board" /\ Board!Next /\ UNCHANGED <<lines, limbs>>
    /\ UNCHANGED part
Spec == Init /\ [][Next]_vars

-----------------------------------------------------------------------------

\* The predicates on segments and boxes say what a drawing would show:
\* overlap, clearance, crossing and touching a box, and length.  The limbs
\* below them hold the integers they stand for, also in the middle of a
\* product: no carry is lost, and zero has one form.  Hits, sensing and the reach
\* of builders are touching: nothing is jumped over at any speed, and nobody is
\* lost between two chunks.
GeometryIsExact ==
    /\ part = "segments" =>
           /\ OverlapIsCommonPiece
           /\ ClearanceIsDistance
           /\ BoxMeetsPointwise
           /\ LengthIsThatOfCorners
           /\ ProductsEqual
    /\ part = "limbs" =>
           Limbs!ProductSoFar /\ Limbs!LimbsAreExact /\ Limbs!CrossProductsAreExact
    /\ part = "contacts" =>
           SweepIsTouching /\ GridMissesNobody /\ FootprintReachesWire

\* Placement never leaves two pieces closer than the rules allow, whatever
\* was placed, bound and removed before, and whether two pieces can both be
\* built does not depend on which is first.
PiecesKeepApart ==
    /\ part = "open" =>
           /\ Open!WiresKeepPitch /\ Open!JunctionsCutNoWire /\ Open!CircuitsStayOnSubstrate
           /\ Open!PlacementsCommute
    /\ part = "board" => Board!GatesAreEntered /\ Board!EndsMeetTargets /\ Board!PlacementsCommute

\* A module is accepted exactly if its pieces can be built one after another.
ModulesAreWhatBuilds ==
    /\ part = "open" => Open!ModulesAreWhatBuilds
    /\ part = "board" => Board!ModulesAreWhatBuilds

\* Every wire that is accepted can be taken into the power graph of Phase 5.
EveryWireAdapts == part = "open" => Open!EveryWireAdapts
=============================================================================
