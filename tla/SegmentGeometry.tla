-------------------------- MODULE SegmentGeometry ---------------------------
(***************************************************************************)
(* The exact predicates on segments, boxes and circles, over integers:     *)
(* structural_geometry.rs, and the tests of contact.rs and sensing.rs that *)
(* put circles against wires (crates/aon-sim/src).  The code computes them *)
(* in limbs of its own (WideIntegers), so no product here wraps.           *)
(*                                                                         *)
(* A point is <<x, y>>, a segment a pair of points, a box [min, max], a    *)
(* hostile [center, radius], a wire a sequence of points.                  *)
(***************************************************************************)
EXTENDS Numeric, FiniteSets, SequencesExt

Delta(p, q) == <<q[1] - p[1], q[2] - p[2]>>
cross_delta(u, v) == u[1] * v[2] - u[2] * v[1]
dot_delta(u, v) == u[1] * v[1] + u[2] * v[2]
Cross3(o, p, q) == cross_delta(Delta(o, p), Delta(o, q))
squared_distance(p, q) == dot_delta(Delta(p, q), Delta(p, q))

Lower(a, b) == IF a < b THEN a ELSE b
Higher(a, b) == IF a < b THEN b ELSE a
coordinate_between(v, a, b) == Lower(a, b) <= v /\ v <= Higher(a, b)

point_is_on_segment(p, s) ==
    \A axis \in 1..2 : coordinate_between(p[axis], s[1][axis], s[2][axis])
point_lies_on_segment(p, s) == Cross3(s[1], s[2], p) = 0 /\ point_is_on_segment(p, s)
point_is_strict_segment_interior(p, s) ==
    p # s[1] /\ p # s[2] /\ point_lies_on_segment(p, s)

segments_have_positive_collinear_overlap_Touching(s, t) ==
    /\ Cross3(s[1], s[2], t[1]) = 0 /\ Cross3(s[1], s[2], t[2]) = 0
    /\ LET axis == IF s[1][1] # s[2][1] \/ t[1][1] # t[2][1] THEN 1 ELSE 2
       IN  Higher(Lower(s[1][axis], s[2][axis]), Lower(t[1][axis], t[2][axis]))
             <= Lower(Higher(s[1][axis], s[2][axis]), Higher(t[1][axis], t[2][axis]))
segments_have_positive_collinear_overlap(s, t) ==
    /\ Cross3(s[1], s[2], t[1]) = 0 /\ Cross3(s[1], s[2], t[2]) = 0
    /\ LET axis == IF s[1][1] # s[2][1] \/ t[1][1] # t[2][1] THEN 1 ELSE 2
       IN  Higher(Lower(s[1][axis], s[2][axis]), Lower(t[1][axis], t[2][axis]))
             < Lower(Higher(s[1][axis], s[2][axis]), Higher(t[1][axis], t[2][axis]))

\* Parallel and nearer than pitch: by the distance of the lines where the
\* segments face each other, else by their ends.
parallel_segments_are_too_close_LinesOnly(s, t, pitch) ==
    LET d == Delta(s[1], s[2])
        line == cross_delta(d, Delta(s[1], t[1]))
    IN  /\ cross_delta(d, Delta(t[1], t[2])) = 0
        /\ line * line < pitch * pitch * dot_delta(d, d)
parallel_segments_are_too_close(s, t, pitch) ==
    LET d == Delta(s[1], s[2])
        length2 == dot_delta(d, d)
        a == dot_delta(Delta(s[1], t[1]), d)
        b == dot_delta(Delta(s[1], t[2]), d)
        line == cross_delta(d, Delta(s[1], t[1]))
    IN  /\ d # <<0, 0>> /\ t[1] # t[2]
        /\ cross_delta(d, Delta(t[1], t[2])) = 0
        /\ IF Lower(a, b) <= length2 /\ 0 <= Higher(a, b)
           THEN line * line < pitch * pitch * length2
           ELSE \E i, j \in 1..2 : squared_distance(s[i], t[j]) < pitch * pitch

Sign(n) == IF n > 0 THEN 1 ELSE IF n = 0 THEN 0 ELSE -1
segments_intersect_closed(s, t) ==
    LET st(i) == Cross3(s[1], s[2], t[i])
        ts(i) == Cross3(t[1], t[2], s[i])
    IN  \/ Sign(st(1)) * Sign(st(2)) = -1 /\ Sign(ts(1)) * Sign(ts(2)) = -1
        \/ \E i \in 1..2 : point_lies_on_segment(t[i], s) \/ point_lies_on_segment(s[i], t)

\* Clipping by an open axis leaves an interval of the parameter of the
\* segment: bounds as fractions <<numerator, denominator>> with denominator
\* positive, [0, 1] before any clip; an axis excludes its bounds.
Fraction(n, d) == IF d < 0 THEN <<-n, -d>> ELSE <<n, d>>
Less(f, g) == f[1] * g[2] < g[1] * f[2]
Unit == [lower |-> <<0, 1>>, upper |-> <<1, 1>>, openLower |-> FALSE, openUpper |-> FALSE]
clip_open_axis(interval, from, to, min, max) ==
    LET f == Fraction(min - from, to - from)
        g == Fraction(max - from, to - from)
        low == IF Less(f, g) THEN f ELSE g
        high == IF Less(f, g) THEN g ELSE f
        raised == Less(interval.lower, low)
        lowered == Less(high, interval.upper)
    IN  [lower |-> IF raised THEN low ELSE interval.lower,
         upper |-> IF lowered THEN high ELSE interval.upper,
         openLower |-> ~Less(low, interval.lower) \/ interval.openLower,
         openUpper |-> ~Less(interval.upper, high) \/ interval.openUpper]
is_nonempty(interval) ==
    \/ Less(interval.lower, interval.upper)
    \/ /\ ~Less(interval.upper, interval.lower)
       /\ ~interval.openLower /\ ~interval.openUpper
segment_intersects_aabb_interior_OneAxis(s, box) ==
    s[1][1] # s[2][1] /\ is_nonempty(clip_open_axis(Unit, s[1][1], s[2][1], box.min[1], box.max[1]))
segment_intersects_aabb_interior(s, box) ==
    LET Clip(interval, axis) ==
            IF interval = {} THEN {}
            ELSE IF s[1][axis] = s[2][axis]
            THEN IF box.min[axis] < s[1][axis] /\ s[1][axis] < box.max[axis] THEN interval ELSE {}
            ELSE {i \in {clip_open_axis(x, s[1][axis], s[2][axis], box.min[axis], box.max[axis])
                            : x \in interval} : is_nonempty(i)}
    IN  Clip(Clip({Unit}, 1), 2) # {}

aabb_edges(box) ==
    LET right == <<box.max[1], box.min[2]>>
        left == <<box.min[1], box.max[2]>>
    IN  {<<box.min, right>>, <<right, box.max>>, <<box.max, left>>, <<left, box.min>>}
segment_touches_aabb_boundary(s, box) == \E e \in aabb_edges(box) : segments_intersect_closed(s, e)
segment_overlaps_aabb_boundary(s, box) ==
    \E e \in aabb_edges(box) : segments_have_positive_collinear_overlap(s, e)

interior_overlaps(b, c) ==
    \A axis \in 1..2 : b.min[axis] < c.max[axis] /\ c.min[axis] < b.max[axis]
contains_point(b, p) == \A axis \in 1..2 : b.min[axis] <= p[axis] /\ p[axis] <= b.max[axis]
contains_aabb(b, c) == contains_point(b, c.min) /\ contains_point(b, c.max)

-----------------------------------------------------------------------------
(* Polylines (geometry.rs).                                                *)

\* a * b = c * d without the products: what is left of a and c when their
\* common part is cancelled must divide d and b.
Gcd(m, n) == CHOOSE g \in 1..m : m % g = 0 /\ n % g = 0 /\
                 \A h \in 1..m : m % h = 0 /\ n % h = 0 => h <= g
products_equal_without_overflow_OneQuotient(a, b, c, d) ==
    IF 0 \in {a, b, c, d} THEN (a = 0 \/ b = 0) /\ (c = 0 \/ d = 0)
    ELSE LET g == Gcd(a, c) IN b % (c \div g) = 0 /\ d % (a \div g) = 0
products_equal_without_overflow(a, b, c, d) ==
    IF 0 \in {a, b, c, d} THEN (a = 0 \/ b = 0) /\ (c = 0 \/ d = 0)
    ELSE LET g == Gcd(a, c)
         IN  /\ b % (c \div g) = 0 /\ d % (a \div g) = 0
             /\ b \div (c \div g) = d \div (a \div g)
Absolute(n) == IF n < 0 THEN -n ELSE n
signed_products_equal(a, b, c, d) ==
    /\ Sign(a) * Sign(b) = Sign(c) * Sign(d)
    /\ products_equal_without_overflow(Absolute(a), Absolute(b), Absolute(c), Absolute(d))

\* The second piece continues the first.
same_direction_collinear(p, q, r) ==
    LET u == Delta(p, q)
        v == Delta(q, r)
    IN  /\ signed_products_equal(u[1], v[2], u[2], v[1])
        /\ \A axis \in 1..2 : Sign(u[axis]) * Sign(v[axis]) # -1

canonical_polyline_points(points) ==
    FoldLeft(LAMBDA kept, p :
                 LET n == Len(kept)
                 IN  IF n > 0 /\ kept[n] = p THEN kept
                     ELSE IF n >= 2 /\ same_direction_collinear(kept[n - 1], kept[n], p)
                     THEN [kept EXCEPT ![n] = p] ELSE Append(kept, p),
             <<>>, points)

segment_length(p, q) == CeilIsqrt(squared_distance(p, q))
\* Straight runs are measured as a whole: length does not depend on how a run
\* is cut into segments.
polyline_length_PerSegment(points) ==
    FoldLeft(LAMBDA sum, i : sum + segment_length(points[i], points[i + 1]),
             0, [i \in 1..Len(points) - 1 |-> i])
polyline_length(points) ==
    IF Len(points) < 2 THEN 0
    ELSE LET last ==
             FoldLeft(LAMBDA run, p :
                          IF p = run.to THEN run
                          ELSE IF run.to = run.from \/ same_direction_collinear(run.from, run.to, p)
                          THEN [run EXCEPT !.to = p]
                          ELSE [sum |-> run.sum + segment_length(run.from, run.to),
                                from |-> run.to, to |-> p],
                      [sum |-> 0, from |-> points[1], to |-> points[2]],
                      SubSeq(points, 3, Len(points)))
         IN  last.sum + segment_length(last.from, last.to)

-----------------------------------------------------------------------------
\* circles against wires

\* The distance of a point to a segment is at most the root of radius2: beyond
\* an end that of the end, else that of the line.
point_within_segment_capsule(p, s, radius2) ==
    LET d == Delta(s[1], s[2])
        projection == dot_delta(Delta(s[1], p), d)
        length2 == dot_delta(d, d)
        cross == cross_delta(d, Delta(s[1], p))
    IN  IF projection <= 0 THEN squared_distance(p, s[1]) <= radius2
        ELSE IF projection >= length2 THEN squared_distance(p, s[2]) <= radius2
        ELSE cross * cross <= radius2 * length2

segments_within_radius_EndsOnly(path, s, radius2) ==
    \E i \in 1..2 : \/ point_within_segment_capsule(path[i], s, radius2)
                    \/ point_within_segment_capsule(s[i], path, radius2)
segments_within_radius(path, s, radius2) ==
    \/ segments_intersect_closed(path, s)
    \/ \E i \in 1..2 : \/ point_within_segment_capsule(path[i], s, radius2)
                       \/ point_within_segment_capsule(s[i], path, radius2)

windows(points) == {<<points[i], points[i + 1]>> : i \in 1..Len(points) - 1}

swept_circle_intersects_wire_body(path, hostileRadius, points, bodyRadius) ==
    LET r == hostileRadius + bodyRadius
    IN  \E s \in windows(points) : segments_within_radius(path, s, r * r)

swept_circle_intersects_point(path, hostileRadius, target) ==
    point_within_segment_capsule(target, path, hostileRadius * hostileRadius)

\* A builder's footprint touches what is to be built: a box, a point, or the
\* body of a wire, which is a circle swept along the sides of the footprint.
closed_aabb_intersects(b, c) ==
    \A axis \in 1..2 : b.min[axis] <= c.max[axis] /\ c.min[axis] <= b.max[axis]

wire_target_intersects_aabb_EndsOnly(points, box, radius) ==
    \E s \in windows(points) : \E i \in 1..2 : contains_point(box, s[i])
wire_target_intersects_aabb(points, box, radius) ==
    \E s \in windows(points) :
        \/ contains_point(box, s[1]) \/ contains_point(box, s[2])
        \/ \E e \in aabb_edges(box) : swept_circle_intersects_wire_body(e, radius, s, 0)

construction_target_intersects_aabb(target, box, radius) ==
    CASE target.kind \in {"gate", "substrate"} -> closed_aabb_intersects(target.box, box)
      [] target.kind = "junction" -> contains_point(box, target.at)
      [] target.kind = "wire" -> wire_target_intersects_aabb(target.points, box, radius)

-----------------------------------------------------------------------------
(* Sensing: hostiles are kept in square chunks by their centers, a wire    *)
(* looks through the chunks its box, widened by every reach, meets.        *)

circle_intersects_segment_capsule(center, s, radius2) ==
    point_within_segment_capsule(center, s, radius2)

circle_intersects_polyline_capsule(hostile, points, senseRadius) ==
    LET r == senseRadius + hostile.radius
    IN  \E s \in windows(points) : circle_intersects_segment_capsule(hostile.center, s, r * r)

chunk_key(p, size) == [axis \in 1..2 |-> p[axis] \div size]

MaxRadius(hostiles) == CHOOSE r \in {h.radius : h \in hostiles} : \A h \in hostiles : h.radius <= r

Least(points, axis) == CHOOSE v \in {points[i][axis] : i \in DOMAIN points} :
                           \A i \in DOMAIN points : v <= points[i][axis]
Greatest(points, axis) == CHOOSE v \in {points[i][axis] : i \in DOMAIN points} :
                              \A i \in DOMAIN points : points[i][axis] <= v

candidate_indices_for_polyline_OwnRadius(hostiles, points, senseRadius, size) ==
    {h \in hostiles : \A axis \in 1..2 :
        LET key == chunk_key(h.center, size)[axis]
        IN  /\ (Least(points, axis) - senseRadius) \div size <= key
            /\ key <= (Greatest(points, axis) + senseRadius) \div size}
candidate_indices_for_polyline(hostiles, points, senseRadius, size) ==
    LET expansion == senseRadius + MaxRadius(hostiles)
    IN  {h \in hostiles : \A axis \in 1..2 :
            LET key == chunk_key(h.center, size)[axis]
            IN  /\ (Least(points, axis) - expansion) \div size <= key
                /\ key <= (Greatest(points, axis) + expansion) \div size}

\* One bit for each wire: somebody is near.
sample_wire_sensing(points, hostiles, senseRadius, size) ==
    hostiles # {} /\ \E h \in candidate_indices_for_polyline(hostiles, points, senseRadius, size) :
                         circle_intersects_polyline_capsule(h, points, senseRadius)
=============================================================================
