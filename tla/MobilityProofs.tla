--------------------------- MODULE MobilityProofs ---------------------------
(***************************************************************************)
(* For every track, every budget and every ratio of power: a mobile is     *)
(* always found on the track, moves along it without a jump, never meets   *)
(* an edge that has no power, at a junction there is always exactly one    *)
(* way to prefer, and a budget takes it where single units would.          *)
(***************************************************************************)
EXTENDS Mobility, FiniteSetTheorems, WellFoundedInduction, TLAPS

Headings == {"Forward", "Reverse"}

-----------------------------------------------------------------------------
(* Least elements.                                                         *)

Below == {x \in Nat \X Nat : x[1] < x[2]}

LEMMA BelowWellFounded == IsWellFoundedOn(Below, Nat)
  BY NatLessThanWellFounded, Zenon DEF Below, OpToRel

\* Every non-empty set of naturals has a least element.
LEMMA LeastNumber ==
  ASSUME NEW S \in SUBSET Nat, S # {}
  PROVE  \E m \in S : \A n \in S : m <= n
<1>1. PICK m \in S : \A n \in S : ~ (<<n, m>> \in Below)
  BY BelowWellFounded, WFMin
<1>2. ASSUME NEW n \in S PROVE m <= n
  <2>1. <<n, m>> \in Nat \X Nat
    BY SMT
  <2>2. <<n, m>> \notin Below
    BY <1>1
  <2>3. ~ (n < m)
    BY <2>1, <2>2 DEF Below
  <2> QED BY <2>3
<1> QED BY <1>2

\* A finite non-empty set has a first element in every order that is total and
\* transitive on it: one that the fewest precede.
LEMMA FirstOfFinite ==
  ASSUME NEW S, IsFiniteSet(S), S # {},
         NEW R,
         \A x, y \in S : x # y => <<x, y>> \in R \/ <<y, x>> \in R,
         \A x \in S : <<x, x>> \notin R,
         \A x, y, z \in S : <<x, y>> \in R /\ <<y, z>> \in R => <<x, z>> \in R
  PROVE  \E x \in S : \A y \in S \ {x} : <<x, y>> \in R
<1> DEFINE Before(x) == {y \in S : <<y, x>> \in R}
           Counts == {Cardinality(Before(x)) : x \in S}
<1>1. \A x \in S : /\ Before(x) \in SUBSET S /\ IsFiniteSet(Before(x))
                   /\ Cardinality(Before(x)) \in Nat
  <2> SUFFICES ASSUME NEW x \in S
               PROVE  /\ Before(x) \in SUBSET S /\ IsFiniteSet(Before(x))
                      /\ Cardinality(Before(x)) \in Nat
    OBVIOUS
  <2>1. Before(x) \in SUBSET S
    OBVIOUS
  <2> HIDE DEF Before
  <2>2. IsFiniteSet(Before(x))
    BY <2>1, FS_Subset
  <2> QED BY <2>1, <2>2, FS_CardinalityType
<1>2. PICK n \in Counts : \A i \in Counts : n <= i
  <2>1. Counts \in SUBSET Nat /\ Counts # {}
    <3>1. \A i \in Counts : i \in Nat
      <4>1. \A i \in Counts : \E x \in S : i = Cardinality(Before(x))
        OBVIOUS
      <4> HIDE DEF Before, Counts
      <4> QED BY <1>1, <4>1
    <3>2. PICK x \in S : TRUE
      OBVIOUS
    <3>3. Cardinality(Before(x)) \in Counts
      BY <3>2
    <3> QED BY <3>1, <3>3
  <2> HIDE DEF Counts
  <2> QED BY <2>1, LeastNumber
<1>3. PICK x \in S : n = Cardinality(Before(x))
  BY <1>2
<1>4. ASSUME NEW y \in S, <<y, x>> \in R PROVE FALSE
  <2>1. Before(y) \subseteq Before(x)
    BY <1>4
  <2>2. y \in Before(x) /\ y \notin Before(y)
    BY <1>4
  <2>3. n <= Cardinality(Before(y))
    <3>1. Cardinality(Before(y)) \in Counts
      OBVIOUS
    <3> QED BY <1>2, <3>1
  <2> HIDE DEF Before, Counts
  <2>4. Before(y) \in SUBSET Before(x) /\ IsFiniteSet(Before(x))
    BY <1>1, <2>1
  <2>5. Cardinality(Before(y)) <= Cardinality(Before(x))
    BY <2>4, FS_Subset
  <2>6. Cardinality(Before(y)) = Cardinality(Before(x))
    BY <1>1, <1>3, <2>3, <2>5
  <2>7. Before(y) = Before(x)
    BY <2>4, <2>6, FS_Subset
  <2> QED BY <2>2, <2>7
<1> QED BY <1>4

-----------------------------------------------------------------------------
(* The order of turns.                                                     *)

\* Fractions with positive denominators, compared crosswise.
LEMMA CrosswiseTransitive ==
  ASSUME NEW a \in Nat, NEW b \in Nat, NEW c \in Nat, NEW d \in Nat, NEW e \in Nat, NEW f \in Nat,
         d > 0, a * d <= c * b, c * f <= e * d
  PROVE  a * f <= e * b
<1> DEFINE p == a * f
           q == e * b
<1>1. p \in Nat /\ q \in Nat
  OBVIOUS
<1>2. p * d <= q * d
  <2>1. \A x, y, k \in Nat : x <= y => x * k <= y * k
    OBVIOUS
  <2>2. a * d \in Nat /\ c * b \in Nat /\ c * f \in Nat /\ e * d \in Nat
    OBVIOUS
  <2>3. (a * d) * f <= (c * b) * f /\ (c * f) * b <= (e * d) * b
    BY <2>1, <2>2
  <2>4. (a * d) * f = p * d /\ (c * b) * f = (c * f) * b /\ (e * d) * b = q * d
    OBVIOUS
  <2>5. (a * d) * f \in Nat /\ (c * b) * f \in Nat /\ (e * d) * b \in Nat
    OBVIOUS
  <2> HIDE DEF p, q
  <2> QED BY <2>3, <2>4, <2>5
<1>3. p <= q
  <2> HIDE DEF p, q
  <2>1. \A x, y, k \in Nat : k > 0 /\ x * k <= y * k => x <= y
    OBVIOUS
  <2> QED BY <1>1, <1>2, <2>1
<1> QED BY <1>3

Vectors == Int \X Int

LEMMA Measures ==
  ASSUME NEW v \in Vectors, NEW u \in Vectors
  PROVE  /\ Dot(v, u) \in Int /\ Size(Dot(v, u)) \in Nat /\ Size(Cross(v, u)) \in Nat
         /\ Dot(v, u) # 0 => Size(Dot(v, u)) > 0
         /\ Region(Dot(v, u)) \in 0..2
         /\ Region(Dot(v, u)) = 0 <=> Dot(v, u) > 0
         /\ Region(Dot(v, u)) = 2 <=> Dot(v, u) < 0
<1>1. v[1] \in Int /\ v[2] \in Int /\ u[1] \in Int /\ u[2] \in Int
  BY DEF Vectors
<1>2. Dot(v, u) \in Int /\ Cross(v, u) \in Int
  BY <1>1 DEF Dot, Cross
<1> QED BY <1>2 DEF Size, Region

\* Of two turns at most one is the smaller, and a turn no greater than another
\* is no greater than what that one is not greater than.
LEMMA TurnsAreOrdered ==
  ASSUME NEW v \in Vectors, NEW x \in Vectors, NEW y \in Vectors
  PROVE  ~(SmallerTurn(v, x, y) /\ SmallerTurn(v, y, x))
<1> DEFINE dx == Dot(v, x)
           dy == Dot(v, y)
           mx == Size(Cross(v, x)) * Size(dy)
           my == Size(Cross(v, y)) * Size(dx)
<1>1. /\ Region(dx) \in 0..2 /\ Region(dy) \in 0..2 /\ dx \in Int /\ dy \in Int
      /\ Region(dx) = Region(dy) => (dx > 0 <=> dy > 0) /\ (dx < 0 <=> dy < 0)
  BY Measures
<1>2. mx \in Nat /\ my \in Nat
  BY Measures
<1>3. /\ SmallerTurn(v, x, y) <=> \/ Region(dx) < Region(dy)
                                  \/ Region(dx) = Region(dy)
                                     /\ ((dx > 0 /\ mx < my) \/ (dx < 0 /\ my < mx))
      /\ SmallerTurn(v, y, x) <=> \/ Region(dy) < Region(dx)
                                  \/ Region(dy) = Region(dx)
                                     /\ ((dy > 0 /\ my < mx) \/ (dy < 0 /\ mx < my))
  BY DEF SmallerTurn
<1> HIDE DEF dx, dy, mx, my
<1> QED BY <1>1, <1>2, <1>3

LEMMA TurnsAreTransitive ==
  ASSUME NEW v \in Vectors, NEW x \in Vectors, NEW y \in Vectors, NEW z \in Vectors,
         ~SmallerTurn(v, y, x), ~SmallerTurn(v, z, y)
  PROVE  ~SmallerTurn(v, z, x)
<1> DEFINE dx == Dot(v, x)
           dy == Dot(v, y)
           dz == Dot(v, z)
           cx == Size(Cross(v, x))
           cy == Size(Cross(v, y))
           cz == Size(Cross(v, z))
<1>1. /\ Region(dx) \in 0..2 /\ Region(dy) \in 0..2 /\ Region(dz) \in 0..2
      /\ dx \in Int /\ dy \in Int /\ dz \in Int
      /\ Region(dx) = Region(dy) => (dx > 0 <=> dy > 0) /\ (dx < 0 <=> dy < 0)
      /\ Region(dy) = Region(dz) => (dy > 0 <=> dz > 0) /\ (dy < 0 <=> dz < 0)
  BY Measures
<1>2. /\ cx \in Nat /\ cy \in Nat /\ cz \in Nat
      /\ Size(dx) \in Nat /\ Size(dy) \in Nat /\ Size(dz) \in Nat
      /\ dy # 0 => Size(dy) > 0
  BY Measures
<1>3. /\ SmallerTurn(v, y, x) <=>
           \/ Region(dy) < Region(dx)
           \/ Region(dy) = Region(dx)
              /\ ((dy > 0 /\ cy * Size(dx) < cx * Size(dy)) \/ (dy < 0 /\ cx * Size(dy) < cy * Size(dx)))
      /\ SmallerTurn(v, z, y) <=>
           \/ Region(dz) < Region(dy)
           \/ Region(dz) = Region(dy)
              /\ ((dz > 0 /\ cz * Size(dy) < cy * Size(dz)) \/ (dz < 0 /\ cy * Size(dz) < cz * Size(dy)))
      /\ SmallerTurn(v, z, x) <=>
           \/ Region(dz) < Region(dx)
           \/ Region(dz) = Region(dx)
              /\ ((dz > 0 /\ cz * Size(dx) < cx * Size(dz)) \/ (dz < 0 /\ cx * Size(dz) < cz * Size(dx)))
  BY DEF SmallerTurn
<1> DEFINE ax == Size(dx)
           ay == Size(dy)
           az == Size(dz)
<1>4. /\ ay > 0 /\ cx * ay <= cy * ax /\ cy * az <= cz * ay => cx * az <= cz * ax
      /\ ay > 0 /\ cz * ay <= cy * az /\ cy * ax <= cx * ay => cz * ax <= cx * az
  <2> HIDE DEF cx, cy, cz, dx, dy, dz
  <2> HIDE DEF ax, ay, az
  <2>1. ax \in Nat /\ ay \in Nat /\ az \in Nat
    BY <1>2 DEF ax, ay, az
  <2> QED BY <1>2, <2>1, CrosswiseTransitive
<1>5. /\ cx * ay \in Nat /\ cy * ax \in Nat /\ cy * az \in Nat
      /\ cz * ay \in Nat /\ cx * az \in Nat /\ cz * ax \in Nat
  <2> HIDE DEF cx, cy, cz, dx, dy, dz
  <2> QED BY <1>2
<1> HIDE DEF cx, cy, cz, dx, dy, dz
<1>6. CASE Region(dx) < Region(dz)
  BY <1>1, <1>3, <1>6
<1>7. CASE Region(dx) = Region(dy) /\ Region(dy) = Region(dz)
  BY <1>1, <1>2, <1>3, <1>4, <1>5, <1>7
<1>8. Region(dx) <= Region(dy) /\ Region(dy) <= Region(dz)
  BY <1>1, <1>3
<1> QED BY <1>1, <1>6, <1>7, <1>8

-----------------------------------------------------------------------------
(* Incidents of a place.                                                   *)

Known == [edge : Edges, end : Ends]

LEMMA IncidentsAreKnown ==
  ASSUME ShapeAssumption, NEW edges \in SUBSET Edges, NEW j
  PROVE  /\ Incidents(edges, j) \in SUBSET Known /\ IsFiniteSet(Incidents(edges, j))
         /\ \A i \in Incidents(edges, j) :
               /\ i.edge \in edges /\ i.end \in Ends /\ i.edge \in Nat
               /\ Shape[i.edge][i.end].bound /\ Shape[i.edge][i.end].place = j
<1> DEFINE here == Incidents(edges, j)
           f == [i \in here |-> <<i.edge, i.end>>]
<1>1. /\ here \in SUBSET Known
      /\ \A i \in here : /\ i.edge \in edges /\ i.end \in Ends /\ i.edge \in Nat
                        /\ Shape[i.edge][i.end].bound /\ Shape[i.edge][i.end].place = j
                        /\ i = [edge |-> i.edge, end |-> i.end]
  <2>1. here \in SUBSET [edge : edges, end : Ends]
    BY DEF Incidents
  <2>2. \A i \in here : i.edge \in edges /\ i.end \in Ends /\ i = [edge |-> i.edge, end |-> i.end]
    <3> HIDE DEF here
    <3> QED BY <2>1
  <2>3. \A i \in here : i.edge \in Nat /\ i \in Known
    <3> HIDE DEF here
    <3> QED BY <2>1, <2>2 DEF Known, ShapeAssumption
  <2>4. \A i \in here : Shape[i.edge][i.end].bound /\ Shape[i.edge][i.end].place = j
    BY DEF Incidents
  <2> QED BY <2>2, <2>3, <2>4
<1>2. f \in Injection(here, Edges \X Ends)
  <2>1. f \in [here -> Edges \X Ends]
    BY <1>1
  <2>2. \A x, y \in here : f[x] = f[y] => x = y
    BY <1>1
  <2> HIDE DEF here, f
  <2> QED BY <2>1, <2>2 DEF Injection, IsInjective
<1>3. IsFiniteSet(Edges \X Ends)
  <2>1. IsFiniteSet(Ends)
    <3>1. Ends = {"A"} \cup {"B"}
      BY DEF Ends
    <3> QED BY <3>1, FS_Singleton, FS_Union
  <2> QED BY <2>1, FS_Product DEF ShapeAssumption
<1>4. IsFiniteSet(here)
  <2> HIDE DEF here, f
  <2> QED BY <1>2, <1>3, FS_Injection
<1> QED BY <1>1, <1>4

LEMMA BeforeByEdgeThenEnd ==
  ASSUME ShapeAssumption, NEW x \in Known, NEW y \in Known
  PROVE  IncidentBefore(x, y) <=>
            \/ x.edge < y.edge
            \/ x.edge = y.edge /\ x.end = "A" /\ y.end = "B"
<1> DEFINE a == EndRank(x.end)
           b == EndRank(y.end)
           s == <<x.edge, a>>
           t == <<y.edge, b>>
<1>1. /\ x.edge \in Nat /\ y.edge \in Nat /\ a \in 0..1 /\ b \in 0..1
      /\ x.end \in Ends /\ y.end \in Ends
      /\ a < b <=> x.end = "A" /\ y.end = "B"
  BY DEF Known, Ends, EndRank, ShapeAssumption
<1>2. Len(s) = 2 /\ Len(t) = 2 /\ s[1] = x.edge /\ s[2] = a /\ t[1] = y.edge /\ t[2] = b
  OBVIOUS
<1>3. LexLess(s, t) <=> x.edge < y.edge \/ (x.edge = y.edge /\ a < b)
  <2> HIDE DEF s, t, a, b
  <2>1. LexLess(s, t) <=> \E i \in 1..2 : s[i] < t[i] /\ \A j \in 1..i - 1 : s[j] = t[j]
    BY <1>2 DEF LexLess
  <2>2. \A i \in 1..2 : i = 1 \/ i = 2
    OBVIOUS
  <2>3. (\A j \in 1..1 - 1 : s[j] = t[j]) /\ ((\A j \in 1..2 - 1 : s[j] = t[j]) <=> s[1] = t[1])
    OBVIOUS
  <2> QED BY <1>1, <1>2, <2>1, <2>2, <2>3
<1>4. IncidentBefore(x, y) <=> LexLess(s, t)
  BY DEF IncidentBefore
<1> HIDE DEF s, t, a, b
<1> QED BY <1>1, <1>3, <1>4

LEMMA IncidentsAreOrdered ==
  ASSUME ShapeAssumption
  PROVE  /\ \A x \in Known : ~IncidentBefore(x, x)
         /\ \A x, y \in Known :
               x # y => IncidentBefore(x, y) \/ IncidentBefore(y, x)
         /\ \A x, y, z \in Known :
               IncidentBefore(x, y) /\ IncidentBefore(y, z) => IncidentBefore(x, z)
<1>1. \A x \in Known : /\ x.edge \in Nat /\ x.end \in {"A", "B"}
                       /\ x = [edge |-> x.edge, end |-> x.end]
  <2>1. \A x \in Known : /\ x.edge \in Edges /\ x.end \in Ends
                         /\ x = [edge |-> x.edge, end |-> x.end]
    BY DEF Known
  <2> QED BY <2>1 DEF Ends, ShapeAssumption
<1>2. \A x, y \in Known : x.edge = y.edge /\ x.end = y.end => x = y
  BY <1>1
<1> QED BY <1>1, <1>2, BeforeByEdgeThenEnd

LEMMA LeastIsThere ==
  ASSUME ShapeAssumption, NEW C \in SUBSET Known, IsFiniteSet(C), C # {}
  PROVE  Least(C) \in C
<1> DEFINE R == {p \in Known \X Known : IncidentBefore(p[1], p[2])}
<1>1. \A x, y \in C : <<x, y>> \in R <=> IncidentBefore(x, y)
  OBVIOUS
<1>2. \E x \in C : \A y \in C \ {x} : <<x, y>> \in R
  <2>1. /\ \A x, y \in C : x # y => <<x, y>> \in R \/ <<y, x>> \in R
        /\ \A x \in C : <<x, x>> \notin R
        /\ \A x, y, z \in C : <<x, y>> \in R /\ <<y, z>> \in R => <<x, z>> \in R
    <3> HIDE DEF R
    <3> QED BY <1>1, IncidentsAreOrdered
  <2> HIDE DEF R
  <2> QED BY <2>1, FirstOfFinite
<1>3. \E x \in C : \A y \in C : x = y \/ IncidentBefore(x, y)
  <2> HIDE DEF R
  <2> QED BY <1>1, <1>2
<1> QED BY <1>3 DEF Least

\* candidate_is_better picks one of the candidates: whichever way it looks for,
\* the comparison of turns and then of incidents is a total order.
LEMMA PreferredIsThere ==
  ASSUME ShapeAssumption, NEW C \in SUBSET Known, IsFiniteSet(C), C # {},
         NEW v \in Vectors, NEW smallest \in BOOLEAN
  PROVE  Preferred(C, v, smallest) \in C
<1> DEFINE Less(x, y) == SmallerTurn(v, Outgoing(x), Outgoing(y))
           Better(x, y) == IF smallest THEN Less(x, y) \/ (~Less(y, x) /\ IncidentBefore(x, y))
                           ELSE Less(y, x) \/ (~Less(x, y) /\ IncidentBefore(x, y))
           R == {p \in Known \X Known : Better(p[1], p[2])}
<1>1. \A x \in Known : Outgoing(x) \in Vectors
  BY DEF Known, Outgoing, ShapeAssumption, Vectors
<1>2. \A x, y \in Known : ~(Less(x, y) /\ Less(y, x))
  BY <1>1, TurnsAreOrdered
<1>3. \A x, y, z \in Known : ~Less(y, x) /\ ~Less(z, y) => ~Less(z, x)
  BY <1>1, TurnsAreTransitive
<1> HIDE DEF Less
<1>4. \A x, y \in C : <<x, y>> \in R <=> Better(x, y)
  OBVIOUS
<1>5. \A x, y \in C : x # y => Better(x, y) \/ Better(y, x)
  BY IncidentsAreOrdered
<1>6. \A x \in C : ~Better(x, x)
  BY <1>2, IncidentsAreOrdered
<1>7. \A x, y, z \in C : Better(x, y) /\ Better(y, z) => Better(x, z)
  <2>1. SUFFICES ASSUME NEW x \in C, NEW y \in C, NEW z \in C, Better(x, y), Better(y, z)
                 PROVE  Better(x, z)
    OBVIOUS
  <2>2. x \in Known /\ y \in Known /\ z \in Known
    OBVIOUS
  <2>3. IncidentBefore(x, y) /\ IncidentBefore(y, z) => IncidentBefore(x, z)
    BY <2>2, IncidentsAreOrdered
  <2>4. CASE smallest
    BY <2>1, <2>2, <2>3, <2>4, <1>2, <1>3
  <2>5. CASE ~smallest
    BY <2>1, <2>2, <2>3, <2>5, <1>2, <1>3
  <2> QED BY <2>4, <2>5
<1>8. \E x \in C : \A y \in C \ {x} : <<x, y>> \in R
  <2> HIDE DEF R, Better
  <2>1. /\ \A x, y \in C : x # y => <<x, y>> \in R \/ <<y, x>> \in R
        /\ \A x \in C : <<x, x>> \notin R
        /\ \A x, y, z \in C : <<x, y>> \in R /\ <<y, z>> \in R => <<x, z>> \in R
    BY <1>4, <1>5, <1>6, <1>7
  <2> QED BY <2>1, FirstOfFinite, SMTT(40)
<1>9. \E x \in C : \A y \in C \ {x} : Better(x, y)
  <2> HIDE DEF R, Better
  <2> QED BY <1>4, <1>8
<1> QED BY <1>9 DEF Preferred, Less

-----------------------------------------------------------------------------
(* Positions.                                                              *)

OnEdge(edges, p) ==
  \E e \in edges : \E x \in 0..Shape[e].length, h \in Headings : p = Edge(e, x, h)
AtJunction(edges, p) ==
  \E e \in edges, end \in Ends : Shape[e][end].bound /\ p = Junction(Shape[e][end].place, e)
Standing(edges, p) == OnEdge(edges, p) \/ AtJunction(edges, p)

\* Where along an edge an end of it is.
OffsetOf(e, end) == IF end = "A" THEN 0 ELSE Shape[e].length

\* An edge comes to a junction with one end only.
LEMMA OneIncident ==
  ASSUME ShapeAssumption, NEW edges \in SUBSET Edges, NEW e \in edges, NEW end \in Ends,
         Shape[e][end].bound
  PROVE  {i \in Incidents(edges, Shape[e][end].place) : i.edge = e} = {[edge |-> e, end |-> end]}
<1> DEFINE j == Shape[e][end].place
           i == [edge |-> e, end |-> end]
<1>1. i \in Incidents(edges, j) /\ i.edge = e
  BY DEF Incidents
<1>2. ASSUME NEW k \in Incidents(edges, j), k.edge = e PROVE k = i
  <2>1. k \in [edge : edges, end : Ends] /\ Shape[e][k.end].bound /\ Shape[e][k.end].place = j
    BY <1>2 DEF Incidents
  <2>2. k.end \in Ends /\ k = [edge |-> k.edge, end |-> k.end]
    BY <2>1
  <2>3. ~(Shape[e]["A"].bound /\ Shape[e]["B"].bound /\ Shape[e]["A"].place = Shape[e]["B"].place)
    BY DEF ShapeAssumption
  <2>4. k.end = end
    BY <2>1, <2>2, <2>3 DEF Ends
  <2> QED BY <2>2, <2>4, <1>2
<1>3. {k \in Incidents(edges, j) : k.edge = e} = {i}
  <2> HIDE DEF i, j
  <2> QED BY <1>1, <1>2
<1> QED BY <1>3

LEMMA PointOfEnd ==
  ASSUME ShapeAssumption, NEW e \in Edges, NEW end \in Ends
  PROVE  PointAt(e, OffsetOf(e, end)) = Shape[e][end].place /\ OffsetOf(e, end) \in 0..Shape[e].length
<1>1. Shape[e].length \in Nat \ {0}
  BY DEF ShapeAssumption
<1> QED BY <1>1 DEF PointAt, OffsetOf, Ends

\* Everything a movement needs to know of where a mobile stands.
LEMMA EdgePosition ==
  ASSUME NEW edges \in SUBSET Edges, NEW e \in edges, NEW x \in 0..Shape[e].length, NEW h \in Headings
  PROVE  LET p == Edge(e, x, h)
         IN  /\ Standing(edges, p) /\ Resolves(edges, p) /\ p # None
             /\ power_attachment_position(edges, p) = <<e, x>>
             /\ world_position(p) = PointAt(e, x)
             /\ p.on = "edge" /\ p.edge = e /\ p.offset = x /\ p.heading = h
<1> DEFINE p == Edge(e, x, h)
<1>1. p.on = "edge" /\ p.edge = e /\ p.offset = x /\ p.heading = h
  BY DEF Edge
<1>2. p # None
  BY <1>1 DEF None
<1>3. Standing(edges, p)
  BY DEF Standing, OnEdge
<1>4. Resolves(edges, p)
  BY <1>1 DEF Resolves
<1>5. power_attachment_position(edges, p) = <<e, x>> /\ world_position(p) = PointAt(e, x)
  BY <1>1 DEF power_attachment_position, world_position
<1> QED BY <1>1, <1>2, <1>3, <1>4, <1>5

LEMMA JunctionPosition ==
  ASSUME ShapeAssumption, NEW edges \in SUBSET Edges, NEW e \in edges, NEW end \in Ends,
         Shape[e][end].bound
  PROVE  LET p == Junction(Shape[e][end].place, e)
         IN  /\ Standing(edges, p) /\ Resolves(edges, p) /\ p # None
             /\ power_attachment_position(edges, p) = <<e, OffsetOf(e, end)>>
             /\ world_position(p) = Shape[e][end].place
             /\ p.on = "junction" /\ p.edge = e /\ p.junction = Shape[e][end].place
<1> DEFINE j == Shape[e][end].place
           p == Junction(j, e)
           i == [edge |-> e, end |-> end]
           here == {k \in Incidents(edges, j) : k.edge = e}
<1>1. p.on = "junction" /\ p.edge = e /\ p.junction = j
  BY DEF Junction
<1>2. p # None
  BY <1>1 DEF None
<1>3. Standing(edges, p)
  BY DEF Standing, AtJunction
<1>4. here = {i}
  BY OneIncident
<1>5. Resolves(edges, p)
  <2>1. Cardinality(here) = 1
    <3> HIDE DEF here, i
    <3> QED BY <1>4, FS_Singleton
  <2> QED BY <1>1, <2>1 DEF Resolves
<1>6. (CHOOSE k \in Incidents(edges, j) : k.edge = e) = i
  <2>1. i \in here /\ \A k \in here : k = i
    <3> HIDE DEF here, i
    <3> QED BY <1>4
  <2>2. (CHOOSE k \in Incidents(edges, j) : k.edge = e) \in here
    <3> HIDE DEF i
    <3> QED BY <2>1
  <2> QED BY <2>1, <2>2
<1>7. power_attachment_position(edges, p) = <<e, OffsetOf(e, end)>>
  <2> DEFINE k == CHOOSE x \in Incidents(edges, j) : x.edge = e
  <2>1. power_attachment_position(edges, p) = <<k.edge, OffsetOf(k.edge, k.end)>>
    <3> HIDE DEF p, i, j
    <3>1. p.on # "edge"
      BY <1>1
    <3> QED BY <1>1, <3>1 DEF power_attachment_position, OffsetOf
  <2>2. k.edge = e /\ k.end = end
    <3>1. k = i
      BY <1>6
    <3>2. i.edge = e /\ i.end = end
      OBVIOUS
    <3> HIDE DEF k, i
    <3> QED BY <3>1, <3>2
  <2> HIDE DEF k
  <2> QED BY <2>1, <2>2
<1>8. world_position(p) = j
  BY <1>1 DEF world_position
<1> QED BY <1>1, <1>2, <1>3, <1>5, <1>7, <1>8

LEMMA StandingResolves ==
  ASSUME ShapeAssumption, NEW edges \in SUBSET Edges, NEW p, Standing(edges, p)
  PROVE  /\ Resolves(edges, p) /\ p # None
         /\ LET at == power_attachment_position(edges, p)
            IN  PointAt(at[1], at[2]) = world_position(p)
<1>1. CASE OnEdge(edges, p)
  BY <1>1, EdgePosition DEF OnEdge
<1>2. CASE AtJunction(edges, p)
  <2>1. PICK e \in edges, end \in Ends :
           Shape[e][end].bound /\ p = Junction(Shape[e][end].place, e)
    BY <1>2 DEF AtJunction
  <2>2. e \in Edges
    OBVIOUS
  <2> QED BY <2>1, <2>2, JunctionPosition, PointOfEnd
<1> QED BY <1>1, <1>2 DEF Standing

\* A track that is rewired still carries every position that it resolves.
LEMMA StillStanding ==
  ASSUME ShapeAssumption, NEW edges \in SUBSET Edges, NEW others \in SUBSET Edges,
         NEW p, Standing(edges, p), Resolves(others, p)
  PROVE  Standing(others, p)
<1>1. CASE OnEdge(edges, p)
  <2>1. PICK e \in edges : \E x \in 0..Shape[e].length, h \in Headings : p = Edge(e, x, h)
    BY <1>1 DEF OnEdge
  <2>2. e \in others
    BY <2>1 DEF Resolves, Edge
  <2> QED BY <2>1, <2>2 DEF Standing, OnEdge
<1>2. CASE AtJunction(edges, p)
  <2>1. PICK e \in edges, end \in Ends :
           Shape[e][end].bound /\ p = Junction(Shape[e][end].place, e)
    BY <1>2 DEF AtJunction
  <2> DEFINE j == Shape[e][end].place
             here == {k \in Incidents(others, j) : k.edge = e}
  <2>2. Cardinality(here) = 1
    BY <2>1 DEF Resolves, Junction
  <2>3. here # {}
    <3> HIDE DEF here
    <3> QED BY <2>2, FS_EmptySet
  <2>4. PICK k \in here : TRUE
    BY <2>3
  <2>5. k.edge = e /\ k.edge \in others /\ k.end \in Ends
        /\ Shape[k.edge][k.end].bound /\ Shape[k.edge][k.end].place = j
    BY <2>4, IncidentsAreKnown
  <2> QED BY <2>1, <2>5 DEF Standing, AtJunction
<1> QED BY <1>1, <1>2 DEF Standing

\* Leaving a junction starts on an edge of the track, at the junction.
LEMMA LeavingStands ==
  ASSUME ShapeAssumption, NEW edges \in SUBSET Edges, NEW j, NEW i \in Incidents(edges, j)
  PROVE  /\ Leaving(i) = Edge(i.edge, OffsetOf(i.edge, i.end), Leaving(i).heading)
         /\ Leaving(i).heading \in Headings /\ i.edge \in edges
         /\ OnEdge(edges, Leaving(i)) /\ world_position(Leaving(i)) = j
<1>1. /\ i.edge \in edges /\ i.edge \in Edges /\ i.end \in Ends
      /\ Shape[i.edge][i.end].place = j
  BY IncidentsAreKnown
<1>2. /\ Leaving(i) = Edge(i.edge, OffsetOf(i.edge, i.end), Leaving(i).heading)
      /\ Leaving(i).heading \in Headings
  BY DEF Leaving, Edge, OffsetOf, Headings
<1>3. PointAt(i.edge, OffsetOf(i.edge, i.end)) = j /\ OffsetOf(i.edge, i.end) \in 0..Shape[i.edge].length
  BY <1>1, PointOfEnd
<1>4. OnEdge(edges, Leaving(i))
  BY <1>1, <1>2, <1>3 DEF OnEdge
<1>5. world_position(Leaving(i)) = j
  BY <1>1, <1>2, <1>3, EdgePosition
<1> QED BY <1>1, <1>2, <1>4, <1>5

\* locate answers with a position of the track.
LEMMA LocatedStands ==
  ASSUME ShapeAssumption, NEW edges \in SUBSET Edges, NEW point, NEW p \in locate(edges, point)
  PROVE  Standing(edges, p)
<1> DEFINE here == Incidents(edges, point)
           passing == {e \in edges : \E x \in 0..Shape[e].length : PointAt(e, x) = point}
           first == CHOOSE e \in passing : \A f \in passing : e <= f
           offsets == {x \in 0..Shape[first].length : PointAt(first, x) = point}
           offset == CHOOSE x \in 0..Shape[first].length :
                        PointAt(first, x) = point /\
                        \A y \in 0..Shape[first].length : PointAt(first, y) = point => x <= y
<1>1. CASE here # {}
  <2>1. p = Leaving(Least(here))
    BY <1>1 DEF locate
  <2>2. Least(here) \in here
    <3>1. here \in SUBSET Known /\ IsFiniteSet(here)
      BY IncidentsAreKnown
    <3> HIDE DEF here
    <3> QED BY <1>1, <3>1, LeastIsThere
  <2> QED BY <2>1, <2>2, LeavingStands DEF Standing
<1>2. CASE here = {}
  <2>1. /\ passing # {}
        /\ p = Edge(first, offset, IF offset = Shape[first].length THEN "Reverse" ELSE "Forward")
    BY <1>2 DEF locate
  <2>2. first \in passing
    <3>1. passing \in SUBSET Nat
      BY DEF ShapeAssumption
    <3>2. \E e \in passing : \A f \in passing : e <= f
      <4> HIDE DEF passing
      <4> QED BY <2>1, <3>1, LeastNumber
    <3> HIDE DEF passing
    <3> QED BY <3>2
  <2> HIDE DEF first
  <2>3. first \in edges /\ \E x \in 0..Shape[first].length : PointAt(first, x) = point
    BY <2>2
  <2>4. offsets \in SUBSET Nat /\ offsets # {}
    <3>1. \A x \in offsets : x \in Nat
      OBVIOUS
    <3> QED BY <2>3, <3>1
  <2>5. \E m \in offsets : \A n \in offsets : m <= n
    <3> HIDE DEF offsets
    <3> QED BY <2>4, LeastNumber
  <2>6. offset \in 0..Shape[first].length
    BY <2>5
  <2> HIDE DEF offset
  <2> QED BY <2>1, <2>3, <2>6 DEF Standing, OnEdge, Headings
<1> QED BY <1>1, <1>2

-----------------------------------------------------------------------------
(* One turn of the loop.                                                   *)

\* A division by a positive number.
LEMMA Division ==
  ASSUME NEW n \in Nat, NEW k \in Nat \ {0}
  PROVE  /\ n \div k \in Nat /\ n % k \in 0..k - 1
         /\ n = k * (n \div k) + (n % k)
         /\ n \div k = 0 => n = n % k
         /\ n \div k # 0 => k + (n % k) <= n
<1> DEFINE q == n \div k
           r == n % k
<1>1. q \in Nat /\ r \in 0..k - 1 /\ n = k * q + r
  BY SMT
<1> HIDE DEF q, r
<1>2. q # 0 => k <= k * q
  BY <1>1, SMT
<1>3. k * q \in Nat /\ (q = 0 => k * q = 0)
  BY <1>1
<1> QED BY <1>1, <1>2, <1>3

\* A free edge keeps the mobile between its ends, and takes it no further from
\* where it was than the distance.
LEMMA Reflected ==
  ASSUME NEW L \in Nat \ {0}, NEW x \in 0..L, NEW h \in Headings, NEW d \in Nat
  PROVE  LET to == advance_reflecting_edge(L, x, h, d)
         IN  to[1] \in 0..L /\ to[2] \in Headings /\ Size(x - to[1]) <= d
<1> DEFINE start == IF h = "Forward" THEN x ELSE 2 * L - x
           n == start + d
           phase == n % (2 * L)
           to == advance_reflecting_edge(L, x, h, d)
<1>1. start \in 0..2 * L /\ n \in Nat /\ 2 * L \in Nat \ {0} /\ (start = x \/ start = 2 * L - x)
  OBVIOUS
<1>2. to = IF d = 0 THEN <<x, h>>
           ELSE IF phase = 0 THEN <<0, "Reverse">>
           ELSE IF phase <= L THEN <<phase, "Forward">>
           ELSE <<2 * L - phase, "Reverse">>
  BY DEF advance_reflecting_edge
<1>3. /\ n \div (2 * L) \in Nat /\ phase \in 0..2 * L - 1
      /\ n \div (2 * L) = 0 => n = phase
      /\ n \div (2 * L) # 0 => 2 * L + phase <= n
  <2> HIDE DEF n
  <2> QED BY <1>1, Division
<1> DEFINE near == IF phase <= L THEN phase ELSE 2 * L - phase
<1>4. near \in 0..L /\ (d # 0 => to[1] = near) /\ (d = 0 => to[1] = x) /\ to[2] \in Headings
  <2> HIDE DEF phase, to
  <2> QED BY <1>2, <1>3 DEF Headings
<1>5. n = start + d
  OBVIOUS
<1>6. Size(x - near) <= d
  <2>1. (near = phase /\ phase \in 0..L) \/ (near = 2 * L - phase /\ phase \in L..2 * L)
    <3> HIDE DEF phase
    <3> QED BY <1>3
  <2>2. n = phase \/ 2 * L + phase <= n
    BY <1>3
  <2>3. phase \in Nat /\ near \in Nat
    BY <1>3, <1>4
  <2> HIDE DEF phase, near, n, start
  <2>4. x - near <= d /\ near - x <= d
    BY <1>1, <1>5, <2>1, <2>2, <2>3
  <2> QED BY <2>3, <2>4 DEF Size
<1>7. Size(x - x) <= d
  BY DEF Size
<1>8. to[1] \in 0..L /\ to[2] \in Headings /\ Size(x - to[1]) <= d
  <2> HIDE DEF near, to
  <2> QED BY <1>4, <1>6, <1>7
<1> QED BY <1>8

LEMMA TurnStands ==
  ASSUME ShapeAssumption, NEW edges \in SUBSET Edges, NEW p, OnEdge(edges, p), NEW left \in Nat
  PROVE  LET w == AfterTurn(p, left)
             from == power_attachment_position(edges, p)
             to == power_attachment_position(edges, w.at)
         IN  /\ Standing(edges, w.at) /\ w.left \in Nat /\ w = [at |-> w.at, left |-> w.left]
             /\ w.left <= left /\ p.edge \in edges /\ w.at.edge = p.edge
             /\ from[1] = p.edge /\ to[1] = p.edge
             /\ IF FreeEdge(p.edge) THEN Size(from[2] - to[2]) <= left - w.left
                ELSE Size(from[2] - to[2]) = left - w.left
<1>1. PICK e \in edges : \E x \in 0..Shape[e].length, h \in Headings : p = Edge(e, x, h)
  BY DEF OnEdge
<1>2. PICK x \in 0..Shape[e].length, h \in Headings : p = Edge(e, x, h)
  BY <1>1
<1> DEFINE L == Shape[e].length
           w == AfterTurn(p, left)
           Moved(y) == IF FreeEdge(e) THEN Size(x - y) <= left - w.left
                       ELSE Size(x - y) = left - w.left
<1>3. /\ e \in Edges /\ L \in Nat \ {0} /\ x \in 0..L
      /\ p.edge = e /\ p.offset = x /\ p.heading = h /\ h \in {"Forward", "Reverse"}
      /\ power_attachment_position(edges, p) = <<e, x>>
  BY <1>2, EdgePosition DEF ShapeAssumption, Headings
<1>4. /\ ToEnd(p) = (IF h = "Forward" THEN L - x ELSE x)
      /\ EndOffset(p) = (IF h = "Forward" THEN L ELSE 0)
      /\ HeadedEnd(p) = (IF h = "Forward" THEN "B" ELSE "A")
  BY <1>3 DEF ToEnd, EndOffset, HeadedEnd
\* Where a turn leaves the mobile: on the edge or at the junction it is headed for.
<1>5. ASSUME NEW y \in 0..L, NEW g \in Headings, w.at = Edge(e, y, g), Moved(y),
             w = [at |-> w.at, left |-> w.left], w.left \in 0..left
      PROVE  /\ Standing(edges, w.at) /\ w.left \in Nat /\ w = [at |-> w.at, left |-> w.left]
             /\ w.left <= left /\ w.at.edge = e
             /\ power_attachment_position(edges, w.at) = <<e, y>> /\ Moved(y)
  <2>1. e \in edges /\ y \in 0..Shape[e].length
    OBVIOUS
  <2> HIDE DEF w, Moved, L
  <2> QED BY <1>5, <2>1, EdgePosition
<1> DEFINE Goal == \E y \in 0..L :
                      /\ Standing(edges, w.at) /\ w.left \in Nat /\ w = [at |-> w.at, left |-> w.left]
                      /\ w.left <= left /\ w.at.edge = e
                      /\ power_attachment_position(edges, w.at) = <<e, y>> /\ Moved(y)
<1>6. ASSUME FreeEdge(e) PROVE Goal
  <2> DEFINE to == advance_reflecting_edge(L, x, h, left)
  <2>1. w = [at |-> Edge(e, to[1], to[2]), left |-> 0]
    BY <1>3, <1>6 DEF AfterTurn
  <2>2. to[1] \in 0..L /\ to[2] \in Headings /\ Size(x - to[1]) <= left
    BY <1>3, Reflected
  <2>3. w.at = Edge(e, to[1], to[2]) /\ w.left = 0
    BY <2>1
  <2>4. Moved(to[1])
    <3> HIDE DEF w, to
    <3> QED BY <1>6, <2>2, <2>3
  <2> HIDE DEF w, to, Moved
  <2> QED BY <1>5, <2>1, <2>2, <2>3, <2>4
<1>7. ASSUME ~FreeEdge(e) /\ left < ToEnd(p) PROVE Goal
  <2> DEFINE y == x + (IF h = "Forward" THEN left ELSE -left)
  <2>1. w = [at |-> Edge(e, y, h), left |-> 0]
    BY <1>3, <1>7 DEF AfterTurn
  <2>2. y \in 0..L /\ Size(x - y) = left
    BY <1>3, <1>4, <1>7 DEF Size
  <2>3. w.at = Edge(e, y, h) /\ w.left = 0
    BY <2>1
  <2>4. Moved(y)
    <3> HIDE DEF w, y
    <3> QED BY <1>7, <2>2, <2>3
  <2> HIDE DEF w, y, Moved
  <2> QED BY <1>5, <2>1, <2>2, <2>3, <2>4
<1>8. ASSUME ~FreeEdge(e) /\ ~(left < ToEnd(p)) /\ Bound(p) PROVE Goal
  <2> DEFINE end == HeadedEnd(p)
  <2>1. w = [at |-> Junction(Shape[e][end].place, e), left |-> left - ToEnd(p)]
    BY <1>3, <1>8 DEF AfterTurn, AtHeadedJunction
  <2>2. w.at = Junction(Shape[e][end].place, e) /\ w.left = left - ToEnd(p)
    BY <2>1
  <2>3. end \in Ends /\ Shape[e][end].bound /\ OffsetOf(e, end) = EndOffset(p)
    BY <1>3, <1>4, <1>8 DEF Bound, Ends, OffsetOf
  <2>4. /\ Standing(edges, w.at) /\ w.at.edge = e
        /\ power_attachment_position(edges, w.at) = <<e, EndOffset(p)>>
    <3> HIDE DEF w, end
    <3> QED BY <2>2, <2>3, JunctionPosition
  <2>5. EndOffset(p) \in 0..L /\ Size(x - EndOffset(p)) = ToEnd(p) /\ ToEnd(p) \in 0..left
    BY <1>3, <1>4, <1>8 DEF Size
  <2>6. Moved(EndOffset(p)) /\ w.left \in Nat /\ w.left <= left
    <3> HIDE DEF w
    <3> QED BY <1>8, <2>2, <2>5
  <2> HIDE DEF w, Moved, end
  <2> QED BY <2>1, <2>2, <2>4, <2>5, <2>6
<1>9. ASSUME ~FreeEdge(e) /\ ~(left < ToEnd(p)) /\ ~Bound(p) PROVE Goal
  <2> DEFINE g == IF left = ToEnd(p) THEN p.heading ELSE Opposite(p.heading)
             y == EndOffset(p)
  <2>1. w = [at |-> Edge(e, y, g), left |-> left - ToEnd(p)]
    BY <1>3, <1>9 DEF AfterTurn
  <2>2. g \in Headings
    BY <1>3 DEF Headings, Opposite
  <2>3. w.at = Edge(e, y, g) /\ w.left = left - ToEnd(p)
    BY <2>1
  <2>4. y \in 0..L /\ Size(x - y) = ToEnd(p) /\ ToEnd(p) \in 0..left
    BY <1>3, <1>4, <1>9 DEF Size
  <2>5. Moved(y) /\ w.left \in 0..left
    <3> HIDE DEF w, y
    <3> QED BY <1>9, <2>3, <2>4
  <2> HIDE DEF w, y, g, Moved
  <2> QED BY <1>5, <2>1, <2>2, <2>3, <2>4, <2>5
<1>10. PICK y \in 0..L : /\ Standing(edges, w.at) /\ w.left \in Nat
                        /\ w = [at |-> w.at, left |-> w.left]
                        /\ w.left <= left /\ w.at.edge = e
                        /\ power_attachment_position(edges, w.at) = <<e, y>> /\ Moved(y)
  <2>1. Goal
    <3> HIDE DEF Goal
    <3> QED BY <1>6, <1>7, <1>8, <1>9
  <2> QED BY <2>1
<1>11. e \in edges
  OBVIOUS
<1> HIDE DEF w, L
<1> QED BY <1>3, <1>10, <1>11 DEF w

LEMMA ChoiceIsIncident ==
  ASSUME ShapeAssumption, NEW edges \in SUBSET Edges, NEW p, AtJunction(edges, p), NEW l, NEW r
  PROVE  select_junction_incident(edges, p.junction, p.edge, l, r)
            \in SUBSET Incidents(edges, p.junction)
<1>1. PICK e \in edges, end \in Ends : Shape[e][end].bound /\ p = Junction(Shape[e][end].place, e)
  BY DEF AtJunction
<1>2. p.edge = e /\ p.junction = Shape[e][end].place
  BY <1>1 DEF Junction
<1> DEFINE here == Incidents(edges, p.junction)
           back == CHOOSE i \in here : i.edge = p.edge
           others == {i \in here : i.edge # p.edge}
           Turning(side) == {i \in others : exact_turn_side(Incoming(back), Outgoing(i)) = side}
           Sharpest(side) == IF Turning(side) = {} THEN {}
                             ELSE {Preferred(Turning(side), Incoming(back), FALSE)}
<1>3. back \in here
  <2>1. [edge |-> e, end |-> end] \in here
    BY <1>1, <1>2 DEF Incidents
  <2>2. \E i \in here : i.edge = p.edge
    BY <1>2, <2>1
  <2> HIDE DEF here
  <2> QED BY <2>2
<1>4. here \in SUBSET Known /\ IsFiniteSet(here)
  BY IncidentsAreKnown
<1> HIDE DEF here, back
<1>5. Incoming(back) \in Vectors
  <2>1. Outgoing(back) \in Vectors
    BY <1>3, <1>4 DEF Known, Outgoing, ShapeAssumption, Vectors
  <2> QED BY <2>1 DEF Incoming, Vectors
<1>6. ASSUME NEW C \in SUBSET here, C # {}, NEW smallest \in BOOLEAN
      PROVE  Preferred(C, Incoming(back), smallest) \in here
  <2>1. C \in SUBSET Known /\ IsFiniteSet(C)
    BY <1>4, FS_Subset
  <2> QED BY <1>5, <1>6, <2>1, PreferredIsThere
<1>7. \A side : Turning(side) \in SUBSET here /\ others \in SUBSET here
  OBVIOUS
<1>8. \A side : Sharpest(side) \in SUBSET here
  <2> HIDE DEF Turning
  <2> QED BY <1>6, <1>7
<1>9. {IF others = {} THEN back ELSE Preferred(others, Incoming(back), TRUE)} \in SUBSET here
  <2> HIDE DEF others
  <2> QED BY <1>3, <1>6, <1>7
<1>10. select_junction_incident(edges, p.junction, p.edge, l, r) =
          IF l = "High" /\ r = "High" THEN {back}
          ELSE IF l = "Low" /\ r = "Low"
               THEN {IF others = {} THEN back ELSE Preferred(others, Incoming(back), TRUE)}
          ELSE IF l = "High" THEN Sharpest("Left")
          ELSE IF r = "High" THEN Sharpest("Right") ELSE {}
  BY DEF select_junction_incident, here, back
<1> HIDE DEF Sharpest, others
<1> QED BY <1>3, <1>8, <1>9, <1>10 DEF here

-----------------------------------------------------------------------------
(* What a region grants.                                                   *)

\* A grant is a distance, and no power grants none.
LEMMA GrantIsDistance ==
  ASSUME MobilityAssumption, NEW r \in 0..One
  PROVE  scale_movement(Nominal, r) \in Nat /\ scale_movement(Nominal, 0) = 0
<1>1. One \in Nat \ {0} /\ r \in Nat /\ Nominal \in Nat /\ Nominal * 0 = 0
  BY DEF MobilityAssumption
<1> DEFINE n == Nominal * r
<1>2. n \in Nat
  BY <1>1
<1>3. n \div One \in Nat /\ 0 \div One = 0 /\ 0 % One = 0
  <2> HIDE DEF n
  <2>1. /\ 0 \div One \in Nat /\ 0 % One \in 0..One - 1
        /\ 0 \div One = 0 => 0 = 0 % One
        /\ 0 \div One # 0 => One + (0 % One) <= 0
    BY <1>1, Division
  <2>2. 0 \div One = 0
    BY <1>1, <2>1
  <2> QED BY <1>1, <1>2, <2>1, <2>2, Division
<1>4. RoundDivNearestEven(n, One) \in Nat
  <2> HIDE DEF n
  <2> QED BY <1>3 DEF RoundDivNearestEven
<1>5. RoundDivNearestEven(0, One) = 0
  BY <1>1, <1>3 DEF RoundDivNearestEven
<1> QED BY <1>1, <1>4, <1>5 DEF scale_movement

-----------------------------------------------------------------------------
(* The invariant.                                                          *)

\* Where the mobile is carries its power, and all that it can reach shares it.
Lit == /\ ratio = <<>> \/ Regional(ratio)
       /\ walk.left > 0 => Powered(walk.at.edge)

Resting == walk = [at |-> None, left |-> 0]
Walking == /\ Standing(live, walk.at) /\ walk.left \in Nat
           /\ walk = [at |-> walk.at, left |-> walk.left]

TrackInv ==
  /\ live \in SUBSET Edges /\ stage \in {"edit", "grant", "move"}
  /\ place = None \/ Standing(live, place)
  /\ stage # "edit" => place # None
  /\ IF stage = "move" THEN Walking /\ Lit ELSE Resting

LEMMA InitTrack == Init => TrackInv
  BY DEF Init, TrackInv, Resting

LEMMA PlaceKeeps ==
  ASSUME ShapeAssumption, TrackInv, NEW point, PlaceMobile(point)
  PROVE  TrackInv'
<1>1. Standing(live, place')
  BY LocatedStands DEF PlaceMobile, TrackInv
<1>2. /\ stage = "edit" /\ stage' = "edit" /\ live' = live /\ walk' = walk
  BY DEF PlaceMobile
<1>3. Standing(live', place')
  BY <1>1, <1>2
<1> QED BY <1>2, <1>3 DEF TrackInv, Resting, Standing, OnEdge, AtJunction

LEMMA RewireKeeps ==
  ASSUME ShapeAssumption, TrackInv, NEW edges \in SUBSET Edges, Rewire(edges)
  PROVE  TrackInv'
<1>1. /\ stage = "edit" /\ stage' = "edit" /\ live' = edges /\ walk' = walk /\ place' = place
      /\ place # None => Resolves(edges, place)
  BY DEF Rewire
<1>2. place = None \/ Standing(edges, place)
  BY <1>1, StillStanding DEF TrackInv
<1>3. place' = None \/ Standing(live', place')
  BY <1>1, <1>2
<1> QED BY <1>1, <1>3 DEF TrackInv, Resting, Standing, OnEdge, AtJunction

LEMMA SampleKeeps ==
  ASSUME TrackInv, NEW sample, Sample(sample)
  PROVE  TrackInv'
<1> QED BY DEF Sample, TrackInv, Resting, Standing, OnEdge, AtJunction

\* rho: no power system, or a ratio for every edge that meeting edges share.
LEMMA GrantKeeps ==
  ASSUME ShapeAssumption, MobilityAssumption, TrackInv, NEW rho, GrantFrom(rho),
         rho = <<>> \/ (Regional(rho) /\ \A e \in live : rho[e] \in 0..One)
  PROVE  TrackInv'
<1>1. /\ stage = "grant" /\ stage' = "move" /\ ratio' = rho
      /\ live' = live /\ place' = place /\ walk' = [at |-> place, left |-> granted']
      /\ granted' = IF ~grants_stage0_movement THEN 0
                    ELSE IF rho = <<>> THEN Nominal ELSE Granted(rho)
  BY DEF GrantFrom
<1>2. Standing(live, place) /\ live \in SUBSET Edges
  BY <1>1 DEF TrackInv
<1>3. walk'.at = place /\ walk'.left = granted'
  BY <1>1
<1> DEFINE e == power_attachment_position(live, place)[1]
<1>4. e \in live /\ e = place.edge
  <2>1. CASE OnEdge(live, place)
    <3>1. PICK f \in live : \E x \in 0..Shape[f].length, h \in Headings : place = Edge(f, x, h)
      BY <2>1 DEF OnEdge
    <3> QED BY <1>2, <3>1, EdgePosition
  <2>2. CASE AtJunction(live, place)
    <3>1. PICK f \in live, end \in Ends : Shape[f][end].bound /\ place = Junction(Shape[f][end].place, f)
      BY <2>2 DEF AtJunction
    <3>2. /\ power_attachment_position(live, place) = <<f, OffsetOf(f, end)>>
          /\ place.edge = f
      BY <1>2, <3>1, JunctionPosition
    <3> QED BY <3>2
  <2> QED BY <1>2, <2>1, <2>2 DEF Standing
<1>5. granted' \in Nat
  <2>1. rho # <<>> => Granted(rho) \in Nat
    BY <1>4, GrantIsDistance DEF Granted
  <2> QED BY <1>1, <2>1 DEF MobilityAssumption
<1>6. granted' > 0 => rho = <<>> \/ rho[place.edge] > 0
  <2>1. rho # <<>> => Granted(rho) = scale_movement(Nominal, rho[e]) /\ rho[e] \in 0..One
    BY <1>4 DEF Granted
  <2> HIDE DEF e
  <2>2. rho # <<>> /\ rho[e] = 0 => Granted(rho) = 0
    BY <2>1, GrantIsDistance
  <2>3. granted' > 0 /\ rho # <<>> => granted' = Granted(rho)
    BY <1>1
  <2>4. rho # <<>> /\ ~(rho[e] > 0) => rho[e] = 0
    BY <2>1
  <2> QED BY <1>4, <2>2, <2>3, <2>4
<1>7. Walking'
  <2>1. Standing(live', walk'.at)
    BY <1>1, <1>2, <1>3
  <2>2. Standing(live, walk.at)'
    BY <2>1 DEF Standing, OnEdge, AtJunction
  <2> QED BY <1>1, <1>3, <1>5, <2>2 DEF Walking
<1>8. Lit'
  BY <1>1, <1>3, <1>6 DEF Lit, Regional, Powered
<1>9. (place = None \/ Standing(live, place))' /\ (place # None)'
  BY <1>1, <1>2 DEF TrackInv, Standing, OnEdge, AtJunction
<1> QED BY <1>1, <1>2, <1>7, <1>8, <1>9 DEF TrackInv

LEMMA GlideKeeps ==
  ASSUME ShapeAssumption, TrackInv, Glide
  PROVE  TrackInv'
<1>1. /\ stage = "move" /\ stage' = "move" /\ live' = live /\ place' = place /\ ratio' = ratio
      /\ walk.left > 0 /\ walk.at.on = "edge" /\ walk' = AfterTurn(walk.at, walk.left)
  BY DEF Glide, Moving
<1>2. OnEdge(live, walk.at) /\ walk.left \in Nat /\ live \in SUBSET Edges /\ Lit
  BY <1>1 DEF TrackInv, Walking, Standing, AtJunction, Junction
<1>3. /\ Standing(live, walk'.at) /\ walk'.left \in Nat
      /\ walk' = [at |-> walk'.at, left |-> walk'.left] /\ walk'.at.edge = walk.at.edge
  BY <1>1, <1>2, TurnStands
<1>4. Walking'
  BY <1>1, <1>3 DEF Walking, Standing, OnEdge, AtJunction
<1>5. Lit'
  BY <1>1, <1>2, <1>3 DEF Lit, Regional, Powered
<1> QED BY <1>1, <1>4, <1>5 DEF TrackInv, Standing, OnEdge, AtJunction

\* A way out of a junction is an edge that meets the one the mobile came by.
LEMMA WaysMeet ==
  ASSUME ShapeAssumption, TrackInv, stage = "move", walk.at.on = "junction", NEW i \in Choice
  PROVE  /\ i \in Incidents(live, walk.at.junction) /\ i.edge \in live
         /\ walk.at.edge \in live /\ Meet(walk.at.edge, i.edge) /\ AtJunction(live, walk.at)
<1>1. AtJunction(live, walk.at) /\ live \in SUBSET Edges
  BY DEF TrackInv, Walking, Standing, OnEdge, Edge
<1>2. PICK e \in live, end \in Ends :
         Shape[e][end].bound /\ walk.at = Junction(Shape[e][end].place, e)
  BY <1>1 DEF AtJunction
<1>3. walk.at.edge = e /\ walk.at.junction = Shape[e][end].place
  BY <1>2 DEF Junction
<1>4. i \in Incidents(live, walk.at.junction)
  BY <1>1, ChoiceIsIncident DEF Choice
<1>5. /\ i.edge \in live /\ i.end \in Ends
      /\ Shape[i.edge][i.end].bound /\ Shape[i.edge][i.end].place = walk.at.junction
  BY <1>1, <1>4, IncidentsAreKnown
<1> QED BY <1>1, <1>2, <1>3, <1>4, <1>5 DEF Meet

LEMMA LeaveKeeps ==
  ASSUME ShapeAssumption, TrackInv, LeaveJunction
  PROVE  TrackInv'
<1>1. /\ stage = "move" /\ stage' = "move" /\ live' = live /\ place' = place /\ ratio' = ratio
      /\ walk.left > 0 /\ walk.at.on = "junction"
  BY DEF LeaveJunction, Moving
<1>2. PICK i \in Choice : Powered(i.edge) /\ walk' = [walk EXCEPT !.at = Leaving(i)]
  BY DEF LeaveJunction, Ways
<1>3. walk.left \in Nat /\ walk = [at |-> walk.at, left |-> walk.left] /\ Lit /\ live \in SUBSET Edges
  BY <1>1 DEF TrackInv, Walking
<1>4. walk'.at = Leaving(i) /\ walk'.left = walk.left /\ walk' = [at |-> walk'.at, left |-> walk'.left]
  BY <1>2, <1>3
<1>5. Standing(live, Leaving(i)) /\ Leaving(i).edge = i.edge
  <2>1. i \in Incidents(live, walk.at.junction)
    BY <1>1, WaysMeet
  <2>2. OnEdge(live, Leaving(i))
    BY <1>3, <2>1, LeavingStands
  <2> QED BY <2>2 DEF Standing, Leaving, Edge
<1>6. Walking'
  BY <1>1, <1>3, <1>4, <1>5 DEF Walking, Standing, OnEdge, AtJunction
<1>7. Lit'
  BY <1>1, <1>2, <1>3, <1>4, <1>5 DEF Lit, Regional, Powered
<1> QED BY <1>1, <1>6, <1>7 DEF TrackInv, Standing, OnEdge, AtJunction

LEMMA CommitKeeps ==
  ASSUME TrackInv, Commit
  PROVE  TrackInv'
<1>1. /\ stage = "move" /\ stage' = "edit" /\ live' = live /\ place' = walk.at
      /\ walk' = [at |-> None, left |-> 0]
  BY DEF Commit
<1>2. Standing(live, walk.at)
  BY <1>1 DEF TrackInv, Walking
<1>3. Standing(live, place)'
  BY <1>1, <1>2 DEF Standing, OnEdge, AtJunction
<1> QED BY <1>1, <1>3 DEF TrackInv, Resting

LEMMA NextKeepsTrack ==
  ASSUME ShapeAssumption, MobilityAssumption, TrackInv, [Next]_vars
  PROVE  TrackInv'
<1>1. CASE UNCHANGED vars
  BY <1>1 DEF vars, TrackInv, Resting, Walking, Lit, Regional, Powered, Standing, OnEdge, AtJunction
<1>2. CASE \E point \in Points : PlaceMobile(point)
  BY <1>2, PlaceKeeps
<1>3. CASE \E edges \in SUBSET Edges : Rewire(edges)
  BY <1>3, RewireKeeps
<1>4. CASE \E s, l, r \in Levels : Sample([stop |-> s, left |-> l, right |-> r])
  BY <1>4, SampleKeeps
<1>5. CASE GrantFrom(<<>>)
  BY <1>5, GrantKeeps
<1>6. CASE \E rho \in [live -> Ratios] : Regional(rho) /\ GrantFrom(rho)
  <2>1. \A rho \in [live -> Ratios] : \A e \in live : rho[e] \in 0..One
    BY DEF MobilityAssumption
  <2> QED BY <1>6, <2>1, GrantKeeps
<1>7. CASE Movement
  BY <1>7, GlideKeeps, LeaveKeeps, CommitKeeps DEF Movement
<1> QED BY <1>1, <1>2, <1>3, <1>4, <1>5, <1>6, <1>7 DEF Next

-----------------------------------------------------------------------------
(* The theorems.                                                           *)

THEOREM TrackHolds ==
  ASSUME ShapeAssumption, MobilityAssumption
  PROVE  Spec => []TrackInv
BY InitTrack, NextKeepsTrack, PTL DEF Spec

(* Phases 1 and 4 never fail on a mobile (TrackGraph's power_attachment_   *)
(* position and world_position): where it stands, and every place a        *)
(* movement brings it to, is found on the track, and both name one point.  *)
THEOREM MobilesAreFound ==
  ASSUME ShapeAssumption, MobilityAssumption
  PROVE  Spec => []PositionsResolve
<1>1. TrackInv => PositionsResolve
  <2>1. SUFFICES ASSUME TrackInv, NEW p \in {place, walk.at} \ {None}
                 PROVE  /\ Resolves(live, p)
                        /\ LET at == power_attachment_position(live, p)
                           IN  PointAt(at[1], at[2]) = world_position(p)
    BY DEF PositionsResolve
  <2>2. Standing(live, p) /\ live \in SUBSET Edges
    BY <2>1 DEF TrackInv, Walking, Resting
  <2> QED BY <2>2, StandingResolves
<1> QED BY <1>1, TrackHolds, PTL

(* The refusal of stage_movement to enter an edge without power cannot     *)
(* come up: a mobile that was granted a distance has power, and every way  *)
(* out of a junction is in its region.                                     *)
THEOREM PowerIsEverywhere ==
  ASSUME ShapeAssumption, MobilityAssumption
  PROVE  Spec => []DarkNeverBlocks
<1>1. TrackInv => DarkNeverBlocks
  <2>1. SUFFICES ASSUME TrackInv, Moving, walk.at.on = "junction" PROVE Choice \subseteq Ways
    BY DEF DarkNeverBlocks, Ways
  <2>2. stage = "move" /\ walk.left > 0 /\ Lit
    BY <2>1 DEF Moving, TrackInv
  <2>3. ASSUME NEW i \in Choice PROVE Powered(i.edge)
    <3>1. walk.at.edge \in live /\ i.edge \in live /\ Meet(walk.at.edge, i.edge)
      BY <2>1, <2>2, WaysMeet
    <3> QED BY <2>2, <3>1 DEF Lit, Regional, Powered
  <2> QED BY <2>3 DEF Ways
<1> QED BY <1>1, TrackHolds, PTL

(* stage_movement never makes a mobile jump: a turn leads along one edge   *)
(* by the distance it spends, or through a junction for nothing.           *)
THEOREM MobilesNeverJump ==
  ASSUME ShapeAssumption, MobilityAssumption
  PROVE  Spec => NeverJumps
<1> DEFINE Jumpless ==
             stage = "move" /\ stage' = "move" =>
                LET from == power_attachment_position(live, walk.at)
                    to == power_attachment_position(live, walk'.at)
                IN  \/ world_position(walk.at) = world_position(walk'.at) /\ walk'.left = walk.left
                    \/ /\ from[1] = to[1]
                       /\ IF FreeEdge(from[1]) THEN Size(from[2] - to[2]) <= walk.left - walk'.left
                          ELSE Size(from[2] - to[2]) = walk.left - walk'.left
<1>1. ASSUME TrackInv, [Next]_vars PROVE [Jumpless]_vars
  <2>1. SUFFICES ASSUME stage = "move", stage' = "move", Next PROVE Jumpless
    BY <1>1
  <2>2. Glide \/ LeaveJunction
    BY <2>1 DEF Next, PlaceMobile, Rewire, Sample, GrantFrom, Movement, Commit
  <2>3. CASE Glide
    <3>1. /\ OnEdge(live, walk.at) /\ walk.left \in Nat /\ live \in SUBSET Edges
          /\ walk' = AfterTurn(walk.at, walk.left)
      BY <1>1, <2>1, <2>3 DEF Glide, TrackInv, Walking, Standing, AtJunction, Junction
    <3> QED BY <3>1, TurnStands
  <2>4. CASE LeaveJunction
    <3>1. walk.at.on = "junction"
      BY <2>4 DEF LeaveJunction
    <3>2. PICK i \in Choice : walk' = [walk EXCEPT !.at = Leaving(i)]
      BY <2>4 DEF LeaveJunction, Ways
    <3>3. walk = [at |-> walk.at, left |-> walk.left] /\ live \in SUBSET Edges
      BY <1>1, <2>1 DEF TrackInv, Walking
    <3>4. walk'.at = Leaving(i) /\ walk'.left = walk.left
      BY <3>2, <3>3
    <3>5. i \in Incidents(live, walk.at.junction)
      BY <1>1, <2>1, <3>1, WaysMeet
    <3>6. world_position(walk'.at) = walk.at.junction
      BY <3>3, <3>4, <3>5, LeavingStands
    <3>7. world_position(walk.at) = walk.at.junction
      BY <3>1 DEF world_position
    <3> QED BY <3>4, <3>6, <3>7
  <2> QED BY <2>2, <2>3, <2>4
<1> QED BY <1>1, TrackHolds, PTL DEF Spec, NeverJumps
-----------------------------------------------------------------------------
(* A budget spent unit by unit.                                            *)

\* Where single units lead, one unit after another.
LEMMA UnitsBySteps ==
  ASSUME NEW tick, NEW start, NEW k \in Nat
  PROVE  /\ UnitWalk(tick, start, 0) = [at |-> start, spent |-> 0]
         /\ UnitWalk(tick, start, k + 1) = UnitStep(tick, UnitWalk(tick, start, k))
<1> DEFINE Z == [at |-> start, spent |-> 0]
           F(x) == UnitStep(tick, x)
           Runs(g, m) == g = [n \in 0..m |-> IF n = 0 THEN Z ELSE F(g[n - 1])]
           R(m) == CHOOSE g : Runs(g, m)
           Fails == {m \in Nat : ~ \E g : Runs(g, m)}
<1>1. \A m \in Nat : UnitWalk(tick, start, m) = R(m)[m]
  BY DEF UnitWalk
<1> HIDE DEF Z, F
<1>2. Fails = {}
  <2>1. SUFFICES ASSUME Fails # {} PROVE FALSE
    OBVIOUS
  <2>2. PICK m \in Fails : \A j \in Fails : m <= j
    <3> HIDE DEF Runs
    <3>1. Fails \in SUBSET Nat
      OBVIOUS
    <3> HIDE DEF Fails
    <3> QED BY <2>1, <3>1, LeastNumber
  <2>3. m # 0
    <3>1. Runs([n \in 0..0 |-> Z], 0)
      OBVIOUS
    <3> QED BY <2>2, <3>1
  <2>4. PICK g : Runs(g, m - 1)
    <3>1. m - 1 \in Nat /\ ~(m <= m - 1)
      BY <2>2, <2>3
    <3> QED BY <2>2, <3>1
  <2> DEFINE h == [n \in 0..m |-> IF n = m THEN F(g[m - 1]) ELSE g[n]]
  <2>5. Runs(h, m)
    <3>1. ASSUME NEW n \in 0..m PROVE h[n] = IF n = 0 THEN Z ELSE F(h[n - 1])
      <4>1. CASE n = m
        BY <2>2, <2>3, <4>1
      <4>2. CASE n # m
        <5>1. n \in 0..(m - 1) /\ (n # 0 => n - 1 \in 0..(m - 1) /\ n - 1 # m)
          BY <2>2, <4>2
        <5> QED BY <2>4, <2>2, <4>2, <5>1
      <4> QED BY <4>1, <4>2
    <3> QED BY <3>1
  <2> QED BY <2>2, <2>5
<1>3. ASSUME NEW m \in Nat PROVE Runs(R(m), m)
  <2> HIDE DEF Runs
  <2> QED BY <1>2
<1> HIDE DEF R
<1>4. R(k)[k] = R(k + 1)[k]
  <2> DEFINE Apart == {m \in 0..k : R(k)[m] # R(k + 1)[m]}
  <2>1. SUFFICES ASSUME Apart # {} PROVE FALSE
    OBVIOUS
  <2>2. PICK m \in Apart : \A j \in Apart : m <= j
    <3>1. Apart \in SUBSET Nat
      OBVIOUS
    <3> HIDE DEF Apart
    <3> QED BY <2>1, <3>1, LeastNumber
  <2>3. m \in 0..k /\ m \in 0..(k + 1) /\ k + 1 \in Nat
    OBVIOUS
  <2>4. m = 0 \/ (m - 1 \in 0..k /\ R(k)[m - 1] = R(k + 1)[m - 1])
    BY <2>2, <2>3
  <2>5. /\ R(k)[m] = IF m = 0 THEN Z ELSE F(R(k)[m - 1])
        /\ R(k + 1)[m] = IF m = 0 THEN Z ELSE F(R(k + 1)[m - 1])
    BY <1>3, <2>3
  <2> QED BY <2>2, <2>4, <2>5
<1>5. R(0)[0] = Z /\ k + 1 \in Nat /\ R(k + 1)[k + 1] = F(R(k + 1)[k])
  BY <1>3
<1>6. UnitWalk(tick, start, 0) = Z /\ UnitWalk(tick, start, k + 1) = F(UnitWalk(tick, start, k))
  BY <1>1, <1>4, <1>5
<1> QED BY <1>6 DEF F, Z

\* Units that lead from place to place, as far as the places are known.
LEMMA UnitsFollow ==
  ASSUME NEW tick, NEW start, NEW n \in Nat, NEW k \in Nat, NEW X,
         UnitStep(tick, UnitWalk(tick, start, n)) = [at |-> X[1], spent |-> n + 1],
         \A j \in 1..k - 1 : /\ ~Stuck(tick, X[j])
                             /\ Onward(Ready(tick, X[j])) = X[j + 1]
  PROVE  \A j \in 1..k : UnitWalk(tick, start, n + j) = [at |-> X[j], spent |-> n + j]
<1> DEFINE Apart == {j \in 1..k : UnitWalk(tick, start, n + j) # [at |-> X[j], spent |-> n + j]}
<1>1. SUFFICES ASSUME Apart # {} PROVE FALSE
  OBVIOUS
<1>2. PICK m \in Apart : \A j \in Apart : m <= j
  <2>1. Apart \in SUBSET Nat
    OBVIOUS
  <2> HIDE DEF Apart
  <2> QED BY <1>1, <2>1, LeastNumber
<1>3. m \in 1..k /\ UnitWalk(tick, start, n + m) # [at |-> X[m], spent |-> n + m]
  BY <1>2
<1>4. CASE m = 1
  BY <1>3, <1>4, UnitsBySteps
<1>5. CASE m # 1
  <2> DEFINE i == m - 1
  <2>1. i \in 1..k - 1 /\ i \in 1..k /\ n + i \in Nat /\ (n + i) + 1 = n + m /\ i + 1 = m /\ ~(m <= i)
    BY <1>3, <1>5
  <2>2. UnitWalk(tick, start, n + i) = [at |-> X[i], spent |-> n + i]
    BY <1>2, <2>1
  <2>3. ~Stuck(tick, X[i]) /\ Onward(Ready(tick, X[i])) = X[m]
    <3> HIDE DEF i
    <3>1. Onward(Ready(tick, X[i])) = X[i + 1] /\ ~Stuck(tick, X[i])
      BY <2>1
    <3> QED BY <2>1, <3>1
  <2>4. UnitWalk(tick, start, n + m) = UnitStep(tick, UnitWalk(tick, start, n + i))
    <3> HIDE DEF i
    <3>1. UnitWalk(tick, start, (n + i) + 1) = UnitStep(tick, UnitWalk(tick, start, n + i))
      BY <2>1, UnitsBySteps
    <3> QED BY <2>1, <3>1
  <2> DEFINE w == [at |-> X[i], spent |-> n + i]
  <2>5. w.at = X[i] /\ w.spent + 1 = n + m
    BY <2>1
  <2> HIDE DEF w, i
  <2>6. UnitStep(tick, w) = [at |-> X[m], spent |-> n + m]
    BY <2>3, <2>5 DEF UnitStep
  <2> QED BY <1>3, <2>2, <2>4, <2>6 DEF w
<1> QED BY <1>4, <1>5

\* Units that are stuck stay where they are.
LEMMA UnitsStayStuck ==
  ASSUME NEW tick, NEW start, NEW n \in Nat, NEW k \in Nat,
         Stuck(tick, UnitWalk(tick, start, n).at)
  PROVE  UnitWalk(tick, start, n + k) = UnitWalk(tick, start, n)
<1> DEFINE Apart == {j \in 0..k : UnitWalk(tick, start, n + j) # UnitWalk(tick, start, n)}
<1>1. SUFFICES ASSUME Apart # {} PROVE FALSE
  OBVIOUS
<1>2. PICK m \in Apart : \A j \in Apart : m <= j
  <2>1. Apart \in SUBSET Nat
    OBVIOUS
  <2> HIDE DEF Apart
  <2> QED BY <1>1, <2>1, LeastNumber
<1>3. m \in 0..k /\ UnitWalk(tick, start, n + m) # UnitWalk(tick, start, n) /\ m # 0
  BY <1>2
<1> DEFINE i == m - 1
<1>4. i \in 0..k /\ n + i \in Nat /\ (n + i) + 1 = n + m /\ ~(m <= i)
  BY <1>3
<1>5. UnitWalk(tick, start, n + i) = UnitWalk(tick, start, n)
  BY <1>2, <1>4
<1> HIDE DEF i
<1>6. UnitWalk(tick, start, n + m) = UnitStep(tick, UnitWalk(tick, start, n + i))
  <2>1. UnitWalk(tick, start, (n + i) + 1) = UnitStep(tick, UnitWalk(tick, start, n + i))
    BY <1>4, UnitsBySteps
  <2> QED BY <1>4, <2>1
<1> QED BY <1>3, <1>5, <1>6 DEF UnitStep

\* A unit on an edge: it turns round at the end, moves one, and is at the
\* junction when that is where the edge ends.
LEMMA UnitOnEdge ==
  ASSUME NEW tick, NEW e, NEW y \in Int, NEW h \in Headings, Shape[e].length \in Nat
  PROVE  LET Rest(x, g) == IF g = "Forward" THEN Shape[e].length - x ELSE x
             z == IF h = "Forward" THEN y + 1 ELSE y - 1
             end == IF h = "Forward" THEN "B" ELSE "A"
         IN  /\ ~Stuck(tick, Edge(e, y, h))
             /\ Ready(tick, Edge(e, y, h)) = Edge(e, y, IF Rest(y, h) = 0 THEN Opposite(h) ELSE h)
             /\ Onward(Edge(e, y, h)) =
                   IF Rest(z, h) = 0 /\ Shape[e][end].bound
                   THEN Junction(Shape[e][end].place, e) ELSE Edge(e, z, h)
<1> DEFINE Rest(x, g) == IF g = "Forward" THEN Shape[e].length - x ELSE x
           z == IF h = "Forward" THEN y + 1 ELSE y - 1
           end == IF h = "Forward" THEN "B" ELSE "A"
           p == Edge(e, y, h)
           to == Edge(e, z, h)
<1>1. p.on = "edge" /\ p.edge = e /\ p.offset = y /\ p.heading = h
  BY DEF Edge
<1>2. to.on = "edge" /\ to.edge = e /\ to.offset = z /\ to.heading = h
  BY DEF Edge
<1>3. [p EXCEPT !.heading = Opposite(@)] = Edge(e, y, Opposite(h))
  BY DEF Edge
<1>4. [p EXCEPT !.offset = IF p.heading = "Forward" THEN @ + 1 ELSE @ - 1] = to
  BY DEF Edge
<1>5. ToEnd(p) = Rest(y, h)
  <2> HIDE DEF p
  <2> QED BY <1>1 DEF ToEnd
<1>6. ToEnd(to) = Rest(z, h) /\ (Bound(to) <=> Shape[e][end].bound)
      /\ AtHeadedJunction(to) = Junction(Shape[e][end].place, e)
  <2> HIDE DEF to, z
  <2> QED BY <1>2 DEF ToEnd, Bound, HeadedEnd, AtHeadedJunction
<1>7. ~Stuck(tick, p)
  <2> HIDE DEF p
  <2> QED BY <1>1 DEF Stuck
<1>8. Ready(tick, p) = Edge(e, y, IF Rest(y, h) = 0 THEN Opposite(h) ELSE h)
  <2>1. Ready(tick, p) = IF Rest(y, h) = 0 THEN Edge(e, y, Opposite(h)) ELSE p
    <3> HIDE DEF p, Rest
    <3> QED BY <1>1, <1>3, <1>5 DEF Ready
  <2> QED BY <2>1
<1>9. Onward(p) = IF Rest(z, h) = 0 /\ Shape[e][end].bound
                  THEN Junction(Shape[e][end].place, e) ELSE to
  <2> HIDE DEF p, to, Rest, z, end
  <2> QED BY <1>4, <1>6 DEF Onward
<1> QED BY <1>7, <1>8, <1>9

\* Along an edge, up to its end and to the junction that is there.
Along(q, j) ==
  IF j = ToEnd(q) /\ Bound(q) THEN AtHeadedJunction(q)
  ELSE Edge(q.edge, IF q.heading = "Forward" THEN q.offset + j ELSE q.offset - j, q.heading)

LEMMA UnitsAlong ==
  ASSUME ShapeAssumption, NEW tick, NEW e \in Edges, NEW x \in 0..Shape[e].length, NEW h \in Headings,
         NEW j \in Nat, j < ToEnd(Edge(e, x, h))
  PROVE  LET q == Edge(e, x, h)
         IN  /\ ~Stuck(tick, Along(q, j)) /\ Ready(tick, Along(q, j)) = Along(q, j)
             /\ Onward(Along(q, j)) = Along(q, j + 1) /\ Along(q, 0) = q
<1> DEFINE q == Edge(e, x, h)
           L == Shape[e].length
           y == IF h = "Forward" THEN x + j ELSE x - j
           z == IF h = "Forward" THEN y + 1 ELSE y - 1
           end == IF h = "Forward" THEN "B" ELSE "A"
<1>1. q.edge = e /\ q.offset = x /\ q.heading = h
  BY DEF Edge
<1>2. L \in Nat \ {0} /\ x \in 0..L /\ h \in {"Forward", "Reverse"}
  BY DEF ShapeAssumption, Headings
<1>3. /\ ToEnd(q) = (IF h = "Forward" THEN L - x ELSE x)
      /\ Bound(q) <=> Shape[e][end].bound
      /\ AtHeadedJunction(q) = Junction(Shape[e][end].place, e)
  <2> HIDE DEF q
  <2> QED BY <1>1 DEF ToEnd, Bound, HeadedEnd, AtHeadedJunction
<1>4. /\ Along(q, j) = Edge(e, y, h)
      /\ Along(q, j + 1) = IF j + 1 = ToEnd(q) /\ Shape[e][end].bound
                           THEN Junction(Shape[e][end].place, e) ELSE Edge(e, z, h)
      /\ Along(q, 0) = Edge(e, x, h)
  <2>1. (IF h = "Forward" THEN x + (j + 1) ELSE x - (j + 1)) = z
        /\ (IF h = "Forward" THEN x + 0 ELSE x - 0) = x
    BY <1>2
  <2>2. ToEnd(q) # j /\ ToEnd(q) # 0
    BY <1>2, <1>3
  <2> HIDE DEF q, y, z, end
  <2> QED BY <1>1, <1>3, <2>1, <2>2 DEF Along, y
<1>5. /\ y \in Int /\ (IF h = "Forward" THEN L - y ELSE y) # 0
      /\ (IF h = "Forward" THEN L - z ELSE z) = 0 <=> j + 1 = ToEnd(q)
  <2> DEFINE t == ToEnd(q)
  <2>1. t = (IF h = "Forward" THEN L - x ELSE x) /\ j < t
    BY <1>3
  <2> HIDE DEF t, L
  <2>2. CASE h = "Forward"
    BY <1>2, <2>1, <2>2 DEF t
  <2>3. CASE h = "Reverse"
    BY <1>2, <2>1, <2>3 DEF t
  <2> QED BY <1>2, <2>2, <2>3
<1>6. /\ ~Stuck(tick, Edge(e, y, h)) /\ Ready(tick, Edge(e, y, h)) = Edge(e, y, h)
      /\ Onward(Edge(e, y, h)) = IF j + 1 = ToEnd(q) /\ Shape[e][end].bound
                                 THEN Junction(Shape[e][end].place, e) ELSE Edge(e, z, h)
  <2> HIDE DEF q, y
  <2> QED BY <1>2, <1>5, UnitOnEdge
<1> QED BY <1>4, <1>6

\* A number has one quotient and one rest.
LEMMA OneRest ==
  ASSUME NEW d \in Nat \ {0}, NEW q \in Nat, NEW p \in Nat, NEW r \in 0..(d - 1),
         NEW m \in 0..(d - 1), d * q + r = d * p + m
  PROVE  r = m
<1>1. ASSUME NEW x \in Nat, NEW y \in Nat, x > y PROVE d * x >= d * y + d
  <2> DEFINE z == x - y
  <2>1. z \in Nat /\ z >= 1
    BY <1>1
  <2>2. d * z >= d
    <3> HIDE DEF z
    <3> QED BY <2>1
  <2>3. d * x = d * y + d * z
    OBVIOUS
  <2>4. d * x \in Int /\ d * y \in Int /\ d * z \in Int
    OBVIOUS
  <2> HIDE DEF z
  <2> QED BY <2>2, <2>3, <2>4
<1>2. d * q \in Int /\ d * p \in Int
  OBVIOUS
<1>3. ~(q > p) /\ ~(p > q)
  BY <1>1, <1>2
<1> QED BY <1>2, <1>3

\* The rest of the next number.
LEMMA NextRest ==
  ASSUME NEW n \in Nat, NEW d \in Nat \ {0}
  PROVE  (n + 1) % d = IF n % d = d - 1 THEN 0 ELSE (n % d) + 1
<1> DEFINE q == n \div d
           r == n % d
           p == (n + 1) \div d
           m == (n + 1) % d
<1>1. /\ q \in Nat /\ r \in 0..(d - 1) /\ n = d * q + r
      /\ p \in Nat /\ m \in 0..(d - 1) /\ n + 1 = d * p + m
  <2>1. n + 1 \in Nat
    OBVIOUS
  <2> QED BY <2>1, Division
<1> HIDE DEF q, r, p, m
<1>2. d * q \in Int /\ d * (q + 1) = d * q + d /\ q + 1 \in Nat /\ d * p \in Int
  BY <1>1
<1>3. CASE r = d - 1
  <2>1. d * (q + 1) + 0 = d * p + m
    BY <1>1, <1>2, <1>3
  <2>2. 0 \in 0..(d - 1)
    OBVIOUS
  <2>3. m = 0
    BY <1>1, <1>2, <2>1, <2>2, OneRest
  <2> QED BY <1>3, <2>3 DEF r, m
<1>4. CASE r # d - 1
  <2>1. d * q + (r + 1) = d * p + m /\ r + 1 \in 0..(d - 1)
    BY <1>1, <1>2, <1>4
  <2>2. m = r + 1
    BY <1>1, <2>1, OneRest
  <2> QED BY <1>4, <2>2 DEF r, m
<1> QED BY <1>3, <1>4

\* Along a free edge, to and fro.
Bounced(q, j) ==
  LET to == advance_reflecting_edge(Shape[q.edge].length, q.offset, q.heading, j)
  IN  Edge(q.edge, to[1], to[2])

LEMMA UnitsBounced ==
  ASSUME ShapeAssumption, NEW tick, NEW e \in Edges, NEW x \in 0..Shape[e].length, NEW h \in Headings,
         FreeEdge(e), NEW j \in Nat
  PROVE  LET q == Edge(e, x, h)
         IN  /\ ~Stuck(tick, Bounced(q, j)) /\ Onward(Ready(tick, Bounced(q, j))) = Bounced(q, j + 1)
             /\ Bounced(q, 0) = q
<1> DEFINE q == Edge(e, x, h)
           L == Shape[e].length
           start == IF h = "Forward" THEN x ELSE 2 * L - x
           now == (start + j) % (2 * L)
           then == (start + (j + 1)) % (2 * L)
           At(phase) == IF phase = 0 THEN Edge(e, 0, "Reverse")
                        ELSE IF phase <= L THEN Edge(e, phase, "Forward")
                        ELSE Edge(e, 2 * L - phase, "Reverse")
<1>1. q.edge = e /\ q.offset = x /\ q.heading = h
  BY DEF Edge
<1>2. L \in Nat \ {0} /\ x \in 0..L /\ h \in {"Forward", "Reverse"}
  BY DEF ShapeAssumption, Headings
<1>3. start \in Nat /\ 2 * L \in Nat \ {0} /\ start + j \in Nat /\ (start + j) + 1 = start + (j + 1)
  BY <1>2
<1>4. /\ Bounced(q, 0) = q
      /\ j # 0 => Bounced(q, j) = At(now)
      /\ Bounced(q, j + 1) = At(then)
  <2>1. ASSUME NEW d \in Nat
        PROVE  Bounced(q, d) = IF d = 0 THEN Edge(e, x, h) ELSE At((start + d) % (2 * L))
    <3> DEFINE to == advance_reflecting_edge(L, x, h, d)
    <3>1. Bounced(q, d) = Edge(e, to[1], to[2])
      <4> HIDE DEF q
      <4> QED BY <1>1 DEF Bounced
    <3>2. to = LET phase == (start + d) % (2 * L)
               IN  IF d = 0 THEN <<x, h>>
                   ELSE IF phase = 0 THEN <<0, "Reverse">>
                   ELSE IF phase <= L THEN <<phase, "Forward">>
                   ELSE <<2 * L - phase, "Reverse">>
      BY DEF advance_reflecting_edge
    <3> HIDE DEF to, start, L
    <3> QED BY <3>1, <3>2
  <2>2. j + 1 # 0 /\ j + 1 \in Nat
    OBVIOUS
  <2> HIDE DEF At, start
  <2> QED BY <2>1, <2>2
<1>5. now \in 0..(2 * L - 1) /\ then = IF now = 2 * L - 1 THEN 0 ELSE now + 1
  <2>1. now \in 0..(2 * L - 1)
    BY <1>3, Division
  <2>2. (start + j + 1) % (2 * L) = IF (start + j) % (2 * L) = 2 * L - 1 THEN 0 ELSE ((start + j) % (2 * L)) + 1
    <3> HIDE DEF start
    <3> QED BY <1>3, NextRest
  <2> HIDE DEF start
  <2> QED BY <1>3, <2>1, <2>2
\* A unit from anywhere on the edge.
<1>6. ASSUME NEW y \in 0..L, NEW g \in Headings
      PROVE  LET turned == IF (IF g = "Forward" THEN L - y ELSE y) = 0 THEN Opposite(g) ELSE g
             IN  /\ ~Stuck(tick, Edge(e, y, g))
                 /\ Onward(Ready(tick, Edge(e, y, g))) =
                       Edge(e, IF turned = "Forward" THEN y + 1 ELSE y - 1, turned)
  <2> DEFINE turned == IF (IF g = "Forward" THEN L - y ELSE y) = 0 THEN Opposite(g) ELSE g
             z == IF turned = "Forward" THEN y + 1 ELSE y - 1
  <2>1. turned \in Headings /\ y \in Int
    BY DEF Opposite, Headings
  <2>2. ~Stuck(tick, Edge(e, y, g)) /\ Ready(tick, Edge(e, y, g)) = Edge(e, y, turned)
    BY <1>2, <2>1, UnitOnEdge
  <2>3. ~Shape[e]["A"].bound /\ ~Shape[e]["B"].bound
    BY DEF FreeEdge
  <2> HIDE DEF turned
  <2>4. Onward(Edge(e, y, turned)) = Edge(e, z, turned)
    BY <1>2, <2>1, <2>3, UnitOnEdge
  <2> QED BY <2>2, <2>4 DEF turned
<1> HIDE DEF now, then
\* From a phase to the next one.
<1>7. ~Stuck(tick, At(now)) /\ Onward(Ready(tick, At(now))) = At(then)
  <2>1. "Forward" \in Headings /\ "Reverse" \in Headings
        /\ Opposite("Forward") = "Reverse" /\ Opposite("Reverse") = "Forward"
    BY DEF Headings, Opposite
  <2>2. CASE now = 0
    <3>1. At(now) = Edge(e, 0, "Reverse") /\ At(then) = Edge(e, 1, "Forward") /\ 0 \in 0..L
      BY <1>2, <1>5, <2>2
    <3> HIDE DEF At, L
    <3> QED BY <1>6, <2>1, <3>1
  <2>3. CASE now # 0 /\ now < L
    <3>1. /\ At(now) = Edge(e, now, "Forward") /\ At(then) = Edge(e, now + 1, "Forward")
          /\ now \in 0..L /\ L - now # 0
      BY <1>2, <1>5, <2>3
    <3> HIDE DEF At, L
    <3> QED BY <1>6, <2>1, <3>1
  <2>4. CASE now = L
    <3>1. At(now) = Edge(e, L, "Forward") /\ L \in 0..L /\ L - L = 0
      BY <1>2, <2>4
    <3>2. At(then) = Edge(e, L - 1, "Reverse")
      <4>1. L = 1 => then = 0
        BY <1>5, <2>4
      <4>2. L # 1 => then = L + 1 /\ then # 0 /\ ~(then <= L) /\ 2 * L - then = L - 1
        BY <1>2, <1>5, <2>4
      <4>3. L = 1 => L - 1 = 0
        OBVIOUS
      <4> HIDE DEF L
      <4> QED BY <4>1, <4>2, <4>3
    <3> HIDE DEF At, L
    <3> QED BY <1>6, <2>1, <3>1, <3>2
  <2>5. CASE now > L
    <3>1. /\ At(now) = Edge(e, 2 * L - now, "Reverse") /\ 2 * L - now \in 0..L /\ 2 * L - now # 0
      BY <1>2, <1>5, <2>5
    <3>2. At(then) = Edge(e, (2 * L - now) - 1, "Reverse")
      <4>1. now = 2 * L - 1 => then = 0 /\ (2 * L - now) - 1 = 0
        BY <1>2, <1>5
      <4>2. now # 2 * L - 1 => then # 0 /\ ~(then <= L) /\ 2 * L - then = (2 * L - now) - 1
        BY <1>2, <1>5, <2>5
      <4> HIDE DEF L
      <4> QED BY <4>1, <4>2
    <3> HIDE DEF At, L
    <3> QED BY <1>6, <2>1, <3>1, <3>2
  <2> HIDE DEF At, L
  <2> QED BY <1>2, <1>5, <2>2, <2>3, <2>4, <2>5
<1>8. CASE j # 0
  <2> HIDE DEF At, q
  <2> QED BY <1>4, <1>7, <1>8 DEF q
\* The first unit starts from where the mobile is, whichever way it is headed.
<1>9. CASE j = 0
  <2>1. start + j = start /\ now = start % (2 * L)
    <3>1. start + j = start
      BY <1>3, <1>9
    <3> QED BY <3>1 DEF now
  <2>2. now = IF start = 2 * L THEN 0 ELSE start
    <3>1. start \in 0..2 * L
      BY <1>2
    <3>2. /\ start \div (2 * L) \in Nat /\ start % (2 * L) \in 0..(2 * L - 1)
          /\ start \div (2 * L) = 0 => start = start % (2 * L)
          /\ start \div (2 * L) # 0 => 2 * L + (start % (2 * L)) <= start
      <4> HIDE DEF start
      <4> QED BY <1>3, Division
    <3>3. start = 2 * L => start % (2 * L) = 0
      <4> HIDE DEF start
      <4> QED BY <1>2, <3>2
    <3>4. start # 2 * L => start % (2 * L) = start
      <4> DEFINE rest == start % (2 * L)
                 times == start \div (2 * L)
      <4>1. /\ times = 0 => start = rest
            /\ times # 0 => 2 * L + rest <= start
            /\ rest \in Nat
        BY <3>2
      <4> HIDE DEF start, rest, times, L
      <4>2. start # 2 * L => rest = start
        BY <1>2, <3>1, <4>1
      <4> QED BY <4>2 DEF rest
    <3> QED BY <2>1, <3>3, <3>4
  <2>3. CASE x # 0 \/ h = "Reverse"
    <3>1. CASE h = "Forward"
      <4>1. now = x /\ At(now) = Edge(e, x, h)
        BY <1>2, <2>2, <2>3, <3>1
      <4> HIDE DEF At, q
      <4> QED BY <1>4, <1>7, <1>9, <4>1 DEF q
    <3>2. CASE h = "Reverse" /\ x # L
      <4>1. At(now) = Edge(e, x, h)
        <5>1. x = 0 => now = 0
          BY <1>2, <2>2, <3>2
        <5>2. x # 0 => now = 2 * L - x /\ now # 0 /\ ~(now <= L) /\ 2 * L - now = x
          BY <1>2, <2>2, <3>2
        <5> HIDE DEF L
        <5> QED BY <3>2, <5>1, <5>2
      <4> HIDE DEF At, q
      <4> QED BY <1>4, <1>7, <1>9, <4>1 DEF q
    <3>3. CASE h = "Reverse" /\ x = L
      <4>1. now = L /\ L - 1 \in Int /\ L # 0 /\ L \in 0..L
        BY <1>2, <2>2, <3>3
      <4>2. At(then) = Edge(e, L - 1, "Reverse")
        <5>1. L = 1 => then = 0 /\ L - 1 = 0
          BY <1>5, <4>1
        <5>2. L # 1 => then # 0 /\ ~(then <= L) /\ 2 * L - then = L - 1
          BY <1>2, <1>5, <4>1
        <5> HIDE DEF L
        <5> QED BY <5>1, <5>2
      <4>3. /\ ~Stuck(tick, Edge(e, L, "Reverse"))
            /\ Onward(Ready(tick, Edge(e, L, "Reverse"))) = Edge(e, L - 1, "Reverse")
        <5>1. "Reverse" \in Headings
          BY DEF Headings
        <5> HIDE DEF L
        <5> QED BY <1>6, <4>1, <5>1
      <4> HIDE DEF At, q, L
      <4> QED BY <1>4, <1>9, <3>3, <4>2, <4>3 DEF q
    <3> QED BY <1>2, <3>1, <3>2, <3>3
  <2>4. CASE x = 0 /\ h = "Forward"
    <3>1. then = 1 /\ 1 <= L /\ L - 0 # 0 /\ 0 \in 0..L
      BY <1>2, <1>5, <2>2, <2>4
    <3>2. At(then) = Edge(e, 1, "Forward")
      BY <3>1
    <3>3. ~Stuck(tick, Edge(e, 0, "Forward")) /\ Onward(Ready(tick, Edge(e, 0, "Forward"))) = Edge(e, 1, "Forward")
      <4>1. "Forward" \in Headings
        BY DEF Headings
      <4>2. (IF L - 0 = 0 THEN Opposite("Forward") ELSE "Forward") = "Forward" /\ 0 + 1 = 1
        BY <3>1
      <4> HIDE DEF L
      <4> QED BY <1>6, <3>1, <4>1, <4>2
    <3> HIDE DEF At, q
    <3> QED BY <1>4, <1>9, <2>4, <3>2, <3>3 DEF q
  <2> QED BY <1>2, <2>3, <2>4
<1> QED BY <1>4, <1>8, <1>9

\* A mobile at the end of an edge, headed out, has no junction there.
Approaching(p) == p.on = "edge" /\ ToEnd(p) = 0 => ~Bound(p)
\* Off a junction or round at an end, with a way to go.
HeadedIn(p) == p.on = "edge" /\ ToEnd(p) # 0

LEMMA EndOfEdge ==
  ASSUME NEW e, NEW y, NEW h \in Headings
  PROVE  LET p == Edge(e, y, h)
         IN  /\ p.on = "edge" /\ ToEnd(p) = (IF h = "Forward" THEN Shape[e].length - y ELSE y)
             /\ Bound(p) <=> Shape[e][IF h = "Forward" THEN "B" ELSE "A"].bound
<1> DEFINE p == Edge(e, y, h)
<1>1. p.on = "edge" /\ p.edge = e /\ p.offset = y /\ p.heading = h
  BY DEF Edge
<1> HIDE DEF p
<1>2. /\ p.on = "edge" /\ ToEnd(p) = (IF h = "Forward" THEN Shape[e].length - y ELSE y)
      /\ Bound(p) <=> Shape[e][IF h = "Forward" THEN "B" ELSE "A"].bound
  BY <1>1 DEF ToEnd, Bound, HeadedEnd
<1> QED BY <1>2 DEF p

LEMMA LeavingHeadsIn ==
  ASSUME ShapeAssumption, NEW i, i.edge \in Edges
  PROVE  HeadedIn(Leaving(i))
<1>1. Shape[i.edge].length \in Nat \ {0}
  BY DEF ShapeAssumption
<1>2. CASE i.end = "A"
  <2>1. Leaving(i) = Edge(i.edge, 0, "Forward")
    BY <1>2 DEF Leaving
  <2>2. "Forward" \in Headings
    BY DEF Headings
  <2>3. ToEnd(Edge(i.edge, 0, "Forward")) = Shape[i.edge].length - 0
        /\ Edge(i.edge, 0, "Forward").on = "edge"
    BY <2>2, EndOfEdge
  <2> QED BY <1>1, <2>1, <2>3 DEF HeadedIn
<1>3. CASE i.end # "A"
  <2>1. Leaving(i) = Edge(i.edge, Shape[i.edge].length, "Reverse")
    BY <1>3 DEF Leaving
  <2>2. "Reverse" \in Headings
    BY DEF Headings
  <2>3. ToEnd(Edge(i.edge, Shape[i.edge].length, "Reverse")) = Shape[i.edge].length
        /\ Edge(i.edge, Shape[i.edge].length, "Reverse").on = "edge"
    BY <2>2, EndOfEdge
  <2> QED BY <1>1, <2>1, <2>3 DEF HeadedIn
<1> QED BY <1>2, <1>3

\* A turn spends k of what is left and leads along a path of k units, to the end
\* of it or from there off the junction or round.
TurnLeads(tick, q, left, k, path) ==
  LET w == AfterTurn(q, left)
      here == IF k = 0 THEN q ELSE path[k]
  IN  /\ w = [at |-> w.at, left |-> left - k]
      /\ k > 0 => Onward(Ready(tick, q)) = path[1]
      /\ \A j \in 1..k - 1 : ~Stuck(tick, path[j]) /\ Onward(Ready(tick, path[j])) = path[j + 1]
      /\ Approaching(w.at)
      /\ \/ k > 0 /\ w.at = here
         \/ left - k > 0 /\ ~Stuck(tick, here) /\ w.at = Ready(tick, here) /\ HeadedIn(w.at)

LEMMA TurnInUnits ==
  ASSUME ShapeAssumption, NEW edges \in SUBSET Edges, NEW q, OnEdge(edges, q), Approaching(q),
         NEW left \in Nat \ {0}, NEW tick
  PROVE  \E k \in 0..left : \E path : TurnLeads(tick, q, left, k, path)
<1> DEFINE w == AfterTurn(q, left)
           t == ToEnd(q)
           Leads(k, path) ==
             /\ w = [at |-> w.at, left |-> left - k]
             /\ k > 0 => Onward(Ready(tick, q)) = path[1]
             /\ \A j \in 1..k - 1 : ~Stuck(tick, path[j]) /\ Onward(Ready(tick, path[j])) = path[j + 1]
             /\ Approaching(w.at)
             /\ LET here == IF k = 0 THEN q ELSE path[k]
                IN  \/ k > 0 /\ w.at = here
                    \/ /\ left - k > 0 /\ ~Stuck(tick, here)
                       /\ w.at = Ready(tick, here) /\ HeadedIn(w.at)
<1> SUFFICES \E k \in 0..left : \E path : Leads(k, path)
  BY DEF TurnLeads
<1>1. PICK e \in edges : \E x \in 0..Shape[e].length, h \in Headings : q = Edge(e, x, h)
  BY DEF OnEdge
<1>2. PICK x \in 0..Shape[e].length, h \in Headings : q = Edge(e, x, h)
  BY <1>1
<1> DEFINE L == Shape[e].length
           end == IF h = "Forward" THEN "B" ELSE "A"
<1>3. /\ e \in Edges /\ L \in Nat \ {0} /\ x \in 0..L /\ h \in {"Forward", "Reverse"}
      /\ q.edge = e /\ q.offset = x /\ q.heading = h /\ q.on = "edge"
      /\ t = (IF h = "Forward" THEN L - x ELSE x) /\ t \in 0..L
      /\ Bound(q) <=> Shape[e][end].bound
  <2>1. e \in Edges /\ L \in Nat \ {0} /\ x \in 0..L /\ h \in {"Forward", "Reverse"}
    BY DEF ShapeAssumption, Headings
  <2>2. q.edge = e /\ q.offset = x /\ q.heading = h /\ q.on = "edge"
    BY <1>2 DEF Edge
  <2>3. t = (IF h = "Forward" THEN L - x ELSE x) /\ (Bound(q) <=> Shape[e][end].bound)
    BY <1>2, EndOfEdge
  <2>4. t \in 0..L
    <3> HIDE DEF t, L
    <3> QED BY <2>1, <2>3
  <2> QED BY <2>1, <2>2, <2>3, <2>4
\* A free edge.
<1>4. CASE FreeEdge(e)
  <2> DEFINE X == [j \in 0..left |-> Bounced(q, j)]
  <2>1. \A j \in Nat : ~Stuck(tick, Bounced(q, j)) /\ Onward(Ready(tick, Bounced(q, j))) = Bounced(q, j + 1)
                       /\ Bounced(q, 0) = q
    BY <1>2, <1>3, <1>4, UnitsBounced
  <2>2. w = [at |-> Bounced(q, left), left |-> 0]
    BY <1>3, <1>4 DEF AfterTurn, Bounced
  <2>3. w.at = Bounced(q, left) /\ left - left = 0
    BY <2>2
  <2>4. Approaching(w.at)
    <3> DEFINE to == advance_reflecting_edge(L, x, h, left)
    <3>1. to[2] \in Headings
      BY <1>3, Reflected
    <3>2. w.at = Edge(e, to[1], to[2])
      <4> HIDE DEF w
      <4> QED BY <1>3, <2>3 DEF Bounced
    <3>3. ~Shape[e]["A"].bound /\ ~Shape[e]["B"].bound
      BY <1>4 DEF FreeEdge
    <3> HIDE DEF w, to
    <3>4. ~Bound(w.at)
      BY <3>1, <3>2, <3>3, EndOfEdge
    <3> QED BY <3>4 DEF Approaching
  <2>5. X[1] = Onward(Ready(tick, q)) /\ X[left] = w.at
    <3>1. Onward(Ready(tick, q)) = Bounced(q, 1)
      <4>1. Onward(Ready(tick, Bounced(q, 0))) = Bounced(q, 0 + 1) /\ Bounced(q, 0) = q
        BY <2>1
      <4> QED BY <4>1
    <3> HIDE DEF w
    <3> QED BY <2>3, <3>1
  <2>6. ASSUME NEW j \in 1..left - 1
        PROVE  ~Stuck(tick, X[j]) /\ Onward(Ready(tick, X[j])) = X[j + 1]
    <3>1. j \in Nat /\ j \in 0..left /\ j + 1 \in 0..left
      OBVIOUS
    <3> QED BY <2>1, <3>1
  <2> HIDE DEF w, X
  <2>7. w = [at |-> w.at, left |-> left - left] /\ left \in 0..left /\ left > 0
    BY <2>2, <2>3
  <2>8. Leads(left, X)
    BY <2>4, <2>5, <2>6, <2>7
  <2> HIDE DEF Leads
  <2> QED BY <2>7, <2>8
\* An edge with a junction: the units before the end of it.
<1> DEFINE X == [j \in 0..t |-> Along(q, j)]
<1>5. ASSUME t > 0, NEW k \in 1..t
      PROVE  /\ Onward(Ready(tick, q)) = X[1]
             /\ \A j \in 1..k - 1 : ~Stuck(tick, X[j]) /\ Onward(Ready(tick, X[j])) = X[j + 1]
  <2>1. \A j \in Nat : j < t => /\ ~Stuck(tick, Along(q, j)) /\ Ready(tick, Along(q, j)) = Along(q, j)
                                /\ Onward(Along(q, j)) = Along(q, j + 1) /\ Along(q, 0) = q
    BY <1>2, <1>3, UnitsAlong
  <2>2. Onward(Ready(tick, q)) = Along(q, 1)
    <3>1. /\ Ready(tick, Along(q, 0)) = Along(q, 0)
          /\ Onward(Along(q, 0)) = Along(q, 0 + 1) /\ Along(q, 0) = q
      BY <1>5, <2>1
    <3> QED BY <3>1
  <2>3. 1 \in 0..t /\ \A j \in 1..k - 1 : j \in Nat /\ j < t /\ j \in 0..t /\ j + 1 \in 0..t
    <3> HIDE DEF t
    <3> QED BY <1>3, <1>5
  <2>4. X[1] = Along(q, 1) /\ \A j \in 1..k - 1 : X[j] = Along(q, j) /\ X[j + 1] = Along(q, j + 1)
    <3> HIDE DEF t
    <3> QED BY <2>3
  <2> HIDE DEF X, t
  <2> QED BY <2>1, <2>2, <2>3, <2>4
<1>6. CASE ~FreeEdge(e) /\ left < t
  <2> DEFINE y == IF h = "Forward" THEN x + left ELSE x - left
  <2>1. w = [at |-> Edge(e, y, h), left |-> 0]
    <3>1. x + (IF h = "Forward" THEN left ELSE -left) = y
      BY <1>3
    <3> QED BY <1>3, <1>6, <3>1 DEF AfterTurn
  <2>2. w.at = Edge(e, y, h) /\ w = [at |-> w.at, left |-> left - left]
    BY <2>1
  <2>3. X[left] = w.at
    <3>1. left \in 0..t /\ left # t
      <4> HIDE DEF t
      <4> QED BY <1>3, <1>6
    <3>2. X[left] = Along(q, left)
      BY <3>1
    <3> HIDE DEF X, w, t
    <3>3. Along(q, left) = Edge(e, y, h)
      BY <1>3, <3>1 DEF Along, t
    <3> QED BY <2>2, <3>2, <3>3
  <2>4. Approaching(w.at)
    <3>1. (IF h = "Forward" THEN L - y ELSE y) # 0
      <4> HIDE DEF t, L
      <4> QED BY <1>3, <1>6
    <3>2. ToEnd(Edge(e, y, h)) # 0
      <4> HIDE DEF y, L
      <4> QED BY <3>1, EndOfEdge DEF L
    <3> HIDE DEF w, y
    <3> QED BY <2>2, <3>2 DEF Approaching
  <2>5. left \in 1..t /\ left \in 0..left /\ left > 0 /\ t > 0
    <3> HIDE DEF t
    <3> QED BY <1>3, <1>6
  <2> HIDE DEF w, X, t
  <2>6. Leads(left, X)
    BY <1>5, <2>2, <2>3, <2>4, <2>5
  <2> HIDE DEF Leads
  <2> QED BY <2>5, <2>6
<1>7. CASE ~FreeEdge(e) /\ ~(left < t) /\ Bound(q)
  <2>1. w = [at |-> AtHeadedJunction(q), left |-> left - t]
    BY <1>3, <1>7 DEF AfterTurn
  <2>2. w.at = AtHeadedJunction(q) /\ w = [at |-> w.at, left |-> left - t]
    BY <2>1
  <2>3. t \in 1..t /\ t \in 0..left /\ t > 0 /\ t \in 0..t
    <3>1. t # 0
      BY <1>3, <1>7 DEF Approaching
    <3> HIDE DEF t
    <3> QED BY <1>3, <1>7, <3>1
  <2>4. X[t] = w.at
    <3>1. X[t] = Along(q, t)
      BY <2>3
    <3>2. Along(q, t) = AtHeadedJunction(q)
      BY <1>7 DEF Along
    <3> HIDE DEF X, w, t
    <3> QED BY <2>2, <3>1, <3>2
  <2>5. Approaching(w.at)
    <3>1. AtHeadedJunction(q).on = "junction"
      BY DEF AtHeadedJunction, Junction
    <3> HIDE DEF w
    <3> QED BY <2>2, <3>1 DEF Approaching
  <2> HIDE DEF w, X, t
  <2>6. Leads(t, X)
    BY <1>5, <2>2, <2>3, <2>4, <2>5
  <2> HIDE DEF Leads
  <2> QED BY <2>3, <2>6
<1>8. CASE ~FreeEdge(e) /\ ~(left < t) /\ ~Bound(q)
  <2> DEFINE y == IF h = "Forward" THEN L ELSE 0
             g == IF left = t THEN h ELSE Opposite(h)
  <2>1. w = [at |-> Edge(e, y, g), left |-> left - t]
    <3>1. EndOffset(q) = y
      BY <1>3 DEF EndOffset
    <3> QED BY <1>3, <1>8, <3>1 DEF AfterTurn
  <2>2. w.at = Edge(e, y, g) /\ w = [at |-> w.at, left |-> left - t]
    BY <2>1
  <2>3. t \in 0..left /\ t \in 0..t /\ (t > 0 => t \in 1..t) /\ (left # t => left - t > 0)
    <3> HIDE DEF t
    <3> QED BY <1>3, <1>8
\* Where the units lead is the end of the edge.
  <2>4. Along(q, t) = Edge(e, y, h)
    <3>1. (IF h = "Forward" THEN x + t ELSE x - t) = y
      <4> HIDE DEF t, L
      <4> QED BY <1>3
    <3>2. Along(q, t) = Edge(e, IF h = "Forward" THEN x + t ELSE x - t, h)
      BY <1>3, <1>8 DEF Along
    <3> QED BY <3>1, <3>2
  <2>5. t > 0 => X[t] = Edge(e, y, h)
    <3>1. X[t] = Along(q, t)
      BY <2>3
    <3> HIDE DEF X, t, y
    <3> QED BY <2>4, <3>1
  <2>6. t = 0 => q = Edge(e, y, h)
    <3>1. t = 0 => x = y
      <4> HIDE DEF t, L
      <4> QED BY <1>3
    <3> HIDE DEF t, y
    <3> QED BY <1>2, <3>1
  <2>7. /\ ToEnd(Edge(e, y, h)) = 0 /\ ~Bound(Edge(e, y, h)) /\ y \in Int
        /\ Edge(e, y, h).on = "edge"
    <3>1. (IF h = "Forward" THEN L - y ELSE y) = 0 /\ y \in Int
      <4> HIDE DEF L
      <4> QED BY <1>3
    <3>2. ~Shape[e][end].bound
      BY <1>3, <1>8
    <3> HIDE DEF y
    <3> QED BY <3>1, <3>2, EndOfEdge
  <2>8. CASE left = t
    <3>1. g = h /\ t > 0
      BY <2>8
    <3>2. Approaching(w.at) /\ X[t] = w.at
      <4> HIDE DEF w, X, t, y, g
      <4> QED BY <2>2, <2>5, <2>7, <3>1 DEF Approaching
    <3> HIDE DEF w, X, t, g, y
    <3>3. Leads(t, X)
      BY <1>5, <2>2, <2>3, <3>1, <3>2
    <3> HIDE DEF Leads
    <3> QED BY <2>3, <3>3
  <2>9. CASE left # t
    <3>1. ~Stuck(tick, Edge(e, y, h)) /\ Ready(tick, Edge(e, y, h)) = Edge(e, y, Opposite(h))
      <4>1. (IF h = "Forward" THEN L - y ELSE y) = 0 /\ y \in Int /\ L \in Nat
        <5> HIDE DEF L
        <5> QED BY <1>3
      <4> HIDE DEF y
      <4> QED BY <4>1, UnitOnEdge
    <3>2. w.at = Edge(e, y, Opposite(h))
      <4> HIDE DEF w, t, y
      <4> QED BY <2>2, <2>9
    <3>3. HeadedIn(w.at) /\ Approaching(w.at)
      <4>1. Opposite(h) \in Headings
            /\ (IF Opposite(h) = "Forward" THEN L - y ELSE y) = L
        <5> HIDE DEF L
        <5> QED BY <1>3 DEF Opposite, Headings
      <4> HIDE DEF y
      <4>2. ToEnd(Edge(e, y, Opposite(h))) = L /\ Edge(e, y, Opposite(h)).on = "edge"
        BY <4>1, EndOfEdge
      <4> HIDE DEF w, L
      <4> QED BY <1>3, <3>2, <4>2 DEF HeadedIn, Approaching
    <3> HIDE DEF w, X, y, g
    <3>4. CASE t = 0
      <4>1. 0 \in 0..left /\ ~(0 > 0) /\ left - 0 > 0 /\ \A j \in 1..0 - 1 : FALSE
        OBVIOUS
      <4> HIDE DEF t
      <4>2. w = [at |-> w.at, left |-> left - 0] /\ ~Stuck(tick, q) /\ w.at = Ready(tick, q)
        BY <2>2, <2>6, <3>1, <3>2, <3>4
      <4>3. Leads(0, X)
        BY <3>3, <4>1, <4>2
      <4> HIDE DEF Leads
      <4> QED BY <4>1, <4>3
    <3>5. CASE t # 0
      <4>1. t > 0
        BY <2>3, <3>5
      <4>2. ~Stuck(tick, X[t]) /\ w.at = Ready(tick, X[t])
        <5> HIDE DEF t
        <5> QED BY <2>5, <3>1, <3>2, <4>1
      <4> HIDE DEF t
      <4>3. Leads(t, X)
        BY <1>5, <2>2, <2>3, <2>9, <3>3, <4>1, <4>2
      <4> HIDE DEF Leads
      <4> QED BY <2>3, <4>3
    <3> QED BY <3>4, <3>5
  <2> QED BY <2>8, <2>9
<1> HIDE DEF t, Leads
<1> QED BY <1>4, <1>6, <1>7, <1>8

\* A mobile is where as many single units as it has spent would have taken it,
\* or beyond: off the junction, or round at the end, that they took it to.
Paced ==
  /\ place # None => Approaching(place)
  /\ stage = "move" =>
        /\ Approaching(walk.at) /\ granted \in Nat /\ walk.left \in 0..granted
        /\ LET u == UnitWalk(Tick, place, granted - walk.left)
           IN  /\ u.spent = granted - walk.left
               /\ \/ walk.at = u.at
                  \/ /\ walk.left > 0 /\ ~Stuck(Tick, u.at)
                     /\ walk.at = Ready(Tick, u.at) /\ HeadedIn(walk.at)

LEMMA HeadedInApproaches ==
  ASSUME NEW p, HeadedIn(p)
  PROVE  Approaching(p)
BY DEF HeadedIn, Approaching

LEMMA LocatedApproaches ==
  ASSUME ShapeAssumption, NEW edges \in SUBSET Edges, NEW point, NEW p \in locate(edges, point)
  PROVE  Approaching(p)
<1> DEFINE here == Incidents(edges, point)
           passing == {e \in edges : \E x \in 0..Shape[e].length : PointAt(e, x) = point}
           first == CHOOSE e \in passing : \A f \in passing : e <= f
           offset == CHOOSE x \in 0..Shape[first].length :
                        PointAt(first, x) = point /\
                        \A y \in 0..Shape[first].length : PointAt(first, y) = point => x <= y
<1>1. CASE here # {}
  <2>1. p = Leaving(Least(here))
    BY <1>1 DEF locate
  <2>2. Least(here) \in here
    <3>1. here \in SUBSET Known /\ IsFiniteSet(here)
      BY IncidentsAreKnown
    <3> HIDE DEF here
    <3> QED BY <1>1, <3>1, LeastIsThere
  <2>3. Least(here).edge \in Edges
    BY <2>2, IncidentsAreKnown
  <2> HIDE DEF here
  <2> QED BY <2>1, <2>3, LeavingHeadsIn, HeadedInApproaches
<1>2. CASE here = {}
  <2> DEFINE L == Shape[first].length
             h == IF offset = L THEN "Reverse" ELSE "Forward"
  <2>1. passing # {} /\ p = Edge(first, offset, h)
    BY <1>2 DEF locate
  <2>2. first \in passing
    <3>1. passing \in SUBSET Nat
      BY DEF ShapeAssumption
    <3>2. \E e \in passing : \A f \in passing : e <= f
      <4> HIDE DEF passing
      <4> QED BY <2>1, <3>1, LeastNumber
    <3> HIDE DEF passing
    <3> QED BY <3>2
  <2> HIDE DEF first
  <2>3. L \in Nat \ {0} /\ \E x \in 0..L : PointAt(first, x) = point
    BY <2>2 DEF ShapeAssumption
  <2>4. offset \in 0..L
    <3> DEFINE offsets == {x \in 0..L : PointAt(first, x) = point}
    <3>1. offsets \in SUBSET Nat /\ offsets # {}
      <4>1. \A x \in offsets : x \in Nat
        OBVIOUS
      <4> QED BY <2>3, <4>1
    <3>2. \E m \in offsets : \A n \in offsets : m <= n
      <4> HIDE DEF offsets
      <4> QED BY <3>1, LeastNumber
    <3> QED BY <3>2
  <2>5. h \in Headings /\ (IF h = "Forward" THEN L - offset ELSE offset) # 0
    <3> HIDE DEF offset, L
    <3> QED BY <2>3, <2>4 DEF Headings
  <2>6. HeadedIn(Edge(first, offset, h))
    <3> HIDE DEF offset, h
    <3> QED BY <2>5, EndOfEdge DEF HeadedIn
  <2> HIDE DEF offset, h
  <2> QED BY <2>1, <2>6, HeadedInApproaches
<1> QED BY <1>1, <1>2

\* At a junction there is at most one way out.
LEMMA OneWayOut ==
  ASSUME NEW tick, NEW p, NEW i \in WaysOut(tick, p)
  PROVE  i = CHOOSE k \in WaysOut(tick, p) : TRUE
<1> DEFINE choice == select_junction_incident(tick.live, p.junction, p.edge,
                                              tick.controls.left, tick.controls.right)
<1>1. \A x, y \in choice : x = y
  BY DEF select_junction_incident
<1> HIDE DEF choice
<1>2. \A x, y \in WaysOut(tick, p) : x = y
  BY <1>1 DEF WaysOut, choice
<1> HIDE DEF WaysOut
<1> QED BY <1>2

LEMMA GrantPaces ==
  ASSUME TrackInv, TrackInv', Paced, NEW rho, GrantFrom(rho)
  PROVE  Paced'
<1>1. /\ stage = "grant" /\ stage' = "move" /\ place' = place
      /\ walk' = [at |-> place, left |-> granted']
  BY DEF GrantFrom
<1>2. walk'.at = place /\ walk'.left = granted' /\ place # None /\ Approaching(place)
  BY <1>1 DEF TrackInv, Paced
<1>3. granted' \in Nat
  BY <1>1, <1>2 DEF TrackInv, Walking
<1>4. walk'.left \in 0..granted' /\ granted' - walk'.left = 0
  <2>1. \A g, left \in Nat : left = g => left \in 0..g /\ g - left = 0
    OBVIOUS
  <2>2. walk'.left \in Nat
    BY <1>2, <1>3, Zenon
  <2> QED BY <1>2, <1>3, <2>1, <2>2, Zenon
<1>5. UnitWalk(Tick', place', granted' - walk'.left) = [at |-> place, spent |-> 0]
  BY <1>1, <1>4, UnitsBySteps
<1> QED BY <1>1, <1>2, <1>3, <1>4, <1>5 DEF Paced

LEMMA GlidePaces ==
  ASSUME ShapeAssumption, TrackInv, Paced, Glide
  PROVE  Paced'
<1>1. /\ stage = "move" /\ stage' = "move" /\ live' = live /\ place' = place
      /\ Tick' = Tick /\ granted' = granted
      /\ walk.left > 0 /\ walk.at.on = "edge" /\ walk' = AfterTurn(walk.at, walk.left)
  BY DEF Glide, Moving, Tick
<1> DEFINE q == walk.at
           left == walk.left
           n == granted - left
           u == UnitWalk(Tick, place, n)
<1>2. /\ OnEdge(live, q) /\ live \in SUBSET Edges /\ left \in Nat \ {0}
  BY <1>1 DEF TrackInv, Walking, Standing, AtJunction, Junction
<1>3. /\ Approaching(q) /\ granted \in Nat /\ left \in 0..granted /\ n \in Nat
      /\ u.spent = n
      /\ q = u.at \/ (~Stuck(Tick, u.at) /\ q = Ready(Tick, u.at) /\ HeadedIn(q))
  <2>1. left \in 0..granted /\ granted \in Nat => n \in Nat
    BY <1>2
  <2> QED BY <1>1, <2>1 DEF Paced
\* The next unit is the one from where the mobile is.
<1>4. ~Stuck(Tick, u.at) /\ Ready(Tick, u.at) = Ready(Tick, q)
  <2>1. ~Stuck(Tick, q)
    BY <1>1 DEF Stuck
  <2>2. HeadedIn(q) => Ready(Tick, q) = q
    BY DEF HeadedIn, Ready
  <2> HIDE DEF u, q
  <2> QED BY <1>3, <2>1, <2>2
<1> HIDE DEF u, n, q, left
<1>5. PICK k \in 0..left : \E path : TurnLeads(Tick, q, left, k, path)
  BY <1>2, <1>3, TurnInUnits
<1>6. PICK path : TurnLeads(Tick, q, left, k, path)
  BY <1>5
<1>7. /\ AfterTurn(q, left) = [at |-> AfterTurn(q, left).at, left |-> left - k]
      /\ k > 0 => Onward(Ready(Tick, q)) = path[1]
      /\ \A j \in 1..k - 1 : ~Stuck(Tick, path[j]) /\ Onward(Ready(Tick, path[j])) = path[j + 1]
      /\ Approaching(AfterTurn(q, left).at)
      /\ LET here == IF k = 0 THEN q ELSE path[k]
         IN  \/ k > 0 /\ AfterTurn(q, left).at = here
             \/ /\ left - k > 0 /\ ~Stuck(Tick, here)
                /\ AfterTurn(q, left).at = Ready(Tick, here)
                /\ HeadedIn(AfterTurn(q, left).at)
  BY <1>6 DEF TurnLeads
<1>8. walk'.at = AfterTurn(q, left).at /\ walk'.left = left - k
  <2>1. walk' = AfterTurn(q, left)
    BY <1>1 DEF q, left
  <2> QED BY <1>7, <2>1
<1> DEFINE v == UnitWalk(Tick, place, n + k)
<1>9. v.spent = n + k /\ (k > 0 => v.at = path[k]) /\ (k = 0 => v = u)
  <2>1. CASE k = 0
    BY <1>2, <1>3, <2>1 DEF u
  <2>2. CASE k > 0
    <3>1. UnitStep(Tick, u) = [at |-> path[1], spent |-> n + 1]
      BY <1>3, <1>4, <1>7, <2>2 DEF UnitStep
    <3>2. k \in Nat /\ k \in 1..k
      BY <1>2, <2>2
    <3>3. v = [at |-> path[k], spent |-> n + k]
      BY <1>3, <1>7, <3>1, <3>2, UnitsFollow DEF u
    <3> QED BY <2>2, <3>3
  <2> QED BY <1>2, <2>1, <2>2
<1>10. granted' - walk'.left = n + k /\ walk'.left \in 0..granted' /\ k \in Nat
  BY <1>1, <1>2, <1>3, <1>8 DEF n
<1>11. \/ walk'.at = v.at
       \/ walk'.left > 0 /\ ~Stuck(Tick, v.at) /\ walk'.at = Ready(Tick, v.at) /\ HeadedIn(walk'.at)
  <2> HIDE DEF v
  <2>1. CASE k = 0
    <3>1. AfterTurn(q, left).at = Ready(Tick, q) /\ HeadedIn(AfterTurn(q, left).at) /\ left - k > 0
      BY <1>7, <2>1
    <3> QED BY <1>4, <1>8, <1>9, <2>1, <3>1
  <2>2. CASE k > 0
    BY <1>7, <1>8, <1>9, <2>2
  <2> QED BY <1>10, <2>1, <2>2
<1>12. UnitWalk(Tick', place', granted' - walk'.left) = v
  BY <1>1, <1>10
<1> HIDE DEF v
<1>13. (place # None => Approaching(place)) /\ Approaching(walk'.at)
  BY <1>7, <1>8 DEF Paced
<1> QED BY <1>1, <1>3, <1>9, <1>10, <1>11, <1>12, <1>13 DEF Paced

LEMMA LeavePaces ==
  ASSUME ShapeAssumption, TrackInv, Paced, LeaveJunction
  PROVE  Paced'
<1>1. /\ stage = "move" /\ stage' = "move" /\ place' = place
      /\ Tick' = Tick /\ granted' = granted /\ walk.left > 0 /\ walk.at.on = "junction"
  BY DEF LeaveJunction, Moving, Tick
<1>2. PICK i \in Ways : walk' = [walk EXCEPT !.at = Leaving(i)]
  BY DEF LeaveJunction
<1>3. walk = [at |-> walk.at, left |-> walk.left] /\ live \in SUBSET Edges
  BY <1>1 DEF TrackInv, Walking
<1>4. walk'.at = Leaving(i) /\ walk'.left = walk.left
  BY <1>2, <1>3
<1> DEFINE u == UnitWalk(Tick, place, granted - walk.left)
<1>5. /\ (place # None => Approaching(place)) /\ granted \in Nat /\ walk.left \in 0..granted
      /\ u.spent = granted - walk.left /\ walk.at = u.at
  BY <1>1 DEF Paced, HeadedIn
<1>6. i \in WaysOut(Tick, walk.at)
  BY <1>2 DEF Ways, Choice, Powered, WaysOut, Tick
<1>7. i.edge \in Edges
  <2>1. i \in Choice
    BY <1>2 DEF Ways
  <2> QED BY <1>1, <1>3, <2>1, WaysMeet
<1> HIDE DEF u
<1>8. HeadedIn(Leaving(i)) /\ Approaching(Leaving(i))
  BY <1>7, LeavingHeadsIn, HeadedInApproaches
<1>9. ~Stuck(Tick, u.at) /\ Ready(Tick, u.at) = Leaving(i)
  <2>1. i = CHOOSE k \in WaysOut(Tick, walk.at) : TRUE
    BY <1>6, OneWayOut
  <2>2. ~Stuck(Tick, walk.at)
    BY <1>6 DEF Stuck
  <2>3. Ready(Tick, walk.at) = Leaving(i)
    BY <1>1, <2>1 DEF Ready
  <2> QED BY <1>5, <2>2, <2>3
<1>10. UnitWalk(Tick', place', granted' - walk'.left) = u
  BY <1>1, <1>4 DEF u
<1> QED BY <1>1, <1>4, <1>5, <1>8, <1>9, <1>10 DEF Paced

LEMMA NextPaces ==
  ASSUME ShapeAssumption, TrackInv, TrackInv', Paced, [Next]_vars
  PROVE  Paced'
<1>1. CASE UNCHANGED vars
  BY <1>1 DEF vars, Paced, Tick
<1>2. ASSUME NEW point, PlaceMobile(point) PROVE Paced'
  <2>1. Approaching(place') /\ stage' = "edit"
    BY <1>2, LocatedApproaches DEF PlaceMobile, TrackInv
  <2> QED BY <2>1 DEF Paced
<1>3. ASSUME NEW edges, Rewire(edges) PROVE Paced'
  BY <1>3 DEF Rewire, Paced
<1>4. ASSUME NEW sample, Sample(sample) PROVE Paced'
  BY <1>4 DEF Sample, Paced
<1>5. ASSUME NEW rho, GrantFrom(rho) PROVE Paced'
  BY <1>5, GrantPaces
<1>6. CASE Commit
  BY <1>6 DEF Commit, Paced
<1>7. CASE Movement
  BY <1>6, <1>7, GlidePaces, LeavePaces DEF Movement
<1> QED BY <1>1, <1>2, <1>3, <1>4, <1>5, <1>7 DEF Next

(* The loop of stage_movement does what single units would do: over        *)
(* junctions, round dead ends and through any number of reflections a      *)
(* budget takes a mobile where its units would one by one, and leaves what *)
(* they could not spend.                                                   *)
THEOREM BudgetsGoByUnits ==
  ASSUME ShapeAssumption, MobilityAssumption
  PROVE  Spec => []SpentUnitByUnit
<1>1. Init => Paced
  BY DEF Init, Paced
<1>2. TrackInv /\ TrackInv' /\ Paced /\ [Next]_vars => Paced'
  BY NextPaces
<1>3. TrackInv /\ Paced => SpentUnitByUnit
  <2>1. SUFFICES ASSUME TrackInv, Paced, stage = "move", walk.left = 0 \/ Stays
                 PROVE  walk = [at |-> UnitWalk(Tick, place, granted).at,
                                left |-> granted - UnitWalk(Tick, place, granted).spent]
    BY DEF SpentUnitByUnit
  <2> DEFINE n == granted - walk.left
             u == UnitWalk(Tick, place, n)
  <2>2. /\ granted \in Nat /\ walk.left \in 0..granted /\ n \in Nat /\ n + walk.left = granted
        /\ walk.left \in Nat /\ granted - n = walk.left
        /\ walk = [at |-> walk.at, left |-> walk.left]
    BY <2>1 DEF Paced, TrackInv, Walking
  <2>3. /\ u.spent = n
        /\ walk.at = u.at \/ (walk.left > 0 /\ HeadedIn(walk.at))
    BY <2>1 DEF Paced
  <2> HIDE DEF u, n
  <2>4. CASE walk.left = 0
    <3>1. n = granted /\ walk.at = u.at
      BY <2>2, <2>3, <2>4
    <3> QED BY <2>2, <2>3, <3>1 DEF u
  <2>5. CASE Stays
    <3>1. walk.at.on = "junction" /\ WaysOut(Tick, walk.at) = {}
      BY <2>5 DEF Stays, Ways, Choice, Powered, WaysOut, Tick
    <3>2. walk.at = u.at
      BY <2>3, <3>1 DEF HeadedIn
    <3>3. Stuck(Tick, u.at)
      BY <3>1, <3>2 DEF Stuck
    <3>4. UnitWalk(Tick, place, granted) = u
      BY <2>2, <3>3, UnitsStayStuck DEF u
    <3> QED BY <2>2, <2>3, <3>2, <3>4
  <2> QED BY <2>1, <2>4, <2>5
<1> QED BY <1>1, <1>2, <1>3, TrackHolds, PTL DEF Spec

(* What Phases 1, 4 and 7 rely on of a mobile, all at once.                *)
THEOREM MobilesAlwaysKeepTheTrack ==
  ASSUME ShapeAssumption, MobilityAssumption
  PROVE  Spec => []MobilesKeepTheTrack
<1>1. PositionsResolve /\ DarkNeverBlocks /\ SpentUnitByUnit => MobilesKeepTheTrack
  BY DEF MobilesKeepTheTrack
<1> QED BY <1>1, MobilesAreFound, PowerIsEverywhere, BudgetsGoByUnits, PTL
=============================================================================
