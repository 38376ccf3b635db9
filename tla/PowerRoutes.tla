---------------------------- MODULE PowerRoutes ----------------------------
(***************************************************************************)
(* The graph along which energy reaches a load, as pure operators:         *)
(* crates/aon-sim/src/power_topology.rs (PowerGraph) with the adapter      *)
(* power_adapter.rs.                                                       *)
(*                                                                         *)
(* A wire is an undirected body between two nodes.  Its midpoint and every *)
(* point a load sits at split the body into pieces.  Nodes are tuples      *)
(* <<kind, id, offset>>; "site" nodes are junctions, power ports, source   *)
(* anchors and dead wire ends.  A path token is the number of its wire or  *)
(* site; the numbers stand for (kind, entity id) pairs in their order.     *)
(***************************************************************************)
EXTENDS Numeric, FiniteSets, FiniteSetsExt, SequencesExt

CONSTANTS
    Wires,      \* wire ids, positive integers
    Body        \* wire -> [a, b: ids of the sites at its ends, segments: lengths
                \*          of its straight segments from a to b, lower: "A" or
                \*          "B", the end the midpoint is measured from,
                \*          tokens: which of its ends carry a path token]

Site(n) == <<"site", n, 0>>
Point(w, offset) == <<"point", w, offset>>

Total(seq) == FoldLeft(LAMBDA x, y : x + y, 0, seq)
BodyLength(w) == Total(Body[w].segments)
Before(w, i) == Total(SubSeq(Body[w].segments, 1, i - 1))

BodyAssumption ==
    \A w \in Wires :
        /\ w \in Nat \ {0} /\ Body[w].a # Body[w].b
        /\ Body[w].segments # <<>>
        /\ \A i \in 1..Len(Body[w].segments) : Body[w].segments[i] \in Nat \ {0}
        /\ Body[w].lower \in {"A", "B"} /\ Body[w].tokens \subseteq {"A", "B"}

\* stored_midpoint: half the length, rounded down, from the lower end.
Midpoint(w) ==
    IF Body[w].lower = "A" THEN BodyLength(w) \div 2
    ELSE BodyLength(w) - BodyLength(w) \div 2

\* The node at an offset: ends and midpoint coalesce with what is there.
NodeAt(w, offset) ==
    IF offset = 0 THEN Site(Body[w].a)
    ELSE IF offset = BodyLength(w) THEN Site(Body[w].b)
    ELSE Point(w, offset)

Overlap(w, low, high) ==
    Cardinality({i \in 1..Len(Body[w].segments) :
                    low < Before(w, i) + Body[w].segments[i] /\ Before(w, i) < high})

\* offsets: wire -> offsets at which loads are attached.
SplitPoints(w, offsets) == {0, Midpoint(w), BodyLength(w)} \cup offsets[w]
Piece(w, low, high, up) ==
    [from |-> NodeAt(w, IF up THEN low ELSE high),
     to |-> NodeAt(w, IF up THEN high ELSE low),
     wire |-> w, low |-> low, high |-> high]
Pieces(placed, offsets) ==
    {Piece(p[1], p[2], p[3], up) :
        p \in UNION {{<<w, low, high>> : <<low, high>> \in
                        {q \in SplitPoints(w, offsets) \X SplitPoints(w, offsets) :
                            /\ q[1] < q[2]
                            /\ \A x \in SplitPoints(w, offsets) :
                                   x <= q[1] \/ q[2] <= x}} : w \in placed},
        up \in BOOLEAN}

Nodes(pieces, extra) == {e.from : e \in pieces} \cup extra

Steps(n) == [i \in 1..n |-> i]

\* The nodes connected with n, as the fixed point of adding neighbours.
Component(n, pieces, extra) ==
    FoldLeft(LAMBDA reached, i :
                 reached \cup {e.to : e \in {f \in pieces : f.from \in reached}},
             {n}, Steps(Cardinality(Nodes(pieces, extra))))

-----------------------------------------------------------------------------
(* Routes.  A priority is a length, a number of segments and the tokens of *)
(* the path; spans remembers the stretch of each wire it runs along.       *)

NoTokens == <<>>
NodeToken(node, sites) ==
    IF node[1] = "site" /\ node[2] \in sites THEN <<node[2]>> ELSE NoTokens
TokenSites == {Body[w].a : w \in {v \in Wires : "A" \in Body[v].tokens}}
              \cup {Body[w].b : w \in {v \in Wires : "B" \in Body[v].tokens}}

Start(node) ==
    [length |-> 0, segments |-> 0, tokens |-> NodeToken(node, TokenSites),
     spans |-> <<>>]

Smaller(x, y) == IF x <= y THEN x ELSE y
Larger(x, y) == IF x <= y THEN y ELSE x

\* Two pieces of one wire in a row: merged when they meet, refused when they
\* overlap (the path would turn back).
Continues(p, e) == p.spans # <<>> /\ Last(p.spans).wire = e.wire
Meets(span, e) == span.high = e.low \/ e.high = span.low
Merged_CountsTwice(p, e) ==
    LET last == Last(p.spans)
        low == Smaller(last.low, e.low)
        high == Larger(last.high, e.high)
    IN  [length |-> p.length + (e.high - e.low),
         segments |-> p.segments + Overlap(e.wire, e.low, e.high),
         tokens |-> p.tokens \o NodeToken(e.to, TokenSites),
         spans |-> Front(p.spans) \o <<[wire |-> e.wire, low |-> low, high |-> high]>>]
Merged(p, e) ==
    LET last == Last(p.spans)
        low == Smaller(last.low, e.low)
        high == Larger(last.high, e.high)
    IN  [length |-> p.length + (e.high - e.low),
         segments |-> p.segments - Overlap(e.wire, last.low, last.high)
                      + Overlap(e.wire, low, high),
         tokens |-> p.tokens \o NodeToken(e.to, TokenSites),
         spans |-> Front(p.spans) \o <<[wire |-> e.wire, low |-> low, high |-> high]>>]
Appended(p, e) ==
    [length |-> p.length + (e.high - e.low),
     segments |-> p.segments + Overlap(e.wire, e.low, e.high),
     tokens |-> p.tokens \o <<e.wire>> \o NodeToken(e.to, TokenSites),
     spans |-> p.spans \o <<[wire |-> e.wire, low |-> e.low, high |-> e.high]>>]

\* The priorities a path can be extended to by a piece: at most one.
ExtendPriority(p, e) ==
    IF Continues(p, e)
    THEN IF Meets(Last(p.spans), e) THEN {Merged(p, e)} ELSE {}
    ELSE IF \E i \in 1..Len(p.spans) : p.spans[i].wire = e.wire THEN {}
    ELSE {Appended(p, e)}

Precedes(p, q) ==
    \/ p.length < q.length
    \/ p.length = q.length /\ p.segments < q.segments
    \/ /\ p.length = q.length /\ p.segments = q.segments
       /\ LexLess(p.tokens, q.tokens)

\* Every route from a node, without pruning: the reference the search is
\* checked against.  A route of k pieces is one of k - 1 with a piece more.
AllRoutes(node, pieces) ==
    LET Grow(routes) ==
            UNION {UNION {{[node |-> e.to, key |-> q] : q \in ExtendPriority(r.key, e)} :
                             e \in {f \in pieces : f.from = r.node}} : r \in routes}
        first == {[node |-> node, key |-> Start(node)]}
    IN  FoldLeft(LAMBDA acc, i : [all |-> acc.all \cup acc.last,
                                  last |-> Grow(acc.last)],
                 [all |-> {}, last |-> first],
                 Steps(Cardinality(pieces) \div 2 + 1)).all

LeastKey(keys) == CHOOSE p \in keys : \A q \in keys : p = q \/ Precedes(p, q)

\* Length of the shortest walk, with no regard for wires or tokens.
Distances(node, pieces) ==
    LET Relax(walk) ==
            [n \in DOMAIN walk \cup {e.to : e \in {f \in pieces : f.from \in DOMAIN walk}} |->
                Min((IF n \in DOMAIN walk THEN {walk[n]} ELSE {})
                    \cup {walk[e.from] + (e.high - e.low) :
                              e \in {f \in pieces : f.to = n /\ f.from \in DOMAIN walk}})]
    IN  FoldLeft(LAMBDA walk, i : Relax(walk), [n \in {node} |-> 0],
                 Steps(Cardinality(Nodes(pieces, {node}))))
=============================================================================
