--------------------------- MODULE SignalTopology ---------------------------
(***************************************************************************)
(* Pure definitions: the signal network that a set of wires and junctions  *)
(* induces, and the route each driver takes to each sink it reaches        *)
(* (crates/aon-sim/src/signal_topology.rs).                                *)
(*                                                                         *)
(* A node of the network is a gate port, a junction, or the loose end of a *)
(* wire.  Wires are its edges.  A driver reaches every sink of its         *)
(* component along the path that is least in (length, segments, path key). *)
(***************************************************************************)
EXTENDS Integers, FiniteSets, Sequences

CONSTANTS
    Wires, Junctions,       \* entity ids, disjoint sets of positive integers
    Ports,                  \* the signal ports of the gates
    Drivers, Sinks,         \* endpoint ids
    DriverPort, SinkPort,   \* the port a driver or a sink sits on
    Length, Segments,       \* of each wire, fixed when it is placed
    LinearK, QuadraticK,    \* <<numerator, denominator>> of the delay law
    FixedOne                \* raw value of the fixed-point number one

ASSUME TopologyAssumption ==
    /\ Wires \subseteq Nat \ {0} /\ IsFiniteSet(Wires)
    /\ Junctions \subseteq Nat \ {0}
    /\ Wires \cap Junctions = {}
    /\ DriverPort \in [Drivers -> Ports]
    /\ SinkPort \in [Sinks -> Ports]
    /\ Length \in [Wires -> Nat]
    /\ Segments \in [Wires -> Nat \ {0}]
    /\ LinearK \in Nat \X (Nat \ {0}) /\ QuadraticK \in Nat \X (Nat \ {0})
    /\ FixedOne \in Nat \ {0}

Ends == {"A", "B"}

\* What a wire end can be bound to.
Free == <<"free">>
JunctionTarget(j) == <<"junction", j>>
PortTarget(p) == <<"port", p>>
EndpointTargets ==
    {Free} \cup {JunctionTarget(j) : j \in Junctions}
           \cup {PortTarget(p) : p \in Ports}

-----------------------------------------------------------------------------
(* A wire record is [state, A, B, generation]; `wires' maps every id to    *)
(* one, and the ones in state "live" are the edges of the network.         *)

LiveWires(wires) == {w \in Wires : wires[w].state = "live"}

\* The node a wire end is at: loose ends are nodes of their own.
signal_node_for_endpoint(w, end, target) ==
    IF target = Free THEN <<"end", w, end>> ELSE target

NodeAt(wires, w, end) == signal_node_for_endpoint(w, end, wires[w][end])

\* The edges of the network: a live wire and the end it is entered at.
Edges(wires) == LiveWires(wires) \X Ends
From(wires, edge) == NodeAt(wires, edge[1], edge[2])
To(wires, edge) ==
    NodeAt(wires, edge[1], CHOOSE end \in Ends : end # edge[2])

\* Sequences of edges of distinct wires: the candidates for a path.
Walks(wires) ==
    {walk \in UNION {[1..n -> Edges(wires)] :
                        n \in 0..Cardinality(LiveWires(wires))} :
        \A i, k \in DOMAIN walk : walk[i][1] = walk[k][1] => i = k}

\* The node reached after i edges of a walk from src.
NodeAfter(wires, src, walk, i) ==
    IF i = 0 THEN src ELSE To(wires, walk[i])

Leads(wires, src, dst, walk) ==
    /\ \A i \in 1..Len(walk) :
          From(wires, walk[i]) = NodeAfter(wires, src, walk, i - 1)
    /\ NodeAfter(wires, src, walk, Len(walk)) = dst

PathsBetween(wires, src, dst) ==
    {walk \in Walks(wires) : Leads(wires, src, dst, walk)}

\* The path key: each wire with the junction it leads to, or 0.
Hop(wires, edge) ==
    LET node == To(wires, edge)
    IN  <<edge[1], IF node[1] = "junction" THEN node[2] ELSE 0>>
path_key(wires, walk) == [i \in 1..Len(walk) |-> Hop(wires, walk[i])]

Total(f, walk) ==
    LET sum[i \in 0..Len(walk)] ==
            IF i = 0 THEN 0 ELSE sum[i - 1] + f[walk[i][1]]
    IN  sum[Len(walk)]

RoutePriority(wires, walk) ==
    [total_length  |-> Total(Length, walk),
     segment_count |-> Total(Segments, walk),
     path_key      |-> path_key(wires, walk)]

HopLess(h, k) == h[1] < k[1] \/ (h[1] = k[1] /\ h[2] < k[2])

\* Lexicographic order of path keys; a proper prefix comes first.
KeyLess(k, l) ==
    \E n \in 1..Len(l) :
        /\ \A i \in 1..(n - 1) : i <= Len(k) /\ k[i] = l[i]
        /\ n > Len(k) \/ HopLess(k[n], l[n])

PriorityLess(p, q) ==
    \/ p.total_length < q.total_length
    \/ /\ p.total_length = q.total_length
       /\ \/ p.segment_count < q.segment_count
          \/ /\ p.segment_count = q.segment_count
             /\ KeyLess(p.path_key, q.path_key)

\* What the Dijkstra search returns for a reachable node: the least priority.
shortest_path(wires, src, dst) ==
    LET priorities == {RoutePriority(wires, walk) :
                           walk \in PathsBetween(wires, src, dst)}
    IN  CHOOSE p \in priorities :
            \A q \in priorities \ {p} : PriorityLess(p, q)

-----------------------------------------------------------------------------
CeilDiv(n, d) == (n + d - 1) \div d

\* Delay of a path with at least one wire: linear plus quadratic in length.
wire_delay(length) ==
    LET numerator == LinearK[1] * length * QuadraticK[2] * FixedOne
                     + QuadraticK[1] * length * length * LinearK[2]
        delay == CeilDiv(numerator,
                         LinearK[2] * QuadraticK[2] * FixedOne * FixedOne)
    IN  IF delay < 1 THEN 1 ELSE delay

\* The elements of a hop, and an element with the generation it has now.
Elements(hop) == {hop[1], hop[2]} \ {0}
Element(wires, junctions, x) == IF x \in Wires THEN wires[x] ELSE junctions[x]
Stamp(wires, junctions, x) == <<x, Element(wires, junctions, x).generation>>

\* A stamp is current while its element lives and is not rewired.
path_element_is_current(wires, junctions, stamp) ==
    /\ Element(wires, junctions, stamp[1]).state = "live"
    /\ Stamp(wires, junctions, stamp[1]) = stamp

RouteFor(wires, junctions, src, dst) ==
    LET best == shortest_path(wires, src, dst)
    IN  [stamps        |-> [i \in 1..Len(best.path_key) |->
                               {Stamp(wires, junctions, x) :
                                   x \in Elements(best.path_key[i])}],
         total_length  |-> best.total_length,
         segment_count |-> best.segment_count,
         delay         |-> IF best.path_key = <<>> THEN 0
                           ELSE wire_delay(best.total_length)]

\* The compiled topology: a route for each live sink of a driver's component.
compile(wires, junctions, drivers, sinks) ==
    LET source(p) == PortTarget(DriverPort[p[1]])
        target(p) == PortTarget(SinkPort[p[2]])
        connected == {p \in drivers \X sinks :
                          PathsBetween(wires, source(p), target(p)) # {}}
    IN  [p \in connected |-> RouteFor(wires, junctions, source(p), target(p))]

\* route_diff: pairs by what happened to their route between two topologies.
Removed(old, new) == DOMAIN old \ DOMAIN new
AddedOrReplaced_Added(old, new) == DOMAIN new \ DOMAIN old
AddedOrReplaced(old, new) ==
    {p \in DOMAIN new : p \notin DOMAIN old \/ old[p] # new[p]}
=============================================================================
