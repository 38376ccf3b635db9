-------------------------- MODULE PowerRouteSearch --------------------------
(***************************************************************************)
(* How the power topology is compiled: connected components by a frontier, *)
(* then for a load the least route to every node of its component by a     *)
(* best-first search that keeps one priority per node                      *)
(* (compile_components, compile_load_route and shortest_paths of           *)
(* crates/aon-sim/src/power_topology.rs).  One action is one turn of a     *)
(* loop.                                                                   *)
(***************************************************************************)
EXTENDS PowerRoutes

CONSTANTS
    Sources,    \* sites with a power source
    Ports,      \* sites of gates, which may hang on no wire
    Offsets     \* wire -> offsets at which a load may sit

SearchAssumption ==
    /\ \A w \in Wires : Offsets[w] \subseteq 0..BodyLength(w)
    /\ Sources \cup Ports \subseteq Nat

VARIABLES
    placed,     \* wires of the world
    loads,      \* wire -> offsets requested by its loads
    pieces,     \* the adjacency of the graph
    stage,      \* "components", "routes", "done"
    unvisited,  \* nodes no component has taken
    frontier,   \* nodes reached and not expanded
    component,  \* the component under construction
    components, \* finished components
    load,       \* node of the load whose route is sought
    best,       \* node -> least priority found
    queue       \* pairs of priority and node to be expanded

vars == <<placed, loads, pieces, stage, unvisited, frontier, component, components,
          load, best, queue>>

AllNodes == Nodes(pieces, {Site(n) : n \in Sources \cup Ports})

\* Loads sit at requested offsets, at midpoints and at power ports.
LoadNodes == UNION {{NodeAt(w, x) : x \in loads[w] \cup {Midpoint(w)}} : w \in placed}
             \cup {Site(n) : n \in Ports}

\* Nodes in the order the code's sorted sets take them.
Rank(n) == <<IF n[1] = "site" THEN 0 ELSE 1, n[2], n[3]>>
FirstOf(nodes) == CHOOSE n \in nodes : \A x \in nodes : x = n \/ LexLess(Rank(n), Rank(x))

Init ==
    /\ placed \in SUBSET Wires
    /\ loads \in {f \in [Wires -> SUBSET UNION {Offsets[w] : w \in Wires}] :
                     \A w \in Wires : f[w] \subseteq Offsets[w] /\
                                      (w \notin placed => f[w] = {})}
    /\ pieces = Pieces(placed, loads)
    /\ stage = "components" /\ unvisited = AllNodes
    /\ frontier = {} /\ component = {} /\ components = {}
    /\ load \in LoadNodes
    /\ best = <<>> /\ queue = {}

-----------------------------------------------------------------------------
(* compile_components                                                      *)

StartComponent ==
    /\ stage = "components" /\ frontier = {} /\ component = {} /\ unvisited # {}
    /\ LET start == FirstOf(unvisited)
       IN  /\ unvisited' = unvisited \ {start}
           /\ frontier' = {start}
    /\ UNCHANGED <<placed, loads, pieces, stage, component, components, load, best, queue>>

VisitNode_OneNeighbour ==
    /\ stage = "components" /\ frontier # {}
    /\ LET node == FirstOf(frontier)
           rest == unvisited \ {node}
           next == {e.to : e \in {f \in pieces : f.from = node /\ f.to \in rest}}
       IN  /\ unvisited' = rest
           /\ component' = component \cup {node}
           /\ frontier' = (frontier \ {node})
                  \cup (IF next = {} THEN {} ELSE {FirstOf(next)})
    /\ UNCHANGED <<placed, loads, pieces, stage, components, load, best, queue>>
VisitNode ==
    /\ stage = "components" /\ frontier # {}
    /\ LET node == FirstOf(frontier)
           rest == unvisited \ {node}
       IN  /\ unvisited' = rest
           /\ component' = component \cup {node}
           /\ frontier' = (frontier \ {node})
                  \cup {e.to : e \in {f \in pieces : f.from = node /\ f.to \in rest}}
    /\ UNCHANGED <<placed, loads, pieces, stage, components, load, best, queue>>

CloseComponent ==
    /\ stage = "components" /\ frontier = {} /\ component # {}
    /\ components' = components \cup {component}
    /\ component' = {}
    /\ UNCHANGED <<placed, loads, pieces, stage, unvisited, frontier, load, best, queue>>

\* A component without a source gets no search.
HasSource == \E c \in components : load \in c /\ \E s \in Sources : Site(s) \in c
StartSearch ==
    /\ stage = "components" /\ unvisited = {} /\ frontier = {} /\ component = {}
    /\ IF HasSource
       THEN /\ stage' = "routes"
            /\ best' = [n \in {load} |-> Start(load)]
            /\ queue' = {[key |-> Start(load), node |-> load]}
       ELSE /\ stage' = "done"
            /\ UNCHANGED <<best, queue>>
    /\ UNCHANGED <<placed, loads, pieces, unvisited, frontier, component, components, load>>

-----------------------------------------------------------------------------
(* shortest_paths: take the least entry, extend it along every piece, keep *)
(* a candidate that beats the best of its node and drop the beaten entry.  *)

\* Entries are ordered by priority, then node.
EntryBefore(x, y) ==
    \/ Precedes(x.key, y.key)
    \/ ~Precedes(y.key, x.key) /\ LexLess(Rank(x.node), Rank(y.node))
Popped == CHOOSE x \in queue : \A y \in queue : x = y \/ EntryBefore(x, y)

CandidatesAt(entry, n) ==
    UNION {ExtendPriority(entry.key, e) : e \in {f \in pieces : f.from = entry.node /\ f.to = n}}
Improving(entry) ==
    {n \in {e.to : e \in {f \in pieces : f.from = entry.node}} :
        \E c \in CandidatesAt(entry, n) : n \notin DOMAIN best \/ Precedes(c, best[n])}

\* Several pieces to one node are tried in turn, which leaves the least.
Relaxed_FirstComes(entry, n) ==
    IF n \in DOMAIN best THEN best[n] ELSE CHOOSE c \in CandidatesAt(entry, n) : TRUE
Relaxed(entry, n) ==
    LeastKey(CandidatesAt(entry, n) \cup (IF n \in DOMAIN best THEN {best[n]} ELSE {}))

ExpandNode_PeeksOnly ==
    /\ stage = "routes" /\ queue # {}
    /\ LET entry == Popped
           better == IF best[entry.node] = entry.key THEN Improving(entry) ELSE {}
       IN  /\ best' = [n \in DOMAIN best \cup better |->
                          IF n \in better THEN Relaxed(entry, n) ELSE best[n]]
           /\ queue' = {x \in queue : x.node \notin better}
                       \cup {[key |-> Relaxed(entry, n), node |-> n] : n \in better}
    /\ UNCHANGED <<placed, loads, pieces, stage, unvisited, frontier, component,
                   components, load>>
ExpandNode ==
    /\ stage = "routes" /\ queue # {}
    /\ LET entry == Popped
           better == IF best[entry.node] = entry.key THEN Improving(entry) ELSE {}
       IN  /\ best' = [n \in DOMAIN best \cup better |->
                          IF n \in better THEN Relaxed(entry, n) ELSE best[n]]
           /\ queue' = {x \in queue \ {entry} : x.node \notin better}
                       \cup {[key |-> Relaxed(entry, n), node |-> n] : n \in better}
    /\ UNCHANGED <<placed, loads, pieces, stage, unvisited, frontier, component,
                   components, load>>

FinishSearch ==
    /\ stage = "routes" /\ queue = {}
    /\ stage' = "done"
    /\ UNCHANGED <<placed, loads, pieces, unvisited, frontier, component, components,
                   load, best, queue>>

Next == StartComponent \/ VisitNode \/ CloseComponent \/ StartSearch
        \/ ExpandNode \/ FinishSearch

Spec == Init /\ [][Next]_vars /\ WF_vars(Next)

-----------------------------------------------------------------------------

\* The components partition the nodes and are exactly the connected classes:
\* no node is in two regions, none is left out (the invariants the code
\* answers with InvalidGraphInvariant).
ComponentsAreClasses ==
    stage # "components" =>
        components = {Component(n, pieces, AllNodes) : n \in AllNodes}

\* A node that has left the queue keeps its priority: no shorter route shows
\* up later, although merging pieces of a wire makes priorities non-additive.
SettledStaysSettled ==
    [][\A n \in DOMAIN best :
          (\A x \in queue : x.node # n) => best'[n] = best[n]]_vars

\* The search with one priority per node finds what an exhaustive search over
\* all routes finds, and its length is that of the shortest walk, although
\* routes may not enter a wire twice.
RoutesAreLeast ==
    stage = "done" /\ HasSource =>
        LET routes == AllRoutes(load, pieces)
            shortest == Distances(load, pieces)
        IN  /\ DOMAIN best = Component(load, pieces, AllNodes)
            /\ \A n \in DOMAIN best :
                  /\ [node |-> n, key |-> best[n]] \in routes
                  /\ best[n].length = shortest[n]
            /\ \A r \in routes : ~Precedes(r.key, best[r.node])

\* A finished route covers each wire once, in stretches that add up to its
\* length, and counts the segments they touch: what CanonicalPowerRoute::new
\* demands of every route, so that the solver never refuses one.
RoutesWellFormed ==
    \A n \in DOMAIN best :
        LET spans == best[n].spans
        IN  /\ \A i, j \in 1..Len(spans) : spans[i].wire = spans[j].wire => i = j
            /\ best[n].length = Total([i \in 1..Len(spans) |-> spans[i].high - spans[i].low])
            /\ best[n].segments = Total([i \in 1..Len(spans) |->
                   Overlap(spans[i].wire, spans[i].low, spans[i].high)])

\* Both loops come to an end.
SearchEnds == <>(stage = "done")
=============================================================================
