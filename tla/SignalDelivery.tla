--------------------------- MODULE SignalDelivery ---------------------------
(***************************************************************************)
(* How the level a driver emits reaches the sinks it is wired to, while    *)
(* the wiring changes under the signals in flight                          *)
(* (Phases 0 and 2 of crates/aon-sim/src/simulation.rs, with signal.rs,    *)
(* signal_topology.rs, structural.rs and event.rs).                        *)
(*                                                                         *)
(* A tick runs the stages                                                  *)
(*   destruction  entities destroyed by damage in the previous tick leave  *)
(*   commands     the tick's structural commands are applied one by one;   *)
(*                then the topology is compiled, routes that vanished lose *)
(*                their slot and new or changed ones get a TopologySync    *)
(*   drivers      drivers change; each change is sent along every route    *)
(*   arrivals     what is due is applied to the slots, sinks are resolved  *)
(*   commit       the tick ends                                            *)
(* A step of the program is the five of them: nothing else reads or writes *)
(* the state while they run.  A step that meets an error is discarded      *)
(* whole; here its failing stage has no successor.                         *)
(***************************************************************************)
EXTENDS SignalTopology, Functions

CONSTANTS
    Gates,              \* entity ids of the gates
    PortGate,           \* the gate each port belongs to
    Reach,              \* targets that lie at the point of a wire's end
    Outputs,            \* <<level, strength>> pairs a driver may take
    LogicThreshold,     \* drive needed to make a level
    MaxEdits,           \* bound: structural changes in a behaviour
    MaxRevision,        \* largest revision, u64::MAX in the code
    MaxTick             \* largest tick, u64::MAX in the code

ASSUME DeliveryAssumption ==
    /\ PortGate \in [Ports -> Gates]
    /\ Gates \cap (Wires \cup Junctions) = {}
    /\ Reach \in [Wires -> [Ends -> SUBSET EndpointTargets]]
    /\ \A o \in Outputs : o[1] \in {"Low", "High", "X"} /\ o[2] \in Nat
    /\ LogicThreshold \in Nat \ {0}
    /\ MaxRevision \in Nat /\ MaxTick \in Nat /\ MaxEdits \in Nat

VARIABLES
    tick, stage, edits,
    gates, wires, junctions,            \* the structural world
    fresh,                              \* entities the batch has created
    dirty_wires, dirty_junctions,       \* elements the batch has rewired
    topology_changed,
    routes,                             \* the topology compiled last
    driver,                             \* live driver -> its sample
    sink,                               \* live sink -> resolved level, dirty
    slot,                               \* <<driver, sink>> -> sample held
    arrivals                            \* the calendar of signal arrivals

structure == <<gates, wires, junctions, fresh, dirty_wires, dirty_junctions,
               topology_changed, edits>>
vars == <<tick, stage, structure, routes, driver, sink, slot, arrivals>>

Levels == {"Low", "High", "X"}
Entities == Gates \cup Wires \cup Junctions
Lifecycle == {"absent", "live", "removed"}

Sample == [level : Levels, strength : Nat, revision : Nat, emitted_at : Nat]
InitialSample(t) == [level |-> "Low", strength |-> 0, revision |-> 0,
                     emitted_at |-> t]

Arrival == [due : Nat, driver : Drivers, sink : Sinks, sample : Sample,
            kind : {"Propagation", "TopologySync"},
            path : Seq(SUBSET ((Wires \cup Junctions) \X Nat))]

DriversOf(gs) == {d \in Drivers : PortGate[DriverPort[d]] \in gs}
SinksOf(gs) == {s \in Sinks : PortGate[SinkPort[s]] \in gs}

EmptyMap == [x \in {} |-> x]

Init ==
    /\ tick = 0 /\ stage = "destruction" /\ edits = 0
    /\ gates = [g \in Gates |-> "absent"]
    /\ wires = [w \in Wires |-> [state |-> "absent", A |-> Free, B |-> Free,
                                 generation |-> 0]]
    /\ junctions = [j \in Junctions |-> [state |-> "absent", generation |-> 0]]
    /\ fresh = {} /\ dirty_wires = {} /\ dirty_junctions = {}
    /\ topology_changed = FALSE
    /\ routes = EmptyMap /\ driver = EmptyMap /\ sink = EmptyMap
    /\ slot = EmptyMap
    /\ arrivals = {}

-----------------------------------------------------------------------------
(* Structural changes.  Removals happen in both stages of Phase 0; a       *)
(* command cannot name an entity created earlier in its own batch.         *)

Signals == <<routes, driver, sink, slot, arrivals>>
Clock == <<tick, stage>>

Edit == edits < MaxEdits /\ edits' = edits + 1 /\ topology_changed' = TRUE

Known(x) == x \notin fresh

\* Wire ends bound to one of the targets become loose.
Detached(w, targets) ==
    [wires[w] EXCEPT !.A = IF @ \in targets THEN Free ELSE @,
                     !.B = IF @ \in targets THEN Free ELSE @]
Incident(targets) ==
    {w \in LiveWires(wires) : {wires[w].A, wires[w].B} \cap targets # {}}
mark_target_junctions(targets) ==
    {j \in Junctions : JunctionTarget(j) \in targets}

\* The slots that go with a gate: of its drivers and of its sinks.
SlotsOf(g) ==
    {p \in DOMAIN slot : p[1] \in DriversOf({g}) \/ p[2] \in SinksOf({g})}

\* A sink is dirty once one of its slots is gone.
Marked_Never(s, gone) == sink[s]
Marked(s, gone) ==
    [sink[s] EXCEPT !.dirty = @ \/ \E p \in gone : p[2] = s]

PlaceGate(g) ==
    /\ stage = "commands" /\ gates[g] = "absent" /\ Edit
    /\ gates' = [gates EXCEPT ![g] = "live"]
    /\ fresh' = fresh \cup {g}
    /\ driver' = [d \in DOMAIN driver \cup DriversOf({g}) |->
                     IF d \in DOMAIN driver THEN driver[d]
                     ELSE InitialSample(tick)]
    /\ sink' = [s \in DOMAIN sink \cup SinksOf({g}) |->
                   IF s \in DOMAIN sink THEN sink[s]
                   ELSE [level |-> "Low", dirty |-> FALSE]]
    /\ UNCHANGED <<Clock, wires, junctions, dirty_wires, dirty_junctions,
                   routes, slot, arrivals>>

PlaceJunction(j) ==
    /\ stage = "commands" /\ junctions[j].state = "absent" /\ Edit
    /\ junctions' = [junctions EXCEPT ![j].state = "live"]
    /\ fresh' = fresh \cup {j}
    /\ UNCHANGED <<Clock, gates, wires, dirty_wires, dirty_junctions, Signals>>

\* validate_endpoint: a target lies at the end's point and is alive.
Bindable(w, e, target) ==
    /\ target \in Reach[w][e]
    /\ \A j \in mark_target_junctions({target}) :
          junctions[j].state = "live" /\ Known(j)
    /\ \A p \in Ports : target = PortTarget(p) =>
          gates[PortGate[p]] = "live" /\ Known(PortGate[p])

PlaceWire(w, a, b) ==
    /\ stage = "commands" /\ wires[w].state = "absent" /\ Edit
    /\ Bindable(w, "A", a) /\ Bindable(w, "B", b)
    /\ wires' = [wires EXCEPT ![w] = [state |-> "live", A |-> a, B |-> b,
                                      generation |-> 0]]
    /\ fresh' = fresh \cup {w}
    /\ dirty_junctions' = dirty_junctions \cup mark_target_junctions({a, b})
    /\ UNCHANGED <<Clock, gates, junctions, dirty_wires, Signals>>

BindPort(w, e, target) ==
    /\ stage = "commands" /\ wires[w].state = "live" /\ Known(w)
    /\ wires[w][e] # target /\ Bindable(w, e, target) /\ Edit
    /\ wires' = [wires EXCEPT ![w][e] = target]
    /\ dirty_wires' = dirty_wires \cup {w}
    /\ dirty_junctions' = dirty_junctions
                            \cup mark_target_junctions({wires[w][e], target})
    /\ UNCHANGED <<Clock, gates, junctions, fresh, Signals>>

RemoveGate(g) ==
    LET ports == {PortTarget(p) : p \in {q \in Ports : PortGate[q] = g}}
    IN  /\ stage \in {"destruction", "commands"} /\ gates[g] = "live"
        /\ Known(g) /\ Edit
        /\ gates' = [gates EXCEPT ![g] = "removed"]
        /\ wires' = [w \in Wires |-> Detached(w, ports)]
        /\ dirty_wires' = dirty_wires \cup Incident(ports)
        /\ driver' = [d \in DOMAIN driver \ DriversOf({g}) |-> driver[d]]
        /\ slot' = [p \in DOMAIN slot \ SlotsOf(g) |-> slot[p]]
        /\ sink' = [s \in DOMAIN sink \ SinksOf({g}) |->
                       Marked(s, SlotsOf(g))]
        /\ UNCHANGED <<Clock, junctions, fresh, dirty_junctions, routes,
                       arrivals>>

RemoveWire(w) ==
    /\ stage \in {"destruction", "commands"} /\ wires[w].state = "live"
    /\ Known(w) /\ Edit
    /\ wires' = [wires EXCEPT ![w].state = "removed"]
    /\ dirty_junctions' = dirty_junctions
                        \cup mark_target_junctions({wires[w].A, wires[w].B})
    /\ UNCHANGED <<Clock, gates, junctions, fresh, dirty_wires, Signals>>

RemoveJunction(j) ==
    /\ stage \in {"destruction", "commands"} /\ junctions[j].state = "live"
    /\ Known(j) /\ Edit
    /\ junctions' = [junctions EXCEPT ![j].state = "removed"]
    /\ wires' = [w \in Wires |-> Detached(w, {JunctionTarget(j)})]
    /\ dirty_wires' = dirty_wires \cup Incident({JunctionTarget(j)})
    /\ UNCHANGED <<Clock, gates, fresh, dirty_junctions, Signals>>

\* Elements rewired by a batch advance their generation once, if still alive.
Advance_Never(elements, dirty) == elements
Advance(elements, dirty) ==
    [x \in DOMAIN elements |->
        IF x \in dirty /\ elements[x].state = "live"
        THEN [elements[x] EXCEPT !.generation = @ + 1] ELSE elements[x]]

AdvanceGenerations ==
    /\ wires' = Advance(wires, dirty_wires)
    /\ junctions' = Advance(junctions, dirty_junctions)
    /\ dirty_wires' = {} /\ dirty_junctions' = {} /\ fresh' = {}

EndDestruction ==
    /\ stage = "destruction" /\ stage' = "commands"
    /\ AdvanceGenerations
    /\ UNCHANGED <<tick, edits, gates, topology_changed, Signals>>

-----------------------------------------------------------------------------
(* Phase 0, second half: compile, compare with the old topology, and keep  *)
(* slots and calendar in step with the routes.                             *)

SyncArrival(p, topology) ==
    [due |-> tick + topology[p].delay, driver |-> p[1], sink |-> p[2],
     sample |-> driver[p[1]], kind |-> "TopologySync",
     path |-> topology[p].stamps]

apply_route_diff(topology) ==
    LET removed == Removed(routes, topology)
    IN  /\ slot' = [p \in DOMAIN slot \ removed |-> slot[p]]
        /\ sink' = [s \in DOMAIN sink |-> Marked(s, removed)]
        /\ arrivals' = arrivals \cup {SyncArrival(p, topology) :
                                p \in AddedOrReplaced(routes, topology)}

CompileTopology ==
    /\ stage = "commands" /\ stage' = "drivers"
    /\ AdvanceGenerations
    /\ routes' = compile(wires', junctions', DOMAIN driver, DOMAIN sink)
    /\ IF topology_changed THEN apply_route_diff(routes')
                           ELSE UNCHANGED <<slot, sink, arrivals>>
    /\ topology_changed' = FALSE
    /\ UNCHANGED <<tick, edits, gates, driver>>

-----------------------------------------------------------------------------
(* Phase 2.  The transitions due this tick reach here as one output per    *)
(* driver at most; an output equal to the current one is not a change.     *)

Emit_SameRevision(d, output) ==
    [level |-> output[1], strength |-> output[2],
     revision |-> driver[d].revision, emitted_at |-> tick]
Emit(d, output) ==
    [level |-> output[1], strength |-> output[2],
     revision |-> driver[d].revision + 1, emitted_at |-> tick]

PropagationArrival(p) ==
    [due |-> tick + routes[p].delay, driver |-> p[1], sink |-> p[2],
     sample |-> driver'[p[1]], kind |-> "Propagation",
     path |-> routes[p].stamps]

DriveOutputs(changed, output) ==
    /\ stage = "drivers" /\ stage' = "arrivals"
    /\ \A d \in changed :
          /\ driver[d].revision < MaxRevision
          /\ <<driver[d].level, driver[d].strength>> # output[d]
    /\ driver' = [d \in DOMAIN driver |->
                     IF d \in changed THEN Emit(d, output[d]) ELSE driver[d]]
    /\ arrivals' = arrivals \cup {PropagationArrival(p) :
                           p \in {q \in DOMAIN routes : q[1] \in changed}}
    /\ UNCHANGED <<tick, structure, routes, sink, slot>>

Due_OfLiveDrivers == {a \in arrivals : a.due = tick /\ a.driver \in DOMAIN driver}
Due == {a \in arrivals : a.due = tick}

\* Both endpoints live and nothing on the path was rewired or removed.
Acceptable(a) ==
    /\ a.driver \in DOMAIN driver /\ a.sink \in DOMAIN sink
    /\ \A i \in 1..Len(a.path) :
          \A stamp \in a.path[i] :
              path_element_is_current(wires, junctions, stamp)

Bucket(p) == {a.sample : a \in {b \in Due : /\ Acceptable(b)
                                            /\ <<b.driver, b.sink>> = p}}

\* Two samples of one driver that claim the same revision and differ.
RevisionConflict ==
    \E p \in Drivers \X Sinks : \E s \in Bucket(p) :
        \E t \in Bucket(p) \cup {slot[q] : q \in DOMAIN slot \cap {p}} :
            s.revision = t.revision /\ s # t

Winner(p) == CHOOSE s \in Bucket(p) :
                 \A t \in Bucket(p) : t.revision <= s.revision

\* Pairs whose slot takes the highest revision that arrives.
Updated_ByAnyArrival == {p \in Drivers \X Sinks : Bucket(p) # {}}
Updated ==
    {p \in Drivers \X Sinks :
        /\ Bucket(p) # {}
        /\ p \in DOMAIN slot => slot[p].revision < Winner(p).revision}

\* Total strength of a level among the slots of a sink.
Drive(slots, s, level) ==
    SumFunction([p \in {q \in DOMAIN slots : q[2] = s /\ slots[q].level = level}
                    |-> slots[p].strength])

resolve_drive(slots, s) ==
    LET strong(level) == Drive(slots, s, level) >= LogicThreshold
    IN  IF strong("X") \/ (strong("High") /\ strong("Low")) THEN "X"
        ELSE IF strong("High") THEN "High" ELSE "Low"

\* drain_due and apply_due_signal_arrivals fail the step otherwise.
ArrivalsConsistent == (\A a \in arrivals : a.due >= tick) /\ ~RevisionConflict

ApplyArrivals ==
    /\ stage = "arrivals" /\ stage' = "commit"
    /\ ArrivalsConsistent
    /\ slot' = [p \in DOMAIN slot \cup Updated |->
                   IF p \in Updated THEN Winner(p) ELSE slot[p]]
    /\ sink' = [s \in DOMAIN sink |->
                   IF sink[s].dirty \/ \E p \in Updated : p[2] = s
                   THEN [level |-> resolve_drive(slot', s), dirty |-> FALSE]
                   ELSE sink[s]]
    /\ arrivals' = arrivals \ Due
    /\ UNCHANGED <<tick, structure, routes, driver>>

CommitTick ==
    /\ stage = "commit" /\ stage' = "destruction"
    /\ tick < MaxTick /\ tick' = tick + 1
    /\ UNCHANGED <<structure, Signals>>

-----------------------------------------------------------------------------
Structural ==
    \/ \E g \in Gates : PlaceGate(g) \/ RemoveGate(g)
    \/ \E j \in Junctions : PlaceJunction(j) \/ RemoveJunction(j)
    \/ \E w \in Wires :
          \/ RemoveWire(w)
          \/ /\ stage = "commands"
             /\ \/ \E a \in Reach[w]["A"], b \in Reach[w]["B"] : PlaceWire(w, a, b)
                \/ \E e \in Ends : \E t \in Reach[w][e] : BindPort(w, e, t)

Next ==
    \/ Structural
    \/ EndDestruction
    \/ CompileTopology
    \/ /\ stage = "drivers"
       /\ \E changed \in SUBSET DOMAIN driver :
             \E output \in [changed -> Outputs] : DriveOutputs(changed, output)
    \/ ApplyArrivals
    \/ CommitTick

Spec == Init /\ [][Next]_vars

-----------------------------------------------------------------------------
StructureTyped ==
    /\ gates \in [Gates -> Lifecycle]
    /\ wires \in [Wires -> [state : Lifecycle, A : EndpointTargets,
                            B : EndpointTargets, generation : Nat]]
    /\ junctions \in [Junctions -> [state : Lifecycle, generation : Nat]]
    /\ fresh \subseteq Entities
    /\ dirty_wires \subseteq Wires /\ dirty_junctions \subseteq Junctions
    /\ topology_changed \in BOOLEAN

LiveGates == {g \in Gates : gates[g] = "live"}
SignalsTyped ==
    /\ driver \in [DriversOf(LiveGates) -> Sample]
    /\ sink \in [SinksOf(LiveGates) -> [level : Levels, dirty : BOOLEAN]]
    /\ DOMAIN routes \subseteq Drivers \X Sinks
    /\ DOMAIN slot \subseteq (DOMAIN driver) \X (DOMAIN sink)
    /\ \A p \in DOMAIN slot : slot[p] \in Sample
    /\ \A a \in arrivals : /\ a.driver \in Drivers /\ a.sink \in Sinks
                           /\ a.sample \in Sample

(* Every piece of state has the shape the Rust types give it; the endpoint *)
(* stores hold exactly the endpoints of the live gates, and no slot names  *)
(* an endpoint that is gone.                                               *)
TypeOK ==
    /\ tick \in 0..MaxTick /\ edits \in 0..MaxEdits
    /\ stage \in {"destruction", "commands", "drivers", "arrivals", "commit"}
    /\ StructureTyped
    /\ SignalsTyped
    /\ \A a \in arrivals : a \in Arrival

\* Every sample of driver d that exists: its own, in slots, in flight.
Copies(d) == {driver[e] : e \in DOMAIN driver \cap {d}}
             \cup {slot[p] : p \in {q \in DOMAIN slot : q[1] = d}}
             \cup {a.sample : a \in {b \in arrivals : b.driver = d}}

(* One revision of a driver names one sample, wherever copies of it are,   *)
(* and no copy is ahead of its driver: what the program guards with        *)
(* DriverRevisionInvariantViolation.                                       *)
RevisionsAgree ==
    \A d \in Drivers :
        /\ \A s, t \in Copies(d) : s.revision = t.revision => s = t
        /\ d \in DOMAIN driver =>
              \A s \in Copies(d) : s.revision <= driver[d].revision

(* The step never fails in Phase 2: no arrival is found past its tick and  *)
(* no two arrivals, or an arrival and a slot, contradict each other.       *)
StepNeverFails == stage = "arrivals" => ArrivalsConsistent

(* No update is lost to rewiring: when a tick ends, the sink of every      *)
(* route holds what its driver emits now, or an arrival with exactly that  *)
(* sample is on its way along that route and due within the route's delay. *)
InFlight(p) ==
    \E a \in arrivals :
        /\ a.driver = p[1] /\ a.sink = p[2] /\ a.sample = driver[p[1]]
        /\ a.path = routes[p].stamps
        /\ a.due \in (tick + 1)..(tick + routes[p].delay)
RoutesServed ==
    stage = "commit" =>
        \A p \in DOMAIN routes :
            (p \in DOMAIN slot /\ slot[p] = driver[p[1]]) \/ InFlight(p)

(* A sink only hears drivers that are wired to it: a late arrival from a   *)
(* route that is gone never creates a slot again.                          *)
NoGhostSlot == stage = "commit" => DOMAIN slot \subseteq DOMAIN routes

(* Dirty marking misses nothing: when a tick ends, the level of every sink *)
(* is what its slots resolve to, though only dirty sinks were recomputed.  *)
SinksResolved ==
    stage = "commit" =>
        \A s \in DOMAIN sink :
            ~sink[s].dirty /\ sink[s].level = resolve_drive(slot, s)

(* A sink never goes back to an older sample of a driver, whatever order   *)
(* the arrivals come in, while the pair stays connected.                   *)
SlotsAdvance ==
    [][\A p \in DOMAIN slot \cap DOMAIN slot' :
           slot[p].revision <= slot'[p].revision]_vars
=============================================================================
