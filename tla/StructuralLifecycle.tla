------------------------- MODULE StructuralLifecycle -------------------------
(***************************************************************************)
(* The entities of the world and what they refer to                        *)
(* (structural.rs, identity.rs, construction.rs and Phase 0 of             *)
(* simulation.rs in crates/aon-sim/src).                                   *)
(*                                                                         *)
(* An entity is placed by a command, or reserved as a construction site    *)
(* and activated when its work is done.  It goes by a command, which is    *)
(* refused while something needs it, or by damage, which is not refused    *)
(* and takes down all that depends on it.  A tick runs the stages          *)
(*   destruction  what damage decided in the tick before, and all that     *)
(*                depends on it, is condemned                              *)
(*   removal      what is condemned goes, one at a time, dependents first  *)
(*   activation   ready sites become what they were reserved for           *)
(*   commands     the batch, one command at a time in order of ordinals    *)
(*   physics      movement, construction work, damage for the next tick    *)
(* A refused command changes nothing and is no step here.  A step that     *)
(* meets an error is discarded whole; here its stage has no successor.     *)
(*                                                                         *)
(* Geometry is a set of plans, each a thing at a place; constants say      *)
(* which plans clash, meet or lie in one another.                          *)
(***************************************************************************)
EXTENDS Integers, Sequences, FiniteSets

CONSTANTS
    Plans,      \* what can be built, and where
    KindOf,     \* plan -> kind of entity
    Host,       \* plan -> plan of the substrate it lies in, or "open"
    Clash,      \* set of {p, q}: plans that overlap or are too close
    Touch,      \* wire plan -> end -> plans with a port at that end
    Station,    \* mobile plan -> the <<wire plan, place>> at its origin
    MaxId,      \* bound: entities in a behaviour
    MaxDamage,  \* bound: entities damage destroys in one tick
    MaxTick     \* bound: ticks

Kinds == {"gate", "wire", "junction", "fixed", "mobile"}
Substrates == {"fixed", "mobile"}
Ends == {"A", "B"}
Places == {"A", "inside", "B"}      \* offset zero, between, the length

ASSUME LifecycleAssumption ==
    /\ KindOf \in [Plans -> Kinds]
    /\ "open" \notin Plans
    /\ \A p \in Plans : \/ Host[p] = "open"
                         \/ /\ Host[p] \in Plans /\ KindOf[Host[p]] \in Substrates
                            /\ KindOf[p] \notin Substrates
    /\ \A p \in Plans : KindOf[p] = "wire" =>
          \A end \in Ends : \A q \in Touch[p][end] :
              KindOf[q] \in {"gate", "wire", "junction", "mobile"}
    /\ \A p \in Plans : KindOf[p] = "mobile" =>
          Station[p] \subseteq Plans \X Places
    /\ MaxId \in Nat /\ MaxDamage \in Nat /\ MaxTick \in Nat

VARIABLES
    tick, stage,
    entities,       \* the registry: id -> record, removed ones included
    frontier,       \* first id the batch cannot refer to
    dirty,          \* wires and junctions the batch has rewired
    updates,        \* gates whose external driver the batch sets
    staged,         \* the ones it did set
    pending,        \* what damage has destroyed in this tick
    doomed          \* what goes for it and is still there

vars == <<tick, stage, entities, frontier, dirty, updates, staged, pending, doomed>>

None == 0           \* a free wire end, the open world

\* Where a mobile is: on a wire, or at a junction it came to along a wire.
On(support, place, edge) == [on |-> support, place |-> place, edge |-> edge]
OnEdge(w, place) == On(w, place, w)
AtJunction(j, incoming) == On(j, "junction", incoming)
Nowhere == On(None, "nowhere", None)

Entity(kind, plan, domain, a, b, at) ==
    [kind |-> kind, plan |-> plan, domain |-> domain, A |-> a, B |-> b,
     at |-> at, generation |-> 0, ready |-> FALSE]
Tombstone == Entity("removed", "none", None, None, None, Nowhere)
End(r, end) == IF end = "A" THEN r.A ELSE r.B

Ids == DOMAIN entities
Of(kind) == {e \in Ids : entities[e].kind = kind}
Live == {e \in Ids : entities[e].kind # "removed"}
Sites == Of("site")
Structure == Live \ Sites
next_id == Len(entities) + 1

Init ==
    /\ tick = 0 /\ stage = "destruction"
    /\ entities = <<>> /\ frontier = 1
    /\ dirty = {} /\ updates = {} /\ staged = {}
    /\ pending = {} /\ doomed = {}

-----------------------------------------------------------------------------
(* What an entity needs.                                                   *)

track_support(at) == at.on

\* A wire end can be left free; a site needs the ends it was reserved with.
DependenciesOf(r) ==
    (CASE r.kind = "mobile" -> {track_support(r.at)}
       [] r.kind = "site"   -> {r.domain, r.A, r.B}
       [] OTHER             -> {r.domain}) \ {None}
Dependencies(e) == DependenciesOf(entities[e])

wire_is_occupied_SupportOnly(w) ==
    \E m \in Of("mobile") : track_support(entities[m].at) = w
wire_is_occupied(w) == \E m \in Of("mobile") : entities[m].at.edge = w

junction_is_occupied(j) ==
    \E m \in Of("mobile") :
        LET at == entities[m].at IN
        \/ at.place = "junction" /\ at.on = j
        \/ at.place \in Ends /\ End(entities[at.on], at.place) = j

substrate_is_in_use(s) ==
    \E e \in Of("gate") \cup Of("wire") \cup Of("junction") :
        entities[e].domain = s

\* reference_location: live, and for a command also older than its batch.
Known(id) == id \in Live /\ (stage = "commands" => id < frontier)

-----------------------------------------------------------------------------
(* Placement.                                                              *)

ClashesWith(plan, domain, others) ==
    \E e \in others : /\ entities[e].domain = domain
                      /\ {plan, entities[e].plan} \in Clash

InDomain(plan, domain) ==
    IF Host[plan] = "open" THEN domain = None
    ELSE Known(domain) /\ entities[domain].kind = KindOf[Host[plan]]
                       /\ entities[domain].plan = Host[plan]

\* validate_endpoint: a port or junction of the wire's domain at its end, or
\* a port of the mobile that is the domain.
EndValid(plan, domain, end, target) ==
    \/ target = None
    \/ /\ Known(target) /\ entities[target].kind # "site"
       /\ entities[target].plan \in Touch[plan][end]
       /\ IF entities[target].kind = "mobile" THEN target = domain
          ELSE entities[target].domain = domain

\* An open-world wire does not lead from a junction to itself.
EndsValid(plan, domain, a, b) ==
    IF KindOf[plan] = "wire"
    THEN /\ EndValid(plan, domain, "A", a) /\ EndValid(plan, domain, "B", b)
         /\ ~(domain = None /\ a = b /\ a \in Of("junction"))
    ELSE a = None /\ b = None

CanPlace(plan, domain, a, b, others) ==
    /\ InDomain(plan, domain)
    /\ EndsValid(plan, domain, a, b)
    /\ ~ClashesWith(plan, domain, others)

\* Wires of the open world are the edges of the track, and a position at the
\* origin of a mobile is on one of them.  The program takes the least; any may
\* be it.
Edges == {w \in Of("wire") : entities[w].domain = None}
locate(plan, at) ==
    IF KindOf[plan] # "mobile" THEN at = Nowhere
    ELSE \E w \in Edges, place \in Places :
            <<entities[w].plan, place>> \in Station[plan] /\ at = OnEdge(w, place)

\* Junctions at the ends of a wire: rewired along with it.
JunctionEnds(r) == {r.A, r.B} \cap Of("junction")

New(plan, domain, a, b, at) == Entity(KindOf[plan], plan, domain, a, b, at)

\* What stands and what is reserved keep others out alike.
Taken_Built == Structure
Taken == Structure \cup Sites

Standing == {Nowhere} \cup {OnEdge(w, place) : w \in Edges, place \in Places}
Place(plan, domain, a, b) ==
    /\ stage = "commands" /\ next_id <= MaxId
    /\ CanPlace(plan, domain, a, b, Taken)
    /\ \E at \in Standing :
          locate(plan, at) /\ entities' = Append(entities, New(plan, domain, a, b, at))
    /\ dirty' = dirty \cup JunctionEnds([A |-> a, B |-> b])
    /\ UNCHANGED <<tick, stage, frontier, updates, staged, pending, doomed>>

\* The site keeps the target; what stands there gets an id of its own later.
PlaceSite(plan, domain, a, b) ==
    /\ stage = "commands" /\ next_id <= MaxId
    /\ KindOf[plan] # "mobile"
    /\ CanPlace(plan, domain, a, b, Taken)
    /\ entities' = Append(entities, Entity("site", plan, domain, a, b, Nowhere))
    /\ UNCHANGED <<tick, stage, frontier, dirty, updates, staged, pending, doomed>>

\* Ready sites are activated in the order of their ids.
Ready == {s \in Sites : entities[s].ready}
Activate(s) ==
    LET r == entities[s]
    IN  /\ stage = "activation" /\ s \in Ready /\ next_id <= MaxId
        /\ \A t \in Ready : s <= t
        /\ CanPlace(r.plan, r.domain, r.A, r.B, Structure)
        /\ entities' = Append([entities EXCEPT ![s] = Tombstone],
                              New(r.plan, r.domain, r.A, r.B, Nowhere))
        /\ dirty' = dirty \cup JunctionEnds(r)
        /\ UNCHANGED <<tick, stage, frontier, updates, staged, pending, doomed>>

BeginBatch ==
    /\ stage = "activation" /\ stage' = "commands"
    /\ Ready = {}
    /\ frontier' = next_id
    /\ UNCHANGED <<tick, entities, dirty, updates, staged, pending, doomed>>

-----------------------------------------------------------------------------
(* Removal, by command or by damage: the wire ends that led to what is     *)
(* gone become free, except those at a mobile, which only goes after the   *)
(* wires on it.                                                            *)

Freed(r, e) == [r EXCEPT !.A = IF @ = e THEN None ELSE @,
                         !.B = IF @ = e THEN None ELSE @]
Loosened(e) ==
    {w \in Of("wire") \ {e} : /\ e \in {entities[w].A, entities[w].B}
                             /\ entities[e].kind \in {"gate", "wire", "junction"}}
JunctionsAt_None(e) == {}
JunctionsAt(e) == IF entities[e].kind = "wire" THEN JunctionEnds(entities[e]) ELSE {}

Remove(e) ==
    /\ entities' = [x \in Ids |-> IF x = e THEN Tombstone
                                 ELSE IF x \in Loosened(e) THEN Freed(entities[x], e)
                                 ELSE entities[x]]
    /\ dirty' = dirty \cup Loosened(e) \cup JunctionsAt(e)

\* Generations advance once per batch of changes.
Advanced(es, changed) ==
    [e \in DOMAIN es |->
        IF e \in changed /\ es[e].kind \in {"wire", "junction"}
        THEN [es[e] EXCEPT !.generation = @ + 1] ELSE es[e]]

\* Sites that keep an entity from being removed by command.
SitesNeeding_Domain(e) == {s \in Sites : entities[s].domain = e}
SitesNeeding(e) == {s \in Sites : e \in Dependencies(s)}

Removable(e) ==
    CASE entities[e].kind = "wire"     -> ~wire_is_occupied(e)
      [] entities[e].kind = "junction" -> ~junction_is_occupied(e)
      [] entities[e].kind \in {"fixed", "mobile"} -> ~substrate_is_in_use(e)
      [] OTHER -> TRUE

RemoveEntity(e) ==
    /\ stage = "commands" /\ Known(e)
    /\ SitesNeeding(e) = {} /\ Removable(e)
    /\ Remove(e)
    /\ UNCHANGED <<tick, stage, frontier, updates, staged, pending, doomed>>

BindPort(w, end, target) ==
    LET r == entities[w]
        bound == IF end = "A" THEN [r EXCEPT !.A = target] ELSE [r EXCEPT !.B = target]
    IN  /\ stage = "commands" /\ Known(w) /\ r.kind = "wire"
        /\ ~wire_is_occupied(w)
        /\ target # End(r, end) /\ target # w
        /\ EndsValid(r.plan, r.domain, bound.A, bound.B)
        /\ entities' = [entities EXCEPT ![w] = bound]
        /\ dirty' = dirty \cup {w} \cup ({End(r, end), target} \cap Of("junction"))
        /\ UNCHANGED <<tick, stage, frontier, updates, staged, pending, doomed>>

\* A gate stands for the external driver at its input.
SetExternalDriver(g) ==
    /\ stage = "commands" /\ Known(g) /\ entities[g].kind = "gate"
    /\ updates' = updates \cup {g}
    /\ UNCHANGED <<tick, stage, entities, frontier, dirty, staged, pending, doomed>>

-----------------------------------------------------------------------------
(* Destruction: everything that depends on what is destroyed, to a fixed   *)
(* point; then one removal at a time, dependents first.  The program takes *)
(* the free one with the least id, here any is taken; nothing depends on   *)
(* itself, so the components it sorts are single entities.                 *)

Cascade(causes) ==
    causes \cup {e \in Live : Dependencies(e) \cap causes # {}}
Destroyed_OneRound == Cascade(pending)
\* The least set of live entities with the pending ones and their dependents.
Destroyed ==
    {e \in Live : \A causes \in SUBSET Live :
                    pending \subseteq causes /\ Cascade(causes) \subseteq causes => e \in causes}

Condemn ==
    /\ stage = "destruction" /\ stage' = "removal"
    /\ doomed' = Destroyed
    /\ staged' = {}
    /\ UNCHANGED <<tick, entities, frontier, dirty, updates, pending>>

DependentFirst_Any(e) == TRUE
DependentFirst(e) == \A d \in doomed : e \notin Dependencies(d)

StillPending_All(e) == pending
StillPending(e) == pending \ {e}

Destroy(e) ==
    /\ stage = "removal" /\ DependentFirst(e)
    /\ Remove(e)
    /\ doomed' = doomed \ {e} /\ pending' = StillPending(e)
    /\ UNCHANGED <<tick, stage, frontier, updates, staged>>

EndDestruction ==
    /\ stage = "removal" /\ stage' = "activation"
    /\ doomed = {}
    /\ entities' = Advanced(entities, dirty) /\ dirty' = {}
    /\ UNCHANGED <<tick, frontier, updates, staged, pending, doomed>>

-----------------------------------------------------------------------------
(* End of Phase 0 and Phase 1: generations advance, the updates of drivers *)
(* that are still there are staged, and every mobile is found on its       *)
(* track, or the step fails.                                               *)

Retained_All == updates
Retained == updates \cap Of("gate")

\* world_position: the edge is there, and it leads to the junction once.
OnTrack(m) ==
    LET at == entities[m].at IN
    /\ at.edge \in Edges
    /\ \/ at.place \in Places
       \/ /\ at.on \in Of("junction") /\ entities[at.on].domain = None
          /\ \E end \in Ends : /\ End(entities[at.edge], end) = at.on
                               /\ \A e \in Ends \ {end} : End(entities[at.edge], e) # at.on

EndBatch ==
    /\ stage = "commands" /\ stage' = "physics"
    /\ \A m \in Of("mobile") : OnTrack(m)
    /\ entities' = Advanced(entities, dirty)
    /\ dirty' = {} /\ updates' = {} /\ staged' = Retained
    /\ UNCHANGED <<tick, frontier, pending, doomed>>

-----------------------------------------------------------------------------
(* Phases 7 to 11.  A mobile moves along its edge, through a junction to   *)
(* an edge that meets it there.                                            *)

Arrive(w, end) == IF End(entities[w], end) \in Of("junction")
                  THEN AtJunction(End(entities[w], end), w) ELSE OnEdge(w, end)

Moves(at) ==
    IF at.place = "junction"
    THEN {OnEdge(w, "inside") : w \in {v \in Edges : at.on \in {entities[v].A, entities[v].B}}}
    ELSE {OnEdge(at.on, "inside")} \cup {Arrive(at.on, e) : e \in Ends}

Move(m, to) ==
    /\ stage = "physics"
    /\ entities' = [entities EXCEPT ![m].at = to]
    /\ UNCHANGED <<tick, stage, frontier, dirty, updates, staged, pending, doomed>>

CompleteWork(s) ==
    /\ stage = "physics" /\ ~entities[s].ready
    /\ entities' = [entities EXCEPT ![s].ready = TRUE]
    /\ UNCHANGED <<tick, stage, frontier, dirty, updates, staged, pending, doomed>>

\* Integrity reaches zero; the entity acts until the next tick begins.
Damage(e) ==
    /\ stage = "physics" /\ Cardinality(pending) < MaxDamage
    /\ pending' = pending \cup {e}
    /\ UNCHANGED <<tick, stage, entities, frontier, dirty, updates, staged, doomed>>

EndTick ==
    /\ stage = "physics" /\ stage' = "destruction"
    /\ tick < MaxTick /\ tick' = tick + 1
    /\ UNCHANGED <<entities, frontier, dirty, updates, staged, pending, doomed>>

-----------------------------------------------------------------------------
References == Live \cup {None}
\* What a command can name: a domain of its plan, and ends only for a wire.
Domains(plan) == {d \in References : InDomain(plan, d)}
Targets(plan) == IF KindOf[plan] = "wire" THEN References ELSE {None}

Next ==
    \/ /\ stage = "commands"
       /\ \E p \in Plans : \E domain \in Domains(p) : \E a, b \in Targets(p) :
             Place(p, domain, a, b) \/ PlaceSite(p, domain, a, b)
    \/ \E s \in Sites : Activate(s) \/ CompleteWork(s)
    \/ BeginBatch
    \/ \E e \in Live : RemoveEntity(e)
    \/ \E w \in Of("wire"), end \in Ends, target \in References :
          BindPort(w, end, target)
    \/ \E g \in Of("gate") : SetExternalDriver(g)
    \/ EndBatch
    \/ \E m \in Of("mobile") : \E to \in Moves(entities[m].at) : Move(m, to)
    \/ \E e \in Structure : Damage(e)
    \/ EndTick
    \/ Condemn
    \/ \E e \in doomed : Destroy(e)
    \/ EndDestruction

Spec == Init /\ [][Next]_vars

-----------------------------------------------------------------------------
(* Every record has the shape the Rust types give it.                      *)
Positions == {Nowhere} \cup {OnEdge(w, p) : w \in Ids, p \in Places}
                       \cup {AtJunction(j, w) : j, w \in Ids}
TypeOK ==
    /\ tick \in 0..MaxTick
    /\ stage \in {"destruction", "removal", "activation", "commands", "physics"}
    /\ Len(entities) <= MaxId /\ frontier \in 1..next_id
    /\ \A e \in Ids :
          LET r == entities[e]
          IN  /\ r.kind \in Kinds \cup {"site", "removed"}
              /\ r.plan \in Plans \cup {"none"}
              /\ {r.domain, r.A, r.B} \subseteq Ids \cup {None}
              /\ r.at \in Positions /\ r.generation \in Nat
              /\ r.ready \in BOOLEAN
    /\ dirty \subseteq Ids /\ updates \subseteq Ids /\ staged \subseteq Ids

(* Nothing that lives refers to anything that is gone: not a wire end, not *)
(* a routing domain, not a site to what it will be built on, not a mobile  *)
(* to the wire or junction that carries it.  It holds after every single   *)
(* removal, of the doomed ones too, and one of them can always go next.    *)
NothingDangles ==
    \A e \in Live : /\ Dependencies(e) \subseteq Live
                    /\ {entities[e].A, entities[e].B} \subseteq Live \cup {None}
RemovalGoesOn ==
    /\ pending \subseteq Structure /\ doomed \subseteq Live
    /\ doomed # {} => stage = "removal" /\ \E e \in doomed : DependentFirst(e)
    /\ stage \in {"activation", "commands"} => pending = {}
RefersToTheLiving == NothingDangles /\ RemovalGoesOn

(* A reservation holds until it is used: at any point of Phase 0 every     *)
(* site could be built, whatever was placed, rebound, removed or destroyed *)
(* since, so neither its activation nor a check of reservations fails.  An *)
(* update that is staged has a driver to change; one of a gate removed     *)
(* later in the batch would fail the step.                                 *)
ReservationHolds ==
    stage \in {"activation", "commands"} =>
        \A s \in Sites :
            LET r == entities[s]
            IN  CanPlace(r.plan, r.domain, r.A, r.B, Taken \ {s})
UpdatesApply == stage = "physics" => staged \subseteq Of("gate")
PromisesHold == ReservationHolds /\ UpdatesApply

(* Signals in flight can tell: a wire whose ends change, and a junction    *)
(* whose wires change, is marked until its generation advances.            *)
Meeting(e) == {x \in Of("wire") \X Ends : End(entities[x[1]], x[2]) = e}
Elements == Of("wire") \cup Of("junction")
Rewired(e) ==
    \/ entities[e].kind = "wire" /\ ~(/\ entities'[e].A = entities[e].A
                                     /\ entities'[e].B = entities[e].B)
    \/ entities[e].kind = "junction" /\ Meeting(e)' # Meeting(e)
RewiringShows ==
    [][\A e \in Elements \cap Elements' :
          \/ entities'[e].generation = entities[e].generation + 1
          \/ /\ e \in dirty => e \in dirty'
             /\ Rewired(e) => e \in dirty']_vars

(* No command, no activation and no movement takes the track from under a  *)
(* mobile, wherever it has moved.                                          *)
TrackStaysUnderMobiles ==
    [][\A m \in Of("mobile") \cap Of("mobile")' :
          stage # "removal" /\ OnTrack(m) => OnTrack(m)']_vars

(* When Phase 1 begins every live mobile is found on the track: it is not, *)
(* for damage takes the track.                                             *)
DamagedTrackResolves ==
    stage = "commands" => \A m \in Of("mobile") : OnTrack(m)
=============================================================================
