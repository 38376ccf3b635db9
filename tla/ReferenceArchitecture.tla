---- MODULE ReferenceArchitecture ----
(* A Reference Architecture (reference_architecture.rs): a design written with
   local ids, what makes it canonical, the plan of batches it is built by, and
   the commands each step of the plan becomes once the entities it refers to
   are known.  Positions are tokens: equal tokens are equal coordinates. *)
EXTENDS Integers, Sequences, FiniteSets, SequencesExt, FiniteSetsExt, Functions

CONSTANT MaxBindingBatches   \* REFERENCE_ARCHITECTURE_MAX_BINDING_BATCHES_V2

ArchitectureAssumption == MaxBindingBatches \in Nat \ {0}

Ends == <<"a", "b">>
Open == [space |-> "open", id |-> 0]
In(space, id) == [space |-> space, id |-> id]
Endpoint(to, id, port) == [to |-> to, id |-> id, port |-> port]
Free == Endpoint("free", 0, "none")

\* Operations, one record shape: `ends` and `at` mean what the kind makes of them.
Operation(id, kind, domain, type, at, ends) ==
    [id |-> id, kind |-> kind, domain |-> domain, type |-> type, at |-> at, ends |-> ends]

Ids(art) == {art.operations[i].id : i \in DOMAIN art.operations}
OperationOf(art, id) == CHOOSE op \in Range(art.operations) : op.id = id
IsA(art, id, kind) == id \in Ids(art) /\ OperationOf(art, id).kind = kind
Wires(art) == {op \in Range(art.operations) : op.kind = "wire"}
EndNumber(end) == IF end = "a" THEN 1 ELSE 2
TargetAt(art, wire, end) == OperationOf(art, wire).ends[EndNumber(end)]

(* ---------------- references ---------------- *)

GatePortExists(art, gate, port) ==
    /\ IsA(art, gate, "gate")
    /\ ~(OperationOf(art, gate).type = "not" /\ port = "inputB")

DomainExists(art, domain) == domain.space # "open" => IsA(art, domain.id, domain.space)

EndpointExists(art, owner, target) ==
    /\ target.to = "junction" => IsA(art, target.id, "junction")
    /\ target.to = "gatePort" => GatePortExists(art, target.id, target.port)
    /\ target.to = "mobilePort" => IsA(art, target.id, "mobile")
    /\ target.to = "sensePort" => IsA(art, target.id, "wire") /\ target.id # owner

ReferencesExist(art) ==
    \A op \in Range(art.operations) :
        /\ op.kind \in {"gate", "junction", "wire"} => DomainExists(art, op.domain)
        /\ op.kind = "gate" => op.domain # Open
        /\ op.kind = "wire" => \A i \in {1, 2} : EndpointExists(art, op.id, op.ends[i])

\* Roles and observations name what the metrics watch; MainCore, PowerSource and
\* Enemy targets belong to the scenario.
TargetExists(art, target) ==
    /\ target.to = "local" => target.id \in Ids(art)
    /\ target.to = "gatePort" => GatePortExists(art, target.id, target.port)
    /\ target.to = "mobilePort" => IsA(art, target.id, "mobile")
    /\ target.to = "sensePort" => IsA(art, target.id, "wire")

NamesAreDistinct(rows) == \A i, j \in DOMAIN rows : rows[i].name = rows[j].name => i = j

BindingsExist(art) ==
    \A rows \in {art.roles, art.observations} :
        /\ NamesAreDistinct(rows)
        /\ \A i \in DOMAIN rows : rows[i].name # <<>> /\ TargetExists(art, rows[i].target)

(* ---------------- the schedule of binding stages ---------------- *)

Before(left, right) ==
    \/ left.wire < right.wire
    \/ left.wire = right.wire /\ EndNumber(left.end) < EndNumber(right.end)

AscendingEnds(batch) == \A i \in 1..(Len(batch) - 1) : Before(batch[i], batch[i + 1])

MayBindAt(art, stage, binding) ==
    /\ IsA(art, binding.wire, "wire")
    /\ LET target == TargetAt(art, binding.wire, binding.end) IN
       /\ target # Free
       /\ stage > 1 => target.to = "powerSource"

BoundEnds(art) ==
    {b \in [wire : {w.id : w \in Wires(art)}, end : Range(Ends)] : TargetAt(art, b.wire, b.end) # Free}

\* validate_materialization_schedule: version 1 has no schedule; version 2 binds
\* every end that is not free, once, late stages binding nothing but sources.
ScheduleIsCanonical(art) ==
    IF art.format = 1 THEN art.schedule = <<>>
    ELSE /\ Len(art.schedule) \in 1..MaxBindingBatches
         /\ Head(art.schedule) # <<>> /\ Last(art.schedule) # <<>>
         /\ \A stage \in DOMAIN art.schedule :
                /\ AscendingEnds(art.schedule[stage])
                /\ \A i \in DOMAIN art.schedule[stage] : MayBindAt(art, stage, art.schedule[stage][i])
         /\ \A s, t \in DOMAIN art.schedule :
                s # t => Range(art.schedule[s]) \cap Range(art.schedule[t]) = {}
         /\ BoundEnds(art) \subseteq UNION {Range(art.schedule[s]) : s \in DOMAIN art.schedule}

IsCanonical(art) ==
    /\ art.operations # <<>>
    /\ Cardinality(Ids(art)) = Len(art.operations)
    /\ ReferencesExist(art)
    /\ BindingsExist(art)
    /\ ScheduleIsCanonical(art)

(* ---------------- geometry: what every end must meet ---------------- *)

DomainOf(art, id) == OperationOf(art, id).domain
\* One token names a junction, a gate with its ports, and each end of a wire.
PlaceOf(art, target) ==
    LET op == OperationOf(art, target.id) IN
    IF target.to = "sensePort" THEN op.at[EndNumber(target.port)] ELSE op.at[1]

\* validate_deferred_endpoints: the ends the module preflight leaves free.
EndIsMet(art, wire, i) ==
    LET target == wire.ends[i] IN
    /\ target.to = "mainCore" => wire.domain = Open
    /\ target.to \in {"junction", "gatePort", "sensePort"} =>
           /\ wire.domain = DomainOf(art, target.id)
           /\ wire.at[i] = PlaceOf(art, target)
    /\ target.to = "mobilePort" =>
           /\ wire.domain = In("mobile", target.id)
           /\ wire.at[i] \in Range(OperationOf(art, target.id).at)

EndsAreMet(art) == \A wire \in Wires(art) : \A i \in {1, 2} : EndIsMet(art, wire, i)

\* The scenario owns the sources and enemies an ordinal may name.
AnchorsExist(art, scenario) ==
    /\ \A wire \in Wires(art) : \A i \in {1, 2} :
           wire.ends[i].to = "powerSource" => wire.ends[i].id < scenario.sources
    /\ \A rows \in {art.roles, art.observations} : \A i \in DOMAIN rows :
           /\ rows[i].target.to = "powerSource" => rows[i].target.id < scenario.sources
           /\ rows[i].target.to = "enemy" => rows[i].target.id < scenario.enemies

(* ---------------- the plan ---------------- *)

Placement(phase) == [of |-> "placement", index |-> phase]
Binding(stage) == [of |-> "binding", index |-> stage]
Place(id) == [does |-> "place", id |-> id, end |-> "none", target |-> Free]
Bind(art, wire, end) == [does |-> "bind", id |-> wire, end |-> end, target |-> TargetAt(art, wire, end)]

PlacementPhase_MobileFirst(op) ==
    IF op.kind = "fixed" THEN 0
    ELSE IF op.kind = "mobile" THEN 3
    ELSE IF op.kind = "wire" THEN (IF op.domain.space = "mobile" THEN 3 ELSE 2)
    ELSE IF op.domain.space = "mobile" THEN 4 ELSE 1

\* materialization_phase: an operation comes after the substrate it stands on.
PlacementPhase(op) ==
    IF op.kind = "fixed" THEN 0
    ELSE IF op.kind = "mobile" THEN 3
    ELSE IF op.kind = "wire" THEN (IF op.domain.space = "mobile" THEN 5 ELSE 2)
    ELSE IF op.domain.space = "mobile" THEN 4 ELSE 1

PlacementSteps(art, phase) ==
    LET ids == {op.id : op \in {o \in Range(art.operations) : PlacementPhase(o) = phase}} IN
    LET order == SetToSortSeq(ids, <) IN [i \in DOMAIN order |-> Place(order[i])]

BindSteps(art, batch) == [i \in DOMAIN batch |-> Bind(art, batch[i].wire, batch[i].end)]

\* Version 1 binds every bound end in one last batch; version 2 follows its schedule.
BindingBatches(art) ==
    IF art.format = 2 THEN [s \in DOMAIN art.schedule |-> BindSteps(art, art.schedule[s])]
    ELSE IF BoundEnds(art) = {} THEN <<>>
    ELSE <<BindSteps(art, SetToSortSeq(BoundEnds(art), Before))>>

\* materialization_plan: placements by phase, empty phases left out, then bindings.
Plan(art) ==
    LET phases == SetToSortSeq({p \in 0..5 : PlacementSteps(art, p) # <<>>}, <)
        bindings == BindingBatches(art)
    IN [i \in DOMAIN phases |-> [kind |-> Placement(phases[i]), steps |-> PlacementSteps(art, phases[i])]]
       \o [s \in DOMAIN bindings |-> [kind |-> Binding(s - 1), steps |-> bindings[s]]]

Kinds(plan) == [i \in DOMAIN plan |-> plan[i].kind]
StepsOf(plan, kind) ==
    IF kind \in Range(Kinds(plan)) THEN plan[CHOOSE i \in DOMAIN plan : plan[i].kind = kind].steps ELSE <<>>
AllSteps(plan) == FlattenSeq([i \in DOMAIN plan |-> plan[i].steps])

(* ---------------- commands ---------------- *)

DomainIds(domain) == IF domain.space = "open" THEN {} ELSE {domain.id}
EndpointIds(target) ==
    IF target.to \in {"junction", "gatePort", "mobilePort", "sensePort"} THEN {target.id} ELSE {}

\* The local ids a step's command names (resolve_placement, resolve_endpoint);
\* wires are placed with both ends free, so only the binding names their targets.
NamedBy(art, step) ==
    IF step.does = "bind" THEN {step.id} \cup EndpointIds(step.target)
    ELSE LET op == OperationOf(art, step.id) IN
         IF op.kind \in {"fixed", "mobile"} THEN {} ELSE DomainIds(op.domain)

Resolvable(art, step, entities, scenario) ==
    /\ NamedBy(art, step) \subseteq DOMAIN entities
    /\ step.target.to = "powerSource" => step.target.id < scenario.sources

CommandOf(art, step, tick, ordinal, entities) ==
    [tick |-> tick, ordinal |-> ordinal, step |-> step,
     refs |-> {<<id, entities[id]>> : id \in NamedBy(art, step)}]

Creates(step) == step.does = "place"
====
