---- MODULE ReferencePair ----
(* Two designs for one scenario, compared on equal terms: the pair manifest and
   the experiment plan made from it (reference_experiment.rs), the metric set
   whose rows name a sensor wire and a defense wire in both designs, and what
   becomes of a row once a design is built (reference_metrics.rs).
   A binding name is its parts, <<"sensor", "east", "0">>; a hash is a number,
   its place in the order of hashes. *)
EXTENDS ReferenceArchitecture

CONSTANTS
    Cases,      \* [pair, metrics, designs, actual, scenario] to go through
    LengthOf    \* length of the wire with a local id

PairAssumption == \A c \in Cases : DOMAIN c.designs = {"brute", "computed"}

VARIABLES case, plan, runs, rows, classes, step
pairVars == <<case, plan, runs, rows, classes, step>>

Roles == {"brute", "computed"}
Sectors == {"east", "north", "south", "west"}

(* ---------------- the manifest ---------------- *)

IsIn(name, space) == Len(name) >= 2 /\ name[1] = space
AscendingNames(list) == \A i \in 1..(Len(list) - 1) : list[i].name < list[i + 1].name
AreDistinct(list, key(_)) == \A i, j \in DOMAIN list : key(list[i]) = key(list[j]) => i = j

\* validate_response_bindings: a row stays in one sector, no name serves twice.
ResponsesAreSound(bindings) ==
    /\ bindings # <<>>
    /\ \A b \in Range(bindings) :
           /\ IsIn(b.entry, "sensor") /\ IsIn(b.defense, "defense")
           /\ b.entry[2] \in Sectors /\ b.defense[2] = b.entry[2]
    /\ AscendingNames(bindings)
    /\ AreDistinct(bindings, LAMBDA b : b.entry) /\ AreDistinct(bindings, LAMBDA b : b.defense)

DesignsDiffer(designs) == designs[1].hash # designs[2].hash /\ designs[1].log # designs[2].log

\* ReferenceArchitecturePairManifest::validate
PairIsSound(pair) ==
    /\ pair.build <= pair.start /\ pair.start < pair.max
    /\ pair.designs[1].role = "brute" /\ pair.designs[2].role = "computed"
    /\ DesignsDiffer(pair.designs)
    /\ ResponsesAreSound(pair.bindings)

\* validate_response_specs
MetricsAreSound(metrics) ==
    /\ metrics # <<>>
    /\ AscendingNames(metrics)
    /\ AreDistinct(metrics, LAMBDA row : <<row.entry, row.enemy>>)
    /\ AreDistinct(metrics, LAMBDA row : <<row.defense, row.enemy>>)

\* validate_reference_pair_fairness: what the pair says of the scenario, the
\* profiles, the boundaries and the metric set is what is about to be run.
IsFair(pair, actual) == pair.setting = actual

(* ---------------- names and wires ---------------- *)

TargetOf(list, name) == list[CHOOSE i \in DOMAIN list : list[i].name = name].target
IsNamed(list, name) == \E i \in DOMAIN list : list[i].name = name

\* A row names a sense port by its entry and a wire by its defense.
EntryIsPort(art, name) ==
    IsNamed(art.observations, name) /\ TargetOf(art.observations, name).to = "sensePort"
DefenseIsWire(art, name) ==
    /\ IsNamed(art.roles, name)
    /\ TargetOf(art.roles, name).to = "local" /\ IsA(art, TargetOf(art.roles, name).id, "wire")

\* validate_reference_metric_bindings
BindingsMatch(c) ==
    /\ MetricsAreSound(c.metrics)
    /\ \A i \in {1, 2} : c.pair.designs[i].hash = c.designs[c.pair.designs[i].role].hash
    /\ Len(c.pair.bindings) = Len(c.metrics)
    /\ \A i \in DOMAIN c.metrics :
           /\ c.pair.bindings[i].name = c.metrics[i].name
           /\ c.pair.bindings[i].entry = c.metrics[i].entry
           /\ c.pair.bindings[i].defense = c.metrics[i].defense
           /\ \A role \in Roles : /\ EntryIsPort(c.designs[role].art, c.metrics[i].entry)
                                  /\ DefenseIsWire(c.designs[role].art, c.metrics[i].defense)

(* ---------------- the plan ---------------- *)

\* sort_unstable_by_key on the hash of the design
ByHash(designs) == IF designs[1].hash <= designs[2].hash THEN designs ELSE <<designs[2], designs[1]>>
Copied(pair) == [f \in {"build", "start", "max", "setting"} |-> pair[f]]
PairHash(pair) == pair

\* from_pair
PlanOf(name, pair) ==
    [name |-> name, pairHash |-> PairHash(pair), copied |-> Copied(pair), designs |-> ByHash(pair.designs)]

\* ReferenceExperimentPlanV2::validate and validate_experiment_designs
PlanIsSound(p) ==
    /\ p.copied.build <= p.copied.start /\ p.copied.start < p.copied.max
    /\ {p.designs[1].role, p.designs[2].role} = Roles
    /\ DesignsDiffer(p.designs)
    /\ p.designs[1].hash <= p.designs[2].hash

PlanFits_AnyDesigns(p, pair) ==
    /\ PairIsSound(pair) /\ PlanIsSound(p)
    /\ p.pairHash = PairHash(pair)
    /\ p.copied = Copied(pair)
\* validate_against_pair
PlanFits(p, pair) ==
    /\ PairIsSound(pair) /\ PlanIsSound(p)
    /\ p.pairHash = PairHash(pair)
    /\ p.copied = Copied(pair)
    /\ p.designs = ByHash(pair.designs)

\* experiment_run_id_v2: the fields that are hashed.
RunId(p, pair, design) ==
    <<p.name, PairHash(pair), pair.setting, design.hash, design.log, p.copied>>
\* resolve
RunsOf(p, pair) == [i \in {1, 2} |-> [design |-> p.designs[i], id |-> RunId(p, pair, p.designs[i])]]

\* Plans somebody may hand in for a pair: its own, or one with a slip in it.
PlansFor(pair) ==
    LET own == PlanOf("experiment", pair) IN
    {own, [own EXCEPT !.designs = Reverse(@)], [own EXCEPT !.copied.max = @ + 1],
     [own EXCEPT !.pairHash = [pair EXCEPT !.build = @ + 1]],
     [own EXCEPT !.designs[1].log = own.designs[2].log, !.designs[2].log = own.designs[1].log]}

(* ---------------- a built design ---------------- *)

WireClasses == {"shared", "sensor", "trunk", "defense"}
\* role_wire_class and semantic_target_wire over roles and observations
Claims(art) ==
    {[class |-> row.name[1], target |-> row.target] :
        row \in {r \in Range(art.roles) \cup Range(art.observations) : r.name[1] \in WireClasses}}
ClassesAreSound(art) ==
    /\ \A c \in Claims(art) : c.target.to \in {"local", "sensePort"} /\ IsA(art, c.target.id, "wire")
    /\ \A c, d \in Claims(art) : c.target.id = d.target.id => c.class = d.class
    /\ \A op \in Range(art.operations) : op.kind # "mobile"
ClassOf(art, wire) ==
    IF \E c \in Claims(art) : c.target.id = wire
    THEN (CHOOSE c \in Claims(art) : c.target.id = wire).class ELSE "other"
WiresIn(art, class) == {w.id : w \in {v \in Wires(art) : ClassOf(art, v.id) = class}}
LengthIn(wires) == FoldSet(LAMBDA wire, sum : sum + LengthOf[wire], 0, wires)

\* derive_reference_static_inventory: the lengths of all wires and of each class.
Inventory(art) ==
    [total |-> LengthIn({w.id : w \in Wires(art)}),
     of |-> [class \in WireClasses \cup {"other"} |-> LengthIn(WiresIn(art, class))]]
\* ReferenceStaticInventory::validate
AddsUp(inventory) ==
    inventory.total = FoldSet(LAMBDA class, sum : sum + inventory.of[class], 0, DOMAIN inventory.of)

\* resolve_reference_response_observations
IsResolvable(art, row, scenario) ==
    EntryIsPort(art, row.entry) /\ DefenseIsWire(art, row.defense) /\ row.enemy < scenario.enemies
ResolvedRow(art, row) ==
    LET port == TargetOf(art.observations, row.entry) IN
    [name |-> row.name, sensor |-> port.id, end |-> port.port,
     defense |-> TargetOf(art.roles, row.defense).id, enemy |-> row.enemy]

\* validate_resolved_responses: one row for each sensor, defense and enemy.
RowsAreObservable(resolved) ==
    AscendingNames(resolved) /\ AreDistinct(resolved, LAMBDA r : <<r.sensor, r.end, r.defense, r.enemy>>)

(* ---------------- the way to the first tick ---------------- *)

InitPair ==
    /\ case \in Cases
    /\ plan = <<>> /\ runs = <<>> /\ step = "offered"
    /\ rows = [role \in Roles |-> <<>>] /\ classes = [role \in Roles |-> <<>>]

CheckPair ==
    /\ step = "offered"
    /\ step' = IF PairIsSound(case.pair) /\ IsFair(case.pair, case.actual) THEN "fair" ELSE "pair refused"
    /\ UNCHANGED <<case, plan, runs, rows, classes>>

TakePlan ==
    /\ step = "fair"
    /\ \E p \in PlansFor(case.pair) :
           IF PlanFits(p, case.pair)
           THEN plan' = p /\ runs' = RunsOf(p, case.pair) /\ step' = "planned"
           ELSE step' = "plan refused" /\ UNCHANGED <<plan, runs>>
    /\ UNCHANGED <<case, rows, classes>>

MatchBindings ==
    /\ step = "planned"
    /\ step' = IF BindingsMatch(case) THEN "matched" ELSE "bindings refused"
    /\ UNCHANGED <<case, plan, runs, rows, classes>>

\* build_s1m5_trace_artifacts up to its collector, for both designs.
Observe ==
    /\ step = "matched"
    /\ LET art(role) == case.designs[role].art
           resolved(role) == [i \in DOMAIN case.metrics |-> ResolvedRow(art(role), case.metrics[i])]
       IN IF \E role \in Roles : ~ClassesAreSound(art(role)) \/ ~AddsUp(Inventory(art(role)))
          THEN step' = "inventory refused" /\ UNCHANGED <<rows, classes>>
          ELSE IF \E role \in Roles : \E row \in Range(case.metrics) : ~IsResolvable(art(role), row, case.scenario)
          THEN step' = "row refused" /\ UNCHANGED <<rows, classes>>
          ELSE /\ rows' = [role \in Roles |-> resolved(role)]
               /\ classes' = [role \in Roles |-> Inventory(art(role))]
               /\ step' = IF \A role \in Roles : RowsAreObservable(resolved(role)) THEN "observing"
                          ELSE "collector refused"
    /\ UNCHANGED <<case, plan, runs>>

NextPair == CheckPair \/ TakePlan \/ MatchBindings \/ Observe

(* ---------------- properties ---------------- *)

\* What is compared differs in the design alone: a plan somebody hands in passes
\* only if it is the one the pair makes, one run per role, with ids of their own
\* (validate_against_pair, resolve).
RunsDifferInDesign ==
    runs # <<>> =>
        /\ plan = PlanOf("experiment", case.pair)
        /\ {runs[i].design.role : i \in {1, 2}} = Roles
        /\ runs[1].id # runs[2].id
        /\ \A i \in {1, 2} : runs[i].design.hash < runs[3 - i].design.hash => i = 1

\* What the static check of the names accepts can be observed in both designs:
\* after it a row is lost to an enemy the scenario does not have, and a collector
\* to two names of one wire, and to nothing else; and the sensor and the defense
\* of a row are two wires, each counted in the class its name claims.
BindingsHold ==
    /\ step = "row refused" => \E row \in Range(case.metrics) : row.enemy >= case.scenario.enemies
    /\ step = "collector refused" =>
           \E role \in Roles : \E i, j \in DOMAIN rows[role] :
               /\ i # j /\ rows[role][i].enemy = rows[role][j].enemy
               /\ rows[role][i].sensor = rows[role][j].sensor
               /\ rows[role][i].defense = rows[role][j].defense
    /\ step = "observing" =>
           \A role \in Roles :
               LET art == case.designs[role].art IN
               /\ Len(rows[role]) = Len(case.metrics)
               /\ \A row \in Range(rows[role]) :
                      /\ row.sensor # row.defense
                      /\ ClassOf(art, row.sensor) = "sensor" /\ ClassOf(art, row.defense) = "defense"
               /\ classes[role].of["sensor"] = LengthIn({row.sensor : row \in Range(rows[role])}
                                                        \cup WiresIn(art, "sensor"))
               /\ classes[role].total = LengthIn({w.id : w \in Wires(art)})
               /\ AddsUp(classes[role])
====
