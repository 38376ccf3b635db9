---- MODULE ScenarioWorld ----
(* From a scenario to tick 0: what the strict decoder accepts (artifact.rs),
   what it demands of the profiles, and what Simulation::new (simulation.rs)
   checks again before it gives every core, source and enemy its identity.
   The lists of a scenario have no order: positions on one axis stand for
   coordinates, and a world is a function from ids to what stands there. *)
EXTENDS Integers, Sequences, FiniteSets, SequencesExt, TLC

CONSTANTS
    Scenarios,       \* scenario manifests on offer
    Balances,        \* balance profiles on offer
    Quantum,         \* wireGeometryQuantum of the physical scale
    MaxCoordinate,   \* largest Fixed coordinate
    MaxCapacity      \* largest capacity that still fits its unit (from_whole_ncu)

VARIABLES
    scenario, balance,
    package,     \* the world the decoder hands on, its lists in canonical order
    world,       \* what stands at tick 0
    stage        \* "offered", "decoded", "packaged", "running", or who refused

scenarioVars == <<scenario, balance, package, world, stage>>

\* scenario: [schema, kind, core, sources, enemies, features, named, hashed]; core
\* [at, integrity], source [at, generation], enemy [at, velocity, radius, integrity].
\* A scenario refers to its profiles by id and by hash: named and hashed are the
\* profiles whose id and whose hash are those of the profile the package holds.
\* balance: [schema, probes, capacity, core, enemy] with the integrities it sets.
Kind(schema) == <<"empty", "core", "power", "enemy">>[schema]
StageFeatures == {"signal", "mobility", "capacity", "sensing", "power", "construction", "contact", "damage"}
Unsupported == {"relay", "payload", "radiation"}
Profiles == {"numeric", "physicalScale", "balance"}

NextAt(enemy) == enemy.at + enemy.velocity
FitsFixed(x) == -MaxCoordinate <= x /\ x <= MaxCoordinate
IsAligned(x) == x % Quantum = 0

SourceBefore(a, b) == a.at < b.at \/ (a.at = b.at /\ a.generation < b.generation)
EnemyKey(e) == <<e.at, e.velocity, e.radius, e.integrity>>
EnemyBefore(a, b) ==
    \E i \in 1..4 : /\ EnemyKey(a)[i] < EnemyKey(b)[i]
                    /\ \A j \in 1..(i - 1) : EnemyKey(a)[j] = EnemyKey(b)[j]
AreDistinct(list, key(_)) == \A i, j \in DOMAIN list : key(list[i]) = key(list[j]) => i = j

SourcesAreSound(sources) ==
    /\ \A source \in Range(sources) : source.generation > 0
    /\ AreDistinct(sources, LAMBDA source : source.at)
EnemiesAreSound(enemies) ==
    /\ enemies # <<>>
    /\ \A enemy \in Range(enemies) :
           enemy.radius > 0 /\ enemy.integrity > 0 /\ FitsFixed(NextAt(enemy))
    /\ AreDistinct(enemies, EnemyKey)

(* ---------------- decoding ---------------- *)

\* decode_scenario_manifest
Decodes(s) ==
    /\ s.kind = Kind(s.schema)
    /\ s.kind # "empty" => s.core.integrity > 0
    /\ s.kind \in {"power", "enemy"} => SourcesAreSound(s.sources)
    /\ s.kind = "enemy" => EnemiesAreSound(s.enemies)
    /\ IF s.schema = 4 THEN StageFeatures \subseteq s.features
       ELSE s.features \cap {"construction", "contact", "damage"} = {}

Ordered_AsListed(s) == [s EXCEPT !.sources = SortSeq(@, SourceBefore)]
Ordered(s) == [s EXCEPT !.sources = SortSeq(@, SourceBefore), !.enemies = SortSeq(@, EnemyBefore)]

\* canonical_hash: what is hashed, in the order it is hashed.
ScenarioHash(s) == Ordered(s)

\* BalanceProfile::validate, the probes a schema demands and forbids.
ProbesOf(schema) ==
    (IF schema >= 3 THEN {"power"} ELSE {}) \cup (IF schema >= 4 THEN {"support"} ELSE {})
    \cup (IF schema = 5 THEN {"construction", "contact"} ELSE {})
BalanceIsValid(b) ==
    /\ b.probes \ {"capacity"} = ProbesOf(b.schema)
    /\ b.schema >= 4 => "capacity" \in b.probes
    /\ "capacity" \in b.probes => b.capacity > 0

WorldIsAligned(s) ==
    /\ IsAligned(s.core.at)
    /\ \A source \in Range(s.sources) : IsAligned(source.at)
    /\ \A enemy \in Range(s.enemies) :
           \A x \in {enemy.at, enemy.velocity, enemy.radius, NextAt(enemy)} : IsAligned(x)
IntegritiesMatch(s, b) ==
    /\ s.core.integrity = b.core
    /\ \A enemy \in Range(s.enemies) : enemy.integrity = b.enemy

Coheres_WithoutIntegrity(s, b) == s.schema = 4 => b.schema = 5 /\ WorldIsAligned(s)
\* validate_profile_reference: the decoder compares the ids and no hash.
ReferencesFit(s) == s.named = Profiles

\* validate_scenario_profile_coherence
Coheres(s, b) == s.schema = 4 => b.schema = 5 /\ WorldIsAligned(s) /\ IntegritiesMatch(s, b)

(* ---------------- Simulation::new ---------------- *)

\* validate_s1m4_initial_world_precedence: faults of a v4 world come first.
WorldComesFirst(s) ==
    s.kind = "enemy" =>
        s.core.integrity > 0 /\ SourcesAreSound(s.sources) /\ EnemiesAreSound(s.enemies) /\ WorldIsAligned(s)

SuitsEnemies(s, b) ==
    /\ StageFeatures \subseteq s.features
    /\ {"capacity", "power", "construction", "contact"} \subseteq b.probes
    /\ s.core.integrity > 0 /\ SourcesAreSound(s.sources) /\ EnemiesAreSound(s.enemies)
    /\ WorldIsAligned(s) /\ IntegritiesMatch(s, b)

\* The arms of `new`: the features and probes each kind of world needs.
Suits(s, b) ==
    CASE s.kind = "empty" ->
           /\ s.features \cap (StageFeatures \ {"signal", "mobility"}) = {}
           /\ "power" \notin b.probes
      [] s.kind = "core" ->
           /\ s.features \cap {"sensing", "power", "construction", "contact", "damage"} = {}
           /\ "capacity" \in s.features /\ "capacity" \in b.probes /\ "power" \notin b.probes
           /\ s.core.integrity > 0 /\ IsAligned(s.core.at)
      [] s.kind = "power" ->
           /\ s.features \cap {"construction", "contact", "damage"} = {}
           /\ {"capacity", "sensing", "power"} \subseteq s.features
           /\ {"capacity", "power"} \subseteq b.probes
           /\ s.core.integrity > 0 /\ IsAligned(s.core.at)
           /\ \A source \in Range(s.sources) : IsAligned(source.at)
           /\ SourcesAreSound(s.sources)        \* PowerSourceStore::new
      [] OTHER -> SuitsEnemies(s, b)

\* validate_profiles: the contract is the hashes the scenario declares
\* (from_artifacts), or those a package made by hand was given.
ContractHolds(s) == s.hashed = Profiles

Starts_UnderAnyContract(s, b) ==
    /\ s.features \cap Unsupported = {}
    /\ WorldComesFirst(s)
    /\ BalanceIsValid(b)
    /\ Suits(s, b)
    /\ s.kind # "empty" => b.capacity <= MaxCapacity
Starts(s, b) ==
    /\ s.features \cap Unsupported = {}
    /\ WorldComesFirst(s)
    /\ BalanceIsValid(b)
    /\ ContractHolds(s)
    /\ Suits(s, b)
    /\ s.kind # "empty" => b.capacity <= MaxCapacity

\* `new` sorts the lists of a v4 world itself and takes those of a v3 world as
\* they come.
Arranged(s) == IF s.kind = "enemy" THEN Ordered(s) ELSE s

\* new_with_main_core_power_source_and_enemy_registry_entries: ids in order.
WorldOf(s) ==
    LET all == (IF s.kind = "empty" THEN <<>> ELSE <<s.core>>)
               \o (IF s.kind \in {"power", "enemy"} THEN Arranged(s).sources ELSE <<>>)
               \o (IF s.kind = "enemy" THEN Arranged(s).enemies ELSE <<>>)
    IN [id \in DOMAIN all |-> all[id]]

(* ---------------- the way to tick 0 ---------------- *)

InitScenario ==
    /\ scenario \in Scenarios /\ balance \in Balances
    /\ package = scenario /\ world = <<>> /\ stage = "offered"

Decode ==
    /\ stage = "offered"
    /\ IF Decodes(scenario) THEN stage' = "decoded" /\ package' = Ordered(scenario)
       ELSE stage' = "decoder refused" /\ UNCHANGED package
    /\ UNCHANGED <<scenario, balance, world>>

\* decode_package
Pack ==
    /\ stage = "decoded"
    /\ stage' = IF BalanceIsValid(balance) /\ ReferencesFit(package) /\ Coheres(package, balance)
                THEN "packaged" ELSE "package refused"
    /\ UNCHANGED <<scenario, balance, package, world>>

\* SimulationPackage::new: a package made by hand skips the decoder; it holds a
\* kind of world and no schema.
PackByHand ==
    /\ stage = "offered" /\ scenario.kind = Kind(scenario.schema)
    /\ stage' = "packaged"
    /\ UNCHANGED <<scenario, balance, package, world>>

Start ==
    /\ stage = "packaged"
    /\ IF Starts(package, balance) THEN stage' = "running" /\ world' = WorldOf(package)
       ELSE stage' = "simulation refused" /\ UNCHANGED world
    /\ UNCHANGED <<scenario, balance, package>>

NextScenario == Decode \/ Pack \/ PackByHand \/ Start

(* ---------------- properties ---------------- *)

Sound(s, b) == Decodes(s) /\ BalanceIsValid(b) /\ Coheres(s, b)

\* The checks of the decoder and those `new` repeats agree: a v4 package, decoded
\* or made by hand, starts exactly if its artifacts are accepted and what the
\* decoder leaves to `new` holds: it asks for no planned feature, its capacity
\* fits, and its hashes are those of the profiles.  No older scenario starts that
\* the decoder would not take, or under hashes that are not those of its profiles.
AcceptedScenariosStart ==
    /\ stage = "running" => Decodes(scenario) /\ BalanceIsValid(balance) /\ scenario.hashed = Profiles
    /\ (scenario.schema = 4 /\ scenario.kind = "enemy" /\ stage \in {"running", "simulation refused"}) =>
           (stage = "running" <=> /\ Sound(scenario, balance)
                                  /\ scenario.features \cap Unsupported = {}
                                  /\ balance.capacity <= MaxCapacity
                                  /\ scenario.hashed = Profiles)

Shuffled(list) == {[i \in DOMAIN list |-> list[p[i]]] : p \in Permutations(DOMAIN list)}
Reordered(s) ==
    {[s EXCEPT !.sources = sources, !.enemies = enemies] :
        sources \in Shuffled(s.sources), enemies \in Shuffled(s.enemies)}

\* The order in which a scenario lists its sources and enemies decides nothing:
\* a decoded world, its hash and every id in it are those of any other listing,
\* and every ordinal of the lists names the same entity (the sorts at decode, in
\* the hash and in `new`).
ListingDecidesNothing ==
    stage = "running" =>
        /\ \A other \in Reordered(scenario) :
               /\ ScenarioHash(other) = ScenarioHash(package)
               /\ Decodes(other)
               /\ (package = Ordered(package) => WorldOf(Ordered(other)) = world)
               /\ scenario.kind = "enemy" => WorldOf(other) = world
        /\ Range(world) = (IF scenario.kind = "empty" THEN {} ELSE {scenario.core})
                          \cup Range(IF scenario.kind \in {"power", "enemy"} THEN scenario.sources ELSE <<>>)
                          \cup Range(IF scenario.kind = "enemy" THEN scenario.enemies ELSE <<>>)
====
