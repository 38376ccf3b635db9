---------------------------- MODULE ContactDamage ----------------------------
(***************************************************************************)
(* Live wires, hostiles and the main core: Phases 7 to 11 of the tick in   *)
(* crates/aon-sim/src/simulation.rs with contact.rs, thermal_damage.rs,    *)
(* enemy.rs and main_core.rs, and the removals with which the next tick    *)
(* begins.                                                                 *)
(*                                                                         *)
(* What flows is granted by the power system: here each live wire and each *)
(* appliance (a gate or a mobile) is granted some offer, and the losses of *)
(* transmission heat some wires.  A tick runs the phases                   *)
(*   begin      what was destroyed is removed; temperatures are taken      *)
(*   grant      demands are met in part                                    *)
(*   interact   who touches whom, and what each gets                       *)
(*   integrate  heat is added up                                           *)
(*   resolve    damage by exposure and by temperature                      *)
(*   commit     hostiles are where they moved to; the run may end          *)
(***************************************************************************)
EXTENDS SegmentGeometry

CONSTANTS
    Core, Wires, Appliances, Enemies,   \* ids, disjoint; the order of ids counts
    Points,             \* wire -> its corners
    CorePosition,
    Origin, Velocity, Radius,           \* of each enemy
    BodyRadius,         \* wire_body_radius
    Integrity,          \* id -> integrity when the run begins
    Conductivity, Leak, \* weights of contacts and of the world
    Attack,             \* enemy_attack_energy_per_tick
    Tolerance,          \* exposure for one unit of damage
    Safe, Rate,         \* temperature without damage; damage above it <<n, d>>
    HeatFraction,       \* of the energy of an appliance <<n, d>>
    HeatCapacity,       \* heat for one unit of temperature
    Offers,             \* energies that may be granted in a tick
    MaxTick             \* bound: ticks

Bodies == {Core} \cup Wires \cup Appliances \cup Enemies

ContactAssumption ==
    /\ Bodies \subseteq Nat /\ Core \notin Wires \cup Appliances \cup Enemies
    /\ Integrity \in [Bodies -> Nat \ {0}]
    /\ {Conductivity, Leak, Tolerance, HeatCapacity} \subseteq Nat \ {0}
    /\ {Attack, Safe, BodyRadius, MaxTick} \subseteq Nat /\ Offers \subseteq Nat

VARIABLES
    phase, tick,
    running,        \* run_status
    alive,          \* what is in the world
    position,       \* of enemies
    integrity, heat,
    pending,        \* pending_destructions
    temperature,    \* Phase 1 snapshot
    granted,        \* what has a demand -> what it got
    losses,         \* wires heated by transmission
    cancelled,      \* appliances with cancelled switching heat
    contacts,       \* [wire, target, absorbed]
    interaction_heat,   \* [owner, kind, energy]
    exposures       \* [target, source, energy]

world == <<tick, running, alive, position, integrity, heat, pending>>
reports == <<contacts, interaction_heat, exposures>>
vars == <<phase, world, temperature, granted, losses, cancelled, reports>>

Init ==
    /\ phase = "begin" /\ tick = 0 /\ running = TRUE
    /\ alive = Bodies /\ position = Origin
    /\ integrity = Integrity /\ heat = [b \in Bodies |-> 0]
    /\ pending = {} /\ temperature = heat
    /\ granted = <<>> /\ losses = {} /\ cancelled = {}
    /\ contacts = {} /\ interaction_heat = {} /\ exposures = {}

SumOf(f, S) == FoldLeft(LAMBDA sum, x : sum + f[x], 0, SetToSeq(S))
Energies(rows) == FoldLeft(LAMBDA sum, r : sum + r.energy, 0, SetToSeq(rows))

-----------------------------------------------------------------------------
(* Phases 0 and 1.  Temperatures are those of the heat of earlier ticks.   *)

phase1_temperature(h) == h \div HeatCapacity

Begin ==
    /\ phase = "begin" /\ running /\ tick < MaxTick
    /\ phase' = "grant"
    /\ alive' = alive \ pending /\ pending' = {}
    /\ temperature' = [b \in alive' |-> phase1_temperature(heat[b])]
    /\ UNCHANGED <<tick, running, position, integrity, heat, granted, losses,
                   cancelled, reports>>

(* Phases 3 to 6: which wires drive High, what their demands and those of  *)
(* the appliances are granted, which switching is called off.              *)
Grant ==
    /\ phase = "grant" /\ phase' = "interact"
    /\ \E live \in SUBSET (Wires \cap alive) :
          granted' \in [live \cup (Appliances \cap alive) -> Offers]
    /\ losses' \in {{}, Wires \cap alive}
    /\ cancelled' \in {{}, Appliances \cap alive}
    /\ UNCHANGED <<world, temperature, reports>>

-----------------------------------------------------------------------------
(* Phases 7 and 8.                                                         *)

fraction_heat(energy) == RoundDivNearestEven(energy * HeatFraction[1], HeatFraction[2])

\* Shares of a wire's energy: each the floor of its part, the floor of the
\* parts together made up by single units from the lowest id on; what nobody
\* absorbs heats the wire.
allocate_contact_energy_Rounded(energy, targets) ==
    [t \in targets |->
        CeilQuotient(energy * Conductivity, Leak + Cardinality(targets) * Conductivity)]
allocate_contact_energy(energy, targets) ==
    LET weights == Cardinality(targets) * Conductivity
        base == (energy * Conductivity) \div (Leak + weights)
        remainder == (energy * weights) \div (Leak + weights) - Cardinality(targets) * base
    IN  [t \in targets |->
            IF Cardinality({u \in targets : u < t}) < remainder THEN base + 1 ELSE base]

Swept(e) == <<position[e], [axis \in 1..2 |-> position[e][axis] + Velocity[e][axis]]>>
staged_enemies == Enemies \cap alive
live_wires == DOMAIN granted \cap Wires
Touching(w) == {e \in staged_enemies :
    swept_circle_intersects_wire_body(Swept(e), Radius[e], Points[w], BodyRadius)}

\* The core and the wires an enemy runs into; it attacks the least of them.
attack_targets(e) ==
    {w \in Wires \cap alive : e \in Touching(w)} \cup
    {c \in {Core} : swept_circle_intersects_point(Swept(e), Radius[e], CorePosition)}
attacked_All(e) == attack_targets(e)
attacked(e) == LET targets == attack_targets(e)
               IN  {t \in targets : \A u \in targets : t <= u}

run_phase8_interaction ==
    LET share == [w \in live_wires |->
                     IF granted[w] = 0 THEN <<>> ELSE allocate_contact_energy(granted[w], Touching(w))]
        Heat(owner, kind, energy) == [owner |-> owner, kind |-> kind, energy |-> energy]
        rows == {Heat(a, "dissipation", fraction_heat(granted[a])) : a \in DOMAIN granted \cap Appliances}
                \cup {Heat(a, "cancelled", 1) : a \in cancelled}
                \cup {Heat(w, "remainder", granted[w] - SumOf(share[w], DOMAIN share[w])) : w \in live_wires}
        attacks == UNION {{[target |-> t, source |-> e, energy |-> Attack] : t \in attacked(e)}
                             : e \in staged_enemies}
    IN  /\ contacts' = UNION {{[wire |-> w, target |-> t, energy |-> share[w][t]] : t \in DOMAIN share[w]}
                                  : w \in live_wires}
        /\ interaction_heat' = {r \in rows : r.energy > 0}
        /\ exposures' = {r \in {[target |-> c.target, source |-> c.wire, energy |-> c.energy]
                                    : c \in contacts'} \cup attacks : r.energy > 0}

Interact ==
    /\ phase = "interact" /\ phase' = "integrate"
    /\ run_phase8_interaction
    /\ UNCHANGED <<world, temperature, granted, losses, cancelled>>

-----------------------------------------------------------------------------
(* Phase 9: each owner gets the sum of its rows and of its losses.         *)

integrate_heat_OneRow(b) ==
    heat[b] + (IF b \in losses THEN 1 ELSE 0)
            + (IF \E r \in interaction_heat : r.owner = b
               THEN (CHOOSE r \in interaction_heat : r.owner = b).energy ELSE 0)
integrate_heat(b) ==
    heat[b] + (IF b \in losses THEN 1 ELSE 0)
            + Energies({r \in interaction_heat : r.owner = b})

Integrate ==
    /\ phase = "integrate" /\ phase' = "resolve"
    /\ heat' = [b \in Bodies |-> integrate_heat(b)]
    /\ cancelled' = {}
    /\ UNCHANGED <<tick, running, alive, position, integrity, pending, temperature,
                   granted, losses, reports>>

(* Phase 10: damage by the exposures of this tick and by the temperature   *)
(* of its beginning.                                                       *)

Damage(electrical, degrees) ==
    electrical \div Tolerance
    + (IF degrees > Safe THEN RoundDivNearestEven(Rate[1] * (degrees - Safe), Rate[2]) ELSE 0)

total_exposure(b) == Energies({r \in exposures : r.target = b})
resolve_damage_Wraps(b) == integrity[b] - Damage(total_exposure(b), temperature[b])
resolve_damage_PresentHeat(b) ==
    LET left == integrity[b] - Damage(total_exposure(b), phase1_temperature(heat[b]))
    IN  IF left < 0 THEN 0 ELSE left
resolve_damage(b) ==
    LET left == integrity[b] - Damage(total_exposure(b), temperature[b])
    IN  IF left < 0 THEN 0 ELSE left

pending_destruction_Overkill(b) == integrity[b] < Damage(total_exposure(b), temperature[b])
pending_destruction(b) == integrity[b] > 0 /\ resolve_damage(b) = 0

Resolve ==
    /\ phase = "resolve" /\ phase' = "commit"
    /\ integrity' = [b \in Bodies |-> IF b \in alive THEN resolve_damage(b) ELSE integrity[b]]
    /\ pending' = pending \cup {b \in alive \ {Core} : pending_destruction(b)}
    /\ running' = ~pending_destruction(Core)
    /\ UNCHANGED <<tick, alive, position, heat, temperature, granted, losses, cancelled, reports>>

(* Phase 11.                                                               *)
CommitPositions == [e \in Enemies |-> IF e \in staged_enemies THEN Swept(e)[2] ELSE position[e]]
Commit ==
    /\ phase = "commit" /\ phase' = "begin"
    /\ tick' = tick + 1 /\ position' = CommitPositions
    /\ granted' = <<>> /\ losses' = {}
    /\ contacts' = {} /\ interaction_heat' = {} /\ exposures' = {}
    /\ UNCHANGED <<running, alive, integrity, heat, pending, temperature, cancelled>>

\* The run ended, or the bound is reached.
Over == phase = "begin" /\ (~running \/ tick = MaxTick) /\ UNCHANGED vars

Phases == Begin \/ Grant \/ Interact \/ Integrate \/ Resolve \/ Commit
Next == Phases \/ Over
Spec == Init /\ [][Next]_vars

-----------------------------------------------------------------------------
(* Properties.                                                             *)

TypeOK ==
    /\ phase \in {"begin", "grant", "interact", "integrate", "resolve", "commit"}
    /\ tick \in 0..MaxTick /\ running \in BOOLEAN
    /\ alive \subseteq Bodies /\ pending \subseteq alive
    /\ integrity \in [Bodies -> Nat] /\ heat \in [Bodies -> Nat]

\* What a live wire was granted is absorbed or heats it, to the unit; hostiles
\* that share a wire differ by at most one, the lower id ahead; and together
\* they never get more than the weights give them.
LiveEnergyAccounted ==
    phase = "integrate" =>
        \A w \in live_wires :
            LET rows == {c \in contacts : c.wire = w}
                absorbed == Energies(rows)
                weights == Cardinality(rows) * Conductivity
            IN  /\ absorbed + Energies({r \in interaction_heat : r.owner = w}) = granted[w]
                /\ \A c, d \in rows : c.target < d.target =>
                      c.energy - d.energy \in {0, 1}
                /\ absorbed * (Leak + weights) <= granted[w] * weights
                /\ granted[w] * weights < (absorbed + 1) * (Leak + weights)

\* Everything given off in a tick is in some body's heat at its end: rows of
\* one owner add up, none replaces another, and nothing goes astray.
Accumulates ==
    phase = "integrate" =>
        SumOf(heat', Bodies) = SumOf(heat, Bodies) + Energies(interaction_heat)
                                 + Cardinality(losses)
HeatAddsUp == [][Accumulates]_vars

\* What was cool when the tick began and is not hit keeps its integrity, no
\* matter how much heat the tick adds: the order of the phases within a tick
\* shows only in the next.
Lags ==
    \A b \in Bodies :
        integrity'[b] # integrity[b] =>
            temperature[b] > Safe \/ \E r \in exposures : r.target = b
DamageLagsHeat == [][Lags]_vars

\* Between ticks exactly what has lost its integrity is waiting to be removed,
\* and the run is over exactly when the core has (validate_damage_lifecycle).
PendingIsLost ==
    phase = "begin" =>
        /\ pending = {b \in alive \ {Core} : integrity[b] = 0}
        /\ running <=> integrity[Core] > 0

\* An enemy hits one thing in a tick, a thing it touches; being destroyed in
\* the tick does not spare anybody its attack, being removed does.
OneBlowEach ==
    phase = "integrate" =>
        \A e \in Enemies :
            LET blows == {r \in exposures : r.source = e}
            IN  /\ Cardinality(blows) <= 1
                /\ \A r \in blows : e \in alive /\ r.target \in alive
                /\ e \in alive /\ Attack > 0 =>
                      (blows # {} <=> attack_targets(e) # {})
=============================================================================
