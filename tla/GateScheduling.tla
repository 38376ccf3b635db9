--------------------------- MODULE GateScheduling ---------------------------
(***************************************************************************)
(* How a gate turns the level its inputs ask for into the level and the    *)
(* strength its output driver emits: inertial delay, cancellation, loss    *)
(* and return of power (Phases 2, 3, 6, 9 and 11 of                        *)
(* crates/aon-sim/src/simulation.rs, with signal.rs, event.rs, power.rs).  *)
(*                                                                         *)
(* A gate that has to switch gets a pending tuple and an event in the      *)
(* driver calendar, tied together by a generation.  What the inputs        *)
(* resolve to, the load of the output and the power ratio of the region    *)
(* come from other components and are arbitrary here.                      *)
(***************************************************************************)
EXTENDS Integers, FiniteSets, FiniteSetsExt

CONSTANTS
    Gates,              \* entity ids of the gates
    Loads,              \* [delay, energy] an output's load can amount to
    Ratios,             \* power ratios a region can have, raw
    RatioOne,           \* raw value of the ratio one
    OperateThreshold,   \* a gate below this ratio does not switch
    DelayFloor,         \* smallest ratio the delay is stretched by
    RetentionTicks,     \* ticks below the threshold an output survives
    NominalDrive,       \* strength of an output at full power
    PowerEnabled,       \* whether the session simulates power
    ThermalEnabled,     \* whether the session simulates heat
    MaxTick             \* largest tick, u64::MAX in the code

SchedulingAssumption ==
    /\ \A l \in Loads : l.delay \in Nat \ {0} /\ l.energy \in Nat \ {0}
    /\ RatioOne \in Nat \ {0} /\ Ratios \subseteq 0..RatioOne
    /\ OperateThreshold \in 0..RatioOne /\ DelayFloor \in 1..RatioOne
    /\ RetentionTicks \in Nat \ {0} /\ NominalDrive \in Nat
    /\ PowerEnabled \in BOOLEAN /\ ThermalEnabled \in BOOLEAN
    /\ MaxTick \in Nat

VARIABLES
    tick, stage,
    life,           \* "absent", "live" or "removed"
    gate,           \* live gate -> its signal record
    strength,       \* live gate -> strength its output driver emits
    effective,      \* live gate -> drive the last Phase 6 granted it
    ordinary,       \* live gate -> level its resolved inputs ask for
    events          \* the calendar of driver transitions

vars == <<tick, stage, life, gate, strength, effective, ordinary, events>>

Levels == {"Low", "High", "X"}

Pending == [due : Nat, level : Levels, energy : Nat]
GateRecord == [current : Levels, desired : Levels, pending : SUBSET Pending,
               generation : Nat, unpowered : Nat, heat : Nat]
Transition == [due : Nat, gate : Gates, level : Levels, strength : Nat,
               generation : Nat, cause : {"GateOutput", "GateStrengthResponse"}]

\* The pending tuple is a set of at most one element: Some or None.
NewGate == [current |-> "Low", desired |-> "Low", pending |-> {},
            generation |-> 0, unpowered |-> 0, heat |-> 0]

Live == DOMAIN gate
EmptyMap == [x \in {} |-> x]

Init ==
    /\ tick = 0 /\ stage = "structural"
    /\ life = [g \in Gates |-> "absent"]
    /\ gate = EmptyMap /\ strength = EmptyMap /\ effective = EmptyMap
    /\ ordinary = EmptyMap
    /\ events = {}

-----------------------------------------------------------------------------
(* Phase 0: gates come and go; events of a removed gate stay behind.       *)

Extend(f, g, value) ==
    [h \in DOMAIN f \cup {g} |-> IF h = g THEN value ELSE f[h]]
Drop(f, g) == [h \in DOMAIN f \ {g} |-> f[h]]

PlaceGate(g) ==
    /\ stage = "structural" /\ life[g] = "absent"
    /\ life' = [life EXCEPT ![g] = "live"]
    /\ gate' = Extend(gate, g, NewGate)
    /\ strength' = Extend(strength, g, 0)
    /\ effective' = Extend(effective, g, 0)
    /\ ordinary' = Extend(ordinary, g, "Low")
    /\ UNCHANGED <<tick, stage, events>>

RemoveGate(g) ==
    /\ stage = "structural" /\ life[g] = "live"
    /\ life' = [life EXCEPT ![g] = "removed"]
    /\ gate' = Drop(gate, g) /\ strength' = Drop(strength, g)
    /\ effective' = Drop(effective, g) /\ ordinary' = Drop(ordinary, g)
    /\ UNCHANGED <<tick, stage, events>>

EndStructural ==
    /\ stage = "structural" /\ stage' = "drivers"
    /\ UNCHANGED <<tick, life, gate, strength, effective, ordinary, events>>

-----------------------------------------------------------------------------
(* Phase 2: due transitions that still mean something are merged, one per  *)
(* driver, and applied; then the sinks resolve.                            *)

Valid_IfGateLives(e) == e.due = tick /\ e.gate \in Live
Valid(e) ==
    /\ e.due = tick /\ e.gate \in Live
    /\ IF e.cause = "GateOutput"
       THEN /\ gate[e.gate].generation = e.generation
            /\ \E p \in gate[e.gate].pending : p.due = tick /\ p.level = e.level
       ELSE gate[e.gate].current = e.level

ValidFor(g, cause) == {e \in events : Valid(e) /\ e.gate = g /\ e.cause = cause}

\* The step fails on two transitions of one driver it cannot merge.
Mergeable == \A g \in Live : \A cause \in {"GateOutput", "GateStrengthResponse"} :
                 Cardinality(ValidFor(g, cause)) <= 1

Switched(g) ==
    IF ValidFor(g, "GateOutput") = {} THEN gate[g]
    ELSE [gate[g] EXCEPT !.current = (CHOOSE e \in ValidFor(g, "GateOutput") :
                                          TRUE).level,
                         !.pending = {}]

ApplyTransitions(inputs) ==
    /\ stage = "drivers" /\ stage' = "intent"
    /\ \A e \in events : e.due >= tick
    /\ Mergeable
    /\ gate' = [g \in Live |-> Switched(g)]
    /\ strength' = [g \in Live |->
                       IF ValidFor(g, "GateStrengthResponse") = {}
                       THEN strength[g]
                       ELSE (CHOOSE e \in ValidFor(g, "GateStrengthResponse") :
                                 TRUE).strength]
    /\ ordinary' = inputs
    /\ events' = {e \in events : e.due # tick}
    /\ UNCHANGED <<tick, life, effective>>

\* Phase 3: the desired output is what the inputs ask for.
EvaluateIntent ==
    /\ stage = "intent" /\ stage' = "schedule"
    /\ gate' = [g \in Live |-> [gate[g] EXCEPT !.desired = ordinary[g]]]
    /\ UNCHANGED <<tick, life, strength, effective, ordinary, events>>

-----------------------------------------------------------------------------
(* Phase 6, for one gate g with record r = gate[g].                        *)

CeilDiv(n, d) == (n + d - 1) \div d

brownout_gate_delay(delay, ratio) ==
    Max({CeilDiv(delay * RatioOne, Max({ratio, DelayFloor})), 1})

\* Nominal drive times the ratio, halves rounded to even.
scale_drive(nominal, ratio) ==
    LET quotient == (nominal * ratio) \div RatioOne
        twice    == 2 * ((nominal * ratio) % RatioOne)
        up       == \/ twice > RatioOne
                    \/ twice = RatioOne /\ quotient % 2 = 1
    IN  IF up THEN quotient + 1 ELSE quotient

EffectiveDelay(load, ratio) ==
    IF PowerEnabled THEN brownout_gate_delay(load.delay, ratio) ELSE load.delay
EffectiveStrength(ratio) ==
    IF PowerEnabled THEN scale_drive(NominalDrive, ratio) ELSE NominalDrive

Powered(ratio) == ~PowerEnabled \/ ratio >= OperateThreshold
Unpowered(r, ratio) == IF Powered(ratio) THEN 0 ELSE r.unpowered + 1
RetentionExpired(r, ratio) ==
    /\ ~Powered(ratio) /\ Unpowered(r, ratio) >= RetentionTicks
    /\ r.current # "Low"

\* The transition this tick asks for, if any: its level and energy.
Target(r, load, ratio) ==
    IF RetentionExpired(r, ratio) THEN {[level |-> "Low", energy |-> 0]}
    ELSE IF Powered(ratio) /\ r.desired # r.current
         THEN {[level |-> r.desired, energy |-> load.energy]}
         ELSE {}

\* A pending transition to the same level is kept as it is.
Starts_Again(r, load, ratio) == Target(r, load, ratio)
Starts_WhenIdle(r, load, ratio) ==
    {t \in Target(r, load, ratio) : r.pending = {}}
Starts(r, load, ratio) ==
    {t \in Target(r, load, ratio) : \A p \in r.pending : p.level # t.level}

\* A pending transition gives way to another, or to an input that went back.
Cancels_OnlyReplaced(r, load, ratio) ==
    {p \in r.pending : Starts(r, load, ratio) # {}}
Cancels(r, load, ratio) ==
    IF Target(r, load, ratio) = {}
    THEN {p \in r.pending : p.level # r.desired}
    ELSE {p \in r.pending : Starts(r, load, ratio) # {}}

\* Starting and cancelling both invalidate what is in the calendar.
Generation(r, load, ratio) ==
    IF Starts(r, load, ratio) # {} \/ Cancels(r, load, ratio) # {}
    THEN r.generation + 1 ELSE r.generation

\* What was spent on a switch that does not take place turns into heat.
CancelledHeat(cancels) == MapThenSumSet(LAMBDA p : p.energy, cancels)

Scheduled(r, load, ratio) ==
    LET starts  == Starts(r, load, ratio)
        cancels == Cancels(r, load, ratio)
    IN  [r EXCEPT
            !.unpowered  = Unpowered(r, ratio),
            !.desired    = IF RetentionExpired(r, ratio) THEN "Low" ELSE @,
            !.generation = Generation(r, load, ratio),
            !.heat       = @ + CancelledHeat(cancels),
            !.pending    = (@ \ cancels) \cup
                           {[due    |-> tick + EffectiveDelay(load, ratio),
                             level  |-> t.level,
                             energy |-> t.energy] : t \in starts}]

SwitchEvents(g, load, ratio) ==
    {[due |-> tick + EffectiveDelay(load, ratio), gate |-> g,
      level |-> t.level, strength |-> EffectiveStrength(ratio),
      generation |-> Generation(gate[g], load, ratio), cause |-> "GateOutput"] :
          t \in Starts(gate[g], load, ratio)}

\* An output whose strength is not what its power grants follows next tick.
StrengthEvents_Late(g, ratio) ==
    {[due |-> tick + 2, gate |-> g, level |-> gate[g].current,
      strength |-> s, generation |-> 0, cause |-> "GateStrengthResponse"] :
          s \in {EffectiveStrength(ratio)} \ {strength[g]}}
StrengthEvents(g, ratio) ==
    {[due |-> tick + 1, gate |-> g, level |-> gate[g].current,
      strength |-> s, generation |-> 0, cause |-> "GateStrengthResponse"] :
          s \in {EffectiveStrength(ratio)} \ {strength[g]}}

Schedule(load, ratio) ==
    /\ stage = "schedule" /\ stage' = "commit"
    /\ gate' = [g \in Live |-> Scheduled(gate[g], load[g], ratio[g])]
    /\ effective' = [g \in Live |-> EffectiveStrength(ratio[g])]
    /\ events' = events \cup UNION {SwitchEvents(g, load[g], ratio[g])
                                   \cup StrengthEvents(g, ratio[g]) : g \in Live}
    /\ UNCHANGED <<tick, life, strength, ordinary>>

-----------------------------------------------------------------------------
(* Phase 9 takes the heat of cancelled switches away; Phase 11 validates   *)
(* the state and ends the tick.  A step whose state is refused is dropped: *)
(* the world is again the one the tick began with, a state that is already *)
(* a behaviour's, so that a refused state needs no successor here.         *)

RetentionReset(r) ==
    /\ r.unpowered > 0 /\ r.desired = "Low"
    /\ \E p \in r.pending : p.level = "Low" /\ p.energy = 0

\* What validate_canonical_world demands of gate g, for next_tick = tick + 1.
Canonical(g) ==
    LET r == gate[g]
    IN  /\ r.desired = ordinary[g] \/ RetentionReset(r)
        /\ \A p \in r.pending :
              /\ r.generation # 0 /\ p.due > tick
              /\ p.level = r.desired /\ p.level # r.current
              /\ p.energy = 0 => p.level = "Low"
              /\ \E e \in events :
                    /\ e.gate = g /\ e.cause = "GateOutput"
                    /\ e.generation = r.generation
                    /\ e.level = p.level /\ e.due = p.due

Commit ==
    /\ stage = "commit" /\ stage' = "structural"
    /\ tick < MaxTick /\ tick' = tick + 1
    /\ \A g \in Live : Canonical(g)
    /\ gate' = IF ThermalEnabled
               THEN [g \in Live |-> [gate[g] EXCEPT !.heat = 0]] ELSE gate
    /\ UNCHANGED <<life, strength, effective, ordinary, events>>

-----------------------------------------------------------------------------
Next ==
    \/ \E g \in Gates : PlaceGate(g) \/ RemoveGate(g)
    \/ EndStructural
    \/ \E inputs \in [Live -> Levels] : ApplyTransitions(inputs)
    \/ EvaluateIntent
    \/ \E load \in [Live -> Loads], ratio \in [Live -> Ratios] :
          Schedule(load, ratio)
    \/ Commit

Spec == Init /\ [][Next]_vars

-----------------------------------------------------------------------------
(* Every piece of state has the shape the Rust types give it, and the      *)
(* pending tuple is whole: at most one, never a part of one.               *)
TypeOK ==
    /\ tick \in 0..MaxTick
    /\ stage \in {"structural", "drivers", "intent", "schedule", "commit"}
    /\ life \in [Gates -> {"absent", "live", "removed"}]
    /\ LET live == {g \in Gates : life[g] = "live"}
       IN  /\ DOMAIN gate = live
           /\ \A g \in live :
                 LET r == gate[g]
                 IN  /\ r.current \in Levels /\ r.desired \in Levels
                     /\ \A p \in r.pending : p \in Pending
                     /\ \A p, q \in r.pending : p = q
                     /\ r.generation \in Nat /\ r.unpowered \in Nat
                     /\ r.heat \in Nat
           /\ strength \in [live -> Nat] /\ effective \in [live -> Nat]
           /\ ordinary \in [live -> Levels]
    /\ \A e \in events : e \in Transition

(* The calendar and the gates agree: a pending transition has exactly one  *)
(* event that will carry it out, and without one no event can fire.        *)
PendingMatchesCalendar ==
    \A g \in Live :
        {[due |-> e.due, level |-> e.level] :
            e \in {f \in events : /\ f.gate = g /\ f.cause = "GateOutput"
                                  /\ f.generation = gate[g].generation}}
        = {[due |-> p.due, level |-> p.level] : p \in gate[g].pending}

(* Phase 2 never meets two transitions of one driver that it cannot merge, *)
(* nor one whose tick has passed.                                          *)
TransitionsMerge ==
    stage = "drivers" => Mergeable /\ \A e \in events : e.due >= tick

(* An output's strength follows its power with a lag of exactly one tick,  *)
(* however level and strength transitions fall together.                   *)
StrengthFollowsPower ==
    stage \in {"intent", "schedule"} => strength = effective

(* The validation at the end of a step refuses no gate, whatever the       *)
(* inputs and the power were: a brownout is no error of a run.             *)
CommitAccepted == stage = "commit" => \A g \in Live : Canonical(g)

(* When retention runs out the reset takes over a switch to Low that was   *)
(* granted its energy before the brownout and has not fired yet, ...       *)
TakenOver(g) ==
    /\ gate[g].unpowered >= RetentionTicks /\ gate[g].current # "Low"
    /\ \E p \in gate[g].pending : p.level = "Low" /\ p.energy > 0

(* ... and if the inputs of such a gate ask for another level than Low,    *)
(* the step is lost.  Nothing else a gate can go through loses one: but    *)
(* for this history (simulation.rs 3526-3565) the phases leave exactly     *)
(* what validate_canonical_world demands.                                  *)
LostOnlyToTakeover ==
    stage = "commit" =>
        \A g \in Live : Canonical(g) <=> ~(TakenOver(g) /\ ordinary[g] # "Low")

(* No gate is stuck: one that has power and does not emit what its inputs  *)
(* ask for is switching to it, due within the longest delay there is; and  *)
(* neither a change of load or power nor asking for the same level again   *)
(* starts that switch over.                                                *)
LongestDelay == Max({EffectiveDelay(l, r) : l \in Loads, r \in Ratios})
Responding(g) ==
    gate[g].unpowered = 0 /\ gate[g].current # ordinary[g]
        => \E p \in gate[g].pending :
              /\ p.level = ordinary[g]
              /\ p.due \in (tick + 1)..(tick + LongestDelay)
AllRespond == stage = "commit" => \A g \in Live : Responding(g)
NotRetimed(g) ==
    \A p \in gate[g].pending, q \in gate'[g].pending : p.level = q.level => p = q
PoweredGatesRespond ==
    [][/\ AllRespond'
       /\ \A g \in DOMAIN gate \cap DOMAIN gate' : NotRetimed(g)]_vars

(* Inertia: an output only ever takes a level its inputs asked for at the  *)
(* end of the tick before, or Low after its retention ran out.             *)
OutputWasAskedFor ==
    [][\A g \in DOMAIN gate \cap DOMAIN gate' :
          gate'[g].current # gate[g].current
              => \/ gate'[g].current = ordinary[g]
                 \/ gate'[g].current = "Low"
                    /\ gate[g].unpowered >= RetentionTicks]_vars
=============================================================================
