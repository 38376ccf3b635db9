---------------------------- MODULE Construction ----------------------------
(***************************************************************************)
(* Builders and sites (construction.rs and Phases 0, 3, 6, 8 and 11 of     *)
(* simulation.rs in crates/aon-sim/src).                                   *)
(*                                                                         *)
(* A mobile whose BUILD input is High works at the first site it touches;  *)
(* what it gets done in a tick depends on the power it is granted.  A site *)
(* whose work is done is activated when the next tick begins.              *)
(***************************************************************************)
EXTENDS SegmentGeometry

CONSTANTS
    Sites,          \* ids of sites that may be reserved, first to last
    Target,         \* site -> what it is reserved for
    RequiredWork,   \* site -> work
    Builders,       \* ids of mobiles
    Stations,       \* points where a mobile may be
    FootprintOf,    \* a mobile's box, around its origin
    BodyRadius,     \* wire_body_radius
    WorkPerTick,    \* builder_work_per_tick
    PowerPerWork,   \* construction_power_per_work <<n, d>>
    Ratios          \* power ratios <<n, d>> of the builders' region

ASSUME ConstructionAssumption ==
    /\ Sites \subseteq Nat \ {0} /\ Builders \subseteq Nat /\ IsFiniteSet(Builders)
    /\ PowerPerWork[1] \in Nat \ {0} /\ PowerPerWork[2] \in Nat \ {0}
    /\ RequiredWork \in [Sites -> Nat \ {0}] /\ WorkPerTick \in Nat \ {0}
    /\ \A r \in Ratios : r[2] \in Nat \ {0} /\ r[1] \in 0..r[2]

VARIABLES
    phase,      \* "commands", "intents", "grants" or "progress"
    state,      \* site -> "none", "site", "active" or "removed"
    completed,  \* completed_work
    ready,      \* activation_ready
    at,         \* builder -> station
    build,      \* builder -> level of its BUILD sink
    ratio,      \* what the region of the builders gets
    intent,     \* builder -> [site, requested, nominal, granted], if it builds
    applied     \* builder -> work applied in the last tick

vars == <<phase, state, completed, ready, at, build, ratio, intent, applied>>

Levels == {"Low", "High", "X"}
Nothing == [site |-> 0, requested |-> 0, nominal |-> 0, granted |-> 0]
Idle == [b \in Builders |-> 0]

Init ==
    /\ phase = "commands"
    /\ state = [s \in Sites |-> "none"]
    /\ completed = [s \in Sites |-> 0] /\ ready = [s \in Sites |-> FALSE]
    /\ at \in [Builders -> Stations] /\ build \in [Builders -> Levels]
    /\ ratio \in Ratios
    /\ intent = [b \in Builders |-> Nothing] /\ applied = Idle

Store == {s \in Sites : state[s] = "site"}

(* Phase 0: ready sites become active, then commands reserve sites and     *)
(* give up others.                                                         *)
activate_ready_sites_First ==
    LET done == {s \in Store : ready[s]}
    IN  {s \in done : \A t \in done : s <= t}
activate_ready_sites == {s \in Store : ready[s]}

Commands ==
    /\ phase = "commands" /\ phase' = "intents"
    /\ \E placed \in SUBSET {s \in Sites : state[s] = "none"},
          removed \in SUBSET (Store \ activate_ready_sites) :
          /\ \A s \in placed, t \in Sites : t < s /\ state[t] = "none" => t \in placed
          /\ state' = [s \in Sites |-> IF s \in activate_ready_sites THEN "active"
                                       ELSE IF s \in placed THEN "site"
                                       ELSE IF s \in removed THEN "removed" ELSE state[s]]
    /\ UNCHANGED <<completed, ready, at, build, ratio, intent, applied>>

(* Phases 1 to 4: who builds what, for how much power.                     *)

Footprint(b) == [min |-> <<at[b][1] + FootprintOf.min[1], at[b][2] + FootprintOf.min[2]>>,
                 max |-> <<at[b][1] + FootprintOf.max[1], at[b][2] + FootprintOf.max[2]>>]

Reached(b) ==
    {s \in Store : construction_target_intersects_aabb(Target[s], Footprint(b), BodyRadius)}
smallest_intersecting_site(b) ==
    LET reached == Reached(b) IN {s \in reached : \A t \in reached : s <= t}

construction_nominal_demand_for_work(work) == CeilQuotient(PowerPerWork[1] * work, PowerPerWork[2])

\* A site without work left has no demand, which the power system refuses.
Remaining(s) == RequiredWork[s] - completed[s]
Requested(s) == Lower(WorkPerTick, Remaining(s))
Intent(b) ==
    LET sites == IF build[b] = "High" THEN smallest_intersecting_site(b) ELSE {}
    IN  IF sites = {} THEN Nothing
        ELSE LET s == CHOOSE t \in sites : TRUE
             IN  [site |-> s, requested |-> Requested(s), granted |-> 0,
                  nominal |-> construction_nominal_demand_for_work(Requested(s))]
Intents ==
    /\ phase = "intents" /\ phase' = "grants"
    /\ intent' = [b \in Builders |-> Intent(b)]
    /\ UNCHANGED <<state, completed, ready, at, build, ratio, applied>>

(* Phases 5 and 6: all builders of a region get one ratio.                 *)
grant_construction_work_Floor(work) == (work * ratio[1]) \div ratio[2]
grant_construction_work(work) == RoundDivNearestEven(work * ratio[1], ratio[2])
Grants ==
    /\ phase = "grants" /\ phase' = "progress"
    /\ \A b \in Builders : intent[b].site # 0 => intent[b].nominal > 0
    /\ intent' = [b \in Builders |->
                     [intent[b] EXCEPT !.granted = grant_construction_work(intent[b].requested)]]
    /\ UNCHANGED <<state, completed, ready, at, build, ratio, applied>>

(* Phase 11: each site takes what it still needs, from the lowest builder  *)
(* on; what is granted beyond that is lost.                                *)
WorkersAt(s) == {b \in Builders : intent[b].site = s}
Added_Stale(s, b, done) == Lower(intent[b].granted, Remaining(s))
Added(s, b, done) == Lower(intent[b].granted, RequiredWork[s] - done)

\* The work of a site once all builders below an id have added theirs.
Worked(s, id) ==
    LET after[n \in 0..id] ==
            IF n = 0 THEN completed[s]
            ELSE IF n - 1 \in WorkersAt(s) THEN after[n - 1] + Added(s, n - 1, after[n - 1])
            ELSE after[n - 1]
    IN  after[id]

\* The least id above those of all builders.
Beyond == CHOOSE n \in {0} \cup {b + 1 : b \in Builders} : \A b \in Builders : b < n

apply_construction_work ==
    [b \in Builders |->
        LET s == intent[b].site IN IF s = 0 THEN 0 ELSE Worked(s, b + 1) - Worked(s, b)]

Progress ==
    /\ phase = "progress" /\ phase' = "commands"
    /\ \A b \in Builders : intent[b].site # 0 =>
          intent[b].site \in Store /\ ~ready[intent[b].site]
    /\ applied' = apply_construction_work
    /\ completed' = [s \in Sites |-> Worked(s, Beyond)]
    /\ ready' = [s \in Sites |-> ready[s] \/ (s \in Store /\ completed'[s] = RequiredWork[s])]
    /\ UNCHANGED <<state, at, build, ratio, intent>>

\* Between ticks mobiles have moved, signals and power have changed.
Surroundings ==
    /\ phase = "commands"
    /\ \/ \E b \in Builders, p \in Stations : at' = [at EXCEPT ![b] = p] /\ UNCHANGED <<build, ratio>>
       \/ \E b \in Builders, l \in Levels : build' = [build EXCEPT ![b] = l] /\ UNCHANGED <<at, ratio>>
       \/ ratio' \in Ratios /\ UNCHANGED <<at, build>>
    /\ UNCHANGED <<phase, state, completed, ready, intent, applied>>

Tick == Commands \/ Intents \/ Grants \/ Progress
Next == Tick \/ Surroundings
\* The host goes on stepping, whatever mobiles, signals and power do.
Spec == Init /\ [][Next]_vars /\ WF_vars(Tick)

-----------------------------------------------------------------------------
(* Properties.                                                             *)

\* No site takes more than it needs, and it is ready exactly when it has that.
TypeOK ==
    /\ \A s \in Sites : completed[s] \in 0..RequiredWork[s]
    /\ \A s \in Store : ready[s] <=> completed[s] = RequiredWork[s]

\* What would fail the step does not come up: a demand of nothing, a builder
\* whose site is gone or was ready before the tick.
StepNeverFails ==
    \A b \in Builders : intent[b].site # 0 =>
        /\ phase = "grants" => intent[b].nominal > 0
        /\ phase = "progress" => intent[b].site \in Store /\ ~ready[intent[b].site]

\* Of the work granted to the builders of a site as much is done as it needs,
\* the first builders before the later ones.
Given(s, id) ==
    LET below[n \in 0..id] ==
            IF n = 0 THEN 0
            ELSE below[n - 1] + IF n - 1 \in WorkersAt(s) THEN intent[n - 1].granted ELSE 0
    IN  below[id]
WorkShared ==
    phase = "progress" =>
        \A s \in Sites :
            /\ completed'[s] = completed[s] + Lower(Given(s, Beyond), Remaining(s))
            /\ \A b, c \in WorkersAt(s) : b < c /\ applied'[c] > 0 =>
                  applied'[b] = intent[b].granted

\* All of this: the step never fails, and work is shared in order.
WorkSharedInOrder == [](TypeOK /\ StepNeverFails) /\ [][WorkShared]_vars

\* With more than half of its power a builder that stays gets its site done;
\* with half of it the last unit of work rounds to nothing.
Attended(s) ==
    /\ s \in Store /\ 2 * ratio[1] > ratio[2]
    /\ \E b \in Builders : build[b] = "High" /\ s \in smallest_intersecting_site(b)
NobodyBuildsForever == \A s \in Sites : []<>~Attended(s)
=============================================================================
