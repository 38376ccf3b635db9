# TLA+ verification of the A/O/N simulation core

A/O/N is a deterministic, tick-based simulation: players place wires, junctions,
logic gates and other substrates on a grid; gates drive signals along wires;
power, heat, damage, movement and sensing act on the same structure. The
program is the crate `crates/aon-sim`; `apps/aon-app` (the desktop host) and
`apps/aon-headless` (the runner) feed it commands, show its state, verify replays
and publish experiments.

The core is single threaded. What makes it hard is not a data race but time:
signals, gate transitions, destructions and strength responses are decided in
one tick and take effect in a later one, while every tick may rewire, remove or
starve what they are about. Around it stand exact geometry that decides what may be
built, integer arithmetic that must neither create nor lose a unit, and a large
part of the program that writes down what a run was (replays, metrics, evidence,
experiments) and must read it back to the same meaning on every host.

All paths below are relative to `src/`; `sim/` stands for
`src/crates/aon-sim/src/`.

## 1. Inventory

One `SimulationWorld::step` (sim/simulation.rs) clones the state, runs the phases
below on the clone, validates it and replaces the old state. Any error drops
the clone.

| Phase | What it does | Module |
|---|---|---|
| 0 | destructions decided by damage in the tick before; activation of ready sites; the tick's commands; compile the topology; apply the route diff; external drivers | `StructuralLifecycle`, `CommandBatch`, `Placement`, `SignalDelivery` |
| 1 | snapshot: mobiles and terminals, positions, sensing samples | `Mobility` (positions), `SegmentGeometry` (sensing) |
| 2 | due driver transitions; propagate; due arrivals; resolve dirty sinks | `SignalDelivery`, `GateScheduling`, `ArrivalStaging` |
| 3 | each gate's desired output, intents of mobiles and builders | `GateScheduling`, `Mobility`, `Construction` |
| 4, 5 | power demand, regional ratio | `PowerRoutes`, `PowerRouteSearch`, `PowerGrid` |
| 6 | schedule gate transitions, retention, strength responses and sensed changes; work granted for movement and construction | `GateScheduling`, `Construction`, `Mobility` |
| 7, 8 | trajectories, contact, interaction | `Mobility`, `ContactDamage` |
| 9 | heat | `ContactDamage`, `GateScheduling` |
| 10 | damage, destructions for the next tick | `ContactDamage` |
| 11 | positions, construction work, end of the run; validate and commit; step hash | all, `CanonicalEncoding` |

| Component (files) | State | Operations | Talks to | Correct when |
|---|---|---|---|---|
| Signal topology (signal_topology.rs) | compiled routes, components, loads | compile, route_diff, path_element_is_current | wires, junctions, gates | one least route per connected pair; the diff names every pair whose route changed |
| Signal delivery (signal.rs, Phase 2) | driver samples, sink levels and dirty marks, slots | propagate, apply due arrivals, resolve | calendar, topology | no update lost, no stale update wins, levels match slots |
| Structural lifecycle (command.rs, structural.rs, identity.rs, topology.rs) | entity registry, stores, generations | the commands of a batch, destruction cascade | signal endpoints, sites, occupancy by mobiles | ids are never reused; no live entity refers to a dead one; one bad command does not spoil the batch |
| Placement and geometry (structural.rs, structural_geometry.rs, module.rs) | what stands where | place, bind, remove; import a module | power adapter | pieces keep apart whatever the order; a module is accepted exactly if it can be built |
| Gate scheduling (signal.rs, Phases 2, 3, 6) | pending transition, generation, retention counter, heat | start, cancel, reset, strength response | calendar, power ratio | pending and calendar agree; a powered gate responds within its delay |
| Event calendars, certificates (event.rs, path_certificate.rs) | two calendars, payload orders, arena of paths | stage, drain, consume | Phases 0, 2, 6 | each arrival delivered once, in its tick, with its path |
| Step transaction (simulation.rs, lib.rs, error.rs) | committed world, tick, run state | step, validate, hash | all | a failed step has no effect; a legal history never fails validation |
| Construction (construction.rs) | sites, work | place, work, activate, drop on loss of a dependency | structure, mobiles, power | work is shared to the unit; an attended site gets done |
| Power (power*.rs, capacity*.rs) | nothing survives the tick | collect demands, compile regions and routes, solve, grant, support | gates, mobiles, sources | energy is neither created nor lost; one ratio per region, the greatest that can be afforded |
| Contact, damage, thermal (contact.rs, damage_state.rs, thermal_damage.rs, enemy.rs, main_core.rs) | integrity, heat, pending destructions | sweep, accumulate, destroy in the next tick, end the run | lifecycle, power | destroyed in the next tick, once; nothing is jumped over |
| Mobility (mobility.rs) | position, heading, budget | place, steer, move | tracks, control sinks, power | always on the track; moves stay on the network and end |
| Sensing (sensing.rs) | latched samples | sample, schedule | hostiles, calendar | a wire is occupied exactly if some hostile is near |
| Canonical encoding (canonical.rs, hash.rs, snapshot.rs) | none | encode, hash | replay, experiments | different states, different bytes; one state, one byte string |
| Replay (replay.rs) | schedule, checkpoints | record, read, verify | hosts | a session replays to its own hashes; all hosts reach one verdict |
| Desktop host (apps/aon-app) | session, pacer credit, queue, probes, view | host actions, fixed update, playback | core | edits are neither lost nor doubled; how time is cut into frames does not show |
| Reference architectures (reference_architecture.rs) | book of a build | check, plan, build by batches and barriers | core, metrics | what is accepted can be built; what the build hands over convinces the metrics, and nothing else does |
| Metrics (reference_metrics.rs) | collector | reduce the reports of a run; bind observations | experiments | the result is what the accepted reports add up to |
| Scenarios, profiles (artifact.rs, profile.rs, Simulation::new) | package | decode, check against profiles, start | core | an accepted scenario starts; listing order decides nothing |
| Experiments (experiment*.rs, reference_experiment.rs, apps/aon-headless) | plan, runs, output directory | resolve, pair, publish | files | the runs are the matrix of the axes; output appears whole and is never written over |
| Files (replay.rs, module.rs, artifact.rs, profile.rs, reference_*.rs, experiment_artifact.rs) | none | decode, normalise, encode, hash | all of the above | a file means what was written; the hash changes exactly with the meaning |

## 2. Modules

| Module | Models |
|---|---|
| `SignalTopology` | network, least route, delay law, stamps, route diff, as pure operators |
| `SignalDelivery`, `SignalDeliveryProofs` | Phases 0 and 2: signals in flight while the structure changes; theorems about samples and revisions, and about routes |
| `GateScheduling`, `GateSchedulingProofs` | Phases 2, 3, 6, 9, 11 of the gates; theorems about them |
| `ArrivalCalendar`, `ArrivalStaging`, `ArrivalStagingProofs` | what the event storage promises (abstract); calendars, numbering, certificate arena and step transaction; the proof that they implement it |
| `CommandBatch` | the batch of commands of a tick, with refusals and the registries of endpoints |
| `StructuralLifecycle`, `StructuralLifecycleProofs` | Phase 0: placement, sites, removal, rebinding, destruction; mobiles on the track; theorems about it |
| `Numeric`, `WideIntegers` | roundings; the limb arithmetic below the geometry |
| `SegmentGeometry` | the exact predicates on segments, boxes and circles (every small case of them is in `MCGeometry`) |
| `Placement` | what may be built where; at its end, drawings: modules as a whole |
| `PowerRoutes`, `PowerRouteSearch`, `PowerGrid` | the power graph; its compilation turn by turn; one tick of demands, solving, grants, heat |
| `Mobility`, `MobilityProofs` | the track and a mobile on it; theorems about its movement |
| `ContactDamage` | live wires, hostiles and the core through Phases 7 to 11 and the removals of the next tick |
| `Construction`, `ConstructionProofs` | builders and sites; theorems about the work they share |
| `Laboratory`, `LaboratoryProofs` | replays and the hosts that run them; the desktop session; theorems about both |
| `CanonicalEncoding` | the bytes of a state |
| `ReferenceArchitecture`, `ReferenceMaterialization` | designs and their plans; the build, its evidence and what the metrics demand of it |
| `ReferenceMetrics`, `ReferencePair` | the collector of a run; pairs of designs from manifest to classified rows |
| `ScenarioWorld`, `ExperimentPlan`, `ExperimentOutput` | from a scenario to tick 0; from axes to runs; publication on disk, with its theorems |
| `JsonForms` | documents, forms, reading and writing, changes in one place |
| `ReferenceFiles`, `ScenarioFiles`, `FileReading` | the files of each kind: modules, reference architectures, metrics and pairs; scenarios, profiles, plans and replays; what must hold of every kind |
| `MC*` | values of the constants for TLC, and sums of specifications |

*Sums.* Several MC modules check specifications that have nothing to do with each
other in one run. A variable `part` (or `scene`) is chosen in the initial state
and never changes; a behaviour stays in its part, every part's variables are its
own or shared under another name by substitution, and a property speaks of its
part only (`WorkSharedInOrder` of `Construction` speaks of every state, so the variables
of that part idle at legal values while damage is done). The state space is the disjoint union, so nothing is weakened by it.

### SignalTopology and SignalDelivery

`gates`, `wires`, `junctions` are the structural stores; `driver`, `sink`, `slot`
are the `DriverStore`, `SinkStore` and sink slots; `arrivals` is the signal
calendar; `routes` is the topology compiled last. A tick is the stages
*destruction*, *commands*, *drivers*, *arrivals*, *commit*; the commands of a
batch are single actions, as the code applies them one by one.
`CompileTopology` is the whole second half of Phase 0: generations, compilation,
route diff, lost slots, dirty marks and resynchronisation.

Abstractions. The least path is the least element over all simple paths, in
the order the Dijkstra search uses, instead of the search. An arrival carries its
path directly; the arena that keeps it is `ArrivalStaging`. Geometry is the
constant `Reach`: which targets lie at the point of a wire's end. Which
entities damage destroys is arbitrary, so the stage *destruction* may remove
anything. The transitions that Phase 2 drains are arbitrary outputs for any set of
drivers; `GateScheduling` decides them. Left out: endpoints of mobiles and
sensing wires, substrates and anchors, wire excitation, loads and component ids,
construction sites, the topology revision.

### GateScheduling

`gate[g]` is the gate's signal record with its pending tuple (`pending`, a set of
at most one), `events` the driver calendar, `ordinary[g]` the level its
resolved inputs ask for, `strength[g]` what its driver emits. Inputs, load and the
power ratio of the region are arbitrary in each tick: they come from delivery,
topology and power. `Schedule` is one whole Phase 6; `Commit` has the validation
of Phase 11 as its guard. A step whose state the code refuses is dropped and the world
is again the one its tick began with, which is a state of the model already, so a
refused state has no successor. There are such states: `LostOnlyToTakeover` says
exactly which, and `CommitAccepted`, that there are none, is a finding.

### ArrivalStaging

The clone a step works on is the state itself and `committed` is the world before
it; `Discard` may strike after any phase. Batches are arbitrary sets of
candidates. Two limits are part of the model: payload orders and certificate
ids end at `MaxNumber`, arena elements at `MaxElements`; a batch that does not fit
has no successor but `Discard`. The promise, `ArrivalCalendar`, knows neither
numbers nor certificates: arrivals with their paths go in, and come out when due.

### CommandBatch

A world is the registry of entities with the registries of drivers and sinks that
grow and shrink with it. `submitted` is a batch in the order the host gave it; a
step sorts out wrong ticks and repeated ordinals, takes what may be referred to
from the world before the batch, applies the rest by ordinal and stages the levels
asked of external drivers at the end. `BatchIsOneByOne` compares the outcome with
that of the accepted commands given one after another, and with every other order
of submission. Of the geometry it keeps that a board has room for one gate.

### StructuralLifecycle

`entities` is the registry with the records of all stores: ids are given out once and
removed ones stay as tombstones. A tick is the stages *destruction*, *removal*,
*activation*, *commands*, *physics*. `Condemn` is the cascade: `doomed` becomes the least
set that holds what damage destroyed and all that depends on it. `Destroy` then takes one
of them after another, dependents first, as `dependent_first_scc_order` does; the code
takes the free one with the least id, the model any free one. `Activate` is one
iteration over the ready sites; the commands are single actions, in the order of their
ordinals. In *physics* mobiles move, sites get ready and damage marks entities
for the next tick, each arbitrarily.

Abstractions. A thing is built after a *plan*, which stands for its kind and place;
constant relations say which plans clash in one domain (`Clash`), which
ports and junctions lie at a wire's end (`Touch`), where a mobile meets the track
(`Station`) and in which substrate a plan lies (`Host`). All rules of the code about
two built things are symmetric, as `Clash` is: `Placement` models the rules
themselves and `PiecesKeepApart` checks that symmetry. A refused command changes
nothing and is no step; duplicate ordinals, wrong ticks and reasons of refusal are in
`CommandBatch`. Which edge a mobile takes, and when, is arbitrary here and decided
in `Mobility`. A port of a mobile can be bound only by a wire that lies on that mobile.
Left out: main core, power sources and enemies (never removed here), integrity.

### Geometry, Placement and modules

`SegmentGeometry` has the predicates as the code computes them, `MCGeometry`
compares them with a drawing: points of a segment fine enough to hold every
crossing, moments of a movement fine enough to hold the nearest one, the foot of a
perpendicular. `WideIntegers` runs the widest multiplication loop by loop and checks
after every turn what the limbs stand for.

`Placement` has one action per command that places, binds or removes; `Item` gives
the shape of each thing. A refused command is no step. Its last part judges what
stands as `CanonicalModule` judges a drawing, with the rules of module.rs, and
`ModulesAreWhatBuilds` says that both agree. Coordinates are small integers, the
quantum and pitches are kept as parameters; the open world and a circuit board have
each their own site.

### Power

`PowerRoutes` has nodes, pieces and routes as operators. `PowerRouteSearch` runs the
two loops of the compilation, one turn an action, with the one priority per node
the code keeps, and is compared with the least of all routes. `PowerGrid` is one
tick: intents of gates, mobiles, live wires and builders are arbitrary; demand,
losses, the bisection for the regional ratio in its fixed number of turns, grants,
losses as heat and the support of an overloaded network follow the code. Nothing of
it survives the tick.

### Mobility

Operators for the track (`TrackGraph`), then a mobile: *edit* places and removes
edges under the rule of occupied wires, *grant* samples controls and grants a
budget, *move* spends it one turn of the loop at a time. One mobile is enough since
mobiles pass through each other in the code. The ratios of a tick are arbitrary, but
edges that meet at a junction share one (`Regional`), as they share a power region.

### ContactDamage and Construction

A tick of `ContactDamage` is the phases *begin*, *grant*, *interact*, *integrate*,
*resolve*, *commit*; grants are arbitrary offers. `Construction` has the commands that
reserve and remove sites, the requests of builders, the grant with its rounding,
the work added at each site from the lowest builder on (`Worked`, a recursive function of
a builder's id) and the activation; mobiles, signals and power around it
change arbitrarily between ticks.

### Laboratory

The simulation is seen as its hosts see it: a function of the batches stepped before,
so the state hash is the history itself. The first part has the shape rules of a replay,
the canonical order, and the verdicts of the headless runner and of the fixed-update
system; the second is the desktop session: input appends actions, the fixed update drains
them all and advances a frame. Its pacer counts credit in its own unit. The loops of the
code (steps of a host, ticks of a frame, actions of a queue, insertion into a sorted
list) are recursive functions of a number of turns, since proofs can unfold those.

### Records

`ReferenceMaterialization` builds one design or a pair on one schedule; what the
simulation answers to a step is arbitrary within what a step can answer. Its
evidence part is the check the metrics make before they trust a build, and it is
tried on the evidence of every build and on that evidence changed in one place.
`ReferenceMetrics` reduces reports that are arbitrary within `Contents`.
`ReferencePair` follows a pair from manifest to classified rows. `ScenarioWorld` has
both gates a scenario passes, the decoder's and `Simulation::new`'s, with the order of
their checks. A scenario refers to its profiles by id and by hash: the decoder compares
the ids, `new` the hashes, so that a package with a wrong hash is accepted and
does not start; `AcceptedScenariosStart` names this beside the other two things that are left
to `new`, planned features and the width of the capacity. `ExperimentPlan` resolves axes to runs. `ExperimentOutput` is the
one place where processes meet: runners share a directory, any file operation may fail
and a runner may die at any point and start again under the same process id; the
disk stays. `CanonicalEncoding` has the byte layout of each part of a state; dense
stores come in any order.

The file modules read a JSON *document* by the *form* the code's serde structures
declare: fields, options, variants, ranges, unknown and repeated fields. `Decode` is
the code's decode function with its passes and its order of faults, `Normal` what
normalisation makes of a value, `Encode` the writer and `BytesOf` the input of the
hash. `FileReading` writes a file, changes it in one place or not at all, and
reads it. `Meaning`, the reference for the hash, says which parts of a value count.

## 3. Runs

| Run | Properties | Bounds |
|---|---|---|
| `signals` | `RevisionsAgree` copies of a driver never contradict; `StepNeverFails`; `RoutesServed` what a driver says is in the slot or due within the delay; `NoGhostSlot` no slot without a route that carries it; `SinksResolved` a sink shows what its slots say; `SlotsAdvance` | one of two networks: two wires of delay 1 and 3 between a driver and a sink, plus the sink's own external driver, 5 edits, 4 ticks; or a route of two wires through a junction, 8 edits, enough to build it, take it apart at the junction and build it again, 5 ticks; 2 revisions |
| `step_parts` | `TransitionsMerge`, `StrengthFollowsPower`, `OutputWasAskedFor` of a gate; `LostOnlyToTakeover` which history of a gate loses a step; `PoweredGatesRespond`, and are not started over; `BatchIsOneByOne` | one gate, ratios 0, 1/5, 4/5 and 1 about a threshold of 1/5, delays of 1 and 2 that a ratio of 1/5 stretches to 5 and 10, retention of 3 ticks, ticks 0 to 6; batches of at most 3 and then 1 of 15 commands from 4 worlds |
| `staging` | `ImplementsCalendar` the storage implements `ArrivalCalendar`; `ValidationPasses` no step is lost to the validation of its events | three routes of 0, 1 and 3 elements, batches of two, 3 ticks, a step may fail after any phase, both limits within reach |
| `gates_long_delay` | `CommitAccepted`, violated | one gate, delay 1, threshold and floor 1/5, retention of 3 ticks as in the shipped balance, ticks 0 to 7 |
| `lifecycle` | `RefersToTheLiving`, also between two removals of one destruction; `PromisesHold` reserved sites can be built and staged updates have drivers; `RewiringShows` in generations; `TrackStaysUnderMobiles` for all but damage | a substrate, two clashing gates, two wires, 5 ids, 2 destroyed per tick; or two wires, a junction, a mobile with a wire on it, 4 ids, 1 destroyed per tick; 2 ticks |
| `lifecycle_track_loss` | `DamagedTrackResolves`, violated | the same |
| `geometry` | `GeometryIsExact`, `PiecesKeepApart`, `ModulesAreWhatBuilds` | segments on 0..3, pitches 1 to 3; movements and wires on -1..1, radii 0 to 2, chunks 1 to 3; limbs of base 4, digits 0, 1, 3; two sites of 9 and 11 items in every order |
| `geometry_loops` | `EveryWireAdapts`, violated | the open site |
| `power_and_track` | `WaysAreBest`, `RegionsSolvent`, `MobilesKeepTheTrack`, `LoopsEnd` | a triangle with a parallel wire and a dead end, tied lengths; three wires, two sources, all intents, ratio one = 6; a yard of five edges, budget 6, ratios 0 and 3/4 |
| `damage_and_work` | `DamageAccounted`, `WorkSharedInOrder`, `NobodyBuildsInVain` | three ticks, two wires, a gate, a core, two hostiles, offers 0 and 7; two sites of 3 and 2 work, two builders at three places, ratios 1/4 and 3/4 |
| `host` | `SessionReplays`, `FramesSplit`, `ViewsFollow`, `HostsAgree`, `PlaybackEnds` | a tick costs 8 credits, frames of 1 and 2; one probe with two samples; at most 2 queued actions, 3 ticks, 2 edits, 1 reset; replays of at most 2 commands and 2 ticks, checkpoints honest or one false, with and without a frame of hostiles |
| `records` | `BuildsConvince`, `MetricsAreTheTape`, `ScenariosStart`, `RunsCompare`, `OutputAppearsWhole`, `EncodingTellsStatesApart`, `FilesReadBack` | see below |

Bounds of `records`: designs of at most 4 operations, 2 sources, 1 enemy, 2 binding
batches and 2 barrier ticks, pairs of 4 companion designs; 2 rows, 1 enemy, 3
ticks, totals up to 4; a quantum of 2, coordinates to 11, capacities to 8; plans of at
most 6 profiles and 12 runs, products to 20; 2 runners, 2 editions, 2 names, 3
starts; a byte is a digit of base 12, a u32 has 2 of them, a u64 3 and a u128 4; u32
ends at 30, u64 and i64 at 60, `FIXED_ONE` is 16, texts end at 4 bytes; 24 files, one
or more of every kind and format, with every variant in one of them, each read as
it is, stamped with a later version, and with every change in one place.

Why the bounds are enough. A signal hazard needs a signal in flight, a change of
its path, a second path and a second signal: two wires, a driver that changes
twice and five ticks contain all orders of these. Wires are never placed under
the same id again, and the model follows that, so that a third wire would add
names, not cases. Gates do not interact within a phase, so that one gate with
arbitrary inputs and ratios shows what any number of them can do. A batch hazard
needs a command, one that depends on it and one that takes its place: three.
Geometry decides by signs of products and comparisons of squares, and a grid of
four points a side has every sign, every order and every tie; the limbs need one
digit that carries, one that does not, and the largest. The power site lets two
regions join and part and has ties for each rule that breaks them; the yard has
junctions of one, two and four incidents, bends, a dead end, and an end that lies at
a junction without being bound. Three ticks hold damage, the destruction it causes
and what that leaves. A change in one place of a file is what a wrong decoder would
have to notice; two changes in one file would show a decoder that lets one hide the
other, which the order of its passes decides and `LaterFormatsAreTold` checks for
the version. Cfgs set `CHECK_DEADLOCK FALSE` because a behaviour ends at a bound
(`MaxTick`, in the code the end of the u64 range, where the step fails) or with its
subject (a finished build, a read file, a published directory); `damage_and_work`
checks for deadlock since its host never stops.

Every property comes with a mutant of the code in `PROJECT.json`: a plausible
bug in one mapped definition, under which the same run finds the property
violated. The mutated forms are the operators named `<Definition>_<Mutation>`.

Fairness. Only what the code keeps running is fair.

* `LoopsEnd` (weak fairness of a turn of the route search and of a movement): both
  loops run in a single thread, nothing else happens until they are done.
* `PlaybackEnds` (weak fairness of the fixed update): Bevy's fixed schedule goes on
  calling the system as long as the application lives. Input is not fair. The
  property assumes that the playback is left running infinitely often.
* `NobodyBuildsInVain` (weak fairness of the tick): the host goes on stepping. With
  half of its power or less the last unit of work rounds to nothing and a site need
  not get done, so the property asks for more than half; mobiles, signals and power
  may change in between as they like.

Elsewhere "eventually" is expressed with deadlines where the code has them:
`RoutesServed` requires the update in the slot or due within the route's delay,
`PoweredGatesRespond` a transition that is due within the longest delay and is not
started over.

## 4. Findings

* `CommitAccepted` (run `gates_long_delay`). Phase 6 keeps a pending transition
  whose level equals the target. A switch to Low that was scheduled, with
  energy, before the brownout and is still pending when retention runs out is
  kept as the retention reset, although the decisions of S1-M2 say that a reset
  carries no energy. The validation knows resets without energy only: if the inputs
  ask for High (or X) in that tick, the desired output, Low, is neither what they ask
  for nor a reset, the step ends with `InvalidCanonicalState`, and so does every
  further attempt with the same inputs. The decisions treat the expiry as an ordinary
  event and name no such error. The shipped balance allows it: with a delay of 1 and a
  retention of 3 a switch scheduled at a ratio below 1/3 lasts long enough.
  `LostOnlyToTakeover`, checked in `step_parts` and proved for every balance, says that
  no other history of a gate loses a step.
* `DamagedTrackResolves` (run `lifecycle_track_loss`). The cascade of destruction
  regards a mobile at a junction as resting on the junction alone. Its position also
  names the wire it came from, and when damage destroys that wire the mobile stays, is
  not found on the track in Phase 1, and the step fails; the destruction stays
  pending, so that every later step fails as well. The decisions of S1-M4 say that a
  mobile depends on the wire or junction its position names and that damage
  must not become a run error. `TrackStaysUnderMobiles` in the run `lifecycle` shows
  that commands, which do check the incoming wire, are safe.
* `EveryWireAdapts` (run `geometry_loops`). Phase 0 accepts a wire whose two ends are
  one point, and a test of the repository places one; the power graph of Phase 5
  refuses it, so that with power on the step fails instead of the command. The
  decisions of S1-M2 take distinct ends for granted.

Observed and not registered, since no line of the repository says otherwise: the
decoder of scenarios accepts, in schema 4, features and capacities that
`Simulation::new` then refuses; the evidence of a pair may leave out an empty first
batch of one side; the base profile's own pitches need not be in the matrix of an
experiment; a variant without fields, where its word is a tag, is read with any
fields beside it; `fs::rename` replaces an empty directory that somebody made after
the runner looked for one (`MakeOutput`); two presses of Space before one fixed
update queue the same action twice.

## 5. Proofs

The theorems hold for every value of the constants that satisfies the assumption each
module names (`TopologyAssumption` and `DeliveryAssumption`, `SchedulingAssumption`,
`StagingAssumption`, `LifecycleAssumption`, `ShapeAssumption` and `MobilityAssumption`,
`OutputAssumption`, `ConstructionAssumption`, `LaboratoryAssumption` and
`ReplaysAssumption`): any number of entities, any geometry, any bound. The runs evaluate
these assumptions for their constants.

### Signals

`SignalDeliveryProofs`, about samples:

* `CopiesAgree`: `Spec => []RevisionsAgree`. Equal revisions of a driver mean equal
  samples wherever copies of them are, and no copy is ahead of its driver.
* `SignalsStayTyped`: the structural and the signal part of the type invariant.
* `NoRevisionConflict`: Phase 2 never meets two arrivals, or an arrival and a slot,
  that contradict each other (`DriverRevisionInvariantViolation`).
* `SlotsNeverRegress`: `Spec => SlotsAdvance`.

The argument. `RevisionsAgree` is not inductive: it says nothing of a driver
whose gate is gone while its signals are in flight, and a slot can be filled by
an arrival only if the sender is known to have existed. The inductive invariant
`IInv` adds the types (`Typed`), that every sender of an arrival belongs to a gate
that has been placed (`SendersKnown`: an absent gate has sent nothing, so that
placing it cannot clash with an old sample), and states the agreement per driver
(`Coherent`). Each action then either leaves the copies of a driver alone,
duplicates one (resynchronisation, delivery), forgets some (removal), or makes one
with a revision above all others (`DriveOutputs`). Lemmas about `Winner`, `Bucket`
and the route diff carry the facts about delivery; the temporal steps are PTL.

And about routes, while the network is rewired:

* `SignalStepNeverFails`: `Spec => []StepNeverFails`. Phase 2 finds nothing overdue.
* `EveryRouteServed`: `Spec => []RoutesServed`. No update is lost to rewiring.
* `NoSlotOutlivesItsRoute`: `Spec => []NoGhostSlot`.
* `EverySinkResolved`: `Spec => []SinksResolved`, though only marked sinks are resolved.
* `LeastPriority`: a finite set of route priorities has a least one.

The argument. A slot or a sink that is right now may be made wrong by an edit only
after the edit, so the properties are invariants of the end of a tick and say little in
between. `Delivery` says what holds at every stage. What is in flight still leads from
its driver to its sink, hop by hop, unless a wire or junction it crosses was touched
(`ArrivalsKept`); the routes are those of the network except between an edit and the
next compilation (`RoutesCurrent`); a live route holds its driver's sample or has it in
flight along its own path, due in time (`AllServed`); slots belong to routes, nothing is
passed over, and sinks that are not marked are at the level of their slots. The step
that needs most is `CompileTopology`, where a route keeps its slot exactly if its stamps
are the old ones. It also needs that `shortest_path` is well defined: the order of
priorities is strict and total and the walks of a network are finitely many, and the
element with the fewest below it is the least, so no induction over paths is needed.

### Gates

`GateSchedulingProofs` proves, for every set of gates, loads, ratios and balance values
that satisfies `SchedulingAssumption`:

* `CalendarAgrees`: `Spec => []PendingMatchesCalendar`. A pending transition has exactly
  one event that will carry it out, and without one none can fire.
* `TransitionsAlwaysMerge`: `Spec => []TransitionsMerge`.
* `StrengthLagsOneTick`: `Spec => []StrengthFollowsPower`.
* `OutputsWereAskedFor`: `Spec => OutputWasAskedFor`.
* `StepsLostOnlyToTakeover`: `Spec => []LostOnlyToTakeover`. The validation at the end of a
  step refuses a gate exactly if the reset of its output took over a switch that has
  its energy while its inputs ask for another level. Nothing is assumed of how delays
  and retention relate, as `profile.rs` does not relate them.
* `GatesRespond`: `Spec => PoweredGatesRespond`, for any finite set of loads.

The argument. `TransitionsMerge` says nothing of the stages in between. `IInv` adds that
a generation is spent on one event only and that events never bear a generation above
their gate's (`OneSwitch`), that the tuple and the event of the current generation name
each other (`Tied`), that responses are due in the next Phase 2, one for a gate
(`EventsInTime`), that they carry what was granted to the level they were made
for (`Granted`), and why a gate wants what it is switching to (`Asked`). Phase 6 is
reduced to three cases by `PendingFate`: the tuple is kept, cancelled or replaced. For
`StepsLostOnlyToTakeover` a second invariant, `ResetUnderWay`, says that a gate whose
retention has run out is made to go to Low and has a switch to it under way: then the
reset is free of energy and accepted, or it is a switch taken over, and since there is
one tuple only, not both. For `GatesRespond` a third, `Responds`: a switch in progress is due within the longest delay of any load and ratio (`Soon`; the loads must be
finite for there to be one), and a gate that had power in the last Phase 6 emits what
its inputs ask for or is switching to it (`Answers`); that a switch is not started over
is a property of the steps and follows from `IInv` (`InvKept`). Of `TypeOK` only the sum of heat
is not proved: the fold it is written with is beyond the provers.

### Event storage

`ArrivalStagingProofs`:

* `StorageImplementsCalendar`: `Spec => ImplementsCalendar`. Each commit is a step of
  `ArrivalCalendar`: it delivers just what is due, each with the path it was sent along,
  and adds what was sent; every other step, a failed one included, is a stutter.
* `StagingPassesValidation`: `Spec => []ValidationPasses`.
* `CertificatesAlwaysMatch`, `NumbersStayFresh`: arrivals and certificates are one to
  one, and no number is given out twice, at every point of a step.

The argument. `StagingInv` has one notion of a sound event state, `Sound` (types,
arrivals and certificates one to one, numbers fresh, ranges of the arena disjoint and
inside it), and asks it of the state a step works on and of the committed one, so that
`Discard` is trivial. Two parts carry the refinement: an arrival that was committed is
unchanged or was delivered in this step (`Kept`), and what a step delivered was due and
committed (`Deliveries`). The refinement mapping turns an arrival into what was sent
(`AsSent`), which reads its path from the arena; appending leaves what is below alone.

### Lifecycle

`StructuralLifecycleProofs`:

* `ReferencesStayAlive`: `Spec => []RefersToTheLiving`, also between the removals of one
  destruction, and a destruction that has begun can always go on.
* `PromisesAreKept`: `Spec => []PromisesHold`.
* `RewiringIsShown`: `Spec => RewiringShows`.
* `CommandsKeepTheTrack`: `Spec => TrackStaysUnderMobiles`. The finding
  `DamagedTrackResolves` is what damage does.
* `RegistryStaysTyped`: `Spec => []TypeOK`.

The argument. That references are alive follows from what each entity was allowed to
refer to when it was placed: `LifecycleInv` gives every live entity its plan, its
substrate, its ends and its place on the track (`Sound`), keeps clashing plans apart
across sites and built things (`KeptApart`), and lets a site refer only to what is older
than the batch (`Older`), so that no command of the batch can remove it unseen. Between
removals, `doomed` is closed under dependence (`DamageWaits`): whoever refers to what is
condemned is condemned. That some condemned entity is always free to go is not an
induction: dependence goes down a fixed order of kinds (`DependenceGoesDown`), and the
condemned entity of the highest layer is free.

The attempt to prove `ReferencesStayAlive` showed the model of a binding to a mobile's
port to be too permissive: it let any wire at the port be bound, while the code only
considers wires in the domain of that mobile. The end of a mobile lies in the mobile
itself, not in the domain of the mobile; `EndValid` now says so.

### Mobility

`MobilityProofs`:

* `MobilesAreFound`: `Spec => []PositionsResolve`. Where a mobile stands, and every place
  a movement brings it to, is found on the track, and its power attachment is the same
  point. `Rewire` only takes an edge where the position stays; the finding
  `DamagedTrackResolves` shows where the code breaks that premise.
* `PowerIsEverywhere`: `Spec => []DarkNeverBlocks`.
* `MobilesNeverJump`: `Spec => NeverJumps`. A turn leads along one edge by what it spends,
  or through a junction for nothing.
* `MobilesAlwaysKeepTheTrack`: `Spec => []MobilesKeepTheTrack`, the first two and the next
  together, which is what the run checks.
* `BudgetsGoByUnits`: `Spec => []SpentUnitByUnit`. Over junctions, round dead ends and
  through any number of reflections a budget takes a mobile where as many single units
  would take it one by one, and leaves what they could not spend. So it makes no
  difference how a distance is split into turns.
* `PreferredIsThere`: of any candidates at a junction, `Preferred` is one.

The argument. `TrackInv` says of a position that it is of one of two forms, an offset
within a live edge or a junction with a live edge bound to it (`Standing`), of a
movement that it keeps that, and that the edge it is on has power as long as budget is
left (`Lit`). A way out of a junction meets the way in, so it shares its ratio. An edge
comes to a junction with one end only, since the two ends of a bound edge are at
different places, which makes the attachment unique. Least and sharpest turns need
that the comparison by cross and dot products is transitive: fractions with positive
denominators compared crosswise (`CrosswiseTransitive`). A free edge that reflects any
number of times is one division by its period (`Reflected`).

Units need a second invariant, `Paced`. After each turn the mobile is where the units
spent so far lead, or already off the junction, or turned round at the dead end, that
they lead to (`Ready`); and a mobile at the very end of an edge, headed out, has no
junction there (`Approaching`), for else the loop would enter the junction where a unit
turns round. `locate` keeps that since a point with a bound end is left by its least
incident. `TurnInUnits` gives a turn as the path of its units: along an edge up to its
end (`UnitsAlong`), or to and fro on a free one (`UnitsBounced`, one rest of a division
after another, `NextRest`). The walk by units is a recursive function of their number;
`UnitsBySteps` unfolds it, by the least number for which it would fail. `TurnsByCompass`,
which compares with a table of angles, is checked by TLC only.

### Output

`ExperimentOutput` proves, for every set of runners, every set of editions and every
number of attempts and starts that satisfies `OutputAssumption`:

* `OutputIsWhole`: `OutputSpec => []PublishedWhole`. Whatever call fails and whichever
  process dies, the output is absent, empty or one whole edition, and a runner
  that reports success has published just that one.
* `OutputStays`: `OutputSpec => NeverOverwritten`.

The run `records` checks both as parts of `OutputAppearsWhole`, for two runners.
`PublishedWhole` is not inductive: it says nothing of the directory that is about to
be renamed. `IInv` adds (`Staged`) that a writing runner's directory bears its own
process id, is there, and holds whole just what the runner has written. The lemma
`OthersUntouched` carries the rest: since names bear process ids and 0 is none, a
step that touches one directory of its own disturbs neither the output nor
another runner's. The assumption that two living processes never share an id is
what `Runners`, a set of ids, stands for; a dead one's id may come again, and its
remains are skipped because their name is taken.

### Construction

`ConstructionProofs`, for any finite set of builders, any sites, work and ratios:

* `WorkIsSharedInOrder`: `Spec => WorkSharedInOrder`. No step fails for a builder, a site is
  ready exactly when it has what it needs, and of the work granted at a site as much is
  done as it still needs, the first builders before the later ones.

The argument. That no step fails needs to know that ready sites are activated before
anybody looks for work (`ReadyIsActivated`) and that a site keeps still from the
intents of a tick on (`IntentsHold`): then a builder's site needs more, its demand is
positive, and it is still there, not ready, when the work is applied. `WorkedIsGiven`
compares the code's loop, which caps each contribution by what is left, with the plain
sum of what is granted, capped once. Since work never goes back from one builder to
the next (`WorkedGrows`), who adds anything finds that all before it added everything
(`FirstComeFirst`). `ConstructionAssumption` asks for positive work and costs, as
`require_positive_rational` and `validate_site` do, and for ids other than 0.

### Hosts

`LaboratoryProofs`, for every set of actions and of replays, every cut of time into frames
and every limit of the probes:

* `LaboratoryViewsFollow`: `Spec => []ViewsFollow`.
* `LaboratoryFramesSplit`: `Spec => []FramesSplit`. Two frames do what one of their
  length does, for any lengths, rate and price of a tick.
* `LaboratoryHostsAgree`: `Spec => []HostsAgree`. The headless runner, the fixed update
  of the application and a playback come to one verdict and one trace on every replay
  that is accepted, a false checkpoint or a step that fails included.
* `LaboratorySessionReplays`: `Spec => []SessionReplays`. Log and trace of a session make a
  replay that a fresh host completes with that very trace.

`ReplaysAssumption` says that replays come from `new_normalized`, the only way the code
makes one: ticks are numbers and commands in order.

The argument. A loop by turns has a lemma that unfolds it by one turn (`...BySteps`),
and what holds after every number of turns is shown on the least number after which it
would not: the well-foundedness of the naturals serves where the library's
induction, which takes an operator, cannot be used. Four arguments build on each other:

* `LaboratoryInv`: every field of a session is of its type (`Session`), each probe knows the
  history it follows (`Knows`: alive as long as its target, its samples consecutive and
  up to the last tick), probes are in order and apart (`Rack`), and the view is of a
  substrate that is there.
* For frames, the rate earns in two frames what it earns in their sum, and spending a tick's
  credit leaves quotient and remainder: ticks and credit after two frames are those
  after one, since division is unique. A frame that ends the run or fails stops both.
* For hosts, `PlaybackInv`: the runner and the fixed update of the application take a
  turn each and stay `Alike`, with the checkpoints up to this tick verified (`Follows`,
  `InTurn`); the laboratory is always where that fixed update has been after as many
  ticks, or has the verdict it ends with (`Plays`).
* For sessions, `LogInv`: the trace is a walk by the edits logged for each tick (`Walk`), the
  log is in line (`InLine`: by ticks, and ordinals grow), and what is pending is the part of the
  log from the next tick on (`Trail`). A log in line is not changed by sorting
  (`LineSorted`), and what a host of its replay picks for a tick is what the session
  applied in it (`PickedAgain`).

### What stays with TLC

* Liveness (`LoopsEnd`, `PlaybackEnds`, `NobodyBuildsInVain`): out of the prover's reach.
* Sums and folds of the community modules: `RegionsSolvent`, `DamageAccounted`, the metrics,
  `BatchIsOneByOne`. They take an operator, which the provers cannot unfold; `Laboratory` and
  `Construction` were rewritten with recursive functions for that reason, the others
  were not.
* `FileReading`, `JsonForms` and the file modules use RECURSIVE operators, since documents
  are trees.
* The geometry, whose reference is a drawing of sampled points, and the search for
  power routes, whose reference is the set of all routes. Nothing stands in the way of
  proofs about them but their size.

## 6. Plan

Done: the inventory; every component of section 1, as far as its status in
`PROJECT.json` says; the theorems of section 5. Next, in this order:

1. Proof that the power routes are well formed and that regions are the connected parts
   (`PowerRouteSearch`), and of what a tick of damage does without its sums
   (`ContactDamage`: what is destroyed goes in the next tick, once).
2. A composition of gates with delivery, and quiescence of a network without
   feedback under weak fairness of the step.
3. Component ids, loads and wire excitations of the topology.
4. The resolution of an experiment plan of the first format against the bytes of
   its profiles; the fairness report of a pair.

## 7. Not modelled

* The hash function (blake3) and the JSON parser are external: a hash is equal
  exactly if its input is, a document is a tree.
* Within the file forms: the order of fields, positional spellings and wrapped words
  that serde accepts beside the usual ones, commands of one tick and ordinal. The
  numeric profile, the balance and the scenario have no writer.
* The conversions of the newtypes in numeric.rs, identity.rs and geometry.rs, beyond
  the roundings and ranges the models use.
* Drawing, text, camera and input mapping of the desktop host; arguments and printing
  of the runner; the fuzz harness, which is a test of the core.
* The records of causes of damage and the integrity of structure in the lifecycle;
  the endpoints of mobiles and sensing wires in delivery, which do not route.
* No module runs all phases on one world: each phase is an action of its component's
  module, with arbitrary input where another component's state comes in.
