---------------------------- MODULE CommandBatch ----------------------------
(***************************************************************************)
(* Phase 0 takes the commands of a tick as one batch (structural.rs,       *)
(* signal.rs, simulation.rs).  What any command may refer to is what stood *)
(* when the batch began; wrong ticks and repeated ordinals are sorted out  *)
(* first, the rest is done by ordinal, and the levels asked of external    *)
(* drivers are gathered and staged at the end.                             *)
(*                                                                         *)
(* A world is the registry of entities with the registries of drivers and  *)
(* sinks that grow and shrink with it; identities are positions and are    *)
(* never used again.  Of the geometry it keeps that a board has room for   *)
(* one gate.                                                               *)
(***************************************************************************)
EXTENDS Integers, FiniteSets, SequencesExt, FiniteSetsExt

CONSTANTS Commands,   \* the commands a host may submit
          Setups,     \* earlier batches, whose outcomes are the worlds to begin with
          MaxBatch,   \* bound: commands in the first batch, two less in each that follows
          MaxSteps    \* bound: batches after the setup

Levels == {"Low", "High"}
BatchAssumption == MaxBatch \in Nat /\ MaxSteps \in Nat

VARIABLES world, submitted, steps

Gone == [kind |-> "gone"]
EmptyWorld == [tick |-> 0, entities |-> << >>, drivers |-> << >>, sinks |-> << >>]

Kinds == {"board", "gate", "wire", "mobile", "site"}
Ports ==
    [board |-> [drivers |-> << >>, sinks |-> << >>],
     site |-> [drivers |-> << >>, sinks |-> << >>],
     gate |-> [drivers |-> <<"ExternalInputA", "GateOutput">>, sinks |-> <<"InputA">>],
     wire |-> [drivers |-> <<"WireSenseA", "WireSenseB">>, sinks |-> << >>],
     mobile |-> [drivers |-> <<"ExternalMobileBuild">>,
                 sinks |-> <<"MobileStop", "MobileLeft", "MobileRight", "MobileBuild">>]]
is_external(role) == role \in {"ExternalInputA", "ExternalMobileBuild"}

-----------------------------------------------------------------------------
\* Registries: allocation at the end, removal leaves a mark.
next_id(registry) == Len(registry) + 1
Alive(w) == {id \in DOMAIN w.entities : w.entities[id] # Gone}
Sites(w) == {id \in Alive(w) : w.entities[id].kind = "site"}

\* EntityRegistry::allocate with SignalWorld::activate_gate, activate_wire or activate_mobile.
Activated(w, entity) ==
    LET owner == next_id(w.entities)
        driver(role) == [owner |-> owner, role |-> role, level |-> "Low"]
        sink(role) == [owner |-> owner, role |-> role]
        roles == Ports[entity.kind]
    IN  [w EXCEPT !.entities = Append(@, entity),
                  !.drivers = @ \o [i \in DOMAIN roles.drivers |-> driver(roles.drivers[i])],
                  !.sinks = @ \o [i \in DOMAIN roles.sinks |-> sink(roles.sinks[i])]]

\* EntityRegistry::remove with SignalWorld::remove_gate, remove_wire or remove_mobile.
Removed_InputOnly(w, id) ==
    LET freed(registry) == [i \in DOMAIN registry |->
            IF registry[i] # Gone /\ registry[i].owner = id /\ registry[i].role # "GateOutput"
            THEN Gone ELSE registry[i]]
    IN  [w EXCEPT !.entities[id] = Gone, !.drivers = freed(@), !.sinks = freed(@)]
Removed(w, id) ==
    LET freed(registry) == [i \in DOMAIN registry |->
            IF registry[i] # Gone /\ registry[i].owner = id THEN Gone ELSE registry[i]]
    IN  [w EXCEPT !.entities[id] = Gone, !.drivers = freed(@), !.sinks = freed(@)]

-----------------------------------------------------------------------------
\* One command: a reason to refuse it, or "none".
reference_location(w, id, frontier) ==
    IF id = 0 \/ id >= frontier THEN "UnknownEntity"
    ELSE IF w.entities[id] = Gone THEN "RemovedEntity" ELSE "none"

\* A gate on a board, or the site of one, leaves no room for another.
Occupied(w, board) ==
    \E id \in Alive(w) :
        \/ w.entities[id].kind = "gate" /\ w.entities[id].on = board
        \/ w.entities[id].kind = "site" /\ w.entities[id].on = board
Unless(reason, otherwise) == IF reason # "none" THEN reason ELSE otherwise
place_gate(w, board, frontier) ==
    Unless(reference_location(w, board, frontier),
           IF w.entities[board].kind # "board" THEN "InvalidRoutingDomain"
           ELSE IF Occupied(w, board) THEN "GeometryOverlap" ELSE "none")

remove_entity(w, id, frontier) ==
    Unless(reference_location(w, id, frontier),
           IF \E s \in Sites(w) : w.entities[s].on = id THEN "ConstructionDependencyInUse"
           ELSE IF \E g \in Alive(w) : w.entities[g].kind = "gate" /\ w.entities[g].on = id
                THEN "SubstrateInUse"
           ELSE "none")

external_driver_status(w, driver, frontier) ==
    IF driver = 0 \/ driver >= frontier THEN "Unknown"
    ELSE IF w.drivers[driver] = Gone THEN "Removed"
    ELSE IF is_external(w.drivers[driver].role) THEN "External" ELSE "WrongKind"

Refusal(w, command, frontiers) ==
    CASE command.op \in {"PlaceGate", "PlaceConstructionSite"} -> place_gate(w, command.arg, frontiers.entity)
      [] command.op = "RemoveEntity" -> remove_entity(w, command.arg, frontiers.entity)
      [] command.op = "SetExternalDriver" ->
            LET status == external_driver_status(w, command.arg, frontiers.driver) IN
            [Unknown |-> "UnknownDriver", Removed |-> "RemovedDriver",
             WrongKind |-> "InvalidDriverKind", External |-> "none"][status]
      [] OTHER -> "none"

Entity(kind, on, ready) == [kind |-> kind, on |-> on, ready |-> ready]
apply_command(w, command) ==
    CASE command.op = "PlaceFixedSubstrate" -> Activated(w, Entity("board", 0, FALSE))
      [] command.op = "PlaceGate" -> Activated(w, Entity("gate", command.arg, FALSE))
      [] command.op = "PlaceWire" -> Activated(w, Entity("wire", 0, FALSE))
      [] command.op = "PlaceMobileSubstrate" -> Activated(w, Entity("mobile", 0, FALSE))
      [] command.op = "PlaceConstructionSite" -> Activated(w, Entity("site", command.arg, FALSE))
      [] command.op = "RemoveEntity" -> Removed(w, command.arg)
      [] OTHER -> w

\* Sites that are done give way to their gates, by identity, before any command.
activate_ready_sites(w) ==
    LET ready == {s \in Sites(w) : w.entities[s].ready}
        activate(v, s) == Activated(Removed(v, s), Entity("gate", w.entities[s].on, FALSE))
    IN  FoldLeft(activate, w, SetToSortSeq(ready, LAMBDA s, t : s < t))

-----------------------------------------------------------------------------
Answer(envelope, outcome) ==
    [target_tick |-> envelope.target_tick, ordinal |-> envelope.ordinal, outcome |-> outcome]
ByOrdinal(a, b) == a.ordinal < b.ordinal

\* The levels asked for, of drivers that are still there at the end.
Retained_All(w, updates) == updates
Retained(w, updates) ==
    LET kept == {d \in DOMAIN updates : external_driver_status(w, d, next_id(w.drivers)) = "External"}
    IN  [d \in kept |-> updates[d]]

\* stage_external_driver_updates, and Phase 2 of the same tick: a driver that
\* is gone or is not external is an error of the step.
DriverUpdatesFail(w, updates) ==
    \E d \in DOMAIN updates : external_driver_status(w, d, next_id(w.drivers)) # "External"
WithLevels(w, updates) ==
    [w EXCEPT !.drivers = [d \in DOMAIN w.drivers |->
        IF d \in DOMAIN updates THEN [w.drivers[d] EXCEPT !.level = updates[d]] ELSE w.drivers[d]]]

\* apply_phase0_internal on a sequence of envelopes, as they came.
RefersTo_Latest(began, current) ==
    [entity |-> next_id(current.entities), driver |-> next_id(current.drivers)]
RefersTo(began, current) ==
    [entity |-> next_id(began.entities), driver |-> next_id(began.drivers)]

\* One timely command, once it is known whether it is refused.
Done(state, e, refusal) ==
    LET asked == {d \in {e.command.arg} : e.command.op = "SetExternalDriver"} IN
    IF refusal # "none" THEN [state EXCEPT !.answers = Append(@, Answer(e, refusal))]
    ELSE [world |-> apply_command(state.world, e.command),
          answers |-> Append(state.answers, Answer(e, "Accepted")),
          updates |-> [d \in DOMAIN state.updates \cup asked |->
                          IF d \in asked THEN e.command.level ELSE state.updates[d]]]

\* The commands of the tick by ordinal, in a world whose finished sites are built.
Gathered(began, envelopes, tick) ==
    LET OnTime(e) == e.target_tick = tick
        Late(e) == ~OnTime(e)
        timely == SelectSeq(envelopes, OnTime)
        late == SelectSeq(envelopes, Late)
        Repeated(e) == Cardinality({i \in DOMAIN timely : timely[i].ordinal = e.ordinal}) > 1
        do(state, e) ==
            Done(state, e, IF Repeated(e) THEN "DuplicateOrdinal"
                           ELSE Refusal(state.world, e.command, RefersTo(began, state.world)))
    IN  FoldLeft(do, [world |-> began, updates |-> [d \in {} |-> "Low"],
                      answers |-> [i \in DOMAIN late |-> Answer(late[i], "WrongTick")]],
                 SortSeq(timely, ByOrdinal))

ByTick(a, b) == a.target_tick < b.target_tick \/ (a.target_tick = b.target_tick /\ a.ordinal < b.ordinal)
Outcome(end) ==
    [world |-> end.world, updates |-> Retained(end.world, end.updates),
     answers |-> SortSeq(end.answers, ByTick)]
Phase0(w, envelopes) == Outcome(Gathered(activate_ready_sites(w), envelopes, w.tick))
\* The whole step as far as it concerns commands.
Committed(phase0, tick) ==
    [failed |-> DriverUpdatesFail(phase0.world, phase0.updates),
     answers |-> phase0.answers,
     world |-> [WithLevels(phase0.world, phase0.updates) EXCEPT !.tick = tick]]
Stepped(w, envelopes) == Committed(Phase0(w, envelopes), w.tick + 1)

-----------------------------------------------------------------------------
Init ==
    /\ \E setup \in Setups :
          world = FoldLeft(LAMBDA w, batch : Stepped(w, batch).world, EmptyWorld, setup)
    /\ submitted = << >> /\ steps = 0

\* Ordinals are given out in order, but one may be used twice, or the tick be wrong.
Submit ==
    /\ Len(submitted) + 2 * steps < MaxBatch /\ steps < MaxSteps
    /\ \E command \in Commands, target_tick \in {world.tick, world.tick + 1} :
       LET last == IF submitted = << >> THEN 1 ELSE Last(submitted).ordinal IN
       \E ordinal \in {last, last + 1} :
          submitted' = Append(submitted, [target_tick |-> target_tick, ordinal |-> ordinal,
                                          command |-> command])
    /\ UNCHANGED <<world, steps>>

Step ==
    /\ steps < MaxSteps
    /\ \E step \in {Stepped(world, submitted)} : ~step.failed /\ world' = step.world
    /\ submitted' = << >> /\ steps' = steps + 1

\* Phase 9 finds that a site has all its work.
FinishSite ==
    /\ submitted = << >>
    /\ \E s \in Sites(world) :
          ~world.entities[s].ready /\ world' = [world EXCEPT !.entities[s].ready = TRUE]
    /\ UNCHANGED <<submitted, steps>>

Next == Submit \/ Step \/ FinishSite
Spec == Init /\ [][Next]_<<world, submitted, steps>>

-----------------------------------------------------------------------------
\* Every driver and sink belongs to something that stands, and it has all its ports.
RegistriesAgree(w) ==
    LET Held(registry, id) ==
            LET Of(port) == port # Gone /\ port.owner = id
                ports == SelectSeq(registry, Of)
            IN  [i \in DOMAIN ports |-> ports[i].role]
    IN  /\ \A id \in DOMAIN w.entities :
              LET ports == IF w.entities[id] = Gone THEN Ports.board ELSE Ports[w.entities[id].kind] IN
              Held(w.drivers, id) = ports.drivers /\ Held(w.sinks, id) = ports.sinks
        /\ \A s \in Sites(w) :
              LET on == w.entities[s].on IN
              w.entities[on] # Gone /\ w.entities[on].kind = "board"

\* The outcome of the batch beside that of its commands one by one.
OneByOne(outcome, start) ==
    LET count == Len(submitted)
        began == [entity |-> next_id(start.entities), driver |-> next_id(start.drivers)]
        orders == {order \in [1 .. count -> 1 .. count] :
                      \A i, j \in 1 .. count : i # j => order[i] # order[j]}
        reply(e) == (CHOOSE a \in ToSet(outcome.answers) :
                        a.target_tick = e.target_tick /\ a.ordinal = e.ordinal).outcome
        \* one after another; only what was accepted in the batch has an effect
        after(state, batch, alone) ==
            CASE batch \in {"WrongTick", "DuplicateOrdinal"} -> state
              [] batch = "Accepted" ->
                    [ok |-> state.ok /\ alone.answers[1].outcome = "Accepted" /\ ~alone.failed,
                     world |-> alone.world]
              [] OTHER -> [state EXCEPT !.ok = @ /\ (\/ alone.answers[1].outcome = batch
                                                     \/ batch \in {"UnknownEntity", "UnknownDriver"})]
        single(state, e) ==
            after(state, reply(e),
                  Stepped(state.world, <<[e EXCEPT !.target_tick = state.world.tick]>>))
        end == FoldLeft(single, [ok |-> TRUE, world |-> start], submitted)
    IN  /\ ~outcome.failed
        /\ \A order \in orders :
              Stepped(world, [i \in 1 .. count |-> submitted[order[i]]]) = outcome
        /\ Len(outcome.answers) = count
        /\ \A e \in ToSet(submitted) : \E a \in ToSet(outcome.answers) :
              a.target_tick = e.target_tick /\ a.ordinal = e.ordinal
        /\ \A e \in ToSet(submitted) : reply(e) = "Accepted" =>
              e.command.arg < IF e.command.op = "SetExternalDriver" THEN began.driver ELSE began.entity
        /\ \A serial \in {end} :
              serial.ok /\ [serial.world EXCEPT !.tick = 0] = [outcome.world EXCEPT !.tick = 0]
        /\ RegistriesAgree(world)
\* Whatever order the commands come in, each is answered once and the outcome
\* is one: that of the accepted commands given one in a tick, by ordinal, and
\* a command that is refused would be refused there too, unless it names
\* what the same batch made, which none may.  Such a batch never fails the step.
BatchIsOneByOne == OneByOne(Stepped(world, submitted), activate_ready_sites(world))
=============================================================================
