---------------------- MODULE ReferenceMaterialization ----------------------
(* Building a Reference Architecture, alone or as a pair on one schedule
   (materialize_reference_architecture, .._pair): batches of commands, the
   barrier after each binding stage, and the evidence handed over at the end,
   together with the check the metrics make of that evidence before they trust
   it (reference_metrics.rs, validate_materialization_evidence).
   What a tick of the simulation does is left open: a step creates one entity
   per placement, and may reject, fail, touch an enemy, end the run, or leave
   signals still moving. *)
EXTENDS ReferenceArchitecture

CONSTANTS
    Offers,            \* what may be offered: designs of "left" alone, or of "left" and "right"
    Scenario,          \* [sources, enemies]: how many anchors the scenario has
    MaxBarrierTicks    \* REFERENCE_ARCHITECTURE_MAX_BARRIER_TICKS_V2

-----------------------------------------------------------------------------
(* What the metrics require of the evidence of a build before they use it:
   commands, acceptances, batches and barriers must be the plan's, and must
   fill every tick from the first command to the end of the build.
   ev: [entities, commands, acceptances, batches, stages, end]. *)

SumOf(lengths) == FoldLeft(LAMBDA x, y : x + y, 0, lengths)
StartOf(lists, i) == SumOf([j \in 1..(i - 1) |-> Len(lists[j])])

\* validate_materialization_batch_commands: commands `start`+1.. are the batch's.
BatchIs(art, ev, scenario, steps, tick, start) ==
    \A i \in DOMAIN steps :
        /\ start + i \in DOMAIN ev.commands
        /\ Resolvable(art, steps[i], ev.entities, scenario)
        /\ ev.commands[start + i] = CommandOf(art, steps[i], tick, i - 1, ev.entities)
        /\ ev.acceptances[start + i] =
               [tick |-> tick, ordinal |-> i - 1,
                created |-> IF Creates(steps[i]) THEN ev.entities[steps[i].id] ELSE 0]

\* validate_v1_materialization_timeline: one batch per tick and nothing else.
IsTimeline1(art, ev, scenario) ==
    LET plan == Plan(art)
        lists == [i \in DOMAIN plan |-> plan[i].steps]
        tick(i) == ev.commands[StartOf(lists, i) + 1].tick
    IN /\ ev.batches = <<>> /\ ev.stages = <<>>
       /\ \A i \in DOMAIN plan :
              /\ i > 1 => tick(i) = tick(i - 1) + 1
              /\ BatchIs(art, ev, scenario, lists[i], tick(i), StartOf(lists, i))
       /\ ev.end = tick(Len(plan)) + 1

\* v2_batch_order
BatchOrder(kind) == IF kind.of = "placement" THEN kind.index ELSE 6 + kind.index
IsBatch(plan, kind) == kind \in Range(Kinds(plan)) \/ (kind.of = "placement" /\ kind.index <= 5)

IsBarrier_AnyQuiet(batch, stage, maxTicks) ==
    /\ stage.stage = batch.kind.index
    /\ stage.tick = batch.tick
    /\ Len(stage.ticks) <= maxTicks
    /\ \A i \in DOMAIN stage.ticks : stage.ticks[i] = batch.tick + i

\* A barrier's empty ticks follow its batch without a gap up to the quiet tick.
IsBarrier(batch, stage, maxTicks) ==
    /\ stage.stage = batch.kind.index
    /\ stage.tick = batch.tick
    /\ Len(stage.ticks) <= maxTicks
    /\ \A i \in DOMAIN stage.ticks : stage.ticks[i] = batch.tick + i
    /\ stage.quiet = batch.tick + Len(stage.ticks) + 1

\* validate_v2_materialization_timeline
IsTimeline2(art, ev, scenario, maxTicks) ==
    LET plan == Plan(art)
        kinds == [i \in DOMAIN ev.batches |-> ev.batches[i].kind]
        lists == [i \in DOMAIN kinds |-> StepsOf(plan, kinds[i])]
        stageOf(i) == Cardinality({j \in 1..i : kinds[j].of = "binding"})
        after(i) == IF kinds[i].of = "binding" THEN ev.stages[stageOf(i)].quiet ELSE ev.batches[i].tick + 1
    IN /\ ev.batches # <<>> /\ ev.stages # <<>>
       /\ \A i \in DOMAIN kinds :
              /\ IsBatch(plan, kinds[i])
              /\ i > 1 => BatchOrder(kinds[i - 1]) < BatchOrder(kinds[i])
              /\ kinds[i].of = "binding" =>
                     /\ stageOf(i) <= Len(ev.stages)
                     /\ IsBarrier(ev.batches[i], ev.stages[stageOf(i)], maxTicks)
              /\ BatchIs(art, ev, scenario, lists[i], ev.batches[i].tick, StartOf(lists, i))
       /\ \A i \in 2..Len(kinds) : ev.batches[i].tick = after(i - 1)
       /\ Range(Kinds(plan)) \subseteq Range(kinds)
       /\ Len(ev.stages) = stageOf(Len(kinds))
       /\ ev.end = after(Len(kinds))

IsEvidence(art, ev, scenario, maxTicks) ==
    LET created == SelectSeq(ev.acceptances, LAMBDA a : a.created # 0) IN
    /\ DOMAIN ev.entities = Ids(art)
    /\ Len(ev.commands) = Len(AllSteps(Plan(art)))
    /\ Len(ev.acceptances) = Len(ev.commands)
    /\ IF art.format = 1 THEN IsTimeline1(art, ev, scenario)
       ELSE IsTimeline2(art, ev, scenario, maxTicks)
    /\ \A i, j \in DOMAIN created : created[i].created = created[j].created => i = j
    /\ {created[i].created : i \in DOMAIN created} = Range(ev.entities)

-----------------------------------------------------------------------------
(* The build itself. *)

VARIABLES
    designs,   \* the design of each side
    worlds,    \* each private candidate: next tick, entity frontier, quiet?, running?
    books,     \* what each accumulator holds
    agenda,    \* the kinds of batches still to be run
    barrier,   \* the binding stage whose barrier is being crossed, or NoBarrier
    outcome    \* "offered", "building", "built", or why the attempt was dropped

vars == <<designs, worlds, books, agenda, barrier, outcome>>

NoBarrier == [stage |-> -1, commandTick |-> 0, ticks |-> <<>>]
EmptyBook == [entities |-> << >>, commands |-> <<>>, acceptances |-> <<>>,
              batches |-> <<>>, stages |-> <<>>]
Sides == DOMAIN designs
Paired == Cardinality(Sides) = 2
PlanOf(side) == Plan(designs[side])
\* Runtime effects abort every build but a version 1 one, which is never paired.
Strict(side) == designs[side].format = 2

Init ==
    /\ designs \in Offers
    /\ worlds = [side \in DOMAIN designs |-> [tick |-> 0, frontier |-> 1, quiet |-> TRUE, running |-> TRUE]]
    /\ books = [side \in DOMAIN designs |-> EmptyBook]
    /\ agenda = <<>>
    /\ barrier = NoBarrier
    /\ outcome = "offered"

Admissible(art) ==
    /\ IsCanonical(art)
    /\ EndsAreMet(art)
    /\ AnchorsExist(art, Scenario)
    /\ Paired => art.format = 2

\* A pair runs the union of both sides' placement phases, then every stage.
AgendaOf ==
    IF Paired
    THEN LET phases == SetToSortSeq({p \in 0..5 : \E side \in Sides : StepsOf(PlanOf(side), Placement(p)) # <<>>}, <)
         IN [i \in DOMAIN phases |-> Placement(phases[i])]
            \o [s \in DOMAIN designs["left"].schedule |-> Binding(s - 1)]
    ELSE Kinds(PlanOf("left"))

SameStages == \A one, two \in Sides : Len(designs[one].schedule) = Len(designs[two].schedule)

Begin ==
    /\ outcome = "offered"
    /\ IF (\A side \in Sides : Admissible(designs[side])) /\ (Paired => SameStages)
       THEN outcome' = "building" /\ agenda' = AgendaOf
       ELSE outcome' = "refused" /\ UNCHANGED agenda
    /\ UNCHANGED <<designs, worlds, books, barrier>>

(* ---------------- one tick of a candidate ---------------- *)

Drop(why) == outcome' = why /\ UNCHANGED <<designs, worlds, books, agenda, barrier>>

\* What the tick of each side turned out to be.
Ticks == {"fine", "touched", "over", "rejected"}
\* The ticks validate_materialization_report lets pass.
Passes(side, tick) == tick = "fine" \/ (tick \in {"touched", "over"} /\ ~Strict(side))

Stepped(world, created, tick, quiet) ==
    [tick |-> world.tick + 1, frontier |-> world.frontier + created,
     quiet |-> quiet, running |-> world.running /\ tick # "over"]

PlacedBefore(steps, i) == Cardinality({j \in 1..i : Creates(steps[j])})

Recorded(side, kind) ==
    LET steps == StepsOf(PlanOf(side), kind)
        book == books[side]
        world == worlds[side]
        entity(i) == world.frontier + PlacedBefore(steps, i) - 1
        created == {i \in DOMAIN steps : Creates(steps[i])}
    IN [book EXCEPT
          !.entities = [id \in DOMAIN book.entities \cup {steps[i].id : i \in created} |->
                           IF id \in DOMAIN book.entities THEN book.entities[id]
                           ELSE entity(CHOOSE i \in created : steps[i].id = id)],
          !.commands = @ \o [i \in DOMAIN steps |->
                                CommandOf(designs[side], steps[i], world.tick, i - 1, book.entities)],
          !.acceptances = @ \o [i \in DOMAIN steps |->
                                [tick |-> world.tick, ordinal |-> i - 1,
                                 created |-> IF i \in created THEN entity(i) ELSE 0]],
          !.batches = IF Strict(side) THEN Append(@, [kind |-> kind, tick |-> world.tick]) ELSE @]

\* execute_materialization_batch on every side: a batch is resolved as a whole,
\* against the entities of earlier batches, before any of it is stepped.
RunBatch ==
    /\ outcome = "building" /\ barrier = NoBarrier /\ agenda # <<>>
    /\ LET kind == Head(agenda) IN
       IF \E side \in Sides : \E i \in DOMAIN StepsOf(PlanOf(side), kind) :
              ~Resolvable(designs[side], StepsOf(PlanOf(side), kind)[i], books[side].entities, Scenario)
       THEN Drop("unresolved")
       ELSE \E ticks \in [Sides -> Ticks], quiet \in [Sides -> BOOLEAN] :
            IF \E side \in Sides : ~Passes(side, ticks[side]) \/ ~worlds[side].running
            THEN Drop("failed")
            ELSE /\ books' = [side \in Sides |-> Recorded(side, kind)]
                 /\ worlds' = [side \in Sides |->
                        Stepped(worlds[side],
                                Cardinality({i \in DOMAIN StepsOf(PlanOf(side), kind) :
                                                Creates(StepsOf(PlanOf(side), kind)[i])}),
                                ticks[side], quiet[side])]
                 /\ agenda' = Tail(agenda)
                 /\ barrier' = IF kind.of = "binding" /\ \A side \in Sides : Strict(side)
                               THEN [stage |-> kind.index, commandTick |-> worlds["left"].tick, ticks |-> <<>>]
                               ELSE NoBarrier
                 /\ UNCHANGED <<designs, outcome>>

AllQuiet == \A side \in Sides : worlds[side].quiet

\* advance_single_quiescence_barrier, advance_pair_quiescence_barrier.
Wait ==
    /\ barrier # NoBarrier /\ outcome = "building" /\ ~AllQuiet
    /\ IF Len(barrier.ticks) >= MaxBarrierTicks
       THEN Drop("exceeded")
       ELSE \E ticks \in [Sides -> Ticks], quiet \in [Sides -> BOOLEAN] :
            IF \E side \in Sides : ~Passes(side, ticks[side])
            THEN Drop("failed")
            ELSE /\ worlds' = [side \in Sides |-> Stepped(worlds[side], 0, ticks[side], quiet[side])]
                 /\ barrier' = [barrier EXCEPT !.ticks = Append(@, worlds["left"].tick)]
                 /\ UNCHANGED <<designs, books, agenda, outcome>>

Cross ==
    /\ barrier # NoBarrier /\ outcome = "building" /\ AllQuiet
    /\ books' = [side \in Sides |-> [books[side] EXCEPT !.stages =
                    Append(@, [stage |-> barrier.stage, tick |-> barrier.commandTick,
                               ticks |-> barrier.ticks, quiet |-> worlds["left"].tick])]]
    /\ barrier' = NoBarrier
    /\ UNCHANGED <<designs, worlds, agenda, outcome>>

Finish ==
    /\ outcome = "building" /\ barrier = NoBarrier /\ agenda = <<>>
    /\ outcome' = "built"
    /\ UNCHANGED <<designs, worlds, books, agenda, barrier>>

Next == Begin \/ RunBatch \/ Wait \/ Cross \/ Finish
Spec == Init /\ [][Next]_vars

(* ---------------- properties ---------------- *)

Evidence(side) ==
    [entities |-> books[side].entities, commands |-> books[side].commands,
     acceptances |-> books[side].acceptances, batches |-> books[side].batches,
     stages |-> books[side].stages, end |-> worlds[side].tick]

SwapAt(seq, i) == [seq EXCEPT ![i] = seq[i + 1], ![i + 1] = seq[i]]

\* Forged evidence: one tick moved, one batch or barrier tick left out, a
\* command or an entity exchanged.
Forgeries(ev) ==
    {[ev EXCEPT !.end = t] : t \in {ev.end - 1, ev.end + 1}}
    \cup {[ev EXCEPT !.commands[i].tick = @ + 1] : i \in DOMAIN ev.commands}
    \cup {[ev EXCEPT !.commands = SwapAt(@, i)] : i \in 1..(Len(ev.commands) - 1)}
    \cup {[ev EXCEPT !.acceptances[i].created = @ + 1] : i \in DOMAIN ev.acceptances}
    \cup {[ev EXCEPT !.batches = RemoveAt(@, i)] : i \in 2..Len(ev.batches)}
    \cup {[ev EXCEPT !.batches[i].tick = @ + 1] : i \in DOMAIN ev.batches}
    \cup {[ev EXCEPT !.stages[i].ticks = Append(@, ev.stages[i].quiet)] : i \in DOMAIN ev.stages}
    \cup {[ev EXCEPT !.stages[i].quiet = @ + 1] : i \in DOMAIN ev.stages}
    \cup {[ev EXCEPT !.stages = RemoveAt(@, i)] : i \in DOMAIN ev.stages}

\* Every reference of a canonical design is known when its batch is resolved
\* (resolve_local): the build never stops on an id that is still to be placed,
\* in either format, alone or in a pair.
PlanResolves == outcome # "unresolved"

\* What the builder hands over convinces the metrics, although the two sides of
\* a pair record batches they had nothing to do in, and nothing that differs
\* from it in one place does (validate_materialization_evidence), but for the
\* first batch of a pair, which leaves no trace when it is empty on this side.
EvidenceConvinces ==
    outcome = "built" =>
        \A side \in Sides :
            /\ IsEvidence(designs[side], Evidence(side), Scenario, MaxBarrierTicks)
            /\ \A forged \in Forgeries(Evidence(side)) :
                   ~IsEvidence(designs[side], forged, Scenario, MaxBarrierTicks)

\* The pair is built on one schedule: whenever no batch is under way both
\* candidates are at one tick with the same batches and barriers behind them,
\* and a stage is only bound, and a build only ends, on two quiet candidates.
SidesInStep ==
    /\ \A one, two \in Sides :
           /\ worlds[one].tick = worlds[two].tick
           /\ books[one].batches = books[two].batches
           /\ books[one].stages = books[two].stages
    /\ \A side \in Sides : \A i \in DOMAIN books[side].stages :
           /\ i < Len(books[side].stages) => books[side].stages[i].quiet = books[side].stages[i + 1].tick
           /\ (Len(books[side].stages) = i /\ barrier = NoBarrier) => AllQuiet
=============================================================================
