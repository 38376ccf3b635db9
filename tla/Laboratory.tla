----------------------------- MODULE Laboratory -----------------------------
(***************************************************************************)
(* The hosts of the simulation.                                            *)
(*                                                                         *)
(* A replay (crates/aon-sim/src/replay.rs) is a schedule of commands and   *)
(* world inputs with hash checkpoints; two hosts run one from its start to *)
(* its end: the headless runner (apps/aon-headless/src/lib.rs) and the     *)
(* fixed-update system of the desktop application (apps/aon-app/src/lib.rs).*)
(* The simulation is seen as its hosts see it: a step is a function of the *)
(* batches stepped before it, so the state hash is the history itself.  A  *)
(* batch with BreakEdit makes the step fail and leaves the world as it was, *)
(* one with FinishEdit ends the run.                                       *)
(*                                                                         *)
(* The desktop host: LaboratorySession owns the simulation, a pacer that   *)
(* turns elapsed time into ticks, the queue of pending edits with its log, *)
(* the probes and the view (apps/aon-app/src).  Input only appends actions *)
(* to a queue; the fixed update drains the whole queue and then advances   *)
(* one frame, and nothing else touches the session.  A session is either   *)
(* interactive or the playback of a replay, which it verifies as it goes.  *)
(*                                                                         *)
(* Credit is counted in the pacer's own unit: an elapsed time of one unit  *)
(* earns 1, 4 or 16 at the three rates, and a tick costs TickCredit.       *)
(***************************************************************************)
EXTENDS Integers, SequencesExt, FiniteSetsExt, TLC

CONSTANTS PlaceEdit, RemoveEdit, FinishEdit, BreakEdit,
          TickCredit,    \* TICK_CREDIT_DENOMINATOR
          Elapsed,       \* the frame lengths that occur
          MaxProbes,     \* MAX_SIGNAL_PROBES
          ProbeHistory,  \* PROBE_HISTORY_TICKS
          Offered,       \* the actions input may queue, by kind of session
          Replays,       \* the replays a playback may be given
          MaxQueue, MaxTicks, MaxEdits, MaxAdded, MaxResets   \* bounds of the model

ASSUME LaboratoryAssumption ==
    /\ {TickCredit, MaxProbes, ProbeHistory} \subseteq Nat \ {0} /\ Elapsed \subseteq Nat
    /\ {MaxQueue, MaxTicks, MaxEdits, MaxAdded, MaxResets} \subseteq Nat
    /\ PlaceEdit \notin {RemoveEdit, FinishEdit, BreakEdit}
    /\ RemoveEdit \notin {FinishEdit, BreakEdit} /\ FinishEdit # BreakEdit
    /\ \A a \in Offered :
          /\ a.kind \in {"Pause", "Resume", "SetRate", "SingleStep", "Reset", "QueueEdit", "SetView",
                         "Select", "AddProbe", "RemoveProbe"}
          /\ a.kind = "SetRate" => a.arg \in {1, 4, 16}

-----------------------------------------------------------------------------
\* Replays, and the hosts that run one from start to end.

Edits == {PlaceEdit, RemoveEdit, FinishEdit, BreakEdit}

\* The world after no step, and whether the run has ended.
Fresh == << >>
Holds(batch, edit) == \E i \in DOMAIN batch.commands : batch.commands[i].command = edit
RunEnded(history) == history # Fresh /\ Holds(Last(history), FinishEdit)

\* The hostiles of one frame must come by increasing identity, none of them 0.
SteppableFrames(inputs, tick) ==
    /\ Len(inputs) <= 1
    /\ \A i \in DOMAIN inputs :
          LET hostiles == inputs[i].hostiles IN
          /\ inputs[i].target_tick = tick
          /\ \A j \in DOMAIN hostiles :
                /\ hostiles[j].id # 0 /\ hostiles[j].radius >= 0
                /\ j > 1 => hostiles[j - 1].id < hostiles[j].id

\* One step: what the simulation answers, and the history after it.
StepWith(history, commands, inputs) ==
    LET batch == [commands |-> commands, inputs |-> inputs] IN
    IF RunEnded(history) THEN [answer |-> "RunEnded", history |-> history]
    ELSE IF ~SteppableFrames(inputs, Len(history)) \/ Holds(batch, BreakEdit)
         THEN [answer |-> "Failed", history |-> history]
    ELSE [answer |-> "Stepped", history |-> Append(history, batch)]

-----------------------------------------------------------------------------
\* The first so many entries of a list, each put behind those it does not come before.
Inserted(sorted, entry, Before(_, _)) ==
    LET ahead == Cardinality({i \in DOMAIN sorted : ~Before(entry, sorted[i])})
    IN  SubSeq(sorted, 1, ahead) \o <<entry>> \o SubSeq(sorted, ahead + 1, Len(sorted))
Sorted(list, Before(_, _), count) ==
    LET after[n \in 0 .. count] == IF n = 0 THEN << >> ELSE Inserted(after[n - 1], list[n], Before)
    IN  after[count]

\* Building a replay: commands by tick and ordinal, ties by their encoding.
Earlier(c, d) ==
    \/ c.target_tick < d.target_tick
    \/ c.target_tick = d.target_tick /\ c.ordinal < d.ordinal
    \/ /\ c.target_tick = d.target_tick /\ c.ordinal = d.ordinal
       /\ c.command # d.command /\ c.command = CHOOSE e \in Edits : e \in {c.command, d.command}
normalize_commands_ByTick(commands) ==
    LET ByTick(c, d) == c.target_tick < d.target_tick
    IN  Sorted(commands, ByTick, Len(commands))
normalize_commands(commands) == Sorted(commands, Earlier, Len(commands))

normalize_world_inputs(inputs) ==
    LET ById(h, k) == h.id < k.id
        ByTick(i, j) == i.target_tick < j.target_tick
    IN  Sorted([i \in DOMAIN inputs |->
                   [inputs[i] EXCEPT !.hostiles = Sorted(@, ById, Len(@))]], ByTick, Len(inputs))

\* What every frame of a replay must satisfy once it is in order.
valid_world_inputs(inputs) ==
    /\ \A i \in DOMAIN inputs : i > 1 => inputs[i - 1].target_tick # inputs[i].target_tick
    /\ \A i \in DOMAIN inputs :
          LET hostiles == inputs[i].hostiles IN
          /\ \A j \in DOMAIN hostiles : hostiles[j].id # 0 /\ hostiles[j].radius >= 0
          /\ \A j \in DOMAIN hostiles : j > 1 => hostiles[j - 1].id # hostiles[j].id

final_next_tick(replay) == Last(replay.checkpoints).next_tick

ValidShape(replay) ==
    /\ valid_world_inputs(replay.world_inputs)
    /\ replay.checkpoints # << >>
    /\ Head(replay.checkpoints) = [next_tick |-> 0, state_hash |-> replay.initial_state_hash]
    /\ \A i \in 2 .. Len(replay.checkpoints) :
          replay.checkpoints[i - 1].next_tick < replay.checkpoints[i].next_tick
    /\ \A i \in DOMAIN replay.commands :
          replay.commands[i].target_tick < final_next_tick(replay)
    /\ \A i \in DOMAIN replay.world_inputs :
          replay.world_inputs[i].target_tick < final_next_tick(replay)

new_normalized(initial, commands, inputs, checkpoints) ==
    [initial_state_hash |-> initial, commands |-> normalize_commands(commands),
     world_inputs |-> normalize_world_inputs(inputs), checkpoints |-> checkpoints]

\* Accepted by a simulation that has not stepped yet.
ValidAgainst(replay, history) ==
    ValidShape(replay) /\ history = Fresh /\ replay.initial_state_hash = history

\* The type of a replay: ticks are numbers, and commands are in order, since a
\* replay is only ever made in new_normalized.
ASSUME ReplaysAssumption ==
    \A r \in Replays :
        /\ r.commands \in Seq([target_tick : Nat, ordinal : Nat, command : Edits])
        /\ \A i, j \in DOMAIN r.commands :
              i < j => r.commands[i].target_tick <= r.commands[j].target_tick
        /\ Len(r.checkpoints) \in Nat /\ r.checkpoints = [i \in 1 .. Len(r.checkpoints) |-> r.checkpoints[i]]
        /\ \A i \in DOMAIN r.checkpoints : r.checkpoints[i].next_tick \in Nat

-----------------------------------------------------------------------------
\* Of the first so many entries of a list, those for certain ticks.
Pick(picked, entry, ticks) == IF entry.target_tick \in ticks THEN Append(picked, entry) ELSE picked
Picked(list, ticks, count) ==
    LET after[n \in 0 .. count] == IF n = 0 THEN << >> ELSE Pick(after[n - 1], list[n], ticks)
    IN  after[count]

\* Reading a replay while it runs.
commands_for_tick(replay, tick) == Picked(replay.commands, {tick}, Len(replay.commands))
world_inputs_for_tick(replay, tick) == Picked(replay.world_inputs, {tick}, Len(replay.world_inputs))

\* The commands of a tick as the application finds them, between two partition points.
replay_commands_for_tick_OneLess(replay, tick) ==
    LET Due(c) == c.target_tick = tick
        due == SelectSeq(replay.commands, Due)
    IN  SubSeq(due, 1, Len(due) - 1)
replay_commands_for_tick(replay, tick) ==
    LET start == Cardinality({i \in DOMAIN replay.commands : replay.commands[i].target_tick < tick})
        end == Cardinality({i \in DOMAIN replay.commands : replay.commands[i].target_tick <= tick})
    IN  SubSeq(replay.commands, start + 1, end)

\* No checkpoint at this tick, or one whose hash is this history.
CheckpointAgrees(replay, history) ==
    \A i \in DOMAIN replay.checkpoints :
        replay.checkpoints[i].next_tick = Len(history) => replay.checkpoints[i].state_hash = history

\* The run ended no earlier than the replay asks for.
TerminalBoundaryHolds_Strictly(replay, terminal) == final_next_tick(replay) < terminal
TerminalBoundaryHolds(replay, terminal) == final_next_tick(replay) <= terminal

TraceVerified(replay, trace) ==
    /\ Len(trace) = final_next_tick(replay) + 1
    /\ \A i \in DOMAIN replay.checkpoints :
          trace[replay.checkpoints[i].next_tick + 1] = replay.checkpoints[i].state_hash

-----------------------------------------------------------------------------
\* A run from start to end: its verdict and the trace of hashes it leaves.
Started == [verdict |-> "running", history |-> Fresh, trace |-> <<Fresh>>, index |-> 1]
Stopped(run, verdict) == [run EXCEPT !.verdict = verdict]

\* What a step that did not happen makes of a run.
Refused(replay, run, answer) ==
    Stopped(run, IF answer = "RunEnded" /\ ~TerminalBoundaryHolds(replay, Len(run.history))
                 THEN "EndedEarly" ELSE answer)

\* The headless runner checks its checkpoints one after another as their ticks come.
verify_current_checkpoint(replay, run) ==
    IF \/ run.index > Len(replay.checkpoints)
       \/ replay.checkpoints[run.index].next_tick # Len(run.history) THEN run
    ELSE IF replay.checkpoints[run.index].state_hash # run.history
         THEN Stopped(run, "Diverged")
    ELSE [run EXCEPT !.index = @ + 1]

HeadlessStep(replay, run) ==
    LET tick == Len(run.history)
        step == StepWith(run.history, commands_for_tick(replay, tick),
                         world_inputs_for_tick(replay, tick))
        checked == verify_current_checkpoint(replay,
                       [run EXCEPT !.history = step.history, !.trace = Append(@, step.history)])
    IN  IF step.answer # "Stepped" THEN Refused(replay, run, step.answer)
        ELSE IF checked.verdict = "running" /\ RunEnded(checked.history)
                /\ ~TerminalBoundaryHolds(replay, Len(checked.history))
             THEN Stopped(checked, "EndedEarly")
        ELSE checked

\* What a run comes to when its loop is left.
Concluded(replay, run) ==
    IF ~ValidAgainst(replay, Fresh) THEN Stopped(Started, "Refused")
    ELSE IF run.verdict # "running" THEN run
    ELSE Stopped(run, IF TraceVerified(replay, run.trace) THEN "Completed" ELSE "Diverged")

\* The loop of the runner after so many turns.
HeadlessTurn(replay, run) ==
    IF run.verdict = "running" /\ Len(run.history) < final_next_tick(replay)
    THEN HeadlessStep(replay, run) ELSE run
HeadlessTurns(replay, turns) ==
    LET after[n \in 0 .. turns] == IF n = 0 THEN verify_current_checkpoint(replay, Started)
                                   ELSE HeadlessTurn(replay, after[n - 1])
    IN  after[turns]
run_replay(replay) == Concluded(replay, HeadlessTurns(replay, final_next_tick(replay)))

\* The application steps once in each fixed update until it is at the end or has a fault.
advance_canonical_simulation(replay, run) ==
    LET tick == Len(run.history)
        step == StepWith(run.history, replay_commands_for_tick(replay, tick),
                         world_inputs_for_tick(replay, tick))
        stepped == [run EXCEPT !.history = step.history, !.trace = Append(@, step.history)]
    IN  IF run.verdict # "running" \/ tick >= final_next_tick(replay) THEN run
        ELSE IF step.answer # "Stepped" THEN Refused(replay, run, step.answer)
        ELSE IF ~CheckpointAgrees(replay, stepped.history) THEN Stopped(stepped, "Diverged")
        ELSE IF RunEnded(stepped.history) /\ ~TerminalBoundaryHolds(replay, tick + 1)
             THEN Stopped(stepped, "EndedEarly")
        ELSE stepped

FixedUpdates(replay, turns) ==
    LET after[n \in 0 .. turns] == IF n = 0 THEN Started
                                   ELSE advance_canonical_simulation(replay, after[n - 1])
    IN  after[turns]
run_replay_host_harness(replay) == Concluded(replay, FixedUpdates(replay, final_next_tick(replay)))

-----------------------------------------------------------------------------
\* The session.

VARIABLES
    lab,      \* the session
    actions,  \* NativeHostActionQueue
    replay    \* << >> in an interactive session, else the replay being played

vars == <<lab, actions, replay>>

Fields == {"mode", "rate", "credit", "single", "next_ordinal", "pending", "log", "next_probe",
           "probes", "history", "trace", "view", "selection", "fault", "id"}

Rates == {1, 4, 16}

\* LaboratorySession::from_validated_parts
NewSession ==
    [mode |-> "Paused", rate |-> 4, credit |-> 0, single |-> FALSE,
     next_ordinal |-> 0, pending |-> << >>, log |-> << >>,
     next_probe |-> 0, probes |-> << >>,
     history |-> Fresh, trace |-> <<Fresh>>,
     view |-> 0, selection |-> 0, fault |-> "none", id |-> 0]

\* Substrates still on the board, numbered as they were placed; RemoveEdit takes the oldest.
Edited(board, c) ==
    CASE c.command = PlaceEdit -> [last |-> board.last + 1, alive |-> board.alive \cup {board.last + 1}]
      [] c.command = RemoveEdit /\ board.alive # {} -> [board EXCEPT !.alive = @ \ {Min(@)}]
      [] OTHER -> board
EditedBy(board, commands, count) ==
    LET after[n \in 0 .. count] == IF n = 0 THEN board ELSE Edited(after[n - 1], commands[n])
    IN  after[count]
EmptyBoard == [last |-> 0, alive |-> {}]
Board(history, ticks) ==
    LET after[n \in 0 .. ticks] ==
            IF n = 0 THEN EmptyBoard
            ELSE EditedBy(after[n - 1], history[n].commands, Len(history[n].commands))
    IN  after[ticks]
Living(history) == Board(history, Len(history)).alive

playback == replay # << >>
next_tick(s) == Len(s.history)
replay_complete(s) == playback /\ next_tick(s) >= final_next_tick(replay[1])

-----------------------------------------------------------------------------
\* One action of the queue; an action that is refused changes nothing.
set_mode(s, mode) ==
    [s EXCEPT !.mode = IF s.fault # "none" \/ (mode = "Running" /\ replay_complete(s))
                       THEN "Paused" ELSE mode]

request_single_step(s) ==
    IF s.fault # "none" \/ replay_complete(s) \/ s.mode # "Paused" THEN s
    ELSE [s EXCEPT !.single = TRUE]

queue_edit(s, edit) ==
    LET envelope == [target_tick |-> next_tick(s), ordinal |-> s.next_ordinal, command |-> edit] IN
    IF playback \/ s.fault # "none" THEN s
    ELSE [s EXCEPT !.next_ordinal = @ + 1, !.pending = Append(@, envelope), !.log = Append(@, envelope)]

add_probe(s, target) ==
    IF \/ target \notin Living(s.history)
       \/ \E i \in DOMAIN s.probes : s.probes[i].target = target
       \/ Len(s.probes) = MaxProbes THEN s
    ELSE [s EXCEPT !.next_probe = @ + 1,
                   !.probes = Append(@, [id |-> s.next_probe, target |-> target,
                                         history |-> << >>, live |-> TRUE])]

remove_probe_target(s, target) ==
    LET found == {i \in DOMAIN s.probes : s.probes[i].target = target} IN
    IF found = {} THEN s ELSE [s EXCEPT !.probes = RemoveAt(@, Min(found))]

set_view(s, substrate) ==
    IF substrate = 0 \/ substrate \in Living(s.history) THEN [s EXCEPT !.view = substrate] ELSE s

\* A new simulation, and every part of the session cleared; a replay is checked against it.
reset_KeepsOrdinals(s) ==
    IF playback /\ ~ValidAgainst(replay[1], Fresh) THEN s
    ELSE [NewSession EXCEPT !.id = s.id + 1, !.next_ordinal = s.next_ordinal]
reset(s) ==
    IF playback /\ ~ValidAgainst(replay[1], Fresh) THEN s
    ELSE [s EXCEPT !.id = @ + 1, !.mode = "Paused", !.rate = 4, !.credit = 0, !.single = FALSE,
                   !.pending = << >>, !.next_ordinal = 0, !.log = << >>,
                   !.probes = << >>, !.next_probe = 0,
                   !.history = Fresh, !.trace = <<Fresh>>,
                   !.view = 0, !.selection = 0, !.fault = "none"]

apply_host_action(s, action) ==
    CASE action.kind = "Pause" -> set_mode(s, "Paused")
      [] action.kind = "Resume" -> IF s.fault # "none" THEN s ELSE set_mode(s, "Running")
      [] action.kind = "SetRate" -> [s EXCEPT !.rate = action.arg]
      [] action.kind = "SingleStep" -> request_single_step(s)
      [] action.kind = "Reset" -> reset(s)
      [] action.kind = "QueueEdit" -> queue_edit(s, action.arg)
      [] action.kind = "SetView" -> set_view(s, action.arg)
      [] action.kind = "Select" -> [s EXCEPT !.selection = action.arg]
      [] action.kind = "AddProbe" -> add_probe(s, action.arg)
      [] action.kind = "RemoveProbe" -> remove_probe_target(s, action.arg)

-----------------------------------------------------------------------------
\* One tick.
record_step_StaysLive(s, completed, alive) ==
    [i \in DOMAIN s.probes |->
        IF s.probes[i].target \in alive
        THEN [s.probes[i] EXCEPT !.history = Append(@, completed)] ELSE s.probes[i]]
record_step(s, completed, alive) ==
    [i \in DOMAIN s.probes |->
        LET p == s.probes[i]
            kept == IF Len(p.history) = ProbeHistory THEN Tail(p.history) ELSE p.history
        IN  IF p.target \in alive
            THEN [p EXCEPT !.history = Append(kept, completed), !.live = TRUE]
            ELSE [p EXCEPT !.live = FALSE]]

normalize_view_Stays(s, alive) == s
normalize_view(s, alive) ==
    IF s.view = 0 \/ s.view \in alive THEN s ELSE [s EXCEPT !.view = 0, !.selection = 0]

enter_fault(s, fault) == [s EXCEPT !.mode = "Paused", !.fault = fault]

\* PendingCommands::commands_for_tick sorts by ordinal (Earlier, within one tick),
\* and what discard_tick leaves.
edits_for_tick(s) ==
    LET due == Picked(s.pending, {next_tick(s)}, Len(s.pending))
    IN  Sorted(due, Earlier, Len(due))
edits_after_tick(s) == Picked(s.pending, Nat \ {next_tick(s)}, Len(s.pending))

\* The session after a step that happened: edits of the tick are done, views follow.
Observed_KeepsEdits(s, history) ==
    normalize_view([s EXCEPT !.history = history, !.trace = Append(@, history),
                             !.probes = record_step(s, next_tick(s), Living(history))],
                   Living(history))
Observed(s, history) ==
    LET tick == next_tick(s)
        alive == Living(history)
    IN  normalize_view([s EXCEPT !.history = history, !.trace = Append(@, history),
                                 !.pending = IF playback THEN @ ELSE edits_after_tick(s),
                                 !.probes = record_step(s, tick, alive)], alive)

\* What playback checks after a step, in the order of the code.
Verified_AtTheEnd(s) ==
    IF ~playback \/ ~replay_complete(s) THEN s
    ELSE IF ~TraceVerified(replay[1], s.trace) THEN enter_fault(s, "Diverged")
    ELSE set_mode(s, "Paused")
Verified(s) ==
    IF ~playback THEN s
    ELSE IF ~CheckpointAgrees(replay[1], s.history) THEN enter_fault(s, "Diverged")
    ELSE IF RunEnded(s.history) /\ ~TerminalBoundaryHolds(replay[1], next_tick(s))
         THEN enter_fault(s, "EndedEarly")
    ELSE IF ~replay_complete(s) THEN s
    ELSE IF ~TraceVerified(replay[1], s.trace) THEN enter_fault(s, "Diverged")
    ELSE set_mode(s, "Paused")

step_once(s) ==
    LET tick == next_tick(s)
        step == IF playback
                THEN StepWith(s.history, commands_for_tick(replay[1], tick),
                              world_inputs_for_tick(replay[1], tick))
                ELSE StepWith(s.history, edits_for_tick(s), << >>)
    IN  IF step.answer = "Stepped" THEN Verified(Observed(s, step.history))
        ELSE IF /\ playback /\ step.answer = "RunEnded"
                /\ ~TerminalBoundaryHolds(replay[1], tick) THEN enter_fault(s, "EndedEarly")
        ELSE enter_fault(s, step.answer)

-----------------------------------------------------------------------------
\* A frame of so much elapsed time.
Earned(s, elapsed) == s.credit + elapsed * s.rate

ticks_due(s, elapsed) ==
    IF s.mode = "Paused" THEN (IF s.single THEN 1 ELSE 0) ELSE Earned(s, elapsed) \div TickCredit
Charged_DropsRest(s, elapsed) ==
    [s EXCEPT !.single = FALSE, !.credit = IF s.mode = "Paused" THEN @ ELSE 0]
Charged(s, elapsed) ==
    [s EXCEPT !.single = FALSE,
              !.credit = IF s.mode = "Paused" THEN @ ELSE Earned(s, elapsed) % TickCredit]

\* A frame is over at a fault, and for a playback at its end.
one_tick(s) ==
    IF s.fault # "none" THEN s
    ELSE IF replay_complete(s) THEN set_mode(s, "Paused")
    ELSE step_once(s)
Ticked(s, count) ==
    LET after[n \in 0 .. count] == IF n = 0 THEN s ELSE one_tick(after[n - 1])
    IN  after[count]

advance_frame(s, elapsed) ==
    IF s.fault # "none" THEN s
    ELSE IF replay_complete(s) THEN set_mode(s, "Paused")
    ELSE Ticked(Charged(s, elapsed), ticks_due(s, elapsed))

\* What the next fixed update makes of the session.
Applied(s, queue, count) ==
    LET after[n \in 0 .. count] == IF n = 0 THEN s ELSE apply_host_action(after[n - 1], queue[n])
    IN  after[count]
Drained == Applied(lab, actions, Len(actions))

-----------------------------------------------------------------------------
Init ==
    /\ lab = NewSession /\ actions = << >>
    /\ \/ replay = << >>
       \/ \E r \in Replays : ValidAgainst(r, Fresh) /\ replay = <<r>>

\* Input is collected between fixed updates.
collect_actions(a) ==
    /\ Len(actions) < MaxQueue
    /\ a.kind = "QueueEdit" => Len(lab.log) + Len(actions) < MaxEdits
    /\ a.kind = "AddProbe" => lab.next_probe + Len(actions) < MaxAdded
    /\ a.kind = "Reset" => lab.id + Len(actions) < MaxResets
    /\ actions' = Append(actions, a)
    /\ UNCHANGED <<lab, replay>>

advance_native_laboratory(elapsed) ==
    /\ \E s \in {Drained} :
          /\ playback \/ next_tick(s) + ticks_due(s, elapsed) <= MaxTicks
          /\ lab' = advance_frame(s, elapsed)
    /\ actions' = << >>
    /\ UNCHANGED replay

Next ==
    \/ \E a \in Offered : collect_actions(a)
    \/ \E elapsed \in Elapsed : advance_native_laboratory(elapsed)

\* Fixed updates keep coming.
Spec == Init /\ [][Next]_vars /\ WF_vars(\E elapsed \in Elapsed : advance_native_laboratory(elapsed))

-----------------------------------------------------------------------------
\* The log with the hashes so far is a replay that a fresh host runs to the
\* same trace: no edit was lost, repeated, moved to another tick or reordered.
\* What is pending is the rest of the log, and a reset leaves nothing behind.
SessionReplays ==
    LET past == 0 .. next_tick(lab) - 1
        done == Picked(lab.log, past, Len(lab.log))
        checkpoints == [i \in DOMAIN lab.trace |-> [next_tick |-> i - 1, state_hash |-> lab.trace[i]]]
        run == run_replay(new_normalized(Fresh, Reverse(done), << >>, checkpoints))
    IN  actions = << >> =>
        /\ ~playback => /\ run.verdict = "Completed" /\ run.trace = lab.trace
                        /\ lab.pending = Picked(lab.log, Nat \ past, Len(lab.log))
        /\ playback => lab.log = << >>
        /\ reset(lab) = [NewSession EXCEPT !.id = lab.id + 1]

\* How elapsed time is cut into frames makes no difference to what is simulated.
FramesSplit ==
    LET Simulated(s) == <<s.history, s.trace, s.pending, s.fault, s.probes>> IN
    actions = << >> => \A first, second \in Elapsed :
        LET whole == advance_frame(lab, first + second)
            parts == advance_frame(advance_frame(lab, first), second)
        IN  /\ Simulated(whole) = Simulated(parts)
            /\ whole.fault = "none" /\ ~replay_complete(whole) => whole = parts

\* A probe has a sample of each of the last ticks its target was there for,
\* says whether it still is, and the view never shows a substrate that is gone.
ViewsFollow ==
    /\ lab.view # 0 => lab.view \in Living(lab.history)
    /\ Len(lab.probes) <= MaxProbes
    /\ \A i \in DOMAIN lab.probes :
          LET p == lab.probes[i] IN
          /\ p.live <=> p.target \in Living(lab.history)
          /\ Len(p.history) <= ProbeHistory
          /\ \A j \in DOMAIN p.history : j > 1 => p.history[j] = p.history[j - 1] + 1
          /\ p.live /\ p.history # << >> => Last(p.history) = next_tick(lab) - 1
          /\ \A j \in DOMAIN lab.probes :
                i < j => lab.probes[j].id > p.id /\ lab.probes[j].target # p.target

\* Whether the schedule can be run at all and passes its checkpoints, step by step.
Unstepped == [ok |-> TRUE, history |-> Fresh]
PassedStep(r, run) ==
    LET tick == Len(run.history)
        step == StepWith(run.history, commands_for_tick(r, tick), world_inputs_for_tick(r, tick))
    IN  [ok |-> run.ok /\ step.answer = "Stepped" /\ CheckpointAgrees(r, step.history),
         history |-> step.history]
Passed(r, ticks) ==
    LET after[n \in 0 .. ticks] == IF n = 0 THEN Unstepped ELSE PassedStep(r, after[n - 1])
    IN  after[ticks]
Passes(r) == Passed(r, final_next_tick(r)).ok

\* The headless runner, the fixed update and the laboratory reach the same
\* verdict on a replay: it completes exactly if each step and checkpoint passes.
HostsAgree ==
    playback /\ actions = << >> =>
    LET headless == run_replay(replay[1])
        stopped == lab.fault # "none" \/ replay_complete(lab)
    IN  /\ headless.verdict = "Completed" <=> Passes(replay[1])
        /\ run_replay_host_harness(replay[1]).verdict = headless.verdict
        /\ run_replay_host_harness(replay[1]).trace = headless.trace
        /\ IsPrefix(lab.trace, headless.trace)
        /\ stopped => /\ lab.trace = headless.trace /\ lab.mode = "Paused"
                      /\ headless.verdict = IF lab.fault = "none" THEN "Completed" ELSE lab.fault

\* A replay that is left running reaches its end or a fault.
PlaybackEnds ==
    (playback /\ []<>(lab.mode = "Running")) => <>(lab.fault # "none" \/ replay_complete(lab))
=============================================================================
