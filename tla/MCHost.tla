------------------------------- MODULE MCHost -------------------------------
(***************************************************************************)
(* The desktop host on small instances: a session that is paced, one that  *)
(* is edited, one that is watched through probes and views, and playbacks  *)
(* of replays, honest and not.                                             *)
(***************************************************************************)
EXTENDS Laboratory

VARIABLE scene

Action(kind, args) == [kind : {kind}, arg : args]

MCElapsed == {1, 2}
MCOffered ==
    UNION {Action("Pause", {0}), Action("Resume", {0}), Action("SetRate", Rates),
           Action("SingleStep", {0}), Action("Reset", {0}), Action("QueueEdit", Edits),
           Action("SetView", {0, 1, 2}), Action("Select", {1}),
           Action("AddProbe", {1, 2}), Action("RemoveProbe", {1})}

\* Replays of up to two commands, in any order, with the hashes of their own run
\* or with one of them false, and with or without a frame of hostiles.
Envelopes == [target_tick : {0, 1}, ordinal : {0, 1}, command : Edits]
Schedules == {<< >>} \cup {<<c>> : c \in Envelopes}
             \cup {<<c, d>> : c \in {e \in Envelopes : e.ordinal = 1}, d \in Envelopes}
Frame == [target_tick |-> 1, hostiles |-> <<[id |-> 2, radius |-> 0], [id |-> 1, radius |-> 1]>>]
Missed == [commands |-> << >>, inputs |-> << >>]
Drawn(commands, inputs, ticks, false_at) ==
    LET replay_ == new_normalized(Fresh, commands, inputs, <<[next_tick |-> ticks]>>)
        step(h, i) == StepWith(h, commands_for_tick(replay_, i), world_inputs_for_tick(replay_, i)).history
        at(n) == FoldLeft(step, Fresh, [i \in 1 .. n |-> i - 1])
    IN  [replay_ EXCEPT !.checkpoints =
            [i \in 1 .. ticks + 1 |-> [next_tick |-> i - 1,
                                       state_hash |-> IF i - 1 = false_at THEN Append(at(i - 1), Missed) ELSE at(i - 1)]]]
MCReplays == {Drawn(c, i, n, f) : c \in Schedules, i \in {<< >>, <<Frame>>}, n \in {0, 1, 2}, f \in {1, 3}}

\* What input offers in each scene; in the last two one action at a time.
InScene(a) ==
    /\ scene \in {"watched", "played"} => actions = << >>
    /\ a.kind \in CASE scene = "paced" -> {"Pause", "Resume", "SetRate", "SingleStep", "Reset"}
                    [] scene = "edited" -> {"SingleStep", "QueueEdit", "Reset"}
                    [] scene = "watched" -> {"SingleStep", "QueueEdit", "SetView", "Select", "AddProbe", "RemoveProbe"}
                    [] scene = "played" -> {"Pause", "Resume", "SetRate", "SingleStep", "QueueEdit"}
    /\ scene = "watched" /\ a.kind = "QueueEdit" => a.arg \in {PlaceEdit, RemoveEdit}
    /\ scene = "played" /\ a.kind = "SetRate" => a.arg = 1
    /\ scene = "played" /\ a.kind = "QueueEdit" => a.arg = PlaceEdit

MCInit == Init /\ scene \in (IF playback THEN {"played"} ELSE {"paced", "edited", "watched"})
MCNext ==
    /\ UNCHANGED scene
    /\ \/ \E a \in Offered : InScene(a) /\ collect_actions(a)
       \/ \E elapsed \in Elapsed : advance_native_laboratory(elapsed)
\* Fixed updates keep coming; only playback is asked for something in the end.
MCSpec == MCInit /\ [][MCNext]_<<vars, scene>>
          /\ WF_vars(playback /\ \E elapsed \in Elapsed : advance_native_laboratory(elapsed))
=============================================================================
