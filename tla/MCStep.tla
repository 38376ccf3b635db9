-------------------------------- MODULE MCStep --------------------------------
(***************************************************************************)
(* Two mechanisms of a step, each for itself; a behaviour stays in its own *)
(* part.                                                                   *)
(*   gates    GateScheduling: one gate through every brownout.  Ratios are *)
(*            fifths, as the threshold and the delay floor of the shipped  *)
(*            balance profiles are: a fifth of its power stretches the     *)
(*            delay of a gate beyond its retention time.                   *)
(*   batch    CommandBatch: commands that depend on each other.            *)
(***************************************************************************)
EXTENDS GateScheduling, TLC, Sequences

VARIABLES part,
          world, submitted, steps       \* batch

LightAndMedium == {[delay |-> 1, energy |-> 1], [delay |-> 2, energy |-> 2]}
Light == {[delay |-> 1, energy |-> 1]}
Fifths == {0, 1, 4, 5}

Command(op, args, level) == [op : {op}, arg : args, level : {level}]
Place(ordinal, op, arg) ==
    [ordinal |-> ordinal, command |-> [op |-> op, arg |-> arg, level |-> "Low"]]
In(t, placed) == [i \in DOMAIN placed |-> placed[i] @@ [target_tick |-> t]]
MCCommands ==
    UNION {Command("PlaceFixedSubstrate", {0}, "Low"), Command("PlaceMobileSubstrate", {0}, "Low"),
           Command("PlaceGate", {1, 2}, "Low"), Command("PlaceConstructionSite", {1}, "Low"),
           Command("RemoveEntity", {1, 2, 3}, "Low"),
           Command("SetExternalDriver", {1, 2, 3}, "High"), Command("SetExternalDriver", {1}, "Low")}
\* An empty world; a gate on its board; a board with a site, beside a mobile; a wire and a mobile.
MCSetups ==
    {<< >>,
     <<In(0, <<Place(1, "PlaceFixedSubstrate", 0)>>), In(1, <<Place(1, "PlaceGate", 1)>>)>>,
     <<In(0, <<Place(1, "PlaceFixedSubstrate", 0), Place(2, "PlaceMobileSubstrate", 0)>>),
       In(1, <<Place(1, "PlaceConstructionSite", 1)>>)>>,
     <<In(0, <<Place(1, "PlaceWire", 0), Place(2, "PlaceMobileSubstrate", 0)>>)>>}
Batch == INSTANCE CommandBatch
         WITH Commands <- MCCommands, Setups <- MCSetups, MaxBatch <- 3, MaxSteps <- 2

ASSUME SchedulingAssumption /\ Batch!BatchAssumption

batch == <<world, submitted, steps>>
NoBatch == world = << >> /\ submitted = << >> /\ steps = 0

\* Gates alone, as under the long delay.
GatesInit == Init /\ NoBatch /\ part = "gates"
GatesNext == part = "gates" /\ Next /\ UNCHANGED <<part, batch>>
GatesSpec == GatesInit /\ [][GatesNext]_<<part, vars, batch>>

BatchInit == Init /\ Batch!Init /\ part = "batch"
StepInit == GatesInit \/ BatchInit
StepNext ==
    \/ GatesNext
    \/ part = "batch" /\ Batch!Next /\ UNCHANGED <<part, vars>>
StepSpec == StepInit /\ [][StepNext]_<<part, vars, batch>>

-----------------------------------------------------------------------------
\* A batch has the outcome of its accepted commands given one by one.
BatchIsOneByOne == part = "batch" => Batch!BatchIsOneByOne
=============================================================================
