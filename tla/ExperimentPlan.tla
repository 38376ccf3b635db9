---- MODULE ExperimentPlan ----
(* An experiment plan and the runs it stands for: the plan artifact with its
   references (experiment_artifact.rs), the matrix of physical profiles, and one
   run for each combination of the axes (experiment.rs).  A number stands for a
   coordinate, a hash or a seed; a geometry is the extent of its footprint. *)
EXTENDS Integers, Sequences, FiniteSets, SequencesExt, FiniteSetsExt, TLC

CONSTANTS
    Plans,          \* [axes, supplied, scenario, ticks] on offer
    Quantum,        \* wireGeometryQuantum of the base profile
    MaxProfiles,    \* MAX_PHYSICAL_SCALE_PROFILES
    MaxRuns,        \* MAX_EXPERIMENT_RUNS
    MaxProduct      \* u32::MAX, the largest product of axis lengths

VARIABLES plan, stage, profiles, runs
planVars == <<plan, stage, profiles, runs>>

\* axes: lists of geometries, pitches, distances, seeds, and of references
\* [id, hash] to numeric and balance profiles; supplied: the profiles found
\* where the references point; scenario: its own references to both.
References == {"numeric", "balance"}
Matrix == <<"geometry", "circuit", "world">>
AxisNames == Range(Matrix) \cup References \cup {"distance", "seed"}

ReferenceBefore(r, s) == r.hash < s.hash \/ (r.hash = s.hash /\ r.id < s.id)
Ascending(list) == SortSeq(list, <)
HashesOf(list) == [i \in DOMAIN list |-> list[i].hash]

(* ---------------- the artifact ---------------- *)

\* validate_structure
IsStructured(p) == p.ticks > 0 /\ \A axis \in AxisNames : p.axes[axis] # <<>>

\* validate_profile_reference over both lists, and the scenario's own profiles
\* among them (resolve_experiment_plan_artifact).
ReferencesHold(p) ==
    \A axis \in References :
        /\ p.supplied[axis] = p.axes[axis]
        /\ p.scenario[axis] \in Range(p.axes[axis])

\* encode_experiment_plan_artifact: every list in canonical order.
Encoded(p) ==
    [p EXCEPT !.axes = [axis \in AxisNames |->
        IF axis \in References THEN SortSeq(p.axes[axis], ReferenceBefore) ELSE Ascending(p.axes[axis])]]

(* ---------------- the axes ---------------- *)

\* The plan as `resolve` gets it: references are their hashes.
AxesOf(p) ==
    [axis \in AxisNames |-> IF axis \in References THEN HashesOf(p.axes[axis]) ELSE p.axes[axis]]

HasRepeat_Never(list) == FALSE
\* sort, then windows(2)
HasRepeat(list) == \E i \in 1..(Len(list) - 1) : Ascending(list)[i] = Ascending(list)[i + 1]

\* PhysicalScaleProfile::validate, with one field of the base replaced.
FitsQuantum(x) == x > 0 /\ x % Quantum = 0

\* validate_long_wire_alignment
IsAligned_FirstPitch(axes) ==
    \A i \in DOMAIN axes["distance"] : axes["distance"][i] % Ascending(axes["world"])[1] = 0
IsAligned(axes) ==
    \A i \in DOMAIN axes["distance"], j \in DOMAIN axes["world"] :
        axes["distance"][i] % axes["world"][j] = 0

LengthsOf(axes, names) == FoldLeft(LAMBDA product, name : product * Len(axes[name]), 1, names)
Limited(axes) ==
    LET matrix == LengthsOf(axes, Matrix)
        count == matrix * LengthsOf(axes, <<"numeric", "balance", "distance", "seed">>)
    IN matrix <= MaxProfiles /\ count <= MaxProduct /\ count <= MaxRuns

\* validate_axes and the checks of resolve_with_run_limit.
AxesHold(axes) ==
    /\ \A name \in Range(Matrix) : \A i \in DOMAIN axes[name] : FitsQuantum(axes[name][i])
    /\ \A i \in DOMAIN axes["distance"] : axes["distance"][i] > 0
    /\ \A name \in AxisNames : ~HasRepeat(axes[name])
    /\ IsAligned(axes)
    /\ Limited(axes)

(* ---------------- the matrix ---------------- *)

Crossed(tuples, list) ==
    FlattenSeq([i \in DOMAIN tuples |-> [j \in DOMAIN list |-> Append(tuples[i], list[j])]])

\* Hashes have an order of their own, here that of the fields from the back.
ProfileHash(profile) == <<profile[3], profile[2], profile[1]>>
HashBefore(p, q) ==
    LET h == ProfileHash(p)
        k == ProfileHash(q)
    IN \E i \in 1..3 : h[i] < k[i] /\ \A j \in 1..(i - 1) : h[j] = k[j]

\* generate_profiles
ProfilesOf(axes) ==
    LET sorted == [i \in 1..3 |-> Ascending(axes[Matrix[i]])]
    IN SortSeq(FoldLeft(Crossed, << <<>> >>, sorted), HashBefore)

\* experiment_run_id: the fields that are hashed; the design is the distance.
RunId_NoSeed(run) == <<run.numeric, ProfileHash(run.profile), run.balance, run.distance>>
RunId(run) == <<run.numeric, ProfileHash(run.profile), run.balance, run.distance, run.seed>>

\* resolve_with_run_limit: the nested loops over the sorted axes.
RunsOf(axes) ==
    LET lists == <<Ascending(axes["numeric"]), ProfilesOf(axes), Ascending(axes["balance"]),
                   Ascending(axes["distance"]), Ascending(axes["seed"])>>
        tuples == FoldLeft(Crossed, << <<>> >>, lists)
    IN [i \in DOMAIN tuples |->
           [numeric |-> tuples[i][1], profile |-> tuples[i][2], balance |-> tuples[i][3],
            distance |-> tuples[i][4], seed |-> tuples[i][5]]]

\* require_unique_run_ids, and windows(2) over the hashes of the profiles.
IdsAreUnique(list) == \A i, j \in DOMAIN list : RunId(list[i]) = RunId(list[j]) => i = j
HashesAreUnique(list) == \A i \in 1..(Len(list) - 1) : ProfileHash(list[i]) # ProfileHash(list[i + 1])

(* ---------------- from a plan to its runs ---------------- *)

InitPlan == plan \in Plans /\ stage = "offered" /\ profiles = <<>> /\ runs = <<>>

\* decode_experiment_plan_artifact and the references.
Read ==
    /\ stage = "offered"
    /\ stage' = IF IsStructured(plan) /\ ReferencesHold(plan) THEN "read" ELSE "artifact refused"
    /\ UNCHANGED <<plan, profiles, runs>>

Resolve ==
    /\ stage = "read"
    /\ LET axes == AxesOf(plan) IN
       IF ~AxesHold(axes) THEN stage' = "plan refused" /\ UNCHANGED <<profiles, runs>>
       ELSE IF ~HashesAreUnique(ProfilesOf(axes)) \/ ~IdsAreUnique(RunsOf(axes))
       THEN stage' = "not unique" /\ UNCHANGED <<profiles, runs>>
       ELSE stage' = "resolved" /\ profiles' = ProfilesOf(axes) /\ runs' = RunsOf(axes)
    /\ UNCHANGED plan

NextPlan == Read \/ Resolve

(* ---------------- properties ---------------- *)

Values(axis) == Range(AxesOf(plan)[axis])
Settings ==
    [numeric : Values("numeric"), balance : Values("balance"), distance : Values("distance"),
     seed : Values("seed"), profile : {<<g, c, w>> : g \in Values("geometry"), c \in Values("circuit"), w \in Values("world")}]

\* A plan whose axes pass their checks never fails for ids that are not unique;
\* its runs are the matrix, one for each combination, each on a grid its wire
\* fits, the scenario's own numbers and balance among them; and no order of an
\* axis matters to the runs, their order, or the file the plan is kept in.
RunsAreTheMatrix ==
    /\ stage # "not unique"
    /\ stage = "resolved" =>
           /\ Range(runs) = Settings /\ Len(runs) = Cardinality(Settings)
           /\ Cardinality({RunId(run) : run \in Range(runs)}) = Len(runs)
           /\ \A run \in Range(runs) : run.distance % run.profile[3] = 0
           /\ \E run \in Range(runs) : /\ run.numeric = plan.scenario["numeric"].hash
                                       /\ run.balance = plan.scenario["balance"].hash
           /\ \A axis \in AxisNames :
                  LET turned == [plan EXCEPT !.axes[axis] = Reverse(@)] IN
                  RunsOf(AxesOf(turned)) = runs /\ Encoded(turned) = Encoded(plan)
           /\ RunsOf(AxesOf(Encoded(plan))) = runs
====
