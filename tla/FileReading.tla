---- MODULE FileReading ----
(* A file of any kind the program knows is written, changed in one place or not
   at all, and read.  What must hold of every kind is stated once, here: a file
   means what was written, an accepted file can be written again and read to
   the same, a file of a later format is told as such, and the hash a value is
   known by changes exactly with what it stands for. *)
EXTENDS Integers, Sequences, FiniteSets, TLC

CONSTANTS
    Narrow, Wide, FixedOne, MaxTextBytes, MaxBindingBatches,
    Files,          \* [kind, value] that are written
    MetricSet       \* the metric set every metrics file is read against

VARIABLES file, document, answer, changed, later
fileVars == <<file, document, answer, changed, later>>

Forms == INSTANCE JsonForms
Reference == INSTANCE ReferenceFiles
Scenario == INSTANCE ScenarioFiles

FileAssumption == Forms!FormsAssumption /\ FixedOne \in 1..Wide /\ MaxTextBytes \in Nat

(* ---------------- one table for all kinds ---------------- *)

\* The form a value is written in.
FormOf(kind, value) ==
    CASE kind = "replay" -> Scenario!ReplayArtifactEncodeWire
      [] kind = "module" -> Reference!ModuleBlueprintWire
      [] kind = "architecture" -> Reference!ReferenceArchitectureArtifactWire
      [] kind = "metric set" -> Reference!ReferenceMetricSetWire
      [] kind = "metrics" -> Reference!ReferenceMetricArtifactWire
      [] kind = "pair" -> Reference!PairWire
      [] kind = "experiment" -> Reference!ExperimentPlanV2Wire
      [] kind = "plan" -> Scenario!ExperimentPlanWire
      [] kind = "scenario" -> IF value.schemaVersion = 4 THEN Scenario!ScenarioWireV4 ELSE Scenario!ScenarioWireLegacy
      [] kind = "numeric" -> Scenario!NumericProfile
      [] kind = "scale" -> Scenario!PhysicalScaleProfile
      [] kind = "balance" -> Scenario!BalanceProfile

Decode(kind, doc) ==
    CASE kind = "replay" -> Scenario!DecodeReplay(doc)
      [] kind = "module" -> Reference!DecodeModule(doc)
      [] kind = "architecture" -> Reference!DecodeArchitecture(doc)
      [] kind = "metric set" -> Reference!DecodeMetricSet(doc)
      [] kind = "metrics" -> Reference!DecodeMetrics(doc, MetricSet)
      [] kind = "pair" -> Reference!DecodePair(doc)
      [] kind = "experiment" -> Reference!DecodePlan(doc)
      [] kind = "plan" -> Scenario!DecodePlan(doc)
      [] kind = "scenario" -> Scenario!DecodeScenario(doc)
      [] kind = "numeric" -> Scenario!DecodeNumeric(doc)
      [] kind = "scale" -> Scenario!DecodeScale(doc)
      [] kind = "balance" -> Scenario!DecodeBalance(doc)

\* Scenarios, numbers and balances are only ever read.
Encode(kind, value) ==
    CASE kind = "replay" -> Scenario!EncodeReplay(value)
      [] kind = "module" -> Reference!EncodeModule(value)
      [] kind = "architecture" -> Reference!EncodeArchitecture(value)
      [] kind = "metric set" -> Reference!EncodeMetricSet(value)
      [] kind = "metrics" -> Reference!EncodeMetrics(value)
      [] kind = "pair" -> Reference!EncodePair(value)
      [] kind = "experiment" -> Reference!EncodePlan(value)
      [] kind = "plan" -> Scenario!EncodePlan(value)
      [] kind = "scale" -> Scenario!EncodeScale(value)
WrittenKinds == {"replay", "module", "architecture", "metric set", "metrics", "pair", "experiment", "plan", "scale"}

\* What reading makes of a value that was written.
Normal(kind, value) ==
    CASE kind = "replay" -> Scenario!Normalized(value)
      [] kind = "module" -> Reference!ModuleOrdered(value)
      [] kind = "architecture" -> Reference!ArchitectureOrdered(value)
      [] kind = "pair" -> Reference!Ordered(value)
      [] kind = "plan" -> Scenario!PlanOrdered(value)
      [] kind = "scenario" -> Scenario!Ordered(value)
      [] OTHER -> value

\* The bytes a value is hashed by, and what they stand for.
HashedKinds == {"module", "architecture", "metric set", "metrics", "pair", "scenario", "numeric", "scale", "balance"}
BytesOf(kind, value) ==
    CASE kind = "module" -> Reference!ModuleHash(value)
      [] kind = "architecture" -> Reference!SemanticHash(value)
      [] kind = "metric set" -> Reference!SetBytes(value)
      [] kind = "metrics" -> Reference!ArtifactBytes(value)
      [] kind = "pair" -> Reference!PairBytes(value)
      [] kind = "scenario" -> Scenario!ScenarioBytes(value)
      [] kind = "numeric" -> Scenario!NumericBytes(value)
      [] kind = "scale" -> Scenario!ScaleBytes(value)
      [] kind = "balance" -> Scenario!BalanceBytes(value)
Meaning(kind, value) ==
    CASE kind = "module" -> Reference!ModuleMeaning(value)
      [] kind = "architecture" -> Reference!ArchitectureMeaning(value)
      [] kind = "pair" -> Reference!Meaning(value)
      [] kind = "scenario" -> Scenario!ScenarioMeaning(value)
      [] kind \in {"numeric", "scale", "balance"} -> Scenario!ProfileMeaning(value)
      [] OTHER -> value

\* Where the version stands, for the kinds that read it ahead of the body.
VersionedKinds == {"replay", "architecture", "metric set", "metrics", "pair", "experiment", "scenario", "balance"}
Stamped(kind, doc) ==
    CASE kind = "replay" -> [doc EXCEPT !.obj["header"].obj["formatVersion"] = Forms!Num(Narrow)]
      [] kind \in {"scenario", "balance"} -> [doc EXCEPT !.obj["schemaVersion"] = Forms!Num(Narrow)]
      [] OTHER -> [doc EXCEPT !.obj["formatVersion"] = Forms!Num(Narrow)]
StampIn(doc, name) ==
    "obj" \in DOMAIN doc /\ name \in DOMAIN doc.obj \ doc.twice /\ doc.obj[name] = Forms!Num(Narrow)
IsStamped(kind, doc) ==
    CASE kind = "replay" -> "obj" \in DOMAIN doc /\ "header" \in DOMAIN doc.obj \ doc.twice
                            /\ StampIn(doc.obj["header"], "formatVersion")
      [] kind \in {"scenario", "balance"} -> StampIn(doc, "schemaVersion")
      \* An architecture reads its format and its algorithm as one.
      [] kind = "architecture" ->
            /\ StampIn(doc, "formatVersion")
            /\ "hashAlgorithmId" \in DOMAIN doc.obj \ doc.twice /\ "str" \in DOMAIN doc.obj["hashAlgorithmId"]
      [] OTHER -> StampIn(doc, "formatVersion")

(* ---------------- a file is written and read ---------------- *)

AsWritten(f) ==
    IF f.kind \in WrittenKinds THEN Encode(f.kind, f.value) ELSE Forms!Written(FormOf(f.kind, f.value), f.value)

InitFiles ==
    /\ file \in Files
    /\ changed = FALSE
    /\ later \in IF file.kind \in VersionedKinds THEN BOOLEAN ELSE {FALSE}
    /\ document = IF later THEN Stamped(file.kind, AsWritten(file)) ELSE AsWritten(file)
    /\ answer = Decode(file.kind, document)

\* The file is changed in one place before it is read.
Change ==
    /\ ~changed /\ changed' = TRUE
    /\ document' \in Forms!Tampers(FormOf(file.kind, file.value), document)
    /\ answer' = Decode(file.kind, document')
    /\ UNCHANGED <<file, later>>

NextFiles == Change

(* ---------------- properties ---------------- *)

\* An entry nobody asked for, or one that stands twice, other than beside the
\* word of a variant that has no fields.
RECURSIVE Foreign(_)
Foreign(doc) ==
    \/ "arr" \in DOMAIN doc /\ \E i \in DOMAIN doc.arr : Foreign(doc.arr[i])
    \/ /\ "obj" \in DOMAIN doc
       /\ \/ \E name \in DOMAIN doc.obj : Foreign(doc.obj[name])
          \/ /\ "stray" \in DOMAIN doc.obj \/ doc.twice # {}
             /\ ~(DOMAIN doc.obj \subseteq {"stray", "kind"} /\ doc.twice \cap {"kind"} = {})

ReadsAsWritten == ~changed /\ ~later => answer = Forms!Value(Normal(file.kind, file.value))
AcceptedStaysReadable ==
    Forms!Accepted(answer) =>
        /\ ~Foreign(document)
        /\ file.kind \in WrittenKinds =>
              Decode(file.kind, Encode(file.kind, answer.value)) = Forms!Value(Normal(file.kind, answer.value))
LaterFormatsAreTold ==
    later /\ IsStamped(file.kind, document) => answer = Forms!Fault("version")
HashesFollowMeaning ==
    file.kind \in HashedKinds /\ Forms!Accepted(answer) =>
        LET base == Normal(file.kind, file.value) IN
        (BytesOf(file.kind, answer.value) = BytesOf(file.kind, base))
            <=> (Meaning(file.kind, answer.value) = Meaning(file.kind, base))

FilesReadBack ==
    ReadsAsWritten /\ AcceptedStaysReadable /\ LaterFormatsAreTold /\ HashesFollowMeaning
====
