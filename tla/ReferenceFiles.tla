---- MODULE ReferenceFiles ----
(* The files of designs and of their comparison.  What can be built again, and
   the hashes it is known by: a module blueprint (module.rs) and a Reference
   Architecture (reference_architecture.rs); what makes an architecture canonical
   is in ReferenceArchitecture, here its file is read into such a design.  The
   metric set and the metrics of one run (reference_metrics.rs): a set names the
   metrics and what counts as a response; the metrics of a run are read against
   their set.  The pair of designs and the experiment made from it
   (reference_experiment.rs): a pair is put in order when it is read, the
   experiment must come in order, and the pair is known by a hash in which no
   path takes part.

   Fields keep the names they have in the code.  The files of a comparison are
   read in passes, format, hash algorithm and body.  The format of a module is
   not read ahead of its body: a file of another format that this body does not
   fit is told as a fault of its JSON.  A module's hash stands for what it
   builds; its name, its provenance and the balance it was made for are not part
   of it. *)
EXTENDS JsonForms

CONSTANTS MaxBindingBatches, MaxTextBytes      \* MAX_TEXT_BYTES
Design == INSTANCE ReferenceArchitecture

(* ---------------- words, points, orders ---------------- *)

GateTypeWire == Word(<<"and", "or", "not">>, <<"and", "or", "not">>)
GatePortWire == Word(<<"inputA", "inputB", "output", "power">>, <<"inputA", "inputB", "output", "power">>)
MobilePortWire == Word(<<"stop", "left", "right", "build">>, <<"stop", "left", "right", "build">>)
ShortHashText == Word(<<"h1", "h2">>, <<1, 2>>)
NameText == Word(<<"", "a", "b", "ab">>, << <<>>, <<1>>, <<2>>, <<1, 2>> >>)
WireEndWire == Word(<<"a", "b">>, <<"a", "b">>)

FixedVec2Wire == Struct([x |-> I64, y |-> I64])
FixedAabbWire == Struct([min |-> FixedVec2Wire, max |-> FixedVec2Wire])
\* The place of a word, from 0, and a list after its length.
Tag(words, word) == (CHOOSE i \in DOMAIN words : words[i] = word) - 1
Counted(parts, BytesOf(_)) == <<Len(parts)>> \o FlattenSeq([i \in DOMAIN parts |-> BytesOf(parts[i])])
PointBytes(p) == <<p.x, p.y>>
AabbBytes(box) == PointBytes(box.min) \o PointBytes(box.max)
\* The order things are written in: by identity, and bindings by name.
ById(operations) == SortSeq(operations, LAMBDA p, q : p.id < q.id)
ByName(rows) == SortSeq(rows, LAMBDA p, q : LexLess(p.name, q.name))

(* ---------------- the form of a module ---------------- *)

ModuleRoutingDomainWire ==
    Tagged("kind", << <<"openWorld", "OpenWorld", NoFields>>, <<"substrate", "Substrate", [substrate |-> U32]>> >>)
ModuleEndpointWire ==
    Tagged("kind", << <<"free", "Free", NoFields>>, <<"junction", "Junction", [junction |-> U32]>>,
                      <<"gatePort", "GatePort", [gate |-> U32, port |-> GatePortWire]>> >>)
SubstrateBlueprintWire ==
    Struct([id |-> U32, origin |-> FixedVec2Wire, routingArea |-> FixedAabbWire, footprint |-> FixedAabbWire])
GateBlueprintWire == Struct([id |-> U32, substrate |-> U32, gateType |-> GateTypeWire, origin |-> FixedVec2Wire])
JunctionBlueprintWire == Struct([id |-> U32, routingDomain |-> ModuleRoutingDomainWire, position |-> FixedVec2Wire])
WireBlueprintWire ==
    Struct([id |-> U32, routingDomain |-> ModuleRoutingDomainWire, points |-> List(FixedVec2Wire),
            endpointA |-> ModuleEndpointWire, endpointB |-> ModuleEndpointWire])
AbsoluteModuleGeometryWire ==
    Struct([substrates |-> List(SubstrateBlueprintWire), gates |-> List(GateBlueprintWire),
            junctions |-> List(JunctionBlueprintWire), wires |-> List(WireBlueprintWire)])
ModuleIoBindingWire == Struct([name |-> NameText, endpoint |-> ModuleEndpointWire])
ModuleContractWire ==
    Struct([semanticsVersion |-> Text(<<"aon-semantics-v1">>), numericProfileHash |-> ShortHashText,
            physicalScaleProfileHash |-> ShortHashText])
ModuleProvenanceWire == Struct([source |-> Optional(NameText)])
ModuleBlueprintWire ==
    Struct([formatVersion |-> U32, hashAlgorithmId |-> Text(<<"blake3-v1">>), name |-> NameText,
            contract |-> ModuleContractWire, balanceProfileHash |-> Optional(ShortHashText),
            geometry |-> AbsoluteModuleGeometryWire, ioBindings |-> List(ModuleIoBindingWire),
            provenance |-> ModuleProvenanceWire])

(* ---------------- what every module must be ---------------- *)

Geometry(m) == m.geometry
Parts(m) == Geometry(m).substrates \o Geometry(m).gates \o Geometry(m).junctions \o Geometry(m).wires
IdsOf(parts) == {parts[i].id : i \in DOMAIN parts}
PartOf(parts, id) == parts[CHOOSE i \in DOMAIN parts : parts[i].id = id]

DomainExists(m, domain) == domain.variant = "Substrate" => domain.substrate \in IdsOf(Geometry(m).substrates)
EndpointExists(m, endpoint) ==
    /\ endpoint.variant = "Junction" => endpoint.junction \in IdsOf(Geometry(m).junctions)
    /\ endpoint.variant = "GatePort" =>
          /\ endpoint.gate \in IdsOf(Geometry(m).gates)
          /\ ~(PartOf(Geometry(m).gates, endpoint.gate).gateType = "not" /\ endpoint.port = "inputB")

LocalIdsGiven(m) ==
    /\ 0 \notin IdsOf(Parts(m))
    /\ Cardinality(IdsOf(Parts(m))) = Len(Parts(m))
ReferencesExist(m) ==
    /\ \A i \in DOMAIN Geometry(m).gates : Geometry(m).gates[i].substrate \in IdsOf(Geometry(m).substrates)
    /\ \A i \in DOMAIN Geometry(m).junctions : DomainExists(m, Geometry(m).junctions[i].routingDomain)
    /\ \A i \in DOMAIN Geometry(m).wires :
          LET wire == Geometry(m).wires[i] IN
          /\ DomainExists(m, wire.routingDomain)
          /\ EndpointExists(m, wire.endpointA) /\ EndpointExists(m, wire.endpointB)
BindingsNamed(m) ==
    /\ \A i \in DOMAIN m.ioBindings :
          LET io == m.ioBindings[i] IN
          io.name # <<>> /\ io.endpoint.variant # "Free" /\ EndpointExists(m, io.endpoint)
    /\ \A i, j \in DOMAIN m.ioBindings : m.ioBindings[i].name = m.ioBindings[j].name => i = j

ModuleIsCanonical(m) ==
    /\ LocalIdsGiven(m)
    /\ \A i \in DOMAIN Geometry(m).wires : Len(Geometry(m).wires[i].points) >= 2
    /\ ReferencesExist(m)
    /\ BindingsNamed(m)

ModuleOrdered(m) ==
    [m EXCEPT !.geometry = [kind \in DOMAIN @ |-> ById(@[kind])], !.ioBindings = ByName(@)]

(* ---------------- the hash of a module ---------------- *)

ModuleDomainBytes(domain) == IF domain.variant = "OpenWorld" THEN <<0>> ELSE <<1, domain.substrate>>
EndpointBytes(endpoint) ==
    CASE endpoint.variant = "Free" -> <<0>>
      [] endpoint.variant = "Junction" -> <<1, endpoint.junction>>
      [] endpoint.variant = "GatePort" -> <<2, endpoint.gate, Tag(GatePortWire.domain, endpoint.port)>>

SubstrateBytes(s) == <<s.id>> \o PointBytes(s.origin) \o AabbBytes(s.routingArea) \o AabbBytes(s.footprint)
GateBytes(g) == <<g.id, g.substrate, Tag(GateTypeWire.domain, g.gateType)>> \o PointBytes(g.origin)
JunctionBytes(j) == <<j.id>> \o ModuleDomainBytes(j.routingDomain) \o PointBytes(j.position)
WireBytes_EndsOnly(w) ==
    <<w.id>> \o ModuleDomainBytes(w.routingDomain) \o PointBytes(w.points[1]) \o PointBytes(Last(w.points))
    \o EndpointBytes(w.endpointA) \o EndpointBytes(w.endpointB)
WireBytes(w) ==
    <<w.id>> \o ModuleDomainBytes(w.routingDomain) \o Counted(w.points, PointBytes)
    \o EndpointBytes(w.endpointA) \o EndpointBytes(w.endpointB)
IoBytes(io) == <<Len(io.name)>> \o io.name \o EndpointBytes(io.endpoint)

\* What is hashed, for a module in order.
ModuleBytes(m) ==
    <<m.formatVersion, m.contract.numericProfileHash, m.contract.physicalScaleProfileHash>>
    \o Counted(m.geometry.substrates, SubstrateBytes) \o Counted(m.geometry.gates, GateBytes)
    \o Counted(m.geometry.junctions, JunctionBytes) \o Counted(m.geometry.wires, WireBytes)
    \o Counted(m.ioBindings, IoBytes)
ModuleHash(m) == ModuleBytes(ModuleOrdered(m))

\* A module without what its hash does not stand for.
ModuleMeaning(m) == [ModuleOrdered(m) EXCEPT !.name = <<>>, !.provenance.source = <<>>, !.balanceProfileHash = <<>>]

(* ---------------- reading and writing modules ---------------- *)

ModuleFormats == {1}
ModuleOf(wire) ==
    IF wire.formatVersion \notin ModuleFormats THEN Fault("version")
    ELSE IF ~ModuleIsCanonical(wire) THEN Fault("canonical")
    ELSE Value(wire)
DecodeModule(doc) ==
    LET wire == Read(ModuleBlueprintWire, doc) IN
    IF wire = <<>> THEN Fault("json") ELSE ModuleOf(wire[1])
EncodeModule(m) == Written(ModuleBlueprintWire, ModuleOrdered(m))

(* ---------------- the form of an architecture ---------------- *)

ReferenceArchitectureRoutingDomainWire ==
    Tagged("kind", << <<"openWorld", "open", NoFields>>, <<"fixedSubstrate", "fixed", [substrate |-> U32]>>,
                      <<"mobileSubstrate", "mobile", [substrate |-> U32]>> >>)
ReferenceArchitectureEndpointWire ==
    Tagged("kind", << <<"free", "free", NoFields>>, <<"junction", "junction", [junction |-> U32]>>,
                      <<"gatePort", "gatePort", [gate |-> U32, port |-> GatePortWire]>>,
                      <<"mobilePort", "mobilePort", [mobile |-> U32, port |-> MobilePortWire]>>,
                      <<"mainCore", "mainCore", NoFields>>, <<"powerSource", "powerSource", [ordinal |-> U32]>>,
                      <<"wireSensePort", "sensePort", [wire |-> U32, end |-> WireEndWire]>> >>)
ReferenceArchitectureSemanticTargetWire ==
    Tagged("kind", << <<"localEntity", "local", [entity |-> U32]>>,
                      <<"gatePort", "gatePort", [gate |-> U32, port |-> GatePortWire]>>,
                      <<"mobilePort", "mobilePort", [mobile |-> U32, port |-> MobilePortWire]>>,
                      <<"wireSensePort", "sensePort", [wire |-> U32, end |-> WireEndWire]>>,
                      <<"mainCore", "mainCore", NoFields>>, <<"powerSource", "powerSource", [ordinal |-> U32]>>,
                      <<"enemy", "enemy", [ordinal |-> U32]>> >>)
SubstrateFields == [id |-> U32, origin |-> FixedVec2Wire, routing_area |-> FixedAabbWire, footprint |-> FixedAabbWire]
ReferenceArchitectureOperationWire ==
    Tagged("kind", << <<"placeFixedSubstrate", "fixed", SubstrateFields>>,
                      <<"placeMobileSubstrate", "mobile", SubstrateFields>>,
                      <<"placeGate", "gate", [id |-> U32, routing_domain |-> ReferenceArchitectureRoutingDomainWire,
                                              gate_type |-> GateTypeWire, origin |-> FixedVec2Wire]>>,
                      <<"placeJunction", "junction", [id |-> U32, position |-> FixedVec2Wire,
                                                      routing_domain |-> ReferenceArchitectureRoutingDomainWire]>>,
                      <<"placeWire", "wire", [id |-> U32, routing_domain |-> ReferenceArchitectureRoutingDomainWire,
                                              points |-> List(FixedVec2Wire),
                                              endpoint_a |-> ReferenceArchitectureEndpointWire,
                                              endpoint_b |-> ReferenceArchitectureEndpointWire]>> >>)
ReferenceArchitectureBindingEndpointWire == Struct([wire |-> U32, end |-> WireEndWire])
ReferenceArchitectureMaterializationScheduleWire ==
    Struct([bindingBatches |-> List(List(ReferenceArchitectureBindingEndpointWire))])
ReferenceArchitectureContractWire ==
    Struct([semanticsVersion |-> Text(<<"aon-semantics-v1">>), numericProfileHash |-> ShortHashText,
            physicalScaleProfileHash |-> ShortHashText, balanceProfileHash |-> ShortHashText])
ReferenceArchitectureBindingWire == Struct([name |-> NameText, target |-> ReferenceArchitectureSemanticTargetWire])
ReferenceArchitectureArtifactWire ==
    Struct([formatVersion |-> U32, hashAlgorithmId |-> Text(<<"blake3-v1", "other">>), displayName |-> NameText,
            contract |-> ReferenceArchitectureContractWire, operations |-> List(ReferenceArchitectureOperationWire),
            roleBindings |-> List(ReferenceArchitectureBindingWire),
            observationBindings |-> List(ReferenceArchitectureBindingWire),
            materializationSchedule |-> Optional(ReferenceArchitectureMaterializationScheduleWire)])
ReferenceArchitectureFormatEnvelope ==
    Envelope([formatVersion |-> U32, hashAlgorithmId |-> Text(<<"blake3-v1", "other", "?">>)])

(* ---------------- a file as a design ---------------- *)

DomainOf(domain) == IF domain.variant = "open" THEN Design!Open ELSE Design!In(domain.variant, domain.substrate)
\* The identity or the ordinal a target is told by, and its port or end.
Named(target) == {target[name] : name \in DOMAIN target \ {"variant", "port", "end"}}
Detail(target) ==
    IF "port" \in DOMAIN target THEN target.port ELSE IF "end" \in DOMAIN target THEN target.end ELSE "none"
TargetOf(target) ==
    Design!Endpoint(target.variant, IF Named(target) = {} THEN 0 ELSE CHOOSE n \in Named(target) : TRUE, Detail(target))
OperationAsDesigned(op) ==
    Design!Operation(op.id, op.variant,
        IF "routing_domain" \in DOMAIN op THEN DomainOf(op.routing_domain) ELSE Design!Open,
        IF op.variant = "gate" THEN op.gate_type ELSE "none", <<>>,
        IF op.variant = "wire" THEN <<TargetOf(op.endpoint_a), TargetOf(op.endpoint_b)>> ELSE <<>>)
BindingsAsDesigned(rows) == [i \in DOMAIN rows |-> [name |-> rows[i].name, target |-> TargetOf(rows[i].target)]]
AsDesigned(file) ==
    [format |-> file.formatVersion,
     operations |-> [i \in DOMAIN file.operations |-> OperationAsDesigned(file.operations[i])],
     roles |-> BindingsAsDesigned(file.roleBindings), observations |-> BindingsAsDesigned(file.observationBindings),
     schedule |-> IF file.materializationSchedule = <<>> THEN <<>> ELSE file.materializationSchedule[1].bindingBatches]

\* parse_local_id: no identity is 0, nor does anything refer to 0.
LocalIdsParse(file) ==
    /\ \A i \in DOMAIN file.operations : file.operations[i].id # 0
    /\ \A op \in Range(AsDesigned(file).operations) : op.domain # Design!Open => op.domain.id # 0

\* A schedule there is, even an empty one, is a schedule.
IsCanonical(file) ==
    /\ LocalIdsParse(file)
    /\ file.formatVersion = 1 => file.materializationSchedule = <<>>
    /\ Design!IsCanonical(AsDesigned(file))

ArchitectureOrdered(file) ==
    [file EXCEPT !.operations = ById(@), !.roleBindings = ByName(@), !.observationBindings = ByName(@)]

(* ---------------- the hash of an architecture ---------------- *)

PortTag(target) ==
    IF target.variant = "gatePort" THEN Tag(GatePortWire.domain, target.port)
    ELSE IF target.variant = "mobilePort" THEN Tag(MobilePortWire.domain, target.port)
    ELSE Tag(WireEndWire.domain, target.end)
Kinds == <<"fixed", "mobile", "gate", "junction", "wire">>
EndpointKinds == <<"free", "junction", "gatePort", "mobilePort", "mainCore", "powerSource", "sensePort">>
TargetKinds == <<"local", "gatePort", "mobilePort", "sensePort", "mainCore", "powerSource", "enemy">>

DomainBytes(domain) ==
    <<Tag(<<"open", "fixed", "mobile">>, domain.variant)>> \o
    IF domain.variant = "open" THEN <<>> ELSE <<domain.substrate>>
ReferenceBytes_NoPort(kinds, target) == <<Tag(kinds, target.variant)>> \o SetToSeq(Named(target))
ReferenceBytes(kinds, target) ==
    <<Tag(kinds, target.variant)>> \o SetToSeq(Named(target)) \o
    IF Detail(target) = "none" THEN <<>> ELSE <<PortTag(target)>>

OperationBytes(op) ==
    <<Tag(Kinds, op.variant), op.id>> \o
    CASE op.variant \in {"fixed", "mobile"} ->
            PointBytes(op.origin) \o AabbBytes(op.routing_area) \o AabbBytes(op.footprint)
      [] op.variant = "gate" ->
            DomainBytes(op.routing_domain) \o <<Tag(GateTypeWire.domain, op.gate_type)>> \o PointBytes(op.origin)
      [] op.variant = "junction" -> DomainBytes(op.routing_domain) \o PointBytes(op.position)
      [] op.variant = "wire" ->
            DomainBytes(op.routing_domain) \o Counted(op.points, PointBytes)
            \o ReferenceBytes(EndpointKinds, op.endpoint_a) \o ReferenceBytes(EndpointKinds, op.endpoint_b)
RoleBytes(row) == <<Len(row.name)>> \o row.name \o ReferenceBytes(TargetKinds, row.target)
EndBytes(end) == <<end.wire, Tag(WireEndWire.domain, end.end)>>
BatchBytes(batch) == Counted(batch, EndBytes)

ArchitectureBytes(file) ==
    LET contract == file.contract IN
    <<file.formatVersion, contract.numericProfileHash, contract.physicalScaleProfileHash, contract.balanceProfileHash>>
    \o Counted(file.operations, OperationBytes)
    \o Counted(file.roleBindings, RoleBytes) \o Counted(file.observationBindings, RoleBytes)
    \o IF file.formatVersion = 1 THEN <<>> ELSE Counted(file.materializationSchedule[1].bindingBatches, BatchBytes)
SemanticHash(file) == ArchitectureBytes(ArchitectureOrdered(file))

\* An architecture without what its hash does not stand for.
ArchitectureMeaning(file) == [ArchitectureOrdered(file) EXCEPT !.displayName = <<>>]

(* ---------------- reading and writing architectures ---------------- *)

ArchitectureFormats == {1, 2}
ArchitectureOf(doc) ==
    LET wire == Read(ReferenceArchitectureArtifactWire, doc) IN
    IF wire = <<>> THEN Fault("json")
    ELSE IF ~IsCanonical(wire[1]) THEN Fault("canonical")
    ELSE Value(wire[1])
DecodeArchitecture(doc) ==
    LET envelope == Read(ReferenceArchitectureFormatEnvelope, doc) IN
    IF envelope = <<>> THEN Fault("json")
    ELSE IF envelope[1].formatVersion \notin ArchitectureFormats THEN Fault("version")
    ELSE IF envelope[1].hashAlgorithmId # "blake3-v1" THEN Fault("algorithm")
    ELSE ArchitectureOf(doc)
EncodeArchitecture(file) == Written(ReferenceArchitectureArtifactWire, ArchitectureOrdered(file))

(* ---------------- the metric set and the metrics of a run ---------------- *)

(* ---------------- the structures ---------------- *)

AlgorithmText == Text(<<"blake3-v1", "other">>)
SetIdText == Text(<<"aon-reference-metrics-v1", "other">>)
\* parse_decimal: a u128 as digits, without sign or leading zero.
DecimalText == Word(<<"0", "1", "2", "", "00", "-1">>, <<0, 1, 2, -1, -2, -3>>)
IsDecimal(n) == n >= 0

MetricNames ==
    <<"totalWireLengthRaw", "totalWireNcu", "sharedWireLengthRaw", "sensorWireLengthRaw", "trunkWireLengthRaw",
      "defenseWireLengthRaw", "otherWireLengthRaw", "gateCount", "andCount", "orCount", "notCount",
      "plannedConstructionWork", "buildCommandCount", "commandLogHash", "survivedBoundary", "completedTicks",
      "terminalStatus", "measurementStartCoreIntegrity", "finalCoreIntegrity", "coreDamage", "powerGeneration",
      "powerNominalDemand", "powerGranted", "powerSourceCost", "powerTransmissionLoss", "brownoutTicks",
      "constructionRequested", "constructionNominalPower", "constructionGrantedWork", "constructionAppliedWork",
      "heatGenerated", "networkPeakUsedNcu", "networkFinalUsedNcu", "networkIntegralUsedNcu",
      "supportDemandIntegral", "enemyKills", "responseLatencyTicks">>
MetricWord == Word(MetricNames, [i \in DOMAIN MetricNames |-> i])

ReferenceResponseObservationWire ==
    Struct([name |-> NameText, hostileEntryBinding |-> NameText, defenseContactBinding |-> NameText,
            enemyOrdinal |-> U32])
ReferenceMetricSetWire ==
    Struct([formatVersion |-> U32, hashAlgorithmId |-> AlgorithmText, metricSetId |-> SetIdText,
            metrics |-> List(MetricWord), responseObservations |-> List(ReferenceResponseObservationWire)])

AllAre(names, shape) == [name \in names |-> shape]
WireLengths == {"sharedWireLengthRaw", "sensorWireLengthRaw", "trunkWireLengthRaw", "defenseWireLengthRaw",
                "otherWireLengthRaw"}
ReferenceStaticInventoryWire ==
    Struct(AllAre(WireLengths \cup {"totalWireLengthRaw"}, I64)
           @@ AllAre({"totalWireNcu", "gateCount", "andCount", "orCount", "notCount", "buildCommandCount"}, U64)
           @@ [plannedConstructionWork |-> DecimalText, commandLogHash |-> ShortHashText])
ReferenceTerminalStatusWire ==
    Tagged("kind", << <<"running", "Running", NoFields>>,
                      <<"ended", "Ended", [completedTick |-> U64, cause |-> Text(<<"main-core-destroyed", "other">>)]>> >>)
Totals == {"powerGeneration", "powerNominalDemand", "powerGranted", "powerSourceCost", "powerTransmissionLoss",
           "constructionRequested", "constructionNominalPower", "constructionGrantedWork",
           "constructionAppliedWork", "heatGenerated", "networkIntegralUsedNcu", "supportDemandIntegral"}
Counts == {"completedTicks", "measurementStartCoreIntegrity", "finalCoreIntegrity", "coreDamage", "brownoutTicks",
           "networkPeakUsedNcu", "networkFinalUsedNcu", "enemyKills"}
ReferenceRuntimeMetricsWire ==
    Struct(AllAre(Totals, DecimalText) @@ AllAre(Counts, U64)
           @@ [survivedBoundary |-> Flag, terminalStatus |-> ReferenceTerminalStatusWire])
ReferenceResponseLatencyWire ==
    Struct([name |-> NameText, stimulusTick |-> U64, responseTick |-> U64, latencyTicks |-> U64])
ReferenceMetricResultBoundariesWire ==
    Struct(AllAre({"buildEndTick", "measurementStartTick", "finalNextTick", "maxTicks"}, U64))
ReferenceMetricArtifactWire ==
    Struct([formatVersion |-> U32, hashAlgorithmId |-> AlgorithmText, metricSetId |-> SetIdText,
            metricSetHash |-> ShortHashText, runId |-> ShortHashText, boundaries |-> ReferenceMetricResultBoundariesWire,
            staticInventory |-> ReferenceStaticInventoryWire, runtimeMetrics |-> ReferenceRuntimeMetricsWire,
            responseLatencyTicks |-> List(ReferenceResponseLatencyWire)])
ReferenceMetricFormatEnvelope == Envelope([formatVersion |-> U32])
ReferenceMetricHashEnvelope == Envelope([hashAlgorithmId |-> Text(<<"blake3-v1", "other", "?">>)])

(* ---------------- what a set must be ---------------- *)

AllMetrics == [i \in DOMAIN MetricNames |-> i]
\* The derived order of a row: field after field.
RowKey(row) == <<row.name, row.hostileEntryBinding, row.defenseContactBinding>>
RowLess(p, q) ==
    \/ \E i \in 1..3 : LexLess(RowKey(p)[i], RowKey(q)[i]) /\ \A j \in 1..(i - 1) : RowKey(p)[j] = RowKey(q)[j]
    \/ RowKey(p) = RowKey(q) /\ p.enemyOrdinal < q.enemyOrdinal
ResponseSpecsValid(rows) ==
    /\ rows # <<>>
    /\ \A i \in DOMAIN rows : <<>> \notin Range(RowKey(rows[i]))
    /\ \A i \in 1..(Len(rows) - 1) : RowLess(rows[i], rows[i + 1]) /\ rows[i].name # rows[i + 1].name
    /\ \A i, j \in DOMAIN rows : i # j =>
          /\ <<rows[i].hostileEntryBinding, rows[i].enemyOrdinal>> # <<rows[j].hostileEntryBinding, rows[j].enemyOrdinal>>
          /\ <<rows[i].defenseContactBinding, rows[i].enemyOrdinal>>
                # <<rows[j].defenseContactBinding, rows[j].enemyOrdinal>>
SetValid(set) ==
    /\ set.metricSetId = "aon-reference-metrics-v1"
    /\ set.metrics = AllMetrics
    /\ ResponseSpecsValid(set.responseObservations)

(* ---------------- what the metrics of a run must be ---------------- *)

Sum(record, names) == FoldSet(LAMBDA name, total : total + record[name], 0, names)
InventoryValid(inventory) ==
    /\ \A name \in WireLengths \cup {"totalWireLengthRaw"} : inventory[name] >= 0
    /\ Sum(inventory, WireLengths) = inventory.totalWireLengthRaw
    /\ inventory.totalWireNcu = inventory.totalWireLengthRaw
    /\ Sum(inventory, {"andCount", "orCount", "notCount"}) = inventory.gateCount
BoundariesValid(b) ==
    /\ b.buildEndTick <= b.measurementStartTick /\ b.measurementStartTick < b.maxTicks
    /\ b.finalNextTick \in (b.measurementStartTick + 1)..b.maxTicks
TerminalStatusValid(result) ==
    LET runtime == result.runtimeMetrics
        status == runtime.terminalStatus
        end == result.boundaries.finalNextTick
    IN  /\ runtime.completedTicks = end
        /\ status.variant = "Running" => runtime.survivedBoundary /\ end = result.boundaries.maxTicks
        /\ status.variant = "Ended" =>
              ~runtime.survivedBoundary /\ status.completedTick + 1 = end /\ runtime.finalCoreIntegrity = 0
ResponsesValid(result) ==
    LET rows == result.responseLatencyTicks IN
    /\ rows # <<>>
    /\ \A i \in DOMAIN rows :
          /\ rows[i].name # <<>>
          /\ i > 1 => LexLess(rows[i - 1].name, rows[i].name)
          /\ result.boundaries.measurementStartTick <= rows[i].stimulusTick
          /\ rows[i].stimulusTick <= rows[i].responseTick
          /\ rows[i].responseTick < result.boundaries.finalNextTick
          /\ rows[i].latencyTicks = rows[i].responseTick - rows[i].stimulusTick
\* validate_metric_result
ResultValid(result) ==
    LET runtime == result.runtimeMetrics IN
    /\ BoundariesValid(result.boundaries)
    /\ InventoryValid(result.staticInventory)
    /\ runtime.networkPeakUsedNcu >= runtime.networkFinalUsedNcu
    /\ TerminalStatusValid(result)
    /\ runtime.coreDamage = runtime.measurementStartCoreIntegrity - runtime.finalCoreIntegrity
    /\ ResponsesValid(result)
\* validate_against; the hash of the one set that is enumerated is 1.
NamesOf(rows) == [i \in DOMAIN rows |-> rows[i].name]
ValidAgainst(artifact, set) ==
    /\ artifact.metricSetId = set.metricSetId /\ artifact.metricSetHash = 1
    /\ ResultValid(artifact)
    /\ NamesOf(artifact.responseLatencyTicks) = NamesOf(set.responseObservations)

(* ---------------- the hashes ---------------- *)

TextBytes(text) == <<Len(text)>> \o text
SpecBytes(row) ==
    TextBytes(row.name) \o TextBytes(row.hostileEntryBinding) \o TextBytes(row.defenseContactBinding)
    \o <<row.enemyOrdinal>>
SetBytes(set) ==
    <<set.formatVersion>> \o <<Len(set.metrics)>> \o set.metrics \o Counted(set.responseObservations, SpecBytes)

StatusBytes(status) == IF status.variant = "Running" THEN <<0>> ELSE <<1, status.completedTick, 0>>
\* Some fields of a structure, in one order.
FieldBytes(record, names) == FoldSet(LAMBDA name, bytes : Append(bytes, record[name]), <<>>, names)
LatencyBytes(row) == TextBytes(row.name) \o <<row.stimulusTick, row.responseTick, row.latencyTicks>>
ResultBytes_NoInventory(result) ==
    FieldBytes(result.boundaries, DOMAIN result.boundaries)
    \o FieldBytes(result.runtimeMetrics, Totals \cup Counts)
    \o Counted(result.responseLatencyTicks, LatencyBytes)
ResultBytes(result) ==
    FieldBytes(result.boundaries, DOMAIN result.boundaries)
    \o FieldBytes(result.staticInventory, DOMAIN result.staticInventory)
    \o <<IF result.runtimeMetrics.survivedBoundary THEN 1 ELSE 0>>
    \o StatusBytes(result.runtimeMetrics.terminalStatus)
    \o FieldBytes(result.runtimeMetrics, Totals \cup Counts)
    \o Counted(result.responseLatencyTicks, LatencyBytes)
ArtifactBytes(artifact) == <<artifact.formatVersion, artifact.runId>> \o ResultBytes(artifact)

(* ---------------- reading and writing ---------------- *)

MetricFormats == {1}
\* decode_metric_json three times: format, algorithm, body.
PassedEnvelopes(doc, Body(_)) ==
    LET format == Read(ReferenceMetricFormatEnvelope, doc)
        algorithm == Read(ReferenceMetricHashEnvelope, doc)
    IN  IF format = <<>> THEN Fault("json")
        ELSE IF format[1].formatVersion \notin MetricFormats THEN Fault("version")
        ELSE IF algorithm = <<>> THEN Fault("json")
        ELSE IF algorithm[1].hashAlgorithmId # "blake3-v1" THEN Fault("algorithm")
        ELSE Body(doc)
SetBody(doc) ==
    LET wire == Read(ReferenceMetricSetWire, doc) IN
    IF wire = <<>> THEN Fault("json") ELSE IF SetValid(wire[1]) THEN Value(wire[1]) ELSE Fault("set")
DecodeMetricSet(doc) == PassedEnvelopes(doc, SetBody)
EncodeMetricSet(set) == Written(ReferenceMetricSetWire, set)

DecimalsParse(artifact) ==
    /\ IsDecimal(artifact.staticInventory.plannedConstructionWork)
    /\ \A name \in Totals : IsDecimal(artifact.runtimeMetrics[name])
CauseParses(status) == status.variant = "Ended" => status.cause = "main-core-destroyed"
DecodeMetrics(doc, set) ==
    LET Body(d) ==
            LET wire == Read(ReferenceMetricArtifactWire, d) IN
            IF wire = <<>> THEN Fault("json")
            ELSE IF ~CauseParses(wire[1].runtimeMetrics.terminalStatus) \/ ~DecimalsParse(wire[1]) THEN Fault("text")
            ELSE IF ~ValidAgainst(wire[1], set) THEN Fault("metrics")
            ELSE Value(wire[1])
    IN  PassedEnvelopes(doc, Body)
EncodeMetrics(artifact) == Written(ReferenceMetricArtifactWire, artifact)

(* ---------------- the pair and the experiment ---------------- *)

(* ---------------- the structures ---------------- *)

\* Hash 0 is that of an empty sequence or command log.
HashText == Word(<<"h0", "h1", "h2", "h3">>, <<0, 1, 2, 3>>)
SeedText == Word(<<"00", "01">>, <<0, 1>>)
PathText == Text(<<"a/b.json", "../a.json", "", "/a", "a/", "a\\b", "C:a">>)
FreeText ==
    Word(<<"a", "b", "", " ", "long">>, << <<1>>, <<2>>, <<>>, <<0>>, [i \in 1..(MaxTextBytes + 1) |-> 1] >>)
RoleText == Word(<<"brute", "computed">>, <<0, 1>>)
StageText == Text(<<"S1-M5", "S1-M0">>)
\* Names in the order of their bytes: [space, sector] of the n-th.
SectorText == Word(<<"", "east", "north", "south", "west">>, <<0, 1, 2, 3, 4>>)
BindingNames ==
    <<"", "defense.", "defense.east.0", "defense.east.1", "defense.west.0", "sensor.", "sensor.east.0",
      "sensor.east.1", "sensor.up.0", "sensor.west.0">>
BindingText == Word(BindingNames, [i \in DOMAIN BindingNames |-> i])
SpaceOf(name) == <<"", "defense", "defense", "defense", "defense", "sensor", "sensor", "sensor", "sensor", "sensor">>[name]
SectorOf(name) == <<"", "", "east", "east", "west", "", "east", "east", "up", "west">>[name]

ArtifactReferenceWire == Struct([path |-> PathText, artifactHash |-> HashText])
ProfileReferenceWire == Struct([path |-> PathText, profileId |-> FreeText, profileHash |-> HashText])
PointWire == Struct([x |-> I64, y |-> I64])
AabbWire == Struct([min |-> PointWire, max |-> PointWire])
AnchorWire == Struct([name |-> SectorText, position |-> PointWire])
DesignWire == Struct([role |-> RoleText, design |-> ArtifactReferenceWire, commandLogHash |-> HashText])
ResponseBindingWire ==
    Struct([name |-> FreeText, hostileEntryBinding |-> BindingText, defenseContactBinding |-> BindingText])
ProfileNames == {"numericProfile", "physicalScaleProfile", "balanceProfile"}
ContractWire ==
    Struct([semanticsVersion |-> Text(<<"aon-semantics-v1">>)] @@ [numericProfileHash |-> HashText,
            physicalScaleProfileHash |-> HashText, balanceProfileHash |-> HashText])
AllOf(names, shape) == [name \in names |-> shape]
Boundaries == AllOf({"buildEndTick", "measurementStartTick", "maxTicks"}, U64)
CommonFields ==
    Boundaries @@ AllOf(ProfileNames, ProfileReferenceWire)
    @@ [formatVersion |-> U32, hashAlgorithmId |-> AlgorithmText, scenario |-> ArtifactReferenceWire,
        seed |-> SeedText, metricSetId |-> FreeText, metricSetHash |-> HashText, designs |-> List(DesignWire)]
PairWire ==
    Struct(CommonFields
           @@ [pairId |-> FreeText, scenarioId |-> FreeText, contract |-> ContractWire, mainCoreCapacity |-> U64,
               territory |-> AabbWire, territoryAnchors |-> List(AnchorWire), powerSourceSequenceHash |-> HashText,
               enemySequenceHash |-> HashText, sharedCommandLogHash |-> HashText,
               responseBindings |-> List(ResponseBindingWire)])
ExperimentPlanV2Wire ==
    Struct(CommonFields @@ [experimentId |-> FreeText, stage |-> StageText, pair |-> ArtifactReferenceWire])
FormatEnvelope == Envelope([formatVersion |-> U32])
HashEnvelope == Envelope([hashAlgorithmId |-> Text(<<"blake3-v1", "other", "?">>)])

(* ---------------- what both must be ---------------- *)

TextValid(text) == (\E i \in DOMAIN text : text[i] # 0) /\ Len(text) <= MaxTextBytes
PathValid(path) == path \in {"a/b.json", "../a.json"}
ReferencesValid(file) ==
    /\ PathValid(file.scenario.path)
    /\ \A name \in ProfileNames : PathValid(file[name].path) /\ TextValid(file[name].profileId)
    /\ \A i \in DOMAIN file.designs : PathValid(file.designs[i].design.path)
TicksValid(file) ==
    file.buildEndTick <= file.measurementStartTick /\ file.measurementStartTick < file.maxTicks
TwoDesigns(file) ==
    /\ Len(file.designs) = 2
    /\ file.designs[1].design.artifactHash # file.designs[2].design.artifactHash
    /\ file.designs[1].commandLogHash # file.designs[2].commandLogHash

(* ---------------- a pair ---------------- *)

LexKey(k, l) == \E i \in DOMAIN k : k[i] < l[i] /\ \A j \in 1..(i - 1) : k[j] = l[j]
AnchorBefore(a, b) ==
    LexKey(<<a.name, a.position.x, a.position.y>>, <<b.name, b.position.x, b.position.y>>)
\* The derived order of a binding: its name, then the two it binds.
BindingBefore(a, b) ==
    \/ LexLess(a.name, b.name)
    \/ a.name = b.name /\ LexKey(<<a.hostileEntryBinding, a.defenseContactBinding>>,
                                 <<b.hostileEntryBinding, b.defenseContactBinding>>)
RoleBefore(a, b) == a.role < b.role
Ordered_DesignsAsGiven(pair) ==
    [pair EXCEPT !.territoryAnchors = SortSeq(@, AnchorBefore), !.responseBindings = SortSeq(@, BindingBefore)]
\* `v1` puts the lists in order before it validates.
Ordered(pair) ==
    [pair EXCEPT !.territoryAnchors = SortSeq(@, AnchorBefore), !.designs = SortSeq(@, RoleBefore),
                 !.responseBindings = SortSeq(@, BindingBefore)]

\* validate_anchors: the middles of the four sides.
Middle(low, high) == low + ((high - low) \div 2)
AnchorsValid(anchors, area) ==
    LET middle == [x |-> Middle(area.min.x, area.max.x), y |-> Middle(area.min.y, area.max.y)]
        At(x, y) == [x |-> x, y |-> y]
        expected == <<At(area.max.x, middle.y), At(middle.x, area.max.y), At(middle.x, area.min.y), At(area.min.x, middle.y)>>
    IN  anchors = [i \in 1..4 |-> [name |-> i, position |-> expected[i]]]
\* validate_response_bindings
BindingsValid(bindings) ==
    /\ bindings # <<>>
    /\ \A i \in DOMAIN bindings :
          LET entry == bindings[i].hostileEntryBinding
              defense == bindings[i].defenseContactBinding
          IN  /\ TextValid(bindings[i].name)
              /\ SpaceOf(entry) = "sensor" /\ SpaceOf(defense) = "defense"
              /\ SectorOf(entry) \in {"east", "north", "south", "west"} /\ SectorOf(entry) = SectorOf(defense)
    /\ \A i, j \in DOMAIN bindings : i # j =>
          /\ bindings[i].name # bindings[j].name
          /\ bindings[i].hostileEntryBinding # bindings[j].hostileEntryBinding
          /\ bindings[i].defenseContactBinding # bindings[j].defenseContactBinding
ContractValid(pair) ==
    /\ pair.contract.numericProfileHash = pair.numericProfile.profileHash
    /\ pair.contract.physicalScaleProfileHash = pair.physicalScaleProfile.profileHash
    /\ pair.contract.balanceProfileHash = pair.balanceProfile.profileHash
\* ReferenceArchitecturePairManifest::validate, of a pair in order.
PairValid(pair) ==
    /\ \A text \in {pair.pairId, pair.scenarioId, pair.metricSetId} : TextValid(text)
    /\ pair.seed = 0
    /\ ReferencesValid(pair) /\ ContractValid(pair)
    /\ pair.sharedCommandLogHash = 0 /\ pair.powerSourceSequenceHash # 0 /\ pair.enemySequenceHash # 0
    /\ TicksValid(pair)
    /\ pair.mainCoreCapacity > 0
    /\ pair.territory.min.x < pair.territory.max.x /\ pair.territory.min.y < pair.territory.max.y
    /\ AnchorsValid(pair.territoryAnchors, pair.territory)
    /\ TwoDesigns(pair) /\ pair.designs[1].role = 0 /\ pair.designs[2].role = 1
    /\ BindingsValid(pair.responseBindings)

ProfileBytes(reference) == TextBytes(reference.profileId) \o <<reference.profileHash>>
PairBytes(pair) ==
    LET contract == pair.contract
        AnchorBytes(anchor) == <<anchor.name>> \o PointBytes(anchor.position)
        DesignBytes(design) == <<design.role, design.design.artifactHash, design.commandLogHash>>
        BindingBytes(binding) ==
            TextBytes(binding.name) \o <<binding.hostileEntryBinding, binding.defenseContactBinding>>
    IN  <<pair.formatVersion>> \o TextBytes(pair.pairId) \o TextBytes(pair.scenarioId)
        \o <<pair.scenario.artifactHash, contract.numericProfileHash, contract.physicalScaleProfileHash,
             contract.balanceProfileHash>>
        \o ProfileBytes(pair.numericProfile) \o ProfileBytes(pair.physicalScaleProfile)
        \o ProfileBytes(pair.balanceProfile)
        \o <<pair.seed, pair.buildEndTick, pair.measurementStartTick, pair.maxTicks, pair.mainCoreCapacity>>
        \o PointBytes(pair.territory.min) \o PointBytes(pair.territory.max)
        \o Counted(pair.territoryAnchors, AnchorBytes)
        \o <<pair.powerSourceSequenceHash, pair.enemySequenceHash, pair.sharedCommandLogHash>>
        \o TextBytes(pair.metricSetId) \o <<pair.metricSetHash>>
        \o Counted(pair.designs, DesignBytes) \o Counted(pair.responseBindings, BindingBytes)

\* A pair without the paths.
WithoutPath(reference) == [reference EXCEPT !.path = ""]
Meaning(pair) ==
    [pair EXCEPT !.scenario = WithoutPath(@), !.numericProfile = WithoutPath(@), !.balanceProfile = WithoutPath(@),
                 !.physicalScaleProfile = WithoutPath(@),
                 !.designs = [i \in DOMAIN @ |-> [@[i] EXCEPT !.design = WithoutPath(@)]]]

(* ---------------- an experiment ---------------- *)

\* ReferenceExperimentPlanV2::validate: the designs by their hash.
PlanValid(plan) ==
    /\ TextValid(plan.experimentId) /\ TextValid(plan.metricSetId)
    /\ plan.stage = "S1-M5" /\ plan.seed = 0
    /\ PathValid(plan.pair.path) /\ ReferencesValid(plan)
    /\ TicksValid(plan)
    /\ TwoDesigns(plan) /\ {plan.designs[1].role, plan.designs[2].role} = {0, 1}
    /\ plan.designs[1].design.artifactHash < plan.designs[2].design.artifactHash

(* ---------------- reading and writing ---------------- *)

PairFormats == {1}
PlanFormats == {2}
\* Format, algorithm and body, one after the other.
Enveloped(doc, formats, Body(_)) ==
    LET format == Read(FormatEnvelope, doc)
        algorithm == Read(HashEnvelope, doc)
    IN  IF format = <<>> THEN Fault("json")
        ELSE IF format[1].formatVersion \notin formats THEN Fault("version")
        ELSE IF algorithm = <<>> THEN Fault("json")
        ELSE IF algorithm[1].hashAlgorithmId # "blake3-v1" THEN Fault("algorithm")
        ELSE Body(doc)
PairBody(doc) ==
    LET wire == Read(PairWire, doc) IN
    IF wire = <<>> THEN Fault("json")
    ELSE IF wire[1].seed # 0 THEN Fault("seed")
    ELSE IF Len(wire[1].designs) # 2 THEN Fault("designs")
    ELSE IF PairValid(Ordered(wire[1])) THEN Value(Ordered(wire[1])) ELSE Fault("pair")
DecodePair(doc) == Enveloped(doc, PairFormats, PairBody)
EncodePair(pair) == Written(PairWire, pair)
PlanBody(doc) ==
    LET wire == Read(ExperimentPlanV2Wire, doc) IN
    IF wire = <<>> THEN Fault("json") ELSE IF PlanValid(wire[1]) THEN Value(wire[1]) ELSE Fault("plan")
DecodePlan(doc) == Enveloped(doc, PlanFormats, PlanBody)
EncodePlan(plan) == Written(ExperimentPlanV2Wire, plan)
====
