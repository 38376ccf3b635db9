---- MODULE ScenarioFiles ----
(* The files of a run.  The scenario (artifact.rs), the three profiles it runs
   by, the numbers, the physical scale and the balance (profile.rs, read in
   artifact.rs), an experiment plan of the first format (experiment_artifact.rs)
   and a replay (replay.rs): each with its form, the rules its values keep, the
   order it is put in and the bytes it is hashed by.  A scenario, a balance and
   a replay read their schema ahead of their body, since the schema decides what
   the body may hold; a plan does not.  The physical scale, the plan and the
   replay are ever written, and only when a plan is are its axes put in order. *)
EXTENDS JsonForms

CONSTANT FixedOne      \* FIXED_ONE, the one value of fixedOne

AllOf(names, shape) == [name \in names |-> shape]

(* ---------------- the forms of the profiles ---------------- *)

ProfileKind == Word(<<"numeric", "physical-scale", "balance">>, <<0, 1, 2>>)
ProfileId == Word(<<"", " ", "a", "b">>, << <<>>, <<0>>, <<1>>, <<2>> >>)
Fixed == I64
Header == [schemaVersion |-> U32, profileId |-> ProfileId, kind |-> ProfileKind]

NumericProfile ==
    Struct(Header @@ [fixedOne |-> I64, overflow |-> Text(<<"deterministic-error">>),
                      division |-> Text(<<"floor-ceil-nearest-even">>),
                      geometryLength |-> Text(<<"ceil-integer-euclidean-sqrt">>)])

GateFootprint == Struct([width |-> Fixed, height |-> Fixed])
PortAnchor == Struct([x |-> Fixed, y |-> Fixed])
BinaryPorts == {"inputA", "inputB", "output", "power"}
UnaryPorts == {"input", "output", "power"}
BinaryGatePortAnchors == Struct(AllOf(BinaryPorts, PortAnchor))
UnaryGatePortAnchors == Struct(AllOf(UnaryPorts, PortAnchor))
GateNames == {"and", "or", "not"}
GateFootprintTable == Struct(AllOf(GateNames, GateFootprint))
GatePortTable ==
    Struct([gate \in GateNames |-> IF gate = "not" THEN UnaryGatePortAnchors ELSE BinaryGatePortAnchors])
Pitches == {"circuitRoutingPitch", "worldRoutingPitch", "wireBodyRadius"}
PhysicalScaleProfile ==
    Struct(Header @@ AllOf(Pitches \cup {"wireGeometryQuantum", "substrateClearance"}, Fixed)
           @@ [gateFootprints |-> GateFootprintTable, gatePortAnchors |-> GatePortTable])

\* A probe is counts and quotients, in the order they are hashed.
Shaped(counts, ratios) == Struct(AllOf(counts, U64) @@ AllOf(ratios, Ratio))
CapacityCounts == {"mainCoreCapacity", "relayCapacity", "capacityDenominatorFloor", "relayOfflineGraceTicks"}
CapacityRatios == {"overcapLinearK", "overcapQuadraticK", "supportHeatFraction"}
CapacityProbeProfile == Shaped(CapacityCounts, CapacityRatios)
CapacitySupportProbeProfile == Shaped({}, {"supportPowerPerNCU"})
PowerCounts == {"gateIdleDemand", "gateDriveDemand", "senseNominalDrive", "gateStateRetentionTicks"}
PowerRatios ==
    {"gateSwitchDemandPerEnergy", "wireLeakagePerWU", "wireSenseDemandPerWU", "movementDemandPerWU", "powerLossK"}
PowerProbeProfile == Shaped(PowerCounts, PowerRatios)
ConstructionCounts ==
    {"andGateWork", "orGateWork", "notGateWork", "junctionBaseWork", "wireEndpointWork", "builderWorkPerTick"}
ConstructionRatios ==
    {"wireWorkPerNCU", "substrateWorkPerSquareWU", "constructionPowerPerWork", "constructionHeatFraction"}
ConstructionProbeProfile == Shaped(ConstructionCounts, ConstructionRatios)
Bodies == {"mainCore", "wire", "gate", "junction", "fixedSubstrate", "mobileSubstrate", "enemy"}
PrimitiveIntegrityProfile == Shaped(Bodies, {})
PrimitiveThermalCapacityProfile == Shaped(Bodies, {})
ElectricalToleranceProfile == Shaped(Bodies, {})
ContactCounts == {"worldLeakWeight", "enemyConductivity", "enemyAttackEnergyPerTick"}
ContactRatios ==
    {"liveEnergyPerStrengthWU", "thermalDamageRate", "gatePowerHeatFraction", "movementHeatFraction"}
ContactDamageProbeProfile ==
    Struct(AllOf(ContactCounts, U64) @@ AllOf(ContactRatios, Ratio)
           @@ [initialIntegrity |-> PrimitiveIntegrityProfile, thermalCapacity |-> PrimitiveThermalCapacityProfile,
               electricalTolerance |-> ElectricalToleranceProfile, safeTemperature |-> Fixed])
OrientationWeightTable == Shaped({"broadsideNear", "diagonal", "endfireNear"}, {})
OrientationBoundaryMultipliers == Shaped({"broadsideAbsCrossMultiplier", "endfireAbsDotMultiplier"}, {})
RadiationReferenceProfile ==
    Struct([distanceWeights |-> Array(5, U64), delays |-> Array(5, U64),
            orientationWeights |-> OrientationWeightTable, orientationBoundaries |-> OrientationBoundaryMultipliers])
Probes ==
    [capacityProbe |-> Nullable(CapacityProbeProfile), radiationReference |-> Nullable(RadiationReferenceProfile),
     powerProbe |-> Nullable(PowerProbeProfile), capacitySupportProbe |-> Nullable(CapacitySupportProbeProfile),
     constructionProbe |-> Nullable(ConstructionProbeProfile),
     contactDamageProbe |-> Nullable(ContactDamageProbeProfile)]
PositiveCounts ==
    {"gateBaseDelay", "gateSwitchBaseEnergy", "senseDelay", "logicThreshold", "nominalGateDrive", "inputLoad",
     "fanoutStep", "quartzPeriod"}
BalanceRatios ==
    {"wireLoadPerWU", "wireLinearK", "wireQuadraticK", "logicOperateThreshold", "brownoutDelayFloor"}
BalanceProfile ==
    Struct(Header @@ Probes @@ AllOf(PositiveCounts \cup {"fanoutFreeLoad"}, U64) @@ AllOf(BalanceRatios, Ratio)
           @@ [simulationHz |-> U32, senseRadius |-> Fixed, radiationCellSize |-> Fixed])
BalanceSchemaEnvelope == Envelope([schemaVersion |-> U32])

(* ---------------- the rules of the profiles ---------------- *)

\* validate_header
HeaderValid(profile, kind, schemas) ==
    profile.schemaVersion \in schemas /\ profile.profileId \notin {<<>>, <<0>>} /\ profile.kind = kind

NumericValid(profile) == HeaderValid(profile, 0, {1}) /\ profile.fixedOne = FixedOne

IsPositive(quotient) == quotient.numerator > 0
IsNonnegative(quotient) == quotient.numerator >= 0
InUnitInterval(quotient) == IsPositive(quotient) /\ quotient.numerator <= quotient.denominator
ArePositive(record, counts) == \A name \in counts : record[name] > 0
ArePositiveRatios(record, ratios) == \A name \in ratios : IsPositive(record[name])

\* validate_footprint: the middle of a gate is on the grid; its double quantum fits an i64.
FootprintValid(footprint, quantum) ==
    /\ footprint.width > 0 /\ footprint.height > 0
    /\ 2 * quantum <= Wide
    /\ footprint.width % (2 * quantum) = 0 /\ footprint.height % (2 * quantum) = 0
\* validate_anchor: on the rim of the gate.
AnchorValid(anchor, footprint, quantum) ==
    /\ anchor.x % quantum = 0 /\ anchor.y % quantum = 0
    /\ Magnitude(anchor.x) <= footprint.width \div 2 /\ Magnitude(anchor.y) <= footprint.height \div 2
    /\ Magnitude(anchor.x) = footprint.width \div 2 \/ Magnitude(anchor.y) = footprint.height \div 2
ScaleValid(profile) ==
    LET quantum == profile.wireGeometryQuantum IN
    /\ HeaderValid(profile, 1, {1})
    /\ quantum > 0
    /\ \A name \in Pitches : profile[name] > 0 /\ profile[name] % quantum = 0
    /\ profile.substrateClearance >= 0 /\ profile.substrateClearance % quantum = 0
    /\ \A gate \in GateNames : FootprintValid(profile.gateFootprints[gate], quantum)
    /\ \A gate \in GateNames : \A port \in DOMAIN profile.gatePortAnchors[gate] :
          AnchorValid(profile.gatePortAnchors[gate][port], profile.gateFootprints[gate], quantum)

CapacityValid(probe) ==
    /\ ArePositive(probe, CapacityCounts)
    /\ IsNonnegative(probe.overcapLinearK) /\ IsNonnegative(probe.overcapQuadraticK)
    /\ InUnitInterval(probe.supportHeatFraction)
PowerValid(probe) ==
    /\ ArePositive(probe, PowerCounts)
    /\ ArePositiveRatios(probe, PowerRatios \ {"powerLossK"}) /\ IsNonnegative(probe.powerLossK)
ConstructionValid(probe) ==
    /\ ArePositive(probe, ConstructionCounts)
    /\ ArePositiveRatios(probe, ConstructionRatios) /\ InUnitInterval(probe.constructionHeatFraction)
ContactValid(probe) ==
    /\ ArePositive(probe, ContactCounts)
    /\ \A part \in {probe.initialIntegrity, probe.thermalCapacity, probe.electricalTolerance} :
          ArePositive(part, Bodies)
    /\ probe.safeTemperature >= 0
    /\ ArePositiveRatios(probe, ContactRatios)
    /\ InUnitInterval(probe.gatePowerHeatFraction) /\ InUnitInterval(probe.movementHeatFraction)
RadiationValid(reference) ==
    LET weights == reference.orientationWeights IN
    /\ 0 \notin Range(reference.distanceWeights) /\ 0 \notin Range(reference.delays)
    /\ \A i \in 1..4 : reference.distanceWeights[i] > reference.distanceWeights[i + 1]
    /\ \A i \in 1..4 : reference.delays[i] <= reference.delays[i + 1]
    /\ weights.broadsideNear > weights.diagonal /\ weights.diagonal > weights.endfireNear /\ weights.endfireNear > 0
    /\ ArePositive(reference.orientationBoundaries, DOMAIN reference.orientationBoundaries)

\* The probes a schema has; the others it must not have.
Required(schema) ==
    (IF schema >= 3 THEN {"powerProbe"} ELSE {}) \cup (IF schema >= 4 THEN {"capacitySupportProbe"} ELSE {})
    \cup (IF schema = 5 THEN {"constructionProbe", "contactDamageProbe"} ELSE {})
Present(profile) == {probe \in DOMAIN Probes : profile[probe] # <<>>}
BalanceValid(profile) ==
    LET Holds(probe, Rule(_)) == profile[probe] # <<>> => Rule(profile[probe][1]) IN
    /\ HeaderValid(profile, 2, 2..5)
    /\ profile.simulationHz > 0 /\ ArePositive(profile, PositiveCounts)
    /\ profile.nominalGateDrive >= profile.logicThreshold
    /\ IsPositive(profile.wireLoadPerWU) /\ IsNonnegative(profile.wireLinearK) /\ IsPositive(profile.wireQuadraticK)
    /\ InUnitInterval(profile.logicOperateThreshold) /\ InUnitInterval(profile.brownoutDelayFloor)
    /\ profile.senseRadius > 0 /\ profile.radiationCellSize > 0
    /\ Holds("capacityProbe", CapacityValid) /\ Holds("radiationReference", RadiationValid)
    /\ Present(profile) \ {"capacityProbe", "radiationReference"} = Required(profile.schemaVersion)
    /\ profile.schemaVersion >= 4 =>
          profile.capacityProbe # <<>> /\ IsPositive(profile.capacityProbe[1].overcapQuadraticK)
    /\ Holds("powerProbe", PowerValid) /\ Holds("constructionProbe", ConstructionValid)
    /\ Holds("contactDamageProbe", ContactValid)
    /\ profile.capacitySupportProbe # <<>> => IsPositive(profile.capacitySupportProbe[1].supportPowerPerNCU)

(* ---------------- the hashes of the profiles ---------------- *)

\* Some fields of a structure, in one order.
Fields(record, names) == FoldSet(LAMBDA name, bytes : Append(bytes, record[name]), <<>>, names)
RatioBytes(quotient) == <<quotient.numerator, quotient.denominator>>
Ratios(record, names) == FoldSet(LAMBDA name, bytes : bytes \o RatioBytes(record[name]), <<>>, names)
HeaderBytes(profile) == <<profile.kind, profile.schemaVersion>>

NumericBytes(profile) == HeaderBytes(profile) \o <<profile.fixedOne, 0, 0, 0>>

FootprintBytes(footprint) == <<footprint.width, footprint.height>>
AnchorsBytes(anchors, ports) ==
    FoldSet(LAMBDA port, bytes : bytes \o <<anchors[port].x, anchors[port].y>>, <<>>, ports)
ScaleBytes(profile) ==
    HeaderBytes(profile) \o Fields(profile, Pitches \cup {"wireGeometryQuantum", "substrateClearance"})
    \o FootprintBytes(profile.gateFootprints["and"]) \o FootprintBytes(profile.gateFootprints["or"])
    \o FootprintBytes(profile.gateFootprints["not"])
    \o AnchorsBytes(profile.gatePortAnchors["and"], BinaryPorts)
    \o AnchorsBytes(profile.gatePortAnchors["or"], BinaryPorts)
    \o AnchorsBytes(profile.gatePortAnchors["not"], UnaryPorts)

CapacityBytes(probe) == Fields(probe, CapacityCounts) \o Ratios(probe, CapacityRatios)
RadiationBytes(reference) ==
    reference.distanceWeights \o reference.delays
    \o Fields(reference.orientationWeights, DOMAIN reference.orientationWeights)
    \o Fields(reference.orientationBoundaries, DOMAIN reference.orientationBoundaries)
PowerBytes(probe) == Fields(probe, PowerCounts) \o Ratios(probe, PowerRatios)
ConstructionBytes(probe) == Fields(probe, ConstructionCounts) \o Ratios(probe, ConstructionRatios)
BodiesBytes(values) == Fields(values, Bodies)
ContactBytes(probe) ==
    Fields(probe, ContactCounts \cup {"safeTemperature"}) \o Ratios(probe, ContactRatios)
    \o BodiesBytes(probe.initialIntegrity) \o BodiesBytes(probe.thermalCapacity)
    \o BodiesBytes(probe.electricalTolerance)
\* A probe of the schema follows without a mark; one that may be missing has one.
BalanceBytes(profile) ==
    LET schema == profile.schemaVersion IN
    HeaderBytes(profile)
    \o Fields(profile, PositiveCounts \cup {"simulationHz", "fanoutFreeLoad", "senseRadius", "radiationCellSize"})
    \o Ratios(profile, BalanceRatios)
    \o (IF profile.capacityProbe = <<>> THEN <<0>> ELSE <<1>> \o CapacityBytes(profile.capacityProbe[1]))
    \o (IF profile.radiationReference = <<>> THEN <<0>> ELSE <<1>> \o RadiationBytes(profile.radiationReference[1]))
    \o (IF schema >= 3 THEN PowerBytes(profile.powerProbe[1]) ELSE <<>>)
    \o (IF schema >= 4 THEN RatioBytes(profile.capacitySupportProbe[1].supportPowerPerNCU) ELSE <<>>)
    \o (IF schema = 5 THEN ConstructionBytes(profile.constructionProbe[1]) \o ContactBytes(profile.contactDamageProbe[1])
        ELSE <<>>)

\* A profile without its name.
ProfileMeaning(profile) == [profile EXCEPT !.profileId = <<>>]

(* ---------------- reading and writing profiles ---------------- *)

Typed(doc, shape, Valid(_)) ==
    LET read == Read(shape, doc) IN
    IF read = <<>> THEN Fault("json") ELSE IF Valid(read[1]) THEN Value(read[1]) ELSE Fault("profile")
DecodeNumeric(doc) == Typed(doc, NumericProfile, NumericValid)
DecodeScale(doc) == Typed(doc, PhysicalScaleProfile, ScaleValid)
EncodeScale(profile) == Written(PhysicalScaleProfile, profile)
DecodeBalance_BodyFirst(doc) == Typed(doc, BalanceProfile, BalanceValid)
DecodeBalance(doc) ==
    LET envelope == Read(BalanceSchemaEnvelope, doc) IN
    IF envelope = <<>> THEN Fault("json")
    ELSE IF envelope[1].schemaVersion \notin 2..5 THEN Fault("version")
    ELSE Typed(doc, BalanceProfile, BalanceValid)

(* ---------------- the forms of scenarios and plans ---------------- *)

HashText == Word(<<"h1", "h2", "h3">>, <<1, 2, 3>>)
SeedText == Word(<<"00", "01">>, <<0, 1>>)
AlgorithmText == Text(<<"blake3-v1">>)
NameText == Word(<<"", " ", "a", "b">>, << <<>>, <<0>>, <<1>>, <<2>> >>)
PathText == Text(<<"a/b.json", "c.json", "", "/a", "a\\b">>)
StageText == Text(<<"S1-M0">>)

LegacyFeatures == {"signal", "mobility", "capacity", "sensing", "power", "relay", "payload", "radiation"}
LaterFeatures == {"construction", "contact", "damage"}
StageFeatureSetLegacyWire == Struct(AllOf(LegacyFeatures, Flag))
StageFeatureSetV4Wire == Struct(AllOf(LegacyFeatures \cup LaterFeatures, Flag))
FixedVec2Wire == Struct([x |-> I64, y |-> I64])
MainCoreInitialWire == Struct([position |-> FixedVec2Wire, integrity |-> U64, heatEnergy |-> U64])
PowerSourceInitialWire == Struct([position |-> FixedVec2Wire, generationPerTick |-> U64])
EnemyInitialWire ==
    Struct([position |-> FixedVec2Wire, velocityPerTick |-> FixedVec2Wire, radius |-> I64, integrity |-> U64,
            heatEnergy |-> U64])
InitialWorldWire ==
    Tagged("kind", << <<"empty", 1, NoFields>>, <<"main-core-v1", 2, MainCoreInitialWire.fields>>,
                      <<"main-core-power-v1", 3, [mainCore |-> MainCoreInitialWire,
                                                  powerSources |-> List(PowerSourceInitialWire)]>>,
                      <<"main-core-power-enemy-v1", 4, [mainCore |-> MainCoreInitialWire,
                                                        powerSources |-> List(PowerSourceInitialWire),
                                                        enemies |-> List(EnemyInitialWire)]>> >>)
ProfileReferenceWire == Struct([path |-> PathText, profileId |-> NameText, profileHash |-> HashText])
ProfileReferencesWire == Struct(AllOf({"numeric", "physicalScale", "balance"}, ProfileReferenceWire))
ScenarioWire(features) ==
    Struct([schemaVersion |-> U32, scenarioId |-> NameText, semanticsVersion |-> Text(<<"aon-semantics-v1">>),
            hashAlgorithm |-> AlgorithmText, initialWorld |-> InitialWorldWire, requiredFeatures |-> features,
            profiles |-> ProfileReferencesWire])
ScenarioWireLegacy == ScenarioWire(StageFeatureSetLegacyWire)
ScenarioWireV4 == ScenarioWire(StageFeatureSetV4Wire)
ScenarioSchemaEnvelope == Envelope([schemaVersion |-> U32])

ArtifactReferenceWire == Struct([path |-> PathText, artifactHash |-> HashText])
GateGeometryWire == Struct([gateFootprints |-> GateFootprintTable, gatePortAnchors |-> GatePortTable])
PhysicalScaleMatrixWire ==
    Struct([gateGeometries |-> List(GateGeometryWire), circuitRoutingPitches |-> List(I64),
            worldRoutingPitches |-> List(I64)])
ExperimentPlanWire ==
    Struct([formatVersion |-> U32, hashAlgorithmId |-> AlgorithmText, experimentId |-> NameText, stage |-> StageText,
            scenario |-> ArtifactReferenceWire, longWireDesignDerivationVersion |-> U32,
            basePhysicalScaleProfile |-> ProfileReferenceWire, numericProfiles |-> List(ProfileReferenceWire),
            physicalScaleMatrix |-> PhysicalScaleMatrixWire, balanceProfiles |-> List(ProfileReferenceWire),
            longWireDistances |-> List(I64), seeds |-> List(SeedText), maxTicks |-> U64, metricSetId |-> NameText])

NameValid(name) == \E i \in DOMAIN name : name[i] # 0

(* ---------------- a scenario ---------------- *)

Key(p) == <<p.x, p.y>>
LexKey(k, l) == \E i \in DOMAIN k : k[i] < l[i] /\ \A j \in 1..(i - 1) : k[j] = l[j]
SourceKey(s) == Key(s.position) \o <<s.generationPerTick>>
EnemyKey(e) == Key(e.position) \o Key(e.velocityPerTick) \o <<e.radius, e.integrity, e.heatEnergy>>
SourceBefore(a, b) == LexKey(SourceKey(a), SourceKey(b))
EnemyBefore(a, b) == LexKey(EnemyKey(a), EnemyKey(b))
Cores(world) ==
    CASE world.variant = 1 -> {} [] world.variant = 2 -> {world} [] OTHER -> {world.mainCore}
Sources(world) == IF world.variant \in {3, 4} THEN world.powerSources ELSE <<>>
Enemies(world) == IF world.variant = 4 THEN world.enemies ELSE <<>>

\* Worlds are kept in order; an older scenario asks for none of the later features.
Ordered(scenario) ==
    LET world == scenario.initialWorld
        Kept(list) == IF list = "powerSources" THEN SortSeq(world[list], SourceBefore)
                      ELSE IF list = "enemies" THEN SortSeq(world[list], EnemyBefore) ELSE world[list]
    IN  [scenario EXCEPT !.initialWorld = [field \in DOMAIN world |-> Kept(field)],
                         !.requiredFeatures = @ @@ AllOf(LaterFeatures, FALSE)]

Fits(n) == n \in (-Wide - 1)..Wide
WorldValid(world) ==
    /\ \A core \in Cores(world) : core.integrity > 0
    /\ \A i \in DOMAIN Sources(world) : Sources(world)[i].generationPerTick > 0
    /\ \A i, j \in DOMAIN Sources(world) : Sources(world)[i].position = Sources(world)[j].position => i = j
    /\ world.variant = 4 => Enemies(world) # <<>>
    /\ \A i \in DOMAIN Enemies(world) :
          LET enemy == Enemies(world)[i] IN
          /\ enemy.radius > 0 /\ enemy.integrity > 0
          /\ Fits(enemy.position.x + enemy.velocityPerTick.x) /\ Fits(enemy.position.y + enemy.velocityPerTick.y)
    /\ \A i, j \in DOMAIN Enemies(world) : Enemies(world)[i] = Enemies(world)[j] => i = j
ReferenceValid(reference) == reference.path # "" /\ NameValid(reference.profileId)
\* decode_scenario_manifest, after the body is read.
ScenarioValid(scenario) ==
    /\ NameValid(scenario.scenarioId)
    /\ scenario.initialWorld.variant = scenario.schemaVersion
    /\ WorldValid(scenario.initialWorld)
    /\ scenario.schemaVersion = 4 =>
          \A feature \in (LegacyFeatures \ {"relay", "payload", "radiation"}) \cup LaterFeatures :
              scenario.requiredFeatures[feature]
    /\ \A name \in DOMAIN scenario.profiles : ReferenceValid(scenario.profiles[name])

Bit(flag) == IF flag THEN 1 ELSE 0
Counted(keys) == <<Len(keys)>> \o FlattenSeq(keys)
WorldBytes(world) ==
    <<world.variant>>
    \o FlattenSeq(SetToSeq({Key(core.position) \o <<core.integrity, core.heatEnergy>> : core \in Cores(world)}))
    \o (IF world.variant \in {3, 4} THEN Counted([i \in DOMAIN Sources(world) |-> SourceKey(Sources(world)[i])]) ELSE <<>>)
    \o (IF world.variant = 4 THEN Counted([i \in DOMAIN Enemies(world) |-> EnemyKey(Enemies(world)[i])]) ELSE <<>>)
\* The flags of a schema: eight, or eleven.
FeatureBytes(scenario) ==
    LET Bits(features) ==
            FoldSet(LAMBDA name, bytes : Append(bytes, Bit(scenario.requiredFeatures[name])), <<>>, features)
    IN  Bits(LegacyFeatures) \o (IF scenario.schemaVersion = 4 THEN Bits(LaterFeatures) ELSE <<>>)
\* canonical_hash, of a scenario in order.
ScenarioBytes(scenario) ==
    <<scenario.schemaVersion, Len(scenario.scenarioId)>> \o scenario.scenarioId
    \o WorldBytes(scenario.initialWorld) \o FeatureBytes(scenario)
    \o <<scenario.profiles.numeric.profileHash, scenario.profiles.physicalScale.profileHash,
         scenario.profiles.balance.profileHash>>
\* A scenario without the paths and the names of its profiles.
ScenarioMeaning(scenario) ==
    [scenario EXCEPT !.profiles = [name \in DOMAIN @ |-> @[name].profileHash]]

ScenarioSchemas == 1..4
ScenarioBody(doc, shape) ==
    LET wire == Read(shape, doc) IN
    IF wire = <<>> THEN Fault("json")
    ELSE IF ScenarioValid(wire[1]) THEN Value(Ordered(wire[1])) ELSE Fault("scenario")
DecodeScenario_OneBody(doc) ==
    LET envelope == Read(ScenarioSchemaEnvelope, doc) IN
    IF envelope = <<>> THEN Fault("json")
    ELSE IF envelope[1].schemaVersion \notin ScenarioSchemas THEN Fault("version")
    ELSE ScenarioBody(doc, ScenarioWireLegacy)
DecodeScenario(doc) ==
    LET envelope == Read(ScenarioSchemaEnvelope, doc) IN
    IF envelope = <<>> THEN Fault("json")
    ELSE IF envelope[1].schemaVersion \notin ScenarioSchemas THEN Fault("version")
    ELSE ScenarioBody(doc, IF envelope[1].schemaVersion = 4 THEN ScenarioWireV4 ELSE ScenarioWireLegacy)

(* ---------------- a plan ---------------- *)

\* validate_artifact_path, and that an id is not blank.
PathValid(path) == path \in {"a/b.json", "c.json"}
NamedValid(reference) == PathValid(reference.path) /\ NameValid(reference.profileId)
PlanValid(plan) ==
    /\ plan.longWireDesignDerivationVersion = 1
    /\ NameValid(plan.experimentId) /\ NameValid(plan.metricSetId)
    /\ <<>> \notin {plan.numericProfiles, plan.balanceProfiles, plan.longWireDistances, plan.seeds}
    /\ \A axis \in DOMAIN plan.physicalScaleMatrix : plan.physicalScaleMatrix[axis] # <<>>
    /\ plan.maxTicks > 0
    /\ PathValid(plan.scenario.path) /\ NamedValid(plan.basePhysicalScaleProfile)
    /\ \A i \in DOMAIN plan.numericProfiles : NamedValid(plan.numericProfiles[i])
    /\ \A i \in DOMAIN plan.balanceProfiles : NamedValid(plan.balanceProfiles[i])

\* By hash, then path, then name; paths by their place among the words.
PathRank(path) == CHOOSE i \in DOMAIN PathText.wire : PathText.wire[i] = path
ReferenceBefore(r, s) ==
    \/ LexKey(<<r.profileHash, PathRank(r.path)>>, <<s.profileHash, PathRank(s.path)>>)
    \/ r.profileHash = s.profileHash /\ r.path = s.path /\ LexLess(r.profileId, s.profileId)
\* gate_geometry_key: all numbers of a geometry, here the footprint of the and gate.
GeometryBefore(g, h) ==
    LexKey(<<g.gateFootprints["and"].width, g.gateFootprints["and"].height>>,
           <<h.gateFootprints["and"].width, h.gateFootprints["and"].height>>)
PlanOrdered(plan) ==
    [plan EXCEPT !.numericProfiles = SortSeq(@, ReferenceBefore), !.balanceProfiles = SortSeq(@, ReferenceBefore),
                 !.longWireDistances = SortSeq(@, <), !.seeds = SortSeq(@, <),
                 !.physicalScaleMatrix = [gateGeometries |-> SortSeq(@.gateGeometries, GeometryBefore),
                                          circuitRoutingPitches |-> SortSeq(@.circuitRoutingPitches, <),
                                          worldRoutingPitches |-> SortSeq(@.worldRoutingPitches, <)]]

PlanFormats == {1}
DecodePlan(doc) ==
    LET wire == Read(ExperimentPlanWire, doc) IN
    IF wire = <<>> THEN Fault("json")
    ELSE IF wire[1].formatVersion \notin PlanFormats THEN Fault("version")
    ELSE IF PlanValid(wire[1]) THEN Value(wire[1]) ELSE Fault("plan")
EncodePlan(plan) == Written(ExperimentPlanWire, PlanOrdered(plan))

(* ---------------- the words of a replay ---------------- *)

GateTypeWire == Word(<<"and", "or", "not">>, <<"And", "Or", "Not">>)
GatePortWire == Word(<<"input-a", "input-b", "output", "power">>, <<"InputA", "InputB", "Output", "Power">>)
MobilePortWire == Word(<<"stop", "left", "right", "build">>, <<"Stop", "Left", "Right", "Build">>)
WireEndWire == Word(<<"a", "b">>, <<"A", "B">>)
LogicLevelWire == Word(<<"low", "high", "x">>, <<"Low", "High", "X">>)

ReplayFormatVersion == {1, 2}
StateHashVersion == Text(<<"aon-state-v3", "aon-state-v4", "aon-state-v5", "aon-state-v6", "aon-state-v7">>)
WorldGeneratorVersion ==
    Word(<<"aon-empty-v1", "aon-main-core-v1", "aon-main-core-power-v1", "aon-main-core-power-enemy-v1">>,
         <<"EmptyV1", "MainCoreV1", "MainCorePowerV1", "MainCorePowerEnemyV1">>)
ReplayHashText == Text(<<"h1", "h2">>)
\* Portable: relative, and without a separator or a drive of Windows.
ReplayPathText == Text(<<"a/b.json", "", "/a", "a\\b", "C:a">>)
PortablePaths == {"a/b.json"}

(* ---------------- the structures of a replay ---------------- *)

PointWire == Struct([x |-> I64, y |-> I64])
AabbWire == Struct([min |-> PointWire, max |-> PointWire])

RoutingDomainWire ==
    Tagged("kind", << <<"open-world", "OpenWorld", NoFields>>,
                      <<"fixed-substrate", "FixedSubstrate", [substrate |-> U64]>>,
                      <<"mobile-substrate", "MobileSubstrate", [substrate |-> U64]>> >>)

EndpointTargetWire ==
    Tagged("kind", << <<"free", "Free", NoFields>>,
                      <<"junction", "Junction", [junction |-> U64]>>,
                      <<"gate-port", "GatePort", [gate |-> U64, port |-> GatePortWire]>>,
                      <<"mobile-port", "MobilePort", [mobile |-> U64, port |-> MobilePortWire]>>,
                      <<"main-core-anchor", "MainCoreAnchor", [mainCore |-> U64]>>,
                      <<"power-source-anchor", "PowerSourceAnchor", [power_source |-> U64]>>,
                      <<"wire-sense-port", "WireSensePort", [wire |-> U64, end |-> WireEndWire]>> >>)

ConstructionTargetWire ==
    Tagged("kind", << <<"gate", "Gate", [gateType |-> GateTypeWire, origin |-> PointWire,
                                         routingDomain |-> RoutingDomainWire]>>,
                      <<"wire", "Wire", [routingDomain |-> RoutingDomainWire, points |-> List(PointWire),
                                         endpointA |-> EndpointTargetWire, endpointB |-> EndpointTargetWire]>>,
                      <<"junction", "Junction", [routingDomain |-> RoutingDomainWire, position |-> PointWire]>>,
                      <<"fixed-substrate", "FixedSubstrate", [origin |-> PointWire, routingArea |-> AabbWire,
                                                              footprint |-> AabbWire]>> >>)

CommandWire ==
    Tagged("type", << <<"place-gate", "PlaceGate", [gateType |-> GateTypeWire, origin |-> PointWire,
                                                    routingDomain |-> RoutingDomainWire]>>,
                      <<"place-wire", "PlaceWire", [routingDomain |-> RoutingDomainWire, points |-> List(PointWire),
                                                    endpointA |-> EndpointTargetWire,
                                                    endpointB |-> EndpointTargetWire]>>,
                      <<"place-junction", "PlaceJunction", [routingDomain |-> RoutingDomainWire,
                                                            position |-> PointWire]>>,
                      <<"place-fixed-substrate", "PlaceFixedSubstrate",
                            [origin |-> PointWire, routingArea |-> AabbWire, footprint |-> AabbWire]>>,
                      <<"place-mobile-substrate", "PlaceMobileSubstrate",
                            [origin |-> PointWire, routingArea |-> AabbWire, footprint |-> AabbWire]>>,
                      <<"remove-entity", "RemoveEntity", [target |-> U64]>>,
                      <<"bind-port", "BindPort", [wire |-> U64, end |-> WireEndWire, target |-> EndpointTargetWire]>>,
                      <<"set-external-driver", "SetExternalDriver",
                            [driver |-> U64, level |-> LogicLevelWire, strength |-> U64]>>,
                      <<"place-construction-site", "PlaceConstructionSite", [target |-> ConstructionTargetWire]>> >>)

CommandEnvelopeWire == Struct([targetTick |-> U64, ordinal |-> U64, command |-> CommandWire])
HashCheckpointWire == Struct([nextTick |-> U64, stateHash |-> ReplayHashText])
HostileColliderWire == Struct([id |-> U64, center |-> PointWire, radius |-> I64])
WorldInputEventWire ==
    Tagged("type", << <<"hostile-frame", "HostileFrame", [targetTick |-> U64, hostiles |-> List(HostileColliderWire)]>> >>)
ReplayHeaderWire ==
    Struct([formatVersion |-> U32, semanticsVersion |-> Text(<<"aon-semantics-v1">>),
            numericProfileHash |-> ReplayHashText, physicalScaleProfileHash |-> ReplayHashText, balanceProfileHash |-> ReplayHashText,
            stateHashVersion |-> StateHashVersion, worldGeneratorVersion |-> WorldGeneratorVersion,
            seed |-> SeedText, initialStateHash |-> ReplayHashText, hashAlgorithmId |-> Text(<<"blake3-v1">>)])
\* World inputs are kept raw until the header has said which format this is.
ReplayArtifactWire ==
    Struct([scenarioPath |-> ReplayPathText, header |-> ReplayHeaderWire, commands |-> List(CommandEnvelopeWire),
            worldInputs |-> List(Raw(WorldInputEventWire)), checkpoints |-> List(HashCheckpointWire)])
ReplayArtifactEncodeWire ==
    Struct([ReplayArtifactWire.fields EXCEPT !.worldInputs = List(WorldInputEventWire)])
ReplayArtifactFormatEnvelope == Envelope([header |-> Envelope([formatVersion |-> U32])])

(* ---------------- the order a replay is kept in ---------------- *)

\* Commands of one tick and ordinal would be told apart by their bytes; the
\* files enumerated here hold no such pair.
CommandBefore(c, d) == c.targetTick < d.targetTick \/ (c.targetTick = d.targetTick /\ c.ordinal < d.ordinal)
NormalizedInput(input) ==
    LET ById(h, k) == h.id < k.id IN [input EXCEPT !.hostiles = SortSeq(@, ById)]
Normalized(artifact) ==
    LET ByTick(i, j) == i.targetTick < j.targetTick IN
    [artifact EXCEPT !.commands = SortSeq(@, CommandBefore),
                     !.worldInputs = SortSeq([i \in DOMAIN @ |-> NormalizedInput(@[i])], ByTick)]

(* ---------------- the shape a replay must have ---------------- *)

WorldInputsValid(inputs) ==
    /\ \A i \in DOMAIN inputs : i > 1 => inputs[i - 1].targetTick # inputs[i].targetTick
    /\ \A i \in DOMAIN inputs :
          LET hostiles == inputs[i].hostiles IN
          \A j \in DOMAIN hostiles :
              /\ hostiles[j].id # 0 /\ hostiles[j].radius >= 0
              /\ j > 1 => hostiles[j - 1].id # hostiles[j].id

ShapeValid(artifact) ==
    LET header == artifact.header
        checkpoints == artifact.checkpoints
        commands == artifact.commands
        inputs == artifact.worldInputs
    IN  /\ header.formatVersion = 1 =>
              /\ \A i \in DOMAIN commands : commands[i].command.variant # "PlaceConstructionSite"
              /\ inputs = <<>>
        /\ header.seed = 0
        /\ header.formatVersion = 2 => WorldInputsValid(inputs)
        /\ checkpoints # <<>>
        /\ checkpoints[1].nextTick = 0 /\ checkpoints[1].stateHash = header.initialStateHash
        /\ \A i \in DOMAIN checkpoints : i > 1 => checkpoints[i - 1].nextTick < checkpoints[i].nextTick
        /\ Last(checkpoints).nextTick < Wide
        /\ \A i \in DOMAIN commands : commands[i].targetTick < Last(checkpoints).nextTick
        /\ \A i \in DOMAIN inputs : inputs[i].targetTick < Last(checkpoints).nextTick

(* ---------------- reading and writing a replay ---------------- *)

DecodedInputs(artifact) == Allowed([i \in DOMAIN artifact.worldInputs |-> Read(WorldInputEventWire, artifact.worldInputs[i])])

\* The TryFrom of the body, in its order.
ReplayOf(wire) ==
    LET inputs == IF wire.header.formatVersion = 1 THEN << <<>> >> ELSE DecodedInputs(wire)
        replay == Normalized([wire EXCEPT !.worldInputs = inputs[1]])
    IN  IF wire.header.formatVersion = 1 /\ wire.worldInputs # <<>> THEN Fault("inputs")
        ELSE IF inputs = <<>> THEN Fault("json")
        ELSE IF ~ShapeValid(replay) THEN Fault("shape")
        ELSE IF replay.scenarioPath \notin PortablePaths THEN Fault("path")
        ELSE Value(replay)

ReplayBody(doc) ==
    LET wire == Read(ReplayArtifactWire, doc) IN
    IF wire = <<>> THEN Fault("json") ELSE ReplayOf(wire[1])

DecodeReplay_BodyFirst(doc) == ReplayBody(doc)
DecodeReplay_AsWritten(doc) ==
    LET wire == Read(ReplayArtifactEncodeWire, doc) IN
    IF wire = <<>> THEN Fault("json") ELSE Value(wire[1])
\* The format is read before the body, so that a file of a later format is told
\* as such whatever else it holds.
DecodeReplay(doc) ==
    LET envelope == Read(ReplayArtifactFormatEnvelope, doc) IN
    IF envelope = <<>> THEN Fault("json")
    ELSE IF envelope[1].header.formatVersion \notin ReplayFormatVersion THEN Fault("version")
    ELSE ReplayBody(doc)

EncodeReplay(artifact) == Written(ReplayArtifactEncodeWire, artifact)
====
