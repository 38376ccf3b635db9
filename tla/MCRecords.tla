----------------------------- MODULE MCRecords ------------------------------
(***************************************************************************)
(* What is written down about a run and read back: eight parts, and a      *)
(* behaviour stays in the part it starts in.  The parts share six          *)
(* variables; what a part does not use stays 0.                            *)
(*   materials    a design, or a pair of them, is built step by step       *)
(*   metrics      a collector reduces the reports of a run of three ticks  *)
(*   scenarios    a scenario and a balance are decoded, packed and started *)
(*   pairs        a pair of designs is planned, bound and observed         *)
(*   plans        the axes of an experiment become its runs                *)
(*   output       two runners publish into one directory                   *)
(*   encoding     the bytes of a state                                     *)
(*   files        a file of every kind is written, changed and read        *)
(***************************************************************************)
EXTENDS ReferenceArchitecture, TLC

-----------------------------------------------------------------------------
\* designs to be built

Wire(id, domain, a, b, from, to) == Operation(id, "wire", domain, "none", <<from, to>>, <<a, b>>)
Point(id, kind, domain, type) == Operation(id, kind, domain, type, <<id>>, <<>>)
Source(n) == Endpoint("powerSource", n, "none")
Core == Endpoint("mainCore", 0, "none")
To(kind, id, port) == Endpoint(kind, id, port)

\* Wire 1 may hang on everything; what 2, 3 and 4 are decides whether it can.
Firsts ==
    {Wire(1, d, a, b, from, 4) :
        d \in {Open, In("mobile", 4)}, from \in {2, 3},
        a \in {Free, To("junction", 2, "none"), To("sensePort", 3, "a"), Source(0)},
        b \in {Free, Source(1), Source(2), Core, To("mobilePort", 4, "out"), To("gatePort", 3, "inputB")}}
Seconds == {Point(2, "junction", Open, "none"), Point(2, "junction", In("mobile", 4), "none"),
            Point(2, "gate", In("fixed", 3), "and")}
Thirds == {Point(3, "fixed", Open, "none"), Point(3, "gate", In("mobile", 4), "not"),
           Wire(3, Open, Free, Source(0), 3, 9)}
Fourths == {Point(4, "mobile", Open, "none"), Point(4, "fixed", Open, "none")}

Ordered(bindings) == SetToSortSeq(bindings, Before)
\* Every way of spreading the bound ends over at most two stages, and none.
Schedules(art) ==
    LET ends == BoundEnds(art) IN
    {<<>>} \cup {<<Ordered(ends \ late), Ordered(late)>> : late \in SUBSET ends}
    \cup {<<Ordered(ends)>>} \cup {<<Reverse(Ordered(ends))>>}
    \cup {<<Ordered(ends \ late), <<>>, Ordered(late)>> : late \in SUBSET ends}

Bare(ops) == [format |-> 1, operations |-> ops, schedule |-> <<>>, roles |-> <<>>, observations |-> <<>>]
Designs1 ==
    {Bare(<<w, x, y, z>>) : w \in Firsts, x \in Seconds, y \in Thirds, z \in Fourths}
Designs2 == UNION {{[d EXCEPT !.format = 2, !.schedule = s] : s \in Schedules(d)} :
                   d \in {e \in Designs1 : ReferencesExist(e)}}
Alone == {[side \in {"left"} |-> d] : d \in Designs1 \cup Designs2}

\* Four designs to be built as pairs: their phases and stages differ.
Staged(ops, late) ==
    LET d == Bare(ops) IN
    [d EXCEPT !.format = 2, !.schedule = IF late = {} THEN <<Ordered(BoundEnds(d))>>
                                         ELSE <<Ordered(BoundEnds(d) \ late), Ordered(late)>>]
End(wire, end) == [wire |-> wire, end |-> end]
Companions ==
    {Staged(<<Wire(1, Open, To("junction", 2, "none"), Source(1), 2, 4), Point(2, "junction", Open, "none")>>,
            {End(1, "b")}),
     Staged(<<Wire(1, In("mobile", 4), To("mobilePort", 4, "out"), Source(0), 4, 2), Point(4, "mobile", Open, "none")>>,
            {End(1, "b")}),
     Staged(<<Wire(1, Open, Source(0), Source(1), 2, 4), Point(3, "fixed", Open, "none")>>, {End(1, "b")}),
     Staged(<<Wire(1, Open, Source(0), Core, 2, 4)>>, {})}
Pairs == [{"left", "right"} -> Companions]

MCAnchors == [sources |-> 2, enemies |-> 1]
MCOffers == Alone \cup Pairs

-----------------------------------------------------------------------------
\* the samples of a run: a plain one, and one thing changed at a time or two
PlainContent ==
    [complete |-> TRUE, present |-> {"r", "s"}, energy |-> 1, brownout |-> FALSE, used |-> 1,
     sensed |-> {}, touched |-> {}, killed |-> {}, lapse |-> "none"]
MCContents ==
    {PlainContent}
    \cup {[PlainContent EXCEPT !.sensed = s, !.touched = t] : s \in SUBSET {"r", "s"}, t \in SUBSET {"r", "s"}}
    \cup {[PlainContent EXCEPT !.energy = e, !.used = u, !.brownout = e = 2] : e \in {0, 2}, u \in {0, 2}}
    \cup {[PlainContent EXCEPT !.killed = {k}] : k \in {"e", "x"}}
    \cup {[PlainContent EXCEPT !.lapse = l] : l \in {"repeated", "skipped", "foreign"}}
    \cup {[PlainContent EXCEPT !.complete = FALSE], [PlainContent EXCEPT !.present = {"r"}]}

-----------------------------------------------------------------------------
\* scenarios and balance profiles
AllProfiles == {"numeric", "physicalScale", "balance"}
AllFeatures == {"signal", "mobility", "capacity", "sensing", "power", "construction", "contact", "damage"}
KindOf == <<"empty", "core", "power", "enemy">>
FeaturesOf ==
    <<{"signal"}, {"capacity", "signal"}, {"signal", "mobility", "capacity", "sensing", "power"}, AllFeatures>>
SourceAt(at, generation) == [at |-> at, generation |-> generation]
EnemyAt(at, velocity, radius, integrity) ==
    [at |-> at, velocity |-> velocity, radius |-> radius, integrity |-> integrity]
Newest ==
    [schema |-> 4, kind |-> "enemy", core |-> [at |-> 0, integrity |-> 4],
     sources |-> <<SourceAt(4, 1), SourceAt(2, 3)>>, enemies |-> <<EnemyAt(4, 2, 2, 3)>>,
     features |-> AllFeatures, named |-> AllProfiles, hashed |-> AllProfiles]
OfSchema(n) == [Newest EXCEPT !.schema = n, !.kind = KindOf[n], !.features = FeaturesOf[n]]
MostProfiles == {AllProfiles} \cup {AllProfiles \ {p} : p \in AllProfiles}
SomeSources ==
    {SourceAt(a, g) : a \in {2, 4}, g \in {1, 3}} \cup {SourceAt(3, 1), SourceAt(2, 0)}
SomeEnemies == {EnemyAt(a, v, 2, 3) : a \in {4, 8}, v \in {0, 2}}
UpToTwo(S) == {<<>>} \cup {<<a>> : a \in S} \cup {<<a, b>> : a \in S, b \in S}
MCScenarios ==
    {[OfSchema(n) EXCEPT !.kind = KindOf[k]] : n \in 1..4, k \in 1..4}
    \cup {[Newest EXCEPT !.sources = <<s, t>>, !.enemies = e] : s \in SomeSources, t \in SomeSources, e \in UpToTwo(SomeEnemies)}
    \cup {[OfSchema(3) EXCEPT !.sources = <<s, t>>] : s \in SomeSources, t \in SomeSources}
    \cup {[OfSchema(n) EXCEPT !.features = f] :
             n \in 1..4, f \in Range(FeaturesOf) \cup {AllFeatures \cup {"relay"}, AllFeatures \ {"damage"}}}
    \cup {[OfSchema(n) EXCEPT !.core = [at |-> a, integrity |-> i]] : n \in 1..4, a \in {0, 1}, i \in {0, 2, 4}}
    \cup {[Newest EXCEPT !.enemies = <<EnemyAt(a, v, r, i)>>] :
             a \in {4, 5, 8}, v \in {-2, 0, 1, 4}, r \in {0, 1, 2}, i \in {0, 2, 3}}
    \cup {[OfSchema(n) EXCEPT !.named = a, !.hashed = h] : n \in 1..4, a \in MostProfiles, h \in MostProfiles}
AllProbes == {"capacity", "power", "support", "construction", "contact"}
MCBalances ==
    {[schema |-> n, probes |-> p, capacity |-> 2, core |-> 4, enemy |-> 3] :
        n \in 2..5, p \in {{}, {"power"}, {"capacity"}, {"capacity", "power"}, {"capacity", "power", "support"}, AllProbes}}
    \cup {[schema |-> 5, probes |-> AllProbes, capacity |-> c, core |-> k, enemy |-> 3] : c \in {0, 2, 9}, k \in {2, 4}}

-----------------------------------------------------------------------------
\* pairs of designs, their metric sets, and what may be wrong with them
FreeWire(id) == Operation(id, "wire", Open, "none", <<id, 9 + id>>, <<Free, Free>>)
PairOperations == <<FreeWire(1), FreeWire(2), FreeWire(3), Operation(4, "junction", Open, "none", <<4>>, <<>>)>>
Named(name, target) == [name |-> name, target |-> target]
SensorName == <<<<"sensor", "east", "0">>, <<"sensor", "east", "1">>>>
DefenseName == <<<<"defense", "east", "0">>, <<"defense", "east", "1">>>>
PairDesign(d, e, s, t) ==
    [format |-> 1, operations |-> PairOperations, schedule |-> <<>>,
     roles |-> <<Named(DefenseName[1], d), Named(DefenseName[2], e),
                 Named(<<"trunk", "east">>, Endpoint("local", 3, "none"))>>,
     observations |-> <<Named(SensorName[1], s), Named(SensorName[2], t)>>]
Locals == {Endpoint("local", id, "none") : id \in {1, 2, 4}}
Senses == {Endpoint("sensePort", 1, "a"), Endpoint("sensePort", 1, "b"), Endpoint("sensePort", 3, "a"),
           Endpoint("local", 1, "none")}
PairDesigns ==
    {art \in {PairDesign(d, e, s, t) : d \in Locals, e \in Locals, s \in Senses, t \in Senses} : IsCanonical(art)}
PlainDesign == PairDesign(Endpoint("local", 2, "none"), Endpoint("local", 2, "none"),
                          Endpoint("sensePort", 1, "a"), Endpoint("sensePort", 1, "b"))
MetricRow(n, enemy) == [name |-> n, entry |-> SensorName[n], defense |-> DefenseName[n], enemy |-> enemy]
MetricSets ==
    {<<MetricRow(1, 0)>>, <<MetricRow(1, 0), MetricRow(2, 0)>>, <<MetricRow(1, 0), MetricRow(2, 1)>>,
     <<MetricRow(1, 0), [MetricRow(2, 1) EXCEPT !.entry = SensorName[1]]>>}
BindingRow(row) == [name |-> row.name, entry |-> row.entry, defense |-> row.defense]
BindingsFor(metrics) ==
    IF Len(metrics) = 1 THEN <<BindingRow(metrics[1])>> ELSE <<BindingRow(metrics[1]), BindingRow(metrics[2])>>
Design(role, hash, log) == [role |-> role, hash |-> hash, log |-> log]
UsualDesigns == <<Design("brute", 1, 1), Design("computed", 2, 2)>>
DesignLists ==
    {UsualDesigns, <<Design("brute", 2, 1), Design("computed", 1, 2)>>,
     <<Design("computed", 1, 1), Design("brute", 2, 2)>>,
     <<Design("brute", 1, 1), Design("computed", 1, 2)>>, <<Design("brute", 1, 1), Design("computed", 2, 1)>>}
PairOf(bindings, designs, build, start) ==
    [bindings |-> bindings, designs |-> designs, build |-> build, start |-> start, max |-> 4, setting |-> "same"]
UsualPair(metrics) == PairOf(BindingsFor(metrics), UsualDesigns, 1, 2)
CaseOf(pair, metrics, brute, computed, hashes, enemies, actual) ==
    [pair |-> pair, metrics |-> metrics, actual |-> actual, scenario |-> [sources |-> 1, enemies |-> enemies],
     designs |-> [brute |-> [art |-> brute, hash |-> hashes[1]], computed |-> [art |-> computed, hash |-> hashes[2]]]]
PlainCase(pair, metrics) == CaseOf(pair, metrics, PlainDesign, PlainDesign, <<1, 2>>, 1, "same")
MCCases ==
    {CaseOf(UsualPair(m), m, art, PlainDesign, <<1, 2>>, n, "same") : m \in MetricSets, art \in PairDesigns, n \in {1, 2}}
    \cup {CaseOf(UsualPair(m), m, PlainDesign, art, <<1, 2>>, n, "same") : m \in MetricSets, art \in PairDesigns, n \in {1, 2}}
    \cup {CaseOf(PairOf(BindingsFor(m), l, b, s), m, PlainDesign, PlainDesign, h, 1, a) :
             m \in MetricSets, l \in DesignLists, b \in {1, 3}, s \in {2, 4}, a \in {"same", "other"}, h \in {<<1, 2>>, <<2, 1>>}}
    \cup {PlainCase(UsualPair(m), k) : m \in MetricSets, k \in MetricSets}
    \cup {PlainCase([UsualPair(<<MetricRow(1, 0)>>) EXCEPT !.bindings[1].defense[2] = sector], <<MetricRow(1, 0)>>) :
             sector \in {"west", "up"}}
MCLengthOf == <<5, 3, 2>>

-----------------------------------------------------------------------------
\* experiment plans
Reference(id, hash) == [id |-> id, hash |-> hash]
SomeReferences == UpToTwo({Reference(1, 1), Reference(1, 2), Reference(2, 1)})
PlainAxes ==
    [geometry |-> <<2>>, circuit |-> <<2>>, world |-> <<2>>, distance |-> <<4>>, seed |-> <<1>>,
     numeric |-> <<Reference(1, 1)>>, balance |-> <<Reference(1, 1)>>]
PlanWith(axes) ==
    [axes |-> axes, supplied |-> [numeric |-> axes.numeric, balance |-> axes.balance],
     scenario |-> [numeric |-> Reference(1, 1), balance |-> Reference(1, 1)], ticks |-> 1]
MCPlans ==
    {PlanWith([PlainAxes EXCEPT !.world = w, !.distance = d, !.circuit = c]) :
        w \in UpToTwo({2, 4, 3, 0}), d \in UpToTwo({4, 8, 6, 0}), c \in UpToTwo({2, 4})}
    \cup {PlanWith([PlainAxes EXCEPT !.geometry = g, !.seed = s, !.numeric = n, !.balance = b]) :
             g \in {<<4, 2>>, <<2, 4>>, <<4, 2, 6>>, <<2, 3>>}, s \in UpToTwo({1, 2}), n \in SomeReferences, b \in SomeReferences}
    \cup {[PlanWith(PlainAxes) EXCEPT !.ticks = 0], [PlanWith(PlainAxes) EXCEPT !.supplied.numeric = <<Reference(1, 2)>>],
          [PlanWith(PlainAxes) EXCEPT !.scenario.balance = Reference(1, 2)]}

-----------------------------------------------------------------------------
(* States to be encoded, part by part: for every field at least two values in
   some record, for every option with and without, for every list none, one and
   two, and every store in both orders. *)

AtMostOne(S) == {<<>>} \cup {<<x>> : x \in S}
AtMostTwo(S) == AtMostOne(S) \cup {<<x, y>> : x \in S, y \in S}
Bits == {0, 1}
Middle == <<0, 0>>
Spots == {Middle, <<-1, 0>>, <<0, 12>>}
Square == <<<<-1, -1>>, <<1, 1>>>>
Lines == {<<spot, Middle>> : spot \in Spots} \cup {<<Middle, Middle, Middle>>}

InOpen == [space |-> "open", id |-> 0]
SomeDomains == {InOpen, [space |-> "fixed", id |-> 0], [space |-> "mobile", id |-> 1]}
BoundTo(to, id, port) == [to |-> to, id |-> id, port |-> port]
FreeEnd == BoundTo("free", 0, 0)
SomeEnds ==
    {FreeEnd, BoundTo("junction", 1, 0), BoundTo("gatePort", 1, 1), BoundTo("mobilePort", 1, 0),
     BoundTo("mainCore", 1, 0), BoundTo("powerSource", 1, 0), BoundTo("sensePort", 0, 1)}
SomeDamage == AtMostOne([integrity : Bits, heat : {1}])

-----------------------------------------------------------------------------
\* what stands
SomeStands == [id : {1, 2}, type : {0}, at : {Middle}, domain : SomeDomains \ {InOpen}, damage : SomeDamage]
TwoGates == {<<g, h>> \in SomeStands \X SomeStands : g.id # h.id /\ g.domain.space = "fixed" /\ h.damage = <<>>}
SomeWires ==
    [id : {1}, domain : SomeDomains, generation : Bits, points : Lines, a : {FreeEnd}, b : {FreeEnd}, damage : {<<>>}]
    \cup [id : {2}, domain : {InOpen}, generation : {0}, points : {<<Middle, Middle>>},
          a : SomeEnds, b : SomeEnds, damage : SomeDamage]
SomeJunctions == [id : {1, 3}, domain : SomeDomains, at : Spots, generation : {0}, damage : SomeDamage]
SomeBoards == [id : {4}, at : Spots, area : {Square, <<Middle, Middle>>}, footprint : {Square}, damage : SomeDamage]
SomePositions ==
    [on : {"edge"}, edge : Bits, offset : Bits, heading : Bits, junction : {0}]
    \cup [on : {"junction"}, edge : Bits, offset : {0}, heading : {0}, junction : Bits]
SomeMobiles == [id : {5, 6}, position : SomePositions, area : {Square}, footprint : {Square}, damage : {<<>>}]

NoStructures == [gates |-> <<>>, wires |-> <<>>, junctions |-> <<>>, boards |-> <<>>, mobiles |-> <<>>]
SomeStructures ==
    {[NoStructures EXCEPT !.gates = s] : s \in AtMostOne(SomeStands) \cup TwoGates}
    \cup {[NoStructures EXCEPT !.wires = s] : s \in AtMostOne(SomeWires)}
    \cup {[NoStructures EXCEPT !.junctions = s] : s \in AtMostOne(SomeJunctions)}
    \cup {[NoStructures EXCEPT !.boards = s] : s \in AtMostOne(SomeBoards)}
    \cup {[NoStructures EXCEPT !.mobiles = s] : s \in AtMostOne(SomeMobiles)}
Reversed(v) == [store \in DOMAIN v |-> Reverse(v[store])]

-----------------------------------------------------------------------------
\* signals and what is under way
SomeSamples == [level : {"Low", "X"}, strength : Bits, revision : {1}, at : {0}, driver : {1}]
SomeDrivers == AtMostTwo(AtMostOne([owner : {1}, role : {0, 2}, sample : SomeSamples]))
SomeSinks == AtMostTwo(AtMostOne([owner : Bits, role : {0}, level : {"Low", "High"}, dirty : BOOLEAN]))
SomeGates ==
    AtMostOne([id : {1}, a : {1}, driverA : {1}, b : AtMostOne([sink : {1}, driver : Bits]), output : {1},
               current : {"Low"}, desired : {"High"}, generation : {1}, due : AtMostOne(Bits),
               pending : AtMostOne({"Low", "High"}), energy : AtMostOne({0}), cancelled : {0}, unpowered : {0}])
SomePorts == AtMostTwo([id : {1}, stop : {1}, left : {1}, right : {1}, build : AtMostOne(Bits)])
SomeExcitations ==
    AtMostTwo([id : {1}, active : {<<0, 0, 0>>, <<0, 1, 0>>}, previous : {<<0, 0, 0>>},
               sense : AtMostOne([a : {0}, b : {0}, present : BOOLEAN, level : {"Low"}, strength : {0}])])
SomeSlots == AtMostTwo([sink : {1}, driver : Bits, level : {"Low", "High"}, strength : {0}, revision : {1}, at : {0}])

NoSignals == [drivers |-> <<>>, sinks |-> <<>>, gates |-> <<>>, mobiles |-> <<>>, wires |-> <<>>, slots |-> <<>>]
SomeSignals ==
    {[NoSignals EXCEPT !.drivers = s] : s \in SomeDrivers}
    \cup {[NoSignals EXCEPT !.sinks = s] : s \in SomeSinks}
    \cup {[NoSignals EXCEPT !.gates = s] : s \in SomeGates}
    \cup {[NoSignals EXCEPT !.mobiles = s] : s \in SomePorts}
    \cup {[NoSignals EXCEPT !.wires = s] : s \in SomeExcitations}
    \cup {[NoSignals EXCEPT !.slots = s] : s \in SomeSlots}

SomeKeys(due) == [due : due, order : {0}, target : {1}, source : {1}, revision : {1}, generation : {0}, payload : {1}]
SomeEvents ==
    AtMostTwo([key : SomeKeys(Bits), driver : {1}, level : {"Low", "X"}, strength : Bits, generation : {0}, cause : Bits])
SomeArrivals ==
    AtMostTwo([key : SomeKeys({1}), driver : {1}, sink : {1}, sample : {s \in SomeSamples : s.level = "X"},
               certificate : AtMostOne(Bits), kind : Bits])
SomeTargets ==
    [kind : {"gate"}, type : Bits, domain : SomeDomains, at : Spots]
    \cup [kind : {"wire"}, domain : SomeDomains, points : Lines, a : SomeEnds, b : {FreeEnd}]
    \cup [kind : {"board"}, at : Spots, area : {Square}, footprint : {Square}]
SomeSites ==
    AtMostTwo([id : {1}, required : {1}, completed : Bits, ready : BOOLEAN,
               target : [kind : {"junction"}, domain : SomeDomains, at : {Middle}]])
    \cup AtMostOne([id : {1}, required : {1}, completed : {0}, ready : {FALSE}, target : SomeTargets])

-----------------------------------------------------------------------------
MCComponent ==
    [registry |-> AtMostTwo(AtMostOne(0..2)) \cup {<<a, b, c>> : a, b \in AtMostOne({0}), c \in AtMostOne({1})},
     core |-> AtMostOne([id : {1}, at : Spots, capacity : Bits, integrity : {1}, heat : Bits]),
     sources |-> AtMostTwo([id : {1, 2}, at : Spots, generation : Bits]),
     structures |-> SomeStructures \cup {Reversed(v) : v \in SomeStructures},
     signals |-> SomeSignals,
     payloads |-> 0..20,
     drivers |-> SomeEvents,
     arrivals |-> SomeArrivals,
     pending |-> SUBSET (1..4),
     enemies |-> AtMostTwo([id : {1}, at : Spots, velocity : Spots, radius : {1}, integrity : {1}, heat : {0}]),
     sites |-> SomeSites,
     status |-> AtMostOne(0..13),
     certificates |-> AtMostTwo(AtMostOne(AtMostTwo([kind : Bits, id : {1}, generation : Bits])))]

-----------------------------------------------------------------------------
(* Files to be written: at least one of every kind and of every format or
   schema, with every variant the program knows in one of them, and with the
   lists that are put in order out of it.  u32 ends at 30, u64 and i64 at 60;
   FIXED_ONE is 16. *)

MCWide == 60
Vec(x, y) == [x |-> x, y |-> y]
Box(x, y, u, v) == [min |-> Vec(x, y), max |-> Vec(u, v)]
Only(variant) == [variant |-> variant]
File(kind, value) == [kind |-> kind, value |-> value]
Ratio(n, d) == [numerator |-> n, denominator |-> d]
AllAre(names, value) == [name \in names |-> value]

(* ---------------- replays ---------------- *)

Header(format) ==
    [formatVersion |-> format, semanticsVersion |-> "aon-semantics-v1", numericProfileHash |-> "h1",
     physicalScaleProfileHash |-> "h2", balanceProfileHash |-> "h1", stateHashVersion |-> "aon-state-v7",
     worldGeneratorVersion |-> "MainCorePowerEnemyV1", seed |-> 0, initialStateHash |-> "h1",
     hashAlgorithmId |-> "blake3-v1"]
Command(tick, ordinal, command) == [targetTick |-> tick, ordinal |-> ordinal, command |-> command]
OpenDomain == Only("OpenWorld")
Replay(format, commands, inputs) ==
    [scenarioPath |-> "a/b.json", header |-> Header(format), commands |-> commands, worldInputs |-> inputs,
     checkpoints |-> <<[nextTick |-> 0, stateHash |-> "h1"], [nextTick |-> 3, stateHash |-> "h2"]>>]
Frame(tick, ids) ==
    [variant |-> "HostileFrame", targetTick |-> tick,
     hostiles |-> [i \in DOMAIN ids |-> [id |-> ids[i], center |-> Vec(i, -1), radius |-> 0]]]
WireTarget ==
    [variant |-> "Wire", routingDomain |-> [variant |-> "FixedSubstrate", substrate |-> 4],
     points |-> <<Vec(0, 0), Vec(1, 0)>>, endpointA |-> [variant |-> "MobilePort", mobile |-> 2, port |-> "Left"],
     endpointB |-> [variant |-> "MainCoreAnchor", mainCore |-> 1]]
Sited(target) == [variant |-> "PlaceConstructionSite", target |-> target]
Placed(variant) ==
    [variant |-> variant, origin |-> Vec(0, 0), routingArea |-> Box(0, 0, 2, 2), footprint |-> Box(0, 0, 3, 3)]

MCReplays ==
    {Replay(2, <<Command(2, 0, Sited(WireTarget)),
                 Command(0, 1, [variant |-> "PlaceWire", routingDomain |-> OpenDomain,
                                points |-> <<Vec(0, 0), Vec(2, 0)>>, endpointA |-> Only("Free"),
                                endpointB |-> [variant |-> "WireSensePort", wire |-> 3, end |-> "A"]])>>,
             <<Frame(1, <<5, 3>>), Frame(0, <<>>)>>),
     Replay(1, <<Command(1, 2, [variant |-> "RemoveEntity", target |-> 3]),
                 Command(1, 0, [variant |-> "BindPort", wire |-> 3, end |-> "B",
                                target |-> [variant |-> "PowerSourceAnchor", power_source |-> 2]]),
                 Command(2, 0, [variant |-> "SetExternalDriver", driver |-> 1, level |-> "High", strength |-> 2]),
                 Command(0, 0, [variant |-> "PlaceGate", gateType |-> "Not", origin |-> Vec(-1, 0),
                                routingDomain |-> [variant |-> "MobileSubstrate", substrate |-> 5]])>>, <<>>),
     Replay(2, <<Command(0, 0, [variant |-> "PlaceJunction", routingDomain |-> OpenDomain, position |-> Vec(0, 1)]),
                 Command(0, 1, Placed("PlaceFixedSubstrate")), Command(0, 2, Placed("PlaceMobileSubstrate")),
                 Command(1, 0, Sited([variant |-> "Gate", gateType |-> "Or", origin |-> Vec(1, 1),
                                      routingDomain |-> OpenDomain])),
                 Command(1, 1, Sited([variant |-> "Junction", routingDomain |-> OpenDomain, position |-> Vec(2, 0)])),
                 Command(2, 0, Sited(Placed("FixedSubstrate"))),
                 Command(2, 1, [variant |-> "BindPort", wire |-> 3, end |-> "A",
                                target |-> [variant |-> "GatePort", gate |-> 4, port |-> "InputB"]]),
                 Command(2, 2, [variant |-> "BindPort", wire |-> 3, end |-> "B",
                                target |-> [variant |-> "Junction", junction |-> 6]])>>, <<>>)}

(* ---------------- modules and architectures ---------------- *)

GateEnd(gate, port) == [variant |-> "GatePort", gate |-> gate, port |-> port]
MCModules ==
    {[formatVersion |-> 1, hashAlgorithmId |-> "blake3-v1", name |-> <<1>>,
      contract |-> [semanticsVersion |-> "aon-semantics-v1", numericProfileHash |-> 1, physicalScaleProfileHash |-> 2],
      balanceProfileHash |-> <<1>>,
      geometry |->
          [substrates |-> <<[id |-> 1, origin |-> Vec(0, 0), routingArea |-> Box(0, 0, 4, 4), footprint |-> Box(-1, -1, 5, 5)]>>,
           gates |-> <<[id |-> 4, substrate |-> 1, gateType |-> "not", origin |-> Vec(3, 2)],
                       [id |-> 2, substrate |-> 1, gateType |-> "and", origin |-> Vec(1, 1)]>>,
           junctions |-> <<[id |-> 3, routingDomain |-> Only("OpenWorld"), position |-> Vec(0, 3)]>>,
           wires |-> <<[id |-> 5, routingDomain |-> [variant |-> "Substrate", substrate |-> 1],
                        points |-> <<Vec(1, 1), Vec(2, 1), Vec(3, 2)>>,
                        endpointA |-> GateEnd(2, "output"), endpointB |-> GateEnd(4, "inputA")]>>],
      ioBindings |-> <<[name |-> <<2>>, endpoint |-> GateEnd(4, "output")],
                       [name |-> <<1, 2>>, endpoint |-> [variant |-> "Junction", junction |-> 3]]>>,
      provenance |-> [source |-> <<>>]]}

Fixed(variant, id) ==
    [variant |-> variant, id |-> id, origin |-> Vec(0, 0), routing_area |-> Box(0, 0, 4, 4), footprint |-> Box(0, 0, 5, 5)]
On(space, id) == [variant |-> space, substrate |-> id]
Gate(id, type, domain) == [variant |-> "gate", id |-> id, routing_domain |-> domain, gate_type |-> type, origin |-> Vec(1, 1)]
PortOf(gate, port) == [variant |-> "gatePort", gate |-> gate, port |-> port]
Strand(id, domain, a, b) ==
    [variant |-> "wire", id |-> id, routing_domain |-> domain, points |-> <<Vec(1, 1), Vec(2, 1)>>,
     endpoint_a |-> a, endpoint_b |-> b]
NamedBound(name, target) == [name |-> name, target |-> target]
DesignOf(format, operations, roles, observations, schedule) ==
    [formatVersion |-> format, hashAlgorithmId |-> "blake3-v1", displayName |-> <<1>>,
     contract |-> [semanticsVersion |-> "aon-semantics-v1", numericProfileHash |-> 1, physicalScaleProfileHash |-> 2,
                   balanceProfileHash |-> 1],
     operations |-> operations, roleBindings |-> roles, observationBindings |-> observations,
     materializationSchedule |-> schedule]
EndOf(wire, end) == [wire |-> wire, end |-> end]

MCArchitectures ==
    {DesignOf(2, <<Strand(3, On("fixed", 1), PortOf(2, "output"), [variant |-> "junction", junction |-> 4]),
                 Fixed("fixed", 1), Gate(2, "not", On("fixed", 1)),
                 [variant |-> "junction", id |-> 4, routing_domain |-> On("fixed", 1), position |-> Vec(2, 1)],
                 Strand(5, Only("open"), Only("free"), [variant |-> "powerSource", ordinal |-> 0])>>,
            <<NamedBound(<<2>>, [variant |-> "local", entity |-> 3]), NamedBound(<<1, 2>>, [variant |-> "sensePort", wire |-> 3, end |-> "b"])>>,
            <<NamedBound(<<1>>, Only("mainCore"))>>,
            <<[bindingBatches |-> <<<<EndOf(3, "a"), EndOf(3, "b")>>, <<EndOf(5, "b")>>>>]>>),
     DesignOf(1, <<Fixed("mobile", 1), Gate(2, "and", On("mobile", 1)),
                 Strand(3, On("mobile", 1), [variant |-> "mobilePort", mobile |-> 1, port |-> "left"],
                        PortOf(2, "inputB")),
                 Strand(4, Only("open"), Only("mainCore"), [variant |-> "sensePort", wire |-> 3, end |-> "a"])>>,
            <<NamedBound(<<1>>, PortOf(2, "output")), NamedBound(<<2>>, [variant |-> "mobilePort", mobile |-> 1, port |-> "build"])>>,
            <<NamedBound(<<1>>, [variant |-> "enemy", ordinal |-> 0]), NamedBound(<<2>>, [variant |-> "powerSource", ordinal |-> 1])>>,
            <<>>)}

(* ---------------- metrics ---------------- *)

Watched(name, entry, defense, enemy) ==
    [name |-> name, hostileEntryBinding |-> entry, defenseContactBinding |-> defense, enemyOrdinal |-> enemy]
MCMetricSet ==
    [formatVersion |-> 1, hashAlgorithmId |-> "blake3-v1", metricSetId |-> "aon-reference-metrics-v1",
     metrics |-> [i \in 1..37 |-> i],
     responseObservations |-> <<Watched(<<1>>, <<1>>, <<2>>, 0), Watched(<<1, 2>>, <<1>>, <<2>>, 1)>>]
Answered(name, stimulus, response) ==
    [name |-> name, stimulusTick |-> stimulus, responseTick |-> response, latencyTicks |-> response - stimulus]
Measured(b, runtime) ==
    [formatVersion |-> 1, hashAlgorithmId |-> "blake3-v1", metricSetId |-> "aon-reference-metrics-v1",
     metricSetHash |-> 1, runId |-> 2, boundaries |-> b,
     staticInventory |->
         [totalWireLengthRaw |-> 3, sharedWireLengthRaw |-> 1, sensorWireLengthRaw |-> 0, trunkWireLengthRaw |-> 0,
          defenseWireLengthRaw |-> 2, otherWireLengthRaw |-> 0, totalWireNcu |-> 3, gateCount |-> 2, andCount |-> 1,
          orCount |-> 0, notCount |-> 1, buildCommandCount |-> 4, plannedConstructionWork |-> 2, commandLogHash |-> 1],
     runtimeMetrics |-> runtime,
     responseLatencyTicks |-> <<Answered(<<1>>, 1, 2), Answered(<<1, 2>>, 2, 2)>>]
Within(end, max) == [buildEndTick |-> 1, measurementStartTick |-> 1, finalNextTick |-> end, maxTicks |-> max]
Ran(ticks, survived, core, status) ==
    AllAre({"powerGeneration", "powerNominalDemand", "powerGranted", "powerSourceCost", "powerTransmissionLoss",
            "constructionRequested", "constructionNominalPower", "constructionGrantedWork",
            "constructionAppliedWork", "heatGenerated", "networkIntegralUsedNcu", "supportDemandIntegral"}, 1)
    @@ [completedTicks |-> ticks, measurementStartCoreIntegrity |-> 5, finalCoreIntegrity |-> core,
        coreDamage |-> 5 - core, brownoutTicks |-> 0, networkPeakUsedNcu |-> 3, networkFinalUsedNcu |-> 3,
        enemyKills |-> 1, survivedBoundary |-> survived, terminalStatus |-> status]
MCMetrics ==
    {Measured(Within(4, 4), Ran(4, TRUE, 3, Only("Running"))),
     Measured(Within(3, 4), Ran(3, FALSE, 0, [variant |-> "Ended", completedTick |-> 2, cause |-> "main-core-destroyed"]))}

(* ---------------- pairs, experiments, plans ---------------- *)

FileAt(hash) == [path |-> "a/b.json", artifactHash |-> hash]
Profiled(hash) == [path |-> "a/b.json", profileId |-> <<1>>, profileHash |-> hash]
Designed(role, hash) == [role |-> role, design |-> FileAt(hash), commandLogHash |-> hash]
Common(format, designs) ==
    [formatVersion |-> format, hashAlgorithmId |-> "blake3-v1", scenario |-> FileAt(1), seed |-> 0, metricSetId |-> <<1>>,
     metricSetHash |-> 2, designs |-> designs, buildEndTick |-> 1, measurementStartTick |-> 1, maxTicks |-> 2,
     numericProfile |-> Profiled(1), physicalScaleProfile |-> Profiled(2), balanceProfile |-> Profiled(3)]
Side(name, x, y) == [name |-> name, position |-> Vec(x, y)]
MCPair ==
    Common(1, <<Designed(1, 1), Designed(0, 2)>>)
    @@ [pairId |-> <<1>>, scenarioId |-> <<2>>,
        contract |-> [semanticsVersion |-> "aon-semantics-v1", numericProfileHash |-> 1,
                      physicalScaleProfileHash |-> 2, balanceProfileHash |-> 3],
        mainCoreCapacity |-> 1, territory |-> Box(-2, 0, 2, 2),
        territoryAnchors |-> <<Side(4, -2, 1), Side(1, 2, 1), Side(2, 0, 2), Side(3, 0, 0)>>,
        powerSourceSequenceHash |-> 1, enemySequenceHash |-> 2, sharedCommandLogHash |-> 0,
        responseBindings |-> <<[name |-> <<2>>, hostileEntryBinding |-> 7, defenseContactBinding |-> 3],
                               [name |-> <<1>>, hostileEntryBinding |-> 10, defenseContactBinding |-> 5]>>]
MCExperiment ==
    Common(2, <<Designed(1, 1), Designed(0, 2)>>) @@ [experimentId |-> <<1>>, stage |-> "S1-M5", pair |-> FileAt(3)]

Pads(width) ==
    [gateFootprints |-> AllAre({"and", "or", "not"}, [width |-> width, height |-> 4]),
     gatePortAnchors |-> [gate \in {"and", "or", "not"} |->
         AllAre(IF gate = "not" THEN {"input", "output", "power"} ELSE {"inputA", "inputB", "output", "power"}, Vec(0, 2))]]
MCPlan ==
    [formatVersion |-> 1, hashAlgorithmId |-> "blake3-v1", experimentId |-> <<1>>, stage |-> "S1-M0", scenario |-> FileAt(1),
     longWireDesignDerivationVersion |-> 1, basePhysicalScaleProfile |-> Profiled(1),
     numericProfiles |-> <<Profiled(2), Profiled(1)>>,
     physicalScaleMatrix |-> [gateGeometries |-> <<Pads(8), Pads(4)>>, circuitRoutingPitches |-> <<2, 1>>,
                              worldRoutingPitches |-> <<2>>],
     balanceProfiles |-> <<Profiled(3)>>, longWireDistances |-> <<3, 1>>, seeds |-> <<1, 0>>, maxTicks |-> 5,
     metricSetId |-> <<1>>]

(* ---------------- scenarios ---------------- *)

CoreAt(x, y) == [position |-> Vec(x, y), integrity |-> 2, heatEnergy |-> 0]
SourceOf(x, generation) == [position |-> Vec(x, 0), generationPerTick |-> generation]
Flying(x, speed) ==
    [position |-> Vec(x, 0), velocityPerTick |-> Vec(speed, 0), radius |-> 1, integrity |-> 1, heatEnergy |-> 0]
Sources == <<SourceOf(2, 1), SourceOf(1, 3)>>
MCWorlds ==
    <<[variant |-> 1], [variant |-> 2] @@ CoreAt(0, 1),
      [variant |-> 3, mainCore |-> CoreAt(0, 1), powerSources |-> Sources],
      [variant |-> 4, mainCore |-> CoreAt(0, 1), powerSources |-> Sources, enemies |-> <<Flying(58, 2), Flying(3, -1)>>]>>
MCScenarioFiles ==
    {[schemaVersion |-> schema, scenarioId |-> <<1>>, semanticsVersion |-> "aon-semantics-v1",
      hashAlgorithm |-> "blake3-v1", initialWorld |-> MCWorlds[schema],
      requiredFeatures |->
          AllAre({"signal", "mobility", "capacity", "sensing", "power"}, TRUE)
          @@ AllAre({"relay", "payload", "radiation"}, FALSE)
          @@ (IF schema = 4 THEN AllAre({"construction", "contact", "damage"}, TRUE) ELSE <<>>),
      profiles |-> [numeric |-> Profiled(1), physicalScale |-> Profiled(2), balance |-> Profiled(3)]] : schema \in 1..4}

(* ---------------- profiles ---------------- *)

Titled(kind, schema) == [schemaVersion |-> schema, profileId |-> <<1>>, kind |-> kind]
MCNumeric ==
    Titled(0, 1) @@ [fixedOne |-> 16, overflow |-> "deterministic-error", division |-> "floor-ceil-nearest-even",
                     geometryLength |-> "ceil-integer-euclidean-sqrt"]
MCScale ==
    Titled(1, 1)
    @@ AllAre({"circuitRoutingPitch", "worldRoutingPitch", "wireBodyRadius", "wireGeometryQuantum", "substrateClearance"}, 2)
    @@ Pads(8)
MCBodies == AllAre({"mainCore", "wire", "gate", "junction", "fixedSubstrate", "mobileSubstrate", "enemy"}, 2)
Half == Ratio(1, 2)
MCCapacity ==
    AllAre({"mainCoreCapacity", "relayCapacity", "capacityDenominatorFloor", "relayOfflineGraceTicks"}, 2)
    @@ AllAre({"overcapLinearK", "overcapQuadraticK", "supportHeatFraction"}, Half)
MCPower ==
    AllAre({"gateIdleDemand", "gateDriveDemand", "senseNominalDrive", "gateStateRetentionTicks"}, 2)
    @@ AllAre({"gateSwitchDemandPerEnergy", "wireLeakagePerWU", "wireSenseDemandPerWU", "movementDemandPerWU", "powerLossK"}, Half)
MCConstruction ==
    AllAre({"andGateWork", "orGateWork", "notGateWork", "junctionBaseWork", "wireEndpointWork", "builderWorkPerTick"}, 2)
    @@ AllAre({"wireWorkPerNCU", "substrateWorkPerSquareWU", "constructionPowerPerWork", "constructionHeatFraction"}, Half)
MCContact ==
    AllAre({"worldLeakWeight", "enemyConductivity", "enemyAttackEnergyPerTick"}, 2)
    @@ AllAre({"liveEnergyPerStrengthWU", "thermalDamageRate", "gatePowerHeatFraction", "movementHeatFraction"}, Half)
    @@ [initialIntegrity |-> MCBodies, thermalCapacity |-> MCBodies, electricalTolerance |-> MCBodies, safeTemperature |-> 0]
MCRadiation ==
    [distanceWeights |-> <<9, 7, 5, 3, 1>>, delays |-> <<1, 1, 2, 2, 3>>,
     orientationWeights |-> [broadsideNear |-> 3, diagonal |-> 2, endfireNear |-> 1],
     orientationBoundaries |-> AllAre({"broadsideAbsCrossMultiplier", "endfireAbsDotMultiplier"}, 2)]
From(schema, first, probe) == IF schema >= first THEN <<probe>> ELSE <<>>
MCBalanceFiles ==
    {Titled(2, schema)
     @@ AllAre({"gateBaseDelay", "gateSwitchBaseEnergy", "senseDelay", "logicThreshold", "nominalGateDrive", "inputLoad",
                "fanoutStep", "quartzPeriod", "fanoutFreeLoad"}, 2)
     @@ AllAre({"wireLoadPerWU", "wireLinearK", "wireQuadraticK", "logicOperateThreshold", "brownoutDelayFloor"}, Half)
     @@ [simulationHz |-> 2, senseRadius |-> 2, radiationCellSize |-> 2,
         capacityProbe |-> From(schema, 4, MCCapacity), radiationReference |-> IF schema = 2 THEN <<MCRadiation>> ELSE <<>>,
         powerProbe |-> From(schema, 3, MCPower),
         capacitySupportProbe |-> From(schema, 4, [supportPowerPerNCU |-> Half]),
         constructionProbe |-> From(schema, 5, MCConstruction), contactDamageProbe |-> From(schema, 5, MCContact)]
     : schema \in 2..5}

MCFiles ==
    {File("replay", v) : v \in MCReplays} \cup {File("module", v) : v \in MCModules}
    \cup {File("architecture", v) : v \in MCArchitectures} \cup {File("metrics", v) : v \in MCMetrics}
    \cup {File("metric set", MCMetricSet), File("pair", MCPair), File("experiment", MCExperiment), File("plan", MCPlan)}
    \cup {File("scenario", v) : v \in MCScenarioFiles} \cup {File("balance", v) : v \in MCBalanceFiles}
    \cup {File("numeric", MCNumeric), File("scale", MCScale)}

-----------------------------------------------------------------------------
(* The parts. *)

VARIABLES part, v1, v2, v3, v4, v5, v6
vars == <<part, v1, v2, v3, v4, v5, v6>>

Materials == INSTANCE ReferenceMaterialization
             WITH Offers <- MCOffers, Scenario <- MCAnchors, MaxBarrierTicks <- 2,
                  designs <- v1, worlds <- v2, books <- v3, agenda <- v4, barrier <- v5, outcome <- v6
Metrics == INSTANCE ReferenceMetrics
           WITH Rows <- {"r", "s"}, Enemies <- {"e"}, MaxTicks <- 3, MaxTotal <- 4, StartCore <- 1,
                Contents <- MCContents, bounds <- v1, collector <- v2, tape <- v3, reported <- v4
World == INSTANCE ScenarioWorld
         WITH Scenarios <- MCScenarios, Balances <- MCBalances, Quantum <- 2, MaxCoordinate <- 11,
              MaxCapacity <- 8, scenario <- v1, balance <- v2, package <- v3, world <- v4, stage <- v5
Pair == INSTANCE ReferencePair
        WITH Cases <- MCCases, LengthOf <- MCLengthOf,
             case <- v1, plan <- v2, runs <- v3, rows <- v4, classes <- v5, step <- v6
Plans == INSTANCE ExperimentPlan
         WITH Plans <- MCPlans, Quantum <- 2, MaxProfiles <- 6, MaxRuns <- 12, MaxProduct <- 20,
              plan <- v1, stage <- v2, profiles <- v3, runs <- v4
Output == INSTANCE ExperimentOutput
          WITH Runners <- {1, 2}, Editions <- {{"profiles"}, {"profiles", "manifest"}},
               MaxAttempts <- 2, MaxStarts <- 3,
               disk <- v1, runner <- v2, starts <- v3, published <- v4
Encoding == INSTANCE CanonicalEncoding
            WITH Component <- MCComponent, Base <- 12, part <- v1, value <- v2
Files == INSTANCE FileReading
         WITH Narrow <- 30, Wide <- MCWide, FixedOne <- 16, MaxTextBytes <- 4,
              Files <- MCFiles, MetricSet <- MCMetricSet,
              file <- v1, document <- v2, answer <- v3, changed <- v4, later <- v5

ASSUME /\ Materials!ArchitectureAssumption /\ Metrics!MetricsAssumption /\ Pair!PairAssumption
       /\ Output!OutputAssumption /\ Encoding!EncodingAssumption /\ Files!FileAssumption

Zero2 == v5 = 0 /\ v6 = 0
Zero4 == v3 = 0 /\ v4 = 0 /\ Zero2
Init ==
    \/ part = "materials" /\ Materials!Init
    \/ part = "metrics" /\ Metrics!InitMetrics /\ Zero2
    \/ part = "scenarios" /\ World!InitScenario /\ v6 = 0
    \/ part = "pairs" /\ Pair!InitPair
    \/ part = "plans" /\ Plans!InitPlan /\ Zero2
    \/ part = "output" /\ Output!InitOutput /\ Zero2
    \/ part = "encoding" /\ Encoding!InitEncoding /\ Zero4
    \/ part = "files" /\ Files!InitFiles /\ v6 = 0
Next ==
    /\ \/ part = "materials" /\ Materials!Next
       \/ part = "metrics" /\ Metrics!NextMetrics /\ UNCHANGED <<v5, v6>>
       \/ part = "scenarios" /\ World!NextScenario /\ UNCHANGED v6
       \/ part = "pairs" /\ Pair!NextPair
       \/ part = "plans" /\ Plans!NextPlan /\ UNCHANGED <<v5, v6>>
       \/ part = "output" /\ Output!NextOutput /\ UNCHANGED <<v5, v6>>
       \/ part = "encoding" /\ Encoding!NextEncoding /\ UNCHANGED <<v3, v4, v5, v6>>
       \/ part = "files" /\ Files!NextFiles /\ UNCHANGED v6
    /\ UNCHANGED part
Spec == Init /\ [][Next]_vars

-----------------------------------------------------------------------------
\* A build never stops on a reference that is still to be placed; what it hands
\* over convinces the metrics, nothing forged in one place does, and the two
\* sides of a pair keep one schedule.
BuildsConvince ==
    part = "materials" => Materials!PlanResolves /\ Materials!EvidenceConvinces /\ Materials!SidesInStep
\* The metrics are what the accepted reports add up to, and a result is handed
\* out exactly for a run that was measured to its end and answered.
MetricsAreTheTape == part = "metrics" => Metrics!TraceIsReduced /\ Metrics!ResultIsCoherent
\* An accepted scenario starts, and the order it lists its parts in shows nowhere.
ScenariosStart == part = "scenarios" => World!AcceptedScenariosStart /\ World!ListingDecidesNothing
\* The two runs of a pair differ in the design alone, its bindings are found,
\* and the runs of a plan are the matrix of its axes.
RunsCompare ==
    /\ part = "pairs" => Pair!RunsDifferInDesign /\ Pair!BindingsHold
    /\ part = "plans" => Plans!RunsAreTheMatrix
\* An output directory appears whole, at once, and is never written over.
OutputAppearsWhole ==
    /\ [](part = "output" => Output!PublishedWhole)
    /\ [][part = "output" /\ Output!At(Output!Output) # {} =>
              v1'[Output!Output] = v1[Output!Output]]_vars
\* Different states have different bytes, and one state has one.
EncodingTellsStatesApart == part = "encoding" => Encoding!EncodingTellsStatesApart
\* A file means what was written, is told when it is of a later format, can be
\* written again once it is accepted, and changes its hash exactly with its meaning.
FilesReadBack == part = "files" => Files!FilesReadBack
=============================================================================
