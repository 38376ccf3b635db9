---- MODULE CanonicalEncoding ----
(* The canonical bytes of a state (canonical.rs): what is hashed after every
   step, sent with a replay and compared by every host.  A byte is a digit; a
   u32 has two of them, a u64 three and a u128 four, least significant first.
   An option is a sequence of at most one value.  A dense store is the sequence
   of its slots, in the order chance and reuse have put the records there. *)
EXTENDS Integers, Sequences, FiniteSets, SequencesExt, TLC

CONSTANTS Component,   \* the parts of a state, each with the values it may have
          Base         \* digits of a byte

EncodingAssumption == Base \in Nat \ (0..11)

VARIABLE part, value
encodingVars == <<part, value>>

(* ---------------- numbers and options ---------------- *)

U8(n) == <<n>>
U32(n) == <<n % Base, n \div Base>>
U64(n) == <<n % Base, (n \div Base) % Base, n \div (Base * Base)>>
U128(n) == U64(n) \o <<0>>
I64(n) == U64((n + Base * Base * Base) % (Base * Base * Base))
Flag(b) == U8(IF b THEN 1 ELSE 0)

\* What is listed, encoded piece by piece.
Each(list, encode(_)) == [i \in DOMAIN list |-> encode(list[i])]
EachSlot(slots, encode(_)) == [i \in DOMAIN slots |-> Each(slots[i], encode)]

Optional_Bare(pieces) == FlattenSeq(pieces)
Optional(pieces) == IF pieces = <<>> THEN U8(0) ELSE U8(1) \o pieces[1]

Counted_Bare(pieces) == FlattenSeq(pieces)
Counted(pieces) == U64(Len(pieces)) \o FlattenSeq(pieces)
Counted32(pieces) == U32(Len(pieces)) \o FlattenSeq(pieces)

\* Ids without a record stay in the list; their number is their place.
Slots(options) ==
    U64(Len(options) + 1) \o U64(Len(options))
    \o FlattenSeq([i \in DOMAIN options |-> U64(i) \o Optional(options[i])])

\* sort_unstable_by_key on the id
ById_AsStored(store) == store
ById(store) == SortSeq(store, LAMBDA r, s : r.id < s.id)

(* ---------------- values ---------------- *)

Level(l) == U8(CASE l = "Low" -> 0 [] l = "High" -> 1 [] OTHER -> 2)
Point(p) == I64(p[1]) \o I64(p[2])
Box(b) == Point(b[1]) \o Point(b[2])
Domain(d) ==
    CASE d.space = "open" -> U8(0)
      [] d.space = "fixed" -> U8(1) \o U64(d.id)
      [] OTHER -> U8(2) \o U64(d.id)
Endpoint(e) ==
    CASE e.to = "free" -> U8(0)
      [] e.to = "junction" -> U8(1) \o U64(e.id)
      [] e.to = "gatePort" -> U8(2) \o U64(e.id) \o U8(e.port)
      [] e.to = "mobilePort" -> U8(3) \o U64(e.id) \o U8(e.port)
      [] e.to = "mainCore" -> U8(4) \o U64(e.id)
      [] e.to = "powerSource" -> U8(5) \o U64(e.id)
      [] OTHER -> U8(6) \o U64(e.id) \o U8(e.port)
Damage(option) == Optional(Each(option, LAMBDA d : U64(d.integrity) \o U64(d.heat)))
Position(p) ==
    IF p.on = "edge" THEN U8(0) \o U64(p.edge) \o I64(p.offset) \o U8(p.heading)
    ELSE U8(1) \o U64(p.junction) \o U64(p.edge)
Sample(s) == Level(s.level) \o U64(s.strength) \o U64(s.revision) \o U64(s.at) \o U64(s.driver)

(* ---------------- the stores ---------------- *)

Core(option) ==
    Optional(Each(option, LAMBDA c : U64(c.id) \o Point(c.at) \o U8(0) \o U64(c.id)
                                \o U64(c.capacity) \o U64(c.integrity) \o U64(c.heat)))
Sources(list) ==
    Counted32(Each(list, LAMBDA s : U64(s.id) \o Point(s.at) \o U8(1) \o U64(s.id) \o U64(s.generation)))
Enemies(list) ==
    Counted(Each(list, LAMBDA e : U64(e.id) \o Point(e.at) \o Point(e.velocity) \o I64(e.radius)
                             \o U64(e.integrity) \o U64(e.heat)))

Gates(store) ==
    Counted(Each(ById(store), LAMBDA g : U64(g.id) \o U8(g.type) \o Point(g.at) \o Domain(g.domain) \o Damage(g.damage)))
Wires(store) ==
    Counted(Each(ById(store),
            LAMBDA w : U64(w.id) \o Domain(w.domain) \o U64(w.generation) \o Counted32(Each(w.points, Point))
                       \o Endpoint(w.a) \o Endpoint(w.b) \o Damage(w.damage)))
Junctions(store) ==
    Counted(Each(ById(store),
            LAMBDA j : U64(j.id) \o Domain(j.domain) \o Point(j.at) \o U64(j.generation) \o Damage(j.damage)))
Boards(store) ==
    Counted(Each(ById(store), LAMBDA b : U64(b.id) \o Point(b.at) \o Box(b.area) \o Box(b.footprint) \o Damage(b.damage)))
Mobiles(store) ==
    Counted(Each(ById(store),
            LAMBDA m : U64(m.id) \o Position(m.position) \o Box(m.area) \o Box(m.footprint) \o Damage(m.damage)))
\* encode_structural_stores
Structures(s) == Gates(s.gates) \o Wires(s.wires) \o Junctions(s.junctions) \o Boards(s.boards) \o Mobiles(s.mobiles)

Target(t) ==
    CASE t.kind = "gate" -> U8(0) \o U8(t.type) \o Point(t.at) \o Domain(t.domain)
      [] t.kind = "wire" -> U8(1) \o Domain(t.domain) \o Counted32(Each(t.points, Point)) \o Endpoint(t.a) \o Endpoint(t.b)
      [] t.kind = "junction" -> U8(2) \o Domain(t.domain) \o Point(t.at)
      [] OTHER -> U8(3) \o Point(t.at) \o Box(t.area) \o Box(t.footprint)
Sites(list) ==
    Counted(Each(list, LAMBDA s : U64(s.id) \o Target(s.target) \o U64(s.required) \o U64(s.completed) \o Flag(s.ready)))

(* ---------------- signals and events ---------------- *)

Drivers(slots) == Slots(EachSlot(slots, LAMBDA d : U64(d.owner) \o U8(d.role) \o Sample(d.sample)))
Sinks(slots) == Slots(EachSlot(slots, LAMBDA s : U64(s.owner) \o U8(s.role) \o Level(s.level) \o Flag(s.dirty)))
GateRecords(list) ==
    Counted(Each(list,
            LAMBDA g : U64(g.id) \o U64(g.a) \o U64(g.driverA)
                       \o Optional(Each(g.b, LAMBDA b : U64(b.sink) \o U64(b.driver)))
                       \o U64(g.output) \o Level(g.current) \o Level(g.desired) \o U32(g.generation)
                       \o Optional(Each(g.due, U64)) \o Optional(Each(g.pending, Level)) \o Optional(Each(g.energy, U64))
                       \o U64(g.cancelled) \o U64(g.unpowered)))
MobileRecords(list) ==
    Counted(Each(list, LAMBDA m : U64(m.id) \o U64(m.stop) \o U64(m.left) \o U64(m.right) \o Optional(Each(m.build, U64))))
Vector(v) == U128(v[1]) \o U128(v[2]) \o U128(v[3])
WireRecords(list) ==
    Counted(Each(list,
            LAMBDA w : U64(w.id) \o Vector(w.active) \o Vector(w.previous)
                       \o Optional(Each(w.sense, LAMBDA s : U64(s.a) \o U64(s.b) \o Flag(s.present)
                                                       \o Level(s.level) \o U64(s.strength)))))
SlotRecords(list) ==
    Counted(Each(list, LAMBDA s : U64(s.sink) \o U64(s.driver) \o Level(s.level) \o U64(s.strength)
                             \o U64(s.revision) \o U64(s.at)))
\* encode_signal_stores
Signals(s) ==
    Drivers(s.drivers) \o Sinks(s.sinks) \o GateRecords(s.gates) \o MobileRecords(s.mobiles)
    \o WireRecords(s.wires) \o SlotRecords(s.slots)

Key(k) == U64(k.due) \o U8(k.order) \o U64(k.target) \o U64(k.source) \o U64(k.revision)
          \o U32(k.generation) \o U64(k.payload)
DriverEvents(list) ==
    Counted(Each(list, LAMBDA e : Key(e.key) \o U64(e.driver) \o Level(e.level) \o U64(e.strength)
                             \o U32(e.generation) \o U8(e.cause)))
SignalEvents(list) ==
    Counted(Each(list, LAMBDA e : Key(e.key) \o U64(e.driver) \o U64(e.sink) \o Sample(e.sample)
                             \o Optional(Each(e.certificate, U64)) \o U8(e.kind)))

Certificates(slots) ==
    Slots(EachSlot(slots, LAMBDA c : Counted32(Each(c, LAMBDA stamp : U8(stamp.kind) \o U64(stamp.id) \o U64(stamp.generation)))))

Registry(slots) == Slots(EachSlot(slots, LAMBDA kind : U8(kind)))
Pending(ids) == Counted(Each(SetToSortSeq(ids, <), U64))
Status(s) == Optional(Each(s, LAMBDA ended : U64(ended) \o U8(0)))

(* ---------------- a state ---------------- *)

\* encode_state_components writes the parts in this order; 0 0 is for radiation
\* and relays.
Encode(name, v) ==
    CASE name = "registry" -> Registry(v)
      [] name = "core" -> Core(v)
      [] name = "sources" -> Sources(v)
      [] name = "structures" -> Structures(v)
      [] name = "signals" -> Signals(v)
      [] name = "payloads" -> U64(v)
      [] name = "drivers" -> DriverEvents(v)
      [] name = "arrivals" -> SignalEvents(v)
      [] name = "pending" -> Pending(v) \o U64(0) \o U64(0)
      [] name = "enemies" -> Enemies(v)
      [] name = "sites" -> Sites(v)
      [] name = "status" -> Status(v)
      [] OTHER -> Certificates(v)

InitEncoding == \E name \in DOMAIN Component : part = name /\ value \in Component[name]
NextEncoding == \E v \in Component[part] : value' = v /\ UNCHANGED part

\* What a value is, however its store has come by it.
Stores == {"gates", "wires", "junctions", "boards", "mobiles"}
Meaning(name, v) == IF name = "structures" THEN [s \in Stores |-> Range(v[s])] ELSE v

\* The canonical bytes of two states are the same exactly if the states are, in
\* whatever slots their records live: no encoding of a part is the beginning of
\* another's, so what follows cannot make up for a difference (the counts, tags
\* and sorts of canonical.rs).
EncodingTellsStatesApart ==
    LET bytes == Encode(part, value) IN
    \A other \in Component[part] :
        LET others == Encode(part, other) IN
        IF Meaning(part, value) = Meaning(part, other) THEN bytes = others
        ELSE ~IsPrefix(bytes, others)
====
