------------------------ MODULE GateSchedulingProofs ------------------------
(***************************************************************************)
(* Proofs about a gate's way from what its inputs ask for to its output,   *)
(* for any gates, loads, ratios and balance, and any number of ticks.      *)
(*                                                                         *)
(* Without further assumptions: the calendar and the pending tuples agree, *)
(* Phase 2 never meets transitions it cannot merge, strengths follow power *)
(* by one tick, and an output takes only what was asked for.  The          *)
(* validation at the end of a step refuses a gate after one history only,  *)
(* whatever the balance.  With finitely many loads: a gate with power      *)
(* responds within the longest delay and is never started over.            *)
(***************************************************************************)
EXTENDS GateScheduling, FiniteSetTheorems, WellFoundedInduction, TLAPS

-----------------------------------------------------------------------------
(* Arithmetic of a load and a ratio.                                       *)

\* Max of two integers is one of them, and neither is above it.
LEMMA MaxOfTwo ==
  ASSUME NEW a \in Int, NEW b \in Int
  PROVE  Max({a, b}) \in {a, b} /\ Max({a, b}) >= a /\ Max({a, b}) >= b
<1>1. \E x \in {a, b} : \A y \in {a, b} : x >= y
  OBVIOUS
<1> QED BY <1>1 DEF Max

\* Dividing naturals leaves naturals.
LEMMA DivNat ==
  ASSUME NEW n \in Nat, NEW d \in Nat \ {0}
  PROVE  n \div d \in Nat /\ n % d \in Nat
OBVIOUS

\* A product of naturals is one; the solver is given it by name.
LEMMA ProductNat == ASSUME NEW m \in Nat, NEW n \in Nat PROVE m * n \in Nat
OBVIOUS

\* However little power there is, a switch takes at least a tick.
LEMMA DelayPositive ==
  ASSUME SchedulingAssumption, NEW load \in Loads, NEW ratio \in Ratios
  PROVE  EffectiveDelay(load, ratio) \in Nat \ {0}
<1>1. load.delay \in Nat \ {0} /\ RatioOne \in Nat \ {0} /\ ratio \in Nat /\ DelayFloor \in Nat \ {0}
  BY DEF SchedulingAssumption
<1>2. Max({ratio, DelayFloor}) \in Nat \ {0}
  <2>1. Max({ratio, DelayFloor}) \in {ratio, DelayFloor} /\ Max({ratio, DelayFloor}) >= DelayFloor
    BY <1>1, MaxOfTwo, SMTT(40)
  <2> QED BY <1>1, <2>1
<1>3. load.delay * RatioOne \in Nat
  BY <1>1, ProductNat
<1>4. CeilDiv(load.delay * RatioOne, Max({ratio, DelayFloor})) \in Nat
  <2> DEFINE m == Max({ratio, DelayFloor})
             n == load.delay * RatioOne
  <2>1. n + m - 1 \in Nat /\ m \in Nat \ {0}
    BY <1>2, <1>3
  <2> HIDE DEF m, n
  <2>2. (n + m - 1) \div m \in Nat
    BY <2>1, DivNat
  <2> QED BY <2>2 DEF CeilDiv, m, n
<1>5. Max({CeilDiv(load.delay * RatioOne, Max({ratio, DelayFloor})), 1}) \in Nat \ {0}
  <2> DEFINE c == CeilDiv(load.delay * RatioOne, Max({ratio, DelayFloor}))
  <2>1. c \in Nat
    BY <1>4
  <2> HIDE DEF c
  <2>2. Max({c, 1}) \in {c, 1} /\ Max({c, 1}) >= 1
    BY <2>1, MaxOfTwo
  <2> QED BY <2>1, <2>2 DEF c
<1> QED BY <1>1, <1>5 DEF EffectiveDelay, brownout_gate_delay

\* The strength a ratio grants is a natural.
LEMMA StrengthNat ==
  ASSUME SchedulingAssumption, NEW ratio \in Ratios
  PROVE  EffectiveStrength(ratio) \in Nat
<1>1. NominalDrive \in Nat /\ ratio \in Nat /\ RatioOne \in Nat \ {0}
  BY DEF SchedulingAssumption
<1>2. NominalDrive * ratio \in Nat
  BY <1>1, ProductNat
<1>3. (NominalDrive * ratio) \div RatioOne \in Nat
  BY <1>1, <1>2, DivNat
<1> QED BY <1>1, <1>3 DEF EffectiveStrength, scale_drive

-----------------------------------------------------------------------------
(* Phase 6 for one gate.                                                   *)

\* The shape of a gate record; heat, of which nothing is claimed, is anything.
RecordShape(r) ==
  \E h : r \in [current : Levels, desired : Levels, pending : SUBSET Pending,
                generation : Nat, unpowered : Nat, heat : {h}]

\* The tuple of a switch that starts now.
NewPending(t, load, ratio) ==
  [due |-> tick + EffectiveDelay(load, ratio), level |-> t.level, energy |-> t.energy]

\* What Phase 6 asks for is a level the output does not have, and free of
\* energy only for the reset to Low.
LEMMA TargetShape ==
  ASSUME SchedulingAssumption, NEW r, RecordShape(r), NEW load \in Loads, NEW ratio \in Ratios,
         NEW t \in Target(r, load, ratio)
  PROVE  /\ Target(r, load, ratio) = {t}
         /\ t.level \in Levels /\ t.level # r.current /\ t.energy \in Nat
         /\ t.energy = 0 => RetentionExpired(r, ratio) /\ t.level = "Low"
         /\ t.energy # 0 => Powered(ratio)
         /\ RetentionExpired(r, ratio) => t.level = "Low" /\ t.energy = 0
         /\ ~RetentionExpired(r, ratio) => t.level = r.desired
<1>1. r.current \in Levels /\ r.desired \in Levels /\ load.energy \in Nat \ {0}
  BY DEF RecordShape, SchedulingAssumption
<1>2. CASE RetentionExpired(r, ratio)
  BY <1>1, <1>2 DEF Target, RetentionExpired, Levels
<1>3. CASE ~RetentionExpired(r, ratio)
  BY <1>1, <1>3 DEF Target
<1> QED BY <1>2, <1>3

\* The record Phase 6 leaves, field by field.
LEMMA ScheduledFields ==
  ASSUME SchedulingAssumption, tick \in Nat, NEW r, RecordShape(r),
         NEW load \in Loads, NEW ratio \in Ratios
  PROVE  LET s == Scheduled(r, load, ratio) IN
         /\ RecordShape(s)
         /\ s.current = r.current
         /\ s.unpowered = Unpowered(r, ratio)
         /\ s.desired = (IF RetentionExpired(r, ratio) THEN "Low" ELSE r.desired)
         /\ s.generation = Generation(r, load, ratio)
         /\ s.pending = (r.pending \ Cancels(r, load, ratio)) \cup
                        {NewPending(t, load, ratio) : t \in Starts(r, load, ratio)}
<1> DEFINE s == Scheduled(r, load, ratio)
           u == Unpowered(r, ratio)
           d == IF RetentionExpired(r, ratio) THEN "Low" ELSE r.desired
           n == Generation(r, load, ratio)
           h == r.heat + CancelledHeat(Cancels(r, load, ratio))
           q == (r.pending \ Cancels(r, load, ratio)) \cup
                {NewPending(t, load, ratio) : t \in Starts(r, load, ratio)}
<1>1. /\ r.current \in Levels /\ r.desired \in Levels /\ r.pending \subseteq Pending
      /\ r.generation \in Nat /\ r.unpowered \in Nat
  BY DEF RecordShape
<1>2. u \in Nat /\ d \in Levels /\ n \in Nat
  BY <1>1 DEF Unpowered, Generation, Levels
<1>3. q \subseteq Pending
  <2>1. ASSUME NEW t \in Starts(r, load, ratio) PROVE NewPending(t, load, ratio) \in Pending
    <3>1. t \in Target(r, load, ratio)
      BY DEF Starts
    <3>2. t.level \in Levels /\ t.energy \in Nat
      BY <3>1, TargetShape
    <3>3. tick + EffectiveDelay(load, ratio) \in Nat
      BY DelayPositive
    <3> QED BY <3>2, <3>3 DEF NewPending, Pending
  <2> QED BY <1>1, <2>1
<1>4. s = [r EXCEPT !.unpowered = u, !.desired = d, !.generation = n, !.heat = h, !.pending = q]
  BY DEF Scheduled, NewPending
<1> HIDE DEF s, u, d, n, h, q
<1>5. PICK k : r \in [current : Levels, desired : Levels, pending : SUBSET Pending,
                      generation : Nat, unpowered : Nat, heat : {k}]
  BY DEF RecordShape
<1>6. /\ s \in [current : Levels, desired : Levels, pending : SUBSET Pending,
                generation : Nat, unpowered : Nat, heat : {h}]
      /\ s.current = r.current /\ s.unpowered = u /\ s.desired = d
      /\ s.generation = n /\ s.pending = q
  BY <1>2, <1>3, <1>4, <1>5
<1> QED BY <1>6 DEF RecordShape, s, u, d, n, q

\* What becomes of the pending transition: it is kept, or cancelled, or a new
\* one takes its place.
LEMMA PendingFate ==
  ASSUME SchedulingAssumption, tick \in Nat, NEW r, RecordShape(r),
         \A p, q \in r.pending : p = q,
         NEW load \in Loads, NEW ratio \in Ratios
  PROVE  LET s == Scheduled(r, load, ratio)
             starts == Starts(r, load, ratio) IN
         \/ /\ starts = {} /\ s.pending = r.pending /\ s.generation = r.generation
            /\ \A p \in r.pending : p.level = s.desired
            /\ Target(r, load, ratio) # {} => r.pending # {}
         \/ /\ starts = {} /\ s.pending = {} /\ s.generation = r.generation + 1
            /\ Target(r, load, ratio) = {}
         \/ \E t \in Target(r, load, ratio) :
               /\ starts = {t} /\ s.pending = {NewPending(t, load, ratio)}
               /\ s.generation = r.generation + 1 /\ s.desired = t.level
<1> DEFINE s == Scheduled(r, load, ratio)
           starts == Starts(r, load, ratio)
           cancels == Cancels(r, load, ratio)
           target == Target(r, load, ratio)
<1>1. /\ s.desired = (IF RetentionExpired(r, ratio) THEN "Low" ELSE r.desired)
      /\ s.generation = IF starts # {} \/ cancels # {} THEN r.generation + 1 ELSE r.generation
      /\ s.pending = (r.pending \ cancels) \cup {NewPending(t, load, ratio) : t \in starts}
  BY ScheduledFields DEF Generation
<1>2. starts \subseteq target /\ \A t \in target : t \in starts <=> \A p \in r.pending : p.level # t.level
  BY DEF Starts
<1>3. cancels = IF target = {} THEN {p \in r.pending : p.level # r.desired}
                ELSE {p \in r.pending : starts # {}}
  BY DEF Cancels
<1>4. target # {} => \E t : /\ target = {t}
                            /\ RetentionExpired(r, ratio) => t.level = "Low"
                            /\ ~RetentionExpired(r, ratio) => t.level = r.desired
  BY TargetShape
<1>5. RetentionExpired(r, ratio) => target # {}
  BY DEF Target
<1> HIDE DEF s, starts, cancels, target
<1>6. CASE target = {}
  <2>1. starts = {} /\ s.desired = r.desired
    BY <1>1, <1>2, <1>5, <1>6
  <2>2. cancels = {} \/ cancels = r.pending
    BY <1>3, <1>6
  <2>3. CASE cancels = {}
    BY <1>1, <1>3, <1>6, <2>1, <2>3 DEF s, starts, target
  <2>4. CASE cancels # {}
    BY <1>1, <1>6, <2>1, <2>2, <2>4 DEF s, starts, target
  <2> QED BY <2>3, <2>4
<1>7. CASE target # {}
  <2>1. PICK t : /\ target = {t}
                 /\ RetentionExpired(r, ratio) => t.level = "Low"
                 /\ ~RetentionExpired(r, ratio) => t.level = r.desired
    BY <1>4, <1>7
  <2>2. s.desired = t.level
    BY <1>1, <2>1
  <2>3. CASE starts = {}
    <3>1. cancels = {} /\ s.pending = r.pending /\ s.generation = r.generation
      BY <1>1, <1>3, <1>7, <2>3
    <3>2. PICK p \in r.pending : p.level = t.level
      BY <1>2, <2>1, <2>3
    <3>3. \A q \in r.pending : q.level = s.desired
      BY <2>2, <3>2
    <3> QED BY <2>3, <3>1, <3>2, <3>3 DEF s, starts, target
  <2>4. CASE starts # {}
    <3>1. starts = {t} /\ cancels = r.pending
      BY <1>2, <1>3, <1>7, <2>1, <2>4
    <3>2. s.pending = {NewPending(t, load, ratio)} /\ s.generation = r.generation + 1
      BY <1>1, <3>1
    <3> QED BY <2>1, <2>2, <3>1, <3>2 DEF s, starts, target
  <2> QED BY <2>3, <2>4
<1> QED BY <1>6, <1>7

-----------------------------------------------------------------------------
(* The invariant.                                                          *)

\* From Phase 2 on the events of the tick are out of the calendar.
Late == stage \in {"intent", "schedule", "commit"}

\* The shape of the state.
Typed ==
  /\ tick \in Nat
  /\ stage \in {"structural", "drivers", "intent", "schedule", "commit"}
  /\ life \in [Gates -> {"absent", "live", "removed"}]
  /\ DOMAIN gate = {g \in Gates : life[g] = "live"}
  /\ \A g \in DOMAIN gate : RecordShape(gate[g])
  /\ strength \in [DOMAIN gate -> Nat] /\ effective \in [DOMAIN gate -> Nat]
  /\ ordinary \in [DOMAIN gate -> Levels]
  /\ events \subseteq Transition

IsResponse(e, g) == e.gate = g /\ e.cause = "GateStrengthResponse"
IsSwitch(e, g) == e.gate = g /\ e.cause = "GateOutput"

\* No event is late; responses are due in the next Phase 2, one for a gate.
EventsInTime ==
  /\ \A e \in events : /\ life[e.gate] # "absent" /\ e.due >= tick
                       /\ Late => e.due > tick
  /\ \A g \in Gates : \A e \in events : IsResponse(e, g) =>
        /\ stage \notin {"intent", "schedule"}
        /\ e.due = IF stage = "commit" THEN tick + 1 ELSE tick
  /\ \A g \in Gates : \A e, f \in events : IsResponse(e, g) /\ IsResponse(f, g) => e = f

\* A generation is spent on one switch.
OneSwitch(g) ==
  /\ \A e \in events : IsSwitch(e, g) => e.generation \in 1..gate[g].generation
  /\ \A e, f \in events :
        IsSwitch(e, g) /\ IsSwitch(f, g) /\ e.generation = f.generation => e = f

\* The pending tuple and the event of the current generation name each other.
Tied(g) ==
  LET r == gate[g] IN
  /\ \A p, q \in r.pending : p = q
  /\ \A p \in r.pending : \E e \in events :
        IsSwitch(e, g) /\ e.generation = r.generation /\ e.level = p.level /\ e.due = p.due
  /\ \A e \in events : IsSwitch(e, g) /\ e.generation = r.generation =>
        \E p \in r.pending : e.level = p.level /\ e.due = p.due

\* What a gate is switching to, and why it wants it.
Asked(g) ==
  LET r == gate[g] IN
  /\ \A p \in r.pending : p.level # r.current /\ (p.energy = 0 => p.level = "Low")
  /\ stage # "schedule" => \A p \in r.pending : p.level = r.desired
  /\ stage = "schedule" => r.desired = ordinary[g]
  /\ ~Late \/ stage = "commit" =>
        \/ r.desired = ordinary[g]
        \/ /\ r.desired = "Low" /\ r.current # "Low"
           /\ r.unpowered >= RetentionTicks

\* The strength of an output is what was granted, or a response is under way.
Granted(g) ==
  /\ \A e \in events : IsResponse(e, g) =>
        e.level = gate[g].current /\ e.strength = effective[g]
  /\ (\A e \in events : ~IsResponse(e, g)) => strength[g] = effective[g]

GateInv(g) == OneSwitch(g) /\ Tied(g) /\ Asked(g) /\ Granted(g)
IInv == Typed /\ EventsInTime /\ \A g \in DOMAIN gate : GateInv(g)

\* Without gates and events there is nothing to keep.
LEMMA InitInv == Init => IInv
BY DEF Init, IInv, Typed, EventsInTime, EmptyMap, Late, GateInv

\* A new gate is low, asks for low and switches nothing.
LEMMA NewGateShape == RecordShape(NewGate) /\ NewGate.pending = {} /\ NewGate.desired = "Low"
                      /\ NewGate.generation = 0 /\ NewGate.unpowered = 0
<1>1. NewGate \in [current : Levels, desired : Levels, pending : SUBSET Pending,
                   generation : Nat, unpowered : Nat, heat : {0}]
  BY DEF NewGate, Levels
<1> QED BY <1>1 DEF RecordShape, NewGate

\* Phase 0: the calendar holds nothing of a gate that was not there.
LEMMA PlaceKeeps ==
  ASSUME SchedulingAssumption, IInv, NEW g \in Gates, PlaceGate(g)
  PROVE  IInv'
<1>1. /\ stage = "structural" /\ life[g] = "absent" /\ g \notin DOMAIN gate
      /\ UNCHANGED <<tick, stage, events>>
      /\ life' = [life EXCEPT ![g] = "live"]
  BY DEF PlaceGate, IInv, Typed
<1>2. /\ DOMAIN gate' = DOMAIN gate \cup {g} /\ gate'[g] = NewGate
      /\ \A h \in DOMAIN gate : gate'[h] = gate[h]
      /\ strength' \in [DOMAIN gate' -> Nat] /\ strength'[g] = 0
      /\ \A h \in DOMAIN gate : strength'[h] = strength[h]
      /\ effective' \in [DOMAIN gate' -> Nat] /\ effective'[g] = 0
      /\ \A h \in DOMAIN gate : effective'[h] = effective[h]
      /\ ordinary' \in [DOMAIN gate' -> Levels] /\ ordinary'[g] = "Low"
      /\ \A h \in DOMAIN gate : ordinary'[h] = ordinary[h]
  BY <1>1 DEF PlaceGate, Extend, IInv, Typed, Levels
<1>3. Typed'
  BY <1>1, <1>2, NewGateShape DEF IInv, Typed
<1>4. EventsInTime'
  BY <1>1 DEF IInv, EventsInTime, Typed, Transition, Late
<1>5. \A e \in events : e.gate # g
  BY <1>1 DEF IInv, EventsInTime
<1>6. GateInv(g)'
  <2>1. \A e \in events' : ~IsSwitch(e, g) /\ ~IsResponse(e, g)
    BY <1>1, <1>5 DEF IsSwitch, IsResponse
  <2> QED BY <1>1, <1>2, <2>1, NewGateShape
          DEF GateInv, OneSwitch, Tied, Asked, Granted, Late
<1>7. ASSUME NEW h \in DOMAIN gate PROVE GateInv(h)'
  <2>1. GateInv(h)
    BY DEF IInv
  <2> QED BY <1>1, <1>2, <2>1 DEF GateInv, OneSwitch, Tied, Asked, Granted, Late
<1> QED BY <1>2, <1>3, <1>4, <1>6, <1>7 DEF IInv

\* Phase 0: the events of a removed gate stay, and no gate takes its id.
LEMMA RemoveKeeps ==
  ASSUME IInv, NEW g \in Gates, RemoveGate(g)
  PROVE  IInv'
<1>1. /\ stage = "structural" /\ life[g] = "live"
      /\ UNCHANGED <<tick, stage, events>>
      /\ life' = [life EXCEPT ![g] = "removed"]
  BY DEF RemoveGate
<1>2. /\ DOMAIN gate' = DOMAIN gate \ {g}
      /\ \A h \in DOMAIN gate' : /\ gate'[h] = gate[h] /\ strength'[h] = strength[h]
                                 /\ effective'[h] = effective[h] /\ ordinary'[h] = ordinary[h]
      /\ strength' \in [DOMAIN gate' -> Nat] /\ effective' \in [DOMAIN gate' -> Nat]
      /\ ordinary' \in [DOMAIN gate' -> Levels]
  BY DEF RemoveGate, Drop, IInv, Typed
<1>3. Typed'
  BY <1>1, <1>2 DEF IInv, Typed
<1>4. EventsInTime'
  BY <1>1 DEF IInv, EventsInTime, Typed, Transition, Late
<1>5. ASSUME NEW h \in DOMAIN gate' PROVE GateInv(h)'
  <2>1. GateInv(h)
    BY <1>2 DEF IInv
  <2> QED BY <1>1, <1>2, <2>1 DEF GateInv, OneSwitch, Tied, Asked, Granted, Late
<1> QED BY <1>3, <1>4, <1>5 DEF IInv

\* The end of Phase 0 only moves the stage.
LEMMA EndStructuralKeeps ==
  ASSUME IInv, EndStructural PROVE IInv'
<1>1. stage = "structural" /\ stage' = "drivers"
      /\ UNCHANGED <<tick, life, gate, strength, effective, ordinary, events>>
  BY DEF EndStructural
<1>2. Typed' /\ EventsInTime'
  BY <1>1 DEF IInv, Typed, EventsInTime, Late
<1>3. ASSUME NEW h \in DOMAIN gate' PROVE GateInv(h)'
  <2>1. GateInv(h)
    BY <1>1 DEF IInv
  <2> QED BY <1>1, <2>1 DEF GateInv, OneSwitch, Tied, Asked, Granted, Late
<1> QED BY <1>2, <1>3 DEF IInv

\* Phase 2: the switch that is due takes place; it is what was asked for.
LEMMA SwitchedGate ==
  ASSUME IInv, stage = "drivers", NEW g \in DOMAIN gate
  PROVE  LET r == gate[g]
             s == Switched(g) IN
         /\ RecordShape(s) /\ s.desired = r.desired /\ s.generation = r.generation
         /\ s.unpowered = r.unpowered
         /\ \/ /\ ValidFor(g, "GateOutput") = {} /\ s.pending = r.pending
               /\ s.current = r.current
            \/ /\ s.pending = {}
               /\ \E p \in r.pending : p.due = tick /\ s.current = p.level
<1> DEFINE r == gate[g]
<1>1. RecordShape(r)
  BY DEF IInv, Typed
<1>2. CASE ValidFor(g, "GateOutput") = {}
  BY <1>1, <1>2 DEF Switched
<1>3. CASE ValidFor(g, "GateOutput") # {}
  <2>1. PICK e \in ValidFor(g, "GateOutput") :
            Switched(g) = [r EXCEPT !.current = e.level, !.pending = {}]
    BY <1>3 DEF Switched
  <2>2. \E p \in r.pending : p.due = tick /\ p.level = e.level
    BY <2>1 DEF ValidFor, Valid
  <2>3. e.level \in Levels
    BY <2>1 DEF ValidFor, IInv, Typed, Transition
  <2>4. PICK k : r \in [current : Levels, desired : Levels, pending : SUBSET Pending,
                        generation : Nat, unpowered : Nat, heat : {k}]
    BY <1>1 DEF RecordShape
  <2>5. /\ Switched(g) \in [current : Levels, desired : Levels, pending : SUBSET Pending,
                            generation : Nat, unpowered : Nat, heat : {k}]
        /\ Switched(g).desired = r.desired /\ Switched(g).generation = r.generation
        /\ Switched(g).unpowered = r.unpowered
        /\ Switched(g).current = e.level /\ Switched(g).pending = {}
    BY <2>1, <2>3, <2>4
  <2> QED BY <2>2, <2>5 DEF RecordShape
<1> QED BY <1>2, <1>3

\* Phase 2: the events that are due leave the calendar, and the tuples they
\* belong to leave the gates.
LEMMA ApplyKeeps ==
  ASSUME IInv, NEW inputs \in [DOMAIN gate -> Levels], ApplyTransitions(inputs)
  PROVE  IInv'
<1>1. /\ stage = "drivers" /\ stage' = "intent"
      /\ UNCHANGED <<tick, life, effective>>
      /\ ordinary' = inputs
      /\ events' = {e \in events : e.due # tick}
      /\ DOMAIN gate' = DOMAIN gate /\ DOMAIN strength' = DOMAIN gate
      /\ \A g \in DOMAIN gate : gate'[g] = Switched(g)
  BY DEF ApplyTransitions, Live
<1>2. ASSUME NEW g \in DOMAIN gate
      PROVE  GateInv(g)' /\ RecordShape(gate'[g]) /\ strength'[g] \in Nat
  <2> DEFINE r == gate[g]
             s == gate'[g]
  <2>1. /\ RecordShape(s) /\ s.desired = r.desired /\ s.generation = r.generation
        /\ s.unpowered = r.unpowered
        /\ \/ /\ ValidFor(g, "GateOutput") = {} /\ s.pending = r.pending
              /\ s.current = r.current
           \/ /\ s.pending = {}
              /\ \E p \in r.pending : p.due = tick /\ s.current = p.level
    BY <1>1, SwitchedGate
  <2>2. OneSwitch(g) /\ Tied(g) /\ Asked(g) /\ Granted(g) /\ g \in Gates
    BY DEF IInv, GateInv, Typed
  <2>3. r.pending \subseteq Pending /\ r.generation \in Nat
    BY DEF IInv, Typed, RecordShape
  <2>4. OneSwitch(g)'
    BY <1>1, <2>1, <2>2 DEF OneSwitch, IsSwitch
  <2>5. Tied(g)'
    <3>1. CASE s.pending = {}
      <4>1. \A e \in events : IsSwitch(e, g) /\ e.generation = r.generation =>
                r.pending = {} \/ e.due = tick
        <5> SUFFICES ASSUME NEW e \in events, IsSwitch(e, g), e.generation = r.generation,
                            r.pending # {}
                     PROVE  e.due = tick
          OBVIOUS
        <5>1. PICK p \in r.pending : e.due = p.due
          BY <2>2 DEF Tied
        <5>2. CASE s.pending = r.pending
          BY <3>1, <5>2
        <5>3. CASE \E q \in r.pending : q.due = tick
          BY <2>2, <5>1, <5>3 DEF Tied
        <5> QED BY <2>1, <5>2, <5>3
      <4>2. \A e \in events' : ~(IsSwitch(e, g) /\ e.generation = s.generation)
        <5> SUFFICES ASSUME NEW e \in events', IsSwitch(e, g), e.generation = s.generation
                     PROVE  FALSE
          OBVIOUS
        <5>1. e \in events /\ e.due # tick
          BY <1>1
        <5>2. r.pending = {}
          BY <2>1, <4>1, <5>1
        <5> QED BY <2>1, <2>2, <5>1, <5>2 DEF Tied
      <4> QED BY <3>1, <4>2 DEF Tied
    <3>2. CASE s.pending # {}
      <4>1. ValidFor(g, "GateOutput") = {} /\ s.pending = r.pending
        BY <2>1, <3>2
      <4>2. \A e \in events : IsSwitch(e, g) /\ e.generation = r.generation => e.due # tick
        <5> SUFFICES ASSUME NEW e \in events, IsSwitch(e, g), e.generation = r.generation, e.due = tick
                     PROVE  FALSE
          OBVIOUS
        <5>1. \E p \in r.pending : p.due = tick /\ p.level = e.level
          BY <2>2 DEF Tied
        <5>2. e \in ValidFor(g, "GateOutput")
          BY <5>1 DEF ValidFor, Valid, IsSwitch, Live
        <5> QED BY <4>1, <5>2
      <4>3. \A e \in events : IsSwitch(e, g) /\ e.generation = r.generation => e \in events'
        BY <1>1, <4>2
      <4> QED BY <1>1, <2>1, <2>2, <4>1, <4>3 DEF Tied
    <3> QED BY <3>1, <3>2
  <2>6. Asked(g)'
    <3>1. \A p \in s.pending : p \in r.pending /\ s.current = r.current
      BY <2>1
    <3> QED BY <1>1, <2>1, <2>2, <3>1 DEF Asked, Late
  <2>7. strength'[g] = effective[g] /\ effective[g] \in Nat
    <3>1. effective[g] \in Nat
      BY DEF IInv, Typed
    <3>2. CASE ValidFor(g, "GateStrengthResponse") = {}
      <4>1. strength'[g] = strength[g]
        BY <3>2 DEF ApplyTransitions, Live
      <4>2. ASSUME NEW e \in events, IsResponse(e, g) PROVE FALSE
        <5>1. e.due = tick /\ e.level = r.current
          BY <1>1, <2>2, <4>2 DEF IInv, EventsInTime, Granted
        <5>2. e \in ValidFor(g, "GateStrengthResponse")
          BY <4>2, <5>1 DEF ValidFor, Valid, IsResponse, Live
        <5> QED BY <3>2, <5>2
      <4> QED BY <2>2, <3>1, <4>1, <4>2 DEF Granted
    <3>3. CASE ValidFor(g, "GateStrengthResponse") # {}
      <4>1. PICK e \in ValidFor(g, "GateStrengthResponse") : strength'[g] = e.strength
        BY <3>3 DEF ApplyTransitions, Live
      <4>2. e \in events /\ IsResponse(e, g)
        BY <4>1 DEF ValidFor, IsResponse
      <4> QED BY <2>2, <3>1, <4>1, <4>2 DEF Granted
    <3> QED BY <3>2, <3>3
  <2>8. \A e \in events' : ~IsResponse(e, g)
    BY <1>1, <2>2 DEF IInv, EventsInTime
  <2>9. Granted(g)'
    BY <1>1, <2>7, <2>8 DEF Granted
  <2> QED BY <2>1, <2>4, <2>5, <2>6, <2>7, <2>9 DEF GateInv
<1>3. strength' = [g \in DOMAIN gate |-> strength'[g]]
  BY DEF ApplyTransitions, Live
<1>4. Typed'
  BY <1>1, <1>2, <1>3 DEF IInv, Typed
<1>5. EventsInTime'
  <2>1. \A e \in events' : e \in events /\ e.due > tick
    BY <1>1 DEF IInv, EventsInTime, Typed, Transition
  <2> QED BY <1>1, <2>1 DEF IInv, EventsInTime, Late
<1> QED BY <1>1, <1>2, <1>4, <1>5 DEF IInv

\* Phase 3.
LEMMA IntentKeeps ==
  ASSUME IInv, EvaluateIntent PROVE IInv'
<1>1. /\ stage = "intent" /\ stage' = "schedule"
      /\ UNCHANGED <<tick, life, strength, effective, ordinary, events>>
      /\ DOMAIN gate' = DOMAIN gate
      /\ \A g \in DOMAIN gate : gate'[g] = [gate[g] EXCEPT !.desired = ordinary[g]]
  BY DEF EvaluateIntent, Live
<1>2. ASSUME NEW g \in DOMAIN gate
      PROVE  /\ RecordShape(gate'[g]) /\ gate'[g].desired = ordinary[g]
             /\ gate'[g].current = gate[g].current /\ gate'[g].pending = gate[g].pending
             /\ gate'[g].generation = gate[g].generation
             /\ gate'[g].unpowered = gate[g].unpowered
  <2>1. PICK k : gate[g] \in [current : Levels, desired : Levels, pending : SUBSET Pending,
                              generation : Nat, unpowered : Nat, heat : {k}]
    BY DEF IInv, Typed, RecordShape
  <2>2. ordinary[g] \in Levels
    BY DEF IInv, Typed
  <2>3. /\ gate'[g] \in [current : Levels, desired : Levels, pending : SUBSET Pending,
                         generation : Nat, unpowered : Nat, heat : {k}]
        /\ gate'[g].desired = ordinary[g]
        /\ gate'[g].current = gate[g].current /\ gate'[g].pending = gate[g].pending
        /\ gate'[g].generation = gate[g].generation
        /\ gate'[g].unpowered = gate[g].unpowered
    BY <1>1, <2>1, <2>2
  <2> QED BY <2>3 DEF RecordShape
<1>3. Typed' /\ EventsInTime'
  BY <1>1, <1>2 DEF IInv, Typed, EventsInTime, Late
<1>4. ASSUME NEW g \in DOMAIN gate PROVE GateInv(g)'
  <2>1. GateInv(g)
    BY DEF IInv
  <2> QED BY <1>1, <1>2, <2>1 DEF GateInv, OneSwitch, Tied, Asked, Granted, Late
<1> QED BY <1>1, <1>3, <1>4 DEF IInv

\* Phase 6 for every gate: what is new in the calendar.
LEMMA NewEvents ==
  ASSUME SchedulingAssumption, IInv, NEW g \in DOMAIN gate, NEW load \in Loads, NEW ratio \in Ratios
  PROVE  /\ \A e \in SwitchEvents(g, load, ratio) :
               /\ e \in Transition /\ IsSwitch(e, g) /\ e.due > tick
               /\ e.generation = Generation(gate[g], load, ratio)
         /\ \A e \in StrengthEvents(g, ratio) :
               /\ e \in Transition /\ IsResponse(e, g) /\ e.due = tick + 1
               /\ e.level = gate[g].current /\ e.strength = EffectiveStrength(ratio)
         /\ \A e, f \in StrengthEvents(g, ratio) : e = f
         /\ StrengthEvents(g, ratio) = {} => strength[g] = EffectiveStrength(ratio)
<1>1. /\ RecordShape(gate[g]) /\ tick \in Nat /\ g \in Gates
      /\ gate[g].current \in Levels /\ gate[g].generation \in Nat
  BY DEF IInv, Typed, RecordShape
<1>2. EffectiveDelay(load, ratio) \in Nat \ {0} /\ EffectiveStrength(ratio) \in Nat
  BY DelayPositive, StrengthNat
<1>3. Generation(gate[g], load, ratio) \in Nat
  BY <1>1 DEF Generation
<1>4. ASSUME NEW e \in SwitchEvents(g, load, ratio)
      PROVE  /\ e \in Transition /\ IsSwitch(e, g) /\ e.due > tick
             /\ e.generation = Generation(gate[g], load, ratio)
  <2>1. PICK t \in Starts(gate[g], load, ratio) :
            e = [due |-> tick + EffectiveDelay(load, ratio), gate |-> g,
                 level |-> t.level, strength |-> EffectiveStrength(ratio),
                 generation |-> Generation(gate[g], load, ratio), cause |-> "GateOutput"]
    BY DEF SwitchEvents
  <2>2. t.level \in Levels
    BY <1>1, TargetShape DEF Starts
  <2>3. tick + EffectiveDelay(load, ratio) \in Nat /\ tick + EffectiveDelay(load, ratio) > tick
    BY <1>1, <1>2
  <2> QED BY <1>1, <1>2, <1>3, <2>1, <2>2, <2>3 DEF Transition, IsSwitch
<1>5. ASSUME NEW e \in StrengthEvents(g, ratio)
      PROVE  e = [due |-> tick + 1, gate |-> g, level |-> gate[g].current,
                  strength |-> EffectiveStrength(ratio), generation |-> 0,
                  cause |-> "GateStrengthResponse"]
  BY DEF StrengthEvents
<1>6. ASSUME NEW e \in StrengthEvents(g, ratio)
      PROVE  /\ e \in Transition /\ IsResponse(e, g) /\ e.due = tick + 1
             /\ e.level = gate[g].current /\ e.strength = EffectiveStrength(ratio)
  BY <1>1, <1>2, <1>5 DEF Transition, IsResponse
<1>7. StrengthEvents(g, ratio) = {} => strength[g] = EffectiveStrength(ratio)
  BY DEF StrengthEvents
<1> QED BY <1>4, <1>5, <1>6, <1>7

\* Phase 6: at most one new event of each kind for a gate, with a generation that
\* no event has had.
LEMMA ScheduleKeeps ==
  ASSUME SchedulingAssumption, IInv,
         NEW load \in [DOMAIN gate -> Loads], NEW ratio \in [DOMAIN gate -> Ratios],
         Schedule(load, ratio)
  PROVE  IInv'
<1>1. /\ stage = "schedule" /\ stage' = "commit"
      /\ UNCHANGED <<tick, life, strength, ordinary>>
      /\ DOMAIN gate' = DOMAIN gate
      /\ \A g \in DOMAIN gate : gate'[g] = Scheduled(gate[g], load[g], ratio[g])
      /\ effective' = [g \in DOMAIN gate |-> EffectiveStrength(ratio[g])]
      /\ events' = events \cup UNION {SwitchEvents(g, load[g], ratio[g])
                                      \cup StrengthEvents(g, ratio[g]) : g \in DOMAIN gate}
  BY DEF Schedule, Live
<1>2. \A g \in DOMAIN gate : load[g] \in Loads /\ ratio[g] \in Ratios
  OBVIOUS
<1>3. /\ \A e \in events' : \/ e \in events
                            \/ \E g \in DOMAIN gate : \/ e \in SwitchEvents(g, load[g], ratio[g])
                                                      \/ e \in StrengthEvents(g, ratio[g])
      /\ events \subseteq events'
      /\ \A g \in DOMAIN gate : /\ SwitchEvents(g, load[g], ratio[g]) \subseteq events'
                                /\ StrengthEvents(g, ratio[g]) \subseteq events'
  BY <1>1
<1>4. \A e \in events : /\ e.due > tick /\ life[e.gate] # "absent"
                        /\ \A g \in Gates : ~IsResponse(e, g)
  BY <1>1 DEF IInv, EventsInTime, Late
<1>5. ASSUME NEW g \in DOMAIN gate
      PROVE  /\ \A e \in events' : IsResponse(e, g) => e \in StrengthEvents(g, ratio[g])
             /\ \A e \in events' : IsSwitch(e, g) =>
                   e \in events \/ e \in SwitchEvents(g, load[g], ratio[g])
  <2>1. g \in Gates
    BY DEF IInv, Typed
  <2>2. ASSUME NEW h \in DOMAIN gate, NEW e \in SwitchEvents(h, load[h], ratio[h])
        PROVE  ~IsResponse(e, g) /\ (IsSwitch(e, g) => h = g)
    BY <1>2, <2>2, NewEvents DEF IsResponse, IsSwitch
  <2>3. ASSUME NEW h \in DOMAIN gate, NEW e \in StrengthEvents(h, ratio[h])
        PROVE  ~IsSwitch(e, g) /\ (IsResponse(e, g) => h = g)
    BY <1>2, <2>3, NewEvents DEF IsResponse, IsSwitch
  <2> QED BY <1>3, <1>4, <2>1, <2>2, <2>3
<1>6. ASSUME NEW e \in events' \ events
      PROVE  /\ e \in Transition /\ e.due > tick /\ life[e.gate] = "live"
             /\ \A g \in Gates : IsResponse(e, g) => e.due = tick + 1
  <2>0. tick \in Nat /\ DOMAIN gate = {g \in Gates : life[g] = "live"}
    BY DEF IInv, Typed
  <2>1. CASE \E g \in DOMAIN gate : e \in SwitchEvents(g, load[g], ratio[g])
    BY <1>2, <2>0, <2>1, NewEvents DEF IsSwitch, IsResponse
  <2>2. CASE \E g \in DOMAIN gate : e \in StrengthEvents(g, ratio[g])
    BY <1>2, <2>0, <2>2, NewEvents DEF IsSwitch, IsResponse
  <2> QED BY <1>3, <2>1, <2>2
<1>7. ASSUME NEW g \in DOMAIN gate
      PROVE  GateInv(g)' /\ RecordShape(gate'[g])
  <2> DEFINE r == gate[g]
             s == gate'[g]
             new == SwitchEvents(g, load[g], ratio[g])
  <2>1. OneSwitch(g) /\ Tied(g) /\ Asked(g) /\ Granted(g) /\ g \in Gates /\ tick \in Nat
    BY DEF IInv, GateInv, Typed
  <2>2. RecordShape(r) /\ r.generation \in Nat /\ load[g] \in Loads /\ ratio[g] \in Ratios
    BY <1>2 DEF IInv, Typed, RecordShape
  <2>3. /\ RecordShape(s) /\ s.current = r.current
        /\ s.unpowered = Unpowered(r, ratio[g])
        /\ s.desired = (IF RetentionExpired(r, ratio[g]) THEN "Low" ELSE r.desired)
        /\ s.generation = Generation(r, load[g], ratio[g])
    BY <1>1, <2>1, <2>2, ScheduledFields
  <2>4. \/ /\ Starts(r, load[g], ratio[g]) = {}
           /\ s.pending = r.pending /\ s.generation = r.generation
           /\ \A p \in r.pending : p.level = s.desired
        \/ /\ Starts(r, load[g], ratio[g]) = {}
           /\ s.pending = {} /\ s.generation = r.generation + 1
        \/ \E t \in Target(r, load[g], ratio[g]) :
              /\ Starts(r, load[g], ratio[g]) = {t}
              /\ s.pending = {NewPending(t, load[g], ratio[g])}
              /\ s.generation = r.generation + 1 /\ s.desired = t.level
    BY <1>1, <2>1, <2>2, PendingFate DEF Tied
  <2>5. /\ \A e \in new : IsSwitch(e, g) /\ e.generation = s.generation
        /\ new = {} <=> Starts(r, load[g], ratio[g]) = {}
    <3>1. \A e \in new : IsSwitch(e, g) /\ e.generation = s.generation
      BY <2>2, <2>3, NewEvents
    <3>2. new = {} <=> Starts(r, load[g], ratio[g]) = {}
      BY DEF SwitchEvents
    <3> QED BY <3>1, <3>2
  <2>6. \A t : Starts(r, load[g], ratio[g]) = {t} =>
           \A e \in new : e.level = t.level /\ e.due = tick + EffectiveDelay(load[g], ratio[g])
    BY DEF SwitchEvents
  <2>7. \A t : Starts(r, load[g], ratio[g]) = {t} => \A e, f \in new : e = f
    BY DEF SwitchEvents
  <2>8. OneSwitch(g)'
    <3>1. CASE new = {}
      <4>1. s.generation = r.generation \/ s.generation = r.generation + 1
        BY <2>4
      <4>2. \A e \in events' : IsSwitch(e, g) => e \in events
        BY <1>5, <3>1
      <4> QED BY <2>1, <2>2, <4>1, <4>2 DEF OneSwitch, IsSwitch
    <3>2. CASE new # {}
      <4>1. s.generation = r.generation + 1 /\ \A e, f \in new : e = f
        BY <2>4, <2>5, <2>7, <3>2
      <4>2. \A e \in events : IsSwitch(e, g) => e.generation \in 1..r.generation
        BY <2>1 DEF OneSwitch
      <4>3. \A e \in events' : IsSwitch(e, g) => e \in events \/ e \in new
        BY <1>5
      <4>4. \A e \in events' : IsSwitch(e, g) => e.generation \in 1..s.generation
        BY <2>2, <2>5, <4>1, <4>2, <4>3
      <4>5. ASSUME NEW e \in events', NEW f \in events', IsSwitch(e, g), IsSwitch(f, g),
                   e.generation = f.generation
            PROVE  e = f
        <5>1. CASE e \in new
          <6>1. f \in new
            BY <2>2, <2>5, <4>1, <4>2, <4>3, <4>5, <5>1
          <6> QED BY <4>1, <5>1, <6>1
        <5>2. CASE e \in events
          <6>1. f \in events
            BY <2>2, <2>5, <4>1, <4>2, <4>3, <4>5, <5>2
          <6> QED BY <2>1, <4>5, <5>2, <6>1 DEF OneSwitch
        <5> QED BY <4>3, <4>5, <5>1, <5>2
      <4> QED BY <4>4, <4>5 DEF OneSwitch, IsSwitch
    <3> QED BY <3>1, <3>2
  <2>9. Tied(g)'
    <3>1. CASE Starts(r, load[g], ratio[g]) = {} /\ s.pending = r.pending
               /\ s.generation = r.generation
      <4>1. \A e \in events' : IsSwitch(e, g) => e \in events
        BY <1>5, <2>5, <3>1
      <4> QED BY <1>3, <2>1, <3>1, <4>1 DEF Tied, IsSwitch
    <3>2. CASE Starts(r, load[g], ratio[g]) = {} /\ s.pending = {}
               /\ s.generation = r.generation + 1
      <4>1. \A e \in events' : IsSwitch(e, g) => e \in events
        BY <1>5, <2>5, <3>2
      <4>2. \A e \in events' : IsSwitch(e, g) => e.generation # s.generation
        BY <2>1, <2>2, <3>2, <4>1 DEF OneSwitch
      <4> QED BY <3>2, <4>2 DEF Tied, IsSwitch
    <3>3. CASE \E t \in Target(r, load[g], ratio[g]) :
                  /\ Starts(r, load[g], ratio[g]) = {t}
                  /\ s.pending = {NewPending(t, load[g], ratio[g])}
                  /\ s.generation = r.generation + 1 /\ s.desired = t.level
      <4>1. PICK t : /\ Starts(r, load[g], ratio[g]) = {t}
                     /\ s.pending = {NewPending(t, load[g], ratio[g])}
                     /\ s.generation = r.generation + 1
        BY <3>3
      <4> DEFINE n == NewPending(t, load[g], ratio[g])
      <4>2. PICK e \in new : TRUE
        BY <2>5, <4>1
      <4>3. /\ e \in events' /\ IsSwitch(e, g) /\ e.generation = s.generation
            /\ e.level = n.level /\ e.due = n.due
        BY <1>3, <2>5, <2>6, <4>1, <4>2 DEF NewPending
      <4>4. \A f \in events' : IsSwitch(f, g) /\ f.generation = s.generation =>
                f.level = n.level /\ f.due = n.due
        <5>1. \A f \in events : IsSwitch(f, g) => f.generation # s.generation
          BY <2>1, <2>2, <4>1 DEF OneSwitch
        <5>2. \A f \in new : f.level = n.level /\ f.due = n.due
          BY <2>6, <4>1 DEF NewPending
        <5> QED BY <1>5, <5>1, <5>2
      <4> HIDE DEF n
      <4>5. s.pending = {n}
        BY <4>1 DEF n
      <4> QED BY <4>3, <4>4, <4>5 DEF Tied, IsSwitch
    <3> QED BY <2>4, <3>1, <3>2, <3>3
  <2>10. Asked(g)'
    <3>1. \A p \in s.pending : /\ p.level # s.current /\ (p.energy = 0 => p.level = "Low")
                               /\ p.level = s.desired
      <4>1. CASE s.pending = r.pending /\ \A p \in r.pending : p.level = s.desired
        BY <2>1, <2>3, <4>1 DEF Asked
      <4>2. CASE \E t \in Target(r, load[g], ratio[g]) :
                    s.pending = {NewPending(t, load[g], ratio[g])} /\ s.desired = t.level
        <5>1. PICK t \in Target(r, load[g], ratio[g]) :
                    s.pending = {NewPending(t, load[g], ratio[g])} /\ s.desired = t.level
          BY <4>2
        <5>2. t.level # r.current /\ (t.energy = 0 => t.level = "Low")
          BY <2>2, TargetShape
        <5> QED BY <2>3, <5>1, <5>2 DEF NewPending
      <4> QED BY <2>4, <4>1, <4>2
    <3>2. \/ s.desired = ordinary[g]
          \/ s.desired = "Low" /\ s.current # "Low" /\ s.unpowered >= RetentionTicks
      BY <1>1, <2>1, <2>3 DEF Asked, RetentionExpired
    <3> QED BY <1>1, <3>1, <3>2 DEF Asked, Late
  <2>11. Granted(g)'
    <3>1. effective'[g] = EffectiveStrength(ratio[g]) /\ strength'[g] = strength[g]
      BY <1>1
    <3>2. ASSUME NEW e \in events', IsResponse(e, g)
          PROVE  e.level = s.current /\ e.strength = effective'[g]
      BY <1>5, <2>2, <2>3, <3>1, <3>2, NewEvents
    <3>3. ASSUME \A e \in events' : ~IsResponse(e, g)
          PROVE  strength'[g] = effective'[g]
      <4>1. StrengthEvents(g, ratio[g]) = {}
        BY <1>3, <2>2, <3>3, NewEvents
      <4> QED BY <2>2, <3>1, <4>1, NewEvents
    <3> QED BY <3>2, <3>3 DEF Granted, IsResponse
  <2> QED BY <2>3, <2>8, <2>9, <2>10, <2>11 DEF GateInv
<1>8. Typed'
  <2>1. events' \subseteq Transition
    BY <1>6 DEF IInv, Typed
  <2>2. effective' \in [DOMAIN gate' -> Nat]
    BY <1>1, <1>2, StrengthNat
  <2> QED BY <1>1, <1>7, <2>1, <2>2 DEF IInv, Typed
<1>9. EventsInTime'
  <2>1. \A e \in events' : life[e.gate] # "absent" /\ e.due > tick
    BY <1>4, <1>6
  <2>2. \A e \in events' : tick \in Nat /\ e.due \in Nat
    BY <1>8, <1>1 DEF Typed, Transition
  <2>3. \A g \in Gates : \A e \in events' : IsResponse(e, g) => e.due = tick + 1
    BY <1>4, <1>6
  <2>4. ASSUME NEW g \in Gates, NEW e \in events', NEW f \in events',
               IsResponse(e, g), IsResponse(f, g)
        PROVE  e = f
    <3>1. g \in DOMAIN gate
      <4>1. life[g] = "live"
        BY <1>4, <1>6, <2>4 DEF IsResponse
      <4> QED BY <4>1 DEF IInv, Typed
    <3> QED BY <1>2, <1>5, <2>4, <3>1, NewEvents
  <2> QED BY <1>1, <2>1, <2>2, <2>3, <2>4 DEF EventsInTime, Late, IsResponse
<1> QED BY <1>1, <1>7, <1>8, <1>9 DEF IInv

\* Phases 9 and 11.
LEMMA CommitKeeps ==
  ASSUME IInv, Commit PROVE IInv'
<1>1. /\ stage = "commit" /\ stage' = "structural" /\ tick' = tick + 1
      /\ UNCHANGED <<life, strength, effective, ordinary, events>>
      /\ gate' = gate \/ gate' = [g \in DOMAIN gate |-> [gate[g] EXCEPT !.heat = 0]]
  BY DEF Commit, Live
<1>2. DOMAIN gate' = DOMAIN gate /\ tick \in Nat
  BY <1>1 DEF IInv, Typed
<1>3. ASSUME NEW g \in DOMAIN gate
      PROVE  /\ RecordShape(gate'[g]) /\ gate'[g].desired = gate[g].desired
             /\ gate'[g].current = gate[g].current /\ gate'[g].pending = gate[g].pending
             /\ gate'[g].generation = gate[g].generation
             /\ gate'[g].unpowered = gate[g].unpowered
  <2>1. PICK k : gate[g] \in [current : Levels, desired : Levels, pending : SUBSET Pending,
                              generation : Nat, unpowered : Nat, heat : {k}]
    BY DEF IInv, Typed, RecordShape
  <2>2. CASE gate'[g] = gate[g]
    BY <2>1, <2>2 DEF RecordShape
  <2>3. CASE gate'[g] = [gate[g] EXCEPT !.heat = 0]
    <3>1. /\ gate'[g] \in [current : Levels, desired : Levels, pending : SUBSET Pending,
                           generation : Nat, unpowered : Nat, heat : {0}]
          /\ gate'[g].desired = gate[g].desired
          /\ gate'[g].current = gate[g].current /\ gate'[g].pending = gate[g].pending
          /\ gate'[g].generation = gate[g].generation
          /\ gate'[g].unpowered = gate[g].unpowered
      BY <2>1, <2>3
    <3> QED BY <3>1 DEF RecordShape
  <2> QED BY <1>1, <2>2, <2>3
<1>4. Typed'
  BY <1>1, <1>2, <1>3 DEF IInv, Typed
<1>5. EventsInTime'
  <2>1. \A e \in events : e.due \in Nat /\ e.due > tick
    BY <1>1 DEF IInv, Typed, Transition, EventsInTime, Late
  <2> QED BY <1>1, <1>2, <2>1 DEF IInv, EventsInTime, Late
<1>6. ASSUME NEW g \in DOMAIN gate PROVE GateInv(g)'
  <2>1. GateInv(g)
    BY DEF IInv
  <2> QED BY <1>1, <1>3, <2>1 DEF GateInv, OneSwitch, Tied, Asked, Granted, Late
<1> QED BY <1>2, <1>4, <1>5, <1>6 DEF IInv

\* Every step keeps the invariant.
LEMMA StepKeeps ==
  ASSUME SchedulingAssumption, IInv, [Next]_vars PROVE IInv'
<1>1. ASSUME NEW g \in Gates, PlaceGate(g) \/ RemoveGate(g) PROVE IInv'
  BY <1>1, PlaceKeeps, RemoveKeeps
<1>2. CASE EndStructural
  BY <1>2, EndStructuralKeeps
<1>3. ASSUME NEW inputs \in [Live -> Levels], ApplyTransitions(inputs) PROVE IInv'
  BY <1>3, ApplyKeeps DEF Live
<1>4. CASE EvaluateIntent
  BY <1>4, IntentKeeps
<1>5. ASSUME NEW load \in [Live -> Loads], NEW ratio \in [Live -> Ratios], Schedule(load, ratio)
      PROVE  IInv'
  BY <1>5, ScheduleKeeps DEF Live
<1>6. CASE Commit
  BY <1>6, CommitKeeps
<1>7. CASE UNCHANGED vars
  <2>1. UNCHANGED <<tick, stage, life, gate, strength, effective, ordinary, events>>
    BY <1>7 DEF vars
  <2>2. Typed' /\ EventsInTime'
    BY <2>1 DEF IInv, Typed, EventsInTime, Late
  <2>3. ASSUME NEW g \in DOMAIN gate' PROVE GateInv(g)'
    <3>1. GateInv(g)
      BY <2>1 DEF IInv
    <3> QED BY <2>1, <3>1 DEF GateInv, OneSwitch, Tied, Asked, Granted, Late
  <2> QED BY <2>2, <2>3 DEF IInv
<1> QED BY <1>1, <1>2, <1>3, <1>4, <1>5, <1>6, <1>7 DEF Next

-----------------------------------------------------------------------------
(* What follows from the invariant alone.                                  *)

\* A set without two elements has at most one.
LEMMA AtMostOne ==
  ASSUME NEW S, \A e, f \in S : e = f PROVE Cardinality(S) <= 1
<1>1. CASE S = {}
  BY <1>1, FS_EmptySet
<1>2. CASE S # {}
  <2>1. PICK e : S = {e}
    BY <1>2
  <2> QED BY <2>1, FS_Singleton
<1> QED BY <1>1, <1>2

\* Two valid switches of a gate bear its generation, two responses are equal.
LEMMA InvMerges == IInv => TransitionsMerge
<1> SUFFICES ASSUME IInv, stage = "drivers" PROVE Mergeable /\ \A e \in events : e.due >= tick
  BY DEF TransitionsMerge
<1>1. ASSUME NEW g \in DOMAIN gate PROVE Cardinality(ValidFor(g, "GateOutput")) <= 1
  <2>1. OneSwitch(g)
    BY DEF IInv, GateInv
  <2>2. \A e \in ValidFor(g, "GateOutput") :
            e \in events /\ IsSwitch(e, g) /\ e.generation = gate[g].generation
    BY DEF ValidFor, Valid, IsSwitch
  <2>3. \A e, f \in ValidFor(g, "GateOutput") : e = f
    BY <2>1, <2>2 DEF OneSwitch
  <2> QED BY <2>3, AtMostOne
<1>2. ASSUME NEW g \in DOMAIN gate PROVE Cardinality(ValidFor(g, "GateStrengthResponse")) <= 1
  <2>1. g \in Gates
    BY DEF IInv, Typed
  <2>2. \A e, f \in ValidFor(g, "GateStrengthResponse") : e = f
    BY <2>1 DEF IInv, EventsInTime, ValidFor, IsResponse
  <2> QED BY <2>2, AtMostOne
<1> QED BY <1>1, <1>2 DEF Mergeable, Live, IInv, EventsInTime

\* When the due responses have been applied nothing is under way.
LEMMA InvFollows == IInv => StrengthFollowsPower
<1> SUFFICES ASSUME IInv, stage \in {"intent", "schedule"} PROVE strength = effective
  BY DEF StrengthFollowsPower
<1>1. ASSUME NEW g \in DOMAIN gate PROVE strength[g] = effective[g]
  <2>1. g \in Gates /\ Granted(g)
    BY DEF IInv, Typed, GateInv
  <2> QED BY <2>1 DEF Granted, IInv, EventsInTime
<1> QED BY <1>1 DEF IInv, Typed

\* The events of the current generation are those the tuple names.
LEMMA InvMatches == IInv => PendingMatchesCalendar
<1> SUFFICES ASSUME IInv, NEW g \in DOMAIN gate
             PROVE  {[due |-> e.due, level |-> e.level] :
                        e \in {f \in events : /\ f.gate = g /\ f.cause = "GateOutput"
                                              /\ f.generation = gate[g].generation}}
                    = {[due |-> p.due, level |-> p.level] : p \in gate[g].pending}
  BY DEF PendingMatchesCalendar, Live
<1>1. Tied(g)
  BY DEF IInv, GateInv
<1> QED BY <1>1 DEF Tied, IsSwitch

\* A gate's output changes in Phase 2 only.
LEMMA InvAsked ==
  ASSUME SchedulingAssumption, IInv, [Next]_vars,
         NEW g \in DOMAIN gate \cap DOMAIN gate', gate'[g].current # gate[g].current
  PROVE  \/ gate'[g].current = ordinary[g]
         \/ gate'[g].current = "Low" /\ gate[g].unpowered >= RetentionTicks
<1> DEFINE Goal == \/ gate'[g].current = ordinary[g]
                   \/ gate'[g].current = "Low" /\ gate[g].unpowered >= RetentionTicks
<1>1. PICK k : gate[g] \in [current : Levels, desired : Levels, pending : SUBSET Pending,
                            generation : Nat, unpowered : Nat, heat : {k}]
  BY DEF IInv, Typed, RecordShape
<1>2. ASSUME NEW inputs \in [Live -> Levels], ApplyTransitions(inputs) PROVE Goal
  <2>1. stage = "drivers" /\ gate'[g] = Switched(g)
    BY <1>2 DEF ApplyTransitions, Live
  <2>2. PICK p \in gate[g].pending : gate'[g].current = p.level
    BY <2>1, SwitchedGate
  <2>3. Asked(g)
    BY DEF IInv, GateInv
  <2> QED BY <2>1, <2>2, <2>3 DEF Asked, Late
<1>3. ASSUME NEW load \in [Live -> Loads], NEW ratio \in [Live -> Ratios], Schedule(load, ratio)
      PROVE  Goal
  <2>1. gate'[g] = Scheduled(gate[g], load[g], ratio[g])
    BY <1>3 DEF Schedule, Live
  <2>2. load[g] \in Loads /\ ratio[g] \in Ratios /\ RecordShape(gate[g]) /\ tick \in Nat
    BY <1>3 DEF Live, IInv, Typed
  <2> QED BY <2>1, <2>2, ScheduledFields
<1>4. ASSUME NEW h \in Gates, PlaceGate(h) \/ RemoveGate(h) PROVE Goal
  <2>1. CASE PlaceGate(h)
    <3>1. h \notin DOMAIN gate
      BY <2>1 DEF PlaceGate, IInv, Typed
    <3> QED BY <2>1, <3>1 DEF PlaceGate, Extend
  <2>2. CASE RemoveGate(h)
    BY <2>2 DEF RemoveGate, Drop
  <2> QED BY <1>4, <2>1, <2>2
<1>5. CASE EvaluateIntent
  BY <1>1, <1>5 DEF EvaluateIntent, Live
<1>6. CASE Commit
  BY <1>1, <1>6 DEF Commit, Live
<1>7. CASE EndStructural \/ UNCHANGED vars
  BY <1>7 DEF EndStructural, vars
<1> QED BY <1>2, <1>3, <1>4, <1>5, <1>6, <1>7 DEF Next

\* A pending tuple has exactly one event that will carry it out, and without one
\* no event can fire.
THEOREM CalendarAgrees ==
  ASSUME SchedulingAssumption PROVE Spec => []PendingMatchesCalendar
<1>1. IInv /\ [Next]_vars => IInv'
  BY StepKeeps
<1> QED BY InitInv, InvMatches, <1>1, PTL DEF Spec

\* Phase 2 never meets two transitions of one driver that it cannot merge, nor one
\* whose tick has passed.
THEOREM TransitionsAlwaysMerge ==
  ASSUME SchedulingAssumption PROVE Spec => []TransitionsMerge
<1>1. IInv /\ [Next]_vars => IInv'
  BY StepKeeps
<1> QED BY InitInv, InvMerges, <1>1, PTL DEF Spec

\* The strength of an output is what its power granted in the tick before.
THEOREM StrengthLagsOneTick ==
  ASSUME SchedulingAssumption PROVE Spec => []StrengthFollowsPower
<1>1. IInv /\ [Next]_vars => IInv'
  BY StepKeeps
<1> QED BY InitInv, InvFollows, <1>1, PTL DEF Spec

\* An output only takes a level its inputs asked for in the tick before, or Low
\* after its retention ran out.
THEOREM OutputsWereAskedFor ==
  ASSUME SchedulingAssumption PROVE Spec => OutputWasAskedFor
<1>1. IInv /\ [Next]_vars => IInv'
  BY StepKeeps
<1>2. IInv /\ [Next]_vars =>
        [\A g \in DOMAIN gate \cap DOMAIN gate' :
            gate'[g].current # gate[g].current
               => \/ gate'[g].current = ordinary[g]
                  \/ gate'[g].current = "Low" /\ gate[g].unpowered >= RetentionTicks]_vars
  BY InvAsked
<1> QED BY InitInv, <1>1, <1>2, PTL DEF Spec, OutputWasAskedFor

-----------------------------------------------------------------------------
(* A switch taken over by the loss of power.                               *)

\* A gate whose retention has run out is made to go to Low.
GivenUp(g) ==
  stage = "commit" /\ gate[g].unpowered >= RetentionTicks /\ gate[g].current # "Low"
     => gate[g].desired = "Low" /\ gate[g].pending # {}
ResetUnderWay == \A g \in DOMAIN gate : GivenUp(g)

\* Only Phase 6 leads to the validation: it starts the switch to Low or keeps one.
LEMMA StepResets ==
  ASSUME SchedulingAssumption, IInv, ResetUnderWay, [Next]_vars PROVE ResetUnderWay'
<1>1. ASSUME NEW load \in [Live -> Loads], NEW ratio \in [Live -> Ratios], Schedule(load, ratio),
             NEW g \in DOMAIN gate', gate'[g].unpowered >= RetentionTicks,
             gate'[g].current # "Low"
      PROVE  gate'[g].desired = "Low" /\ gate'[g].pending # {}
  <2> DEFINE r == gate[g]
             s == gate'[g]
             target == Target(r, load[g], ratio[g])
  <2>1. g \in DOMAIN gate /\ s = Scheduled(r, load[g], ratio[g])
    BY <1>1 DEF Schedule, Live
  <2>2. /\ RecordShape(r) /\ r.unpowered \in Nat /\ tick \in Nat /\ Tied(g)
        /\ load[g] \in Loads /\ ratio[g] \in Ratios /\ RetentionTicks \in Nat \ {0}
    BY <2>1 DEF IInv, GateInv, Typed, RecordShape, Live, SchedulingAssumption
  <2>3. /\ s.current = r.current /\ s.unpowered = Unpowered(r, ratio[g])
        /\ s.desired = (IF RetentionExpired(r, ratio[g]) THEN "Low" ELSE r.desired)
    BY <2>1, <2>2, ScheduledFields
  <2>4. RetentionExpired(r, ratio[g])
    BY <1>1, <2>2, <2>3 DEF Unpowered, RetentionExpired
  <2>5. target # {}
    BY <2>4 DEF Target
  <2>6. s.pending # {}
    <3>1. \/ s.pending = r.pending /\ (target # {} => r.pending # {})
          \/ target = {}
          \/ \E t \in target : s.pending = {NewPending(t, load[g], ratio[g])}
      BY <2>1, <2>2, PendingFate DEF Tied
    <3> QED BY <2>5, <3>1
  <2> QED BY <2>3, <2>4, <2>6
<1>2. ASSUME NEW load \in [Live -> Loads], NEW ratio \in [Live -> Ratios], Schedule(load, ratio)
      PROVE  ResetUnderWay'
  BY <1>1, <1>2 DEF ResetUnderWay, GivenUp
<1>3. ASSUME \/ \E g \in Gates : PlaceGate(g) \/ RemoveGate(g)
             \/ EndStructural
             \/ \E inputs \in [Live -> Levels] : ApplyTransitions(inputs)
             \/ EvaluateIntent
             \/ Commit
      PROVE  ResetUnderWay'
  <2>1. stage' # "commit"
    BY <1>3 DEF PlaceGate, RemoveGate, EndStructural, ApplyTransitions, EvaluateIntent, Commit
  <2> QED BY <2>1 DEF ResetUnderWay, GivenUp
<1>4. CASE UNCHANGED vars
  BY <1>4 DEF vars, ResetUnderWay, GivenUp
<1> QED BY <1>2, <1>3, <1>4 DEF Next

\* What the validation demands of a pending transition is always met; what it
\* demands of the desired output is not, if the reset kept a switch with energy.
LEMMA InvLost ==
  SchedulingAssumption /\ IInv /\ ResetUnderWay => LostOnlyToTakeover
<1> SUFFICES ASSUME SchedulingAssumption, IInv, ResetUnderWay, stage = "commit",
                    NEW g \in DOMAIN gate
             PROVE  Canonical(g) <=> ~(TakenOver(g) /\ ordinary[g] # "Low")
  BY DEF LostOnlyToTakeover, Live
<1> DEFINE r == gate[g]
<1>1. /\ OneSwitch(g) /\ Tied(g) /\ Asked(g)
      /\ r.unpowered >= RetentionTicks /\ r.current # "Low"
            => r.desired = "Low" /\ r.pending # {}
  BY DEF IInv, GateInv, ResetUnderWay, GivenUp
<1>2. /\ r.unpowered \in Nat /\ r.generation \in Nat /\ RetentionTicks \in Nat \ {0}
      /\ \A p \in r.pending : p.energy \in Nat
  BY DEF IInv, Typed, RecordShape, Pending, SchedulingAssumption
<1>3. ASSUME NEW p \in r.pending
      PROVE  /\ r.generation # 0 /\ p.due > tick
             /\ p.level = r.desired /\ p.level # r.current
             /\ p.energy = 0 => p.level = "Low"
             /\ \E e \in events :
                   /\ e.gate = g /\ e.cause = "GateOutput"
                   /\ e.generation = r.generation
                   /\ e.level = p.level /\ e.due = p.due
  <2>1. PICK e \in events : /\ IsSwitch(e, g) /\ e.generation = r.generation
                            /\ e.level = p.level /\ e.due = p.due
    BY <1>1 DEF Tied
  <2>2. e.generation \in 1..r.generation /\ e.due > tick
    BY <1>1, <2>1 DEF OneSwitch, IInv, EventsInTime, Late
  <2> QED BY <1>1, <1>2, <2>1, <2>2 DEF Asked, IsSwitch
<1>4. r.desired = ordinary[g] \/ RetentionReset(r) <=> ~(TakenOver(g) /\ ordinary[g] # "Low")
  <2>1. CASE TakenOver(g) /\ ordinary[g] # "Low"
    <3>1. r.desired = "Low" /\ \A p \in r.pending : p.energy # 0
      BY <1>1, <1>2, <2>1 DEF TakenOver, Tied
    <3> QED BY <2>1, <3>1 DEF RetentionReset
  <2>2. CASE ~(TakenOver(g) /\ ordinary[g] # "Low")
    <3>1. CASE r.desired = ordinary[g]
      BY <2>2, <3>1
    <3>2. CASE r.desired # ordinary[g]
      <4>1. r.desired = "Low" /\ r.current # "Low" /\ r.unpowered >= RetentionTicks
        BY <1>1, <3>2 DEF Asked
      <4>2. PICK p \in r.pending : p.level = "Low"
        BY <1>1, <1>3, <4>1
      <4>3. p.energy = 0
        BY <1>2, <2>2, <3>2, <4>1, <4>2 DEF TakenOver
      <4> QED BY <1>2, <2>2, <4>1, <4>2, <4>3 DEF RetentionReset
    <3> QED BY <3>1, <3>2
  <2> QED BY <2>1, <2>2
<1> QED BY <1>3, <1>4 DEF Canonical

\* For every balance: the validation at the end of a step refuses a gate exactly if
\* the reset of its output took over a switch that has its energy while its inputs
\* ask for another level.  CommitAccepted, that it refuses none, is violated.
THEOREM StepsLostOnlyToTakeover ==
  ASSUME SchedulingAssumption PROVE Spec => []LostOnlyToTakeover
<1>1. Init => ResetUnderWay
  BY DEF Init, ResetUnderWay, EmptyMap
<1>2. IInv /\ ResetUnderWay /\ [Next]_vars => IInv' /\ ResetUnderWay'
  BY StepKeeps, StepResets
<1>3. IInv /\ ResetUnderWay => LostOnlyToTakeover
  BY InvLost
<1> QED BY InitInv, <1>1, <1>2, <1>3, PTL DEF Spec

-----------------------------------------------------------------------------
(* No gate is stuck.                                                       *)

Less == {x \in Nat \X Nat : x[1] < x[2]}

\* The order of the naturals, as a set of pairs, is well founded.
LEMMA LessWellFounded == IsWellFoundedOn(Less, Nat)
  BY NatLessThanWellFounded, Zenon DEF Less, OpToRel

\* Every non-empty set of naturals has a least element.
LEMMA LeastOfNats ==
  ASSUME NEW S \in SUBSET Nat, S # {}
  PROVE  \E m \in S : \A n \in S : m <= n
<1>1. PICK m \in S : \A n \in S : <<n, m>> \notin Less
  BY LessWellFounded, WFMin
<1>2. ASSUME NEW n \in S PROVE m <= n
  <2>1. <<n, m>> \in Nat \X Nat
    BY SMT
  <2> QED BY <1>1, <2>1 DEF Less
<1> QED BY <1>2

\* Every finite non-empty set of naturals has a greatest element: consider a
\* smallest set without one.
LEMMA GreatestOfNats ==
  ASSUME NEW S \in SUBSET Nat, IsFiniteSet(S), S # {}
  PROVE  Max(S) \in S /\ \A n \in S : n <= Max(S)
<1> DEFINE Topped(T) == \E x \in T : \A y \in T : x >= y
           Bad(T) == T \in SUBSET Nat /\ IsFiniteSet(T) /\ T # {} /\ ~Topped(T)
           Sizes == {k \in Nat : \E T \in SUBSET Nat : Bad(T) /\ Cardinality(T) = k}
<1>1. Sizes = {}
  <2> SUFFICES ASSUME Sizes # {} PROVE FALSE
    OBVIOUS
  <2>1. PICK k \in Sizes : \A l \in Sizes : k <= l
    <3>1. Sizes \in SUBSET Nat
      OBVIOUS
    <3> HIDE DEF Sizes
    <3> QED BY <3>1, LeastOfNats
  <2>2. PICK T \in SUBSET Nat : Bad(T) /\ Cardinality(T) = k
    OBVIOUS
  <2>3. PICK x \in T : TRUE
    BY <2>2
  <2>4. /\ IsFiniteSet(T \ {x}) /\ Cardinality(T \ {x}) = k - 1
        /\ k \in Nat /\ Cardinality(T \ {x}) \in Nat
    BY <2>2, FS_RemoveElement, FS_CardinalityType
  <2>5. ~Bad(T \ {x})
    <3> SUFFICES ASSUME Bad(T \ {x}) PROVE FALSE
      OBVIOUS
    <3>1. k - 1 \in Sizes
      BY <2>4
    <3> QED BY <2>1, <2>4, <3>1
  <2>6. CASE T \ {x} = {}
    BY <2>2, <2>6
  <2>7. CASE T \ {x} # {}
    <3>1. PICK y \in T \ {x} : \A z \in T \ {x} : y >= z
      BY <2>4, <2>5, <2>7
    <3>2. x \in Nat /\ y \in Nat /\ \A z \in T : z \in Nat
      OBVIOUS
    <3>3. CASE x >= y
      <4>1. \A z \in T : x >= z
        BY <3>1, <3>2, <3>3
      <4> QED BY <2>2, <4>1
    <3>4. CASE ~(x >= y)
      <4>1. \A z \in T : y >= z
        BY <3>1, <3>2, <3>4
      <4> QED BY <2>2, <4>1
    <3> QED BY <3>3, <3>4
  <2> QED BY <2>6, <2>7
<1>2. Topped(S)
  <2>1. Cardinality(S) \in Nat
    BY FS_CardinalityType
  <2> QED BY <1>1, <2>1
<1>3. Max(S) \in S /\ \A y \in S : Max(S) >= y
  BY <1>2 DEF Max
<1> QED BY <1>3

\* No switch takes longer than the longest delay.
LEMMA DelayBounded ==
  ASSUME SchedulingAssumption, IsFiniteSet(Loads), NEW load \in Loads, NEW ratio \in Ratios
  PROVE  /\ LongestDelay \in Nat /\ EffectiveDelay(load, ratio) \in Nat
         /\ EffectiveDelay(load, ratio) <= LongestDelay
<1> DEFINE delay == [p \in Loads \X Ratios |-> EffectiveDelay(p[1], p[2])]
           Delays == {EffectiveDelay(l, r) : l \in Loads, r \in Ratios}
<1>1. delay \in Surjection(Loads \X Ratios, Delays)
  <2>1. \A p \in Loads \X Ratios : delay[p] \in Delays
    OBVIOUS
  <2>2. ASSUME NEW d \in Delays PROVE \E p \in Loads \X Ratios : delay[p] = d
    <3>1. PICK l \in Loads, r \in Ratios : d = EffectiveDelay(l, r)
      OBVIOUS
    <3>2. <<l, r>> \in Loads \X Ratios /\ delay[<<l, r>>] = d
      BY <3>1
    <3> QED BY <3>2
  <2> QED BY <2>1, <2>2 DEF Surjection
<1>2. IsFiniteSet(Loads \X Ratios)
  <2>1. IsFiniteSet(0..RatioOne)
    BY FS_Interval DEF SchedulingAssumption
  <2>2. IsFiniteSet(Ratios)
    BY <2>1, FS_Subset DEF SchedulingAssumption
  <2> QED BY <2>2, FS_Product
<1>3. IsFiniteSet(Delays)
  BY <1>1, <1>2, FS_Surjection
<1>4. Delays \in SUBSET Nat /\ EffectiveDelay(load, ratio) \in Delays
  BY DelayPositive
<1> HIDE DEF Delays
<1>5. Max(Delays) \in Nat /\ EffectiveDelay(load, ratio) <= Max(Delays)
  BY <1>3, <1>4, GreatestOfNats
<1> QED BY <1>4, <1>5 DEF LongestDelay, Delays

\* The last tick whose Phase 6 has run.
LastPhase6 == IF stage = "commit" THEN tick ELSE tick - 1

\* What is pending is due within the longest delay of the last Phase 6, and a
\* gate with power is switching to what it is asked for once Phase 6 has run.
Soon(g) ==
  \A p \in gate[g].pending :
     LongestDelay \in Nat /\ p.due <= LastPhase6 + LongestDelay
Answers(g) ==
  stage = "commit" /\ gate[g].unpowered = 0 /\ gate[g].current # ordinary[g]
     => \E p \in gate[g].pending : p.level = ordinary[g]
Responds == \A g \in DOMAIN gate : Soon(g) /\ Answers(g)

\* Without gates nothing is asked.
LEMMA InitResponds == Init => Responds
BY DEF Init, Responds, EmptyMap

\* Phase 6 answers: a gate that has power starts or keeps the switch to what
\* its inputs ask for.
LEMMA ScheduleResponds ==
  ASSUME SchedulingAssumption, IsFiniteSet(Loads), IInv, Responds,
         NEW load \in [DOMAIN gate -> Loads], NEW ratio \in [DOMAIN gate -> Ratios],
         Schedule(load, ratio)
  PROVE  Responds'
<1>1. /\ stage = "schedule" /\ stage' = "commit" /\ tick' = tick /\ tick \in Nat
      /\ DOMAIN gate' = DOMAIN gate /\ ordinary' = ordinary
      /\ \A g \in DOMAIN gate : gate'[g] = Scheduled(gate[g], load[g], ratio[g])
  BY DEF Schedule, Live, IInv, Typed
<1>2. ASSUME NEW g \in DOMAIN gate PROVE Soon(g)' /\ Answers(g)'
  <2> DEFINE r == gate[g]
             s == gate'[g]
             target == Target(r, load[g], ratio[g])
  <2>1. Tied(g) /\ Soon(g) /\ r.desired = ordinary[g]
    BY <1>1 DEF IInv, GateInv, Responds, Asked
  <2>2. /\ RecordShape(r) /\ r.unpowered \in Nat /\ r.pending \subseteq Pending
        /\ load[g] \in Loads /\ ratio[g] \in Ratios
    BY DEF IInv, Typed, RecordShape
  <2>3. s.current = r.current /\ s.unpowered = Unpowered(r, ratio[g])
    BY <1>1, <2>2, ScheduledFields
  <2>4. \/ /\ s.pending = r.pending
           /\ \A p \in r.pending : p.level = s.desired
           /\ target # {} => r.pending # {}
        \/ s.pending = {} /\ target = {}
        \/ \E t \in target : s.pending = {NewPending(t, load[g], ratio[g])} /\ s.desired = t.level
    BY <1>1, <2>1, <2>2, PendingFate DEF Tied
  <2>5. /\ LongestDelay \in Nat /\ EffectiveDelay(load[g], ratio[g]) \in Nat
        /\ EffectiveDelay(load[g], ratio[g]) <= LongestDelay
    BY <2>2, DelayBounded
  <2>6. \A p \in s.pending : p.due <= tick + LongestDelay
    <3>1. \A p \in r.pending : p.due \in Nat /\ p.due <= tick - 1 + LongestDelay
      BY <1>1, <2>1, <2>2 DEF Soon, LastPhase6, Pending
    <3>2. CASE \E t \in target : s.pending = {NewPending(t, load[g], ratio[g])}
      BY <1>1, <2>5, <3>2 DEF NewPending
    <3>3. CASE s.pending \subseteq r.pending
      BY <1>1, <2>5, <3>1, <3>3
    <3> QED BY <2>4, <3>2, <3>3
  <2>7. ASSUME s.unpowered = 0, s.current # ordinary[g]
        PROVE  \E p \in s.pending : p.level = ordinary[g]
    <3>1. Powered(ratio[g])
      BY <2>2, <2>3, <2>7 DEF Unpowered
    <3>2. target = {[level |-> r.desired, energy |-> load[g].energy]}
      BY <2>1, <2>3, <2>7, <3>1 DEF Target, RetentionExpired
    <3>3. s.desired = r.desired
      BY <1>1, <2>2, <3>1, ScheduledFields DEF RetentionExpired
    <3>4. target # {} /\ s.desired = ordinary[g]
      BY <2>1, <3>2, <3>3
    <3>5. CASE \E t \in target : s.pending = {NewPending(t, load[g], ratio[g])}
                                /\ s.desired = t.level
      <4>1. PICK t \in target : s.pending = {NewPending(t, load[g], ratio[g])}
                                /\ s.desired = t.level
        BY <3>5
      <4>2. NewPending(t, load[g], ratio[g]).level = t.level
        BY DEF NewPending
      <4> QED BY <3>4, <4>1, <4>2
    <3>6. CASE /\ s.pending = r.pending /\ r.pending # {}
               /\ \A p \in r.pending : p.level = s.desired
      BY <3>4, <3>6
    <3> QED BY <2>4, <3>4, <3>5, <3>6
  <2>8. LastPhase6' = tick
    BY <1>1 DEF LastPhase6
  <2>9. Soon(g)'
    BY <2>5, <2>6, <2>8 DEF Soon
  <2>10. Answers(g)'
    BY <1>1, <2>7 DEF Answers
  <2> QED BY <2>9, <2>10
<1> QED BY <1>1, <1>2 DEF Responds

\* Elsewhere nothing is added to the pending tuples.
LEMMA StepResponds ==
  ASSUME SchedulingAssumption, IsFiniteSet(Loads), IInv, Responds, [Next]_vars
  PROVE  Responds'
<1>1. ASSUME NEW load \in [Live -> Loads], NEW ratio \in [Live -> Ratios], Schedule(load, ratio)
      PROVE  Responds'
  BY <1>1, ScheduleResponds DEF Live
<1>2. ASSUME stage' # "commit", LastPhase6' = LastPhase6,
             \A g \in DOMAIN gate' :
                \/ gate'[g].pending = {}
                \/ g \in DOMAIN gate /\ gate'[g].pending = gate[g].pending
      PROVE  Responds'
  BY <1>2 DEF Responds, Soon, Answers
<1>3. \A g \in DOMAIN gate : \E k :
          gate[g] \in [current : Levels, desired : Levels, pending : SUBSET Pending,
                       generation : Nat, unpowered : Nat, heat : {k}]
  BY DEF IInv, Typed, RecordShape
<1>4. ASSUME NEW g \in Gates, PlaceGate(g) PROVE Responds'
  <2>1. /\ stage' = "structural" /\ stage = "structural" /\ tick' = tick
        /\ DOMAIN gate' = DOMAIN gate \cup {g} /\ g \notin DOMAIN gate /\ gate'[g] = NewGate
        /\ \A h \in DOMAIN gate : gate'[h] = gate[h]
    BY <1>4 DEF PlaceGate, Extend, IInv, Typed
  <2> QED BY <1>2, <2>1, NewGateShape DEF LastPhase6
<1>5. ASSUME NEW g \in Gates, RemoveGate(g) PROVE Responds'
  <2>1. /\ stage' = "structural" /\ stage = "structural" /\ tick' = tick
        /\ DOMAIN gate' = DOMAIN gate \ {g}
        /\ \A h \in DOMAIN gate' : gate'[h] = gate[h]
    BY <1>5 DEF RemoveGate, Drop
  <2> QED BY <1>2, <2>1 DEF LastPhase6
<1>6. CASE EndStructural
  BY <1>2, <1>6 DEF EndStructural, LastPhase6
<1>7. ASSUME NEW inputs \in [Live -> Levels], ApplyTransitions(inputs) PROVE Responds'
  <2>1. /\ stage' = "intent" /\ stage = "drivers" /\ tick' = tick
        /\ DOMAIN gate' = DOMAIN gate
        /\ \A g \in DOMAIN gate : gate'[g] = Switched(g)
    BY <1>7 DEF ApplyTransitions, Live
  <2>2. \A g \in DOMAIN gate :
           gate'[g].pending = {} \/ gate'[g].pending = gate[g].pending
    BY <2>1, SwitchedGate
  <2> QED BY <1>2, <2>1, <2>2 DEF LastPhase6
<1>8. CASE EvaluateIntent
  <2>1. /\ stage' = "schedule" /\ stage = "intent" /\ tick' = tick
        /\ DOMAIN gate' = DOMAIN gate
        /\ \A g \in DOMAIN gate : gate'[g] = [gate[g] EXCEPT !.desired = ordinary[g]]
    BY <1>8 DEF EvaluateIntent, Live
  <2>2. \A g \in DOMAIN gate : gate'[g].pending = gate[g].pending
    BY <1>3, <2>1
  <2> QED BY <1>2, <2>1, <2>2 DEF LastPhase6
<1>9. CASE Commit
  <2>1. /\ stage' = "structural" /\ stage = "commit" /\ tick' = tick + 1 /\ tick \in Nat
        /\ gate' = gate \/ gate' = [g \in DOMAIN gate |-> [gate[g] EXCEPT !.heat = 0]]
    BY <1>9 DEF Commit, Live, IInv, Typed
  <2>2. DOMAIN gate' = DOMAIN gate /\ \A g \in DOMAIN gate :
           gate'[g].pending = gate[g].pending
    BY <1>3, <2>1
  <2> QED BY <1>2, <2>1, <2>2 DEF LastPhase6
<1>10. CASE UNCHANGED vars
  BY <1>10 DEF vars, Responds, Soon, Answers, LastPhase6
<1> QED BY <1>1, <1>4, <1>5, <1>6, <1>7, <1>8, <1>9, <1>10 DEF Next

\* A pending transition to a level is kept, taken away or replaced by one to
\* another level: a second one to the same level is never started.
LEMMA InvKept ==
  ASSUME SchedulingAssumption, IInv, [Next]_vars,
         NEW g \in DOMAIN gate \cap DOMAIN gate',
         NEW p \in gate[g].pending, NEW q \in gate'[g].pending, p.level = q.level
  PROVE  p = q
<1>1. Tied(g) /\ RecordShape(gate[g]) /\ tick \in Nat
  BY DEF IInv, GateInv, Typed
<1>2. ASSUME gate'[g].pending = gate[g].pending PROVE p = q
  BY <1>1, <1>2 DEF Tied
<1>3. PICK k : gate[g] \in [current : Levels, desired : Levels, pending : SUBSET Pending,
                            generation : Nat, unpowered : Nat, heat : {k}]
  BY <1>1 DEF RecordShape
<1>4. ASSUME NEW load \in [Live -> Loads], NEW ratio \in [Live -> Ratios], Schedule(load, ratio)
      PROVE  p = q
  <2>1. gate'[g] = Scheduled(gate[g], load[g], ratio[g])
    BY <1>4 DEF Schedule, Live
  <2>2. load[g] \in Loads /\ ratio[g] \in Ratios
    BY DEF Live
  <2>3. q \in gate[g].pending \/ \E t \in Starts(gate[g], load[g], ratio[g]) :
                                    q = NewPending(t, load[g], ratio[g])
    BY <1>1, <2>1, <2>2, ScheduledFields
  <2>4. ASSUME NEW t \in Starts(gate[g], load[g], ratio[g]),
               q = NewPending(t, load[g], ratio[g])
        PROVE  FALSE
    BY <2>4 DEF Starts, NewPending
  <2> QED BY <1>1, <2>3, <2>4 DEF Tied
<1>5. ASSUME NEW h \in Gates, PlaceGate(h) \/ RemoveGate(h) PROVE p = q
  <2>1. CASE PlaceGate(h)
    <3>1. h \notin DOMAIN gate
      BY <2>1 DEF PlaceGate, IInv, Typed
    <3>2. gate'[g] = gate[g]
      BY <2>1, <3>1 DEF PlaceGate, Extend
    <3> QED BY <1>2, <3>2
  <2>2. CASE RemoveGate(h)
    BY <1>2, <2>2 DEF RemoveGate, Drop
  <2> QED BY <1>5, <2>1, <2>2
<1>6. ASSUME NEW inputs \in [Live -> Levels], ApplyTransitions(inputs) PROVE p = q
  <2>1. stage = "drivers" /\ gate'[g] = Switched(g)
    BY <1>6 DEF ApplyTransitions, Live
  <2>2. gate'[g].pending = {} \/ gate'[g].pending = gate[g].pending
    BY <2>1, SwitchedGate
  <2> QED BY <1>2, <2>2
<1>7. CASE EvaluateIntent
  BY <1>2, <1>3, <1>7 DEF EvaluateIntent, Live
<1>8. CASE Commit
  BY <1>2, <1>3, <1>8 DEF Commit, Live
<1>9. CASE EndStructural \/ UNCHANGED vars
  BY <1>2, <1>9 DEF EndStructural, vars
<1> QED BY <1>4, <1>5, <1>6, <1>7, <1>8, <1>9 DEF Next

\* A gate that has power and does not emit what its inputs ask for is switching
\* to it, due within the longest delay there is, and no further request for the
\* same level starts that switch over (Phase 6).
THEOREM GatesRespond ==
  ASSUME SchedulingAssumption, IsFiniteSet(Loads)
  PROVE  Spec => PoweredGatesRespond
<1>1. IInv /\ Responds /\ [Next]_vars => IInv' /\ Responds'
  BY StepKeeps, StepResponds
<1>2. IInv /\ Responds => AllRespond
  <2> SUFFICES ASSUME IInv, Responds, stage = "commit", NEW g \in DOMAIN gate,
                      gate[g].unpowered = 0, gate[g].current # ordinary[g]
               PROVE  \E p \in gate[g].pending :
                         /\ p.level = ordinary[g]
                         /\ p.due \in (tick + 1)..(tick + LongestDelay)
    BY DEF AllRespond, Responding, Live
  <2>1. PICK p \in gate[g].pending : p.level = ordinary[g]
    BY DEF Responds, Answers
  <2>2. PICK e \in events : e.due = p.due
    BY DEF IInv, GateInv, Tied
  <2>3. p.due > tick /\ p.due \in Nat /\ tick \in Nat
    BY <2>2 DEF IInv, EventsInTime, Late, Typed, RecordShape, Pending
  <2>4. LongestDelay \in Nat /\ p.due <= tick + LongestDelay
    BY DEF Responds, Soon, LastPhase6
  <2> QED BY <2>1, <2>3, <2>4
<1>3. IInv /\ [Next]_vars => \A g \in DOMAIN gate \cap DOMAIN gate' : NotRetimed(g)
  BY InvKept DEF NotRetimed
<1> QED BY InitInv, InitResponds, <1>1, <1>2, <1>3, PTL DEF Spec, PoweredGatesRespond
=============================================================================
