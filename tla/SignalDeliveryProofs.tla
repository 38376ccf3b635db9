------------------------ MODULE SignalDeliveryProofs ------------------------
(***************************************************************************)
(* Proofs about the signals of a network that is rewired while they are in *)
(* flight (SignalDelivery, of crates/aon-sim/src/simulation.rs and         *)
(* signal_topology.rs), for any set of gates, wires and endpoints, any     *)
(* wiring and any number of ticks.                                         *)
(*                                                                         *)
(* First: the copies of a driver's sample never contradict each other.     *)
(* The invariant is `IInv'.                                                *)
(*                                                                         *)
(* Then: what a driver emits reaches every sink it is wired to, and no     *)
(* other.  The facts about the search of routes come first: the order of   *)
(* priorities is strict and total on the finite set of walks, so the path  *)
(* that is chosen exists, is a path and takes no negative time.  Then the  *)
(* inductive invariant `Delivery', one lemma per conjunct, and the         *)
(* theorems that follow from it.                                           *)
(***************************************************************************)
EXTENDS SignalDelivery, FiniteSetTheorems, WellFoundedInduction, TLAPS

-----------------------------------------------------------------------------
(* A non-empty set of naturals has a least element, and one that is        *)
(* bounded has a greatest.  The winner among the samples that arrive at a  *)
(* slot (apply_due_signal_arrivals) is such a greatest element.            *)

Less == {x \in Nat \X Nat : x[1] < x[2]}

\* The order of the naturals, as a set of pairs, is well founded.
LEMMA LessWellFounded == IsWellFoundedOn(Less, Nat)
  BY NatLessThanWellFounded, Zenon DEF Less, OpToRel

\* Every non-empty set of naturals has a least element.
LEMMA LeastOfNats ==
  ASSUME NEW S \in SUBSET Nat, S # {}
  PROVE  \E m \in S : \A n \in S : m <= n
<1>1. PICK m \in S : \A n \in S : ~ (<<n, m>> \in Less)
  BY LessWellFounded, WFMin
<1>2. ASSUME NEW n \in S PROVE m <= n
  <2>1. <<n, m>> \in Nat \X Nat
    BY SMT
  <2>2. <<n, m>> \notin Less
    BY <1>1
  <2>3. ~ (n < m)
    BY <2>1, <2>2 DEF Less
  <2> QED BY <2>3
<1> QED BY <1>2

\* Among samples with a common bound one has the highest revision.
LEMMA HighestRevision ==
  ASSUME NEW S \in SUBSET Sample, S # {},
         NEW bound \in Nat, \A s \in S : s.revision <= bound
  PROVE  \E s \in S : \A t \in S : t.revision <= s.revision
<1> DEFINE Gaps == {bound - s.revision : s \in S}
<1>1. \A s \in S : s.revision \in Nat
  BY DEF Sample
<1>2. Gaps \in SUBSET Nat /\ Gaps # {}
  BY <1>1
<1>3. PICK m \in Gaps : \A n \in Gaps : m <= n
  <2> HIDE DEF Gaps
  <2> QED BY <1>2, LeastOfNats
<1>4. PICK s \in S : m = bound - s.revision
  BY <1>3
<1>5. ASSUME NEW t \in S PROVE t.revision <= s.revision
  <2>1. bound - t.revision \in Gaps
    OBVIOUS
  <2>2. m <= bound - t.revision
    BY <1>3, <2>1
  <2>3. s.revision \in Nat /\ t.revision \in Nat
    BY <1>1
  <2> QED BY <1>4, <2>2, <2>3
<1> QED BY <1>5

-----------------------------------------------------------------------------
(* The inductive invariant.  RevisionsAgree alone is not inductive: a      *)
(* placed gate starts at revision 0 again, which is only safe because its  *)
(* driver has never sent anything.                                         *)

Owner(d) == PortGate[DriverPort[d]]
SendersKnown == \A a \in arrivals : gates[Owner(a.driver)] # "absent"
Typed == tick \in Nat /\ StructureTyped /\ SignalsTyped

Coherent(d) ==
    /\ \A s, t \in Copies(d) : s.revision = t.revision => s = t
    /\ d \in DOMAIN driver =>
          \A s \in Copies(d) : s.revision <= driver[d].revision

IInv == Typed /\ SendersKnown /\ \A d \in Drivers : Coherent(d)

\* The endpoints of a gate are endpoints of the ports of that gate.
LEMMA EndpointsOwned ==
  /\ \A d \in Drivers : Owner(d) \in Gates
  /\ \A gs : DriversOf(gs) \subseteq Drivers /\ SinksOf(gs) \subseteq Sinks
  /\ \A gs : \A d \in Drivers : d \in DriversOf(gs) <=> Owner(d) \in gs
BY DeliveryAssumption, TopologyAssumption DEF Owner, DriversOf, SinksOf

\* A copy of a driver's sample is its own, one in a slot or one in flight.
LEMMA CopyCases ==
  ASSUME Typed, NEW d \in Drivers, NEW s \in Copies(d)
  PROVE  /\ s \in Sample
         /\ \/ d \in DOMAIN driver /\ s = driver[d]
            \/ \E p \in DOMAIN slot : p[1] = d /\ s = slot[p]
            \/ \E a \in arrivals : a.driver = d /\ s = a.sample
BY DEF Copies, Typed, SignalsTyped

\* A driver whose gate was never placed has left no trace.
LEMMA AbsentSilent ==
  ASSUME Typed, SendersKnown, NEW d \in Drivers, gates[Owner(d)] = "absent"
  PROVE  Copies(d) = {} /\ d \notin DOMAIN driver
<1>1. d \notin DOMAIN driver
  BY EndpointsOwned DEF Typed, SignalsTyped, LiveGates
<1>2. \A p \in DOMAIN slot : p[1] # d
  BY <1>1 DEF Typed, SignalsTyped
<1>3. \A a \in arrivals : a.driver # d
  BY DEF SendersKnown
<1> QED BY <1>1, <1>2, <1>3, CopyCases

\* Losing copies, or moving one about, cannot break the agreement.
LEMMA FewerCopies ==
  ASSUME NEW d \in Drivers, Coherent(d), Copies(d)' \subseteq Copies(d),
         d \in DOMAIN driver' => d \in DOMAIN driver /\ driver'[d] = driver[d]
  PROVE  Coherent(d)'
BY DEF Coherent

LEMMA InitIInv == Init => IInv
<1> SUFFICES ASSUME Init PROVE IInv
  OBVIOUS
<1>1. StructureTyped
  BY DEF Init, StructureTyped, Lifecycle, EndpointTargets
<1>2. DOMAIN driver = {} /\ DOMAIN sink = {} /\ DOMAIN slot = {}
      /\ DOMAIN routes = {} /\ arrivals = {} /\ LiveGates = {}
  BY DEF Init, EmptyMap, LiveGates
<1>3. DriversOf(LiveGates) = {} /\ SinksOf(LiveGates) = {}
  BY <1>2 DEF DriversOf, SinksOf
<1>4. SignalsTyped
  BY <1>2, <1>3 DEF SignalsTyped, Init, EmptyMap
<1>5. \A d \in Drivers : Copies(d) = {}
  BY <1>2 DEF Copies
<1> QED BY <1>1, <1>2, <1>4, <1>5 DEF IInv, Typed, Init, SendersKnown, Coherent

-----------------------------------------------------------------------------
(* Steps that leave gates, drivers, slots, sinks and calendar alone.       *)

LEMMA RewiringKeepsIInv ==
  ASSUME IInv, StructureTyped', tick' \in Nat,
         UNCHANGED <<gates, driver, sink, slot, arrivals, routes>>
  PROVE  IInv'
<1>1. SignalsTyped'
  BY DEF IInv, Typed, SignalsTyped, LiveGates
<1>2. SendersKnown'
  BY DEF IInv, SendersKnown
<1>3. \A d \in Drivers : Copies(d)' = Copies(d)
  BY DEF Copies
<1> QED BY <1>1, <1>2, <1>3, FewerCopies DEF IInv, Typed

\* Rewiring an end, and bumping generations, keep the records well typed.
LEMMA DetachedTyped ==
  ASSUME StructureTyped, NEW w \in Wires, NEW targets
  PROVE  Detached(w, targets) \in [state : Lifecycle, A : EndpointTargets,
                                   B : EndpointTargets, generation : Nat]
BY DEF StructureTyped, Detached, EndpointTargets

LEMMA AdvanceTyped ==
  ASSUME StructureTyped, AdvanceGenerations
  PROVE  /\ wires' \in [Wires -> [state : Lifecycle, A : EndpointTargets,
                                  B : EndpointTargets, generation : Nat]]
         /\ junctions' \in [Junctions -> [state : Lifecycle, generation : Nat]]
<1> DEFINE WireRecord == [state : Lifecycle, A : EndpointTargets,
                          B : EndpointTargets, generation : Nat]
           JunctionRecord == [state : Lifecycle, generation : Nat]
<1>1. ASSUME NEW w \in Wires PROVE wires'[w] \in WireRecord
  <2>1. wires[w] \in WireRecord
    BY DEF StructureTyped
  <2>2. [wires[w] EXCEPT !.generation = @ + 1] \in WireRecord
    BY <2>1
  <2>3. wires'[w] \in {wires[w], [wires[w] EXCEPT !.generation = @ + 1]}
    BY DEF AdvanceGenerations, Advance, StructureTyped
  <2> QED BY <2>1, <2>2, <2>3
<1>2. ASSUME NEW j \in Junctions PROVE junctions'[j] \in JunctionRecord
  <2>1. junctions[j] \in JunctionRecord
    BY DEF StructureTyped
  <2>2. [junctions[j] EXCEPT !.generation = @ + 1] \in JunctionRecord
    BY <2>1
  <2>3. junctions'[j] \in {junctions[j],
                           [junctions[j] EXCEPT !.generation = @ + 1]}
    BY DEF AdvanceGenerations, Advance, StructureTyped
  <2> QED BY <2>1, <2>2, <2>3
<1>3. wires' = [w \in Wires |-> wires'[w]]
      /\ junctions' = [j \in Junctions |-> junctions'[j]]
  BY DEF AdvanceGenerations, Advance, StructureTyped
<1> QED BY <1>1, <1>2, <1>3

\* Marking a junction dirty marks junctions.
LEMMA MarkedTyped ==
  ASSUME NEW targets
  PROVE  mark_target_junctions(targets) \subseteq Junctions
BY DEF mark_target_junctions

LEMMA PlaceJunctionKeeps ==
  ASSUME IInv, NEW j \in Junctions, PlaceJunction(j)
  PROVE  IInv'
<1>1. StructureTyped'
  BY DEF IInv, Typed, StructureTyped, PlaceJunction, Edit, Entities, Lifecycle
<1> QED BY <1>1, RewiringKeepsIInv DEF IInv, Typed, PlaceJunction, Signals, Clock

LEMMA PlaceWireKeeps ==
  ASSUME IInv, NEW w \in Wires, NEW a \in Reach[w]["A"],
         NEW b \in Reach[w]["B"], PlaceWire(w, a, b)
  PROVE  IInv'
<1>1. a \in EndpointTargets /\ b \in EndpointTargets
  BY DeliveryAssumption DEF Ends
<1>2. StructureTyped'
  BY <1>1, MarkedTyped
     DEF IInv, Typed, StructureTyped, PlaceWire, Edit, Entities, Lifecycle
<1> QED BY <1>2, RewiringKeepsIInv DEF IInv, Typed, PlaceWire, Signals, Clock

LEMMA BindPortKeeps ==
  ASSUME IInv, NEW w \in Wires, NEW e \in Ends, NEW t \in Reach[w][e],
         BindPort(w, e, t)
  PROVE  IInv'
<1>1. t \in EndpointTargets
  BY DeliveryAssumption
<1>2. CASE e = "A"
  <2>1. wires' = [wires EXCEPT ![w].A = t]
    BY <1>2 DEF BindPort
  <2> QED BY <1>1, <2>1, MarkedTyped, RewiringKeepsIInv
          DEF IInv, Typed, StructureTyped, BindPort, Edit, Signals, Clock
<1>3. CASE e = "B"
  <2>1. wires' = [wires EXCEPT ![w].B = t]
    BY <1>3 DEF BindPort
  <2> QED BY <1>1, <2>1, MarkedTyped, RewiringKeepsIInv
          DEF IInv, Typed, StructureTyped, BindPort, Edit, Signals, Clock
<1> QED BY <1>2, <1>3 DEF Ends

LEMMA RemoveWireKeeps ==
  ASSUME IInv, NEW w \in Wires, RemoveWire(w)
  PROVE  IInv'
<1>1. StructureTyped'
  BY MarkedTyped DEF IInv, Typed, StructureTyped, RemoveWire, Edit, Lifecycle
<1> QED BY <1>1, RewiringKeepsIInv DEF IInv, Typed, RemoveWire, Signals, Clock

LEMMA RemoveJunctionKeeps ==
  ASSUME IInv, NEW j \in Junctions, RemoveJunction(j)
  PROVE  IInv'
<1>1. wires' \in [Wires -> [state : Lifecycle, A : EndpointTargets,
                            B : EndpointTargets, generation : Nat]]
  BY DetachedTyped DEF IInv, Typed, RemoveJunction
<1>2. StructureTyped'
  BY <1>1, ZenonT(60) DEF IInv, Typed, StructureTyped, RemoveJunction, Edit, Lifecycle,
              Incident, LiveWires
<1> QED BY <1>2, RewiringKeepsIInv
        DEF IInv, Typed, RemoveJunction, Signals, Clock

LEMMA EndDestructionKeeps ==
  ASSUME IInv, EndDestruction
  PROVE  IInv'
<1>1. StructureTyped'
  BY AdvanceTyped
     DEF IInv, Typed, StructureTyped, EndDestruction, AdvanceGenerations
<1> QED BY <1>1, RewiringKeepsIInv DEF IInv, Typed, EndDestruction, Signals

LEMMA CommitTickKeeps ==
  ASSUME IInv, CommitTick
  PROVE  IInv'
<1>1. StructureTyped'
  BY DEF IInv, Typed, StructureTyped, CommitTick, structure
<1> QED BY <1>1, RewiringKeepsIInv
        DEF IInv, Typed, CommitTick, Signals, structure

-----------------------------------------------------------------------------
(* Steps on gates: the endpoint stores follow the live gates, and only a   *)
(* gate never placed before brings a driver in.                            *)

LEMMA PlaceGateKeeps ==
  ASSUME IInv, NEW g \in Gates, PlaceGate(g)
  PROVE  IInv'
<1>1. gates[g] = "absent" /\ gates' = [gates EXCEPT ![g] = "live"]
      /\ gates \in [Gates -> Lifecycle] /\ tick \in Nat
  BY DEF PlaceGate, IInv, Typed, StructureTyped
<1>2. StructureTyped'
  BY DEF IInv, Typed, StructureTyped, PlaceGate, Edit, Entities, Lifecycle
<1>3. LiveGates' = LiveGates \cup {g}
  BY <1>1 DEF LiveGates
<1>4. DriversOf(LiveGates') = DriversOf(LiveGates) \cup DriversOf({g})
      /\ SinksOf(LiveGates') = SinksOf(LiveGates) \cup SinksOf({g})
  BY <1>3 DEF DriversOf, SinksOf
<1>5. driver' \in [DriversOf(LiveGates') -> Sample]
  <2>1. InitialSample(tick) \in Sample
    BY <1>1 DEF InitialSample, Sample, Levels
  <2>2. DOMAIN driver = DriversOf(LiveGates)
        /\ \A d \in DOMAIN driver : driver[d] \in Sample
    BY DEF IInv, Typed, SignalsTyped
  <2> QED BY <2>1, <2>2, <1>4 DEF PlaceGate
<1>6. sink' \in [SinksOf(LiveGates') -> [level : Levels, dirty : BOOLEAN]]
  <2>1. [level |-> "Low", dirty |-> FALSE] \in [level : Levels, dirty : BOOLEAN]
    BY DEF Levels
  <2>2. DOMAIN sink = SinksOf(LiveGates)
        /\ \A s \in DOMAIN sink : sink[s] \in [level : Levels, dirty : BOOLEAN]
    BY DEF IInv, Typed, SignalsTyped
  <2> QED BY <2>1, <2>2, <1>4 DEF PlaceGate
<1>7. DOMAIN driver \subseteq DOMAIN driver' /\ DOMAIN sink \subseteq DOMAIN sink'
  BY DEF PlaceGate
<1>8. SignalsTyped'
  <2>1. UNCHANGED <<routes, slot, arrivals>>
    BY DEF PlaceGate
  <2> QED BY <2>1, <1>5, <1>6, <1>7 DEF IInv, Typed, SignalsTyped
<1>9. SendersKnown'
  BY <1>1, EndpointsOwned
     DEF IInv, Typed, SignalsTyped, SendersKnown, PlaceGate
<1>10. ASSUME NEW d \in Drivers PROVE Coherent(d)'
  <2>1. CASE d \in DriversOf({g})
    <3>1. gates[Owner(d)] = "absent"
      BY <1>1, <2>1, EndpointsOwned
    <3>2. Copies(d) = {} /\ d \notin DOMAIN driver
      BY <3>1, AbsentSilent DEF IInv
    <3>3. \A p \in DOMAIN slot : p[1] # d
      BY <3>2 DEF IInv, Typed, SignalsTyped
    <3>4. \A a \in arrivals : a.driver # d
      BY <3>1 DEF IInv, SendersKnown
    <3>5. Copies(d)' = {driver'[d]}
      BY <2>1, <3>3, <3>4 DEF Copies, PlaceGate
    <3>6. driver'[d] \in Sample
      BY <1>5, <1>4, <2>1
    <3> QED BY <3>5, <3>6 DEF Coherent, Sample
  <2>2. CASE d \notin DriversOf({g})
    <3>1. DOMAIN driver' \cap {d} = DOMAIN driver \cap {d}
          /\ \A e \in DOMAIN driver : driver'[e] = driver[e]
      BY <2>2 DEF PlaceGate
    <3>2. Copies(d)' = Copies(d)
      BY <3>1 DEF Copies, PlaceGate
    <3> QED BY <3>1, <3>2, FewerCopies DEF IInv
  <2> QED BY <2>1, <2>2
<1> QED BY <1>1, <1>2, <1>8, <1>9, <1>10 DEF IInv, Typed, PlaceGate, Clock

\* A part of a product whose coordinates lie in smaller factors.
LEMMA SubProduct ==
  ASSUME NEW P, NEW A, NEW B, NEW A2, NEW B2,
         \A p \in P : p \in A \X B /\ p[1] \in A2 /\ p[2] \in B2
  PROVE  P \subseteq A2 \X B2
  OBVIOUS

LEMMA RemoveGateKeeps ==
  ASSUME IInv, NEW g \in Gates, RemoveGate(g)
  PROVE  IInv'
<1>1. gates' = [gates EXCEPT ![g] = "removed"]
      /\ gates \in [Gates -> Lifecycle] /\ tick' \in Nat
  BY DEF RemoveGate, IInv, Typed, StructureTyped, Clock
<1>2. wires' \in [Wires -> [state : Lifecycle, A : EndpointTargets,
                            B : EndpointTargets, generation : Nat]]
  BY DetachedTyped DEF IInv, Typed, RemoveGate
<1>3. StructureTyped'
  BY <1>2 DEF IInv, Typed, StructureTyped, RemoveGate, Edit, Lifecycle,
              Incident, LiveWires
<1>4. LiveGates' = LiveGates \ {g}
  BY <1>1 DEF LiveGates
<1>5. DriversOf(LiveGates') = DriversOf(LiveGates) \ DriversOf({g})
      /\ SinksOf(LiveGates') = SinksOf(LiveGates) \ SinksOf({g})
  BY <1>4 DEF DriversOf, SinksOf
<1>6. /\ \A d \in DOMAIN driver' : d \in DOMAIN driver /\ driver'[d] = driver[d]
      /\ \A p \in DOMAIN slot' : /\ p \in DOMAIN slot /\ slot'[p] = slot[p]
                                 /\ p[1] \notin DriversOf({g})
                                 /\ p[2] \notin SinksOf({g})
  BY DEF RemoveGate, SlotsOf
<1>7. sink' \in [SinksOf(LiveGates') -> [level : Levels, dirty : BOOLEAN]]
  <2>1. DOMAIN sink' = SinksOf(LiveGates')
    BY <1>5 DEF RemoveGate, IInv, Typed, SignalsTyped
  <2>2. \A s \in DOMAIN sink' :
            \E mark \in BOOLEAN : sink'[s] = [sink[s] EXCEPT !.dirty = @ \/ mark]
    BY Zenon DEF RemoveGate, Marked
  <2>3. \A s \in DOMAIN sink' : sink[s] \in [level : Levels, dirty : BOOLEAN]
    BY <1>5, <2>1 DEF IInv, Typed, SignalsTyped
  <2>4. sink' = [s \in DOMAIN sink' |-> sink'[s]]
    BY DEF RemoveGate
  <2> QED BY <2>1, <2>2, <2>3, <2>4
<1>8. SignalsTyped'
  <2>1. driver' \in [DriversOf(LiveGates') -> Sample]
    <3>1. driver' = [d \in DOMAIN driver \ DriversOf({g}) |-> driver[d]]
      BY DEF RemoveGate
    <3>2. driver \in [DriversOf(LiveGates) -> Sample]
      BY DEF IInv, Typed, SignalsTyped
    <3>3. DriversOf(LiveGates') = DriversOf(LiveGates) \ DriversOf({g})
      BY <1>5
    <3> QED BY <3>1, <3>2, <3>3
  <2>2. DOMAIN slot' \subseteq (DOMAIN driver') \X (DOMAIN sink')
    <3>1. DOMAIN slot \subseteq (DOMAIN driver) \X (DOMAIN sink)
      BY DEF IInv, Typed, SignalsTyped
    <3>2. DOMAIN driver' = DOMAIN driver \ DriversOf({g})
          /\ DOMAIN sink' = DOMAIN sink \ SinksOf({g})
      BY DEF RemoveGate
    <3>3. ASSUME NEW p \in DOMAIN slot'
          PROVE  /\ p \in (DOMAIN driver) \X (DOMAIN sink)
                 /\ p[1] \in DOMAIN driver' /\ p[2] \in DOMAIN sink'
      <4>1. p \in (DOMAIN driver) \X (DOMAIN sink)
        BY <3>1, <3>3, <1>6
      <4>2. p[1] \notin DriversOf({g}) /\ p[2] \notin SinksOf({g})
        BY <3>3, <1>6
      <4> QED BY <4>1, <4>2, <3>2
    <3> QED BY <3>3, SubProduct
  <2>3. \A p \in DOMAIN slot' : slot'[p] \in Sample
    BY <1>6 DEF IInv, Typed, SignalsTyped
  <2>4. UNCHANGED <<routes, arrivals>>
    BY DEF RemoveGate
  <2> QED BY <2>1, <2>2, <2>3, <2>4, <1>7 DEF IInv, Typed, SignalsTyped
<1>9. SendersKnown'
  <2>1. \A h \in Gates : gates[h] # "absent" => gates'[h] # "absent"
    BY <1>1
  <2>2. \A a \in arrivals : Owner(a.driver) \in Gates
    BY EndpointsOwned DEF IInv, Typed, SignalsTyped
  <2>3. UNCHANGED arrivals
    BY DEF RemoveGate
  <2> QED BY <2>1, <2>2, <2>3 DEF IInv, SendersKnown
<1>10. ASSUME NEW d \in Drivers PROVE Coherent(d)'
  <2>1. d \in DOMAIN driver' => d \in DOMAIN driver /\ driver'[d] = driver[d]
    BY <1>6
  <2>2. {driver'[e] : e \in DOMAIN driver' \cap {d}}
            \subseteq {driver[e] : e \in DOMAIN driver \cap {d}}
    BY <2>1
  <2>3. {slot'[p] : p \in {q \in DOMAIN slot' : q[1] = d}}
            \subseteq {slot[p] : p \in {q \in DOMAIN slot : q[1] = d}}
    BY <1>6
  <2>4. Copies(d)' \subseteq Copies(d)
    <3>1. UNCHANGED arrivals
      BY DEF RemoveGate
    <3> QED BY <2>2, <2>3, <3>1 DEF Copies
  <2> QED BY <2>1, <2>4, FewerCopies DEF IInv
<1> QED BY <1>1, <1>3, <1>8, <1>9, <1>10 DEF IInv, Typed

-----------------------------------------------------------------------------
(* Compiling, driving and delivering: what is sent is the driver's own     *)
(* sample, and what is stored is one that arrived.                         *)

\* Routes only join live drivers to live sinks.
LEMMA CompiledPairs ==
  ASSUME NEW ws, NEW js, NEW D, NEW S
  PROVE  DOMAIN compile(ws, js, D, S) \subseteq D \X S
BY DEF compile

\* A live driver belongs to a live gate.
LEMMA LiveSenders ==
  ASSUME Typed, NEW d \in DOMAIN driver
  PROVE  d \in Drivers /\ gates[Owner(d)] = "live" /\ driver[d] \in Sample
BY EndpointsOwned DEF Typed, SignalsTyped, LiveGates

\* Sending copies of a driver's sample adds nothing new to its copies.
LEMMA SendingKeepsIInv ==
  ASSUME IInv, StructureTyped', UNCHANGED <<tick, gates, driver>>,
         DOMAIN sink' = DOMAIN sink,
         sink' \in [DOMAIN sink -> [level : Levels, dirty : BOOLEAN]],
         DOMAIN routes' \subseteq (DOMAIN driver) \X (DOMAIN sink),
         \A p \in DOMAIN slot' : p \in DOMAIN slot /\ slot'[p] = slot[p],
         \A a \in arrivals' :
            \/ a \in arrivals
            \/ /\ a.driver \in DOMAIN driver /\ a.sink \in DOMAIN sink
               /\ a.sample = driver[a.driver]
  PROVE  IInv'
<1>1. DOMAIN driver \subseteq Drivers /\ DOMAIN sink \subseteq Sinks
  BY EndpointsOwned DEF IInv, Typed, SignalsTyped
<1>2. \A a \in arrivals' : /\ a.driver \in Drivers /\ a.sink \in Sinks
                           /\ a.sample \in Sample
  BY <1>1, LiveSenders DEF IInv, Typed, SignalsTyped
<1>3. SignalsTyped'
  <2>1. driver' \in [DriversOf(LiveGates') -> Sample]
        /\ DOMAIN sink = SinksOf(LiveGates')
    BY DEF IInv, Typed, SignalsTyped, LiveGates
  <2>2. DOMAIN slot' \subseteq (DOMAIN driver') \X (DOMAIN sink')
        /\ \A p \in DOMAIN slot' : slot'[p] \in Sample
    BY DEF IInv, Typed, SignalsTyped
  <2>3. DOMAIN routes' \subseteq Drivers \X Sinks
    BY <1>1
  <2> QED BY <1>2, <2>1, <2>2, <2>3 DEF SignalsTyped
<1>4. SendersKnown'
  BY LiveSenders DEF IInv, SendersKnown
<1>5. ASSUME NEW d \in Drivers PROVE Coherent(d)'
  <2>1. {slot'[p] : p \in {q \in DOMAIN slot' : q[1] = d}}
            \subseteq {slot[p] : p \in {q \in DOMAIN slot : q[1] = d}}
    OBVIOUS
  <2>2. {a.sample : a \in {b \in arrivals' : b.driver = d}}
            \subseteq {a.sample : a \in {b \in arrivals : b.driver = d}}
                      \cup {driver[e] : e \in DOMAIN driver \cap {d}}
    OBVIOUS
  <2>3. Copies(d)' \subseteq Copies(d)
    BY <2>1, <2>2 DEF Copies
  <2> QED BY <2>3, FewerCopies DEF IInv
<1> QED BY <1>3, <1>4, <1>5 DEF IInv, Typed

LEMMA CompileTopologyKeeps ==
  ASSUME IInv, CompileTopology
  PROVE  IInv'
<1>1. StructureTyped' /\ UNCHANGED <<tick, gates, driver>>
  BY AdvanceTyped
     DEF IInv, Typed, StructureTyped, CompileTopology, AdvanceGenerations
<1>2. DOMAIN routes' \subseteq (DOMAIN driver) \X (DOMAIN sink)
  BY CompiledPairs DEF CompileTopology
<1>3. CASE topology_changed
  <2>1. apply_route_diff(routes')
    BY <1>3 DEF CompileTopology
  <2>2. \A p \in DOMAIN slot' : p \in DOMAIN slot /\ slot'[p] = slot[p]
    BY <2>1 DEF apply_route_diff
  <2>3. sink' \in [DOMAIN sink -> [level : Levels, dirty : BOOLEAN]]
    <3>1. \A s \in DOMAIN sink :
             \E mark \in BOOLEAN : sink'[s] = [sink[s] EXCEPT !.dirty = @ \/ mark]
      BY <2>1, Zenon DEF apply_route_diff, Marked
    <3>2. \A s \in DOMAIN sink : sink[s] \in [level : Levels, dirty : BOOLEAN]
      BY DEF IInv, Typed, SignalsTyped
    <3>3. sink' = [s \in DOMAIN sink |-> sink'[s]]
      BY <2>1 DEF apply_route_diff
    <3> QED BY <3>1, <3>2, <3>3
  <2>4. ASSUME NEW a \in arrivals'
        PROVE  \/ a \in arrivals
               \/ /\ a.driver \in DOMAIN driver /\ a.sink \in DOMAIN sink
                  /\ a.sample = driver[a.driver]
    <3>1. CASE a \notin arrivals
      <4>1. PICK p \in AddedOrReplaced(routes, routes') :
                a = SyncArrival(p, routes')
        BY <2>1, <3>1 DEF apply_route_diff
      <4>2. p \in (DOMAIN driver) \X (DOMAIN sink)
        BY <1>2 DEF AddedOrReplaced
      <4> QED BY <4>1, <4>2 DEF SyncArrival
    <3> QED BY <3>1
  <2> QED BY <1>1, <1>2, <2>2, <2>3, <2>4, SendingKeepsIInv
<1>4. CASE ~topology_changed
  <2>1. UNCHANGED <<slot, sink, arrivals>>
    BY <1>4 DEF CompileTopology
  <2>2. sink \in [DOMAIN sink -> [level : Levels, dirty : BOOLEAN]]
    BY DEF IInv, Typed, SignalsTyped
  <2> QED BY <1>1, <1>2, <2>1, <2>2, SendingKeepsIInv
<1> QED BY <1>3, <1>4

LEMMA DriveOutputsKeeps ==
  ASSUME IInv, NEW changed \in SUBSET DOMAIN driver,
         NEW output \in [changed -> Outputs], DriveOutputs(changed, output)
  PROVE  IInv'
<1>1. StructureTyped' /\ tick \in Nat
      /\ UNCHANGED <<tick, gates, routes, sink, slot>>
  BY DEF IInv, Typed, StructureTyped, DriveOutputs, structure
<1>2. /\ DOMAIN driver' = DOMAIN driver
      /\ \A d \in DOMAIN driver \ changed : driver'[d] = driver[d]
      /\ \A d \in changed : driver'[d] = Emit(d, output[d])
  BY DEF DriveOutputs
<1>3. ASSUME NEW d \in DOMAIN driver
      PROVE  /\ driver'[d] \in Sample
             /\ d \in changed => driver'[d].revision > driver[d].revision
  <2>1. driver[d] \in Sample
    BY LiveSenders DEF IInv
  <2>2. CASE d \in changed
    <3>1. output[d][1] \in Levels /\ output[d][2] \in Nat
      BY <2>2, DeliveryAssumption DEF Levels
    <3>2. driver[d].revision \in Nat
      BY <2>1 DEF Sample
    <3>3. driver'[d] = [level |-> output[d][1], strength |-> output[d][2],
                        revision |-> driver[d].revision + 1,
                        emitted_at |-> tick]
      BY <1>2, <2>2 DEF Emit
    <3>4. driver'[d] \in Sample
      BY <1>1, <3>1, <3>2, <3>3 DEF Sample
    <3> QED BY <3>2, <3>3, <3>4
  <2> QED BY <1>2, <2>1, <2>2
<1>4. ASSUME NEW a \in arrivals', a \notin arrivals
      PROVE  /\ a.driver \in changed /\ a.sink \in Sinks
             /\ a.sample = driver'[a.driver]
  <2>1. PICK p \in DOMAIN routes : p[1] \in changed /\ a = PropagationArrival(p)
    BY <1>4 DEF DriveOutputs
  <2>2. p[2] \in Sinks
    BY DEF IInv, Typed, SignalsTyped
  <2> QED BY <2>1, <2>2 DEF PropagationArrival
<1>5. \A d \in changed : d \in DOMAIN driver /\ d \in Drivers
                         /\ gates[Owner(d)] = "live"
  BY LiveSenders DEF IInv
<1>6. SignalsTyped'
  <2>1. driver' \in [DriversOf(LiveGates') -> Sample]
    <3>1. driver' = [d \in DOMAIN driver |-> driver'[d]]
      BY DEF DriveOutputs
    <3>2. DOMAIN driver = DriversOf(LiveGates')
      BY <1>1 DEF IInv, Typed, SignalsTyped, LiveGates
    <3> QED BY <1>3, <3>1, <3>2
  <2>2. \A a \in arrivals' : /\ a.driver \in Drivers /\ a.sink \in Sinks
                             /\ a.sample \in Sample
    BY <1>3, <1>4, <1>5 DEF IInv, Typed, SignalsTyped
  <2> QED BY <1>1, <1>2, <2>1, <2>2 DEF IInv, Typed, SignalsTyped, LiveGates
<1>7. SendersKnown'
  BY <1>1, <1>4, <1>5 DEF IInv, SendersKnown
<1>8. ASSUME NEW d \in Drivers PROVE Coherent(d)'
  <2>1. CASE d \in changed
    <3>1. ASSUME NEW s \in Copies(d)'
          PROVE  s = driver'[d] \/ s \in Copies(d)
      BY <1>1, <1>2, <1>4, <2>1 DEF Copies
    <3>2. \A s \in Copies(d) : s \in Sample /\ s.revision <= driver[d].revision
      BY <1>5, <2>1, CopyCases DEF IInv, Coherent
    <3>3. driver[d] \in Sample /\ driver'[d] \in Sample
          /\ driver'[d].revision > driver[d].revision
      BY <1>3, <1>5, <2>1, LiveSenders DEF IInv
    <3>4. \A s \in Copies(d) : /\ s.revision < driver'[d].revision
                               /\ driver'[d].revision # s.revision
      BY <3>2, <3>3 DEF Sample
    <3>5. driver'[d].revision <= driver'[d].revision
      BY <3>3 DEF Sample
    <3>6. \A s, t \in Copies(d) : s.revision = t.revision => s = t
      BY DEF IInv, Coherent
    <3> QED BY <3>1, <3>2, <3>3, <3>4, <3>5, <3>6 DEF Coherent, Sample
  <2>2. CASE d \notin changed
    <3>1. {driver'[e] : e \in DOMAIN driver' \cap {d}}
              = {driver[e] : e \in DOMAIN driver \cap {d}}
      BY <1>2, <2>2
    <3>2. {a.sample : a \in {b \in arrivals' : b.driver = d}}
              \subseteq {a.sample : a \in {b \in arrivals : b.driver = d}}
      BY <1>4, <2>2
    <3>3. Copies(d)' \subseteq Copies(d)
      BY <1>1, <3>1, <3>2 DEF Copies
    <3> QED BY <1>2, <2>2, <3>3, FewerCopies DEF IInv
  <2> QED BY <2>1, <2>2
<1> QED BY <1>1, <1>6, <1>7, <1>8 DEF IInv, Typed

\* The winner among the samples that arrive for a pair is the latest one.
LEMMA BucketWinner ==
  ASSUME IInv, NEW p \in Drivers \X Sinks, Bucket(p) # {}
  PROVE  /\ p[1] \in DOMAIN driver /\ p[2] \in DOMAIN sink
         /\ \A s \in Bucket(p) : \E a \in arrivals : a.driver = p[1] /\ s = a.sample
         /\ Bucket(p) \in SUBSET Sample
         /\ Winner(p) \in Bucket(p)
         /\ \A s \in Bucket(p) : s.revision <= Winner(p).revision
<1>1. PICK b \in arrivals : Acceptable(b) /\ <<b.driver, b.sink>> = p
  BY DEF Bucket, Due
<1>2. p[1] \in DOMAIN driver /\ p[2] \in DOMAIN sink
  BY <1>1 DEF Acceptable
<1>3. \A s \in Bucket(p) : \E a \in arrivals : a.driver = p[1] /\ s = a.sample
  BY DEF Bucket, Due
<1>4. Bucket(p) \in SUBSET Sample
  BY <1>3 DEF IInv, Typed, SignalsTyped
<1>5. driver[p[1]].revision \in Nat
  BY <1>2, LiveSenders DEF IInv, Sample
<1>6. \A s \in Bucket(p) : s.revision <= driver[p[1]].revision
  BY <1>2, <1>3 DEF IInv, Coherent, Copies
<1>7. \E s \in Bucket(p) : \A t \in Bucket(p) : t.revision <= s.revision
  BY <1>4, <1>5, <1>6, HighestRevision
<1>8. Winner(p) \in Bucket(p) /\ \A t \in Bucket(p) : t.revision <= Winner(p).revision
  BY <1>7 DEF Winner
<1> QED BY <1>2, <1>3, <1>4, <1>8

\* What a slot takes is the sample of an acceptable arrival for its pair.
LEMMA WinnerArrived ==
  ASSUME IInv, NEW p \in Updated
  PROVE  /\ p[1] \in DOMAIN driver /\ p[2] \in DOMAIN sink
         /\ p = <<p[1], p[2]>>
         /\ \E a \in arrivals : a.driver = p[1] /\ Winner(p) = a.sample
         /\ Winner(p) \in Sample
<1>1. p \in Drivers \X Sinks /\ Bucket(p) # {}
  BY DEF Updated
<1> QED BY <1>1, BucketWinner

LEMMA ApplyArrivalsKeeps ==
  ASSUME IInv, ApplyArrivals
  PROVE  IInv'
<1>1. StructureTyped' /\ UNCHANGED <<tick, gates, routes, driver>>
  BY DEF IInv, Typed, StructureTyped, ApplyArrivals, structure
<1>2. /\ DOMAIN slot' = DOMAIN slot \cup Updated
      /\ \A p \in Updated : slot'[p] = Winner(p)
      /\ \A p \in DOMAIN slot \ Updated : slot'[p] = slot[p]
  BY DEF ApplyArrivals
<1>3. \A a \in arrivals' : a \in arrivals
  BY DEF ApplyArrivals
<1>4. sink' \in [DOMAIN sink -> [level : Levels, dirty : BOOLEAN]]
  <2>1. \A s \in DOMAIN sink : sink[s] \in [level : Levels, dirty : BOOLEAN]
    BY DEF IInv, Typed, SignalsTyped
  <2>2. \A s \in DOMAIN sink : resolve_drive(slot', s) \in Levels
    BY DEF resolve_drive, Levels
  <2>3. \A s \in DOMAIN sink :
            [level |-> resolve_drive(slot', s), dirty |-> FALSE]
                \in [level : Levels, dirty : BOOLEAN]
    BY <2>2
  <2>4. sink' = [s \in DOMAIN sink |-> sink'[s]]
        /\ \A s \in DOMAIN sink :
              sink'[s] \in {sink[s], [level |-> resolve_drive(slot', s),
                                      dirty |-> FALSE]}
    BY DEF ApplyArrivals
  <2> QED BY <2>1, <2>3, <2>4
<1>5. DOMAIN slot' \subseteq (DOMAIN driver) \X (DOMAIN sink)
  <2>1. \A p \in Updated : p \in (DOMAIN driver) \X (DOMAIN sink)
    BY WinnerArrived
  <2>2. DOMAIN slot \subseteq (DOMAIN driver) \X (DOMAIN sink)
    BY DEF IInv, Typed, SignalsTyped
  <2> QED BY <1>2, <2>1, <2>2
<1>6. \A p \in DOMAIN slot' : slot'[p] \in Sample
  BY <1>2, WinnerArrived DEF IInv, Typed, SignalsTyped
<1>7. SignalsTyped'
  <2>1. driver' \in [DriversOf(LiveGates') -> Sample]
        /\ DOMAIN sink = SinksOf(LiveGates')
        /\ DOMAIN routes' \subseteq Drivers \X Sinks
    BY <1>1 DEF IInv, Typed, SignalsTyped, LiveGates
  <2>2. \A a \in arrivals' : /\ a.driver \in Drivers /\ a.sink \in Sinks
                             /\ a.sample \in Sample
    BY <1>3 DEF IInv, Typed, SignalsTyped
  <2>3. DOMAIN driver' = DOMAIN driver /\ DOMAIN sink' = DOMAIN sink
    BY <1>1, <1>4
  <2> QED BY <1>4, <1>5, <1>6, <2>1, <2>2, <2>3 DEF SignalsTyped
<1>8. SendersKnown'
  BY <1>1, <1>3 DEF IInv, SendersKnown
<1>9. ASSUME NEW d \in Drivers PROVE Coherent(d)'
  <2>1. ASSUME NEW p \in DOMAIN slot', p[1] = d PROVE slot'[p] \in Copies(d)
    <3>1. CASE p \in Updated
      <4>1. PICK a \in arrivals : a.driver = d /\ Winner(p) = a.sample
        BY <2>1, <3>1, WinnerArrived
      <4> QED BY <1>2, <3>1, <4>1 DEF Copies
    <3>2. CASE p \notin Updated
      BY <1>2, <2>1, <3>2 DEF Copies
    <3> QED BY <3>1, <3>2
  <2>2. \A a \in arrivals' : a.driver = d => a.sample \in Copies(d)
    BY <1>3 DEF Copies
  <2>3. \A e \in DOMAIN driver \cap {d} : driver[e] \in Copies(d)
    BY DEF Copies
  <2>4. Copies(d)' \subseteq Copies(d)
    <3>1. Copies(d)' = {driver[e] : e \in DOMAIN driver \cap {d}}
                  \cup {slot'[p] : p \in {q \in DOMAIN slot' : q[1] = d}}
                  \cup {a.sample : a \in {b \in arrivals' : b.driver = d}}
      BY <1>1 DEF Copies
    <3> QED BY <2>1, <2>2, <2>3, <3>1
  <2> QED BY <1>1, <2>4, FewerCopies DEF IInv
<1> QED BY <1>1, <1>7, <1>8, <1>9 DEF IInv, Typed

-----------------------------------------------------------------------------
LEMMA NextKeepsIInv == IInv /\ [Next]_vars => IInv'
<1> SUFFICES ASSUME IInv, [Next]_vars PROVE IInv'
  OBVIOUS
<1>1. CASE Structural
  <2>1. CASE \E g \in Gates : PlaceGate(g) \/ RemoveGate(g)
    BY <2>1, PlaceGateKeeps, RemoveGateKeeps
  <2>2. CASE \E j \in Junctions : PlaceJunction(j) \/ RemoveJunction(j)
    BY <2>2, PlaceJunctionKeeps, RemoveJunctionKeeps
  <2>3. ASSUME NEW w \in Wires,
               \/ RemoveWire(w)
               \/ \E a \in Reach[w]["A"], b \in Reach[w]["B"] :
                     PlaceWire(w, a, b)
               \/ \E e \in Ends : \E t \in Reach[w][e] : BindPort(w, e, t)
        PROVE  IInv'
    BY <2>3, RemoveWireKeeps, PlaceWireKeeps, BindPortKeeps
  <2> QED BY <1>1, <2>1, <2>2, <2>3 DEF Structural
<1>2. CASE UNCHANGED vars
  <2>1. StructureTyped' /\ tick' \in Nat
        /\ UNCHANGED <<gates, driver, sink, slot, arrivals, routes>>
    BY <1>2 DEF vars, structure, IInv, Typed, StructureTyped
  <2> QED BY <2>1, RewiringKeepsIInv
<1> QED BY <1>1, <1>2, EndDestructionKeeps, CompileTopologyKeeps,
           DriveOutputsKeeps, ApplyArrivalsKeeps, CommitTickKeeps DEF Next

(* One revision of a driver names one sample wherever copies of it are:    *)
(* a slot never has to choose between two samples of the same revision,    *)
(* however routes change and whatever is still in flight (the error        *)
(* DriverRevisionInvariantViolation of signal.rs is unreachable).          *)
THEOREM CopiesAgree == Spec => []RevisionsAgree
<1>1. IInv => RevisionsAgree
  BY DEF IInv, Coherent, RevisionsAgree
<1> QED BY <1>1, InitIInv, NextKeepsIInv, PTL DEF Spec

(* The endpoint stores hold exactly the endpoints of the live gates and no *)
(* slot outlives either of its endpoints, through every rewiring and       *)
(* removal (the types, and the referential half of the state validation).  *)
THEOREM SignalsStayTyped == Spec => [](StructureTyped /\ SignalsTyped)
<1>1. IInv => StructureTyped /\ SignalsTyped
  BY DEF IInv, Typed
<1> QED BY <1>1, InitIInv, NextKeepsIInv, PTL DEF Spec

(* No two samples that meet at a slot claim one revision and differ: the   *)
(* error of apply_slot_sample and of the arrival buckets of Phase 2 cannot *)
(* be raised.                                                              *)
THEOREM NoRevisionConflict == Spec => []~RevisionConflict
<1>1. ASSUME IInv PROVE ~RevisionConflict
  <2>1. SUFFICES ASSUME NEW p \in Drivers \X Sinks, NEW s \in Bucket(p),
                        NEW t \in Bucket(p)
                               \cup {slot[q] : q \in DOMAIN slot \cap {p}},
                        s.revision = t.revision
                 PROVE  s = t
    BY DEF RevisionConflict
  <2>2. p[1] \in Drivers
    OBVIOUS
  <2>3. \A u \in Bucket(p) : u \in Copies(p[1])
    BY DEF Bucket, Due, Copies
  <2>4. \A q \in DOMAIN slot \cap {p} : slot[q] \in Copies(p[1])
    BY DEF Copies
  <2> QED BY <1>1, <2>1, <2>2, <2>3, <2>4 DEF IInv, Coherent
<1> QED BY <1>1, InitIInv, NextKeepsIInv, PTL DEF Spec

(* A sink never goes back to an older sample of a driver while the pair    *)
(* stays connected (apply_slot_sample takes only higher revisions, and     *)
(* rewiring drops a slot whole or leaves it alone).                        *)
THEOREM SlotsNeverRegress == Spec => SlotsAdvance
<1> DEFINE Later == \A p \in DOMAIN slot \cap DOMAIN slot' :
                       slot[p].revision <= slot'[p].revision
<1>1. ASSUME IInv, [Next]_vars PROVE [Later]_vars
  <2>1. \A p \in DOMAIN slot : slot[p].revision \in Nat
    BY <1>1 DEF IInv, Typed, SignalsTyped, Sample
  <2>2. CASE UNCHANGED slot
    BY <2>1, <2>2
  <2>3. CASE \A p \in DOMAIN slot' : p \in DOMAIN slot => slot'[p] = slot[p]
    BY <2>1, <2>3
  <2>4. CASE ApplyArrivals
    <3>1. ASSUME NEW p \in Updated, p \in DOMAIN slot
          PROVE  slot[p].revision <= slot'[p].revision
      <4>1. slot[p].revision < Winner(p).revision
        BY <3>1 DEF Updated
      <4>2. Winner(p).revision \in Nat
        BY <1>1, WinnerArrived DEF Sample
      <4>3. slot'[p] = Winner(p)
        BY <2>4 DEF ApplyArrivals
      <4> QED BY <2>1, <3>1, <4>1, <4>2, <4>3
    <3>2. \A p \in DOMAIN slot \ Updated : slot'[p] = slot[p]
      BY <2>4 DEF ApplyArrivals
    <3> QED BY <2>1, <3>1, <3>2
  <2>5. CASE CompileTopology
    <3>1. \A p \in DOMAIN slot' : p \in DOMAIN slot => slot'[p] = slot[p]
      BY <2>5 DEF CompileTopology, apply_route_diff
    <3> QED BY <2>3, <3>1
  <2>6. CASE \E g \in Gates : RemoveGate(g)
    <3>1. \A p \in DOMAIN slot' : p \in DOMAIN slot => slot'[p] = slot[p]
      BY <2>6 DEF RemoveGate
    <3> QED BY <2>3, <3>1
  <2>7. \/ UNCHANGED slot \/ ApplyArrivals \/ CompileTopology
        \/ \E g \in Gates : RemoveGate(g)
    BY <1>1 DEF Next, Structural, PlaceGate, PlaceJunction, PlaceWire, BindPort,
                RemoveWire, RemoveJunction, EndDestruction, DriveOutputs,
                CommitTick, Signals, vars
  <2> QED BY <2>2, <2>4, <2>5, <2>6, <2>7
<1> QED BY <1>1, InitIInv, NextKeepsIInv, PTL DEF Spec, SlotsAdvance

-----------------------------------------------------------------------------
(* The order of the candidate paths: it is total and strict, and there are *)
(* finitely many candidates, so shortest_path is one of them.              *)

\* A running sum of naturals exists.
LEMMA RunningSum ==
  ASSUME NEW n \in Nat, NEW f, NEW walk,
         \A i \in 1..n : f[walk[i][1]] \in Nat
  PROVE  \E s \in [0..n -> Nat] :
            s = [i \in 0..n |-> IF i = 0 THEN 0 ELSE s[i - 1] + f[walk[i][1]]]
<1> DEFINE Sums(m, s) ==
             s[0] = 0 /\ \A i \in 1..m : s[i] = s[i - 1] + f[walk[i][1]]
           Fails == {m \in 0..n : ~ \E s \in [0..m -> Nat] : Sums(m, s)}
<1>1. Fails = {}
  <2>1. SUFFICES ASSUME Fails # {} PROVE FALSE
    OBVIOUS
  <2>2. PICK m \in Fails : \A k \in Fails : m <= k
    <3>1. Fails \in SUBSET Nat
      OBVIOUS
    <3> HIDE DEF Fails
    <3> QED BY <2>1, <3>1, LeastOfNats
  <2>3. m # 0
    <3>1. Sums(0, [i \in 0..0 |-> 0]) /\ [i \in 0..0 |-> 0] \in [0..0 -> Nat]
      OBVIOUS
    <3> QED BY <2>2, <3>1, ZenonT(60)
  <2>4. m \in 1..n /\ m - 1 \in 0..n /\ ~(m <= m - 1)
    BY <2>2, <2>3
  <2>8. m - 1 \notin Fails
    BY <2>2, <2>4
  <2>5. PICK s \in [0..(m - 1) -> Nat] : Sums(m - 1, s)
    BY <2>4, <2>8
  <2> DEFINE t == [i \in 0..m |->
                      IF i = m THEN s[m - 1] + f[walk[m][1]] ELSE s[i]]
  <2>6. t \in [0..m -> Nat]
    <3>1. s[m - 1] + f[walk[m][1]] \in Nat
      BY <2>4, <2>5
    <3>2. \A i \in 0..m : i # m => i \in 0..(m - 1)
      BY <2>4
    <3> QED BY <2>5, <3>1, <3>2
  <2>7. Sums(m, t)
    <3>1. t[0] = 0
      BY <2>4, <2>5
    <3>2. ASSUME NEW i \in 1..m PROVE t[i] = t[i - 1] + f[walk[i][1]]
      <4>1. i \in 0..m /\ i - 1 \in 0..m /\ i - 1 # m
        BY <2>4
      <4>2. /\ t[i - 1] = s[i - 1]
            /\ t[i] = IF i = m THEN s[m - 1] + f[walk[m][1]] ELSE s[i]
        BY <4>1
      <4>3. i # m => i \in 1..(m - 1)
        BY <2>4
      <4> QED BY <2>5, <4>2, <4>3
    <3> QED BY <3>1, <3>2
  <2> QED BY <2>2, <2>6, <2>7
<1>2. PICK s \in [0..n -> Nat] : Sums(n, s)
  <2>1. n \in 0..n
    OBVIOUS
  <2>2. n \in 0..n /\ n \notin Fails => \E s \in [0..n -> Nat] : Sums(n, s)
    OBVIOUS
  <2> HIDE DEF Fails, Sums
  <2> QED BY <1>1, <2>1, <2>2
<1>3. \A i \in 0..n : i # 0 => i \in 1..n
  OBVIOUS
<1>4. \A i \in 0..n : s[i] = IF i = 0 THEN 0 ELSE s[i - 1] + f[walk[i][1]]
  BY <1>2, <1>3
<1> QED BY <1>2, <1>4

\* The length and the number of segments of a path are numbers.
LEMMA TotalIsNatural ==
  ASSUME NEW f, NEW walk, Len(walk) \in Nat,
         \A i \in 1..Len(walk) : f[walk[i][1]] \in Nat
  PROVE  Total(f, walk) \in Nat
<1> DEFINE Runs(s) == s = [i \in 0..Len(walk) |->
                             IF i = 0 THEN 0 ELSE s[i - 1] + f[walk[i][1]]]
           S == CHOOSE s : Runs(s)
<1>1. \E t : Runs(t)
  BY RunningSum, SMTT(40)
<1>2. Runs(S)
  <2> HIDE DEF Runs
  <2> QED BY <1>1
<1>3. \A i \in 0..Len(walk) :
         S[i] = IF i = 0 THEN 0 ELSE S[i - 1] + f[walk[i][1]]
  <2> HIDE DEF S
  <2> QED BY <1>2
<1>4. S[Len(walk)] \in Nat
  <2> HIDE DEF S
  <2> DEFINE Fails == {i \in 0..Len(walk) : S[i] \notin Nat}
  <2>1. Fails = {}
    <3>1. SUFFICES ASSUME Fails # {} PROVE FALSE
      OBVIOUS
    <3>2. PICK m \in Fails : \A k \in Fails : m <= k
      <4>1. Fails \in SUBSET Nat
        OBVIOUS
      <4> HIDE DEF Fails
      <4> QED BY <3>1, <4>1, LeastOfNats
    <3>3. m # 0
      BY <1>3, <3>2
    <3>4. /\ m \in 1..Len(walk) /\ m - 1 \in 0..Len(walk)
          /\ m \in 0..Len(walk) /\ ~(m <= m - 1)
      BY <3>2, <3>3
    <3>5. m - 1 \notin Fails
      BY <3>2, <3>4
    <3>6. S[m] = IF m = 0 THEN 0 ELSE S[m - 1] + f[walk[m][1]]
      BY <3>4, <1>3
    <3>7. S[m - 1] + f[walk[m][1]] \in Nat
      BY <3>4, <3>5
    <3> QED BY <3>2, <3>3, <3>6, <3>7
  <2>2. Len(walk) \in 0..Len(walk)
    OBVIOUS
  <2> QED BY <2>1, <2>2
<1>5. Total(f, walk) = S[Len(walk)]
  BY DEF Total
<1> QED BY <1>4, <1>5

Keys == Seq(Nat \X Nat)
Priorities == [total_length : Nat, segment_count : Nat, path_key : Keys]

\* No path key precedes itself.
LEMMA KeyIrreflexive ==
  ASSUME NEW k \in Keys
  PROVE  ~KeyLess(k, k)
<1>1. \A i \in 1..Len(k) : k[i] \in Nat \X Nat
  BY DEF Keys
<1>2. \A h \in Nat \X Nat : ~HopLess(h, h)
  BY DEF HopLess
<1> QED BY <1>1, <1>2 DEF KeyLess, Keys

\* The order of path keys is transitive: the first place at which k and m
\* differ is the earlier of those of k, l and of l, m.
LEMMA KeyTransitive ==
  ASSUME NEW k \in Keys, NEW l \in Keys, NEW m \in Keys,
         KeyLess(k, l), KeyLess(l, m)
  PROVE  KeyLess(k, m)
<1>1. PICK n \in 1..Len(l) :
         /\ \A i \in 1..(n - 1) : i <= Len(k) /\ k[i] = l[i]
         /\ n > Len(k) \/ HopLess(k[n], l[n])
  BY DEF KeyLess
<1>2. PICK o \in 1..Len(m) :
         /\ \A i \in 1..(o - 1) : i <= Len(l) /\ l[i] = m[i]
         /\ o > Len(l) \/ HopLess(l[o], m[o])
  BY DEF KeyLess
<1>3. /\ Len(k) \in Nat /\ Len(l) \in Nat /\ Len(m) \in Nat
      /\ \A i \in 1..Len(k) : k[i] \in Nat \X Nat
      /\ \A i \in 1..Len(l) : l[i] \in Nat \X Nat
      /\ \A i \in 1..Len(m) : m[i] \in Nat \X Nat
  BY DEF Keys
<1>4. CASE n < o
  <2>1. n \in 1..Len(m) /\ n \in 1..(o - 1)
    BY <1>3, <1>4
  <2>2. \A i \in 1..(n - 1) : i \in 1..(o - 1)
    BY <1>3, <1>4
  <2>3. \A i \in 1..(n - 1) : i <= Len(k) /\ k[i] = m[i]
    BY <1>1, <1>2, <2>2
  <2>4. n > Len(k) \/ HopLess(k[n], m[n])
    BY <1>1, <1>2, <2>1
  <2> QED BY <2>1, <2>3, <2>4 DEF KeyLess
<1>5. CASE n = o
  <2>1. \A i \in 1..(o - 1) : i <= Len(k) /\ k[i] = m[i]
    BY <1>1, <1>2, <1>5
  <2>2. o > Len(k) \/ HopLess(k[o], m[o])
    <3>1. SUFFICES ASSUME ~(o > Len(k)) PROVE HopLess(k[o], m[o])
      OBVIOUS
    <3>2. o \in 1..Len(k) /\ o \in 1..Len(l) /\ o \in 1..Len(m) /\ ~(o > Len(l))
      BY <1>3, <1>5, <3>1
    <3>3. HopLess(k[o], l[o]) /\ HopLess(l[o], m[o])
      BY <1>1, <1>2, <1>5, <3>1, <3>2
    <3> QED BY <1>3, <3>2, <3>3 DEF HopLess
  <2> QED BY <2>1, <2>2 DEF KeyLess
<1>6. CASE o < n
  <2>1. o \in 1..(n - 1) /\ o \in 1..Len(l) /\ ~(o > Len(l))
    BY <1>3, <1>6
  <2>2. \A i \in 1..(o - 1) : i \in 1..(n - 1)
    BY <1>3, <1>6
  <2>3. \A i \in 1..(o - 1) : i <= Len(k) /\ k[i] = m[i]
    BY <1>1, <1>2, <2>2
  <2>4. HopLess(k[o], m[o])
    BY <1>1, <1>2, <2>1
  <2> QED BY <2>3, <2>4 DEF KeyLess
<1> QED BY <1>3, <1>4, <1>5, <1>6

\* Of two different path keys one precedes the other.
LEMMA KeyTotal ==
  ASSUME NEW k \in Keys, NEW l \in Keys, k # l
  PROVE  KeyLess(k, l) \/ KeyLess(l, k)
<1> DEFINE Differ == {i \in Nat \ {0} : i > Len(k) \/ i > Len(l) \/ k[i] # l[i]}
<1>1. /\ Len(k) \in Nat /\ Len(l) \in Nat
      /\ \A i \in 1..Len(k) : k[i] \in Nat \X Nat
      /\ \A i \in 1..Len(l) : l[i] \in Nat \X Nat
  BY DEF Keys
<1>2. PICK n \in Differ : \A i \in Differ : n <= i
  <2>1. Len(k) + 1 \in Differ
    BY <1>1
  <2>2. Differ \in SUBSET Nat /\ Differ # {}
    BY <2>1
  <2> HIDE DEF Differ
  <2> QED BY <2>2, LeastOfNats
<1>3. ASSUME NEW i \in 1..(n - 1)
      PROVE  i <= Len(k) /\ i <= Len(l) /\ k[i] = l[i]
  <2>1. i \in Nat \ {0} /\ ~(n <= i)
    <3>1. n \in Nat \ {0}
      BY <1>2
    <3> HIDE DEF Differ
    <3> QED BY <3>1
  <2>2. i \notin Differ
    BY <1>2, <2>1
  <2> QED BY <1>1, <2>1, <2>2
<1>4. CASE n <= Len(k) /\ n <= Len(l)
  <2>1. n \in 1..Len(k) /\ n \in 1..Len(l) /\ k[n] # l[n]
    BY <1>1, <1>2, <1>4
  <2>2. HopLess(k[n], l[n]) \/ HopLess(l[n], k[n])
    <3>1. k[n] \in Nat \X Nat /\ l[n] \in Nat \X Nat
      BY <1>1, <2>1
    <3>2. k[n] = <<k[n][1], k[n][2]>> /\ l[n] = <<l[n][1], l[n][2]>>
      BY <3>1
    <3>3. k[n][1] # l[n][1] \/ k[n][2] # l[n][2]
      BY <2>1, <3>2
    <3>4. /\ k[n][1] \in Nat /\ l[n][1] \in Nat
          /\ k[n][2] \in Nat /\ l[n][2] \in Nat
      BY <3>1
    <3> QED BY <3>3, <3>4 DEF HopLess
  <2> QED BY <1>3, <2>1, <2>2 DEF KeyLess
<1>5. CASE n > Len(k) /\ n <= Len(l)
  <2>1. n \in 1..Len(l)
    BY <1>1, <1>2, <1>5
  <2> QED BY <1>3, <1>5, <2>1 DEF KeyLess
<1>6. CASE n <= Len(k) /\ n > Len(l)
  <2>1. n \in 1..Len(k)
    BY <1>1, <1>2, <1>6
  <2> QED BY <1>3, <1>6, <2>1 DEF KeyLess
<1>7. CASE n > Len(k) /\ n > Len(l)
  <2>1. Len(k) = n - 1 /\ Len(l) = n - 1
    <3>1. n - 1 = 0 \/ n - 1 \in 1..(n - 1)
      BY <1>2
    <3> QED BY <1>1, <1>2, <1>3, <1>7, <3>1
  <2>2. k = l
    <3>1. k = [i \in 1..Len(k) |-> k[i]] /\ l = [i \in 1..Len(l) |-> l[i]]
      BY SMTT(40) DEF Keys
    <3> QED BY <1>3, <2>1, <3>1
  <2> QED BY <2>2
<1> QED BY <1>1, <1>2, <1>4, <1>5, <1>6, <1>7

\* PriorityLess is a strict total order on priorities.
LEMMA PriorityOrder ==
  ASSUME NEW p \in Priorities, NEW q \in Priorities
  PROVE  /\ ~PriorityLess(p, p)
         /\ p # q => PriorityLess(p, q) \/ PriorityLess(q, p)
<1>1. /\ p.total_length \in Nat /\ q.total_length \in Nat
      /\ p.segment_count \in Nat /\ q.segment_count \in Nat
      /\ p.path_key \in Keys /\ q.path_key \in Keys
  BY DEF Priorities
<1>2. ~PriorityLess(p, p)
  BY <1>1, KeyIrreflexive DEF PriorityLess
<1>3. p # q => \/ p.total_length # q.total_length
               \/ p.segment_count # q.segment_count
               \/ p.path_key # q.path_key
  BY DEF Priorities
<1> QED BY <1>1, <1>2, <1>3, KeyTotal DEF PriorityLess

\* The order of route priorities is transitive.
LEMMA PriorityTransitive ==
  ASSUME NEW p \in Priorities, NEW q \in Priorities, NEW r \in Priorities,
         PriorityLess(p, q), PriorityLess(q, r)
  PROVE  PriorityLess(p, r)
<1>1. /\ p.total_length \in Nat /\ q.total_length \in Nat
      /\ r.total_length \in Nat /\ p.segment_count \in Nat
      /\ q.segment_count \in Nat /\ r.segment_count \in Nat
      /\ p.path_key \in Keys /\ q.path_key \in Keys /\ r.path_key \in Keys
  BY DEF Priorities
<1> QED BY <1>1, KeyTransitive DEF PriorityLess

\* A finite set of priorities has a least one.
LEMMA LeastPriority ==
  ASSUME NEW P \in SUBSET Priorities, IsFiniteSet(P), P # {}
  PROVE  \E p \in P : \A q \in P \ {p} : PriorityLess(p, q)
<1> DEFINE Lower(p) == {q \in P : PriorityLess(q, p)}
           Sizes == {Cardinality(Lower(p)) : p \in P}
<1>1. \A p \in P : /\ Lower(p) \in SUBSET P /\ IsFiniteSet(Lower(p))
                   /\ Cardinality(Lower(p)) \in Nat
  <2>1. \A p \in P : Lower(p) \in SUBSET P
    OBVIOUS
  <2> HIDE DEF Lower
  <2> QED BY <2>1, FS_Subset, FS_CardinalityType
<1>2. PICK n \in Sizes : \A i \in Sizes : n <= i
  <2>1. Sizes \in SUBSET Nat /\ Sizes # {}
    BY <1>1
  <2> HIDE DEF Sizes
  <2> QED BY <2>1, LeastOfNats
<1>3. PICK p \in P : n = Cardinality(Lower(p))
  BY <1>2
<1>4. ASSUME NEW q \in P \ {p}, PriorityLess(q, p) PROVE FALSE
  <2>1. q \in Priorities /\ p \in Priorities /\ q \in P
    OBVIOUS
  <2>2. Lower(q) \subseteq Lower(p)
    BY <1>4, <2>1, PriorityTransitive
  <2>3. q \in Lower(p) /\ q \notin Lower(q)
    BY <1>4, <2>1, PriorityOrder
  <2>4. Cardinality(Lower(q)) \in Sizes
    OBVIOUS
  <2>5. n <= Cardinality(Lower(q))
    BY <1>2, <2>4
  <2> HIDE DEF Lower, Sizes
  <2>6. Cardinality(Lower(q)) <= Cardinality(Lower(p))
        /\ (Cardinality(Lower(p)) = Cardinality(Lower(q))
              => Lower(p) = Lower(q))
    BY <1>1, <2>2, FS_Subset
  <2>7. Cardinality(Lower(q)) = Cardinality(Lower(p))
    BY <1>1, <1>3, <2>1, <2>5, <2>6
  <2> QED BY <2>3, <2>6, <2>7
<1> QED BY <1>4, PriorityOrder

-----------------------------------------------------------------------------
(* Routes.  A compiled route follows some walk of live wires from the      *)
(* port of its driver to the port of its sink.                             *)

WireRecord == [state : Lifecycle, A : EndpointTargets, B : EndpointTargets,
               generation : Nat]

\* A walk is a sequence of edges.
LEMMA WalkTyped ==
  ASSUME NEW ws, NEW walk \in Walks(ws)
  PROVE  /\ walk \in Seq(Edges(ws)) /\ Len(walk) \in Nat
         /\ DOMAIN walk = 1..Len(walk)
         /\ \A i \in 1..Len(walk) : walk[i] \in Edges(ws)
         /\ \A i, k \in 1..Len(walk) : walk[i][1] = walk[k][1] => i = k
<1>1. IsFiniteSet(LiveWires(ws))
  BY FS_Subset, TopologyAssumption DEF LiveWires
<1>2. Cardinality(LiveWires(ws)) \in Nat
  BY <1>1, FS_CardinalityType
<1>3. PICK n \in 0..Cardinality(LiveWires(ws)) : walk \in [1..n -> Edges(ws)]
  BY DEF Walks
<1>4. n \in Nat /\ walk \in Seq(Edges(ws)) /\ Len(walk) = n
  BY <1>2, <1>3
<1> QED BY <1>3, <1>4 DEF Walks

\* There are finitely many walks.
LEMMA WalksFinite ==
  ASSUME NEW ws
  PROVE  IsFiniteSet(Walks(ws))
<1> DEFINE N == Cardinality(LiveWires(ws))
           Graph(walk) == {<<i, walk[i]>> : i \in DOMAIN walk}
           Graphs == SUBSET ((1..N) \X Edges(ws))
           f == [walk \in Walks(ws) |-> Graph(walk)]
<1>1. IsFiniteSet(LiveWires(ws))
  BY FS_Subset, TopologyAssumption DEF LiveWires
<1>2. N \in Nat
  BY <1>1, FS_CardinalityType
<1>3. IsFiniteSet(Graphs)
  <2>1. IsFiniteSet(Ends)
    <3>1. Ends = {"A"} \cup {"B"}
      BY DEF Ends
    <3> QED BY <3>1, FS_Singleton, FS_Union
  <2>2. IsFiniteSet(Edges(ws))
    BY <1>1, <2>1, FS_Product DEF Edges
  <2>3. IsFiniteSet(1..N)
    <3> HIDE DEF N
    <3> QED BY <1>2, FS_Interval
  <2>4. IsFiniteSet((1..N) \X Edges(ws))
    <3> HIDE DEF N
    <3> QED BY <2>2, <2>3, FS_Product
  <2> QED BY <2>4, FS_SUBSET
<1>4. ASSUME NEW walk \in Walks(ws)
      PROVE  \E n \in 0..N : walk \in [1..n -> Edges(ws)]
  BY DEF Walks
<1>5. f \in [Walks(ws) -> Graphs]
  <2>1. ASSUME NEW walk \in Walks(ws) PROVE Graph(walk) \in Graphs
    <3>1. PICK n \in 0..N : walk \in [1..n -> Edges(ws)]
      BY <1>4
    <3>2. \A i \in 1..n : i \in 1..N /\ walk[i] \in Edges(ws)
      <4> HIDE DEF N
      <4> QED BY <1>2, <3>1
    <3>3. DOMAIN walk = 1..n
      BY <3>1
    <3> HIDE DEF N
    <3> QED BY <3>2, <3>3
  <2> HIDE DEF Graph, Graphs
  <2> QED BY <2>1
<1>6. ASSUME NEW v \in Walks(ws), NEW w \in Walks(ws), Graph(v) = Graph(w)
      PROVE  v = w
  <2>1. v = [i \in DOMAIN v |-> v[i]] /\ w = [i \in DOMAIN w |-> w[i]]
    BY <1>4
  <2>2. ASSUME NEW i \in DOMAIN v PROVE i \in DOMAIN w /\ v[i] = w[i]
    <3>1. <<i, v[i]>> \in Graph(w)
      BY <1>6
    <3> QED BY <3>1
  <2>3. ASSUME NEW i \in DOMAIN w PROVE i \in DOMAIN v
    <3>1. <<i, w[i]>> \in Graph(v)
      BY <1>6
    <3> QED BY <3>1
  <2>4. DOMAIN v = DOMAIN w
    BY <2>2, <2>3
  <2> QED BY <2>1, <2>2, <2>4
<1>7. f \in Injection(Walks(ws), Graphs)
  <2> HIDE DEF Graph, Graphs
  <2>1. \A v, w \in Walks(ws) : f[v] = f[w] => v = w
    BY <1>6
  <2>2. DOMAIN f = Walks(ws)
    OBVIOUS
  <2> HIDE DEF f
  <2> QED BY <1>5, <2>1, <2>2 DEF Injection, IsInjective
<1> HIDE DEF f, Graphs
<1> QED BY <1>3, <1>7, FS_Injection

\* Where an edge leads: a target of its wire, or the loose end of it.
LEMMA EdgeTyped ==
  ASSUME NEW ws \in [Wires -> WireRecord], NEW edge \in Edges(ws)
  PROVE  /\ edge[1] \in Wires /\ ws[edge[1]].state = "live"
         /\ \E end \in Ends : To(ws, edge) = NodeAt(ws, edge[1], end)
         /\ \E end \in Ends : From(ws, edge) = NodeAt(ws, edge[1], end)
<1>1. edge[1] \in LiveWires(ws) /\ edge[2] \in Ends
  BY DEF Edges
<1>2. (CHOOSE end \in Ends : end # edge[2]) \in Ends
  <2>1. \E end \in Ends : end # edge[2]
    BY <1>1 DEF Ends
  <2> QED BY <2>1
<1> QED BY <1>1, <1>2 DEF LiveWires, To, From

\* A node that is a junction is one a wire end is bound to.
LEMMA JunctionNode ==
  ASSUME NEW ws \in [Wires -> WireRecord], NEW w \in Wires, NEW end \in Ends,
         NodeAt(ws, w, end)[1] = "junction"
  PROVE  /\ NodeAt(ws, w, end)[2] \in Junctions
         /\ ws[w][end] = JunctionTarget(NodeAt(ws, w, end)[2])
<1>1. ws[w][end] \in EndpointTargets
  BY DEF WireRecord, Ends
<1>2. ws[w][end] # Free
  BY DEF NodeAt, signal_node_for_endpoint
<1>3. NodeAt(ws, w, end) = ws[w][end]
  BY <1>2 DEF NodeAt, signal_node_for_endpoint
<1>4. \/ \E j \in Junctions : ws[w][end] = JunctionTarget(j)
      \/ \E p \in Ports : ws[w][end] = PortTarget(p)
  BY <1>1, <1>2 DEF EndpointTargets
<1>5. \A p \in Ports : PortTarget(p)[1] # "junction"
  BY DEF PortTarget
<1>6. PICK j \in Junctions : ws[w][end] = JunctionTarget(j)
  BY <1>3, <1>4, <1>5
<1>7. JunctionTarget(j)[2] = j
  BY DEF JunctionTarget
<1> QED BY <1>3, <1>6, <1>7

\* The elements of a hop: its wire, and a junction its wire is bound to.
LEMMA HopTyped ==
  ASSUME NEW ws \in [Wires -> WireRecord], NEW edge \in Edges(ws)
  PROVE  /\ Hop(ws, edge) \in Nat \X Nat
         /\ edge[1] \in Elements(Hop(ws, edge))
         /\ \A x \in Elements(Hop(ws, edge)) :
               \/ x = edge[1]
               \/ /\ x \in Junctions
                  /\ \E end \in Ends : ws[edge[1]][end] = JunctionTarget(x)
<1>1. PICK end \in Ends : To(ws, edge) = NodeAt(ws, edge[1], end)
  BY EdgeTyped
<1>2. edge[1] \in Wires /\ edge[1] \in Nat \ {0}
  BY EdgeTyped, TopologyAssumption
<1>3. CASE To(ws, edge)[1] = "junction"
  <2>1. To(ws, edge)[2] \in Junctions
        /\ ws[edge[1]][end] = JunctionTarget(To(ws, edge)[2])
    BY <1>1, <1>2, <1>3, JunctionNode
  <2>2. Hop(ws, edge) = <<edge[1], To(ws, edge)[2]>>
    BY <1>3 DEF Hop
  <2>3. To(ws, edge)[2] \in Nat \ {0}
    BY <2>1, TopologyAssumption
  <2> QED BY <1>2, <2>1, <2>2, <2>3 DEF Elements
<1>4. CASE To(ws, edge)[1] # "junction"
  <2>1. Hop(ws, edge) = <<edge[1], 0>>
    BY <1>4 DEF Hop
  <2> QED BY <1>2, <2>1 DEF Elements
<1> QED BY <1>3, <1>4

\* The priority of a walk is a priority.
LEMMA PriorityTyped ==
  ASSUME NEW ws \in [Wires -> WireRecord], NEW walk \in Walks(ws)
  PROVE  RoutePriority(ws, walk) \in Priorities
<1>1. /\ Len(walk) \in Nat
      /\ \A i \in 1..Len(walk) : walk[i] \in Edges(ws)
  BY WalkTyped
<1>2. \A i \in 1..Len(walk) : walk[i][1] \in Wires
  BY <1>1, EdgeTyped
<1>3. Total(Length, walk) \in Nat
  <2>1. \A i \in 1..Len(walk) : Length[walk[i][1]] \in Nat
    BY <1>2, TopologyAssumption
  <2> QED BY <1>1, <2>1, TotalIsNatural
<1>4. Total(Segments, walk) \in Nat
  <2>1. \A i \in 1..Len(walk) : Segments[walk[i][1]] \in Nat
    BY <1>2, TopologyAssumption
  <2> QED BY <1>1, <2>1, TotalIsNatural
<1>5. path_key(ws, walk) \in Keys
  <2>1. \A i \in 1..Len(walk) : Hop(ws, walk[i]) \in Nat \X Nat
    BY <1>1, HopTyped
  <2>2. path_key(ws, walk) \in [1..Len(walk) -> Nat \X Nat]
    BY <2>1 DEF path_key
  <2> QED BY <1>1, <2>2 DEF Keys
<1> QED BY <1>3, <1>4, <1>5 DEF RoutePriority, Priorities

\* The route between two connected ports is the priority of a walk.
LEMMA ShortestIsAPath ==
  ASSUME NEW ws \in [Wires -> WireRecord], NEW src, NEW dst,
         PathsBetween(ws, src, dst) # {}
  PROVE  \E walk \in PathsBetween(ws, src, dst) :
            shortest_path(ws, src, dst) = RoutePriority(ws, walk)
<1> DEFINE Paths == PathsBetween(ws, src, dst)
           P == {RoutePriority(ws, walk) : walk \in Paths}
           f == [walk \in Paths |-> RoutePriority(ws, walk)]
<1>1. Paths \in SUBSET Walks(ws)
  BY DEF PathsBetween
<1>2. P \in SUBSET Priorities /\ P # {}
  BY <1>1, PriorityTyped
<1>3. IsFiniteSet(P)
  <2>1. IsFiniteSet(Paths)
    BY <1>1, WalksFinite, FS_Subset
  <2>2. f \in Surjection(Paths, P)
    BY DEF Surjection
  <2> HIDE DEF P, Paths, f
  <2> QED BY <2>1, <2>2, FS_Surjection
<1>4. \E p \in P : \A q \in P \ {p} : PriorityLess(p, q)
  <2> HIDE DEF P
  <2> QED BY <1>2, <1>3, LeastPriority
<1>5. shortest_path(ws, src, dst) \in P
  <2>1. shortest_path(ws, src, dst)
            = CHOOSE p \in P : \A q \in P \ {p} : PriorityLess(p, q)
    BY DEF shortest_path
  <2> HIDE DEF P
  <2> QED BY <1>4, <2>1
<1> QED BY <1>5

\* The delay of a path is a number of ticks.
LEMMA DelayIsNatural ==
  ASSUME NEW length \in Nat
  PROVE  wire_delay(length) \in Nat
<1>1. /\ LinearK[1] \in Nat /\ LinearK[2] \in Nat \ {0}
      /\ QuadraticK[1] \in Nat /\ QuadraticK[2] \in Nat \ {0}
      /\ FixedOne \in Nat \ {0}
  BY TopologyAssumption
<1>2. \A a, b \in Nat : a * b \in Nat
  OBVIOUS
<1>3. \A a, b \in Nat \ {0} : a * b \in Nat \ {0}
  OBVIOUS
<1> DEFINE numerator == LinearK[1] * length * QuadraticK[2] * FixedOne
                        + QuadraticK[1] * length * length * LinearK[2]
           denominator == LinearK[2] * QuadraticK[2] * FixedOne * FixedOne
<1>4. numerator \in Nat
  <2>1. LinearK[1] * length * QuadraticK[2] * FixedOne \in Nat
    BY <1>1, <1>2
  <2>2. QuadraticK[1] * length * length * LinearK[2] \in Nat
    BY <1>1, <1>2
  <2> QED BY <2>1, <2>2
<1>5. denominator \in Nat \ {0}
  BY <1>1, <1>3
<1>6. CeilDiv(numerator, denominator) \in Int
  <2> HIDE DEF numerator, denominator
  <2> QED BY <1>4, <1>5 DEF CeilDiv
<1>7. wire_delay(length) = IF CeilDiv(numerator, denominator) < 1 THEN 1
                           ELSE CeilDiv(numerator, denominator)
  BY DEF wire_delay
<1> HIDE DEF numerator, denominator
<1> QED BY <1>6, <1>7

\* What compile records of a pair: the stamps of a walk between its ports.
Source(p) == PortTarget(DriverPort[p[1]])
Target(p) == PortTarget(SinkPort[p[2]])
StampsOf(ws, js, walk) ==
    [i \in 1..Len(walk) |->
        {Stamp(ws, js, x) : x \in Elements(Hop(ws, walk[i]))}]

\* A compiled route follows some path from its driver's port to its sink's
\* port, and its delay is a number of ticks.
LEMMA CompiledRoute ==
  ASSUME NEW ws \in [Wires -> WireRecord], NEW js, NEW D, NEW S,
         NEW p \in DOMAIN compile(ws, js, D, S)
  PROVE  /\ \E walk \in PathsBetween(ws, Source(p), Target(p)) :
               compile(ws, js, D, S)[p].stamps = StampsOf(ws, js, walk)
         /\ compile(ws, js, D, S)[p].delay \in Nat
<1> DEFINE best == shortest_path(ws, Source(p), Target(p))
<1>1. PathsBetween(ws, Source(p), Target(p)) # {}
      /\ compile(ws, js, D, S)[p] = RouteFor(ws, js, Source(p), Target(p))
  BY DEF compile, Source, Target
<1>2. PICK walk \in PathsBetween(ws, Source(p), Target(p)) :
         best = RoutePriority(ws, walk)
  BY <1>1, ShortestIsAPath
<1>3. walk \in Walks(ws)
  BY DEF PathsBetween
<1>4. best.path_key = path_key(ws, walk) /\ Len(walk) \in Nat
  BY <1>2, <1>3, WalkTyped DEF RoutePriority
<1>5. Len(best.path_key) = Len(walk)
      /\ \A i \in 1..Len(walk) : best.path_key[i] = Hop(ws, walk[i])
  BY <1>4 DEF path_key
<1>6. best.total_length \in Nat
  BY <1>2, <1>3, PriorityTyped DEF Priorities
<1> HIDE DEF best
<1>7. RouteFor(ws, js, Source(p), Target(p)).stamps = StampsOf(ws, js, walk)
  BY <1>5 DEF RouteFor, StampsOf, best
<1>8. RouteFor(ws, js, Source(p), Target(p)).delay \in Nat
  BY <1>6, DelayIsNatural DEF RouteFor, best
<1> QED BY <1>1, <1>7, <1>8

-----------------------------------------------------------------------------
(* The inductive invariant of delivery.  It follows an update from the     *)
(* driver to the sink: a route either holds its driver's sample or has it  *)
(* in flight (Served); what is in flight still leads where it was sent     *)
(* unless a wire it crosses has been touched (Kept); and the levels of the *)
(* sinks that are not dirty are those of their slots (SinksFollow).        *)

Current == compile(wires, junctions, DOMAIN driver, DOMAIN sink)

\* Wires are only bound to junctions that are there.
BoundToLive ==
    \A w \in LiveWires(wires), e \in Ends, j \in Junctions :
        wires[w][e] = JunctionTarget(j) => junctions[j].state = "live"

\* The routes are those of the network, until it is edited.
RoutesCurrent ==
    /\ stage \in {"drivers", "arrivals", "commit"} => ~topology_changed
    /\ ~topology_changed => /\ dirty_wires = {} /\ dirty_junctions = {}
                            /\ routes = Current

\* Routes take time, and join endpoints of gates that have been placed.
RoutesTyped ==
    \A p \in DOMAIN routes :
        /\ routes[p].delay \in Nat
        /\ gates[Owner(p[1])] # "absent"
        /\ gates[PortGate[SinkPort[p[2]]]] # "absent"

Nodes == EndpointTargets \cup ({"end"} \X Wires \X Ends)

\* A wire whose stamp is current still joins the nodes it joined.
KeptHop(hop, edge, from, to) ==
    \E stamp \in hop :
        /\ stamp[1] = edge[1] /\ stamp[2] \in Nat
        /\ wires[edge[1]].state # "absent"
        /\ stamp[2] <= wires[edge[1]].generation
        /\ /\ wires[edge[1]].state = "live" /\ edge[1] \notin dirty_wires
           /\ wires[edge[1]].generation = stamp[2]
           => From(wires, edge) = from /\ To(wires, edge) = to

Kept(path, src, dst) ==
    \E walk \in [1..Len(path) -> Wires \X Ends],
       at \in [0..Len(path) -> Nodes] :
        /\ at[0] = src /\ at[Len(path)] = dst
        /\ \A i, k \in 1..Len(path) : walk[i][1] = walk[k][1] => i = k
        /\ \A i \in 1..Len(path) : KeptHop(path[i], walk[i], at[i - 1], at[i])

ArrivalsKept ==
    \A a \in arrivals :
        /\ Len(a.path) \in Nat
        /\ Kept(a.path, PortTarget(DriverPort[a.driver]),
                PortTarget(SinkPort[a.sink]))

\* Nothing that is due has been passed over.
ArrivalsAhead ==
    \A a \in arrivals :
        a.due \in Nat /\ a.due >= tick /\ (stage = "commit" => a.due > tick)

SlotsRouted == DOMAIN slot \subseteq DOMAIN routes

Served(p) ==
    \/ p \in DOMAIN slot /\ slot[p] = driver[p[1]]
    \/ \E a \in arrivals :
          /\ a.driver = p[1] /\ a.sink = p[2] /\ a.sample = driver[p[1]]
          /\ a.path = routes[p].stamps
          /\ a.due <= tick + routes[p].delay
LiveRoutes ==
    {p \in DOMAIN routes : p[1] \in DOMAIN driver /\ p[2] \in DOMAIN sink}
AllServed == \A p \in LiveRoutes : Served(p)

SinksFollow ==
    \A s \in DOMAIN sink :
        /\ stage = "commit" => ~sink[s].dirty
        /\ ~sink[s].dirty => sink[s].level = resolve_drive(slot, s)

Delivery ==
    /\ BoundToLive /\ RoutesCurrent /\ RoutesTyped /\ ArrivalsKept
    /\ ArrivalsAhead /\ SlotsRouted /\ AllServed /\ SinksFollow

-----------------------------------------------------------------------------
(* What a step may do to a wire: it never comes back, its generation only  *)
(* grows, and what is neither dirty nor of a new generation has not moved. *)

WireStep(w) ==
    wires[w].state # "absent" =>
        /\ wires'[w].state # "absent"
        /\ wires[w].generation <= wires'[w].generation
        /\ /\ wires'[w].state = "live" /\ w \notin dirty_wires'
           /\ wires'[w].generation = wires[w].generation
           => /\ wires[w].state = "live" /\ w \notin dirty_wires
              /\ wires'[w].A = wires[w].A /\ wires'[w].B = wires[w].B

\* A wire whose record and marking stay makes a harmless step.
LEMMA StillStep ==
  ASSUME Typed, NEW w \in Wires, wires'[w] = wires[w],
         w \in dirty_wires => w \in dirty_wires'
  PROVE  WireStep(w)
<1>1. wires[w].generation \in Nat
  BY DEF Typed, StructureTyped
<1> QED BY <1>1 DEF WireStep

\* Loosening the ends bound to removed targets marks the wires it moves.
LEMMA DetachedStep ==
  ASSUME Typed, NEW w \in Wires, NEW targets,
         wires'[w] = Detached(w, targets),
         dirty_wires' = dirty_wires \cup Incident(targets)
  PROVE  WireStep(w)
<1>1. wires[w] \in WireRecord
  BY DEF Typed, StructureTyped, WireRecord
<1>2. /\ wires'[w].state = wires[w].state
      /\ wires'[w].generation = wires[w].generation
      /\ wires'[w].A = IF wires[w].A \in targets THEN Free ELSE wires[w].A
      /\ wires'[w].B = IF wires[w].B \in targets THEN Free ELSE wires[w].B
  BY <1>1 DEF Detached, WireRecord
<1>3. wires[w].generation \in Nat
  BY <1>1 DEF WireRecord
<1>4. CASE w \in Incident(targets)
  BY <1>2, <1>3, <1>4 DEF WireStep
<1>5. CASE w \notin Incident(targets) /\ wires[w].state = "live"
  <2>1. wires[w].A \notin targets /\ wires[w].B \notin targets
    BY <1>5 DEF Incident, LiveWires
  <2> QED BY <1>2, <1>3, <2>1 DEF WireStep
<1>6. CASE wires[w].state # "live"
  BY <1>2, <1>3, <1>6 DEF WireStep
<1> QED BY <1>4, <1>5, <1>6

\* A new generation is given exactly to the marked wires that live.
LEMMA AdvancedStep ==
  ASSUME Typed, NEW w \in Wires, AdvanceGenerations
  PROVE  WireStep(w)
<1>1. wires[w] \in WireRecord /\ DOMAIN wires = Wires
  BY DEF Typed, StructureTyped, WireRecord
<1>2. wires'[w] = IF w \in dirty_wires /\ wires[w].state = "live"
                  THEN [wires[w] EXCEPT !.generation = @ + 1] ELSE wires[w]
  BY <1>1 DEF AdvanceGenerations, Advance
<1>3. CASE w \in dirty_wires /\ wires[w].state = "live"
  <2>1. /\ wires'[w].state = wires[w].state
        /\ wires'[w].generation = wires[w].generation + 1
        /\ wires[w].generation \in Nat
    BY <1>1, <1>2, <1>3 DEF WireRecord
  <2> QED BY <2>1 DEF WireStep
<1>4. CASE ~(w \in dirty_wires /\ wires[w].state = "live")
  <2>1. wires'[w] = wires[w] /\ wires[w].generation \in Nat
    BY <1>1, <1>2, <1>4 DEF WireRecord
  <2> QED BY <1>4, <2>1 DEF WireStep
<1> QED BY <1>3, <1>4

\* Every step makes a harmless step of every wire.
LEMMA WireSteps ==
  ASSUME Typed, [Next]_vars, NEW w \in Wires
  PROVE  WireStep(w)
<1>1. CASE UNCHANGED <<wires, dirty_wires>>
  BY <1>1, StillStep
<1>2. ASSUME NEW g \in Gates, RemoveGate(g) PROVE WireStep(w)
  BY <1>2, DetachedStep DEF RemoveGate
<1>3. ASSUME NEW j \in Junctions, RemoveJunction(j) PROVE WireStep(w)
  BY <1>3, DetachedStep DEF RemoveJunction
<1>4. ASSUME NEW v \in Wires, RemoveWire(v) PROVE WireStep(w)
  <2>1. CASE v # w
    BY <1>4, <2>1, StillStep DEF RemoveWire, Typed, StructureTyped
  <2>2. CASE v = w
    <3>1. wires[w] \in WireRecord /\ wires'[w] = [wires[w] EXCEPT !.state = "removed"]
      BY <1>4, <2>2 DEF RemoveWire, Typed, StructureTyped, WireRecord
    <3>2. wires'[w].state = "removed" /\ wires'[w].generation = wires[w].generation
          /\ wires[w].generation \in Nat
      BY <3>1 DEF WireRecord
    <3> QED BY <3>2 DEF WireStep
  <2> QED BY <2>1, <2>2
<1>5. ASSUME NEW v \in Wires, NEW a, NEW b, PlaceWire(v, a, b)
      PROVE  WireStep(w)
  <2>1. CASE v # w
    BY <1>5, <2>1, StillStep DEF PlaceWire, Typed, StructureTyped
  <2>2. CASE v = w
    BY <1>5, <2>2 DEF PlaceWire, WireStep
  <2> QED BY <2>1, <2>2
<1>6. ASSUME NEW v \in Wires, NEW e \in Ends, NEW t, BindPort(v, e, t)
      PROVE  WireStep(w)
  <2>1. CASE v # w
    <3>1. wires'[w] = wires[w]
      BY <1>6, <2>1 DEF BindPort, Typed, StructureTyped
    <3> QED BY <1>6, <3>1, StillStep DEF BindPort
  <2>2. CASE v = w
    <3>1. /\ wires[w] \in WireRecord /\ w \in dirty_wires'
          /\ wires'[w] = [wires[w] EXCEPT ![e] = t]
      BY <1>6, <2>2 DEF BindPort, Typed, StructureTyped, WireRecord
    <3>2. wires'[w].state = wires[w].state
          /\ wires'[w].generation = wires[w].generation
          /\ wires[w].generation \in Nat
      BY <3>1 DEF WireRecord, Ends
    <3> QED BY <3>1, <3>2 DEF WireStep
  <2> QED BY <2>1, <2>2
<1>7. CASE EndDestruction \/ CompileTopology
  BY <1>7, AdvancedStep DEF EndDestruction, CompileTopology
<1>8. \/ UNCHANGED <<wires, dirty_wires>>
      \/ EndDestruction \/ CompileTopology
      \/ \E g \in Gates : RemoveGate(g)
      \/ \E j \in Junctions : RemoveJunction(j)
      \/ \E v \in Wires :
            \/ RemoveWire(v)
            \/ \E a \in Reach[v]["A"], b \in Reach[v]["B"] : PlaceWire(v, a, b)
            \/ \E e \in Ends : \E t \in Reach[v][e] : BindPort(v, e, t)
  BY DEF Next, Structural, PlaceGate, PlaceJunction, DriveOutputs,
         ApplyArrivals, CommitTick, structure, vars
<1> QED BY <1>1, <1>2, <1>3, <1>4, <1>5, <1>6, <1>7, <1>8

-----------------------------------------------------------------------------
(* Wires stay bound to live junctions.                                     *)

\* An end that stays or comes loose cannot break it, if no junction goes.
LEMMA LooseningKeepsBound ==
  ASSUME Typed, BoundToLive,
         \A w \in Wires, e \in Ends :
            wires'[w].state = "live" =>
                \/ wires'[w][e] = Free
                \/ wires[w].state = "live" /\ wires'[w][e] = wires[w][e],
         \A j \in Junctions :
            junctions[j].state = "live" => junctions'[j].state = "live"
  PROVE  BoundToLive'
<1>1. \A j \in Junctions : Free # JunctionTarget(j)
  BY DEF Free, JunctionTarget
<1> QED BY <1>1 DEF BoundToLive, LiveWires

\* What becomes of a wire when targets are removed.
LEMMA DetachedEnds ==
  ASSUME Typed, NEW w \in Wires, NEW e \in Ends, NEW targets
  PROVE  /\ Detached(w, targets).state = wires[w].state
         /\ Detached(w, targets)[e] = IF wires[w][e] \in targets THEN Free
                                      ELSE wires[w][e]
<1>1. wires[w] \in WireRecord
  BY DEF Typed, StructureTyped, WireRecord
<1> QED BY <1>1 DEF Detached, WireRecord, Ends

\* Advancing generations moves no end and removes nothing.
LEMMA AdvancedEnds ==
  ASSUME Typed, AdvanceGenerations
  PROVE  /\ \A w \in Wires, e \in Ends :
               wires'[w].state = wires[w].state /\ wires'[w][e] = wires[w][e]
         /\ \A j \in Junctions : junctions'[j].state = junctions[j].state
<1>1. wires \in [Wires -> WireRecord]
      /\ junctions \in [Junctions -> [state : Lifecycle, generation : Nat]]
  BY DEF Typed, StructureTyped, WireRecord
<1>2. ASSUME NEW w \in Wires, NEW e \in Ends
      PROVE  wires'[w].state = wires[w].state /\ wires'[w][e] = wires[w][e]
  <2>1. wires'[w] = IF w \in dirty_wires /\ wires[w].state = "live"
                    THEN [wires[w] EXCEPT !.generation = @ + 1] ELSE wires[w]
    BY <1>1 DEF AdvanceGenerations, Advance
  <2>2. wires[w] \in WireRecord
    BY <1>1
  <2> QED BY <2>1, <2>2 DEF WireRecord, Ends
<1>3. ASSUME NEW j \in Junctions
      PROVE  junctions'[j].state = junctions[j].state
  <2>1. junctions'[j] = IF j \in dirty_junctions /\ junctions[j].state = "live"
                        THEN [junctions[j] EXCEPT !.generation = @ + 1]
                        ELSE junctions[j]
    BY <1>1 DEF AdvanceGenerations, Advance
  <2>2. junctions[j] \in [state : Lifecycle, generation : Nat]
    BY <1>1
  <2> QED BY <2>1, <2>2
<1> QED BY <1>2, <1>3

\* What an end can be bound to is there.
LEMMA BindableIsLive ==
  ASSUME NEW w, NEW e, NEW target, Bindable(w, e, target),
         NEW j \in Junctions, target = JunctionTarget(j)
  PROVE  junctions[j].state = "live"
BY DEF Bindable, mark_target_junctions

\* No step leaves a wire bound to a junction that is gone.
LEMMA BoundToLiveKept ==
  ASSUME Typed, BoundToLive, [Next]_vars
  PROVE  BoundToLive'
<1>1. CASE UNCHANGED wires /\ UNCHANGED junctions
  BY <1>1 DEF BoundToLive
<1>2. ASSUME NEW j \in Junctions, PlaceJunction(j) PROVE BoundToLive'
  <2>1. \A k \in Junctions :
           junctions[k].state = "live" => junctions'[k].state = "live"
    BY <1>2 DEF PlaceJunction, Typed, StructureTyped
  <2>2. UNCHANGED wires
    BY <1>2 DEF PlaceJunction
  <2> QED BY <2>1, <2>2 DEF BoundToLive
<1>3. ASSUME NEW v \in Wires, NEW a, NEW b, PlaceWire(v, a, b)
      PROVE  BoundToLive'
  <2>1. /\ Bindable(v, "A", a) /\ Bindable(v, "B", b) /\ UNCHANGED junctions
        /\ wires' = [wires EXCEPT ![v] = [state |-> "live", A |-> a, B |-> b,
                                          generation |-> 0]]
    BY <1>3 DEF PlaceWire
  <2>2. SUFFICES ASSUME NEW w \in Wires, NEW e \in Ends, NEW j \in Junctions,
                        wires'[w].state = "live",
                        wires'[w][e] = JunctionTarget(j)
                 PROVE  junctions[j].state = "live"
    BY <2>1 DEF BoundToLive, LiveWires
  <2>3. CASE w = v
    <3>1. wires'[v].A = a /\ wires'[v].B = b
      BY <2>1 DEF Typed, StructureTyped
    <3> QED BY <2>1, <2>2, <2>3, <3>1, BindableIsLive DEF Ends
  <2>4. CASE w # v
    <3>1. wires'[w] = wires[w]
      BY <2>1, <2>4 DEF Typed, StructureTyped
    <3> QED BY <2>2, <3>1 DEF BoundToLive, LiveWires
  <2> QED BY <2>3, <2>4
<1>4. ASSUME NEW v \in Wires, NEW f \in Ends, NEW t, BindPort(v, f, t)
      PROVE  BoundToLive'
  <2>1. /\ wires[v].state = "live" /\ Bindable(v, f, t) /\ UNCHANGED junctions
        /\ wires' = [wires EXCEPT ![v][f] = t]
    BY <1>4 DEF BindPort
  <2>2. SUFFICES ASSUME NEW w \in Wires, NEW e \in Ends, NEW j \in Junctions,
                        wires'[w].state = "live",
                        wires'[w][e] = JunctionTarget(j)
                 PROVE  junctions[j].state = "live"
    BY <2>1 DEF BoundToLive, LiveWires
  <2>3. wires[w].state = "live" /\ (w # v \/ e # f => wires'[w][e] = wires[w][e])
        /\ (w = v /\ e = f => wires'[w][e] = t)
    <3>1. wires[w] \in WireRecord /\ wires \in [Wires -> WireRecord]
      BY DEF Typed, StructureTyped, WireRecord
    <3>2. CASE w # v
      BY <2>1, <2>2, <3>1, <3>2
    <3>3. CASE w = v
      <4>1. wires'[w] = [wires[w] EXCEPT ![f] = t]
        BY <2>1, <3>1, <3>3
      <4> QED BY <2>1, <3>1, <3>3, <4>1 DEF WireRecord, Ends
    <3> QED BY <3>2, <3>3
  <2>4. CASE w = v /\ e = f
    BY <2>1, <2>2, <2>3, <2>4, BindableIsLive
  <2>5. CASE ~(w = v /\ e = f)
    BY <2>2, <2>3, <2>5 DEF BoundToLive, LiveWires
  <2> QED BY <2>4, <2>5
<1>5. ASSUME NEW g \in Gates, RemoveGate(g) PROVE BoundToLive'
  BY <1>5, DetachedEnds, LooseningKeepsBound DEF RemoveGate
<1>6. ASSUME NEW v \in Wires, RemoveWire(v) PROVE BoundToLive'
  <2>1. ASSUME NEW w \in Wires, NEW e \in Ends, wires'[w].state = "live"
        PROVE  wires[w].state = "live" /\ wires'[w][e] = wires[w][e]
    <3>1. wires' = [wires EXCEPT ![v].state = "removed"]
      BY <1>6 DEF RemoveWire
    <3>2. w # v
      BY <2>1, <3>1 DEF Typed, StructureTyped
    <3> QED BY <2>1, <3>1, <3>2 DEF Typed, StructureTyped
  <2>2. UNCHANGED junctions
    BY <1>6 DEF RemoveWire
  <2> QED BY <2>1, <2>2, LooseningKeepsBound
<1>7. ASSUME NEW j \in Junctions, RemoveJunction(j) PROVE BoundToLive'
  <2>1. /\ junctions' = [junctions EXCEPT ![j].state = "removed"]
        /\ wires' = [w \in Wires |-> Detached(w, {JunctionTarget(j)})]
    BY <1>7 DEF RemoveJunction
  <2>2. SUFFICES ASSUME NEW w \in Wires, NEW e \in Ends, NEW k \in Junctions,
                        wires'[w].state = "live",
                        wires'[w][e] = JunctionTarget(k)
                 PROVE  junctions'[k].state = "live"
    BY DEF BoundToLive, LiveWires
  <2>3. /\ wires[w].state = "live"
        /\ wires'[w][e] = IF wires[w][e] \in {JunctionTarget(j)} THEN Free
                          ELSE wires[w][e]
    BY <2>1, <2>2, DetachedEnds
  <2>4. Free # JunctionTarget(k)
    BY DEF Free, JunctionTarget
  <2>5. wires[w][e] = JunctionTarget(k) /\ k # j
    BY <2>2, <2>3, <2>4
  <2>6. junctions[k].state = "live"
    BY <2>3, <2>5 DEF BoundToLive, LiveWires
  <2> QED BY <2>1, <2>5, <2>6 DEF Typed, StructureTyped
<1>8. CASE EndDestruction \/ CompileTopology
  <2>1. AdvanceGenerations
    BY <1>8 DEF EndDestruction, CompileTopology
  <2> QED BY <2>1, AdvancedEnds, LooseningKeepsBound
<1>9. \/ UNCHANGED wires /\ UNCHANGED junctions
      \/ EndDestruction \/ CompileTopology
      \/ \E g \in Gates : RemoveGate(g)
      \/ \E j \in Junctions : PlaceJunction(j) \/ RemoveJunction(j)
      \/ \E v \in Wires :
            \/ RemoveWire(v)
            \/ \E a \in Reach[v]["A"], b \in Reach[v]["B"] : PlaceWire(v, a, b)
            \/ \E e \in Ends : \E t \in Reach[v][e] : BindPort(v, e, t)
  BY DEF Next, Structural, PlaceGate, DriveOutputs,
         ApplyArrivals, CommitTick, structure, vars
<1> QED BY <1>1, <1>2, <1>3, <1>4, <1>5, <1>6, <1>7, <1>8, <1>9

-----------------------------------------------------------------------------
(* The routes are those of the network until it is edited.                 *)

\* With nothing dirty a batch leaves the network as it was.
LEMMA NothingDirty ==
  ASSUME Typed, AdvanceGenerations, dirty_wires = {}, dirty_junctions = {}
  PROVE  wires' = wires /\ junctions' = junctions
<1>1. wires = [w \in DOMAIN wires |-> wires[w]]
      /\ junctions = [j \in DOMAIN junctions |-> junctions[j]]
  BY DEF Typed, StructureTyped
<1> QED BY <1>1 DEF AdvanceGenerations, Advance

\* Every edit announces itself, and every compilation catches up with them.
LEMMA RoutesCurrentKept ==
  ASSUME IInv, RoutesCurrent, [Next]_vars
  PROVE  RoutesCurrent'
<1>1. CASE Structural
  <2>1. topology_changed' = TRUE /\ stage \in {"destruction", "commands"}
        /\ stage' = stage
    BY <1>1 DEF Structural, PlaceGate, RemoveGate, PlaceJunction,
                RemoveJunction, PlaceWire, BindPort, RemoveWire, Edit, Clock
  <2> QED BY <2>1 DEF RoutesCurrent
<1>2. CASE EndDestruction
  <2>1. UNCHANGED <<topology_changed, routes, driver, sink>>
        /\ stage' = "commands" /\ dirty_wires' = {} /\ dirty_junctions' = {}
        /\ AdvanceGenerations
    BY <1>2 DEF EndDestruction, AdvanceGenerations, Signals
  <2>2. CASE ~topology_changed
    <3>1. wires' = wires /\ junctions' = junctions
      BY <2>1, <2>2, NothingDirty DEF RoutesCurrent, IInv
    <3> QED BY <2>1, <2>2, <3>1 DEF RoutesCurrent, Current
  <2>3. CASE topology_changed
    BY <2>1, <2>3 DEF RoutesCurrent
  <2> QED BY <2>2, <2>3 DEF IInv, Typed, StructureTyped
<1>3. CASE CompileTopology
  <2>1. /\ topology_changed' = FALSE /\ dirty_wires' = {} /\ dirty_junctions' = {}
        /\ routes' = compile(wires', junctions', DOMAIN driver, DOMAIN sink)
        /\ driver' = driver
    BY <1>3 DEF CompileTopology, AdvanceGenerations
  <2>2. DOMAIN sink' = DOMAIN sink
    BY <1>3 DEF CompileTopology, apply_route_diff
  <2> QED BY <2>1, <2>2 DEF RoutesCurrent, Current
<1>4. CASE \E changed \in SUBSET DOMAIN driver :
              \E output \in [changed -> Outputs] : DriveOutputs(changed, output)
  <2>1. /\ UNCHANGED <<structure, routes, sink>> /\ DOMAIN driver' = DOMAIN driver
        /\ stage = "drivers" /\ stage' = "arrivals"
    BY <1>4 DEF DriveOutputs
  <2> QED BY <2>1 DEF RoutesCurrent, Current, structure
<1>5. CASE ApplyArrivals
  <2>1. /\ UNCHANGED <<structure, routes, driver>> /\ DOMAIN sink' = DOMAIN sink
        /\ stage = "arrivals" /\ stage' = "commit"
    BY <1>5 DEF ApplyArrivals
  <2> QED BY <2>1 DEF RoutesCurrent, Current, structure
<1>6. CASE CommitTick
  BY <1>6 DEF CommitTick, RoutesCurrent, Current, structure, Signals
<1>7. CASE UNCHANGED vars
  BY <1>7 DEF vars, RoutesCurrent, Current, structure
<1> QED BY <1>1, <1>2, <1>3, <1>4, <1>5, <1>6, <1>7 DEF Next

-----------------------------------------------------------------------------
(* Routes are typed, and what is sent along one is kept to it.             *)

\* A gate that was placed is never unplaced.
LEMMA GatesStayPlaced ==
  ASSUME Typed, [Next]_vars, NEW g \in Gates, gates[g] # "absent"
  PROVE  gates'[g] # "absent"
<1>1. \/ UNCHANGED gates
      \/ \E h \in Gates : gates' = [gates EXCEPT ![h] = "live"]
      \/ \E h \in Gates : gates' = [gates EXCEPT ![h] = "removed"]
  BY DEF Next, Structural, PlaceGate, RemoveGate, PlaceJunction,
         RemoveJunction, PlaceWire, BindPort, RemoveWire, EndDestruction,
         CompileTopology, DriveOutputs, ApplyArrivals, CommitTick, structure,
         vars
<1> QED BY <1>1 DEF Typed, StructureTyped

\* A live sink belongs to a live gate.
LEMMA LiveReceivers ==
  ASSUME Typed, NEW s \in DOMAIN sink
  PROVE  s \in Sinks /\ gates[PortGate[SinkPort[s]]] = "live"
BY DEF Typed, SignalsTyped, LiveGates, SinksOf

\* Compiled routes take time and join endpoints of live gates.
LEMMA RoutesTypedKept ==
  ASSUME IInv, IInv', RoutesTyped, [Next]_vars
  PROVE  RoutesTyped'
<1>1. CASE CompileTopology
  <2>1. /\ routes' = compile(wires', junctions', DOMAIN driver, DOMAIN sink)
        /\ UNCHANGED gates
    BY <1>1 DEF CompileTopology
  <2>2. wires' \in [Wires -> WireRecord]
    BY DEF IInv, Typed, StructureTyped, WireRecord
  <2>3. ASSUME NEW p \in DOMAIN routes'
        PROVE  /\ routes'[p].delay \in Nat
               /\ gates[Owner(p[1])] # "absent"
               /\ gates[PortGate[SinkPort[p[2]]]] # "absent"
    <3>1. routes'[p].delay \in Nat
      BY <2>1, <2>2, CompiledRoute
    <3>2. p[1] \in DOMAIN driver /\ p[2] \in DOMAIN sink
      BY <2>1, CompiledPairs
    <3> QED BY <3>1, <3>2, LiveSenders, LiveReceivers DEF IInv
  <2> QED BY <2>1, <2>3 DEF RoutesTyped
<1>2. CASE UNCHANGED routes
  <2>1. \A p \in DOMAIN routes : /\ Owner(p[1]) \in Gates
                                 /\ PortGate[SinkPort[p[2]]] \in Gates
    BY EndpointsOwned, DeliveryAssumption, TopologyAssumption
       DEF IInv, Typed, SignalsTyped
  <2> QED BY <1>2, <2>1, GatesStayPlaced DEF RoutesTyped, IInv
<1>3. CompileTopology \/ UNCHANGED routes
  BY DEF Next, Structural, PlaceGate, RemoveGate, PlaceJunction,
         RemoveJunction, PlaceWire, BindPort, RemoveWire, EndDestruction,
         DriveOutputs, ApplyArrivals, CommitTick, structure,
         vars, Signals
<1> QED BY <1>1, <1>2, <1>3

\* An edge leads between the nodes at the two ends of its wire.
LEMMA EdgeEnds ==
  ASSUME NEW ws, NEW vs, NEW edge, edge[2] \in Ends,
         ws[edge[1]].A = vs[edge[1]].A, ws[edge[1]].B = vs[edge[1]].B,
         ws[edge[1]].A = ws[edge[1]]["A"], ws[edge[1]].B = ws[edge[1]]["B"],
         vs[edge[1]].A = vs[edge[1]]["A"], vs[edge[1]].B = vs[edge[1]]["B"]
  PROVE  From(ws, edge) = From(vs, edge) /\ To(ws, edge) = To(vs, edge)
<1>1. (CHOOSE end \in Ends : end # edge[2]) \in Ends
  <2>1. \E end \in Ends : end # edge[2]
    BY DEF Ends
  <2> QED BY <2>1
<1>2. \A end \in Ends : NodeAt(ws, edge[1], end) = NodeAt(vs, edge[1], end)
  BY DEF Ends, NodeAt
<1> QED BY <1>1, <1>2 DEF From, To

\* A hop is kept by every step.
LEMMA HopKept ==
  ASSUME Typed, Typed', [Next]_vars, NEW hop, NEW edge \in Wires \X Ends,
         NEW from, NEW to, KeptHop(hop, edge, from, to)
  PROVE  KeptHop(hop, edge, from, to)'
<1> DEFINE w == edge[1]
<1>1. w \in Wires /\ edge[2] \in Ends
  OBVIOUS
<1>2. PICK stamp \in hop :
         /\ stamp[1] = w /\ stamp[2] \in Nat
         /\ wires[w].state # "absent" /\ stamp[2] <= wires[w].generation
         /\ /\ wires[w].state = "live" /\ w \notin dirty_wires
            /\ wires[w].generation = stamp[2]
            => From(wires, edge) = from /\ To(wires, edge) = to
  BY DEF KeptHop
<1>3. WireStep(w)
  BY <1>1, WireSteps
<1>4. wires[w] \in WireRecord /\ wires'[w] \in WireRecord
  BY <1>1 DEF Typed, StructureTyped, WireRecord
<1>5. wires[w].generation \in Nat /\ wires'[w].generation \in Nat
  BY <1>4 DEF WireRecord
<1>6. wires'[w].state # "absent" /\ stamp[2] <= wires'[w].generation
  BY <1>2, <1>3, <1>5 DEF WireStep
<1>7. ASSUME wires'[w].state = "live", w \notin dirty_wires',
             wires'[w].generation = stamp[2]
      PROVE  From(wires', edge) = from /\ To(wires', edge) = to
  <2>1. wires'[w].generation = wires[w].generation
    BY <1>2, <1>3, <1>5, <1>7 DEF WireStep
  <2>2. /\ wires[w].state = "live" /\ w \notin dirty_wires
        /\ wires'[w].A = wires[w].A /\ wires'[w].B = wires[w].B
    BY <1>2, <1>3, <1>7, <2>1 DEF WireStep
  <2>3. From(wires, edge) = from /\ To(wires, edge) = to
    BY <1>2, <1>7, <2>1, <2>2
  <2>4. From(wires, edge) = From(wires', edge) /\ To(wires, edge) = To(wires', edge)
    <3> HIDE <1>2, <1>3, <1>7
    <3> QED BY <1>1, <1>4, <2>2, EdgeEnds DEF WireRecord
  <2> QED BY <2>3, <2>4
<1> QED BY <1>2, <1>6, <1>7 DEF KeptHop

\* A path that was kept stays kept.
LEMMA PathKept ==
  ASSUME Typed, Typed', [Next]_vars, NEW path, NEW src, NEW dst,
         Kept(path, src, dst)
  PROVE  Kept(path, src, dst)'
<1>1. PICK walk \in [1..Len(path) -> Wires \X Ends], at \in [0..Len(path) -> Nodes] :
        /\ at[0] = src /\ at[Len(path)] = dst
        /\ \A i, k \in 1..Len(path) : walk[i][1] = walk[k][1] => i = k
        /\ \A i \in 1..Len(path) : KeptHop(path[i], walk[i], at[i - 1], at[i])
  BY DEF Kept
<1>2. \A i \in 1..Len(path) : KeptHop(path[i], walk[i], at[i - 1], at[i])'
  BY <1>1, HopKept
<1> QED BY <1>1, <1>2 DEF Kept

\* The stamped path of a route leads from one node to another.
Followed(ws, path, src, dst) ==
    /\ Len(path) \in Nat
    /\ \E walk \in [1..Len(path) -> Wires \X Ends], at \in [0..Len(path) -> Nodes] :
          /\ at[0] = src /\ at[Len(path)] = dst
          /\ \A i, k \in 1..Len(path) : walk[i][1] = walk[k][1] => i = k
          /\ \A i \in 1..Len(path) :
                /\ <<walk[i][1], ws[walk[i][1]].generation>> \in path[i]
                /\ ws[walk[i][1]].state = "live"
                /\ From(ws, walk[i]) = at[i - 1] /\ To(ws, walk[i]) = at[i]

\* The stamps of a compiled route name the elements of a path that leads
\* from its driver to its sink.
LEMMA CompiledLeads ==
  ASSUME NEW ws \in [Wires -> WireRecord], NEW js,
         NEW D \in SUBSET Drivers, NEW S \in SUBSET Sinks,
         NEW p \in DOMAIN compile(ws, js, D, S)
  PROVE  Followed(ws, compile(ws, js, D, S)[p].stamps, Source(p), Target(p))
<1> DEFINE path == compile(ws, js, D, S)[p].stamps
<1>1. PICK walk \in PathsBetween(ws, Source(p), Target(p)) :
         path = StampsOf(ws, js, walk)
  BY CompiledRoute
<1>2. /\ walk \in Walks(ws) /\ Leads(ws, Source(p), Target(p), walk)
  BY DEF PathsBetween
<1>3. /\ Len(walk) \in Nat /\ walk \in Seq(Edges(ws))
      /\ \A i \in 1..Len(walk) : walk[i] \in Edges(ws)
      /\ \A i, k \in 1..Len(walk) : walk[i][1] = walk[k][1] => i = k
  BY <1>2, WalkTyped
<1> HIDE DEF path
<1>4. Len(path) = Len(walk)
      /\ \A i \in 1..Len(walk) :
            path[i] = {Stamp(ws, js, x) : x \in Elements(Hop(ws, walk[i]))}
  BY <1>1, <1>3 DEF StampsOf
<1> DEFINE at == [i \in 0..Len(walk) |-> NodeAfter(ws, Source(p), walk, i)]
<1>5. ASSUME NEW i \in 1..Len(walk)
      PROVE  /\ walk[i] \in Wires \X Ends
             /\ <<walk[i][1], ws[walk[i][1]].generation>> \in path[i]
             /\ ws[walk[i][1]].state = "live"
             /\ To(ws, walk[i]) \in Nodes
  <2>1. walk[i] \in Edges(ws) /\ walk[i][1] \in Wires
        /\ ws[walk[i][1]].state = "live"
    BY <1>3, EdgeTyped
  <2>2. walk[i][1] \in Elements(Hop(ws, walk[i]))
    BY <2>1, HopTyped
  <2>3. Stamp(ws, js, walk[i][1]) = <<walk[i][1], ws[walk[i][1]].generation>>
    BY <2>1 DEF Stamp, Element
  <2>4. PICK end \in Ends : To(ws, walk[i]) = NodeAt(ws, walk[i][1], end)
    BY <2>1, EdgeTyped
  <2>5. ws[walk[i][1]][end] \in EndpointTargets
    BY <2>1 DEF WireRecord, Ends
  <2>6. To(ws, walk[i]) \in Nodes
    BY <2>1, <2>4, <2>5 DEF NodeAt, signal_node_for_endpoint, Nodes
  <2>7. walk[i] \in Wires \X Ends
    BY <2>1 DEF Edges, LiveWires
  <2> QED BY <1>4, <2>1, <2>2, <2>3, <2>6, <2>7
<1>6. Source(p) \in Nodes
  <2>1. p[1] \in Drivers
    BY CompiledPairs
  <2> QED BY <2>1, TopologyAssumption DEF Source, Nodes, EndpointTargets
<1>7. at \in [0..Len(walk) -> Nodes]
  <2>1. \A i \in 0..Len(walk) : i = 0 \/ i \in 1..Len(walk)
    BY <1>3
  <2> QED BY <1>5, <1>6, <2>1 DEF NodeAfter
<1>8. at[0] = Source(p) /\ at[Len(walk)] = Target(p)
  BY <1>2, <1>3 DEF Leads, NodeAfter
<1>9. \A i \in 1..Len(walk) : From(ws, walk[i]) = at[i - 1]
                              /\ To(ws, walk[i]) = at[i]
  <2>1. \A i \in 1..Len(walk) :
           From(ws, walk[i]) = NodeAfter(ws, Source(p), walk, i - 1)
    BY <1>2 DEF Leads
  <2>2. \A i \in 1..Len(walk) : i \in 0..Len(walk) /\ i - 1 \in 0..Len(walk) /\ i # 0
    BY <1>3
  <2> QED BY <2>1, <2>2 DEF NodeAfter
<1>10. walk \in [1..Len(walk) -> Wires \X Ends]
  <2>1. walk = [i \in 1..Len(walk) |-> walk[i]]
    BY <1>3
  <2> QED BY <1>5, <2>1
<1> HIDE DEF at
<1>11. \A i \in 1..Len(walk) :
          /\ <<walk[i][1], ws[walk[i][1]].generation>> \in path[i]
          /\ ws[walk[i][1]].state = "live"
          /\ From(ws, walk[i]) = at[i - 1] /\ To(ws, walk[i]) = at[i]
  BY <1>5, <1>9
<1>12. \A i, k \in 1..Len(walk) : walk[i][1] = walk[k][1] => i = k
  BY <1>3
<1>13. Len(path) = Len(walk) /\ Len(path) \in Nat
  BY <1>3, <1>4
<1>14. walk \in [1..Len(path) -> Wires \X Ends] /\ at \in [0..Len(path) -> Nodes]
  BY <1>7, <1>10, <1>13
<1>15. /\ at[0] = Source(p) /\ at[Len(path)] = Target(p)
       /\ \A i, k \in 1..Len(path) : walk[i][1] = walk[k][1] => i = k
       /\ \A i \in 1..Len(path) :
             /\ <<walk[i][1], ws[walk[i][1]].generation>> \in path[i]
             /\ ws[walk[i][1]].state = "live"
             /\ From(ws, walk[i]) = at[i - 1] /\ To(ws, walk[i]) = at[i]
  BY <1>8, <1>11, <1>12, <1>13
<1> HIDE DEF path
<1>16. Followed(ws, path, Source(p), Target(p))
  BY <1>13, <1>14, <1>15 DEF Followed
<1> QED BY <1>16 DEF path

-----------------------------------------------------------------------------
(* What a step sends.                                                      *)

\* An arrival that was not there before goes along a current route.
LEMMA NewArrival ==
  ASSUME IInv, RoutesCurrent, RoutesCurrent', [Next]_vars,
         NEW a \in arrivals', a \notin arrivals
  PROVE  /\ stage' # "commit" /\ tick' = tick /\ routes' = Current'
         /\ \E p \in DOMAIN routes' :
               /\ a.driver = p[1] /\ a.sink = p[2]
               /\ a.path = routes'[p].stamps
               /\ a.due = tick + routes'[p].delay
<1>1. CompileTopology \/ \E changed \in SUBSET DOMAIN driver :
          \E output \in [changed -> Outputs] : DriveOutputs(changed, output)
  BY DEF Next, Structural, PlaceGate, RemoveGate, PlaceJunction,
         RemoveJunction, PlaceWire, BindPort, RemoveWire, EndDestruction,
         ApplyArrivals, CommitTick, structure, vars, Signals
<1>2. CASE CompileTopology
  <2>1. topology_changed /\ apply_route_diff(routes') /\ tick' = tick
        /\ stage' = "drivers"
    BY <1>2 DEF CompileTopology
  <2>2. PICK p \in AddedOrReplaced(routes, routes') : a = SyncArrival(p, routes')
    BY <2>1 DEF apply_route_diff
  <2>3. p \in DOMAIN routes'
    BY DEF AddedOrReplaced
  <2>4. routes' = Current'
    BY <2>1 DEF RoutesCurrent
  <2> QED BY <2>1, <2>2, <2>3, <2>4 DEF SyncArrival
<1>3. ASSUME NEW changed \in SUBSET DOMAIN driver,
             NEW output \in [changed -> Outputs], DriveOutputs(changed, output)
      PROVE  /\ stage' # "commit" /\ tick' = tick /\ routes' = Current'
             /\ \E p \in DOMAIN routes' :
                   /\ a.driver = p[1] /\ a.sink = p[2]
                   /\ a.path = routes'[p].stamps
                   /\ a.due = tick + routes'[p].delay
  <2>1. stage' = "arrivals" /\ tick' = tick /\ routes' = routes
    BY <1>3 DEF DriveOutputs
  <2>2. PICK p \in DOMAIN routes : a = PropagationArrival(p)
    BY <1>3 DEF DriveOutputs
  <2>3. routes' = Current'
    BY <2>1 DEF RoutesCurrent
  <2> QED BY <2>1, <2>2, <2>3 DEF PropagationArrival
<1> QED BY <1>1, <1>2, <1>3

\* What is in flight is kept to the path it was sent along.
LEMMA ArrivalsKeptKept ==
  ASSUME IInv, IInv', RoutesCurrent, RoutesCurrent', ArrivalsKept, [Next]_vars
  PROVE  ArrivalsKept'
<1>1. SUFFICES ASSUME NEW a \in arrivals'
               PROVE  /\ Len(a.path) \in Nat
                      /\ Kept(a.path, PortTarget(DriverPort[a.driver]),
                              PortTarget(SinkPort[a.sink]))'
  BY DEF ArrivalsKept
<1>2. CASE a \in arrivals
  <2>1. Len(a.path) \in Nat
        /\ Kept(a.path, PortTarget(DriverPort[a.driver]),
                PortTarget(SinkPort[a.sink]))
    BY <1>2 DEF ArrivalsKept
  <2> QED BY <2>1, PathKept DEF IInv
<1>3. CASE a \notin arrivals
  <2>1. PICK p \in DOMAIN routes' : /\ a.driver = p[1] /\ a.sink = p[2]
                                    /\ a.path = routes'[p].stamps
    BY <1>3, NewArrival
  <2>2. routes' = compile(wires', junctions', DOMAIN driver', DOMAIN sink')
    BY <1>3, NewArrival DEF Current
  <2>3. /\ wires' \in [Wires -> WireRecord]
        /\ DOMAIN driver' \in SUBSET Drivers /\ DOMAIN sink' \in SUBSET Sinks
    BY EndpointsOwned
       DEF IInv, Typed, StructureTyped, SignalsTyped, WireRecord
  <2>4. Followed(wires', a.path, Source(p), Target(p))
    BY <2>1, <2>2, <2>3, CompiledLeads
  <2>5. PICK walk \in [1..Len(a.path) -> Wires \X Ends],
             at \in [0..Len(a.path) -> Nodes] :
          /\ at[0] = Source(p) /\ at[Len(a.path)] = Target(p)
          /\ \A i, k \in 1..Len(a.path) : walk[i][1] = walk[k][1] => i = k
          /\ \A i \in 1..Len(a.path) :
                /\ <<walk[i][1], wires'[walk[i][1]].generation>> \in a.path[i]
                /\ wires'[walk[i][1]].state = "live"
                /\ From(wires', walk[i]) = at[i - 1]
                /\ To(wires', walk[i]) = at[i]
    BY <2>4 DEF Followed
  <2>6. ASSUME NEW i \in 1..Len(a.path)
        PROVE  KeptHop(a.path[i], walk[i], at[i - 1], at[i])'
    <3> DEFINE w == walk[i][1]
               stamp == <<w, wires'[w].generation>>
    <3>1. w \in Wires /\ stamp \in a.path[i] /\ wires'[w].state = "live"
          /\ From(wires', walk[i]) = at[i - 1] /\ To(wires', walk[i]) = at[i]
      BY <2>5
    <3>2. wires'[w].generation \in Nat
      BY <2>3, <3>1 DEF WireRecord
    <3>3. stamp[1] = w /\ stamp[2] = wires'[w].generation
      OBVIOUS
    <3> HIDE DEF stamp
    <3> QED BY <3>1, <3>2, <3>3 DEF KeptHop
  <2>7. Source(p) = PortTarget(DriverPort[a.driver])
        /\ Target(p) = PortTarget(SinkPort[a.sink])
    BY <2>1 DEF Source, Target
  <2> QED BY <2>4, <2>5, <2>6, <2>7, ZenonT(60) DEF Kept, Followed
<1> QED BY <1>2, <1>3

\* Nothing is sent into the past, and nothing due is passed over.
LEMMA ArrivalsAheadKept ==
  ASSUME IInv, IInv', RoutesCurrent, RoutesCurrent', RoutesTyped',
         ArrivalsAhead, [Next]_vars
  PROVE  ArrivalsAhead'
<1>1. SUFFICES ASSUME NEW a \in arrivals'
               PROVE  /\ a.due \in Nat /\ a.due >= tick'
                      /\ stage' = "commit" => a.due > tick'
  BY DEF ArrivalsAhead
<1>2. tick \in Nat
  BY DEF IInv, Typed
<1>3. CASE a \notin arrivals
  <2>1. stage' # "commit" /\ tick' = tick
        /\ \E p \in DOMAIN routes' : a.due = tick + routes'[p].delay
    BY <1>3, NewArrival
  <2>2. \A p \in DOMAIN routes' : routes'[p].delay \in Nat
    BY DEF RoutesTyped
  <2> QED BY <1>2, <2>1, <2>2
<1>4. CASE a \in arrivals
  <2>1. a.due \in Nat /\ a.due >= tick /\ (stage = "commit" => a.due > tick)
    BY <1>4 DEF ArrivalsAhead
  <2>2. CASE ApplyArrivals
    BY <1>2, <2>1, <2>2 DEF ApplyArrivals, Due
  <2>3. CASE CommitTick
    BY <1>2, <2>1, <2>3 DEF CommitTick
  <2>4. CASE tick' = tick /\ (stage' = "commit" => stage = "commit")
    BY <2>1, <2>4
  <2>5. ApplyArrivals \/ CommitTick
        \/ (tick' = tick /\ (stage' = "commit" => stage = "commit"))
    BY DEF Next, Structural, PlaceGate, RemoveGate, PlaceJunction,
           RemoveJunction, PlaceWire, BindPort, RemoveWire, EndDestruction,
           CompileTopology, DriveOutputs, vars, Clock
  <2> QED BY <2>2, <2>3, <2>4, <2>5
<1> QED BY <1>3, <1>4

-----------------------------------------------------------------------------
(* What arrives belongs to a route.                                        *)

\* The stamps of a compiled route are current.
LEMMA StampsCurrent ==
  ASSUME Typed, BoundToLive, NEW D, NEW S,
         NEW p \in DOMAIN compile(wires, junctions, D, S),
         NEW path, path = compile(wires, junctions, D, S)[p].stamps,
         NEW i \in 1..Len(path), NEW stamp \in path[i]
  PROVE  path_element_is_current(wires, junctions, stamp)
<1>1. wires \in [Wires -> WireRecord]
  BY DEF Typed, StructureTyped, WireRecord
<1>2. PICK walk \in PathsBetween(wires, Source(p), Target(p)) :
         path = StampsOf(wires, junctions, walk)
  BY <1>1, CompiledRoute
<1>3. Len(walk) \in Nat /\ \A k \in 1..Len(walk) : walk[k] \in Edges(wires)
  BY WalkTyped DEF PathsBetween
<1>4. i \in 1..Len(walk)
      /\ path[i] = {Stamp(wires, junctions, x) : x \in Elements(Hop(wires, walk[i]))}
  BY <1>2, <1>3 DEF StampsOf
<1>5. PICK x \in Elements(Hop(wires, walk[i])) : stamp = Stamp(wires, junctions, x)
  BY <1>4
<1>6. walk[i] \in Edges(wires) /\ walk[i][1] \in LiveWires(wires)
  BY <1>3, <1>4, <1>1, EdgeTyped DEF LiveWires
<1>7. stamp[1] = x
  BY <1>5 DEF Stamp
<1>8. CASE x = walk[i][1]
  BY <1>5, <1>6, <1>7, <1>8 DEF path_element_is_current, Element, LiveWires
<1>9. CASE /\ x \in Junctions
           /\ \E end \in Ends : wires[walk[i][1]][end] = JunctionTarget(x)
  <2>1. junctions[x].state = "live" /\ x \notin Wires
    BY <1>6, <1>9, TopologyAssumption DEF BoundToLive
  <2> QED BY <1>5, <1>7, <2>1 DEF path_element_is_current, Element
<1> QED BY <1>1, <1>6, <1>8, <1>9, HopTyped

\* As many distinct wires as a walk has edges are live.
LEMMA WalkFits ==
  ASSUME NEW ws, NEW n \in Nat, NEW walk \in [1..n -> Edges(ws)],
         \A i, k \in 1..n : walk[i][1] = walk[k][1] => i = k
  PROVE  walk \in Walks(ws) /\ Len(walk) = n
<1> DEFINE f == [i \in 1..n |-> walk[i][1]]
<1>1. IsFiniteSet(LiveWires(ws))
  BY FS_Subset, TopologyAssumption DEF LiveWires
<1>2. f \in Injection(1..n, LiveWires(ws))
  <2>1. f \in [1..n -> LiveWires(ws)]
    BY DEF Edges
  <2>2. \A i, k \in DOMAIN f : f[i] = f[k] => i = k
    OBVIOUS
  <2> HIDE DEF f
  <2> QED BY <2>1, <2>2 DEF Injection, IsInjective
<1>3. Cardinality(1..n) = n
  BY FS_Interval
<1>4. n <= Cardinality(LiveWires(ws)) /\ Cardinality(LiveWires(ws)) \in Nat
  <2> HIDE DEF f
  <2> QED BY <1>1, <1>2, <1>3, FS_Injection, FS_CardinalityType
<1>5. n \in 0..Cardinality(LiveWires(ws))
  BY <1>4
<1>6. DOMAIN walk = 1..n /\ Len(walk) = n
  BY DEF Edges
<1> QED BY <1>5, <1>6 DEF Walks

\* An acceptable arrival belongs to a pair the network connects.
LEMMA AcceptableIsRouted ==
  ASSUME IInv, ArrivalsKept, dirty_wires = {},
         NEW b \in arrivals, Acceptable(b)
  PROVE  <<b.driver, b.sink>> \in DOMAIN Current
<1> DEFINE n == Len(b.path)
           src == PortTarget(DriverPort[b.driver])
           dst == PortTarget(SinkPort[b.sink])
<1>1. n \in Nat /\ Kept(b.path, src, dst)
  BY DEF ArrivalsKept
<1>2. PICK walk \in [1..n -> Wires \X Ends], at \in [0..n -> Nodes] :
        /\ at[0] = src /\ at[n] = dst
        /\ \A i, k \in 1..n : walk[i][1] = walk[k][1] => i = k
        /\ \A i \in 1..n : KeptHop(b.path[i], walk[i], at[i - 1], at[i])
  BY <1>1 DEF Kept
<1>3. ASSUME NEW i \in 1..n
      PROVE  /\ walk[i] \in Edges(wires)
             /\ From(wires, walk[i]) = at[i - 1] /\ To(wires, walk[i]) = at[i]
  <2>1. walk[i][1] \in Wires /\ walk[i][2] \in Ends
        /\ walk[i] = <<walk[i][1], walk[i][2]>>
    BY <1>2
  <2>2. PICK stamp \in b.path[i] :
           /\ stamp[1] = walk[i][1]
           /\ /\ wires[walk[i][1]].state = "live"
              /\ wires[walk[i][1]].generation = stamp[2]
              => /\ From(wires, walk[i]) = at[i - 1]
                 /\ To(wires, walk[i]) = at[i]
    BY <1>2 DEF KeptHop
  <2>3. path_element_is_current(wires, junctions, stamp)
    BY <2>2 DEF Acceptable
  <2>4. /\ wires[walk[i][1]].state = "live"
        /\ <<stamp[1], wires[walk[i][1]].generation>> = stamp
    BY <2>1, <2>2, <2>3 DEF path_element_is_current, Element, Stamp
  <2>5. wires[walk[i][1]].generation = stamp[2]
    BY <2>4
  <2>6. walk[i] \in Edges(wires)
    BY <2>1, <2>4 DEF Edges, LiveWires
  <2> QED BY <2>2, <2>4, <2>5, <2>6
<1>4. walk \in Walks(wires) /\ Len(walk) = n
  <2>1. walk \in [1..n -> Edges(wires)]
    BY <1>2, <1>3
  <2> QED BY <1>1, <1>2, <2>1, WalkFits
<1>5. Leads(wires, src, dst, walk)
  <2>1. \A i \in 0..n : NodeAfter(wires, src, walk, i) = at[i]
    <3>1. \A i \in 0..n : i = 0 \/ i \in 1..n
      BY <1>1
    <3> QED BY <1>2, <1>3, <3>1 DEF NodeAfter
  <2>2. \A i \in 1..n : i - 1 \in 0..n
    BY <1>1
  <2>3. n \in 0..n
    BY <1>1
  <2> QED BY <1>2, <1>3, <1>4, <2>1, <2>2, <2>3 DEF Leads
<1>6. walk \in PathsBetween(wires, src, dst)
  BY <1>4, <1>5 DEF PathsBetween
<1>7. b.driver \in DOMAIN driver /\ b.sink \in DOMAIN sink
  BY DEF Acceptable
<1> DEFINE p == <<b.driver, b.sink>>
<1>8. p \in (DOMAIN driver) \X (DOMAIN sink) /\ p[1] = b.driver /\ p[2] = b.sink
  BY <1>7
<1> HIDE DEF p, n
<1> QED BY <1>6, <1>8 DEF Current, compile, p

-----------------------------------------------------------------------------
(* Slots and service.                                                      *)

\* No slot outlives its route: removal takes the slot along, and an arrival
\* is only accepted when its pair has a route.
LEMMA SlotsRoutedKept ==
  ASSUME IInv, RoutesCurrent, ArrivalsKept, SlotsRouted, [Next]_vars
  PROVE  SlotsRouted'
<1>1. CASE ApplyArrivals
  <2>1. stage = "arrivals" /\ DOMAIN slot' = DOMAIN slot \cup Updated
        /\ routes' = routes
    BY <1>1 DEF ApplyArrivals
  <2>2. dirty_wires = {} /\ routes = Current
    BY <2>1 DEF RoutesCurrent
  <2>3. ASSUME NEW p \in Updated PROVE p \in DOMAIN routes
    <3>1. PICK b \in arrivals : Acceptable(b) /\ <<b.driver, b.sink>> = p
      BY DEF Updated, Bucket, Due
    <3>2. <<b.driver, b.sink>> \in DOMAIN Current
      BY <2>2, <3>1, AcceptableIsRouted
    <3> QED BY <2>2, <3>1, <3>2
  <2> QED BY <2>1, <2>3 DEF SlotsRouted
<1>2. CASE CompileTopology
  <2>1. CASE topology_changed
    <3>1. DOMAIN slot' = DOMAIN slot \ (DOMAIN routes \ DOMAIN routes')
      BY <1>2, <2>1 DEF CompileTopology, apply_route_diff, Removed
    <3> QED BY <3>1 DEF SlotsRouted
  <2>2. CASE ~topology_changed
    <3>1. slot' = slot /\ wires' = wires /\ junctions' = junctions
      BY <1>2, <2>2, NothingDirty DEF CompileTopology, RoutesCurrent, IInv
    <3>2. routes' = routes
      BY <1>2, <2>2, <3>1 DEF CompileTopology, RoutesCurrent, Current
    <3> QED BY <3>1, <3>2 DEF SlotsRouted
  <2> QED BY <2>1, <2>2
<1>3. CASE routes' = routes /\ DOMAIN slot' \subseteq DOMAIN slot
  BY <1>3 DEF SlotsRouted
<1>4. ApplyArrivals \/ CompileTopology
      \/ (routes' = routes /\ DOMAIN slot' \subseteq DOMAIN slot)
  BY ZenonT(60) DEF Next, Structural, PlaceGate, RemoveGate, PlaceJunction,
         RemoveJunction, PlaceWire, BindPort, RemoveWire, EndDestruction,
         DriveOutputs, CommitTick, structure, vars, Signals
<1> QED BY <1>1, <1>2, <1>3, <1>4

\* A route is served still if nothing of its service is taken away.
LEMMA ServedStill ==
  ASSUME NEW p, Served(p), UNCHANGED tick, routes'[p] = routes[p],
         driver'[p[1]] = driver[p[1]],
         p \in DOMAIN slot => p \in DOMAIN slot' /\ slot'[p] = slot[p],
         arrivals \subseteq arrivals'
  PROVE  Served(p)'
BY DEF Served

\* Delivering serves the routes as well as the arrivals did.
LEMMA DeliveryServes ==
  ASSUME IInv, BoundToLive, RoutesCurrent, ArrivalsAhead, ApplyArrivals,
         NEW p \in LiveRoutes, Served(p)
  PROVE  Served(p)'
<1> DEFINE d == p[1]
<1>1. /\ UNCHANGED <<tick, routes, driver>> /\ stage = "arrivals"
      /\ DOMAIN slot' = DOMAIN slot \cup Updated
      /\ \A q \in Updated : slot'[q] = Winner(q)
      /\ \A q \in DOMAIN slot \ Updated : slot'[q] = slot[q]
      /\ arrivals' = arrivals \ Due
  BY DEF ApplyArrivals
<1>2. routes = Current
  BY <1>1 DEF RoutesCurrent
<1>3. /\ p \in DOMAIN routes /\ d \in DOMAIN driver /\ p[2] \in DOMAIN sink
      /\ p \in Drivers \X Sinks /\ d \in Drivers /\ p = <<p[1], p[2]>>
  BY DEF LiveRoutes, IInv, Typed, SignalsTyped
<1>4. driver[d] \in Sample /\ driver[d].revision \in Nat /\ driver[d] \in Copies(d)
  BY <1>3, LiveSenders DEF IInv, Sample, Copies
<1>5. /\ \A s, t \in Copies(d) : s.revision = t.revision => s = t
      /\ \A s \in Copies(d) : s.revision <= driver[d].revision
  BY <1>3 DEF IInv, Coherent
<1>6. ASSUME Bucket(p) # {}
      PROVE  /\ Winner(p) \in Copies(d) /\ Winner(p).revision \in Nat
             /\ Winner(p).revision <= driver[d].revision
             /\ \A s \in Bucket(p) : s.revision <= Winner(p).revision
  <2>1. Winner(p) \in Bucket(p) /\ Winner(p) \in Sample
    BY <1>3, <1>6, BucketWinner
  <2>2. Winner(p) \in Copies(d)
    BY <1>3, <1>6, <2>1, BucketWinner DEF Copies
  <2> QED BY <1>3, <1>5, <1>6, <2>1, <2>2, BucketWinner DEF Sample
<1>7. p \in Updated => Bucket(p) # {}
  BY DEF Updated
<1>8. CASE p \in DOMAIN slot /\ slot[p] = driver[d]
  <2>1. p \notin Updated
    <3>1. SUFFICES ASSUME p \in Updated PROVE FALSE
      OBVIOUS
    <3>2. slot[p].revision < Winner(p).revision
      BY <1>8, <3>1 DEF Updated
    <3> QED BY <1>4, <1>6, <1>7, <1>8, <3>1, <3>2
  <2> QED BY <1>1, <1>8, <2>1 DEF Served
<1>9. ASSUME NEW a \in arrivals,
             a.driver = d, a.sink = p[2], a.sample = driver[d],
             a.path = routes[p].stamps, a.due <= tick + routes[p].delay
      PROVE  Served(p)'
  <2>1. CASE a.due # tick
    <3>1. a \in arrivals'
      BY <1>1, <2>1 DEF Due
    <3> QED BY <1>1, <1>9, <3>1 DEF Served
  <2>2. CASE a.due = tick
    <3>1. \A i \in 1..Len(a.path) : \A stamp \in a.path[i] :
             path_element_is_current(wires, junctions, stamp)
      BY <1>2, <1>3, <1>9, StampsCurrent DEF Current, IInv
    <3>2. Acceptable(a)
      BY <1>3, <1>9, <3>1 DEF Acceptable
    <3>3. driver[d] \in Bucket(p)
      BY <1>3, <1>9, <2>2, <3>2 DEF Bucket, Due
    <3>4. Winner(p).revision = driver[d].revision
      BY <1>4, <1>6, <3>3
    <3>5. Winner(p) = driver[d]
      BY <1>4, <1>5, <1>6, <3>3, <3>4
    <3>6. CASE p \in Updated
      BY <1>1, <3>5, <3>6 DEF Served
    <3>7. CASE p \notin Updated
      <4>1. p \in DOMAIN slot /\ ~(slot[p].revision < Winner(p).revision)
        BY <1>3, <3>3, <3>7 DEF Updated
      <4>2. slot[p] \in Copies(d) /\ slot[p] \in Sample
        BY <4>1 DEF Copies, IInv, Typed, SignalsTyped
      <4>3. slot[p].revision = driver[d].revision
        BY <1>4, <1>5, <3>4, <4>1, <4>2 DEF Sample
      <4>4. slot[p] = driver[d]
        BY <1>4, <1>5, <4>2, <4>3
      <4> QED BY <1>1, <3>7, <4>1, <4>4 DEF Served
    <3> QED BY <3>6, <3>7
  <2> QED BY <2>1, <2>2
<1> QED BY <1>8, <1>9 DEF Served

\* Every live route is served after every step: a change is sent at once, a
\* new or changed route is synchronised, and an arrival that is taken or
\* passed over leaves the newest sample in the slot.
LEMMA AllServedKept ==
  ASSUME IInv, IInv', BoundToLive, RoutesCurrent, RoutesTyped, RoutesTyped',
         ArrivalsAhead, AllServed, [Next]_vars
  PROVE  AllServed'
<1> SUFFICES ASSUME NEW p \in LiveRoutes' PROVE Served(p)'
  BY DEF AllServed
<1>1. p \in DOMAIN routes' /\ p[1] \in DOMAIN driver' /\ p[2] \in DOMAIN sink'
  BY DEF LiveRoutes
<1>2. p \in LiveRoutes => Served(p)
  BY DEF AllServed
<1>3. tick \in Nat
  BY DEF IInv, Typed
<1>4. ASSUME NEW g \in Gates, PlaceGate(g) PROVE Served(p)'
  <2>1. /\ gates[g] = "absent" /\ UNCHANGED <<tick, routes, slot, arrivals>>
        /\ \A d \in DOMAIN driver : driver'[d] = driver[d]
        /\ DOMAIN driver' = DOMAIN driver \cup DriversOf({g})
        /\ DOMAIN sink' = DOMAIN sink \cup SinksOf({g})
    BY <1>4 DEF PlaceGate, Clock
  <2>2. p[1] \notin DriversOf({g}) /\ p[2] \notin SinksOf({g})
    BY <1>1, <2>1 DEF RoutesTyped, DriversOf, SinksOf, Owner
  <2>3. p \in LiveRoutes
    BY <1>1, <2>1, <2>2 DEF LiveRoutes
  <2> QED BY <1>2, <2>1, <2>3, ServedStill DEF LiveRoutes
<1>5. ASSUME NEW g \in Gates, RemoveGate(g) PROVE Served(p)'
  <2>1. /\ UNCHANGED <<tick, routes, arrivals>>
        /\ DOMAIN driver' = DOMAIN driver \ DriversOf({g})
        /\ DOMAIN sink' = DOMAIN sink \ SinksOf({g})
        /\ \A d \in DOMAIN driver' : driver'[d] = driver[d]
        /\ slot' = [q \in DOMAIN slot \ SlotsOf(g) |-> slot[q]]
    BY <1>5 DEF RemoveGate, Clock
  <2>2. p \notin SlotsOf(g)
    BY <1>1, <2>1 DEF SlotsOf
  <2>3. p \in LiveRoutes
    BY <1>1, <2>1 DEF LiveRoutes
  <2> QED BY <1>1, <1>2, <2>1, <2>2, <2>3, ServedStill
<1>6. CASE CompileTopology
  <2>1. /\ UNCHANGED <<tick, driver>> /\ DOMAIN sink' = DOMAIN sink
    BY <1>6 DEF CompileTopology, apply_route_diff
  <2>2. CASE topology_changed /\ p \in AddedOrReplaced(routes, routes')
    <3>1. SyncArrival(p, routes') \in arrivals'
      BY <1>6, <2>2 DEF CompileTopology, apply_route_diff
    <3>2. routes'[p].delay \in Nat
      BY <1>1 DEF RoutesTyped
    <3>3. tick + routes'[p].delay <= tick' + routes'[p].delay
      BY <1>3, <2>1, <3>2
    <3> QED BY <2>1, <3>1, <3>3 DEF Served, SyncArrival
  <2>3. CASE topology_changed /\ p \notin AddedOrReplaced(routes, routes')
    <3>1. p \in DOMAIN routes /\ routes'[p] = routes[p]
      BY <1>1, <2>3 DEF AddedOrReplaced
    <3>2. /\ p \in DOMAIN slot => p \in DOMAIN slot' /\ slot'[p] = slot[p]
          /\ arrivals \subseteq arrivals'
      BY <1>1, <1>6, <2>3 DEF CompileTopology, apply_route_diff, Removed
    <3>3. p \in LiveRoutes
      BY <1>1, <2>1, <3>1 DEF LiveRoutes
    <3> QED BY <1>2, <2>1, <3>1, <3>2, <3>3, ServedStill
  <2>4. CASE ~topology_changed
    <3>1. UNCHANGED <<slot, sink, arrivals>> /\ wires' = wires
          /\ junctions' = junctions
      BY <1>6, <2>4, NothingDirty DEF CompileTopology, RoutesCurrent, IInv
    <3>2. routes' = routes
      BY <1>6, <2>4, <3>1 DEF CompileTopology, RoutesCurrent, Current
    <3>3. p \in LiveRoutes
      BY <1>1, <2>1, <3>2 DEF LiveRoutes
    <3> QED BY <1>2, <2>1, <3>1, <3>2, <3>3, ServedStill
  <2> QED BY <2>2, <2>3, <2>4
<1>7. ASSUME NEW changed \in SUBSET DOMAIN driver,
             NEW output \in [changed -> Outputs], DriveOutputs(changed, output)
      PROVE  Served(p)'
  <2>1. /\ UNCHANGED <<tick, routes, sink, slot>> /\ DOMAIN driver' = DOMAIN driver
        /\ \A d \in DOMAIN driver \ changed : driver'[d] = driver[d]
        /\ arrivals \subseteq arrivals'
    BY <1>7 DEF DriveOutputs
  <2>2. p \in LiveRoutes
    BY <1>1, <2>1 DEF LiveRoutes
  <2>3. CASE p[1] \in changed
    <3>1. PropagationArrival(p) \in arrivals'
      BY <1>1, <1>7, <2>1, <2>3 DEF DriveOutputs
    <3>2. routes[p].delay \in Nat
      BY <2>2 DEF RoutesTyped, LiveRoutes
    <3>3. tick + routes[p].delay <= tick' + routes'[p].delay
      BY <1>3, <2>1, <3>2
    <3> QED BY <2>1, <3>1, <3>3 DEF Served, PropagationArrival
  <2>4. CASE p[1] \notin changed
    BY <1>1, <1>2, <2>1, <2>2, <2>4, ServedStill
  <2> QED BY <2>3, <2>4
<1>8. CASE ApplyArrivals
  <2>1. UNCHANGED <<routes, driver>> /\ DOMAIN sink' = DOMAIN sink
    BY <1>8 DEF ApplyArrivals
  <2>2. p \in LiveRoutes
    BY <1>1, <2>1 DEF LiveRoutes
  <2> QED BY <1>2, <1>8, <2>2, DeliveryServes
<1>9. CASE CommitTick
  <2>1. UNCHANGED <<routes, driver, sink, slot, arrivals>> /\ tick' = tick + 1
    BY <1>9 DEF CommitTick, Signals
  <2>2. p \in LiveRoutes
    BY <1>1, <2>1 DEF LiveRoutes
  <2>3. routes[p].delay \in Nat /\ \A a \in arrivals : a.due \in Nat
    BY <2>2 DEF RoutesTyped, LiveRoutes, ArrivalsAhead
  <2>4. \A a \in arrivals : a.due <= tick + routes[p].delay
                              => a.due <= tick' + routes'[p].delay
    BY <1>3, <2>1, <2>3
  <2> QED BY <1>2, <2>1, <2>2, <2>4 DEF Served
<1>10. CASE UNCHANGED <<tick, routes, driver, sink, slot, arrivals>>
  <2>1. p \in LiveRoutes
    BY <1>1, <1>10 DEF LiveRoutes
  <2> QED BY <1>2, <1>10, <2>1, ServedStill
<1>11. UNCHANGED <<tick, routes, driver, sink, slot, arrivals>>
       \/ CompileTopology \/ ApplyArrivals \/ CommitTick
       \/ (\E g \in Gates : PlaceGate(g) \/ RemoveGate(g))
       \/ (\E changed \in SUBSET DOMAIN driver :
              \E output \in [changed -> Outputs] : DriveOutputs(changed, output))
  BY ZenonT(120) DEF Next, Structural, PlaceJunction, RemoveJunction, PlaceWire, BindPort,
         RemoveWire, EndDestruction, vars, Signals, Clock
<1> QED BY <1>4, <1>5, <1>6, <1>7, <1>8, <1>9, <1>10, <1>11

-----------------------------------------------------------------------------
(* Sinks.                                                                  *)

\* The sum over no slots is zero.
LEMMA EmptySum ==
  ASSUME NEW f, DOMAIN f = {}
  PROVE  SumFunction(f) = 0
<1> DEFINE g == [s \in SUBSET {} |-> 0]
<1>1. \A s \in SUBSET {} : s = {}
  OBVIOUS
<1> QED BY <1>1 DEF SumFunction, SumFunctionOnSet, FoldFunctionOnSet, MapThenFoldSet

\* A sink resolves by its own slots only.
LEMMA SameSlotsSameLevel ==
  ASSUME NEW f, NEW g, NEW s,
         \A p : p[2] = s => /\ p \in DOMAIN f <=> p \in DOMAIN g
                            /\ p \in DOMAIN f => f[p] = g[p]
  PROVE  resolve_drive(f, s) = resolve_drive(g, s)
<1>1. ASSUME NEW level PROVE Drive(f, s, level) = Drive(g, s, level)
  <2> DEFINE F == {q \in DOMAIN f : q[2] = s /\ f[q].level = level}
             G == {q \in DOMAIN g : q[2] = s /\ g[q].level = level}
  <2>1. F = G
    OBVIOUS
  <2>2. \A q \in F : f[q].strength = g[q].strength
    OBVIOUS
  <2>3. [p \in F |-> f[p].strength] = [p \in G |-> g[p].strength]
    BY <2>1, <2>2
  <2> QED BY <2>3 DEF Drive
<1> QED BY <1>1 DEF resolve_drive

\* A sink that hears nobody is Low.
LEMMA SilenceIsLow ==
  ASSUME NEW f, NEW s, \A p \in DOMAIN f : p[2] # s
  PROVE  resolve_drive(f, s) = "Low"
<1>1. ASSUME NEW level PROVE Drive(f, s, level) = 0
  <2>1. {q \in DOMAIN f : q[2] = s /\ f[q].level = level} = {}
    OBVIOUS
  <2> QED BY <2>1, EmptySum DEF Drive
<1>2. ~(0 >= LogicThreshold)
  BY DeliveryAssumption
<1> QED BY <1>1, <1>2 DEF resolve_drive

\* The level of every sink that is not marked is that of its slots.
LEMMA SinksFollowKept ==
  ASSUME IInv, IInv', SinksFollow, [Next]_vars
  PROVE  SinksFollow'
<1> SUFFICES ASSUME NEW s \in DOMAIN sink'
             PROVE  /\ stage' = "commit" => ~sink'[s].dirty
                    /\ ~sink'[s].dirty =>
                          sink'[s].level = resolve_drive(slot', s)
  BY DEF SinksFollow
<1>1. \A t \in DOMAIN sink : sink[t] \in [level : Levels, dirty : BOOLEAN]
  BY DEF IInv, Typed, SignalsTyped
<1>2. ASSUME NEW g \in Gates, PlaceGate(g)
      PROVE  /\ stage' # "commit"
             /\ ~sink'[s].dirty => sink'[s].level = resolve_drive(slot', s)
  <2>1. /\ stage' = "commands" /\ slot' = slot
        /\ sink'[s] = IF s \in DOMAIN sink THEN sink[s]
                      ELSE [level |-> "Low", dirty |-> FALSE]
    BY <1>2 DEF PlaceGate, Clock
  <2>2. CASE s \in DOMAIN sink
    BY <2>1, <2>2 DEF SinksFollow
  <2>3. CASE s \notin DOMAIN sink
    <3>1. \A p \in DOMAIN slot : p[2] # s
      BY <2>3 DEF IInv, Typed, SignalsTyped
    <3> QED BY <2>1, <2>3, <3>1, SilenceIsLow
  <2> QED BY <2>1, <2>2, <2>3
<1>3. ASSUME NEW gone, s \in DOMAIN sink, sink'[s] = Marked(s, gone),
             slot' = [p \in DOMAIN slot \ gone |-> slot[p]]
      PROVE  ~sink'[s].dirty => sink'[s].level = resolve_drive(slot', s)
  <2>1. sink[s] \in [level : Levels, dirty : BOOLEAN]
    BY <1>1, <1>3
  <2>2. SUFFICES ASSUME ~sink'[s].dirty
                 PROVE  sink'[s].level = resolve_drive(slot', s)
    OBVIOUS
  <2>3. sink'[s] = [sink[s] EXCEPT !.dirty = @ \/ \E p \in gone : p[2] = s]
    BY <1>3 DEF Marked
  <2>4. sink'[s].level = sink[s].level
    BY <2>1, <2>3
  <2>5. ~sink[s].dirty /\ ~(\E p \in gone : p[2] = s)
    BY <2>1, <2>2, <2>3
  <2>6. \A p : p[2] = s => /\ p \in DOMAIN slot <=> p \in DOMAIN slot'
                           /\ p \in DOMAIN slot => slot[p] = slot'[p]
    BY <1>3, <2>5
  <2>7. resolve_drive(slot, s) = resolve_drive(slot', s)
    BY <2>6, SameSlotsSameLevel
  <2> QED BY <1>3, <2>4, <2>5, <2>7 DEF SinksFollow
<1>4. ASSUME NEW g \in Gates, RemoveGate(g)
      PROVE  /\ stage' # "commit"
             /\ ~sink'[s].dirty => sink'[s].level = resolve_drive(slot', s)
  <2>1. /\ stage' = stage /\ stage # "commit"
        /\ sink' = [t \in DOMAIN sink \ SinksOf({g}) |-> Marked(t, SlotsOf(g))]
        /\ slot' = [p \in DOMAIN slot \ SlotsOf(g) |-> slot[p]]
    BY <1>4 DEF RemoveGate, Clock
  <2>2. s \in DOMAIN sink /\ sink'[s] = Marked(s, SlotsOf(g))
    BY <2>1
  <2> QED BY <1>3, <2>1, <2>2
<1>5. CASE CompileTopology
  <2>1. stage' # "commit"
    BY <1>5 DEF CompileTopology
  <2>2. CASE topology_changed
    <3>1. /\ slot' = [p \in DOMAIN slot \ Removed(routes, routes') |-> slot[p]]
          /\ sink' = [t \in DOMAIN sink |-> Marked(t, Removed(routes, routes'))]
      BY <1>5, <2>2 DEF CompileTopology, apply_route_diff
    <3>2. s \in DOMAIN sink /\ sink'[s] = Marked(s, Removed(routes, routes'))
      BY <3>1
    <3> QED BY <1>3, <2>1, <3>1, <3>2
  <2>3. CASE ~topology_changed
    <3>1. UNCHANGED <<slot, sink>>
      BY <1>5, <2>3 DEF CompileTopology
    <3> QED BY <2>1, <3>1 DEF SinksFollow
  <2> QED BY <2>2, <2>3
<1>6. CASE ApplyArrivals
  <2> DEFINE touched == sink[s].dirty \/ \E p \in Updated : p[2] = s
  <2>1. /\ s \in DOMAIN sink
        /\ sink'[s] = IF touched
                      THEN [level |-> resolve_drive(slot', s), dirty |-> FALSE]
                      ELSE sink[s]
        /\ slot' = [p \in DOMAIN slot \cup Updated |->
                       IF p \in Updated THEN Winner(p) ELSE slot[p]]
    BY <1>6 DEF ApplyArrivals
  <2>2. CASE touched
    BY <2>1, <2>2
  <2>3. CASE ~touched
    <3>1. sink'[s] = sink[s] /\ ~sink[s].dirty
      BY <2>1, <2>3
    <3>2. \A p : p[2] = s => /\ p \in DOMAIN slot <=> p \in DOMAIN slot'
                             /\ p \in DOMAIN slot => slot[p] = slot'[p]
      BY <2>1, <2>3
    <3>3. resolve_drive(slot, s) = resolve_drive(slot', s)
      BY <3>2, SameSlotsSameLevel
    <3> QED BY <2>1, <3>1, <3>3 DEF SinksFollow
  <2> QED BY <2>2, <2>3
<1>7. CASE UNCHANGED <<slot, sink>> /\ (stage' = "commit" => UNCHANGED stage)
  BY <1>7 DEF SinksFollow
<1>8. \/ \E g \in Gates : PlaceGate(g) \/ RemoveGate(g)
      \/ CompileTopology \/ ApplyArrivals
      \/ UNCHANGED <<slot, sink>> /\ (stage' = "commit" => UNCHANGED stage)
  BY ZenonT(60) DEF Next, Structural, PlaceJunction, RemoveJunction, RemoveWire, PlaceWire,
         BindPort, EndDestruction, DriveOutputs, CommitTick, Signals, Clock, vars
<1> QED BY <1>2, <1>4, <1>5, <1>6, <1>7, <1>8

-----------------------------------------------------------------------------
(* Delivery holds.                                                         *)

\* Nothing is placed and nothing in flight at the start.
LEMMA InitDelivery == Init => Delivery
<1> SUFFICES ASSUME Init PROVE Delivery
  OBVIOUS
<1>1. DOMAIN driver = {} /\ DOMAIN sink = {} /\ DOMAIN slot = {}
      /\ DOMAIN routes = {} /\ arrivals = {}
  BY DEF Init, EmptyMap
<1>2. BoundToLive
  BY DEF Init, BoundToLive, LiveWires
<1>3. Current = EmptyMap
  <2>1. (DOMAIN driver) \X (DOMAIN sink) = {}
    BY <1>1
  <2> QED BY <2>1 DEF Current, compile, EmptyMap
<1>4. RoutesCurrent
  BY <1>3 DEF Init, RoutesCurrent
<1>5. RoutesTyped /\ ArrivalsKept /\ ArrivalsAhead /\ SlotsRouted
  BY <1>1 DEF RoutesTyped, ArrivalsKept, ArrivalsAhead, SlotsRouted
<1>6. AllServed /\ SinksFollow
  BY <1>1 DEF AllServed, LiveRoutes, SinksFollow
<1> QED BY <1>2, <1>4, <1>5, <1>6 DEF Delivery

\* Every step keeps the invariant.
LEMMA NextKeepsDelivery ==
  IInv /\ Delivery /\ [Next]_vars => (IInv /\ Delivery)'
<1> SUFFICES ASSUME IInv, Delivery, [Next]_vars
             PROVE  (IInv /\ Delivery)'
  OBVIOUS
<1>1. IInv'
  BY NextKeepsIInv
<1>2. Typed /\ Typed'
  BY <1>1 DEF IInv
<1>3. /\ BoundToLive /\ RoutesCurrent /\ RoutesTyped /\ ArrivalsKept
      /\ ArrivalsAhead /\ SlotsRouted /\ AllServed /\ SinksFollow
  BY DEF Delivery
<1>4. BoundToLive'
  BY <1>2, <1>3, BoundToLiveKept
<1>5. RoutesCurrent'
  BY <1>3, RoutesCurrentKept
<1>6. RoutesTyped'
  BY <1>1, <1>3, RoutesTypedKept
<1>7. ArrivalsKept'
  BY <1>1, <1>3, <1>5, ArrivalsKeptKept
<1>8. ArrivalsAhead'
  BY <1>1, <1>3, <1>5, <1>6, ArrivalsAheadKept
<1>9. SlotsRouted'
  BY <1>3, SlotsRoutedKept
<1>10. AllServed'
  BY <1>1, <1>3, <1>6, AllServedKept
<1>11. SinksFollow'
  BY <1>1, <1>3, SinksFollowKept
<1> QED BY <1>1, <1>4, <1>5, <1>6, <1>7, <1>8, <1>9, <1>10, <1>11 DEF Delivery

(* The whole invariant of delivery, for every network and every sequence   *)
(* of edits.                                                               *)
THEOREM DeliveryHolds == Spec => [](IInv /\ Delivery)
BY InitIInv, InitDelivery, NextKeepsDelivery, PTL DEF Spec

(* Phase 2 never fails: calendar.drain_due finds nothing overdue, and no   *)
(* two arrivals, or an arrival and a slot, claim one revision of a driver  *)
(* with different samples.                                                 *)
THEOREM SignalStepNeverFails == Spec => []StepNeverFails
<1>1. IInv /\ Delivery /\ ~RevisionConflict => StepNeverFails
  BY DEF Delivery, ArrivalsAhead, StepNeverFails, ArrivalsConsistent
<1> QED BY <1>1, DeliveryHolds, NoRevisionConflict, PTL

(* No update is lost to rewiring: when a tick ends, the sink of every      *)
(* route holds what its driver emits now or an arrival with that sample is *)
(* on its way along the route, due within the route's delay (route_diff,   *)
(* the TopologySync arrivals and the propagation of Phase 2 together).     *)
THEOREM EveryRouteServed == Spec => []RoutesServed
<1>1. ASSUME IInv, Delivery, stage = "commit", NEW p \in DOMAIN routes
      PROVE  (p \in DOMAIN slot /\ slot[p] = driver[p[1]]) \/ InFlight(p)
  <2>1. routes = Current
    BY <1>1 DEF Delivery, RoutesCurrent
  <2>2. p \in LiveRoutes
    BY <1>1, <2>1, CompiledPairs DEF Current, LiveRoutes
  <2>3. Served(p)
    BY <1>1, <2>2 DEF Delivery, AllServed
  <2>4. ASSUME NEW a \in arrivals, a.due <= tick + routes[p].delay
        PROVE  a.due \in (tick + 1)..(tick + routes[p].delay)
    <3>1. a.due \in Nat /\ a.due > tick /\ tick \in Nat
      BY <1>1, <2>4 DEF Delivery, ArrivalsAhead, IInv, Typed
    <3>2. routes[p].delay \in Nat
      BY <1>1 DEF Delivery, RoutesTyped
    <3> QED BY <2>4, <3>1, <3>2
  <2> QED BY <2>3, <2>4 DEF Served, InFlight
<1>2. IInv /\ Delivery => RoutesServed
  BY <1>1 DEF RoutesServed
<1> QED BY <1>2, DeliveryHolds, PTL

(* A late arrival from a route that is gone never creates a slot again:    *)
(* the stamps of its path are stale, or the elements they name still join  *)
(* its driver to its sink and the pair has a route.                        *)
THEOREM NoSlotOutlivesItsRoute == Spec => []NoGhostSlot
<1>1. IInv /\ Delivery => NoGhostSlot
  BY DEF Delivery, SlotsRouted, NoGhostSlot
<1> QED BY <1>1, DeliveryHolds, PTL

(* Dirty marking misses nothing: when a tick ends every sink is at the     *)
(* level its slots resolve to, though only the marked ones were resolved.  *)
THEOREM EverySinkResolved == Spec => []SinksResolved
<1>1. IInv /\ Delivery => SinksResolved
  BY DEF Delivery, SinksFollow, SinksResolved
<1> QED BY <1>1, DeliveryHolds, PTL

=============================================================================
