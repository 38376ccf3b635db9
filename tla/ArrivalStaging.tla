--------------------------- MODULE ArrivalStaging ---------------------------
(***************************************************************************)
(* The storage of what is in flight: two event calendars that number their *)
(* payloads from one allocator, and the arena that keeps the path of every *)
(* signal arrival under a certificate (event.rs, path_certificate.rs, and  *)
(* the phases of simulation.rs that stage and drain events).               *)
(*                                                                         *)
(* A step works on a clone of the state and commits it at the end.  Any of *)
(* its phases may fail: then the clone is dropped, and the next step       *)
(* starts from the committed state again.                                  *)
(***************************************************************************)
EXTENDS Integers, FiniteSets, Sequences

CONSTANTS
    Items,          \* driver, sink, sample and kind, numbered in their order
    Stamps,         \* stamped elements of paths: wires and junctions, by generation
    Path,           \* paths of stamped elements, in their order
    Delay,          \* delay of the route along each path
    Transitions,    \* driver, level, strength, cause of driver transitions
    Horizon,        \* longest time ahead a driver transition is scheduled
    MaxNumber,      \* u64::MAX: payload orders and certificate ids
    MaxElements,    \* u32::MAX: length of the arena's element storage
    MaxBatch,       \* bound: events in a batch
    MaxTick         \* bound: ticks of a behaviour

Routes == 1..Len(Path)

StagingAssumption ==
    /\ Items \subseteq Nat /\ Transitions \subseteq Nat
    /\ Path \in Seq(Seq(Stamps))
    /\ Delay \in [Routes -> Nat]
    /\ Horizon \in Nat \ {0}
    /\ MaxNumber \in Nat \ {0} /\ MaxElements \in Nat
    /\ MaxBatch \in Nat /\ MaxTick \in Nat

VARIABLES
    tick, stage,
    arrivals,           \* signal calendar
    transitions,        \* driver calendar
    next_payload_order,
    certificates,       \* live certificate -> range of elements
    next_id,            \* next certificate id
    elements,           \* stamped elements of all paths, dead ones included
    delivered,          \* arrivals the step has delivered, with their paths
    committed           \* the state the last completed step left

working == <<arrivals, transitions, next_payload_order, certificates, next_id,
             elements, delivered>>
vars == <<tick, stage, working, committed>>

EmptyMap == [x \in {} |-> x]
\* The part of the state that a step clones and commits.
World == [arrivals |-> arrivals, transitions |-> transitions,
          next_payload_order |-> next_payload_order,
          certificates |-> certificates, next_id |-> next_id,
          elements |-> elements, delivered |-> delivered]

Stages == {"topology", "external", "drivers", "arrivals", "schedule", "commit"}

Init ==
    /\ tick = 0 /\ stage = "topology"
    /\ arrivals = {} /\ transitions = {} /\ next_payload_order = 1
    /\ certificates = EmptyMap /\ next_id = 1 /\ elements = <<>>
    /\ delivered = {}
    /\ committed = World

-----------------------------------------------------------------------------
(* A batch is a set: candidates are sorted and equal ones merged, so that  *)
(* numbers do not depend on the order in which candidates were made.       *)

\* Canonical order of candidates.
Before(a, b) ==
    \/ a.due < b.due
    \/ a.due = b.due /\ a.item < b.item
    \/ a.due = b.due /\ a.item = b.item /\ a.route < b.route

Earlier(a, batch) == {b \in batch : Before(b, a)}
Rank(a, batch) == Cardinality(Earlier(a, batch))

\* frontier_after: what n new payload orders leave, if they exist.
FrontierAfter(n) == next_payload_order + n
FitsPayloads(n) == FrontierAfter(n) <= MaxNumber

CertificateFor(a, batch) == next_id + Rank(a, batch)

\* preflight_batch: from the end of the arena up to `end' there is a range for
\* each path, in their order, one after another and without a gap.
ElementRange(a, start) ==
    [from |-> start[a] + 1, to |-> start[a] + Len(Path[a.route])]
Covers(range, i) == range.from <= i /\ i <= range.to
Laid_AllAtOnce(start, end, batch) ==
    /\ \A a \in batch : ElementRange(a, start).to <= end
    /\ \A i \in (Len(elements) + 1)..end :
          \E a \in batch : Covers(ElementRange(a, start), i)
Laid(start, end, batch) ==
    /\ \A a \in batch : ElementRange(a, start).to <= end
    /\ \A a, b \in batch : Before(a, b) => ElementRange(a, start).to <= start[b]
    /\ \A i \in (Len(elements) + 1)..end :
          \E a \in batch : Covers(ElementRange(a, start), i)

\* allocate_preflighted: the paths are copied into their ranges.
Copied_Backwards(start, batch, i) ==
    LET a == CHOOSE a \in batch : Covers(ElementRange(a, start), i)
    IN  Path[a.route][ElementRange(a, start).to + 1 - i]
Copied(start, batch, i) ==
    LET a == CHOOSE a \in batch : Covers(ElementRange(a, start), i)
    IN  Path[a.route][i - start[a]]

allocate(start, end, batch) ==
    LET given == {CertificateFor(a, batch) : a \in batch}
    IN  /\ certificates' =
              [c \in DOMAIN certificates \cup given |->
                  IF c \in DOMAIN certificates THEN certificates[c]
                  ELSE ElementRange(CHOOSE a \in batch : CertificateFor(a, batch) = c,
                                    start)]
        /\ elements' = [i \in 1..end |-> IF i <= Len(elements) THEN elements[i]
                                         ELSE Copied(start, batch, i)]
        /\ next_id' = next_id + Cardinality(batch)

Arrival(a, batch) ==
    [due |-> a.due, item |-> a.item,
     payload_order |-> next_payload_order + Rank(a, batch),
     certificate |-> CertificateFor(a, batch)]

\* All or nothing: a batch that does not fit has no effect.
stage_signal_arrivals(batch) ==
    LET n == Cardinality(batch)
    IN  /\ FitsPayloads(n)
        /\ next_id + n <= MaxNumber
        /\ \E end \in Len(elements)..MaxElements :
              \E start \in [batch -> Len(elements)..end] :
                 Laid(start, end, batch) /\ allocate(start, end, batch)
        /\ arrivals' = arrivals \cup {Arrival(a, batch) : a \in batch}
        /\ next_payload_order' = FrontierAfter(n)

\* Driver transitions have no path, only a payload order.
stage_transitions(batch, kept) ==
    LET n == Cardinality(batch)
    IN  /\ FitsPayloads(n)
        /\ transitions' = kept \cup
              {[due |-> t.due, item |-> t.item,
                payload_order |-> next_payload_order + Rank(t, batch)] :
                    t \in batch}
        /\ next_payload_order' = FrontierAfter(n)

Batches(S) == {b \in SUBSET S : IsFiniteSet(b) /\ Cardinality(b) <= MaxBatch}
ArrivalCandidates ==
    {[due |-> tick + Delay[r], item |-> i, route |-> r] :
        i \in Items, r \in Routes}
TransitionCandidates(due) ==
    {[due |-> d, item |-> i, route |-> 0] : d \in due, i \in Transitions}

-----------------------------------------------------------------------------
(* Phase 0: routes that changed are brought up to date, then the external  *)
(* driver commands of the tick are staged.                                 *)

SyncRoutes ==
    /\ stage = "topology" /\ tick < MaxTick /\ stage' = "external"
    /\ \E batch \in Batches(ArrivalCandidates) : stage_signal_arrivals(batch)
    /\ delivered' = {}
    /\ UNCHANGED <<tick, transitions, committed>>

StageExternal ==
    /\ stage = "external" /\ stage' = "drivers"
    /\ \E batch \in Batches(TransitionCandidates({tick})) :
          stage_transitions(batch, transitions)
    /\ UNCHANGED <<tick, arrivals, certificates, next_id, elements, delivered,
                   committed>>

(* Phase 2: due transitions are drained, the changes they make are sent,   *)
(* and the due arrivals, those just sent included, are drained.            *)

NotOverdue(calendar) == \A e \in calendar : e.due >= tick

Propagate ==
    /\ stage = "drivers" /\ stage' = "arrivals"
    /\ NotOverdue(transitions)
    /\ transitions' = {t \in transitions : t.due > tick}
    /\ \E batch \in Batches(ArrivalCandidates) : stage_signal_arrivals(batch)
    /\ UNCHANGED <<tick, delivered, committed>>

\* An arrival as it was sent, by what the arena keeps of its path.
AsSent(a, w) ==
    LET range == w.certificates[a.certificate]
    IN  [due |-> a.due, item |-> a.item,
         path |-> SubSeq(w.elements, range.from, range.to)]

\* consume: a certificate is used up with its arrival.
Consumed(due) == {a.certificate : a \in due}

ApplyDueArrivals ==
    LET due == {a \in arrivals : a.due = tick}
    IN  /\ stage = "arrivals" /\ stage' = "schedule"
        /\ NotOverdue(arrivals)
        /\ \A a \in due : a.certificate \in DOMAIN certificates
        /\ arrivals' = arrivals \ due
        /\ delivered' = {AsSent(a, World) : a \in due}
        /\ certificates' = [c \in DOMAIN certificates \ Consumed(due) |->
                               certificates[c]]
        /\ UNCHANGED <<tick, transitions, next_payload_order, next_id,
                       elements, committed>>

\* Phase 6: gates and sensing wires schedule what comes later.
ScheduleTransitions ==
    /\ stage = "schedule" /\ stage' = "commit"
    /\ \E batch \in Batches(TransitionCandidates((tick + 1)..(tick + Horizon))) :
          stage_transitions(batch, transitions)
    /\ UNCHANGED <<tick, arrivals, certificates, next_id, elements, delivered,
                   committed>>

-----------------------------------------------------------------------------
(* What validate_event_state demands before a step may be committed.       *)

LiveRanges == {c \in DOMAIN certificates :
                  certificates[c].from <= certificates[c].to}
EventStateValid ==
    /\ \A a \in arrivals : a.due > tick /\ a.payload_order < next_payload_order
    /\ \A t \in transitions : t.due > tick /\ t.payload_order < next_payload_order
    /\ \A a, b \in arrivals \cup transitions :
          a.payload_order = b.payload_order => a = b
    /\ {a.certificate : a \in arrivals} = DOMAIN certificates
    /\ \A a, b \in arrivals : a.certificate = b.certificate => a = b
    /\ \A c \in DOMAIN certificates :
          c \in 1..(next_id - 1) /\ certificates[c].to <= Len(elements)
    /\ \A c, d \in LiveRanges :
          \/ c = d \/ certificates[c].to < certificates[d].from
          \/ certificates[d].to < certificates[c].from

Commit ==
    /\ stage = "commit" /\ stage' = "topology"
    /\ EventStateValid
    /\ tick' = tick + 1
    /\ committed' = World
    /\ UNCHANGED working

\* Any phase may fail, also one that stages nothing.
Discard ==
    /\ stage # "topology" /\ stage' = "topology"
    /\ arrivals' = committed.arrivals
    /\ transitions' = committed.transitions
    /\ next_payload_order' = committed.next_payload_order
    /\ certificates' = committed.certificates
    /\ next_id' = committed.next_id
    /\ elements' = committed.elements
    /\ delivered' = committed.delivered
    /\ UNCHANGED <<tick, committed>>

Next ==
    \/ SyncRoutes \/ StageExternal \/ Propagate \/ ApplyDueArrivals
    \/ ScheduleTransitions \/ Commit \/ Discard

Spec == Init /\ [][Next]_vars

-----------------------------------------------------------------------------
(* Every piece of state has the shape the Rust types give it; the counters *)
(* stay within the integers they are stored in.                            *)
TypeOK ==
    /\ tick \in 0..MaxTick /\ stage \in Stages
    /\ next_payload_order \in 1..MaxNumber /\ next_id \in 1..MaxNumber
    /\ Len(elements) \in 0..MaxElements
    /\ \A a \in arrivals : a.due \in Nat /\ a.item \in Items
    /\ \A t \in transitions : t.due \in Nat /\ t.item \in Transitions

(* Arrivals and live certificates are one to one at every point of a step, *)
(* failed steps in between or not: none leaks and none is used twice.      *)
CertificatesMatchArrivals ==
    /\ {a.certificate : a \in arrivals} = DOMAIN certificates
    /\ \A a, b \in arrivals : a.certificate = b.certificate => a = b

(* No number is given out twice: payload orders are unique across the two  *)
(* calendars, and numbers not yet given out are above all that are in use. *)
NumbersFresh ==
    /\ \A a, b \in arrivals \cup transitions :
          a.payload_order = b.payload_order => a = b
    /\ \A a \in arrivals \cup transitions : a.payload_order < next_payload_order
    /\ \A c \in DOMAIN certificates : c < next_id

(* A step that gets to its end passes the validation of the event state.   *)
ValidationPasses == stage = "commit" => EventStateValid

(* The storage implements the promise of ArrivalCalendar, on the committed *)
(* state: what is delivered is what was sent, path included, when due.     *)
Calendar == INSTANCE ArrivalCalendar WITH
    Paths     <- {Path[r] : r \in Routes},
    now       <- tick,
    inFlight  <- {AsSent(a, committed) : a \in committed.arrivals},
    delivered <- committed.delivered
ImplementsCalendar == Calendar!Spec
=============================================================================
