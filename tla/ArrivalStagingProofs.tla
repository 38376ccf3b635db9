------------------------ MODULE ArrivalStagingProofs ------------------------
(***************************************************************************)
(* Proofs about ArrivalStaging, for any paths, delays and limits: arrivals *)
(* and certificates stay one to one, numbers stay fresh, no step is lost to *)
(* the validation of the event state, and the storage implements the       *)
(* calendar it promises (ArrivalCalendar), whatever phases fail.           *)
(***************************************************************************)
EXTENDS ArrivalStaging, FiniteSetTheorems, TLAPS

-----------------------------------------------------------------------------
(* The canonical order of candidates, and the number it gives to each.     *)

Candidates == [due : Nat, item : Nat, route : Nat]

(* Before is a strict total order on candidates.                           *)
LEMMA CanonicalOrder ==
    ASSUME NEW a \in Candidates, NEW b \in Candidates, NEW c \in Candidates
    PROVE  /\ ~Before(a, a)
           /\ Before(a, b) /\ Before(b, c) => Before(a, c)
           /\ a = b \/ Before(a, b) \/ Before(b, a)
BY DEF Before, Candidates

(* A finite batch of n candidates is numbered from 0 to n - 1, and no two  *)
(* get one number.                                                         *)
LEMMA RanksAreNumbers ==
    ASSUME NEW batch \in SUBSET Candidates, IsFiniteSet(batch)
    PROVE  /\ Cardinality(batch) \in Nat
           /\ \A a \in batch : Rank(a, batch) \in 0..(Cardinality(batch) - 1)
           /\ \A a, b \in batch : Rank(a, batch) = Rank(b, batch) => a = b
<1>1. Cardinality(batch) \in Nat
  BY FS_CardinalityType
<1>2. ASSUME NEW a \in batch
      PROVE  /\ IsFiniteSet(Earlier(a, batch)) /\ Cardinality(Earlier(a, batch)) \in Nat
             /\ Cardinality(Earlier(a, batch)) < Cardinality(batch)
  <2>1. Earlier(a, batch) \subseteq batch /\ a \notin Earlier(a, batch)
    BY CanonicalOrder DEF Earlier
  <2> QED
    BY <2>1, <1>1, FS_Subset, FS_CardinalityType
<1>3. ASSUME NEW a \in batch, NEW b \in batch, Before(a, b)
      PROVE  Cardinality(Earlier(a, batch)) < Cardinality(Earlier(b, batch))
  <2>1. Earlier(a, batch) \subseteq Earlier(b, batch) /\ a \in Earlier(b, batch) /\ a \notin Earlier(a, batch)
    BY <1>3, CanonicalOrder DEF Earlier
  <2>2. /\ IsFiniteSet(Earlier(b, batch))
        /\ Cardinality(Earlier(a, batch)) \in Nat
        /\ Cardinality(Earlier(b, batch)) \in Nat
    BY <1>2
  <2>3. Cardinality(Earlier(a, batch)) <= Cardinality(Earlier(b, batch))
        /\ (Cardinality(Earlier(b, batch)) = Cardinality(Earlier(a, batch))
              => Earlier(b, batch) = Earlier(a, batch))
    BY <2>1, <2>2, FS_Subset
  <2> QED
    BY <2>1, <2>2, <2>3
<1>4. \A a, b \in batch : Rank(a, batch) = Rank(b, batch) => a = b
  <2> SUFFICES ASSUME NEW a \in batch, NEW b \in batch, a # b
               PROVE  Cardinality(Earlier(a, batch)) # Cardinality(Earlier(b, batch))
    BY DEF Rank
  <2>1. Before(a, b) \/ Before(b, a)
    BY CanonicalOrder
  <2> QED
    BY <2>1, <1>2, <1>3
<1>5. \A a \in batch : Rank(a, batch) \in 0..(Cardinality(batch) - 1)
  BY <1>1, <1>2 DEF Rank
<1> QED
  BY <1>1, <1>4, <1>5

-----------------------------------------------------------------------------
(* The inductive invariant.                                                *)

Arrivals == [due : Nat, item : Items, payload_order : Nat, certificate : Nat]
DriverTransitions == [due : Nat, item : Transitions, payload_order : Nat]
Ranges == [from : Nat \ {0}, to : Nat]

Typed(w) ==
    /\ w.next_payload_order \in 1..MaxNumber /\ w.next_id \in 1..MaxNumber
    /\ w.elements \in Seq(Stamps) /\ Len(w.elements) <= MaxElements
    /\ w.arrivals \subseteq Arrivals
    /\ w.transitions \subseteq DriverTransitions
    /\ \A c \in DOMAIN w.certificates : w.certificates[c] \in Ranges

Matched(w) ==
    /\ {a.certificate : a \in w.arrivals} = DOMAIN w.certificates
    /\ \A a, b \in w.arrivals : a.certificate = b.certificate => a = b

Numbered(w) ==
    /\ \A a \in w.arrivals \cup w.transitions : a.payload_order < w.next_payload_order
    /\ \A a, b \in w.arrivals : a.payload_order = b.payload_order => a = b
    /\ \A s, t \in w.transitions : s.payload_order = t.payload_order => s = t
    /\ \A a \in w.arrivals, t \in w.transitions : a.payload_order # t.payload_order
    /\ \A c \in DOMAIN w.certificates : 1 <= c /\ c < w.next_id

(* A range holds the elements of a path, and lies within the storage.      *)
Holds(elems, range, r) ==
    /\ range.to = range.from - 1 + Len(Path[r])
    /\ \A i \in 1..Len(Path[r]) : elems[range.from - 1 + i] = Path[r][i]
Stored(w) ==
    /\ \A c \in DOMAIN w.certificates :
          /\ w.certificates[c].to <= Len(w.elements)
          /\ \E r \in Routes : Holds(w.elements, w.certificates[c], r)
    /\ \A c, d \in DOMAIN w.certificates :
          \/ c = d
          \/ w.certificates[c].to < w.certificates[c].from
          \/ w.certificates[d].to < w.certificates[d].from
          \/ w.certificates[c].to < w.certificates[d].from
          \/ w.certificates[d].to < w.certificates[c].from

Sound(w) == Typed(w) /\ Matched(w) /\ Numbered(w) /\ Stored(w)

(* Nothing committed is lost before the step that delivers it commits.     *)
StillSent(a) == a \in arrivals /\ AsSent(a, World) = AsSent(a, committed)
Kept ==
    \A a \in committed.arrivals :
        \/ StillSent(a)
        \/ stage \in {"schedule", "commit"} /\ AsSent(a, committed) \in delivered

Dues ==
    /\ \A e \in committed.arrivals \cup committed.transitions : e.due >= tick
    /\ \A a \in arrivals : a.due >= tick
    /\ \A t \in transitions : t.due >= tick
    /\ stage \in {"schedule", "commit"} => \A a \in arrivals : a.due > tick
    /\ stage \in {"arrivals", "schedule", "commit"} => \A t \in transitions : t.due > tick

Deliveries ==
    /\ stage \in {"external", "drivers", "arrivals"} => delivered = {}
    /\ stage \in {"schedule", "commit"} =>
          \A d \in delivered : d \in Calendar!Sent /\ d.due = tick

StagingInv ==
    /\ tick \in Nat /\ stage \in Stages
    /\ Sound(World) /\ Sound(committed)
    /\ Dues /\ Kept /\ Deliveries

-----------------------------------------------------------------------------
(* What the constants give.                                                *)

LEMMA PathsAreSequences ==
    ASSUME StagingAssumption
    PROVE  /\ \A r \in Routes : Path[r] \in Seq(Stamps) /\ Len(Path[r]) \in Nat
           /\ \A r \in Routes : \A i \in 1..Len(Path[r]) : Path[r][i] \in Stamps
           /\ Routes \subseteq Nat
           /\ MaxNumber \in Nat /\ MaxNumber >= 1 /\ MaxElements \in Nat
BY DEF StagingAssumption, Routes

(* A batch of candidate arrivals: routes that exist, and nothing overdue.  *)
LEMMA ArrivalBatches ==
    ASSUME StagingAssumption, tick \in Nat, NEW batch \in Batches(ArrivalCandidates)
    PROVE  /\ batch \in SUBSET Candidates /\ IsFiniteSet(batch)
           /\ \A a \in batch : /\ a.due \in Nat /\ a.due >= tick
                               /\ a.item \in Items /\ a.route \in Routes
<1>1. batch \in SUBSET ArrivalCandidates /\ IsFiniteSet(batch)
  BY DEF Batches
<1>2. ASSUME NEW i \in Items, NEW r \in Routes
      PROVE  /\ tick + Delay[r] \in Nat /\ tick + Delay[r] >= tick
             /\ i \in Nat /\ r \in Nat
  BY DEF StagingAssumption, Routes
<1>3. \A a \in ArrivalCandidates :
          /\ a \in Candidates
          /\ a.due \in Nat /\ a.due >= tick /\ a.item \in Items /\ a.route \in Routes
  BY <1>2 DEF ArrivalCandidates, Candidates
<1> QED
  BY <1>1, <1>3

LEMMA TransitionBatches ==
    ASSUME StagingAssumption, NEW due \in SUBSET Nat,
           NEW batch \in Batches(TransitionCandidates(due))
    PROVE  /\ batch \in SUBSET Candidates /\ IsFiniteSet(batch)
           /\ \A t \in batch : t.due \in due /\ t.item \in Transitions
BY DEF StagingAssumption, Batches, TransitionCandidates, Candidates

-----------------------------------------------------------------------------
(* Staging driver transitions keeps the state sound.                       *)

Staged(batch) ==
    {[due |-> t.due, item |-> t.item,
      payload_order |-> next_payload_order + Rank(t, batch)] : t \in batch}

LEMMA TransitionsStaged ==
    ASSUME StagingAssumption, Sound(World), NEW due \in SUBSET Nat,
           NEW batch \in Batches(TransitionCandidates(due)),
           stage_transitions(batch, transitions),
           UNCHANGED <<arrivals, certificates, next_id, elements>>
    PROVE  /\ Sound(World)'
           /\ \A t \in transitions' : t \in transitions \/ t.due \in due
<1> DEFINE n == Cardinality(batch)
<1>1. /\ batch \in SUBSET Candidates /\ IsFiniteSet(batch)
      /\ \A t \in batch : t.due \in due /\ t.item \in Transitions
  BY TransitionBatches
<1>2. /\ n \in Nat
      /\ \A t \in batch : Rank(t, batch) \in 0..(n - 1)
      /\ \A s, t \in batch : Rank(s, batch) = Rank(t, batch) => s = t
  BY <1>1, RanksAreNumbers
<1>3. /\ transitions' = transitions \cup Staged(batch)
      /\ next_payload_order' = next_payload_order + n
      /\ next_payload_order + n <= MaxNumber
  BY DEF stage_transitions, FrontierAfter, FitsPayloads, Staged
<1>4. next_payload_order \in 1..MaxNumber /\ MaxNumber \in Nat
  BY PathsAreSequences DEF Sound, Typed, World
<1> HIDE DEF n
<1>5. \A t \in Staged(batch) :
          /\ t \in DriverTransitions /\ t.due \in due
          /\ t.payload_order >= next_payload_order
          /\ t.payload_order < next_payload_order'
  BY <1>1, <1>2, <1>3, <1>4 DEF Staged, DriverTransitions
<1>6. \A s, t \in Staged(batch) : s.payload_order = t.payload_order => s = t
  BY <1>1, <1>2, <1>4 DEF Staged
<1>7. Typed(World)'
  BY <1>2, <1>3, <1>4, <1>5 DEF Sound, Typed, World
<1>8. Matched(World)'
  BY DEF Sound, Matched, World
<1>9. Numbered(World)'
  <2>1. \A a \in arrivals \cup transitions : a.payload_order \in Nat /\ a.payload_order < next_payload_order
    BY DEF Sound, Typed, Numbered, World, Arrivals, DriverTransitions
  <2>2. \A a \in arrivals' \cup transitions' : a.payload_order < next_payload_order'
    BY <2>1, <1>2, <1>3, <1>4, <1>5
  <2>3. \A s, t \in transitions' : s.payload_order = t.payload_order => s = t
    BY <2>1, <1>3, <1>4, <1>5, <1>6 DEF Sound, Numbered, World, DriverTransitions
  <2>4. \A a \in arrivals', t \in transitions' : a.payload_order # t.payload_order
    BY <2>1, <1>3, <1>4, <1>5 DEF Sound, Numbered, World, DriverTransitions
  <2> QED
    BY <2>2, <2>3, <2>4 DEF Sound, Numbered, World
<1>10. Stored(World)'
  BY DEF Sound, Stored, World, Holds
<1> QED
  BY <1>3, <1>5, <1>7, <1>8, <1>9, <1>10 DEF Sound

-----------------------------------------------------------------------------
(* Staging arrivals keeps the state sound, and leaves what is in flight as *)
(* it was sent.                                                            *)

LEMMA CopiedOne ==
    ASSUME NEW batch, NEW start, NEW a \in batch, NEW i,
           \A b \in batch : Covers(ElementRange(b, start), i) <=> b = a
    PROVE  Copied(start, batch, i) = Path[a.route][i - start[a]]
<1>1. (CHOOSE b \in batch : Covers(ElementRange(b, start), i)) = a
  OBVIOUS
<1> QED
  BY <1>1 DEF Copied

LEMMA ArrivalsStaged ==
    ASSUME StagingAssumption, tick \in Nat, Sound(World),
           NEW batch \in Batches(ArrivalCandidates),
           stage_signal_arrivals(batch),
           transitions' \in SUBSET transitions
    PROVE  /\ Sound(World)'
           /\ \A a \in arrivals : a \in arrivals' /\ AsSent(a, World)' = AsSent(a, World)
           /\ \A a \in arrivals' : a \in arrivals \/ a.due >= tick
<1> DEFINE n == Cardinality(batch)
           len == Len(elements)
           L(a) == Len(Path[a.route])
           new == {Arrival(a, batch) : a \in batch}
           cert(a) == CertificateFor(a, batch)
<1>1. /\ batch \in SUBSET Candidates /\ IsFiniteSet(batch)
      /\ \A a \in batch : /\ a.due \in Nat /\ a.due >= tick
                          /\ a.item \in Items /\ a.route \in Routes
  BY ArrivalBatches
<1>2. /\ n \in Nat
      /\ \A a \in batch : Rank(a, batch) \in 0..(n - 1)
      /\ \A a, b \in batch : Rank(a, batch) = Rank(b, batch) => a = b
  BY <1>1, RanksAreNumbers
<1>3. /\ next_payload_order \in 1..MaxNumber /\ next_id \in 1..MaxNumber
      /\ MaxNumber \in Nat /\ MaxElements \in Nat
      /\ elements \in Seq(Stamps) /\ len \in Nat /\ len <= MaxElements
      /\ \A c \in DOMAIN certificates :
            /\ certificates[c].from \in Nat \ {0} /\ certificates[c].to \in Nat
            /\ certificates[c].to <= len
            /\ c \in Nat /\ 1 <= c /\ c < next_id
  <2>1. /\ next_payload_order \in 1..MaxNumber /\ next_id \in 1..MaxNumber
        /\ MaxNumber \in Nat /\ MaxElements \in Nat
        /\ elements \in Seq(Stamps) /\ len <= MaxElements
    BY PathsAreSequences DEF Sound, Typed, World
  <2>2. len \in Nat
    BY <2>1
  <2>3. \A c \in DOMAIN certificates :
           /\ certificates[c] \in Ranges /\ certificates[c].to <= len
           /\ 1 <= c /\ c < next_id
    BY DEF Sound, Typed, Numbered, Stored, World
  <2>4. \A c \in DOMAIN certificates : c \in Nat
    BY DEF Sound, Typed, Matched, World, Arrivals
  <2> QED
    BY <2>1, <2>2, <2>3, <2>4 DEF Ranges
<1>4. PICK end \in len..MaxElements :
         \E start \in [batch -> len..end] :
            Laid(start, end, batch) /\ allocate(start, end, batch)
  BY DEF stage_signal_arrivals
<1>a. PICK start \in [batch -> len..end] :
         Laid(start, end, batch) /\ allocate(start, end, batch)
  BY <1>4
<1>5. /\ arrivals' = arrivals \cup new
      /\ next_payload_order' = next_payload_order + n
      /\ next_payload_order' \in 1..MaxNumber
      /\ next_id' = next_id + n
      /\ next_id' \in 1..MaxNumber
  BY <1>2, <1>3, <1>a DEF stage_signal_arrivals, FrontierAfter, FitsPayloads, allocate
<1>6. \A a \in batch : /\ L(a) \in Nat /\ start[a] \in Nat
                       /\ len <= start[a] /\ start[a] + L(a) <= end
                       /\ \A i \in 1..L(a) : Path[a.route][i] \in Stamps
  BY <1>1, <1>3, <1>a, PathsAreSequences DEF Laid, ElementRange
<1>7. \A a, b \in batch : Before(a, b) => start[a] + L(a) <= start[b]
  BY <1>a DEF Laid, ElementRange
<1>8. \A a, b \in batch : a = b \/ start[a] + L(a) <= start[b] \/ start[b] + L(b) <= start[a]
  BY <1>1, <1>7, CanonicalOrder
<1>9. \A i \in (len + 1)..end : \E a \in batch : start[a] + 1 <= i /\ i <= start[a] + L(a)
  BY <1>a DEF Laid, ElementRange, Covers
<1>10. /\ end \in Nat /\ len <= end
       /\ elements' = [i \in 1..end |-> IF i <= len THEN elements[i]
                                        ELSE Copied(start, batch, i)]
  BY <1>3, <1>a DEF allocate
<1>11. DOMAIN certificates' = DOMAIN certificates \cup {cert(a) : a \in batch}
  BY <1>a DEF allocate
<1>12. \A a \in batch : /\ cert(a) \in Nat /\ cert(a) >= next_id /\ cert(a) < next_id'
                        /\ cert(a) \notin DOMAIN certificates
  BY <1>2, <1>3, <1>5 DEF CertificateFor
<1>13. \A a, b \in batch : cert(a) = cert(b) => a = b
  BY <1>2, <1>3 DEF CertificateFor
<1>14. \A c \in DOMAIN certificates : certificates'[c] = certificates[c]
  BY <1>a DEF allocate
<1>15. \A a \in batch :
          certificates'[cert(a)] = [from |-> start[a] + 1, to |-> start[a] + L(a)]
  <2> SUFFICES ASSUME NEW a \in batch
               PROVE  certificates'[cert(a)] = ElementRange(a, start)
    BY DEF ElementRange
  <2>1. certificates'[cert(a)] =
          ElementRange(CHOOSE b \in batch : CertificateFor(b, batch) = cert(a), start)
    BY <1>a, <1>12 DEF allocate
  <2>2. (CHOOSE b \in batch : CertificateFor(b, batch) = cert(a)) = a
    BY <1>13
  <2> QED
    BY <2>1, <2>2
<1>b. \A a \in batch : /\ certificates'[cert(a)].from = start[a] + 1
                        /\ certificates'[cert(a)].to = start[a] + L(a)
                        /\ certificates'[cert(a)] \in Ranges
  <2> SUFFICES ASSUME NEW a \in batch
               PROVE  /\ certificates'[cert(a)].from = start[a] + 1
                      /\ certificates'[cert(a)].to = start[a] + L(a)
                      /\ certificates'[cert(a)] \in Ranges
    OBVIOUS
  <2>1. certificates'[cert(a)] = [from |-> start[a] + 1, to |-> start[a] + L(a)]
    BY <1>15
  <2>2. start[a] + 1 \in Nat \ {0} /\ start[a] + L(a) \in Nat
    BY <1>6
  <2> HIDE DEF L, cert
  <2> QED
    BY <2>1, <2>2 DEF Ranges
<1>16. \A a \in batch : \A i \in 1..L(a) : elements'[start[a] + i] = Path[a.route][i]
  <2> SUFFICES ASSUME NEW a \in batch, NEW i \in 1..L(a)
               PROVE  elements'[start[a] + i] = Path[a.route][i]
    OBVIOUS
  <2> DEFINE j == start[a] + i
  <2>1. j \in 1..end /\ j > len
    BY <1>6, <1>10
  <2>2. start[a] + 1 <= j /\ j <= start[a] + L(a)
    BY <1>6
  <2>3. ASSUME NEW b \in batch, start[b] + 1 <= j, j <= start[b] + L(b)
        PROVE  b = a
    <3>1. a = b \/ start[a] + L(a) <= start[b] \/ start[b] + L(b) <= start[a]
      BY <1>8
    <3>2. /\ start[a] \in Nat /\ start[b] \in Nat
          /\ L(a) \in Nat /\ L(b) \in Nat
      BY <1>6
    <3> HIDE DEF L
    <3> QED
      BY <2>2, <2>3, <3>1, <3>2
  <2>4. \A b \in batch : Covers(ElementRange(b, start), j) <=> b = a
    BY <2>2, <2>3 DEF Covers, ElementRange
  <2> HIDE DEF j
  <2>5. Copied(start, batch, j) = Path[a.route][j - start[a]]
    BY <2>4, CopiedOne
  <2>6. j - start[a] = i
    BY <1>6 DEF j
  <2> QED
    BY <2>1, <2>5, <2>6, <1>3, <1>10 DEF j
<1>17. \A i \in 1..end : elements'[i] \in Stamps
  <2> SUFFICES ASSUME NEW i \in 1..end PROVE elements'[i] \in Stamps
    OBVIOUS
  <2>1. CASE i <= len
    BY <2>1, <1>3, <1>10
  <2>2. CASE i > len
    <3>1. PICK a \in batch : start[a] + 1 <= i /\ i <= start[a] + L(a)
      BY <2>2, <1>3, <1>9
    <3>2. i - start[a] \in 1..L(a) /\ start[a] + (i - start[a]) = i
      BY <3>1, <1>6
    <3> QED
      BY <3>2, <1>6, <1>16
  <2> QED
    BY <2>1, <2>2, <1>3
<1>18. elements' \in Seq(Stamps) /\ Len(elements') = end
  BY <1>10, <1>17
<1>19. \A i \in 1..len : elements'[i] = elements[i]
  BY <1>3, <1>10
<1> HIDE DEF n, len, L, cert
<1>20. \A a \in new : /\ a \in Arrivals /\ a.due >= tick
                      /\ a.payload_order >= next_payload_order
                      /\ a.payload_order < next_payload_order'
                      /\ \E b \in batch : a.certificate = cert(b) /\ a = Arrival(b, batch)
  BY <1>1, <1>2, <1>3, <1>5, <1>12, SMTT(40) DEF Arrival, Arrivals, cert
<1>21. \A a, b \in new : a.payload_order = b.payload_order => a = b
  BY <1>2, <1>3 DEF Arrival
<1>22. \A a, b \in new : a.certificate = b.certificate => a = b
  BY <1>13, <1>20
<1>23. Typed(World)'
  <2>1. \A c \in DOMAIN certificates' : certificates'[c] \in Ranges
    BY <1>b, <1>11, <1>14 DEF Sound, Typed, World
  <2> QED
    BY <2>1, <1>4, <1>5, <1>18, <1>20 DEF Sound, Typed, World
<1>24. Matched(World)'
  <2>1. {a.certificate : a \in new} = {cert(a) : a \in batch}
    <3>1. \A a \in batch : Arrival(a, batch).certificate = cert(a)
      BY DEF Arrival, cert
    <3> QED
      BY <3>1
  <2>2. \A a \in new, b \in arrivals : a.certificate # b.certificate
    BY <1>12, <1>20 DEF Sound, Matched, World
  <2>3. /\ {a.certificate : a \in arrivals} = DOMAIN certificates
        /\ \A a, b \in arrivals : a.certificate = b.certificate => a = b
    BY DEF Sound, Matched, World
  <2>4. {a.certificate : a \in arrivals'} = DOMAIN certificates'
    BY <2>1, <2>3, <1>5, <1>11
  <2>5. \A a, b \in arrivals' : a.certificate = b.certificate => a = b
    BY <2>2, <2>3, <1>5, <1>22
  <2> QED
    BY <2>4, <2>5 DEF Matched, World
<1>25. Numbered(World)'
  <2>1. \A a \in arrivals \cup transitions :
           a.payload_order \in Nat /\ a.payload_order < next_payload_order
    BY DEF Sound, Typed, Numbered, World, Arrivals, DriverTransitions
  <2>2. \A a \in new : a.payload_order \in Nat
    BY <1>20 DEF Arrivals
  <2>3. \A a \in arrivals' \cup transitions' : a.payload_order < next_payload_order'
    BY <2>1, <2>2, <1>2, <1>3, <1>5, <1>20
  <2>4. \A a, b \in arrivals' : a.payload_order = b.payload_order => a = b
    BY <2>1, <2>2, <1>3, <1>5, <1>20, <1>21 DEF Sound, Numbered, World
  <2>5. \A a \in arrivals', t \in transitions' : a.payload_order # t.payload_order
    BY <2>1, <2>2, <1>3, <1>5, <1>20 DEF Sound, Numbered, World
  <2>6. \A c \in DOMAIN certificates' : 1 <= c /\ c < next_id'
    BY <1>2, <1>3, <1>5, <1>11, <1>12
  <2> QED
    BY <2>3, <2>4, <2>5, <2>6 DEF Sound, Numbered, World
<1>26. Stored(World)'
  <2>1. ASSUME NEW c \in DOMAIN certificates
        PROVE  \E r \in Routes : Holds(elements', certificates'[c], r)
    <3>1. PICK r \in Routes : Holds(elements, certificates[c], r)
      BY DEF Sound, Stored, World
    <3>2. \A i \in 1..Len(Path[r]) : certificates[c].from - 1 + i \in 1..len
      <4>1. Len(Path[r]) \in Nat
        BY PathsAreSequences
      <4>2. /\ certificates[c].from \in Nat \ {0} /\ certificates[c].to \in Nat
            /\ certificates[c].to <= len
        BY <1>3
      <4>3. certificates[c].to = certificates[c].from - 1 + Len(Path[r])
        BY <3>1 DEF Holds
      <4>4. ASSUME NEW from \in Nat \ {0}, NEW to \in Nat, NEW steps \in Nat, NEW top \in Nat,
                   to = from - 1 + steps, to <= top
            PROVE  \A i \in 1..steps : from - 1 + i \in 1..top
        BY <4>4
      <4>5. len \in Nat
        BY <1>3
      <4> HIDE DEF len
      <4> QED
        BY <4>1, <4>2, <4>3, <4>4, <4>5
    <3> QED
      BY <3>1, <3>2, <1>14, <1>19 DEF Holds
  <2>2. ASSUME NEW a \in batch
        PROVE  Holds(elements', certificates'[cert(a)], a.route)
    <3> DEFINE first == certificates'[cert(a)].from
    <3>1. first = start[a] + 1 /\ certificates'[cert(a)].to = start[a] + L(a)
          /\ start[a] \in Nat /\ L(a) \in Nat
      BY <1>6, <1>b
    <3> HIDE DEF first
    <3>2. \A i \in 1..L(a) : first - 1 + i = start[a] + i
      BY <3>1
    <3>3. \A i \in 1..L(a) : elements'[first - 1 + i] = Path[a.route][i]
      BY <3>2, <1>16
    <3>4. certificates'[cert(a)].to = first - 1 + L(a)
      BY <3>1
    <3> QED
      BY <3>3, <3>4 DEF Holds, L, first
  <2>3. \A c \in DOMAIN certificates' :
           /\ certificates'[c].to <= end
           /\ \E r \in Routes : Holds(elements', certificates'[c], r)
    <3>1. ASSUME NEW c \in DOMAIN certificates
          PROVE  certificates'[c].to <= end
      BY <1>3, <1>10, <1>14
    <3>2. ASSUME NEW a \in batch
          PROVE  certificates'[cert(a)].to <= end /\ a.route \in Routes
      BY <1>1, <1>6, <1>b
    <3> QED
      BY <2>1, <2>2, <3>1, <3>2, <1>11
  <2>4. ASSUME NEW c \in DOMAIN certificates, NEW a \in batch
        PROVE  certificates'[c].to < certificates'[cert(a)].from
    BY <1>3, <1>6, <1>14, <1>b
  <2>5. ASSUME NEW a \in batch, NEW b \in batch, a # b
        PROVE  \/ certificates'[cert(a)].to < certificates'[cert(b)].from
               \/ certificates'[cert(b)].to < certificates'[cert(a)].from
    BY <2>5, <1>6, <1>8, <1>b
  <2>6. \A c, d \in DOMAIN certificates' :
           \/ c = d
           \/ certificates'[c].to < certificates'[c].from
           \/ certificates'[d].to < certificates'[d].from
           \/ certificates'[c].to < certificates'[d].from
           \/ certificates'[d].to < certificates'[c].from
    BY <2>4, <2>5, <1>11, <1>14 DEF Sound, Stored, World
  <2> QED
    BY <2>3, <2>6, <1>18 DEF Stored, World
<1>27. ASSUME NEW a \in arrivals
       PROVE  a \in arrivals' /\ AsSent(a, World)' = AsSent(a, World)
  <2>1. a.certificate \in DOMAIN certificates
    BY DEF Sound, Matched, World
  <2> DEFINE from == certificates[a.certificate].from
             to == certificates[a.certificate].to
  <2>2. from \in Nat \ {0} /\ to \in Nat /\ to <= len
    BY <2>1, <1>3
  <2>3. \A i \in 1..(to - from + 1) : from + i - 1 \in 1..len
    BY <2>2, <1>3, SMTT(40)
  <2>4. SubSeq(elements', from, to) = SubSeq(elements, from, to)
    <3> HIDE DEF from, to
    <3>1. \A i \in 1..(to - from + 1) : elements'[from + i - 1] = elements[from + i - 1]
      BY <2>3, <1>19
    <3> QED
      BY <3>1, <2>2, <2>3, <1>3, <1>10, <1>18
  <2> QED
    BY <2>1, <2>4, <1>5, <1>14 DEF AsSent, World
<1> QED
  BY <1>5, <1>20, <1>23, <1>24, <1>25, <1>26, <1>27 DEF Sound

-----------------------------------------------------------------------------
(* What is in flight is what was sent, and what is due is delivered.       *)

LEMMA InFlightWasSent ==
    ASSUME StagingAssumption, NEW w, Sound(w), NEW a \in w.arrivals
    PROVE  AsSent(a, w) \in Calendar!Sent /\ AsSent(a, w).due = a.due
<1> DEFINE range == w.certificates[a.certificate]
<1>1. a.certificate \in DOMAIN w.certificates /\ a.due \in Nat /\ a.item \in Items
  BY DEF Sound, Typed, Matched, Arrivals
<1>2. /\ range.from \in Nat \ {0} /\ range.to \in Nat
      /\ range.to <= Len(w.elements) /\ w.elements \in Seq(Stamps)
  BY <1>1 DEF Sound, Typed, Stored, Ranges
<1>3. PICK r \in Routes : Holds(w.elements, range, r)
  BY <1>1 DEF Sound, Stored
<1>4. Path[r] \in Seq(Stamps) /\ Len(Path[r]) \in Nat
  BY PathsAreSequences
<1>5. SubSeq(w.elements, range.from, range.to) = Path[r]
  <2> DEFINE from == range.from
             to == range.to
             sub == SubSeq(w.elements, from, to)
  <2>1. /\ from \in Nat \ {0} /\ to \in Nat
        /\ to - from + 1 = Len(Path[r])
    BY <1>2, <1>3, <1>4, SMTT(40) DEF Holds
  <2>2. \A i \in 1..Len(Path[r]) : w.elements[i + from - 1] = Path[r][i]
    <3>1. \A i \in 1..Len(Path[r]) : w.elements[from - 1 + i] = Path[r][i]
      BY <1>3 DEF Holds
    <3> HIDE DEF from
    <3>2. \A i \in 1..Len(Path[r]) : i + from - 1 = from - 1 + i
      BY <2>1, <1>4
    <3> QED
      BY <3>1, <3>2
  <2> HIDE DEF from, to
  <2>3. sub = [i \in 1..(to - from + 1) |-> w.elements[i + from - 1]]
    BY <1>2, <2>1
  <2>4. sub = [i \in 1..Len(Path[r]) |-> Path[r][i]]
    BY <2>1, <2>2, <2>3
  <2> QED
    BY <2>4, <1>4 DEF from, to
<1> QED
  BY <1>1, <1>5 DEF AsSent, Calendar!Sent

LEMMA DueConsumed ==
    ASSUME StagingAssumption, Sound(World), ApplyDueArrivals
    PROVE  /\ Sound(World)'
           /\ \A a \in arrivals :
                 \/ a.due = tick /\ AsSent(a, World) \in delivered'
                 \/ a \in arrivals' /\ AsSent(a, World)' = AsSent(a, World)
           /\ \A a \in arrivals' : a \in arrivals /\ a.due # tick
           /\ \A d \in delivered' : d \in Calendar!Sent /\ d.due = tick
<1> DEFINE due == {a \in arrivals : a.due = tick}
<1>1. /\ arrivals' = arrivals \ due
      /\ certificates' = [c \in DOMAIN certificates \ Consumed(due) |-> certificates[c]]
      /\ delivered' = {AsSent(a, World) : a \in due}
      /\ UNCHANGED <<transitions, next_payload_order, next_id, elements>>
  BY DEF ApplyDueArrivals
<1>2. /\ DOMAIN certificates' = DOMAIN certificates \ Consumed(due)
      /\ \A c \in DOMAIN certificates' : c \in DOMAIN certificates
                                         /\ certificates'[c] = certificates[c]
  BY <1>1
<1>3. Matched(World)'
  <2>1. {a.certificate : a \in arrivals} = DOMAIN certificates
        /\ \A a, b \in arrivals : a.certificate = b.certificate => a = b
    BY DEF Sound, Matched, World
  <2>2. {a.certificate : a \in arrivals'} = DOMAIN certificates'
    BY <2>1, <1>1, <1>2 DEF Consumed
  <2> QED
    BY <2>1, <2>2, <1>1 DEF Matched, World
<1>4. \A a \in arrivals' : a \in arrivals /\ a.certificate \in DOMAIN certificates'
  BY <1>1, <1>3 DEF Matched, World
<1>5. Typed(World)'
  BY <1>1, <1>2 DEF Sound, Typed, World
<1>6. Numbered(World)'
  BY <1>1, <1>2 DEF Sound, Numbered, World
<1>7. Stored(World)'
  BY <1>1, <1>2 DEF Sound, Stored, Holds, World
<1>8. ASSUME NEW a \in arrivals
      PROVE  \/ a.due = tick /\ AsSent(a, World) \in delivered'
             \/ a \in arrivals' /\ AsSent(a, World)' = AsSent(a, World)
  <2>1. CASE a.due = tick
    BY <2>1, <1>1
  <2>2. CASE a.due # tick
    <3>1. a \in arrivals' /\ certificates'[a.certificate] = certificates[a.certificate]
      BY <2>2, <1>1, <1>2, <1>4
    <3> QED
      BY <3>1, <1>1 DEF AsSent, World
  <2> QED
    BY <2>1, <2>2
<1>9. \A d \in delivered' : d \in Calendar!Sent /\ d.due = tick
  <2>1. \A a \in arrivals : a \in World.arrivals
    BY DEF World
  <2> QED
    BY <2>1, <1>1, InFlightWasSent
<1>10. \A a \in arrivals' : a \in arrivals /\ a.due # tick
  BY <1>1
<1> QED
  BY <1>3, <1>5, <1>6, <1>7, <1>8, <1>9, <1>10 DEF Sound

-----------------------------------------------------------------------------
(* The invariant is inductive.                                             *)

LEMMA StagingInit ==
    ASSUME StagingAssumption, Init
    PROVE  StagingInv
<1>1. Sound(World)
  <2>1. DOMAIN certificates = {}
    BY DEF Init, EmptyMap
  <2> QED
    BY <2>1, PathsAreSequences
       DEF Init, Sound, Typed, Matched, Numbered, Stored, World
<1>2. Sound(committed)
  BY <1>1 DEF Init
<1> QED
  BY <1>1, <1>2 DEF StagingInv, Init, Stages, Dues, Kept, Deliveries, World

LEMMA SyncRoutesKeeps ==
    ASSUME StagingAssumption, StagingInv, SyncRoutes
    PROVE  StagingInv'
<1>1. PICK batch \in Batches(ArrivalCandidates) : stage_signal_arrivals(batch)
  BY DEF SyncRoutes
<1>2. /\ stage = "topology" /\ stage' = "external" /\ delivered' = {}
      /\ UNCHANGED <<tick, transitions, committed>>
  BY DEF SyncRoutes
<1>3. /\ Sound(World)'
      /\ \A a \in arrivals : a \in arrivals' /\ AsSent(a, World)' = AsSent(a, World)
      /\ \A a \in arrivals' : a \in arrivals \/ a.due >= tick
  BY <1>1, <1>2, ArrivalsStaged DEF StagingInv
<1>4. Dues'
  BY <1>2, <1>3 DEF StagingInv, Dues
<1>5. Kept'
  BY <1>2, <1>3 DEF StagingInv, Kept, StillSent, AsSent
<1> QED
  BY <1>2, <1>3, <1>4, <1>5 DEF StagingInv, Stages, Deliveries, Sound

LEMMA StageExternalKeeps ==
    ASSUME StagingAssumption, StagingInv, StageExternal
    PROVE  StagingInv'
<1>1. PICK batch \in Batches(TransitionCandidates({tick})) :
         stage_transitions(batch, transitions)
  BY DEF StageExternal
<1>2. /\ stage = "external" /\ stage' = "drivers"
      /\ UNCHANGED <<tick, arrivals, certificates, next_id, elements, delivered,
                     committed>>
  BY DEF StageExternal
<1>3. /\ Sound(World)'
      /\ \A t \in transitions' : t \in transitions \/ t.due \in {tick}
  BY <1>1, <1>2, TransitionsStaged DEF StagingInv
<1>4. Dues'
  BY <1>2, <1>3 DEF StagingInv, Dues
<1>5. Kept'
  BY <1>2 DEF StagingInv, Kept, StillSent, AsSent, World
<1> QED
  BY <1>2, <1>3, <1>4, <1>5 DEF StagingInv, Stages, Deliveries, Sound

LEMMA PropagateKeeps ==
    ASSUME StagingAssumption, StagingInv, Propagate
    PROVE  StagingInv'
<1>1. PICK batch \in Batches(ArrivalCandidates) : stage_signal_arrivals(batch)
  BY DEF Propagate
<1>2. /\ stage = "drivers" /\ stage' = "arrivals"
      /\ transitions' = {t \in transitions : t.due > tick}
      /\ UNCHANGED <<tick, delivered, committed>>
  BY DEF Propagate
<1>3. /\ Sound(World)'
      /\ \A a \in arrivals : a \in arrivals' /\ AsSent(a, World)' = AsSent(a, World)
      /\ \A a \in arrivals' : a \in arrivals \/ a.due >= tick
  BY <1>1, <1>2, ArrivalsStaged DEF StagingInv
<1>4. Dues'
  BY <1>2, <1>3 DEF StagingInv, Dues
<1>5. Kept'
  BY <1>2, <1>3 DEF StagingInv, Kept, StillSent, AsSent
<1> QED
  BY <1>2, <1>3, <1>4, <1>5 DEF StagingInv, Stages, Deliveries, Sound

LEMMA ApplyDueArrivalsKeeps ==
    ASSUME StagingAssumption, StagingInv, ApplyDueArrivals
    PROVE  StagingInv'
<1>1. /\ stage = "arrivals" /\ stage' = "schedule"
      /\ UNCHANGED <<tick, transitions, committed>>
  BY DEF ApplyDueArrivals
<1>2. /\ Sound(World)'
      /\ \A a \in arrivals :
            \/ a.due = tick /\ AsSent(a, World) \in delivered'
            \/ a \in arrivals' /\ AsSent(a, World)' = AsSent(a, World)
      /\ \A a \in arrivals' : a \in arrivals /\ a.due # tick
      /\ \A d \in delivered' : d \in Calendar!Sent /\ d.due = tick
  BY DueConsumed DEF StagingInv
<1>3. Dues'
  <2>1. \A a \in arrivals : a.due \in Nat
    BY DEF StagingInv, Sound, Typed, World, Arrivals
  <2> QED
    BY <2>1, <1>1, <1>2 DEF StagingInv, Dues
<1>4. Kept'
  BY <1>1, <1>2 DEF StagingInv, Kept, StillSent, AsSent
<1> QED
  BY <1>1, <1>2, <1>3, <1>4 DEF StagingInv, Stages, Deliveries, Sound

LEMMA ScheduleTransitionsKeeps ==
    ASSUME StagingAssumption, StagingInv, ScheduleTransitions
    PROVE  StagingInv'
<1> DEFINE ahead == (tick + 1)..(tick + Horizon)
<1>1. PICK batch \in Batches(TransitionCandidates(ahead)) :
         stage_transitions(batch, transitions)
  BY DEF ScheduleTransitions
<1>2. /\ stage = "schedule" /\ stage' = "commit"
      /\ UNCHANGED <<tick, arrivals, certificates, next_id, elements, delivered,
                     committed>>
  BY DEF ScheduleTransitions
<1>3. ahead \in SUBSET Nat /\ \A d \in ahead : d > tick
  BY DEF StagingInv, StagingAssumption
<1>4. /\ Sound(World)'
      /\ \A t \in transitions' : t \in transitions \/ t.due \in ahead
  <2> HIDE DEF ahead
  <2> QED
    BY <1>1, <1>2, <1>3, TransitionsStaged DEF StagingInv
<1>5. Dues'
  BY <1>2, <1>3, <1>4 DEF StagingInv, Dues
<1>6. Kept'
  BY <1>2 DEF StagingInv, Kept, StillSent, AsSent, World
<1> QED
  BY <1>2, <1>4, <1>5, <1>6 DEF StagingInv, Stages, Deliveries, Sound

LEMMA CommitKeeps ==
    ASSUME StagingAssumption, StagingInv, Commit
    PROVE  StagingInv'
<1>1. /\ stage = "commit" /\ stage' = "topology" /\ tick' = tick + 1
      /\ committed' = World /\ World' = World /\ UNCHANGED working
  BY DEF Commit, World, working
<1>2. Sound(World)' /\ Sound(committed)'
  BY <1>1 DEF StagingInv, Sound, Typed, Matched, Numbered, Stored, Holds
<1>3. Dues'
  <2>1. /\ \A a \in arrivals : a.due \in Nat /\ a.due > tick
        /\ \A t \in transitions : t.due \in Nat /\ t.due > tick
    BY <1>1 DEF StagingInv, Dues, Sound, Typed, World, Arrivals, DriverTransitions
  <2>2. \A e \in World.arrivals \cup World.transitions : e.due >= tick'
    BY <2>1, <1>1 DEF World, StagingInv
  <2>3. (\A a \in arrivals' : a.due >= tick') /\ (\A t \in transitions' : t.due >= tick')
    BY <2>1, <1>1 DEF StagingInv, working
  <2> QED
    BY <2>2, <2>3, <1>1 DEF Dues
<1>4. Kept'
  BY <1>1 DEF Kept, StillSent, AsSent, World, working
<1> QED
  BY <1>1, <1>2, <1>3, <1>4 DEF StagingInv, Stages, Deliveries

LEMMA DiscardKeeps ==
    ASSUME StagingAssumption, StagingInv, Discard
    PROVE  StagingInv'
<1>1. /\ stage' = "topology" /\ UNCHANGED <<tick, committed>>
      /\ arrivals' = committed.arrivals /\ transitions' = committed.transitions
      /\ next_payload_order' = committed.next_payload_order
      /\ certificates' = committed.certificates /\ next_id' = committed.next_id
      /\ elements' = committed.elements /\ delivered' = committed.delivered
  BY DEF Discard
<1>2. Sound(World)' /\ Sound(committed)'
  BY <1>1 DEF StagingInv, Sound, Typed, Matched, Numbered, Stored, Holds, World
<1>3. Dues'
  BY <1>1 DEF StagingInv, Dues
<1>4. Kept'
  BY <1>1 DEF Kept, StillSent, AsSent, World
<1> QED
  BY <1>1, <1>2, <1>3, <1>4 DEF StagingInv, Stages, Deliveries

(* Every reachable state satisfies the invariant.                          *)
THEOREM StagingHolds ==
    ASSUME StagingAssumption
    PROVE  Spec => []StagingInv
<1>1. Init => StagingInv
  BY StagingInit
<1>2. StagingInv /\ [Next]_vars => StagingInv'
  <2> SUFFICES ASSUME StagingInv, [Next]_vars
               PROVE  StagingInv'
    OBVIOUS
  <2>1. CASE SyncRoutes
    BY <2>1, SyncRoutesKeeps
  <2>2. CASE StageExternal
    BY <2>2, StageExternalKeeps
  <2>3. CASE Propagate
    BY <2>3, PropagateKeeps
  <2>4. CASE ApplyDueArrivals
    BY <2>4, ApplyDueArrivalsKeeps
  <2>5. CASE ScheduleTransitions
    BY <2>5, ScheduleTransitionsKeeps
  <2>6. CASE Commit
    BY <2>6, CommitKeeps
  <2>7. CASE Discard
    BY <2>7, DiscardKeeps
  <2>8. CASE UNCHANGED vars
    <3>1. World' = World /\ UNCHANGED <<tick, stage, arrivals, transitions, delivered, committed>>
      BY <2>8 DEF vars, working, World
    <3> QED
      BY <3>1, ZenonT(60) DEF StagingInv, Sound, Typed, Matched, Numbered, Stored, Holds,
                  Dues, Kept, StillSent, AsSent, Deliveries
  <2> QED
    BY <2>1, <2>2, <2>3, <2>4, <2>5, <2>6, <2>7, <2>8 DEF Next
<1> QED
  BY <1>1, <1>2, PTL DEF Spec

-----------------------------------------------------------------------------
(* What follows from it.                                                   *)

(* Every arrival in flight has a live certificate of its own, and every    *)
(* live certificate an arrival, at every point of a step and after every   *)
(* failure: consume never meets a certificate that is gone, and none leaks.*)
THEOREM CertificatesAlwaysMatch ==
    ASSUME StagingAssumption
    PROVE  Spec => []CertificatesMatchArrivals
<1>1. StagingInv => CertificatesMatchArrivals
  BY DEF StagingInv, Sound, Matched, World, CertificatesMatchArrivals
<1> QED
  BY <1>1, StagingHolds, PTL

(* Payload orders and certificate ids are never given out twice, although  *)
(* two calendars share the allocator and failed steps give numbers back.   *)
THEOREM NumbersStayFresh ==
    ASSUME StagingAssumption
    PROVE  Spec => []NumbersFresh
<1>1. StagingInv => NumbersFresh
  BY DEF StagingInv, Sound, Numbered, World, NumbersFresh
<1> QED
  BY <1>1, StagingHolds, PTL

(* A step that gets to its end passes the validation of the event state:   *)
(* no step is lost there.                                                  *)
THEOREM StagingPassesValidation ==
    ASSUME StagingAssumption
    PROVE  Spec => []ValidationPasses
<1>1. ASSUME StagingInv, stage = "commit"
      PROVE  EventStateValid
  <2>1. /\ \A a \in arrivals : a.due > tick /\ a.payload_order < next_payload_order
        /\ \A t \in transitions : t.due > tick /\ t.payload_order < next_payload_order
    BY <1>1 DEF StagingInv, Dues, Sound, Numbered, World
  <2>2. \A a, b \in arrivals \cup transitions :
           a.payload_order = b.payload_order => a = b
    BY <1>1 DEF StagingInv, Sound, Numbered, World
  <2>3. /\ {a.certificate : a \in arrivals} = DOMAIN certificates
        /\ \A a, b \in arrivals : a.certificate = b.certificate => a = b
    BY <1>1 DEF StagingInv, Sound, Matched, World
  <2>4. \A c \in DOMAIN certificates :
           c \in 1..(next_id - 1) /\ certificates[c].to <= Len(elements)
    <3>1. /\ next_id \in Nat
          /\ \A c \in DOMAIN certificates :
                1 <= c /\ c < next_id /\ certificates[c].to <= Len(elements)
      BY <1>1, PathsAreSequences
         DEF StagingInv, Sound, Typed, Numbered, Stored, World
    <3>2. \A c \in DOMAIN certificates : c \in Nat
      BY <1>1 DEF StagingInv, Sound, Typed, Matched, World, Arrivals
    <3> QED
      BY <3>1, <3>2
  <2>5. \A c, d \in LiveRanges :
           \/ c = d \/ certificates[c].to < certificates[d].from
           \/ certificates[d].to < certificates[c].from
    BY <1>1 DEF StagingInv, Sound, Typed, Stored, World, LiveRanges, Ranges
  <2> QED
    BY <2>1, <2>2, <2>3, <2>4, <2>5 DEF EventStateValid
<1>2. StagingInv => ValidationPasses
  BY <1>1 DEF ValidationPasses
<1> QED
  BY <1>2, StagingHolds, PTL

(* The storage implements the calendar: a step that commits delivers just  *)
(* the arrivals that are due, each with the path it was sent along, and    *)
(* keeps the others; a step that fails changes nothing.                    *)
THEOREM StorageImplementsCalendar ==
    ASSUME StagingAssumption
    PROVE  Spec => ImplementsCalendar
<1> DEFINE flight == {AsSent(a, committed) : a \in committed.arrivals}
<1>1. Init => Calendar!Init
  BY DEF Init, Calendar!Init, World
<1>2. ASSUME StagingInv, Commit
      PROVE  Calendar!Step
  <2>1. /\ stage = "commit" /\ tick' = tick + 1 /\ committed' = World
    BY <1>2 DEF Commit
  <2>2. flight' = {AsSent(a, World) : a \in arrivals} /\ committed'.delivered = delivered
    BY <2>1 DEF World
  <2>3. \A d \in delivered : d \in Calendar!Sent /\ d.due = tick
    BY <1>2, <2>1 DEF StagingInv, Deliveries
  <2>4. \A a \in arrivals : /\ AsSent(a, World) \in Calendar!Sent
                            /\ AsSent(a, World).due > tick
    <3>1. \A a \in arrivals : a \in World.arrivals /\ a.due > tick
      BY <1>2, <2>1 DEF StagingInv, Dues, World
    <3> QED
      BY <1>2, <3>1, InFlightWasSent DEF StagingInv
  <2>5. \A a \in committed.arrivals :
           AsSent(a, committed) \in delivered \cup {AsSent(b, World) : b \in arrivals}
    BY <1>2 DEF StagingInv, Kept, StillSent
  <2>6. /\ \A a \in committed'.delivered : a.due = tick
        /\ \A a \in flight' : a.due > tick
        /\ \A a \in flight : a \in committed'.delivered \cup flight'
        /\ \A a \in (committed'.delivered \cup flight') \ flight : a \in Calendar!Sent
    BY <2>2, <2>3, <2>4, <2>5
  <2> QED
    BY <2>1, <2>6 DEF Calendar!Step
<1>3. ASSUME UNCHANGED <<tick, committed>>
      PROVE  UNCHANGED <<tick, flight, committed.delivered>>
  BY <1>3 DEF AsSent
<1>4. StagingInv /\ [Next]_vars =>
        [Calendar!Step]_<<tick, flight, committed.delivered>>
  <2> SUFFICES ASSUME StagingInv, [Next]_vars
               PROVE  Calendar!Step \/ UNCHANGED <<tick, flight, committed.delivered>>
    OBVIOUS
  <2>1. CASE Commit
    BY <2>1, <1>2
  <2>2. CASE ~Commit
    <3>1. UNCHANGED <<tick, committed>>
      BY <2>2 DEF Next, vars, SyncRoutes, StageExternal, Propagate, ApplyDueArrivals,
                  ScheduleTransitions, Discard
    <3> QED
      BY <3>1, <1>3
  <2> QED
    BY <2>1, <2>2
<1> QED
  BY <1>1, <1>4, StagingHolds, PTL DEF Spec, ImplementsCalendar, Calendar!Spec
=============================================================================
