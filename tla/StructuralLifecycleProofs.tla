---------------------- MODULE StructuralLifecycleProofs ----------------------
(***************************************************************************)
(* For every geometry and every number of entities: nothing that lives     *)
(* refers to what is gone, a destruction can always go on, reservations    *)
(* hold, staged updates have their drivers, what is rewired shows it, and  *)
(* commands leave the track under the mobiles.                             *)
(***************************************************************************)
EXTENDS StructuralLifecycle, TLAPS

(* The shape of the state, with the registry as a sequence of records.     *)
Position == [on : Nat, place : Places \cup {"junction", "nowhere"}, edge : Nat]
Record == [kind : Kinds \cup {"site", "removed"}, plan : Plans \cup {"none"},
           domain : Nat, A : Nat, B : Nat, at : Position,
           generation : Nat, ready : BOOLEAN]
Typed ==
    /\ entities \in Seq(Record)
    /\ stage \in {"destruction", "removal", "activation", "commands", "physics"}

(* An entity is of the kind of its plan; only mobiles are on the track.    *)
OfItsPlan(r) ==
    /\ r.plan \in Plans
    /\ r.kind = "site" \/ r.kind = KindOf[r.plan]
    /\ r.kind = "site" => KindOf[r.plan] # "mobile"
(* It lies in a living substrate of the plan its own plan names, or open.  *)
Housed(r) ==
    IF Host[r.plan] = "open" THEN r.domain = None
    ELSE /\ r.domain \in Live
         /\ entities[r.domain].kind = KindOf[Host[r.plan]]
         /\ entities[r.domain].plan = Host[r.plan]
(* The ends of a wire, built or reserved, lead to living ports in its      *)
(* domain, and in the open world not both to one junction.                 *)
Bound(r, end) ==
    \/ End(r, end) = None
    \/ /\ End(r, end) \in Structure
       /\ entities[End(r, end)].plan \in Touch[r.plan][end]
       /\ IF entities[End(r, end)].kind = "mobile" THEN End(r, end) = r.domain
          ELSE entities[End(r, end)].domain = r.domain
Ended(r) ==
    IF KindOf[r.plan] = "wire"
    THEN /\ Bound(r, "A") /\ Bound(r, "B")
         /\ ~(r.domain = None /\ r.A = r.B /\ r.A \in Of("junction"))
    ELSE r.A = None /\ r.B = None
(* A mobile is carried by an edge of the track, or by a junction of the    *)
(* open world; the edge it came along may be gone.                         *)
Carried(r) ==
    \/ r.at.place \in Places /\ r.at.on \in Edges /\ r.at.edge = r.at.on
    \/ /\ r.at.place = "junction" /\ r.at.on \in Of("junction")
       /\ entities[r.at.on].domain = None
Sound(e) ==
    /\ OfItsPlan(entities[e])
    /\ Housed(entities[e])
    /\ Ended(entities[e])
    /\ entities[e].kind = "mobile" => Carried(entities[e])

(* What stands and what is reserved does not clash.                        *)
KeptApart ==
    \A x, y \in Live : x # y /\ entities[x].domain = entities[y].domain =>
        {entities[x].plan, entities[y].plan} \notin Clash

(* What a site refers to is older than the batch.                          *)
Older ==
    stage = "commands" =>
        \A s \in Sites : \A d \in {entities[s].domain, entities[s].A, entities[s].B} :
            d # None => d < frontier

(* Damage only waits between the phases that commit it and the destruction *)
(* it causes, and what is condemned is closed under dependence.            *)
Closed(causes) == \A e \in Live : Dependencies(e) \cap causes # {} => e \in causes
DamageWaits ==
    /\ pending \subseteq Structure /\ doomed \subseteq Live
    /\ stage \in {"activation", "commands"} => pending = {}
    /\ stage # "removal" => doomed = {}
    /\ stage = "removal" => pending \subseteq doomed /\ Closed(doomed)

LifecycleInv ==
    /\ Typed
    /\ \A e \in Live : Sound(e)
    /\ KeptApart
    /\ Older
    /\ DamageWaits
    /\ UpdatesApply

-----------------------------------------------------------------------------
(* Facts about the registry.                                               *)

LEMMA RegistryShape ==
    ASSUME Typed
    PROVE  /\ Len(entities) \in Nat /\ Ids = 1..Len(entities)
           /\ \A e \in Ids : e \in Nat /\ entities[e] \in Record
           /\ None \notin Ids /\ next_id \notin Ids /\ next_id \in Nat
  BY DEF Typed, Ids, next_id, None

LEMMA Membership ==
    /\ Live \subseteq Ids /\ Sites \subseteq Live /\ Structure \subseteq Live
    /\ Taken = Live
    /\ \A e : e \in Structure <=> e \in Live /\ entities[e].kind # "site"
    /\ \A e : e \in Live <=> e \in Ids /\ entities[e].kind # "removed"
    /\ \A e : e \in Sites <=> e \in Ids /\ entities[e].kind = "site"
  BY DEF Live, Sites, Structure, Of, Taken

(* What a sound entity refers to is standing; substrates are in the open. *)
LEMMA Refers ==
    ASSUME Typed, NEW e \in Live, Sound(e)
    PROVE  /\ entities[e].domain \in Structure \cup {None}
           /\ entities[e].A \in Structure \cup {None}
           /\ entities[e].B \in Structure \cup {None}
           /\ entities[e].domain # None =>
                  entities[entities[e].domain].kind \in Substrates
           /\ entities[e].kind \in Substrates => entities[e].domain = None
           /\ entities[e].kind = "mobile" => entities[e].at.on \in Structure
<1> DEFINE r == entities[e]
<1>1. /\ OfItsPlan(r) /\ Housed(r) /\ Ended(r)
      /\ r.kind = "mobile" => Carried(r)
  BY DEF Sound
<1>2. r.domain \in Structure \cup {None} /\
      (r.domain # None => entities[r.domain].kind \in Substrates)
  BY <1>1, LifecycleAssumption, Membership
     DEF Housed, OfItsPlan, Substrates
<1>3. r.A \in Structure \cup {None} /\ r.B \in Structure \cup {None}
  BY <1>1 DEF Ended, Bound, End
<1>4. r.kind \in Substrates => r.domain = None
  BY <1>1, LifecycleAssumption DEF OfItsPlan, Housed, Substrates
<1>5. r.kind = "mobile" => r.at.on \in Structure
  <2>1. Edges \subseteq Structure /\ Of("junction") \subseteq Structure
    BY Membership DEF Edges, Of
  <2> QED BY <2>1, <1>1 DEF Carried
<1> QED BY <1>2, <1>3, <1>4, <1>5

(* Across a step, an entity looks the same to those that refer to it.      *)
Stands(x) ==
    /\ x \in Ids'
    /\ entities'[x].kind = entities[x].kind
    /\ entities'[x].plan = entities[x].plan
    /\ entities'[x].domain = entities[x].domain

(* Soundness of what stays: its ends may have been freed, and all that it  *)
(* still refers to stands.                                                 *)
LEMMA SoundStays ==
    ASSUME Typed, Typed', NEW e \in Live, Sound(e), Stands(e),
           entities'[e].A \in {entities[e].A, None},
           entities'[e].B \in {entities[e].B, None},
           entities'[e].at = entities[e].at,
           \A x \in {entities[e].domain, entities'[e].A, entities'[e].B} \ {None} :
               Stands(x),
           entities[e].kind = "mobile" => Stands(entities[e].at.on)
    PROVE  Sound(e)'
<1> DEFINE r == entities[e]  q == entities'[e]
<1>1. /\ OfItsPlan(r) /\ Housed(r) /\ Ended(r)
      /\ r.kind = "mobile" => Carried(r)
  BY DEF Sound
<1>2. q.kind = r.kind /\ q.plan = r.plan /\ q.domain = r.domain /\ q.at = r.at
  BY DEF Stands
<1>3. OfItsPlan(entities[e])'
  BY <1>1, <1>2 DEF OfItsPlan
<1>4. Housed(entities[e])'
  <2>1. r.domain # None => Stands(r.domain)
    OBVIOUS
  <2>2. r.domain \in Live => r.domain # None
    BY Membership, RegistryShape
  <2>3. \A x : x \in Live /\ Stands(x) => x \in Live'
    BY Membership DEF Live, Stands
  <2> QED BY <1>1, <1>2, <2>1, <2>2, <2>3 DEF Housed, Stands
<1>5. Ended(entities[e])'
  <2>1. \A x \in Structure : Stands(x) => x \in Structure'
    BY Membership DEF Structure, Live, Sites, Of, Stands
  <2>2. ASSUME NEW end \in Ends, Bound(r, end) PROVE Bound(entities[e], end)'
    <3>1. End(q, end) = None \/ End(q, end) = End(r, end)
      BY DEF End
    <3>2. End(q, end) # None => Stands(End(q, end))
      BY DEF End, Ends
    <3>3. CASE End(q, end) = None
      BY <3>3 DEF Bound, None
    <3>4. CASE End(q, end) # None
      <4>1. End(q, end) = End(r, end) /\ Stands(End(r, end)) /\ End(r, end) \in Structure
        BY <3>1, <3>2, <3>4, <2>2 DEF Bound
      <4>2. End(r, end) \in Structure'
        BY <4>1, <2>1
      <4> DEFINE x == End(r, end)
      <4>3. /\ entities'[x].kind = entities[x].kind /\ entities'[x].plan = entities[x].plan
            /\ entities'[x].domain = entities[x].domain
        BY <4>1 DEF Stands
      <4>4. /\ entities[x].plan \in Touch[r.plan][end]
            /\ IF entities[x].kind = "mobile" THEN x = r.domain
               ELSE entities[x].domain = r.domain
        BY <2>2, <4>1, <3>4 DEF Bound
      <4>5. End(q, end) = x
        BY <4>1
      <4> HIDE DEF x
      <4> QED BY <4>2, <4>3, <4>4, <4>5, <1>2 DEF Bound, x
    <3> QED BY <3>3, <3>4
  <2>3. q.A = q.B /\ q.A \in Of("junction")' => r.A = r.B /\ r.A \in Of("junction")
    <3>1. ASSUME q.A = q.B, q.A \in Of("junction")'
          PROVE  r.A = r.B /\ r.A \in Of("junction")
      <4>1. q.A # None
        BY <3>1, RegistryShape DEF Typed, Of, Ids, None
      <4>2. q.A = r.A /\ q.B = r.B /\ Stands(q.A)
        BY <3>1, <4>1
      <4>3. q.A \in Structure
        BY <4>1, <4>2, Refers
      <4> QED BY <3>1, <4>2, <4>3, Membership DEF Of, Stands
    <3> QED BY <3>1
  <2>4. CASE KindOf[r.plan] = "wire"
    <3>1. Bound(r, "A") /\ Bound(r, "B")
          /\ ~(r.domain = None /\ r.A = r.B /\ r.A \in Of("junction"))
      BY <1>1, <2>4 DEF Ended
    <3>2. Bound(entities[e], "A")' /\ Bound(entities[e], "B")'
      BY <3>1, <2>2 DEF Ends
    <3> QED BY <3>1, <3>2, <2>3, <2>4, <1>2 DEF Ended, None
  <2>5. CASE KindOf[r.plan] # "wire"
    <3>1. r.A = None /\ r.B = None
      BY <2>5, <1>1 DEF Ended
    <3>2. q.A = 0 /\ q.B = 0 /\ KindOf[q.plan] # "wire"
      BY <3>1, <2>5, <1>2 DEF None
    <3> QED BY <3>2 DEF Ended, None
  <2> QED BY <2>4, <2>5
<1>6. (entities[e].kind = "mobile" => Carried(entities[e]))'
  <2>1. SUFFICES ASSUME r.kind = "mobile" PROVE Carried(entities[e])'
    BY <1>2
  <2>2. Carried(r) /\ Stands(r.at.on)
    BY <2>1, <1>1
  <2>3. r.at.on \in Edges => r.at.on \in Edges'
    BY <2>2 DEF Edges, Of, Stands, None
  <2>4. r.at.on \in Of("junction") => r.at.on \in Of("junction")'
    BY <2>2 DEF Of, Stands
  <2>5. entities'[r.at.on].domain = entities[r.at.on].domain
    BY <2>2 DEF Stands
  <2> QED BY <2>2, <2>3, <2>4, <2>5, <1>2 DEF Carried, None
<1> QED BY <1>3, <1>4, <1>5, <1>6 DEF Sound

(* Soundness of what is new, or bound anew: it has been validated.         *)
LEMMA SoundPlaced ==
    ASSUME Typed, Typed', NEW x \in Ids', NEW plan \in Plans, NEW domain, NEW a, NEW b,
           entities'[x].plan = plan, entities'[x].domain = domain,
           entities'[x].A = a, entities'[x].B = b,
           \/ entities'[x].kind = KindOf[plan]
           \/ entities'[x].kind = "site" /\ KindOf[plan] # "mobile",
           \/ Host[plan] = "open" /\ domain = None
           \/ /\ Host[plan] # "open" /\ domain \in Live
              /\ entities[domain].kind = KindOf[Host[plan]]
              /\ entities[domain].plan = Host[plan],
           EndsValid(plan, domain, a, b),
           \A y \in {domain, a, b} \cap Live : Stands(y),
           (entities[x].kind = "mobile" => Carried(entities[x]))'
    PROVE  Sound(x)'
<1> DEFINE q == entities'[x]
<1>1. OfItsPlan(entities[x])'
  BY LifecycleAssumption DEF OfItsPlan, Kinds
<1>2. \A y \in Live : Stands(y) => y \in Live'
  BY Membership DEF Live, Stands
<1>3. Housed(entities[x])'
  BY <1>2 DEF Housed, Stands, None
<1>4. Ended(entities[x])'
  <2>1. ASSUME NEW end \in Ends, NEW target \in {a, b}, EndValid(plan, domain, end, target),
               End(q, end) = target
        PROVE  Bound(entities[x], end)'
    <3>1. CASE target = None
      BY <3>1, <2>1 DEF Bound, None
    <3>2. CASE target # None
      <4>1. /\ target \in Live /\ entities[target].kind # "site"
            /\ entities[target].plan \in Touch[plan][end]
            /\ IF entities[target].kind = "mobile" THEN target = domain
               ELSE entities[target].domain = domain
        BY <2>1, <3>2 DEF EndValid, Known
      <4>2. Stands(target)
        BY <4>1
      <4>3. target \in Structure'
        BY <4>1, <4>2 DEF Stands, Structure, Live, Sites, Of
      <4> QED BY <4>1, <4>2, <4>3, <2>1 DEF Bound, Stands
    <3> QED BY <3>1, <3>2
  <2>2. CASE KindOf[plan] = "wire"
    <3>1. /\ EndValid(plan, domain, "A", a) /\ EndValid(plan, domain, "B", b)
          /\ ~(domain = None /\ a = b /\ a \in Of("junction"))
      BY <2>2 DEF EndsValid
    <3>2. Bound(entities[x], "A")' /\ Bound(entities[x], "B")'
      BY <3>1, <2>1 DEF End, Ends
    <3>3. a \in Of("junction")' => a \in Of("junction")
      <4>1. a = None \/ a \in Live
        BY <3>1 DEF EndValid, Known
      <4>2. a = None => a \notin Of("junction")'
        BY RegistryShape DEF Typed, Of, Ids, None
      <4> QED BY <4>1, <4>2, Membership DEF Of, Stands
    <3> QED BY <3>1, <3>2, <3>3, <2>2 DEF Ended, None
  <2>3. CASE KindOf[plan] # "wire"
    <3>1. a = 0 /\ b = 0
      BY <2>3 DEF EndsValid, None
    <3> QED BY <3>1, <2>3 DEF Ended, None
  <2> QED BY <2>2, <2>3
<1> QED BY <1>1, <1>3, <1>4 DEF Sound

-----------------------------------------------------------------------------
(* What the invariant says of every reachable state.                       *)

LEMMA DependsOnStanding ==
    ASSUME LifecycleInv, NEW e \in Live
    PROVE  Dependencies(e) \subseteq Structure
  BY Refers DEF LifecycleInv, Dependencies, DependenciesOf, track_support

LEMMA InvNothingDangles == LifecycleInv => NothingDangles
<1> SUFFICES ASSUME LifecycleInv, NEW e \in Live
             PROVE  /\ Dependencies(e) \subseteq Live
                    /\ {entities[e].A, entities[e].B} \subseteq Live \cup {None}
  BY DEF NothingDangles
<1>1. Typed /\ Sound(e)
  BY DEF LifecycleInv
<1> QED BY <1>1, DependsOnStanding, Refers, Membership

(* Dependence goes down four layers: sites, what lies in a substrate,      *)
(* mobiles, what is in the open world.                                     *)
Layer(e) ==
    LET r == entities[e]
    IN  IF r.kind = "site" THEN 4
        ELSE IF r.kind \notin Substrates /\ r.domain # None THEN 3
        ELSE IF r.kind = "mobile" THEN 2 ELSE 1

LEMMA DependenceGoesDown ==
    ASSUME LifecycleInv, NEW e \in Live, NEW x \in Dependencies(e)
    PROVE  Layer(x) < Layer(e)
<1> DEFINE r == entities[e]  q == entities[x]
<1>1. x \in Structure /\ q.kind # "site"
  BY DependsOnStanding, Membership
<1>2. Layer(x) \in 1..3
  BY <1>1 DEF Layer
<1>3. Typed /\ Sound(e) /\ r.kind \in Kinds \cup {"site", "removed"}
  BY RegistryShape, Membership DEF LifecycleInv, Record
<1>4. CASE r.kind = "site"
  BY <1>4, <1>2 DEF Layer
<1>5. CASE r.kind = "mobile"
  <2>1. x = r.at.on
    BY <1>5 DEF Dependencies, DependenciesOf, track_support
  <2>2. Carried(r) /\ r.domain = None
    BY <1>3, <1>5, Refers DEF Sound, Substrates
  <2>3. q.kind \in {"wire", "junction"} /\ q.domain = None
    BY <2>1, <2>2 DEF Carried, Edges, Of
  <2> QED BY <2>2, <2>3, <1>5 DEF Layer, Substrates
<1>6. CASE r.kind \notin {"site", "mobile"}
  <2>1. x = r.domain /\ x # None
    BY <1>6 DEF Dependencies, DependenciesOf
  <2>2. q.kind \in Substrates /\ r.kind \notin Substrates
    BY <2>1, <1>3, Refers
  <2> QED BY <2>1, <2>2, <1>6 DEF Layer, Substrates
<1> QED BY <1>4, <1>5, <1>6

(* So an uppermost one of the condemned has nobody depending on it.        *)
LEMMA SomeoneCanGo ==
    ASSUME LifecycleInv, doomed # {}
    PROVE  \E e \in doomed : DependentFirst(e)
<1>1. doomed \subseteq Live /\ \A e \in doomed : Layer(e) \in 1..4
  BY DEF LifecycleInv, DamageWaits, Layer
<1>2. \E e \in doomed : \A d \in doomed : Layer(d) <= Layer(e)
  <2> DEFINE Some(n) == \E e \in doomed : Layer(e) = n
  <2>1. CASE Some(4)
    BY <2>1, <1>1
  <2>2. CASE ~Some(4) /\ Some(3)
    BY <2>2, <1>1
  <2>3. CASE ~Some(4) /\ ~Some(3) /\ Some(2)
    BY <2>3, <1>1
  <2>4. CASE ~Some(4) /\ ~Some(3) /\ ~Some(2)
    BY <2>4, <1>1
  <2> QED BY <2>1, <2>2, <2>3, <2>4
<1>3. PICK e \in doomed : \A d \in doomed : Layer(d) <= Layer(e)
  BY <1>2
<1>4. \A d \in doomed : e \notin Dependencies(d)
  BY <1>1, <1>3, DependenceGoesDown
<1> QED BY <1>4 DEF DependentFirst

LEMMA InvRemovalGoesOn == LifecycleInv => RemovalGoesOn
  BY SomeoneCanGo DEF LifecycleInv, DamageWaits, RemovalGoesOn

LEMMA InvReservationHolds == LifecycleInv => ReservationHolds
<1> SUFFICES ASSUME LifecycleInv, stage \in {"activation", "commands"}, NEW s \in Sites
             PROVE  LET r == entities[s]
                    IN  CanPlace(r.plan, r.domain, r.A, r.B, Taken \ {s})
  BY DEF ReservationHolds
<1> DEFINE r == entities[s]
<1>1. s \in Live /\ Typed /\ Sound(s)
  BY Membership DEF LifecycleInv
<1>2. OfItsPlan(r) /\ Housed(r) /\ Ended(r)
  BY <1>1 DEF Sound
<1>3. \A d \in {r.domain, r.A, r.B} : d # None /\ d \in Live => Known(d)
  BY DEF LifecycleInv, Older, Known
<1>4. InDomain(r.plan, r.domain)
  BY <1>2, <1>3, <1>1, RegistryShape, Membership DEF InDomain, Housed
<1>5. EndsValid(r.plan, r.domain, r.A, r.B)
  <2>1. ASSUME NEW end \in Ends, Bound(r, end)
        PROVE  EndValid(r.plan, r.domain, end, End(r, end))
    <3>1. End(r, end) \in Structure => End(r, end) \in Live /\ entities[End(r, end)].kind # "site"
      BY Membership
    <3>2. End(r, end) # None /\ End(r, end) \in Live => Known(End(r, end))
      BY <1>3 DEF End
    <3> QED BY <2>1, <3>1, <3>2 DEF Bound, EndValid
  <2>2. End(r, "A") = r.A /\ End(r, "B") = r.B
    BY DEF End
  <2> QED BY <1>2, <2>1, <2>2 DEF Ended, EndsValid, Ends
<1>6. ~ClashesWith(r.plan, r.domain, Taken \ {s})
  BY <1>1, Membership DEF LifecycleInv, KeptApart, ClashesWith
<1> QED BY <1>4, <1>5, <1>6 DEF CanPlace

LEMMA InvGivesAll ==
    LifecycleInv => RefersToTheLiving /\ PromisesHold
  BY InvNothingDangles, InvRemovalGoesOn, InvReservationHolds
     DEF RefersToTheLiving, PromisesHold, LifecycleInv

-----------------------------------------------------------------------------
(* What steps of each kind do to the registry.                             *)

(* Nothing at all.                                                         *)
LEMMA RegistryUnchanged ==
    ASSUME entities' = entities
    PROVE  /\ Live' = Live /\ Sites' = Sites /\ Structure' = Structure
           /\ Of("gate")' = Of("gate")
           /\ \A e : Sound(e) => Sound(e)'
           /\ KeptApart => KeptApart'
           /\ \A causes : Closed(causes) => Closed(causes)'
<1>1. /\ Live' = Live /\ Sites' = Sites /\ Structure' = Structure
      /\ Of("gate")' = Of("gate") /\ Of("junction")' = Of("junction")
      /\ Edges' = Edges
  BY DEF Live, Sites, Structure, Of, Ids, Edges
<1>2. \A e : Sound(e) => Sound(e)'
  BY <1>1 DEF Sound, OfItsPlan, Housed, Ended, Bound, Carried, End, None
<1>3. KeptApart => KeptApart'
  BY <1>1 DEF KeptApart
<1>4. \A causes : Closed(causes) => Closed(causes)'
  BY <1>1 DEF Closed, Dependencies, DependenciesOf, track_support, None
<1> QED BY <1>1, <1>2, <1>3, <1>4

(* Records change, but nobody comes, goes or turns into something else.    *)
LEMMA SameFolk ==
    ASSUME Ids' = Ids, \A x \in Ids : Stands(x)
    PROVE  /\ Live' = Live /\ Sites' = Sites /\ Structure' = Structure
           /\ \A kind : Of(kind)' = Of(kind)
           /\ KeptApart => KeptApart'
<1>1. \A kind : Of(kind)' = Of(kind)
  BY DEF Of, Stands
<1>2. Live' = Live
  BY DEF Live, Stands
<1>3. Sites' = Sites /\ Structure' = Structure
  BY <1>1, <1>2 DEF Sites, Structure
<1>4. KeptApart => KeptApart'
  BY <1>2, Membership DEF KeptApart, Stands
<1> QED BY <1>1, <1>2, <1>3, <1>4

LEMMA SameEntity ==
    ASSUME LifecycleInv, Typed', NEW e \in Live, Stands(e),
           \A x \in Ids : Stands(x),
           entities'[e].A = entities[e].A, entities'[e].B = entities[e].B,
           entities'[e].at = entities[e].at
    PROVE  Sound(e)'
<1>1. Typed /\ Sound(e)
  BY DEF LifecycleInv
<1>2. \A x \in {entities[e].domain, entities[e].A, entities[e].B} \ {None} : Stands(x)
  BY <1>1, Refers, Membership
<1>3. entities[e].kind = "mobile" => Stands(entities[e].at.on)
  BY <1>1, Refers, Membership
<1> QED BY <1>1, <1>2, <1>3, SoundStays

(* One comes, by placement, or in the place of a site.                     *)
Comes(n, plan, domain, a, b, gone) ==
    /\ gone \subseteq Sites /\ n = next_id
    /\ Ids' = Ids \cup {n}
    /\ \A x \in Ids \ gone : entities'[x] = entities[x]
    /\ \A x \in gone : entities'[x].kind = "removed"
    /\ entities'[n].plan = plan /\ entities'[n].domain = domain
    /\ entities'[n].A = a /\ entities'[n].B = b
    /\ \/ entities'[n].kind = KindOf[plan]
       \/ entities'[n].kind = "site" /\ KindOf[plan] # "mobile"
    /\ InDomain(plan, domain) /\ EndsValid(plan, domain, a, b)
    /\ \A y \in Live \ gone : entities[y].domain = domain =>
           {plan, entities[y].plan} \notin Clash
    /\ \/ entities'[n].at = Nowhere /\ entities'[n].kind # "mobile"
       \/ \E w \in Edges, place \in Places : entities'[n].at = OnEdge(w, place)

LEMMA Planted ==
    ASSUME LifecycleInv, Typed', NEW plan \in Plans, NEW domain, NEW a, NEW b,
           NEW gone, NEW n, Comes(n, plan, domain, a, b, gone)
    PROVE  /\ Live' = (Live \ gone) \cup {n}
           /\ Structure \subseteq Structure'
           /\ Sites' \subseteq Sites \cup {n}
           /\ \A e \in Live' : Sound(e)'
           /\ KeptApart'
<1> USE DEF Comes
<1> DEFINE q == entities'[n]
<1>1. Typed /\ (\A e \in Live : Sound(e)) /\ KeptApart
  BY DEF LifecycleInv
<1>2. n \notin Ids /\ gone \subseteq Ids
  BY <1>1, RegistryShape, Membership
<1>3. q.kind \in Kinds \cup {"site"} /\ q.kind # "removed"
  BY LifecycleAssumption DEF Kinds
<1>4. Live' = (Live \ gone) \cup {n}
  BY <1>2, <1>3, Membership DEF Live
<1>5. Structure \subseteq Structure' /\ Sites' \subseteq Sites \cup {n}
  <2>1. Sites' \subseteq Sites \cup {n}
    BY <1>2 DEF Sites, Of
  <2>2. Structure \subseteq Structure'
    BY <1>2, <1>4, <2>1, Membership DEF Structure
  <2> QED BY <2>1, <2>2
<1>6. \A x \in Ids \ gone : Stands(x)
  BY DEF Stands
<1>7. \A x \in Structure : Stands(x) /\ x \in Ids \ gone
  BY <1>6, Membership
<1>8. \A e \in Live \ gone : Sound(e)'
  <2>1. SUFFICES ASSUME NEW e \in Live \ gone PROVE Sound(e)'
    OBVIOUS
  <2>2. entities'[e] = entities[e] /\ Stands(e) /\ Sound(e)
    BY <1>1, <1>6, Membership
  <2>3. \A x \in {entities[e].domain, entities[e].A, entities[e].B} \ {None} : Stands(x)
    BY <1>1, <1>7, Refers
  <2>4. entities[e].kind = "mobile" => Stands(entities[e].at.on)
    BY <1>1, <1>7, Refers
  <2> QED BY <1>1, <2>2, <2>3, <2>4, SoundStays
<1>9. Sound(n)'
  <2>1. \/ Host[plan] = "open" /\ domain = None
        \/ /\ Host[plan] # "open" /\ domain \in Live
           /\ entities[domain].kind = KindOf[Host[plan]]
           /\ entities[domain].plan = Host[plan]
    BY DEF InDomain, Known
  <2>2. domain \in Live => domain \in Structure
    BY <2>1, <1>1, RegistryShape, LifecycleAssumption, Membership DEF Substrates
  <2>3. \A y \in {a, b} : y \in Live => y \in Structure
    <3>1. a \in Live => a \in Structure
      BY <1>1, RegistryShape, Membership DEF EndsValid, EndValid
    <3>2. b \in Live => b \in Structure
      BY <1>1, RegistryShape, Membership DEF EndsValid, EndValid
    <3> QED BY <3>1, <3>2
  <2>4. \A y \in {domain, a, b} \cap Live : Stands(y)
    BY <2>2, <2>3, <1>7
  <2>5. (entities[n].kind = "mobile" => Carried(entities[n]))'
    <3>1. Edges \subseteq Edges'
      <4>1. \A w \in Edges : w \in Structure
        BY Membership DEF Edges, Of
      <4> QED BY <4>1, <1>7 DEF Edges, Of, Stands, None
    <3>2. \A w, place : /\ OnEdge(w, place).place = place
                        /\ OnEdge(w, place).on = w /\ OnEdge(w, place).edge = w
      BY DEF OnEdge, On
    <3>3. q.kind = "mobile" => q.at.place \in Places /\ q.at.on \in Edges /\ q.at.edge = q.at.on
      BY <3>2
    <3> QED BY <3>1, <3>3 DEF Carried
  <2> QED BY <1>1, <2>1, <2>4, <2>5, SoundPlaced
<1>10. KeptApart'
  <2>1. SUFFICES ASSUME NEW x \in Live', NEW y \in Live', x # y,
                        entities'[x].domain = entities'[y].domain
                 PROVE  {entities'[x].plan, entities'[y].plan} \notin Clash
    BY DEF KeptApart
  <2>2. \A z \in Live \ gone : entities'[z] = entities[z]
    BY Membership
  <2>3. CASE x # n /\ y # n
    BY <2>1, <2>2, <2>3, <1>1, <1>4 DEF KeptApart
  <2>4. CASE x = n
    BY <2>1, <2>2, <2>4, <1>4
  <2>5. CASE y = n
    <3>1. {plan, entities'[x].plan} \notin Clash
      BY <2>1, <2>2, <2>5, <1>4
    <3>2. {entities'[x].plan, entities'[y].plan} = {plan, entities'[x].plan}
      BY <2>5
    <3> QED BY <3>1, <3>2
  <2> QED BY <2>3, <2>4, <2>5
<1> QED BY <1>4, <1>5, <1>8, <1>9, <1>10

(* One goes that nobody depends on.                                        *)
LEMMA RecordsStayRecords ==
    /\ Tombstone \in Record /\ Tombstone.kind = "removed"
    /\ \A r \in Record : \A e :
          /\ Freed(r, e) \in Record
          /\ Freed(r, e).A = (IF r.A = e THEN None ELSE r.A)
          /\ Freed(r, e).B = (IF r.B = e THEN None ELSE r.B)
          /\ Freed(r, e).kind = r.kind /\ Freed(r, e).plan = r.plan
          /\ Freed(r, e).domain = r.domain /\ Freed(r, e).at = r.at
          /\ Freed(r, e).generation = r.generation
<1>1. Tombstone \in Record /\ Tombstone.kind = "removed"
  BY DEF Tombstone, Entity, Record, Position, Nowhere, On, None
<1>2. ASSUME NEW r \in Record, NEW e
      PROVE  /\ Freed(r, e) \in Record
             /\ Freed(r, e).A = (IF r.A = e THEN None ELSE r.A)
             /\ Freed(r, e).B = (IF r.B = e THEN None ELSE r.B)
             /\ Freed(r, e).kind = r.kind /\ Freed(r, e).plan = r.plan
             /\ Freed(r, e).domain = r.domain /\ Freed(r, e).at = r.at
             /\ Freed(r, e).generation = r.generation
  BY DEF Freed, Record, None
<1> QED BY <1>1, <1>2

LEMMA Removal ==
    ASSUME LifecycleInv, stage' = stage, NEW e \in Live, Remove(e),
           \A d \in Live : e \notin Dependencies(d)
    PROVE  /\ Typed' /\ Ids' = Ids
           /\ Live' = Live \ {e} /\ Sites' = Sites \ {e} /\ Structure' = Structure \ {e}
           /\ \A x \in Ids \ {e} : entities'[x] \in {entities[x], Freed(entities[x], e)}
           /\ \A x \in Sites' : entities'[x] = entities[x]
           /\ \A x \in Live' : Sound(x)' /\ Dependencies(x)' = Dependencies(x)
           /\ KeptApart'
<1>1. Typed /\ (\A x \in Live : Sound(x)) /\ KeptApart
  BY DEF LifecycleInv
<1>2. /\ Len(entities) \in Nat /\ Ids = 1..Len(entities) /\ None \notin Ids
      /\ \A x \in Ids : entities[x] \in Record
  BY <1>1, RegistryShape
<1>3. entities' = [x \in Ids |-> IF x = e THEN Tombstone
                                 ELSE IF x \in Loosened(e) THEN Freed(entities[x], e)
                                 ELSE entities[x]]
  BY DEF Remove
<1>4. Ids' = Ids /\ entities'[e] = Tombstone
      /\ \A x \in Ids \ {e} : entities'[x] = IF x \in Loosened(e) THEN Freed(entities[x], e)
                                            ELSE entities[x]
  BY <1>3, Membership DEF Ids
<1>5. Typed'
  <2>1. \A x \in Ids : entities'[x] \in Record
    BY <1>2, <1>4, RecordsStayRecords
  <2>2. entities' \in Seq(Record)
    BY <2>1, <1>2, <1>3
  <2> QED BY <2>2, <1>1 DEF Typed
<1>6. \A x \in Ids \ {e} :
        /\ Stands(x) /\ entities'[x].at = entities[x].at
        /\ entities'[x].A \in {entities[x].A, None}
        /\ entities'[x].B \in {entities[x].B, None}
  BY <1>2, <1>4, RecordsStayRecords DEF Stands
<1>7. Live' = Live \ {e}
  <2>1. entities'[e].kind = "removed"
    BY <1>4, RecordsStayRecords
  <2> QED BY <2>1, <1>4, <1>6 DEF Live, Stands
<1>8. Sites' = Sites \ {e} /\ Structure' = Structure \ {e}
  <2>1. Sites' = Sites \ {e}
    BY <1>4, <1>6, <1>7, Membership, RecordsStayRecords DEF Sites, Of, Stands
  <2> QED BY <2>1, <1>7 DEF Structure
<1>9. \A x \in Sites' : entities'[x] = entities[x]
  BY <1>4, <1>8, Membership DEF Loosened, Sites, Of
<1>10. ASSUME NEW x \in Live' PROVE Sound(x)'
  <2> DEFINE r == entities[x]  q == entities'[x]
  <2>1. x \in Live /\ x \in Ids \ {e} /\ Sound(x) /\ r \in Record
    BY <1>1, <1>2, <1>7, Membership
  <2>2. r.domain # e
    <3>1. r.domain = e => e \in Dependencies(x) \/ r.kind = "mobile"
      BY <1>2, Membership DEF Dependencies, DependenciesOf
    <3>2. r.kind = "mobile" => r.domain = None
      BY <1>1, <2>1, Refers DEF Substrates
    <3> QED BY <2>1, <3>1, <3>2, <1>2, Membership
  <2>3. ASSUME NEW end \in Ends, End(r, end) = e, Bound(r, end), r.kind = "wire",
               KindOf[r.plan] = "wire"
        PROVE  x \in Loosened(e)
    <3>1. End(r, end) # None
      BY <2>3, <1>2, Membership
    <3>2. /\ e \in Structure /\ entities[e].plan \in Touch[r.plan][end]
          /\ entities[e].kind # "mobile"
      BY <3>1, <2>2, <2>3 DEF Bound
    <3>3. entities[e].kind = KindOf[entities[e].plan] /\ r.plan \in Plans
      BY <3>2, <1>1, <2>1, Membership DEF Sound, OfItsPlan
    <3>4. entities[e].kind \in {"gate", "wire", "junction"}
      BY <3>2, <3>3, <2>3, LifecycleAssumption
    <3>5. e \in {r.A, r.B}
      BY <2>3 DEF End
    <3> QED BY <3>4, <3>5, <2>1, <2>3 DEF Loosened, Of
  <2>4. ASSUME NEW end \in Ends PROVE End(q, end) # e
    <3>1. SUFFICES ASSUME End(q, end) = e PROVE FALSE
      OBVIOUS
    <3>2. e # None
      BY <1>2, Membership
    <3>3. End(r, end) = e
      BY <3>1, <3>2, <1>6, <2>1 DEF End
    <3>4. x \notin Loosened(e)
      BY <3>1, <3>2, <2>1, <1>4, RecordsStayRecords DEF End
    <3>5. r.kind # "site"
      BY <3>2, <3>3, <2>1 DEF Dependencies, DependenciesOf, End
    <3>6. OfItsPlan(r) /\ Ended(r)
      BY <2>1 DEF Sound
    <3>7. KindOf[r.plan] = "wire" /\ r.kind = "wire"
      BY <3>2, <3>3, <3>5, <3>6 DEF Ended, End, OfItsPlan
    <3>8. Bound(r, end)
      BY <3>6, <3>7 DEF Ended, Ends
    <3> QED BY <2>3, <3>3, <3>4, <3>7, <3>8
  <2>5. q.A # e /\ q.B # e
    BY <2>4 DEF End, Ends
  <2>6. \A y \in {r.domain, q.A, q.B} \ {None} : Stands(y)
    <3>1. \A y \in {r.domain, q.A, q.B} \ {None} : y \in Structure
      BY <1>1, <1>6, <2>1, Refers
    <3> QED BY <3>1, <2>2, <2>5, <1>6, Membership
  <2>7. r.kind = "mobile" => Stands(r.at.on)
    <3>1. r.kind = "mobile" => r.at.on \in Structure
      BY <1>1, <2>1, Refers
    <3>2. r.kind = "mobile" => r.at.on # e
      BY <3>1, <1>2, <2>1, Membership DEF Dependencies, DependenciesOf, track_support
    <3> QED BY <3>1, <3>2, <1>6, Membership
  <2> QED BY <1>1, <1>5, <1>6, <2>1, <2>6, <2>7, SoundStays
<1>11. ASSUME NEW x \in Live' PROVE Dependencies(x)' = Dependencies(x)
  <2>1. x \in Ids \ {e} /\ x \in Live
    BY <1>7, Membership
  <2>2. entities'[x].kind = entities[x].kind /\ entities'[x].domain = entities[x].domain
        /\ entities'[x].at = entities[x].at
    BY <2>1, <1>6 DEF Stands
  <2>3. entities[x].kind = "site" => entities'[x] = entities[x]
    BY <2>1, <1>4 DEF Loosened, Of
  <2> QED BY <2>2, <2>3 DEF Dependencies, DependenciesOf, track_support, None
<1>12. KeptApart'
  BY <1>1, <1>6, <1>7, Membership DEF KeptApart, Stands
<1> QED BY <1>4, <1>5, <1>7, <1>8, <1>9, <1>10, <1>11, <1>12

-----------------------------------------------------------------------------
(* The invariant holds at first, and every action keeps it.                *)

LEMMA LifecycleInit == Init => LifecycleInv
<1> SUFFICES ASSUME Init PROVE LifecycleInv
  OBVIOUS
<1>1. entities = <<>> /\ Ids = {}
  BY DEF Init, Ids
<1>2. Live = {} /\ Sites = {} /\ Structure = {}
  BY <1>1, Membership
<1> QED BY <1>1, <1>2
        DEF Init, LifecycleInv, Typed, KeptApart, Older, DamageWaits, UpdatesApply

LEMMA NewRecord ==
    ASSUME Typed, NEW plan \in Plans, NEW domain \in References,
           NEW a \in References, NEW b \in References, NEW at \in Standing,
           NEW kind \in Kinds \cup {"site"}
    PROVE  Entity(kind, plan, domain, a, b, at) \in Record
<1>1. References \subseteq Nat
  BY RegistryShape, Membership DEF References, None
<1>2. at \in Position
  <2>1. Edges \subseteq Nat
    BY RegistryShape DEF Edges, Of
  <2> QED BY <2>1 DEF Standing, Nowhere, OnEdge, On, None, Position
<1> QED BY <1>1, <1>2 DEF Entity, Record

LEMMA Appended ==
    ASSUME Typed, NEW r \in Record, NEW n, n = next_id, stage' = stage,
           entities' = Append(entities, r)
    PROVE  /\ Typed' /\ Ids' = Ids \cup {n} /\ entities'[n] = r
           /\ \A x \in Ids : entities'[x] = entities[x]
<1>1. entities \in Seq(Record) /\ n = Len(entities) + 1 /\ Ids = 1..Len(entities)
      /\ Len(entities) \in Nat
  BY RegistryShape DEF Typed, next_id
<1>2. /\ entities' \in Seq(Record) /\ Len(entities') = n /\ entities'[n] = r
      /\ \A x \in 1..Len(entities) : entities'[x] = entities[x]
  BY <1>1
<1>3. Ids' = 1..n
  BY <1>2 DEF Ids
<1> QED BY <1>1, <1>2, <1>3 DEF Typed

(* In the batch there is no damage, and nothing is staged yet.             *)
LEMMA BatchIsCalm ==
    ASSUME LifecycleInv, stage = "commands", UNCHANGED <<stage, pending, doomed>>
    PROVE  DamageWaits' /\ UpdatesApply'
  BY DEF LifecycleInv, DamageWaits, UpdatesApply

LEMMA PlaceStep ==
    ASSUME LifecycleInv, NEW plan \in Plans, NEW domain \in References,
           NEW a \in References, NEW b \in References, Place(plan, domain, a, b)
    PROVE  LifecycleInv'
<1>1. Typed /\ stage = "commands" /\ CanPlace(plan, domain, a, b, Live)
      /\ UNCHANGED <<stage, frontier, pending, doomed>>
  BY Membership DEF LifecycleInv, Place
<1>2. PICK at \in Standing : /\ locate(plan, at)
                             /\ entities' = Append(entities, New(plan, domain, a, b, at))
  BY DEF Place
<1>3. PICK n : n = next_id
  OBVIOUS
<1> DEFINE r == New(plan, domain, a, b, at)
<1>4. r \in Record /\ r.kind = KindOf[plan] /\ KindOf[plan] \in Kinds
      /\ r.plan = plan /\ r.domain = domain /\ r.A = a /\ r.B = b /\ r.at = at
  <2>1. KindOf[plan] \in Kinds
    BY LifecycleAssumption
  <2>2. r \in Record
    BY <2>1, <1>1, NewRecord DEF New
  <2> QED BY <2>1, <2>2 DEF New, Entity
<1>5. /\ Typed' /\ Ids' = Ids \cup {n} /\ entities'[n] = r
      /\ \A x \in Ids : entities'[x] = entities[x]
  BY <1>1, <1>2, <1>3, <1>4, Appended
<1>6. \/ at = Nowhere /\ r.kind # "mobile"
      \/ \E w \in Edges, place \in Places : at = OnEdge(w, place)
  BY <1>2, <1>4 DEF locate
<1>7. InDomain(plan, domain) /\ EndsValid(plan, domain, a, b)
      /\ \A y \in Live : entities[y].domain = domain => {plan, entities[y].plan} \notin Clash
  BY <1>1 DEF CanPlace, ClashesWith
<1>8. Sites' \subseteq Sites \cup {n} /\ (\A e \in Live' : Sound(e)') /\ KeptApart'
  <2> DEFINE gone == {}
  <2>1. /\ gone \subseteq Sites /\ \A x \in gone : entities'[x].kind = "removed"
        /\ \A x \in Ids \ gone : entities'[x] = entities[x]
        /\ \A y \in Live \ gone : entities[y].domain = domain =>
               {plan, entities[y].plan} \notin Clash
    BY <1>5, <1>7
  <2>2. /\ entities'[n].plan = plan /\ entities'[n].domain = domain
        /\ entities'[n].A = a /\ entities'[n].B = b
        /\ \/ entities'[n].kind = KindOf[plan]
           \/ entities'[n].kind = "site" /\ KindOf[plan] # "mobile"
        /\ \/ entities'[n].at = Nowhere /\ entities'[n].kind # "mobile"
           \/ \E w \in Edges, place \in Places : entities'[n].at = OnEdge(w, place)
    BY <1>4, <1>5, <1>6
  <2> HIDE DEF r
  <2>3. Comes(n, plan, domain, a, b, gone)
    BY <2>1, <2>2, <1>3, <1>5, <1>7 DEF Comes
  <2> HIDE DEF gone
  <2> QED BY <2>3, <1>3, <1>5, <1>7, Planted
<1>9. Older'
  <2>1. n \notin Sites'
    BY <1>4, <1>5 DEF Sites, Of, Kinds
  <2>2. \A s \in Sites' : s \in Sites /\ entities'[s] = entities[s]
    BY <2>1, <1>5, <1>8, Membership
  <2> QED BY <2>2, <1>1 DEF LifecycleInv, Older, None
<1> QED BY <1>1, <1>5, <1>8, <1>9, BatchIsCalm DEF LifecycleInv

LEMMA PlaceSiteStep ==
    ASSUME LifecycleInv, NEW plan \in Plans, NEW domain \in References,
           NEW a \in References, NEW b \in References, PlaceSite(plan, domain, a, b)
    PROVE  LifecycleInv'
<1>1. Typed /\ stage = "commands" /\ CanPlace(plan, domain, a, b, Live)
      /\ UNCHANGED <<stage, frontier, pending, doomed>> /\ KindOf[plan] # "mobile"
      /\ entities' = Append(entities, Entity("site", plan, domain, a, b, Nowhere))
  BY Membership DEF LifecycleInv, PlaceSite
<1>2. PICK n : n = next_id
  OBVIOUS
<1> DEFINE r == Entity("site", plan, domain, a, b, Nowhere)
<1>3. r \in Record /\ r.kind = "site"
      /\ r.plan = plan /\ r.domain = domain /\ r.A = a /\ r.B = b /\ r.at = Nowhere
  <2>1. r \in Record
    BY <1>1, NewRecord DEF Standing
  <2> QED BY <2>1 DEF Entity
<1>4. /\ Typed' /\ Ids' = Ids \cup {n} /\ entities'[n] = r
      /\ \A x \in Ids : entities'[x] = entities[x]
  BY <1>1, <1>2, <1>3, Appended
<1>5. InDomain(plan, domain) /\ EndsValid(plan, domain, a, b)
      /\ \A y \in Live : entities[y].domain = domain => {plan, entities[y].plan} \notin Clash
  BY <1>1 DEF CanPlace, ClashesWith
<1>6. Sites' \subseteq Sites \cup {n} /\ (\A e \in Live' : Sound(e)') /\ KeptApart'
  <2> DEFINE gone == {}
  <2>1. /\ gone \subseteq Sites /\ \A x \in gone : entities'[x].kind = "removed"
        /\ \A x \in Ids \ gone : entities'[x] = entities[x]
        /\ \A y \in Live \ gone : entities[y].domain = domain =>
               {plan, entities[y].plan} \notin Clash
    BY <1>4, <1>5
  <2>2. /\ entities'[n].plan = plan /\ entities'[n].domain = domain
        /\ entities'[n].A = a /\ entities'[n].B = b
        /\ \/ entities'[n].kind = KindOf[plan]
           \/ entities'[n].kind = "site" /\ KindOf[plan] # "mobile"
        /\ \/ entities'[n].at = Nowhere /\ entities'[n].kind # "mobile"
           \/ \E w \in Edges, place \in Places : entities'[n].at = OnEdge(w, place)
    BY <1>1, <1>3, <1>4
  <2> HIDE DEF r
  <2>3. Comes(n, plan, domain, a, b, gone)
    BY <2>1, <2>2, <1>2, <1>4, <1>5 DEF Comes
  <2> HIDE DEF gone
  <2> QED BY <2>3, <1>2, <1>4, <1>5, Planted
<1>7. Older'
  <2>1. \A s \in Sites : entities'[s] = entities[s]
    BY <1>4, Membership
  <2>2. \A d \in {domain, a, b} : d # None => d < frontier
    <3>1. domain # None => domain < frontier
      BY <1>1, <1>5 DEF InDomain, Known
    <3>2. a # None => a < frontier
      BY <1>1, <1>5 DEF EndsValid, EndValid, Known
    <3>3. b # None => b < frontier
      BY <1>1, <1>5 DEF EndsValid, EndValid, Known
    <3> QED BY <3>1, <3>2, <3>3
  <2>3. frontier' = frontier /\ stage' = stage
    BY <1>1
  <2>4. SUFFICES ASSUME NEW s \in Sites',
                        NEW d \in {entities'[s].domain, entities'[s].A, entities'[s].B}, d # None
                 PROVE  d < frontier
    BY <2>3 DEF Older, None
  <2>5. CASE s = n
    BY <2>2, <2>4, <2>5, <1>3, <1>4
  <2>6. CASE s \in Sites
    <3>1. Older /\ entities'[s] = entities[s]
      BY <2>1, <2>6 DEF LifecycleInv
    <3> QED BY <3>1, <2>4, <2>6, <1>1 DEF Older
  <2> QED BY <2>5, <2>6, <1>6
<1> QED BY <1>1, <1>4, <1>6, <1>7, BatchIsCalm DEF LifecycleInv

LEMMA ActivateStep ==
    ASSUME LifecycleInv, NEW s \in Sites, Activate(s)
    PROVE  LifecycleInv'
<1>1. PICK n : n = next_id
  OBVIOUS
<1>2. PICK plan, domain, a, b : /\ plan = entities[s].plan /\ domain = entities[s].domain
                               /\ a = entities[s].A /\ b = entities[s].B
  OBVIOUS
<1> DEFINE r == New(plan, domain, a, b, Nowhere)
<1>3. /\ Typed /\ stage = "activation" /\ UNCHANGED <<stage, pending, doomed>>
      /\ CanPlace(plan, domain, a, b, Structure)
      /\ entities' = Append([entities EXCEPT ![s] = Tombstone], r)
  BY <1>2 DEF LifecycleInv, Activate
<1>4. /\ s \in Live /\ s \in Ids /\ Sound(s) /\ entities[s].kind = "site" /\ KeptApart
  BY Membership DEF LifecycleInv
<1>5. plan \in Plans /\ KindOf[plan] # "mobile"
  BY <1>2, <1>4 DEF Sound, OfItsPlan
<1>6. r \in Record /\ r.kind = KindOf[plan]
      /\ r.plan = plan /\ r.domain = domain /\ r.A = a /\ r.B = b /\ r.at = Nowhere
  <2>1. domain \in References /\ a \in References /\ b \in References
    BY <1>2, <1>3, <1>4, Refers, Membership DEF References
  <2>2. KindOf[plan] \in Kinds
    BY <1>5, LifecycleAssumption
  <2>3. r \in Record
    <3>1. Nowhere \in Standing
      BY DEF Standing
    <3>2. Entity(KindOf[plan], plan, domain, a, b, Nowhere) \in Record
      BY <3>1, <2>1, <2>2, <1>3, <1>5, NewRecord
    <3> QED BY <3>2 DEF New
  <2> QED BY <2>3 DEF New, Entity
<1>7. /\ Typed' /\ Ids' = Ids \cup {n} /\ entities'[n] = r
      /\ entities'[s] = Tombstone
      /\ \A x \in Ids \ {s} : entities'[x] = entities[x]
  <2> HIDE DEF r
  <2> DEFINE left == [entities EXCEPT ![s] = Tombstone]
  <2>1. /\ entities \in Seq(Record) /\ n = Len(entities) + 1 /\ Ids = 1..Len(entities)
        /\ Len(entities) \in Nat
    BY <1>1, <1>3, RegistryShape DEF Typed, next_id
  <2>2. /\ left \in Seq(Record) /\ Len(left) = Len(entities) /\ left[s] = Tombstone
        /\ \A x \in Ids \ {s} : left[x] = entities[x]
    BY <2>1, <1>4, RecordsStayRecords
  <2> HIDE DEF left
  <2>3. entities' = Append(left, r)
    BY <1>3 DEF left
  <2>4. /\ entities' \in Seq(Record) /\ Len(entities') = n /\ entities'[n] = r
        /\ \A x \in 1..Len(entities) : entities'[x] = left[x]
    BY <2>1, <2>2, <2>3, <1>6
  <2>5. Ids' = 1..n
    BY <2>4 DEF Ids
  <2> QED BY <2>1, <2>2, <2>4, <2>5, <1>3, <1>4 DEF Typed
<1>8. InDomain(plan, domain) /\ EndsValid(plan, domain, a, b)
  BY <1>3 DEF CanPlace
<1>9. \A y \in Live \ {s} : entities[y].domain = domain => {plan, entities[y].plan} \notin Clash
  BY <1>2, <1>4 DEF KeptApart
<1>10. /\ (\A e \in Live' : Sound(e)') /\ KeptApart'
  <2> HIDE DEF r
  <2>1. \A x \in {s} : entities'[x].kind = "removed"
    BY <1>7, RecordsStayRecords
  <2>2. Comes(n, plan, domain, a, b, {s})
    BY <2>1, <1>1, <1>5, <1>6, <1>7, <1>8, <1>9 DEF Comes
  <2> QED BY <2>2, <1>5, <1>7, Planted
<1>11. Older' /\ UpdatesApply' /\ DamageWaits'
  BY <1>3 DEF LifecycleInv, Older, UpdatesApply, DamageWaits
<1> QED BY <1>7, <1>10, <1>11 DEF LifecycleInv

LEMMA RemoveEntityStep ==
    ASSUME LifecycleInv, NEW e \in Live, RemoveEntity(e)
    PROVE  LifecycleInv'
<1>1. /\ stage = "commands" /\ SitesNeeding(e) = {} /\ Removable(e) /\ Remove(e)
      /\ UNCHANGED <<stage, frontier, pending, doomed>>
  BY DEF RemoveEntity
<1>2. Typed /\ \A d \in Live : Sound(d)
  BY DEF LifecycleInv
<1>3. ASSUME NEW d \in Live, e \in Dependencies(d) PROVE FALSE
  <2> DEFINE r == entities[d]
  <2>1. r.kind # "site"
    BY <1>1, <1>3, Membership DEF SitesNeeding
  <2>2. e \in Structure
    BY <1>3, DependsOnStanding
  <2>3. CASE r.kind = "mobile"
    <3>1. e = r.at.on /\ Carried(r) /\ d \in Of("mobile")
      BY <1>2, <1>3, <2>3, Membership
         DEF Dependencies, DependenciesOf, track_support, Sound, Of
    <3>2. CASE r.at.place \in Places /\ e \in Edges /\ r.at.edge = e
      BY <1>1, <3>1, <3>2 DEF Removable, wire_is_occupied, Edges, Of
    <3>3. CASE r.at.place = "junction" /\ e \in Of("junction")
      BY <1>1, <3>1, <3>3 DEF Removable, junction_is_occupied, Of
    <3> QED BY <3>1, <3>2, <3>3 DEF Carried
  <2>4. CASE r.kind # "mobile"
    <3>1. r.domain = e /\ e # None
      BY <1>3, <2>1, <2>4 DEF Dependencies, DependenciesOf
    <3>2. entities[e].kind \in {"fixed", "mobile"} /\ r.kind \notin {"fixed", "mobile"}
      BY <1>2, <3>1, Refers DEF Substrates
    <3>3. d \in Of("gate") \cup Of("wire") \cup Of("junction")
      <4>1. r.kind \in Kinds
        BY <1>2, <2>1, LifecycleAssumption DEF Sound, OfItsPlan
      <4> QED BY <4>1, <3>2, Membership DEF Of, Kinds
    <3> QED BY <1>1, <3>1, <3>2, <3>3 DEF Removable, substrate_is_in_use
  <2> QED BY <2>3, <2>4
<1>4. /\ Typed' /\ (\A x \in Live' : Sound(x)') /\ KeptApart'
      /\ Sites' = Sites \ {e} /\ \A x \in Sites' : entities'[x] = entities[x]
  BY <1>1, <1>3, Removal
<1>5. Older'
  BY <1>1, <1>4 DEF LifecycleInv, Older, None
<1> QED BY <1>1, <1>4, <1>5, BatchIsCalm DEF LifecycleInv

LEMMA BindPortStep ==
    ASSUME LifecycleInv, NEW w \in Of("wire"), NEW end \in Ends,
           NEW target \in References, BindPort(w, end, target)
    PROVE  LifecycleInv'
<1> DEFINE r == entities[w]
<1>1. PICK a, b : /\ a = IF end = "A" THEN target ELSE r.A
                  /\ b = IF end = "A" THEN r.B ELSE target
  OBVIOUS
<1>2. /\ stage = "commands" /\ UNCHANGED <<stage, frontier, pending, doomed>>
      /\ Typed /\ w \in Live /\ w \in Ids /\ r.kind = "wire" /\ Sound(w) /\ r \in Record
  BY Membership, RegistryShape DEF LifecycleInv, BindPort, Of
<1>3. a \in Nat /\ b \in Nat
  BY <1>1, <1>2, RegistryShape, Membership DEF References, None, Record
<1>4. /\ EndsValid(r.plan, r.domain, a, b)
      /\ entities' = [entities EXCEPT ![w] = [r EXCEPT !.A = a, !.B = b]]
  <2> DEFINE bound == IF end = "A" THEN [r EXCEPT !.A = target] ELSE [r EXCEPT !.B = target]
  <2>1. bound.A = a /\ bound.B = b /\ bound = [r EXCEPT !.A = a, !.B = b]
    BY <1>1, <1>2 DEF Record
  <2>2. /\ EndsValid(r.plan, r.domain, bound.A, bound.B)
        /\ entities' = [entities EXCEPT ![w] = bound]
    BY DEF BindPort
  <2> QED BY <2>1, <2>2
<1>5. /\ [r EXCEPT !.A = a, !.B = b] \in Record
      /\ [r EXCEPT !.A = a, !.B = b].A = a /\ [r EXCEPT !.A = a, !.B = b].B = b
      /\ \A q : q = [r EXCEPT !.A = a, !.B = b] =>
             q.kind = r.kind /\ q.plan = r.plan /\ q.domain = r.domain /\ q.at = r.at
  BY <1>2, <1>3 DEF Record
<1>6. /\ Typed' /\ Ids' = Ids
      /\ \A x \in Ids \ {w} : entities'[x] = entities[x]
      /\ entities'[w] = [r EXCEPT !.A = a, !.B = b]
  BY <1>2, <1>4, <1>5 DEF Typed, Ids
<1>7. \A x \in Ids : Stands(x)
  BY <1>5, <1>6 DEF Stands
<1>8. Live' = Live /\ Sites' = Sites /\ KeptApart'
  BY <1>6, <1>7, SameFolk DEF LifecycleInv
<1>9. Sound(w)'
  <2>1. PICK plan, domain : plan = r.plan /\ domain = r.domain
    OBVIOUS
  <2>2. /\ plan \in Plans /\ entities'[w].plan = plan /\ entities'[w].domain = domain
        /\ entities'[w].A = a /\ entities'[w].B = b /\ entities'[w].kind = KindOf[plan]
        /\ w \in Ids' /\ entities'[w].kind # "mobile"
    BY <2>1, <1>2, <1>5, <1>6 DEF Sound, OfItsPlan
  <2>3. \/ Host[plan] = "open" /\ domain = None
        \/ /\ Host[plan] # "open" /\ domain \in Live
           /\ entities[domain].kind = KindOf[Host[plan]]
           /\ entities[domain].plan = Host[plan]
    BY <2>1, <1>2 DEF Sound, Housed
  <2>4. \A y \in {domain, a, b} \cap Live : Stands(y)
    BY <1>7, Membership
  <2>5. EndsValid(plan, domain, a, b)
    BY <2>1, <1>4
  <2> QED BY <1>2, <1>6, <2>2, <2>3, <2>4, <2>5, SoundPlaced
<1>10. ASSUME NEW x \in Live' PROVE Sound(x)'
  <2>1. CASE x = w
    BY <2>1, <1>9
  <2>2. CASE x # w
    <3>1. x \in Live /\ x \in Ids /\ entities'[x] = entities[x]
      BY <2>2, <1>6, <1>8, Membership
    <3> QED BY <3>1, <1>6, <1>7, SameEntity
  <2> QED BY <2>1, <2>2
<1>11. Older'
  <2>1. \A s \in Sites : entities'[s] = entities[s]
    BY <1>2, <1>6, Membership
  <2> QED BY <2>1, <1>2, <1>8 DEF LifecycleInv, Older, None
<1> QED BY <1>2, <1>6, <1>8, <1>10, <1>11, BatchIsCalm DEF LifecycleInv

LEMMA AdvancedRecords ==
    ASSUME Typed, NEW changed, entities' = Advanced(entities, changed), stage' \in
               {"destruction", "removal", "activation", "commands", "physics"}
    PROVE  /\ Typed' /\ Ids' = Ids /\ \A x \in Ids : Stands(x)
           /\ \A x \in Ids : /\ entities'[x].A = entities[x].A
                             /\ entities'[x].B = entities[x].B
                             /\ entities'[x].at = entities[x].at
           /\ \A x \in Ids : entities[x].kind = "site" => entities'[x] = entities[x]
           /\ \A x \in Ids : x \in changed /\ entities[x].kind \in {"wire", "junction"} =>
                  entities'[x].generation = entities[x].generation + 1
<1>1. /\ entities \in Seq(Record) /\ Ids = 1..Len(entities) /\ Len(entities) \in Nat
      /\ \A x \in Ids : entities[x] \in Record
  BY RegistryShape DEF Typed
<1>2. entities' = [e \in Ids |-> IF e \in changed /\ entities[e].kind \in {"wire", "junction"}
                                 THEN [entities[e] EXCEPT !.generation = @ + 1]
                                 ELSE entities[e]]
  BY DEF Advanced, Ids
<1>3. \A r \in Record :
        LET q == [r EXCEPT !.generation = @ + 1]
        IN  /\ q \in Record /\ q.kind = r.kind /\ q.plan = r.plan /\ q.domain = r.domain
            /\ q.A = r.A /\ q.B = r.B /\ q.at = r.at /\ q.generation = r.generation + 1
  BY DEF Record
<1>4. \A x \in Ids : /\ entities'[x] \in Record
                     /\ entities'[x].kind = entities[x].kind
                     /\ entities'[x].plan = entities[x].plan
                     /\ entities'[x].domain = entities[x].domain
                     /\ entities'[x].A = entities[x].A
                     /\ entities'[x].B = entities[x].B
                     /\ entities'[x].at = entities[x].at
  BY <1>1, <1>2, <1>3
<1>5. entities' \in Seq(Record) /\ Ids' = Ids
  BY <1>1, <1>2, <1>4 DEF Ids
<1>6. Typed'
  BY <1>5 DEF Typed
<1>7. \A x \in Ids : x \in changed /\ entities[x].kind \in {"wire", "junction"} =>
          entities'[x].generation = entities[x].generation + 1
  BY <1>1, <1>2, <1>3
<1>8. \A x \in Ids : entities[x].kind = "site" => entities'[x] = entities[x]
  BY <1>2
<1> QED BY <1>4, <1>5, <1>6, <1>7, <1>8 DEF Stands

(* Generations and work done are nothing the rest of the registry sees.    *)
LEMMA Relabelled ==
    ASSUME LifecycleInv, Typed', Ids' = Ids, \A x \in Ids : Stands(x),
           \A x \in Ids : /\ entities'[x].A = entities[x].A
                          /\ entities'[x].B = entities[x].B
                          /\ entities'[x].at = entities[x].at
    PROVE  /\ Live' = Live /\ Sites' = Sites /\ Structure' = Structure
           /\ Of("gate")' = Of("gate")
           /\ (\A e \in Live' : Sound(e)') /\ KeptApart'
<1>1. /\ Live' = Live /\ Sites' = Sites /\ Structure' = Structure
      /\ Of("gate")' = Of("gate") /\ KeptApart'
  BY SameFolk DEF LifecycleInv
<1>2. \A e \in Live : Sound(e)'
  BY SameEntity, Membership
<1> QED BY <1>1, <1>2

LEMMA BeginBatchStep == LifecycleInv /\ BeginBatch => LifecycleInv'
<1> SUFFICES ASSUME LifecycleInv, BeginBatch PROVE LifecycleInv'
  OBVIOUS
<1>1. /\ stage = "activation" /\ stage' = "commands" /\ frontier' = next_id
      /\ entities' = entities /\ pending' = pending /\ doomed' = doomed
      /\ Typed /\ \A e \in Live : Sound(e)
  BY DEF LifecycleInv, BeginBatch
<1>2. Older'
  <2>1. SUFFICES ASSUME NEW s \in Sites,
                        NEW d \in {entities[s].domain, entities[s].A, entities[s].B}, d # None
                 PROVE  d < next_id
    BY <1>1, RegistryUnchanged DEF Older, None
  <2>2. d \in Structure
    BY <2>1, <1>1, Refers, Membership
  <2> QED BY <2>2, <1>1, RegistryShape, Membership DEF next_id
<1>3. Typed'
  BY <1>1 DEF Typed
<1> QED BY <1>1, <1>2, <1>3, RegistryUnchanged
        DEF LifecycleInv, DamageWaits, UpdatesApply

LEMMA SetExternalDriverStep ==
    ASSUME LifecycleInv, NEW g, SetExternalDriver(g) PROVE LifecycleInv'
<1>1. /\ stage = "commands" /\ UNCHANGED <<stage, entities, frontier, pending, doomed>>
  BY DEF SetExternalDriver
<1>2. Typed' /\ Older'
  BY <1>1, RegistryUnchanged DEF LifecycleInv, Typed, Older, None
<1> QED BY <1>1, <1>2, RegistryUnchanged, BatchIsCalm DEF LifecycleInv

LEMMA EndBatchStep == LifecycleInv /\ EndBatch => LifecycleInv'
<1> SUFFICES ASSUME LifecycleInv, EndBatch PROVE LifecycleInv'
  OBVIOUS
<1>1. /\ stage = "commands" /\ stage' = "physics" /\ entities' = Advanced(entities, dirty)
      /\ staged' = Retained /\ pending' = pending /\ doomed' = doomed /\ Typed
  BY DEF LifecycleInv, EndBatch
<1>2. /\ Typed' /\ Live' = Live /\ Sites' = Sites /\ Structure' = Structure
      /\ Of("gate")' = Of("gate") /\ (\A e \in Live' : Sound(e)') /\ KeptApart'
  BY <1>1, AdvancedRecords, Relabelled
<1>3. Older' /\ UpdatesApply' /\ DamageWaits'
  BY <1>1, <1>2 DEF LifecycleInv, Older, UpdatesApply, DamageWaits, Retained
<1> QED BY <1>2, <1>3 DEF LifecycleInv

(* A mobile moves to a place on an edge, or to a junction at one end, and  *)
(* only one, of the edge it comes along.                                   *)
LEMMA MovesAlongTheTrack ==
    ASSUME LifecycleInv, NEW m \in Of("mobile"), NEW to \in Moves(entities[m].at)
    PROVE  \/ \E w \in Edges, place \in Places : to = OnEdge(w, place)
           \/ \E w \in Edges, end \in Ends :
                 /\ End(entities[w], end) \in Of("junction")
                 /\ entities[End(entities[w], end)].domain = None
                 /\ \A e \in Ends \ {end} : End(entities[w], e) # End(entities[w], end)
                 /\ to = AtJunction(End(entities[w], end), w)
<1> DEFINE at == entities[m].at
<1>1. Carried(entities[m])
  BY Membership DEF LifecycleInv, Sound, Of
<1>2. CASE at.place = "junction"
  BY <1>2 DEF Moves, Places
<1>3. CASE at.place # "junction"
  <2>1. at.on \in Edges
    BY <1>1, <1>3 DEF Carried
  <2>2. PICK w : w = at.on
    OBVIOUS
  <2>3. \/ to = OnEdge(w, "inside")
        \/ \E e \in Ends : to = Arrive(w, e)
    BY <1>3, <2>2 DEF Moves
  <2>4. CASE to = OnEdge(w, "inside")
    BY <2>1, <2>2, <2>4 DEF Places
  <2>5. ASSUME NEW end \in Ends, to = Arrive(w, end)
        PROVE  \/ \E v \in Edges, place \in Places : to = OnEdge(v, place)
               \/ /\ End(entities[w], end) \in Of("junction")
                  /\ entities[End(entities[w], end)].domain = None
                  /\ \A e \in Ends \ {end} : End(entities[w], e) # End(entities[w], end)
                  /\ to = AtJunction(End(entities[w], end), w)
    <3> DEFINE j == End(entities[w], end)
    <3>1. CASE j \notin Of("junction")
      BY <3>1, <2>1, <2>2, <2>5 DEF Arrive, Places, Ends
    <3>2. CASE j \in Of("junction")
      <4>1. w \in Live /\ entities[w].kind = "wire" /\ entities[w].domain = None
        BY <2>1, <2>2, Membership DEF Edges, Of
      <4>2. OfItsPlan(entities[w]) /\ Ended(entities[w])
        BY <4>1 DEF LifecycleInv, Sound
      <4>3. /\ Bound(entities[w], "A") /\ Bound(entities[w], "B")
            /\ ~(entities[w].A = entities[w].B /\ entities[w].A \in Of("junction"))
        BY <4>1, <4>2 DEF OfItsPlan, Ended
      <4>4. j # None /\ entities[j].kind = "junction"
        BY <3>2, RegistryShape DEF Of, LifecycleInv
      <4>5. entities[j].domain = None
        BY <4>1, <4>3, <4>4 DEF Bound, Ends
      <4>6. \A e \in Ends \ {end} : End(entities[w], e) # j
        BY <4>3, <3>2 DEF End, Ends
      <4> QED BY <3>2, <4>5, <4>6, <2>5 DEF Arrive
    <3> QED BY <3>1, <3>2
  <2> QED BY <2>1, <2>2, <2>3, <2>4, <2>5
<1> QED BY <1>2, <1>3

LEMMA MovedRecords ==
    ASSUME LifecycleInv, NEW m \in Of("mobile"), NEW to \in Moves(entities[m].at), Move(m, to)
    PROVE  /\ Typed' /\ Ids' = Ids /\ \A x \in Ids : Stands(x)
           /\ \A x \in Ids \ {m} : entities'[x] = entities[x]
           /\ entities'[m] = [entities[m] EXCEPT !.at = to]
           /\ entities'[m].at = to /\ entities'[m].A = entities[m].A
           /\ entities'[m].B = entities[m].B
<1>1. /\ entities \in Seq(Record) /\ m \in Ids /\ entities[m] \in Record
      /\ entities' = [entities EXCEPT ![m].at = to] /\ stage' = stage
  BY RegistryShape DEF LifecycleInv, Typed, Of, Move
<1>2. to \in Position
  <2>1. Edges \subseteq Nat /\ \A k : Of(k) \subseteq Nat
    BY RegistryShape DEF Edges, Of, LifecycleInv
  <2> QED BY <2>1, MovesAlongTheTrack DEF OnEdge, AtJunction, On, Position
<1>3. /\ [entities[m] EXCEPT !.at = to] \in Record
      /\ \A q : q = [entities[m] EXCEPT !.at = to] =>
             /\ q.kind = entities[m].kind /\ q.plan = entities[m].plan
             /\ q.domain = entities[m].domain /\ q.at = to
             /\ q.A = entities[m].A /\ q.B = entities[m].B
  BY <1>1, <1>2 DEF Record
<1>4. /\ Typed' /\ Ids' = Ids
      /\ \A x \in Ids \ {m} : entities'[x] = entities[x]
      /\ entities'[m] = [entities[m] EXCEPT !.at = to]
  BY <1>1, <1>3 DEF Typed, Ids, LifecycleInv
<1> QED BY <1>3, <1>4 DEF Stands

LEMMA MoveStep ==
    ASSUME LifecycleInv, NEW m \in Of("mobile"), NEW to \in Moves(entities[m].at), Move(m, to)
    PROVE  LifecycleInv'
<1>1. /\ stage = "physics" /\ UNCHANGED <<stage, frontier, staged, pending, doomed>>
      /\ m \in Live /\ m \in Ids /\ entities[m].kind = "mobile" /\ Typed /\ Sound(m)
  BY Membership DEF LifecycleInv, Move, Of
<1>2. /\ Typed' /\ Ids' = Ids /\ \A x \in Ids : Stands(x)
      /\ \A x \in Ids \ {m} : entities'[x] = entities[x]
      /\ entities'[m].at = to /\ entities'[m].A = entities[m].A
      /\ entities'[m].B = entities[m].B
  BY MovedRecords
<1>3. /\ Live' = Live /\ Sites' = Sites /\ Structure' = Structure
      /\ (\A k : Of(k)' = Of(k)) /\ KeptApart'
  BY <1>2, SameFolk DEF LifecycleInv
<1>4. Sound(m)'
  <2>1. Carried(entities[m])'
    <3>1. \A x \in Ids : entities'[x].domain = entities[x].domain
      BY <1>2 DEF Stands
    <3>2. Edges' = Edges
      BY <1>3, <3>1 DEF Edges, Of, None
    <3>3. CASE \E w \in Edges, place \in Places : to = OnEdge(w, place)
      <4>1. to.place \in Places /\ to.on \in Edges /\ to.edge = to.on
        BY <3>3 DEF OnEdge, On
      <4> QED BY <4>1, <3>2, <1>2 DEF Carried
    <3>4. CASE \E w \in Edges, end \in Ends :
                 /\ End(entities[w], end) \in Of("junction")
                 /\ entities[End(entities[w], end)].domain = None
                 /\ to = AtJunction(End(entities[w], end), w)
      <4>1. to.place = "junction" /\ to.on \in Of("junction") /\ entities[to.on].domain = None
        BY <3>4 DEF AtJunction, On
      <4>2. to.on \in Of("junction")' /\ entities'[to.on].domain = None
        BY <4>1, <1>3, <3>1 DEF Of
      <4> QED BY <4>1, <4>2, <1>2 DEF Carried, None
    <3> QED BY <3>3, <3>4, MovesAlongTheTrack
  <2>2. PICK plan, domain : plan = entities[m].plan /\ domain = entities[m].domain
    OBVIOUS
  <2>3. KindOf[plan] = "mobile" /\ plan \in Plans /\ Host[plan] = "open" /\ domain = None
        /\ entities[m].A = None /\ entities[m].B = None
    BY <1>1, <2>2, LifecycleAssumption DEF Sound, OfItsPlan, Housed, Ended, Substrates
  <2>4. entities'[m].plan = plan /\ entities'[m].domain = domain /\ entities'[m].kind = "mobile"
    BY <1>1, <1>2, <2>2 DEF Stands
  <2>5. OfItsPlan(entities[m])' /\ Housed(entities[m])'
    BY <2>3, <2>4 DEF OfItsPlan, Housed, None
  <2>6. Ended(entities[m])'
    <3>1. entities'[m].A = 0 /\ entities'[m].B = 0 /\ KindOf[entities'[m].plan] # "wire"
      BY <2>3, <2>4, <1>2 DEF None
    <3> QED BY <3>1 DEF Ended, None
  <2> QED BY <2>1, <2>5, <2>6 DEF Sound
<1>5. ASSUME NEW x \in Live' PROVE Sound(x)'
  <2>1. CASE x = m
    BY <2>1, <1>4
  <2>2. CASE x # m
    <3>1. x \in Live /\ x \in Ids /\ entities'[x] = entities[x]
      BY <2>2, <1>2, <1>3, Membership
    <3> QED BY <3>1, <1>2, SameEntity
  <2> QED BY <2>1, <2>2
<1>6. Older' /\ UpdatesApply' /\ DamageWaits'
  BY <1>1, <1>3 DEF LifecycleInv, Older, UpdatesApply, DamageWaits
<1> QED BY <1>2, <1>3, <1>5, <1>6 DEF LifecycleInv

LEMMA CompleteWorkStep ==
    ASSUME LifecycleInv, NEW s \in Sites, CompleteWork(s) PROVE LifecycleInv'
<1>1. /\ stage = "physics" /\ UNCHANGED <<stage, frontier, staged, pending, doomed>>
      /\ entities' = [entities EXCEPT ![s].ready = TRUE]
      /\ entities \in Seq(Record) /\ s \in Ids /\ entities[s] \in Record
  BY RegistryShape, Membership DEF LifecycleInv, Typed, CompleteWork
<1>2. /\ [entities[s] EXCEPT !.ready = TRUE] \in Record
      /\ \A q : q = [entities[s] EXCEPT !.ready = TRUE] =>
             /\ q.kind = entities[s].kind /\ q.plan = entities[s].plan
             /\ q.domain = entities[s].domain /\ q.at = entities[s].at
             /\ q.A = entities[s].A /\ q.B = entities[s].B
  BY <1>1 DEF Record
<1>3. /\ Typed' /\ Ids' = Ids
      /\ \A x \in Ids \ {s} : entities'[x] = entities[x]
      /\ entities'[s] = [entities[s] EXCEPT !.ready = TRUE]
  BY <1>1, <1>2 DEF Typed, Ids, LifecycleInv
<1>4. /\ \A x \in Ids : Stands(x)
      /\ \A x \in Ids : /\ entities'[x].A = entities[x].A /\ entities'[x].B = entities[x].B
                        /\ entities'[x].at = entities[x].at
  BY <1>2, <1>3 DEF Stands
<1>5. /\ Live' = Live /\ Sites' = Sites /\ Structure' = Structure
      /\ Of("gate")' = Of("gate") /\ (\A e \in Live' : Sound(e)') /\ KeptApart'
  BY <1>3, <1>4, Relabelled
<1>6. Older' /\ UpdatesApply' /\ DamageWaits'
  BY <1>1, <1>5 DEF LifecycleInv, Older, UpdatesApply, DamageWaits
<1> QED BY <1>3, <1>5, <1>6 DEF LifecycleInv

LEMMA DamageStep ==
    ASSUME LifecycleInv, NEW e \in Structure, Damage(e) PROVE LifecycleInv'
<1>1. /\ stage = "physics" /\ UNCHANGED <<stage, entities, frontier, staged, doomed>>
      /\ pending' = pending \cup {e}
  BY DEF Damage
<1>2. Typed'
  BY <1>1 DEF LifecycleInv, Typed
<1> QED BY <1>1, <1>2, RegistryUnchanged
        DEF LifecycleInv, Older, UpdatesApply, DamageWaits

LEMMA EndTickStep == LifecycleInv /\ EndTick => LifecycleInv'
<1> SUFFICES ASSUME LifecycleInv, EndTick PROVE LifecycleInv'
  OBVIOUS
<1>1. /\ stage = "physics" /\ stage' = "destruction"
      /\ UNCHANGED <<entities, frontier, staged, pending, doomed>>
  BY DEF EndTick
<1>2. Typed'
  BY <1>1 DEF LifecycleInv, Typed
<1> QED BY <1>1, <1>2, RegistryUnchanged
        DEF LifecycleInv, Older, UpdatesApply, DamageWaits

LEMMA DestroyedIsClosed ==
    ASSUME pending \subseteq Live
    PROVE  Destroyed \subseteq Live /\ pending \subseteq Destroyed /\ Closed(Destroyed)
<1>1. Destroyed \subseteq Live /\ pending \subseteq Destroyed
  BY DEF Destroyed
<1>2. ASSUME NEW e \in Live, Dependencies(e) \cap Destroyed # {}
      PROVE  e \in Destroyed
  <2>1. SUFFICES ASSUME NEW causes \in SUBSET Live, pending \subseteq causes,
                        Cascade(causes) \subseteq causes
                 PROVE  e \in causes
    BY DEF Destroyed
  <2>2. Destroyed \subseteq causes
    BY <2>1 DEF Destroyed
  <2> QED BY <1>2, <2>1, <2>2 DEF Cascade
<1> QED BY <1>1, <1>2 DEF Closed

LEMMA CondemnStep == LifecycleInv /\ Condemn => LifecycleInv'
<1> SUFFICES ASSUME LifecycleInv, Condemn PROVE LifecycleInv'
  OBVIOUS
<1>1. /\ stage' = "removal" /\ doomed' = Destroyed
      /\ UNCHANGED <<entities, frontier, pending>>
  BY DEF Condemn
<1>2. Typed'
  BY <1>1 DEF LifecycleInv, Typed
<1>3. pending \subseteq Structure /\ pending \subseteq Live
  BY Membership DEF LifecycleInv, DamageWaits
<1>4. DamageWaits'
  <2>1. Closed(Destroyed) /\ Destroyed \subseteq Live /\ pending \subseteq Destroyed
    BY <1>3, DestroyedIsClosed
  <2>2. PICK causes : causes = Destroyed
    OBVIOUS
  <2>3. Closed(causes)' /\ doomed' = causes
    BY <2>1, <2>2, <1>1, RegistryUnchanged
  <2>4. Closed(doomed)'
    BY <2>3 DEF Closed
  <2> QED BY <2>1, <2>4, <1>1, <1>3, RegistryUnchanged DEF DamageWaits
<1> QED BY <1>1, <1>2, <1>4, RegistryUnchanged DEF LifecycleInv, Older, UpdatesApply

LEMMA DestroyStep ==
    ASSUME LifecycleInv, NEW e \in doomed, Destroy(e) PROVE LifecycleInv'
<1>1. /\ stage = "removal" /\ DependentFirst(e) /\ Remove(e) /\ e \in Live
      /\ doomed' = doomed \ {e} /\ pending' = pending \ {e}
      /\ UNCHANGED <<stage, frontier, staged>>
      /\ doomed \subseteq Live /\ pending \subseteq doomed /\ Closed(doomed)
      /\ pending \subseteq Structure
  BY DEF LifecycleInv, DamageWaits, Destroy, StillPending
<1>2. \A d \in Live : e \notin Dependencies(d)
  BY <1>1 DEF DependentFirst, Closed
<1>3. /\ Typed' /\ Live' = Live \ {e} /\ Structure' = Structure \ {e}
      /\ (\A x \in Live' : Sound(x)' /\ Dependencies(x)' = Dependencies(x)) /\ KeptApart'
  BY <1>1, <1>2, Removal
<1>4. Closed(doomed)'
  BY <1>1, <1>3 DEF Closed
<1>5. DamageWaits'
  BY <1>1, <1>3, <1>4 DEF DamageWaits
<1> QED BY <1>1, <1>3, <1>5 DEF LifecycleInv, Older, UpdatesApply

LEMMA EndDestructionStep == LifecycleInv /\ EndDestruction => LifecycleInv'
<1> SUFFICES ASSUME LifecycleInv, EndDestruction PROVE LifecycleInv'
  OBVIOUS
<1>1. /\ stage = "removal" /\ stage' = "activation" /\ entities' = Advanced(entities, dirty)
      /\ pending' = pending /\ doomed' = doomed /\ doomed = {} /\ Typed
      /\ pending = {}
  BY DEF LifecycleInv, DamageWaits, EndDestruction
<1>2. /\ Typed' /\ Live' = Live /\ Sites' = Sites /\ Structure' = Structure
      /\ (\A e \in Live' : Sound(e)') /\ KeptApart'
  BY <1>1, AdvancedRecords, Relabelled
<1>3. Older' /\ UpdatesApply' /\ DamageWaits'
  BY <1>1, <1>2 DEF Older, UpdatesApply, DamageWaits
<1> QED BY <1>2, <1>3 DEF LifecycleInv

LEMMA StutterStep ==
    LifecycleInv /\ UNCHANGED vars => LifecycleInv'
<1> SUFFICES ASSUME LifecycleInv, UNCHANGED vars PROVE LifecycleInv'
  OBVIOUS
<1>1. UNCHANGED <<stage, entities, frontier, staged, pending, doomed>>
  BY DEF vars
<1>2. Typed'
  BY <1>1 DEF LifecycleInv, Typed
<1>3. DamageWaits'
  <2>1. PICK causes : causes = doomed
    OBVIOUS
  <2>2. Closed(doomed) => Closed(doomed)'
    BY <1>1, <2>1, RegistryUnchanged DEF Closed
  <2> QED BY <1>1, <2>2, RegistryUnchanged DEF LifecycleInv, DamageWaits
<1> QED BY <1>1, <1>2, <1>3, RegistryUnchanged DEF LifecycleInv, Older, UpdatesApply

(* Commands name what lives or nothing.                                    *)
LEMMA NamesAreReferences ==
    ASSUME NEW plan \in Plans
    PROVE  Domains(plan) \subseteq References /\ Targets(plan) \subseteq References
  BY DEF Domains, Targets, References

LEMMA LifecycleStep == LifecycleInv /\ [Next]_vars => LifecycleInv'
<1> SUFFICES ASSUME LifecycleInv, [Next]_vars PROVE LifecycleInv'
  OBVIOUS
<1>1. CASE UNCHANGED vars
  BY <1>1, StutterStep
<1>2. ASSUME NEW p \in Plans, NEW domain \in References, NEW a \in References,
             NEW b \in References, Place(p, domain, a, b) \/ PlaceSite(p, domain, a, b)
      PROVE  LifecycleInv'
  BY <1>2, PlaceStep, PlaceSiteStep
<1>3. ASSUME NEW s \in Sites, Activate(s) \/ CompleteWork(s) PROVE LifecycleInv'
  BY <1>3, ActivateStep, CompleteWorkStep
<1>4. ASSUME NEW e \in Live, RemoveEntity(e) PROVE LifecycleInv'
  BY <1>4, RemoveEntityStep
<1>5. ASSUME NEW w \in Of("wire"), NEW end \in Ends, NEW target \in References,
             BindPort(w, end, target)
      PROVE  LifecycleInv'
  BY <1>5, BindPortStep
<1>6. ASSUME NEW g, SetExternalDriver(g) PROVE LifecycleInv'
  BY <1>6, SetExternalDriverStep
<1>7. ASSUME NEW m \in Of("mobile"), NEW to \in Moves(entities[m].at), Move(m, to)
      PROVE  LifecycleInv'
  BY <1>7, MoveStep
<1>8. ASSUME NEW e \in Structure, Damage(e) PROVE LifecycleInv'
  BY <1>8, DamageStep
<1>9. ASSUME NEW e \in doomed, Destroy(e) PROVE LifecycleInv'
  BY <1>9, DestroyStep
<1>10. CASE BeginBatch \/ EndBatch \/ EndTick \/ Condemn \/ EndDestruction
  BY <1>10, BeginBatchStep, EndBatchStep, EndTickStep, CondemnStep, EndDestructionStep
<1> QED BY <1>1, <1>2, <1>3, <1>4, <1>5, <1>6, <1>7, <1>8, <1>9, <1>10,
           NamesAreReferences DEF Next

(* The inductive invariant of the registry.                                *)
THEOREM LifecycleHolds == Spec => []LifecycleInv
  BY LifecycleInit, LifecycleStep, PTL DEF Spec

(* Nothing that lives refers to what is gone, and one of the condemned can *)
(* always go next.                                                         *)
THEOREM ReferencesStayAlive == Spec => []RefersToTheLiving
  BY LifecycleHolds, InvGivesAll, PTL

(* No activation fails, and no staged update is without a driver.          *)
THEOREM PromisesAreKept == Spec => []PromisesHold
  BY LifecycleHolds, InvGivesAll, PTL

-----------------------------------------------------------------------------
(* What is rewired shows it.                                               *)

Shows(e) ==
    \/ entities'[e].generation = entities[e].generation + 1
    \/ /\ e \in dirty => e \in dirty'
       /\ Rewired(e) => e \in dirty'
AllShow == \A e \in Elements \cap Elements' : Shows(e)

LEMMA SameMeeting ==
    ASSUME NEW e,
           \A x : \A end \in Ends :
               (x \in Of("wire") /\ End(entities[x], end) = e) <=>
               (x \in Of("wire")' /\ End(entities'[x], end) = e)
    PROVE  Meeting(e)' = Meeting(e)
<1>1. \A x, end : <<x, end>> \in Meeting(e) <=>
                    x \in Of("wire") /\ end \in Ends /\ End(entities[x], end) = e
  BY DEF Meeting
<1>2. \A x, end : <<x, end>> \in Meeting(e)' <=>
                    x \in Of("wire")' /\ end \in Ends /\ End(entities'[x], end) = e
  BY DEF Meeting
<1>3. \A y \in Meeting(e) : \E x, end : y = <<x, end>>
  BY DEF Meeting
<1>4. \A y \in Meeting(e)' : \E x, end : y = <<x, end>>
  BY DEF Meeting
<1>5. \A y : y \in Meeting(e) => y \in Meeting(e)'
  BY <1>1, <1>2, <1>3
<1>6. \A y : y \in Meeting(e)' => y \in Meeting(e)
  BY <1>1, <1>2, <1>4
<1> QED BY <1>5, <1>6

LEMMA NobodyRewired ==
    ASSUME Ids' = Ids, \A x \in Ids : Stands(x),
           \A x \in Ids : entities'[x].A = entities[x].A /\ entities'[x].B = entities[x].B
    PROVE  \A e \in Elements : ~Rewired(e)
<1>1. SUFFICES ASSUME NEW e \in Elements PROVE ~Rewired(e)
  OBVIOUS
<1>2. Of("wire")' = Of("wire")
  BY SameFolk
<1>3. Meeting(e)' = Meeting(e)
  <2>1. \A x \in Of("wire") : \A end \in Ends :
            End(entities'[x], end) = End(entities[x], end)
    BY DEF Of, End
  <2> QED BY <1>2, <2>1, SameMeeting
<1> QED BY <1>1, <1>3 DEF Rewired, Elements, Of

LEMMA UnchangedShows ==
    ASSUME entities' = entities, dirty \subseteq dirty' PROVE AllShow
<1>1. Ids' = Ids /\ \A x \in Ids : Stands(x)
  BY DEF Ids, Stands
<1> QED BY <1>1, NobodyRewired DEF AllShow, Shows

(* One comes: the junctions at its ends are marked.                        *)
LEMMA PlantingShows ==
    ASSUME Typed, NEW n, NEW gone, gone \cap Elements = {}, n \notin Ids,
           Ids' = Ids \cup {n}, \A x \in Ids \ gone : entities'[x] = entities[x],
           \A x \in gone : entities'[x].kind = "removed",
           dirty \subseteq dirty',
           entities'[n].kind = "wire" => JunctionEnds(entities'[n]) \subseteq dirty'
    PROVE  AllShow
<1>1. SUFFICES ASSUME NEW e \in Elements, Rewired(e), e \notin dirty' PROVE FALSE
  BY DEF AllShow, Shows
<1>2. e \in Ids /\ e \notin gone /\ entities'[e] = entities[e]
  BY <1>1 DEF Elements, Of
<1>3. e \in Of("junction") /\ Meeting(e)' # Meeting(e)
  BY <1>1, <1>2 DEF Rewired, Elements, Of
<1>4. entities'[n].kind = "wire" => entities'[n].A # e /\ entities'[n].B # e
  BY <1>1, <1>3 DEF JunctionEnds
<1>5. ASSUME NEW x, NEW end \in Ends
      PROVE  (x \in Of("wire") /\ End(entities[x], end) = e) <=>
             (x \in Of("wire")' /\ End(entities'[x], end) = e)
  <2>1. CASE x = n
    BY <2>1, <1>4 DEF Of, End
  <2>2. CASE x \in gone
    BY <2>2 DEF Of, Elements
  <2>3. CASE x # n /\ x \notin gone
    BY <2>3 DEF Of
  <2> QED BY <2>1, <2>2, <2>3
<1> QED BY <1>3, <1>5, SameMeeting

LEMMA RemovalShows ==
    ASSUME LifecycleInv, NEW e \in Live, Remove(e) PROVE AllShow
<1>1. /\ Ids' = Ids /\ entities'[e] = Tombstone
      /\ \A x \in Loosened(e) : x # e /\ x \in Ids /\ entities'[x] = Freed(entities[x], e)
      /\ \A x \in Ids : x # e /\ x \notin Loosened(e) => entities'[x] = entities[x]
      /\ dirty' = dirty \cup Loosened(e) \cup JunctionsAt(e)
  BY RegistryShape, Membership DEF LifecycleInv, Remove, Ids, Loosened, Of
<1>2. SUFFICES ASSUME NEW x \in Elements \cap Elements', Rewired(x), x \notin dirty' PROVE FALSE
  BY <1>1 DEF AllShow, Shows
<1>3. x \in Ids /\ x # e /\ x \notin Loosened(e) /\ entities'[x] = entities[x]
  BY <1>1, <1>2, RecordsStayRecords DEF Elements, Of
<1>4. x \in Of("junction") /\ Meeting(x)' # Meeting(x)
  BY <1>2, <1>3 DEF Rewired, Elements, Of
<1>5. ASSUME NEW w, NEW end \in Ends
      PROVE  (w \in Of("wire") /\ End(entities[w], end) = x) <=>
             (w \in Of("wire")' /\ End(entities'[w], end) = x)
  <2>1. CASE w = e
    <3>1. w \notin Of("wire")'
      BY <2>1, <1>1, RecordsStayRecords DEF Of
    <3>2. entities[e].kind = "wire" => x \notin {entities[e].A, entities[e].B}
      BY <1>1, <1>2, <1>4 DEF JunctionsAt, JunctionEnds
    <3> QED BY <2>1, <3>1, <3>2 DEF Of, End
  <2>2. CASE w \in Loosened(e)
    <3>1. entities[w] \in Record /\ entities'[w] = Freed(entities[w], e) /\ w \in Ids
      BY <1>1, <2>2, RegistryShape DEF LifecycleInv
    <3>2. x # None
      BY <1>3, RegistryShape DEF LifecycleInv
    <3>3. entities'[w].kind = entities[w].kind
          /\ (End(entities'[w], end) = x <=> End(entities[w], end) = x)
      BY <3>1, <3>2, <1>3, RecordsStayRecords DEF End
    <3> QED BY <3>1, <3>3, <1>1 DEF Of
  <2>3. CASE w # e /\ w \notin Loosened(e)
    BY <2>3, <1>1 DEF Of
  <2> QED BY <2>1, <2>2, <2>3
<1> QED BY <1>4, <1>5, SameMeeting

LEMMA BindingShows ==
    ASSUME LifecycleInv, NEW w \in Of("wire"), NEW end \in Ends, NEW target,
           BindPort(w, end, target)
    PROVE  AllShow
<1> DEFINE r == entities[w]
           bound == IF end = "A" THEN [r EXCEPT !.A = target] ELSE [r EXCEPT !.B = target]
<1>1. /\ w \in Ids /\ Ids' = Ids /\ entities'[w] = bound
      /\ \A x \in Ids \ {w} : entities'[x] = entities[x]
      /\ dirty' = dirty \cup {w} \cup ({End(r, end), target} \cap Of("junction"))
  BY RegistryShape DEF LifecycleInv, Typed, BindPort, Ids, Of
<1>2. SUFFICES ASSUME NEW x \in Elements, Rewired(x), x \notin dirty' PROVE FALSE
  BY <1>1 DEF AllShow, Shows
<1>3. x \in Ids \ {w} /\ entities'[x] = entities[x]
  BY <1>1, <1>2 DEF Elements, Of
<1>4. x \in Of("junction") /\ Meeting(x)' # Meeting(x)
  BY <1>2, <1>3 DEF Rewired, Elements, Of
<1>5. End(r, end) # x /\ target # x
  BY <1>1, <1>2, <1>4
<1>6. /\ bound.kind = r.kind /\ End(bound, end) = target
      /\ \A e \in Ends \ {end} : End(bound, e) = End(r, e)
  <2>1. r \in Record
    BY <1>1, RegistryShape DEF LifecycleInv
  <2> QED BY <2>1 DEF Record, End, Ends
<1>7. ASSUME NEW v, NEW e \in Ends
      PROVE  (v \in Of("wire") /\ End(entities[v], e) = x) <=>
             (v \in Of("wire")' /\ End(entities'[v], e) = x)
  <2>1. CASE v = w
    <3>1. End(bound, e) = x <=> End(r, e) = x
      BY <1>5, <1>6
    <3> HIDE DEF bound
    <3> QED BY <2>1, <3>1, <1>1, <1>6 DEF Of
  <2>2. CASE v # w
    BY <2>2, <1>1 DEF Of
  <2> QED BY <2>1, <2>2
<1> QED BY <1>4, <1>7, SameMeeting

LEMMA StepShows == LifecycleInv /\ [Next]_vars => AllShow
<1> SUFFICES ASSUME LifecycleInv, [Next]_vars PROVE AllShow
  OBVIOUS
<1> USE DEF LifecycleInv
<1>1. CASE UNCHANGED vars
  BY <1>1, UnchangedShows DEF vars
<1>2. ASSUME NEW plan \in Plans, NEW domain \in References, NEW a \in References,
             NEW b \in References, Place(plan, domain, a, b)
      PROVE  AllShow
  <2>1. PICK at \in Standing : entities' = Append(entities, New(plan, domain, a, b, at))
    BY <1>2 DEF Place
  <2>2. PICK n : n = next_id
    OBVIOUS
  <2>3. /\ stage' = stage /\ dirty' = dirty \cup JunctionEnds([A |-> a, B |-> b])
    BY <1>2 DEF Place
  <2>4. New(plan, domain, a, b, at) \in Record
    BY NewRecord, LifecycleAssumption DEF New
  <2>5. /\ Typed' /\ Ids' = Ids \cup {n} /\ entities'[n] = New(plan, domain, a, b, at)
        /\ \A x \in Ids : entities'[x] = entities[x]
    BY <2>1, <2>2, <2>3, <2>4, Appended
  <2>6. JunctionEnds(entities'[n]) \subseteq dirty'
    BY <2>3, <2>5 DEF JunctionEnds, New, Entity
  <2>7. n \notin Ids
    BY <2>2, RegistryShape
  <2> DEFINE gone == {}
  <2>8. gone \cap Elements = {} /\ (\A x \in Ids \ gone : entities'[x] = entities[x])
        /\ \A x \in gone : entities'[x].kind = "removed"
    BY <2>5
  <2> HIDE DEF gone
  <2> QED BY <2>3, <2>5, <2>6, <2>7, <2>8, PlantingShows
<1>3. ASSUME NEW plan \in Plans, NEW domain \in References, NEW a \in References,
             NEW b \in References, PlaceSite(plan, domain, a, b)
      PROVE  AllShow
  <2> DEFINE r == Entity("site", plan, domain, a, b, Nowhere)
  <2>1. stage' = stage /\ dirty' = dirty /\ entities' = Append(entities, r)
    BY <1>3 DEF PlaceSite
  <2>2. PICK n : n = next_id
    OBVIOUS
  <2>3. r \in Record /\ r.kind = "site"
    BY NewRecord DEF Standing, Entity
  <2>4. /\ Typed' /\ Ids' = Ids \cup {n} /\ entities'[n] = r
        /\ \A x \in Ids : entities'[x] = entities[x]
    BY <2>1, <2>2, <2>3, Appended
  <2>5. n \notin Ids
    BY <2>2, RegistryShape
  <2> DEFINE gone == {}
  <2>6. gone \cap Elements = {} /\ (\A x \in Ids \ gone : entities'[x] = entities[x])
        /\ (\A x \in gone : entities'[x].kind = "removed") /\ entities'[n].kind # "wire"
    BY <2>3, <2>4
  <2> HIDE DEF gone
  <2> QED BY <2>1, <2>4, <2>5, <2>6, PlantingShows
<1>4. ASSUME NEW s \in Sites, Activate(s) PROVE AllShow
  <2> DEFINE q == entities[s]  r == New(q.plan, q.domain, q.A, q.B, Nowhere)
  <2>1. /\ entities' = Append([entities EXCEPT ![s] = Tombstone], r)
        /\ dirty' = dirty \cup JunctionEnds(q)
    BY <1>4 DEF Activate
  <2>2. PICK n : n = next_id
    OBVIOUS
  <2>3. r.A = q.A /\ r.B = q.B
    BY DEF New, Entity
  <2> HIDE DEF r
  <2>4. /\ Ids' = Ids \cup {n} /\ entities'[n] = r /\ entities'[s] = Tombstone
        /\ \A x \in Ids \ {s} : entities'[x] = entities[x]
    <3> DEFINE left == [entities EXCEPT ![s] = Tombstone]
    <3>1. /\ n = Len(entities) + 1 /\ Ids = 1..Len(entities) /\ Len(entities) \in Nat
          /\ entities \in Seq(Record) /\ s \in Ids
      BY <2>2, RegistryShape, Membership DEF Typed, next_id
    <3>2. /\ left \in Seq(Record) /\ Len(left) = Len(entities) /\ left[s] = Tombstone
          /\ \A x \in Ids \ {s} : left[x] = entities[x]
      BY <3>1, RecordsStayRecords
    <3> HIDE DEF left
    <3>3. entities' = Append(left, r)
      BY <2>1 DEF left
    <3>4. /\ Len(entities') = n /\ entities'[n] = r
          /\ (\A x \in 1..Len(entities) : entities'[x] = left[x]) /\ Ids' = 1..n
      <4>1. DOMAIN entities' = 1..Len(left) + 1
        BY <3>2, <3>3
      <4> QED BY <4>1, <3>1, <3>2, <3>3 DEF Ids
    <3> QED BY <3>1, <3>2, <3>4
  <2>5. JunctionEnds(entities'[n]) \subseteq dirty'
    BY <2>1, <2>3, <2>4 DEF JunctionEnds
  <2>6. n \notin Ids
    BY <2>2, RegistryShape
  <2>7. {s} \cap Elements = {}
    BY DEF Sites, Elements, Of
  <2>8. \A x \in {s} : entities'[x].kind = "removed"
    BY <2>4, RecordsStayRecords
  <2>9. dirty \subseteq dirty'
    BY <2>1
  <2> QED BY <2>4, <2>5, <2>6, <2>7, <2>8, <2>9, PlantingShows
<1>5. ASSUME NEW s \in Sites, CompleteWork(s) PROVE AllShow
  <2>1. /\ dirty' = dirty /\ entities' = [entities EXCEPT ![s].ready = TRUE]
        /\ entities \in Seq(Record) /\ s \in Ids /\ entities[s] \in Record
    BY <1>5, RegistryShape, Membership DEF Typed, CompleteWork
  <2>2. /\ Ids' = Ids /\ entities'[s] = [entities[s] EXCEPT !.ready = TRUE]
        /\ \A x \in Ids \ {s} : entities'[x] = entities[x]
    BY <2>1 DEF Ids
  <2>3. \A q : q = [entities[s] EXCEPT !.ready = TRUE] =>
             /\ q.kind = entities[s].kind /\ q.plan = entities[s].plan
             /\ q.domain = entities[s].domain
             /\ q.A = entities[s].A /\ q.B = entities[s].B
    BY <2>1 DEF Record
  <2>4. \A x \in Ids : /\ Stands(x) /\ entities'[x].A = entities[x].A
                       /\ entities'[x].B = entities[x].B
    BY <2>2, <2>3 DEF Stands
  <2> QED BY <2>1, <2>2, <2>4, NobodyRewired DEF AllShow, Shows
<1>6. ASSUME NEW e \in Live, RemoveEntity(e) PROVE AllShow
  BY <1>6, RemovalShows DEF RemoveEntity
<1>7. ASSUME NEW w \in Of("wire"), NEW end \in Ends, NEW target \in References,
             BindPort(w, end, target)
      PROVE  AllShow
  BY <1>7, BindingShows
<1>8. ASSUME NEW m \in Of("mobile"), NEW to \in Moves(entities[m].at), Move(m, to)
      PROVE  AllShow
  <2>1. dirty' = dirty
    BY <1>8 DEF Move
  <2>2. /\ Ids' = Ids /\ \A x \in Ids : Stands(x)
        /\ \A x \in Ids : entities'[x].A = entities[x].A /\ entities'[x].B = entities[x].B
    BY <1>8, MovedRecords
  <2> QED BY <2>1, <2>2, NobodyRewired DEF AllShow, Shows
<1>9. ASSUME NEW e \in doomed, Destroy(e) PROVE AllShow
  BY <1>9, RemovalShows DEF Destroy, DamageWaits
<1>10. CASE EndBatch \/ EndDestruction
  <2>1. entities' = Advanced(entities, dirty)
        /\ stage' \in {"destruction", "removal", "activation", "commands", "physics"}
    BY <1>10 DEF EndBatch, EndDestruction
  <2>2. /\ Ids' = Ids /\ \A x \in Ids : Stands(x)
        /\ \A x \in Ids : entities'[x].A = entities[x].A /\ entities'[x].B = entities[x].B
        /\ \A x \in Ids : x \in dirty /\ entities[x].kind \in {"wire", "junction"} =>
               entities'[x].generation = entities[x].generation + 1
    BY <2>1, AdvancedRecords
  <2>3. \A x \in Elements : x \in Ids /\ entities[x].kind \in {"wire", "junction"}
    BY DEF Elements, Of
  <2> QED BY <2>2, <2>3, NobodyRewired DEF AllShow, Shows
<1>11. CASE BeginBatch \/ EndTick \/ Condemn
  BY <1>11, UnchangedShows DEF BeginBatch, EndTick, Condemn
<1>12. ASSUME NEW e, SetExternalDriver(e) \/ Damage(e) PROVE AllShow
  BY <1>12, UnchangedShows DEF SetExternalDriver, Damage
<1> QED BY <1>1, <1>2, <1>3, <1>4, <1>5, <1>6, <1>7, <1>8, <1>9, <1>10, <1>11, <1>12,
           NamesAreReferences DEF Next

(* A wire whose ends change, and a junction whose wires change, is marked  *)
(* until its generation advances: signals in flight can tell.              *)
THEOREM RewiringIsShown == Spec => RewiringShows
<1>1. LifecycleInv /\ [Next]_vars =>
        \A e \in Elements \cap Elements' :
            \/ entities'[e].generation = entities[e].generation + 1
            \/ /\ e \in dirty => e \in dirty'
               /\ Rewired(e) => e \in dirty'
  BY StepShows DEF AllShow, Shows
<1> QED BY <1>1, LifecycleHolds, PTL DEF Spec, RewiringShows

-----------------------------------------------------------------------------
(* The track stays under the mobiles.                                      *)

TrackStays ==
    \A m \in Of("mobile") \cap Of("mobile")' :
        stage # "removal" /\ OnTrack(m) => OnTrack(m)'

(* A mobile that does not move keeps the track if its edge stays, and the  *)
(* junction it is at, and no end of the edge leads there but the one.      *)
LEMMA TrackKept ==
    ASSUME NEW m, OnTrack(m), entities'[m].at = entities[m].at,
           Stands(entities[m].at.edge),
           entities[m].at.on \in Of("junction") /\ entities[m].at.place \notin Places =>
               /\ Stands(entities[m].at.on)
               /\ \A end \in Ends :
                     End(entities'[entities[m].at.edge], end) =
                         End(entities[entities[m].at.edge], end)
                  \/ /\ End(entities'[entities[m].at.edge], end) # entities[m].at.on
                     /\ End(entities[entities[m].at.edge], end) # entities[m].at.on
    PROVE  OnTrack(m)'
<1> DEFINE at == entities[m].at
<1>1. at.edge \in Edges'
  BY DEF OnTrack, Edges, Of, Stands, None
<1>2. CASE at.place \in Places
  BY <1>1, <1>2 DEF OnTrack
<1>3. CASE at.place \notin Places
  <2>1. /\ at.on \in Of("junction") /\ entities[at.on].domain = None
        /\ \E end \in Ends : /\ End(entities[at.edge], end) = at.on
                             /\ \A e \in Ends \ {end} : End(entities[at.edge], e) # at.on
    BY <1>3 DEF OnTrack
  <2>2. at.on \in Of("junction")' /\ entities'[at.on].domain = None
    BY <2>1, <1>3 DEF Of, Stands
  <2>3. \A end \in Ends : End(entities'[at.edge], end) = at.on <=>
                         End(entities[at.edge], end) = at.on
    BY <2>1, <1>3
  <2>4. \E end \in Ends : /\ End(entities'[at.edge], end) = at.on
                         /\ \A e \in Ends \ {end} : End(entities'[at.edge], e) # at.on
    BY <2>1, <2>3
  <2> QED BY <1>1, <2>2, <2>4 DEF OnTrack, None
<1> QED BY <1>2, <1>3

LEMMA RelabelledTrack ==
    ASSUME \A x \in Ids : Stands(x),
           \A x \in Ids : /\ entities'[x].A = entities[x].A
                          /\ entities'[x].B = entities[x].B
                          /\ entities'[x].at = entities[x].at
    PROVE  TrackStays
<1> SUFFICES ASSUME NEW m \in Of("mobile"), OnTrack(m) PROVE OnTrack(m)'
  BY DEF TrackStays
<1>1. m \in Ids /\ entities[m].at.edge \in Ids
  BY DEF Of, OnTrack, Edges
<1>2. entities[m].at.on \in Of("junction") => Stands(entities[m].at.on)
  BY DEF Of
<1>3. \A end \in Ends : End(entities'[entities[m].at.edge], end) =
                       End(entities[entities[m].at.edge], end)
  BY <1>1 DEF End
<1> QED BY <1>1, <1>2, <1>3, TrackKept

(* Everything on the track is left as it is.                               *)
LEMMA UntouchedTrack ==
    ASSUME NEW gone, gone \cap (Of("wire") \cup Of("junction") \cup Of("mobile")) = {},
           Ids \subseteq Ids', \A x \in Ids \ gone : entities'[x] = entities[x]
    PROVE  TrackStays
<1> SUFFICES ASSUME NEW m \in Of("mobile"), OnTrack(m) PROVE OnTrack(m)'
  BY DEF TrackStays
<1>1. m \in Ids \ gone /\ entities[m].at.edge \in Ids \ gone
  BY DEF Of, OnTrack, Edges
<1>2. entities[m].at.on \in Of("junction") => entities[m].at.on \in Ids \ gone
  BY DEF Of
<1>3. \A x \in Ids \ gone : Stands(x)
  BY DEF Stands
<1> QED BY <1>1, <1>2, <1>3, TrackKept

LEMMA StepKeepsTrack == LifecycleInv /\ [Next]_vars => TrackStays
<1> SUFFICES ASSUME LifecycleInv, [Next]_vars PROVE TrackStays
  OBVIOUS
<1> USE DEF LifecycleInv
<1>1. ASSUME entities' = entities PROVE TrackStays
  BY <1>1, RelabelledTrack DEF Stands, Ids
<1>2. ASSUME NEW plan \in Plans, NEW domain \in References, NEW a \in References,
             NEW b \in References, Place(plan, domain, a, b) \/ PlaceSite(plan, domain, a, b)
      PROVE  TrackStays
  <2>1. \E r : entities' = Append(entities, r)
    BY <1>2 DEF Place, PlaceSite
  <2>2. Ids \subseteq Ids' /\ \A x \in Ids : entities'[x] = entities[x]
    <3>1. entities \in Seq(Record) /\ Ids = 1..Len(entities) /\ Len(entities) \in Nat
      BY RegistryShape DEF Typed
    <3>2. DOMAIN entities' = 1..Len(entities) + 1
      BY <2>1, <3>1
    <3> QED BY <2>1, <3>1, <3>2 DEF Ids
  <2> DEFINE gone == {}
  <2>3. \A x \in Ids \ gone : entities'[x] = entities[x]
    BY <2>2
  <2>4. gone \cap (Of("wire") \cup Of("junction") \cup Of("mobile")) = {}
    OBVIOUS
  <2> HIDE DEF gone
  <2> QED BY <2>2, <2>3, <2>4, UntouchedTrack
<1>3. ASSUME NEW s \in Sites, Activate(s) PROVE TrackStays
  <2>1. PICK r : entities' = Append([entities EXCEPT ![s] = Tombstone], r)
    BY <1>3 DEF Activate
  <2>2. Ids \subseteq Ids' /\ \A x \in Ids \ {s} : entities'[x] = entities[x]
    <3> DEFINE left == [entities EXCEPT ![s] = Tombstone]
    <3>1. /\ Ids = 1..Len(entities) /\ Len(entities) \in Nat
          /\ entities \in Seq(Record) /\ s \in Ids
      BY RegistryShape, Membership DEF Typed
    <3>2. /\ left \in Seq(Record) /\ Len(left) = Len(entities)
          /\ \A x \in Ids \ {s} : left[x] = entities[x]
      BY <3>1, RecordsStayRecords
    <3> HIDE DEF left
    <3>3. entities' = Append(left, r)
      BY <2>1 DEF left
    <3>4. DOMAIN entities' = 1..Len(left) + 1 /\ \A x \in 1..Len(left) : entities'[x] = left[x]
      BY <3>2, <3>3
    <3> QED BY <3>1, <3>2, <3>4 DEF Ids
  <2>3. {s} \cap (Of("wire") \cup Of("junction") \cup Of("mobile")) = {}
    BY DEF Sites, Of
  <2> QED BY <2>2, <2>3, UntouchedTrack
<1>4. ASSUME NEW s \in Sites, CompleteWork(s) PROVE TrackStays
  <2>1. /\ Ids \subseteq Ids' /\ \A x \in Ids \ {s} : entities'[x] = entities[x]
    BY <1>4, RegistryShape DEF Typed, CompleteWork, Ids
  <2>2. {s} \cap (Of("wire") \cup Of("junction") \cup Of("mobile")) = {}
    BY DEF Sites, Of
  <2> QED BY <2>1, <2>2, UntouchedTrack
<1>5. ASSUME NEW e \in Live, RemoveEntity(e) PROVE TrackStays
  <2>1. SUFFICES ASSUME NEW m \in Of("mobile"), m \in Of("mobile")', OnTrack(m)
                 PROVE  OnTrack(m)'
    BY DEF TrackStays
  <2> DEFINE at == entities[m].at
  <2>2. /\ Ids' = Ids /\ entities'[e] = Tombstone
        /\ \A x \in Ids \ {e} : entities'[x] \in {entities[x], Freed(entities[x], e)}
        /\ Removable(e)
    BY <1>5, RegistryShape, Membership DEF RemoveEntity, Remove, Ids
  <2>3. \A x \in Ids \ {e} :
          /\ Stands(x) /\ entities'[x].at = entities[x].at
          /\ entities'[x].A = entities[x].A \/ (entities'[x].A = None /\ entities[x].A = e)
          /\ entities'[x].B = entities[x].B \/ (entities'[x].B = None /\ entities[x].B = e)
    BY <2>2, RegistryShape, RecordsStayRecords DEF Stands
  <2>4. m \in Ids \ {e}
    BY <2>1, <2>2, RecordsStayRecords DEF Of
  <2>5. at.edge \in Ids \ {e} /\ at.edge \in Edges
    <3>1. at.edge \in Edges
      BY <2>1 DEF OnTrack
    <3>2. at.edge # e
      BY <2>1, <2>2, <3>1 DEF Removable, wire_is_occupied, Edges, Of
    <3> QED BY <3>1, <3>2 DEF Edges, Of
  <2>6. ASSUME at.on \in Of("junction"), at.place \notin Places
        PROVE  /\ Stands(at.on)
               /\ \A end \in Ends :
                     \/ End(entities'[at.edge], end) = End(entities[at.edge], end)
                     \/ /\ End(entities'[at.edge], end) # at.on
                        /\ End(entities[at.edge], end) # at.on
    <3>1. at.place = "junction"
      BY <2>6, <2>1, Membership DEF Sound, Of, Carried
    <3>2. at.on # e
      BY <2>1, <2>2, <2>6, <3>1 DEF Removable, junction_is_occupied, Of
    <3>3. at.on \in Ids \ {e} /\ at.on # None
      BY <2>6, <3>2, RegistryShape DEF Of
    <3> QED BY <2>3, <2>5, <3>2, <3>3 DEF End
  <2>7. Stands(at.edge) /\ entities'[m].at = at
    BY <2>3, <2>4, <2>5
  <2> QED BY <2>1, <2>6, <2>7, TrackKept
<1>6. ASSUME NEW w \in Of("wire"), NEW end \in Ends, NEW target \in References,
             BindPort(w, end, target)
      PROVE  TrackStays
  <2>1. SUFFICES ASSUME NEW m \in Of("mobile"), OnTrack(m) PROVE OnTrack(m)'
    BY DEF TrackStays
  <2>2. /\ Ids' = Ids /\ \A x \in Ids \ {w} : entities'[x] = entities[x]
        /\ ~wire_is_occupied(w)
    BY <1>6, RegistryShape DEF Typed, BindPort, Ids
  <2>3. entities[m].at.edge # w
    BY <2>1, <2>2 DEF wire_is_occupied
  <2>4. \A x \in Ids \ {w} : Stands(x)
    BY <2>2 DEF Stands
  <2>5. m \in Ids \ {w} /\ entities[m].at.edge \in Ids \ {w}
    BY <2>1, <2>3 DEF Of, OnTrack, Edges
  <2>6. entities[m].at.on \in Of("junction") => entities[m].at.on \in Ids \ {w}
    BY DEF Of
  <2> QED BY <2>1, <2>2, <2>4, <2>5, <2>6, TrackKept
<1>7. ASSUME NEW v \in Of("mobile"), NEW to \in Moves(entities[v].at), Move(v, to)
      PROVE  TrackStays
  <2>1. SUFFICES ASSUME NEW m \in Of("mobile"), OnTrack(m) PROVE OnTrack(m)'
    BY DEF TrackStays
  <2>2. /\ Ids' = Ids /\ (\A x \in Ids : Stands(x)) /\ v \in Ids
        /\ \A x \in Ids \ {v} : entities'[x] = entities[x]
        /\ entities'[v].at = to /\ entities'[v].A = entities[v].A
        /\ entities'[v].B = entities[v].B
    BY <1>7, MovedRecords DEF Of
  <2>3. \A x \in Ids : \A end \in Ends : End(entities'[x], end) = End(entities[x], end)
    BY <2>2 DEF End
  <2>4. CASE m # v
    <3>1. m \in Ids /\ entities[m].at.edge \in Ids /\ entities'[m].at = entities[m].at
      BY <2>1, <2>2, <2>4 DEF Of, OnTrack, Edges
    <3>2. entities[m].at.on \in Of("junction") => Stands(entities[m].at.on)
      BY <2>2 DEF Of
    <3> QED BY <2>1, <2>2, <2>3, <3>1, <3>2, TrackKept
  <2>5. CASE m = v
    <3>1. /\ (\A k : Of(k)' = Of(k)) /\ \A x \in Ids : entities'[x].domain = entities[x].domain
      BY <2>2, SameFolk DEF Stands
    <3>2. Edges' = Edges /\ Edges \subseteq Ids
      BY <3>1 DEF Edges, Of, None
    <3>3. CASE \E w \in Edges, place \in Places : to = OnEdge(w, place)
      <4>1. to.place \in Places /\ to.edge \in Edges
        BY <3>3 DEF OnEdge, On
      <4> QED BY <4>1, <3>2, <2>2, <2>5 DEF OnTrack
    <3>4. CASE \E w \in Edges, end \in Ends :
                 /\ End(entities[w], end) \in Of("junction")
                 /\ entities[End(entities[w], end)].domain = None
                 /\ \A e \in Ends \ {end} : End(entities[w], e) # End(entities[w], end)
                 /\ to = AtJunction(End(entities[w], end), w)
      <4>1. /\ to.edge \in Edges /\ to.on \in Of("junction") /\ entities[to.on].domain = None
            /\ \E end \in Ends : /\ End(entities[to.edge], end) = to.on
                                 /\ \A e \in Ends \ {end} : End(entities[to.edge], e) # to.on
        BY <3>4 DEF AtJunction, On
      <4>2. /\ to.edge \in Edges' /\ to.on \in Of("junction")' /\ entities'[to.on].domain = None
            /\ \E end \in Ends : /\ End(entities'[to.edge], end) = to.on
                                 /\ \A e \in Ends \ {end} : End(entities'[to.edge], e) # to.on
        BY <4>1, <3>1, <3>2, <2>3 DEF Of
      <4> QED BY <4>2, <2>2, <2>5 DEF OnTrack, None
    <3> QED BY <3>3, <3>4, <1>7, MovesAlongTheTrack
  <2> QED BY <2>4, <2>5
<1>8. CASE EndBatch
  BY <1>8, AdvancedRecords, RelabelledTrack DEF EndBatch
<1>9. CASE stage = "removal"
  BY <1>9 DEF TrackStays
<1>10. ASSUME NEW e \in doomed, Destroy(e) PROVE TrackStays
  BY <1>9, <1>10 DEF Destroy
<1>11. CASE EndDestruction
  BY <1>9, <1>11 DEF EndDestruction
<1>12. CASE BeginBatch \/ EndTick \/ Condemn \/ UNCHANGED vars
  BY <1>1, <1>12 DEF BeginBatch, EndTick, Condemn, vars
<1>13. ASSUME NEW e, SetExternalDriver(e) \/ Damage(e) PROVE TrackStays
  BY <1>1, <1>13 DEF SetExternalDriver, Damage
<1> QED BY <1>2, <1>3, <1>4, <1>5, <1>6, <1>7, <1>8, <1>10, <1>11, <1>12, <1>13,
           NamesAreReferences DEF Next

(* No command, no activation and no movement takes the track from under a  *)
(* mobile; only a destruction does.                                        *)
THEOREM CommandsKeepTheTrack == Spec => TrackStaysUnderMobiles
<1>1. LifecycleInv /\ [Next]_vars =>
        \A m \in Of("mobile") \cap Of("mobile")' :
            stage # "removal" /\ OnTrack(m) => OnTrack(m)'
  BY StepKeepsTrack DEF TrackStays
<1> QED BY <1>1, LifecycleHolds, PTL DEF Spec, TrackStaysUnderMobiles
-----------------------------------------------------------------------------
(* Types.  What entities, marks and updates name has been given an id.     *)

PositionsIn(ids) == {Nowhere} \cup {OnEdge(w, p) : w \in ids, p \in Places}
                             \cup {AtJunction(j, w) : j, w \in ids}
Named(ids, r) == {r.domain, r.A, r.B} \subseteq ids \cup {None} /\ r.at \in PositionsIn(ids)
Counted == tick \in 0..MaxTick /\ Len(entities) <= MaxId /\ frontier \in 1..next_id
Marked == dirty \subseteq Ids /\ updates \subseteq Ids /\ staged \subseteq Ids
AllNamed == \A e \in Ids : Named(Ids, entities[e])
NamesInv == Counted /\ Marked /\ AllNamed

LEMMA TypesFollow == LifecycleInv /\ NamesInv => TypeOK
<1> SUFFICES ASSUME LifecycleInv, NamesInv PROVE TypeOK
  OBVIOUS
<1>1. \A e \in Ids : entities[e] \in Record
  BY RegistryShape DEF LifecycleInv
<1>2. Positions = PositionsIn(Ids)
  BY DEF Positions, PositionsIn
<1>3. \A e \in Ids : LET r == entities[e]
                     IN  /\ r.kind \in Kinds \cup {"site", "removed"}
                         /\ r.plan \in Plans \cup {"none"}
                         /\ r.generation \in Nat /\ r.ready \in BOOLEAN
  BY <1>1 DEF Record
<1> QED BY <1>2, <1>3 DEF TypeOK, NamesInv, Counted, Marked, AllNamed, Named,
                         LifecycleInv, Typed

(* A record may lose what it names, and more ids may be given.             *)
LEMMA NamesStay ==
    ASSUME NEW ids, NEW more, ids \subseteq more, NEW r, NEW q, Named(ids, r),
           {q.domain, q.A, q.B} \subseteq {r.domain, r.A, r.B, None},
           q.at = r.at \/ q.at = Nowhere
    PROVE  Named(more, q)
<1>1. PositionsIn(ids) \subseteq PositionsIn(more) /\ Nowhere \in PositionsIn(more)
  BY DEF PositionsIn
<1> QED BY <1>1 DEF Named

LEMMA NothingNamed == ASSUME NEW ids PROVE Named(ids, Tombstone)
  BY DEF Named, Tombstone, Entity, PositionsIn

LEMMA StandingIsNamed ==
    ASSUME NEW at \in Standing PROVE at \in PositionsIn(Ids)
  BY DEF Standing, PositionsIn, Edges, Of

LEMMA InitNames == Init => NamesInv
<1> SUFFICES ASSUME Init PROVE NamesInv
  OBVIOUS
<1>1. Ids = {} /\ Len(entities) = 0
  BY DEF Init, Ids
<1> QED BY <1>1, LifecycleAssumption
        DEF Init, NamesInv, Counted, Marked, AllNamed, next_id

(* A new entity: what it names is there, and an older one may be gone.     *)
LEMMA PlantingNames ==
    ASSUME LifecycleInv, NamesInv, NEW n, n = next_id, n <= MaxId,
           Ids' = Ids \cup {n}, Named(Ids, entities'[n]), Len(entities') = n,
           \A x \in Ids : entities'[x] = entities[x] \/ entities'[x] = Tombstone
    PROVE  AllNamed' /\ Len(entities') <= MaxId /\ next_id' = next_id + 1
<1>1. /\ Len(entities) \in Nat /\ Ids = 1..Len(entities) /\ n = Len(entities) + 1
  BY RegistryShape DEF LifecycleInv, next_id
<1>2. next_id' = next_id + 1
  BY <1>1 DEF next_id
<1>3. ASSUME NEW x \in Ids' PROVE Named(Ids', entities'[x])
  <2>1. CASE x = n
    BY <2>1, NamesStay
  <2>2. CASE x \in Ids /\ entities'[x] = entities[x]
    BY <2>2, NamesStay DEF NamesInv, AllNamed
  <2>3. CASE entities'[x] = Tombstone
    BY <2>3, NothingNamed
  <2> QED BY <2>1, <2>2, <2>3
<1> QED BY <1>2, <1>3 DEF AllNamed

(* The same ids: every record keeps its names or loses them.               *)
LEMMA LosingNames ==
    ASSUME NamesInv, Ids' = Ids,
           \A x \in Ids : \/ entities'[x] = Tombstone
                          \/ /\ entities'[x].domain = entities[x].domain
                             /\ entities'[x].A \in {entities[x].A, None}
                             /\ entities'[x].B \in {entities[x].B, None}
                             /\ entities'[x].at = entities[x].at
    PROVE  AllNamed'
<1> SUFFICES ASSUME NEW x \in Ids PROVE Named(Ids', entities'[x])
  BY DEF AllNamed
<1>1. CASE entities'[x] = Tombstone
  BY <1>1, NothingNamed
<1>2. CASE entities'[x] # Tombstone
  BY <1>2, NamesStay DEF NamesInv, AllNamed
<1> QED BY <1>1, <1>2
(* What a change counts and marks.                                         *)
LEMMA MarksStay ==
    ASSUME LifecycleInv, NamesInv, Ids \subseteq Ids',
           dirty' \subseteq dirty \cup Ids, updates' \subseteq updates \cup Ids,
           staged' \subseteq staged \cup updates
    PROVE  Marked'
  BY DEF NamesInv, Marked

LEMMA CountStays ==
    ASSUME LifecycleInv, NamesInv, next_id' \in Nat, next_id <= next_id',
           Len(entities') <= MaxId, UNCHANGED <<tick, frontier>>
    PROVE  Counted'
<1>1. next_id \in Nat
  BY RegistryShape DEF LifecycleInv
<1> QED BY <1>1 DEF NamesInv, Counted

LEMMA SameIdsCount ==
    ASSUME LifecycleInv, Typed', Ids' = Ids
    PROVE  Len(entities') = Len(entities) /\ next_id' = next_id /\ next_id \in Nat
<1>1. Len(entities) \in Nat /\ Ids = 1..Len(entities) /\ next_id \in Nat
  BY RegistryShape DEF LifecycleInv
<1>2. Len(entities') \in Nat /\ Ids' = 1..Len(entities')
  BY DEF Typed, Ids
<1>3. \A i, j \in Nat : 1..i = 1..j => i = j
  <2>1. ASSUME NEW i \in Nat, NEW j \in Nat, 1..i = 1..j PROVE ~(i < j)
    <3>1. j \in 1..j <=> j \in 1..i
      BY <2>1
    <3> QED BY <3>1
  <2> QED BY <2>1
<1> QED BY <1>1, <1>2, <1>3 DEF next_id

LEMMA NamedEnds ==
    ASSUME LifecycleInv, NamesInv
    PROVE  /\ References \subseteq Ids \cup {None}
           /\ \A r : JunctionEnds(r) \subseteq Ids
           /\ \A e : Loosened(e) \subseteq Ids /\ JunctionsAt(e) \subseteq Ids
  BY Membership DEF References, JunctionEnds, Loosened, JunctionsAt, Of

LEMMA PlaceNames ==
    ASSUME LifecycleInv, NamesInv, NEW plan \in Plans, NEW domain \in References,
           NEW a \in References, NEW b \in References,
           Place(plan, domain, a, b) \/ PlaceSite(plan, domain, a, b)
    PROVE  NamesInv'
<1>1. PICK r \in Record : /\ entities' = Append(entities, r) /\ r.at \in Standing
                          /\ r.domain = domain /\ r.A = a /\ r.B = b
  <2>1. CASE Place(plan, domain, a, b)
    <3>1. PICK at \in Standing : entities' = Append(entities, New(plan, domain, a, b, at))
      BY <2>1 DEF Place
    <3>2. New(plan, domain, a, b, at) \in Record
      BY NewRecord, LifecycleAssumption DEF New, LifecycleInv
    <3> QED BY <3>1, <3>2 DEF New, Entity
  <2>2. CASE PlaceSite(plan, domain, a, b)
    <3>1. entities' = Append(entities, Entity("site", plan, domain, a, b, Nowhere))
          /\ Nowhere \in Standing
      BY <2>2 DEF PlaceSite, Standing
    <3>2. Entity("site", plan, domain, a, b, Nowhere) \in Record
      BY <3>1, NewRecord DEF LifecycleInv
    <3> QED BY <3>1, <3>2 DEF Entity
  <2> QED BY <2>1, <2>2
<1>2. PICK n : n = next_id
  OBVIOUS
<1>3. /\ stage' = stage /\ next_id <= MaxId /\ UNCHANGED <<tick, frontier, updates, staged>>
      /\ dirty' \subseteq dirty \cup Ids
  BY NamedEnds DEF Place, PlaceSite
<1>4. /\ Typed' /\ Ids' = Ids \cup {n} /\ entities'[n] = r
      /\ \A x \in Ids : entities'[x] = entities[x]
  BY <1>1, <1>2, <1>3, Appended DEF LifecycleInv
<1>5. Named(Ids, entities'[n])
  BY <1>1, <1>4, NamedEnds, StandingIsNamed DEF Named
<1>6. Len(entities') = n /\ n \in Nat
  BY <1>1, <1>2, RegistryShape DEF Typed, next_id, LifecycleInv
<1>7. AllNamed' /\ Len(entities') <= MaxId /\ next_id' = next_id + 1
  BY <1>2, <1>3, <1>4, <1>5, <1>6, PlantingNames
<1>8. Counted'
  BY <1>2, <1>3, <1>6, <1>7, CountStays
<1>9. Marked'
  BY <1>3, <1>4, MarksStay
<1> QED BY <1>7, <1>8, <1>9 DEF NamesInv

LEMMA ActivateNames ==
    ASSUME LifecycleInv, NamesInv, NEW s \in Sites, Activate(s)
    PROVE  NamesInv'
<1> DEFINE q == entities[s]  r == New(q.plan, q.domain, q.A, q.B, Nowhere)
           left == [entities EXCEPT ![s] = Tombstone]
<1>1. /\ entities' = Append(left, r) /\ next_id <= MaxId
      /\ dirty' = dirty \cup JunctionEnds(q) /\ UNCHANGED <<tick, frontier, updates, staged>>
  BY DEF Activate
<1>2. PICK n : n = next_id
  OBVIOUS
<1>3. /\ n = Len(entities) + 1 /\ Ids = 1..Len(entities) /\ Len(entities) \in Nat
      /\ entities \in Seq(Record) /\ s \in Ids
  BY <1>2, RegistryShape, Membership DEF Typed, next_id, LifecycleInv
<1>4. /\ left \in Seq(Record) /\ Len(left) = Len(entities) /\ left[s] = Tombstone
      /\ \A x \in Ids \ {s} : left[x] = entities[x]
  BY <1>3, RecordsStayRecords
<1>5. Named(Ids, r)
  <2>1. Named(Ids, q)
    BY <1>3 DEF NamesInv, AllNamed
  <2> QED BY <2>1 DEF Named, New, Entity, PositionsIn
<1> HIDE DEF left, r
<1>6. /\ Len(entities') = n /\ entities'[n] = r /\ n \in Nat
      /\ (\A x \in 1..Len(entities) : entities'[x] = left[x]) /\ Ids' = Ids \cup {n}
  <2>1. DOMAIN entities' = 1..Len(left) + 1
    BY <1>1, <1>4, <1>3
  <2> QED BY <2>1, <1>1, <1>3, <1>4 DEF Ids
<1>7. \A x \in Ids : entities'[x] = entities[x] \/ entities'[x] = Tombstone
  BY <1>3, <1>4, <1>6
<1>8. AllNamed' /\ Len(entities') <= MaxId /\ next_id' = next_id + 1
  BY <1>1, <1>2, <1>5, <1>6, <1>7, PlantingNames
<1>9. Counted'
  BY <1>1, <1>2, <1>6, <1>8, CountStays
<1>10. dirty' \subseteq dirty \cup Ids
  BY <1>1, NamedEnds
<1>11. Marked'
  BY <1>1, <1>6, <1>10, MarksStay
<1> QED BY <1>8, <1>9, <1>11 DEF NamesInv
(* Steps that give no ids.                                                 *)
LEMMA KeepsNames ==
    ASSUME LifecycleInv, NamesInv, Typed', Ids' = Ids, AllNamed', UNCHANGED tick,
           frontier' \in {frontier, next_id},
           dirty' \subseteq dirty \cup Ids, updates' \subseteq updates \cup Ids,
           staged' \subseteq staged \cup updates
    PROVE  NamesInv'
<1>1. Len(entities') = Len(entities) /\ next_id' = next_id /\ next_id \in Nat /\ next_id >= 1
  BY SameIdsCount, RegistryShape DEF next_id, LifecycleInv
<1>2. Counted'
  BY <1>1 DEF NamesInv, Counted
<1>3. Marked'
  BY MarksStay
<1> QED BY <1>2, <1>3 DEF NamesInv

LEMMA RemovalNames ==
    ASSUME LifecycleInv, NamesInv, NEW e \in Live, Remove(e)
    PROVE  AllNamed' /\ dirty' \subseteq dirty \cup Ids
<1>1. /\ Ids' = Ids /\ dirty' = dirty \cup Loosened(e) \cup JunctionsAt(e)
      /\ \A x \in Ids : entities'[x] \in {Tombstone, entities[x], Freed(entities[x], e)}
      /\ \A x \in Ids : entities[x] \in Record
  BY RegistryShape DEF LifecycleInv, Remove, Ids
<1>2. \A x \in Ids : \/ entities'[x] = Tombstone
                     \/ /\ entities'[x].domain = entities[x].domain
                        /\ entities'[x].A \in {entities[x].A, None}
                        /\ entities'[x].B \in {entities[x].B, None}
                        /\ entities'[x].at = entities[x].at
  BY <1>1, RecordsStayRecords
<1> QED BY <1>1, <1>2, LosingNames, NamedEnds

LEMMA BindPortNames ==
    ASSUME LifecycleInv, NamesInv, NEW w \in Of("wire"), NEW end \in Ends,
           NEW target \in References, BindPort(w, end, target)
    PROVE  AllNamed' /\ dirty' \subseteq dirty \cup Ids
<1>1. /\ w \in Ids /\ entities[w] \in Record /\ target \in Ids \cup {None}
      /\ dirty' = dirty \cup {w} \cup ({End(entities[w], end), target} \cap Of("junction"))
  BY RegistryShape, NamedEnds DEF BindPort, Of, LifecycleInv
<1>2. /\ Ids' = Ids
      /\ \A x \in Ids \ {w} : entities'[x] = entities[x]
      /\ \/ entities'[w] = [entities[w] EXCEPT !.A = target]
         \/ entities'[w] = [entities[w] EXCEPT !.B = target]
  BY <1>1 DEF BindPort, Ids
<1>3. /\ entities'[w].domain = entities[w].domain /\ entities'[w].at = entities[w].at
      /\ {entities'[w].A, entities'[w].B} \subseteq {entities[w].A, entities[w].B, target}
  BY <1>1, <1>2 DEF Record
<1>4. Named(Ids, entities'[w])
  BY <1>1, <1>3 DEF NamesInv, AllNamed, Named
<1>5. AllNamed'
  BY <1>2, <1>4 DEF NamesInv, AllNamed
<1> QED BY <1>1, <1>5 DEF Of

LEMMA MoveNames ==
    ASSUME LifecycleInv, NamesInv, NEW m \in Of("mobile"),
           NEW to \in Moves(entities[m].at), Move(m, to)
    PROVE  Ids' = Ids /\ AllNamed'
<1>1. /\ m \in Ids /\ Ids' = Ids /\ entities'[m].at = to
      /\ entities'[m].A = entities[m].A /\ entities'[m].B = entities[m].B
      /\ entities'[m].domain = entities[m].domain
      /\ \A x \in Ids \ {m} : entities'[x] = entities[x]
  BY MovedRecords DEF Of, Stands
<1>2. to \in PositionsIn(Ids)
  <2>1. Edges \subseteq Ids /\ Of("junction") \subseteq Ids
    BY DEF Edges, Of
  <2> QED BY <2>1, MovesAlongTheTrack DEF PositionsIn
<1>3. Named(Ids, entities'[m])
  BY <1>1, <1>2 DEF NamesInv, AllNamed, Named
<1> QED BY <1>1, <1>3 DEF NamesInv, AllNamed

LEMMA StepNames == LifecycleInv /\ NamesInv /\ [Next]_vars => NamesInv'
<1> SUFFICES ASSUME LifecycleInv, NamesInv, [Next]_vars PROVE NamesInv'
  OBVIOUS
<1>0. Typed'
  BY LifecycleStep DEF LifecycleInv
<1>1. ASSUME entities' = entities, UNCHANGED tick,
             frontier' \in {frontier, next_id}, dirty' \subseteq dirty \cup Ids,
             updates' \subseteq updates \cup Ids, staged' \subseteq staged \cup updates
      PROVE  NamesInv'
  <2>1. Ids' = Ids /\ AllNamed'
    BY <1>1 DEF Ids, NamesInv, AllNamed, Named, PositionsIn
  <2> QED BY <1>0, <1>1, <2>1, KeepsNames
<1>2. CASE UNCHANGED vars \/ BeginBatch \/ Condemn
  BY <1>1, <1>2 DEF vars, BeginBatch, Condemn
<1>3. CASE EndTick
  <2>1. /\ entities' = entities /\ UNCHANGED <<frontier, dirty, updates, staged>>
        /\ tick < MaxTick /\ tick' = tick + 1
    BY <1>3 DEF EndTick
  <2>2. Ids' = Ids /\ AllNamed' /\ Marked'
    BY <2>1 DEF Ids, NamesInv, AllNamed, Marked
  <2>3. Counted'
    BY <2>1, LifecycleAssumption DEF NamesInv, Counted, next_id
  <2> QED BY <2>2, <2>3 DEF NamesInv
<1>4. ASSUME NEW g \in Of("gate"), SetExternalDriver(g) PROVE NamesInv'
  BY <1>1, <1>4 DEF SetExternalDriver, Of
<1>5. ASSUME NEW e, Damage(e) PROVE NamesInv'
  BY <1>1, <1>5 DEF Damage
<1>6. ASSUME NEW e \in Live, RemoveEntity(e) \/ Destroy(e) PROVE NamesInv'
  <2>1. AllNamed' /\ dirty' \subseteq dirty \cup Ids /\ Ids' = Ids
    BY <1>6, RemovalNames DEF RemoveEntity, Destroy, Remove, Ids
  <2> QED BY <1>0, <1>6, <2>1, KeepsNames DEF RemoveEntity, Destroy
<1>7. ASSUME NEW w \in Of("wire"), NEW end \in Ends, NEW target \in References,
             BindPort(w, end, target)
      PROVE  NamesInv'
  <2>1. AllNamed' /\ dirty' \subseteq dirty \cup Ids /\ Ids' = Ids
    BY <1>7, BindPortNames DEF BindPort, Ids
  <2> QED BY <1>0, <1>7, <2>1, KeepsNames DEF BindPort
<1>8. ASSUME NEW m \in Of("mobile"), NEW to \in Moves(entities[m].at), Move(m, to)
      PROVE  NamesInv'
  BY <1>0, <1>8, MoveNames, KeepsNames DEF Move
<1>9. ASSUME NEW s \in Sites, CompleteWork(s) PROVE NamesInv'
  <2>1. /\ entities' = [entities EXCEPT ![s].ready = TRUE] /\ Ids' = Ids /\ s \in Ids
        /\ entities[s] \in Record
    BY <1>9, RegistryShape, Membership DEF CompleteWork, Ids, LifecycleInv
  <2>2. \A x \in Ids : /\ entities'[x].domain = entities[x].domain
                       /\ entities'[x].A = entities[x].A /\ entities'[x].B = entities[x].B
                       /\ entities'[x].at = entities[x].at
    BY <2>1 DEF Record, Ids
  <2>3. AllNamed'
    BY <2>1, <2>2, LosingNames
  <2> QED BY <1>0, <1>9, <2>1, <2>3, KeepsNames DEF CompleteWork
<1>10. CASE EndBatch \/ EndDestruction
  <2>1. /\ entities' = Advanced(entities, dirty)
        /\ stage' \in {"destruction", "removal", "activation", "commands", "physics"}
    BY <1>10 DEF EndBatch, EndDestruction
  <2>2. /\ Ids' = Ids
        /\ \A x \in Ids : /\ entities'[x].domain = entities[x].domain
                          /\ entities'[x].A = entities[x].A /\ entities'[x].B = entities[x].B
                          /\ entities'[x].at = entities[x].at
    BY <2>1, AdvancedRecords DEF LifecycleInv, Stands
  <2>3. AllNamed'
    BY <2>2, LosingNames
  <2> QED BY <1>0, <1>10, <2>2, <2>3, KeepsNames DEF EndBatch, EndDestruction, Retained
<1>11. doomed \subseteq Live
  BY DEF LifecycleInv, DamageWaits
<1> QED BY <1>2, <1>3, <1>4, <1>5, <1>6, <1>7, <1>8, <1>9, <1>10, <1>11,
           PlaceNames, ActivateNames, NamesAreReferences DEF Next

(* Every record has the shape of its Rust type, and every id in the world  *)
(* is one that has been given.                                             *)
THEOREM RegistryStaysTyped == Spec => []TypeOK
<1>1. Init => NamesInv
  BY InitNames
<1>2. LifecycleInv /\ NamesInv /\ [Next]_vars => NamesInv'
  BY StepNames
<1>3. Spec => []NamesInv
  BY <1>1, <1>2, LifecycleHolds, PTL DEF Spec
<1> QED BY <1>3, LifecycleHolds, TypesFollow, PTL
=============================================================================
