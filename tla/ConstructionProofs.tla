------------------------- MODULE ConstructionProofs -------------------------
(***************************************************************************)
(* Building, for every number of builders and sites, every amount of work  *)
(* and every power ratio: the step never fails for a builder, and of the   *)
(* work granted at a site as much is done as the site needs, the first     *)
(* builders before the later ones.                                         *)
(*                                                                         *)
(* Worked and Given are recursive functions of a builder's id.  Each has a *)
(* lemma that unfolds it by one id, and what holds for every id is shown   *)
(* on the least id for which it would not.                                 *)
(***************************************************************************)
EXTENDS Construction, FiniteSetTheorems, WellFoundedInduction, TLAPS

-----------------------------------------------------------------------------
(* Numbers.                                                                *)

LessThan == {p \in Nat \X Nat : p[1] < p[2]}

\* The order of the naturals has no infinite descent.
LEMMA LessWellFounded == IsWellFoundedOn(LessThan, Nat)
  BY NatLessThanWellFounded, Zenon DEF LessThan, OpToRel

\* Every non-empty set of naturals has a least element.
LEMMA LeastOfNats ==
  ASSUME NEW S \in SUBSET Nat, S # {}
  PROVE  \E m \in S : \A n \in S : m <= n
<1>1. PICK m \in S : \A n \in S : ~ (<<n, m>> \in LessThan)
  BY LessWellFounded, WFMin
<1>2. ASSUME NEW n \in S PROVE m <= n
  <2>1. <<n, m>> \in Nat \X Nat
    BY SMT
  <2>2. <<n, m>> \notin LessThan
    BY <1>1
  <2>3. ~ (n < m)
    BY <2>1, <2>2 DEF LessThan
  <2> QED BY <2>3
<1> QED BY <1>2

\* A natural lies above every element of a finite set of naturals: consider
\* a smallest set for which none does.
LEMMA AboveAll ==
  ASSUME NEW S \in SUBSET Nat, IsFiniteSet(S)
  PROVE  \E n \in {0} \cup {b + 1 : b \in S} : \A b \in S : b < n
<1> DEFINE Topped(T) == \E n \in {0} \cup {b + 1 : b \in T} : \A b \in T : b < n
           Bad(T) == T \in SUBSET Nat /\ IsFiniteSet(T) /\ ~Topped(T)
           Sizes == {k \in Nat : \E T \in SUBSET Nat : Bad(T) /\ Cardinality(T) = k}
<1>1. Sizes = {}
  <2> SUFFICES ASSUME Sizes # {} PROVE FALSE
    OBVIOUS
  <2>1. PICK k \in Sizes : \A l \in Sizes : k <= l
    <3>1. Sizes \in SUBSET Nat
      OBVIOUS
    <3> HIDE DEF Sizes
    <3> QED BY <3>1, LeastOfNats
  <2>2. PICK T \in SUBSET Nat : Bad(T) /\ Cardinality(T) = k
    OBVIOUS
  <2>3. PICK x \in T : TRUE
    BY <2>2
  <2>4. /\ IsFiniteSet(T \ {x}) /\ Cardinality(T \ {x}) = k - 1
        /\ k \in Nat /\ Cardinality(T \ {x}) \in Nat
    BY <2>2, FS_RemoveElement, FS_CardinalityType
  <2>5. Topped(T \ {x})
    <3>1. ~Bad(T \ {x})
      <4> SUFFICES ASSUME Bad(T \ {x}) PROVE FALSE
        OBVIOUS
      <4>1. k - 1 \in Sizes
        BY <2>4
      <4> QED BY <2>1, <2>4, <4>1
    <3> QED BY <2>4, <3>1
  <2>6. PICK n \in {0} \cup {b + 1 : b \in T \ {x}} : \A b \in T \ {x} : b < n
    BY <2>5
  <2>7. n \in Nat /\ x \in Nat
    BY <2>6
  <2>8. CASE x < n
    <3>1. n \in {0} \cup {b + 1 : b \in T} /\ \A b \in T : b < n
      BY <2>6, <2>8
    <3> QED BY <2>2, <3>1
  <2>9. CASE ~(x < n)
    <3>1. x + 1 \in {0} \cup {b + 1 : b \in T}
      BY <2>3
    <3>2. ASSUME NEW b \in T PROVE b < x + 1
      <4>1. b = x \/ b < n
        BY <2>6
      <4> QED BY <2>7, <2>9, <4>1
    <3> QED BY <2>2, <3>1, <3>2
  <2> QED BY <2>8, <2>9
<1>2. Topped(S)
  <2>1. Cardinality(S) \in Nat
    BY FS_CardinalityType
  <2> QED BY <1>1, <2>1
<1> QED BY <1>2

\* A product of naturals is one; the solver is given it by name.
LEMMA ProductNat == ASSUME NEW m \in Nat, NEW n \in Nat PROVE m * n \in Nat
OBVIOUS

\* Neither of two positive numbers is lost in their product.
LEMMA ProductPositive ==
  ASSUME NEW m \in Nat \ {0}, NEW n \in Nat \ {0}
  PROVE  m * n \in Nat \ {0}
OBVIOUS

\* Dividing.
LEMMA Division ==
  ASSUME NEW n \in Nat, NEW d \in Nat \ {0}
  PROVE  n \div d \in Nat /\ n % d \in 0..(d - 1) /\ n = d * (n \div d) + (n % d)
<1> DEFINE q == n \div d
           r == n % d
<1>1. q \in Nat /\ r \in 0..d - 1 /\ n = d * q + r
  BY SMT
<1> QED BY <1>1

\* What is rounded to the nearest is a number.
LEMMA RoundedIsNat ==
  ASSUME NEW n \in Nat, NEW d \in Nat \ {0}
  PROVE  RoundDivNearestEven(n, d) \in Nat
<1>1. n \div d \in Nat
  BY Division
<1>2. RoundDivNearestEven(n, d) = n \div d \/ RoundDivNearestEven(n, d) = n \div d + 1
  BY DEF RoundDivNearestEven
<1> QED BY <1>1, <1>2

\* What is rounded up is a number, and nothing only if it was.
LEMMA CeilingPositive ==
  ASSUME NEW n \in Nat \ {0}, NEW d \in Nat \ {0}
  PROVE  CeilQuotient(n, d) \in Nat /\ CeilQuotient(n, d) > 0
<1> DEFINE m == n + d - 1
           q == m \div d
<1>1. m \in Nat /\ m >= d
  OBVIOUS
<1>2. q \in Nat /\ m % d \in 0..(d - 1) /\ m = d * q + (m % d)
  <2> HIDE DEF m
  <2> QED BY <1>1, Division
<1>3. q # 0
  <2> SUFFICES ASSUME q = 0 PROVE FALSE
    OBVIOUS
  <2>1. m = m % d
    <3>1. d * q = 0
      OBVIOUS
    <3> HIDE DEF m, q
    <3> QED BY <1>1, <1>2, <3>1
  <2> HIDE DEF m, q
  <2> QED BY <1>1, <1>2, <2>1
<1> QED BY <1>2, <1>3 DEF CeilQuotient

-----------------------------------------------------------------------------
(* Work, builder by builder.                                               *)

\* The work of a site, one builder after another.
LEMMA WorkedBySteps ==
  ASSUME NEW s, NEW k \in Nat
  PROVE  /\ Worked(s, 0) = completed[s]
         /\ Worked(s, k + 1) = IF k \in WorkersAt(s) THEN Worked(s, k) + Added(s, k, Worked(s, k)) ELSE Worked(s, k)
<1> DEFINE Z == completed[s]
           F(i, x) == IF i \in WorkersAt(s) THEN x + Added(s, i, x) ELSE x
           Runs(g, m) == g = [n \in 0..m |-> IF n = 0 THEN Z ELSE F(n - 1, g[n - 1])]
           R(m) == CHOOSE g : Runs(g, m)
           Fails == {m \in Nat : ~ \E g : Runs(g, m)}
<1>1. Fails = {}
  <2>1. SUFFICES ASSUME Fails # {} PROVE FALSE
    OBVIOUS
  <2>2. PICK m \in Fails : \A j \in Fails : m <= j
    <3> HIDE DEF Runs
    <3>1. Fails \in SUBSET Nat
      OBVIOUS
    <3> HIDE DEF Fails
    <3> QED BY <2>1, <3>1, LeastOfNats
  <2>3. m # 0
    <3>1. Runs([n \in 0..0 |-> Z], 0)
      OBVIOUS
    <3> QED BY <2>2, <3>1
  <2>4. PICK g : Runs(g, m - 1)
    <3>1. m - 1 \in Nat /\ ~(m <= m - 1)
      BY <2>2, <2>3
    <3> QED BY <2>2, <3>1
  <2> DEFINE h == [n \in 0..m |-> IF n = m THEN F(m - 1, g[m - 1]) ELSE g[n]]
  <2>5. Runs(h, m)
    <3>1. ASSUME NEW n \in 0..m
          PROVE  h[n] = IF n = 0 THEN Z ELSE F(n - 1, h[n - 1])
      <4>1. CASE n = m
        BY <2>2, <2>3, <4>1
      <4>2. CASE n # m
        <5>1. n \in 0..(m - 1) /\ (n # 0 => n - 1 \in 0..(m - 1) /\ n - 1 # m)
          BY <2>2, <4>2
        <5> QED BY <2>4, <2>2, <4>2, <5>1
      <4> QED BY <4>1, <4>2
    <3> QED BY <3>1
  <2> QED BY <2>2, <2>5
<1>2. ASSUME NEW m \in Nat PROVE Runs(R(m), m)
  <2> HIDE DEF Runs
  <2> QED BY <1>1
<1>3. ASSUME NEW m \in Nat PROVE Worked(s, m) = R(m)[m]
  BY DEF Worked
<1> HIDE DEF R, Z, F
<1>4. R(k)[k] = R(k + 1)[k]
  <2> DEFINE Apart == {m \in 0..k : R(k)[m] # R(k + 1)[m]}
  <2>1. SUFFICES ASSUME Apart # {} PROVE FALSE
    OBVIOUS
  <2>2. PICK m \in Apart : \A j \in Apart : m <= j
    <3>1. Apart \in SUBSET Nat
      OBVIOUS
    <3> HIDE DEF Apart
    <3> QED BY <2>1, <3>1, LeastOfNats
  <2>3. m \in 0..k /\ m \in 0..(k + 1) /\ k + 1 \in Nat
    OBVIOUS
  <2>4. m = 0 \/ (m - 1 \in 0..k /\ R(k)[m - 1] = R(k + 1)[m - 1])
    BY <2>2, <2>3
  <2>5. /\ R(k)[m] = IF m = 0 THEN Z ELSE F(m - 1, R(k)[m - 1])
        /\ R(k + 1)[m] = IF m = 0 THEN Z ELSE F(m - 1, R(k + 1)[m - 1])
    BY <1>2, <2>3
  <2> QED BY <2>2, <2>4, <2>5
<1> QED
  <2>1. Worked(s, 0) = R(0)[0] /\ R(0)[0] = Z
    BY <1>2, <1>3
  <2>2. k + 1 \in Nat /\ R(k + 1)[k + 1] = F(k, R(k + 1)[k])
    BY <1>2
  <2>3. Worked(s, k + 1) = F(k, Worked(s, k)) /\ Worked(s, 0) = Z
    BY <1>3, <1>4, <2>1, <2>2
  <2> QED BY <2>3 DEF F, Z

\* What is granted at a site, one builder after another.
LEMMA GivenBySteps ==
  ASSUME NEW s, NEW k \in Nat
  PROVE  /\ Given(s, 0) = 0
         /\ Given(s, k + 1) = Given(s, k) + IF k \in WorkersAt(s) THEN intent[k].granted ELSE 0
<1> DEFINE Z == 0
           F(i, x) == x + IF i \in WorkersAt(s) THEN intent[i].granted ELSE 0
           Runs(g, m) == g = [n \in 0..m |-> IF n = 0 THEN Z ELSE F(n - 1, g[n - 1])]
           R(m) == CHOOSE g : Runs(g, m)
           Fails == {m \in Nat : ~ \E g : Runs(g, m)}
<1>1. Fails = {}
  <2>1. SUFFICES ASSUME Fails # {} PROVE FALSE
    OBVIOUS
  <2>2. PICK m \in Fails : \A j \in Fails : m <= j
    <3> HIDE DEF Runs
    <3>1. Fails \in SUBSET Nat
      OBVIOUS
    <3> HIDE DEF Fails
    <3> QED BY <2>1, <3>1, LeastOfNats
  <2>3. m # 0
    <3>1. Runs([n \in 0..0 |-> Z], 0)
      OBVIOUS
    <3> QED BY <2>2, <3>1
  <2>4. PICK g : Runs(g, m - 1)
    <3>1. m - 1 \in Nat /\ ~(m <= m - 1)
      BY <2>2, <2>3
    <3> QED BY <2>2, <3>1
  <2> DEFINE h == [n \in 0..m |-> IF n = m THEN F(m - 1, g[m - 1]) ELSE g[n]]
  <2>5. Runs(h, m)
    <3>1. ASSUME NEW n \in 0..m
          PROVE  h[n] = IF n = 0 THEN Z ELSE F(n - 1, h[n - 1])
      <4>1. CASE n = m
        BY <2>2, <2>3, <4>1
      <4>2. CASE n # m
        <5>1. n \in 0..(m - 1) /\ (n # 0 => n - 1 \in 0..(m - 1) /\ n - 1 # m)
          BY <2>2, <4>2
        <5> QED BY <2>4, <2>2, <4>2, <5>1
      <4> QED BY <4>1, <4>2
    <3> QED BY <3>1
  <2> QED BY <2>2, <2>5
<1>2. ASSUME NEW m \in Nat PROVE Runs(R(m), m)
  <2> HIDE DEF Runs
  <2> QED BY <1>1
<1>3. ASSUME NEW m \in Nat PROVE Given(s, m) = R(m)[m]
  BY DEF Given
<1> HIDE DEF R, Z, F
<1>4. R(k)[k] = R(k + 1)[k]
  <2> DEFINE Apart == {m \in 0..k : R(k)[m] # R(k + 1)[m]}
  <2>1. SUFFICES ASSUME Apart # {} PROVE FALSE
    OBVIOUS
  <2>2. PICK m \in Apart : \A j \in Apart : m <= j
    <3>1. Apart \in SUBSET Nat
      OBVIOUS
    <3> HIDE DEF Apart
    <3> QED BY <2>1, <3>1, LeastOfNats
  <2>3. m \in 0..k /\ m \in 0..(k + 1) /\ k + 1 \in Nat
    OBVIOUS
  <2>4. m = 0 \/ (m - 1 \in 0..k /\ R(k)[m - 1] = R(k + 1)[m - 1])
    BY <2>2, <2>3
  <2>5. /\ R(k)[m] = IF m = 0 THEN Z ELSE F(m - 1, R(k)[m - 1])
        /\ R(k + 1)[m] = IF m = 0 THEN Z ELSE F(m - 1, R(k + 1)[m - 1])
    BY <1>2, <2>3
  <2> QED BY <2>2, <2>4, <2>5
<1> QED
  <2>1. Given(s, 0) = R(0)[0] /\ R(0)[0] = Z
    BY <1>2, <1>3
  <2>2. k + 1 \in Nat /\ R(k + 1)[k + 1] = F(k, R(k + 1)[k])
    BY <1>2
  <2>3. Given(s, k + 1) = F(k, Given(s, k)) /\ Given(s, 0) = Z
    BY <1>3, <1>4, <2>1, <2>2
  <2> QED BY <2>3 DEF F, Z

\* What Beyond is said to be: above the ids of all builders.
LEMMA BeyondAll ==
  ASSUME ConstructionAssumption
  PROVE  Beyond \in Nat /\ \A b \in Builders : b < Beyond
<1>1. \E n \in {0} \cup {b + 1 : b \in Builders} : \A b \in Builders : b < n
  BY AboveAll DEF ConstructionAssumption
<1>2. /\ Beyond \in {0} \cup {b + 1 : b \in Builders}
      /\ \A b \in Builders : b < Beyond
  BY <1>1 DEF Beyond
<1>3. {b + 1 : b \in Builders} \in SUBSET Nat
  BY DEF ConstructionAssumption
<1> QED BY <1>2, <1>3

\* A site of which no more is done than it needs, and numbers granted to those
\* who work at it.
Sound(s) ==
    /\ RequiredWork[s] \in Nat /\ completed[s] \in 0..RequiredWork[s]
    /\ \A b \in WorkersAt(s) : intent[b].granted \in Nat

\* What is granted at a site is a number, and of it as much is done as the
\* site still needs.
LEMMA WorkedIsGiven ==
  ASSUME NEW s, Sound(s), NEW k \in Nat
  PROVE  /\ Given(s, k) \in Nat
         /\ Worked(s, k) = completed[s] + Lower(Given(s, k), Remaining(s))
<1> DEFINE Holds(m) == /\ Given(s, m) \in Nat
                       /\ Worked(s, m) = completed[s] + Lower(Given(s, m), Remaining(s))
           Fails == {m \in Nat : ~Holds(m)}
<1>1. Holds(0)
  <2>1. Given(s, 0) = 0 /\ Worked(s, 0) = completed[s]
    BY GivenBySteps, WorkedBySteps
  <2>2. Lower(0, Remaining(s)) = 0
    BY DEF Sound, Lower, Remaining
  <2> QED BY <2>1, <2>2 DEF Sound
<1>2. ASSUME NEW m \in Nat, Holds(m) PROVE Holds(m + 1)
  <2>1. CASE m \in WorkersAt(s)
    <3> DEFINE w == Worked(s, m)
               i == Given(s, m)
               g == intent[m].granted
               c == completed[s]
               r == RequiredWork[s]
    <3>1. Given(s, m + 1) = i + g
      BY <2>1, GivenBySteps
    <3>2. Worked(s, m + 1) = w + Lower(g, r - w)
      BY <2>1, WorkedBySteps DEF Added
    <3>3. g \in Nat /\ r \in Nat /\ c \in 0..r
      BY <2>1 DEF Sound
    <3>4. i \in Nat /\ w = c + Lower(i, r - c)
      BY <1>2 DEF Remaining
    <3>5. i + g \in Nat /\ w + Lower(g, r - w) = c + Lower(i + g, r - c)
      <4> HIDE DEF w, i, g, c, r
      <4> QED BY <3>3, <3>4 DEF Lower
    <3> QED BY <3>1, <3>2, <3>5 DEF Remaining
  <2>2. CASE m \notin WorkersAt(s)
    <3>1. Given(s, m + 1) = Given(s, m) + 0 /\ Worked(s, m + 1) = Worked(s, m)
      BY <2>2, GivenBySteps, WorkedBySteps
    <3>2. Given(s, m) + 0 = Given(s, m)
      BY <1>2
    <3> QED BY <1>2, <3>1, <3>2
  <2> QED BY <2>1, <2>2
<1>3. Fails = {}
  <2> HIDE DEF Holds
  <2>1. SUFFICES ASSUME Fails # {} PROVE FALSE
    OBVIOUS
  <2>2. PICK m \in Fails : \A j \in Fails : m <= j
    <3>1. Fails \in SUBSET Nat
      OBVIOUS
    <3> HIDE DEF Fails
    <3> QED BY <2>1, <3>1, LeastOfNats
  <2>3. m \in Nat /\ ~Holds(m) /\ m # 0
    BY <1>1, <2>2
  <2>4. m - 1 \in Nat /\ ~(m <= m - 1) /\ (m - 1) + 1 = m
    BY <2>3
  <2>5. Holds(m - 1)
    BY <2>2, <2>4
  <2> QED BY <1>2, <2>3, <2>4, <2>5
<1> QED
  <2> HIDE DEF Holds
  <2>1. Holds(k)
    BY <1>3
  <2> QED BY <2>1 DEF Holds

\* Work stays between what was done and what is needed.
LEMMA WorkedInBounds ==
  ASSUME NEW s, Sound(s), NEW k \in Nat
  PROVE  Worked(s, k) \in completed[s]..RequiredWork[s]
<1>1. Given(s, k) \in Nat /\ Worked(s, k) = completed[s] + Lower(Given(s, k), Remaining(s))
  BY WorkedIsGiven
<1>2. RequiredWork[s] \in Nat /\ completed[s] \in 0..RequiredWork[s]
  BY DEF Sound
<1> QED BY <1>1, <1>2 DEF Lower, Remaining

\* Nothing is done at a site where nobody works.
LEMMA NobodyWorks ==
  ASSUME NEW s, WorkersAt(s) = {}, NEW k \in Nat
  PROVE  Worked(s, k) = completed[s]
<1> DEFINE Fails == {m \in Nat : Worked(s, m) # completed[s]}
<1>1. SUFFICES ASSUME Fails # {} PROVE FALSE
  OBVIOUS
<1>2. PICK m \in Fails : \A j \in Fails : m <= j
  <2>1. Fails \in SUBSET Nat
    OBVIOUS
  <2> HIDE DEF Fails
  <2> QED BY <1>1, <2>1, LeastOfNats
<1>3. m \in Nat /\ Worked(s, m) # completed[s] /\ m # 0
  BY <1>2, WorkedBySteps
<1>4. m - 1 \in Nat /\ ~(m <= m - 1) /\ (m - 1) + 1 = m
  BY <1>3
<1>5. Worked(s, m - 1) = completed[s]
  BY <1>2, <1>4
<1>6. Worked(s, (m - 1) + 1) = Worked(s, m - 1)
  BY <1>4, WorkedBySteps
<1> QED BY <1>3, <1>4, <1>5, <1>6

\* Work never goes back from one builder to a later one.
LEMMA WorkedGrows ==
  ASSUME NEW s, Sound(s), NEW j \in Nat, NEW k \in Nat, j <= k
  PROVE  Worked(s, j) <= Worked(s, k)
<1> DEFINE Fails == {m \in Nat : j <= m /\ ~(Worked(s, j) <= Worked(s, m))}
<1>0. \A m \in Nat : Worked(s, m) \in Nat
  <2>1. \A m \in Nat : Worked(s, m) \in completed[s]..RequiredWork[s]
    BY WorkedInBounds
  <2> QED BY <2>1 DEF Sound
<1>1. SUFFICES ASSUME Fails # {} PROVE FALSE
  OBVIOUS
<1>2. PICK m \in Fails : \A n \in Fails : m <= n
  <2>1. Fails \in SUBSET Nat
    OBVIOUS
  <2> HIDE DEF Fails
  <2> QED BY <1>1, <2>1, LeastOfNats
<1>3. m \in Nat /\ j <= m /\ ~(Worked(s, j) <= Worked(s, m)) /\ m # j
  BY <1>0, <1>2
<1>4. m - 1 \in Nat /\ j <= m - 1 /\ ~(m <= m - 1) /\ (m - 1) + 1 = m
  BY <1>3
<1>5. Worked(s, j) <= Worked(s, m - 1)
  BY <1>2, <1>4
<1>6. Worked(s, m - 1) <= Worked(s, m)
  <2>1. CASE m - 1 \in WorkersAt(s)
    <3> DEFINE w == Worked(s, m - 1)
               g == intent[m - 1].granted
               r == RequiredWork[s]
    <3>1. Worked(s, (m - 1) + 1) = w + Lower(g, r - w)
      BY <1>4, <2>1, WorkedBySteps DEF Added
    <3>2. g \in Nat /\ r \in Nat /\ w \in Nat /\ w <= r
      <4>1. w \in completed[s]..r
        BY <1>4, WorkedInBounds
      <4> QED BY <2>1, <4>1 DEF Sound
    <3>3. w <= w + Lower(g, r - w)
      <4> HIDE DEF w, g, r
      <4> QED BY <3>2 DEF Lower
    <3> QED BY <1>4, <3>1, <3>3
  <2>2. CASE m - 1 \notin WorkersAt(s)
    <3>1. Worked(s, (m - 1) + 1) = Worked(s, m - 1)
      BY <1>4, <2>2, WorkedBySteps
    <3> QED BY <1>0, <1>4, <3>1
  <2> QED BY <2>1, <2>2
<1> QED
  <2>1. Worked(s, j) \in Nat /\ Worked(s, m - 1) \in Nat /\ Worked(s, m) \in Nat
    BY <1>0, <1>3, <1>4
  <2> QED BY <1>3, <1>5, <1>6, <2>1

\* A builder adds what it was granted, or all the site still needs.
LEMMA OneAdds ==
  ASSUME NEW s, Sound(s), NEW b \in WorkersAt(s), b \in Nat
  PROVE  /\ Worked(s, b) \in Nat /\ Worked(s, b) <= RequiredWork[s]
         /\ Worked(s, b + 1) - Worked(s, b) = Lower(intent[b].granted, RequiredWork[s] - Worked(s, b))
<1> DEFINE w == Worked(s, b)
           g == intent[b].granted
           r == RequiredWork[s]
<1>1. Worked(s, b + 1) = w + Lower(g, r - w)
  BY WorkedBySteps DEF Added
<1>2. g \in Nat /\ r \in Nat /\ w \in Nat /\ w <= r
  <2>1. w \in completed[s]..r
    BY WorkedInBounds
  <2> QED BY <2>1 DEF Sound
<1>3. (w + Lower(g, r - w)) - w = Lower(g, r - w)
  <2> HIDE DEF w, g, r
  <2> QED BY <1>2 DEF Lower
<1> QED BY <1>1, <1>2, <1>3

\* Who comes later adds something only when all before it added everything.
LEMMA FirstComeFirst ==
  ASSUME NEW s, Sound(s), NEW b \in WorkersAt(s), NEW c \in WorkersAt(s),
         b \in Nat, c \in Nat, b < c, Worked(s, c + 1) - Worked(s, c) > 0
  PROVE  Worked(s, b + 1) - Worked(s, b) = intent[b].granted
<1> DEFINE w == Worked(s, b)
           v == Worked(s, c)
           g == intent[b].granted
           r == RequiredWork[s]
<1>1. w \in Nat /\ w <= r /\ Worked(s, b + 1) - w = Lower(g, r - w)
  BY OneAdds
<1>2. v \in Nat /\ v <= r /\ Lower(intent[c].granted, r - v) > 0
  BY OneAdds
<1>3. Worked(s, b + 1) <= v /\ Worked(s, b + 1) \in Nat
  <2>1. b + 1 \in Nat /\ b + 1 <= c
    OBVIOUS
  <2>2. Worked(s, b + 1) \in completed[s]..r
    BY <2>1, WorkedInBounds
  <2> QED BY <2>1, <2>2, WorkedGrows DEF Sound
<1>4. g \in Nat /\ intent[c].granted \in Nat /\ r \in Nat
  BY DEF Sound
<1>5. v < r
  <2> HIDE DEF v, r
  <2> QED BY <1>2, <1>4 DEF Lower
<1>6. Lower(g, r - w) = g
  <2> DEFINE u == Worked(s, b + 1)
  <2>1. u - w = Lower(g, r - w) /\ u <= v /\ u \in Nat
    BY <1>1, <1>3
  <2> HIDE DEF w, v, g, r, u
  <2> QED BY <1>1, <1>2, <1>4, <1>5, <2>1 DEF Lower
<1> QED BY <1>1, <1>6

-----------------------------------------------------------------------------
(* The inductive invariant.                                                *)

IntentType == [site : {0} \cup Sites, requested : Nat, nominal : Nat, granted : Nat]

Types ==
    /\ phase \in {"commands", "intents", "grants", "progress"}
    /\ state \in [Sites -> {"none", "site", "active", "removed"}]
    /\ completed \in [Sites -> Nat] /\ ready \in [Sites -> BOOLEAN]
    /\ ratio \in Ratios
    /\ intent \in [Builders -> IntentType]

\* Nothing has been done at what is not reserved yet.
Untouched == \A s \in Sites : state[s] = "none" => completed[s] = 0 /\ ~ready[s]

\* Ready sites are activated before anybody looks for work.
ReadyIsActivated == phase # "commands" => \A s \in Store : ~ready[s]

\* From the intents on every builder has a site, and asks for power.
IntentsHold ==
    phase \in {"grants", "progress"} =>
        \A b \in Builders : intent[b].site # 0 =>
            intent[b].site \in Store /\ intent[b].nominal > 0

WorkInv == Types /\ TypeOK /\ Untouched /\ ReadyIsActivated /\ IntentsHold

LEMMA WorkInvInit == ASSUME ConstructionAssumption, Init PROVE WorkInv
<1>1. \A s \in Sites : RequiredWork[s] \in Nat \ {0}
  BY DEF ConstructionAssumption
<1>2. Types
  BY DEF Init, Types, IntentType, Nothing
<1>3. Store = {}
  BY DEF Init, Store
<1>4. TypeOK
  <2>1. \A s \in Sites : completed[s] = 0
    BY DEF Init
  <2> QED BY <1>1, <1>3, <2>1 DEF TypeOK
<1>5. Untouched
  BY DEF Init, Untouched
<1>6. ReadyIsActivated /\ IntentsHold
  BY DEF Init, ReadyIsActivated, IntentsHold
<1> QED BY <1>2, <1>4, <1>5, <1>6 DEF WorkInv

LEMMA CommandsKeep == ASSUME ConstructionAssumption, WorkInv, Commands PROVE WorkInv'
<1>1. PICK placed \in SUBSET {s \in Sites : state[s] = "none"},
           removed \in SUBSET (Store \ activate_ready_sites) :
             state' = [s \in Sites |-> IF s \in activate_ready_sites THEN "active"
                                       ELSE IF s \in placed THEN "site"
                                       ELSE IF s \in removed THEN "removed" ELSE state[s]]
  BY DEF Commands
<1>2. /\ phase = "commands" /\ phase' = "intents"
      /\ UNCHANGED <<completed, ready, ratio, intent>>
  BY DEF Commands
<1>3. Types'
  BY <1>1, <1>2 DEF WorkInv, Types
<1>4. ASSUME NEW s \in Sites, state'[s] = "site"
      PROVE  ~ready[s] /\ (s \in Store \/ state[s] = "none")
  <2>1. s \notin activate_ready_sites
    BY <1>1, <1>4
  <2>2. CASE s \in placed
    BY <2>2 DEF WorkInv, Untouched
  <2>3. CASE s \notin placed
    <3>1. state[s] = "site"
      BY <1>1, <1>4, <2>1, <2>3
    <3>2. s \in Store
      BY <3>1 DEF Store
    <3>3. ~ready[s]
      BY <2>1, <3>2 DEF activate_ready_sites
    <3> QED BY <3>2, <3>3
  <2> QED BY <2>2, <2>3
<1>5. TypeOK'
  <2>1. ASSUME NEW s \in Sites PROVE completed'[s] \in 0..RequiredWork[s]
    BY <1>2 DEF WorkInv, TypeOK
  <2>2. ASSUME NEW s \in Store' PROVE ready'[s] <=> completed'[s] = RequiredWork[s]
    <3>1. s \in Sites /\ state'[s] = "site"
      BY DEF Store
    <3>2. CASE s \in Store
      BY <1>2, <3>2 DEF WorkInv, TypeOK
    <3>3. CASE state[s] = "none"
      <4>1. completed[s] = 0 /\ ~ready[s] /\ RequiredWork[s] # 0
        BY <3>1, <3>3 DEF WorkInv, Untouched, ConstructionAssumption
      <4> QED BY <1>2, <4>1
    <3> QED BY <1>4, <3>1, <3>2, <3>3
  <2> QED BY <2>1, <2>2 DEF TypeOK
<1>6. Untouched'
  <2>1. ASSUME NEW s \in Sites, state'[s] = "none" PROVE state[s] = "none"
    BY <1>1, <2>1
  <2> QED BY <1>2, <2>1 DEF WorkInv, Untouched
<1>7. ReadyIsActivated'
  BY <1>2, <1>4 DEF ReadyIsActivated, Store
<1>8. IntentsHold'
  BY <1>2 DEF IntentsHold
<1> QED BY <1>3, <1>5, <1>6, <1>7, <1>8 DEF WorkInv

\* A builder asks for something to do at a site that is not done.
LEMMA IntentHolds ==
  ASSUME ConstructionAssumption, WorkInv, phase = "intents", NEW b \in Builders
  PROVE  /\ Intent(b) \in IntentType
         /\ Intent(b).site # 0 => Intent(b).site \in Store /\ Intent(b).nominal > 0
<1> DEFINE sites == IF build[b] = "High" THEN smallest_intersecting_site(b) ELSE {}
           s == CHOOSE t \in sites : TRUE
<1>1. CASE sites = {}
  <2>1. Intent(b) = Nothing
    BY <1>1 DEF Intent
  <2> QED BY <2>1 DEF Nothing, IntentType
<1>2. CASE sites # {}
  <2>1. sites \subseteq Store
    BY DEF smallest_intersecting_site, Reached
  <2>2. s \in Store
    <3> HIDE DEF sites
    <3> QED BY <1>2, <2>1
  <2>3. Intent(b) = [site |-> s, requested |-> Requested(s), granted |-> 0,
                     nominal |-> construction_nominal_demand_for_work(Requested(s))]
    BY <1>2 DEF Intent
  <2> HIDE DEF s, sites
  <2>4. s \in Sites /\ s # 0
    BY <2>2 DEF Store, ConstructionAssumption
  <2>5. Requested(s) \in Nat \ {0}
    <3>1. completed[s] \in 0..RequiredWork[s] /\ completed[s] # RequiredWork[s]
      BY <2>2, <2>4 DEF WorkInv, TypeOK, ReadyIsActivated
    <3>2. RequiredWork[s] \in Nat /\ WorkPerTick \in Nat \ {0}
      BY <2>4 DEF ConstructionAssumption
    <3> QED BY <3>1, <3>2 DEF Requested, Remaining, Lower
  <2>6. /\ construction_nominal_demand_for_work(Requested(s)) \in Nat
        /\ construction_nominal_demand_for_work(Requested(s)) > 0
    <3>1. PowerPerWork[1] \in Nat \ {0} /\ PowerPerWork[2] \in Nat \ {0}
      BY DEF ConstructionAssumption
    <3>2. PowerPerWork[1] * Requested(s) \in Nat \ {0}
      BY <2>5, <3>1, ProductPositive
    <3> QED BY <3>1, <3>2, CeilingPositive DEF construction_nominal_demand_for_work
  <2> QED BY <2>2, <2>3, <2>4, <2>5, <2>6 DEF IntentType
<1> QED BY <1>1, <1>2

LEMMA IntentsKeep == ASSUME ConstructionAssumption, WorkInv, Intents PROVE WorkInv'
<1>1. /\ phase = "intents" /\ phase' = "grants"
      /\ intent' = [b \in Builders |-> Intent(b)]
      /\ UNCHANGED <<state, completed, ready, ratio>>
  BY DEF Intents
<1>2. \A b \in Builders : /\ Intent(b) \in IntentType
                          /\ Intent(b).site # 0 => Intent(b).site \in Store /\ Intent(b).nominal > 0
  BY <1>1, IntentHolds
<1>3. Store' = Store
  BY <1>1 DEF Store
<1>4. Types'
  BY <1>1, <1>2 DEF WorkInv, Types
<1>5. TypeOK' /\ Untouched' /\ ReadyIsActivated'
  BY <1>1, <1>3 DEF WorkInv, TypeOK, Untouched, ReadyIsActivated
<1>6. IntentsHold'
  BY <1>1, <1>2, <1>3 DEF IntentsHold
<1> QED BY <1>4, <1>5, <1>6 DEF WorkInv

LEMMA GrantsKeep == ASSUME ConstructionAssumption, WorkInv, Grants PROVE WorkInv'
<1>1. /\ phase = "grants" /\ phase' = "progress"
      /\ intent' = [b \in Builders |->
                     [intent[b] EXCEPT !.granted = grant_construction_work(intent[b].requested)]]
      /\ UNCHANGED <<state, completed, ready, ratio>>
  BY DEF Grants
<1>2. ASSUME NEW b \in Builders
      PROVE  /\ intent'[b] \in IntentType
             /\ intent'[b].site = intent[b].site /\ intent'[b].nominal = intent[b].nominal
  <2>1. intent[b] \in IntentType
    BY DEF WorkInv, Types
  <2>2. grant_construction_work(intent[b].requested) \in Nat
    <3>1. ratio[2] \in Nat \ {0} /\ ratio[1] \in Nat
      BY DEF WorkInv, Types, ConstructionAssumption
    <3>2. intent[b].requested * ratio[1] \in Nat
      BY <2>1, <3>1, ProductNat DEF IntentType
    <3> QED BY <3>1, <3>2, RoundedIsNat DEF grant_construction_work
  <2>3. intent'[b] = [intent[b] EXCEPT !.granted = grant_construction_work(intent[b].requested)]
    BY <1>1
  <2> QED BY <2>1, <2>2, <2>3 DEF IntentType
<1>3. Store' = Store
  BY <1>1 DEF Store
<1>4. Types'
  <2>1. intent' \in [Builders -> IntentType]
    BY <1>1, <1>2
  <2> QED BY <1>1, <2>1 DEF WorkInv, Types
<1>5. TypeOK' /\ Untouched' /\ ReadyIsActivated'
  BY <1>1, <1>3 DEF WorkInv, TypeOK, Untouched, ReadyIsActivated
<1>6. IntentsHold'
  BY <1>1, <1>2, <1>3 DEF WorkInv, IntentsHold
<1> QED BY <1>4, <1>5, <1>6 DEF WorkInv

\* What the lemmas on shared work ask for.
LEMMA SitesAreSound ==
  ASSUME ConstructionAssumption, WorkInv, NEW s \in Sites
  PROVE  Sound(s) /\ RequiredWork[s] \in Nat
<1>1. RequiredWork[s] \in Nat /\ completed[s] \in 0..RequiredWork[s]
  BY DEF ConstructionAssumption, WorkInv, TypeOK
<1>2. \A b \in WorkersAt(s) : intent[b].granted \in Nat
  BY DEF WorkersAt, WorkInv, Types, IntentType
<1> QED BY <1>1, <1>2 DEF Sound

LEMMA ProgressKeep == ASSUME ConstructionAssumption, WorkInv, Progress PROVE WorkInv'
<1>1. /\ phase = "progress" /\ phase' = "commands"
      /\ completed' = [s \in Sites |-> Worked(s, Beyond)]
      /\ ready' = [s \in Sites |-> ready[s] \/ (s \in Store /\ completed'[s] = RequiredWork[s])]
      /\ UNCHANGED <<state, ratio, intent>>
  BY DEF Progress
<1>2. Beyond \in Nat
  BY BeyondAll
<1>3. ASSUME NEW s \in Sites PROVE completed'[s] \in completed[s]..RequiredWork[s]
  BY <1>1, <1>2, SitesAreSound, WorkedInBounds
<1>4. \A s \in Sites : completed[s] \in Nat /\ completed[s] <= RequiredWork[s] /\ RequiredWork[s] \in Nat
  BY DEF WorkInv, Types, TypeOK, ConstructionAssumption
<1>5. Store' = Store /\ Store \subseteq Sites
  BY <1>1 DEF Store
<1>6. Types'
  <2>1. \A s \in Sites : completed'[s] \in Nat
    BY <1>3, <1>4
  <2>2. completed' \in [Sites -> Nat]
    BY <1>1, <2>1
  <2>3. ready' \in [Sites -> BOOLEAN]
    <3>1. \A s \in Sites : (ready[s] \/ (s \in Store /\ completed'[s] = RequiredWork[s])) \in BOOLEAN
      BY DEF WorkInv, Types
    <3> QED BY <1>1, <3>1
  <2> QED BY <1>1, <2>2, <2>3 DEF WorkInv, Types
<1>7. TypeOK'
  <2>1. ASSUME NEW s \in Sites PROVE completed'[s] \in 0..RequiredWork[s]
    BY <1>3, <1>4
  <2>2. ASSUME NEW s \in Store PROVE ready'[s] <=> completed'[s] = RequiredWork[s]
    <3>1. ~ready[s]
      BY <1>1 DEF WorkInv, ReadyIsActivated
    <3> QED BY <1>1, <1>5, <3>1
  <2> QED BY <1>5, <2>1, <2>2 DEF TypeOK
<1>8. Untouched'
  <2> SUFFICES ASSUME NEW s \in Sites, state[s] = "none" PROVE completed'[s] = 0 /\ ~ready'[s]
    BY <1>1 DEF Untouched
  <2>1. s \notin Store /\ s # 0
    BY DEF Store, ConstructionAssumption
  <2>2. WorkersAt(s) = {}
    BY <1>1, <2>1 DEF WorkersAt, WorkInv, IntentsHold
  <2>3. completed'[s] = completed[s]
    BY <1>1, <1>2, <2>2, NobodyWorks
  <2>4. completed[s] = 0 /\ ~ready[s]
    BY DEF WorkInv, Untouched
  <2> QED BY <1>1, <2>1, <2>3, <2>4
<1>9. ReadyIsActivated' /\ IntentsHold'
  BY <1>1 DEF ReadyIsActivated, IntentsHold
<1> QED BY <1>6, <1>7, <1>8, <1>9 DEF WorkInv

LEMMA SurroundingsKeep == ASSUME ConstructionAssumption, WorkInv, Surroundings PROVE WorkInv'
<1>1. ratio' \in Ratios /\ UNCHANGED <<phase, state, completed, ready, intent>>
  BY DEF Surroundings, WorkInv, Types
<1>2. Store' = Store
  BY <1>1 DEF Store
<1> QED BY <1>1, <1>2 DEF WorkInv, Types, TypeOK, Untouched, ReadyIsActivated, IntentsHold

LEMMA StutterKeeps == ASSUME WorkInv, UNCHANGED vars PROVE WorkInv'
<1>1. Store' = Store
  BY DEF vars, Store
<1> QED BY <1>1 DEF vars, WorkInv, Types, TypeOK, Untouched, ReadyIsActivated, IntentsHold

\* The inductive invariant of construction.
THEOREM ConstructionInvariant == Spec => []WorkInv
<1>1. ASSUME Init PROVE WorkInv
  BY <1>1, WorkInvInit, ConstructionAssumption
<1>2. ASSUME WorkInv, [Next]_vars PROVE WorkInv'
  <2>1. CASE Commands
    BY <1>2, <2>1, CommandsKeep, ConstructionAssumption
  <2>2. CASE Intents
    BY <1>2, <2>2, IntentsKeep, ConstructionAssumption
  <2>3. CASE Grants
    BY <1>2, <2>3, GrantsKeep, ConstructionAssumption
  <2>4. CASE Progress
    BY <1>2, <2>4, ProgressKeep, ConstructionAssumption
  <2>5. CASE Surroundings
    BY <1>2, <2>5, SurroundingsKeep, ConstructionAssumption
  <2>6. CASE UNCHANGED vars
    BY <1>2, <2>6, StutterKeeps
  <2> QED BY <1>2, <2>1, <2>2, <2>3, <2>4, <2>5, <2>6 DEF Next, Tick
<1> QED BY <1>1, <1>2, PTL DEF Spec

\* A step of Phase 11 does what the properties say.
LEMMA ProgressShares == ASSUME ConstructionAssumption, WorkInv, Progress PROVE WorkShared
<1>1. SUFFICES ASSUME NEW s \in Sites
               PROVE  /\ completed'[s] = completed[s] + Lower(Given(s, Beyond), Remaining(s))
                      /\ \A b, c \in WorkersAt(s) : b < c /\ applied'[c] > 0 =>
                            applied'[b] = intent[b].granted
  BY DEF WorkShared
<1>2. Sound(s) /\ Beyond \in Nat
  BY SitesAreSound, BeyondAll
<1>3. completed'[s] = completed[s] + Lower(Given(s, Beyond), Remaining(s))
  <2>1. completed'[s] = Worked(s, Beyond)
    BY DEF Progress
  <2> QED BY <1>2, <2>1, WorkedIsGiven
<1>4. ASSUME NEW b \in WorkersAt(s) PROVE b \in Nat /\ applied'[b] = Worked(s, b + 1) - Worked(s, b)
  <2>1. b \in Builders /\ intent[b].site = s /\ s # 0
    BY DEF WorkersAt, ConstructionAssumption
  <2> QED BY <2>1 DEF Progress, apply_construction_work, ConstructionAssumption
<1>5. ASSUME NEW b \in WorkersAt(s), NEW c \in WorkersAt(s), b < c, applied'[c] > 0
      PROVE  applied'[b] = intent[b].granted
  BY <1>2, <1>4, <1>5, FirstComeFirst
<1> QED BY <1>3, <1>5

\* Building goes right whatever is reserved, given up, powered and moved: no
\* step fails for a builder (construction.rs:353-366, the demand in Phase 3 of
\* simulation.rs), no site gets more than it needs and it is ready exactly when
\* it has that, and the work granted at a site is taken in the order of the
\* builders, to the last unit (apply_construction_work).
THEOREM WorkIsSharedInOrder == Spec => WorkSharedInOrder
<1>1. ASSUME WorkInv PROVE TypeOK /\ StepNeverFails
  <2>1. TypeOK
    BY <1>1 DEF WorkInv
  <2>2. StepNeverFails
    BY <1>1 DEF WorkInv, IntentsHold, ReadyIsActivated, StepNeverFails
  <2> QED BY <2>1, <2>2
<1>2. ASSUME WorkInv, [Next]_vars PROVE [WorkShared]_vars
  <2>1. CASE phase # "progress"
    BY <2>1 DEF WorkShared
  <2>2. CASE Progress
    BY <1>2, <2>2, ProgressShares, ConstructionAssumption
  <2>3. CASE Commands \/ Intents \/ Grants \/ Surroundings
    BY <2>3 DEF Commands, Intents, Grants, Surroundings, WorkShared
  <2> QED BY <1>2, <2>1, <2>2, <2>3 DEF Next, Tick
<1> QED BY <1>1, <1>2, ConstructionInvariant, PTL DEF Spec, WorkSharedInOrder

=============================================================================
