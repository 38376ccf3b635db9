-------------------------- MODULE LaboratoryProofs --------------------------
(***************************************************************************)
(* The hosts, for every set of actions and of replays, every cut of time   *)
(* into frames and every limit of the probes:                              *)
(*   - probes and view follow the world (ViewsFollow);                     *)
(*   - frames may be split (FramesSplit);                                  *)
(*   - the headless runner, the application and the laboratory come to the *)
(*     same end on a replay (HostsAgree);                                  *)
(*   - the log of a session is a replay of it (SessionReplays).            *)
(*                                                                         *)
(* Loops are recursive functions of a number of turns.  Each has a lemma   *)
(* that unfolds it by one turn ("...BySteps"), and what holds after every  *)
(* number of turns is shown on the least number after which it would not.  *)
(***************************************************************************)
EXTENDS Laboratory, FiniteSetTheorems, SequenceTheorems, WellFoundedInduction, TLAPS

-----------------------------------------------------------------------------
(* Least elements, and loops by turns.                                     *)

Less == {p \in Nat \X Nat : p[1] < p[2]}

\* The order of the naturals has no infinite descent.
LEMMA LessWellFounded == IsWellFoundedOn(Less, Nat)
  BY NatLessThanWellFounded, Zenon DEF Less, OpToRel

\* Every non-empty set of naturals has a least element.
LEMMA LeastOfNats ==
  ASSUME NEW S \in SUBSET Nat, S # {}
  PROVE  \E m \in S : \A n \in S : m <= n
<1>1. PICK m \in S : \A n \in S : ~ (<<n, m>> \in Less)
  BY LessWellFounded, WFMin
<1>2. ASSUME NEW n \in S PROVE m <= n
  <2>1. <<n, m>> \in Nat \X Nat
    BY SMT
  <2>2. <<n, m>> \notin Less
    BY <1>1
  <2>3. ~ (n < m)
    BY <2>1, <2>2 DEF Less
  <2> QED BY <2>3
<1> QED BY <1>2

\* The ticks of a frame, one after another.
LEMMA TickedBySteps ==
  ASSUME NEW s, NEW k \in Nat
  PROVE  /\ Ticked(s, 0) = s
         /\ Ticked(s, k + 1) = one_tick(Ticked(s, k))
<1> DEFINE Runs(g, m) == g = [n \in 0..m |-> IF n = 0 THEN s ELSE one_tick(g[n - 1])]
           R(m) == CHOOSE g : Runs(g, m)
           Fails == {m \in Nat : ~ \E g : Runs(g, m)}
<1>1. Fails = {}
  <2>1. SUFFICES ASSUME Fails # {} PROVE FALSE
    OBVIOUS
  <2>2. PICK m \in Fails : \A j \in Fails : m <= j
    <3> HIDE DEF Runs
    <3>1. Fails \in SUBSET Nat
      OBVIOUS
    <3> HIDE DEF Fails
    <3> QED BY <2>1, <3>1, LeastOfNats
  <2>3. m # 0
    <3>1. Runs([n \in 0..0 |-> s], 0)
      OBVIOUS
    <3> QED BY <2>2, <3>1
  <2>4. PICK g : Runs(g, m - 1)
    <3>1. m - 1 \in Nat /\ ~(m <= m - 1)
      BY <2>2, <2>3
    <3> QED BY <2>2, <3>1
  <2> DEFINE h == [n \in 0..m |-> IF n = m THEN one_tick(g[m - 1]) ELSE g[n]]
  <2>5. Runs(h, m)
    <3>1. ASSUME NEW n \in 0..m
          PROVE  h[n] = IF n = 0 THEN s ELSE one_tick(h[n - 1])
      <4>1. CASE n = m
        BY <2>2, <2>3, <4>1
      <4>2. CASE n # m
        <5>1. n \in 0..(m - 1) /\ (n # 0 => n - 1 \in 0..(m - 1) /\ n - 1 # m)
          BY <2>2, <4>2
        <5> QED BY <2>4, <2>2, <4>2, <5>1
      <4> QED BY <4>1, <4>2
    <3> QED BY <3>1
  <2> QED BY <2>2, <2>5
<1>2. ASSUME NEW m \in Nat PROVE Runs(R(m), m)
  <2> HIDE DEF Runs
  <2> QED BY <1>1
<1>3. ASSUME NEW m \in Nat PROVE Ticked(s, m) = R(m)[m]
  BY DEF Ticked
<1> HIDE DEF R
<1>4. R(k)[k] = R(k + 1)[k]
  <2> DEFINE Apart == {m \in 0..k : R(k)[m] # R(k + 1)[m]}
  <2>1. SUFFICES ASSUME Apart # {} PROVE FALSE
    OBVIOUS
  <2>2. PICK m \in Apart : \A j \in Apart : m <= j
    <3>1. Apart \in SUBSET Nat
      OBVIOUS
    <3> HIDE DEF Apart
    <3> QED BY <2>1, <3>1, LeastOfNats
  <2>3. m \in 0..k /\ m \in 0..(k + 1) /\ k + 1 \in Nat
    OBVIOUS
  <2>4. m = 0 \/ (m - 1 \in 0..k /\ R(k)[m - 1] = R(k + 1)[m - 1])
    BY <2>2, <2>3
  <2>5. /\ R(k)[m] = IF m = 0 THEN s ELSE one_tick(R(k)[m - 1])
        /\ R(k + 1)[m] = IF m = 0 THEN s ELSE one_tick(R(k + 1)[m - 1])
    BY <1>2, <2>3
  <2> QED BY <2>2, <2>4, <2>5
<1> QED
  <2>1. Ticked(s, 0) = R(0)[0] /\ R(0)[0] = s
    BY <1>2, <1>3
  <2>2. k + 1 \in Nat /\ R(k + 1)[k + 1] = one_tick(R(k + 1)[k])
    BY <1>2
  <2> QED BY <1>3, <1>4, <2>1, <2>2

\* The actions of the queue, one after another.
LEMMA AppliedBySteps ==
  ASSUME NEW s, NEW queue, NEW k \in Nat
  PROVE  /\ Applied(s, queue, 0) = s
         /\ Applied(s, queue, k + 1) = apply_host_action(Applied(s, queue, k), queue[k + 1])
<1> DEFINE Runs(g, m) == g = [n \in 0..m |-> IF n = 0 THEN s ELSE apply_host_action(g[n - 1], queue[n])]
           R(m) == CHOOSE g : Runs(g, m)
           Fails == {m \in Nat : ~ \E g : Runs(g, m)}
<1>1. Fails = {}
  <2>1. SUFFICES ASSUME Fails # {} PROVE FALSE
    OBVIOUS
  <2>2. PICK m \in Fails : \A j \in Fails : m <= j
    <3> HIDE DEF Runs
    <3>1. Fails \in SUBSET Nat
      OBVIOUS
    <3> HIDE DEF Fails
    <3> QED BY <2>1, <3>1, LeastOfNats
  <2>3. m # 0
    <3>1. Runs([n \in 0..0 |-> s], 0)
      OBVIOUS
    <3> QED BY <2>2, <3>1
  <2>4. PICK g : Runs(g, m - 1)
    <3>1. m - 1 \in Nat /\ ~(m <= m - 1)
      BY <2>2, <2>3
    <3> QED BY <2>2, <3>1
  <2> DEFINE h == [n \in 0..m |-> IF n = m THEN apply_host_action(g[m - 1], queue[m]) ELSE g[n]]
  <2>5. Runs(h, m)
    <3>1. ASSUME NEW n \in 0..m
          PROVE  h[n] = IF n = 0 THEN s ELSE apply_host_action(h[n - 1], queue[n])
      <4>1. CASE n = m
        BY <2>2, <2>3, <4>1
      <4>2. CASE n # m
        <5>1. n \in 0..(m - 1) /\ (n # 0 => n - 1 \in 0..(m - 1) /\ n - 1 # m)
          BY <2>2, <4>2
        <5> QED BY <2>4, <2>2, <4>2, <5>1
      <4> QED BY <4>1, <4>2
    <3> QED BY <3>1
  <2> QED BY <2>2, <2>5
<1>2. ASSUME NEW m \in Nat PROVE Runs(R(m), m)
  <2> HIDE DEF Runs
  <2> QED BY <1>1
<1>3. ASSUME NEW m \in Nat PROVE Applied(s, queue, m) = R(m)[m]
  BY DEF Applied
<1> HIDE DEF R
<1>4. R(k)[k] = R(k + 1)[k]
  <2> DEFINE Apart == {m \in 0..k : R(k)[m] # R(k + 1)[m]}
  <2>1. SUFFICES ASSUME Apart # {} PROVE FALSE
    OBVIOUS
  <2>2. PICK m \in Apart : \A j \in Apart : m <= j
    <3>1. Apart \in SUBSET Nat
      OBVIOUS
    <3> HIDE DEF Apart
    <3> QED BY <2>1, <3>1, LeastOfNats
  <2>3. m \in 0..k /\ m \in 0..(k + 1) /\ k + 1 \in Nat
    OBVIOUS
  <2>4. m = 0 \/ (m - 1 \in 0..k /\ R(k)[m - 1] = R(k + 1)[m - 1])
    BY <2>2, <2>3
  <2>5. /\ R(k)[m] = IF m = 0 THEN s ELSE apply_host_action(R(k)[m - 1], queue[m])
        /\ R(k + 1)[m] = IF m = 0 THEN s ELSE apply_host_action(R(k + 1)[m - 1], queue[m])
    BY <1>2, <2>3
  <2> QED BY <2>2, <2>4, <2>5
<1> QED
  <2>1. Applied(s, queue, 0) = R(0)[0] /\ R(0)[0] = s
    BY <1>2, <1>3
  <2>2. k + 1 \in Nat /\ R(k + 1)[k + 1] = apply_host_action(R(k + 1)[k], queue[k + 1])
    BY <1>2
  <2> QED BY <1>3, <1>4, <2>1, <2>2

\* The commands of a batch, one after another.
LEMMA EditedBySteps ==
  ASSUME NEW board, NEW commands, NEW k \in Nat
  PROVE  /\ EditedBy(board, commands, 0) = board
         /\ EditedBy(board, commands, k + 1) = Edited(EditedBy(board, commands, k), commands[k + 1])
<1> DEFINE Runs(g, m) == g = [n \in 0..m |-> IF n = 0 THEN board ELSE Edited(g[n - 1], commands[n])]
           R(m) == CHOOSE g : Runs(g, m)
           Fails == {m \in Nat : ~ \E g : Runs(g, m)}
<1>1. Fails = {}
  <2>1. SUFFICES ASSUME Fails # {} PROVE FALSE
    OBVIOUS
  <2>2. PICK m \in Fails : \A j \in Fails : m <= j
    <3> HIDE DEF Runs
    <3>1. Fails \in SUBSET Nat
      OBVIOUS
    <3> HIDE DEF Fails
    <3> QED BY <2>1, <3>1, LeastOfNats
  <2>3. m # 0
    <3>1. Runs([n \in 0..0 |-> board], 0)
      OBVIOUS
    <3> QED BY <2>2, <3>1
  <2>4. PICK g : Runs(g, m - 1)
    <3>1. m - 1 \in Nat /\ ~(m <= m - 1)
      BY <2>2, <2>3
    <3> QED BY <2>2, <3>1
  <2> DEFINE h == [n \in 0..m |-> IF n = m THEN Edited(g[m - 1], commands[m]) ELSE g[n]]
  <2>5. Runs(h, m)
    <3>1. ASSUME NEW n \in 0..m
          PROVE  h[n] = IF n = 0 THEN board ELSE Edited(h[n - 1], commands[n])
      <4>1. CASE n = m
        BY <2>2, <2>3, <4>1
      <4>2. CASE n # m
        <5>1. n \in 0..(m - 1) /\ (n # 0 => n - 1 \in 0..(m - 1) /\ n - 1 # m)
          BY <2>2, <4>2
        <5> QED BY <2>4, <2>2, <4>2, <5>1
      <4> QED BY <4>1, <4>2
    <3> QED BY <3>1
  <2> QED BY <2>2, <2>5
<1>2. ASSUME NEW m \in Nat PROVE Runs(R(m), m)
  <2> HIDE DEF Runs
  <2> QED BY <1>1
<1>3. ASSUME NEW m \in Nat PROVE EditedBy(board, commands, m) = R(m)[m]
  BY DEF EditedBy
<1> HIDE DEF R
<1>4. R(k)[k] = R(k + 1)[k]
  <2> DEFINE Apart == {m \in 0..k : R(k)[m] # R(k + 1)[m]}
  <2>1. SUFFICES ASSUME Apart # {} PROVE FALSE
    OBVIOUS
  <2>2. PICK m \in Apart : \A j \in Apart : m <= j
    <3>1. Apart \in SUBSET Nat
      OBVIOUS
    <3> HIDE DEF Apart
    <3> QED BY <2>1, <3>1, LeastOfNats
  <2>3. m \in 0..k /\ m \in 0..(k + 1) /\ k + 1 \in Nat
    OBVIOUS
  <2>4. m = 0 \/ (m - 1 \in 0..k /\ R(k)[m - 1] = R(k + 1)[m - 1])
    BY <2>2, <2>3
  <2>5. /\ R(k)[m] = IF m = 0 THEN board ELSE Edited(R(k)[m - 1], commands[m])
        /\ R(k + 1)[m] = IF m = 0 THEN board ELSE Edited(R(k + 1)[m - 1], commands[m])
    BY <1>2, <2>3
  <2> QED BY <2>2, <2>4, <2>5
<1> QED
  <2>1. EditedBy(board, commands, 0) = R(0)[0] /\ R(0)[0] = board
    BY <1>2, <1>3
  <2>2. k + 1 \in Nat /\ R(k + 1)[k + 1] = Edited(R(k + 1)[k], commands[k + 1])
    BY <1>2
  <2> QED BY <1>3, <1>4, <2>1, <2>2

\* The batches of a history, one after another.
LEMMA BoardBySteps ==
  ASSUME NEW history, NEW k \in Nat
  PROVE  /\ Board(history, 0) = EmptyBoard
         /\ Board(history, k + 1) = EditedBy(Board(history, k), history[k + 1].commands, Len(history[k + 1].commands))
<1> DEFINE Runs(g, m) == g = [n \in 0..m |-> IF n = 0 THEN EmptyBoard ELSE EditedBy(g[n - 1], history[n].commands, Len(history[n].commands))]
           R(m) == CHOOSE g : Runs(g, m)
           Fails == {m \in Nat : ~ \E g : Runs(g, m)}
<1>1. Fails = {}
  <2>1. SUFFICES ASSUME Fails # {} PROVE FALSE
    OBVIOUS
  <2>2. PICK m \in Fails : \A j \in Fails : m <= j
    <3> HIDE DEF Runs
    <3>1. Fails \in SUBSET Nat
      OBVIOUS
    <3> HIDE DEF Fails
    <3> QED BY <2>1, <3>1, LeastOfNats
  <2>3. m # 0
    <3>1. Runs([n \in 0..0 |-> EmptyBoard], 0)
      OBVIOUS
    <3> QED BY <2>2, <3>1
  <2>4. PICK g : Runs(g, m - 1)
    <3>1. m - 1 \in Nat /\ ~(m <= m - 1)
      BY <2>2, <2>3
    <3> QED BY <2>2, <3>1
  <2> DEFINE h == [n \in 0..m |-> IF n = m THEN EditedBy(g[m - 1], history[m].commands, Len(history[m].commands)) ELSE g[n]]
  <2>5. Runs(h, m)
    <3>1. ASSUME NEW n \in 0..m
          PROVE  h[n] = IF n = 0 THEN EmptyBoard ELSE EditedBy(h[n - 1], history[n].commands, Len(history[n].commands))
      <4>1. CASE n = m
        BY <2>2, <2>3, <4>1
      <4>2. CASE n # m
        <5>1. n \in 0..(m - 1) /\ (n # 0 => n - 1 \in 0..(m - 1) /\ n - 1 # m)
          BY <2>2, <4>2
        <5> QED BY <2>4, <2>2, <4>2, <5>1
      <4> QED BY <4>1, <4>2
    <3> QED BY <3>1
  <2> QED BY <2>2, <2>5
<1>2. ASSUME NEW m \in Nat PROVE Runs(R(m), m)
  <2> HIDE DEF Runs
  <2> QED BY <1>1
<1>3. ASSUME NEW m \in Nat PROVE Board(history, m) = R(m)[m]
  BY DEF Board
<1> HIDE DEF R
<1>4. R(k)[k] = R(k + 1)[k]
  <2> DEFINE Apart == {m \in 0..k : R(k)[m] # R(k + 1)[m]}
  <2>1. SUFFICES ASSUME Apart # {} PROVE FALSE
    OBVIOUS
  <2>2. PICK m \in Apart : \A j \in Apart : m <= j
    <3>1. Apart \in SUBSET Nat
      OBVIOUS
    <3> HIDE DEF Apart
    <3> QED BY <2>1, <3>1, LeastOfNats
  <2>3. m \in 0..k /\ m \in 0..(k + 1) /\ k + 1 \in Nat
    OBVIOUS
  <2>4. m = 0 \/ (m - 1 \in 0..k /\ R(k)[m - 1] = R(k + 1)[m - 1])
    BY <2>2, <2>3
  <2>5. /\ R(k)[m] = IF m = 0 THEN EmptyBoard ELSE EditedBy(R(k)[m - 1], history[m].commands, Len(history[m].commands))
        /\ R(k + 1)[m] = IF m = 0 THEN EmptyBoard ELSE EditedBy(R(k + 1)[m - 1], history[m].commands, Len(history[m].commands))
    BY <1>2, <2>3
  <2> QED BY <2>2, <2>4, <2>5
<1> QED
  <2>1. Board(history, 0) = R(0)[0] /\ R(0)[0] = EmptyBoard
    BY <1>2, <1>3
  <2>2. k + 1 \in Nat /\ R(k + 1)[k + 1] = EditedBy(R(k + 1)[k], history[k + 1].commands, Len(history[k + 1].commands))
    BY <1>2
  <2> QED BY <1>3, <1>4, <2>1, <2>2

\* The entries of a list, one after another.
LEMMA PickedBySteps ==
  ASSUME NEW list, NEW ticks, NEW k \in Nat
  PROVE  /\ Picked(list, ticks, 0) = << >>
         /\ Picked(list, ticks, k + 1) = Pick(Picked(list, ticks, k), list[k + 1], ticks)
<1> DEFINE Runs(g, m) == g = [n \in 0..m |-> IF n = 0 THEN << >> ELSE Pick(g[n - 1], list[n], ticks)]
           R(m) == CHOOSE g : Runs(g, m)
           Fails == {m \in Nat : ~ \E g : Runs(g, m)}
<1>1. Fails = {}
  <2>1. SUFFICES ASSUME Fails # {} PROVE FALSE
    OBVIOUS
  <2>2. PICK m \in Fails : \A j \in Fails : m <= j
    <3> HIDE DEF Runs
    <3>1. Fails \in SUBSET Nat
      OBVIOUS
    <3> HIDE DEF Fails
    <3> QED BY <2>1, <3>1, LeastOfNats
  <2>3. m # 0
    <3>1. Runs([n \in 0..0 |-> << >>], 0)
      OBVIOUS
    <3> QED BY <2>2, <3>1
  <2>4. PICK g : Runs(g, m - 1)
    <3>1. m - 1 \in Nat /\ ~(m <= m - 1)
      BY <2>2, <2>3
    <3> QED BY <2>2, <3>1
  <2> DEFINE h == [n \in 0..m |-> IF n = m THEN Pick(g[m - 1], list[m], ticks) ELSE g[n]]
  <2>5. Runs(h, m)
    <3>1. ASSUME NEW n \in 0..m
          PROVE  h[n] = IF n = 0 THEN << >> ELSE Pick(h[n - 1], list[n], ticks)
      <4>1. CASE n = m
        BY <2>2, <2>3, <4>1
      <4>2. CASE n # m
        <5>1. n \in 0..(m - 1) /\ (n # 0 => n - 1 \in 0..(m - 1) /\ n - 1 # m)
          BY <2>2, <4>2
        <5> QED BY <2>4, <2>2, <4>2, <5>1
      <4> QED BY <4>1, <4>2
    <3> QED BY <3>1
  <2> QED BY <2>2, <2>5
<1>2. ASSUME NEW m \in Nat PROVE Runs(R(m), m)
  <2> HIDE DEF Runs
  <2> QED BY <1>1
<1>3. ASSUME NEW m \in Nat PROVE Picked(list, ticks, m) = R(m)[m]
  BY DEF Picked
<1> HIDE DEF R
<1>4. R(k)[k] = R(k + 1)[k]
  <2> DEFINE Apart == {m \in 0..k : R(k)[m] # R(k + 1)[m]}
  <2>1. SUFFICES ASSUME Apart # {} PROVE FALSE
    OBVIOUS
  <2>2. PICK m \in Apart : \A j \in Apart : m <= j
    <3>1. Apart \in SUBSET Nat
      OBVIOUS
    <3> HIDE DEF Apart
    <3> QED BY <2>1, <3>1, LeastOfNats
  <2>3. m \in 0..k /\ m \in 0..(k + 1) /\ k + 1 \in Nat
    OBVIOUS
  <2>4. m = 0 \/ (m - 1 \in 0..k /\ R(k)[m - 1] = R(k + 1)[m - 1])
    BY <2>2, <2>3
  <2>5. /\ R(k)[m] = IF m = 0 THEN << >> ELSE Pick(R(k)[m - 1], list[m], ticks)
        /\ R(k + 1)[m] = IF m = 0 THEN << >> ELSE Pick(R(k + 1)[m - 1], list[m], ticks)
    BY <1>2, <2>3
  <2> QED BY <2>2, <2>4, <2>5
<1> QED
  <2>1. Picked(list, ticks, 0) = R(0)[0] /\ R(0)[0] = << >>
    BY <1>2, <1>3
  <2>2. k + 1 \in Nat /\ R(k + 1)[k + 1] = Pick(R(k + 1)[k], list[k + 1], ticks)
    BY <1>2
  <2> QED BY <1>3, <1>4, <2>1, <2>2

\* The turns of the headless runner, one after another.
LEMMA HeadlessTurnsBySteps ==
  ASSUME NEW r, NEW k \in Nat
  PROVE  /\ HeadlessTurns(r, 0) = verify_current_checkpoint(r, Started)
         /\ HeadlessTurns(r, k + 1) = HeadlessTurn(r, HeadlessTurns(r, k))
<1> DEFINE Runs(g, m) == g = [n \in 0..m |-> IF n = 0 THEN verify_current_checkpoint(r, Started) ELSE HeadlessTurn(r, g[n - 1])]
           R(m) == CHOOSE g : Runs(g, m)
           Fails == {m \in Nat : ~ \E g : Runs(g, m)}
<1>1. Fails = {}
  <2>1. SUFFICES ASSUME Fails # {} PROVE FALSE
    OBVIOUS
  <2>2. PICK m \in Fails : \A j \in Fails : m <= j
    <3> HIDE DEF Runs
    <3>1. Fails \in SUBSET Nat
      OBVIOUS
    <3> HIDE DEF Fails
    <3> QED BY <2>1, <3>1, LeastOfNats
  <2>3. m # 0
    <3>1. Runs([n \in 0..0 |-> verify_current_checkpoint(r, Started)], 0)
      OBVIOUS
    <3> QED BY <2>2, <3>1
  <2>4. PICK g : Runs(g, m - 1)
    <3>1. m - 1 \in Nat /\ ~(m <= m - 1)
      BY <2>2, <2>3
    <3> QED BY <2>2, <3>1
  <2> DEFINE h == [n \in 0..m |-> IF n = m THEN HeadlessTurn(r, g[m - 1]) ELSE g[n]]
  <2>5. Runs(h, m)
    <3>1. ASSUME NEW n \in 0..m
          PROVE  h[n] = IF n = 0 THEN verify_current_checkpoint(r, Started) ELSE HeadlessTurn(r, h[n - 1])
      <4>1. CASE n = m
        BY <2>2, <2>3, <4>1
      <4>2. CASE n # m
        <5>1. n \in 0..(m - 1) /\ (n # 0 => n - 1 \in 0..(m - 1) /\ n - 1 # m)
          BY <2>2, <4>2
        <5> QED BY <2>4, <2>2, <4>2, <5>1
      <4> QED BY <4>1, <4>2
    <3> QED BY <3>1
  <2> QED BY <2>2, <2>5
<1>2. ASSUME NEW m \in Nat PROVE Runs(R(m), m)
  <2> HIDE DEF Runs
  <2> QED BY <1>1
<1>3. ASSUME NEW m \in Nat PROVE HeadlessTurns(r, m) = R(m)[m]
  BY DEF HeadlessTurns
<1> HIDE DEF R
<1>4. R(k)[k] = R(k + 1)[k]
  <2> DEFINE Apart == {m \in 0..k : R(k)[m] # R(k + 1)[m]}
  <2>1. SUFFICES ASSUME Apart # {} PROVE FALSE
    OBVIOUS
  <2>2. PICK m \in Apart : \A j \in Apart : m <= j
    <3>1. Apart \in SUBSET Nat
      OBVIOUS
    <3> HIDE DEF Apart
    <3> QED BY <2>1, <3>1, LeastOfNats
  <2>3. m \in 0..k /\ m \in 0..(k + 1) /\ k + 1 \in Nat
    OBVIOUS
  <2>4. m = 0 \/ (m - 1 \in 0..k /\ R(k)[m - 1] = R(k + 1)[m - 1])
    BY <2>2, <2>3
  <2>5. /\ R(k)[m] = IF m = 0 THEN verify_current_checkpoint(r, Started) ELSE HeadlessTurn(r, R(k)[m - 1])
        /\ R(k + 1)[m] = IF m = 0 THEN verify_current_checkpoint(r, Started) ELSE HeadlessTurn(r, R(k + 1)[m - 1])
    BY <1>2, <2>3
  <2> QED BY <2>2, <2>4, <2>5
<1> QED
  <2>1. HeadlessTurns(r, 0) = R(0)[0] /\ R(0)[0] = verify_current_checkpoint(r, Started)
    BY <1>2, <1>3
  <2>2. k + 1 \in Nat /\ R(k + 1)[k + 1] = HeadlessTurn(r, R(k + 1)[k])
    BY <1>2
  <2> QED BY <1>3, <1>4, <2>1, <2>2

\* The fixed updates of the application, one after another.
LEMMA FixedUpdatesBySteps ==
  ASSUME NEW r, NEW k \in Nat
  PROVE  /\ FixedUpdates(r, 0) = Started
         /\ FixedUpdates(r, k + 1) = advance_canonical_simulation(r, FixedUpdates(r, k))
<1> DEFINE Runs(g, m) == g = [n \in 0..m |-> IF n = 0 THEN Started ELSE advance_canonical_simulation(r, g[n - 1])]
           R(m) == CHOOSE g : Runs(g, m)
           Fails == {m \in Nat : ~ \E g : Runs(g, m)}
<1>1. Fails = {}
  <2>1. SUFFICES ASSUME Fails # {} PROVE FALSE
    OBVIOUS
  <2>2. PICK m \in Fails : \A j \in Fails : m <= j
    <3> HIDE DEF Runs
    <3>1. Fails \in SUBSET Nat
      OBVIOUS
    <3> HIDE DEF Fails
    <3> QED BY <2>1, <3>1, LeastOfNats
  <2>3. m # 0
    <3>1. Runs([n \in 0..0 |-> Started], 0)
      OBVIOUS
    <3> QED BY <2>2, <3>1
  <2>4. PICK g : Runs(g, m - 1)
    <3>1. m - 1 \in Nat /\ ~(m <= m - 1)
      BY <2>2, <2>3
    <3> QED BY <2>2, <3>1
  <2> DEFINE h == [n \in 0..m |-> IF n = m THEN advance_canonical_simulation(r, g[m - 1]) ELSE g[n]]
  <2>5. Runs(h, m)
    <3>1. ASSUME NEW n \in 0..m
          PROVE  h[n] = IF n = 0 THEN Started ELSE advance_canonical_simulation(r, h[n - 1])
      <4>1. CASE n = m
        BY <2>2, <2>3, <4>1
      <4>2. CASE n # m
        <5>1. n \in 0..(m - 1) /\ (n # 0 => n - 1 \in 0..(m - 1) /\ n - 1 # m)
          BY <2>2, <4>2
        <5> QED BY <2>4, <2>2, <4>2, <5>1
      <4> QED BY <4>1, <4>2
    <3> QED BY <3>1
  <2> QED BY <2>2, <2>5
<1>2. ASSUME NEW m \in Nat PROVE Runs(R(m), m)
  <2> HIDE DEF Runs
  <2> QED BY <1>1
<1>3. ASSUME NEW m \in Nat PROVE FixedUpdates(r, m) = R(m)[m]
  BY DEF FixedUpdates
<1> HIDE DEF R
<1>4. R(k)[k] = R(k + 1)[k]
  <2> DEFINE Apart == {m \in 0..k : R(k)[m] # R(k + 1)[m]}
  <2>1. SUFFICES ASSUME Apart # {} PROVE FALSE
    OBVIOUS
  <2>2. PICK m \in Apart : \A j \in Apart : m <= j
    <3>1. Apart \in SUBSET Nat
      OBVIOUS
    <3> HIDE DEF Apart
    <3> QED BY <2>1, <3>1, LeastOfNats
  <2>3. m \in 0..k /\ m \in 0..(k + 1) /\ k + 1 \in Nat
    OBVIOUS
  <2>4. m = 0 \/ (m - 1 \in 0..k /\ R(k)[m - 1] = R(k + 1)[m - 1])
    BY <2>2, <2>3
  <2>5. /\ R(k)[m] = IF m = 0 THEN Started ELSE advance_canonical_simulation(r, R(k)[m - 1])
        /\ R(k + 1)[m] = IF m = 0 THEN Started ELSE advance_canonical_simulation(r, R(k + 1)[m - 1])
    BY <1>2, <2>3
  <2> QED BY <2>2, <2>4, <2>5
<1> QED
  <2>1. FixedUpdates(r, 0) = R(0)[0] /\ R(0)[0] = Started
    BY <1>2, <1>3
  <2>2. k + 1 \in Nat /\ R(k + 1)[k + 1] = advance_canonical_simulation(r, R(k + 1)[k])
    BY <1>2
  <2> QED BY <1>3, <1>4, <2>1, <2>2

\* The steps of a schedule, one after another.
LEMMA PassedBySteps ==
  ASSUME NEW r, NEW k \in Nat
  PROVE  /\ Passed(r, 0) = Unstepped
         /\ Passed(r, k + 1) = PassedStep(r, Passed(r, k))
<1> DEFINE Runs(g, m) == g = [n \in 0..m |-> IF n = 0 THEN Unstepped ELSE PassedStep(r, g[n - 1])]
           R(m) == CHOOSE g : Runs(g, m)
           Fails == {m \in Nat : ~ \E g : Runs(g, m)}
<1>1. Fails = {}
  <2>1. SUFFICES ASSUME Fails # {} PROVE FALSE
    OBVIOUS
  <2>2. PICK m \in Fails : \A j \in Fails : m <= j
    <3> HIDE DEF Runs
    <3>1. Fails \in SUBSET Nat
      OBVIOUS
    <3> HIDE DEF Fails
    <3> QED BY <2>1, <3>1, LeastOfNats
  <2>3. m # 0
    <3>1. Runs([n \in 0..0 |-> Unstepped], 0)
      OBVIOUS
    <3> QED BY <2>2, <3>1
  <2>4. PICK g : Runs(g, m - 1)
    <3>1. m - 1 \in Nat /\ ~(m <= m - 1)
      BY <2>2, <2>3
    <3> QED BY <2>2, <3>1
  <2> DEFINE h == [n \in 0..m |-> IF n = m THEN PassedStep(r, g[m - 1]) ELSE g[n]]
  <2>5. Runs(h, m)
    <3>1. ASSUME NEW n \in 0..m
          PROVE  h[n] = IF n = 0 THEN Unstepped ELSE PassedStep(r, h[n - 1])
      <4>1. CASE n = m
        BY <2>2, <2>3, <4>1
      <4>2. CASE n # m
        <5>1. n \in 0..(m - 1) /\ (n # 0 => n - 1 \in 0..(m - 1) /\ n - 1 # m)
          BY <2>2, <4>2
        <5> QED BY <2>4, <2>2, <4>2, <5>1
      <4> QED BY <4>1, <4>2
    <3> QED BY <3>1
  <2> QED BY <2>2, <2>5
<1>2. ASSUME NEW m \in Nat PROVE Runs(R(m), m)
  <2> HIDE DEF Runs
  <2> QED BY <1>1
<1>3. ASSUME NEW m \in Nat PROVE Passed(r, m) = R(m)[m]
  BY DEF Passed
<1> HIDE DEF R
<1>4. R(k)[k] = R(k + 1)[k]
  <2> DEFINE Apart == {m \in 0..k : R(k)[m] # R(k + 1)[m]}
  <2>1. SUFFICES ASSUME Apart # {} PROVE FALSE
    OBVIOUS
  <2>2. PICK m \in Apart : \A j \in Apart : m <= j
    <3>1. Apart \in SUBSET Nat
      OBVIOUS
    <3> HIDE DEF Apart
    <3> QED BY <2>1, <3>1, LeastOfNats
  <2>3. m \in 0..k /\ m \in 0..(k + 1) /\ k + 1 \in Nat
    OBVIOUS
  <2>4. m = 0 \/ (m - 1 \in 0..k /\ R(k)[m - 1] = R(k + 1)[m - 1])
    BY <2>2, <2>3
  <2>5. /\ R(k)[m] = IF m = 0 THEN Unstepped ELSE PassedStep(r, R(k)[m - 1])
        /\ R(k + 1)[m] = IF m = 0 THEN Unstepped ELSE PassedStep(r, R(k + 1)[m - 1])
    BY <1>2, <2>3
  <2> QED BY <2>2, <2>4, <2>5
<1> QED
  <2>1. Passed(r, 0) = R(0)[0] /\ R(0)[0] = Unstepped
    BY <1>2, <1>3
  <2>2. k + 1 \in Nat /\ R(k + 1)[k + 1] = PassedStep(r, R(k + 1)[k])
    BY <1>2
  <2> QED BY <1>3, <1>4, <2>1, <2>2

\* The commands of a replay put in order, one after another.
LEMMA SortedBySteps ==
  ASSUME NEW list, NEW k \in Nat
  PROVE  /\ Sorted(list, Earlier, 0) = << >>
         /\ Sorted(list, Earlier, k + 1) = Inserted(Sorted(list, Earlier, k), list[k + 1], Earlier)
<1> DEFINE Runs(g, m) == g = [n \in 0..m |-> IF n = 0 THEN << >> ELSE Inserted(g[n - 1], list[n], Earlier)]
           R(m) == CHOOSE g : Runs(g, m)
           Fails == {m \in Nat : ~ \E g : Runs(g, m)}
<1>1. Fails = {}
  <2>1. SUFFICES ASSUME Fails # {} PROVE FALSE
    OBVIOUS
  <2>2. PICK m \in Fails : \A j \in Fails : m <= j
    <3> HIDE DEF Runs
    <3>1. Fails \in SUBSET Nat
      OBVIOUS
    <3> HIDE DEF Fails
    <3> QED BY <2>1, <3>1, LeastOfNats
  <2>3. m # 0
    <3>1. Runs([n \in 0..0 |-> << >>], 0)
      OBVIOUS
    <3> QED BY <2>2, <3>1
  <2>4. PICK g : Runs(g, m - 1)
    <3>1. m - 1 \in Nat /\ ~(m <= m - 1)
      BY <2>2, <2>3
    <3> QED BY <2>2, <3>1
  <2> DEFINE h == [n \in 0..m |-> IF n = m THEN Inserted(g[m - 1], list[m], Earlier) ELSE g[n]]
  <2>5. Runs(h, m)
    <3>1. ASSUME NEW n \in 0..m
          PROVE  h[n] = IF n = 0 THEN << >> ELSE Inserted(h[n - 1], list[n], Earlier)
      <4>1. CASE n = m
        BY <2>2, <2>3, <4>1
      <4>2. CASE n # m
        <5>1. n \in 0..(m - 1) /\ (n # 0 => n - 1 \in 0..(m - 1) /\ n - 1 # m)
          BY <2>2, <4>2
        <5> QED BY <2>4, <2>2, <4>2, <5>1
      <4> QED BY <4>1, <4>2
    <3> QED BY <3>1
  <2> QED BY <2>2, <2>5
<1>2. ASSUME NEW m \in Nat PROVE Runs(R(m), m)
  <2> HIDE DEF Runs
  <2> QED BY <1>1
<1>3. ASSUME NEW m \in Nat PROVE Sorted(list, Earlier, m) = R(m)[m]
  BY DEF Sorted
<1> HIDE DEF R
<1>4. R(k)[k] = R(k + 1)[k]
  <2> DEFINE Apart == {m \in 0..k : R(k)[m] # R(k + 1)[m]}
  <2>1. SUFFICES ASSUME Apart # {} PROVE FALSE
    OBVIOUS
  <2>2. PICK m \in Apart : \A j \in Apart : m <= j
    <3>1. Apart \in SUBSET Nat
      OBVIOUS
    <3> HIDE DEF Apart
    <3> QED BY <2>1, <3>1, LeastOfNats
  <2>3. m \in 0..k /\ m \in 0..(k + 1) /\ k + 1 \in Nat
    OBVIOUS
  <2>4. m = 0 \/ (m - 1 \in 0..k /\ R(k)[m - 1] = R(k + 1)[m - 1])
    BY <2>2, <2>3
  <2>5. /\ R(k)[m] = IF m = 0 THEN << >> ELSE Inserted(R(k)[m - 1], list[m], Earlier)
        /\ R(k + 1)[m] = IF m = 0 THEN << >> ELSE Inserted(R(k + 1)[m - 1], list[m], Earlier)
    BY <1>2, <2>3
  <2> QED BY <2>2, <2>4, <2>5
<1> QED
  <2>1. Sorted(list, Earlier, 0) = R(0)[0] /\ R(0)[0] = << >>
    BY <1>2, <1>3
  <2>2. k + 1 \in Nat /\ R(k + 1)[k + 1] = Inserted(R(k + 1)[k], list[k + 1], Earlier)
    BY <1>2
  <2> QED BY <1>3, <1>4, <2>1, <2>2

-----------------------------------------------------------------------------
\* Lists, of no matter what.
IsList(q) == Len(q) \in Nat /\ q = [i \in 1..Len(q) |-> q[i]]

\* What appending does to a list.
LEMMA Appended ==
  ASSUME NEW q, IsList(q), NEW x
  PROVE  /\ IsList(Append(q, x)) /\ Len(Append(q, x)) = Len(q) + 1
         /\ Append(q, x)[Len(q) + 1] = x
         /\ \A i \in 1..Len(q) : Append(q, x)[i] = q[i]
<1> DEFINE S == {q[i] : i \in 1..Len(q)} \cup {x}
<1>1. q \in Seq(S)
  <2>1. Len(q) \in Nat /\ q \in [1..Len(q) -> S]
    BY DEF IsList
  <2> QED BY <2>1
<1>2. x \in S /\ Append(q, x) \in Seq(S)
  BY <1>1
<1> HIDE DEF S
<1>3. /\ Len(Append(q, x)) = Len(q) + 1 /\ Append(q, x)[Len(q) + 1] = x
      /\ \A i \in 1..Len(q) : Append(q, x)[i] = q[i]
  BY <1>1, <1>2
<1>4. Append(q, x) = [i \in 1..Len(Append(q, x)) |-> Append(q, x)[i]]
  <2>1. Append(q, x) \in [1..Len(Append(q, x)) -> S]
    BY <1>2, LenProperties
  <2> QED BY <2>1
<1>5. Len(q) + 1 \in Nat
  BY DEF IsList
<1>6. IsList(Append(q, x))
  <2> DEFINE a == Append(q, x)
  <2>1. Len(a) = Len(q) + 1 /\ a = [i \in 1..Len(a) |-> a[i]]
    BY <1>3, <1>4
  <2> HIDE DEF a
  <2>2. IsList(a)
    BY <1>5, <2>1 DEF IsList
  <2> QED BY <2>2 DEF a
<1> QED BY <1>3, <1>6

-----------------------------------------------------------------------------
(* The board: identities grow, and what has gone does not come back.       *)

IsBoard(b) ==
    /\ b \in [last : Nat, alive : SUBSET Nat]
    /\ \A x \in b.alive : 1 <= x /\ x <= b.last
Grows(b, c) ==
    /\ b.last <= c.last
    /\ \A x \in c.alive : x \in b.alive \/ b.last < x

\* One command lets a board grow.
LEMMA EditedGrows ==
  ASSUME NEW b, IsBoard(b), NEW c
  PROVE  IsBoard(Edited(b, c)) /\ Grows(b, Edited(b, c))
<1>1. CASE c.command = PlaceEdit
  <2>1. Edited(b, c) = [last |-> b.last + 1, alive |-> b.alive \cup {b.last + 1}]
    BY <1>1, LaboratoryAssumption DEF Edited
  <2> QED BY <2>1 DEF IsBoard, Grows
<1>2. CASE c.command # PlaceEdit /\ c.command = RemoveEdit /\ b.alive # {}
  <2> DEFINE least == Min(b.alive)
  <2>1. Edited(b, c) = [b EXCEPT !.alive = b.alive \ {least}]
    BY <1>2, ZenonT(60) DEF Edited
  <2> HIDE DEF least
  <2> QED BY <2>1 DEF IsBoard, Grows
<1>3. CASE c.command # PlaceEdit /\ ~(c.command = RemoveEdit /\ b.alive # {})
  <2>1. Edited(b, c) = b
    BY <1>3 DEF Edited
  <2> QED BY <2>1 DEF IsBoard, Grows
<1> QED BY <1>1, <1>2, <1>3

\* And so does a batch of them.
LEMMA EditedByGrows ==
  ASSUME NEW b, IsBoard(b), NEW commands, NEW k \in Nat
  PROVE  IsBoard(EditedBy(b, commands, k)) /\ Grows(b, EditedBy(b, commands, k))
<1> DEFINE After(n) == EditedBy(b, commands, n)
           Fails == {n \in Nat : ~(IsBoard(After(n)) /\ Grows(b, After(n)))}
<1>1. SUFFICES ASSUME Fails # {} PROVE FALSE
  OBVIOUS
<1>2. PICK m \in Fails : \A j \in Fails : m <= j
  <2>1. Fails \in SUBSET Nat
    OBVIOUS
  <2> HIDE DEF Fails
  <2> QED BY <1>1, <2>1, LeastOfNats
<1>3. CASE m = 0
  <2>1. After(m) = b
    BY <1>3, EditedBySteps
  <2>2. Grows(b, b)
    BY DEF Grows, IsBoard
  <2> QED BY <1>2, <2>1, <2>2
<1>4. CASE m # 0
  <2>1. m - 1 \in Nat /\ m = (m - 1) + 1 /\ ~(m <= m - 1)
    BY <1>4
  <2>2. IsBoard(After(m - 1)) /\ Grows(b, After(m - 1))
    BY <1>2, <2>1
  <2>3. After((m - 1) + 1) = Edited(After(m - 1), commands[(m - 1) + 1])
    BY <2>1, EditedBySteps
  <2>4. IsBoard(After(m)) /\ Grows(After(m - 1), After(m))
    BY <2>1, <2>2, <2>3, EditedGrows
  <2> HIDE DEF After
  <2>5. Grows(b, After(m))
    BY <2>2, <2>4 DEF Grows, IsBoard
  <2> QED BY <1>2, <2>4, <2>5
<1> QED BY <1>3, <1>4

\* The board depends on the ticks it has seen only.
LEMMA BoardOfPrefix ==
  ASSUME NEW g, NEW h, NEW k \in Nat, \A i \in 1..k : g[i] = h[i]
  PROVE  Board(g, k) = Board(h, k)
<1> DEFINE Fails == {n \in 0..k : Board(g, n) # Board(h, n)}
<1>1. SUFFICES ASSUME Fails # {} PROVE FALSE
  OBVIOUS
<1>2. PICK m \in Fails : \A j \in Fails : m <= j
  <2>1. Fails \in SUBSET Nat
    OBVIOUS
  <2> HIDE DEF Fails
  <2> QED BY <1>1, <2>1, LeastOfNats
<1>3. m # 0
  BY <1>2, BoardBySteps
<1>4. m - 1 \in Nat /\ m - 1 \in 0..k /\ m = (m - 1) + 1 /\ ~(m <= m - 1) /\ m \in 1..k
  BY <1>2, <1>3
<1>5. Board(g, m - 1) = Board(h, m - 1) /\ g[m] = h[m]
  BY <1>2, <1>4
<1>6. /\ Board(g, (m - 1) + 1) = EditedBy(Board(g, m - 1), g[(m - 1) + 1].commands, Len(g[(m - 1) + 1].commands))
      /\ Board(h, (m - 1) + 1) = EditedBy(Board(h, m - 1), h[(m - 1) + 1].commands, Len(h[(m - 1) + 1].commands))
  BY <1>4, BoardBySteps
<1> QED BY <1>2, <1>4, <1>5, <1>6

\* The batches of a history hold lists of commands.
Batched(h) == IsList(h) /\ \A i \in 1..Len(h) : Len(h[i].commands) \in Nat

\* What is alive on the board of a history has been placed in it.
LEMMA BoardIsBoard ==
  ASSUME NEW h, Batched(h), NEW k \in 0..Len(h)
  PROVE  IsBoard(Board(h, k))
<1> DEFINE Fails == {n \in 0..Len(h) : ~IsBoard(Board(h, n))}
<1>0. Len(h) \in Nat
  BY DEF Batched, IsList
<1>1. SUFFICES ASSUME Fails # {} PROVE FALSE
  OBVIOUS
<1>2. PICK m \in Fails : \A j \in Fails : m <= j
  <2>1. Fails \in SUBSET Nat
    BY <1>0
  <2> HIDE DEF Fails
  <2> QED BY <1>1, <2>1, LeastOfNats
<1>3. m # 0
  <2>1. IsBoard(EmptyBoard)
    BY DEF IsBoard, EmptyBoard
  <2> QED BY <1>2, <2>1, BoardBySteps
<1>4. /\ m - 1 \in Nat /\ m - 1 \in 0..Len(h) /\ m = (m - 1) + 1
      /\ ~(m <= m - 1) /\ m \in 1..Len(h)
  BY <1>0, <1>2, <1>3
<1>5. IsBoard(Board(h, m - 1)) /\ Len(h[m].commands) \in Nat
  BY <1>2, <1>4 DEF Batched
<1>6. Board(h, (m - 1) + 1) = EditedBy(Board(h, m - 1), h[(m - 1) + 1].commands, Len(h[(m - 1) + 1].commands))
  BY <1>4, BoardBySteps
<1> QED BY <1>2, <1>4, <1>5, <1>6, EditedByGrows

\* A step adds to the board, and takes from it for good.
LEMMA BoardGrows ==
  ASSUME NEW h, Batched(h), NEW batch, Len(batch.commands) \in Nat
  PROVE  /\ Batched(Append(h, batch))
         /\ Grows(Board(h, Len(h)), Board(Append(h, batch), Len(Append(h, batch))))
<1> DEFINE g == Append(h, batch)
<1>1. /\ IsList(g) /\ Len(g) = Len(h) + 1 /\ g[Len(h) + 1] = batch
      /\ \A i \in 1..Len(h) : g[i] = h[i]
  BY Appended DEF Batched
<1> HIDE DEF g
<1>2. Len(h) \in Nat /\ Len(h) \in 0..Len(h)
  BY DEF Batched, IsList
<1>3. Batched(g)
  BY <1>1, <1>2 DEF Batched
<1>4. Board(g, Len(h)) = Board(h, Len(h))
  BY <1>1, <1>2, BoardOfPrefix
<1>5. Board(g, Len(h) + 1) = EditedBy(Board(g, Len(h)), g[Len(h) + 1].commands, Len(g[Len(h) + 1].commands))
  BY <1>2, BoardBySteps
<1>6. IsBoard(Board(h, Len(h)))
  BY <1>2, BoardIsBoard
<1>7. Grows(Board(h, Len(h)), Board(g, Len(g)))
  BY <1>1, <1>4, <1>5, <1>6, EditedByGrows
<1> QED BY <1>3, <1>7 DEF g

-----------------------------------------------------------------------------
(* The probes.                                                             *)

ProbeFields == {"id", "target", "history", "live"}

\* What a probe knows of a world with this history.
Knows(p, h) ==
    /\ p = [f \in ProbeFields |-> p[f]]
    /\ p.live \in BOOLEAN /\ p.id \in Nat /\ p.target \in Nat
    /\ p.target <= Board(h, Len(h)).last
    /\ p.live <=> p.target \in Living(h)
    /\ p.history \in Seq(Nat) /\ Len(p.history) <= ProbeHistory
    /\ \A j \in 1..Len(p.history) : j > 1 => p.history[j] = p.history[j - 1] + 1
    /\ p.live /\ p.history # << >> => p.history[Len(p.history)] = Len(h) - 1

\* The rack of probes.
Rack(probes, h, next) ==
    /\ IsList(probes) /\ Len(probes) <= MaxProbes /\ next \in Nat
    /\ \A i \in 1..Len(probes) : Knows(probes[i], h) /\ probes[i].id < next
    /\ \A i, j \in 1..Len(probes) :
          i < j => probes[i].id < probes[j].id /\ probes[i].target # probes[j].target

\* A session without probes.
LEMMA RackEmpty ==
  ASSUME NEW h, NEW next \in Nat
  PROVE  Rack(<< >>, h, next)
<1>1. IsList(<< >>) /\ Len(<< >>) = 0
  BY DEF IsList
<1>2. 0 <= MaxProbes /\ 1..0 = {}
  BY LaboratoryAssumption
<1> QED BY <1>1, <1>2 DEF Rack

\* A probe that is added is the youngest, on a target nobody watches.
LEMMA ProbeAdded ==
  ASSUME NEW probes, NEW h, NEW next, Batched(h), Rack(probes, h, next),
         NEW target \in Living(h),
         ~ \E i \in DOMAIN probes : probes[i].target = target,
         Len(probes) # MaxProbes
  PROVE  Rack(Append(probes, [id |-> next, target |-> target, history |-> << >>, live |-> TRUE]),
              h, next + 1)
<1> DEFINE p == [id |-> next, target |-> target, history |-> << >>, live |-> TRUE]
           more == Append(probes, p)
<1>1. /\ IsList(probes) /\ Len(probes) \in Nat /\ DOMAIN probes = 1..Len(probes) /\ next \in Nat
  BY DEF Rack, IsList
<1>2. /\ IsList(more) /\ Len(more) = Len(probes) + 1 /\ more[Len(probes) + 1] = p
      /\ \A i \in 1..Len(probes) : more[i] = probes[i]
  BY <1>1, Appended
<1>3. IsBoard(Board(h, Len(h)))
  <2>1. Len(h) \in 0..Len(h)
    BY DEF Batched, IsList
  <2> QED BY <2>1, BoardIsBoard
<1>4. Knows(p, h)
  <2>1. target \in Nat /\ target <= Board(h, Len(h)).last
    BY <1>3 DEF Living, IsBoard
  <2>2. << >> \in Seq(Nat) /\ Len(<< >>) = 0 /\ 0 <= ProbeHistory
    BY LaboratoryAssumption
  <2>3. p = [f \in ProbeFields |-> p[f]]
    BY DEF ProbeFields
  <2> QED BY <1>1, <2>1, <2>2, <2>3 DEF Knows
<1>5. Len(more) <= MaxProbes
  BY <1>1, <1>2, LaboratoryAssumption DEF Rack
<1>6. p.id = next /\ p.target = target
  OBVIOUS
<1> HIDE DEF p, more
<1>7. \A i \in 1..Len(more) : Knows(more[i], h) /\ more[i].id < next + 1
  <2> TAKE i \in 1..Len(more)
  <2>1. CASE i = Len(probes) + 1
    BY <1>1, <1>2, <1>4, <1>6, <2>1
  <2>2. CASE i # Len(probes) + 1
    <3>1. i \in 1..Len(probes)
      BY <1>1, <1>2, <2>2
    <3>2. Knows(probes[i], h) /\ probes[i].id < next /\ probes[i].id \in Nat
      BY <3>1 DEF Rack, Knows
    <3> QED BY <1>1, <1>2, <3>1, <3>2
  <2> QED BY <2>1, <2>2
<1>8. \A i, j \in 1..Len(more) :
         i < j => more[i].id < more[j].id /\ more[i].target # more[j].target
  <2> SUFFICES ASSUME NEW i \in 1..Len(more), NEW j \in 1..Len(more), i < j
               PROVE  more[i].id < more[j].id /\ more[i].target # more[j].target
    OBVIOUS
  <2>1. i \in 1..Len(probes) /\ more[i] = probes[i]
    BY <1>1, <1>2
  <2>2. CASE j = Len(probes) + 1
    BY <1>1, <1>2, <1>6, <2>1, <2>2 DEF Rack
  <2>3. CASE j # Len(probes) + 1
    <3>1. j \in 1..Len(probes) /\ more[j] = probes[j]
      BY <1>1, <1>2, <2>3
    <3> QED BY <2>1, <3>1 DEF Rack
  <2> QED BY <2>2, <2>3
<1>9. next + 1 \in Nat
  BY <1>1
<1>10. Rack(more, h, next + 1)
  BY <1>2, <1>5, <1>7, <1>8, <1>9 DEF Rack
<1> QED BY <1>10 DEF more, p

\* What is left of a list from which one entry is taken.
LEMMA Removed ==
  ASSUME NEW q, IsList(q), NEW i \in 1..Len(q)
  PROVE  /\ IsList(RemoveAt(q, i)) /\ Len(RemoveAt(q, i)) = Len(q) - 1
         /\ \A j \in 1..(Len(q) - 1) : RemoveAt(q, i)[j] = IF j < i THEN q[j] ELSE q[j + 1]
<1> DEFINE S == {q[j] : j \in 1..Len(q)}
           a == SubSeq(q, 1, i - 1)
           b == SubSeq(q, i + 1, Len(q))
           r == RemoveAt(q, i)
<1>1. Len(q) \in Nat /\ \A j \in 1..Len(q) : q[j] \in S
  BY DEF IsList
<1> HIDE DEF S
<1>2. /\ a \in Seq(S) /\ Len(a) = i - 1
      /\ \A j \in 1..(i - 1) : a[j] = q[j]
  <2>1. \A j \in 1..(i - 1) : q[j] \in S
    BY <1>1
  <2>2. /\ a \in Seq(S) /\ Len(a) = (IF 1 <= i - 1 THEN (i - 1) - 1 + 1 ELSE 0)
        /\ \A j \in 1..((i - 1) - 1 + 1) : a[j] = q[1 + j - 1]
    BY <1>1, <2>1, SubSeqProperties
  <2> HIDE DEF a
  <2> QED BY <1>1, <2>2
<1>3. /\ b \in Seq(S) /\ Len(b) = Len(q) - i
      /\ \A j \in 1..(Len(q) - i) : b[j] = q[i + j]
  <2>1. \A j \in (i + 1)..Len(q) : q[j] \in S
    BY <1>1
  <2>2. /\ b \in Seq(S) /\ Len(b) = (IF i + 1 <= Len(q) THEN Len(q) - (i + 1) + 1 ELSE 0)
        /\ \A j \in 1..(Len(q) - (i + 1) + 1) : b[j] = q[(i + 1) + j - 1]
    BY <1>1, <2>1, SubSeqProperties
  <2> HIDE DEF b
  <2> QED BY <1>1, <2>2
<1>4. r = a \o b
  BY DEF RemoveAt
<1> HIDE DEF a, b, r
<1>5. /\ r \in Seq(S) /\ Len(r) = Len(a) + Len(b)
      /\ \A j \in 1..(Len(a) + Len(b)) : r[j] = IF j <= Len(a) THEN a[j] ELSE b[j - Len(a)]
  BY <1>2, <1>3, <1>4, ConcatProperties
<1>6. r \in [1..Len(r) -> S]
  BY <1>5, LenProperties
<1>7. IsList(r) /\ Len(r) = Len(q) - 1
  BY <1>1, <1>2, <1>3, <1>5, <1>6 DEF IsList
<1>8. ASSUME NEW j \in 1..(Len(q) - 1) PROVE r[j] = IF j < i THEN q[j] ELSE q[j + 1]
  <2>1. r[j] = IF j <= i - 1 THEN a[j] ELSE b[j - (i - 1)]
    BY <1>1, <1>2, <1>3, <1>5
  <2>2. CASE j < i
    BY <1>1, <1>2, <2>1, <2>2
  <2>3. CASE ~(j < i)
    <3>1. j - (i - 1) \in 1..(Len(q) - i) /\ i + (j - (i - 1)) = j + 1 /\ ~(j <= i - 1)
      BY <1>1, <2>3
    <3> QED BY <1>3, <2>1, <2>3, <3>1
  <2> QED BY <2>2, <2>3
<1> QED BY <1>7, <1>8 DEF r

\* The probes that are left keep their order.
LEMMA ProbeRemoved ==
  ASSUME NEW probes, NEW h, NEW next, Rack(probes, h, next), NEW i \in 1..Len(probes)
  PROVE  Rack(RemoveAt(probes, i), h, next)
<1> DEFINE r == RemoveAt(probes, i)
           old(j) == IF j < i THEN j ELSE j + 1
<1>1. IsList(probes) /\ Len(probes) \in Nat /\ next \in Nat
  BY DEF Rack, IsList
<1>2. /\ IsList(r) /\ Len(r) = Len(probes) - 1
      /\ \A j \in 1..(Len(probes) - 1) : r[j] = IF j < i THEN probes[j] ELSE probes[j + 1]
  BY <1>1, Removed
<1> HIDE DEF r
<1>3. ASSUME NEW j \in 1..Len(r) PROVE old(j) \in 1..Len(probes) /\ r[j] = probes[old(j)]
  BY <1>1, <1>2
<1>4. ASSUME NEW j \in 1..Len(r), NEW k \in 1..Len(r), j < k PROVE old(j) < old(k)
  BY <1>1, <1>2, <1>4
<1> HIDE DEF old
<1>5. Len(r) <= MaxProbes
  BY <1>1, <1>2, LaboratoryAssumption DEF Rack
<1>6. ASSUME NEW j \in 1..Len(r) PROVE Knows(r[j], h) /\ r[j].id < next
  <2>1. \A k \in 1..Len(probes) : Knows(probes[k], h) /\ probes[k].id < next
    BY DEF Rack
  <2> QED BY <1>3, <2>1
<1>7. ASSUME NEW j \in 1..Len(r), NEW k \in 1..Len(r), j < k
      PROVE  r[j].id < r[k].id /\ r[j].target # r[k].target
  <2>1. \A a, b \in 1..Len(probes) :
           a < b => probes[a].id < probes[b].id /\ probes[a].target # probes[b].target
    BY DEF Rack
  <2>2. old(j) < old(k)
    BY <1>4, <1>7
  <2> QED BY <1>3, <2>1, <2>2
<1>8. Rack(r, h, next)
  BY <1>1, <1>2, <1>5, <1>6, <1>7 DEF Rack
<1> QED BY <1>8 DEF r

\* A step that happened gives each live probe its sample.
LEMMA ProbeRecorded ==
  ASSUME NEW h, NEW batch, Batched(h), Len(batch.commands) \in Nat,
         NEW p, Knows(p, h)
  PROVE  LET g == Append(h, batch)
             kept == IF Len(p.history) = ProbeHistory THEN Tail(p.history) ELSE p.history
         IN  Knows(IF p.target \in Living(g)
                   THEN [p EXCEPT !.history = Append(kept, Len(h)), !.live = TRUE]
                   ELSE [p EXCEPT !.live = FALSE], g)
<1> DEFINE g == Append(h, batch)
           kept == IF Len(p.history) = ProbeHistory THEN Tail(p.history) ELSE p.history
           q == [p EXCEPT !.history = Append(kept, Len(h)), !.live = TRUE]
           dead == [p EXCEPT !.live = FALSE]
<1>1. /\ Batched(g) /\ Len(g) = Len(h) + 1 /\ Len(h) \in Nat
      /\ Grows(Board(h, Len(h)), Board(g, Len(g)))
  BY BoardGrows, Appended DEF Batched, IsList
<1>2. IsBoard(Board(g, Len(g))) /\ IsBoard(Board(h, Len(h)))
  <2>1. Len(h) \in 0..Len(h) /\ Len(g) \in 0..Len(g)
    BY <1>1 DEF Batched, IsList
  <2> HIDE DEF g
  <2> QED BY <1>1, <2>1, BoardIsBoard
<1> HIDE DEF g
<1>3. p.target <= Board(g, Len(g)).last
  BY <1>1, <1>2 DEF Grows, Knows, IsBoard
<1>4. p.target \in Living(g) => p.live
  BY <1>1, <1>2 DEF Grows, Knows, Living, IsBoard
<1>5. /\ kept \in Seq(Nat) /\ Len(kept) \in Nat /\ Len(kept) + 1 <= ProbeHistory
      /\ \A j \in 1..Len(kept) : j > 1 => kept[j] = kept[j - 1] + 1
      /\ p.live /\ kept # << >> => kept[Len(kept)] = Len(h) - 1
  <2>1. /\ p.history \in Seq(Nat) /\ Len(p.history) \in Nat /\ Len(p.history) <= ProbeHistory
        /\ ProbeHistory \in Nat /\ ProbeHistory > 0
    BY LaboratoryAssumption, LenProperties DEF Knows
  <2>2. CASE Len(p.history) = ProbeHistory
    <3>1. p.history # << >>
      BY <2>1, <2>2
    <3>2. /\ Tail(p.history) \in Seq(Nat) /\ Len(Tail(p.history)) = Len(p.history) - 1
          /\ \A j \in 1..Len(Tail(p.history)) : Tail(p.history)[j] = p.history[j + 1]
      BY <2>1, <3>1, HeadTailProperties
    <3> DEFINE t == Tail(p.history)
    <3>3. kept = t
      BY <2>2
    <3> HIDE DEF t, kept
    <3>4. /\ t \in Seq(Nat) /\ Len(t) = Len(p.history) - 1
          /\ \A j \in 1..Len(t) : t[j] = p.history[j + 1]
      BY <3>2 DEF t
    <3>5. \A j \in 1..Len(t) : j > 1 => t[j] = t[j - 1] + 1
      <4> TAKE j \in 1..Len(t)
      <4> HAVE j > 1
      <4>1. j - 1 \in 1..Len(t) /\ j + 1 \in 1..Len(p.history) /\ j + 1 > 1 /\ (j + 1) - 1 = (j - 1) + 1
        BY <2>1, <3>4
      <4> QED BY <3>4, <4>1 DEF Knows
    <3>6. p.live /\ t # << >> => t[Len(t)] = Len(h) - 1
      <4> SUFFICES ASSUME p.live, t # << >> PROVE t[Len(t)] = Len(h) - 1
        OBVIOUS
      <4>1. Len(t) \in 1..Len(t) /\ Len(t) + 1 = Len(p.history)
        BY <2>1, <3>4, EmptySeq
      <4> QED BY <3>1, <3>4, <4>1 DEF Knows
    <3> QED BY <2>1, <2>2, <3>3, <3>4, <3>5, <3>6
  <2>3. CASE Len(p.history) # ProbeHistory
    BY <2>1, <2>3 DEF Knows
  <2> QED BY <2>2, <2>3
<1> HIDE DEF kept
<1>6. CASE p.target \in Living(g)
  <2> DEFINE a == Append(kept, Len(h))
  <2>1. /\ a \in Seq(Nat) /\ Len(a) = Len(kept) + 1 /\ a[Len(kept) + 1] = Len(h)
        /\ \A j \in 1..Len(kept) : a[j] = kept[j]
    BY <1>1, <1>5
  <2> HIDE DEF a
  <2>2. \A j \in 1..Len(a) : j > 1 => a[j] = a[j - 1] + 1
    <3> TAKE j \in 1..Len(a)
    <3> HAVE j > 1
    <3>1. CASE j = Len(kept) + 1
      <4>1. j - 1 = Len(kept) /\ Len(kept) \in 1..Len(kept) /\ kept # << >>
        BY <1>5, <3>1
      <4>2. kept[Len(kept)] = Len(h) - 1
        BY <1>4, <1>5, <1>6, <4>1
      <4>3. a[j] = Len(h) /\ a[j - 1] = kept[Len(kept)]
        BY <2>1, <3>1, <4>1
      <4> QED BY <1>1, <4>2, <4>3
    <3>2. CASE j # Len(kept) + 1
      <4>1. j \in 1..Len(kept) /\ j - 1 \in 1..Len(kept)
        BY <1>5, <2>1, <3>2
      <4> QED BY <1>5, <2>1, <4>1
    <3> QED BY <3>1, <3>2
  <2>3. a[Len(a)] = Len(g) - 1
    BY <1>1, <1>5, <2>1
  <2>4. /\ q = [f \in ProbeFields |-> q[f]] /\ q.live = TRUE /\ q.id = p.id
        /\ q.target = p.target /\ q.history = a
    BY DEF Knows, ProbeFields, a
  <2> HIDE DEF q
  <2>5. Knows(q, g)
    BY <1>3, <1>5, <1>6, <2>1, <2>2, <2>3, <2>4 DEF Knows
  <2> QED BY <1>6, <2>5 DEF q, g, kept
<1>7. CASE p.target \notin Living(g)
  <2>1. /\ dead = [f \in ProbeFields |-> dead[f]] /\ dead.live = FALSE /\ dead.id = p.id
        /\ dead.target = p.target /\ dead.history = p.history
    BY DEF Knows, ProbeFields
  <2> HIDE DEF dead
  <2>2. Knows(dead, g)
    BY <1>3, <1>7, <2>1 DEF Knows
  <2> QED BY <1>7, <2>2 DEF dead, g, kept
<1> QED BY <1>6, <1>7

\* After a step every probe has the sample of it, or its target is gone.
LEMMA RackRecorded ==
  ASSUME NEW h, NEW batch, Batched(h), Len(batch.commands) \in Nat,
         NEW s, NEW next, Rack(s.probes, h, next)
  PROVE  Rack(record_step(s, Len(h), Living(Append(h, batch))), Append(h, batch), next)
<1> DEFINE g == Append(h, batch)
           r == record_step(s, Len(h), Living(g))
           kept(p) == IF Len(p.history) = ProbeHistory THEN Tail(p.history) ELSE p.history
           new(p) == IF p.target \in Living(g)
                     THEN [p EXCEPT !.history = Append(kept(p), Len(h)), !.live = TRUE]
                     ELSE [p EXCEPT !.live = FALSE]
<1>1. /\ IsList(s.probes) /\ Len(s.probes) \in Nat /\ DOMAIN s.probes = 1..Len(s.probes)
      /\ next \in Nat
  BY DEF Rack, IsList
<1>2. r = [i \in 1..Len(s.probes) |-> new(s.probes[i])]
  BY <1>1 DEF record_step
<1>3. ASSUME NEW i \in 1..Len(s.probes)
      PROVE  /\ Knows(new(s.probes[i]), g)
             /\ new(s.probes[i]).id = s.probes[i].id /\ new(s.probes[i]).target = s.probes[i].target
  <2>1. Knows(s.probes[i], h)
    BY DEF Rack
  <2>2. Knows(new(s.probes[i]), g)
    BY <2>1, ProbeRecorded
  <2>3. s.probes[i] = [f \in ProbeFields |-> s.probes[i][f]]
    BY <2>1 DEF Knows
  <2> HIDE DEF g, kept
  <2>4. new(s.probes[i]).id = s.probes[i].id /\ new(s.probes[i]).target = s.probes[i].target
    BY <2>3 DEF ProbeFields
  <2> QED BY <2>2, <2>4
<1>4. Len(r) = Len(s.probes) /\ IsList(r)
  <2> HIDE DEF r, new
  <2> DEFINE S == {new(s.probes[i]) : i \in 1..Len(s.probes)}
  <2>1. r \in [1..Len(s.probes) -> S]
    BY <1>2
  <2> HIDE DEF S
  <2>2. r \in Seq(S) /\ Len(r) = Len(s.probes)
    BY <1>1, <2>1
  <2> QED BY <1>1, <2>1, <2>2 DEF IsList
<1>6. \A i \in 1..Len(r) :
         /\ Knows(r[i], g)
         /\ r[i].id = s.probes[i].id /\ r[i].target = s.probes[i].target
  BY <1>2, <1>3, <1>4
<1> HIDE DEF g, r, new
<1>7. Rack(r, g, next)
  BY <1>1, <1>4, <1>6 DEF Rack
<1> QED BY <1>7 DEF r, g

-----------------------------------------------------------------------------
(* The session.                                                            *)

\* Entries picked from a list are a list.
LEMMA PickedIsList ==
  ASSUME NEW list, NEW ticks, NEW k \in Nat
  PROVE  IsList(Picked(list, ticks, k))
<1> DEFINE Fails == {n \in Nat : ~IsList(Picked(list, ticks, n))}
<1>1. SUFFICES ASSUME Fails # {} PROVE FALSE
  OBVIOUS
<1>2. PICK m \in Fails : \A j \in Fails : m <= j
  <2>1. Fails \in SUBSET Nat
    OBVIOUS
  <2> HIDE DEF Fails
  <2> QED BY <1>1, <2>1, LeastOfNats
<1>3. m # 0
  <2>1. IsList(<< >>)
    BY DEF IsList
  <2> QED BY <1>2, <2>1, PickedBySteps
<1>4. m - 1 \in Nat /\ m = (m - 1) + 1 /\ ~(m <= m - 1)
  BY <1>2, <1>3
<1>5. IsList(Picked(list, ticks, m - 1))
  BY <1>2, <1>4
<1>6. Picked(list, ticks, (m - 1) + 1) = Pick(Picked(list, ticks, m - 1), list[(m - 1) + 1], ticks)
  BY <1>4, PickedBySteps
<1>7. IsList(Picked(list, ticks, m))
  <2>1. IsList(Append(Picked(list, ticks, m - 1), list[(m - 1) + 1]))
    BY <1>5, Appended
  <2> QED BY <1>4, <1>5, <1>6, <2>1 DEF Pick
<1> QED BY <1>2, <1>7

\* A list is a sequence of what is in it,
LEMMA ListIsSeq ==
  ASSUME NEW q, IsList(q)
  PROVE  q \in Seq({q[i] : i \in 1..Len(q)}) /\ DOMAIN q = 1..Len(q) /\ Len(q) \in Nat
<1> DEFINE S == {q[i] : i \in 1..Len(q)}
<1>1. Len(q) \in Nat /\ q \in [1..Len(q) -> S]
  BY DEF IsList
<1>2. q \in Seq(S)
  BY <1>1
<1>3. DOMAIN q = 1..Len(q)
  BY DEF IsList
<1> QED BY <1>1, <1>2, <1>3

\* and a sequence is a list.
LEMMA SeqIsList ==
  ASSUME NEW S, NEW q \in Seq(S)
  PROVE  IsList(q)
<1>1. Len(q) \in Nat /\ q \in [1..Len(q) -> S]
  BY LenProperties
<1> QED BY <1>1 DEF IsList

\* Lists of one length with the same entries are the same.
LEMMA SameList ==
  ASSUME NEW p, IsList(p), NEW q, IsList(q), Len(p) = Len(q),
         \A i \in 1..Len(p) : p[i] = q[i]
  PROVE  p = q
<1>1. p = [i \in 1..Len(p) |-> p[i]] /\ q = [i \in 1..Len(p) |-> q[i]]
  BY DEF IsList
<1>2. [i \in 1..Len(p) |-> p[i]] = [i \in 1..Len(p) |-> q[i]]
  OBVIOUS
<1> QED BY <1>1, <1>2

\* A part of a list.
LEMMA PartOfList ==
  ASSUME NEW q, IsList(q), NEW m \in Int, NEW n \in Int, 1 <= m, n <= Len(q)
  PROVE  /\ IsList(SubSeq(q, m, n))
         /\ Len(SubSeq(q, m, n)) = IF m <= n THEN n - m + 1 ELSE 0
         /\ \A i \in 1..Len(SubSeq(q, m, n)) : SubSeq(q, m, n)[i] = q[m + i - 1]
<1> DEFINE S == {q[i] : i \in 1..Len(q)}
<1>1. \A i \in m..n : q[i] \in S
  BY DEF IsList
<1> HIDE DEF S
<1>2. /\ SubSeq(q, m, n) \in Seq(S)
      /\ Len(SubSeq(q, m, n)) = IF m <= n THEN n - m + 1 ELSE 0
      /\ \A i \in 1 .. n - m + 1 : SubSeq(q, m, n)[i] = q[m + i - 1]
  BY <1>1, SubSeqProperties
<1>3. IsList(SubSeq(q, m, n))
  BY <1>2, SeqIsList
<1>4. \A i \in 1..Len(SubSeq(q, m, n)) : i \in 1 .. n - m + 1
  BY <1>2
<1> QED BY <1>2, <1>3, <1>4

\* A command put into a list that is being sorted.
Placed(q, x) == Inserted(q, x, Earlier)

\* What is sorted in gives a list, and goes to the end of one it does not come before.
LEMMA PlacedIsList ==
  ASSUME NEW q, IsList(q), NEW x
  PROVE  /\ IsList(Placed(q, x))
         /\ (\A i \in 1..Len(q) : ~Earlier(x, q[i])) => Placed(q, x) = Append(q, x)
<1> DEFINE S == {q[i] : i \in 1..Len(q)} \cup {x}
           Behind == {i \in DOMAIN q : ~Earlier(x, q[i])}
           ahead == Cardinality(Behind)
           front == SubSeq(q, 1, ahead)
           rest == SubSeq(q, ahead + 1, Len(q))
<1>1. Len(q) \in Nat /\ DOMAIN q = 1..Len(q) /\ x \in S /\ \A i \in 1..Len(q) : q[i] \in S
  BY DEF IsList
<1>2. IsFiniteSet(1..Len(q)) /\ Cardinality(1..Len(q)) = Len(q)
  <2>1. 1 \in Int /\ Len(q) \in Int /\ Len(q) - 1 + 1 = Len(q)
    BY <1>1
  <2>2. 1 > Len(q) => Len(q) = 0
    BY <1>1
  <2> QED BY <2>1, <2>2, FS_Interval
<1>3. ahead \in 0..Len(q)
  <2>1. Behind \subseteq 1..Len(q)
    BY <1>1
  <2>2. IsFiniteSet(Behind) /\ ahead <= Len(q)
    BY <1>2, <2>1, FS_Subset
  <2> HIDE DEF Behind
  <2>3. ahead \in Nat
    BY <2>2, FS_CardinalityType
  <2> QED BY <1>1, <2>2, <2>3
<1>4. Placed(q, x) = front \o <<x>> \o rest
  BY DEF Placed, Inserted
<1>5. (\A i \in 1..Len(q) : ~Earlier(x, q[i])) => ahead = Len(q)
  <2> SUFFICES ASSUME \A i \in 1..Len(q) : ~Earlier(x, q[i]) PROVE ahead = Len(q)
    OBVIOUS
  <2>1. Behind = 1..Len(q)
    BY <1>1
  <2> HIDE DEF Behind
  <2> QED BY <1>2, <2>1
<1> HIDE DEF S, ahead
<1>6. front \in Seq(S) /\ rest \in Seq(S)
  <2>1. \A i \in 1..ahead : q[i] \in S
    BY <1>1, <1>3
  <2>2. \A i \in (ahead + 1)..Len(q) : q[i] \in S
    BY <1>1, <1>3
  <2>3. ahead \in Int /\ ahead + 1 \in Int /\ Len(q) \in Int /\ 1 \in Int
    BY <1>1, <1>3
  <2> QED BY <2>1, <2>2, <2>3, SubSeqProperties
<1> HIDE DEF front, rest
<1>7. <<x>> \in Seq(S)
  BY <1>1
<1>8. front \o <<x>> \in Seq(S)
  BY <1>6, <1>7, ConcatProperties
<1>9. front \o <<x>> \o rest \in Seq(S)
  BY <1>6, <1>8, ConcatProperties
<1>10. IsList(Placed(q, x))
  BY <1>4, <1>9, SeqIsList
<1>11. ahead = Len(q) => Placed(q, x) = Append(q, x)
  <2> SUFFICES ASSUME ahead = Len(q) PROVE Placed(q, x) = Append(q, x)
    OBVIOUS
  <2>1. front = q
    <3>1. /\ IsList(front) /\ Len(front) = (IF 1 <= Len(q) THEN Len(q) - 1 + 1 ELSE 0)
          /\ \A i \in 1..Len(front) : front[i] = q[1 + i - 1]
      <4>1. 1 \in Int /\ Len(q) \in Int /\ 1 <= 1 /\ Len(q) <= Len(q) /\ front = SubSeq(q, 1, Len(q))
        BY <1>1 DEF front
      <4> QED BY <4>1, PartOfList
    <3>2. Len(front) = Len(q)
      BY <1>1, <3>1
    <3>3. \A i \in 1..Len(front) : front[i] = q[i]
      <4> SUFFICES ASSUME NEW i \in 1..Len(front) PROVE front[i] = q[i]
        OBVIOUS
      <4>1. 1 + i - 1 = i
        BY <1>1, <3>2
      <4> QED BY <3>1, <4>1
    <3> QED BY <3>1, <3>2, <3>3, SameList
  <2>2. rest = << >>
    <3>1. /\ IsList(rest) /\ Len(rest) = (IF Len(q) + 1 <= Len(q) THEN Len(q) - (Len(q) + 1) + 1 ELSE 0)
      <4>1. /\ Len(q) + 1 \in Int /\ Len(q) \in Int /\ 1 <= Len(q) + 1 /\ Len(q) <= Len(q)
            /\ rest = SubSeq(q, Len(q) + 1, Len(q))
        BY <1>1 DEF rest
      <4> QED BY <4>1, PartOfList
    <3>2. Len(rest) = 0
      BY <1>1, <3>1
    <3>3. rest = [i \in 1..0 |-> rest[i]]
      BY <3>1, <3>2 DEF IsList
    <3> QED BY <3>3
  <2>3. q \in Seq(S)
    BY <1>6, <2>1
  <2>4. q \o <<x>> = Append(q, x)
    BY <1>1, <2>3
  <2>5. Append(q, x) \o << >> = Append(q, x)
    BY <1>1, <2>3
  <2> QED BY <1>4, <2>1, <2>2, <2>4, <2>5
<1> QED BY <1>5, <1>10, <1>11

\* What has been sorted so far is a list.
LEMMA SortedIsList ==
  ASSUME NEW list, NEW k \in Nat
  PROVE  IsList(Sorted(list, Earlier, k))
<1> DEFINE R(n) == Sorted(list, Earlier, n)
           Fails == {n \in Nat : ~IsList(R(n))}
<1>1. R(0) = << >>
  BY SortedBySteps
<1>2. ASSUME NEW n \in Nat PROVE R(n + 1) = Placed(R(n), list[n + 1])
  BY SortedBySteps DEF Placed
<1> HIDE DEF R
<1>3. SUFFICES ASSUME Fails # {} PROVE FALSE
  BY DEF R
<1>4. PICK m \in Fails : \A j \in Fails : m <= j
  <2>1. Fails \in SUBSET Nat
    OBVIOUS
  <2> HIDE DEF Fails
  <2> QED BY <1>3, <2>1, LeastOfNats
<1>5. m # 0
  <2>1. IsList(<< >>)
    BY DEF IsList
  <2> QED BY <1>1, <1>4, <2>1
<1>6. m - 1 \in Nat /\ m = (m - 1) + 1 /\ ~(m <= m - 1)
  BY <1>4, <1>5
<1>7. IsList(R(m - 1))
  BY <1>4, <1>6
<1>8. R((m - 1) + 1) = Placed(R(m - 1), list[(m - 1) + 1])
  BY <1>2, <1>6
<1>9. IsList(R(m))
  BY <1>6, <1>7, <1>8, PlacedIsList
<1> QED BY <1>4, <1>9

Session(s) ==
    /\ s = [f \in Fields |-> s[f]]
    /\ s.mode \in {"Paused", "Running"} /\ s.rate \in Rates
    /\ s.credit \in Nat /\ s.single \in BOOLEAN
    /\ IsList(s.pending) /\ Batched(s.history)
    /\ Rack(s.probes, s.history, s.next_probe)
    /\ s.view # 0 => s.view \in Living(s.history)

\* A session all of whose parts are cleared.
Cleared(s) ==
    /\ s = [f \in Fields |-> s[f]]
    /\ s.mode = "Paused" /\ s.rate = 4 /\ s.credit = 0 /\ s.single = FALSE
    /\ s.next_ordinal = 0 /\ s.pending = << >> /\ s.log = << >>
    /\ s.next_probe = 0 /\ s.probes = << >>
    /\ s.history = Fresh /\ s.trace = <<Fresh>>
    /\ s.view = 0 /\ s.selection = 0 /\ s.fault = "none"

\* A cleared session is one.
LEMMA ClearedIsSession ==
  ASSUME NEW s, Cleared(s)
  PROVE  Session(s)
<1>1. IsList(<< >>) /\ Batched(<< >>)
  BY DEF IsList, Batched
<1>2. Rack(<< >>, << >>, 0)
  BY RackEmpty
<1>3. s.history = << >> /\ s.pending = << >> /\ s.probes = << >> /\ s.next_probe = 0
  BY DEF Cleared, Fresh
<1>4. Rack(s.probes, s.history, s.next_probe) /\ IsList(s.pending) /\ Batched(s.history)
  BY <1>1, <1>2, <1>3, Zenon
<1>5. /\ s = [f \in Fields |-> s[f]] /\ s.mode = "Paused" /\ s.rate = 4 /\ s.credit = 0
      /\ s.single = FALSE /\ s.view = 0
  BY DEF Cleared
<1>6. s.mode \in {"Paused", "Running"} /\ s.rate \in Rates /\ s.credit \in Nat
  BY <1>5 DEF Rates
<1>7. s.single \in BOOLEAN
  BY <1>5, Zenon
<1> QED BY <1>4, <1>5, <1>6, <1>7, Zenon DEF Session

\* A new session is cleared.
LEMMA NewSessionIsCleared == Cleared(NewSession)
<1>1. NewSession = [f \in Fields |-> NewSession[f]]
  BY DEF NewSession, Fields
<1> QED BY <1>1 DEF Cleared, NewSession

\* A reset leaves what a new session has, but for its number.
LEMMA ResetClears ==
  ASSUME NEW s, s = [f \in Fields |-> s[f]],
         ~(playback /\ ~ValidAgainst(replay[1], Fresh))
  PROVE  Cleared(reset(s)) /\ reset(s).id = s.id + 1
<1>1. reset(s) = [f \in Fields |-> reset(s)[f]]
  BY DEF reset
<1> QED BY <1>1 DEF Cleared, reset, Fields

\* A session that is reset is a new one with the next number.
LEMMA ResetIsNew ==
  ASSUME NEW s, s = [f \in Fields |-> s[f]],
         ~(playback /\ ~ValidAgainst(replay[1], Fresh))
  PROVE  reset(s) = [NewSession EXCEPT !.id = s.id + 1]
<1> DEFINE t == reset(s)
           n == [NewSession EXCEPT !.id = s.id + 1]
<1>1. Cleared(t) /\ t.id = s.id + 1
  BY ResetClears
<1>2. Cleared(n) /\ n.id = s.id + 1
  <2>1. n = [f \in Fields |-> n[f]]
    BY DEF NewSession, Fields
  <2> QED BY <2>1 DEF Cleared, NewSession
<1> HIDE DEF t, n
<1>3. \A f \in Fields : t[f] = n[f]
  <2>1. /\ t.mode = n.mode /\ t.rate = n.rate /\ t.credit = n.credit /\ t.single = n.single
        /\ t.next_ordinal = n.next_ordinal /\ t.pending = n.pending /\ t.log = n.log
        /\ t.next_probe = n.next_probe /\ t.probes = n.probes
        /\ t.history = n.history /\ t.trace = n.trace
        /\ t.view = n.view /\ t.selection = n.selection /\ t.fault = n.fault /\ t.id = n.id
    BY <1>1, <1>2, Zenon DEF Cleared
  <2> QED BY <2>1 DEF Fields
<1>4. t = n
  BY <1>1, <1>2, <1>3 DEF Cleared
<1> QED BY <1>4 DEF t, n

\* A change of mode changes nothing else.
LEMMA ModeSet ==
  ASSUME NEW s, Session(s), NEW mode \in {"Paused", "Running"}
  PROVE  Session(set_mode(s, mode))
<1> DEFINE t == set_mode(s, mode)
<1>1. /\ t = [f \in Fields |-> t[f]] /\ t.mode \in {"Paused", "Running"}
      /\ \A f \in Fields \ {"mode"} : t[f] = s[f]
  BY DEF set_mode, Session, Fields
<1> HIDE DEF t
<1>2. Session(t)
  BY <1>1 DEF Session, Fields
<1> QED BY <1>2 DEF t

\* No action of the host takes a session out of the invariant.
LEMMA ActionApplied ==
  ASSUME NEW s, Session(s), NEW a \in Offered
  PROVE  Session(apply_host_action(s, a))
<1>0. s = [f \in Fields |-> s[f]]
  BY DEF Session
<1>1. CASE a.kind = "Pause"
  <2>1. apply_host_action(s, a) = set_mode(s, "Paused")
    BY <1>1 DEF apply_host_action
  <2> QED BY <2>1, ModeSet
<1>2. CASE a.kind = "Resume"
  <2>1. apply_host_action(s, a) \in {s, set_mode(s, "Running")}
    BY <1>2 DEF apply_host_action
  <2> QED BY <2>1, ModeSet
<1>3. CASE a.kind = "SetRate"
  <2> DEFINE t == [s EXCEPT !.rate = a.arg]
  <2>1. apply_host_action(s, a) = t
    BY <1>3 DEF apply_host_action
  <2>2. /\ t = [f \in Fields |-> t[f]] /\ t.rate = a.arg
        /\ \A f \in Fields \ {"rate"} : t[f] = s[f]
    BY <1>0 DEF Fields
  <2>3. a.arg \in Rates
    BY <1>3, LaboratoryAssumption DEF Rates
  <2> HIDE DEF t
  <2> QED BY <2>1, <2>2, <2>3 DEF Session, Fields
<1>4. CASE a.kind = "SingleStep"
  <2> DEFINE t == [s EXCEPT !.single = TRUE]
  <2>1. apply_host_action(s, a) \in {s, t}
    BY <1>4 DEF apply_host_action, request_single_step
  <2>2. /\ t = [f \in Fields |-> t[f]] /\ t.single = TRUE
        /\ \A f \in Fields \ {"single"} : t[f] = s[f]
    BY <1>0 DEF Fields
  <2> HIDE DEF t
  <2>3. Session(t)
    BY <2>2 DEF Session, Fields
  <2> QED BY <2>1, <2>3
<1>5. CASE a.kind = "Reset"
  <2>1. apply_host_action(s, a) = reset(s)
    BY <1>5 DEF apply_host_action
  <2>2. CASE playback /\ ~ValidAgainst(replay[1], Fresh)
    BY <2>1, <2>2 DEF reset
  <2>3. CASE ~(playback /\ ~ValidAgainst(replay[1], Fresh))
    BY <1>0, <2>1, <2>3, ResetClears, ClearedIsSession
  <2> QED BY <2>2, <2>3
<1>6. CASE a.kind = "QueueEdit"
  <2> DEFINE envelope == [target_tick |-> next_tick(s), ordinal |-> s.next_ordinal, command |-> a.arg]
             t == [s EXCEPT !.next_ordinal = @ + 1, !.pending = Append(@, envelope),
                            !.log = Append(@, envelope)]
  <2>1. apply_host_action(s, a) \in {s, t}
    BY <1>6 DEF apply_host_action, queue_edit
  <2>2. /\ t = [f \in Fields |-> t[f]] /\ t.pending = Append(s.pending, envelope)
        /\ \A f \in Fields \ {"next_ordinal", "pending", "log"} : t[f] = s[f]
    BY <1>0 DEF Fields
  <2>3. IsList(Append(s.pending, envelope))
    BY Appended DEF Session
  <2> HIDE DEF t, envelope
  <2>4. Session(t)
    BY <2>2, <2>3 DEF Session, Fields
  <2> QED BY <2>1, <2>4
<1>7. CASE a.kind = "SetView"
  <2> DEFINE t == [s EXCEPT !.view = a.arg]
  <2>1. apply_host_action(s, a) = IF a.arg = 0 \/ a.arg \in Living(s.history) THEN t ELSE s
    BY <1>7 DEF apply_host_action, set_view
  <2>2. /\ t = [f \in Fields |-> t[f]] /\ t.view = a.arg
        /\ \A f \in Fields \ {"view"} : t[f] = s[f]
    BY <1>0 DEF Fields
  <2> HIDE DEF t
  <2>3. a.arg = 0 \/ a.arg \in Living(s.history) => Session(t)
    BY <2>2 DEF Session, Fields
  <2> QED BY <2>1, <2>3
<1>8. CASE a.kind = "Select"
  <2> DEFINE t == [s EXCEPT !.selection = a.arg]
  <2>1. apply_host_action(s, a) = t
    BY <1>8 DEF apply_host_action
  <2>2. t = [f \in Fields |-> t[f]] /\ \A f \in Fields \ {"selection"} : t[f] = s[f]
    BY <1>0 DEF Fields
  <2> HIDE DEF t
  <2> QED BY <2>1, <2>2 DEF Session, Fields
<1>9. CASE a.kind = "AddProbe"
  <2> DEFINE p == [id |-> s.next_probe, target |-> a.arg, history |-> << >>, live |-> TRUE]
             t == [s EXCEPT !.next_probe = @ + 1, !.probes = Append(@, p)]
             Refuses == \/ a.arg \notin Living(s.history)
                        \/ \E i \in DOMAIN s.probes : s.probes[i].target = a.arg
                        \/ Len(s.probes) = MaxProbes
  <2>1. apply_host_action(s, a) = IF Refuses THEN s ELSE t
    BY <1>9 DEF apply_host_action, add_probe
  <2>2. /\ t = [f \in Fields |-> t[f]]
        /\ t.probes = Append(s.probes, p) /\ t.next_probe = s.next_probe + 1
        /\ \A f \in Fields \ {"next_probe", "probes"} : t[f] = s[f]
    BY <1>0 DEF Fields
  <2>3. ~Refuses => Rack(Append(s.probes, p), s.history, s.next_probe + 1)
    BY ProbeAdded DEF Session
  <2> HIDE DEF t, p, Refuses
  <2>4. ~Refuses => Session(t)
    BY <2>2, <2>3 DEF Session, Fields
  <2> QED BY <2>1, <2>4
<1>10. CASE a.kind = "RemoveProbe"
  <2> DEFINE found == {i \in DOMAIN s.probes : s.probes[i].target = a.arg}
             t == [s EXCEPT !.probes = RemoveAt(@, Min(found))]
  <2>1. apply_host_action(s, a) = IF found = {} THEN s ELSE t
    BY <1>10 DEF apply_host_action, remove_probe_target
  <2>2. /\ t = [f \in Fields |-> t[f]] /\ t.probes = RemoveAt(s.probes, Min(found))
        /\ \A f \in Fields \ {"probes"} : t[f] = s[f]
    BY <1>0 DEF Fields
  <2>3. found # {} => Min(found) \in 1..Len(s.probes)
    <3>1. found \in SUBSET Nat /\ found \subseteq 1..Len(s.probes)
      BY DEF Session, Rack, IsList
    <3> HIDE DEF found
    <3>2. found # {} => \E m \in found : \A n \in found : m <= n
      BY <3>1, LeastOfNats
    <3>3. found # {} => Min(found) \in found
      BY <3>2 DEF Min
    <3> QED BY <3>1, <3>3
  <2>4. found # {} => Rack(RemoveAt(s.probes, Min(found)), s.history, s.next_probe)
    BY <2>3, ProbeRemoved DEF Session
  <2> HIDE DEF t, found
  <2>5. found # {} => Session(t)
    BY <2>2, <2>4 DEF Session, Fields
  <2> QED BY <2>1, <2>5
<1> QED
  BY <1>1, <1>2, <1>3, <1>4, <1>5, <1>6, <1>7, <1>8, <1>9, <1>10, LaboratoryAssumption

-----------------------------------------------------------------------------
(* Ticks and frames.                                                       *)

\* The replay of a playback is a list of commands by tick.
Playing == replay = << >> \/ \E r \in Replays : replay = <<r>> /\ ValidAgainst(r, Fresh)

\* What is due at a tick, and what is not, are lists.
LEMMA DueIsList ==
  ASSUME Playing, NEW s, Session(s)
  PROVE  /\ IsList(edits_for_tick(s)) /\ IsList(edits_after_tick(s))
         /\ playback => IsList(commands_for_tick(replay[1], next_tick(s)))
<1>1. Len(s.pending) \in Nat
  BY DEF Session, IsList
<1>2. playback => Len(replay[1].commands) \in Nat
  BY ReplaysAssumption DEF Playing, playback
<1>3. IsList(edits_for_tick(s))
  <2> DEFINE due == Picked(s.pending, {next_tick(s)}, Len(s.pending))
  <2>1. Len(due) \in Nat
    BY <1>1, PickedIsList DEF IsList
  <2>2. edits_for_tick(s) = Sorted(due, Earlier, Len(due))
    BY DEF edits_for_tick
  <2> HIDE DEF due
  <2> QED BY <2>1, <2>2, SortedIsList
<1> QED BY <1>1, <1>2, <1>3, PickedIsList DEF edits_after_tick, commands_for_tick

\* A step that happens adds its batch to the history; another leaves it alone.
LEMMA StepAppends ==
  ASSUME NEW h, NEW commands, NEW inputs
  PROVE  LET step == StepWith(h, commands, inputs) IN
         /\ step.answer \in {"RunEnded", "Failed", "Stepped"}
         /\ step.history = IF step.answer = "Stepped"
                           THEN Append(h, [commands |-> commands, inputs |-> inputs]) ELSE h
  BY DEF StepWith

\* Probes and view follow a step that happened.
LEMMA ObservedSession ==
  ASSUME Playing, NEW s, Session(s), NEW batch, IsList(batch.commands)
  PROVE  Session(Observed(s, Append(s.history, batch)))
<1> DEFINE g == Append(s.history, batch)
           t == [s EXCEPT !.history = g, !.trace = Append(@, g),
                          !.pending = IF playback THEN @ ELSE edits_after_tick(s),
                          !.probes = record_step(s, next_tick(s), Living(g))]
           u == [t EXCEPT !.view = 0, !.selection = 0]
<1>1. Observed(s, g) = IF t.view = 0 \/ t.view \in Living(g) THEN t ELSE u
  BY DEF Observed, normalize_view
<1>2. /\ t = [f \in Fields |-> t[f]]
      /\ t.history = g /\ t.pending = (IF playback THEN s.pending ELSE edits_after_tick(s))
      /\ t.probes = record_step(s, next_tick(s), Living(g))
      /\ \A f \in Fields \ {"history", "trace", "pending", "probes"} : t[f] = s[f]
  BY DEF Session, Fields
<1>3. IsList(t.pending)
  <2>1. IsList(s.pending) /\ IsList(edits_after_tick(s))
    BY DueIsList DEF Session
  <2> HIDE DEF t
  <2> QED BY <1>2, <2>1
<1>4. Len(batch.commands) \in Nat /\ Batched(s.history)
  BY DEF IsList, Session
<1>5. Batched(g)
  BY <1>4, BoardGrows
<1>6. Rack(t.probes, g, s.next_probe)
  <2>1. Rack(s.probes, s.history, s.next_probe)
    BY DEF Session
  <2>2. Rack(record_step(s, Len(s.history), Living(g)), g, s.next_probe)
    BY <1>4, <2>1, RackRecorded
  <2> HIDE DEF t
  <2> QED BY <1>2, <2>2 DEF next_tick
<1>7. /\ u = [f \in Fields |-> u[f]] /\ u.view = 0
      /\ \A f \in Fields \ {"view", "selection"} : u[f] = t[f]
  <2> HIDE DEF t
  <2> QED BY <1>2 DEF Fields
<1> HIDE DEF t, u, g
<1>8. t.view = 0 \/ t.view \in Living(g) => Session(t)
  BY <1>2, <1>3, <1>5, <1>6 DEF Session, Fields
<1>9. Session(u)
  BY <1>2, <1>3, <1>5, <1>6, <1>7 DEF Session, Fields
<1> QED BY <1>1, <1>8, <1>9 DEF g

\* A fault pauses the session and changes nothing else.
LEMMA FaultEntered ==
  ASSUME NEW s, Session(s), NEW fault
  PROVE  Session(enter_fault(s, fault))
<1> DEFINE t == enter_fault(s, fault)
<1>1. /\ t = [f \in Fields |-> t[f]] /\ t.mode = "Paused"
      /\ \A f \in Fields \ {"mode", "fault"} : t[f] = s[f]
  BY DEF enter_fault, Session, Fields
<1> HIDE DEF t
<1>2. Session(t)
  BY <1>1 DEF Session, Fields
<1> QED BY <1>2 DEF t

\* The invariant through a step of the simulation, whatever it answers.
LEMMA StepSession ==
  ASSUME Playing, NEW s, Session(s)
  PROVE  Session(step_once(s))
<1> DEFINE tick == next_tick(s)
           commands == IF playback THEN commands_for_tick(replay[1], tick) ELSE edits_for_tick(s)
           inputs == IF playback THEN world_inputs_for_tick(replay[1], tick) ELSE << >>
           step == StepWith(s.history, commands, inputs)
           batch == [commands |-> commands, inputs |-> inputs]
<1>1. step_once(s) = IF step.answer = "Stepped" THEN Verified(Observed(s, step.history))
                     ELSE IF /\ playback /\ step.answer = "RunEnded"
                             /\ ~TerminalBoundaryHolds(replay[1], tick) THEN enter_fault(s, "EndedEarly")
                     ELSE enter_fault(s, step.answer)
  BY DEF step_once
<1>2. IsList(batch.commands)
  BY DueIsList
<1>3. step.answer = "Stepped" => step.history = Append(s.history, batch)
  BY StepAppends
<1> HIDE DEF step, batch, commands, inputs, tick
<1>4. step.answer = "Stepped" => Session(Observed(s, step.history))
  BY <1>2, <1>3, ObservedSession
<1>5. ASSUME NEW t, Session(t) PROVE Session(Verified(t))
  <2>1. \/ Verified(t) = t \/ Verified(t) = set_mode(t, "Paused")
        \/ Verified(t) = enter_fault(t, "Diverged") \/ Verified(t) = enter_fault(t, "EndedEarly")
    BY Zenon DEF Verified
  <2> QED BY <1>5, <2>1, ModeSet, FaultEntered
<1> QED BY <1>1, <1>4, <1>5, FaultEntered

\* The invariant through a tick.
LEMMA TickSession ==
  ASSUME Playing, NEW s, Session(s)
  PROVE  Session(one_tick(s))
<1>1. one_tick(s) \in {s, set_mode(s, "Paused"), step_once(s)}
  BY DEF one_tick
<1> QED BY <1>1, ModeSet, StepSession

\* The invariant through any number of ticks.
LEMMA TickedSession ==
  ASSUME Playing, NEW s, Session(s), NEW k \in Nat
  PROVE  Session(Ticked(s, k))
<1> DEFINE Fails == {n \in Nat : ~Session(Ticked(s, n))}
<1>1. SUFFICES ASSUME Fails # {} PROVE FALSE
  OBVIOUS
<1>2. PICK m \in Fails : \A j \in Fails : m <= j
  <2>1. Fails \in SUBSET Nat
    OBVIOUS
  <2> HIDE DEF Fails
  <2> QED BY <1>1, <2>1, LeastOfNats
<1>3. m # 0
  BY <1>2, TickedBySteps
<1>4. m - 1 \in Nat /\ m = (m - 1) + 1 /\ ~(m <= m - 1)
  BY <1>2, <1>3
<1>5. Session(Ticked(s, m - 1))
  BY <1>2, <1>4
<1>6. Ticked(s, (m - 1) + 1) = one_tick(Ticked(s, m - 1))
  BY <1>4, TickedBySteps
<1> QED BY <1>2, <1>4, <1>5, <1>6, TickSession

\* Credit stays a number, and so do the ticks it pays for.
LEMMA ChargedSession ==
  ASSUME NEW s, Session(s), NEW elapsed \in Nat
  PROVE  Session(Charged(s, elapsed)) /\ ticks_due(s, elapsed) \in Nat
<1> DEFINE t == Charged(s, elapsed)
<1>1. Earned(s, elapsed) \in Nat
  BY DEF Earned, Session, Rates
<1>2. Earned(s, elapsed) % TickCredit \in Nat /\ Earned(s, elapsed) \div TickCredit \in Nat
  BY <1>1, LaboratoryAssumption
<1>3. /\ t = [f \in Fields |-> t[f]] /\ t.single = FALSE
      /\ t.credit = (IF s.mode = "Paused" THEN s.credit ELSE Earned(s, elapsed) % TickCredit)
      /\ \A f \in Fields \ {"single", "credit"} : t[f] = s[f]
  BY DEF Charged, Session, Fields
<1> HIDE DEF t
<1>4. t.single \in BOOLEAN
  BY <1>3, Zenon
<1>5. t.credit \in Nat
  BY <1>2, <1>3 DEF Session
<1>6. Session(t)
  BY <1>3, <1>4, <1>5 DEF Session, Fields
<1> QED BY <1>2, <1>6 DEF t, ticks_due

\* The invariant through a frame.
LEMMA FrameSession ==
  ASSUME Playing, NEW s, Session(s), NEW elapsed \in Nat
  PROVE  Session(advance_frame(s, elapsed))
  BY ChargedSession, TickedSession, ModeSet DEF advance_frame

\* The invariant through the whole queue.
LEMMA AppliedSession ==
  ASSUME NEW s, Session(s), NEW queue, NEW k \in Nat, \A i \in 1..k : queue[i] \in Offered
  PROVE  Session(Applied(s, queue, k))
<1> DEFINE Fails == {n \in 0..k : ~Session(Applied(s, queue, n))}
<1>1. SUFFICES ASSUME Fails # {} PROVE FALSE
  OBVIOUS
<1>2. PICK m \in Fails : \A j \in Fails : m <= j
  <2>1. Fails \in SUBSET Nat
    OBVIOUS
  <2> HIDE DEF Fails
  <2> QED BY <1>1, <2>1, LeastOfNats
<1>3. m # 0
  BY <1>2, AppliedBySteps
<1>4. m - 1 \in Nat /\ m - 1 \in 0..k /\ m \in 1..k /\ m = (m - 1) + 1 /\ ~(m <= m - 1)
  BY <1>2, <1>3
<1>5. Session(Applied(s, queue, m - 1)) /\ queue[m] \in Offered
  BY <1>2, <1>4
<1>6. Applied(s, queue, (m - 1) + 1) = apply_host_action(Applied(s, queue, m - 1), queue[(m - 1) + 1])
  BY <1>4, AppliedBySteps
<1> QED BY <1>2, <1>4, <1>5, <1>6, ActionApplied

-----------------------------------------------------------------------------
(* The specification.                                                      *)

LaboratoryInv == Session(lab) /\ actions \in Seq(Offered) /\ Playing

\* The invariant holds at the start.
LEMMA InitInv == ASSUME Init PROVE LaboratoryInv
<1>1. Session(lab)
  BY NewSessionIsCleared, ClearedIsSession DEF Init
<1> QED BY <1>1 DEF Init, LaboratoryInv, Playing

\* And every step of the host keeps it.
LEMMA NextInv == ASSUME LaboratoryInv, [Next]_vars PROVE LaboratoryInv'
<1>1. ASSUME NEW a \in Offered, collect_actions(a) PROVE LaboratoryInv'
  <2>1. actions' \in Seq(Offered) /\ lab' = lab /\ replay' = replay
    BY <1>1 DEF collect_actions, LaboratoryInv
  <2>2. Session(lab)' /\ Playing'
    BY <2>1 DEF LaboratoryInv, Session, Playing
  <2> QED BY <2>1, <2>2 DEF LaboratoryInv
<1>2. ASSUME NEW elapsed \in Elapsed, advance_native_laboratory(elapsed) PROVE LaboratoryInv'
  <2>1. lab' = advance_frame(Drained, elapsed) /\ actions' = << >> /\ replay' = replay
    BY <1>2 DEF advance_native_laboratory
  <2>2. Len(actions) \in Nat /\ \A i \in 1..Len(actions) : actions[i] \in Offered
    BY DEF LaboratoryInv
  <2>3. Session(Drained)
    BY <2>2, AppliedSession DEF Drained, LaboratoryInv
  <2>4. elapsed \in Nat
    BY LaboratoryAssumption
  <2>5. Session(lab')
    BY <2>1, <2>3, <2>4, FrameSession DEF LaboratoryInv
  <2>6. Playing'
    BY <2>1 DEF LaboratoryInv, Playing
  <2> QED BY <2>1, <2>5, <2>6 DEF LaboratoryInv
<1>3. CASE UNCHANGED vars
  BY <1>3 DEF vars, LaboratoryInv, Session, Playing
<1> QED BY <1>1, <1>2, <1>3 DEF Next

(* LaboratorySession and its queue, whatever is queued and however frames  *)
(* fall: the parts of a session stay in step with the history it has       *)
(* simulated.                                                              *)
THEOREM LaboratoryInvariant == Spec => []LaboratoryInv
<1>1. Init => LaboratoryInv
  BY InitInv
<1>2. LaboratoryInv /\ [Next]_vars => LaboratoryInv'
  BY NextInv
<1> QED BY <1>1, <1>2, PTL DEF Spec

(* Probes::record_step and normalize_view: a probe has a sample of each of *)
(* the last ticks its target was there for, and neither a probe nor the    *)
(* view ever claims a substrate that is gone.                              *)
THEOREM LaboratoryViewsFollow == Spec => []ViewsFollow
<1>1. LaboratoryInv => ViewsFollow
  <2> SUFFICES ASSUME LaboratoryInv PROVE ViewsFollow
    OBVIOUS
  <2>1. /\ Rack(lab.probes, lab.history, lab.next_probe)
        /\ lab.view # 0 => lab.view \in Living(lab.history)
    BY DEF LaboratoryInv, Session
  <2>2. DOMAIN lab.probes = 1..Len(lab.probes) /\ Len(lab.probes) \in Nat
    BY <2>1 DEF Rack, IsList
  <2>3. ASSUME NEW i \in 1..Len(lab.probes)
        PROVE  LET p == lab.probes[i] IN
               /\ p.live <=> p.target \in Living(lab.history)
               /\ Len(p.history) <= ProbeHistory
               /\ \A j \in DOMAIN p.history : j > 1 => p.history[j] = p.history[j - 1] + 1
               /\ p.live /\ p.history # << >> => Last(p.history) = next_tick(lab) - 1
    <3>1. Knows(lab.probes[i], lab.history)
      BY <2>1 DEF Rack
    <3>2. DOMAIN lab.probes[i].history = 1..Len(lab.probes[i].history)
      BY <3>1, LenProperties DEF Knows
    <3> QED BY <3>1, <3>2 DEF Knows, Last, next_tick
  <2>4. ASSUME NEW i \in 1..Len(lab.probes), NEW j \in 1..Len(lab.probes), i < j
        PROVE  lab.probes[j].id > lab.probes[i].id /\ lab.probes[j].target # lab.probes[i].target
    BY <2>1, <2>4 DEF Rack, Knows
  <2>5. Len(lab.probes) <= MaxProbes
    BY <2>1 DEF Rack
  <2> QED BY <2>1, <2>2, <2>3, <2>4, <2>5 DEF ViewsFollow
<1> QED BY <1>1, LaboratoryInvariant, PTL

-----------------------------------------------------------------------------
(* Cutting elapsed time into frames.                                       *)

\* Dividing.
LEMMA Division ==
  ASSUME NEW n \in Nat, NEW d \in Nat \ {0}
  PROVE  n \div d \in Nat /\ n % d \in 0..(d - 1) /\ n = d * (n \div d) + (n % d)
<1> DEFINE q == n \div d
           r == n % d
<1>1. q \in Nat /\ r \in 0..d - 1 /\ n = d * q + r
  BY SMT
<1> QED BY <1>1

\* A number has one quotient and one rest.
LEMMA DivisionIsUnique ==
  ASSUME NEW d \in Nat \ {0}, NEW q \in Nat, NEW p \in Nat, NEW r \in 0..(d - 1),
         NEW m \in 0..(d - 1), d * q + r = d * p + m
  PROVE  q = p /\ r = m
<1>1. ASSUME NEW x \in Nat, NEW y \in Nat, x > y PROVE d * x >= d * y + d
  <2>1. d * (x - y) >= d /\ x - y \in Nat
    <3>1. x - y \in Nat /\ x - y >= 1
      BY <1>1
    <3> DEFINE z == x - y
    <3>2. z \in Nat /\ z >= 1 => d * z >= d
      OBVIOUS
    <3> QED BY <3>1, <3>2
  <2>2. d * x = d * y + d * (x - y)
    OBVIOUS
  <2>3. d * x \in Int /\ d * y \in Int /\ d * (x - y) \in Int
    OBVIOUS
  <2> QED BY <2>1, <2>2, <2>3
<1>2. d * q \in Int /\ d * p \in Int
  OBVIOUS
<1>3. ~(q > p) /\ ~(p > q)
  BY <1>1, <1>2
<1>4. q = p
  BY <1>3
<1> QED BY <1>2, <1>4

\* What is left over from one division goes into the next.
LEMMA DivisionInParts ==
  ASSUME NEW d \in Nat \ {0}, NEW x \in Nat, NEW y \in Nat
  PROVE  /\ (x + y) \div d = (x \div d) + ((x % d) + y) \div d
         /\ (x + y) % d = ((x % d) + y) % d
<1> DEFINE z == (x % d) + y
           q1 == x \div d
           q2 == z \div d
           m == z % d
           q == (x + y) \div d
           r == (x + y) % d
<1>1. x = d * q1 + (x % d) /\ q1 \in Nat /\ x % d \in 0..(d - 1)
  BY Division, Zenon
<1>2. z \in Nat
  BY <1>1
<1>3. z = d * q2 + m /\ q2 \in Nat /\ m \in 0..(d - 1)
  <2> HIDE DEF z
  <2> QED BY <1>2, Division, Zenon
<1>4. x + y = d * q + r /\ q \in Nat /\ r \in 0..(d - 1)
  <2>1. x + y \in Nat
    OBVIOUS
  <2> QED BY <2>1, Division, Zenon
<1>5. x + y = d * q1 + z
  BY <1>1
<1> HIDE DEF z, q1, q2, m, q, r
<1>9. x % d \in Nat
  BY <1>1
<1>6. d * (q1 + q2) = d * q1 + d * q2 /\ d * q1 \in Int
      /\ d * q2 \in Int /\ q1 + q2 \in Nat
  BY <1>1, <1>3
<1>7. d * q + r = d * (q1 + q2) + m
  <2> DEFINE a == d * q1
             b == d * q2
  <2>2. a \in Int /\ b \in Int /\ d * (q1 + q2) = a + b
    BY <1>6
  <2>3. d * q + r = a + (b + m)
    BY <1>3, <1>4, <1>5
  <2>4. m \in Int
    BY <1>3
  <2> HIDE DEF a, b
  <2>5. a + (b + m) = (a + b) + m
    BY <2>2, <2>4
  <2> QED BY <2>2, <2>3, <2>5
<1>8. q = q1 + q2 /\ r = m
  BY <1>3, <1>4, <1>6, <1>7, DivisionIsUnique
<1> QED BY <1>8 DEF q, r, q1, q2, m, z

\* Credit is between the pacer and the clock: no tick reads or changes it.
Whole(s) == s = [f \in Fields |-> s[f]]
With(s, c) == [s EXCEPT !.credit = c]

\* Another credit is no other session, as far as the rest of it goes.
LEMMA WithCredit ==
  ASSUME NEW s, Whole(s), NEW c
  PROVE  /\ Whole(With(s, c)) /\ With(s, c).credit = c
         /\ \A f \in Fields \ {"credit"} : With(s, c)[f] = s[f]
         /\ replay_complete(With(s, c)) = replay_complete(s)
  BY DEF Whole, With, Fields, replay_complete, next_tick

\* Nor does the credit matter to a change of mode,
LEMMA ModeCommutes ==
  ASSUME NEW s, Whole(s), NEW c, NEW mode
  PROVE  Whole(set_mode(s, mode)) /\ set_mode(With(s, c), mode) = With(set_mode(s, mode), c)
<1> DEFINE m == IF s.fault # "none" \/ (mode = "Running" /\ replay_complete(s)) THEN "Paused" ELSE mode
<1>1. set_mode(s, mode) = [s EXCEPT !.mode = m]
  BY DEF set_mode
<1>2. set_mode(With(s, c), mode) = [With(s, c) EXCEPT !.mode = m]
  <2>1. With(s, c).fault = s.fault /\ (replay_complete(With(s, c)) = replay_complete(s))
    BY WithCredit DEF Fields
  <2> QED BY <2>1, Zenon DEF set_mode
<1> HIDE DEF m
<1> QED BY <1>1, <1>2 DEF Whole, With, Fields

\* to a fault,
LEMMA FaultCommutes ==
  ASSUME NEW s, Whole(s), NEW c, NEW fault
  PROVE  Whole(enter_fault(s, fault)) /\ enter_fault(With(s, c), fault) = With(enter_fault(s, fault), c)
  BY DEF enter_fault, Whole, With, Fields

\* to what is seen of a step,
LEMMA ObservedCommutes ==
  ASSUME NEW s, Whole(s), NEW c, NEW g
  PROVE  Whole(Observed(s, g)) /\ Observed(With(s, c), g) = With(Observed(s, g), c)
<1> DEFINE w == With(s, c)
           pending == IF playback THEN s.pending ELSE edits_after_tick(s)
           probes == record_step(s, next_tick(s), Living(g))
           t == [s EXCEPT !.history = g, !.trace = Append(@, g), !.pending = pending, !.probes = probes]
           u == [w EXCEPT !.history = g, !.trace = Append(@, g), !.pending = pending, !.probes = probes]
<1>1. /\ w.history = s.history /\ w.pending = s.pending /\ w.probes = s.probes /\ w.trace = s.trace
      /\ w.view = s.view
  BY WithCredit DEF Fields
<1>2. /\ edits_after_tick(w) = edits_after_tick(s) /\ next_tick(w) = next_tick(s)
      /\ record_step(w, next_tick(w), Living(g)) = probes
  BY <1>1 DEF edits_after_tick, next_tick, record_step
<1>3. Observed(s, g) = normalize_view(t, Living(g))
  BY DEF Observed
<1>4. Observed(w, g) = normalize_view(u, Living(g))
  BY <1>1, <1>2 DEF Observed
<1> HIDE DEF pending, probes, w
<1>5. Whole(t) /\ u = With(t, c)
  BY DEF w, Whole, With, Fields
<1> HIDE DEF t, u
<1>6. Whole(normalize_view(t, Living(g))) /\ normalize_view(u, Living(g)) = With(normalize_view(t, Living(g)), c)
  <2>1. u.view = t.view
    BY <1>5, WithCredit DEF Fields
  <2>2. CASE t.view = 0 \/ t.view \in Living(g)
    BY <1>5, <2>1, <2>2 DEF normalize_view
  <2>3. CASE ~(t.view = 0 \/ t.view \in Living(g))
    <3>1. /\ normalize_view(t, Living(g)) = [t EXCEPT !.view = 0, !.selection = 0]
          /\ normalize_view(u, Living(g)) = [u EXCEPT !.view = 0, !.selection = 0]
      BY <2>1, <2>3 DEF normalize_view
    <3> QED BY <1>5, <3>1 DEF Whole, With
  <2> QED BY <2>2, <2>3
<1> QED BY <1>3, <1>4, <1>6 DEF w

\* to what playback checks,
LEMMA VerifiedCommutes ==
  ASSUME NEW s, Whole(s), NEW c
  PROVE  Whole(Verified(s)) /\ Verified(With(s, c)) = With(Verified(s), c)
<1> DEFINE w == With(s, c)
<1>1. /\ w.history = s.history /\ w.trace = s.trace /\ (replay_complete(w) = replay_complete(s))
      /\ next_tick(w) = next_tick(s)
  BY WithCredit DEF Fields, next_tick
<1> DEFINE Diverges == ~CheckpointAgrees(replay[1], s.history)
           Early == RunEnded(s.history) /\ ~TerminalBoundaryHolds(replay[1], next_tick(s))
           Differs == ~TraceVerified(replay[1], s.trace)
<1>2. Verified(s) = IF ~playback THEN s
                    ELSE IF Diverges THEN enter_fault(s, "Diverged")
                    ELSE IF Early THEN enter_fault(s, "EndedEarly")
                    ELSE IF ~replay_complete(s) THEN s
                    ELSE IF Differs THEN enter_fault(s, "Diverged") ELSE set_mode(s, "Paused")
  BY DEF Verified
<1>3. Verified(w) = IF ~playback THEN w
                    ELSE IF Diverges THEN enter_fault(w, "Diverged")
                    ELSE IF Early THEN enter_fault(w, "EndedEarly")
                    ELSE IF ~replay_complete(s) THEN w
                    ELSE IF Differs THEN enter_fault(w, "Diverged") ELSE set_mode(w, "Paused")
  BY <1>1, Zenon DEF Verified
<1> HIDE DEF Diverges, Early, Differs
<1> QED BY <1>2, <1>3, FaultCommutes, ModeCommutes

\* to a step,
LEMMA StepCommutes ==
  ASSUME NEW s, Whole(s), NEW c
  PROVE  Whole(step_once(s)) /\ step_once(With(s, c)) = With(step_once(s), c)
<1> DEFINE w == With(s, c)
           tick == next_tick(s)
           commands == IF playback THEN commands_for_tick(replay[1], tick) ELSE edits_for_tick(s)
           inputs == IF playback THEN world_inputs_for_tick(replay[1], tick) ELSE << >>
           step == StepWith(s.history, commands, inputs)
           Early == playback /\ step.answer = "RunEnded" /\ ~TerminalBoundaryHolds(replay[1], tick)
<1>1. w.history = s.history /\ w.pending = s.pending
  BY WithCredit DEF Fields
<1>2. next_tick(w) = tick /\ edits_for_tick(w) = edits_for_tick(s)
  BY <1>1 DEF edits_for_tick, next_tick
<1>3. step_once(s) = IF step.answer = "Stepped" THEN Verified(Observed(s, step.history))
                     ELSE IF Early THEN enter_fault(s, "EndedEarly")
                     ELSE enter_fault(s, step.answer)
  BY DEF step_once
<1>4. step_once(w) = IF step.answer = "Stepped" THEN Verified(Observed(w, step.history))
                     ELSE IF Early THEN enter_fault(w, "EndedEarly")
                     ELSE enter_fault(w, step.answer)
  BY <1>1, <1>2 DEF step_once
<1> HIDE DEF commands, inputs, step, Early, tick
<1>5. /\ Whole(Verified(Observed(s, step.history)))
      /\ Verified(Observed(w, step.history)) = With(Verified(Observed(s, step.history)), c)
  BY ObservedCommutes, VerifiedCommutes
<1> QED BY <1>3, <1>4, <1>5, FaultCommutes

\* to a tick,
LEMMA TickCommutes ==
  ASSUME NEW s, Whole(s), NEW c
  PROVE  Whole(one_tick(s)) /\ one_tick(With(s, c)) = With(one_tick(s), c)
<1>1. With(s, c).fault = s.fault /\ (replay_complete(With(s, c)) = replay_complete(s))
  BY WithCredit DEF Fields
<1>2. one_tick(With(s, c)) = IF s.fault # "none" THEN With(s, c)
                             ELSE IF replay_complete(s) THEN set_mode(With(s, c), "Paused")
                             ELSE step_once(With(s, c))
  BY <1>1, Zenon DEF one_tick
<1> QED BY <1>2, ModeCommutes, StepCommutes DEF one_tick

\* or to any number of ticks.
LEMMA TickedCommutes ==
  ASSUME NEW s, Whole(s), NEW c, NEW k \in Nat
  PROVE  Whole(Ticked(s, k)) /\ Ticked(With(s, c), k) = With(Ticked(s, k), c)
<1> DEFINE Fails == {n \in Nat : ~(Whole(Ticked(s, n)) /\ Ticked(With(s, c), n) = With(Ticked(s, n), c))}
<1>1. SUFFICES ASSUME Fails # {} PROVE FALSE
  OBVIOUS
<1>2. PICK m \in Fails : \A j \in Fails : m <= j
  <2>1. Fails \in SUBSET Nat
    OBVIOUS
  <2> HIDE DEF Fails
  <2> QED BY <1>1, <2>1, LeastOfNats
<1>3. m # 0
  BY <1>2, TickedBySteps
<1>4. m - 1 \in Nat /\ m = (m - 1) + 1 /\ ~(m <= m - 1)
  BY <1>2, <1>3
<1>5. Whole(Ticked(s, m - 1)) /\ Ticked(With(s, c), m - 1) = With(Ticked(s, m - 1), c)
  BY <1>2, <1>4
<1>6. /\ Ticked(s, (m - 1) + 1) = one_tick(Ticked(s, m - 1))
      /\ Ticked(With(s, c), (m - 1) + 1) = one_tick(Ticked(With(s, c), m - 1))
  BY <1>4, TickedBySteps
<1> QED BY <1>2, <1>4, <1>5, <1>6, TickCommutes

\* Some ticks, and then some more.
LEMMA TickedInParts ==
  ASSUME NEW s, NEW j \in Nat, NEW k \in Nat
  PROVE  Ticked(s, j + k) = Ticked(Ticked(s, j), k)
<1> DEFINE Fails == {n \in Nat : Ticked(s, j + n) # Ticked(Ticked(s, j), n)}
<1>1. SUFFICES ASSUME Fails # {} PROVE FALSE
  OBVIOUS
<1>2. PICK m \in Fails : \A i \in Fails : m <= i
  <2>1. Fails \in SUBSET Nat
    OBVIOUS
  <2> HIDE DEF Fails
  <2> QED BY <1>1, <2>1, LeastOfNats
<1>3. m # 0
  <2>1. j + 0 = j
    OBVIOUS
  <2> QED BY <1>2, <2>1, TickedBySteps
<1>4. m - 1 \in Nat /\ m = (m - 1) + 1 /\ ~(m <= m - 1) /\ j + m = (j + (m - 1)) + 1 /\ j + (m - 1) \in Nat
  BY <1>2, <1>3
<1>5. Ticked(s, j + (m - 1)) = Ticked(Ticked(s, j), m - 1)
  BY <1>2, <1>4
<1>6. /\ Ticked(s, (j + (m - 1)) + 1) = one_tick(Ticked(s, j + (m - 1)))
      /\ Ticked(Ticked(s, j), (m - 1) + 1) = one_tick(Ticked(Ticked(s, j), m - 1))
  BY <1>4, TickedBySteps
<1> QED BY <1>2, <1>4, <1>5, <1>6

\* No tick simulates anything more.
Over(s) == s.fault # "none" \/ replay_complete(s)

\* What a session has simulated.
Same(s, t) ==
    /\ s.history = t.history /\ s.trace = t.trace /\ s.pending = t.pending
    /\ s.fault = t.fault /\ s.probes = t.probes

\* A change of mode simulates nothing.
LEMMA ModeKeeps ==
  ASSUME NEW s, Whole(s), NEW mode
  PROVE  LET t == set_mode(s, mode) IN
         /\ Whole(t) /\ Same(t, s) /\ (Over(t) <=> Over(s))
         /\ replay_complete(t) = replay_complete(s)
<1> DEFINE t == set_mode(s, mode)
<1>1. Whole(t) /\ \A f \in Fields \ {"mode"} : t[f] = s[f]
  BY DEF set_mode, Whole, Fields
<1>2. t.history = s.history /\ t.fault = s.fault /\ Same(t, s)
  BY <1>1 DEF Same, Fields
<1>3. replay_complete(t) = replay_complete(s)
  BY <1>2 DEF replay_complete, next_tick
<1> QED BY <1>1, <1>2, <1>3 DEF Over

\* A tick after the end simulates nothing.
LEMMA OverTick ==
  ASSUME NEW s, Whole(s), Over(s)
  PROVE  Over(one_tick(s)) /\ Same(one_tick(s), s)
<1>1. one_tick(s) \in {s, set_mode(s, "Paused")}
  BY DEF one_tick, Over
<1>2. Same(s, s)
  BY DEF Same
<1> QED BY <1>1, <1>2, ModeKeeps

\* Nor do any number of them.
LEMMA OverTicked ==
  ASSUME NEW s, Whole(s), Over(s), NEW k \in Nat
  PROVE  Over(Ticked(s, k)) /\ Same(Ticked(s, k), s)
<1> DEFINE Fails == {n \in Nat : ~(Over(Ticked(s, n)) /\ Same(Ticked(s, n), s))}
<1>1. SUFFICES ASSUME Fails # {} PROVE FALSE
  OBVIOUS
<1>2. PICK m \in Fails : \A j \in Fails : m <= j
  <2>1. Fails \in SUBSET Nat
    OBVIOUS
  <2> HIDE DEF Fails
  <2> QED BY <1>1, <2>1, LeastOfNats
<1>3. m # 0
  <2>1. Same(s, s)
    BY DEF Same
  <2> QED BY <1>2, <2>1, TickedBySteps
<1>4. m - 1 \in Nat /\ m = (m - 1) + 1 /\ ~(m <= m - 1)
  BY <1>2, <1>3
<1> DEFINE t == Ticked(s, m - 1)
<1>5. Over(t) /\ Same(t, s)
  BY <1>2, <1>4
<1>6. Ticked(s, m) = one_tick(t)
  BY <1>4, TickedBySteps
<1>7. Whole(t)
  BY <1>4, TickedCommutes
<1>8. Over(one_tick(t)) /\ Same(one_tick(t), t)
  BY <1>5, <1>7, OverTick
<1>9. Same(one_tick(t), s)
  BY <1>5, <1>8 DEF Same
<1> QED BY <1>2, <1>6, <1>8, <1>9

\* A tick after which the session goes on leaves the pacer alone.
Pace(s) == <<s.mode, s.rate, s.single>>

\* Seeing a step leaves the pacer alone.
LEMMA ObservedPace ==
  ASSUME NEW s, Whole(s), NEW g
  PROVE  Pace(Observed(s, g)) = Pace(s) /\ Observed(s, g).fault = s.fault
  BY DEF Observed, normalize_view, Pace, Whole, Fields

\* A session that goes on after a tick went on before it, at the same pace.
LEMMA StillGoing ==
  ASSUME NEW s, Whole(s), ~Over(one_tick(s))
  PROVE  ~Over(s) /\ Pace(one_tick(s)) = Pace(s)
<1>1. ~Over(s)
  BY OverTick
<1>2. one_tick(s) = step_once(s)
  BY <1>1 DEF one_tick, Over
<1> DEFINE tick == next_tick(s)
           commands == IF playback THEN commands_for_tick(replay[1], tick) ELSE edits_for_tick(s)
           inputs == IF playback THEN world_inputs_for_tick(replay[1], tick) ELSE << >>
           step == StepWith(s.history, commands, inputs)
           Early == playback /\ step.answer = "RunEnded" /\ ~TerminalBoundaryHolds(replay[1], tick)
           t == Observed(s, step.history)
<1>3. step_once(s) = IF step.answer = "Stepped" THEN Verified(t)
                     ELSE IF Early THEN enter_fault(s, "EndedEarly")
                     ELSE enter_fault(s, step.answer)
  BY DEF step_once
<1>4. step.answer # "none"
  BY StepAppends
<1> HIDE DEF commands, inputs, Early, tick
<1>5. Whole(t) /\ Pace(t) = Pace(s)
  BY ObservedCommutes, ObservedPace
<1> HIDE DEF step, t
<1>6. ASSUME NEW r, Whole(r), NEW fault, fault # "none" PROVE Over(enter_fault(r, fault))
  BY <1>6 DEF Over, enter_fault, Whole, Fields
<1>7. one_tick(s) = Verified(t)
  BY <1>2, <1>3, <1>4, <1>6
<1>8. \/ Verified(t) = t
      \/ Verified(t) = enter_fault(t, "Diverged") \/ Verified(t) = enter_fault(t, "EndedEarly")
      \/ replay_complete(t) /\ Verified(t) = set_mode(t, "Paused")
  BY Zenon DEF Verified
<1>9. Verified(t) = t
  BY <1>5, <1>6, <1>7, <1>8, ModeKeeps DEF Over
<1> QED BY <1>1, <1>5, <1>7, <1>9

\* And so through any number of ticks.
LEMMA StillGoingTicked ==
  ASSUME NEW s, Whole(s), NEW k \in Nat, ~Over(Ticked(s, k))
  PROVE  Pace(Ticked(s, k)) = Pace(s)
<1> DEFINE Fails == {n \in Nat : ~Over(Ticked(s, n)) /\ Pace(Ticked(s, n)) # Pace(s)}
<1>1. SUFFICES ASSUME Fails # {} PROVE FALSE
  OBVIOUS
<1>2. PICK m \in Fails : \A j \in Fails : m <= j
  <2>1. Fails \in SUBSET Nat
    OBVIOUS
  <2> HIDE DEF Fails
  <2> QED BY <1>1, <2>1, LeastOfNats
<1>3. m # 0
  BY <1>2, TickedBySteps
<1>4. m - 1 \in Nat /\ m = (m - 1) + 1 /\ ~(m <= m - 1)
  BY <1>2, <1>3
<1> DEFINE t == Ticked(s, m - 1)
<1>5. Ticked(s, m) = one_tick(t) /\ Whole(t)
  BY <1>4, TickedBySteps, TickedCommutes
<1>6. ~Over(one_tick(t)) /\ Pace(one_tick(t)) # Pace(s)
  BY <1>2, <1>5
<1>7. ~Over(t) /\ Pace(one_tick(t)) = Pace(t)
  BY <1>5, <1>6, StillGoing
<1>8. Pace(t) = Pace(s)
  BY <1>2, <1>4, <1>7
<1> QED BY <1>6, <1>7, <1>8

\* A session that is over takes no ticks of a frame.
LEMMA OverFrame ==
  ASSUME NEW s, Whole(s), Over(s), NEW x
  PROVE  /\ advance_frame(s, x) = IF s.fault # "none" THEN s ELSE set_mode(s, "Paused")
         /\ LET t == advance_frame(s, x) IN Whole(t) /\ Over(t) /\ Same(t, s)
<1>1. advance_frame(s, x) = IF s.fault # "none" THEN s ELSE set_mode(s, "Paused")
  BY DEF advance_frame, Over
<1>2. Same(s, s)
  BY DEF Same
<1>3. \A t \in {s, set_mode(s, "Paused")} : Whole(t) /\ Over(t) /\ Same(t, s)
  BY <1>2, ModeKeeps
<1> QED BY <1>1, <1>3

\* A session that goes on takes the ticks that are due.
LEMMA GoingFrame ==
  ASSUME NEW s, ~Over(s), NEW x
  PROVE  advance_frame(s, x) = Ticked(Charged(s, x), ticks_due(s, x))
  BY DEF advance_frame, Over

\* One frame, and the same time in two.
SplitHolds(s, whole, parts) ==
    Same(whole, parts) /\ (~Over(whole) => whole = parts)

\* Two frames for one: of a session that is over,
LEMMA SplitOver ==
  ASSUME NEW s, Whole(s), Over(s), NEW a \in Nat, NEW b \in Nat
  PROVE  SplitHolds(s, advance_frame(s, a + b), advance_frame(advance_frame(s, a), b))
<1> DEFINE t == IF s.fault # "none" THEN s ELSE set_mode(s, "Paused")
<1>1. advance_frame(s, a + b) = t /\ advance_frame(s, a) = t /\ Whole(t) /\ Over(t)
  BY OverFrame
<1> HIDE DEF t
<1>2. Same(advance_frame(t, b), t)
  BY <1>1, OverFrame
<1> QED BY <1>1, <1>2 DEF SplitHolds, Same

\* of one that is paused,
LEMMA SplitPaused ==
  ASSUME NEW s, Session(s), ~Over(s), s.mode = "Paused", NEW a \in Nat, NEW b \in Nat
  PROVE  SplitHolds(s, advance_frame(s, a + b), advance_frame(advance_frame(s, a), b))
<1> DEFINE v == [s EXCEPT !.single = FALSE]
           k == IF s.single THEN 1 ELSE 0
           u == Ticked(v, k)
<1>1. Whole(s)
  BY DEF Session, Whole
<1>2. Whole(v) /\ v.single = FALSE /\ v.mode = "Paused"
  BY <1>1 DEF Whole, Fields
<1>3. ASSUME NEW x PROVE Charged(s, x) = v /\ ticks_due(s, x) = k
  BY <1>1 DEF Charged, ticks_due, Whole, Fields
<1> HIDE DEF v
<1>4. advance_frame(s, a + b) = u /\ advance_frame(s, a) = u
  BY <1>3, GoingFrame
<1>5. Whole(u)
  BY <1>2, TickedCommutes
<1>6. CASE Over(u)
  BY <1>4, <1>5, <1>6, OverFrame DEF SplitHolds, Same
<1>7. CASE ~Over(u)
  <2>1. Pace(u) = Pace(v)
    BY <1>2, <1>7, StillGoingTicked
  <2>2. u.mode = "Paused" /\ u.single = FALSE
    BY <1>2, <2>1 DEF Pace
  <2> HIDE DEF u
  <2>3. Charged(u, b) = u /\ ticks_due(u, b) = 0
    BY <1>5, <2>2 DEF Charged, ticks_due, Whole, Fields
  <2>4. advance_frame(u, b) = u
    BY <1>7, <2>3, GoingFrame, TickedBySteps
  <2> QED BY <1>4, <2>4 DEF SplitHolds, Same
<1> QED BY <1>6, <1>7

\* What earns so much time earns it in parts.
LEMMA CreditInParts ==
  ASSUME NEW x \in Nat, NEW y \in Nat, NEW z, z = x + y
  PROVE  LET rest == (x % TickCredit) + y IN
         /\ z % TickCredit = rest % TickCredit
         /\ z \div TickCredit = (x \div TickCredit) + (rest \div TickCredit)
         /\ x \div TickCredit \in Nat /\ rest \div TickCredit \in Nat
<1> DEFINE rest == (x % TickCredit) + y
<1>1. TickCredit \in Nat \ {0}
  BY LaboratoryAssumption
<1>2. x \div TickCredit \in Nat /\ x % TickCredit \in Nat
  BY <1>1, Division
<1>3. rest \in Nat
  BY <1>2
<1>4. rest \div TickCredit \in Nat
  <2> HIDE DEF rest
  <2> QED BY <1>1, <1>3, Division
<1>5. (x + y) % TickCredit = rest % TickCredit
  BY <1>1, DivisionInParts, Zenon
<1>6. (x + y) \div TickCredit = (x \div TickCredit) + (rest \div TickCredit)
  BY <1>1, DivisionInParts, Zenon
<1> HIDE DEF rest
<1>7. /\ z % TickCredit = rest % TickCredit
      /\ z \div TickCredit = (x \div TickCredit) + (rest \div TickCredit)
  BY <1>5, <1>6, Zenon
<1> QED BY <1>2, <1>4, <1>7 DEF rest

\* and of one that runs, whose rest of credit the second frame finds.
LEMMA SplitRunning ==
  ASSUME NEW s, Session(s), ~Over(s), s.mode # "Paused", NEW a \in Nat, NEW b \in Nat
  PROVE  SplitHolds(s, advance_frame(s, a + b), advance_frame(advance_frame(s, a), b))
<1> DEFINE v == [s EXCEPT !.single = FALSE]
           c1 == Earned(s, a) % TickCredit
           k1 == Earned(s, a) \div TickCredit
           more == c1 + b * s.rate
           c2 == more % TickCredit
           k2 == more \div TickCredit
           t == Ticked(v, k1)
           u == With(t, c1)
<1>1. Whole(s)
  BY DEF Session, Whole
<1>2. Whole(v) /\ Pace(v) = <<s.mode, s.rate, FALSE>>
  BY <1>1 DEF Whole, Fields, Pace
<1>3. ASSUME NEW x
      PROVE  /\ Charged(s, x) = With(v, Earned(s, x) % TickCredit)
             /\ ticks_due(s, x) = Earned(s, x) \div TickCredit
  BY <1>1 DEF Charged, ticks_due, With, Whole, Fields
<1>4. /\ Earned(s, a) \in Nat /\ b * s.rate \in Nat
      /\ Earned(s, a + b) = Earned(s, a) + b * s.rate
  BY DEF Earned, Session, Rates
<1>5. TickCredit \in Nat \ {0}
  BY LaboratoryAssumption
<1>6. /\ Earned(s, a + b) % TickCredit = c2
      /\ Earned(s, a + b) \div TickCredit = k1 + k2
  <2> DEFINE e == Earned(s, a)
             y == b * s.rate
             z == Earned(s, a + b)
  <2>1. e \in Nat /\ y \in Nat /\ z = e + y
    BY <1>4
  <2> HIDE DEF e, y, z
  <2>2. LET rest == (e % TickCredit) + y IN
        /\ z % TickCredit = rest % TickCredit
        /\ z \div TickCredit = (e \div TickCredit) + (rest \div TickCredit)
    BY <2>1, CreditInParts
  <2> QED BY <2>2, Zenon DEF e, y, z
<1>7. k1 \in Nat /\ k2 \in Nat
  BY <1>4, CreditInParts
<1> HIDE DEF v, c1, k1, c2, k2
<1>8. advance_frame(s, a) = u
  <2>1. advance_frame(s, a) = Ticked(With(v, c1), k1)
    BY <1>3, GoingFrame DEF c1, k1
  <2> QED BY <1>2, <1>7, <2>1, TickedCommutes
<1>9. advance_frame(s, a + b) = With(Ticked(t, k2), c2)
  <2>1. advance_frame(s, a + b) = Ticked(With(v, c2), k1 + k2)
    BY <1>3, <1>6, GoingFrame
  <2>2. k1 + k2 \in Nat
    BY <1>7
  <2>3. Ticked(With(v, c2), k1 + k2) = With(Ticked(v, k1 + k2), c2)
    BY <1>2, <2>2, TickedCommutes
  <2> QED BY <1>7, <2>1, <2>3, TickedInParts
<1>10. Whole(t)
  BY <1>2, <1>7, TickedCommutes
<1>11. /\ Whole(u) /\ u.credit = c1 /\ Same(u, t) /\ (Over(u) <=> Over(t)) /\ Pace(u) = Pace(t)
  <2> HIDE DEF t
  <2>1. /\ Whole(u) /\ u.credit = c1 /\ \A f \in Fields \ {"credit"} : u[f] = t[f]
        /\ replay_complete(u) = replay_complete(t)
    BY <1>10, WithCredit
  <2> HIDE DEF u
  <2> QED BY <2>1 DEF Same, Over, Pace, Fields
<1>12. CASE Over(u)
  <2> HIDE DEF t, u
  <2>1. Over(t) /\ Over(Ticked(t, k2)) /\ Same(Ticked(t, k2), t) /\ Whole(Ticked(t, k2))
    BY <1>7, <1>10, <1>11, <1>12, OverTicked, TickedCommutes
  <2> DEFINE w == Ticked(t, k2)
             r == With(w, c2)
  <2> HIDE DEF w
  <2>2. /\ \A f \in Fields \ {"credit"} : r[f] = w[f]
        /\ replay_complete(r) = replay_complete(w)
    BY <2>1, WithCredit DEF w
  <2> HIDE DEF r
  <2>3. Same(r, w) /\ Over(r)
    BY <2>1, <2>2 DEF Same, Over, Fields, w
  <2>4. Same(advance_frame(u, b), u)
    BY <1>11, <1>12, OverFrame
  <2>5. Same(r, advance_frame(u, b))
    BY <1>11, <2>1, <2>3, <2>4 DEF Same, w
  <2> QED BY <1>8, <1>9, <2>3, <2>5 DEF SplitHolds, r, w
<1>13. CASE ~Over(u)
  <2>1. ~Over(t) /\ Pace(t) = Pace(v)
    BY <1>2, <1>7, <1>11, <1>13, StillGoingTicked
  <2>2. u.mode = s.mode /\ u.rate = s.rate /\ u.single = FALSE /\ t.single = FALSE
    BY <1>2, <1>11, <2>1 DEF Pace
  <2>3. Earned(u, b) = more
    BY <1>11, <2>2 DEF Earned
  <2>4. Charged(u, b) = With(t, c2)
    <3>1. Charged(u, b) = [u EXCEPT !.single = FALSE, !.credit = c2]
      BY <2>2, <2>3 DEF Charged, c2
    <3> HIDE DEF t
    <3> QED BY <1>10, <2>2, <3>1 DEF With, Whole, Fields
  <2>5. ticks_due(u, b) = k2
    BY <2>2, <2>3 DEF ticks_due, k2
  <2>6. advance_frame(u, b) = With(Ticked(t, k2), c2)
    <3>1. advance_frame(u, b) = Ticked(With(t, c2), k2)
      BY <1>13, <2>4, <2>5, GoingFrame
    <3> HIDE DEF t, u
    <3> QED BY <1>7, <1>10, <3>1, TickedCommutes
  <2> QED BY <1>8, <1>9, <2>6 DEF SplitHolds, Same
<1> QED BY <1>12, <1>13

(* TickPacer and advance_frame: how elapsed time is cut into frames makes  *)
(* no difference to what is simulated, and none at all while the session   *)
(* goes on.                                                                *)
THEOREM LaboratoryFramesSplit == Spec => []FramesSplit
<1>1. LaboratoryInv => FramesSplit
  <2> SUFFICES ASSUME LaboratoryInv, NEW first \in Elapsed, NEW second \in Elapsed
               PROVE  LET whole == advance_frame(lab, first + second)
                          parts == advance_frame(advance_frame(lab, first), second)
                      IN  /\ <<whole.history, whole.trace, whole.pending, whole.fault, whole.probes>>
                             = <<parts.history, parts.trace, parts.pending, parts.fault, parts.probes>>
                          /\ whole.fault = "none" /\ ~replay_complete(whole) => whole = parts
    BY DEF FramesSplit
  <2>1. first \in Nat /\ second \in Nat
    BY LaboratoryAssumption
  <2>2. Session(lab) /\ Whole(lab)
    BY DEF LaboratoryInv, Session, Whole
  <2>3. SplitHolds(lab, advance_frame(lab, first + second),
                   advance_frame(advance_frame(lab, first), second))
    BY <2>1, <2>2, SplitOver, SplitPaused, SplitRunning
  <2> QED BY <2>3 DEF SplitHolds, Same, Over
<1> QED BY <1>1, LaboratoryInvariant, PTL

\* A reset leaves nothing behind.
ResetLeavesNothing == reset(lab) = [NewSession EXCEPT !.id = lab.id + 1]

-----------------------------------------------------------------------------
(* More about lists.                                                       *)

\* Numbers up to a bound, with all that are less than one of them.
LEMMA InitialSegment ==
  ASSUME NEW n \in Nat, NEW S \in SUBSET (1..n), \A i \in S : \A j \in 1..i : j \in S
  PROVE  Cardinality(S) \in 0..n /\ S = 1..Cardinality(S)
<1>1. PICK a \in 0..n : S = 1..a
  <2>1. CASE S = 1..n
    BY <2>1
  <2>2. CASE S # 1..n
    <3> DEFINE Out == {i \in Nat : i \in 1..n /\ i \notin S}
    <3>1. Out \in SUBSET Nat /\ Out # {}
      <4>1. PICK i \in 1..n : i \notin S
        BY <2>2
      <4> QED BY <4>1
    <3>2. PICK m \in Out : \A i \in Out : m <= i
      <4> HIDE DEF Out
      <4> QED BY <3>1, LeastOfNats
    <3>3. S = 1..(m - 1)
      <4>1. ASSUME NEW i \in S PROVE i \in 1..(m - 1)
        <5>1. i \in 1..n /\ m \in 1..n /\ m \notin S
          BY <3>2
        <5>2. ~(m <= i)
          BY <5>1, m \in 1..i => m \in S
        <5> QED BY <5>1, <5>2
      <4>2. ASSUME NEW i \in 1..(m - 1) PROVE i \in S
        <5>1. i \in Nat /\ i \in 1..n /\ ~(m <= i)
          BY <3>2
        <5> QED BY <3>2, <5>1
      <4> QED BY <4>1, <4>2
    <3>4. m - 1 \in 0..n
      BY <3>2
    <3> QED BY <3>3, <3>4
  <2> QED BY <2>1, <2>2
<1>2. Cardinality(1..a) = a
  BY FS_Interval
<1> QED BY <1>1, <1>2

-----------------------------------------------------------------------------
(* The replays that hosts play.                                            *)

\* Commands by tick, and checkpoints.
Schedule(r) ==
    /\ IsList(r.commands) /\ \A i \in 1..Len(r.commands) : r.commands[i].target_tick \in Nat
    /\ \A i, j \in 1..Len(r.commands) :
          i < j => r.commands[i].target_tick <= r.commands[j].target_tick
    /\ IsList(r.checkpoints)
    /\ \A i \in 1..Len(r.checkpoints) : r.checkpoints[i].next_tick \in Nat
    /\ ValidAgainst(r, Fresh)

\* Both hosts find the same commands for a tick.
LEMMA CommandsFound ==
  ASSUME NEW r, Schedule(r), NEW t \in Nat
  PROVE  commands_for_tick(r, t) = replay_commands_for_tick(r, t)
<1> DEFINE c == r.commands
           n == Len(c)
           Before == {i \in DOMAIN c : c[i].target_tick < t}
           Until == {i \in DOMAIN c : c[i].target_tick <= t}
           a == Cardinality(Before)
           b == Cardinality(Until)
           P(m) == Picked(c, {t}, m)
           Q(m) == IF m <= b THEN SubSeq(c, a + 1, m) ELSE SubSeq(c, a + 1, b)
<1>1. IsList(c) /\ n \in Nat /\ DOMAIN c = 1..n
  BY ListIsSeq DEF Schedule
<1>2. \A i \in 1..n : c[i].target_tick \in Nat
  BY DEF Schedule
<1>3. \A i, j \in 1..n : i < j => c[i].target_tick <= c[j].target_tick
  BY DEF Schedule
<1>4. a \in 0..n /\ Before = 1..a
  <2>1. Before \in SUBSET (1..n)
    BY <1>1
  <2>2. \A i \in Before : \A j \in 1..i : j \in Before
    <3> SUFFICES ASSUME NEW i \in Before, NEW j \in 1..i PROVE j \in Before
      OBVIOUS
    <3>1. i \in 1..n /\ j \in 1..n /\ (j < i \/ j = i)
      BY <1>1
    <3>2. c[j].target_tick <= c[i].target_tick /\ c[i].target_tick < t
      BY <1>2, <1>3, <3>1
    <3> QED BY <1>1, <1>2, <3>1, <3>2
  <2> HIDE DEF Before, n
  <2> QED BY <1>1, <2>1, <2>2, InitialSegment
<1>5. b \in 0..n /\ Until = 1..b
  <2>1. Until \in SUBSET (1..n)
    BY <1>1
  <2>2. \A i \in Until : \A j \in 1..i : j \in Until
    <3> SUFFICES ASSUME NEW i \in Until, NEW j \in 1..i PROVE j \in Until
      OBVIOUS
    <3>1. i \in 1..n /\ j \in 1..n /\ (j < i \/ j = i)
      BY <1>1
    <3>2. c[j].target_tick <= c[i].target_tick /\ c[i].target_tick <= t
      BY <1>2, <1>3, <3>1
    <3> QED BY <1>1, <1>2, <3>1, <3>2
  <2> HIDE DEF Until, n
  <2> QED BY <1>1, <2>1, <2>2, InitialSegment
<1>6. \A i \in 1..n : (c[i].target_tick = t) <=> (a < i /\ i <= b)
  <2> SUFFICES ASSUME NEW i \in 1..n PROVE (c[i].target_tick = t) <=> (a < i /\ i <= b)
    OBVIOUS
  <2>1. (c[i].target_tick < t) <=> (i <= a)
    <3>1. (i \in Before) <=> (c[i].target_tick < t)
      BY <1>1
    <3> QED BY <1>1, <1>4, <3>1
  <2>2. (c[i].target_tick <= t) <=> (i <= b)
    <3>1. (i \in Until) <=> (c[i].target_tick <= t)
      BY <1>1
    <3> QED BY <1>1, <1>5, <3>1
  <2> QED BY <1>1, <1>2, <1>4, <1>5, <2>1, <2>2
<1> DEFINE Fails == {m \in Nat : m <= n /\ P(m) # Q(m)}
<1> HIDE DEF a, b, n, c
<1>7. Fails = {}
  <2>1. SUFFICES ASSUME Fails # {} PROVE FALSE
    OBVIOUS
  <2>2. PICK m \in Fails : \A j \in Fails : m <= j
    <3>1. Fails \in SUBSET Nat
      OBVIOUS
    <3> HIDE DEF Fails
    <3> QED BY <2>1, <3>1, LeastOfNats
  <2>3. m # 0
    <3>1. 0 <= b /\ SubSeq(c, a + 1, 0) = << >>
      BY <1>4, <1>5, SubSeqEmpty
    <3> QED BY <2>2, <3>1, PickedBySteps
  <2>4. m - 1 \in Nat /\ m = (m - 1) + 1 /\ ~(m <= m - 1) /\ m \in 1..n
    BY <1>1, <2>2, <2>3
  <2>5. P(m - 1) = Q(m - 1)
    <3>1. m - 1 \notin Fails /\ m - 1 <= n
      <4>1. m - 1 <= n
        BY <1>1, <2>4
      <4> HIDE DEF Fails
      <4> QED BY <2>2, <2>4, <4>1
    <3> HIDE DEF P, Q
    <3> QED BY <2>4, <3>1
  <2>6. P(m) = IF c[m].target_tick = t THEN Append(Q(m - 1), c[m]) ELSE Q(m - 1)
    <3>1. Picked(c, {t}, (m - 1) + 1) = Pick(Picked(c, {t}, m - 1), c[(m - 1) + 1], {t})
      BY <2>4, PickedBySteps
    <3> QED BY <2>4, <2>5, <3>1 DEF Pick
  <2>7. CASE c[m].target_tick = t
    <3>1. a < m /\ m <= b /\ m - 1 <= b
      BY <1>6, <1>1, <1>4, <1>5, <2>4, <2>7
    <3> DEFINE less == SubSeq(c, a + 1, m - 1)
               more == SubSeq(c, a + 1, m)
    <3>2. /\ a + 1 \in Int /\ 1 <= a + 1 /\ m \in Int /\ m <= n /\ m - 1 \in Int /\ m - 1 <= n
          /\ a \in Nat
      BY <1>1, <1>4, <2>4
    <3>3. IsList(less) /\ Len(less) = m - 1 - a
      <4>1. /\ IsList(less) /\ Len(less) = IF a + 1 <= m - 1 THEN m - 1 - (a + 1) + 1 ELSE 0
        BY <1>1, <3>2, PartOfList DEF n
      <4> HIDE DEF less
      <4> QED BY <3>1, <3>2, <4>1
    <3>4. IsList(more) /\ Len(more) = m - a
      <4>1. /\ IsList(more) /\ Len(more) = IF a + 1 <= m THEN m - (a + 1) + 1 ELSE 0
        BY <1>1, <3>2, PartOfList DEF n
      <4> HIDE DEF more
      <4> QED BY <3>1, <3>2, <4>1
    <3>5. \A i \in 1..Len(less) : less[i] = c[a + 1 + i - 1]
      BY <1>1, <3>2, PartOfList DEF n
    <3>6. \A i \in 1..Len(more) : more[i] = c[a + 1 + i - 1]
      BY <1>1, <3>2, PartOfList DEF n
    <3> HIDE DEF less, more
    <3> DEFINE longer == Append(less, c[m])
    <3>7. /\ IsList(longer) /\ Len(longer) = m - a /\ longer[m - a] = c[m]
          /\ \A i \in 1..Len(less) : longer[i] = less[i]
      <4>1. /\ IsList(longer) /\ Len(longer) = Len(less) + 1 /\ longer[Len(less) + 1] = c[m]
            /\ \A i \in 1..Len(less) : longer[i] = less[i]
        BY <3>3, Appended
      <4>2. Len(less) + 1 = m - a
        BY <3>2, <3>3
      <4> QED BY <4>1, <4>2
    <3> HIDE DEF longer
    <3>8. \A i \in 1..Len(longer) : longer[i] = more[i]
      <4> SUFFICES ASSUME NEW i \in 1..Len(longer) PROVE longer[i] = more[i]
        OBVIOUS
      <4>1. CASE i = m - a
        <5>1. a + 1 + i - 1 = m /\ i \in 1..Len(more)
          BY <3>2, <3>4, <3>7, <4>1
        <5> QED BY <3>6, <3>7, <4>1, <5>1
      <4>2. CASE i # m - a
        <5>1. i \in 1..Len(less) /\ i \in 1..Len(more)
          BY <3>2, <3>3, <3>4, <3>7, <4>2
        <5> QED BY <3>5, <3>6, <3>7, <5>1
      <4> QED BY <4>1, <4>2
    <3>9. longer = more
      BY <3>4, <3>7, <3>8, SameList
    <3> QED BY <2>2, <2>6, <2>7, <3>1, <3>9 DEF longer, less, more
  <2>8. CASE c[m].target_tick # t
    <3>1. ~(a < m /\ m <= b)
      BY <1>6, <2>4, <2>8
    <3>2. Q(m) = Q(m - 1)
      <4>3. ~(m <= b) => Q(m) = Q(m - 1)
        <5>1. ~(m <= b) /\ m - 1 <= b => m - 1 = b
          BY <1>1, <1>5, <2>4
        <5> QED BY <5>1
      <4>1. CASE m <= a
        <5>1. SubSeq(c, a + 1, m) = << >> /\ SubSeq(c, a + 1, m - 1) = << >>
          <6>1. a + 1 \in Int /\ m \in Int /\ m - 1 \in Int /\ m < a + 1 /\ m - 1 < a + 1
            BY <1>1, <1>4, <2>4, <4>1
          <6> QED BY <6>1, SubSeqEmpty
        <5>2. m <= b => m - 1 <= b
          BY <1>1, <1>5, <2>4
        <5> QED BY <4>3, <5>1, <5>2
      <4>2. m <= a \/ ~(m <= b)
        BY <1>1, <1>4, <1>5, <2>4, <3>1
      <4> HIDE DEF Q
      <4> QED BY <4>1, <4>2, <4>3
    <3> HIDE DEF P, Q
    <3> QED BY <2>2, <2>6, <2>8, <3>2
  <2> QED BY <2>7, <2>8
<1>8. P(n) = SubSeq(c, a + 1, b)
  <2>1. P(n) = Q(n)
    <3>1. n \notin Fails /\ n <= n
      <4>1. n <= n
        BY <1>1
      <4> HIDE DEF Fails
      <4> QED BY <1>7, <4>1
    <3> HIDE DEF P, Q
    <3> QED BY <1>1, <3>1
  <2>2. n <= b => n = b
    BY <1>1, <1>5
  <2> QED BY <2>1, <2>2
<1> QED BY <1>8 DEF commands_for_tick, replay_commands_for_tick, a, b, c, n

\* The checkpoints of a replay that was accepted start at tick 0 and come in order.
LEMMA CheckpointsInOrder ==
  ASSUME NEW r, Schedule(r)
  PROVE  LET last == Len(r.checkpoints)
             at(i) == r.checkpoints[i].next_tick
         IN  /\ last \in Nat /\ 1 <= last /\ DOMAIN r.checkpoints = 1..last
             /\ \A i \in 1..last : at(i) \in Nat
             /\ at(1) = 0 /\ r.checkpoints[1].state_hash = Fresh
             /\ final_next_tick(r) = at(last)
             /\ \A i, j \in 1..last : i < j => at(i) < at(j)
<1> DEFINE q == r.checkpoints
           last == Len(q)
           at(i) == q[i].next_tick
<1>1. q \in Seq({q[i] : i \in 1..last}) /\ DOMAIN q = 1..last /\ last \in Nat
  BY ListIsSeq DEF Schedule
<1>2. /\ q # << >> /\ Head(q) = [next_tick |-> 0, state_hash |-> r.initial_state_hash]
      /\ \A i \in 2 .. last : at(i - 1) < at(i)
      /\ r.initial_state_hash = Fresh
  BY DEF Schedule, ValidAgainst, ValidShape
<1>3. last # 0
  BY <1>1, <1>2
<1>4. Head(q) = q[1]
  BY <1>1, <1>2
<1>5. \A i \in 1..last : at(i) \in Nat
  BY DEF Schedule
<1>6. final_next_tick(r) = at(last)
  BY DEF final_next_tick, Last
<1> DEFINE Fails == {j \in Nat : j \in 1..last /\ \E i \in 1..last : i < j /\ ~(at(i) < at(j))}
<1>7. Fails = {}
  <2>1. SUFFICES ASSUME Fails # {} PROVE FALSE
    OBVIOUS
  <2>2. PICK j \in Fails : \A k \in Fails : j <= k
    <3>1. Fails \in SUBSET Nat
      OBVIOUS
    <3> HIDE DEF Fails
    <3> QED BY <2>1, <3>1, LeastOfNats
  <2> HIDE DEF q, last
  <2>3. PICK i \in 1..last : i < j /\ ~(at(i) < at(j))
    BY <2>2
  <2>4. j \in 2..last /\ j - 1 \in 1..last /\ j - 1 \in Nat /\ ~(j <= j - 1) /\ (i < j - 1 \/ i = j - 1)
    BY <1>1, <2>2, <2>3
  <2>5. at(j - 1) < at(j)
    BY <1>2, <2>4 DEF q, last
  <2>6. i < j - 1 => at(i) < at(j - 1)
    BY <2>2, <2>4
  <2>7. at(i) \in Nat /\ at(j) \in Nat /\ at(j - 1) \in Nat
    BY <1>5, <2>4 DEF q, last
  <2> QED BY <2>3, <2>4, <2>5, <2>6, <2>7
<1>8. \A i, j \in 1..last : i < j => at(i) < at(j)
  <2> SUFFICES ASSUME NEW i \in 1..last, NEW j \in 1..last, i < j PROVE at(i) < at(j)
    OBVIOUS
  <2>1. j \notin Fails /\ j \in Nat
    BY <1>7
  <2> HIDE DEF q, last
  <2> QED BY <2>1, Zenon
<1>9. 1 <= last /\ at(1) = 0 /\ q[1].state_hash = Fresh
  <2>1. q[1] = [next_tick |-> 0, state_hash |-> Fresh]
    BY <1>2, <1>4
  <2> HIDE DEF q, last
  <2> QED BY <1>1, <1>3, <2>1
<1> HIDE DEF q, last
<1> QED BY <1>1, <1>5, <1>6, <1>8, <1>9 DEF q, last

\* The checkpoint whose turn it is is the one that a history must agree with.
LEMMA CheckpointInTurn ==
  ASSUME NEW r, Schedule(r), NEW n \in Nat, NEW g, Len(g) = n + 1, NEW index,
         index \in 1..(Len(r.checkpoints) + 1),
         \A i \in 1..Len(r.checkpoints) : (i < index) <=> (r.checkpoints[i].next_tick <= n)
  PROVE  LET due == index <= Len(r.checkpoints) /\ r.checkpoints[index].next_tick = n + 1
             next == IF due THEN index + 1 ELSE index
         IN  /\ CheckpointAgrees(r, g) <=> (due => r.checkpoints[index].state_hash = g)
             /\ next \in 1..(Len(r.checkpoints) + 1)
             /\ \A i \in 1..Len(r.checkpoints) :
                   (i < next) <=> (r.checkpoints[i].next_tick <= n + 1)
<1> DEFINE last == Len(r.checkpoints)
           at(i) == r.checkpoints[i].next_tick
           due == index <= last /\ at(index) = n + 1
           next == IF due THEN index + 1 ELSE index
<1>1. /\ last \in Nat /\ DOMAIN r.checkpoints = 1..last
      /\ \A i \in 1..last : at(i) \in Nat
      /\ \A i, j \in 1..last : i < j => at(i) < at(j)
  BY CheckpointsInOrder
<1>2. index \in Nat /\ 1 <= index /\ index <= last + 1
  BY <1>1
<1> HIDE DEF last
<1>3. index <= last => index \in 1..last /\ n < at(index)
  <2> SUFFICES ASSUME index <= last PROVE index \in 1..last /\ n < at(index)
    OBVIOUS
  <2>1. index \in 1..last
    BY <1>1, <1>2
  <2>2. ~(index < index) /\ at(index) \in Nat
    BY <1>1, <1>2, <2>1
  <2>3. ~(at(index) <= n)
    BY <2>1, <2>2 DEF last
  <2> QED BY <2>1, <2>2, <2>3
<1>4. \A i \in 1..last : (at(i) = n + 1) <=> (due /\ i = index)
  <2> SUFFICES ASSUME NEW i \in 1..last PROVE (at(i) = n + 1) <=> (due /\ i = index)
    OBVIOUS
  <2>1. at(i) \in Nat /\ ((i < index) <=> (at(i) <= n)) /\ i \in Nat
    BY <1>1 DEF last
  <2>2. CASE i < index
    BY <1>2, <2>1, <2>2
  <2>3. CASE i = index
    BY <1>2, <2>1, <2>3
  <2>4. CASE index < i
    <3>1. index \in 1..last /\ n < at(index) /\ at(index) < at(i) /\ at(index) \in Nat
      BY <1>1, <1>2, <1>3, <2>1, <2>4
    <3> QED BY <2>1, <2>4, <3>1, <1>2
  <2> QED BY <1>2, <2>1, <2>2, <2>3, <2>4
<1>5. CheckpointAgrees(r, g) <=> (due => r.checkpoints[index].state_hash = g)
  BY <1>1, <1>3, <1>4 DEF CheckpointAgrees
<1>6. next \in 1..(last + 1)
  BY <1>1, <1>2
<1>7. \A i \in 1..last : (i < next) <=> (at(i) <= n + 1)
  <2> SUFFICES ASSUME NEW i \in 1..last PROVE (i < next) <=> (at(i) <= n + 1)
    OBVIOUS
  <2>1. at(i) \in Nat /\ ((i < index) <=> (at(i) <= n)) /\ i \in Nat
    BY <1>1 DEF last
  <2>2. (at(i) = n + 1) <=> (due /\ i = index)
    BY <1>4
  <2>3. (at(i) <= n + 1) <=> (at(i) <= n \/ at(i) = n + 1)
    BY <2>1
  <2>4. (i < next) <=> (i < index \/ (due /\ i = index))
    BY <1>2, <2>1
  <2> QED BY <2>1, <2>2, <2>3, <2>4
<1> QED BY <1>5, <1>6, <1>7 DEF last

\* Runs of the two hosts, as far as they have come.
RunFields == {"verdict", "history", "trace", "index"}
IsRun(g) == g = [f \in RunFields |-> g[f]] /\ IsList(g.trace)
Verdicts == {"running", "Diverged", "EndedEarly", "RunEnded", "Failed"}

Follows(r, g, n) ==
    /\ IsRun(g) /\ g.verdict \in Verdicts
    /\ g.verdict = "running" =>
          /\ IsList(g.history) /\ Len(g.history) = n /\ Len(g.trace) = n + 1
          /\ \A i \in 1..Len(r.checkpoints) :
                r.checkpoints[i].next_tick <= n =>
                    g.trace[r.checkpoints[i].next_tick + 1] = r.checkpoints[i].state_hash

Alike(h, g) ==
    IsRun(h) /\ h.verdict = g.verdict /\ h.history = g.history /\ h.trace = g.trace

InTurn(r, h, n) ==
    h.verdict = "running" =>
        /\ h.index \in 1..(Len(r.checkpoints) + 1)
        /\ \A i \in 1..Len(r.checkpoints) : (i < h.index) <=> (r.checkpoints[i].next_tick <= n)

\* A verdict changes nothing else of a run.
LEMMA StoppedRun ==
  ASSUME NEW g, IsRun(g), NEW verdict
  PROVE  /\ IsRun(Stopped(g, verdict)) /\ Stopped(g, verdict).verdict = verdict
         /\ Stopped(g, verdict).history = g.history /\ Stopped(g, verdict).trace = g.trace
<1> DEFINE t == Stopped(g, verdict)
<1>1. t = [f \in RunFields |-> t[f]] /\ t.verdict = verdict /\ t.history = g.history /\ t.trace = g.trace
  BY DEF Stopped, IsRun, RunFields
<1> HIDE DEF t
<1>2. IsRun(t)
  BY <1>1 DEF IsRun
<1> QED BY <1>1, <1>2 DEF t

\* A step adds its history to the trace.
LEMMA SteppedRun ==
  ASSUME NEW g, IsRun(g), NEW history
  PROVE  LET t == [g EXCEPT !.history = history, !.trace = Append(@, history)] IN
         /\ IsRun(t) /\ t.verdict = g.verdict /\ t.history = history
         /\ t.trace = Append(g.trace, history) /\ t.index = g.index
<1> DEFINE t == [g EXCEPT !.history = history, !.trace = Append(@, history)]
<1>1. /\ t = [f \in RunFields |-> t[f]] /\ t.verdict = g.verdict /\ t.history = history
      /\ t.trace = Append(g.trace, history) /\ t.index = g.index
  BY DEF IsRun, RunFields
<1>2. IsList(Append(g.trace, history))
  BY Appended DEF IsRun
<1> HIDE DEF t
<1>3. IsRun(t)
  BY <1>1, <1>2 DEF IsRun
<1> QED BY <1>1, <1>3 DEF t

\* What a step that did not happen makes of two runs that are alike.
LEMMA RefusedRuns ==
  ASSUME NEW r, NEW g, IsRun(g), NEW h, Alike(h, g), NEW answer \in {"RunEnded", "Failed"}
  PROVE  /\ IsRun(Refused(r, g, answer)) /\ Refused(r, g, answer).verdict \in Verdicts \ {"running"}
         /\ Refused(r, g, answer).history = g.history /\ Refused(r, g, answer).trace = g.trace
         /\ Alike(Refused(r, h, answer), Refused(r, g, answer))
<1> DEFINE v == IF answer = "RunEnded" /\ ~TerminalBoundaryHolds(r, Len(g.history))
                THEN "EndedEarly" ELSE answer
<1>1. Refused(r, g, answer) = Stopped(g, v)
  BY DEF Refused
<1>2. Refused(r, h, answer) = Stopped(h, v)
  BY DEF Refused, Alike
<1>3. v \in Verdicts \ {"running"}
  BY DEF Verdicts
<1> HIDE DEF v
<1> QED BY <1>1, <1>2, <1>3, StoppedRun DEF Alike

\* A turn of the runner's loop does what a fixed update does.
LEMMA TurnsAlike ==
  ASSUME NEW r, Schedule(r), NEW n \in Nat, n < final_next_tick(r),
         NEW g, Follows(r, g, n), NEW h, Alike(h, g), InTurn(r, h, n)
  PROVE  /\ Follows(r, advance_canonical_simulation(r, g), n + 1)
         /\ Alike(HeadlessTurn(r, h), advance_canonical_simulation(r, g))
         /\ InTurn(r, HeadlessTurn(r, h), n + 1)
<1> DEFINE last == Len(r.checkpoints)
           at(i) == r.checkpoints[i].next_tick
<1>1. /\ last \in Nat /\ final_next_tick(r) \in Nat
      /\ \A i \in 1..last : at(i) \in Nat
  BY CheckpointsInOrder
<1>2. CASE g.verdict # "running"
  <2>1. HeadlessTurn(r, h) = h /\ advance_canonical_simulation(r, g) = g
    BY <1>2 DEF HeadlessTurn, advance_canonical_simulation, Alike
  <2> QED BY <1>2, <2>1 DEF Follows, InTurn, Alike
<1>3. CASE g.verdict = "running"
  <2>1. /\ IsRun(g) /\ IsRun(h) /\ h.verdict = "running" /\ h.history = g.history /\ h.trace = g.trace
        /\ IsList(g.history) /\ Len(g.history) = n /\ Len(g.trace) = n + 1
        /\ \A i \in 1..last : at(i) <= n => g.trace[at(i) + 1] = r.checkpoints[i].state_hash
    BY <1>3 DEF Follows, Alike
  <2> DEFINE step == StepWith(g.history, commands_for_tick(r, n), world_inputs_for_tick(r, n))
             next == step.history
             gs == [g EXCEPT !.history = next, !.trace = Append(@, next)]
             hs == [h EXCEPT !.history = next, !.trace = Append(@, next)]
             due == h.index <= last /\ at(h.index) = n + 1
             early == RunEnded(next) /\ ~TerminalBoundaryHolds(r, n + 1)
  <2>2. advance_canonical_simulation(r, g) =
            IF step.answer # "Stepped" THEN Refused(r, g, step.answer)
            ELSE IF ~CheckpointAgrees(r, gs.history) THEN Stopped(gs, "Diverged")
            ELSE IF RunEnded(gs.history) /\ ~TerminalBoundaryHolds(r, n + 1) THEN Stopped(gs, "EndedEarly")
            ELSE gs
    <3>1. ~(g.verdict # "running" \/ n >= final_next_tick(r))
      BY <1>1, <1>3
    <3>2. commands_for_tick(r, n) = replay_commands_for_tick(r, n)
      BY CommandsFound
    <3> QED BY <2>1, <3>1, <3>2 DEF advance_canonical_simulation
  <2>3. HeadlessTurn(r, h) =
            LET checked == verify_current_checkpoint(r, hs) IN
            IF step.answer # "Stepped" THEN Refused(r, h, step.answer)
            ELSE IF checked.verdict = "running" /\ RunEnded(checked.history)
                    /\ ~TerminalBoundaryHolds(r, Len(checked.history))
                 THEN Stopped(checked, "EndedEarly")
            ELSE checked
    <3>1. h.verdict = "running" /\ Len(h.history) < final_next_tick(r)
      BY <2>1
    <3>2. HeadlessTurn(r, h) = HeadlessStep(r, h)
      BY <3>1 DEF HeadlessTurn
    <3> QED BY <2>1, <3>2 DEF HeadlessStep
  <2>4. step.answer \in {"RunEnded", "Failed", "Stepped"}
        /\ (step.answer = "Stepped" =>
               next = Append(g.history, [commands |-> commands_for_tick(r, n),
                                         inputs |-> world_inputs_for_tick(r, n)]))
    BY StepAppends
  <2> HIDE DEF step
  <2>5. CASE step.answer # "Stepped"
    <3>1. advance_canonical_simulation(r, g) = Refused(r, g, step.answer)
          /\ HeadlessTurn(r, h) = Refused(r, h, step.answer)
      BY <2>2, <2>3, <2>5
    <3>2. step.answer \in {"RunEnded", "Failed"}
      BY <2>4, <2>5
    <3>3. /\ IsRun(Refused(r, g, step.answer))
          /\ Refused(r, g, step.answer).verdict \in Verdicts \ {"running"}
          /\ Alike(Refused(r, h, step.answer), Refused(r, g, step.answer))
      BY <2>1, <3>2, RefusedRuns
    <3> QED BY <3>1, <3>3 DEF Follows, InTurn, Alike
  <2>6. CASE step.answer = "Stepped"
    <3>1. IsList(next) /\ Len(next) = n + 1
      <4> DEFINE batch == [commands |-> commands_for_tick(r, n), inputs |-> world_inputs_for_tick(r, n)]
      <4>1. next = Append(g.history, batch)
        BY <2>4, <2>6
      <4> HIDE DEF next, batch
      <4>2. IsList(g.history) /\ Len(g.history) = n
        BY <2>1
      <4> QED BY <4>1, <4>2, Appended
    <3> HIDE DEF next, gs, hs
    <3>2. /\ IsRun(gs) /\ gs.verdict = "running" /\ gs.history = next
          /\ gs.trace = Append(g.trace, next)
      <4>1. IsRun(g)
        BY <2>1
      <4> QED BY <1>3, <4>1, SteppedRun DEF gs
    <3>3. /\ IsRun(hs) /\ hs.verdict = "running" /\ hs.history = next
          /\ hs.trace = gs.trace /\ hs.index = h.index
      <4>1. IsRun(h) /\ h.verdict = "running" /\ h.trace = g.trace
        BY <2>1
      <4>2. IsRun(hs) /\ hs.verdict = h.verdict /\ hs.history = next
            /\ hs.trace = Append(h.trace, next) /\ hs.index = h.index
        <5>1. IsRun(h)
          BY <4>1
        <5> QED BY <5>1, SteppedRun DEF hs
      <4> QED BY <3>2, <4>1, <4>2
    <3>4. /\ h.index \in 1..(last + 1)
          /\ \A i \in 1..last : (i < h.index) <=> (at(i) <= n)
      BY <2>1 DEF InTurn
    <3> DEFINE index == IF due THEN h.index + 1 ELSE h.index
    <3>5. /\ CheckpointAgrees(r, next) <=> (due => r.checkpoints[h.index].state_hash = next)
          /\ index \in 1..(last + 1)
          /\ \A i \in 1..last : (i < index) <=> (at(i) <= n + 1)
      BY <3>1, <3>4, CheckpointInTurn
    <3>6. verify_current_checkpoint(r, hs) =
              IF ~due THEN hs
              ELSE IF r.checkpoints[h.index].state_hash # next THEN Stopped(hs, "Diverged")
              ELSE [hs EXCEPT !.index = @ + 1]
      <4>1. (hs.index > last \/ at(hs.index) # Len(hs.history)) <=> ~due
        BY <1>1, <3>1, <3>3, <3>4
      <4> QED BY <3>3, <4>1 DEF verify_current_checkpoint
    <3> HIDE DEF due
    <3>7. CASE ~CheckpointAgrees(r, next)
      <4>1. advance_canonical_simulation(r, g) = Stopped(gs, "Diverged")
        BY <2>2, <2>6, <3>2, <3>7
      <4>2. verify_current_checkpoint(r, hs) = Stopped(hs, "Diverged")
        BY <3>5, <3>6, <3>7
      <4>3. Stopped(hs, "Diverged").verdict = "Diverged"
        BY <3>3, StoppedRun
      <4>4. HeadlessTurn(r, h) = Stopped(hs, "Diverged")
        BY <2>3, <2>6, <4>2, <4>3
      <4> QED BY <3>2, <3>3, <4>1, <4>4, StoppedRun DEF Follows, InTurn, Alike, Verdicts
    <3>8. CASE CheckpointAgrees(r, next)
      <4> DEFINE hc == verify_current_checkpoint(r, hs)
      <4>1. /\ IsRun(hc) /\ hc.verdict = "running" /\ hc.history = next /\ hc.trace = gs.trace
            /\ hc.index = index
        <5>1. CASE ~due
          BY <3>3, <3>6, <5>1
        <5>2. CASE due
          <6> DEFINE t == [hs EXCEPT !.index = @ + 1]
          <6>1. hc = t
            BY <3>5, <3>6, <3>8, <5>2
          <6>2. /\ t = [f \in RunFields |-> t[f]] /\ t.verdict = "running" /\ t.history = next
                /\ t.trace = gs.trace /\ t.index = h.index + 1 /\ IsList(t.trace)
            BY <3>3 DEF IsRun, RunFields
          <6> HIDE DEF t, hc
          <6> QED BY <5>2, <6>1, <6>2 DEF IsRun
        <5> QED BY <5>1, <5>2
      <4> HIDE DEF hc
      <4>2. advance_canonical_simulation(r, g) = IF early THEN Stopped(gs, "EndedEarly") ELSE gs
        BY <2>2, <2>6, <3>2, <3>8
      <4>3. HeadlessTurn(r, h) = IF early THEN Stopped(hc, "EndedEarly") ELSE hc
        BY <2>3, <2>6, <3>1, <4>1 DEF hc
      <4> HIDE DEF early
      <4>4. CASE early
        BY <3>2, <4>1, <4>2, <4>3, <4>4, StoppedRun DEF Follows, InTurn, Alike, Verdicts
      <4>5. CASE ~early
        <5>1. /\ Len(gs.trace) = n + 2 /\ gs.trace[n + 2] = next
              /\ \A i \in 1..(n + 1) : gs.trace[i] = g.trace[i]
          <6>1. IsList(g.trace) /\ Len(g.trace) + 1 = n + 2
            BY <2>1 DEF IsRun
          <6> QED BY <2>1, <3>2, <6>1, Appended
        <5>2. ASSUME NEW i \in 1..last, at(i) <= n + 1
              PROVE  gs.trace[at(i) + 1] = r.checkpoints[i].state_hash
          <6>1. CASE at(i) <= n
            <7>1. at(i) \in Nat /\ at(i) + 1 \in 1..(n + 1)
              BY <1>1, <6>1
            <7>2. g.trace[at(i) + 1] = r.checkpoints[i].state_hash
              BY <2>1, <6>1
            <7> QED BY <5>1, <7>1, <7>2
          <6>2. CASE at(i) = n + 1
            <7>1. r.checkpoints[i].state_hash = next
              BY <1>1, <3>1, <3>8, <6>2, CheckpointsInOrder DEF CheckpointAgrees
            <7>2. at(i) + 1 = n + 2
              BY <6>2
            <7> QED BY <5>1, <7>1, <7>2
          <6> QED BY <1>1, <5>2, <6>1, <6>2
        <5>3. Follows(r, gs, n + 1)
          <6>1. Len(gs.trace) = (n + 1) + 1
            BY <5>1
          <6> HIDE DEF last
          <6> QED BY <3>1, <3>2, <5>2, <6>1 DEF Follows, Verdicts, last
        <5>4. Alike(hc, gs) /\ InTurn(r, hc, n + 1)
          BY <3>2, <3>5, <4>1 DEF Alike, InTurn
        <5> QED BY <4>2, <4>3, <4>5, <5>3, <5>4
      <4> QED BY <4>4, <4>5
    <3> QED BY <3>7, <3>8
  <2> QED BY <2>5, <2>6
<1> QED BY <1>2, <1>3

\* The two hosts begin alike, and the first checkpoint is passed.
LEMMA HostsBegin ==
  ASSUME NEW r, Schedule(r)
  PROVE  LET h == verify_current_checkpoint(r, Started) IN
         Follows(r, Started, 0) /\ Alike(h, Started) /\ InTurn(r, h, 0)
<1> DEFINE last == Len(r.checkpoints)
           at(i) == r.checkpoints[i].next_tick
           h == verify_current_checkpoint(r, Started)
<1>1. /\ last \in Nat /\ 1 <= last /\ at(1) = 0 /\ r.checkpoints[1].state_hash = Fresh
      /\ \A i \in 1..last : at(i) \in Nat
      /\ \A i, j \in 1..last : i < j => at(i) < at(j)
  BY CheckpointsInOrder
<1>2. /\ Started = [f \in RunFields |-> Started[f]] /\ Started.verdict = "running"
      /\ Started.history = << >> /\ Started.trace = << << >> >> /\ Started.index = 1
  BY DEF Started, RunFields, Fresh
<1>3. IsRun(Started) /\ IsList(<< >>) /\ Len(<< >>) = 0 /\ Len(<< << >> >>) = 1 /\ << << >> >>[1] = << >>
  <2>1. << << >> >> \in Seq({<< >>})
    OBVIOUS
  <2>2. IsList(<< << >> >>)
    BY <2>1, SeqIsList
  <2>3. IsRun(Started)
    BY <1>2, <2>2 DEF IsRun
  <2>4. IsList(<< >>)
    BY DEF IsList
  <2>5. Len(<< >>) = 0 /\ Len(<< << >> >>) = 1 /\ << << >> >>[1] = << >>
    OBVIOUS
  <2> QED BY <2>3, <2>4, <2>5
<1>4. h = [Started EXCEPT !.index = 2]
  <2>1. ~(Started.index > last \/ at(Started.index) # Len(Started.history))
    BY <1>1, <1>2, <1>3
  <2>2. ~(r.checkpoints[Started.index].state_hash # Started.history)
    BY <1>1, <1>2 DEF Fresh
  <2>3. h = [Started EXCEPT !.index = @ + 1]
    BY <2>1, <2>2 DEF verify_current_checkpoint
  <2> QED BY <1>2, <2>3
<1> HIDE DEF last
<1>5. \A i \in 1..last : (at(i) <= 0) <=> i = 1
  <2> SUFFICES ASSUME NEW i \in 1..last PROVE (at(i) <= 0) <=> i = 1
    OBVIOUS
  <2>1. i # 1 => at(1) < at(i)
    BY <1>1
  <2> QED BY <1>1, <2>1
<1>6. Follows(r, Started, 0)
  <2>1. \A i \in 1..last : at(i) <= 0 => Started.trace[at(i) + 1] = r.checkpoints[i].state_hash
    <3> SUFFICES ASSUME NEW i \in 1..last, at(i) <= 0
                 PROVE  Started.trace[at(i) + 1] = r.checkpoints[i].state_hash
      OBVIOUS
    <3>1. i = 1 /\ at(i) + 1 = 1
      BY <1>1, <1>5
    <3> QED BY <1>1, <1>2, <1>3, <3>1 DEF Fresh
  <2>2. Started.verdict \in Verdicts
    BY <1>2 DEF Verdicts
  <2>3. IsList(Started.history) /\ Len(Started.history) = 0 /\ Len(Started.trace) = 0 + 1
    <3>1. 0 + 1 = 1
      OBVIOUS
    <3> QED BY <1>2, <1>3, <3>1, Zenon
  <2>4. IsRun(Started)
    BY <1>3
  <2> QED BY <2>1, <2>2, <2>3, <2>4, Zenon DEF Follows, last
<1>7. /\ IsRun(h) /\ h.verdict = "running" /\ h.history = Started.history /\ h.trace = Started.trace
      /\ h.index = 2
  BY <1>2, <1>3, <1>4 DEF IsRun, RunFields
<1>8. Alike(h, Started)
  BY <1>2, <1>7 DEF Alike
<1>9. InTurn(r, h, 0)
  <2>1. \A i \in 1..last : (i < 2) <=> (at(i) <= 0)
    BY <1>1, <1>5
  <2>2. 2 \in 1..(last + 1)
    BY <1>1
  <2> HIDE DEF h
  <2> QED BY <1>7, <2>1, <2>2 DEF InTurn, last
<1> QED BY <1>6, <1>8, <1>9

\* So the two hosts stay together from start to end.
LEMMA HostsTogether ==
  ASSUME NEW r, Schedule(r), NEW k \in Nat, k <= final_next_tick(r)
  PROVE  /\ Follows(r, FixedUpdates(r, k), k)
         /\ Alike(HeadlessTurns(r, k), FixedUpdates(r, k)) /\ InTurn(r, HeadlessTurns(r, k), k)
<1> DEFINE Together(n) == /\ Follows(r, FixedUpdates(r, n), n)
                          /\ Alike(HeadlessTurns(r, n), FixedUpdates(r, n))
                          /\ InTurn(r, HeadlessTurns(r, n), n)
           Fails == {n \in Nat : n <= final_next_tick(r) /\ ~Together(n)}
<1>0. final_next_tick(r) \in Nat
  BY CheckpointsInOrder
<1>1. SUFFICES ASSUME Fails # {} PROVE FALSE
  <2> HIDE DEF Together
  <2>1. k \notin Fails => Together(k)
    OBVIOUS
  <2> HIDE DEF Fails
  <2> QED BY <2>1 DEF Together
<1>2. PICK m \in Fails : \A j \in Fails : m <= j
  <2>1. Fails \in SUBSET Nat
    OBVIOUS
  <2> HIDE DEF Fails
  <2> QED BY <1>1, <2>1, LeastOfNats
<1>3. m # 0
  <2>1. FixedUpdates(r, 0) = Started /\ HeadlessTurns(r, 0) = verify_current_checkpoint(r, Started)
    BY FixedUpdatesBySteps, HeadlessTurnsBySteps
  <2> QED BY <1>2, <2>1, HostsBegin
<1>4. /\ m - 1 \in Nat /\ m = (m - 1) + 1 /\ ~(m <= m - 1)
      /\ m - 1 < final_next_tick(r) /\ m - 1 <= final_next_tick(r)
  BY <1>0, <1>2, <1>3
<1>5. Together(m - 1)
  <2> HIDE DEF Together
  <2> QED BY <1>2, <1>4
<1>6. /\ FixedUpdates(r, (m - 1) + 1) = advance_canonical_simulation(r, FixedUpdates(r, m - 1))
      /\ HeadlessTurns(r, (m - 1) + 1) = HeadlessTurn(r, HeadlessTurns(r, m - 1))
  BY <1>4, FixedUpdatesBySteps, HeadlessTurnsBySteps
<1>7. Together((m - 1) + 1)
  BY <1>4, <1>5, <1>6, TurnsAlike
<1> HIDE DEF Together
<1> QED BY <1>2, <1>4, <1>7

\* What a fixed update makes of a run that goes on.
LEMMA UpdateTaken ==
  ASSUME NEW r, Schedule(r), NEW n \in Nat, n < final_next_tick(r),
         NEW g, Follows(r, g, n), g.verdict = "running"
  PROVE  LET step == StepWith(g.history, commands_for_tick(r, n), world_inputs_for_tick(r, n))
             t == advance_canonical_simulation(r, g)
         IN  /\ step.answer # "Stepped" =>
                   /\ t.history = g.history /\ t.trace = g.trace
                   /\ t.verdict = IF step.answer = "RunEnded" /\ ~TerminalBoundaryHolds(r, n)
                                  THEN "EndedEarly" ELSE step.answer
             /\ step.answer = "Stepped" =>
                   /\ t.history = step.history /\ t.trace = Append(g.trace, step.history)
                   /\ t.verdict = IF ~CheckpointAgrees(r, step.history) THEN "Diverged"
                                  ELSE IF RunEnded(step.history) /\ ~TerminalBoundaryHolds(r, n + 1)
                                       THEN "EndedEarly"
                                  ELSE "running"
<1> DEFINE step == StepWith(g.history, commands_for_tick(r, n), world_inputs_for_tick(r, n))
           next == step.history
           gs == [g EXCEPT !.history = next, !.trace = Append(@, next)]
           t == advance_canonical_simulation(r, g)
<1>1. IsRun(g) /\ Len(g.history) = n
  BY DEF Follows
<1>2. t = IF step.answer # "Stepped" THEN Refused(r, g, step.answer)
          ELSE IF ~CheckpointAgrees(r, gs.history) THEN Stopped(gs, "Diverged")
          ELSE IF RunEnded(gs.history) /\ ~TerminalBoundaryHolds(r, n + 1) THEN Stopped(gs, "EndedEarly")
          ELSE gs
  <2>1. ~(g.verdict # "running" \/ n >= final_next_tick(r))
    BY CheckpointsInOrder
  <2>2. commands_for_tick(r, n) = replay_commands_for_tick(r, n)
    BY CommandsFound
  <2> QED BY <1>1, <2>1, <2>2 DEF advance_canonical_simulation
<1> HIDE DEF t, step
<1>3. ASSUME step.answer # "Stepped"
      PROVE  /\ t.history = g.history /\ t.trace = g.trace
             /\ t.verdict = IF step.answer = "RunEnded" /\ ~TerminalBoundaryHolds(r, n)
                            THEN "EndedEarly" ELSE step.answer
  BY <1>1, <1>2, <1>3, StoppedRun DEF Refused
<1>4. ASSUME step.answer = "Stepped"
      PROVE  /\ t.history = next /\ t.trace = Append(g.trace, next)
             /\ t.verdict = IF ~CheckpointAgrees(r, next) THEN "Diverged"
                            ELSE IF RunEnded(next) /\ ~TerminalBoundaryHolds(r, n + 1)
                                 THEN "EndedEarly"
                            ELSE "running"
  <2> HIDE DEF next
  <2>1. /\ IsRun(gs) /\ gs.verdict = "running" /\ gs.history = next
        /\ gs.trace = Append(g.trace, next)
    BY <1>1, SteppedRun
  <2> HIDE DEF gs
  <2> QED BY <1>2, <1>4, <2>1, StoppedRun
<1> QED BY <1>3, <1>4 DEF step, t

\* A schedule passes as long as the application runs it.
LEMMA PassedTogether ==
  ASSUME NEW r, Schedule(r), NEW k \in Nat, k <= final_next_tick(r)
  PROVE  LET g == FixedUpdates(r, k)
             p == Passed(r, k)
         IN  /\ g.verdict = "running" => p.ok /\ p.history = g.history
             /\ p.ok => /\ p.history = g.history /\ Len(p.history) = k
                        /\ \/ g.verdict = "running"
                           \/ RunEnded(p.history) /\ k < final_next_tick(r)
<1> DEFINE G(n) == FixedUpdates(r, n)
           P(n) == Passed(r, n)
           Together(n) == /\ G(n).verdict = "running" => P(n).ok /\ P(n).history = G(n).history
                          /\ P(n).ok => /\ P(n).history = G(n).history /\ Len(P(n).history) = n
                                        /\ \/ G(n).verdict = "running"
                                           \/ RunEnded(P(n).history) /\ n < final_next_tick(r)
           Fails == {n \in Nat : n <= final_next_tick(r) /\ ~Together(n)}
<1>0. final_next_tick(r) \in Nat
  BY CheckpointsInOrder
<1>1. SUFFICES ASSUME Fails # {} PROVE FALSE
  <2> HIDE DEF Together
  <2>1. k \notin Fails => Together(k)
    OBVIOUS
  <2> HIDE DEF Fails
  <2> QED BY <2>1 DEF Together
<1>2. PICK m \in Fails : \A j \in Fails : m <= j
  <2>1. Fails \in SUBSET Nat
    OBVIOUS
  <2> HIDE DEF Fails
  <2> QED BY <1>1, <2>1, LeastOfNats
<1>3. m # 0
  <2>1. G(0) = Started /\ P(0) = Unstepped
    BY FixedUpdatesBySteps, PassedBySteps
  <2>2. /\ Started.verdict = "running" /\ Started.history = << >> /\ Len(<< >>) = 0
        /\ Unstepped.ok = TRUE /\ Unstepped.history = << >>
    BY DEF Started, Unstepped, Fresh
  <2>3. Together(0)
    BY <2>1, <2>2, Zenon
  <2> HIDE DEF Together
  <2> QED BY <1>2, <2>3
<1>4. /\ m - 1 \in Nat /\ m = (m - 1) + 1 /\ ~(m <= m - 1)
      /\ m - 1 < final_next_tick(r) /\ m - 1 <= final_next_tick(r)
  BY <1>0, <1>2, <1>3
<1>5. Together(m - 1)
  <2> HIDE DEF Together
  <2> QED BY <1>2, <1>4
<1>6. G(m) = advance_canonical_simulation(r, G(m - 1)) /\ P(m) = PassedStep(r, P(m - 1))
  <2>1. G((m - 1) + 1) = advance_canonical_simulation(r, G(m - 1)) /\ P((m - 1) + 1) = PassedStep(r, P(m - 1))
    BY <1>4, FixedUpdatesBySteps, PassedBySteps
  <2> HIDE DEF G, P
  <2> QED BY <1>4, <2>1
<1>7. Follows(r, G(m - 1), m - 1)
  BY <1>4, HostsTogether
<1> DEFINE n == m - 1
           g == G(n)
           p == P(n)
           step == StepWith(g.history, commands_for_tick(r, n), world_inputs_for_tick(r, n))
           t == advance_canonical_simulation(r, g)
           q == PassedStep(r, p)
<1>8. /\ g.verdict = "running" => p.ok /\ p.history = g.history
      /\ p.ok => /\ p.history = g.history /\ Len(p.history) = n
                 /\ (g.verdict = "running" \/ (RunEnded(p.history) /\ n < final_next_tick(r)))
  BY <1>5
<1>9. g.verdict # "running" => t = g
  BY DEF advance_canonical_simulation
<1>10. g.verdict = "running" =>
          /\ step.answer # "Stepped" =>
                t.verdict = IF step.answer = "RunEnded" /\ ~TerminalBoundaryHolds(r, n)
                            THEN "EndedEarly" ELSE step.answer
          /\ step.answer = "Stepped" =>
                /\ t.history = step.history
                /\ t.verdict = IF ~CheckpointAgrees(r, step.history) THEN "Diverged"
                               ELSE IF RunEnded(step.history) /\ ~TerminalBoundaryHolds(r, n + 1)
                                    THEN "EndedEarly"
                               ELSE "running"
  <2> HIDE DEF G
  <2>1. n \in Nat /\ n < final_next_tick(r) /\ Follows(r, g, n)
    BY <1>4, <1>7
  <2> HIDE DEF g, n
  <2> QED BY <2>1, UpdateTaken
<1>11. step.answer \in {"RunEnded", "Failed", "Stepped"}
       /\ (step.answer = "Stepped" => ~RunEnded(g.history))
  <2> HIDE DEF G
  <2> QED BY DEF StepWith
<1>12. g.verdict = "running" =>
          Len(g.history) = n /\ (step.answer = "Stepped" => Len(step.history) = n + 1)
  <2> SUFFICES ASSUME g.verdict = "running"
               PROVE  Len(g.history) = n /\ (step.answer = "Stepped" => Len(step.history) = n + 1)
    OBVIOUS
  <2>1. IsList(g.history) /\ Len(g.history) = n
    BY <1>7 DEF Follows
  <2> DEFINE batch == [commands |-> commands_for_tick(r, n), inputs |-> world_inputs_for_tick(r, n)]
  <2>2. step.answer = "Stepped" => step.history = Append(g.history, batch)
    BY StepAppends
  <2> HIDE DEF step, batch, g
  <2> QED BY <2>1, <2>2, Appended
<1>13. p.history = g.history /\ Len(g.history) = n =>
          /\ q.ok = (p.ok /\ step.answer = "Stepped" /\ CheckpointAgrees(r, step.history))
          /\ q.history = step.history
  <2> SUFFICES ASSUME p.history = g.history, Len(g.history) = n
               PROVE  /\ q.ok = (p.ok /\ step.answer = "Stepped" /\ CheckpointAgrees(r, step.history))
                      /\ q.history = step.history
    OBVIOUS
  <2> DEFINE passes == p.ok /\ step.answer = "Stepped" /\ CheckpointAgrees(r, step.history)
  <2> HIDE DEF G, P
  <2>1. q = [ok |-> passes, history |-> step.history]
    BY Zenon DEF PassedStep
  <2> HIDE DEF passes, q, step
  <2>2. q.ok = passes /\ q.history = step.history
    BY <2>1
  <2> QED BY <2>2 DEF passes
<1>14. q.ok => p.ok
  <2> HIDE DEF P
  <2> QED BY Zenon DEF PassedStep
<1>15. q.ok /\ p.ok => g.verdict = "running"
  <2> SUFFICES ASSUME q.ok, p.ok, g.verdict # "running" PROVE FALSE
    OBVIOUS
  <2>1. p.history = g.history /\ Len(p.history) = n /\ RunEnded(p.history)
    BY <1>8
  <2>2. step.answer # "Stepped"
    BY <1>11, <2>1
  <2>3. Len(g.history) = n
    BY <2>1
  <2> HIDE DEF step, q, p, g
  <2> QED BY <1>13, <2>1, <2>2, <2>3, Zenon
<1>16. CASE g.verdict # "running"
  <2>1. ~q.ok /\ t.verdict # "running"
    BY <1>9, <1>14, <1>15, <1>16
  <2>2. Together(m)
    <3> HIDE DEF q, t
    <3>1. G(m) = t /\ P(m) = q
      BY <1>6 DEF q, t
    <3> QED BY <2>1, <3>1, Zenon
  <2> HIDE DEF Together
  <2> QED BY <1>2, <2>2
<1>17. CASE g.verdict = "running"
  <2>1. p.ok /\ p.history = g.history /\ Len(g.history) = n
    BY <1>8, <1>12, <1>17
  <2>2. /\ q.ok <=> (step.answer = "Stepped" /\ CheckpointAgrees(r, step.history))
        /\ q.history = step.history
    <3> HIDE DEF step, q, p, g
    <3> QED BY <1>13, <2>1, Zenon
  <2>3. t.verdict = "running" => q.ok /\ q.history = t.history
    <3> HIDE DEF step, q, t, g
    <3> QED BY <1>10, <1>11, <1>17, <2>2
  <2>4. q.ok => /\ q.history = t.history /\ Len(q.history) = m
                /\ (t.verdict = "running" \/ (RunEnded(q.history) /\ m < final_next_tick(r)))
    <3> SUFFICES ASSUME q.ok
                 PROVE  /\ q.history = t.history /\ Len(q.history) = m
                        /\ (t.verdict = "running" \/ (RunEnded(q.history) /\ m < final_next_tick(r)))
      OBVIOUS
    <3>1. ~TerminalBoundaryHolds(r, n + 1) => m < final_next_tick(r)
      BY <1>0, <1>4 DEF TerminalBoundaryHolds
    <3>2. n + 1 = m
      BY <1>4
    <3> HIDE DEF step, q, t, g, n
    <3> QED BY <1>10, <1>12, <1>17, <2>2, <3>1, <3>2
  <2>5. Together(m)
    <3> HIDE DEF q, t
    <3>1. G(m) = t /\ P(m) = q
      BY <1>6 DEF q, t
    <3> HIDE DEF G, P
    <3> QED BY <2>3, <2>4, <3>1, Zenon
  <2> HIDE DEF Together
  <2> QED BY <1>2, <2>5
<1> QED BY <1>16, <1>17

\* What both hosts come to.
LEMMA HostsConclude ==
  ASSUME NEW r, Schedule(r)
  PROVE  LET end == FixedUpdates(r, final_next_tick(r))
             headless == run_replay(r)
         IN  /\ headless.verdict = (IF end.verdict = "running" THEN "Completed" ELSE end.verdict)
             /\ headless.trace = end.trace
             /\ end.verdict = "running" => TraceVerified(r, end.trace)
             /\ run_replay_host_harness(r).verdict = headless.verdict
             /\ run_replay_host_harness(r).trace = headless.trace
             /\ (headless.verdict = "Completed") <=> Passes(r)
<1> DEFINE F == final_next_tick(r)
           g == FixedUpdates(r, F)
           h == HeadlessTurns(r, F)
<1>1. F \in Nat /\ F <= F
  BY CheckpointsInOrder
<1>2. Follows(r, g, F) /\ Alike(h, g)
  BY <1>1, HostsTogether
<1>3. ValidAgainst(r, Fresh)
  BY DEF Schedule
<1>4. IsRun(g) /\ IsRun(h) /\ h.verdict = g.verdict /\ h.trace = g.trace /\ g.verdict \in Verdicts
  BY <1>2 DEF Follows, Alike
<1>5. g.verdict = "running" => TraceVerified(r, g.trace)
  <2> SUFFICES ASSUME g.verdict = "running" PROVE TraceVerified(r, g.trace)
    OBVIOUS
  <2> DEFINE last == Len(r.checkpoints)
             at(i) == r.checkpoints[i].next_tick
  <2>1. /\ last \in Nat /\ DOMAIN r.checkpoints = 1..last /\ F = at(last)
        /\ \A i \in 1..last : at(i) \in Nat
        /\ \A i, j \in 1..last : i < j => at(i) < at(j)
        /\ 1 <= last
    BY CheckpointsInOrder
  <2>2. \A i \in 1..last : at(i) <= F
    <3> SUFFICES ASSUME NEW i \in 1..last PROVE at(i) <= F
      OBVIOUS
    <3>1. last \in 1..last /\ (i < last \/ i = last)
      BY <2>1
    <3> QED BY <2>1, <3>1
  <2>3. Len(g.trace) = F + 1
    BY <1>2 DEF Follows
  <2>4. \A i \in 1..last : g.trace[at(i) + 1] = r.checkpoints[i].state_hash
    <3> HIDE DEF g, F
    <3> QED BY <1>2, <2>2 DEF Follows
  <2> QED BY <2>1, <2>3, <2>4 DEF TraceVerified
<1> DEFINE v == IF g.verdict = "running" THEN "Completed" ELSE g.verdict
<1>6. ASSUME NEW t, IsRun(t), t.verdict = g.verdict, t.trace = g.trace
      PROVE  Concluded(r, t).verdict = v /\ Concluded(r, t).trace = g.trace
  <2> HIDE DEF g
  <2>1. CASE t.verdict # "running"
    BY <1>3, <1>6, <2>1 DEF Concluded
  <2>2. CASE t.verdict = "running"
    <3>1. Concluded(r, t) = Stopped(t, "Completed")
      BY <1>3, <1>5, <1>6, <2>2 DEF Concluded
    <3> QED BY <1>6, <2>2, <3>1, StoppedRun
  <2> QED BY <2>1, <2>2
<1>7. /\ run_replay(r).verdict = v /\ run_replay(r).trace = g.trace
      /\ run_replay_host_harness(r).verdict = v /\ run_replay_host_harness(r).trace = g.trace
  BY <1>4, <1>6 DEF run_replay, run_replay_host_harness
<1>8. (g.verdict = "running") <=> Passes(r)
  <2>1. /\ g.verdict = "running" => Passed(r, F).ok
        /\ Passed(r, F).ok => g.verdict = "running" \/ F < F
    BY <1>1, PassedTogether
  <2>2. ~(F < F)
    BY <1>1
  <2> HIDE DEF g, F
  <2> QED BY <2>1, <2>2, Zenon DEF Passes, F
<1>9. (v = "Completed") <=> (g.verdict = "running")
  BY <1>4 DEF Verdicts
<1> QED BY <1>5, <1>7, <1>8, <1>9

-----------------------------------------------------------------------------
(* The laboratory plays a replay as the other hosts run it.                *)

\* What a run has left behind stays.
LEMMA UpdatesOnward ==
  ASSUME NEW r, Schedule(r), NEW k \in Nat, NEW j \in Nat, k + j <= final_next_tick(r)
  PROVE  LET g == FixedUpdates(r, k)
             t == FixedUpdates(r, k + j)
         IN  /\ g.verdict # "running" => t = g
             /\ Len(g.trace) <= Len(t.trace)
             /\ \A i \in 1..Len(g.trace) : t.trace[i] = g.trace[i]
<1> DEFINE F == final_next_tick(r)
           g == FixedUpdates(r, k)
           G(n) == FixedUpdates(r, k + n)
           Onward(n) == /\ g.verdict # "running" => G(n) = g
                        /\ Len(g.trace) <= Len(G(n).trace)
                        /\ \A i \in 1..Len(g.trace) : G(n).trace[i] = g.trace[i]
           Fails == {n \in Nat : k + n <= F /\ ~Onward(n)}
<1>0. F \in Nat /\ k <= F
  BY CheckpointsInOrder
<1>1. SUFFICES ASSUME Fails # {} PROVE FALSE
  <2> HIDE DEF Onward
  <2>1. j \notin Fails => Onward(j)
    OBVIOUS
  <2> HIDE DEF Fails
  <2> QED BY <2>1 DEF Onward
<1>2. PICK m \in Fails : \A n \in Fails : m <= n
  <2>1. Fails \in SUBSET Nat
    OBVIOUS
  <2> HIDE DEF Fails
  <2> QED BY <1>1, <2>1, LeastOfNats
<1>3. Len(g.trace) \in Nat
  BY <1>0, HostsTogether DEF Follows, IsRun, IsList
<1>4. m # 0
  <2>1. k + 0 = k
    OBVIOUS
  <2>2. G(0) = g
    BY <2>1
  <2> HIDE DEF g, G
  <2>3. Onward(0)
    BY <1>3, <2>2
  <2> HIDE DEF Onward
  <2> QED BY <1>2, <2>3
<1>5. /\ m - 1 \in Nat /\ ~(m <= m - 1) /\ k + m = (k + (m - 1)) + 1 /\ k + (m - 1) \in Nat
      /\ k + (m - 1) < F /\ k + (m - 1) <= F
  BY <1>0, <1>2, <1>4
<1> DEFINE u == G(m - 1)
           t == G(m)
<1>6. Onward(m - 1)
  <2> HIDE DEF Onward
  <2> QED BY <1>2, <1>5
<1>7. t = advance_canonical_simulation(r, u)
  <2>1. FixedUpdates(r, (k + (m - 1)) + 1) = advance_canonical_simulation(r, FixedUpdates(r, k + (m - 1)))
    BY <1>5, FixedUpdatesBySteps
  <2> QED BY <1>5, <2>1
<1>8. Follows(r, u, k + (m - 1))
  BY <1>5, HostsTogether
<1>9. IsList(u.trace) /\ Len(u.trace) \in Nat
  BY <1>8 DEF Follows, IsRun, IsList
<1>10. u.verdict # "running" => t = u
  <2> HIDE DEF u, t
  <2> QED BY <1>7 DEF advance_canonical_simulation
<1>11. t.trace = u.trace \/ \E x : t.trace = Append(u.trace, x)
  <2>1. CASE u.verdict # "running"
    BY <1>10, <2>1
  <2>2. CASE u.verdict = "running"
    <3> DEFINE n == k + (m - 1)
               a == advance_canonical_simulation(r, u)
               step == StepWith(u.history, commands_for_tick(r, n), world_inputs_for_tick(r, n))
    <3>1. n \in Nat /\ n < final_next_tick(r) /\ Follows(r, u, n)
      BY <1>5, <1>8
    <3> HIDE DEF u, n
    <3>2. /\ step.answer # "Stepped" => a.trace = u.trace
          /\ step.answer = "Stepped" => a.trace = Append(u.trace, step.history)
      BY <2>2, <3>1, UpdateTaken
    <3> HIDE DEF a, step, t
    <3>3. t.trace = a.trace
      BY <1>7 DEF a
    <3> QED BY <3>2, <3>3
  <2> QED BY <2>1, <2>2
<1>12. Len(u.trace) <= Len(t.trace) /\ \A i \in 1..Len(u.trace) : t.trace[i] = u.trace[i]
  <2> HIDE DEF u, t
  <2>1. CASE t.trace = u.trace
    BY <1>9, <2>1
  <2>2. ASSUME NEW x, t.trace = Append(u.trace, x)
        PROVE  Len(u.trace) <= Len(t.trace) /\ \A i \in 1..Len(u.trace) : t.trace[i] = u.trace[i]
    <3>1. /\ IsList(t.trace) /\ Len(t.trace) = Len(u.trace) + 1
          /\ \A i \in 1..Len(u.trace) : t.trace[i] = u.trace[i]
      BY <1>9, <2>2, Appended
    <3> QED BY <1>9, <3>1
  <2> QED BY <1>11, <2>1, <2>2
<1>13. Len(t.trace) \in Nat
  <2> HIDE DEF u, t
  <2>1. ASSUME NEW x, t.trace = Append(u.trace, x) PROVE Len(t.trace) \in Nat
    BY <1>9, <2>1, Appended DEF IsList
  <2> QED BY <1>9, <1>11, <2>1
<1>14. Onward(m)
  <2> HIDE DEF g
  <2>1. /\ g.verdict # "running" => u = g
        /\ Len(g.trace) <= Len(u.trace) /\ \A i \in 1..Len(g.trace) : u.trace[i] = g.trace[i]
    BY <1>6
  <2> HIDE DEF u
  <2>2. g.verdict # "running" => t = g
    BY <1>10, <2>1
  <2>3. Len(g.trace) <= Len(t.trace)
    <3> HIDE DEF t
    <3> QED BY <1>3, <1>9, <1>12, <1>13, <2>1
  <2>4. \A i \in 1..Len(g.trace) : t.trace[i] = g.trace[i]
    <3> SUFFICES ASSUME NEW i \in 1..Len(g.trace) PROVE t.trace[i] = g.trace[i]
      OBVIOUS
    <3>1. i \in 1..Len(u.trace)
      BY <1>3, <1>9, <2>1
    <3> HIDE DEF t
    <3> QED BY <1>12, <2>1, <3>1
  <2> HIDE DEF G
  <2> QED BY <2>2, <2>3, <2>4
<1> HIDE DEF Onward
<1> QED BY <1>2, <1>14

\* The session stands where the fixed updates of the other application do.
Plays(s) ==
    LET r == replay[1]
        tick == Len(s.history)
        here == FixedUpdates(r, tick)
        end == FixedUpdates(r, final_next_tick(r))
    IN  /\ s.fault = "none" =>
              /\ tick <= final_next_tick(r) /\ here.verdict = "running"
              /\ here.history = s.history /\ here.trace = s.trace
        /\ s.fault # "none" =>
              s.fault # "running" /\ end.verdict = s.fault /\ end.trace = s.trace
        /\ Over(s) => s.mode = "Paused"

\* Pausing, or what playback does not look at, makes no difference.
LEMMA PlaysAlike ==
  ASSUME NEW s, Plays(s), NEW t,
         t.history = s.history, t.trace = s.trace, t.fault = s.fault,
         t.mode = s.mode \/ t.mode = "Paused"
  PROVE  Plays(t)
<1>1. Over(t) <=> Over(s)
  BY DEF Over, replay_complete, next_tick
<1> QED BY <1>1, Zenon DEF Plays

\* Playback through a change of mode: one that is over cannot be resumed.
LEMMA PlaysMode ==
  ASSUME playback, NEW s, Session(s), Plays(s), NEW mode \in {"Paused", "Running"}
  PROVE  Plays(set_mode(s, mode))
<1> DEFINE t == set_mode(s, mode)
<1>1. Whole(s)
  BY DEF Session, Whole
<1>2. t.history = s.history /\ t.trace = s.trace /\ t.fault = s.fault /\ (Over(t) <=> Over(s))
  BY <1>1, ModeKeeps DEF Same
<1>3. Over(s) => t.mode = "Paused"
  BY <1>1 DEF set_mode, Over, Whole, Fields
<1> HIDE DEF t
<1>4. Plays(t)
  BY <1>2, <1>3, Zenon DEF Plays
<1> QED BY <1>4 DEF t

\* Playback of a session that was cleared.
LEMMA PlaysFromStart ==
  ASSUME playback, Schedule(replay[1]), NEW s, Cleared(s)
  PROVE  Plays(s)
<1>1. final_next_tick(replay[1]) \in Nat
  BY CheckpointsInOrder
<1>2. FixedUpdates(replay[1], 0) = Started
  BY FixedUpdatesBySteps
<1>3. /\ s.history = << >> /\ s.trace = << << >> >> /\ s.fault = "none" /\ s.mode = "Paused"
  BY DEF Cleared, Fresh
<1>4. Started.verdict = "running" /\ Started.history = << >> /\ Started.trace = << << >> >>
  BY DEF Started, Fresh
<1>5. Len(s.history) = 0 /\ 0 <= final_next_tick(replay[1])
  BY <1>1, <1>3
<1> QED BY <1>2, <1>3, <1>4, <1>5, Zenon DEF Plays

\* Playback through an action of the host.
LEMMA ActionPlays ==
  ASSUME playback, Schedule(replay[1]), NEW s, Session(s), Plays(s), NEW a \in Offered
  PROVE  Plays(apply_host_action(s, a))
<1> DEFINE t == apply_host_action(s, a)
<1>1. Whole(s)
  BY DEF Session, Whole
<1>2. CASE a.kind = "Pause"
  <2>1. t = set_mode(s, "Paused")
    BY <1>2 DEF apply_host_action
  <2> QED BY <2>1, PlaysMode
<1>3. CASE a.kind = "Resume"
  <2>1. t \in {s, set_mode(s, "Running")}
    BY <1>3 DEF apply_host_action
  <2> QED BY <2>1, PlaysMode
<1>4. CASE a.kind = "Reset"
  <2>1. t = reset(s)
    BY <1>4 DEF apply_host_action
  <2>2. CASE playback /\ ~ValidAgainst(replay[1], Fresh)
    BY <2>1, <2>2 DEF reset
  <2>3. CASE ~(playback /\ ~ValidAgainst(replay[1], Fresh))
    BY <1>1, <2>1, <2>3, ResetClears, PlaysFromStart DEF Whole
  <2> QED BY <2>2, <2>3
<1>5. CASE a.kind \notin {"Pause", "Resume", "Reset"}
  <2>1. /\ t.history = s.history /\ t.trace = s.trace /\ t.fault = s.fault /\ t.mode = s.mode
    <3>1. CASE a.kind = "SetRate"
      <4>1. t = [s EXCEPT !.rate = a.arg]
        BY <3>1 DEF apply_host_action
      <4> QED BY <1>1, <4>1 DEF Whole, Fields
    <3>2. CASE a.kind = "SingleStep"
      <4>1. t \in {s, [s EXCEPT !.single = TRUE]}
        BY <3>2 DEF apply_host_action, request_single_step
      <4> QED BY <1>1, <4>1 DEF Whole, Fields
    <3>3. CASE a.kind = "QueueEdit"
      BY <3>3 DEF apply_host_action, queue_edit
    <3>4. CASE a.kind = "SetView"
      <4>1. t \in {s, [s EXCEPT !.view = a.arg]}
        BY <3>4 DEF apply_host_action, set_view
      <4> QED BY <1>1, <4>1 DEF Whole, Fields
    <3>5. CASE a.kind = "Select"
      <4>1. t = [s EXCEPT !.selection = a.arg]
        BY <3>5 DEF apply_host_action
      <4> QED BY <1>1, <4>1 DEF Whole, Fields
    <3>6. CASE a.kind = "AddProbe"
      <4> DEFINE more == Append(s.probes, [id |-> s.next_probe, target |-> a.arg,
                                           history |-> << >>, live |-> TRUE])
      <4>1. t \in {s, [s EXCEPT !.next_probe = @ + 1, !.probes = more]}
        BY <3>6 DEF apply_host_action, add_probe
      <4> HIDE DEF more
      <4> QED BY <1>1, <4>1 DEF Whole, Fields
    <3>7. CASE a.kind = "RemoveProbe"
      <4> DEFINE less == RemoveAt(s.probes, Min({i \in DOMAIN s.probes : s.probes[i].target = a.arg}))
      <4>1. t \in {s, [s EXCEPT !.probes = less]}
        BY <3>7 DEF apply_host_action, remove_probe_target
      <4> HIDE DEF less
      <4> QED BY <1>1, <4>1 DEF Whole, Fields
    <3> QED BY <1>5, <3>1, <3>2, <3>3, <3>4, <3>5, <3>6, <3>7, LaboratoryAssumption
  <2> QED BY <2>1, PlaysAlike
<1> QED BY <1>2, <1>3, <1>4, <1>5

\* Playback through a step: it ends, fails or goes on as the fixed update does.
LEMMA StepPlays ==
  ASSUME playback, Schedule(replay[1]), NEW s, Session(s), Plays(s), ~Over(s)
  PROVE  Plays(step_once(s))
<1> DEFINE r == replay[1]
           F == final_next_tick(r)
           n == Len(s.history)
           g == FixedUpdates(r, n)
           u == FixedUpdates(r, n + 1)
           end == FixedUpdates(r, F)
           step == StepWith(s.history, commands_for_tick(r, n), world_inputs_for_tick(r, n))
           next == step.history
           o == Observed(s, next)
<1>1. F \in Nat /\ n \in Nat /\ n < F /\ s.fault = "none"
  <2>1. F \in Nat
    BY CheckpointsInOrder
  <2>2. n \in Nat
    BY DEF Session, Batched, IsList
  <2> QED BY <2>1, <2>2 DEF Over, replay_complete, next_tick
<1>2. Whole(s)
  BY DEF Session, Whole
<1>3. g.verdict = "running" /\ g.history = s.history /\ g.trace = s.trace
  BY <1>1 DEF Plays
<1>4. Follows(r, g, n)
  <2>1. n <= F
    BY <1>1
  <2> HIDE DEF r, n
  <2> QED BY <1>1, <2>1, HostsTogether DEF r
<1>5. u = advance_canonical_simulation(r, g)
  BY <1>1, FixedUpdatesBySteps
<1>6. /\ step.answer # "Stepped" =>
            /\ u.trace = s.trace
            /\ u.verdict = IF step.answer = "RunEnded" /\ ~TerminalBoundaryHolds(r, n)
                           THEN "EndedEarly" ELSE step.answer
      /\ step.answer = "Stepped" =>
            /\ u.history = next /\ u.trace = Append(s.trace, next)
            /\ u.verdict = IF ~CheckpointAgrees(r, next) THEN "Diverged"
                           ELSE IF RunEnded(next) /\ ~TerminalBoundaryHolds(r, n + 1)
                                THEN "EndedEarly"
                           ELSE "running"
  <2> HIDE DEF r, n, g, F
  <2>1. Schedule(r)
    BY DEF r
  <2> QED BY <1>1, <1>3, <1>4, <1>5, <2>1, UpdateTaken DEF F
<1>7. u.verdict # "running" => end = u
  <2>1. F - (n + 1) \in Nat /\ (n + 1) + (F - (n + 1)) = F /\ F <= F /\ n + 1 \in Nat
    BY <1>1
  <2> HIDE DEF F, n
  <2>2. u.verdict # "running" => FixedUpdates(r, (n + 1) + (F - (n + 1))) = u
    BY <2>1, UpdatesOnward DEF F
  <2> QED BY <2>1, <2>2
<1>8. step.answer \in {"RunEnded", "Failed", "Stepped"}
      /\ (step.answer = "Stepped" =>
             next = Append(s.history, [commands |-> commands_for_tick(r, n),
                                       inputs |-> world_inputs_for_tick(r, n)]))
  BY StepAppends
<1>9. step_once(s) = IF step.answer = "Stepped" THEN Verified(o)
                     ELSE IF step.answer = "RunEnded" /\ ~TerminalBoundaryHolds(r, n)
                          THEN enter_fault(s, "EndedEarly")
                     ELSE enter_fault(s, step.answer)
  BY DEF step_once, next_tick
<1>10. ASSUME NEW t, Whole(t), NEW fault, fault \notin {"none", "running"},
              u.verdict = fault, u.trace = t.trace
       PROVE  Plays(enter_fault(t, fault))
  <2> DEFINE w == enter_fault(t, fault)
  <2>1. w.fault = fault /\ w.trace = t.trace /\ w.mode = "Paused"
    BY <1>10 DEF enter_fault, Whole, Fields
  <2>2. end.verdict = fault /\ end.trace = t.trace
    BY <1>7, <1>10
  <2> HIDE DEF w
  <2>3. Plays(w)
    BY <1>10, <2>1, <2>2, Zenon DEF Plays
  <2> QED BY <2>3 DEF w
<1> HIDE DEF step, u
<1>11. CASE step.answer # "Stepped"
  BY <1>2, <1>6, <1>8, <1>9, <1>10, <1>11
<1>12. CASE step.answer = "Stepped"
  <2>1. Len(next) = n + 1
    <3> DEFINE batch == [commands |-> commands_for_tick(r, n), inputs |-> world_inputs_for_tick(r, n)]
    <3>1. next = Append(s.history, batch)
      BY <1>8, <1>12
    <3>2. IsList(s.history)
      BY DEF Session, Batched
    <3> HIDE DEF next, batch
    <3> QED BY <3>1, <3>2, Appended
  <2>2. /\ Whole(o) /\ o.history = next /\ o.trace = Append(s.trace, next) /\ o.fault = "none"
    <3>1. Whole(o) /\ o.fault = s.fault
      BY <1>2, ObservedCommutes, ObservedPace
    <3> HIDE DEF next
    <3>2. o.history = next /\ o.trace = Append(s.trace, next)
      BY <1>2 DEF Observed, normalize_view, Whole, Fields
    <3> QED BY <1>1, <3>1, <3>2
  <2> HIDE DEF o, next
  <2>3. step_once(s) = Verified(o)
    BY <1>9, <1>12
  <2>4. u.history = next /\ u.trace = o.trace
    BY <1>6, <1>12, <2>2
  <2>5. CASE ~CheckpointAgrees(r, next)
    <3>1. step_once(s) = enter_fault(o, "Diverged")
      BY <2>2, <2>3, <2>5 DEF Verified
    <3>2. u.verdict = "Diverged"
      BY <1>6, <1>12, <2>5
    <3> QED BY <1>10, <2>2, <2>4, <3>1, <3>2
  <2>6. CASE CheckpointAgrees(r, next) /\ RunEnded(next) /\ ~TerminalBoundaryHolds(r, n + 1)
    <3>1. step_once(s) = enter_fault(o, "EndedEarly")
      BY <2>1, <2>2, <2>3, <2>6 DEF Verified, next_tick
    <3>2. u.verdict = "EndedEarly"
      BY <1>6, <1>12, <2>6
    <3> QED BY <1>10, <2>2, <2>4, <3>1, <3>2
  <2>7. CASE CheckpointAgrees(r, next) /\ ~(RunEnded(next) /\ ~TerminalBoundaryHolds(r, n + 1))
    <3>1. u.verdict = "running"
      BY <1>6, <1>12, <2>7
    <3>2. step_once(s) = IF ~replay_complete(o) THEN o
                         ELSE IF ~TraceVerified(r, o.trace) THEN enter_fault(o, "Diverged")
                         ELSE set_mode(o, "Paused")
      BY <2>1, <2>2, <2>3, <2>7 DEF Verified, next_tick
    <3>3. Len(o.history) = n + 1 /\ n + 1 <= F
      BY <1>1, <2>1, <2>2
    <3>4. replay_complete(o) <=> n + 1 >= F
      BY <3>3 DEF replay_complete, next_tick
    <3>5. CASE ~replay_complete(o)
      <4>1. ~Over(o)
        BY <2>2, <3>5 DEF Over
      <4>2. Plays(o)
        BY <2>2, <2>4, <3>1, <3>3, <4>1, Zenon DEF Plays, u
      <4> QED BY <3>2, <3>5, <4>2
    <3>6. CASE replay_complete(o)
      <4>1. n + 1 = F
        BY <1>1, <3>3, <3>4, <3>6
      <4>2. end = u
        BY <4>1 DEF u
      <4>3. TraceVerified(r, o.trace)
        BY <2>4, <3>1, <4>2, HostsConclude
      <4> DEFINE w == set_mode(o, "Paused")
      <4>4. step_once(s) = w
        BY <3>2, <3>6, <4>3
      <4>5. w.history = o.history /\ w.trace = o.trace /\ w.fault = o.fault
        BY <2>2, ModeKeeps DEF Same
      <4>6. w.mode = "Paused"
        BY <2>2 DEF set_mode, Whole, Fields
      <4> HIDE DEF w
      <4>7. Plays(w)
        BY <2>2, <2>4, <3>1, <3>3, <4>5, <4>6, Zenon DEF Plays, u
      <4> QED BY <4>4, <4>7
    <3> QED BY <3>5, <3>6
  <2> QED BY <2>5, <2>6, <2>7
<1> QED BY <1>11, <1>12

\* Playback through a tick,
LEMMA TickPlays ==
  ASSUME playback, Schedule(replay[1]), NEW s, Session(s), Plays(s)
  PROVE  Plays(one_tick(s))
<1>1. CASE Over(s)
  <2>1. one_tick(s) \in {s, set_mode(s, "Paused")}
    BY <1>1 DEF one_tick, Over
  <2> QED BY <2>1, PlaysMode
<1>2. CASE ~Over(s)
  <2>1. one_tick(s) = step_once(s)
    BY <1>2 DEF one_tick, Over
  <2> QED BY <1>2, <2>1, StepPlays
<1> QED BY <1>1, <1>2

\* through any number of ticks,
LEMMA TickedPlays ==
  ASSUME playback, Schedule(replay[1]), Playing, NEW s, Session(s), Plays(s), NEW k \in Nat
  PROVE  Plays(Ticked(s, k))
<1> DEFINE Fails == {n \in Nat : ~Plays(Ticked(s, n))}
<1>1. SUFFICES ASSUME Fails # {} PROVE FALSE
  OBVIOUS
<1>2. PICK m \in Fails : \A j \in Fails : m <= j
  <2>1. Fails \in SUBSET Nat
    OBVIOUS
  <2> HIDE DEF Fails
  <2> QED BY <1>1, <2>1, LeastOfNats
<1>3. m # 0
  BY <1>2, TickedBySteps
<1>4. m - 1 \in Nat /\ m = (m - 1) + 1 /\ ~(m <= m - 1)
  BY <1>2, <1>3
<1>5. Plays(Ticked(s, m - 1)) /\ Session(Ticked(s, m - 1))
  BY <1>2, <1>4, TickedSession
<1>6. Ticked(s, (m - 1) + 1) = one_tick(Ticked(s, m - 1))
  BY <1>4, TickedBySteps
<1> QED BY <1>2, <1>4, <1>5, <1>6, TickPlays

\* through a frame,
LEMMA FramePlays ==
  ASSUME playback, Schedule(replay[1]), Playing, NEW s, Session(s), Plays(s), NEW elapsed \in Nat
  PROVE  Plays(advance_frame(s, elapsed))
<1>1. CASE Over(s)
  <2>1. advance_frame(s, elapsed) \in {s, set_mode(s, "Paused")}
    BY <1>1 DEF advance_frame, Over
  <2> QED BY <2>1, PlaysMode
<1>2. CASE ~Over(s)
  <2> DEFINE t == Charged(s, elapsed)
  <2>1. Session(t) /\ ticks_due(s, elapsed) \in Nat
    BY ChargedSession
  <2>2. t.history = s.history /\ t.trace = s.trace /\ t.fault = s.fault /\ t.mode = s.mode
    BY DEF Charged, Session, Fields
  <2>3. advance_frame(s, elapsed) = Ticked(t, ticks_due(s, elapsed))
    BY <1>2, GoingFrame
  <2> HIDE DEF t
  <2>4. Plays(t)
    BY <2>2, PlaysAlike
  <2> QED BY <2>1, <2>3, <2>4, TickedPlays
<1> QED BY <1>1, <1>2

\* and through the whole queue.
LEMMA AppliedPlays ==
  ASSUME playback, Schedule(replay[1]), NEW s, Session(s), Plays(s),
         NEW queue, NEW k \in Nat, \A i \in 1..k : queue[i] \in Offered
  PROVE  Plays(Applied(s, queue, k))
<1> DEFINE Fails == {n \in 0..k : ~Plays(Applied(s, queue, n))}
<1>1. SUFFICES ASSUME Fails # {} PROVE FALSE
  OBVIOUS
<1>2. PICK m \in Fails : \A j \in Fails : m <= j
  <2>1. Fails \in SUBSET Nat
    OBVIOUS
  <2> HIDE DEF Fails
  <2> QED BY <1>1, <2>1, LeastOfNats
<1>3. m # 0
  BY <1>2, AppliedBySteps
<1>4. m - 1 \in Nat /\ m - 1 \in 0..k /\ m \in 1..k /\ m = (m - 1) + 1 /\ ~(m <= m - 1)
  BY <1>2, <1>3
<1>5. Session(Applied(s, queue, m - 1)) /\ Plays(Applied(s, queue, m - 1)) /\ queue[m] \in Offered
  <2>1. \A i \in 1..(m - 1) : queue[i] \in Offered
    BY <1>4
  <2> QED BY <1>2, <1>4, <2>1, AppliedSession
<1>6. Applied(s, queue, (m - 1) + 1) = apply_host_action(Applied(s, queue, m - 1), queue[(m - 1) + 1])
  BY <1>4, AppliedBySteps
<1> QED BY <1>2, <1>4, <1>5, <1>6, ActionPlays

-----------------------------------------------------------------------------
(* A playback is always where the other hosts have been.                   *)

PlaybackInv == playback => Schedule(replay[1]) /\ Plays(lab)

\* Playback holds at the start.
LEMMA PlaybackStarts == ASSUME Init PROVE PlaybackInv
<1> SUFFICES ASSUME playback PROVE Schedule(replay[1]) /\ Plays(lab)
  BY DEF PlaybackInv
<1>1. PICK r \in Replays : ValidAgainst(r, Fresh) /\ replay = <<r>>
  BY DEF Init, playback
<1>2. Schedule(r)
  <2>1. /\ r.commands \in Seq([target_tick : Nat, ordinal : Nat, command : Edits])
        /\ \A i, j \in DOMAIN r.commands :
              i < j => r.commands[i].target_tick <= r.commands[j].target_tick
        /\ Len(r.checkpoints) \in Nat
        /\ r.checkpoints = [i \in 1 .. Len(r.checkpoints) |-> r.checkpoints[i]]
        /\ \A i \in DOMAIN r.checkpoints : r.checkpoints[i].next_tick \in Nat
    BY ReplaysAssumption
  <2>2. IsList(r.commands) /\ IsList(r.checkpoints)
    BY <2>1, SeqIsList DEF IsList
  <2>3. DOMAIN r.commands = 1..Len(r.commands) /\ DOMAIN r.checkpoints = 1..Len(r.checkpoints)
    BY <2>2 DEF IsList
  <2>4. \A i \in 1..Len(r.commands) : r.commands[i].target_tick \in Nat
    <3> DEFINE C == [target_tick : Nat, ordinal : Nat, command : Edits]
               c == r.commands
    <3>1. \A e \in C : e.target_tick \in Nat
      OBVIOUS
    <3>2. c \in Seq(C)
      BY <2>1
    <3> HIDE DEF C, c
    <3>3. \A i \in 1..Len(c) : c[i] \in C
      BY <3>2
    <3>4. \A i \in 1..Len(c) : c[i].target_tick \in Nat
      BY <3>1, <3>3
    <3> QED BY <3>4 DEF c
  <2>5. /\ \A i, j \in 1..Len(r.commands) :
              i < j => r.commands[i].target_tick <= r.commands[j].target_tick
        /\ \A i \in 1..Len(r.checkpoints) : r.checkpoints[i].next_tick \in Nat
    BY <2>1, <2>3
  <2> QED BY <1>1, <2>2, <2>4, <2>5 DEF Schedule
<1>3. replay[1] = r
  BY <1>1
<1>4. Cleared(lab)
  BY NewSessionIsCleared DEF Init
<1> QED BY <1>2, <1>3, <1>4, PlaysFromStart

\* And every step of the host keeps it.
LEMMA PlaybackGoes ==
  ASSUME LaboratoryInv, PlaybackInv, [Next]_vars PROVE PlaybackInv'
<1>1. ASSUME NEW a \in Offered, collect_actions(a) PROVE PlaybackInv'
  BY <1>1 DEF collect_actions, PlaybackInv, playback, Plays, Over, replay_complete
<1>2. ASSUME NEW elapsed \in Elapsed, advance_native_laboratory(elapsed) PROVE PlaybackInv'
  <2>1. lab' = advance_frame(Drained, elapsed) /\ replay' = replay
    BY <1>2 DEF advance_native_laboratory
  <2>2. ASSUME playback PROVE Schedule(replay[1]) /\ Plays(advance_frame(Drained, elapsed))
    <3>1. Len(actions) \in Nat /\ \A i \in 1..Len(actions) : actions[i] \in Offered
      BY DEF LaboratoryInv
    <3>2. Session(lab) /\ Playing /\ Schedule(replay[1]) /\ Plays(lab)
      BY <2>2 DEF LaboratoryInv, PlaybackInv
    <3>3. Session(Drained) /\ Plays(Drained)
      BY <2>2, <3>1, <3>2, AppliedSession, AppliedPlays DEF Drained
    <3>4. elapsed \in Nat
      BY LaboratoryAssumption
    <3> QED BY <2>2, <3>2, <3>3, <3>4, FramePlays
  <2>3. playback' <=> playback
    BY <2>1 DEF playback
  <2>4. ASSUME playback PROVE Schedule(replay'[1]) /\ Plays(lab)'
    <3> DEFINE s == advance_frame(Drained, elapsed)
    <3>1. Schedule(replay[1]) /\ Plays(s) /\ lab' = s
      BY <2>1, <2>2, <2>4
    <3> HIDE DEF s
    <3>2. Plays(lab)'
      BY <2>1, <2>3, <3>1 DEF Plays, Over, replay_complete
    <3> QED BY <2>1, <3>1, <3>2
  <2>5. PlaybackInv' <=> (playback' => Schedule(replay'[1]) /\ Plays(lab)')
    BY DEF PlaybackInv
  <2> QED BY <2>3, <2>4, <2>5
<1>3. CASE UNCHANGED vars
  BY <1>3 DEF vars, PlaybackInv, playback, Plays, Over, replay_complete
<1> QED BY <1>1, <1>2, <1>3 DEF Next

(* run_replay of the headless runner, the fixed update of the application  *)
(* and the laboratory's playback: on every replay that is accepted they    *)
(* come to the same verdict and the same trace, whatever else the user of  *)
(* the laboratory does, and the verdict is "completed" exactly if every    *)
(* step happens and passes its checkpoint.                                 *)
THEOREM LaboratoryHostsAgree == Spec => []HostsAgree
<1>1. Init => PlaybackInv
  BY PlaybackStarts
<1>2. LaboratoryInv /\ PlaybackInv /\ [Next]_vars => PlaybackInv'
  BY PlaybackGoes
<1>3. LaboratoryInv /\ PlaybackInv => HostsAgree
  <2> SUFFICES ASSUME LaboratoryInv, PlaybackInv, playback
               PROVE  LET headless == run_replay(replay[1])
                          stopped == lab.fault # "none" \/ replay_complete(lab)
                      IN  /\ headless.verdict = "Completed" <=> Passes(replay[1])
                          /\ run_replay_host_harness(replay[1]).verdict = headless.verdict
                          /\ run_replay_host_harness(replay[1]).trace = headless.trace
                          /\ IsPrefix(lab.trace, headless.trace)
                          /\ stopped => /\ lab.trace = headless.trace /\ lab.mode = "Paused"
                                        /\ headless.verdict = IF lab.fault = "none" THEN "Completed"
                                                              ELSE lab.fault
    BY DEF HostsAgree
  <2> DEFINE r == replay[1]
             F == final_next_tick(r)
             n == Len(lab.history)
             here == FixedUpdates(r, n)
             end == FixedUpdates(r, F)
             headless == run_replay(r)
  <2>1. Schedule(r) /\ Plays(lab) /\ F \in Nat /\ n \in Nat
    <3>1. Schedule(r) /\ Plays(lab)
      BY DEF PlaybackInv
    <3>2. F \in Nat
      BY <3>1, CheckpointsInOrder
    <3>3. n \in Nat
      BY DEF LaboratoryInv, Session, Batched, IsList
    <3> QED BY <3>1, <3>2, <3>3
  <2> HIDE DEF r
  <2>2. /\ headless.verdict = (IF end.verdict = "running" THEN "Completed" ELSE end.verdict)
        /\ headless.trace = end.trace
        /\ run_replay_host_harness(r).verdict = headless.verdict
        /\ run_replay_host_harness(r).trace = headless.trace
        /\ (headless.verdict = "Completed") <=> Passes(r)
    BY <2>1, HostsConclude
  <2>3. /\ lab.fault = "none" => /\ n <= F /\ here.verdict = "running" /\ here.trace = lab.trace
        /\ lab.fault # "none" => /\ lab.fault # "running" /\ end.verdict = lab.fault
                                 /\ end.trace = lab.trace
        /\ Over(lab) => lab.mode = "Paused"
    BY <2>1 DEF Plays, r
  <2>4. replay_complete(lab) <=> n >= F
    BY DEF replay_complete, next_tick, r
  <2>5. IsList(end.trace) /\ Len(end.trace) \in Nat
    <3>1. F <= F
      BY <2>1
    <3>2. IsRun(end)
      BY <2>1, <3>1, HostsTogether DEF Follows
    <3> QED BY <3>2 DEF IsRun, IsList
  <2>6. /\ IsList(lab.trace) /\ Len(lab.trace) \in Nat /\ Len(lab.trace) <= Len(end.trace)
        /\ \A i \in 1..Len(lab.trace) : end.trace[i] = lab.trace[i]
    <3>1. CASE lab.fault = "none"
      <4>1. n <= F /\ here.trace = lab.trace
        BY <2>3, <3>1
      <4>2. F - n \in Nat /\ n + (F - n) = F /\ F <= F
        BY <2>1, <4>1
      <4>3. IsRun(here)
        BY <2>1, <4>1, HostsTogether DEF Follows
      <4> DEFINE there == FixedUpdates(r, n + (F - n))
      <4>4. Len(here.trace) <= Len(there.trace) /\ \A i \in 1..Len(here.trace) : there.trace[i] = here.trace[i]
        <5> HIDE DEF n
        <5> QED BY <2>1, <4>2, UpdatesOnward
      <4>5. there = end
        BY <4>2
      <4> HIDE DEF there, here, end
      <4> QED BY <4>1, <4>3, <4>4, <4>5 DEF IsRun, IsList
    <3>2. CASE lab.fault # "none"
      <4>1. end.trace = lab.trace
        BY <2>3, <3>2
      <4> HIDE DEF end
      <4> QED BY <2>5, <4>1
    <3> QED BY <3>1, <3>2
  <2> HIDE DEF end, here, headless
  <2>7. IsPrefix(lab.trace, headless.trace)
    <3> DEFINE m == Len(lab.trace)
               a == SubSeq(lab.trace, 1, m)
               b == SubSeq(end.trace, 1, m)
    <3>1. /\ IsList(a) /\ IsList(b) /\ Len(a) = (IF 1 <= m THEN m - 1 + 1 ELSE 0) /\ Len(b) = Len(a)
          /\ \A i \in 1..Len(a) : a[i] = lab.trace[1 + i - 1]
          /\ \A i \in 1..Len(b) : b[i] = end.trace[1 + i - 1]
      <4>1. 1 \in Int /\ m \in Int /\ 1 <= 1 /\ m <= m /\ m <= Len(end.trace)
        BY <2>6
      <4> HIDE DEF m
      <4>2. /\ IsList(a) /\ Len(a) = (IF 1 <= m THEN m - 1 + 1 ELSE 0)
            /\ \A i \in 1..Len(a) : a[i] = lab.trace[1 + i - 1]
        <5>1. m <= Len(lab.trace)
          BY <2>6 DEF m
        <5> QED BY <2>6, <4>1, <5>1, PartOfList
      <4>3. /\ IsList(b) /\ Len(b) = (IF 1 <= m THEN m - 1 + 1 ELSE 0)
            /\ \A i \in 1..Len(b) : b[i] = end.trace[1 + i - 1]
        BY <2>5, <4>1, PartOfList
      <4> HIDE DEF a, b
      <4> QED BY <4>2, <4>3
    <3>2. Len(a) = m
      BY <2>6, <3>1
    <3>3. \A i \in 1..Len(a) : a[i] = b[i]
      <4> SUFFICES ASSUME NEW i \in 1..Len(a) PROVE a[i] = b[i]
        OBVIOUS
      <4> HIDE DEF a, b
      <4>1. 1 + i - 1 = i /\ i \in 1..m
        BY <2>6, <3>2
      <4> QED BY <2>6, <3>1, <4>1
    <3> HIDE DEF a, b
    <3>4. a = b
      BY <3>1, <3>3, SameList
    <3>5. Len(lab.trace) <= Len(headless.trace)
          /\ SubSeq(lab.trace, 1, Len(lab.trace)) = SubSeq(headless.trace, 1, Len(lab.trace))
      BY <2>2, <2>6, <3>4 DEF a, b
    <3> QED BY <3>5 DEF IsPrefix
  <2>8. ASSUME lab.fault # "none" \/ replay_complete(lab)
        PROVE  /\ lab.trace = headless.trace /\ lab.mode = "Paused"
               /\ headless.verdict = IF lab.fault = "none" THEN "Completed" ELSE lab.fault
    <3>1. lab.mode = "Paused"
      BY <2>3, <2>8 DEF Over
    <3>2. CASE lab.fault = "none"
      <4>1. n = F
        BY <2>1, <2>3, <2>4, <2>8, <3>2
      <4>2. here = end
        BY <4>1 DEF here, end
      <4> QED BY <2>2, <2>3, <3>1, <3>2, <4>2
    <3>3. CASE lab.fault # "none"
      BY <2>2, <2>3, <3>1, <3>3
    <3> QED BY <3>2, <3>3
  <2> QED BY <2>2, <2>7, <2>8 DEF r, headless
<1> QED BY <1>1, <1>2, <1>3, LaboratoryInvariant, PTL DEF Spec

-----------------------------------------------------------------------------
(* The log of a session.                                                   *)

\* What is picked depends on the entries looked at.
LEMMA PickedAlike ==
  ASSUME NEW p, NEW q, NEW ticks, NEW k \in Nat, \A i \in 1..k : p[i] = q[i]
  PROVE  Picked(p, ticks, k) = Picked(q, ticks, k)
<1> DEFINE Fails == {n \in 0..k : Picked(p, ticks, n) # Picked(q, ticks, n)}
<1>1. SUFFICES ASSUME Fails # {} PROVE FALSE
  OBVIOUS
<1>2. PICK m \in Fails : \A j \in Fails : m <= j
  <2>1. Fails \in SUBSET Nat
    OBVIOUS
  <2> HIDE DEF Fails
  <2> QED BY <1>1, <2>1, LeastOfNats
<1>3. m # 0
  BY <1>2, PickedBySteps
<1>4. m - 1 \in Nat /\ m - 1 \in 0..k /\ m \in 1..k /\ m = (m - 1) + 1 /\ ~(m <= m - 1)
  BY <1>2, <1>3
<1>5. Picked(p, ticks, m - 1) = Picked(q, ticks, m - 1) /\ p[m] = q[m]
  BY <1>2, <1>4
<1>6. /\ Picked(p, ticks, (m - 1) + 1) = Pick(Picked(p, ticks, m - 1), p[(m - 1) + 1], ticks)
      /\ Picked(q, ticks, (m - 1) + 1) = Pick(Picked(q, ticks, m - 1), q[(m - 1) + 1], ticks)
  BY <1>4, PickedBySteps
<1> QED BY <1>2, <1>4, <1>5, <1>6

\* One more entry at the end.
LEMMA PickedAppended ==
  ASSUME NEW q, IsList(q), NEW x, NEW ticks
  PROVE  Picked(Append(q, x), ticks, Len(Append(q, x))) = Pick(Picked(q, ticks, Len(q)), x, ticks)
<1> DEFINE a == Append(q, x)
           n == Len(q)
<1>1. Len(a) = n + 1 /\ a[n + 1] = x /\ (\A i \in 1..n : a[i] = q[i]) /\ n \in Nat
  BY Appended DEF IsList
<1> HIDE DEF a, n
<1>2. Picked(a, ticks, n) = Picked(q, ticks, n)
  BY <1>1, PickedAlike
<1>3. Picked(a, ticks, n + 1) = Pick(Picked(a, ticks, n), a[n + 1], ticks)
  BY <1>1, PickedBySteps
<1> QED BY <1>1, <1>2, <1>3 DEF a, n

\* Picking from what was picked.
LEMMA PickedAgain ==
  ASSUME NEW list, NEW A, NEW B, NEW k \in Nat
  PROVE  LET p == Picked(list, A, k) IN Picked(p, B, Len(p)) = Picked(list, A \cap B, k)
<1> DEFINE P(n) == Picked(list, A, n)
           Fails == {n \in Nat : Picked(P(n), B, Len(P(n))) # Picked(list, A \cap B, n)}
<1>1. SUFFICES ASSUME Fails # {} PROVE FALSE
  OBVIOUS
<1>2. PICK m \in Fails : \A j \in Fails : m <= j
  <2>1. Fails \in SUBSET Nat
    OBVIOUS
  <2> HIDE DEF Fails
  <2> QED BY <1>1, <2>1, LeastOfNats
<1>3. m # 0
  <2>1. P(0) = << >> /\ Picked(list, A \cap B, 0) = << >> /\ Picked(<< >>, B, 0) = << >>
    BY PickedBySteps
  <2>2. Len(<< >>) = 0
    OBVIOUS
  <2> HIDE DEF P
  <2> QED BY <1>2, <2>1, <2>2
<1>4. m - 1 \in Nat /\ m = (m - 1) + 1 /\ ~(m <= m - 1)
  BY <1>2, <1>3
<1> DEFINE x == list[(m - 1) + 1]
           p == P(m - 1)
           c == Picked(list, A \cap B, m - 1)
<1>5. Picked(p, B, Len(p)) = c
  BY <1>2, <1>4
<1>6. P((m - 1) + 1) = Pick(p, x, A) /\ Picked(list, A \cap B, (m - 1) + 1) = Pick(c, x, A \cap B)
  BY <1>4, PickedBySteps
<1>7. IsList(p)
  BY <1>4, PickedIsList
<1> HIDE DEF c
<1>8. Picked(Pick(p, x, A), B, Len(Pick(p, x, A))) = Pick(c, x, A \cap B)
  <2> HIDE DEF p, x
  <2>1. CASE x.target_tick \in A
    <3>1. Pick(p, x, A) = Append(p, x)
      BY <2>1 DEF Pick
    <3>2. Picked(Append(p, x), B, Len(Append(p, x))) = Pick(c, x, B)
      BY <1>5, <1>7, PickedAppended
    <3>3. Pick(c, x, B) = Pick(c, x, A \cap B)
      BY <2>1 DEF Pick
    <3> QED BY <3>1, <3>2, <3>3
  <2>2. CASE x.target_tick \notin A
    BY <1>5, <2>2 DEF Pick
  <2> QED BY <2>1, <2>2
<1>9. Picked(P(m), B, Len(P(m))) = Picked(list, A \cap B, m)
  <2>1. P(m) = Pick(p, x, A) /\ Picked(list, A \cap B, m) = Pick(c, x, A \cap B)
    BY <1>4, <1>6
  <2> HIDE DEF P, p, x
  <2> QED BY <1>8, <2>1
<1> HIDE DEF P
<1> QED BY <1>2, <1>9

\* Entries in the order they were queued.
InLine(q) ==
    /\ IsList(q)
    /\ \A i \in 1..Len(q) : q[i].target_tick \in Nat /\ q[i].ordinal \in Nat
    /\ \A i, j \in 1..Len(q) :
          i < j => q[i].target_tick <= q[j].target_tick /\ q[i].ordinal < q[j].ordinal

\* What is picked from a line is in line, and for one of those ticks.
LEMMA PickedInLine ==
  ASSUME NEW list, InLine(list), NEW ticks, NEW k \in 0..Len(list)
  PROVE  LET p == Picked(list, ticks, k) IN
         /\ InLine(p)
         /\ \A i \in 1..Len(p) : p[i].target_tick \in ticks /\ \E j \in 1..k : p[i] = list[j]
<1> DEFINE P(n) == Picked(list, ticks, n)
           From(p, n) == \A i \in 1..Len(p) : p[i].target_tick \in ticks /\ \E j \in 1..n : p[i] = list[j]
           Good(n) == InLine(P(n)) /\ From(P(n), n)
           Fails == {n \in 0..k : ~Good(n)}
<1>1. SUFFICES ASSUME Fails # {} PROVE FALSE
  <2> HIDE DEF Good
  <2>1. k \notin Fails => Good(k)
    BY DEF InLine, IsList
  <2> HIDE DEF Fails
  <2> QED BY <2>1 DEF Good
<1>2. PICK m \in Fails : \A j \in Fails : m <= j
  <2>1. Fails \in SUBSET Nat
    OBVIOUS
  <2> HIDE DEF Fails
  <2> QED BY <1>1, <2>1, LeastOfNats
<1>3. m # 0
  <2>1. P(0) = << >>
    BY PickedBySteps
  <2>2. IsList(<< >>) /\ Len(<< >>) = 0
    BY DEF IsList
  <2>3. 1..0 = {}
    OBVIOUS
  <2> HIDE DEF P
  <2>4. Good(0)
    BY <2>1, <2>2, <2>3 DEF InLine
  <2> HIDE DEF Good
  <2> QED BY <1>2, <2>4
<1>4. /\ m - 1 \in Nat /\ m - 1 \in 0..k /\ m \in 1..k /\ m = (m - 1) + 1 /\ ~(m <= m - 1)
      /\ m \in 1..Len(list) /\ m \in Nat
  BY <1>2, <1>3 DEF InLine, IsList
<1> DEFINE x == list[m]
           p == P(m - 1)
           a == Append(p, x)
<1>5. InLine(p) /\ From(p, m - 1)
  <2> HIDE DEF Good
  <2>1. Good(m - 1)
    BY <1>2, <1>4
  <2> QED BY <2>1 DEF Good
<1>6. P(m) = Pick(p, x, ticks)
  BY <1>4, PickedBySteps
<1> HIDE DEF P, p
<1>7. From(p, m)
  <2> SUFFICES ASSUME NEW i \in 1..Len(p)
               PROVE  p[i].target_tick \in ticks /\ \E j \in 1..m : p[i] = list[j]
    OBVIOUS
  <2>1. PICK j \in 1..(m - 1) : p[i] = list[j]
    BY <1>5
  <2>2. j \in 1..m
    BY <1>4
  <2> QED BY <1>5, <2>1, <2>2
<1>8. ASSUME x.target_tick \in ticks PROVE InLine(a) /\ From(a, m)
  <2>1. /\ IsList(a) /\ Len(a) = Len(p) + 1 /\ a[Len(p) + 1] = x
        /\ (\A i \in 1..Len(p) : a[i] = p[i]) /\ Len(p) \in Nat
    BY <1>5, Appended DEF InLine, IsList
  <2>2. x.target_tick \in Nat /\ x.ordinal \in Nat
    BY <1>4 DEF InLine
  <2> HIDE DEF a
  <2>3. \A i \in 1..Len(a) : i \in 1..Len(p) \/ i = Len(p) + 1
    BY <2>1
  <2>4. \A i \in 1..Len(a) : a[i].target_tick \in Nat /\ a[i].ordinal \in Nat
    BY <1>5, <2>1, <2>2, <2>3 DEF InLine
  <2>5. ASSUME NEW i \in 1..Len(a), NEW j \in 1..Len(a), i < j
        PROVE  a[i].target_tick <= a[j].target_tick /\ a[i].ordinal < a[j].ordinal
    <3>1. i \in 1..Len(p)
      BY <2>1, <2>5
    <3>2. CASE j \in 1..Len(p)
      BY <1>5, <2>1, <2>5, <3>1, <3>2 DEF InLine
    <3>3. CASE j = Len(p) + 1
      <4>1. PICK l \in 1..(m - 1) : p[i] = list[l]
        BY <1>5, <3>1
      <4>2. l \in 1..Len(list) /\ l < m
        BY <1>4 DEF InLine, IsList
      <4>3. list[l].target_tick <= x.target_tick /\ list[l].ordinal < x.ordinal
        BY <1>4, <4>2 DEF InLine
      <4> HIDE DEF x
      <4> QED BY <2>1, <3>1, <3>3, <4>1, <4>3
    <3> QED BY <2>3, <3>2, <3>3
  <2>6. From(a, m)
    <3> SUFFICES ASSUME NEW i \in 1..Len(a)
                 PROVE  a[i].target_tick \in ticks /\ \E j \in 1..m : a[i] = list[j]
      OBVIOUS
    <3>1. CASE i \in 1..Len(p)
      BY <1>7, <2>1, <3>1
    <3>2. CASE i = Len(p) + 1
      <4>1. m \in 1..m
        BY <1>4
      <4> QED BY <1>8, <2>1, <3>2, <4>1
    <3> QED BY <2>3, <3>1, <3>2
  <2>7. InLine(a)
    BY <2>1, <2>4, <2>5 DEF InLine
  <2> HIDE DEF From
  <2> QED BY <2>6, <2>7
<1>9. Good(m)
  <2> HIDE DEF a, x, From
  <2>1. CASE x.target_tick \in ticks
    <3>1. P(m) = a
      BY <1>6, <2>1 DEF Pick, a
    <3> QED BY <1>8, <2>1, <3>1
  <2>2. CASE x.target_tick \notin ticks
    <3>1. P(m) = p
      BY <1>6, <2>2 DEF Pick
    <3> QED BY <1>5, <1>7, <3>1
  <2> QED BY <2>1, <2>2
<1> HIDE DEF Good
<1> QED BY <1>2, <1>9

\* What comes before a whole list is put at its head.
LEMMA InsertedFirst ==
  ASSUME NEW q, IsList(q), NEW x, \A i \in 1..Len(q) : Earlier(x, q[i])
  PROVE  LET p == Placed(q, x) IN
         /\ IsList(p) /\ Len(p) = Len(q) + 1 /\ p[1] = x
         /\ \A i \in 1..Len(q) : p[i + 1] = q[i]
<1> DEFINE S == {q[i] : i \in 1..Len(q)} \cup {x}
           Behind == {i \in DOMAIN q : ~Earlier(x, q[i])}
           none == SubSeq(q, 1, 0)
           rest == SubSeq(q, 0 + 1, Len(q))
<1>1. Len(q) \in Nat /\ DOMAIN q = 1..Len(q)
  BY DEF IsList
<1>2. Cardinality(Behind) = 0
  <2>1. Behind = {}
    BY <1>1
  <2> HIDE DEF Behind
  <2> QED BY <2>1, FS_EmptySet
<1>3. Placed(q, x) = none \o <<x>> \o rest
  <2>1. Placed(q, x) = SubSeq(q, 1, Cardinality(Behind)) \o <<x>>
                       \o SubSeq(q, Cardinality(Behind) + 1, Len(q))
    BY DEF Placed, Inserted
  <2> HIDE DEF Behind
  <2> QED BY <1>2, <2>1
<1>4. q \in Seq(S) /\ x \in S
  <2>1. q \in [1..Len(q) -> S]
    BY DEF IsList
  <2> QED BY <1>1, <2>1
<1>5. IsList(none) /\ Len(none) = 0
  <2>1. 1 \in Int /\ 0 \in Int /\ 1 <= 1 /\ 0 <= Len(q) /\ ~(1 <= 0)
    BY <1>1
  <2> QED BY <2>1, PartOfList
<1>6. none = << >>
  <2> HIDE DEF none
  <2>1. none = [i \in 1..0 |-> none[i]]
    BY <1>5 DEF IsList
  <2> QED BY <2>1
<1>7. rest = q
  <2>1. /\ IsList(rest) /\ Len(rest) = (IF 0 + 1 <= Len(q) THEN Len(q) - (0 + 1) + 1 ELSE 0)
        /\ \A i \in 1..Len(rest) : rest[i] = q[(0 + 1) + i - 1]
    <3>1. 0 + 1 \in Int /\ Len(q) \in Int /\ 1 <= 0 + 1 /\ Len(q) <= Len(q)
      BY <1>1
    <3> QED BY <3>1, PartOfList
  <2> HIDE DEF rest
  <2>2. Len(rest) = Len(q)
    BY <1>1, <2>1
  <2>3. \A i \in 1..Len(rest) : rest[i] = q[i]
    <3> SUFFICES ASSUME NEW i \in 1..Len(rest) PROVE rest[i] = q[i]
      OBVIOUS
    <3>1. (0 + 1) + i - 1 = i
      OBVIOUS
    <3> QED BY <2>1, <3>1
  <2> QED BY <2>1, <2>2, <2>3, SameList
<1> HIDE DEF none, rest, S
<1>8. none \o <<x>> \o rest = <<x>> \o q
  <2>1. << >> \o <<x>> = <<x>>
    OBVIOUS
  <2> QED BY <1>6, <1>7, <2>1
<1> DEFINE p == <<x>> \o q
<1>9. p \in Seq(S) /\ Len(p) = Len(q) + 1 /\ p[1] = x /\ \A i \in 1..Len(q) : p[i + 1] = q[i]
  <2>1. <<x>> \in Seq(S) /\ Len(<<x>>) = 1 /\ <<x>>[1] = x
    BY <1>4
  <2>2. /\ p \in Seq(S) /\ Len(p) = Len(<<x>>) + Len(q)
        /\ \A i \in 1 .. Len(<<x>>) + Len(q) :
              p[i] = IF i <= Len(<<x>>) THEN <<x>>[i] ELSE q[i - Len(<<x>>)]
    BY <1>4, <2>1, ConcatProperties
  <2> HIDE DEF p
  <2>3. ASSUME NEW i \in 1..Len(q) PROVE p[i + 1] = q[i]
    <3>1. i + 1 \in 1 .. 1 + Len(q) /\ ~(i + 1 <= 1) /\ (i + 1) - 1 = i
      BY <1>1
    <3> QED BY <2>1, <2>2, <3>1
  <2>4. 1 \in 1 .. 1 + Len(q) /\ 1 <= 1 /\ Len(q) + 1 = 1 + Len(q)
    BY <1>1
  <2> QED BY <2>1, <2>2, <2>3, <2>4
<1> HIDE DEF p
<1>10. IsList(p)
  BY <1>9, SeqIsList
<1> QED BY <1>3, <1>8, <1>9, <1>10 DEF p

\* A line stays as it is when it is sorted.
LEMMA LineStays ==
  ASSUME NEW d, InLine(d)
  PROVE  Sorted(d, Earlier, Len(d)) = d
<1> DEFINE R(k) == Sorted(d, Earlier, k)
           Good(k) == /\ IsList(R(k)) /\ Len(R(k)) = k
                      /\ \A i \in 1..k : R(k)[i] = d[i]
           Fails == {n \in 0..Len(d) : ~Good(n)}
<1>1. Len(d) \in Nat /\ IsList(d)
  BY DEF InLine, IsList
<1>2. R(0) = << >>
  BY SortedBySteps
<1>3. ASSUME NEW n \in Nat PROVE R(n + 1) = Placed(R(n), d[n + 1])
  BY SortedBySteps DEF Placed
<1> HIDE DEF R
<1>4. ASSUME Fails # {} PROVE FALSE
  <2>1. PICK m \in Fails : \A j \in Fails : m <= j
    <3>1. Fails \in SUBSET Nat
      BY <1>1
    <3> HIDE DEF Fails
    <3> QED BY <1>4, <3>1, LeastOfNats
  <2>2. m # 0
    <3>1. IsList(<< >>) /\ Len(<< >>) = 0 /\ 1..0 = {}
      BY DEF IsList
    <3>2. Good(0)
      BY <1>2, <3>1
    <3> QED BY <2>1, <3>2
  <2>3. /\ m - 1 \in Nat /\ m - 1 \in 0..Len(d) /\ m \in 1..Len(d)
        /\ m = (m - 1) + 1 /\ ~(m <= m - 1)
    BY <1>1, <2>1, <2>2
  <2> DEFINE p == R(m - 1)
             x == d[m]
             t == Append(p, x)
  <2>4. Good(m - 1)
    <3> HIDE DEF Good
    <3> QED BY <2>1, <2>3
  <2>5. IsList(p) /\ Len(p) = m - 1 /\ \A i \in 1..(m - 1) : p[i] = d[i]
    BY <2>4
  <2>6. R((m - 1) + 1) = Placed(R(m - 1), d[(m - 1) + 1])
    BY <1>3, <2>3
  <2>7. R(m) = Placed(p, x)
    BY <2>3, <2>6
  <2> HIDE DEF p, t
  <2>8. \A i \in 1..Len(p) : ~Earlier(x, p[i])
    <3> SUFFICES ASSUME NEW i \in 1..Len(p) PROVE ~Earlier(x, p[i])
      OBVIOUS
    <3>1. i \in 1..(m - 1) /\ i \in 1..Len(d) /\ i < m
      BY <1>1, <2>3, <2>5
    <3>2. p[i] = d[i]
      BY <2>5, <3>1
    <3>3. /\ d[i].target_tick \in Nat /\ x.target_tick \in Nat
          /\ d[i].ordinal \in Nat /\ x.ordinal \in Nat
          /\ d[i].target_tick <= x.target_tick /\ d[i].ordinal < x.ordinal
      BY <2>3, <3>1 DEF InLine
    <3> HIDE DEF x
    <3>4. ~(x.target_tick < d[i].target_tick) /\ ~(x.ordinal < d[i].ordinal) /\ x.ordinal # d[i].ordinal
      BY <3>3
    <3> QED BY <3>2, <3>4 DEF Earlier
  <2>9. R(m) = t
    BY <2>5, <2>7, <2>8, PlacedIsList DEF t
  <2>10. IsList(t) /\ Len(t) = Len(p) + 1 /\ t[Len(p) + 1] = x /\ \A i \in 1..Len(p) : t[i] = p[i]
    BY <2>5, Appended DEF t
  <2>11. Len(t) = m /\ t[m] = x
    BY <2>3, <2>5, <2>10
  <2>12. \A i \in 1..m : t[i] = d[i]
    <3> SUFFICES ASSUME NEW i \in 1..m PROVE t[i] = d[i]
      OBVIOUS
    <3>1. CASE i = m
      BY <2>11, <3>1
    <3>2. CASE i # m
      <4>1. i \in 1..(m - 1) /\ i \in 1..Len(p)
        BY <2>3, <2>5, <3>2
      <4> QED BY <2>5, <2>10, <4>1
    <3> QED BY <3>1, <3>2
  <2>13. Good(m)
    BY <2>9, <2>10, <2>11, <2>12
  <2> HIDE DEF Good
  <2> QED BY <2>1, <2>13
<1>5. Good(Len(d))
  <2> HIDE DEF Good
  <2>1. Len(d) \in 0..Len(d)
    BY <1>1
  <2> QED BY <1>4, <2>1
<1>6. R(Len(d)) = d
  BY <1>1, <1>5, SameList
<1> QED BY <1>6 DEF R

\* A line taken backwards sorts to the line.
LEMMA LineSorted ==
  ASSUME NEW d, InLine(d)
  PROVE  Sorted(Reverse(d), Earlier, Len(Reverse(d))) = d
<1> DEFINE L == Len(d)
           q == Reverse(d)
           R(k) == Sorted(q, Earlier, k)
           Good(k) == /\ IsList(R(k)) /\ Len(R(k)) = k
                      /\ \A i \in 1..k : R(k)[i] = d[L - k + i]
           Fails == {n \in 0..L : ~Good(n)}
<1>1. L \in Nat /\ IsList(d)
  BY DEF InLine, IsList
<1>2. Len(q) = L /\ \A i \in 1..L : q[i] = d[(L - i) + 1]
  BY <1>1 DEF Reverse
<1>3. ASSUME Fails # {} PROVE FALSE
  <2> HIDE DEF q, L, Good
  <2>1. PICK m \in Fails : \A j \in Fails : m <= j
    <3>1. Fails \in SUBSET Nat
      BY <1>1
    <3> HIDE DEF Fails
    <3> QED BY <1>3, <3>1, LeastOfNats
  <2>2. m # 0
    <3>1. R(0) = << >>
      BY SortedBySteps
    <3>2. IsList(<< >>) /\ Len(<< >>) = 0 /\ 1..0 = {}
      BY DEF IsList
    <3> HIDE DEF R
    <3>3. Good(0)
      BY <3>1, <3>2 DEF Good
    <3> QED BY <2>1, <3>3
  <2>3. /\ m - 1 \in Nat /\ m - 1 \in 0..L /\ m \in 1..L /\ m = (m - 1) + 1 /\ ~(m <= m - 1)
    BY <1>1, <2>1, <2>2
  <2> DEFINE p == R(m - 1)
             x == q[m]
  <2>4. R(m) = Placed(p, x)
    <3>1. R((m - 1) + 1) = Inserted(R(m - 1), q[(m - 1) + 1], Earlier)
      BY <2>3, SortedBySteps
    <3> HIDE DEF R
    <3> QED BY <2>3, <3>1 DEF Placed
  <2>5. Good(m - 1)
    BY <2>1, <2>3
  <2>6. IsList(p) /\ Len(p) = m - 1 /\ \A i \in 1..(m - 1) : p[i] = d[L - (m - 1) + i]
    BY <2>5 DEF Good
  <2>7. x = d[(L - m) + 1]
    BY <1>2, <2>3
  <2> HIDE DEF p, x
  <2>8. \A i \in 1..Len(p) : Earlier(x, p[i])
    <3> SUFFICES ASSUME NEW i \in 1..Len(p) PROVE Earlier(x, p[i])
      OBVIOUS
    <3> DEFINE j == (L - m) + 1
               l == L - (m - 1) + i
    <3>1. i \in 1..(m - 1) /\ j \in 1..L /\ l \in 1..L /\ j < l
      BY <1>1, <2>3, <2>6
    <3>2. x = d[j] /\ p[i] = d[l]
      BY <2>6, <2>7, <3>1
    <3> HIDE DEF j, l
    <3>3. /\ d[j].target_tick \in Nat /\ d[l].target_tick \in Nat
          /\ d[j].target_tick <= d[l].target_tick /\ d[j].ordinal < d[l].ordinal
      BY <3>1 DEF InLine, L
    <3>4. d[j].target_tick < d[l].target_tick \/ d[j].target_tick = d[l].target_tick
      BY <3>3
    <3> QED BY <3>2, <3>3, <3>4 DEF Earlier
  <2> DEFINE t == Placed(p, x)
  <2>9. /\ IsList(t) /\ Len(t) = Len(p) + 1 /\ t[1] = x
        /\ \A i \in 1..Len(p) : t[i + 1] = p[i]
    BY <2>6, <2>8, InsertedFirst
  <2> HIDE DEF t
  <2>10. \A i \in 1..m : t[i] = d[L - m + i]
    <3> SUFFICES ASSUME NEW i \in 1..m PROVE t[i] = d[L - m + i]
      OBVIOUS
    <3>1. CASE i = 1
      BY <2>7, <2>9, <3>1
    <3>2. CASE i # 1
      <4>1. i - 1 \in 1..(m - 1) /\ (i - 1) + 1 = i /\ L - (m - 1) + (i - 1) = L - m + i
        BY <1>1, <2>3, <3>2
      <4>2. t[(i - 1) + 1] = p[i - 1] /\ p[i - 1] = d[L - (m - 1) + (i - 1)]
        BY <2>6, <2>9, <4>1
      <4> QED BY <4>1, <4>2
    <3> QED BY <3>1, <3>2
  <2>11. Len(t) = m
    BY <2>3, <2>6, <2>9
  <2>12. R(m) = t
    BY <2>4 DEF t
  <2> HIDE DEF R
  <2>13. Good(m)
    BY <2>9, <2>10, <2>11, <2>12 DEF Good
  <2> QED BY <2>1, <2>13
<1>4. Good(L)
  <2> HIDE DEF Good, L
  <2>1. L \in 0..L
    BY <1>1
  <2>2. L \notin Fails => Good(L)
    BY <2>1
  <2> HIDE DEF Fails
  <2>3. L \notin Fails
    BY <1>3
  <2> QED BY <2>2, <2>3
<1> HIDE DEF q
<1>5. R(L) = d
  <2>1. IsList(R(L)) /\ Len(R(L)) = Len(d) /\ \A i \in 1..L : R(L)[i] = d[L - L + i]
    BY <1>4
  <2> DEFINE t == R(L)
  <2> HIDE DEF R
  <2>2. \A i \in 1..Len(t) : t[i] = d[i]
    <3> SUFFICES ASSUME NEW i \in 1..L PROVE t[i] = d[i]
      BY <2>1
    <3>1. L - L + i = i
      BY <1>1
    <3> QED BY <2>1, <3>1
  <2> HIDE DEF t
  <2>3. t = d
    BY <1>1, <2>1, <2>2, SameList DEF t
  <2> QED BY <2>3 DEF t
<1> QED BY <1>2, <1>5 DEF q

-----------------------------------------------------------------------------
(* An interactive session is in step with its log.                         *)

\* The ticks a session has been through.
Past(s) == 0 .. next_tick(s) - 1

\* A list of histories, each stepped from the one before by the edits logged for its tick.
Walk(trace, log) ==
    /\ IsList(trace) /\ trace[1] = Fresh
    /\ \A k \in 1..Len(trace) : Len(trace[k]) = k - 1
    /\ \A k \in 1 .. Len(trace) - 1 :
          LET step == StepWith(trace[k], Picked(log, {k - 1}, Len(log)), << >>) IN
          step.answer = "Stepped" /\ step.history = trace[k + 1]

Trail(s) ==
    /\ InLine(s.log) /\ s.next_ordinal \in Nat
    /\ \A i \in 1..Len(s.log) :
          s.log[i].ordinal < s.next_ordinal /\ s.log[i].target_tick <= next_tick(s)
    /\ s.pending = Picked(s.log, Nat \ Past(s), Len(s.log))
    /\ Walk(s.trace, s.log)
    /\ Len(s.trace) = next_tick(s) + 1 /\ s.trace[next_tick(s) + 1] = s.history

\* Playback logs nothing.
Logged(s) == IF playback THEN s.log = << >> ELSE Trail(s)

\* What is neither log, trace nor pending makes no difference to the log.
LEMMA LoggedAlike ==
  ASSUME NEW s, Logged(s), NEW t,
         t.log = s.log, t.next_ordinal = s.next_ordinal, t.pending = s.pending,
         t.history = s.history, t.trace = s.trace
  PROVE  Logged(t)
<1>1. next_tick(t) = next_tick(s) /\ Past(t) = Past(s)
  BY DEF next_tick, Past
<1>2. Trail(s) => Trail(t)
  BY <1>1, Zenon DEF Trail
<1> QED BY <1>2, Zenon DEF Logged

\* The log through a change of mode,
LEMMA LoggedMode ==
  ASSUME NEW s, Whole(s), Logged(s), NEW mode
  PROVE  Logged(set_mode(s, mode))
<1> DEFINE t == set_mode(s, mode)
<1>1. \A f \in Fields \ {"mode"} : t[f] = s[f]
  BY DEF set_mode, Whole, Fields
<1> HIDE DEF t
<1>2. /\ t.log = s.log /\ t.next_ordinal = s.next_ordinal /\ t.pending = s.pending
      /\ t.history = s.history /\ t.trace = s.trace
  BY <1>1 DEF Fields
<1>3. Logged(t)
  BY <1>2, LoggedAlike
<1> QED BY <1>3 DEF t

\* and through a fault.
LEMMA LoggedFault ==
  ASSUME NEW s, Whole(s), Logged(s), NEW fault
  PROVE  Logged(enter_fault(s, fault))
<1> DEFINE t == enter_fault(s, fault)
<1>1. \A f \in Fields \ {"mode", "fault"} : t[f] = s[f]
  BY DEF enter_fault, Whole, Fields
<1> HIDE DEF t
<1>2. /\ t.log = s.log /\ t.next_ordinal = s.next_ordinal /\ t.pending = s.pending
      /\ t.history = s.history /\ t.trace = s.trace
  BY <1>1 DEF Fields
<1>3. Logged(t)
  BY <1>2, LoggedAlike
<1> QED BY <1>3 DEF t

\* The log of a session that was cleared.
LEMMA LoggedFromStart ==
  ASSUME NEW s, Cleared(s)
  PROVE  Logged(s)
<1>1. /\ s.history = << >> /\ s.trace = << << >> >> /\ s.log = << >> /\ s.pending = << >>
      /\ s.next_ordinal = 0
  BY DEF Cleared, Fresh
<1>2. /\ Len(<< >>) = 0 /\ Len(<< << >> >>) = 1 /\ << << >> >>[1] = << >> /\ 1..0 = {}
      /\ 0 + 1 = 1 /\ 1 - 1 = 0 /\ 1..1 = {1}
  OBVIOUS
<1>3. IsList(<< >>) /\ IsList(<< << >> >>)
  <2>1. << << >> >> \in Seq({<< >>})
    OBVIOUS
  <2>2. IsList(<< << >> >>)
    BY <2>1, SeqIsList
  <2> QED BY <2>2 DEF IsList
<1>4. next_tick(s) = 0
  BY <1>1, <1>2 DEF next_tick
<1>5. InLine(s.log)
  BY <1>1, <1>2, <1>3 DEF InLine
<1>6. s.pending = Picked(s.log, Nat \ Past(s), Len(s.log))
  BY <1>1, <1>2, PickedBySteps
<1>7. Walk(s.trace, s.log)
  <2>1. \A k \in 1..1 : Len(s.trace[k]) = k - 1
    BY <1>1, <1>2
  <2> QED BY <1>1, <1>2, <1>3, <2>1 DEF Walk, Fresh
<1>8. Trail(s)
  <2>1. s.next_ordinal \in Nat
    BY <1>1
  <2>2. Len(s.trace) = next_tick(s) + 1 /\ s.trace[next_tick(s) + 1] = s.history
    BY <1>1, <1>2, <1>4
  <2>3. \A i \in 1..Len(s.log) :
           s.log[i].ordinal < s.next_ordinal /\ s.log[i].target_tick <= next_tick(s)
    BY <1>1, <1>2
  <2> QED BY <1>5, <1>6, <1>7, <2>1, <2>2, <2>3 DEF Trail
<1> QED BY <1>1, <1>8 DEF Logged

\* An edit is queued for the tick to come, behind all others.
LEMMA EditLogged ==
  ASSUME NEW s, Session(s), Logged(s), NEW edit
  PROVE  Logged(queue_edit(s, edit))
<1> DEFINE n == next_tick(s)
           x == [target_tick |-> n, ordinal |-> s.next_ordinal, command |-> edit]
           t == queue_edit(s, edit)
           log == Append(s.log, x)
<1>1. CASE playback \/ s.fault # "none"
  BY <1>1 DEF queue_edit
<1>2. CASE ~(playback \/ s.fault # "none")
  <2>1. Whole(s) /\ n \in Nat /\ Trail(s)
    BY <1>2 DEF Session, Whole, Batched, IsList, next_tick, Logged
  <2>2. /\ t.log = log /\ t.pending = Append(s.pending, x) /\ t.next_ordinal = s.next_ordinal + 1
        /\ t.history = s.history /\ t.trace = s.trace
    <3> HIDE DEF x
    <3> QED BY <1>2, <2>1 DEF queue_edit, Whole, Fields, x
  <2>3. next_tick(t) = n /\ Past(t) = Past(s) /\ Past(s) = 0 .. n - 1
    BY <2>2 DEF next_tick, Past
  <2>4. x.target_tick = n /\ x.ordinal = s.next_ordinal
    OBVIOUS
  <2> HIDE DEF x, t, n
  <2>5. InLine(s.log) /\ IsList(s.log) /\ Len(s.log) \in Nat /\ s.next_ordinal \in Nat
    BY <2>1 DEF Trail, InLine, IsList
  <2>6. /\ IsList(log) /\ Len(log) = Len(s.log) + 1 /\ log[Len(s.log) + 1] = x
        /\ \A i \in 1..Len(s.log) : log[i] = s.log[i]
    BY <2>5, Appended
  <2>7. \A ticks : Picked(log, ticks, Len(log)) = Pick(Picked(s.log, ticks, Len(s.log)), x, ticks)
    BY <2>5, PickedAppended
  <2> HIDE DEF log
  <2>8. \A i \in 1..Len(log) : i \in 1..Len(s.log) \/ i = Len(s.log) + 1
    BY <2>5, <2>6
  <2>9. \A i \in 1..Len(s.log) :
           /\ s.log[i].ordinal < s.next_ordinal /\ s.log[i].target_tick <= n
           /\ s.log[i].ordinal \in Nat /\ s.log[i].target_tick \in Nat
    BY <2>1 DEF Trail, InLine, n
  <2>10. InLine(log)
    <3>1. \A i \in 1..Len(log) : log[i].target_tick \in Nat /\ log[i].ordinal \in Nat
      BY <2>1, <2>4, <2>5, <2>6, <2>8, <2>9
    <3>2. ASSUME NEW i \in 1..Len(log), NEW j \in 1..Len(log), i < j
          PROVE  log[i].target_tick <= log[j].target_tick /\ log[i].ordinal < log[j].ordinal
      <4>1. i \in 1..Len(s.log)
        BY <2>5, <2>6, <3>2
      <4>2. CASE j \in 1..Len(s.log)
        BY <2>5, <2>6, <3>2, <4>1, <4>2 DEF InLine
      <4>3. CASE j = Len(s.log) + 1
        BY <2>4, <2>6, <2>9, <4>1, <4>3
      <4> QED BY <2>8, <4>2, <4>3
    <3> QED BY <2>6, <3>1, <3>2 DEF InLine
  <2>11. \A i \in 1..Len(log) : log[i].ordinal < s.next_ordinal + 1 /\ log[i].target_tick <= n
    <3> SUFFICES ASSUME NEW i \in 1..Len(log)
                 PROVE  log[i].ordinal < s.next_ordinal + 1 /\ log[i].target_tick <= n
      OBVIOUS
    <3>1. CASE i \in 1..Len(s.log)
      BY <2>5, <2>6, <2>9, <3>1
    <3>2. CASE i = Len(s.log) + 1
      BY <2>1, <2>4, <2>5, <2>6, <3>2
    <3> QED BY <2>8, <3>1, <3>2
  <2>12. Append(s.pending, x) = Picked(log, Nat \ Past(s), Len(log))
    <3>1. x.target_tick \in Nat \ Past(s)
      BY <2>1, <2>3, <2>4
    <3>2. s.pending = Picked(s.log, Nat \ Past(s), Len(s.log))
      BY <2>1 DEF Trail
    <3> QED BY <2>7, <3>1, <3>2 DEF Pick
  <2>13. Walk(s.trace, log)
    <3>1. Walk(s.trace, s.log) /\ Len(s.trace) = n + 1
      BY <2>1 DEF Trail, n
    <3>2. ASSUME NEW k \in 1 .. Len(s.trace) - 1
          PROVE  Picked(log, {k - 1}, Len(log)) = Picked(s.log, {k - 1}, Len(s.log))
      <4>1. n \notin {k - 1}
        BY <2>1, <3>1
      <4> QED BY <2>4, <2>7, <4>1 DEF Pick
    <3>3. ASSUME NEW k \in 1 .. Len(s.trace) - 1
          PROVE  LET step == StepWith(s.trace[k], Picked(log, {k - 1}, Len(log)), << >>) IN
                 step.answer = "Stepped" /\ step.history = s.trace[k + 1]
      <4>1. LET step == StepWith(s.trace[k], Picked(s.log, {k - 1}, Len(s.log)), << >>) IN
            step.answer = "Stepped" /\ step.history = s.trace[k + 1]
        BY <3>1, Zenon DEF Walk
      <4> QED BY <3>2, <4>1, Zenon
    <3> QED BY <3>1, <3>3, Zenon DEF Walk
  <2>14. s.next_ordinal + 1 \in Nat
    BY <2>5
  <2>15. Len(s.trace) = n + 1 /\ s.trace[n + 1] = s.history
    BY <2>1 DEF Trail, n
  <2>16. Trail(t)
    BY <2>2, <2>3, <2>10, <2>11, <2>12, <2>13, <2>14, <2>15, Zenon DEF Trail
  <2> QED BY <1>2, <2>16 DEF Logged, t
<1> QED BY <1>1, <1>2

\* The log through an action of the host.
LEMMA ActionLogged ==
  ASSUME NEW s, Session(s), Logged(s), NEW a \in Offered
  PROVE  Logged(apply_host_action(s, a))
<1> DEFINE t == apply_host_action(s, a)
<1>1. Whole(s)
  BY DEF Session, Whole
<1>2. CASE a.kind \in {"Pause", "Resume"}
  <2>1. t \in {s, set_mode(s, "Running"), set_mode(s, "Paused")}
    BY <1>2 DEF apply_host_action
  <2> QED BY <1>1, <2>1, LoggedMode
<1>3. CASE a.kind = "QueueEdit"
  <2>1. t = queue_edit(s, a.arg)
    BY <1>3 DEF apply_host_action
  <2> QED BY <2>1, EditLogged
<1>4. CASE a.kind = "Reset"
  <2>1. t = reset(s)
    BY <1>4 DEF apply_host_action
  <2>2. CASE playback /\ ~ValidAgainst(replay[1], Fresh)
    BY <2>1, <2>2 DEF reset
  <2>3. CASE ~(playback /\ ~ValidAgainst(replay[1], Fresh))
    BY <1>1, <2>1, <2>3, ResetClears, LoggedFromStart DEF Whole
  <2> QED BY <2>2, <2>3
<1>5. CASE a.kind \notin {"Pause", "Resume", "QueueEdit", "Reset"}
  <2>1. /\ t.log = s.log /\ t.next_ordinal = s.next_ordinal /\ t.pending = s.pending
        /\ t.history = s.history /\ t.trace = s.trace
    <3>1. CASE a.kind = "SetRate"
      <4>1. t = [s EXCEPT !.rate = a.arg]
        BY <3>1 DEF apply_host_action
      <4> QED BY <1>1, <4>1 DEF Whole, Fields
    <3>2. CASE a.kind = "SingleStep"
      <4>1. t \in {s, [s EXCEPT !.single = TRUE]}
        BY <3>2 DEF apply_host_action, request_single_step
      <4> QED BY <1>1, <4>1 DEF Whole, Fields
    <3>3. CASE a.kind = "SetView"
      <4>1. t \in {s, [s EXCEPT !.view = a.arg]}
        BY <3>3 DEF apply_host_action, set_view
      <4> QED BY <1>1, <4>1 DEF Whole, Fields
    <3>4. CASE a.kind = "Select"
      <4>1. t = [s EXCEPT !.selection = a.arg]
        BY <3>4 DEF apply_host_action
      <4> QED BY <1>1, <4>1 DEF Whole, Fields
    <3>5. CASE a.kind = "AddProbe"
      <4> DEFINE more == Append(s.probes, [id |-> s.next_probe, target |-> a.arg,
                                           history |-> << >>, live |-> TRUE])
      <4>1. t \in {s, [s EXCEPT !.next_probe = @ + 1, !.probes = more]}
        BY <3>5 DEF apply_host_action, add_probe
      <4> HIDE DEF more
      <4> QED BY <1>1, <4>1 DEF Whole, Fields
    <3>6. CASE a.kind = "RemoveProbe"
      <4> DEFINE less == RemoveAt(s.probes, Min({i \in DOMAIN s.probes : s.probes[i].target = a.arg}))
      <4>1. t \in {s, [s EXCEPT !.probes = less]}
        BY <3>6 DEF apply_host_action, remove_probe_target
      <4> HIDE DEF less
      <4> QED BY <1>1, <4>1 DEF Whole, Fields
    <3> QED BY <1>5, <3>1, <3>2, <3>3, <3>4, <3>5, <3>6, LaboratoryAssumption
  <2> HIDE DEF t
  <2>2. Logged(t)
    BY <2>1, LoggedAlike
  <2> QED BY <2>2 DEF t
<1> QED BY <1>2, <1>3, <1>4, <1>5

\* A step takes the edits that are due and nothing else.
LEMMA StepLogged ==
  ASSUME Playing, NEW s, Session(s), Logged(s)
  PROVE  Logged(step_once(s))
<1> DEFINE tick == next_tick(s)
           commands == IF playback THEN commands_for_tick(replay[1], tick) ELSE edits_for_tick(s)
           inputs == IF playback THEN world_inputs_for_tick(replay[1], tick) ELSE << >>
           step == StepWith(s.history, commands, inputs)
           next == step.history
           o == Observed(s, next)
           Early == playback /\ step.answer = "RunEnded" /\ ~TerminalBoundaryHolds(replay[1], tick)
<1>1. Whole(s)
  BY DEF Session, Whole
<1>2. step_once(s) = IF step.answer = "Stepped" THEN Verified(o)
                     ELSE IF Early THEN enter_fault(s, "EndedEarly")
                     ELSE enter_fault(s, step.answer)
  BY DEF step_once
<1> HIDE DEF Early
<1>3. CASE step.answer # "Stepped"
  <2> HIDE DEF step
  <2> QED BY <1>1, <1>2, <1>3, LoggedFault
<1>4. CASE step.answer = "Stepped"
  <2>1. step_once(s) = Verified(o)
    BY <1>2, <1>4
  <2>2. next = Append(s.history, [commands |-> commands, inputs |-> inputs])
    BY <1>4, StepAppends
  <2> HIDE DEF next, commands, inputs, tick
  <2>3. Whole(o)
    BY <1>1, ObservedCommutes
  <2>4. /\ o.log = s.log /\ o.next_ordinal = s.next_ordinal
        /\ o.history = next /\ o.trace = Append(s.trace, next)
        /\ o.pending = IF playback THEN s.pending ELSE edits_after_tick(s)
    BY <1>1 DEF Observed, normalize_view, Whole, Fields
  <2> HIDE DEF o
  <2>5. Logged(o)
    <3>1. CASE playback
      BY <2>4, <3>1 DEF Logged
    <3>2. CASE ~playback
      <4> DEFINE n == next_tick(s)
                 size == Len(s.log)
      <4>1. Trail(s) /\ IsList(s.history) /\ n \in Nat /\ Len(s.history) = n
        BY <3>2 DEF Logged, Session, Batched, IsList, next_tick
      <4>2. Len(next) = n + 1
        BY <2>2, <4>1, Appended
      <4>3. InLine(s.log) /\ size \in Nat /\ s.pending = Picked(s.log, Nat \ Past(s), size)
        BY <4>1 DEF Trail, InLine, IsList
      <4>4. Past(s) = 0 .. n - 1
        BY DEF Past
      <4>5. Past(o) = 0 .. n /\ next_tick(o) = n + 1
        BY <2>4, <4>1, <4>2 DEF Past, next_tick
      <4> HIDE DEF n, size
      <4>6. edits_for_tick(s) = Picked(s.log, {n}, size)
        <5> DEFINE due == Picked(s.pending, {n}, Len(s.pending))
        <5>1. edits_for_tick(s) = Sorted(due, Earlier, Len(due))
          BY DEF edits_for_tick, n
        <5>2. due = Picked(s.log, (Nat \ Past(s)) \cap {n}, size)
          BY <4>3, PickedAgain
        <5>3. (Nat \ Past(s)) \cap {n} = {n}
          BY <4>1, <4>4
        <5>4. due = Picked(s.log, {n}, size)
          BY <5>2, <5>3
        <5> HIDE DEF due
        <5>5. InLine(due)
          <6>1. size \in 0..Len(s.log)
            BY <4>3 DEF size
          <6> QED BY <4>3, <5>4, <6>1, PickedInLine
        <5> QED BY <5>1, <5>4, <5>5, LineStays
      <4>7. edits_after_tick(s) = Picked(s.log, Nat \ Past(o), size)
        <5>1. edits_after_tick(s) = Picked(s.pending, Nat \ {n}, Len(s.pending))
          BY DEF edits_after_tick, n
        <5>2. edits_after_tick(s) = Picked(s.log, (Nat \ Past(s)) \cap (Nat \ {n}), size)
          BY <4>3, <5>1, PickedAgain
        <5>3. (Nat \ Past(s)) \cap (Nat \ {n}) = Nat \ Past(o)
          BY <4>1, <4>4, <4>5
        <5> QED BY <5>2, <5>3
      <4>8. Walk(s.trace, s.log) /\ Len(s.trace) = n + 1 /\ s.trace[n + 1] = s.history
        BY <4>1 DEF Trail, n
      <4>9. /\ IsList(o.trace) /\ Len(o.trace) = (n + 1) + 1 /\ o.trace[(n + 1) + 1] = next
            /\ \A i \in 1 .. n + 1 : o.trace[i] = s.trace[i]
        BY <2>4, <4>8, Appended DEF Walk
      <4>10. next = StepWith(s.history, Picked(s.log, {n}, size), << >>).history
             /\ StepWith(s.history, Picked(s.log, {n}, size), << >>).answer = "Stepped"
        BY <1>4, <3>2, <4>6 DEF next, commands, inputs
      <4>11. Walk(o.trace, s.log)
        <5>1. o.trace[1] = Fresh
          <6>1. 1 \in 1 .. n + 1
            BY <4>1
          <6> QED BY <4>8, <4>9, <6>1 DEF Walk
        <5>2. \A k \in 1..Len(o.trace) : Len(o.trace[k]) = k - 1
          <6> SUFFICES ASSUME NEW k \in 1..Len(o.trace) PROVE Len(o.trace[k]) = k - 1
            OBVIOUS
          <6>1. k \in 1 .. n + 1 \/ k = (n + 1) + 1
            BY <4>1, <4>9
          <6>2. CASE k \in 1 .. n + 1
            BY <4>8, <4>9, <6>2 DEF Walk
          <6>3. CASE k = (n + 1) + 1
            BY <4>1, <4>2, <4>9, <6>3
          <6> QED BY <6>1, <6>2, <6>3
        <5>3. ASSUME NEW k \in 1 .. Len(o.trace) - 1
              PROVE  LET there == StepWith(o.trace[k], Picked(s.log, {k - 1}, Len(s.log)), << >>) IN
                     there.answer = "Stepped" /\ there.history = o.trace[k + 1]
          <6>1. k \in 1 .. n \/ k = n + 1
            BY <4>1, <4>9
          <6>2. CASE k \in 1 .. n
            <7>1. k \in 1 .. n + 1 /\ k + 1 \in 1 .. n + 1 /\ k \in 1 .. Len(s.trace) - 1
              BY <4>1, <4>8, <6>2
            <7>2. o.trace[k] = s.trace[k] /\ o.trace[k + 1] = s.trace[k + 1]
              BY <4>9, <7>1
            <7>3. LET there == StepWith(s.trace[k], Picked(s.log, {k - 1}, Len(s.log)), << >>) IN
                  there.answer = "Stepped" /\ there.history = s.trace[k + 1]
              BY <4>8, <7>1, Zenon DEF Walk
            <7> QED BY <7>2, <7>3, Zenon
          <6>3. CASE k = n + 1
            <7>1. k - 1 = n /\ k \in 1 .. n + 1
              BY <4>1, <6>3
            <7>2. o.trace[k] = s.history /\ o.trace[k + 1] = next
              BY <4>8, <4>9, <6>3, <7>1
            <7> QED BY <4>10, <7>1, <7>2, Zenon DEF size
          <6> QED BY <6>1, <6>2, <6>3
        <5> QED BY <4>9, <5>1, <5>2, <5>3, Zenon DEF Walk
      <4>12. \A i \in 1..Len(s.log) :
                s.log[i].ordinal < s.next_ordinal /\ s.log[i].target_tick <= n + 1
        <5> SUFFICES ASSUME NEW i \in 1..Len(s.log)
                     PROVE  s.log[i].ordinal < s.next_ordinal /\ s.log[i].target_tick <= n + 1
          OBVIOUS
        <5>1. s.log[i].target_tick \in Nat /\ s.log[i].target_tick <= n
              /\ s.log[i].ordinal < s.next_ordinal
          BY <4>1 DEF Trail, InLine, n
        <5> QED BY <4>1, <5>1
      <4>13. s.next_ordinal \in Nat
        BY <4>1 DEF Trail
      <4>14. o.pending = Picked(s.log, Nat \ Past(o), size)
        BY <2>4, <3>2, <4>7
      <4>15. Trail(o)
        BY <2>4, <4>3, <4>5, <4>9, <4>11, <4>12, <4>13, <4>14, Zenon DEF Trail, size
      <4> QED BY <3>2, <4>15 DEF Logged
    <3> QED BY <3>1, <3>2
  <2>6. \/ Verified(o) = o \/ Verified(o) = set_mode(o, "Paused")
        \/ Verified(o) = enter_fault(o, "Diverged") \/ Verified(o) = enter_fault(o, "EndedEarly")
    BY Zenon DEF Verified
  <2> QED BY <2>1, <2>3, <2>5, <2>6, LoggedMode, LoggedFault
<1> QED BY <1>3, <1>4

\* The log through any number of ticks,
LEMMA TickedLogged ==
  ASSUME Playing, NEW s, Session(s), Logged(s), NEW k \in Nat
  PROVE  Logged(Ticked(s, k))
<1> DEFINE Fails == {n \in Nat : ~Logged(Ticked(s, n))}
<1>1. SUFFICES ASSUME Fails # {} PROVE FALSE
  OBVIOUS
<1>2. PICK m \in Fails : \A j \in Fails : m <= j
  <2>1. Fails \in SUBSET Nat
    OBVIOUS
  <2> HIDE DEF Fails
  <2> QED BY <1>1, <2>1, LeastOfNats
<1>3. m # 0
  BY <1>2, TickedBySteps
<1>4. m - 1 \in Nat /\ m = (m - 1) + 1 /\ ~(m <= m - 1)
  BY <1>2, <1>3
<1> DEFINE t == Ticked(s, m - 1)
<1>5. Logged(t) /\ Session(t)
  BY <1>2, <1>4, TickedSession
<1>6. Ticked(s, (m - 1) + 1) = one_tick(t)
  BY <1>4, TickedBySteps
<1> HIDE DEF t
<1>7. one_tick(t) \in {t, set_mode(t, "Paused"), step_once(t)}
  BY DEF one_tick
<1>8. Whole(t)
  BY <1>5 DEF Session, Whole
<1>9. Logged(one_tick(t))
  BY <1>5, <1>7, <1>8, LoggedMode, StepLogged
<1> QED BY <1>2, <1>4, <1>6, <1>9

\* through a frame,
LEMMA FrameLogged ==
  ASSUME Playing, NEW s, Session(s), Logged(s), NEW elapsed \in Nat
  PROVE  Logged(advance_frame(s, elapsed))
<1> DEFINE t == Charged(s, elapsed)
<1>1. Whole(s) /\ Session(t) /\ ticks_due(s, elapsed) \in Nat
  BY ChargedSession DEF Session, Whole
<1>2. /\ t.log = s.log /\ t.next_ordinal = s.next_ordinal /\ t.pending = s.pending
      /\ t.history = s.history /\ t.trace = s.trace
  BY DEF Charged, Session, Fields
<1> HIDE DEF t
<1>3. Logged(t)
  BY <1>2, LoggedAlike
<1>4. Logged(Ticked(t, ticks_due(s, elapsed)))
  BY <1>1, <1>3, TickedLogged
<1>5. advance_frame(s, elapsed) \in {s, set_mode(s, "Paused"), Ticked(t, ticks_due(s, elapsed))}
  BY DEF advance_frame, t
<1> QED BY <1>1, <1>4, <1>5, LoggedMode

\* and through the whole queue.
LEMMA AppliedLogged ==
  ASSUME NEW s, Session(s), Logged(s), NEW queue, NEW k \in Nat, \A i \in 1..k : queue[i] \in Offered
  PROVE  Logged(Applied(s, queue, k))
<1> DEFINE Fails == {n \in 0..k : ~Logged(Applied(s, queue, n))}
<1>1. SUFFICES ASSUME Fails # {} PROVE FALSE
  OBVIOUS
<1>2. PICK m \in Fails : \A j \in Fails : m <= j
  <2>1. Fails \in SUBSET Nat
    OBVIOUS
  <2> HIDE DEF Fails
  <2> QED BY <1>1, <2>1, LeastOfNats
<1>3. m # 0
  BY <1>2, AppliedBySteps
<1>4. m - 1 \in Nat /\ m - 1 \in 0..k /\ m \in 1..k /\ m = (m - 1) + 1 /\ ~(m <= m - 1)
  BY <1>2, <1>3
<1>5. Session(Applied(s, queue, m - 1)) /\ Logged(Applied(s, queue, m - 1)) /\ queue[m] \in Offered
  <2>1. \A i \in 1..(m - 1) : queue[i] \in Offered
    BY <1>4
  <2> QED BY <1>2, <1>4, <2>1, AppliedSession
<1>6. Applied(s, queue, (m - 1) + 1) = apply_host_action(Applied(s, queue, m - 1), queue[(m - 1) + 1])
  BY <1>4, AppliedBySteps
<1> QED BY <1>2, <1>4, <1>5, <1>6, ActionLogged

-----------------------------------------------------------------------------
(* The log of a session as a replay.                                       *)

LogInv == Logged(lab)

\* The log is in step at the start.
LEMMA LogStarts == ASSUME Init PROVE LogInv
  BY NewSessionIsCleared, LoggedFromStart DEF Init, LogInv

\* And every step of the host keeps it so.
LEMMA LogGoes ==
  ASSUME LaboratoryInv, LogInv, [Next]_vars PROVE LogInv'
<1>1. ASSUME NEW a \in Offered, collect_actions(a) PROVE LogInv'
  BY <1>1 DEF collect_actions, LogInv, Logged, playback, Trail, Past, Walk
<1>2. ASSUME NEW elapsed \in Elapsed, advance_native_laboratory(elapsed) PROVE LogInv'
  <2> DEFINE s == advance_frame(Drained, elapsed)
  <2>1. lab' = s /\ replay' = replay
    BY <1>2 DEF advance_native_laboratory
  <2>2. Len(actions) \in Nat /\ \A i \in 1..Len(actions) : actions[i] \in Offered
    BY DEF LaboratoryInv
  <2>3. Session(Drained) /\ Logged(Drained) /\ Playing
    BY <2>2, AppliedSession, AppliedLogged DEF Drained, LaboratoryInv, LogInv
  <2>4. elapsed \in Nat
    BY LaboratoryAssumption
  <2>5. Logged(s)
    BY <2>3, <2>4, FrameLogged
  <2> HIDE DEF s
  <2>6. playback' <=> playback
    BY <2>1 DEF playback
  <2>7. Trail(lab)' <=> Trail(s)
    BY <2>1 DEF Trail, Past, Walk, next_tick
  <2> QED BY <2>1, <2>5, <2>6, <2>7 DEF LogInv, Logged
<1>3. CASE UNCHANGED vars
  BY <1>3 DEF vars, LogInv, Logged, playback, Trail, Past, Walk
<1> QED BY <1>1, <1>2, <1>3 DEF Next

\* The replay that a session's log and trace make.
RecordOf(s) ==
    new_normalized(Fresh, Reverse(Picked(s.log, Past(s), Len(s.log))), << >>,
                   [i \in DOMAIN s.trace |-> [next_tick |-> i - 1, state_hash |-> s.trace[i]]])

\* The parts of that replay: it is in order as the log has it, and ends at the next tick.
LEMMA RecordIs ==
  ASSUME NEW s, Session(s), Trail(s)
  PROVE  LET r == RecordOf(s)
             n == next_tick(s)
             done == Picked(s.log, Past(s), Len(s.log))
         IN  /\ n \in Nat /\ InLine(done) /\ \A i \in 1..Len(done) : done[i].target_tick \in Past(s)
             /\ r.commands = done /\ r.world_inputs = << >>
             /\ r.initial_state_hash = Fresh
             /\ IsList(r.checkpoints) /\ Len(r.checkpoints) = n + 1
             /\ \A i \in 1 .. n + 1 :
                   r.checkpoints[i] = [next_tick |-> i - 1, state_hash |-> s.trace[i]]
             /\ final_next_tick(r) = n
<1> DEFINE r == RecordOf(s)
           n == next_tick(s)
           done == Picked(s.log, Past(s), Len(s.log))
           c == [i \in DOMAIN s.trace |-> [next_tick |-> i - 1, state_hash |-> s.trace[i]]]
<1>1. n \in Nat
  BY DEF Session, Batched, IsList, next_tick
<1>2. InLine(done) /\ \A i \in 1..Len(done) : done[i].target_tick \in Past(s)
  <2>1. InLine(s.log) /\ Len(s.log) \in 0..Len(s.log)
    BY DEF Trail, InLine, IsList
  <2> QED BY <2>1, PickedInLine
<1>3. Len(s.trace) = n + 1 /\ DOMAIN s.trace = 1 .. n + 1
  BY DEF Trail, Walk, IsList
<1> HIDE DEF n
<1>4. IsList(c) /\ Len(c) = n + 1 /\ DOMAIN c = 1 .. n + 1
  <2> DEFINE e(i) == [next_tick |-> i - 1, state_hash |-> s.trace[i]]
             S == {e(i) : i \in 1 .. n + 1}
  <2>1. c = [i \in 1 .. n + 1 |-> e(i)]
    BY <1>3
  <2> HIDE DEF c, e
  <2>2. c \in [1 .. n + 1 -> S]
    BY <2>1
  <2>3. n + 1 \in Nat
    BY <1>1
  <2> HIDE DEF S
  <2>4. c \in Seq(S) /\ Len(c) = n + 1
    BY <2>2, <2>3
  <2>5. IsList(c)
    BY <2>4, SeqIsList
  <2> QED BY <2>1, <2>4, <2>5
<1>5. \A i \in 1 .. n + 1 : c[i] = [next_tick |-> i - 1, state_hash |-> s.trace[i]]
  BY <1>3
<1>6. normalize_commands(Reverse(done)) = done
  <2> HIDE DEF done
  <2> QED BY <1>2, LineSorted DEF normalize_commands
<1>7. normalize_world_inputs(<< >>) = << >>
  <2>1. Len(<< >>) = 0 /\ 0 .. 0 = {0}
    OBVIOUS
  <2> QED BY <2>1 DEF normalize_world_inputs, Sorted
<1> HIDE DEF c, done
<1>8. r = [initial_state_hash |-> Fresh, commands |-> done, world_inputs |-> << >>, checkpoints |-> c]
  BY <1>6, <1>7, Zenon DEF RecordOf, new_normalized, c, done
<1>9. r.commands = done /\ r.world_inputs = << >> /\ r.initial_state_hash = Fresh /\ r.checkpoints = c
  BY <1>8
<1> HIDE DEF r
<1>10. final_next_tick(r) = n
  <2>1. n + 1 \in 1 .. n + 1 /\ (n + 1) - 1 = n
    BY <1>1
  <2>2. Last(c) = c[n + 1]
    BY <1>4 DEF Last
  <2>3. c[n + 1].next_tick = n
    <3>1. c[n + 1] = [next_tick |-> (n + 1) - 1, state_hash |-> s.trace[n + 1]]
      BY <1>5, <2>1
    <3> HIDE DEF n
    <3>2. c[n + 1].next_tick = (n + 1) - 1
      BY <3>1
    <3> QED BY <2>1, <3>2
  <2> QED BY <1>9, <2>2, <2>3 DEF final_next_tick
<1> QED BY <1>1, <1>2, <1>4, <1>5, <1>9, <1>10 DEF r, n, done

\* A new simulation accepts it.
LEMMA RecordIsSchedule ==
  ASSUME NEW s, Session(s), Trail(s)
  PROVE  Schedule(RecordOf(s))
<1> DEFINE r == RecordOf(s)
           n == next_tick(s)
           done == Picked(s.log, Past(s), Len(s.log))
<1>1. /\ n \in Nat /\ InLine(done) /\ \A i \in 1..Len(done) : done[i].target_tick \in Past(s)
      /\ r.commands = done /\ r.world_inputs = << >>
      /\ r.initial_state_hash = Fresh
      /\ IsList(r.checkpoints) /\ Len(r.checkpoints) = n + 1
      /\ \A i \in 1 .. n + 1 :
            r.checkpoints[i] = [next_tick |-> i - 1, state_hash |-> s.trace[i]]
      /\ final_next_tick(r) = n
  BY RecordIs
<1>2. s.trace[1] = Fresh /\ Past(s) = 0 .. n - 1
  BY DEF Trail, Walk, Past
<1> HIDE DEF r, n, done
<1> DEFINE c == r.checkpoints
<1>3. /\ DOMAIN c = 1 .. n + 1 /\ \A i \in 1 .. n + 1 : c[i].next_tick = i - 1
  <2>1. DOMAIN c = 1 .. n + 1
    BY <1>1 DEF IsList
  <2>2. ASSUME NEW i \in 1 .. n + 1 PROVE c[i].next_tick = i - 1
    <3>1. c[i] = [next_tick |-> i - 1, state_hash |-> s.trace[i]]
      BY <1>1
    <3> HIDE DEF c
    <3> QED BY <3>1
  <2> QED BY <2>1, <2>2
<1>4. c # << >> /\ Head(c) = [next_tick |-> 0, state_hash |-> Fresh]
  <2>1. 1 \in 1 .. n + 1 /\ 1 - 1 = 0 /\ Len(c) # 0
    BY <1>1
  <2>2. c[1] = [next_tick |-> 0, state_hash |-> Fresh]
    BY <1>1, <1>2, <2>1
  <2>3. c # << >> /\ Head(c) = c[1]
    <3>1. c \in Seq({c[i] : i \in 1..Len(c)})
      BY <1>1, ListIsSeq
    <3>2. c # << >>
      BY <2>1
    <3> HIDE DEF c
    <3> QED BY <3>1, <3>2
  <2> QED BY <2>2, <2>3
<1>5. \A i \in 2 .. Len(c) : c[i - 1].next_tick < c[i].next_tick
  <2> SUFFICES ASSUME NEW i \in 2 .. Len(c) PROVE c[i - 1].next_tick < c[i].next_tick
    OBVIOUS
  <2>1. i - 1 \in 1 .. n + 1 /\ i \in 1 .. n + 1 /\ (i - 1) - 1 < i - 1
    BY <1>1
  <2> QED BY <1>3, <2>1
<1>6. DOMAIN r.commands = 1..Len(done) /\ \A i \in 1..Len(done) : done[i].target_tick < n
  BY <1>1, <1>2 DEF InLine, IsList
<1>7. DOMAIN r.world_inputs = {}
  BY <1>1
<1>8. valid_world_inputs(r.world_inputs)
  BY <1>7, Zenon DEF valid_world_inputs
<1>9. ValidShape(r)
  <2>1. \A i \in DOMAIN r.commands : r.commands[i].target_tick < final_next_tick(r)
    BY <1>1, <1>6
  <2>2. \A i \in DOMAIN r.world_inputs : r.world_inputs[i].target_tick < final_next_tick(r)
    BY <1>7
  <2>3. Head(r.checkpoints) = [next_tick |-> 0, state_hash |-> r.initial_state_hash]
    BY <1>1, <1>4
  <2> QED BY <1>4, <1>5, <1>8, <2>1, <2>2, <2>3, Zenon DEF ValidShape
<1>10. ValidAgainst(r, Fresh)
  BY <1>1, <1>9 DEF ValidAgainst
<1>11. \A i \in 1..Len(c) : c[i].next_tick \in Nat
  <2> SUFFICES ASSUME NEW i \in 1 .. n + 1 PROVE c[i].next_tick \in Nat
    BY <1>1
  <2>1. i - 1 \in Nat
    BY <1>1
  <2> QED BY <1>3, <2>1
<1>12. /\ IsList(done) /\ \A i \in 1..Len(done) : done[i].target_tick \in Nat
       /\ \A i, j \in 1..Len(done) : i < j => done[i].target_tick <= done[j].target_tick
  BY <1>1 DEF InLine
<1> QED BY <1>1, <1>10, <1>11, <1>12 DEF Schedule, r

\* Every step of the record happens and ends at its checkpoint.
LEMMA RecordPasses ==
  ASSUME NEW s, Session(s), Trail(s), NEW k \in 0..next_tick(s)
  PROVE  Passed(RecordOf(s), k).ok /\ Passed(RecordOf(s), k).history = s.trace[k + 1]
<1> DEFINE r == RecordOf(s)
           n == next_tick(s)
           P(m) == Passed(r, m)
           Good(m) == P(m).ok /\ P(m).history = s.trace[m + 1]
           Fails == {m \in 0..n : ~Good(m)}
           done == Picked(s.log, Past(s), Len(s.log))
<1>1. /\ n \in Nat
      /\ r.commands = done /\ r.world_inputs = << >>
      /\ IsList(r.checkpoints) /\ Len(r.checkpoints) = n + 1
      /\ \A i \in 1 .. n + 1 :
            r.checkpoints[i] = [next_tick |-> i - 1, state_hash |-> s.trace[i]]
  BY RecordIs
<1>2. Walk(s.trace, s.log) /\ Len(s.trace) = n + 1 /\ Past(s) = 0 .. n - 1 /\ Len(s.log) \in Nat
  BY DEF Trail, Past, InLine, IsList
<1> HIDE DEF n, r
<1>3. ASSUME Fails # {} PROVE FALSE
  <2>1. PICK m \in Fails : \A j \in Fails : m <= j
    <3>1. Fails \in SUBSET Nat
      BY <1>1
    <3> HIDE DEF Fails
    <3> QED BY <1>3, <3>1, LeastOfNats
  <2>2. m # 0
    <3>1. P(0) = Unstepped /\ s.trace[1] = Fresh /\ 0 + 1 = 1
      BY <1>2, PassedBySteps DEF Walk
    <3>2. Good(0)
      BY <3>1 DEF Unstepped
    <3> HIDE DEF Good
    <3> QED BY <2>1, <3>2
  <2>3. /\ m - 1 \in Nat /\ m - 1 \in 0..n /\ m = (m - 1) + 1 /\ ~(m <= m - 1)
        /\ m \in 1..Len(s.trace) /\ m \in 1 .. Len(s.trace) - 1 /\ m + 1 \in 1..Len(s.trace)
        /\ m \in Nat
    BY <1>1, <1>2, <2>1, <2>2
  <2> DEFINE p == P(m - 1)
             g == s.trace[m]
             next == s.trace[m + 1]
             commands == Picked(s.log, {m - 1}, Len(s.log))
             step == StepWith(g, commands, << >>)
  <2>4. p.ok /\ p.history = g
    <3> HIDE DEF Good
    <3>1. Good(m - 1)
      BY <2>1, <2>3
    <3> QED BY <2>3, <3>1 DEF Good
  <2>5. P(m) = PassedStep(r, p)
    <3>1. P((m - 1) + 1) = PassedStep(r, P(m - 1))
      BY <2>3, PassedBySteps
    <3> HIDE DEF P
    <3> QED BY <2>3, <3>1
  <2>6. Len(g) = m - 1 /\ Len(next) = (m + 1) - 1
    BY <1>2, <2>3 DEF Walk
  <2>7. step.answer = "Stepped" /\ step.history = next
    <3>1. LET there == StepWith(s.trace[m], Picked(s.log, {m - 1}, Len(s.log)), << >>) IN
          there.answer = "Stepped" /\ there.history = s.trace[m + 1]
      BY <1>2, <2>3, Zenon DEF Walk
    <3> QED BY <3>1, Zenon
  <2>8. commands_for_tick(r, m - 1) = commands
    <3>1. commands_for_tick(r, m - 1) = Picked(done, {m - 1}, Len(done))
      BY <1>1 DEF commands_for_tick
    <3>2. Picked(done, {m - 1}, Len(done)) = Picked(s.log, Past(s) \cap {m - 1}, Len(s.log))
      <4> DEFINE size == Len(s.log)
                 A == Past(s)
                 B == {m - 1}
      <4>1. size \in Nat
        BY <1>2
      <4> HIDE DEF size, A, B
      <4>2. LET d == Picked(s.log, A, size) IN
            Picked(d, B, Len(d)) = Picked(s.log, A \cap B, size)
        BY <4>1, PickedAgain
      <4> QED BY <4>2 DEF size, A, B
    <3>3. Past(s) \cap {m - 1} = {m - 1}
      BY <1>1, <1>2, <2>1, <2>3
    <3> QED BY <3>1, <3>2, <3>3
  <2>9. world_inputs_for_tick(r, m - 1) = << >>
    <3>1. Len(<< >>) = 0
      OBVIOUS
    <3> QED BY <1>1, <3>1, PickedBySteps DEF world_inputs_for_tick
  <2> HIDE DEF p, g, next, commands, step
  <2>10. CheckpointAgrees(r, next)
    <3> SUFFICES ASSUME NEW i \in 1 .. n + 1, r.checkpoints[i].next_tick = Len(next)
                 PROVE  r.checkpoints[i].state_hash = next
      BY <1>1 DEF CheckpointAgrees, IsList
    <3>1. r.checkpoints[i] = [next_tick |-> i - 1, state_hash |-> s.trace[i]]
      BY <1>1
    <3>2. i - 1 = (m + 1) - 1
      BY <2>6, <3>1
    <3>3. i = m + 1
      BY <1>1, <2>3, <3>2
    <3> QED BY <3>1, <3>3 DEF next
  <2>11. PassedStep(r, p) = [ok |-> p.ok /\ step.answer = "Stepped" /\ CheckpointAgrees(r, step.history),
                             history |-> step.history]
    BY <2>4, <2>6, <2>8, <2>9, Zenon DEF PassedStep, step
  <2>12. PassedStep(r, p).ok /\ PassedStep(r, p).history = next
    <3> DEFINE ok == p.ok /\ step.answer = "Stepped" /\ CheckpointAgrees(r, step.history)
    <3>1. ok
      BY <2>4, <2>7, <2>10
    <3> HIDE DEF ok
    <3> DEFINE q == PassedStep(r, p)
               after == step.history
    <3>2. q = [ok |-> ok, history |-> after]
      BY <2>11, Zenon DEF ok
    <3> HIDE DEF q, after
    <3>3. q.ok = ok /\ q.history = after
      BY <3>2
    <3> QED BY <2>7, <3>1, <3>3, Zenon DEF q, after
  <2>13. Good(m)
    <3> HIDE DEF P
    <3> QED BY <2>5, <2>12, Zenon DEF next
  <2> HIDE DEF Good
  <2> QED BY <2>1, <2>13
<1>4. Good(k)
  <2> HIDE DEF Good
  <2>1. k \notin Fails => Good(k)
    BY DEF n
  <2> HIDE DEF Fails
  <2> QED BY <1>3, <2>1
<1> QED BY <1>4 DEF r

\* So a host that runs it completes it with the trace of the session.
LEMMA RecordReplays ==
  ASSUME NEW s, Session(s), Trail(s)
  PROVE  run_replay(RecordOf(s)).verdict = "Completed" /\ run_replay(RecordOf(s)).trace = s.trace
<1> DEFINE r == RecordOf(s)
           n == next_tick(s)
           end == FixedUpdates(r, final_next_tick(r))
<1>1. /\ n \in Nat /\ final_next_tick(r) = n
      /\ IsList(r.checkpoints) /\ Len(r.checkpoints) = n + 1
      /\ \A i \in 1 .. n + 1 :
            r.checkpoints[i] = [next_tick |-> i - 1, state_hash |-> s.trace[i]]
  BY RecordIs
<1>2. Schedule(r)
  BY RecordIsSchedule
<1>3. Passes(r)
  <2>1. n \in 0..n
    BY <1>1
  <2>2. Passed(r, n).ok
    BY <2>1, RecordPasses
  <2> HIDE DEF n
  <2> QED BY <1>1, <2>2 DEF Passes
<1>4. IsList(s.trace) /\ Len(s.trace) = n + 1
  BY DEF Trail, Walk
<1> HIDE DEF r, n
<1>5. Follows(r, end, final_next_tick(r))
  <2>1. final_next_tick(r) \in Nat /\ final_next_tick(r) <= final_next_tick(r)
    BY <1>1
  <2> QED BY <1>2, <2>1, HostsTogether
<1>6. /\ run_replay(r).verdict = (IF end.verdict = "running" THEN "Completed" ELSE end.verdict)
      /\ run_replay(r).trace = end.trace
      /\ end.verdict = "running" => TraceVerified(r, end.trace)
      /\ (run_replay(r).verdict = "Completed") <=> Passes(r)
  BY <1>2, HostsConclude
<1> HIDE DEF end
<1>7. run_replay(r).verdict = "Completed"
  BY <1>3, <1>6
<1>8. end.verdict = "running"
  BY <1>5, <1>6, <1>7 DEF Follows, Verdicts
<1>9. IsList(end.trace) /\ TraceVerified(r, end.trace)
  BY <1>5, <1>6, <1>8 DEF Follows, IsRun
<1>10. end.trace = s.trace
  <2> DEFINE t == end.trace
             u == s.trace
  <2>1. Len(t) = Len(u)
    BY <1>1, <1>4, <1>9 DEF TraceVerified
  <2>2. \A i \in 1..Len(t) : t[i] = u[i]
    <3> SUFFICES ASSUME NEW i \in 1..Len(t) PROVE t[i] = u[i]
      OBVIOUS
    <3>1. i \in 1 .. n + 1 /\ i \in DOMAIN r.checkpoints
      BY <1>1, <1>4, <2>1 DEF IsList
    <3>2. t[r.checkpoints[i].next_tick + 1] = r.checkpoints[i].state_hash
      BY <1>9, <3>1 DEF TraceVerified
    <3>3. (i - 1) + 1 = i
      BY <1>1, <3>1
    <3> HIDE DEF t, u
    <3>4. r.checkpoints[i].next_tick = i - 1 /\ r.checkpoints[i].state_hash = u[i]
      <4> DEFINE c == r.checkpoints[i]
      <4>1. c = [next_tick |-> i - 1, state_hash |-> u[i]]
        BY <1>1, <3>1 DEF u
      <4> HIDE DEF c
      <4>2. c.next_tick = i - 1 /\ c.state_hash = u[i]
        BY <4>1
      <4> QED BY <4>2 DEF c
    <3> QED BY <3>2, <3>3, <3>4
  <2> HIDE DEF t, u
  <2>3. t = u
    BY <1>4, <1>9, <2>1, <2>2, SameList DEF t, u
  <2> QED BY <2>3 DEF t, u
<1> QED BY <1>6, <1>7, <1>10 DEF r

(* queue_edit, the pending edits and the log: at every moment the log and  *)
(* the trace make a replay that a fresh host completes with that very      *)
(* trace, what is pending is the rest of the log, and a reset leaves a new *)
(* session.                                                                *)
THEOREM LaboratorySessionReplays == Spec => []SessionReplays
<1>1. Init => LogInv
  BY LogStarts
<1>2. LaboratoryInv /\ LogInv /\ [Next]_vars => LogInv'
  BY LogGoes
<1>3. LaboratoryInv /\ LogInv => SessionReplays
  <2> SUFFICES ASSUME LaboratoryInv, LogInv PROVE SessionReplays
    OBVIOUS
  <2>1. Session(lab) /\ Logged(lab) /\ Whole(lab) /\ Playing
    BY DEF LaboratoryInv, LogInv, Session, Whole
  <2>2. Past(lab) = 0 .. next_tick(lab) - 1
    BY DEF Past
  <2>3. ASSUME ~playback
        PROVE  LET run == run_replay(RecordOf(lab)) IN
               /\ run.verdict = "Completed" /\ run.trace = lab.trace
               /\ lab.pending = Picked(lab.log, Nat \ Past(lab), Len(lab.log))
    <3>1. Trail(lab)
      BY <2>1, <2>3 DEF Logged
    <3> QED BY <2>1, <3>1, RecordReplays DEF Trail
  <2>4. playback => lab.log = << >>
    BY <2>1 DEF Logged
  <2>5. reset(lab) = [NewSession EXCEPT !.id = lab.id + 1]
    <3>1. ~(playback /\ ~ValidAgainst(replay[1], Fresh))
      BY <2>1 DEF Playing, playback
    <3> QED BY <2>1, <3>1, ResetIsNew DEF Whole
  <2> QED BY <2>2, <2>3, <2>4, <2>5, Zenon DEF SessionReplays, RecordOf
<1> QED BY <1>1, <1>2, <1>3, LaboratoryInvariant, PTL DEF Spec
=============================================================================
