------------------------------ MODULE Numeric ------------------------------
(***************************************************************************)
(* Integer arithmetic of crates/aon-sim/src/numeric.rs: divisions with a   *)
(* stated rounding.  The code's wide integers make every intermediate      *)
(* result exact; results that leave their width are errors of the step and *)
(* outside the bounds of the models.                                       *)
(***************************************************************************)
EXTENDS Integers, Sequences

\* Smallest integer not below n / d.
CeilQuotient(n, d) == (n + d - 1) \div d

\* Nearest integer to n / d; a tie goes to the even neighbour.
RoundDivNearestEven(n, d) ==
    LET floor == n \div d
        toFloor == n % d
        toCeil == d - toFloor
    IN  IF toFloor < toCeil \/ (toFloor = toCeil /\ floor % 2 = 0)
        THEN floor ELSE floor + 1

\* Smallest r whose square reaches value.
CeilIsqrt(value) ==
    CHOOSE r \in 0..value : r * r >= value /\ (r = 0 \/ (r - 1) * (r - 1) < value)

\* Lexicographic order of sequences of naturals, a proper prefix first.
LexLess(s, t) ==
    \/ /\ Len(s) < Len(t) /\ \A i \in 1..Len(s) : s[i] = t[i]
    \/ \E i \in 1..Len(s) :
           /\ i <= Len(t) /\ s[i] < t[i]
           /\ \A j \in 1..i - 1 : s[j] = t[j]
=============================================================================
