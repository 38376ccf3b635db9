---------------------------- MODULE WideIntegers ----------------------------
(***************************************************************************)
(* The limb arithmetic that structural_geometry.rs uses where a product    *)
(* leaves 128 bits: U256, U512 and SignedWide.  A limb is a digit below    *)
(* Base (2^64 in the code), a wide digit below Base * Base is what the     *)
(* u128 of the code holds; a number is its digits, least first.            *)
(*                                                                         *)
(* contact.rs and sensing.rs have copies of the same arithmetic; the one   *)
(* difference is how contact.rs ends a row of the product of U512.  That   *)
(* multiplication is run loop by loop; the rest is operators.              *)
(***************************************************************************)
EXTENDS Integers, FiniteSetsExt, SequencesExt

CONSTANTS
    Base,       \* values of a limb
    Digits      \* digits to try

WideAssumption == Base \in Nat \ {0, 1} /\ Digits \subseteq 0..Base - 1

Limbs == 0..Base - 1
Wide == 0..Base * Base - 1
low(w) == w % Base
high(w) == w \div Base
\* What fits no u128 wraps in it.
Wrapped(w) == w % (Base * Base)

Value(n) == FoldLeft(LAMBDA v, i : v + n[i] * Base ^ (i - 1), 0, [i \in 1..Len(n) |-> i])

\* Schoolbook product of two wide digits.
multiply_u128(l, r) ==
    LET ll == low(l) * low(r)   lh == low(l) * high(r)
        hl == high(l) * low(r)  hh == high(l) * high(r)
        middle == Wrapped(high(ll) + low(lh) + low(hl))
        upper == Wrapped(high(lh) + high(hl) + low(hh) + high(middle))
    IN  <<low(ll), low(middle), low(upper), low(high(hh) + high(upper))>>

None == <<>>
\* Two additions that may each overflow a limb make the carry.
checked_add_FirstCarry(m, n) ==
    LET sum == FoldLeft(LAMBDA s, i :
                   [digits |-> Append(s.digits, low(low(m[i] + n[i]) + s.carry)),
                    carry |-> IF m[i] + n[i] >= Base THEN 1 ELSE 0],
                   [digits |-> <<>>, carry |-> 0], [i \in 1..Len(m) |-> i])
    IN  IF sum.carry = 1 THEN None ELSE sum.digits
checked_add(m, n) ==
    LET sum == FoldLeft(LAMBDA s, i :
                   [digits |-> Append(s.digits, low(low(m[i] + n[i]) + s.carry)),
                    carry |-> IF m[i] + n[i] >= Base \/ low(m[i] + n[i]) + s.carry >= Base
                              THEN 1 ELSE 0],
                   [digits |-> <<>>, carry |-> 0], [i \in 1..Len(m) |-> i])
    IN  IF sum.carry = 1 THEN None ELSE sum.digits
checked_sub(m, n) ==
    LET rest == FoldLeft(LAMBDA s, i :
                   [digits |-> Append(s.digits, low(low(m[i] - n[i]) - s.borrow)),
                    borrow |-> IF m[i] < n[i] \/ low(m[i] - n[i]) < s.borrow THEN 1 ELSE 0],
                   [digits |-> <<>>, borrow |-> 0], [i \in 1..Len(m) |-> i])
    IN  IF rest.borrow = 1 THEN None ELSE rest.digits
\* The highest limb that differs decides.
Below(m, n) ==
    \E i \in 1..Len(m) : m[i] < n[i] /\ \A j \in i + 1..Len(m) : m[j] = n[j]

\* SignedWide: zero is not negative.
from_parts_SignedZero(negative, magnitude) == [negative |-> negative, magnitude |-> magnitude]
from_parts(negative, magnitude) ==
    [negative |-> negative /\ Value(magnitude) # 0, magnitude |-> magnitude]
product(l, r) ==
    from_parts((l < 0) # (r < 0), multiply_u128(IF l < 0 THEN -l ELSE l, IF r < 0 THEN -r ELSE r))
signed_add(a, b) ==
    IF a.negative = b.negative THEN from_parts(a.negative, checked_add(a.magnitude, b.magnitude))
    ELSE IF a.magnitude = b.magnitude THEN from_parts(FALSE, [i \in DOMAIN a.magnitude |-> 0])
    ELSE IF Below(a.magnitude, b.magnitude)
    THEN from_parts(b.negative, checked_sub(b.magnitude, a.magnitude))
    ELSE from_parts(a.negative, checked_sub(a.magnitude, b.magnitude))
signed_sub(a, b) == signed_add(a, from_parts(~b.negative, b.magnitude))
cmp_signed(a, b) ==
    IF a.negative # b.negative THEN a.negative
    ELSE IF a.negative THEN Below(b.magnitude, a.magnitude) ELSE Below(a.magnitude, b.magnitude)
SignedValue(a) == IF a.negative THEN -Value(a.magnitude) ELSE Value(a.magnitude)

-----------------------------------------------------------------------------

VARIABLES
    left, right,    \* the factors, of four limbs
    direct,         \* the copy of contact.rs
    output,         \* of eight
    row, column,    \* indices of the loops; column 5 when a row is done
    carry           \* wide digit of u128

vars == <<left, right, direct, output, row, column, carry>>

Numbers == [1..4 -> Digits]
Init ==
    /\ left \in Numbers /\ right \in Numbers /\ direct \in BOOLEAN
    /\ output = [i \in 1..8 |-> 0] /\ row = 1 /\ column = 1 /\ carry = 0

Running == row <= 4
MultiplyLimb ==
    /\ Running /\ column <= 4
    /\ LET at == row + column - 1
           total == Wrapped(left[row] * right[column] + output[at] + carry)
       IN  output' = [output EXCEPT ![at] = low(total)] /\ carry' = high(total)
    /\ column' = column + 1
    /\ UNCHANGED <<left, right, direct, row>>

NextRow_DropsCarry ==
    /\ Running /\ column > 4
    /\ row' = row + 1 /\ column' = 1 /\ carry' = 0
    /\ UNCHANGED <<left, right, direct, output>>
\* What a row carries out goes up until nothing is left of it.
CarryOut ==
    /\ Running /\ column > 4 /\ carry # 0 /\ ~direct
    /\ LET total == Wrapped(output[row + column - 1] + carry)
       IN  output' = [output EXCEPT ![row + column - 1] = low(total)] /\ carry' = high(total)
    /\ column' = column + 1
    /\ UNCHANGED <<left, right, direct, row>>
\* The limb above a row has not been written yet: the carry is put there.
StoreCarry ==
    /\ Running /\ column > 4 /\ carry # 0 /\ direct
    /\ output' = [output EXCEPT ![row + 4] = low(carry)] /\ carry' = 0
    /\ UNCHANGED <<left, right, direct, row, column>>
NextRow ==
    /\ Running /\ column > 4 /\ carry = 0
    /\ row' = row + 1 /\ column' = 1 /\ carry' = 0
    /\ UNCHANGED <<left, right, direct, output>>

Next == MultiplyLimb \/ CarryOut \/ StoreCarry \/ NextRow
Spec == Init /\ [][Next]_vars

-----------------------------------------------------------------------------

First(n, k) == Value(SubSeq(n, 1, IF k < 4 THEN k ELSE 4))

\* What has been multiplied is in output and carry, digit for digit: no row
\* and no carry is lost, and none leaves the eight limbs.
ProductSoFar ==
    /\ output \in [1..8 -> Limbs] /\ carry \in Wide
    /\ Running /\ carry # 0 => row + column - 1 <= 8
    /\ Value(output) + carry * Base ^ (row + column - 2) =
           First(left, row - 1) * Value(right)
           + (IF Running THEN left[row] * First(right, column - 1) * Base ^ (row - 1) ELSE 0)

Fresh == row = 1 /\ column = 1
IsSum(n, value) == IF value \in 0..Base ^ 4 - 1 THEN n # None /\ Value(n) = value ELSE n = None
Halves(n) == <<n[1] + n[2] * Base, n[3] + n[4] * Base>>
\* Coordinates of the code leave room for the sum of two products.
Signed(n) == LET h == Halves(n) IN {<<i * h[1], j * h[2]>> : i, j \in {-1, 1}}

\* Sums and differences are exact or refused, products of half width exact,
\* and the order is that of the numbers.
LimbsAreExact ==
    Fresh =>
    /\ IsSum(checked_add(left, right), Value(left) + Value(right))
    /\ IsSum(checked_sub(left, right), Value(left) - Value(right))
    /\ Value(multiply_u128(Halves(left)[1], Halves(right)[2])) = Halves(left)[1] * Halves(right)[2]
    /\ Below(left, right) <=> Value(left) < Value(right)

\* Cross and dot products come out as the integers they are, with zero never
\* negative, so that equal values are equal records and a turn or a distance
\* of zero is not taken for one to the left or to the right.
CrossProductsAreExact ==
    Fresh =>
    \A u \in Signed(left), v \in Signed(right) :
        LET p == product(u[1], v[2])
            q == product(u[2], v[1])
        IN  /\ checked_add(p.magnitude, q.magnitude) # None =>
                   /\ SignedValue(signed_sub(p, q)) = u[1] * v[2] - u[2] * v[1]
                   /\ signed_sub(p, q).negative => SignedValue(signed_sub(p, q)) # 0
                   /\ SignedValue(signed_add(p, q)) = u[1] * v[2] + u[2] * v[1]
            /\ cmp_signed(p, q) <=> u[1] * v[2] < u[2] * v[1]
=============================================================================
