---------------------------- MODULE ScalarCalls ----------------------------
(***************************************************************************)
(* A caller of the limb code of scalars: a scalar t that is negated, added *)
(* to, multiplied, shifted and converted in any order.  Next to the limbs  *)
(* it keeps the residue v that they should stand for, and told, whether    *)
(* the last call reported an overflow exactly when it met one.             *)
(***************************************************************************)
EXTENDS ScalarRep

CONSTANTS
    Starts,     \* what the 32 bytes to start from encode
    Others,     \* second operands, as integers
    MaxShift,   \* the shifts of scalar_shr_int, 15
    MaxSteps    \* bound on the number of calls

VARIABLES t, v, told, steps

vars == <<t, v, told, steps>>

-----------------------------------------------------------------------------
Bits == Limbs * LimbBits
Top == 2 ^ Bits
ValueOf(a) == SumOver([i \in Limb |-> a[i] * Base ^ (i - 1)])
OrderValue == Top - SumOver([i \in 1 .. Half + 1 |-> OrderC[i] * Base ^ (i - 1)])
LimbsOf(x) == [i \in Limb |-> (x \div Base ^ (i - 1)) % Base]
BytesFor(x) == ScalarGetB32(LimbsOf(x))

(* scalar_set_b32, also of bytes beyond the order.                         *)
Init ==
    \E x \in Starts :
        /\ t = ScalarSetB32(BytesFor(x))
        /\ told = (ScalarSetB32Overflow(BytesFor(x)) = 1 <=> x >= OrderValue)
        /\ v = x % OrderValue
        /\ steps = 0

Call(a, x, right) ==
    /\ steps < MaxSteps
    /\ t' = a /\ v' = x % OrderValue /\ told' = right
    /\ steps' = steps + 1

Negate == Call(ScalarNegate(t), OrderValue - v, TRUE)
CondNegate == \E flag \in BOOLEAN :
    Call(ScalarCondNegate(t, flag), IF flag THEN OrderValue - v ELSE v, TRUE)
Add == \E x \in Others :
    Call(ScalarAdd(t, LimbsOf(x)), v + x,
         ScalarAddOverflow(t, LimbsOf(x)) = 1 <=> v + x >= OrderValue)
Mul == \E x \in Others : Call(ScalarMul(t, LimbsOf(x)), v * x, TRUE)
Sqr == Call(ScalarSqr(t), v * v, TRUE) \/ Call(ScalarMul(t, t), v * v, TRUE)
CaddBit == \E bit \in 0 .. Bits - 1, flag \in BOOLEAN :
    /\ v + 2 ^ bit < OrderValue
    /\ Call(ScalarCaddBit(t, bit, flag), IF flag THEN v + 2 ^ bit ELSE v, TRUE)
ShrInt == \E k \in 1 .. MaxShift : Call(ScalarShrInt(t, k), v \div 2 ^ k, TRUE)
MulShift == \E x \in Others, shift \in Bits .. Bits + LimbBits + 1 :
    Call(ScalarMulShiftVar(t, LimbsOf(x), shift),
         ((v * x) \div 2 ^ shift) + (((v * x) \div 2 ^ (shift - 1)) % 2), TRUE)
Split == \/ Call(ScalarSplit128(t)[1], v % 2 ^ (Bits \div 2), TRUE)
         \/ Call(ScalarSplit128(t)[2], v \div 2 ^ (Bits \div 2), TRUE)
Encode == Call(ScalarSetB32(ScalarGetB32(t)), v, ScalarSetB32Overflow(ScalarGetB32(t)) = 0)

Next == \/ Negate \/ CondNegate \/ Add \/ Mul \/ Sqr \/ CaddBit \/ ShrInt \/ MulShift
        \/ Split \/ Encode

Spec == Init /\ [][Next]_vars

AnswersRight ==
    /\ told
    /\ ScalarIsZero(t) <=> v = 0
    /\ ScalarIsOne(t) <=> v = 1
    /\ ScalarIsEven(t) <=> v % 2 = 0
    /\ ScalarIsHigh(t) <=> v > OrderValue \div 2
    /\ ScalarCheckOverflow(t) = 0
    /\ \A x \in Others : ScalarEq(t, LimbsOf(x)) <=> v = x
    /\ \A offset \in 0 .. Bits - 1, count \in 1 .. LimbBits :
        offset + count <= Bits =>
            ScalarGetBitsVar(t, offset, count) = (v \div 2 ^ offset) % 2 ^ count

(* The limbs are always those of the residue below the order that the      *)
(* calls add up to: carries through every limb, the three folds of a       *)
(* product of 512 bits, the doubled products of a square, the last         *)
(* subtraction of the order, the negation of 0.  The tests answer for that *)
(* residue: overflow, zero, one, parity, upper half of the order (which    *)
(* decides about the s of every signature), each group of bits also across *)
(* two limbs.                                                              *)
ScalarSound == t = LimbsOf(v) /\ AnswersRight
=============================================================================
