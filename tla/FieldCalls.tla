----------------------------- MODULE FieldCalls -----------------------------
(***************************************************************************)
(* A caller of the limb code of field elements: an element t that is       *)
(* negated, scaled, added to, multiplied, normalised and converted in any  *)
(* order that keeps the magnitude contracts of field.h.  Next to the limbs *)
(* it keeps the magnitude m and the flag n that a VERIFY build would, and  *)
(* the residue v that the element should stand for.                        *)
(***************************************************************************)
EXTENDS Field10x26

CONSTANTS
    MulMagnitude,  \* what fe_mul takes, 8
    MaxMagnitude,  \* what the other functions take, 32
    LimbStarts,    \* per limb, values to start from (offsets from its end)
    Others,        \* limbs of second operands
    MaxSteps       \* bound on the number of calls

VARIABLES t, m, n, v, steps

vars == <<t, m, n, v, steps>>

M5x52 == INSTANCE Field5x52
FeMul(a, b) == IF Fold1 = 0 THEN M5x52!MulInner5x52(a, b) ELSE MulInner10x26(a, b)
FeSqr(a) == IF Fold1 = 0 THEN M5x52!SqrInner5x52(a) ELSE SqrInner10x26(a)

-----------------------------------------------------------------------------
(* Residues, computed without leaving the integers below four times the    *)
(* prime: a product goes over the digits of k in base 4.                   *)
Top == TopBase * LimbBase ^ (Limbs - 1)
Prime == Top - Fold0 - Fold1 * LimbBase

Times(x, k) ==
    LET product[j \in 0 .. 15] ==
            IF j = 15 THEN 0
            ELSE (((((k \div 4 ^ j) % 4) * x) % Prime) + ((4 * product[j + 1]) % Prime)) % Prime
    IN  product[0]

(* The residue that limbs stand for, from the last limb down.              *)
ValueOf(u) ==
    LET value[i \in 1 .. Limbs + 1] ==
            IF i > Limbs THEN 0 ELSE (Times(LimbBase, value[i + 1]) + u[i]) % Prime
    IN  value[1]

-----------------------------------------------------------------------------
StartsOf(i) == {(k + BaseOf(i)) % BaseOf(i) : k \in LimbStarts}
Starts == {u \in [1 .. Limbs -> UNION {StartsOf(i) : i \in 1 .. Limbs}] :
                         \A i \in 1 .. Limbs : u[i] \in StartsOf(i)}

(* fe_set_b32 of 32 bytes below the prime.                                 *)
Init ==
    /\ t \in Starts /\ FeSetB32Ok(FeGetB32(t))
    /\ m = 1 /\ n = TRUE /\ v = ValueOf(t) /\ steps = 0

Call(u, magnitude, normalized, value) ==
    /\ steps < MaxSteps
    /\ t' = u /\ m' = magnitude /\ n' = normalized /\ v' = value % Prime
    /\ steps' = steps + 1

Normalize == Call(FeNormalize(t), 1, TRUE, v)
NormalizeVar == Call(FeNormalizeVar(t), 1, TRUE, v)
NormalizeWeak == Call(FeNormalizeWeak(t), 1, n, v)
Negate == m < MaxMagnitude /\ Call(FeNegate(t, m), m + 1, FALSE, Prime - v)
MulInt == \E k \in 2 .. MaxMagnitude :
             m * k <= MaxMagnitude /\ Call(FeMulInt(t, k), m * k, FALSE, Times(v, k))
Add == \/ \E u \in Others : m < MaxMagnitude /\ Call(FeAdd(t, u), m + 1, FALSE, v + ValueOf(u))
       \/ 2 * m <= MaxMagnitude /\ Call(FeAdd(t, t), 2 * m, FALSE, 2 * v)
Mul == m <= MulMagnitude /\ \E u \in Others : Call(FeMul(t, u), 1, FALSE, Times(v, ValueOf(u)))
Sqr == m <= MulMagnitude /\ (\/ Call(FeSqr(t), 1, FALSE, Times(v, v))
                             \/ Call(FeMul(t, t), 1, FALSE, Times(v, v)))
Cmov == \E u \in Others, flag \in BOOLEAN :
           Call(FeCmov(t, u, flag), m, n /\ Canonical(u), IF flag THEN ValueOf(u) ELSE v)
Store == n /\ Call(FeFromStorage(FeToStorage(t)), 1, TRUE, v)
Encode == n /\ Call(FeSetB32(FeGetB32(t)), 1, TRUE, v)

Next == \/ Normalize \/ NormalizeVar \/ NormalizeWeak \/ Negate \/ MulInt \/ Add \/ Mul \/ Sqr
        \/ Cmov \/ Store \/ Encode

Spec == Init /\ [][Next]_vars

LimbsRight ==
    /\ Within(t, m)
    /\ n => Canonical(t)
    /\ ValueOf(t) = v
AnswersRight ==
    /\ FeNormalizesToZero(t) <=> v = 0
    /\ FeNormalizesToZeroVar(t) <=> v = 0
    /\ n => /\ FeIsZero(t) <=> v = 0
            /\ FeIsOdd(t) <=> v % 2 = 1
            /\ FeSetB32Ok(FeGetB32(t))
            /\ \A u \in {w \in Others : Canonical(w)} :
                  FeCmpVar(t, u) = (IF v = ValueOf(u) THEN 0 ELSE IF v > ValueOf(u) THEN 1 ELSE -1)

(* The limbs always stand for the residue that the calls add up to, and    *)
(* never exceed what the magnitude allows, so that no word or accumulator  *)
(* has wrapped: carries through all limbs, values from the prime to 2^256, *)
(* the fold of the excess that itself carries, the largest products.  The  *)
(* tests answer for the residue and not for its limbs: both tests for      *)
(* zero, which look at unnormalised limbs, and on normalised limbs the     *)
(* order, the parity and whether an encoding is below the prime.           *)
FieldSound == LimbsRight /\ AnswersRight
=============================================================================
