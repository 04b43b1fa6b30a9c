------------------------------- MODULE Scalar -------------------------------
(***************************************************************************)
(* Scalars as their users see them (libsecp256k1/src/scalar.h): integers   *)
(* modulo the group order N, read as a word of ScalarBits bits, and the    *)
(* functions of scalar_impl.h on them.  Module ScalarRep models the limbs  *)
(* behind this type.                                                       *)
(***************************************************************************)
EXTENDS Integers

CONSTANTS
    N,             \* the group order, an odd number below 2^ScalarBits
    ScalarBits,    \* 256 in the code
    Lambda         \* the multiplier of the endomorphism

HalfBits == ScalarBits \div 2

ScalarNegate(a) == (N - a) % N
ScalarIsHigh(a) == a > N \div 2
ScalarCondNegate(a, flag) == IF flag THEN ScalarNegate(a) ELSE a
ScalarGetBits(a, offset, count) == (a \div 2 ^ offset) % 2 ^ count
ScalarShrInt(a, n) == a \div 2 ^ n
ScalarCaddBit(a, bit, flag) == IF flag THEN a + 2 ^ bit ELSE a

(* a * b / 2^shift, rounded to the nearest integer.                        *)
ScalarMulShiftVar(a, b, shift) ==
    ((a * b) \div 2 ^ shift) + (((a * b) \div 2 ^ (shift - 1)) % 2)

ScalarSplit128(a) == <<a % 2 ^ HalfBits, a \div 2 ^ HalfBits>>
=============================================================================
