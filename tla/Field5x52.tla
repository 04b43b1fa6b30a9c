----------------------------- MODULE Field5x52 -----------------------------
(***************************************************************************)
(* Multiplication and squaring of field_5x52_int128_impl.h, the code that  *)
(* a 64-bit build compiles: the columns p0 .. p8 of the product go through *)
(* two 128-bit accumulators c and d, and every limb above the fifth comes  *)
(* back multiplied by R5x52.                                               *)
(***************************************************************************)
EXTENDS Integers

CONSTANTS
    LimbBase,   \* 2^52
    TopBase,    \* 2^48
    CutBase,    \* 2^4
    Fold0,      \* 0x1000003D1
    WordBase,   \* 2^64
    AccBase     \* 2^128

Wrapped(x) == x % WordBase
Acc(x) == x % AccBase
R5x52 == Fold0 * CutBase

(* The columns of the product and of the square.                           *)
MulColumns(a, b) ==
    <<a[1] * b[1],
      a[1] * b[2] + a[2] * b[1],
      a[1] * b[3] + a[2] * b[2] + a[3] * b[1],
      a[1] * b[4] + a[2] * b[3] + a[3] * b[2] + a[4] * b[1],
      a[1] * b[5] + a[2] * b[4] + a[3] * b[3] + a[4] * b[2] + a[5] * b[1],
      a[2] * b[5] + a[3] * b[4] + a[4] * b[3] + a[5] * b[2],
      a[3] * b[5] + a[4] * b[4] + a[5] * b[3],
      a[4] * b[5] + a[5] * b[4],
      a[5] * b[5]>>

SqrColumns(a) ==
    LET a0 == Wrapped(a[1] * 2)
        a4 == Wrapped(a[5] * 2)
    IN  <<a[1] * a[1],
          a0 * a[2],
          a0 * a[3] + a[2] * a[2],
          Wrapped(a[1] * 2) * a[4] + Wrapped(a[2] * 2) * a[3],
          a[1] * a4 + Wrapped(a[2] * 2) * a[4] + a[3] * a[3],
          a[2] * a4 + Wrapped(a[3] * 2) * a[4],
          a[3] * a4 + a[4] * a[4],
          a[4] * a4,
          a[5] * a[5]>>

(* Columns 3, 8 and 4: limbs t3 and t4, of which the bits above 256 (tx)   *)
(* are set aside.                                                          *)
UpperPart(p) ==
    LET d3 == Acc(p[4] + (p[9] % LimbBase) * R5x52)
        d4 == Acc((d3 \div LimbBase) + p[5] + (p[9] \div LimbBase) * R5x52)
        t4 == d4 % LimbBase
    IN  [t3 |-> d3 % LimbBase, t4 |-> t4 % TopBase, tx |-> t4 \div TopBase, d |-> d4 \div LimbBase]

(* Columns 0 and 5: u0 and tx join to a limb that counts from bit 256.     *)
LowestPart(p, s) ==
    LET d5 == Acc(s.d + p[6])
        u0 == Wrapped((d5 % LimbBase) * CutBase + s.tx)
        c0 == Acc(p[1] + u0 * Fold0)
    IN  [r |-> c0 % LimbBase, c |-> c0 \div LimbBase, d |-> d5 \div LimbBase]

(* Column k from below with column k + 5 from above, k = 1, 2.             *)
MiddlePart(low, high, s) ==
    LET d == Acc(s.d + high)
        c == Acc(s.c + low + (d % LimbBase) * R5x52)
    IN  [r |-> c % LimbBase, c |-> c \div LimbBase, d |-> d \div LimbBase]

Reduce5x52(p) ==
    LET up == UpperPart(p)
        s0 == LowestPart(p, up)
        s1 == MiddlePart(p[2], p[7], s0)
        s2 == MiddlePart(p[3], p[8], s1)
        c3 == Acc(s2.c + s2.d * R5x52 + up.t3)
    IN  <<s0.r, s1.r, s2.r, c3 % LimbBase, Wrapped((c3 \div LimbBase) + up.t4)>>

MulInner5x52(a, b) == Reduce5x52(MulColumns(a, b))
SqrInner5x52(a) == Reduce5x52(SqrColumns(a))
=============================================================================
