----------------------------- MODULE ScalarRep -----------------------------
(***************************************************************************)
(* The limbs of a scalar, for the two representations of libsecp256k1:     *)
(* eight 32-bit words (scalar_8x32_impl.h) and four 64-bit words           *)
(* (scalar_4x64_impl.h, without the assembler).  Both files have the same  *)
(* functions with the loops unrolled; they differ in the constants below.  *)
(* Scalars are always reduced modulo the group order.                      *)
(***************************************************************************)
EXTENDS Integers, Sequences, SequencesExt

CONSTANTS
    Limbs,       \* 8 or 4
    LimbBits,    \* 32 or 64
    LimbBytes,   \* 4 or 8
    ByteBase,    \* 2^8
    OrderC       \* limbs of 2^256 minus the order: Limbs / 2 of them and a 1

Base == 2 ^ LimbBits
Half == Limbs \div 2
Wrapped(x) == x % Base
Limb == 1 .. Limbs
C(i) == IF i <= Half + 1 THEN OrderC[i] ELSE 0

(* Carries through sums of limbs; what leaves the last one is the carry.   *)
AddLimbs(sum) ==
    LET full[i \in Limb] == IF i = 1 THEN sum[1] ELSE sum[i] + (full[i - 1] \div Base)
        all == [i \in Limb |-> full[i]]
    IN  [out |-> [i \in Limb |-> Wrapped(all[i])], carry |-> all[Limbs] \div Base]

(* SECP256K1_N_0.. and SECP256K1_N_H_0..                                   *)
Order == AddLimbs([i \in Limb |-> (Base - 1 - C(i)) + (IF i = 1 THEN 1 ELSE 0)]).out
HalfOrder == [i \in Limb |-> (Order[i] \div 2) +
                 (IF i < Limbs THEN (Order[i + 1] % 2) * (Base \div 2) ELSE 0)]

(* The running yes and no of the comparisons, from the last limb down.     *)
Exceeds(a, u) == \E i \in Limb : a[i] > u[i] /\ \A j \in i + 1 .. Limbs : a[j] >= u[j]
ScalarIsHigh(a) == Exceeds(a, HalfOrder)

(* Mutant: the order itself is taken for a scalar.                         *)
ScalarCheckOverflowAbove(a) == IF Exceeds(a, Order) THEN 1 ELSE 0

ScalarCheckOverflow(a) == IF a = Order \/ Exceeds(a, Order) THEN 1 ELSE 0

ScalarClear == [i \in Limb |-> 0]
ScalarSetInt(k) == [i \in Limb |-> IF i = 1 THEN k ELSE 0]
ScalarIsZero(a) == \A i \in Limb : a[i] = 0
ScalarIsOne(a) == a = ScalarSetInt(1)
ScalarIsEven(a) == a[1] % 2 = 0
ScalarEq(a, b) == \A i \in Limb : a[i] = b[i]

ScalarReduce(r, overflow) ==
    AddLimbs([i \in Limb |-> r[i] + Wrapped(overflow * C(i))]).out

AddOverflow(s) == s.carry + ScalarCheckOverflow(s.out)
ScalarAdd(a, b) ==
    LET s == AddLimbs([i \in Limb |-> a[i] + b[i]]) IN ScalarReduce(s.out, AddOverflow(s))
ScalarAddOverflow(a, b) == AddOverflow(AddLimbs([i \in Limb |-> a[i] + b[i]]))

(* Without a flag the bit moves beyond the last limb.                      *)
ScalarCaddBit(r, bit, flag) ==
    LET at == bit + (IF flag THEN 0 ELSE Limbs * LimbBits)
    IN  AddLimbs([i \in Limb |-> r[i] + (IF at \div LimbBits = i - 1 THEN 2 ^ (at % LimbBits) ELSE 0)]).out

(* The order minus a, as the complement of a plus the order plus 1.        *)
ScalarNegate(a) ==
    LET t == AddLimbs([i \in Limb |-> (Base - 1 - a[i]) + Order[i] + (IF i = 1 THEN 1 ELSE 0)])
    IN  IF ScalarIsZero(a) THEN ScalarClear ELSE t.out
ScalarCondNegate(a, flag) == IF flag THEN ScalarNegate(a) ELSE a

-----------------------------------------------------------------------------
(* Bits, bytes and shifts.                                                 *)
ScalarGetBits(a, offset, count) ==
    (a[(offset \div LimbBits) + 1] \div 2 ^ (offset % LimbBits)) % 2 ^ count
ScalarGetBitsVar(a, offset, count) ==
    LET i == (offset \div LimbBits) + 1
        shift == offset % LimbBits
    IN  IF (offset + count - 1) \div LimbBits = offset \div LimbBits
        THEN ScalarGetBits(a, offset, count)
        ELSE ((a[i] \div 2 ^ shift) + Wrapped(a[i + 1] * 2 ^ (LimbBits - shift))) % 2 ^ count

SumOver(f) == FoldFunction(+, 0, f)
BytesOf(bytes) ==
    [i \in Limb |-> SumOver([j \in 0 .. LimbBytes - 1 |->
                                bytes[(Limbs - i + 1) * LimbBytes - j] * ByteBase ^ j])]
ScalarSetB32(bytes) == ScalarReduce(BytesOf(bytes), ScalarCheckOverflow(BytesOf(bytes)))
ScalarSetB32Overflow(bytes) == ScalarCheckOverflow(BytesOf(bytes))
ScalarGetB32(a) ==
    [b \in 1 .. Limbs * LimbBytes |->
        (a[Limbs - ((b - 1) \div LimbBytes)]
            \div ByteBase ^ (LimbBytes - 1 - ((b - 1) % LimbBytes))) % ByteBase]

ScalarShrInt(a, n) ==
    [i \in Limb |-> (a[i] \div 2 ^ n) +
        (IF i < Limbs THEN Wrapped(a[i + 1] * 2 ^ (LimbBits - n)) ELSE 0)]
ScalarSplit128(a) ==
    <<[i \in Limb |-> IF i <= Half THEN a[i] ELSE 0],
      [i \in Limb |-> IF i <= Half THEN a[i + Half] ELSE 0]>>

-----------------------------------------------------------------------------
(* Multiplication, on an accumulator of the three words c0, c1 and c2.     *)
(* The fast forms take for granted that c1 does not overflow.              *)
Over(sum, added) == IF Wrapped(sum) < added THEN 1 ELSE 0

SumAdd(c, a, fast) ==
    LET over == Over(c[1] + a, a)
    IN  <<Wrapped(c[1] + a), Wrapped(c[2] + over), IF fast THEN c[3] ELSE c[3] + Over(c[2] + over, over)>>

MulAdd(c, a, b, fast) ==
    LET tl == Wrapped(a * b)
        th == Wrapped(((a * b) \div Base) + Over(c[1] + tl, tl))
    IN  <<Wrapped(c[1] + tl), Wrapped(c[2] + th), IF fast THEN c[3] ELSE c[3] + Over(c[2] + th, th)>>

(* Twice the product: doubling and each addition may carry.                *)
MulAdd2(c, a, b) ==
    LET tl == Wrapped(a * b)
        th == (a * b) \div Base
        tl2 == Wrapped(tl + tl)
        th2 == Wrapped(Wrapped(th + th) + Over(tl + tl, tl))
        low == Over(c[1] + tl2, tl2)
        th3 == Wrapped(th2 + low)
    IN  <<Wrapped(c[1] + tl2), Wrapped(c[2] + th3),
          c[3] + Over(th + th, th) + (IF low = 1 /\ th3 = 0 THEN 1 ELSE 0) + Over(c[2] + th3, th3)>>

(* The lowest word goes out, and the others move down.                     *)
Extract(r, c) == [out |-> Append(r.out, c[1]), c |-> <<c[2], c[3], 0>>]

(* The words that columns 0 .. count - 1 leave, and what is left above.    *)
Columns(column(_, _), count) ==
    LET after[k \in 0 .. count] ==
            IF k = 0 THEN [out |-> <<>>, c |-> <<0, 0, 0>>]
            ELSE LET r == after[k - 1] IN Extract(r, column(r.c, k - 1))
        s == after[count]
    IN  Append(s.out, s.c[1])

(* l[k] gets the products a[i] * b[k - i]; the first and the last one are  *)
(* alone in their columns.                                                 *)
Terms(k) == SelectSeq([i \in Limb |-> i - 1], LAMBDA i : k - i \in 0 .. Limbs - 1)
Alone(k) == k = 0 \/ k = 2 * Limbs - 2
MulColumn(a, b, c, k) ==
    FoldLeft(LAMBDA r, i : MulAdd(r, a[i + 1], b[k - i + 1], Alone(k)), c, Terms(k))
ScalarMul512(a, b) == Columns(LAMBDA c, k : MulColumn(a, b, c, k), 2 * Limbs - 1)

SqrColumn(a, c, k) ==
    FoldLeft(LAMBDA r, i : IF 2 * i = k THEN MulAdd(r, a[i + 1], a[i + 1], Alone(k))
                           ELSE MulAdd2(r, a[i + 1], a[k - i + 1]),
             c, SelectSeq(Terms(k), LAMBDA i : 2 * i <= k))
ScalarSqr512(a) == Columns(LAMBDA c, k : SqrColumn(a, c, k), 2 * Limbs - 1)

(* A limb of lo + hi * OrderC, whose last limb 1 is added and not          *)
(* multiplied.                                                             *)
FoldColumn(lo, hi, c, k, last) ==
    LET fast == k = 0 \/ k = last
        start == IF k < Limbs THEN SumAdd(c, lo[k + 1], fast \/ k = 1) ELSE c
        js == SelectSeq([j \in 1 .. Half |-> j], LAMBDA j : k - j + 2 \in DOMAIN hi)
        products == FoldLeft(LAMBDA r, j : MulAdd(r, hi[k - j + 2], OrderC[j], fast), start, js)
    IN  IF k - Half + 1 \in DOMAIN hi THEN SumAdd(products, hi[k - Half + 1], fast) ELSE products

(* 512 bits to 385, to 258, to 256.                                        *)
FirstFold(l) ==
    LET lo == SubSeq(l, 1, Limbs)
        hi == SubSeq(l, Limbs + 1, 2 * Limbs)
    IN  Columns(LAMBDA c, k : FoldColumn(lo, hi, c, k, Limbs + Half - 1), Len(hi) + Half)
SecondFold(m) ==
    LET lo == SubSeq(m, 1, Limbs)
        hi == SubSeq(m, Limbs + 1, Limbs + Half + 1)
        p == Columns(LAMBDA c, k : FoldColumn(lo, hi, c, k, Limbs - 1), Len(lo))
    IN  [p EXCEPT ![Limbs + 1] = @ + hi[Half + 1]]
ThirdFold(p) == AddLimbs([i \in Limb |-> p[i] + C(i) * p[Limbs + 1]])
ScalarReduce512(l) ==
    LET s == ThirdFold(SecondFold(FirstFold(l))) IN ScalarReduce(s.out, AddOverflow(s))

ScalarMul(a, b) == ScalarReduce512(ScalarMul512(a, b))
ScalarSqr(a) == ScalarReduce512(ScalarSqr512(a))

(* The product shifted, rounded up when the last bit shifted out is set.   *)
ScalarMulShiftVar(a, b, shift) ==
    LET l == ScalarMul512(a, b)
        by == shift \div LimbBits
        low == shift % LimbBits
        from(i) == IF i + by <= 2 * Limbs THEN l[i + by] ELSE 0
        bit == l[((shift - 1) \div LimbBits) + 1] \div 2 ^ ((shift - 1) % LimbBits)
    IN  ScalarCaddBit([i \in Limb |-> (from(i) \div 2 ^ low) +
                          (IF low = 0 THEN 0 ELSE Wrapped(from(i + 1) * 2 ^ (LimbBits - low)))],
                      0, bit % 2 = 1)
=============================================================================
