----------------------------- MODULE Field10x26 -----------------------------
(***************************************************************************)
(* Multiplication and squaring of field_10x26_impl.h: the columns of the   *)
(* product are added up from both ends in two 64-bit accumulators, d for   *)
(* the upper columns and c for the lower ones, and every limb u that       *)
(* leaves d comes back into c through R1 * LimbBase + R0.                  *)
(***************************************************************************)
EXTENDS FieldRep

CONSTANT AccBase    \* 2^64

Acc(x) == x % AccBase
CutBase == LimbBase \div TopBase    \* 2^4
R0 == Fold0 * CutBase
R1 == Fold1 * CutBase

(* px of the code's comments: the sum of a[i] * b[x - i].                  *)
Terms(k) == {i \in 0 .. Limbs - 1 : k - i \in 0 .. Limbs - 1}
MulColumn(a, b, k) == SumOver([i \in Terms(k) |-> a[i + 1] * b[k - i + 1]])

(* Squaring doubles the first factor, as a 32-bit word, of each pair of    *)
(* equal terms.                                                            *)
SqrColumn(a, k) ==
    SumOver([i \in {i \in Terms(k) : 2 * i <= k} |->
                IF 2 * i = k THEN a[i + 1] * a[i + 1] ELSE Wrapped(a[i + 1] * 2) * a[k - i + 1]])

(* The last column of the lower half, whose limb t9 waits for the end.     *)
MulStart(p) == [c |-> 0, d |-> Acc(p[Limbs - 1]) \div LimbBase, t |-> <<>>,
                t9 |-> Acc(p[Limbs - 1]) % LimbBase]

(* Column k from below and column Limbs + k from above.                    *)
MulStep(p, s, k) ==
    LET d == Acc(s.d + p[Limbs + k])
        u == d % LimbBase
        c == Acc(Acc(s.c + p[k]) + u * R0)
    IN  [s EXCEPT !.d = d \div LimbBase, !.t = Append(s.t, c % LimbBase),
                  !.c = Acc((c \div LimbBase) + u * R1)]

(* What is left above goes into the last limb, and what that exceeds goes  *)
(* around once more; the third limb keeps its excess.                      *)
MulFinish(s) ==
    LET top == Acc(s.c + s.d * R0 + s.t9)
        c == Acc((top \div TopBase) + s.d * (R1 * CutBase))
        d0 == Acc(c * (R0 \div CutBase) + s.t[1])
        d1 == Acc((d0 \div LimbBase) + c * (R1 \div CutBase) + s.t[2])
        d2 == Acc((d1 \div LimbBase) + s.t[3])
    IN  [i \in 1 .. Limbs |-> CASE i = 1 -> d0 % LimbBase
                                [] i = 2 -> d1 % LimbBase
                                [] i = 3 -> Wrapped(d2)
                                [] IsTop(i) -> top % TopBase
                                [] OTHER -> s.t[i]]

Reduce10x26(p) ==
    MulFinish(FoldLeft(LAMBDA s, k : MulStep(p, s, k), MulStart(p),
                       [i \in 1 .. Limbs - 1 |-> i - 1]))

Columns == 0 .. 2 * Limbs - 2
MulInner10x26(a, b) == Reduce10x26([k \in Columns |-> MulColumn(a, b, k)])
SqrInner10x26(a) == Reduce10x26([k \in Columns |-> SqrColumn(a, k)])
=============================================================================
