---------------------------- MODULE EcmultConst ----------------------------
(***************************************************************************)
(* The constant time multiplication of libsecp256k1/src/                   *)
(* ecmult_const_impl.h: fixed width digits that are all odd, a table read  *)
(* through conditional moves, the unified addition, and the correction for *)
(* the 1 or 2 that was added to make the scalar odd.                       *)
(***************************************************************************)
EXTENDS Ecmult

WnafSize(w) == (HalfBits + w - 1) \div w

(* [skew, digits] with the sum of 2^(w*i) * digits[i + 1] = s + skew or    *)
(* its equivalent after the negation of a high s.                          *)
WnafConst(s, w) ==
    LET flip == ScalarIsHigh(s)
        bit == IF flip # (s % 2 = 1) THEN 1 ELSE 0
        notNegOne == ScalarNegate(s) # 1
        s0 == ScalarCondNegate(ScalarCaddBit(s, bit, notNegOne), flip)
        globalSign == IF flip = notNegOne THEN -1 ELSE 1
        step(t, word) ==
            LET u == t.s % 2 ^ w
                sign == IF t.uLast > 0 THEN 1 ELSE -1
                fix == IF u % 2 = 0 THEN sign ELSE 0
            IN  [s |-> ScalarShrInt(t.s, w), uLast |-> u + fix,
                 wnaf |-> Append(t.wnaf, (t.uLast - fix * 2 ^ w) * globalSign)]
        last == FoldLeft(step, [s |-> ScalarShrInt(s0, w), uLast |-> s0 % 2 ^ w, wnaf |-> <<>>],
                         [i \in 1 .. WnafSize(w) |-> i])
    IN  [skew |-> 2 ^ bit, digits |-> Append(last.wnaf, last.uLast * globalSign)]

ConstTableMove(r, negative) == [r EXCEPT !.y = FeCmov(r.y, FeNegate(r.y, 1), negative)]
ConstTableGetGe(pre, n) ==
    LET absN == IF n > 0 THEN n ELSE 0 - n
        pick(r, m) == Ge(FeCmov(r.x, pre[m].x, m = absN \div 2 + 1),
                         FeCmov(r.y, pre[m].y, m = absN \div 2 + 1))
    IN  ConstTableMove(FoldLeft(pick, Ge(FeClear, FeClear), [m \in 1 .. Len(pre) |-> m]),
                       n # absN)

(* One round: w doublings, then a table entry for each half of the scalar. *)
ConstAdd(r, pre, wnaf, i) == GejAddGe(r, ConstTableGetGe(pre, wnaf.digits[i]))
ConstStep(preA, preALam, wnaf1, wnafLam, w, r, i) ==
    LET doubled == FoldLeft(LAMBDA p, j : GejDoubleVar(p), r, [j \in 1 .. w |-> j])
    IN  ConstAdd(ConstAdd(doubled, preA, wnaf1, i), preALam, wnafLam, i)

(* Takes a, or 2 * a, off again, times lambda for the second half.         *)
SkewPoint(a, a2, skew) == GeNeg(GeFromStorage(IF skew = 2 THEN a2 ELSE GeToStorage(a)))
ConstCorrect(a, a2, r, wnaf1, wnafLam) ==
    GejAddGe(GejAddGe(r, SkewPoint(a, a2, wnaf1.skew)),
             GeMulLambda(SkewPoint(a, a2, wnafLam.skew)))

ConstLoop(preA, preALam, wnaf1, wnafLam, w, size) ==
    FoldLeft(LAMBDA r, i : ConstStep(preA, preALam, wnaf1, wnafLam, w, r, i),
             ConstAdd(GejSetGe(ConstTableGetGe(preA, wnaf1.digits[size + 1])),
                      preALam, wnafLam, size + 1),
             [i \in 1 .. size |-> size + 1 - i])
ScaleZ(r, globalz) == [r EXCEPT !.z = FeMul(r.z, globalz)]

ConstTables(a, t, preA, wnaf1, wnafLam) ==
    ConstCorrect(a, GeToStorage(GeSetGej(GejDoubleVar(GejSetGe(a)))),
                 ScaleZ(ConstLoop(preA, [i \in 1 .. Len(preA) |-> GeMulLambda(preA[i])],
                                  wnaf1, wnafLam, WindowA - 1, WnafSize(WindowA - 1)),
                        t.globalz),
                 wnaf1, wnafLam)
ConstSplit(a, t, qs) ==
    ConstTables(a, t, [i \in 1 .. Len(t.pre) |-> [t.pre[i] EXCEPT !.y = FeNormalizeWeak(@)]],
                WnafConst(qs[1], WindowA - 1), WnafConst(qs[2], WindowA - 1))

(* q * a for an affine point a that is not infinite.                       *)
EcmultConstCall(a, q) ==
    ConstSplit(a, TableGlobalzWindowA(GejSetGe(a)), ScalarSplitLambda(q))
=============================================================================
