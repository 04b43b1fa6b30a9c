------------------------------- MODULE Ecmult -------------------------------
(***************************************************************************)
(* The three scalar multiplications of libsecp256k1, as compiled with      *)
(* USE_ENDOMORPHISM: ecmult (ecmult_impl.h, variable time, na*A + ng*G),   *)
(* ecmult_const (ecmult_const_impl.h, constant time) and ecmult_gen        *)
(* (ecmult_gen_impl.h, the generator with a blinded scalar).               *)
(***************************************************************************)
EXTENDS Curve

CONSTANTS
    WindowA,       \* WINDOW_A, 5 in the code
    WindowG,       \* WINDOW_G, 15 in the code
    GenWindow,     \* bits of a window of ecmult_gen, 4 in the code
    NumsX,         \* x of the point whose scalar nobody knows
    MinusB1, MinusB2, G1, G2, \* the lattice constants of scalar_split_lambda
    SplitShift     \* 272 in the code

(* <<r1, r2>> with a = r1 + r2 * Lambda and both close to 0.               *)
ScalarSplitLambda(a) ==
    LET c1 == (ScalarMulShiftVar(a, G1, SplitShift) * MinusB1) % N
        c2 == (ScalarMulShiftVar(a, G2, SplitShift) * MinusB2) % N
        r2 == (c1 + c2) % N
    IN  <<(r2 * (N - Lambda) + a) % N, r2>>

TableSize(w) == 2 ^ (w - 2)
GeneratorGe == Ge(FeSetInt(Gx), FeSetInt(Gy))

(* n odd multiples of a, each with a z too small by the factor of d.z      *)
(* except for the last one, and the ratios of their z coordinates; d is    *)
(* twice a.                                                                *)
OddMultiplesStep(t, prev, dGe) ==
    [prej |-> Append(t.prej, GejAddGeVar(prev, dGe)), zr |-> Append(t.zr, AddGeRzr(prev, dGe))]
OddMultiplesFrom(n, a, aGe, d) ==
    [FoldLeft(LAMBDA t, i : OddMultiplesStep(t, t.prej[i - 1], Ge(d.x, d.y)),
              [prej |-> <<Gej(aGe.x, aGe.y, a.z)>>, zr |-> <<d.z>>],
              [i \in 1 .. n - 1 |-> i + 1])
        EXCEPT !.prej[n].z = FeMul(@, d.z)]
OddMultiplesTable(n, a) ==
    LET d == GejDoubleVar(a) IN OddMultiplesFrom(n, a, GeSetGejZinv(a, d.z), d)

(* The table on the isomorphic curve where its last entry is affine, and   *)
(* the z coordinate globalz that leads back.                               *)
GlobalzOf(t) == [pre |-> GeGlobalzSetTable(t.prej, t.zr), globalz |-> t.prej[Len(t.prej)].z]
TableGlobalzWindowA(a) == GlobalzOf(OddMultiplesTable(TableSize(WindowA), a))

StorageOf(prea) == [i \in 1 .. Len(prea) |-> GeToStorage(prea[i])]
TableStorageVar(n, a) ==
    LET t == OddMultiplesTable(n, a) IN StorageOf(GeSetTableGejVar(t.prej, t.zr))

TableGetGe(pre, n) ==
    IF n > 0 THEN pre[(n - 1) \div 2 + 1] ELSE GeNeg(pre[(0 - n - 1) \div 2 + 1])

TableGetGeStorage(pre, n) ==
    IF n > 0 THEN GeFromStorage(pre[(n - 1) \div 2 + 1])
    ELSE GeNeg(GeFromStorage(pre[(0 - n - 1) \div 2 + 1]))

(* The context of ecmult: the odd multiples of G and of 2^HalfBits * G.    *)
EcmultContextBuild ==
    LET g == GejSetGe(GeneratorGe)
        g128 == FoldLeft(LAMBDA a, i : GejDoubleVar(a), g, [i \in 1 .. HalfBits |-> i])
    IN  [preG |-> TableStorageVar(TableSize(WindowG), g),
         preG128 |-> TableStorageVar(TableSize(WindowG), g128)]

(* The digits of a number in windowed non-adjacent form, lowest first; a   *)
(* number with the top bit set is negated first.                           *)
EcmultWnaf(len, a, w) ==
    LET negative == ScalarGetBits(a, ScalarBits - 1, 1) = 1
        s == IF negative THEN ScalarNegate(a) ELSE a
        sign == IF negative THEN -1 ELSE 1
        digits[bit \in 0 .. len, carry \in 0 .. 1] ==
            LET now == IF w > len - bit THEN len - bit ELSE w
                word == ScalarGetBits(s, bit, now) + carry
                carryOut == (word \div 2 ^ (w - 1)) % 2
            IN  IF bit = len THEN <<>>
                ELSE IF ScalarGetBits(s, bit, 1) = carry
                THEN <<0>> \o digits[bit + 1, carry]
                ELSE <<sign * (word - carryOut * 2 ^ w)>> \o [i \in 1 .. now - 1 |-> 0]
                     \o digits[bit + now, carryOut]
    IN  digits[0, 0]

(* The number of digits up to the last one that is set.                    *)
WnafBits(wnaf) ==
    LET set == {i \in 1 .. Len(wnaf) : wnaf[i] # 0} IN IF set = {} THEN 0 ELSE Max(set)

(* One round of the loop with the digits d of the four half-sized scalars: *)
(* a doubling and up to four additions.                                    *)
EcmultStep(ctx, preA, preALam, globalz, d, r, i) ==
    LET addA(p, n) == GejAddGeVar(p, TableGetGe(preA, n))
        addALam(p, n) == GejAddGeVar(p, TableGetGe(preALam, n))
        addG(p, n) == GejAddZinvVar(p, TableGetGeStorage(ctx.preG, n), globalz)
        addG128(p, n) == GejAddZinvVar(p, TableGetGeStorage(ctx.preG128, n), globalz)
        add(p, wnaf, by(_, _)) == IF i <= Len(wnaf) /\ wnaf[i] # 0 THEN by(p, wnaf[i]) ELSE p
    IN  add(add(add(add(GejDoubleVar(r), d.na1, addA), d.naLam, addALam), d.ng1, addG),
            d.ng128, addG128)

EcmultDigits(nas, ngs) ==
    [na1 |-> EcmultWnaf(HalfBits + 2, nas[1], WindowA),
     naLam |-> EcmultWnaf(HalfBits + 2, nas[2], WindowA),
     ng1 |-> EcmultWnaf(HalfBits + 1, ngs[1], WindowG),
     ng128 |-> EcmultWnaf(HalfBits + 1, ngs[2], WindowG)]

BackFrom(r, globalz) == IF r.inf THEN r ELSE [r EXCEPT !.z = FeMul(r.z, globalz)]

EcmultLoop(ctx, t, preALam, d, bits) ==
    BackFrom(FoldLeft(LAMBDA r, i : EcmultStep(ctx, t.pre, preALam, t.globalz, d, r, i),
                      GejInfinity, [i \in 1 .. bits |-> bits + 1 - i]),
             t.globalz)

EcmultRun(ctx, t, d) ==
    EcmultLoop(ctx, t, [i \in 1 .. Len(t.pre) |-> GeMulLambda(t.pre[i])], d,
               Max({WnafBits(d.na1), WnafBits(d.naLam), WnafBits(d.ng1), WnafBits(d.ng128)}))

(* na * a + ng * G for a point a that is not infinite.                     *)
EcmultCall(ctx, a, na, ng) ==
    EcmultRun(ctx, TableGlobalzWindowA(a), EcmultDigits(ScalarSplitLambda(na), ScalarSplit128(ng)))
=============================================================================
