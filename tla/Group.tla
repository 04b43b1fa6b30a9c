------------------------------- MODULE Group -------------------------------
(***************************************************************************)
(* The group operations of libsecp256k1/src/group_impl.h on the curve      *)
(* y^2 = x^3 + CurveB, statement by statement over the field of module     *)
(* Field, so that both the value and the magnitude of every coordinate     *)
(* follow the code.  An affine point (ge) has inf, x, y; a Jacobian point  *)
(* (gej) also has z and stands for (x/z^2, y/z^3).  Where the code leaves  *)
(* r untouched because r is also its first argument, the coordinates of    *)
(* that argument are kept.                                                 *)
(***************************************************************************)
EXTENDS Field

CONSTANTS CurveB,   \* the constant of the curve equation
          Beta      \* a nontrivial cube root of 1 modulo P

Ge(x, y) == [inf |-> FALSE, x |-> x, y |-> y]
Gej(x, y, z) == [inf |-> FALSE, x |-> x, y |-> y, z |-> z]
SetInf(a, inf) == [a EXCEPT !.inf = inf]

GejInfinity == SetInf(Gej(FeClear, FeClear, FeClear), TRUE)
GejSetGe(a) == SetInf(Gej(a.x, a.y, FeSetInt(1)), a.inf)
NegateY(a) == [a EXCEPT !.y = FeNegate(FeNormalizeWeak(a.y), 1)]
GeNeg(a) == NegateY(a)
GejNeg(a) == NegateY(a)

GeSetGejZinv(a, zi) ==
    LET zi2 == FeSqr(zi)
    IN  SetInf(Ge(FeMul(a.x, zi2), FeMul(a.y, FeMul(zi2, zi))), a.inf)

GeSetGej(a) == GeSetGejZinv(a, FeInv(a.z))

GeSetGejVar(a) == IF a.inf THEN SetInf(Ge(FeClear, FeClear), TRUE)
                           ELSE GeSetGejZinv(a, FeInv(a.z))

GeSetAllGejVar(as) ==
    LET finite == SelectSeq(as, LAMBDA a : ~a.inf)
        zi == FeInvAll([i \in 1 .. Len(finite) |-> finite[i].z])
        rank(i) == Len(SelectSeq(SubSeq(as, 1, i), LAMBDA a : ~a.inf))
    IN  [i \in 1 .. Len(as) |->
            IF as[i].inf THEN GeSetGejVar(as[i])
                         ELSE GeSetGejZinv(as[i], zi[rank(i)])]

(* zr[i] is the ratio of the z coordinates of entries i and i - 1.         *)
GeSetTableGejVar(as, zr) ==
    LET n == Len(as)
        zi[i \in 1 .. n] == IF i = n THEN FeInv(as[n].z) ELSE FeMul(zi[i + 1], zr[i + 1])
    IN  [i \in 1 .. n |-> GeSetGejZinv(as[i], zi[i])]

GeGlobalzSetTable(as, zr) ==
    LET n == Len(as)
        zs[i \in 1 .. n] == IF i >= n - 1 THEN zr[n] ELSE FeMul(zs[i + 1], zr[i + 1])
    IN  [i \in 1 .. n |-> IF i = n THEN Ge(as[n].x, as[n].y)
                                   ELSE GeSetGejZinv(as[i], zs[i])]

CurveRhs(x) == FeAdd(FeSetInt(CurveB), FeMul(x, FeSqr(x)))
GeSetXquadOk(x) == FeIsSquare(CurveRhs(x))
GeSetXquad(x) == Ge(x, FeSqrt(CurveRhs(x)))

(* Defined when GeSetXquadOk(x): ge_set_xo_var returns 0 otherwise.        *)
GeSetXoVar(x, odd) ==
    LET y == FeNormalize(GeSetXquad(x).y)
    IN  Ge(x, IF FeIsOdd(y) # odd THEN FeNegate(y, 1) ELSE y)

(* Mutant: the x coordinate is compared without its factor.                *)
GejEqXVarPlain(x, a) == FeEqual(x, FeNormalizeWeak(a.x))

GejEqXVar(x, a) == FeEqual(FeMul(FeSqr(a.z), x), FeNormalizeWeak(a.x))

GejIsValidVar(a) ==
    LET z2 == FeSqr(a.z)
        z6 == FeMulInt(FeMul(FeSqr(z2), z2), CurveB)
    IN  /\ ~a.inf
        /\ FeEqual(FeSqr(a.y), FeNormalizeWeak(FeAdd(FeMul(FeSqr(a.x), a.x), z6)))

GeIsValidVar(a) ==
    /\ ~a.inf
    /\ FeEqual(FeSqr(a.y),
               FeNormalizeWeak(FeAdd(FeMul(FeSqr(a.x), a.x), FeSetInt(CurveB))))

GejDoubleVar(a) ==
    LET t1 == FeMulInt(FeSqr(a.x), 3)
        t2 == FeSqr(t1)
        y2 == FeMulInt(FeSqr(a.y), 2)
        t4 == FeMulInt(FeSqr(y2), 2)
        t3 == FeMul(y2, a.x)
    IN  IF a.inf THEN a
        ELSE Gej(FeAdd(FeNegate(FeMulInt(t3, 4), 4), t2),
                 FeAdd(FeMul(t1, FeAdd(FeMulInt(t3, 6), FeNegate(t2, 1))), FeNegate(t4, 2)),
                 FeMulInt(FeMul(a.z, a.y), 2))

(* The ratio of the z coordinates of the doubled point and of a.           *)
DoubleRzr(a) == IF a.inf THEN FeSetInt(1) ELSE FeMulInt(FeNormalizeWeak(a.y), 2)

(* What the three variable time additions share.  From h = u2 - u1 and     *)
(* i = s2 - s1 the sum and its z coordinate ...                            *)
AddY(x, t, i, h3, s1) == FeAdd(FeMul(FeAdd(FeNegate(x, 5), t), i), FeNegate(FeMul(h3, s1), 1))
AddXY(h3, t, i, s1, z) ==
    LET x == FeAdd(FeNegate(FeAdd(FeMulInt(t, 2), h3), 3), FeSqr(i))
    IN  Gej(x, AddY(x, t, i, h3, s1), z)
AddSum(h, h2, i, u1, s1, z) == AddXY(FeMul(h, h2), FeMul(u1, h2), i, s1, z)

(* Mutant: equal x coordinates are taken for a sum that cancels.           *)
AddTailCancels(a, h, i, u1, s1, z) ==
    IF FeNormalizesToZero(h) THEN SetInf(a, TRUE) ELSE AddSum(h, FeSqr(h), i, u1, s1, z)

(* ... or one of the two special cases.                                    *)
AddTail(a, h, i, u1, s1, z) ==
    CASE FeNormalizesToZero(h) /\ FeNormalizesToZero(i) -> GejDoubleVar(a)
      [] FeNormalizesToZero(h) /\ ~FeNormalizesToZero(i) -> SetInf(a, TRUE)
      [] OTHER -> AddSum(h, FeSqr(h), i, u1, s1, z)
Difference(u1, u2) == FeAdd(FeNegate(u1, 1), u2)

AddJacobian(a, b, z12, z22) ==
    LET u1 == FeMul(a.x, z22)
        s1 == FeMul(FeMul(a.y, z22), b.z)
        h == Difference(u1, FeMul(b.x, z12))
        i == Difference(s1, FeMul(FeMul(b.y, z12), a.z))
    IN  AddTail(a, h, i, u1, s1, FeMul(a.z, FeMul(h, b.z)))

GejAddVar(a, b) ==
    CASE a.inf -> b
      [] ~a.inf /\ b.inf -> a
      [] OTHER -> AddJacobian(a, b, FeSqr(a.z), FeSqr(b.z))

(* The sum of a and the affine b on the isomorphic curve where a has the   *)
(* z coordinate az; the result keeps a's own z as the factor.              *)
AddAffine(a, b, az) ==
    LET u1 == FeNormalizeWeak(a.x)
        s1 == FeNormalizeWeak(a.y)
        z12 == FeSqr(az)
        h == Difference(u1, FeMul(b.x, z12))
        i == Difference(s1, FeMul(FeMul(b.y, z12), az))
    IN  AddTail(a, h, i, u1, s1, FeMul(a.z, h))

GejAddGeVar(a, b) ==
    CASE a.inf -> GejSetGe(b)
      [] ~a.inf /\ b.inf -> a
      [] OTHER -> AddAffine(a, b, a.z)

(* The ratio of the z coordinates of the sum and of a, where both are      *)
(* finite and the sum is: the callers pass rzr only then.                  *)
AddGeRzr(a, b) ==
    LET h == Difference(FeNormalizeWeak(a.x), FeMul(b.x, FeSqr(a.z)))
    IN  IF FeNormalizesToZero(h) THEN DoubleRzr(a) ELSE h

GejAddZinvVar(a, b, bzinv) ==
    CASE b.inf -> a
      [] ~b.inf /\ a.inf -> GejSetGe(GeSetGejZinv(b, bzinv))
      [] OTHER -> AddAffine(a, b, FeMul(a.z, bzinv))

(* Mutant: the x coordinate is not normalised before it is multiplied by 4. *)
UnifiedXLoose(rr, q) == FeAdd(FeSqr(rr), q)

UnifiedX(rr, q) == FeNormalizeWeak(FeAdd(FeSqr(rr), q))

(* The constant time addition of a and a finite affine b, with its cmovs   *)
(* for the degenerate case y1 = -y2, x1 # x2 and for an infinite a.        *)
GejAddGe(a, b) ==
    LET zz == FeSqr(a.z)
        u1 == FeNormalizeWeak(a.x)
        u2 == FeMul(b.x, zz)
        s1 == FeNormalizeWeak(a.y)
        s2 == FeMul(FeMul(b.y, zz), a.z)
        t == FeAdd(u1, u2)
        m == FeAdd(s1, s2)
        negU2 == FeNegate(u2, 1)
        rr == FeAdd(FeSqr(t), FeMul(u1, negU2))
        degenerate == FeNormalizesToZero(m) /\ FeNormalizesToZero(rr)
        rrAlt == FeCmov(FeMulInt(s1, 2), rr, ~degenerate)
        mAlt == FeCmov(FeAdd(negU2, u1), m, ~degenerate)
        mAlt2 == FeSqr(mAlt)
        n == FeCmov(FeSqr(mAlt2), m, degenerate)
        z == FeMul(a.z, mAlt)
        q == FeNegate(FeMul(mAlt2, t), 1)
        x == UnifiedX(rrAlt, q)
        w == FeAdd(FeMul(FeAdd(FeMulInt(x, 2), q), rrAlt), n)
        y == FeNormalizeWeak(FeNegate(w, 3))
    IN  [inf |-> ~a.inf /\ FeNormalizesToZero(z),
         x |-> FeCmov(FeMulInt(x, 4), b.x, a.inf),
         y |-> FeCmov(FeMulInt(y, 4), b.y, a.inf),
         z |-> FeCmov(FeMulInt(z, 2), FeSetInt(1), a.inf)]

GejRescale(a, s) ==
    LET zz == FeSqr(s)
    IN  [a EXCEPT !.x = FeMul(a.x, zz), !.y = FeMul(FeMul(a.y, zz), s), !.z = FeMul(a.z, s)]

(* Storage holds the canonical residues of the coordinates.                *)
GeToStorage(a) == [x |-> FeNormalize(a.x).v, y |-> FeNormalize(a.y).v]
GeFromStorage(s) == Ge(FeSetInt(s.x), FeSetInt(s.y))

GeMulLambda(a) == [a EXCEPT !.x = FeMul(a.x, FeSetInt(Beta))]

GejHasQuadYVar(a) == ~a.inf /\ FeIsSquare(FeMul(a.y, a.z))
=============================================================================
