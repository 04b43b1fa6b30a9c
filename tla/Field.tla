------------------------------- MODULE Field -------------------------------
(***************************************************************************)
(* The field type as its users see it (libsecp256k1/src/field.h and the    *)
(* VERIFY blocks of field_10x26_impl.h): an element is a residue modulo P  *)
(* together with its magnitude m, which bounds how far its limbs may       *)
(* exceed one word, and the flag n that says its representation is the     *)
(* canonical one.  Every operation has a contract on magnitudes that the   *)
(* release build (NDEBUG, no VERIFY) never tests.  A call that breaks its  *)
(* contract yields the magnitude Bad, and so does every call on its        *)
(* result.  The modules FieldRep, Field10x26 and Field5x52 model the limbs *)
(* behind this type.                                                       *)
(***************************************************************************)
EXTENDS Integers, Sequences, SequencesExt

CONSTANT P      \* the field prime, P % 4 = 3 and P % 3 = 1

MaxMagnitude == 32
MulMagnitude == 8
Bad == MaxMagnitude + 1

Fe(v, m, n) == [v |-> v, m |-> m, n |-> n]
Capped(m) == IF m > MaxMagnitude THEN Bad ELSE m
Factor(a) == a.m <= MulMagnitude

FeSetInt(k) == Fe(k % P, 1, TRUE)
FeClear == Fe(0, 0, TRUE)

FeNormalize(a) == [v |-> a.v, m |-> IF a.m = Bad THEN Bad ELSE 1, n |-> TRUE]
FeNormalizeWeak(a) == [v |-> a.v, m |-> IF a.m = Bad THEN Bad ELSE 1, n |-> a.n]
FeNormalizesToZero(a) == a.v = 0

(* A representation that is not canonical may be the residue plus P, which *)
(* is odd: the test of the lowest bit then gives the wrong parity and the  *)
(* test for all limbs zero fails.                                          *)
FeIsOdd(a) == (a.v % 2 = 1) = a.n
FeIsZero(a) == a.n /\ a.v = 0

FeNegate(a, m) ==
    [v |-> (P - a.v) % P, m |-> IF a.m <= m THEN Capped(m + 1) ELSE Bad, n |-> FALSE]
FeMulInt(a, k) == [v |-> (a.v * k) % P, m |-> Capped(a.m * k), n |-> FALSE]
FeAdd(r, a) == [v |-> (r.v + a.v) % P, m |-> Capped(r.m + a.m), n |-> FALSE]
FeMul(a, b) ==
    [v |-> (a.v * b.v) % P, m |-> IF Factor(a) /\ Factor(b) THEN 1 ELSE Bad, n |-> FALSE]
FeSqr(a) == [v |-> (a.v * a.v) % P, m |-> IF Factor(a) THEN 1 ELSE Bad, n |-> FALSE]
FeCmov(r, a, flag) ==
    [v |-> IF flag THEN a.v ELSE r.v,
     m |-> IF a.m > r.m THEN a.m ELSE r.m,
     n |-> r.n /\ a.n]

(* fe_equal negates its first argument as one of magnitude 1.              *)
FeEqual(a, b) ==
    /\ FeAdd(FeNegate(a, 1), b).m # Bad
    /\ FeNormalizesToZero(FeAdd(FeNegate(a, 1), b))

Pow(v, e) ==
    LET pow[i \in Nat] ==
            IF i = 0 THEN 1
            ELSE LET h == pow[i \div 2] IN
                 IF i % 2 = 0 THEN (h * h) % P ELSE (((h * h) % P) * v) % P
    IN  pow[e]

(* What the two chains of squarings and multiplications return, with the   *)
(* exponents that module AdditionChains shows them to compute.             *)
InvTable == [v \in 0 .. P - 1 |-> Pow(v, P - 2)]
SqrtTable == [v \in 0 .. P - 1 |-> Pow(v, (P + 1) \div 4)]
FeInv(a) == [v |-> InvTable[a.v], m |-> IF Factor(a) THEN 1 ELSE Bad, n |-> FALSE]
FeSqrt(a) == [v |-> SqrtTable[a.v], m |-> IF Factor(a) THEN 1 ELSE Bad, n |-> FALSE]
FeIsSquare(a) == FeEqual(FeSqr(FeSqrt(a)), a)

(* Inverses of all elements of a sequence with one inversion: running      *)
(* products, the inverse of the last one, then back down.                  *)
FeInvAll(as) ==
    LET prod[i \in 1 .. Len(as)] ==
            IF i = 1 THEN as[1].v ELSE (prod[i - 1] * as[i].v) % P
        u[i \in 1 .. Len(as)] ==
            IF i = Len(as) THEN InvTable[prod[i]] ELSE (u[i + 1] * as[i + 1].v) % P
        m == IF \A i \in 1 .. Len(as) : Factor(as[i]) THEN 1 ELSE Bad
    IN  [i \in 1 .. Len(as) |-> Fe(IF i = 1 THEN u[1] ELSE (prod[i - 1] * u[i]) % P, m, FALSE)]
=============================================================================
