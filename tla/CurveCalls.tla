----------------------------- MODULE CurveCalls -----------------------------
(***************************************************************************)
(* A caller of the group code and of the three scalar multiplications: a   *)
(* Jacobian point r that is doubled, negated, rescaled, added to and       *)
(* multiplied, in any order, each time through a function of the modules   *)
(* Group, Ecmult, EcmultConst and EcmultGen with operands of the           *)
(* magnitudes that the library's own callers pass, while the signing       *)
(* context is blinded again (secp256k1_context_randomize) in between.      *)
(***************************************************************************)
EXTENDS EcmultConst, EcmultGen

CONSTANTS
    Scales,        \* the z coordinates and factors that operands come with
    Starts,        \* the multiples of the generator to start from
    FewScalars,    \* the scalars of multiplications before or after other calls
    BlindScalars,  \* the blinding scalars the hash may give
    BlindFactors,  \* the z factors the hash may give
    MaxSteps       \* bound on the number of calls

VARIABLES r,              \* the point, as the code holds it
          k,              \* the multiple of the generator that it should be
          initial, blind, \* the mutable part of the signing context
          steps           \* calls made so far

vars == <<r, k, initial, blind, steps>>
genVars == <<initial, blind>>

GenCtx == [initial |-> initial, blind |-> blind]
Scalars == 0 .. N - 1

(* Multiples to add: those that make a sum special (a doubling, a          *)
(* cancellation, equal y and different x) and an ordinary one.             *)
Near == {k, N - k, (Lambda * k) % N, (N - Lambda * k) % N, 1} \ {0, N}

(* Operands: a generator multiple read from storage, negated, or left with *)
(* the magnitudes of a sum as in the last entry of a table of odd          *)
(* multiples; and the Jacobian ones, rescaled or just doubled.             *)
Loose(a) == [a EXCEPT !.x.m = 5, !.y.m = 3, !.x.n = FALSE, !.y.n = FALSE]
GeOf(j) == {Affine(j), Loose(Affine(j)), GeNeg(Affine((N - j) % N))}
Half(j) == (j * ((N + 1) \div 2)) % N
GejOf(j) == {GejRescale(GejSetGe(Affine(j)), FeSetInt(s)) : s \in Scales}
            \cup {GejDoubleVar(GejSetGe(Affine(Half(j))))}

Init ==
    /\ \E j \in Starts : k = j /\ r \in GejOf(j)
    /\ \E ctx \in {GenContextBuild(s, b) : s \in BlindFactors, b \in BlindScalars} :
        initial = ctx.initial /\ blind = ctx.blind
    /\ steps = 0

(* A call that leaves one of the points ps in r.                           *)
Call(ps, j) ==
    /\ steps < MaxSteps
    /\ r' \in ps
    /\ k' = j % N
    /\ steps' = steps + 1
    /\ UNCHANGED genVars

(* A call with the scalar n; one that is not among the few is the only     *)
(* call.                                                                   *)
Multiplication(n, p, j) ==
    /\ IF n \in FewScalars THEN steps < MaxSteps ELSE steps = 0
    /\ r' = p
    /\ k' = j % N
    /\ steps' = IF n \in FewScalars THEN steps + 1 ELSE MaxSteps
    /\ UNCHANGED genVars

Double == Call({GejDoubleVar(r)}, 2 * k)
Neg == Call({GejNeg(r)}, N - k)
Rescale == ~r.inf /\ Call({GejRescale(r, FeSetInt(s)) : s \in Scales}, k)
AddInfinity == Call({GejAddVar(r, GejInfinity)}, k)
AddVar == \E j \in Near : Call({GejAddVar(r, b) : b \in GejOf(j)}, k + j)
AddGeVar == \E j \in Near : Call({GejAddGeVar(r, b) : b \in GeOf(j)}, k + j)
AddGe == \E j \in Near : Call({GejAddGe(r, b) : b \in GeOf(j)}, k + j)

(* b is given on the isomorphic curve with z coordinate 1/s.               *)
AddZinvVar ==
    \E j \in Near :
        Call({GejAddZinvVar(r, GeSetGejZinv(b, FeInv(FeSetInt(s))), FeSetInt(s)) :
                  b \in GeOf(j), s \in Scales}, k + j)

(* To affine coordinates and back, with or without the endomorphism.       *)
ToAffine == ~r.inf /\ Call({GejSetGe(GeSetGejVar(r))}, k)
ToAffineLambda == ~r.inf /\ Call({GejSetGe(GeMulLambda(GeSetGej(r)))}, Lambda * k)

MultGen == \E n \in Scalars : Multiplication(n, EcmultGenCall(GenCtx, n), n)

Mult2 ==
    /\ ~r.inf
    /\ \E n \in Scalars, few \in FewScalars :
        \/ Multiplication(n, EcmultCall(EcmultContextBuild, r, n, few), n * k + few)
        \/ Multiplication(n, EcmultCall(EcmultContextBuild, r, few, n), few * k + n)

MultConst ==
    /\ ~r.inf
    /\ \E q \in Scalars : Multiplication(q, EcmultConstCall(GeSetGejVar(r), q), q * k)

(* secp256k1_context_randomize with a seed and with NULL.                  *)
Randomize ==
    /\ steps < MaxSteps
    /\ \E ctx \in {GenBlind(GenCtx, s, b) : s \in BlindFactors, b \in BlindScalars}
               \cup {GenBlindReset(GenCtx, s, b) : s \in BlindFactors, b \in BlindScalars} :
        initial' = ctx.initial /\ blind' = ctx.blind
    /\ steps' = steps + 1
    /\ UNCHANGED <<r, k>>

Next == \/ Double \/ Neg \/ Rescale \/ AddInfinity \/ AddVar \/ AddGeVar \/ AddGe
        \/ AddZinvVar \/ ToAffine \/ ToAffineLambda
        \/ MultGen \/ Mult2 \/ MultConst \/ Randomize

Spec == Init /\ [][Next]_vars

(* Whatever calls are made, in whatever order, the point held is the       *)
(* multiple of the generator that they add up to: doublings met in an      *)
(* addition, sums that cancel, the infinite operand, points with equal y   *)
(* and different x (which the unified formula of gej_add_ge cannot add),   *)
(* factors carried in z, digits and tables on an isomorphic curve, the     *)
(* endomorphism, the skew correction, and any blinding the signing context *)
(* has been through.                                                       *)
GroupLaw == StandsFor(r, k)

(* The blinded starting point and the blinding scalar of the signing       *)
(* context always cancel, so a signature does not depend on the history of *)
(* randomize calls.                                                        *)
BlindingCancels == StandsFor(initial, ScalarNegate(blind))

(* No call sequence breaks a magnitude contract: the coordinates of every  *)
(* point that a call returns can be multiplied again, which is what each   *)
(* function of group_impl.h starts with and no release build checks.       *)
MagnitudeSafe ==
    \A p \in {r, initial} : ~p.inf => \A f \in {p.x, p.y, p.z} : f.m <= MulMagnitude

(* The tests on a point answer for the point and not for its               *)
(* representation: validity, the comparison of x that ends a signature     *)
(* verification, the squareness of y and the recovery of a point from x.   *)
TestsAgree ==
    /\ GejIsValidVar(r) <=> k # 0
    /\ k # 0 =>
        /\ \A j \in Near : GejEqXVar(Affine(j).x, r) <=> Mult[j][1] = Mult[k][1]
        /\ LET a == GeSetGejVar(r)
           IN  /\ GeStandsFor(a, k) /\ GeIsValidVar(a)
               /\ GejHasQuadYVar(r) <=> FeIsSquare(a.y)
               /\ GeSetXquadOk(a.x)
               /\ GeStandsFor(GeSetXoVar(a.x, FeIsOdd(FeNormalize(a.y))), k)
=============================================================================
