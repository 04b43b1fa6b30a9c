----------------------------- MODULE EcmultGen -----------------------------
(***************************************************************************)
(* Multiples of the generator for signing (libsecp256k1/src/               *)
(* ecmult_gen_impl.h): a table with one row for each window of the scalar, *)
(* offset by multiples of a point of unknown scalar that cancel over the   *)
(* rows, and a context that hides the scalar behind a blinding value which *)
(* secp256k1_context_randomize replaces.                                   *)
(***************************************************************************)
EXTENDS Ecmult

Windows == ScalarBits \div GenWindow

NumsGej == GejAddGeVar(GejSetGe(GeSetXoVar(FeSetInt(NumsX), FALSE)), GeneratorGe)

DoubleTimes(a, n) == FoldLeft(LAMBDA x, i : GejDoubleVar(x), a, [i \in 1 .. n |-> i])

(* Row j holds numsbase + i * gbase for i from 0; numsbase is 2^j * nums   *)
(* except in the last row, where it takes the sum of all rows back to 0.   *)
GenPrecj ==
    LET row(t) == FoldLeft(LAMBDA s, i : Append(s, GejAddVar(s[i], t.gbase)), <<t.numsbase>>,
                           [i \in 1 .. 2 ^ GenWindow - 1 |-> i])
        step(t, j) ==
            LET twice == GejDoubleVar(t.numsbase)
            IN  [gbase |-> DoubleTimes(t.gbase, GenWindow),
                 numsbase |-> IF j = Windows - 2 THEN GejAddVar(GejNeg(twice), NumsGej) ELSE twice,
                 precj |-> t.precj \o row(t)]
        t0 == [gbase |-> GejSetGe(GeneratorGe), numsbase |-> NumsGej, precj |-> <<>>]
    IN  FoldLeft(step, t0, [j \in 1 .. Windows |-> j - 1]).precj

GenContextPrec ==
    LET prec == GeSetAllGejVar(GenPrecj)
    IN  [j \in 0 .. Windows - 1 |->
            [i \in 0 .. 2 ^ GenWindow - 1 |-> GeToStorage(prec[j * 2 ^ GenWindow + i + 1])]]

(* gn * G as initial + (gn + blind) * G, with a context [initial, blind]:  *)
(* the table is the same in every context that is built.                   *)
EcmultGenCall(ctx, gn) ==
    LET gnb == (gn + ctx.blind) % N
        step(r, j) == GejAddGe(r, GeFromStorage(
                          GenContextPrec[j][ScalarGetBits(gnb, j * GenWindow, GenWindow)]))
    IN  FoldLeft(step, ctx.initial, [j \in 1 .. Windows |-> j - 1])

(* Mutant: the blinding scalar is not negated.                             *)
GenBlindPlain(ctx, s, b) ==
    LET rescaled == [ctx EXCEPT !.initial = GejRescale(ctx.initial, FeSetInt(s))]
    IN  [ctx EXCEPT !.initial = EcmultGenCall(rescaled, b), !.blind = b]

(* s and b are the field element and the scalar that the hash of the old   *)
(* blinding value and the seed gives, drawn again while out of range or 0. *)
GenBlind(ctx, s, b) ==
    LET rescaled == [ctx EXCEPT !.initial = GejRescale(ctx.initial, FeSetInt(s))]
    IN  [ctx EXCEPT !.initial = EcmultGenCall(rescaled, b), !.blind = ScalarNegate(b)]

(* Without a seed the blinding starts from -G and 1.                       *)
GenBlindReset(ctx, s, b) ==
    GenBlind([ctx EXCEPT !.initial = GejNeg(GejSetGe(GeneratorGe)), !.blind = 1], s, b)

GenContextBuild(s, b) ==
    GenBlindReset([initial |-> GejInfinity, blind |-> 0], s, b)
=============================================================================
