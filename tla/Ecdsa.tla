------------------------------- MODULE Ecdsa -------------------------------
(***************************************************************************)
(* Signatures and keys of libsecp256k1: ecdsa_impl.h, eckey_impl.h, the    *)
(* interface functions of secp256k1.c and of the recovery module, and the  *)
(* wrappers of ext.h that the Go package calls.  A 32-byte string is the   *)
(* number below EncBase that it encodes, so that both the order and the    *)
(* prime can be exceeded.  A function that fails returns the zeroed        *)
(* object, as the code does with memset.  The three multiplications are    *)
(* used by their contract, which module CurveCalls checks.                 *)
(***************************************************************************)
EXTENDS Curve

CONSTANTS
    EncBase,   \* 2^256, beyond N and P
    MultZ      \* the z coordinate that a multiplication leaves

(* What Ecmult, EcmultConst and EcmultGen return.                          *)
LogOf(a) == CHOOSE k \in 1 .. N - 1 : Mult[k] = <<a.x.v, a.y.v>>
Jacobian(k) == IF k = 0 THEN GejInfinity ELSE GejRescale(GejSetGe(Affine(k)), FeSetInt(MultZ))
EcmultOf(a, na, ng) == Jacobian((na * LogOf(a) + ng) % N)

(* Scalars from and to bytes.                                              *)
ScalarOf(b32) == b32 % N
Overflows(b32) == b32 >= N
ScalarInverse(a) == CHOOSE b \in 1 .. N - 1 : (a * b) % N = 1
ScalarMul(a, b) == (a * b) % N

-----------------------------------------------------------------------------
(* Public keys: the two normalised coordinates, or zeros.                  *)
ZeroKey == <<0, 0>>
PubkeySave(a) == <<FeNormalize(a.x).v, FeNormalize(a.y).v>>
PubkeyLoad(pub) == Ge(FeSetInt(pub[1]), FeSetInt(pub[2]))
SaveIf(ok, a) == IF ok THEN PubkeySave(a) ELSE ZeroKey

(* pubkey_load calls the illegal argument callback, which panics in Go,    *)
(* for a key that is not loadable.                                         *)
PubkeyLoadable(pub) == ~FeIsZero(PubkeyLoad(pub).x)

(* Encodings have a size, a tag, x and y; y is 0 in the compressed one.    *)
FeOk(b32) == b32 < P
NoEncoding == [size |-> 0, tag |-> 0, x |-> 0, y |-> 0]

EckeyPubkeyParse(e) ==
    IF e.size = 33 THEN GeSetXoVar(FeSetInt(e.x), e.tag = 3)
                   ELSE Ge(FeSetInt(e.x), FeSetInt(e.y))

(* Mutant: the tag of a hybrid encoding is not compared with y.            *)
EckeyPubkeyParseOkHybrid(e) ==
    \/ /\ e.size = 33 /\ e.tag \in {2, 3}
       /\ FeOk(e.x) /\ GeSetXquadOk(FeSetInt(e.x))
    \/ /\ e.size = 65 /\ e.tag \in {4, 6, 7}
       /\ FeOk(e.x) /\ FeOk(e.y)
       /\ GeIsValidVar(EckeyPubkeyParse(e))

EckeyPubkeyParseOk(e) ==
    \/ /\ e.size = 33 /\ e.tag \in {2, 3}
       /\ FeOk(e.x) /\ GeSetXquadOk(FeSetInt(e.x))
    \/ /\ e.size = 65 /\ e.tag \in {4, 6, 7}
       /\ FeOk(e.x) /\ FeOk(e.y)
       /\ e.tag \in {6, 7} => (FeIsOdd(FeSetInt(e.y)) <=> e.tag = 7)
       /\ GeIsValidVar(EckeyPubkeyParse(e))

EckeyPubkeySerialize(elem, compressed) ==
    LET x == FeNormalize(elem.x)
        y == FeNormalize(elem.y)
    IN  IF compressed
        THEN [size |-> 33, tag |-> IF FeIsOdd(y) THEN 3 ELSE 2, x |-> x.v, y |-> 0]
        ELSE [size |-> 65, tag |-> 4, x |-> x.v, y |-> y.v]

EcPubkeyParse(e) == SaveIf(EckeyPubkeyParseOk(e), EckeyPubkeyParse(e))
EcPubkeySerialize(pub, compressed) == EckeyPubkeySerialize(PubkeyLoad(pub), compressed)
ExtReencodePubkey(e, outlen) ==
    IF EckeyPubkeyParseOk(e) THEN EcPubkeySerialize(EcPubkeyParse(e), outlen = 33)
                             ELSE NoEncoding

EcSeckeyVerify(sec) == ~Overflows(sec) /\ ScalarOf(sec) # 0
EcPubkeyCreate(sec) == SaveIf(EcSeckeyVerify(sec), GeSetGej(Jacobian(ScalarOf(sec))))

-----------------------------------------------------------------------------
(* Tweaks of a secret scalar and of a point; each fails on its own         *)
(* condition.                                                              *)
EckeyPrivkeyTweakAdd(key, tweak) == (key + tweak) % N
EckeyPubkeyTweakAdd(key, tweak) == EcmultOf(key, 1, tweak)
EckeyPrivkeyTweakMul(key, tweak) == IF tweak = 0 THEN 0 ELSE ScalarMul(key, tweak)
EckeyPubkeyTweakMul(key, tweak) == IF tweak = 0 THEN GejInfinity ELSE EcmultOf(key, tweak, 0)

EcPrivkeyTweakAdd(sec, tweak) ==
    IF Overflows(tweak) THEN 0 ELSE EckeyPrivkeyTweakAdd(ScalarOf(sec), tweak)
EcPubkeyTweakAdd(pub, tweak) ==
    LET pt == EckeyPubkeyTweakAdd(PubkeyLoad(pub), tweak)
    IN  SaveIf(~Overflows(tweak) /\ ~pt.inf, GeSetGej(pt))
EcPrivkeyTweakMul(sec, tweak) ==
    IF Overflows(tweak) THEN 0 ELSE EckeyPrivkeyTweakMul(ScalarOf(sec), tweak)
EcPubkeyTweakMul(pub, tweak) ==
    SaveIf(~Overflows(tweak) /\ tweak # 0, GeSetGej(EckeyPubkeyTweakMul(PubkeyLoad(pub), tweak)))

EcPubkeyCombine(pubs) ==
    LET qj == FoldLeft(LAMBDA q, pub : GejAddGe(q, PubkeyLoad(pub)), GejInfinity, pubs)
    IN  SaveIf(~qj.inf, GeSetGej(qj))

(* A point times a scalar; the point is left alone when the scalar is      *)
(* invalid.                                                                *)
ExtScalarMul(pub, scalar) ==
    IF Overflows(scalar) \/ ScalarOf(scalar) = 0 THEN pub
    ELSE PubkeySave(GeSetGej(EcmultOf(PubkeyLoad(pub), ScalarOf(scalar), 0)))

-----------------------------------------------------------------------------
(* Signatures: r, s and, when recoverable, the recovery id.                *)
NoRecid == 4
Sig(r, s, recid) == [r |-> r, s |-> s, recid |-> recid]
ZeroSig == Sig(0, 0, 0)

(* Mutant: recid is not turned together with s.                            *)
EcdsaSigSignUnturned(sec, message, nonce) ==
    LET r == GeSetGej(Jacobian(nonce))
        x == FeNormalize(r.x).v
        s == ScalarMul(ScalarInverse(nonce), (ScalarMul(ScalarOf(x), sec) + message) % N)
    IN  IF s = 0 THEN ZeroSig
        ELSE Sig(ScalarOf(x), ScalarCondNegate(s, ScalarIsHigh(s)),
                 (IF Overflows(x) THEN 2 ELSE 0) + (IF FeIsOdd(FeNormalize(r.y)) THEN 1 ELSE 0))

(* One attempt with a nonce.  recid tells which of the points with x = r   *)
(* modulo N was meant: 2 for an x beyond the order, 1 for an odd y, turned *)
(* when s is.  Fails, with ZeroSig, when s is 0.                           *)
EcdsaSigSign(sec, message, nonce) ==
    LET r == GeSetGej(Jacobian(nonce))
        x == FeNormalize(r.x).v
        sigr == ScalarOf(x)
        s == ScalarMul(ScalarInverse(nonce), (ScalarMul(sigr, sec) + message) % N)
        odd == IF FeIsOdd(FeNormalize(r.y)) THEN 1 ELSE 0
        high == IF ScalarIsHigh(s) THEN 1 ELSE 0
    IN  IF s = 0 THEN ZeroSig
        ELSE Sig(sigr, ScalarCondNegate(s, high = 1),
                 (IF Overflows(x) THEN 2 ELSE 0) + ((odd + high) % 2))

(* Mutant: the x coordinates beyond the order are forgotten.               *)
EcdsaSigVerifyOnce(sigr, sigs, pubkey, message) ==
    LET sn == ScalarInverse(sigs)
        pr == EcmultOf(pubkey, ScalarMul(sn, sigr), ScalarMul(sn, message))
    IN  sigr # 0 /\ sigs # 0 /\ ~pr.inf /\ GejEqXVar(FeSetInt(sigr), pr)

(* The x coordinate is compared as it is and, if that is below the prime,  *)
(* with the order added.                                                   *)
EcdsaSigVerify(sigr, sigs, pubkey, message) ==
    LET sn == ScalarInverse(sigs)
        pr == EcmultOf(pubkey, ScalarMul(sn, sigr), ScalarMul(sn, message))
        xr == FeSetInt(sigr)
    IN  /\ sigr # 0 /\ sigs # 0
        /\ ~pr.inf
        /\ \/ GejEqXVar(xr, pr)
           \/ sigr < P - N /\ GejEqXVar(FeAdd(xr, FeSetInt(N)), pr)

(* The point meant by r and recid, and the key for which the signature     *)
(* holds.                                                                  *)
RecoverX(sigr, recid) ==
    IF recid >= 2 THEN FeAdd(FeSetInt(sigr), FeSetInt(N)) ELSE FeSetInt(sigr)
EcdsaSigRecover(sigr, sigs, message, recid) ==
    LET x == GeSetXoVar(RecoverX(sigr, recid), recid % 2 = 1)
        rn == ScalarInverse(sigr)
    IN  EcmultOf(x, ScalarMul(rn, sigs), ScalarNegate(ScalarMul(rn, message)))

(* Mutant: an r too large for an x beyond the order is not refused.        *)
EcdsaSigRecoverOkAny(sigr, sigs, message, recid) ==
    /\ sigr # 0 /\ sigs # 0
    /\ GeSetXquadOk(RecoverX(sigr, recid))
    /\ ~EcdsaSigRecover(sigr, sigs, message, recid).inf

EcdsaSigRecoverOk(sigr, sigs, message, recid) ==
    /\ sigr # 0 /\ sigs # 0
    /\ recid >= 2 => sigr < P - N
    /\ GeSetXquadOk(RecoverX(sigr, recid))
    /\ ~EcdsaSigRecover(sigr, sigs, message, recid).inf

EcdsaSignatureNormalize(sig) == [sig EXCEPT !.s = ScalarCondNegate(@, ScalarIsHigh(@))]
EcdsaVerify(sig, msg, pub) ==
    /\ ~ScalarIsHigh(sig.s)
    /\ PubkeyLoadable(pub)
    /\ EcdsaSigVerify(sig.r, sig.s, PubkeyLoad(pub), ScalarOf(msg))
EcdsaRecover(sig, msg) ==
    SaveIf(EcdsaSigRecoverOk(sig.r, sig.s, ScalarOf(msg), sig.recid),
           GeSetGejVar(EcdsaSigRecover(sig.r, sig.s, ScalarOf(msg), sig.recid)))

(* The 64 bytes of r and s; the recovery id travels beside them.           *)
EcdsaSignatureParseCompact(r, s) ==
    IF Overflows(r) \/ Overflows(s) THEN Sig(0, 0, NoRecid) ELSE Sig(r, s, NoRecid)
RecoverableParseCompact(r, s, recid) ==
    IF Overflows(r) \/ Overflows(s) THEN ZeroSig ELSE Sig(r, s, recid)
EcdsaSignatureSerializeCompact(sig) == <<sig.r, sig.s>>
RecoverableSerializeCompact(sig) == <<sig.r, sig.s, sig.recid>>
RecoverableConvert(sig) == [sig EXCEPT !.recid = NoRecid]

ExtEcdsaVerify(r, s, msg, e) ==
    /\ ~Overflows(r) /\ ~Overflows(s)
    /\ EckeyPubkeyParseOk(e)
    /\ EcdsaVerify(EcdsaSignatureParseCompact(r, s), msg, EcPubkeyParse(e))
ExtEcdsaRecover(r, s, recid, msg) ==
    LET pub == EcdsaRecover(RecoverableParseCompact(r, s, recid), msg)
    IN  IF pub = ZeroKey THEN NoEncoding ELSE EcPubkeySerialize(pub, FALSE)
=============================================================================
