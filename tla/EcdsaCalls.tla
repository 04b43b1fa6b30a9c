----------------------------- MODULE EcdsaCalls -----------------------------
(***************************************************************************)
(* A holder of a key pair who derives, exchanges and uses it through the   *)
(* interface of libsecp256k1 and of the Go package around it: the secret   *)
(* and the public key are changed side by side, messages are signed with   *)
(* the retry loop of ecdsa_sign, signatures are normalised, converted and  *)
(* sent over the wire, and foreign signatures and keys arrive.             *)
(***************************************************************************)
EXTENDS Ecdsa

CONSTANTS
    Messages,     \* 32-byte hashes to sign
    Tweaks,       \* 32-byte tweaks and scalars
    WireScalars,  \* the 32-byte strings of foreign signatures
    WireFields,   \* the 32-byte coordinates of foreign keys
    MaxTweaks,    \* bound on the changes to a key
    MaxTries      \* bound on the nonces tried for a signature

VARIABLES
    sec,      \* the secret key, 32 bytes
    pub,      \* the public key object
    msg,      \* the hash signed or to be verified
    sig,      \* the signature object
    signing,  \* "no", "plain" or "recoverable": the call in progress
    made,     \* sig was made for msg with sec, and only rewritten since
    tweaks, tries

vars == <<sec, pub, msg, sig, signing, made, tweaks, tries>>
sigVars == <<msg, sig, signing, made, tries>>

Bytes == 0 .. EncBase - 1
NoSig == Sig(0, 0, NoRecid)

(* The multiple of the generator that an encoding should stand for, 0 when *)
(* it should be refused: the standard's encodings of curve points.         *)
Meant(e) ==
    LET ks == {k \in 1 .. N - 1 :
                 /\ Mult[k][1] = e.x
                 /\ \/ e.size = 33 /\ e.tag = 2 + (Mult[k][2] % 2)
                    \/ /\ e.size = 65 /\ e.y = Mult[k][2]
                       /\ e.tag \in {4, 6 + (e.y % 2)}}
    IN  IF ks = {} THEN 0 ELSE CHOOSE k \in ks : TRUE

Init ==
    /\ \/ sec \in Bytes /\ pub = EcPubkeyCreate(sec)
       \/ \E size \in {33, 65}, tag \in 0 .. 7, x, y \in WireFields :
            LET e == [size |-> size, tag |-> tag, x |-> x, y |-> IF size = 33 THEN 0 ELSE y]
            IN  sec = Meant(e) /\ pub = EcPubkeyParse(e)
    /\ msg \in Messages
    /\ sig = NoSig /\ signing = "no" /\ made = FALSE
    /\ tweaks = 0 /\ tries = 0

(* Both sides of a key pair change; a signature made before is of the old  *)
(* key.                                                                    *)
ChangeKey(s, p) ==
    /\ tweaks < MaxTweaks
    /\ signing = "no" /\ sig = NoSig
    /\ PubkeyLoadable(pub)
    /\ sec' = s /\ pub' = p
    /\ tweaks' = tweaks + 1
    /\ UNCHANGED sigVars

TweakAdd == \E t \in Tweaks : ChangeKey(EcPrivkeyTweakAdd(sec, t), EcPubkeyTweakAdd(pub, t))
TweakMul == \E t \in Tweaks : ChangeKey(EcPrivkeyTweakMul(sec, t), EcPubkeyTweakMul(pub, t))
ScalarMult ==
    \E t \in Tweaks :
        ChangeKey(IF EcSeckeyVerify(t) THEN EcPrivkeyTweakMul(sec, t) ELSE sec,
                  ExtScalarMul(pub, t))
Combine ==
    \E i, j \in 1 .. N - 1 :
        ChangeKey((sec + i + j) % N, EcPubkeyCombine(<<pub, Mult[i], Mult[j]>>))

(* DecompressPubkey and CompressPubkey.                                    *)
Reencode ==
    \E from, to \in {33, 65} :
        ChangeKey(sec, EcPubkeyParse(ExtReencodePubkey(EcPubkeySerialize(pub, from = 33), to)))

-----------------------------------------------------------------------------
(* Sign refuses an invalid key before the loop; the loop asks for nonces   *)
(* until one is in range and gives a signature.                            *)
StartSign ==
    /\ signing = "no" /\ sig = NoSig
    /\ EcSeckeyVerify(sec)
    /\ signing' \in {"plain", "recoverable"}
    /\ UNCHANGED <<sec, pub, msg, sig, made, tweaks, tries>>

Attempt(nonce) == EcdsaSigSign(sec, ScalarOf(msg), ScalarOf(nonce))
Usable(nonce) == ~Overflows(nonce) /\ ScalarOf(nonce) # 0 /\ Attempt(nonce) # ZeroSig

TryNonce ==
    /\ signing # "no"
    /\ \E nonce \in Bytes :
        \/ /\ Usable(nonce)
           /\ sig' = IF signing = "plain" THEN RecoverableConvert(Attempt(nonce))
                                          ELSE Attempt(nonce)
           /\ signing' = "no" /\ made' = TRUE /\ tries' = 0
        \/ /\ ~Usable(nonce) /\ tries < MaxTries
           /\ tries' = tries + 1
           /\ UNCHANGED <<sig, signing, made>>
    /\ UNCHANGED <<sec, pub, msg, tweaks>>

(* Rewriting a signature object.                                           *)
Rewrite(s) ==
    /\ signing = "no" /\ sig # NoSig
    /\ sig' = s
    /\ UNCHANGED <<sec, pub, msg, signing, made, tweaks, tries>>

Normalize == sig.recid = NoRecid /\ Rewrite(EcdsaSignatureNormalize(sig))
Convert == sig.recid # NoRecid /\ Rewrite(RecoverableConvert(sig))
Send ==
    \/ /\ sig.recid = NoRecid
       /\ LET w == EcdsaSignatureSerializeCompact(sig)
          IN  Rewrite(EcdsaSignatureParseCompact(w[1], w[2]))
    \/ /\ sig.recid # NoRecid
       /\ LET w == RecoverableSerializeCompact(sig)
          IN  Rewrite(RecoverableParseCompact(w[1], w[2], w[3]))

(* A signature from elsewhere, plain or with one of the recovery ids that  *)
(* checkSignature lets through.                                            *)
Receive ==
    /\ signing = "no" /\ sig = NoSig
    /\ \E r, s \in WireScalars :
        \/ sig' = EcdsaSignatureParseCompact(r, s)
        \/ \E recid \in 0 .. 3 : sig' = RecoverableParseCompact(r, s, recid)
    /\ UNCHANGED <<sec, pub, msg, signing, made, tweaks, tries>>

Next == \/ TweakAdd \/ TweakMul \/ ScalarMult \/ Combine \/ Reencode
        \/ StartSign \/ TryNonce \/ Normalize \/ Convert \/ Send \/ Receive

Spec == Init /\ [][Next]_vars

(* The two halves of a key pair stay in step through every derivation      *)
(* (tweaks, multiplication, combination, re-encoding), and fail together:  *)
(* the public key object is the encoding of sec times the generator, and   *)
(* is zeroed exactly when the secret key is not usable.  A parsed key is   *)
(* the point that its encoding means, every other encoding is refused.     *)
KeysMatch == pub = IF EcSeckeyVerify(sec) THEN Mult[sec] ELSE ZeroKey

(* A signature that the retry loop ends with, whatever nonces it went      *)
(* through and however the object was rewritten since, has a low s, is     *)
(* accepted for the message and the public key in each encoding of the     *)
(* key, and when recoverable gives back exactly that key; this includes    *)
(* the points whose x is beyond the order, and the negation of s.          *)
SignedVerifies ==
    made =>
        /\ ~ScalarIsHigh(sig.s)
        /\ \A c \in BOOLEAN : ExtEcdsaVerify(sig.r, sig.s, msg, EcPubkeySerialize(pub, c))
        /\ sig.recid # NoRecid =>
              ExtEcdsaRecover(sig.r, sig.s, sig.recid, msg) = EcPubkeySerialize(pub, FALSE)

(* Verification is exact: ecdsa_verify accepts a signature if and only if  *)
(* r and s are not zero, s is low, and r is modulo the order the x of the  *)
(* point that the textbook equation gives.  The code never reduces x: it   *)
(* compares projectively, and again with the order added.                  *)
VerifyExact ==
    LET w == ScalarInverse(sig.s)
        R == Mult[(w * (msg + sig.r * sec)) % N]
    IN  pub # ZeroKey =>
          (EcdsaVerify(sig, msg, pub) <=>
             /\ sig.r # 0 /\ sig.s # 0 /\ 2 * sig.s < N
             /\ R # Infinity /\ R[1] % N = sig.r)

(* Recovery is exact: the key recovered from r, s and the recovery id is   *)
(* the one whose signature with the point of that x and that parity of y   *)
(* this is, and there is none exactly when no such point or key exists.    *)
RecoverExact ==
    sig.recid # NoRecid =>
        LET x == sig.r + (IF sig.recid >= 2 THEN N ELSE 0)
            ks == {k \in 1 .. N - 1 : Mult[k][1] = x /\ Mult[k][2] % 2 = sig.recid % 2}
            keys == {Mult[((sig.s * k + (N - (msg % N))) * ScalarInverse(sig.r)) % N] : k \in ks}
            usable == sig.r # 0 /\ sig.s # 0 /\ keys \ {Infinity} # {}
        IN  EcdsaRecover(sig, msg) = IF usable THEN CHOOSE key \in keys : TRUE ELSE ZeroKey
=============================================================================
