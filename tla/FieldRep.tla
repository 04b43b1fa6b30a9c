------------------------------ MODULE FieldRep ------------------------------
(***************************************************************************)
(* The limbs of a field element, for the two representations of            *)
(* libsecp256k1: ten limbs of 26 bits in 32-bit words                      *)
(* (field_10x26_impl.h) and five limbs of 52 bits in 64-bit words          *)
(* (field_5x52_impl.h).  Both files have the same functions; they differ   *)
(* in the constants below, and in what they multiply with (modules         *)
(* Field10x26 and Field5x52).  A limb may exceed its LimbBase: by how much *)
(* is the magnitude of the element.  Sums wrap like the words they are     *)
(* kept in.                                                                *)
(***************************************************************************)
EXTENDS Integers, Sequences, SequencesExt

CONSTANTS
    Limbs,      \* 10 or 5
    LimbBase,   \* 2^26 or 2^52
    TopBase,    \* 2^22 or 2^48, what the last limb counts to in 256 bits
    Fold0,      \* the prime is 2^256 - Fold0 - Fold1 * LimbBase:
    Fold1,      \* 0x3D1 and 0x40, or 0x1000003D1 and 0
    WordBase,   \* 2^32 or 2^64
    PieceBase,  \* 2^2 or 2^4, the pieces fe_set_b32 cuts a byte into
    BytePieces, \* 4 or 2, the pieces of a byte
    LimbPieces, \* 13, the pieces of a limb
    BufBytes,   \* 32, the bytes of an encoding
    StoreBase,  \* 2^32 or 2^64, a word of fe_storage
    StoreCount  \* 8 or 4, its words

Wrapped(x) == x % WordBase
IsTop(i) == i = Limbs
BaseOf(i) == IF IsTop(i) THEN TopBase ELSE LimbBase

(* Limbs of the prime: 0x3FFFC2F, 0x3FFFFBF, 0x3FFFFFF, ..., 0x03FFFFF.    *)
PrimeLimbs == [i \in 1 .. Limbs |-> CASE i = 1 -> LimbBase - Fold0
                                      [] i = 2 -> LimbBase - 1 - Fold1
                                      [] OTHER -> BaseOf(i) - 1]

(* fe_verify, which only a VERIFY build calls: the limbs an element of     *)
(* magnitude m may have, and the canonical ones.                           *)
Within(t, m) == \A i \in 1 .. Limbs : t[i] \in 0 .. 2 * m * (BaseOf(i) - 1)
Above(t, u) == \E i \in 1 .. Limbs :
                  t[i] > u[i] /\ \A j \in i + 1 .. Limbs : t[j] = u[j]
Canonical(t) == (\A i \in 1 .. Limbs : t[i] \in 0 .. BaseOf(i) - 1) /\ Above(PrimeLimbs, t)

(* One pass of carries up to the last limb, which keeps what it gets.      *)
Carry(t) ==
    LET full[i \in 1 .. Limbs] ==
            IF i = 1 THEN t[1] ELSE Wrapped(t[i] + (full[i - 1] \div LimbBase))
    IN  [i \in 1 .. Limbs |-> IF IsTop(i) THEN full[i] ELSE full[i] % LimbBase]

(* x times 2^256 is x * Fold0 + x * Fold1 * LimbBase modulo the prime.     *)
AddFold(t, x) == [t EXCEPT ![1] = Wrapped(@ + x * Fold0), ![2] = Wrapped(@ + x * Fold1)]
FirstPass(t) == Carry(AddFold([t EXCEPT ![Limbs] = @ % TopBase], t[Limbs] \div TopBase))

(* The test for a value from the prime to 2^256 - 1, as 10x26 writes it    *)
(* and as 5x52 does.                                                       *)
FromPrime10(t) ==
    /\ t[Limbs] = TopBase - 1
    /\ \A i \in 3 .. Limbs - 1 : t[i] = LimbBase - 1
    /\ t[2] + Fold1 + ((t[1] + Fold0) \div LimbBase) > LimbBase - 1
FromPrime5(t) ==
    /\ t[Limbs] = TopBase - 1
    /\ \A i \in 2 .. Limbs - 1 : t[i] = LimbBase - 1
    /\ t[1] >= LimbBase - Fold0
FromPrime(t) == IF Fold1 = 0 THEN FromPrime5(t) ELSE FromPrime10(t)

(* Mutant: only a set bit 256 asks for the final subtraction.              *)
ExcessBit(t) == t[Limbs] \div TopBase

Excess(t) == IF FromPrime(t) THEN 1 ELSE t[Limbs] \div TopBase

FeNormalizeWeak(t) == FirstPass(t)

FeNormalize(t) ==
    LET u == FirstPass(t)
    IN  [Carry(AddFold(u, Excess(u))) EXCEPT ![Limbs] = @ % TopBase]

FeNormalizeVar(t) ==
    LET u == FirstPass(t)
        v == [u EXCEPT ![1] = Wrapped(@ + Fold0), ![2] = Wrapped(@ + Excess(u) * Fold1)]
    IN  IF Excess(u) = 0 THEN u ELSE [Carry(v) EXCEPT ![Limbs] = @ % TopBase]

(* z0 collects that all limbs are 0 and z1 that they are the prime's.      *)
FeNormalizesToZero(t) ==
    LET u == FirstPass(t) IN (\A i \in 1 .. Limbs : u[i] = 0) \/ u = PrimeLimbs

(* The variable time one decides on the lowest limb where it can.          *)
FeNormalizesToZeroVar(t) ==
    LET z0 == Wrapped(t[1] + (t[Limbs] \div TopBase) * Fold0) % LimbBase
    IN  z0 \in {0, PrimeLimbs[1]} /\ FeNormalizesToZero(t)

FeSetInt(k) == [i \in 1 .. Limbs |-> IF i = 1 THEN k ELSE 0]
FeClear == [i \in 1 .. Limbs |-> 0]
FeIsZero(t) == \A i \in 1 .. Limbs : t[i] = 0
FeIsOdd(t) == t[1] % 2 = 1
FeCmpVar(t, u) == CASE Above(t, u) -> 1 [] Above(u, t) -> -1 [] OTHER -> 0

(* Multiples of the prime minus the limbs: no limb may go below 0.         *)
FeNegate(t, m) == [i \in 1 .. Limbs |-> Wrapped(PrimeLimbs[i] * 2 * (m + 1) - t[i])]
FeMulInt(t, k) == [i \in 1 .. Limbs |-> Wrapped(t[i] * k)]
FeAdd(t, u) == [i \in 1 .. Limbs |-> Wrapped(t[i] + u[i])]
FeCmov(t, u, flag) == IF flag THEN u ELSE t

SumOver(f) == FoldFunction(+, 0, f)

(* Bytes, most significant first, cut into pieces that go to their place   *)
(* in a limb; no piece straddles two limbs.                                *)
Pieces == BufBytes * BytePieces
PieceAt(k) == [limb |-> (k \div LimbPieces) + 1, scale |-> PieceBase ^ (k % LimbPieces)]
FeSetB32(bytes) ==
    LET piece(k) == (bytes[BufBytes - (k \div BytePieces)] \div PieceBase ^ (k % BytePieces)) % PieceBase
    IN  [i \in 1 .. Limbs |->
            SumOver([k \in {k \in 0 .. Pieces - 1 : PieceAt(k).limb = i} |-> piece(k) * PieceAt(k).scale])]
FeSetB32Ok(bytes) == ~FromPrime(FeSetB32(bytes))
FeGetB32(t) ==
    LET piece(k) == (t[PieceAt(k).limb] \div PieceAt(k).scale) % PieceBase
    IN  [b \in 1 .. BufBytes |->
            SumOver([j \in 0 .. BytePieces - 1 |->
                        piece((BufBytes - b) * BytePieces + j) * PieceBase ^ j])]

(* Storage packs the 256 bits into full words.                             *)
Place(i) == LimbBase ^ (i - 1)
StorePlace(j) == StoreBase ^ (j - 1)
Shifted(x, from, to) == IF from >= to THEN x * (from \div to) ELSE x \div (to \div from)
FeToStorage(t) ==
    [j \in 1 .. StoreCount |-> SumOver([i \in 1 .. Limbs |-> Shifted(t[i], Place(i), StorePlace(j)) % StoreBase])
                          % StoreBase]
FeFromStorage(s) ==
    [i \in 1 .. Limbs |-> SumOver([j \in 1 .. StoreCount |-> Shifted(s[j], StorePlace(j), Place(i)) % LimbBase])]
=============================================================================
