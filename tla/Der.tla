-------------------------------- MODULE Der --------------------------------
(***************************************************************************)
(* The DER encoding of signatures (ecdsa_impl.h, and parse_der and         *)
(* serialize_der of secp256k1.c).  A byte is below ByteBase, 256 in the    *)
(* code; its upper half plays the part of the bytes with the top bit set,  *)
(* and the two tags are below it.  input is built from pieces that are     *)
(* well or badly formed: integers, then the header and what follows.       *)
(***************************************************************************)
EXTENDS Integers, Sequences, SequencesExt

CONSTANTS
    ByteBase,     \* the number of values of a byte
    ScalarBytes,  \* 32
    SizeBytes,    \* the bytes of a size_t
    N,            \* the group order, below ByteBase^ScalarBytes
    Contents,     \* the bytes of the integers to try
    Values        \* the scalars to serialize

VARIABLES input,  \* the string built so far
          stage,  \* integers in it, or 3 when it is complete
          made    \* the scalars it was serialized from, or NotMade

vars == <<input, stage, made>>

Top == ByteBase \div 2
SequenceTag == 13
IntegerTag == 2
NotMade == <<>>
Rejected == <<>>

-----------------------------------------------------------------------------
(* The parser reads sig from the position pos, the number of bytes read.   *)
Byte(sig, pos) == sig[pos + 1]
Negative(sig, pos) == Byte(sig, pos) >= Top
At(pos, v) == [pos |-> pos, v |-> v]
Fail == At(0, -1)

(* Mutant: the long form is accepted where the short one would do.         *)
DerReadLongAny(sig, pos, n) ==
    LET ret == FoldLeft(LAMBDA v, x : v * ByteBase + x, 0, SubSeq(sig, pos + 1, pos + n))
        ok == n <= Len(sig) - pos /\ n <= SizeBytes /\ Byte(sig, pos) # 0 /\ ret <= Len(sig) - pos - n
    IN  IF ok THEN At(pos + n, ret) ELSE Fail

(* The long form: n bytes, most significant first, none of them needless.  *)
DerReadLong(sig, pos, n) ==
    LET ret[j \in 0 .. n] == IF j = 0 THEN 0 ELSE ret[j - 1] * ByteBase + Byte(sig, pos + j - 1)
        left(j) == Len(sig) - (pos + j - 1)
        ok == /\ n <= Len(sig) - pos
              /\ Byte(sig, pos) # 0
              /\ n <= SizeBytes
              /\ \A j \in 1 .. n : ret[j] + (n - j + 1) <= left(j)
              /\ ret[n] >= Top
    IN  IF ok THEN At(pos + n, ret[n]) ELSE Fail

DerReadLen(sig, pos) ==
    IF pos >= Len(sig) THEN Fail
    ELSE LET b1 == Byte(sig, pos)
         IN  CASE b1 < Top -> At(pos + 1, b1)
               [] b1 \in {Top, ByteBase - 1} -> Fail
               [] OTHER -> DerReadLong(sig, pos + 1, b1 - Top)

(* The scalar of the big-endian bytes b without leading zeros; 0 when they *)
(* are too many or exceed the order.                                       *)
Value(b) == FoldLeft(LAMBDA v, x : v * ByteBase + x, 0, b)
Significant(b) ==
    LET zeros == CHOOSE z \in 0 .. Len(b) :
                    /\ \A i \in 1 .. z : b[i] = 0
                    /\ z = Len(b) \/ b[z + 1] # 0
    IN  SubSeq(b, zeros + 1, Len(b))
ScalarOf(b) == IF Len(b) > ScalarBytes \/ Value(b) >= N THEN 0 ELSE Value(b)

DerParseInteger(sig, pos) ==
    IF pos = Len(sig) \/ Byte(sig, pos) # IntegerTag THEN Fail
    ELSE LET len == DerReadLen(sig, pos + 1)
             excessive == /\ len.v > 1
                          /\ \/ Byte(sig, len.pos) = 0 /\ ~Negative(sig, len.pos + 1)
                             \/ Byte(sig, len.pos) = ByteBase - 1 /\ Negative(sig, len.pos + 1)
             end == len.pos + len.v
         IN  IF len.v <= 0 \/ end > Len(sig) \/ excessive THEN Fail
             ELSE At(end, IF Negative(sig, len.pos) THEN 0
                          ELSE ScalarOf(Significant(SubSeq(sig, len.pos + 1, end))))

(* The two scalars, or Rejected.                                           *)
EcdsaSigParse(sig) ==
    IF sig = <<>> \/ sig[1] # SequenceTag THEN Rejected
    ELSE LET len == DerReadLen(sig, 1)
             r == DerParseInteger(sig, len.pos)
             s == DerParseInteger(sig, r.pos)
         IN  IF /\ len.v >= 0 /\ len.pos + len.v = Len(sig)
                /\ r # Fail /\ s # Fail
                /\ s.pos = Len(sig)
             THEN <<r.v, s.v>> ELSE Rejected

(* A failed parse leaves a zeroed signature.                               *)
SignatureParseDer(sig) == IF EcdsaSigParse(sig) = Rejected THEN <<0, 0>> ELSE EcdsaSigParse(sig)

(* The bytes of a scalar after one zero byte, without the zeros that are   *)
(* not needed to keep the top bit clear.                                   *)
Trimmed(v) ==
    LET bytes == <<0>> \o [i \in 1 .. ScalarBytes |->
                              (v \div ByteBase ^ (ScalarBytes - i)) % ByteBase]
        drop == CHOOSE z \in 0 .. ScalarBytes :
                    /\ \A i \in 1 .. z : bytes[i] = 0 /\ bytes[i + 1] < Top
                    /\ z = ScalarBytes \/ bytes[z + 1] # 0 \/ bytes[z + 2] >= Top
    IN  SubSeq(bytes, drop + 1, ScalarBytes + 1)

(* With size bytes of room; the size that is needed comes back either way. *)
EcdsaSigSerialize(size, r, s) ==
    LET rp == Trimmed(r)
        sp == Trimmed(s)
        needed == 6 + Len(rp) + Len(sp)
        sig == <<SequenceTag, needed - 2, IntegerTag, Len(rp)>> \o rp
               \o <<IntegerTag, Len(sp)>> \o sp
    IN  [size |-> needed, sig |-> IF size < needed THEN <<>> ELSE sig]

-----------------------------------------------------------------------------
(* Length fields for n: one byte, the long form with one and with two       *)
(* bytes (the first may be a needless zero), wrong by one, indefinite,     *)
(* reserved, and too long for a size_t.                                    *)
TwoBytes(n) == <<Top + 2, n \div ByteBase, n % ByteBase>>
Lengths(n) ==
    {<<n % ByteBase>>, <<Top + 1, n % ByteBase>>, TwoBytes(n), TwoBytes(n + 1),
     <<(n + 1) % ByteBase>>, <<Top>>, <<ByteBase - 1>>, <<Top + SizeBytes + 1>> \o [i \in 1 .. SizeBytes + 1 |-> 1]}

Init == input = <<>> /\ stage = 0 /\ made = NotMade

Serialize ==
    /\ stage = 0
    /\ \E r, s \in Values, room \in {6 + 2 * ScalarBytes, 8 + 2 * ScalarBytes} :
        LET out == EcdsaSigSerialize(room, r, s)
        IN  /\ out.size <= room
            /\ input' = out.sig
            /\ made' = <<r, s>>
    /\ stage' = 3

AddInteger ==
    /\ stage < 2
    /\ \E c \in Contents, tag \in {IntegerTag, SequenceTag} :
        \E len \in IF tag = IntegerTag THEN Lengths(Len(c)) ELSE {<<Len(c)>>} :
            input' = input \o <<tag>> \o len \o c
    /\ stage' = stage + 1
    /\ UNCHANGED made

Wrap ==
    /\ stage = 2
    /\ \E len \in Lengths(Len(input)), trailer \in {<<>>, <<0>>} :
        input' = <<SequenceTag>> \o len \o input \o trailer
    /\ stage' = 3
    /\ UNCHANGED made

Next == Serialize \/ AddInteger \/ Wrap
Spec == Init /\ [][Next]_vars

-----------------------------------------------------------------------------
(* The standard: a length is in the shortest form, an integer in the       *)
(* fewest bytes of two's complement.  Parses is the set of the readings of *)
(* a string as a sequence of two such integers.                            *)
DerLen(n) == CASE n < Top -> <<n>> [] n \in Top .. ByteBase - 1 -> <<Top + 1, n>> [] OTHER -> TwoBytes(n)
Item(tag, c) == <<tag>> \o DerLen(Len(c)) \o c
Minimal(c) ==
    /\ c # <<>>
    /\ Len(c) > 1 => ~(c[1] = 0 /\ c[2] < Top) /\ ~(c[1] = ByteBase - 1 /\ c[2] >= Top)
Meaning(c) ==
    LET b == Significant(c)
    IN  IF c[1] >= Top \/ Len(b) > ScalarBytes \/ Value(b) >= N THEN 0 ELSE Value(b)

Parses(sig) ==
    LET n == Len(sig)
        tailOf(k) == SubSeq(sig, n - k + 1, n)
        readings == UNION {{<<SubSeq(sig, i, j), tailOf(k)>> :
                               i \in (5 .. 9) \cap (1 .. j), k \in (n - j - 4 .. n - j - 2) \cap (1 .. n)} :
                           j \in 5 .. n}
    IN  {x \in readings : /\ Minimal(x[1]) /\ Minimal(x[2])
                          /\ sig = Item(SequenceTag, Item(IntegerTag, x[1]) \o Item(IntegerTag, x[2]))}

(* The parser accepts exactly the DER encodings of two integers: every     *)
(* length in its shortest form and within the string, no needless padding, *)
(* nothing missing and nothing left over.  It returns the integers, with 0 *)
(* for one that is negative or not below the order (which makes the        *)
(* signature invalid without making the string malformed).  What           *)
(* sig_serialize writes is such an encoding of its scalars, so it can be   *)
(* read back.                                                              *)
DerExact ==
    stage = 3 =>
        /\ IF Parses(input) = {}
           THEN EcdsaSigParse(input) = Rejected /\ SignatureParseDer(input) = <<0, 0>>
           ELSE \A x \in Parses(input) : EcdsaSigParse(input) = <<Meaning(x[1]), Meaning(x[2])>>
        /\ made # NotMade => EcdsaSigParse(input) = made
=============================================================================
