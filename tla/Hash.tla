-------------------------------- MODULE Hash --------------------------------
(***************************************************************************)
(* SHA-256 and HMAC of hash_impl.h as streams: how writes of any length    *)
(* become blocks.  The compression function is left open: a state is the   *)
(* sequence of the blocks that went into it, so that two digests are equal *)
(* only when the same blocks were compressed.  A byte is a model value:    *)
(* input bytes are numbered, the others are what Pad, ZeroByte, SizeByte,  *)
(* Xor and DigestByte say.  hmac holds the two contexts of an HMAC that is *)
(* fed piece by piece with the bytes of a message.                         *)
(***************************************************************************)
EXTENDS Integers, Sequences, SequencesExt

CONSTANTS
    BlockBytes,   \* 64
    SizeBytes,    \* 8, the bytes of the length at the end
    DigestBytes,  \* 32
    KeyLengths,   \* lengths of the keys
    MaxMessage    \* bound on the length of a message

VARIABLES inner, outer, \* the contexts: s, buf and bytes
          key,          \* length of the key
          written,      \* bytes of the message written so far
          digest        \* the result, <<>> before it is there

vars == <<inner, outer, key, written, digest>>

Pad == <<"80">>
ZeroByte == <<"00">>
SizeByte(n, i) == <<"size", n, i>>
Xor(mask, b) == <<mask, b>>
DigestByte(s, i) == <<"digest", s, i>>

KeyByte(i) == <<"key", i>>
MessageByte(i) == <<"message", i>>
Piece(byte(_), from, to) == [i \in 1 .. to - from |-> byte(from + i)]

-----------------------------------------------------------------------------
(* The buffer keeps what earlier blocks left in it.                        *)
Sha256Initialize == [s |-> <<>>, buf |-> [i \in 1 .. BlockBytes |-> <<"stale">>], bytes |-> 0]

Copy(buf, at, data) == [i \in 1 .. BlockBytes |->
                           IF i - at \in 1 .. Len(data) THEN data[i - at] ELSE buf[i]]

(* The loop over full blocks, then what remains.                           *)
Sha256Write(hash, data) ==
    LET bufsize == hash.bytes % BlockBytes
        Take(k) == SubSeq(data, IF k = 1 THEN 1 ELSE (k - 1) * BlockBytes - bufsize + 1,
                          k * BlockBytes - bufsize)
        full == (bufsize + Len(data)) \div BlockBytes
        blocks == [k \in 1 .. full |-> Copy(hash.buf, IF k = 1 THEN bufsize ELSE 0, Take(k))]
        last == IF full = 0 THEN hash.buf ELSE blocks[full]
        rest == SubSeq(data, IF full = 0 THEN 1 ELSE full * BlockBytes - bufsize + 1, Len(data))
    IN  [s |-> hash.s \o blocks,
         buf |-> Copy(last, IF full = 0 THEN bufsize ELSE 0, rest),
         bytes |-> hash.bytes + Len(data)]

(* Mutant: no further block when the size does not fit into the last one.  *)
Sha256FinalizeFits(hash) ==
    LET sizedesc == [i \in 1 .. SizeBytes |-> SizeByte(hash.bytes, i)]
        room == BlockBytes - 1 - SizeBytes - (hash.bytes % BlockBytes)
        zeros == [i \in 1 .. IF room < 0 THEN 0 ELSE room |-> ZeroByte]
    IN  Sha256Write(Sha256Write(hash, <<Pad>> \o zeros), sizedesc)

(* The length is taken before the padding is written.                      *)
Sha256Finalize(hash) ==
    LET sizedesc == [i \in 1 .. SizeBytes |-> SizeByte(hash.bytes, i)]
        zeros == (2 * BlockBytes - 1 - SizeBytes - (hash.bytes % BlockBytes)) % BlockBytes
        padded == Sha256Write(hash, <<Pad>> \o [i \in 1 .. zeros |-> ZeroByte])
    IN  Sha256Write(padded, sizedesc)

Digest(hash) == [i \in 1 .. DigestBytes |-> DigestByte(hash.s, i)]

(* Keys longer than a block are hashed first.                              *)
BlockKey(k) ==
    LET short == Piece(KeyByte, 0, k)
        long == Digest(Sha256Finalize(Sha256Write(Sha256Initialize, short)))
        bytes == IF k <= BlockBytes THEN short ELSE long
    IN  bytes \o [i \in 1 .. BlockBytes - Len(bytes) |-> ZeroByte]

HmacSha256Initialize(k, mask) ==
    Sha256Write(Sha256Initialize, [i \in 1 .. BlockBytes |-> Xor(mask, BlockKey(k)[i])])

-----------------------------------------------------------------------------
Init ==
    /\ key \in KeyLengths
    /\ outer = HmacSha256Initialize(key, "5c")
    /\ inner = HmacSha256Initialize(key, "36")
    /\ written = 0
    /\ digest = <<>>

(* hmac_sha256_write of the next n bytes, possibly none.                   *)
Write ==
    \E n \in 0 .. MaxMessage - written :
        /\ digest = <<>>
        /\ inner' = Sha256Write(inner, Piece(MessageByte, written, written + n))
        /\ written' = written + n
        /\ UNCHANGED <<outer, key, digest>>

(* hmac_sha256_finalize.                                                   *)
Finalize ==
    /\ digest = <<>>
    /\ inner' = Sha256Finalize(inner)
    /\ outer' = Sha256Finalize(Sha256Write(outer, Digest(inner')))
    /\ digest' = Digest(outer')
    /\ UNCHANGED <<key, written>>

Next == Write \/ Finalize
Spec == Init /\ [][Next]_vars

-----------------------------------------------------------------------------
(* The standard's definitions, on whole messages.                          *)
Padded(m) ==
    LET body == Len(m) + 1 + SizeBytes
        fill == CHOOSE z \in 0 .. BlockBytes - 1 : (body + z) % BlockBytes = 0
    IN  m \o <<Pad>> \o [i \in 1 .. fill |-> ZeroByte] \o [i \in 1 .. SizeBytes |-> SizeByte(Len(m), i)]
BlocksOf(m) ==
    [k \in 1 .. Len(m) \div BlockBytes |-> SubSeq(m, (k - 1) * BlockBytes + 1, k * BlockBytes)]
Sha256(m) == [i \in 1 .. DigestBytes |-> DigestByte(BlocksOf(Padded(m)), i)]
Keyed(mask) ==
    LET k == Piece(KeyByte, 0, key)
        k0 == IF key > BlockBytes THEN Sha256(k) ELSE k
    IN  [i \in 1 .. BlockBytes |-> Xor(mask, IF i <= Len(k0) THEN k0[i] ELSE ZeroByte)]
Hmac(m) == Sha256(Keyed("5c") \o Sha256(Keyed("36") \o m))

(* However the message is cut into writes, and wherever a write ends in a  *)
(* block, the result is the HMAC of the message: nothing is compressed     *)
(* twice or left in the buffer, a length that leaves no room for the size  *)
(* takes one more block, and no stale byte of the buffer gets in.          *)
HmacOfMessage == digest # <<>> => digest = Hmac(Piece(MessageByte, 0, written))
=============================================================================
