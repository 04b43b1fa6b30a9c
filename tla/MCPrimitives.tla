---------------------------- MODULE MCPrimitives ----------------------------
(***************************************************************************)
(* The self-contained components, checked side by side: every behaviour    *)
(* chooses a subject at the start and is a behaviour of that subject's     *)
(* module, in which the variables of the others stay idle.                 *)
(*                                                                         *)
(* The words of the C code are scaled down, since TLC's integers have 32   *)
(* bits: what is kept is the number of limbs (4 or 6 for the 10 and 8 of   *)
(* the 32-bit builds, 5 and 4 as in the 64-bit ones), the gap between a    *)
(* limb and its word, the shape of the prime and of the order, and that    *)
(* the largest sums just fit.  Run-length encoding uses real bytes, the    *)
(* addition chains run at full size.  The nonce manager is extended, the    *)
(* others are instances.                                                   *)
(***************************************************************************)
EXTENDS ManagedState

VARIABLES
    subject,
    t, m, n, v, told, steps,              \* field elements and scalars
    function, round, left, acc, x,        \* addition chains
    inner, outer, key, written, digest,   \* HMAC
    der, stage, made,                     \* DER
    bytes, pieces                         \* run-length encoding

limbVars == <<t, m, n, v, told, steps>>
chainVars == <<function, round, left, acc, x>>
hashVars == <<inner, outer, key, written, digest>>
derVars == <<der, stage, made>>
rleVars == <<bytes, pieces>>
idle == 0

Bytes26 == <<59, 62, 63, 15>>
F26 == INSTANCE FieldCalls WITH
    Limbs <- 4, LimbBase <- 64, TopBase <- 16, Fold0 <- 5, Fold1 <- 1, WordBase <- 512,
    PieceBase <- 2, BytePieces <- 2, LimbPieces <- 6, BufBytes <- 11,
    StoreBase <- 2048, StoreCount <- 2, AccBase <- 524288,
    MulMagnitude <- 2, MaxMagnitude <- 4, LimbStarts <- {0, -2, -1}, MaxSteps <- 2,
    Others <- {Bytes26, [Bytes26 EXCEPT ![1] = 58], <<3, 0, 0, 0>>, <<63, 61, 63, 15>>}

Bytes52 == <<63, 63, 63, 63, 31>>
F52 == INSTANCE FieldCalls WITH
    Limbs <- 5, LimbBase <- 64, TopBase <- 32, Fold0 <- 1, Fold1 <- 0, WordBase <- 2048,
    PieceBase <- 2, BytePieces <- 1, LimbPieces <- 6, BufBytes <- 29,
    StoreBase <- 256, StoreCount <- 4, AccBase <- 131072,
    MulMagnitude <- 1, MaxMagnitude <- 8, LimbStarts <- {0, -2, -1}, MaxSteps <- 2,
    Others <- {Bytes52, [Bytes52 EXCEPT ![1] = 62], <<3, 0, 0, 0, 0>>, <<63, 61, 63, 63, 31>>}

(* Both orders are 4015: scalars around it, around its half, around powers *)
(* of 2, and one in thirteen of the others.                                *)
ScalarStarts ==
    {k \in 0 .. 4095 : k % 13 = 0} \cup 0 .. 4 \cup 2000 .. 2016 \cup 2044 .. 2052
    \cup 4005 .. 4025 \cup 4092 .. 4095
S32 == INSTANCE ScalarCalls WITH
    Limbs <- 6, LimbBits <- 2, LimbBytes <- 2, ByteBase <- 2, OrderC <- <<1, 0, 1, 1>>,
    Starts <- ScalarStarts, Others <- {1, 2008, 4014}, MaxShift <- 1, MaxSteps <- 1
S64 == INSTANCE ScalarCalls WITH
    Limbs <- 4, LimbBits <- 3, LimbBytes <- 3, ByteBase <- 2, OrderC <- <<1, 2, 1>>,
    Starts <- ScalarStarts, Others <- {1, 2008, 4014}, MaxShift <- 2, MaxSteps <- 1

Chains == INSTANCE AdditionChains

(* Real bytes: two hashes, a token, single bytes, and runs of zeros that   *)
(* add up to lengths around all limits of the format.                      *)
HashBytes(first) == [i \in 1 .. 32 |-> first + i]
R == INSTANCE RLE WITH
    Width <- 256, EmptySha <- HashBytes(160), EmptyListSha <- HashBytes(85), input <- bytes,
    MaxPieces <- 4,
    Pieces <- {<<0>>, <<1>>, <<254>>, HashBytes(160), HashBytes(85), [i \in 1 .. 125 |-> 0],
               [i \in 1 .. 127 |-> 0]}

H == INSTANCE Hash WITH
    BlockBytes <- 6, SizeBytes <- 2, DigestBytes <- 3, KeyLengths <- {0, 4, 6, 7, 16},
    MaxMessage <- 14

D == INSTANCE Der WITH
    ByteBase <- 32, ScalarBytes <- 2, SizeBytes <- 2, N <- 991, input <- der,
    Contents <- {<<>>, <<0>>, <<0, 7>>, <<0, 16>>, <<30, 31>>, <<31, 20>>, <<0, 31, 30>>,
                 [i \in 1 .. 16 |-> 3]},
    Values <- {0, 1, 15, 16, 31, 32, 511, 512, 543, 990}

-----------------------------------------------------------------------------
LimbsIdle == t = idle /\ m = idle /\ n = idle /\ v = idle /\ told = idle /\ steps = idle
ChainsIdle == function = idle /\ round = idle /\ left = idle /\ acc = idle /\ x = idle
HashIdle == inner = idle /\ outer = idle /\ key = idle /\ written = idle /\ digest = idle
DerIdle == der = idle /\ stage = idle /\ made = idle
RleIdle == bytes = idle /\ pieces = idle
NoncesIdle == Init /\ stateNonce = [a \in Addrs |-> 0]

PInit ==
    \/ /\ \/ subject = "field 10x26" /\ F26!Init
          \/ subject = "field 5x52" /\ F52!Init
       /\ told = idle /\ ChainsIdle /\ HashIdle /\ DerIdle /\ RleIdle /\ NoncesIdle
    \/ /\ \/ subject = "scalar 8x32" /\ S32!Init
          \/ subject = "scalar 4x64" /\ S64!Init
       /\ m = idle /\ n = idle /\ ChainsIdle /\ HashIdle /\ DerIdle /\ RleIdle /\ NoncesIdle
    \/ /\ subject = "chains" /\ Chains!Init
       /\ LimbsIdle /\ HashIdle /\ DerIdle /\ RleIdle /\ NoncesIdle
    \/ /\ subject = "hash" /\ H!Init
       /\ LimbsIdle /\ ChainsIdle /\ DerIdle /\ RleIdle /\ NoncesIdle
    \/ /\ subject = "der" /\ D!Init
       /\ LimbsIdle /\ ChainsIdle /\ HashIdle /\ RleIdle /\ NoncesIdle
    \/ /\ subject = "rle" /\ R!Init
       /\ LimbsIdle /\ ChainsIdle /\ HashIdle /\ DerIdle /\ NoncesIdle
    \/ /\ subject = "nonces" /\ Init
       /\ LimbsIdle /\ ChainsIdle /\ HashIdle /\ DerIdle /\ RleIdle

Field26 == /\ subject = "field 10x26" /\ F26!Next
           /\ UNCHANGED <<subject, told, chainVars, hashVars, derVars, rleVars, vars>>
Field52 == /\ subject = "field 5x52" /\ F52!Next
           /\ UNCHANGED <<subject, told, chainVars, hashVars, derVars, rleVars, vars>>
Scalar32 == /\ subject = "scalar 8x32" /\ S32!Next
            /\ UNCHANGED <<subject, m, n, chainVars, hashVars, derVars, rleVars, vars>>
Scalar64 == /\ subject = "scalar 4x64" /\ S64!Next
            /\ UNCHANGED <<subject, m, n, chainVars, hashVars, derVars, rleVars, vars>>
Chain == /\ subject = "chains" /\ Chains!Next
         /\ UNCHANGED <<subject, limbVars, hashVars, derVars, rleVars, vars>>
Hashing == /\ subject = "hash" /\ H!Next
           /\ UNCHANGED <<subject, limbVars, chainVars, derVars, rleVars, vars>>
Coding == /\ subject = "der" /\ D!Next
          /\ UNCHANGED <<subject, limbVars, chainVars, hashVars, rleVars, vars>>
Compressing == /\ subject = "rle" /\ R!Next
               /\ UNCHANGED <<subject, limbVars, chainVars, hashVars, derVars, vars>>
Managing == /\ subject = "nonces" /\ Next
            /\ UNCHANGED <<subject, limbVars, chainVars, hashVars, derVars, rleVars>>

PNext ==
    \/ Field26 \/ Field52 \/ Scalar32 \/ Scalar64
    \/ Chain \/ Hashing \/ Coding \/ Compressing \/ Managing

PSpec == PInit /\ [][PNext]_<<subject, limbVars, chainVars, hashVars, derVars, rleVars, vars>>

-----------------------------------------------------------------------------
(* FieldSound of module FieldCalls, for the limbs of both builds           *)
(* (field_10x26_impl.h and field_5x52_impl.h): residues are right, no word *)
(* wraps, tests answer for the residue.                                    *)
FieldSound ==
    /\ subject = "field 10x26" => F26!FieldSound
    /\ subject = "field 5x52" => F52!FieldSound

(* ScalarSound of module ScalarCalls, for the limbs of both builds         *)
(* (scalar_8x32_impl.h and scalar_4x64_impl.h): limbs are always those of  *)
(* the residue below the order, and tests and overflow reports answer for  *)
(* it.                                                                     *)
ScalarSound ==
    /\ subject = "scalar 8x32" => S32!ScalarSound
    /\ subject = "scalar 4x64" => S64!ScalarSound

(* The addition chains of fe_inv, fe_sqrt and scalar_inverse reach exactly *)
(* the exponents p - 2, (p + 1) / 4 and n - 2.                             *)
ChainsReachExponent == subject = "chains" => Chains!ChainsReachExponent

(* However a message is cut into writes, hmac_sha256_finalize returns the  *)
(* HMAC of the whole message.                                              *)
HmacOfMessage == subject = "hash" => H!HmacOfMessage

(* ecdsa_sig_parse accepts exactly the DER encodings of two integers, with *)
(* their values, and reads back what ecdsa_sig_serialize wrote.            *)
DerExact == subject = "der" => D!DerExact

(* Decompress gives back what Compress was given, except for runs of 251   *)
(* to 253 zeros (RoundTrip of module RLE).                                 *)
RoundTrip == subject = "rle" => R!RoundTrip
=============================================================================
