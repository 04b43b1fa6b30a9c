--------------------------- MODULE MCLDBDatabase ---------------------------
(* The database with the compression of RLE, on a small byte. *)
EXTENDS LDBDatabase, TLC

R == INSTANCE RLE WITH Width <- 8, EmptySha <- <<1, 0, 1>>, EmptyListSha <- <<1, 1, 0>>,
                       Pieces <- {}, MaxPieces <- 0, input <- answer, pieces <- 0

MCNil   == <<-1>>
MCError == <<-2>>

(* A value with a token, which grows and comes back, and one with a run of
   zeros of a clashing length, which comes back as the empty hash.         *)
MCValues == {<<6>>, <<0, 0, 0>>}

Packed   == [v \in MCValues |-> R!Compress(v)]
Unpacked == [d \in {Packed[v] : v \in MCValues} |-> R!Decompress(d)]
MCPack(v)   == Packed[v]
MCUnpack(d) == Unpacked[d]
=============================================================================
