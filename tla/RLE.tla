-------------------------------- MODULE RLE --------------------------------
(***************************************************************************)
(* The compression of database values (src/compression/rle/read_write.go). *)
(* A byte takes Width values, 256 in the code; the constants of the format *)
(* are given by their distance from the largest byte, so that a small      *)
(* Width has the same cases.  The specification feeds Compress every       *)
(* sequence of a few given pieces.                                         *)
(***************************************************************************)
EXTENDS Integers, Sequences, SequencesExt

CONSTANTS
    Width,         \* number of values of a byte
    EmptySha,      \* the hash of the empty string
    EmptyListSha,  \* the hash of the empty list
    Pieces,        \* the pieces that inputs are made of
    MaxPieces      \* bound on the pieces of an input

Byte == 0..(Width - 1)

token             == Width - 2
emptyShaToken     == Width - 3
emptyListShaToken == Width - 2
tokenToken        == Width - 1

(* The error return, no sequence of bytes. *)
Failed == <<-1>>

Zeros(n) == [i \in 1..n |-> 0]

(* Mutant: the loop over a run of zeros goes one zero too far. *)
ZeroRunLonger(dat) ==
    LET limit == IF Len(dat) < Width THEN Len(dat) ELSE Width
        ends  == {j \in 0..limit : j = limit \/ dat[j + 1] # 0}
    IN  CHOOSE j \in ends : \A k \in ends : j <= k

(* How far the zeros at the start of dat go, at most Width - 1 of them. *)
ZeroRun(dat) ==
    LET limit == IF Len(dat) < Width - 1 THEN Len(dat) ELSE Width - 1
        ends  == {j \in 0..limit : j = limit \/ dat[j + 1] # 0}
    IN  CHOOSE j \in ends : \A k \in ends : j <= k

(* The output for the first bytes of dat, and how many of them it covers. *)
compressChunk(dat) ==
    LET Chunk(kind, out, n) == [kind |-> kind, out |-> out, n |-> n]
        Starts(prefix)      == IsPrefix(prefix, dat)
    IN  IF Starts(<<token>>) THEN Chunk("token", <<token, tokenToken>>, 1)
        ELSE IF Starts(<<0, 0>>)
             THEN Chunk("zeros", <<token, (ZeroRun(dat) + 2) % Width>>, ZeroRun(dat))
        ELSE IF Starts(EmptySha) THEN Chunk("hash", <<token, emptyShaToken>>, Len(EmptySha))
        ELSE IF Starts(EmptyListSha)
             THEN Chunk("hash", <<token, emptyListShaToken>>, Len(EmptyListSha))
        ELSE Chunk("plain", <<dat[1]>>, 1)

(* The chunks of dat, in order. *)
RECURSIVE Chunks(_)
Chunks(dat) ==
    IF dat = <<>> THEN <<>>
    ELSE LET chunk == compressChunk(dat)
         IN  <<chunk>> \o Chunks(SubSeq(dat, chunk.n + 1, Len(dat)))

Compress(dat) == FlattenSeq([i \in 1..Len(Chunks(dat)) |-> Chunks(dat)[i].out])

(* What a token and the byte after it stand for. *)
Expand(b) ==
    CASE b = emptyShaToken     -> EmptySha
      [] b = emptyListShaToken -> EmptyListSha
      [] b = tokenToken        -> <<token>>
      [] OTHER                 -> Zeros((b - 2) % Width)

(* Decompress fails on a token at the end. *)
RECURSIVE Decompress(_)
Decompress(dat) ==
    IF dat = <<>> THEN <<>>
    ELSE IF dat = <<token>> THEN Failed
    ELSE LET width == IF dat[1] = token THEN 2 ELSE 1
             rest  == Decompress(SubSeq(dat, width + 1, Len(dat)))
         IN  IF rest = Failed THEN Failed
             ELSE (IF width = 2 THEN Expand(dat[2]) ELSE <<dat[1]>>) \o rest

-----------------------------------------------------------------------------
VARIABLES
    input,  \* the input tried
    pieces  \* the number of pieces it is made of

Init == input = <<>> /\ pieces = 0

Feed(piece) ==
    /\ pieces < MaxPieces
    /\ input' = input \o piece
    /\ pieces' = pieces + 1

Next == \E piece \in Pieces : Feed(piece)

Spec == Init /\ [][Next]_<<input, pieces>>

-----------------------------------------------------------------------------
(* The lengths of a run of zeros whose length byte is one of the three bytes
   that mean something else after a token: 251, 252 and 253 for bytes.     *)
Clashing == (Width - 5)..(Width - 3)

(* Values come back from the database as they were put there, except those
   with a run of zeros of a clashing length, which never do.  That includes
   the longest runs, whose length byte wraps around.                       *)
RoundTrip ==
    (Decompress(Compress(input)) = input)
        <=> \A chunk \in ToSet(Chunks(input)) :
               chunk.kind = "zeros" => chunk.n \notin Clashing
=============================================================================
