---------------------------- MODULE ChainManager ----------------------------
(***************************************************************************)
(* The chain manager (src/chain_manager): it inserts blocks, keeps the     *)
(* heaviest chain as the canonical one, stores both in the block database  *)
(* and announces new heads on the event multiplexer.                       *)
(*                                                                         *)
(* The block database is the one that KVStore promises: a Put is seen at   *)
(* once and survives a crash from the next flush on, which can fall        *)
(* between any two Puts; a flush that fails loses the Puts since the last  *)
(* one, and nobody hears of it.  InsertChain holds                         *)
(* chainmu, so one call runs at a time; the event loop (update) and the    *)
(* database's flusher run beside it.                                       *)
(***************************************************************************)
EXTENDS Integers, Sequences, SequencesExt, FiniteSets

CONSTANTS
    Genesis,          \* the genesis block
    Blocks,           \* the other blocks that are ever offered
    Parent,           \* the parent of each of them
    Number,           \* the number in the header of every block
    Difficulty,       \* the difficulty of every block
    BadNonce,         \* blocks that fail the check of their nonce
    BadHashes,        \* blocks that InsertChain refuses by their hash
    Invalid,          \* other blocks that Process refuses, now or later
    Delay,            \* how far in the future the time of each block is: 0, not
                      \* at all; 1, little enough to be kept; 2, too far
    CheckpointLimit,  \* checkpointLimit, 200 in the code
    Chains,           \* the chains of blocks that callers offer to InsertChain
    MaxPosting,       \* how many queues of events wait when a chain is offered
    None,             \* no block
    Crashes,          \* whether the process can crash
    MaxFailures,      \* how many flushes can fail
    Stops             \* whether Stop is called

AllBlocks == Blocks \cup {Genesis}

ASSUME ChainAssumption ==
    /\ Genesis \notin Blocks /\ None \notin AllBlocks
    /\ Parent \in [Blocks -> AllBlocks] /\ Number \in [AllBlocks -> Nat]
    /\ \A b \in Blocks : Number[b] = Number[Parent[b]] + 1
    /\ Difficulty \in [AllBlocks -> Nat \ {0}]
    /\ BadNonce \subseteq Blocks /\ BadHashes \subseteq Blocks /\ Invalid \subseteq Blocks
    /\ Delay \in [Blocks -> 0..2]
    /\ CheckpointLimit \in Nat \ {0} /\ Chains \subseteq Seq(Blocks) /\ MaxPosting \in Nat
    /\ Crashes \in BOOLEAN /\ MaxFailures \in Nat /\ Stops \in BOOLEAN

(* A block and its ancestors. *)
Chain[b \in AllBlocks] == {b} \cup (IF b = Genesis THEN {} ELSE Chain[Parent[b]])

(* CalcTD: a block's difficulty on top of its parent's total. *)
Td[b \in AllBlocks] == Difficulty[b] + (IF b = Genesis THEN 0 ELSE Td[Parent[b]])

VARIABLES
    db,            \* the block database as Get sees it
    disk,          \* what of it survives a crash
    cached,        \* blocks of the LRU cache that the database may have lost
    currentBlock,  \* the head, also lastBlockHash; None if the manager has died
    td,            \* its total difficulty
    checkpoint,    \* inserts since the last checkpoint
    futureBlocks,  \* blocks to be tried again later
    inserting,     \* who is in InsertChain: "no", "caller" or "loop"
    chain,         \* the blocks it has still to insert
    writing,       \* the block that WriteBlock writes, or None
    inserts,       \* the blocks it has still to insert, the first is in work
    at,            \* the write it makes next, to the database or in memory
    queue,         \* the events it has gathered
    posting,       \* the event queues that goroutines are posting
    handling,      \* the events the event loop has still to handle
    room,          \* the length of the slice it has made for future blocks
    retry,         \* the future blocks the event loop is about to insert
    announced,     \* the block of the last ChainHeadEvent
    stop,          \* how far Stop is: "no", "waiting" or "returned"
    loop,          \* where the event loop is: "select", "length" (it has the
                   \* number of futureBlocks), "keys" (and their keys),
                   \* "blocks" (and the blocks), "gone"
    delay,         \* Delay, as time passes
    unposted,      \* history: an InsertChain dropped the event of a new head
    lost           \* history: how many flushes have failed

dbVars   == <<db, disk, cached>>
memVars  == <<currentBlock, td, checkpoint, futureBlocks>>
writeVars == <<writing, inserts, at>>
callVars == <<inserting, chain, writeVars, queue>>
loopVars == <<posting, handling, room, retry, announced>>
stopVars == <<stop, loop>>
restVars == <<delay, unposted, lost>>
vars     == <<dbVars, memVars, callVars, loopVars, stopVars, restVars>>

Numbers == {Number[b] : b \in AllBlocks}

Databases == [has: SUBSET AllBlocks, num: [Numbers -> AllBlocks \cup {None}],
              last: AllBlocks \cup {None}, checkpoint: AllBlocks \cup {None}]

EmptyDB == [has |-> {}, num |-> [n \in Numbers |-> None],
            last |-> None, checkpoint |-> None]

Events == [type: {"canon", "side"}, block: Blocks]

TypeOK ==
    /\ db \in Databases /\ disk \in Databases /\ cached \subseteq AllBlocks
    /\ currentBlock \in AllBlocks \cup {None}
    /\ td \in Nat
    /\ checkpoint \in 0..CheckpointLimit
    /\ futureBlocks \subseteq Blocks
    /\ inserting \in {"no", "caller", "loop"}
    /\ chain \in Seq(Blocks)
    /\ writing \in Blocks \cup {None} /\ inserts \in Seq(AllBlocks)
    /\ at \in {"idle", "td", "num", "last", "checkpoint", "head", "has"}
    /\ queue \in Seq(Events)
    /\ posting \subseteq Seq(Events)
    /\ handling \in Seq(Events)
    /\ room \in Nat /\ retry \in Seq(Blocks)
    /\ announced \in AllBlocks \cup {None}
    /\ stop \in {"no", "waiting", "returned"}
    /\ loop \in {"select", "length", "keys", "blocks", "gone"}
    /\ delay \in [Blocks -> 0..2]
    /\ unposted \in BOOLEAN /\ lost \in Nat

-----------------------------------------------------------------------------
(* What Reset writes into an empty database. *)
GenesisDB(d) == [d EXCEPT !.has = @ \cup {Genesis}, !.num[Number[Genesis]] = Genesis,
                          !.last = Genesis]

(* recover: the block of the last checkpoint, if it is there. *)
Recovered(d) == IF d.checkpoint \in d.has THEN d.checkpoint ELSE None

(* Mutant: the last block is not looked for. *)
LastStateUnchecked(d) == IF d.last = None THEN Genesis ELSE d.last

(* setLastState: the head that a new manager finds in the database d. *)
LastState(d) == IF d.last = None THEN Genesis
                ELSE IF d.last \in d.has THEN d.last ELSE Recovered(d)

(* A new manager on an empty database. *)
Init ==
    /\ db = GenesisDB(EmptyDB) /\ disk = EmptyDB /\ cached = {Genesis}
    /\ currentBlock = Genesis /\ td = Td[Genesis]
    /\ checkpoint = 1 /\ futureBlocks = {}
    /\ inserting = "no" /\ chain = <<>> /\ queue = <<>>
    /\ writing = None /\ inserts = <<>> /\ at = "idle"
    /\ posting = {} /\ handling = <<>> /\ room = 0 /\ retry = <<>>
    /\ announced = Genesis
    /\ stop = "no" /\ loop = "select"
    /\ delay = Delay
    /\ unposted = FALSE /\ lost = 0

(* The process dies and a new manager starts on what is left, with the genesis
   block in its cache.  If it finds no head, it uses the one it has not found,
   and dies.                                                               *)
Crash ==
    LET head == LastState(disk)
    IN  /\ Crashes
        /\ db' = IF disk.last = None THEN GenesisDB(disk)
                 ELSE IF head = None THEN disk ELSE [disk EXCEPT !.last = head]
        /\ cached' = {Genesis}
        /\ currentBlock' = head
        /\ td' = IF head = None THEN 0 ELSE Td[head]
        /\ checkpoint' = IF disk.last = None THEN 1 ELSE 0
        /\ futureBlocks' = {}
        /\ inserting' = "no" /\ chain' = <<>> /\ queue' = <<>>
        /\ writing' = None /\ inserts' = <<>> /\ at' = "idle"
        /\ posting' = {} /\ handling' = <<>> /\ room' = 0 /\ retry' = <<>>
        /\ announced' = head
        /\ stop' = "no" /\ loop' = "select"
        /\ unposted' = FALSE
        /\ UNCHANGED <<disk, delay, lost>>

(* The database's goroutine writes what has been put, or fails to and forgets
   it; the cache has still those of the blocks that have been read.  (This
   matters only if the process can crash.)                                 *)
Flush ==
    /\ Crashes /\ currentBlock # None
    /\ \/ disk' = db /\ UNCHANGED <<db, cached, lost>>
       \/ /\ lost < MaxFailures
          /\ db' = disk /\ lost' = lost + 1
          /\ \E read \in SUBSET (db.has \ disk.has) : cached' = cached \cup read
          /\ UNCHANGED disk
    /\ UNCHANGED <<memVars, callVars, loopVars, stopVars, delay, unposted>>

-----------------------------------------------------------------------------
(* Somebody offers a chain of blocks to InsertChain, which waits for chainmu. *)
InsertChain(blocks) ==
    /\ currentBlock # None /\ inserting = "no" /\ Cardinality(posting) < MaxPosting
    /\ inserting' = "caller"
    /\ chain' = blocks
    /\ queue' = <<>>
    /\ UNCHANGED <<dbVars, memVars, writeVars, loopVars, stopVars, restVars>>

(* InsertChain is ready for its next block. *)
Ready == inserting # "no" /\ chain # <<>> /\ at = "idle"

NextBlock == Head(chain)

(* HasBlock and GetBlock look in the cache, then in the database. *)
HasBlock(b) == b \in db.has \cup cached

(* Process reports a block that is stored already. *)
SkipKnown ==
    /\ Ready /\ stop = "no" /\ HasBlock(NextBlock)
    /\ chain' = Tail(chain)
    /\ UNCHANGED <<dbVars, memVars, inserting, writeVars, queue, loopVars, stopVars, restVars>>

(* A block in the near future, or one whose parent is, is kept for later, even
   one that Process would refuse later.                                    *)
KeepForLater ==
    /\ Ready /\ stop = "no" /\ ~HasBlock(NextBlock)
    /\ NextBlock \notin BadNonce \cup BadHashes
    /\ \/ delay[NextBlock] = 1 /\ HasBlock(Parent[NextBlock])
       \/ ~HasBlock(Parent[NextBlock]) /\ Parent[NextBlock] \in futureBlocks
    /\ futureBlocks' = futureBlocks \cup {NextBlock}
    /\ chain' = Tail(chain)
    /\ UNCHANGED <<dbVars, currentBlock, td, checkpoint, inserting, writeVars, queue, loopVars,
                   stopVars, restVars>>

Forks(b) == Parent[b] # currentBlock

(* The first common block of a block's chain and that of the head. *)
Common(b) ==
    LET both == Chain[b] \cap Chain[currentBlock]
    IN  CHOOSE x \in both : \A y \in both : Number[y] <= Number[x]

Ancestor(b, n) == CHOOSE x \in Chain[b] : Number[x] = n

(* diff: the blocks of the new chain above the common block, from the top. *)
diff(b) == [i \in 1..(Number[b] - Number[Common(b)]) |-> Ancestor(b, Number[b] + 1 - i)]

(* diff walks down both chains to the common block and misses one. *)
DiffFails(b) ==
    /\ Forks(b)
    /\ \E x \in (Chain[b] \ {b}) \cup (Chain[currentBlock] \ {currentBlock}) :
          Number[x] >= Number[Common(b)] /\ ~HasBlock(x)

(* Mutant: the longer chain wins. *)
Longer(b) == Number[b] > Number[currentBlock]

Heavier(b) == Td[b] > td

(* Mutant: the parent is not looked for. *)
AcceptsOrphan(b) == ~HasBlock(b) /\ b \notin BadNonce \cup BadHashes \cup Invalid

(* The block is new, nothing is wrong with it and its parent is stored. *)
Accepts(b) ==
    /\ ~HasBlock(b) /\ HasBlock(Parent[b])
    /\ b \notin BadNonce \cup BadHashes \cup Invalid

(* The event loop's own call of InsertChain returns to its select. *)
LeaveCall ==
    /\ inserting' = "no" /\ chain' = <<>> /\ queue' = <<>>
    /\ loop' = IF inserting = "loop" THEN "select" ELSE loop

(* InsertChain returns an error: the nonce of this or of a later block is
   wrong, the block has a bad hash or Process refuses it, it is too far in the
   future, its parent is unknown, or the two chains cannot be joined.  The
   events gathered are dropped; a block that was kept stays in futureBlocks. *)
Fail ==
    /\ Ready /\ stop = "no"
    /\ \/ ToSet(chain) \cap BadNonce # {}
       \/ NextBlock \in BadHashes \cup Invalid
       \/ Accepts(NextBlock) /\ delay[NextBlock] = 2
       \/ ~HasBlock(NextBlock) /\ ~HasBlock(Parent[NextBlock]) /\ Parent[NextBlock] \notin futureBlocks
       \/ Accepts(NextBlock) /\ delay[NextBlock] = 0 /\ Heavier(NextBlock) /\ DiffFails(NextBlock)
    /\ LeaveCall
    /\ unposted' = (unposted \/ [type |-> "canon", block |-> currentBlock] \in ToSet(queue))
    /\ UNCHANGED <<dbVars, memVars, writeVars, posting, handling, room, retry, announced,
                   stop, delay, lost>>

(* What WriteBlock does when it has these blocks to insert: the last one is
   the block itself, whose total difficulty is set first.                  *)
Todo(bs) == CASE Len(bs) = 0 -> "has" [] Len(bs) = 1 -> "td" [] OTHER -> "num"

(* WriteBlock: a heavier block becomes the head, after the blocks above the
   common one if it is on another chain (merge inserts them and the block
   itself, from the top); any other is only stored.  Either way, a block that
   becomes the head has the status of a canonical one.                     *)
WriteBlock ==
    LET b == NextBlock
    IN  /\ Ready /\ stop = "no"
        /\ Accepts(b) /\ delay[b] = 0
        /\ writing' = b
        /\ \/ /\ Heavier(b) /\ ~DiffFails(b)
              /\ inserts' = Append(IF Forks(b) THEN diff(b) ELSE <<>>, b)
              /\ queue' = Append(queue, [type |-> "canon", block |-> b])
           \/ /\ ~Heavier(b)
              /\ inserts' = <<>>
              /\ queue' = Append(queue, [type |-> "side", block |-> b])
        /\ at' = Todo(inserts')
        /\ chain' = Tail(chain)
        /\ UNCHANGED <<dbVars, memVars, inserting, loopVars, stopVars, restVars>>

SetTotalDifficulty ==
    /\ at = "td" /\ at' = "num"
    /\ td' = Td[writing]
    /\ UNCHANGED <<dbVars, currentBlock, checkpoint, futureBlocks, inserting, chain, writing,
                   inserts, queue, loopVars, stopVars, restVars>>

(* Mutant: insert leaves out the entry of the block's number. *)
WriteNoNumber ==
    /\ at = "num" /\ at' = "last"
    /\ UNCHANGED <<dbVars, memVars, inserting, chain, writing, inserts, queue, loopVars,
                   stopVars, restVars>>

(* insert: WriteHead puts the block under its number ... *)
WriteNumber ==
    /\ at = "num" /\ at' = "last"
    /\ db' = [db EXCEPT !.num[Number[Head(inserts)]] = Head(inserts)]
    /\ UNCHANGED <<disk, cached, memVars, inserting, chain, writing, inserts, queue, loopVars, stopVars,
                   restVars>>

(* ... and as the last one, ... *)
WriteLast ==
    /\ at = "last" /\ at' = "checkpoint"
    /\ db' = [db EXCEPT !.last = Head(inserts)]
    /\ UNCHANGED <<disk, cached, memVars, inserting, chain, writing, inserts, queue, loopVars, stopVars,
                   restVars>>

(* ... every so often it is a checkpoint, ... *)
Checkpoint ==
    /\ at = "checkpoint" /\ at' = "head"
    /\ \/ /\ checkpoint < CheckpointLimit
          /\ checkpoint' = checkpoint + 1
          /\ UNCHANGED db
       \/ /\ checkpoint = CheckpointLimit
          /\ checkpoint' = 0
          /\ db' = [db EXCEPT !.checkpoint = Head(inserts)]
    /\ UNCHANGED <<disk, cached, currentBlock, td, futureBlocks, inserting, chain, writing, inserts,
                   queue, loopVars, stopVars, restVars>>

(* ... and becomes the head. *)
SetCurrent ==
    /\ at = "head"
    /\ currentBlock' = Head(inserts)
    /\ inserts' = Tail(inserts) /\ at' = Todo(inserts')
    /\ UNCHANGED <<dbVars, td, checkpoint, futureBlocks, inserting, chain, writing, queue,
                   loopVars, stopVars, restVars>>

(* At last WriteBlock stores the block and takes it out of futureBlocks. *)
Store ==
    /\ at = "has" /\ at' = "idle"
    /\ db' = [db EXCEPT !.has = @ \cup {writing}]
    /\ futureBlocks' = futureBlocks \ {writing}
    /\ writing' = None
    /\ UNCHANGED <<disk, cached, currentBlock, td, checkpoint, inserting, chain, inserts, queue, loopVars,
                   stopVars, restVars>>

(* InsertChain returns after its last block, or when Stop interrupts it, and
   a goroutine posts the events.  (An empty queue has no effect.)          *)
Return ==
    /\ inserting # "no" /\ at = "idle" /\ (chain = <<>> \/ stop # "no")
    /\ posting' = IF queue = <<>> THEN posting ELSE posting \cup {queue}
    /\ LeaveCall
    /\ UNCHANGED <<dbVars, memVars, writeVars, handling, room, retry, announced, stop, restVars>>

-----------------------------------------------------------------------------
(* The event loop receives one of the event queues. *)
Receive(events) ==
    /\ currentBlock # None /\ loop = "select" /\ handling = <<>>
    /\ posting' = posting \ {events}
    /\ handling' = events
    /\ UNCHANGED <<dbVars, memVars, callVars, room, retry, announced, stopVars, restVars>>

(* Mutant: an event is not compared with the head. *)
HandleAll ==
    /\ currentBlock # None /\ handling # <<>>
    /\ announced' = IF Head(handling).type = "canon" THEN Head(handling).block ELSE announced
    /\ handling' = Tail(handling)
    /\ UNCHANGED <<dbVars, memVars, callVars, posting, room, retry, stopVars, restVars>>

(* Mutant: only the first event of a queue is handled. *)
HandleFirst ==
    /\ currentBlock # None /\ handling # <<>>
    /\ announced' = IF Head(handling) = [type |-> "canon", block |-> currentBlock]
                    THEN currentBlock ELSE announced
    /\ handling' = <<>>
    /\ UNCHANGED <<dbVars, memVars, callVars, posting, room, retry, stopVars, restVars>>

(* It handles the next event: that of the current head is followed by a
   ChainHeadEvent.                                                         *)
Handle ==
    /\ currentBlock # None /\ handling # <<>>
    /\ announced' = IF Head(handling) = [type |-> "canon", block |-> currentBlock]
                    THEN currentBlock ELSE announced
    /\ handling' = Tail(handling)
    /\ UNCHANGED <<dbVars, memVars, callVars, posting, room, retry, stopVars, restVars>>

(* The ways to sort a set of blocks by their numbers. *)
InOrderOfNumber(S) ==
    {q \in [1..Cardinality(S) -> S] :
        ToSet(q) = S /\ \A i, j \in 1..Cardinality(S) : i < j => Number[q[i]] <= Number[q[j]]}

(* The timer: procFutureBlocks makes room for the blocks that are kept, ... *)
ReadLength ==
    /\ currentBlock # None /\ loop = "select" /\ handling = <<>>
    /\ room' = Cardinality(futureBlocks)
    /\ loop' = "length"
    /\ UNCHANGED <<dbVars, memVars, callVars, posting, handling, retry, announced, stop, restVars>>

(* Mutant: a single block is not tried again. *)
ReadKeysOfTwo ==
    /\ currentBlock # None /\ loop = "length"
    /\ retry' \in InOrderOfNumber(futureBlocks)
    /\ loop' = IF room <= 1 /\ Len(retry') <= 1 THEN "select" ELSE "keys"
    /\ UNCHANGED <<dbVars, memVars, callVars, posting, handling, room, announced, stop, restVars>>

(* ... reads their keys, and is done if there are none, ... *)
ReadKeys ==
    /\ currentBlock # None /\ loop = "length"
    /\ retry' \in InOrderOfNumber(futureBlocks)
    /\ loop' = IF room = 0 /\ retry' = <<>> THEN "select" ELSE "keys"
    /\ UNCHANGED <<dbVars, memVars, callVars, posting, handling, room, announced, stop, restVars>>

(* Each key has its place in the room that was made, and still its block. *)
Matches == Len(retry) = room /\ ToSet(retry) \subseteq futureBlocks

(* ... then the blocks, and panics if one has come or gone in between: there
   is no room for it, or no block where one is expected; ...               *)
ReadBlocks ==
    /\ currentBlock # None /\ loop = "keys"
    /\ room' = 0
    /\ \/ /\ Matches
          /\ loop' = "blocks"
          /\ UNCHANGED <<dbVars, memVars, callVars, posting, handling, retry, announced, stop, restVars>>
       \/ /\ ~Matches
          /\ currentBlock' = None
          /\ inserting' = "no" /\ chain' = <<>> /\ queue' = <<>>
          /\ writing' = None /\ inserts' = <<>> /\ at' = "idle"
          /\ retry' = <<>> /\ loop' = "gone"
          /\ UNCHANGED <<dbVars, td, checkpoint, futureBlocks, posting, handling, announced,
                         stop, restVars>>

(* ... and inserts them in the order of their numbers. *)
InsertFuture ==
    /\ currentBlock # None /\ loop = "blocks" /\ inserting = "no"
    /\ inserting' = "loop" /\ chain' = retry /\ queue' = <<>>
    /\ retry' = <<>>
    /\ UNCHANGED <<dbVars, memVars, writeVars, posting, handling, room, announced, stopVars,
                   restVars>>

(* Stop closes quit, interrupts InsertChain and waits for it; the event loop
   leaves when its select next takes quit.                                 *)
Stop ==
    /\ Stops /\ currentBlock # None /\ stop = "no"
    /\ stop' = "waiting"
    /\ UNCHANGED <<dbVars, memVars, callVars, loopVars, loop, restVars>>

StopReturns ==
    /\ stop = "waiting" /\ inserting = "no"
    /\ stop' = "returned"
    /\ UNCHANGED <<dbVars, memVars, callVars, loopVars, loop, restVars>>

LoopQuits ==
    /\ stop # "no" /\ loop = "select" /\ handling = <<>> /\ inserting # "loop"
    /\ loop' = "gone"
    /\ UNCHANGED <<dbVars, memVars, callVars, loopVars, stop, restVars>>

(* Time passes, and the time of a block comes nearer. *)
TimePasses(b) ==
    /\ delay[b] > 0
    /\ delay' = [delay EXCEPT ![b] = @ - 1]
    /\ UNCHANGED <<dbVars, memVars, callVars, loopVars, stopVars, unposted, lost>>

-----------------------------------------------------------------------------
(* What a running call of InsertChain can do next. *)
Write == SetTotalDifficulty \/ WriteNumber \/ WriteLast \/ Checkpoint \/ SetCurrent \/ Store

Proceed == SkipKnown \/ KeepForLater \/ Fail \/ WriteBlock \/ Write \/ Return

ReceiveAny == \E events \in posting : Receive(events)

Next ==
    \/ \E blocks \in Chains : InsertChain(blocks)
    \/ SkipKnown \/ KeepForLater \/ Fail \/ WriteBlock \/ Write \/ Return
    \/ ReceiveAny \/ Handle
    \/ ReadLength \/ ReadKeys \/ ReadBlocks \/ InsertFuture
    \/ Stop \/ StopReturns \/ LoopQuits
    \/ \E b \in Blocks : TimePasses(b)
    \/ Flush \/ Crash

Spec == Init /\ [][Next]_vars

(* Goroutines that can run do run; a sender that waits for the event loop is
   served in the end (its channel is a queue and the loop comes back to its
   select), and so is the event loop when it waits for chainmu.  The timer
   comes again and again and time passes.                                  *)
Fairness ==
    /\ WF_vars(Proceed) /\ WF_vars(Handle) /\ WF_vars(ReadKeys) /\ WF_vars(ReadBlocks)
    /\ SF_vars(ReceiveAny) /\ SF_vars(ReadLength) /\ SF_vars(InsertFuture)
    /\ \A b \in Blocks : WF_vars(TimePasses(b))

FairSpec == Spec /\ Fairness

-----------------------------------------------------------------------------
(* InsertChain is between two blocks, or not running. *)
Settled == currentBlock # None /\ at = "idle"

(* The head and all its ancestors are stored, whenever the process crashed
   and whatever it had flushed, unless a flush has failed: WriteBlock stores a
   block after its parent, and setLastState falls back to a stored block.  *)
ChainStored == Settled /\ lost = 0 => Chain[currentBlock] \subseteq db.has

(* merge never fails for want of a block: whatever block is offered next, and
   wherever the process crashed before, both chains can be walked down to
   their common block, unless a flush has failed.                          *)
Joinable == Settled /\ lost = 0 => \A b \in Blocks : Accepts(b) /\ Heavier(b) => ~DiffFails(b)

(* With no crash, the head is the heaviest block stored, and td is its total
   difficulty, through every reorganisation (WriteBlock, merge).           *)
Heaviest ==
    Settled => /\ td = Td[currentBlock]
               /\ \A b \in db.has : Td[b] <= td

(* The index by number (WriteHead) leads to the ancestors of the head, up to
   the head: what Export and GetBlockByNumber rely on.                     *)
IndexMatches ==
    Settled => \A b \in Chain[currentBlock] : db.num[Number[b]] = b

(* Every head is announced by a ChainHeadEvent, unless another head follows,
   the manager is stopped or InsertChain returned an error after it.       *)
HeadAnnounced ==
    \A b \in Blocks :
        (currentBlock = b /\ Settled) ~>
            (announced = b \/ currentBlock # b \/ unposted \/ stop # "no")

(* A block that was kept because it was early, or because its parent was, is
   inserted in the end by procFutureBlocks, unless the manager is stopped,
   procFutureBlocks dies of a block that came or went while it looked, or a
   block that Process refuses was kept before it or with it: such a block is
   never removed from futureBlocks, and every pass ends there with an error. *)
KeptBlocksInserted ==
    \A b \in Blocks :
        b \in futureBlocks ~>
            \/ b \in db.has \/ currentBlock = None \/ stop # "no"
            \/ \E x \in futureBlocks \cap Invalid : Number[x] <= Number[b]

(* Queues of events arrive in any order, and still a ChainHeadEvent is posted
   for a lighter block than the one before only in the middle of a
   reorganisation, when merge has made a lower block the head for a moment. *)
HeadsGrow == [][announced' # None /\ announced # None /\ Td[announced'] < Td[announced]
                  => at # "idle"]_announced
=============================================================================
