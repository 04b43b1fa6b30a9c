---------------------------- MODULE LDBDatabase ----------------------------
(***************************************************************************)
(* The key-value database (src/model/kdb/database.go): a queue of writes   *)
(* in memory over a LevelDB database that holds compressed values.  A      *)
(* goroutine flushes the queue every minute, and once more on Close.       *)
(* Every operation holds self.mu; Close and the goroutine meet on the      *)
(* unbuffered channel self.quit, which they use in both directions.        *)
(*                                                                         *)
(* LevelDB keeps what it has accepted when the process dies.               *)
(***************************************************************************)
EXTENDS Integers

CONSTANTS
    Keys,           \* code, block data, the state root, trie nodes, and any key of a
                    \* client, who can put a value under the key of a trie node
    Values, Nil, Error,
    Pack(_),        \* rle.Compress
    Unpack(_),      \* rle.Decompress
    Closers,        \* goroutines that call Close
    Failures        \* whether a write to the disk can fail

ASSUME LDBAssumption ==
    /\ Nil \notin Values
    /\ \A v \in Values : Pack(v) # Nil
    /\ Failures \in BOOLEAN

VARIABLES
    queue,    \* self.queue, Nil for no entry
    disk,     \* the LevelDB database, Nil for no entry
    open,     \* the LevelDB database is open
    updater,  \* where the goroutine of update is
    closer,   \* where each caller of Close is
    answer,   \* what the last Get returned
    latest,   \* history: what LevelDB is to hold of each key after the next flush
    settled,  \* history: keys not written since the first call of Close
    failed    \* history: a write to the disk has failed

procVars == <<updater, closer>>
vars     == <<queue, disk, open, procVars, answer, latest, settled, failed>>

Stored == {Pack(v) : v \in Values} \cup {Nil}

(* What Get returns for a value that has been on disk: not always the value,
   see RoundTrip in RLE.                                                   *)
Restored(v) == Unpack(Pack(v))

TypeOK ==
    /\ queue \in [Keys -> Values \cup {Nil}]
    /\ disk \in [Keys -> Stored]
    /\ open \in BOOLEAN
    /\ updater \in {"loop", "flush", "close", "send", "gone"}
    /\ closer \in [Closers -> {"idle", "send", "receive", "returned"}]
    /\ answer \in Values \cup {Restored(v) : v \in Values} \cup {Nil, Error}
    /\ latest \in [Keys -> Stored]
    /\ settled \subseteq Keys
    /\ failed \in BOOLEAN

(* NewLDBDatabase on an empty file. *)
Init ==
    /\ queue = [k \in Keys |-> Nil]
    /\ disk = [k \in Keys |-> Nil]
    /\ open = TRUE
    /\ updater = "loop"
    /\ closer = [c \in Closers |-> "idle"]
    /\ answer = Nil
    /\ latest = [k \in Keys |-> Nil]
    /\ settled = {}
    /\ failed = FALSE

-----------------------------------------------------------------------------
(* The value LevelDB has for a key. *)
OnDisk(k) == IF disk[k] = Nil THEN Nil ELSE Unpack(disk[k])

(* The value Get finds. *)
Lookup(k) == IF queue[k] # Nil THEN queue[k] ELSE OnDisk(k)

(* The key has been written: data is what LevelDB is to hold. *)
Wrote(k, data) ==
    /\ latest' = [latest EXCEPT ![k] = data]
    /\ settled' = settled \ {k}

Put(k, v) ==
    /\ queue' = [queue EXCEPT ![k] = v]
    /\ Wrote(k, Pack(v))
    /\ UNCHANGED <<disk, open, procVars, answer, failed>>

(* Get looks in the queue first.  A closed database has an error for every
   key that is not in the queue, an open one for a key it does not have.   *)
Get(k) ==
    /\ answer' = IF queue[k] = Nil /\ ~open THEN Error ELSE Lookup(k)
    /\ UNCHANGED <<queue, disk, open, procVars, latest, settled, failed>>

(* Mutant: Delete leaves the key in the queue. *)
DeleteOnDisk(k) ==
    /\ open
    /\ disk' = [disk EXCEPT ![k] = Nil]
    /\ Wrote(k, Nil)
    /\ UNCHANGED <<queue, open, procVars, answer, failed>>

(* Delete removes the key from the queue and from LevelDB. *)
Delete(k) ==
    /\ open
    /\ queue' = [queue EXCEPT ![k] = Nil]
    /\ disk' = [disk EXCEPT ![k] = Nil]
    /\ Wrote(k, Nil)
    /\ UNCHANGED <<open, procVars, answer, failed>>

(* If LevelDB refuses, the queue has lost the key all the same. *)
DeleteFails(k) ==
    /\ ~open \/ Failures
    /\ queue' = [queue EXCEPT ![k] = Nil]
    /\ settled' = settled \ {k}
    /\ failed' = TRUE
    /\ UNCHANGED <<disk, open, procVars, answer, latest>>

(* A batch written through LDB() or FlushBatch, as the trie's cache does.  It
   goes around the queue: a value that waits there for the same key hides it
   and replaces it at the next flush.  A batch that LevelDB refuses changes
   nothing.                                                                *)
FlushBatch(k, v) ==
    /\ open
    /\ disk' = [disk EXCEPT ![k] = Pack(v)]
    /\ Wrote(k, IF queue[k] # Nil THEN latest[k] ELSE Pack(v))
    /\ UNCHANGED <<queue, open, procVars, answer, failed>>

(* Flush empties the queue and then writes what was in it. *)
WriteQueue ==
    /\ queue' = [k \in Keys |-> Nil]
    /\ \/ /\ open
          /\ disk' = [k \in Keys |-> IF queue[k] # Nil THEN Pack(queue[k]) ELSE disk[k]]
          /\ UNCHANGED failed
       \/ /\ ~open \/ Failures
          /\ failed' = TRUE
          /\ UNCHANGED disk

(* Flush, called by a user or by the goroutine when its ticker fires. *)
Flush ==
    /\ WriteQueue
    /\ UNCHANGED <<open, procVars, answer, latest, settled>>

-----------------------------------------------------------------------------
(* A goroutine calls Close. *)
Close(c) ==
    /\ closer[c] = "idle"
    /\ closer' = [closer EXCEPT ![c] = "send"]
    /\ settled' = IF \A d \in Closers : closer[d] = "idle" THEN Keys ELSE settled
    /\ UNCHANGED <<queue, disk, open, updater, answer, latest, failed>>

(* Its message reaches the goroutine, which leaves its loop. *)
Quit(c) ==
    /\ closer[c] = "send" /\ updater = "loop"
    /\ updater' = "flush"
    /\ closer' = [closer EXCEPT ![c] = "receive"]
    /\ UNCHANGED <<queue, disk, open, answer, latest, settled, failed>>

(* Mutant: the goroutine closes the database without a last flush. *)
FinalFlushSkipped ==
    /\ updater = "flush"
    /\ updater' = "close"
    /\ UNCHANGED <<queue, disk, open, closer, answer, latest, settled, failed>>

FinalFlush ==
    /\ updater = "flush"
    /\ updater' = "close"
    /\ WriteQueue
    /\ UNCHANGED <<open, closer, answer, latest, settled>>

(* Mutant: the goroutine ends without a message to the caller of Close. *)
CloseDBSilently ==
    /\ updater = "close"
    /\ updater' = "gone"
    /\ open' = FALSE
    /\ UNCHANGED <<queue, disk, closer, answer, latest, settled, failed>>

CloseDB ==
    /\ updater = "close"
    /\ updater' = "send"
    /\ open' = FALSE
    /\ UNCHANGED <<queue, disk, closer, answer, latest, settled, failed>>

(* The goroutine's message reaches a caller of Close, and it is gone. *)
CloseReturns(c) ==
    /\ updater = "send" /\ closer[c] = "receive"
    /\ updater' = "gone"
    /\ closer' = [closer EXCEPT ![c] = "returned"]
    /\ UNCHANGED <<queue, disk, open, answer, latest, settled, failed>>

(* The message of one caller of Close reaches another one. *)
CloseCrosses(c, d) ==
    /\ closer[c] = "send" /\ closer[d] = "receive"
    /\ closer' = [closer EXCEPT ![c] = "receive", ![d] = "returned"]
    /\ UNCHANGED <<queue, disk, open, updater, answer, latest, settled, failed>>

(* The process dies, or ends after Close, and opens the database again. *)
Restart ==
    /\ queue' = [k \in Keys |-> Nil]
    /\ open' = TRUE
    /\ updater' = "loop"
    /\ closer' = [c \in Closers |-> "idle"]
    /\ latest' = disk
    /\ settled' = {}
    /\ failed' = FALSE
    /\ UNCHANGED <<disk, answer>>

-----------------------------------------------------------------------------
Closing ==
    \/ \E c \in Closers : Quit(c) \/ CloseReturns(c)
    \/ \E c, d \in Closers : CloseCrosses(c, d)
    \/ FinalFlush
    \/ CloseDB

Next ==
    \/ \E k \in Keys, v \in Values : Put(k, v) \/ FlushBatch(k, v)
    \/ \E k \in Keys : Get(k) \/ Delete(k) \/ DeleteFails(k)
    \/ Flush
    \/ \E c \in Closers : Close(c)
    \/ Closing
    \/ Restart

Spec == Init /\ [][Next]_vars

(* The goroutine and the callers of Close are scheduled. *)
FairSpec == Spec /\ WF_vars(Closing)

-----------------------------------------------------------------------------
KV == INSTANCE KVStore WITH visible <- [k \in Keys |-> Lookup(k)],
                            durable <- [k \in Keys |-> OnDisk(k)],
                            pending <- {k \in Keys : queue[k] # Nil}

(* The queue over LevelDB is a map with crashes, for Puts and batches of the
   same keys and for values that compression damages: Get returns the last
   value put, or the last batch if none waits in the queue, a deleted key
   stays away, and a restart finds what flushes and batches left on disk.  *)
ImplementsKVStore == KV!Spec

(* Only c has called Close since the database was opened. *)
Alone(c) == \A d \in Closers \ {c} : closer[d] = "idle"

(* When the only call of Close has returned, the database is closed and
   everything written before it was called is in LevelDB, compressed, unless
   LevelDB refused a write or a Put waited in the queue when a batch wrote
   its key: then it is the Put.  "flushed and closed db" (database.go:119).
   (Two calls may answer each other over quit and return at once, with nothing
   flushed and the database open.)                                         *)
CloseFlushes ==
    \A c \in Closers : closer[c] = "returned" /\ Alone(c) /\ ~failed =>
        /\ ~open
        /\ \A k \in settled : disk[k] = latest[k]

(* The first call of Close returns, unless a second one takes its place or
   the process ends.  (The second one waits for ever if it comes later.)   *)
CloseReturnsInTheEnd ==
    \A c \in Closers :
        (closer[c] = "send" /\ Alone(c)) ~> (closer[c] \in {"idle", "returned"} \/ ~Alone(c))
=============================================================================
