------------------------- MODULE LDBDatabaseProofs -------------------------
(* The database implements the key-value store, for any keys and values, any
   compression and any number of callers of Close.                         *)
EXTENDS LDBDatabase, TLAPS

(* What comes off the disk is nothing or what compression left of a value. *)
LEMMA OnDiskType ==
    ASSUME TypeOK, NEW k \in Keys
    PROVE  OnDisk(k) \in {Restored(v) : v \in Values} \cup {Nil}
<1>1. disk[k] \in Stored
  BY DEF TypeOK
<1>2. CASE disk[k] = Nil
  BY <1>2 DEF OnDisk
<1>3. CASE disk[k] # Nil
  <2>1. PICK v \in Values : disk[k] = Pack(v)
    BY <1>1, <1>3 DEF Stored
  <2>2. OnDisk(k) = Restored(v)
    BY <1>3, <2>1 DEF OnDisk, Restored
  <2> QED
    BY <2>2
<1> QED
  BY <1>2, <1>3

(* A value is stored as something. *)
LEMMA StoredType ==
    ASSUME NEW v \in Values
    PROVE  v # Nil /\ Pack(v) \in Stored /\ Pack(v) # Nil /\ Unpack(Pack(v)) = Restored(v)
BY LDBAssumption DEF Stored, Restored

(* What the queue and LevelDB together leave of a key at the next flush. *)
Final(k) == IF queue[k] # Nil THEN Pack(queue[k]) ELSE disk[k]

(* What Flush does to the queue and the disk. *)
LEMMA WriteQueueEffect ==
    ASSUME TypeOK, WriteQueue
    PROVE  /\ queue' = [k \in Keys |-> Nil] /\ disk' \in [Keys -> Stored]
           /\ failed' \in BOOLEAN
           /\ \/ failed' = failed /\ disk' = [k \in Keys |-> Final(k)]
              \/ failed' = TRUE /\ disk' = disk
<1>1. /\ queue \in [Keys -> Values \cup {Nil}] /\ disk \in [Keys -> Stored]
      /\ failed \in BOOLEAN
  BY DEF TypeOK
<1>2. CASE disk' = [k \in Keys |-> Final(k)] /\ failed' = failed
  <2>1. \A k \in Keys : queue[k] # Nil => queue[k] \in Values
    BY <1>1
  <2>2. \A k \in Keys : Final(k) \in Stored
    BY <1>1, <2>1, StoredType DEF Final
  <2> QED
    BY <1>1, <1>2, <2>2 DEF WriteQueue
<1>3. CASE failed' = TRUE /\ disk' = disk
  BY <1>1, <1>3 DEF WriteQueue
<1> QED
  BY <1>2, <1>3 DEF WriteQueue, Final

(* The invariant holds initially and is kept by every step. *)
THEOREM TypeCorrect == Spec => []TypeOK
<1>1. Init => TypeOK
  BY DEF Init, TypeOK, Stored
<1>2. TypeOK /\ [Next]_vars => TypeOK'
  <2> SUFFICES ASSUME TypeOK, [Next]_vars PROVE TypeOK'
    OBVIOUS
  <2>1. ASSUME NEW k \in Keys, NEW v \in Values, Put(k, v) PROVE TypeOK'
    BY <2>1, StoredType DEF Put, Wrote, procVars, TypeOK
  <2>2. ASSUME NEW k \in Keys, NEW v \in Values, FlushBatch(k, v) PROVE TypeOK'
    BY <2>2, StoredType DEF FlushBatch, Wrote, procVars, TypeOK
  <2>3. ASSUME NEW k \in Keys, Get(k) PROVE TypeOK'
    <3>1. Lookup(k) \in Values \cup {Restored(v) : v \in Values} \cup {Nil}
      BY OnDiskType DEF Lookup, TypeOK
    <3> QED
      BY <2>3, <3>1 DEF Get, procVars, TypeOK
  <2>4. ASSUME NEW k \in Keys, Delete(k) PROVE TypeOK'
    <3>1. Nil \in Stored
      BY DEF Stored
    <3> QED
      BY <2>4, <3>1 DEF Delete, Wrote, procVars, TypeOK
  <2>5. ASSUME NEW k \in Keys, DeleteFails(k) PROVE TypeOK'
    BY <2>5 DEF DeleteFails, procVars, TypeOK
  <2>6. CASE Flush
    BY <2>6, WriteQueueEffect DEF Flush, procVars, TypeOK
  <2>7. ASSUME NEW c \in Closers, Close(c) PROVE TypeOK'
    BY <2>7 DEF Close, TypeOK
  <2>8. ASSUME NEW c \in Closers, Quit(c) PROVE TypeOK'
    BY <2>8 DEF Quit, TypeOK
  <2>9. ASSUME NEW c \in Closers, CloseReturns(c) PROVE TypeOK'
    BY <2>9 DEF CloseReturns, TypeOK
  <2>10. ASSUME NEW c \in Closers, NEW d \in Closers, CloseCrosses(c, d) PROVE TypeOK'
    BY <2>10 DEF CloseCrosses, TypeOK
  <2>11. CASE FinalFlush
    BY <2>11, WriteQueueEffect DEF FinalFlush, TypeOK
  <2>12. CASE CloseDB
    BY <2>12 DEF CloseDB, TypeOK
  <2>13. CASE Restart
    BY <2>13, OnDiskType DEF Restart, TypeOK
  <2>14. CASE UNCHANGED vars
    BY <2>14 DEF vars, procVars, TypeOK
  <2> QED
    BY <2>1, <2>2, <2>3, <2>4, <2>5, <2>6, <2>7, <2>8, <2>9, <2>10, <2>11, <2>12, <2>13,
       <2>14 DEF Next, Closing
<1> QED
  BY <1>1, <1>2, PTL DEF Spec

(* Every behaviour of the database is one of the key-value store: the initial
   state is, and every step is a step of the store or changes nothing of it. *)
THEOREM Refinement == Spec => ImplementsKVStore
<1> DEFINE V == [k \in Keys |-> Lookup(k)]
           D == [k \in Keys |-> OnDisk(k)]
           W == {k \in Keys : queue[k] # Nil}
<1>1. Init => KV!Init
  BY DEF Init, KV!Init, Lookup, OnDisk
<1>2. TypeOK /\ [Next]_vars => [KV!Next]_(KV!vars)
  <2> SUFFICES ASSUME TypeOK, [Next]_vars PROVE KV!Next \/ UNCHANGED KV!vars
    OBVIOUS
  <2>0. queue \in [Keys -> Values \cup {Nil}] /\ disk \in [Keys -> Stored]
    BY DEF TypeOK
  <2>1. ASSUME NEW k \in Keys, NEW v \in Values, Put(k, v) PROVE KV!Next
    <3>1. \A j \in Keys : /\ OnDisk(j)' = OnDisk(j)
                          /\ Lookup(j)' = IF j = k THEN v ELSE Lookup(j)
                          /\ queue'[j] # Nil <=> j = k \/ queue[j] # Nil
      BY <2>0, <2>1, StoredType DEF Put, Lookup, OnDisk
    <3>2. V' = [V EXCEPT ![k] = v] /\ D' = D /\ W' = W \cup {k} /\ answer' = answer
      BY <2>1, <3>1 DEF Put
    <3> QED
      BY <3>2 DEF KV!Next, KV!Put
  <2>2. ASSUME NEW k \in Keys, NEW v \in Values, FlushBatch(k, v) PROVE KV!Next
    <3>1. \A j \in Keys : /\ OnDisk(j)' = IF j = k THEN Restored(v) ELSE OnDisk(j)
                          /\ Lookup(j)' = IF j = k /\ queue[k] = Nil THEN Restored(v)
                                          ELSE Lookup(j)
                          /\ queue'[j] = queue[j]
      BY <2>0, <2>2, StoredType DEF FlushBatch, Lookup, OnDisk
    <3>2. /\ V' = IF k \in W THEN V ELSE [V EXCEPT ![k] = Restored(v)]
          /\ D' = [D EXCEPT ![k] = Restored(v)] /\ W' = W /\ answer' = answer
      BY <2>2, <3>1 DEF FlushBatch
    <3> QED
      BY <3>2 DEF KV!Next, KV!Batch
  <2>3. ASSUME NEW k \in Keys, Get(k) PROVE KV!Next
    <3>1. answer' \in {V[k], Error} /\ UNCHANGED <<queue, disk>>
      BY <2>3 DEF Get
    <3>2. V' = V /\ D' = D /\ W' = W
      BY <3>1 DEF Lookup, OnDisk
    <3> QED
      BY <3>1, <3>2 DEF KV!Next, KV!Get
  <2>4. ASSUME NEW k \in Keys, Delete(k) PROVE KV!Next
    <3>1. \A j \in Keys : /\ OnDisk(j)' = IF j = k THEN Nil ELSE OnDisk(j)
                          /\ Lookup(j)' = IF j = k THEN Nil ELSE Lookup(j)
                          /\ queue'[j] # Nil <=> j # k /\ queue[j] # Nil
      BY <2>0, <2>4 DEF Delete, Lookup, OnDisk
    <3>2. /\ V' = [V EXCEPT ![k] = Nil] /\ D' = [D EXCEPT ![k] = Nil]
          /\ W' = W \ {k} /\ answer' = answer
      BY <2>4, <3>1 DEF Delete
    <3> QED
      BY <3>2 DEF KV!Next, KV!Delete
  <2>5. ASSUME NEW k \in Keys, DeleteFails(k) PROVE KV!Next
    <3>1. \A j \in Keys : /\ OnDisk(j)' = OnDisk(j)
                          /\ Lookup(j)' = IF j = k THEN OnDisk(k) ELSE Lookup(j)
                          /\ queue'[j] # Nil <=> j # k /\ queue[j] # Nil
      BY <2>0, <2>5 DEF DeleteFails, Lookup, OnDisk
    <3>2. V' = [V EXCEPT ![k] = D[k]] /\ D' = D /\ W' = W \ {k} /\ answer' = answer
      BY <2>5, <3>1 DEF DeleteFails
    <3> QED
      BY <3>2 DEF KV!Next, KV!Forget
  <2>6. ASSUME WriteQueue, answer' = answer PROVE KV!Next
    <3>1. /\ \A j \in Keys : Lookup(j)' = OnDisk(j)'
          /\ V' = D' /\ W' = {}
      BY <2>6, WriteQueueEffect DEF Lookup
    <3>2. CASE disk' = [k \in Keys |-> Final(k)]
      <4>1. \A j \in Keys : OnDisk(j)' = IF j \in W THEN Restored(V[j]) ELSE D[j]
        BY <2>0, <3>2, StoredType DEF OnDisk, Lookup, Final
      <4>2. D' = [j \in Keys |-> IF j \in W THEN Restored(V[j]) ELSE D[j]]
        BY <4>1
      <4> QED
        BY <2>6, <3>1, <4>2 DEF KV!Next, KV!Sync
    <3>3. CASE disk' = disk
      <4>1. V' = D /\ D' = D
        BY <3>1, <3>3 DEF OnDisk
      <4> QED
        BY <2>6, <3>1, <4>1 DEF KV!Next, KV!Lose
    <3> QED
      BY <2>6, <3>2, <3>3, WriteQueueEffect
  <2>7. CASE Restart
    <3>1. \A j \in Keys : /\ Lookup(j)' = OnDisk(j) /\ OnDisk(j)' = OnDisk(j)
                          /\ queue'[j] = Nil
      BY <2>7 DEF Restart, Lookup, OnDisk
    <3>2. V' = D /\ D' = D /\ W' = {} /\ answer' = answer
      BY <2>7, <3>1 DEF Restart
    <3> QED
      BY <3>2 DEF KV!Next, KV!Lose
  <2>8. ASSUME UNCHANGED <<queue, disk, answer>> PROVE UNCHANGED KV!vars
    BY <2>8 DEF KV!vars, Lookup, OnDisk
  <2> QED
    BY <2>1, <2>2, <2>3, <2>4, <2>5, <2>6, <2>7, <2>8
       DEF Next, Closing, Flush, FinalFlush, Close, Quit, CloseReturns, CloseCrosses, CloseDB,
           vars
<1> QED
  BY <1>1, <1>2, TypeCorrect, PTL DEF Spec, ImplementsKVStore, KV!Spec

-----------------------------------------------------------------------------
(* Where Close and the goroutine of update are.  The goroutine leaves its loop
   for a caller of Close only, the database is open until it closes it, and
   the only caller of Close can return because of the goroutine alone.     *)
Handshake ==
    /\ updater # "loop" => \E c \in Closers : closer[c] # "idle"
    /\ open <=> updater \in {"loop", "flush", "close"}
    /\ \A c \in Closers : closer[c] = "returned" /\ Alone(c) => updater = "gone"

(* As long as LevelDB accepts everything, the queue and LevelDB together hold
   what LevelDB is to hold after the next flush; after the last flush LevelDB
   has it alone, for keys that have not been written since.                *)
Flushed ==
    ~failed => /\ \A k \in Keys : Final(k) = latest[k]
               /\ updater \in {"close", "send", "gone"} =>
                     \A k \in settled : queue[k] = Nil

CloseInv == TypeOK /\ Handshake /\ Flushed

(* What a flush leaves: an empty queue and, if LevelDB accepted the writes,
   all there was to hold.                                                  *)
LEMMA FlushKeeps ==
    ASSUME TypeOK, Flushed, WriteQueue, latest' = latest, ~failed'
    PROVE  /\ \A k \in Keys : queue'[k] = Nil
           /\ \A k \in Keys : Final(k)' = latest'[k]
<1>1. /\ queue' = [k \in Keys |-> Nil]
      /\ \/ failed' = failed /\ disk' = [k \in Keys |-> Final(k)]
         \/ failed' = TRUE /\ disk' = disk
  BY WriteQueueEffect
<1>2. ~failed /\ disk' = [k \in Keys |-> Final(k)]
  <2>1. failed \in BOOLEAN /\ failed' \in BOOLEAN /\ ~failed'
    BY WriteQueueEffect DEF TypeOK
  <2> QED
    BY <1>1, <2>1, SMT
<1> QED
  BY <1>1, <1>2 DEF Flushed, Final

(* After the only call of Close everything that was written before it is in
   LevelDB.                                                                *)
THEOREM CloseFlushesHolds == Spec => []CloseFlushes
<1>1. Init => CloseInv
  <2> SUFFICES ASSUME Init PROVE CloseInv
    OBVIOUS
  <2>1. TypeOK
    BY DEF Init, TypeOK, Stored
  <2>2. Handshake
    BY DEF Init, Handshake
  <2>3. Flushed
    BY DEF Init, Flushed, Final
  <2> QED
    BY <2>1, <2>2, <2>3 DEF CloseInv
<1>2. CloseInv /\ TypeOK' /\ [Next]_vars => CloseInv'
  <2> SUFFICES ASSUME CloseInv, TypeOK', [Next]_vars PROVE Handshake' /\ Flushed'
    BY DEF CloseInv
  <2>0. /\ TypeOK /\ Handshake /\ Flushed
        /\ queue \in [Keys -> Values \cup {Nil}] /\ disk \in [Keys -> Stored]
        /\ latest \in [Keys -> Stored] /\ settled \subseteq Keys
        /\ closer \in [Closers -> {"idle", "send", "receive", "returned"}]
        /\ failed \in BOOLEAN /\ open \in BOOLEAN
    BY DEF CloseInv, TypeOK
  <2>1. ASSUME NEW k \in Keys, NEW v \in Values, Put(k, v) PROVE Handshake' /\ Flushed'
    <3>1. Handshake'
      BY <2>0, <2>1 DEF Put, procVars, Handshake, Alone
    <3>2. \A j \in Keys : Final(j)' = IF j = k THEN Pack(v) ELSE Final(j)
      BY <2>0, <2>1, StoredType DEF Put, Final
    <3>3. Flushed'
      BY <2>0, <2>1, <3>2 DEF Put, Wrote, procVars, Flushed
    <3> QED
      BY <3>1, <3>3
  <2>2. ASSUME NEW k \in Keys, NEW v \in Values, FlushBatch(k, v)
        PROVE  Handshake' /\ Flushed'
    <3>1. Handshake'
      BY <2>0, <2>2 DEF FlushBatch, procVars, Handshake, Alone
    <3>2. \A j \in Keys : Final(j)' = IF j = k /\ queue[k] = Nil THEN Pack(v) ELSE Final(j)
      BY <2>0, <2>2, StoredType DEF FlushBatch, Final
    <3>3. Flushed'
      BY <2>0, <2>2, <3>2 DEF FlushBatch, Wrote, procVars, Flushed
    <3> QED
      BY <3>1, <3>3
  <2>3. ASSUME NEW k \in Keys, Get(k) PROVE Handshake' /\ Flushed'
    BY <2>0, <2>3 DEF Get, procVars, Handshake, Flushed, Alone, Final
  <2>4. ASSUME NEW k \in Keys, Delete(k) PROVE Handshake' /\ Flushed'
    <3>1. Handshake'
      BY <2>0, <2>4 DEF Delete, procVars, Handshake, Alone
    <3>2. \A j \in Keys : Final(j)' = IF j = k THEN Nil ELSE Final(j)
      BY <2>0, <2>4 DEF Delete, Final
    <3>3. Flushed'
      BY <2>0, <2>4, <3>2 DEF Delete, Wrote, procVars, Flushed
    <3> QED
      BY <3>1, <3>3
  <2>5. ASSUME NEW k \in Keys, DeleteFails(k) PROVE Handshake' /\ Flushed'
    BY <2>0, <2>5 DEF DeleteFails, procVars, Handshake, Flushed, Alone
  <2>6. CASE Flush
    <3>1. Handshake'
      BY <2>0, <2>6 DEF Flush, procVars, Handshake, Alone
    <3>2. Flushed'
      BY <2>0, <2>6, FlushKeeps DEF Flush, procVars, Flushed
    <3> QED
      BY <3>1, <3>2
  <2>7. ASSUME NEW c \in Closers, Close(c) PROVE Handshake' /\ Flushed'
    <3>1. (\A d \in Closers : closer[d] = "idle") => updater = "loop"
      BY <2>0 DEF Handshake
    <3>2. Handshake'
      BY <2>0, <2>7 DEF Close, Handshake, Alone
    <3>3. Flushed'
      BY <2>0, <2>7, <3>1 DEF Close, Flushed, Final
    <3> QED
      BY <3>2, <3>3
  <2>8. ASSUME NEW c \in Closers, Quit(c) PROVE Handshake' /\ Flushed'
    BY <2>0, <2>8 DEF Quit, Handshake, Flushed, Alone, Final
  <2>9. ASSUME NEW c \in Closers, CloseReturns(c) PROVE Handshake' /\ Flushed'
    BY <2>0, <2>9 DEF CloseReturns, Handshake, Flushed, Alone, Final
  <2>10. ASSUME NEW c \in Closers, NEW d \in Closers, CloseCrosses(c, d)
         PROVE  Handshake' /\ Flushed'
    BY <2>0, <2>10 DEF CloseCrosses, Handshake, Flushed, Alone, Final
  <2>11. CASE FinalFlush
    <3>1. Handshake'
      BY <2>0, <2>11 DEF FinalFlush, Handshake, Alone
    <3>2. Flushed'
      BY <2>0, <2>11, FlushKeeps DEF FinalFlush, Flushed
    <3> QED
      BY <3>1, <3>2
  <2>12. CASE CloseDB
    BY <2>0, <2>12 DEF CloseDB, Handshake, Flushed, Alone, Final
  <2>13. CASE Restart
    <3>1. Handshake'
      BY <2>13 DEF Restart, Handshake
    <3>2. \A k \in Keys : Final(k)' = disk[k]
      BY <2>13 DEF Restart, Final
    <3>3. Flushed'
      BY <2>13, <3>2 DEF Restart, Flushed
    <3> QED
      BY <3>1, <3>3
  <2>14. CASE UNCHANGED vars
    BY <2>0, <2>14 DEF vars, procVars, Handshake, Flushed, Alone, Final
  <2> QED
    BY <2>1, <2>2, <2>3, <2>4, <2>5, <2>6, <2>7, <2>8, <2>9, <2>10, <2>11, <2>12, <2>13,
       <2>14 DEF Next, Closing
<1>3. CloseInv => CloseFlushes
  BY DEF CloseInv, TypeOK, Handshake, Flushed, CloseFlushes, Final
<1> QED
  BY <1>1, <1>2, <1>3, TypeCorrect, PTL DEF Spec
=============================================================================
