------------------------------ MODULE KVStore ------------------------------
(***************************************************************************)
(* What the database promises its users: a map that they see, and a map    *)
(* that survives a crash.  A Put is seen at once and survives from the     *)
(* next successful flush on.  A batch and a deletion survive at once, but  *)
(* a Put that has not been flushed hides a batch and replaces it at the    *)
(* flush.  What survives of a value is what compression leaves of it.      *)
(***************************************************************************)
CONSTANTS Keys, Values, Nil, Error,
          Restored(_)  \* a value after compression and decompression

VARIABLES
    visible,  \* what Get finds
    durable,  \* what a restart finds
    pending,  \* the keys that have been put since the last flush
    answer    \* what the last Get returned

vars == <<visible, durable, pending, answer>>

Init ==
    /\ visible = [k \in Keys |-> Nil]
    /\ durable = [k \in Keys |-> Nil]
    /\ pending = {}
    /\ answer = Nil

Put(k, v) ==
    /\ visible' = [visible EXCEPT ![k] = v]
    /\ pending' = pending \cup {k}
    /\ UNCHANGED <<durable, answer>>

Batch(k, v) ==
    /\ durable' = [durable EXCEPT ![k] = Restored(v)]
    /\ visible' = IF k \in pending THEN visible ELSE [visible EXCEPT ![k] = Restored(v)]
    /\ UNCHANGED <<pending, answer>>

Delete(k) ==
    /\ visible' = [visible EXCEPT ![k] = Nil]
    /\ durable' = [durable EXCEPT ![k] = Nil]
    /\ pending' = pending \ {k}
    /\ UNCHANGED answer

(* A failed deletion undoes a Put of the key that has not been flushed. *)
Forget(k) ==
    /\ visible' = [visible EXCEPT ![k] = durable[k]]
    /\ pending' = pending \ {k}
    /\ UNCHANGED <<durable, answer>>

Get(k) ==
    /\ answer' \in {visible[k], Error}
    /\ UNCHANGED <<visible, durable, pending>>

Sync ==
    /\ durable' = [k \in Keys |-> IF k \in pending THEN Restored(visible[k]) ELSE durable[k]]
    /\ visible' = durable'
    /\ pending' = {}
    /\ UNCHANGED answer

(* A crash, or a flush that fails, loses what has not been flushed. *)
Lose ==
    /\ visible' = durable
    /\ pending' = {}
    /\ UNCHANGED <<durable, answer>>

Next ==
    \/ \E k \in Keys, v \in Values : Put(k, v) \/ Batch(k, v)
    \/ \E k \in Keys : Delete(k) \/ Forget(k) \/ Get(k)
    \/ Sync
    \/ Lose

Spec == Init /\ [][Next]_vars
=============================================================================
