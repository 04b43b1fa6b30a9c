---------------------------- MODULE TxPoolProofs ----------------------------
(***************************************************************************)
(* Proofs about the transaction pool, for any set of accounts, any finite  *)
(* set of transactions and any limit.                                      *)
(***************************************************************************)
EXTENDS TxPool, FiniteSetTheorems, WellFoundedInduction, TLAPS

-----------------------------------------------------------------------------
(* Facts about the operators the pool is built from. *)

(* A nonempty set of naturals with an upper bound has a greatest element,
   and Max is that element: what ResetNonces and NonceAfter rely on.       *)
LEMMA MaxOfBounded ==
    ASSUME NEW S \in SUBSET Nat, S # {}, NEW b \in Nat, \A s \in S : s <= b
    PROVE  /\ Max(S) \in S
           /\ \A s \in S : s <= Max(S)
<1> DEFINE T == {n \in Nat : \E s \in S : n = b - s}
<1>1. T \subseteq Nat /\ T # {}
  <2>1. PICK s \in S : TRUE
    OBVIOUS
  <2>2. b - s \in Nat
    BY <2>1
  <2> QED
    BY <2>1, <2>2
<1>2. PICK n \in T : \A y \in T : ~(<<y, n>> \in OpToRel(<, Nat))
  BY <1>1, WFMin, NatLessThanWellFounded
<1>3. \A y \in T : n <= y
  <2>1. \A x, y \in Nat : x < y => <<x, y>> \in OpToRel(<, Nat)
    BY DEF OpToRel
  <2>2. \A y \in T : ~(y < n)
    BY <1>1, <1>2, <2>1
  <2> QED
    BY <1>1, <2>2
<1>4. PICK m \in S : n = b - m
  BY <1>2
<1>5. \A s \in S : s <= m
  <2> SUFFICES ASSUME NEW s \in S PROVE s <= m
    OBVIOUS
  <2>1. b - s \in T
    OBVIOUS
  <2> QED
    BY <2>1, <1>3, <1>4
<1>6. \E x \in S : \A y \in S : x >= y
  BY <1>4, <1>5
<1> QED
  BY <1>6 DEF Max

(* What a transaction of the pool is made of. *)
LEMMA SignedTxType ==
    ASSUME NEW t \in SignedTxs
    PROVE  t \in Txs /\ t.from \in Addrs /\ t.nonce \in 0..MaxNonce /\ t.nonce \in Nat
BY TxPoolAssumption DEF SignedTxs, Transaction

(* addTx, applied in nonce order, leaves the nonce after the highest one. *)
LEMMA NonceAfterSpec ==
    ASSUME NEW S \in SUBSET SignedTxs, NEW n \in 0..(MaxNonce + 1)
    PROVE  /\ NonceAfter(S, n) \in 0..(MaxNonce + 1)
           /\ NonceAfter(S, n) = n \/ \E t \in S : NonceAfter(S, n) = t.nonce + 1
<1>1. CASE S = {}
  BY <1>1 DEF NonceAfter
<1>2. CASE S # {}
  <2> DEFINE N == {t.nonce : t \in S}
  <2>1. N \subseteq Nat /\ N # {} /\ \A x \in N : x <= MaxNonce
    BY <1>2, SignedTxType
  <2>2. MaxNonce \in Nat
    BY TxPoolAssumption
  <2> HIDE DEF N
  <2>3. Max(N) \in N
    BY <2>1, <2>2, MaxOfBounded
  <2>4. PICK t \in S : Max(N) = t.nonce
    BY <2>3 DEF N
  <2>5. NonceAfter(S, n) = t.nonce + 1
    BY <1>2, <2>4 DEF NonceAfter, N
  <2> QED
    BY <2>2, <2>5, SignedTxType
<1> QED
  BY <1>1, <1>2

(* resetState's loop raises a nonce, if at all, to that of a pending
   transaction of the same sender.                                         *)
LEMMA RaisedNonceSpec ==
    ASSUME NEW S \in SUBSET SignedTxs, NEW n \in 0..(MaxNonce + 1)
    PROVE  LET m == Max({n} \cup {t.nonce : t \in S})
           IN  /\ m \in 0..(MaxNonce + 1) /\ m >= n
               /\ m = n \/ \E t \in S : m = t.nonce
<1> DEFINE N == {n} \cup {t.nonce : t \in S}
<1>1. MaxNonce + 1 \in Nat
  BY TxPoolAssumption
<1>2. N \subseteq Nat /\ n \in N /\ N # {} /\ \A x \in N : x <= MaxNonce + 1
  BY <1>1, SignedTxType, TxPoolAssumption
<1>3. \A x \in N : x = n \/ \E t \in S : x = t.nonce
  OBVIOUS
<1> HIDE DEF N
<1>4. Max(N) \in N /\ \A x \in N : x <= Max(N)
  BY <1>1, <1>2, MaxOfBounded
<1>5. Max(N) \in Nat /\ Max(N) <= MaxNonce + 1 /\ n <= Max(N)
  BY <1>2, <1>4
<1>6. /\ Max(N) \in 0..(MaxNonce + 1) /\ Max(N) >= n
      /\ Max(N) = n \/ \E t \in S : Max(N) = t.nonce
  BY <1>1, <1>3, <1>4, <1>5
<1> QED
  BY <1>6 DEF N

(* What a pass of checkQueue does to the pool, whatever the order of equal
   nonces in the sorted slice.                                             *)
LEMMA CheckQueueEffect ==
    ASSUME TypeOK, CheckQueue
    PROVE  /\ queue' \subseteq queue
           /\ \A t \in queue' : t.nonce > pendingState[t.from]
           /\ pending \subseteq pending' /\ pending' \subseteq pending \cup queue
           /\ \A t \in pending' \ pending :
                 ~Stale(t) /\ t.nonce <= pendingState[t.from]
           /\ \A t \in pending' : t \in pending \/ t \notin queue'
           /\ pendingState' \in [Addrs -> 0..(MaxNonce + 1)]
           /\ \A a \in Addrs :
                 \/ pendingState'[a] = pendingState[a]
                 \/ \E t \in pending' \ pending :
                       t.from = a /\ pendingState'[a] = t.nonce + 1
           /\ \A a \in Addrs : Cardinality(Of(queue', a)) <= MaxQueued
           /\ \A t \in queue \ (queue' \cup pending') :
                 Stale(t) \/ Cardinality(Of(queue, t.from)) > MaxQueued
<1>1. PICK up \in SUBSET Ready, keep \in SUBSET Future :
        /\ \A a \in Addrs :
              /\ LowestNonces(Of(up, a), Of(Ready, a), MaxQueued + 1)
              /\ IF Cardinality(Of(Ready, a)) > MaxQueued
                 THEN Of(keep, a) = {}
                 ELSE LowestNonces(Of(keep, a), Of(Future, a), MaxQueued)
        /\ queue' = keep
        /\ pending' = pending \cup up
        /\ pendingState' = [a \in Addrs |->
               NonceAfter(Of(up \ pending, a), pendingState[a])]
  BY DEF CheckQueue
<1>2. /\ queue' \subseteq queue
      /\ \A t \in queue' : t.nonce > pendingState[t.from]
  BY <1>1 DEF Future
<1>3. \A t \in up : t \in queue /\ ~Stale(t) /\ t.nonce <= pendingState[t.from]
  BY DEF Ready
<1>4. \A t \in up : t \in SignedTxs /\ t \notin queue'
  <2> SUFFICES ASSUME NEW t \in up PROVE t \in SignedTxs /\ t \notin queue'
    OBVIOUS
  <2>1. t \in SignedTxs /\ t.nonce \in Nat /\ t.from \in Addrs
    BY <1>3, SignedTxType DEF TypeOK
  <2>2. pendingState[t.from] \in Nat
    BY <2>1, TxPoolAssumption DEF TypeOK
  <2> QED
    BY <1>2, <1>3, <2>1, <2>2
<1>5. ASSUME NEW a \in Addrs
      PROVE  /\ pendingState'[a] \in 0..(MaxNonce + 1)
             /\ \/ pendingState'[a] = pendingState[a]
                \/ \E t \in pending' \ pending :
                      t.from = a /\ pendingState'[a] = t.nonce + 1
  <2>1. Of(up \ pending, a) \in SUBSET SignedTxs
    BY <1>4 DEF Of
  <2>2. pendingState[a] \in 0..(MaxNonce + 1)
    BY DEF TypeOK
  <2>3. pendingState'[a] = NonceAfter(Of(up \ pending, a), pendingState[a])
    BY <1>1
  <2>4. \A t \in Of(up \ pending, a) : t \in pending' \ pending /\ t.from = a
    BY <1>1 DEF Of
  <2> QED
    BY <2>1, <2>2, <2>3, <2>4, NonceAfterSpec
<1>6. pendingState' \in [Addrs -> 0..(MaxNonce + 1)]
  BY <1>1, <1>5
<1>7. ASSUME NEW a \in Addrs PROVE Cardinality(Of(queue', a)) <= MaxQueued
  <2>1. MaxQueued \in Nat
    BY TxPoolAssumption
  <2>2. CASE Cardinality(Of(Ready, a)) > MaxQueued
    BY <1>1, <2>1, <2>2, FS_EmptySet
  <2>3. CASE ~(Cardinality(Of(Ready, a)) > MaxQueued)
    <3>1. IsFiniteSet(Of(Future, a))
      <4>1. Of(Future, a) \subseteq Txs
        BY SignedTxType DEF Of, Future, TypeOK
      <4> QED
        BY <4>1, FS_Subset, TxPoolAssumption
    <3>2. Cardinality(Of(Future, a)) \in Nat
      BY <3>1, FS_CardinalityType
    <3> QED
      BY <1>1, <2>1, <2>3, <3>2 DEF LowestNonces
  <2> QED
    BY <2>2, <2>3
<1>8. ASSUME NEW t \in queue \ (queue' \cup pending'), ~Stale(t)
      PROVE  Cardinality(Of(queue, t.from)) > MaxQueued
  <2> DEFINE a == t.from
  <2>1. a \in Addrs /\ MaxQueued \in Nat /\ t \in SignedTxs
    BY SignedTxType, TxPoolAssumption DEF TypeOK
  <2>2. IsFiniteSet(Of(queue, a))
    <3>1. Of(queue, a) \subseteq Txs
      BY SignedTxType DEF Of, TypeOK
    <3> QED
      BY <3>1, FS_Subset, TxPoolAssumption
  <2>3. ASSUME NEW S \in SUBSET Of(queue, a)
        PROVE  /\ IsFiniteSet(S) /\ Cardinality(S) \in Nat
               /\ Cardinality(Of(queue, a)) \in Nat
               /\ Cardinality(S) <= Cardinality(Of(queue, a))
    BY <2>2, FS_Subset, FS_CardinalityType
  <2>4. Of(Ready, a) \in SUBSET Of(queue, a) /\ Of(Future, a) \in SUBSET Of(queue, a)
    BY DEF Of, Ready, Future
  <2>5. ASSUME NEW P, NEW S \in SUBSET Of(queue, a), NEW k \in Nat, k >= MaxQueued,
               LowestNonces(P, S, k), t \in S, t \notin P
        PROVE  Cardinality(Of(queue, a)) > MaxQueued
    <3>1. P \in SUBSET S /\ P # S
      BY <2>5 DEF LowestNonces
    <3>2. Cardinality(P) # Cardinality(S)
      BY <2>3, <3>1, FS_Subset
    <3>3. Cardinality(S) > k
      BY <2>3, <2>5, <3>2 DEF LowestNonces
    <3> QED
      BY <2>1, <2>3, <2>5, <3>3
  <2>6. t \notin up /\ t \notin keep
    BY <1>1
  <2>7. CASE t \in Ready
    <3>1. t \in Of(Ready, a) /\ t \notin Of(up, a)
      BY <2>6, <2>7 DEF Of
    <3>2. LowestNonces(Of(up, a), Of(Ready, a), MaxQueued + 1)
      BY <1>1, <2>1
    <3> QED
      BY <2>1, <2>4, <2>5, <3>1, <3>2
  <2>8. CASE t \in Future
    <3>1. t \in Of(Future, a) /\ t \notin Of(keep, a)
      BY <2>6, <2>8 DEF Of
    <3>2. CASE Cardinality(Of(Ready, a)) > MaxQueued
      BY <2>1, <2>3, <2>4, <3>2
    <3>3. CASE ~(Cardinality(Of(Ready, a)) > MaxQueued)
      <4>1. LowestNonces(Of(keep, a), Of(Future, a), MaxQueued)
        BY <1>1, <2>1, <3>3
      <4> QED
        BY <2>1, <2>4, <2>5, <3>1, <4>1
    <3> QED
      BY <3>2, <3>3
  <2>9. t \in Ready \/ t \in Future
    <3>1. t.nonce \in Nat /\ pendingState[a] \in Nat
      BY <2>1, SignedTxType, TxPoolAssumption DEF TypeOK
    <3> QED
      BY <1>8, <3>1 DEF Ready, Future
  <2> QED
    BY <2>7, <2>8, <2>9
<1> QED
  BY <1>1, <1>2, <1>3, <1>4, <1>5, <1>6, <1>7, <1>8

-----------------------------------------------------------------------------
(* Type correctness. *)

(* AddTransactions holds the lock for a batch only while some of it is left. *)
BatchLeft == pc = "adding" => batch # <<>>

(* The initial pool and every operation, event and chain move keep the
   variables in their types; in particular the pool holds signed transactions
   only and no managed nonce exceeds the highest nonce plus one.           *)
THEOREM TypeCorrect == Spec => [](TypeOK /\ BatchLeft)
<1>1. Init => TypeOK /\ BatchLeft
  <2> SUFFICES ASSUME Init PROVE TypeOK /\ BatchLeft
    OBVIOUS
  <2>1. stateNonce \in [Addrs -> 0..MaxNonce] /\ pendingState \in [Addrs -> 0..(MaxNonce + 1)]
    BY TxPoolAssumption DEF Init
  <2>2. moves \in 0..MaxMoves /\ heads \in 0..moves
    BY TxPoolAssumption DEF Init
  <2>3. batch \in Seq(Txs) /\ BatchLeft
    BY DEF Init, BatchLeft
  <2> QED
    BY <2>1, <2>2, <2>3, TxPoolAssumption DEF Init, TypeOK, Steps
<1>2. TypeOK /\ BatchLeft /\ [Next]_vars => TypeOK' /\ BatchLeft'
  <2> SUFFICES ASSUME TypeOK, BatchLeft, [Next]_vars
               PROVE  TypeOK' /\ BatchLeft'
    OBVIOUS
  <2> USE DEF chainVars, eventVars, poolVars
  <2>1. CASE UNCHANGED vars
    BY <2>1 DEF vars, TypeOK, BatchLeft
  <2>2. ASSUME NEW t \in Txs, Add(t) PROVE TypeOK' /\ BatchLeft'
    BY <2>2 DEF Add, Addable, Validated, SignedTxs, TypeOK, BatchLeft, Steps
  <2>3. ASSUME NEW txs \in Batches, AddTransactions(txs) PROVE TypeOK' /\ BatchLeft'
    <3>1. txs \in Seq(Txs)
      BY DEF Batches
    <3> QED
      BY <2>3, <3>1 DEF AddTransactions, TypeOK, BatchLeft, Steps
  <2>4. CASE AddNext
    <3>1. batch \in Seq(Txs) /\ batch # <<>>
      BY <2>4 DEF AddNext, TypeOK, BatchLeft
    <3>2. Head(batch) \in Txs /\ Tail(batch) \in Seq(Txs)
      BY <3>1
    <3>3. Len(batch) # 1 => Tail(batch) # <<>>
      <4>1. Len(batch) \in Nat /\ Len(batch) # 0 /\ Len(Tail(batch)) = Len(batch) - 1
        BY <3>1
      <4> QED
        BY <4>1
    <3>4. queue' \subseteq SignedTxs
      BY <2>4, <3>2 DEF AddNext, Addable, Validated, SignedTxs, TypeOK
    <3> QED
      BY <2>4, <3>2, <3>3, <3>4 DEF AddNext, TypeOK, BatchLeft, Steps
  <2>5. CASE RunCheckQueue
    <3>1. /\ queue' \subseteq SignedTxs /\ pending' \subseteq SignedTxs
          /\ pendingState' \in [Addrs -> 0..(MaxNonce + 1)]
      <4>1. CheckQueue
        BY <2>5 DEF RunCheckQueue
      <4> QED
        BY <4>1, CheckQueueEffect DEF TypeOK
    <3> QED
      BY <2>5, <3>1 DEF RunCheckQueue, TypeOK, BatchLeft, Steps
  <2>6. CASE HandleHead
    BY <2>6, TxPoolAssumption DEF HandleHead, TypeOK, BatchLeft, Steps
  <2>7. ASSUME NEW p \in Prices, HandleGasPrice(p) PROVE TypeOK' /\ BatchLeft'
    BY <2>7 DEF HandleGasPrice, TypeOK, BatchLeft
  <2>8. CASE ValidatePool
    BY <2>8 DEF ValidatePool, TypeOK, BatchLeft, Steps
  <2>9. CASE ResetNonces
    <3>1. ASSUME NEW a \in Addrs PROVE pendingState'[a] \in 0..(MaxNonce + 1)
      <4>1. Of(pending, a) \in SUBSET SignedTxs /\ pendingState[a] \in 0..(MaxNonce + 1)
        BY DEF Of, TypeOK
      <4> QED
        BY <2>9, <4>1, RaisedNonceSpec DEF ResetNonces
    <3>2. pendingState' \in [Addrs -> 0..(MaxNonce + 1)]
      BY <2>9, <3>1 DEF ResetNonces
    <3> QED
      BY <2>9, <3>2 DEF ResetNonces, TypeOK, BatchLeft, Steps
  <2>10. CASE GetTransactions
    BY <2>10 DEF GetTransactions, TypeOK, BatchLeft, Steps
  <2>11. ASSUME NEW S \in SUBSET Txs, RemoveTransactions(S) PROVE TypeOK' /\ BatchLeft'
    BY <2>11 DEF RemoveTransactions, TypeOK, BatchLeft
  <2>12. CASE Stop
    BY <2>12, TxPoolAssumption DEF Stop, TypeOK, BatchLeft
  <2>13. ASSUME NEW a \in Addrs, NewHead(a) PROVE TypeOK' /\ BatchLeft'
    <3>1. moves' \in 0..MaxMoves /\ heads' \in 0..moves'
      BY <2>13, TxPoolAssumption DEF NewHead, TypeOK
    <3>2. stateNonce' \in [Addrs -> 0..MaxNonce] /\ balance' \in [Addrs -> Balances]
      BY <2>13 DEF NewHead, TypeOK
    <3> QED
      BY <2>13, <3>1, <3>2 DEF NewHead, TypeOK, BatchLeft
  <2>14. ASSUME NEW p \in Prices, PostGasPrice(p) PROVE TypeOK' /\ BatchLeft'
    BY <2>14 DEF PostGasPrice, TypeOK, BatchLeft
  <2> QED
    BY <2>1, <2>2, <2>3, <2>4, <2>5, <2>6, <2>7, <2>8, <2>9, <2>10, <2>11, <2>12,
       <2>13, <2>14
       DEF Next, PoolStep, EventLoop, Caller, Environment
<1> QED
  BY <1>1, <1>2, PTL DEF Spec

-----------------------------------------------------------------------------
(* No transaction is pending and queued at once. *)

(* Disjoint holds of every reachable pool.  It needs the type invariant only
   because checkQueue tells ready from future transactions by comparing
   nonces.                                                                 *)
THEOREM DisjointHolds == Spec => []Disjoint
<1>1. Init => Disjoint
  BY DEF Init, Disjoint
<1>2. TypeOK /\ Disjoint /\ [Next]_vars => Disjoint'
  <2> SUFFICES ASSUME TypeOK, Disjoint, [Next]_vars PROVE Disjoint'
    OBVIOUS
  <2> USE DEF chainVars, eventVars, poolVars
  <2>1. CASE UNCHANGED <<pending, queue>>
    BY <2>1 DEF Disjoint
  <2>2. ASSUME NEW t \in Txs, Add(t) PROVE Disjoint'
    BY <2>2 DEF Add, Addable, Disjoint
  <2>3. CASE AddNext
    BY <2>3 DEF AddNext, Addable, Disjoint
  <2>4. CASE RunCheckQueue
    <3>1. CheckQueue
      BY <2>4 DEF RunCheckQueue
    <3>2. /\ queue' \subseteq queue
          /\ \A t \in pending' : t \in pending \/ t \notin queue'
      BY <3>1, CheckQueueEffect
    <3> QED
      BY <3>2 DEF Disjoint
  <2>5. CASE ValidatePool
    BY <2>5 DEF ValidatePool, Disjoint
  <2>6. ASSUME NEW S \in SUBSET Txs, RemoveTransactions(S) PROVE Disjoint'
    BY <2>6 DEF RemoveTransactions, Disjoint
  <2>7. CASE UNCHANGED vars \/ HandleHead \/ ResetNonces \/ GetTransactions \/ Stop
    BY <2>1, <2>7 DEF vars, HandleHead, ResetNonces, GetTransactions, Stop
  <2>8. ASSUME NEW txs \in Batches, AddTransactions(txs) PROVE Disjoint'
    BY <2>1, <2>8 DEF AddTransactions
  <2>9. ASSUME NEW p \in Prices, HandleGasPrice(p) \/ PostGasPrice(p) PROVE Disjoint'
    BY <2>1, <2>9 DEF HandleGasPrice, PostGasPrice
  <2>10. ASSUME NEW a \in Addrs, NewHead(a) PROVE Disjoint'
    BY <2>1, <2>10 DEF NewHead
  <2> QED
    BY <2>2, <2>3, <2>4, <2>5, <2>6, <2>7, <2>8, <2>9, <2>10
       DEF Next, PoolStep, EventLoop, Caller, Environment
<1> QED
  BY <1>1, <1>2, TypeCorrect, PTL DEF Spec

-----------------------------------------------------------------------------
(* The limit on queued transactions. *)

(* The limit holds from the end of a pass of checkQueue until the next
   operation adds to the queue; GetTransactions goes on after its pass.    *)
BoundAfterPass ==
    pc \in {"idle", "getValidate"} =>
        \A a \in Addrs : Cardinality(Of(queue, a)) <= MaxQueued

(* QueueBounded holds of every reachable pool, for every limit. *)
THEOREM QueueBoundedHolds == Spec => []QueueBounded
<1>1. Init => BoundAfterPass
  <2> SUFFICES ASSUME Init, NEW a \in Addrs PROVE Cardinality(Of(queue, a)) <= MaxQueued
    BY DEF BoundAfterPass
  <2>1. Of(queue, a) = {}
    BY DEF Init, Of
  <2> QED
    BY <2>1, FS_EmptySet, TxPoolAssumption
<1>2. TypeOK /\ BoundAfterPass /\ [Next]_vars => BoundAfterPass'
  <2> SUFFICES ASSUME TypeOK, BoundAfterPass, [Next]_vars PROVE BoundAfterPass'
    OBVIOUS
  <2> USE DEF chainVars, eventVars, poolVars
  <2>1. CASE UNCHANGED <<queue, pc>>
    BY <2>1 DEF BoundAfterPass, Of
  <2>2. CASE pc' \notin {"idle", "getValidate"}
    BY <2>2 DEF BoundAfterPass
  <2>3. ASSUME NEW t \in Txs, Add(t) PROVE BoundAfterPass'
    BY <2>2, <2>3 DEF Add
  <2>4. ASSUME NEW txs \in Batches, AddTransactions(txs) PROVE BoundAfterPass'
    BY <2>2, <2>4 DEF AddTransactions
  <2>5. CASE AddNext \/ HandleHead \/ ResetNonces \/ GetTransactions
    BY <2>2, <2>5 DEF AddNext, HandleHead, ResetNonces, GetTransactions
  <2>6. CASE RunCheckQueue
    <3>1. CheckQueue
      BY <2>6 DEF RunCheckQueue
    <3>2. \A a \in Addrs : Cardinality(Of(queue', a)) <= MaxQueued
      BY <3>1, CheckQueueEffect
    <3> QED
      BY <3>2 DEF BoundAfterPass, Of
  <2>7. CASE ValidatePool
    BY <2>7 DEF ValidatePool, BoundAfterPass, Of
  <2>8. ASSUME NEW S \in SUBSET Txs, RemoveTransactions(S) PROVE BoundAfterPass'
    <3> SUFFICES ASSUME NEW a \in Addrs PROVE Cardinality(Of(queue', a)) <= MaxQueued
      BY DEF BoundAfterPass, Of
    <3>1. Of(queue', a) \in SUBSET Of(queue, a) /\ Of(queue, a) \in SUBSET Txs
      BY <2>8, SignedTxType DEF RemoveTransactions, Of, TypeOK
    <3>2. IsFiniteSet(Of(queue, a))
      BY <3>1, FS_Subset, TxPoolAssumption
    <3>3. /\ Cardinality(Of(queue', a)) <= Cardinality(Of(queue, a))
          /\ Cardinality(Of(queue', a)) \in Nat /\ Cardinality(Of(queue, a)) \in Nat
      BY <3>1, <3>2, FS_Subset, FS_CardinalityType
    <3>4. Cardinality(Of(queue, a)) <= MaxQueued
      BY <2>8 DEF RemoveTransactions, BoundAfterPass
    <3> QED
      BY <3>3, <3>4, TxPoolAssumption
  <2>9. CASE UNCHANGED vars \/ Stop
    BY <2>1, <2>9 DEF vars, Stop
  <2>10. ASSUME NEW p \in Prices, HandleGasPrice(p) \/ PostGasPrice(p) PROVE BoundAfterPass'
    BY <2>1, <2>10 DEF HandleGasPrice, PostGasPrice
  <2>11. ASSUME NEW a \in Addrs, NewHead(a) PROVE BoundAfterPass'
    BY <2>1, <2>11 DEF NewHead
  <2> QED
    BY <2>3, <2>4, <2>5, <2>6, <2>7, <2>8, <2>9, <2>10, <2>11
       DEF Next, PoolStep, EventLoop, Caller, Environment
<1>3. BoundAfterPass => QueueBounded
  BY DEF BoundAfterPass, QueueBounded
<1> QED
  BY <1>1, <1>2, <1>3, TypeCorrect, PTL DEF Spec

-----------------------------------------------------------------------------
(* The pool catches up with the chain. *)

(* While no head event waits, the managed nonces are not behind the chain;
   pending transactions may be only from the start of resetState, which
   takes the event, to validatePool.                                       *)
CaughtUpAlways ==
    (heads = 0 /\ ~stopped) =>
        /\ \A a \in Addrs : pendingState[a] >= stateNonce[a]
        /\ pc # "resetValidate" => \A t \in pending : ~Stale(t)

(* CaughtUp holds of every reachable pool: a head that arrives while resetState
   runs has an event of its own, and no other operation moves a managed nonce
   below the account's.                                                    *)
THEOREM CaughtUpHolds == Spec => []CaughtUp
<1>1. Init => CaughtUpAlways
  BY DEF Init, CaughtUpAlways
<1>2. TypeOK /\ CaughtUpAlways /\ [Next]_vars => CaughtUpAlways'
  <2> SUFFICES ASSUME TypeOK, CaughtUpAlways, [Next]_vars PROVE CaughtUpAlways'
    OBVIOUS
  <2> USE DEF chainVars, eventVars, poolVars
  <2>1. ASSUME UNCHANGED <<stateNonce, heads, stopped, pendingState>>,
               pending' \subseteq pending, pc # "resetValidate"
        PROVE  CaughtUpAlways'
    BY <2>1 DEF CaughtUpAlways, Stale
  <2>2. CASE UNCHANGED vars
    BY <2>2 DEF vars, CaughtUpAlways, Stale
  <2>3. ASSUME NEW t \in Txs, Add(t) PROVE CaughtUpAlways'
    BY <2>1, <2>3 DEF Add
  <2>4. ASSUME NEW txs \in Batches, AddTransactions(txs) PROVE CaughtUpAlways'
    BY <2>1, <2>4 DEF AddTransactions
  <2>5. CASE AddNext \/ GetTransactions
    BY <2>1, <2>5 DEF AddNext, GetTransactions
  <2>6. ASSUME NEW S \in SUBSET Txs, RemoveTransactions(S) PROVE CaughtUpAlways'
    BY <2>1, <2>6 DEF RemoveTransactions
  <2>7. CASE RunCheckQueue
    <3> SUFFICES ASSUME heads = 0, ~stopped
                 PROVE  /\ \A a \in Addrs : pendingState'[a] >= stateNonce[a]
                        /\ \A t \in pending' : ~Stale(t)
      BY <2>7 DEF RunCheckQueue, CaughtUpAlways, Stale
    <3>1. CheckQueue /\ pc # "resetValidate"
      BY <2>7 DEF RunCheckQueue
    <3>2. /\ \A a \in Addrs : pendingState[a] >= stateNonce[a]
          /\ \A t \in pending : ~Stale(t)
      BY <3>1 DEF CaughtUpAlways
    <3>3. \A t \in pending' \ pending : ~Stale(t) /\ t \in SignedTxs
      BY <3>1, CheckQueueEffect DEF TypeOK
    <3>4. ASSUME NEW a \in Addrs PROVE pendingState'[a] >= stateNonce[a]
      <4>1. \/ pendingState'[a] = pendingState[a]
            \/ \E t \in pending' \ pending :
                  t.from = a /\ pendingState'[a] = t.nonce + 1
        BY <3>1, CheckQueueEffect
      <4>2. ASSUME NEW t \in pending' \ pending, t.from = a PROVE t.nonce + 1 >= stateNonce[a]
        <5>1. t.nonce \in Nat /\ ~(t.nonce < stateNonce[a]) /\ stateNonce[a] \in Nat
          BY <3>3, <4>2, SignedTxType DEF Stale, TypeOK
        <5> QED
          BY <5>1
      <4> QED
        BY <3>2, <4>1, <4>2
    <3> QED
      BY <3>2, <3>3, <3>4
  <2>8. CASE HandleHead
    BY <2>8 DEF HandleHead, CaughtUpAlways, TypeOK
  <2>9. CASE ValidatePool
    BY <2>9 DEF ValidatePool, CaughtUpAlways, Stale
  <2>10. CASE ResetNonces
    <3>1. ASSUME NEW a \in Addrs
          PROVE  /\ pendingState'[a] \in Nat /\ pendingState[a] \in Nat
                 /\ stateNonce[a] \in Nat /\ pendingState'[a] >= pendingState[a]
      <4>1. Of(pending, a) \in SUBSET SignedTxs /\ pendingState[a] \in 0..(MaxNonce + 1)
        BY DEF Of, TypeOK
      <4>2. pendingState'[a] \in 0..(MaxNonce + 1) /\ pendingState'[a] >= pendingState[a]
        BY <2>10, <4>1, RaisedNonceSpec DEF ResetNonces
      <4> QED
        BY <4>1, <4>2, TxPoolAssumption DEF TypeOK
    <3> QED
      BY <2>10, <3>1 DEF ResetNonces, CaughtUpAlways, Stale
  <2>11. ASSUME NEW p \in Prices, HandleGasPrice(p) \/ PostGasPrice(p) PROVE CaughtUpAlways'
    BY <2>11 DEF HandleGasPrice, PostGasPrice, CaughtUpAlways, Stale
  <2>12. CASE Stop
    BY <2>12 DEF Stop, CaughtUpAlways
  <2>13. ASSUME NEW a \in Addrs, NewHead(a) PROVE CaughtUpAlways'
    <3>1. stopped' \/ heads' # 0
      BY <2>13 DEF NewHead, TypeOK
    <3> QED
      BY <3>1 DEF CaughtUpAlways
  <2> QED
    BY <2>2, <2>3, <2>4, <2>5, <2>6, <2>7, <2>8, <2>9, <2>10, <2>11, <2>12, <2>13
       DEF Next, PoolStep, EventLoop, Caller, Environment
<1>3. CaughtUpAlways => CaughtUp
  BY DEF CaughtUpAlways, CaughtUp
<1> QED
  BY <1>1, <1>2, <1>3, TypeCorrect, PTL DEF Spec

-----------------------------------------------------------------------------
(* Pending transactions can be executed in a row. *)

(* Every nonce from the account's up to, and not including, m is pending. *)
Row(a, m) ==
    \A n \in stateNonce[a]..(m - 1) : \E u \in pending : u.from = a /\ u.nonce = n

(* The strengthening of NoGap: the row also reaches the managed nonce, which
   is what checkQueue compares a candidate with.                           *)
Rows ==
    /\ \A t \in pending : Row(t.from, t.nonce)
    /\ \A a \in Addrs : Row(a, pendingState[a])

(* NoGap holds of every pool on a chain that only grows, for every limit: a
   promoted transaction extends the row by at most one nonce, resetState bases
   the managed nonce inside it, and what is dropped is below it.           *)
THEOREM NoGapHolds == Spec => []NoGap
<1>1. Init => Rows
  BY DEF Init, Rows, Row
<1>2. TypeOK /\ Rows /\ [Next]_vars /\ ~forked' => Rows'
  <2> SUFFICES ASSUME TypeOK, Rows, [Next]_vars, ~forked' PROVE Rows'
    OBVIOUS
  <2> USE DEF chainVars, eventVars, poolVars
  <2>0. /\ \A a \in Addrs : stateNonce[a] \in Nat /\ pendingState[a] \in Nat
        /\ \A t \in pending \cup queue :
              t \in SignedTxs /\ t.from \in Addrs /\ t.nonce \in Nat
    BY SignedTxType, TxPoolAssumption DEF TypeOK
  <2>1. ASSUME UNCHANGED <<stateNonce, pendingState>>, pending' \subseteq pending,
               \A u \in pending : ~Stale(u) => u \in pending'
        PROVE  Rows'
    <3>1. ASSUME NEW a \in Addrs, NEW m \in Nat, Row(a, m) PROVE Row(a, m)'
      <4> SUFFICES ASSUME NEW n \in stateNonce[a]..(m - 1)
                   PROVE  \E u \in pending' : u.from = a /\ u.nonce = n
        BY <2>1 DEF Row
      <4>1. PICK u \in pending : u.from = a /\ u.nonce = n
        BY <3>1 DEF Row
      <4>2. ~Stale(u)
        BY <2>0, <4>1 DEF Stale
      <4> QED
        BY <2>1, <4>1, <4>2
    <3>2. \A t \in pending' : t.from \in Addrs /\ t.nonce \in Nat /\ Row(t.from, t.nonce)
      BY <2>0, <2>1 DEF Rows
    <3>3. \A a \in Addrs : pendingState[a] \in Nat /\ Row(a, pendingState[a])
      BY <2>0 DEF Rows
    <3>4. \A t \in pending' : Row(t.from, t.nonce)'
      BY <3>1, <3>2
    <3>5. \A a \in Addrs : Row(a, pendingState[a])'
      BY <2>1, <3>1, <3>3
    <3> QED
      BY <3>4, <3>5 DEF Rows
  <2>2. CASE UNCHANGED <<stateNonce, pendingState, pending>>
    BY <2>1, <2>2
  <2>3. CASE RunCheckQueue
    <3>1. CheckQueue /\ UNCHANGED stateNonce
      BY <2>3 DEF RunCheckQueue
    <3>2. /\ pending \subseteq pending' /\ pending' \subseteq pending \cup queue
          /\ \A t \in pending' \ pending : t.nonce <= pendingState[t.from]
          /\ \A a \in Addrs :
                \/ pendingState'[a] = pendingState[a]
                \/ \E t \in pending' \ pending :
                      t.from = a /\ pendingState'[a] = t.nonce + 1
      BY <3>1, CheckQueueEffect
    <3>3. ASSUME NEW a \in Addrs, NEW m \in Nat, Row(a, m) PROVE Row(a, m)'
      BY <3>1, <3>2, <3>3 DEF Row
    <3>4. ASSUME NEW t \in pending' PROVE Row(t.from, t.nonce)'
      <4>1. t.from \in Addrs /\ t.nonce \in Nat
        BY <2>0, <3>2
      <4>2. CASE t \in pending
        BY <3>3, <4>1, <4>2 DEF Rows
      <4>3. CASE t \notin pending
        <5>1. t.nonce <= pendingState[t.from] /\ Row(t.from, pendingState[t.from])
          BY <3>2, <4>1, <4>3 DEF Rows
        <5>2. Row(t.from, t.nonce)
          BY <2>0, <4>1, <5>1 DEF Row
        <5> QED
          BY <3>3, <4>1, <5>2
      <4> QED
        BY <4>2, <4>3
    <3>5. ASSUME NEW a \in Addrs PROVE Row(a, pendingState[a])'
      <4>1. CASE pendingState'[a] = pendingState[a]
        <5>1. Row(a, pendingState[a]) /\ pendingState[a] \in Nat
          BY <2>0 DEF Rows
        <5> QED
          BY <3>1, <3>2, <4>1, <5>1 DEF Row
      <4>2. ASSUME NEW t \in pending' \ pending, t.from = a, pendingState'[a] = t.nonce + 1
            PROVE  Row(a, pendingState[a])'
        <5>1. t.nonce \in Nat /\ stateNonce[a] \in Nat
          BY <2>0, <3>2
        <5>2. Row(t.from, t.nonce)'
          BY <3>4
        <5> SUFFICES ASSUME NEW n \in stateNonce'[a]..(pendingState'[a] - 1)
                     PROVE  \E u \in pending' : u.from = a /\ u.nonce = n
          BY DEF Row
        <5>3. CASE n = t.nonce
          BY <4>2, <5>3
        <5>4. CASE n # t.nonce
          BY <3>1, <4>2, <5>1, <5>2, <5>4 DEF Row
        <5> QED
          BY <5>3, <5>4
      <4> QED
        BY <3>2, <4>1, <4>2
    <3> QED
      BY <3>4, <3>5 DEF Rows
  <2>4. CASE HandleHead
    <3>1. UNCHANGED <<stateNonce, pending>> /\ pendingState' = stateNonce
      BY <2>4 DEF HandleHead
    <3>2. \A a \in Addrs : Row(a, pendingState[a])'
      BY <2>0, <3>1 DEF Row
    <3>3. \A t \in pending' : Row(t.from, t.nonce)'
      BY <3>1 DEF Rows, Row
    <3> QED
      BY <3>2, <3>3 DEF Rows
  <2>5. CASE ResetNonces
    <3>1. UNCHANGED <<stateNonce, pending>>
      BY <2>5 DEF ResetNonces
    <3>2. ASSUME NEW a \in Addrs PROVE Row(a, pendingState[a])'
      <4>1. Of(pending, a) \in SUBSET SignedTxs /\ pendingState[a] \in 0..(MaxNonce + 1)
        BY DEF Of, TypeOK
      <4>2. \/ pendingState'[a] = pendingState[a]
            \/ \E t \in Of(pending, a) : pendingState'[a] = t.nonce
        BY <2>5, <4>1, RaisedNonceSpec DEF ResetNonces
      <4>3. \/ pendingState'[a] = pendingState[a]
            \/ \E t \in pending : t.from = a /\ pendingState'[a] = t.nonce
        BY <4>2 DEF Of
      <4> QED
        BY <3>1, <4>3 DEF Rows, Row
    <3>3. \A t \in pending' : Row(t.from, t.nonce)'
      BY <3>1 DEF Rows, Row
    <3> QED
      BY <3>2, <3>3 DEF Rows
  <2>6. CASE ValidatePool
    BY <2>1, <2>6 DEF ValidatePool
  <2>7. ASSUME NEW S \in SUBSET Txs, RemoveTransactions(S) PROVE Rows'
    <3>1. \A u \in pending : ~Stale(u) => u \in pending'
      BY <2>0, <2>7 DEF RemoveTransactions
    <3> QED
      BY <2>1, <2>7, <3>1 DEF RemoveTransactions
  <2>8. ASSUME NEW b \in Addrs, NewHead(b) PROVE Rows'
    <3>1. UNCHANGED <<pending, pendingState>>
      BY <2>8 DEF NewHead
    <3>2. \A a \in Addrs : stateNonce'[a] \in Nat /\ stateNonce'[a] >= stateNonce[a]
      <4>1. PICK n \in 0..MaxNonce :
                /\ forked' = (forked \/ n < stateNonce[b])
                /\ stateNonce' = [stateNonce EXCEPT ![b] = n]
        BY <2>8 DEF NewHead
      <4>2. ~(n < stateNonce[b])
        BY <4>1, Zenon
      <4> QED
        BY <2>0, <4>1, <4>2, TxPoolAssumption DEF TypeOK
    <3>3. ASSUME NEW a \in Addrs, NEW m \in Nat, Row(a, m) PROVE Row(a, m)'
      BY <2>0, <3>1, <3>2, <3>3 DEF Row
    <3>4. \A t \in pending' : Row(t.from, t.nonce)'
      BY <2>0, <3>1, <3>3 DEF Rows
    <3>5. \A a \in Addrs : Row(a, pendingState[a])'
      <4>1. \A a \in Addrs : pendingState[a] \in Nat /\ Row(a, pendingState[a])
        BY <2>0 DEF Rows
      <4> QED
        BY <3>1, <3>3, <4>1
    <3> QED
      BY <3>4, <3>5 DEF Rows
  <2>9. ASSUME NEW t \in Txs, Add(t) PROVE Rows'
    BY <2>2, <2>9 DEF Add
  <2>10. ASSUME NEW txs \in Batches, AddTransactions(txs) PROVE Rows'
    BY <2>2, <2>10 DEF AddTransactions
  <2>11. ASSUME NEW p \in Prices, HandleGasPrice(p) \/ PostGasPrice(p) PROVE Rows'
    BY <2>2, <2>11 DEF HandleGasPrice, PostGasPrice
  <2>12. CASE UNCHANGED vars \/ AddNext \/ GetTransactions \/ Stop
    BY <2>2, <2>12 DEF vars, AddNext, GetTransactions, Stop
  <2> QED
    BY <2>3, <2>4, <2>5, <2>6, <2>7, <2>8, <2>9, <2>10, <2>11, <2>12
       DEF Next, PoolStep, EventLoop, Caller, Environment
<1> DEFINE GrowingRows == ~forked => Rows
<1>3. Init => GrowingRows
  BY <1>1
<1>4. TypeOK /\ GrowingRows /\ [Next]_vars => GrowingRows'
  <2>1. [Next]_vars /\ ~forked' => ~forked
    BY DEF Next, PoolStep, EventLoop, Caller, Environment, vars, chainVars, AddNext,
           RunCheckQueue, ValidatePool, ResetNonces, HandleHead, HandleGasPrice, Add,
           AddTransactions, GetTransactions, RemoveTransactions, Stop, NewHead, PostGasPrice
  <2> QED
    BY <1>2, <2>1
<1>5. GrowingRows => NoGap
  BY DEF Rows, Row, NoGap
<1> QED
  BY <1>3, <1>4, <1>5, TypeCorrect, PTL DEF Spec

-----------------------------------------------------------------------------
(* What a step may never do. *)

(* Every pass of checkQueue promotes all that the managed nonce it started
   from allows.                                                            *)
THEOREM PassPromotesHolds == Spec => PassPromotes
<1>1. TypeOK /\ [Next]_vars =>
        [RunCheckQueue => \A t \in queue' : t.nonce > pendingState[t.from]]_vars
  BY CheckQueueEffect DEF RunCheckQueue
<1> QED
  BY <1>1, TypeCorrect, PTL DEF Spec, PassPromotes

(* No step loses a transaction that is still valid, unless RemoveTransactions
   names it or its sender has more than maxQueued of them queued.          *)
THEOREM NoSilentLossHolds == Spec => NoSilentLoss
<1> DEFINE Accounted(t) ==
        \/ Stale(t)
        \/ \E S \in SUBSET Txs : t \in S /\ RemoveTransactions(S)
        \/ t \in queue /\ Cardinality(Of(queue, t.from)) > MaxQueued
<1>1. TypeOK /\ [Next]_vars =>
        [\A t \in (pending \cup queue) \ (pending' \cup queue') : Accounted(t)]_vars
  <2> SUFFICES ASSUME TypeOK, [Next]_vars,
                      NEW t \in (pending \cup queue) \ (pending' \cup queue')
               PROVE  Accounted(t)
    OBVIOUS
  <2> USE DEF chainVars, eventVars, poolVars
  <2>1. CASE RunCheckQueue
    <3>1. CheckQueue
      BY <2>1 DEF RunCheckQueue
    <3> QED
      BY <3>1, CheckQueueEffect
  <2>2. CASE ValidatePool
    BY <2>2 DEF ValidatePool
  <2>3. ASSUME NEW S \in SUBSET Txs, RemoveTransactions(S) PROVE Accounted(t)
    <3>1. t \in S
      BY <2>3 DEF RemoveTransactions
    <3> QED
      BY <2>3, <3>1
  <2>4. CASE pending \subseteq pending' /\ queue \subseteq queue'
    BY <2>4
  <2>5. CASE UNCHANGED vars \/ AddNext \/ ResetNonces \/ HandleHead \/ GetTransactions
             \/ Stop
    BY <2>4, <2>5 DEF vars, AddNext, ResetNonces, HandleHead, GetTransactions, Stop
  <2>6. ASSUME NEW u \in Txs, Add(u) PROVE Accounted(t)
    BY <2>4, <2>6 DEF Add
  <2>7. ASSUME NEW txs \in Batches, AddTransactions(txs) PROVE Accounted(t)
    BY <2>4, <2>7 DEF AddTransactions
  <2>8. ASSUME NEW p \in Prices, HandleGasPrice(p) \/ PostGasPrice(p) PROVE Accounted(t)
    BY <2>4, <2>8 DEF HandleGasPrice, PostGasPrice
  <2>9. ASSUME NEW a \in Addrs, NewHead(a) PROVE Accounted(t)
    BY <2>4, <2>9 DEF NewHead
  <2> QED
    BY <2>1, <2>2, <2>3, <2>5, <2>6, <2>7, <2>8, <2>9
       DEF Next, PoolStep, EventLoop, Caller, Environment
<1> QED
  BY <1>1, TypeCorrect, PTL DEF Spec, NoSilentLoss

=============================================================================
