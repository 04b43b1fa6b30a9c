------------------------------- MODULE TxPool -------------------------------
(***************************************************************************)
(* The transaction pool (src/model/kbpool/kbpool.go).                      *)
(*                                                                         *)
(* Every method that changes the pool runs under pool.mu, so at most one   *)
(* operation is in progress; pc says where it stands.  The lock does not   *)
(* stop the chain: an operation is cut into steps exactly where it calls   *)
(* currentState() again, and the chain may move between two steps.         *)
(***************************************************************************)
EXTENDS Integers, Sequences, FiniteSets, FiniteSetsExt

CONSTANTS
    Addrs,      \* account addresses
    Txs,        \* the transactions anybody may submit
    MaxQueued,  \* maxQueued: the per-sender limit on queued transactions
    MaxNonce,   \* bound on account and transaction nonces
    Prices,     \* gas prices a GasPriceChanged event may carry
    Balances,   \* account balances the chain may produce
    GasLimits,  \* block gas limits the chain may produce
    MaxBatch,   \* bound on the length of an AddTransactions argument
    MaxMoves    \* bound on the number of chain moves in a behaviour

(* A transaction.  id stands for the hash: it tells apart transactions that
   agree on everything else.  from is a member of Addrs only when the
   signature yields a sender; intrinsic is IntrinsicGas(tx.Data()).        *)
Transaction == [id: Nat, from: Addrs \cup {"invalid"}, nonce: 0..MaxNonce,
                price: Nat, gas: Nat, value: Int, intrinsic: Nat]

ASSUME TxPoolAssumption ==
    /\ "invalid" \notin Addrs
    /\ Txs \subseteq Transaction /\ IsFiniteSet(Txs)
    /\ MaxQueued \in Nat \ {0} /\ MaxNonce \in Nat /\ MaxMoves \in Nat
    /\ MaxBatch \in Nat
    /\ Prices \subseteq Nat /\ Balances \subseteq Nat /\ GasLimits \subseteq Nat
    /\ 0 \in Prices /\ 0 \in Balances

VARIABLES
    \* what currentState() and gasLimit() return
    accounts,      \* addresses that have a state object
    stateNonce,    \* nonce of every address, 0 without a state object
    balance,       \* balance of every address, 0 without a state object
    gasLimit,      \* gas limit of the current block
    moves,         \* number of chain moves so far (bounds the model)
    \* events on their way to the pool's subscription
    heads,         \* ChainHeadEvents posted and not yet handled
    prices,        \* GasPriceChanged events posted and not yet handled
    \* the pool
    pending,       \* processable transactions
    queue,         \* queued transactions; queue[addr] is those sent by addr
    pendingState,  \* pendingState.GetNonce of every address
    minGasPrice,   \* lowest gas price accepted
    stopped,       \* Stop has been called: the subscription is closed
    pc,            \* step the holder of pool.mu takes next
    batch,         \* rest of the slice AddTransactions is working on
    \* history
    forked         \* the chain has lost a nonce, or a caller removed a valid transaction

chainVars == <<accounts, stateNonce, balance, gasLimit, moves, forked>>
eventVars == <<heads, prices>>
poolVars  == <<pending, queue, pendingState>>
vars == <<chainVars, eventVars, poolVars, minGasPrice, stopped, pc, batch>>

Steps == {"idle", "adding", "checkQueue", "resetValidate", "resetNonces",
          "getCheck", "getValidate"}

SignedTxs == {t \in Txs : t.from \in Addrs}

TypeOK ==
    /\ accounts \subseteq Addrs
    /\ stateNonce \in [Addrs -> 0..MaxNonce]
    /\ balance \in [Addrs -> Balances]
    /\ gasLimit \in GasLimits
    /\ moves \in 0..MaxMoves
    /\ heads \in 0..moves
    /\ prices \subseteq Prices
    /\ pending \subseteq SignedTxs
    /\ queue \subseteq SignedTxs
    /\ pendingState \in [Addrs -> 0..(MaxNonce + 1)]
    /\ minGasPrice \in Prices
    /\ stopped \in BOOLEAN
    /\ pc \in Steps
    /\ batch \in Seq(Txs)
    /\ forked \in BOOLEAN

-----------------------------------------------------------------------------
(* NewTxPool on an arbitrary chain state. *)
Init ==
    /\ accounts \in SUBSET Addrs
    /\ stateNonce = [a \in Addrs |-> 0]
    /\ balance \in [Addrs -> Balances]
    /\ \A a \in Addrs \ accounts : balance[a] = 0
    /\ gasLimit \in GasLimits
    /\ moves = 0
    /\ heads = 0 /\ prices = {}
    /\ pending = {} /\ queue = {}
    /\ pendingState = stateNonce
    /\ minGasPrice = 0
    /\ stopped = FALSE
    /\ pc = "idle" /\ batch = <<>>
    /\ forked = FALSE

Of(S, a) == {t \in S : t.from = a}

Stale(t) == t.nonce < stateNonce[t.from]

Cost(t) == t.value + t.price * t.gas

(* validateTx returns nil.  Which error it returns otherwise changes nothing. *)
Validated(t) ==
    /\ minGasPrice <= t.price
    /\ t.from \in Addrs
    /\ t.from \in accounts
    /\ ~Stale(t)
    /\ t.gas <= gasLimit
    /\ t.value >= 0
    /\ Cost(t) <= balance[t.from]
    /\ t.intrinsic <= t.gas

(* add returns nil: only then is the transaction queued. *)
Addable(t) == t \notin pending /\ Validated(t)

(* Mutant: the limit off by one. *)
OneMoreLowest(P, S, k) ==
    /\ P \subseteq S
    /\ Cardinality(P) = IF Cardinality(S) < k + 1 THEN Cardinality(S) ELSE k + 1
    /\ \A p \in P, r \in S \ P : p.nonce <= r.nonce

(* P is what k steps along a slice of S sorted by nonce can pass.  sort.Sort
   is not stable: which of two transactions with the same nonce comes first
   is arbitrary.                                                           *)
LowestNonces(P, S, k) ==
    /\ P \subseteq S
    /\ Cardinality(P) = IF Cardinality(S) < k THEN Cardinality(S) ELSE k
    /\ \A p \in P, r \in S \ P : p.nonce <= r.nonce

(* pendingState of a sender once the transactions in S have gone, in nonce
   order, through addTx: each sets it to its own nonce plus one.           *)
NonceAfter(S, n) == IF S = {} THEN n ELSE Max({t.nonce : t \in S}) + 1

(* Mutant: a transaction one nonce too early is promoted. *)
ReadyTooEarly == {t \in queue : ~Stale(t) /\ t.nonce <= pendingState[t.from] + 1}

Ready  == {t \in queue : ~Stale(t) /\ t.nonce <= pendingState[t.from]}
Future == {t \in queue : ~Stale(t) /\ t.nonce > pendingState[t.from]}

(* The body of checkQueue's loop, for every address at once: no iteration
   reads what another writes.  The guessed nonce is read once per address.
   Transactions are promoted while their nonce is at most the guess, but only
   the first maxQueued + 1 positions of the slice: everything behind them is
   deleted.  If the loop breaks before, maxQueued future transactions stay. *)
CheckQueue ==
    \E up \in SUBSET Ready, keep \in SUBSET Future :
        /\ \A a \in Addrs :
              /\ LowestNonces(Of(up, a), Of(Ready, a), MaxQueued + 1)
              /\ IF Cardinality(Of(Ready, a)) > MaxQueued
                 THEN Of(keep, a) = {}
                 ELSE LowestNonces(Of(keep, a), Of(Future, a), MaxQueued)
        /\ queue' = keep
        /\ pending' = pending \cup up
        /\ pendingState' = [a \in Addrs |->
               NonceAfter(Of(up \ pending, a), pendingState[a])]

-----------------------------------------------------------------------------
(* Add: on an error the pool is left as it was. *)
Add(t) ==
    /\ pc = "idle"
    /\ Addable(t)
    /\ queue' = queue \cup {t}
    /\ pc' = "checkQueue"
    /\ UNCHANGED <<chainVars, eventVars, pending, pendingState, minGasPrice,
                   stopped, batch>>

(* AddTransactions takes the lock ... *)
AddTransactions(txs) ==
    /\ pc = "idle"
    /\ batch' = txs
    /\ pc' = IF txs = <<>> THEN "checkQueue" ELSE "adding"
    /\ UNCHANGED <<chainVars, eventVars, poolVars, minGasPrice, stopped>>

(* ... adds the transactions one by one, skipping those with an error, and
   runs checkQueue whatever happened to them.                              *)
AddNext ==
    /\ pc = "adding"
    /\ queue' = queue \cup {t \in {Head(batch)} : Addable(t)}
    /\ batch' = Tail(batch)
    /\ pc' = IF Len(batch) = 1 THEN "checkQueue" ELSE "adding"
    /\ UNCHANGED <<chainVars, eventVars, pending, pendingState, minGasPrice,
                   stopped>>

(* checkQueue as the last step of Add, AddTransactions and resetState, and
   as the first step of GetTransactions.                                   *)
RunCheckQueue ==
    /\ pc \in {"checkQueue", "getCheck"}
    /\ CheckQueue
    /\ pc' = IF pc = "getCheck" THEN "getValidate" ELSE "idle"
    /\ UNCHANGED <<chainVars, eventVars, minGasPrice, stopped, batch>>

(* Mutant: resetState keeps the old managed state. *)
HandleHeadKeepsNonces ==
    /\ pc = "idle" /\ ~stopped
    /\ heads > 0
    /\ heads' = heads - 1
    /\ pc' = "resetValidate"
    /\ UNCHANGED <<chainVars, prices, poolVars, minGasPrice, stopped, batch>>

(* eventLoop, ChainHeadEvent: resetState bases pendingState on the state. *)
HandleHead ==
    /\ pc = "idle" /\ ~stopped
    /\ heads > 0
    /\ heads' = heads - 1
    /\ pendingState' = stateNonce
    /\ pc' = "resetValidate"
    /\ UNCHANGED <<chainVars, prices, pending, queue, minGasPrice, stopped, batch>>

(* eventLoop, GasPriceChanged. *)
HandleGasPrice(p) ==
    /\ pc = "idle" /\ ~stopped
    /\ p \in prices
    /\ prices' = prices \ {p}
    /\ minGasPrice' = p
    /\ UNCHANGED <<chainVars, heads, poolVars, stopped, pc, batch>>

(* Mutants: validatePool drops the next executable transaction too, or nothing. *)
ValidatePoolTooMuch ==
    /\ pc \in {"resetValidate", "getValidate"}
    /\ pending' = {t \in pending : t.nonce > stateNonce[t.from]}
    /\ pc' = IF pc = "resetValidate" THEN "resetNonces" ELSE "idle"
    /\ UNCHANGED <<chainVars, eventVars, queue, pendingState, minGasPrice,
                   stopped, batch>>
ValidatePoolNothing ==
    /\ pc \in {"resetValidate", "getValidate"}
    /\ pc' = IF pc = "resetValidate" THEN "resetNonces" ELSE "idle"
    /\ UNCHANGED <<chainVars, eventVars, poolVars, minGasPrice, stopped, batch>>

(* validatePool, called by resetState and as the last step of GetTransactions. *)
ValidatePool ==
    /\ pc \in {"resetValidate", "getValidate"}
    /\ pending' = {t \in pending : ~Stale(t)}
    /\ pc' = IF pc = "resetValidate" THEN "resetNonces" ELSE "idle"
    /\ UNCHANGED <<chainVars, eventVars, queue, pendingState, minGasPrice,
                   stopped, batch>>

(* resetState: a sender's nonce is raised to the highest one pending. *)
ResetNonces ==
    /\ pc = "resetNonces"
    /\ pendingState' = [a \in Addrs |->
           Max({pendingState[a]} \cup {t.nonce : t \in Of(pending, a)})]
    /\ pc' = "checkQueue"
    /\ UNCHANGED <<chainVars, eventVars, pending, queue, minGasPrice, stopped,
                   batch>>

GetTransactions ==
    /\ pc = "idle"
    /\ pc' = "getCheck"
    /\ UNCHANGED <<chainVars, eventVars, poolVars, minGasPrice, stopped, batch>>

(* RemoveTransactions: no nonce is given back, not even that of a transaction
   that no block has included.                                             *)
RemoveTransactions(S) ==
    /\ pc = "idle"
    /\ forked' = (forked \/ \E t \in S \cap pending : ~Stale(t))
    /\ pending' = pending \ S
    /\ queue' = queue \ S
    /\ UNCHANGED <<accounts, stateNonce, balance, gasLimit, moves, eventVars, pendingState,
                   minGasPrice, stopped, pc, batch>>

(* Stop does not take the lock.  Closing quit a second time panics, so it is
   called once; Unsubscribe withdraws the posts that wait for the pool.    *)
Stop ==
    /\ ~stopped
    /\ stopped' = TRUE
    /\ heads' = 0 /\ prices' = {}
    /\ UNCHANGED <<chainVars, poolVars, minGasPrice, pc, batch>>

-----------------------------------------------------------------------------
(* The environment: a new head changes one account and the gas limit, and
   its ChainHeadEvent starts on its way.  A fork may take nonces back and
   even the account.                                                       *)
NewHead(a) ==
    /\ moves < MaxMoves
    /\ moves' = moves + 1
    /\ heads' = IF stopped THEN heads ELSE heads + 1
    /\ \E n \in 0..MaxNonce, b \in Balances, exists \in BOOLEAN :
          /\ forked' = (forked \/ n < stateNonce[a])
          /\ exists \/ (n = 0 /\ b = 0)
          /\ stateNonce' = [stateNonce EXCEPT ![a] = n]
          /\ balance' = [balance EXCEPT ![a] = b]
          /\ accounts' = IF exists THEN accounts \cup {a} ELSE accounts \ {a}
    /\ gasLimit' \in GasLimits
    /\ UNCHANGED <<prices, poolVars, minGasPrice, stopped, pc, batch>>

PostGasPrice(p) ==
    /\ ~stopped
    /\ prices' = prices \cup {p}
    /\ UNCHANGED <<chainVars, heads, poolVars, minGasPrice, stopped, pc, batch>>

-----------------------------------------------------------------------------
Batches == UNION {[1..n -> Txs] : n \in 0..MaxBatch}

PoolStep == AddNext \/ RunCheckQueue \/ ValidatePool \/ ResetNonces

EventLoop == HandleHead \/ \E p \in Prices : HandleGasPrice(p)

Caller ==
    \/ \E t \in Txs : Add(t)
    \/ \E txs \in Batches : AddTransactions(txs)
    \/ GetTransactions
    \/ \E S \in SUBSET Txs : RemoveTransactions(S)
    \/ Stop

Environment ==
    \/ \E a \in Addrs : NewHead(a)
    \/ \E p \in Prices : PostGasPrice(p)

Next == PoolStep \/ EventLoop \/ Caller \/ Environment

Spec == Init /\ [][Next]_vars

(* The goroutine that holds pool.mu keeps running, and eventLoop, blocked on
   pool.mu, gets it in the end: Go's mutexes are starvation free.          *)
FairSpec == Spec /\ WF_vars(PoolStep) /\ SF_vars(HandleHead)

-----------------------------------------------------------------------------
(* Safety. *)

(* A transaction is never pending and queued at once: add refuses what is
   pending and checkQueue deletes what it promotes.                        *)
Disjoint == pending \cap queue = {}

(* Whenever the lock is free no sender has more than maxQueued transactions
   queued, however many were added, promoted or skipped on the way.        *)
QueueBounded ==
    pc = "idle" => \A a \in Addrs : Cardinality(Of(queue, a)) <= MaxQueued

(* Once the running pool has handled every head event, its nonces have caught
   up with the chain: no pending transaction has been included already and
   pendingState hands out no used nonce, even if the chain moved in the
   middle of resetState.                                                   *)
CaughtUp ==
    (pc = "idle" /\ heads = 0 /\ ~stopped) =>
        /\ \A a \in Addrs : pendingState[a] >= stateNonce[a]
        /\ \A t \in pending : ~Stale(t)

(* As long as the chain has only grown, and callers have removed no pending
   transaction that is still valid, the pending transactions of a sender can
   be executed in a row: below each one, every nonce from the account's on is
   pending as well.                                                        *)
NoGap ==
    ~forked => \A t \in pending : \A n \in stateNonce[t.from]..(t.nonce - 1) :
                   \E u \in pending : u.from = t.from /\ u.nonce = n

(* A transaction leaves the pool only because it is out of date, because
   RemoveTransactions names it, or because its sender has too many of them
   queued; a pending one is never pushed out by the limit.                 *)
NoSilentLoss ==
    [][\A t \in (pending \cup queue) \ (pending' \cup queue') :
          \/ Stale(t)
          \/ \E S \in SUBSET Txs : t \in S /\ RemoveTransactions(S)
          \/ t \in queue /\ Cardinality(Of(queue, t.from)) > MaxQueued]_vars

(* A pass of checkQueue leaves nothing queued that the nonce it started from
   allows: what stays behind needs a nonce beyond it.                      *)
PassPromotes ==
    [][RunCheckQueue => \A t \in queue' : t.nonce > pendingState[t.from]]_vars

(* Liveness: pending transactions that the chain has included do not stay.
   Unless the pool is stopped it is free of them again and again, however
   often callers take the lock before the head event is handled.           *)
StaleEvicted == []<>(stopped \/ \A t \in pending : ~Stale(t))
=============================================================================
