# A verification of HCTxPool

TLA+ models of the KBD node (`src/`), TLC runs that check them on small
instances, and TLAPS proofs for all instances. `PROJECT.json` holds the exact
correspondence between definitions and source lines, the runs, the mutants (a
plausible bug for every property, which TLC must notice), the hazards and the
theorems.

## The system

The program is an old go-ethereum cut down to a database service. What runs is
`main.go`: it opens the databases (`frame`) and serves four calls
(`handler.go`, `handler`, `service`) that read and write raw data and accounts.
Accounts live in a state database (`model/state`) on a Merkle trie
(`model/trie`), which is stored in LevelDB behind a write queue (`model/kdb`)
and a run-length compression (`compression/rle`). The rest is the chain side:
a transaction pool (`model/kbpool`), managed nonces (`model/state/manage.go`),
a chain manager (`chain_manager`), state transitions on a virtual machine
(`execution`, `model/vm`), an account manager with timed unlocking
(`model/accounts`), log filters (`model/event/filter`, `filter`) and an event
multiplexer that connects them (`model/event`). Signatures of transactions are
made and recovered by a C library, libsecp256k1, that `crypto/secp256k1`
compiles into the program; it is the larger part of the code.

Goroutines meet in five places: the lock of the pool, the locks and channels of
the multiplexer, the lock and the event loop of the chain manager, the queue
and the quit channel of the database, and the state that all requests share.
Crashes matter where something is stored: the database, the chain manager on
top of it, and the account calls.

The library is sequential. What is hard about it is arithmetic whose special
cases no test meets by chance (one in 2^128 and rarer), and contracts between
its functions, on the magnitudes of field elements above all, that only a
debugging build tests. Its layers are field elements and scalars made of limbs,
points of the curve, three multiplications of a point by a scalar, and on top
of them keys, signatures, recovery and their encodings.

## Modules

| module | models | state and steps |
|---|---|---|
| `TxPool` | `model/kbpool/kbpool.go` | pending and queued transactions, pending nonces; an operation holds the lock and is cut into steps where it reads the chain's state again, because the chain moves without the lock |
| `ManagedState` | `model/state/manage.go` | tracked nonces of each account over those of the state; a method is a step, and its unsigned subtraction wraps around |
| `TypeMux` | `model/event/event.go` | subscriptions, their three locks and their channel; a step is what runs between two points where a goroutine can block |
| `RLE` | `compression/rle` | `Compress` and `Decompress` as functions, bytes and their wrap-around included |
| `KVStore` | — | what the database promises: a map that is seen and a map that survives |
| `LDBDatabase` | `model/kdb/database.go` | queue, LevelDB, the goroutine of `update` and the callers of `Close`; compression is a parameter, given by `RLE` in `MCLDBDatabase` |
| `ChainManager` | `chain_manager/manager.go`, `chain_util.go` | the block database as `KVStore` promises it, the head, kept blocks, one running `InsertChain`, the event loop; `WriteBlock` takes a list of blocks to insert (those of `merge` and its own), and every write of an insert is a step (`at` says which is next) |
| `FieldRep`, `Field10x26`, `Field5x52` | `field_10x26_impl.h`, `field_5x52_impl.h`, `field_5x52_int128_impl.h` | limbs in words that wrap: normalisations, sums, conversions; the two products |
| `FieldCalls` | callers of these | an element, its magnitude and the residue it should be |
| `ScalarRep`, `ScalarCalls` | `scalar_8x32_impl.h`, `scalar_4x64_impl.h` | limbs of a scalar and its double-length product; a caller of them |
| `AdditionChains` | `field_impl.h`, `scalar_impl.h` | inverse and root as sequences of squarings and products, on exponents of 256 bits |
| `Field`, `Scalar` | the same files seen from above | an element is a residue with a magnitude and a flag for being canonical |
| `Group` | `group_impl.h` | points, function by function, on top of `Field` |
| `Ecmult`, `EcmultConst`, `EcmultGen` | the files of these names | the multiplications with their tables, digits and blinding |
| `Curve` | — | the group as mathematics: the multiples of the generator in a table |
| `CurveCalls` | callers of `Group` and the multiplications | a point, the multiple of the generator it should be, the signing context |
| `Ecdsa` | `ecdsa_impl.h`, `eckey_impl.h`, `secp256k1.c`, `modules/recovery`, `ext.h`, `secp256.go` | keys, signatures, recovery and their encodings as functions |
| `EcdsaCalls` | callers of `Ecdsa` | a key pair, a signature, the attempts of the signing loop |
| `Der` | `ecdsa_impl.h` | parser and serializer of signatures |
| `Hash` | `hash_impl.h` | the buffer and the contexts of SHA-256 and HMAC |
| `AccountService` | `service/statedb.go`, `frame/db.go`, and what they call in `model/state` and `model/trie` | the shared trie, cached accounts, the batch of the trie's cache, both databases, calls in progress |

`MC*` modules give the constants small values; `MCPrimitives` puts seven
modules without common state side by side, one per behaviour. `*Proofs` modules hold the
theorems. Definitions whose comment begins with "Mutant" are deliberate bugs;
no specification uses them.

How the data is abstracted:

* A transaction is a record of what `validateTx` looks at. Its hash is an
  identifier, and a sender that cannot be recovered is the address "invalid".
* A block is a model value with a parent, a number, a difficulty and the
  distance of its time from now. Sets say which blocks have a bad nonce
  (`BadNonce`), are in the list of bad hashes (`BadHashes`) or are refused by
  `Process` for any other reason, now or when their time has come (`Invalid`).
  The number of a block is one above that of its parent: `Process`, which is
  not in the repository, checks this, and `diff` relies on it when it walks
  down two chains to the same number.
* Of the LRU cache of blocks, `cached` has those that a failed flush took from
  the database after they had been read; any of the blocks read may be there.
* A trie is the function from addresses to accounts that it stores, and stands
  for its own hash: hashing is taken to be injective.
* LevelDB is a map whose batch writes are atomic and may fail. A second open of
  the same directory fails while the first one is held.
* `LDBDatabase` makes no assumption on which keys are put and which are written
  by batches: `PutData` takes any key, so a client can put a value under the
  key of a trie node. `KVStore` says what the store promises then: the batch is
  hidden by the value that waits. Nor is compression taken to be invertible.
  The instance has a value that `Decompress` does not give back.
* The code of an account is left out of `AccountService`: it is a Put to the
  state database, and what becomes of it is in `LDBDatabase`.
* Callers of `Subscribe` give no type twice. For one given twice it panics,
  before it has changed anything (event.go:54).
* The library's words are scaled down for TLC's 32-bit integers. Kept are the
  order of the operations, the number of limbs (4 of 10 and 6 of 8 in the
  32-bit files, all 5 and 4 in the others), spare bits above a limb, a prime
  just below and an order further below a power of 2, and that the largest sum
  the contracts allow just fits its word. The two representations of an element
  have the same functions, so `FieldRep` and `ScalarRep` are one text with two
  sets of constants, and both are checked. In `PROJECT.json` they point to the
  32-bit files; `Field` and `Scalar`, the view from above, point to the 64-bit
  ones.
* The curve is y^2 = x^3 + b over a small prime, with prime order and an
  endomorphism as in secp256k1: 199 points over 211 elements in `curve`. In
  `ecdsa` it has 13 points over 19 elements, so that coordinates beyond the
  order, products that vanish and encodings out of range are common and not
  one in 2^128.
* A 32-byte string is the number it encodes, which may exceed order and prime.
  The nonce of each attempt to sign may be any such number. A block that
  SHA-256 compresses is remembered and not mixed.
* `Ecdsa` uses the multiplications by their contract, with a result scaled by a
  z other than 1. `CurveCalls` checks that contract.
* Every recovery id from 0 to 3 occurs in `Ecdsa`. `Sign` is documented to give
  a V of 0 or 1 (secp256.go:68) and `ecdsa_impl.h:288` asserts, in a debugging
  build, that the x coordinate is below the order; for the rare x beyond it the
  code gives 2 or 3, and so does the model.

History variables (marked in the modules) record what a property has to
remember and influence nothing.

## Runs

| run | instance | what it shows |
|---|---|---|
| `txpool` | one sender, two transactions for each of two nonces and one without a valid sender, limit 1, batches of 2, a chain that moves twice and may go back | the queue keeps its limit (`QueueBounded`), after all head events the pool is not behind the chain even if the chain moved during `resetState` (`CaughtUp`), on a chain that only grew there is no gap below a pending transaction (`NoGap`), transactions leave for three reasons only (`NoSilentLoss`), again and again nothing is pending that the chain has included (`StaleEvicted`) |
| `primitives` | field elements around 0, the prime and the largest limbs, two calls in a row; scalars around 0, the order, its half and powers of 2; the three chains at full size; messages up to 14 bytes in blocks of 6; well and badly formed DER, with lengths of one byte and of two; inputs of up to four pieces for RLE; two accounts with nonces to 2 | limbs stand for the right residue and nothing wraps (`FieldSound`, `ScalarSound`), chains reach their exponent (`ChainsReachExponent`), cutting a message does not change its HMAC (`HmacOfMessage`), exactly DER is parsed (`DerExact`), `Decompress` undoes `Compress` exactly when no run has 251 to 253 zeros (`RoundTrip`), no nonce is outstanding twice or below the state's (`FreshNonce`, `NeverBehind`) |
| `mux_delivery` | two types, two subscriptions, one poster of two events, two callers of `Unsubscribe`, `Stop` | delivery in order, once, of the right types, and nothing is missed |
| `mux_close` | two posters at once | after closing nothing is received; `Unsubscribe` and `Stop` return even if nobody receives, `Post` returns if receivers go on; a panic needs a subscription to a stopped mux |
| `database` | two keys, each put, written by batches and deleted, two values of which compression damages one, failing writes, two callers of `Close` | `LDBDatabase` implements `KVStore`; a single `Close` returns and has flushed everything |
| `chain` | two branches, an early block on one and on the other an early block that `Process` refuses later, `Stop` | after each block the head is the heaviest and the index leads to its ancestors; announced heads get lighter only in the middle of a reorganisation; each head is announced, and each early block inserted unless a refused one is in its way |
| `chain_crash` | two branches of two blocks, a bad nonce, a bad hash, checkpoints every second insert, flush and crash between any two writes, one flush that fails | unless a flush has failed, the head's ancestors are stored and the two chains can always be joined |
| `accounts` | one address, two values, two requests at a time, crashes, failing writes; each process starts through `frame.Init`, as `main` does, or with its first call, as in the tests | when no call is running, the root is that of a trie one of the last calls made, or the root found at the start if the handle was lost (`RootRecent`); the old state is complete on disk while a call that runs alone changes the trie (`RootKeptWhileChanging`) |
| `curve` | all multiples of one point by all scalars, two calls in a row, two renewed blindings | the point held is the multiple that the calls add up to (`GroupLaw`), the blinding cancels (`BlindingCancels`), every result may be multiplied again (`MagnitudeSafe`), comparisons answer for the point and not for its representation (`TestsAgree`) |
| `ecdsa` | all keys, up to two derivations, a failed attempt before the last one, foreign keys and signatures of all forms | both halves of a key change and fail together (`KeysMatch`), a signature verifies and recovers its key (`SignedVerifies`), verification and recovery accept what the textbook does (`VerifyExact`, `RecoverExact`) |
| `accounts_restart` | as started by `main` | *violated*: a restart loses the accounts |
| `accounts_read` | as started by `main` | *violated*: a second read gives an outdated account |

The bounds are the smallest with which each case of the code occurs: two
transactions with one nonce for a replacement, a limit that one batch exceeds,
two chain moves for one in the middle of `resetState` after another; two posts
of one poster for order, two posters for two readers of one lock; runs of zeros
that add up to every length from 250 to 256 and beyond; two branches that
overtake each other in both directions; two requests that can overtake each
other. In the chain runs `Chains` are the single blocks, and in `chain` also
the two branches as a whole; `MaxPosting` bounds the queues of events that wait
when a chain is offered (two, so that one can overtake the other), and
`MaxFailures` the flushes that fail (one: nothing is claimed after the first). A second call in `primitives` and `curve` starts from each result of a
first one, unnormalised and of the largest magnitude, which is where the
special cases are. One failed attempt is enough to see that nothing of it gets
into the signature. TLC reports that every action of every module is taken.

`TypeMux` has no deadlock check, since its bounded posters may all be done, and
neither has `chain`, in which the manager can die. `primitives`, `curve` and
`ecdsa` stop at their bounds on calls.

### Fairness

* `TxPool`: the holder of the lock goes on (weak), and the event loop gets the
  lock in the end (strong; Go's mutexes do not starve a waiter).
* `TypeMux`: a goroutine that is not blocked goes on (weak). Nobody has to call
  anything; that receivers receive is a premise of `PostTerminates` alone.
* `LDBDatabase`: the goroutine and the callers of `Close` go on (weak).
* `ChainManager`: a running `InsertChain` and the handling of events go on and
  time passes (weak), and `procFutureBlocks` goes on once it has begun; the select of the event loop takes each ready case again
  and again, and the loop gets `chainmu` (strong: Go's select chooses at
  random, mutexes do not starve).

## Findings

Two properties state what the tests and comments promise and are violated:

* `RestartFindsState` — `frame.Init` opens the block database twice. The second
  open fails on LevelDB's lock and its nil result replaces the good handle, so
  a process started by `main` never writes a root.
* `ReadsLatest` — `UpdateStateObject` changes the trie but not the cached
  account that `GetStateObject` returns first.

Other differences from comments that came up while modelling are part of the
properties' wording, so that what holds is stated exactly: `checkQueue`
promotes one nonce of a run per pass (`PassPromotes`); a late subscription can
panic (`PanicsOnlyIfLate`); two calls of `Close` can answer each other
(`CloseFlushes`); runs of 251 to 253 zeros are corrupted (`RoundTrip`);
`procFutureBlocks` can panic on a block that came or went while it was reading,
and a kept block that `Process` refuses stays for ever and ends each pass there
(`KeptBlocksInserted`); a failed flush takes blocks away that the head stands
on (`ChainStored`); an error in `InsertChain` drops the events of earlier
blocks (`HeadAnnounced`); a root is written before its nodes
(`RootKeptWhileChanging`), and is useless if the process dies before the next
call; requests that overlap can leave the root of the earlier one
(`RootRecent`). `Stop` can return while a subscription that `Unsubscribe` has
just removed still receives, against event.go:85: `QuietAfterClose` speaks of
subscriptions whose own closing has returned.

The library's properties all hold.

## Proofs

The proofs need only the named assumptions on the constants, which TLC
evaluates in the runs.

* `TxPoolProofs` (from `TxPoolAssumption`: finitely many transactions, a
  positive limit). Type correctness is inductive and gives what the others
  need: finiteness of the queue and ranges of nonces. `Disjoint` and
  `QueueBounded` are proved with it; the latter is strengthened to the moment
  between the two steps of `GetTransactions` (`BoundAfterPass`) and needs a
  lemma on the cardinality of what `checkQueue` keeps. `CaughtUp` is
  strengthened to `CaughtUpAlways`, which also holds while an operation runs:
  while no head event waits, only a pending transaction can be behind the
  chain, and only from the start of `resetState` to its `validatePool`.
  `NoGap` is not inductive either. Its strengthening `Rows` also says that the
  pending nonce is never beyond the end of a sender's row, so promotion at or
  below it extends the row without a gap. The action properties follow from
  the types, action by action.
* `ManagedStateProofs`. `IInv` adds to the two properties that whatever is
  outstanding lies below the next tracked nonce; without it a nonce that was
  taken back and handed out again could meet one still outstanding.
* `LDBDatabaseProofs` (from `LDBAssumption`, which only keeps values apart from
  "no entry"). `Refinement` shows that each step of the database is a step of
  `KVStore` or leaves it unchanged, for any keys of Puts and batches and
  whatever compression does to a value; it needs the types, to tell an entry of
  the queue from none. `CloseFlushes` needs how far `update` is when a single
  call of `Close` has come so far (`Handshake`), that what waits in the queue
  is what was put last, and that nothing put before the final flush is in the
  queue after it (`Flushed`).
* `TypeMuxProofs` (from `TypeMuxAssumption`; any types, subscriptions and posters).
  `Inv` says that no slice of subscriptions, and no slice a running `Post` has
  read, holds one twice, which needs lemmas on `del` and its removal by
  position. `Locks` is about `closewait`: one closer at a time is past its test
  of `closed`, and whoever finds the subscription closed and `closeMu` free
  finds the channel cleared. So no channel is closed twice
  (`PanicsOnlyIfLate`), and nothing arrives once a call that closes has
  returned (`QuietAfterClose`). `Deliveries` says that no receiver has an event
  that its `Post` has still to deliver to it, and gives `InOrder` and
  `NoMissed`.
* `ChainManagerProofs` (from `ChainAssumption`; any tree of blocks, also an
  infinite one). `Chain` and `Td` are recursive functions, so their equations
  have to be proved first: numbers go down along a chain, and recursion and
  induction along it follow from the least element of a set of numbers. Lemmas
  say that numbers tell the blocks of one chain apart, that `diff` returns
  exactly the blocks of the new chain that are not on the old one, and that a
  set of blocks closed under parents contains the chain of each of its members.
  `Inv` holds through any flush and crash: until a flush fails, what is stored,
  in memory and on disk, is closed under parents, and only a stored block or
  the one in work is the head. `ChainStored` and `Joinable` follow. Without crashes `Weights`
  follows the total difficulty through `merge`, which changes the head several
  times before and after it sets `td`, and gives `Heaviest` and `HeadsGrow`;
  `Indexed` says that each block of the new chain is in the index or still to
  be inserted, and gives `IndexMatches`, whichever end `merge` begins at. With
  crashes these three do not hold: a flush can fall between two Puts of an
  insert, and a restart can go back to a checkpoint.
* `AccountServiceProofs` (from `ServiceAssumption`; any addresses, accounts and
  callers). `RootInv` adds to `RootKeptWhileChanging` that what a call running
  alone has hashed is the trie (`Solo`), and that the nodes of a root computed
  or found are in the batch of the trie's cache or on disk (`Kept`).
  `RootRecent` is proved for every way to start, for calls that overlap and
  writes that fail; its strengthening says that what a running call has hashed
  is one of the recent tries.

Type invariants, `Disjoint` and `PassPromotes` are proved and in no run.

The rest is model-checked only. Liveness (`StaleEvicted`, `CloseTerminates`,
`PostTerminates`, `CloseReturnsInTheEnd`, `HeadAnnounced`,
`KeptBlocksInserted`) is out of the prover's reach. `RLE` and `Der` have
recursive definitions, and the limb code of the library computes by loops over
the digits of a number: what they compute for every input takes induction over
data. The group law and what rests on it (`GroupLaw`, `BlindingCancels`,
`TestsAgree`, `EcdsaCalls`) take the algebra of a curve over a field.

## Not modelled

Reasons for each part are in `PROJECT.json`.

* In the library: contexts, their allocation and callbacks; clearing of
  secrets; the compression function of SHA-256 and the generator of nonces of
  RFC 6979, whose outputs may be anything here; that a function is constant
  time. Assembler, GMP, ECDH, tests and benchmarks are not compiled by
  `secp256.go`.
* Without state or out of reach: encryption and SHA-3, reflection, generated
  code, configuration, metrics, the instructions of the virtual machine.
* Within the modelled parts: `SetHead` and `Reset` of a running chain, limits of
  the block caches, the details of the parallel nonce check, the nodes of the
  trie, `GetTransaction` without the lock, and the data race of `GetNonce`,
  which writes a Go map under a read lock.
* The chain manager posts `chain_manager.ChainHeadEvent` while the pool
  subscribes to `event.ChainHeadEvent`. `TxPool` takes head events to arrive;
  with the types as they are they do not.
* The account manager, in which a timeout can zero a key that `Sign` has just
  looked up.
