--------------------------- MODULE AccountService ---------------------------
(***************************************************************************)
(* The account calls of the KanBanDatabase service (handler, service and   *)
(* frame): SetAccountData and GetAccountData, on the state of accounts that *)
(* every call shares (StateDB), on the trie that holds it and on the two   *)
(* databases it is kept in.                                                *)
(*                                                                         *)
(* A trie is the function from addresses to accounts that it stores, and    *)
(* stands for its own root hash too: different tries have different        *)
(* hashes.  A set of tries stands for the nodes of all of them.            *)
(***************************************************************************)
EXTENDS Integers, FiniteSets

CONSTANTS
    Addrs,        \* addresses
    Accounts,     \* what an account can be set to: balance, nonce and code
    Callers,      \* requests that the server handles at a time
    None,         \* no account
    Starts,       \* how a process may start: TRUE if it calls frame.Init first, as
                  \* main does, FALSE if the first call opens the databases, as in
                  \* the tests
    Crashes,      \* whether the process can crash and start again
    Failures      \* whether a write to a disk can fail

ASSUME ServiceAssumption ==
    /\ Addrs # {} /\ None \notin Accounts
    /\ Starts \subseteq BOOLEAN
    /\ Crashes \in BOOLEAN /\ Failures \in BOOLEAN

VARIABLES
    trie,          \* the trie of runState
    stateObjects,  \* the accounts runState has read, or None
    batch,         \* the tries whose nodes are in the batch of the trie's cache
    stateDB,       \* the tries whose nodes are in the state database
    blockDB,       \* whether frame has a handle on the block database
    root,          \* the root that is in the block database
    pc,            \* where each caller is
    request,       \* what it has been asked to set
    hash,          \* the root it has computed
    answer,        \* history: the last answer of GetAccountData, and what
                   \* the trie had at that moment
    overlap,       \* history: calls of SetAccountData have overlapped since
                   \* one last began while there was no other
    found,         \* history: the process has found the root it started
                   \* with, or has written one since
    unsaved,       \* history: the last Commit could not write
    begun,         \* history: the root the process started with
    recent         \* history: the tries made by calls since one last began
                   \* while there was no other, and the root that was there
                   \* before if one of them could not write its own

storeVars  == <<batch, stateDB>>
callVars   == <<pc, request, hash>>
histVars   == <<overlap, found, unsaved, begun, recent>>
vars       == <<trie, stateObjects, storeVars, blockDB, root, callVars, answer, histVars>>

Tries == [Addrs -> Accounts \cup {None}]
Empty == [a \in Addrs |-> None]

TypeOK ==
    /\ trie \in Tries
    /\ stateObjects \in Tries
    /\ batch \subseteq Tries /\ stateDB \subseteq Tries
    /\ blockDB \in BOOLEAN
    /\ root \in Tries
    /\ pc \in [Callers -> {"idle", "commit", "update", "hash", "root"}]
    /\ request \in [Callers -> [addr: Addrs, account: Accounts \cup {None}]]
    /\ hash \in [Callers -> Tries]
    /\ answer \in [given: Accounts \cup {None}, current: Accounts \cup {None}]
    /\ overlap \in BOOLEAN /\ found \in BOOLEAN /\ unsaved \in BOOLEAN
    /\ begun \in Tries /\ recent \subseteq Tries

NoRequest == [addr |-> CHOOSE a \in Addrs : TRUE, account |-> None]

-----------------------------------------------------------------------------
(* Opening a database fails while an open one holds its lock. *)
Opens(held) == ~held

(* frame: initState opens the block database to read the root; frame.Init then
   calls initBlock, which opens it again and keeps the result.             *)
HandleAtStart(throughInit) == IF throughInit THEN Opens(TRUE) ELSE Opens(FALSE)

(* A trie that is opened by its root is empty if the root is not found. *)
OpenTrie(r) == IF r \in stateDB THEN r ELSE Empty

Init ==
    /\ trie = Empty /\ stateObjects = Empty
    /\ batch = {} /\ stateDB = {}
    /\ \E throughInit \in Starts : blockDB = HandleAtStart(throughInit)
    /\ root = Empty
    /\ pc = [c \in Callers |-> "idle"]
    /\ request = [c \in Callers |-> NoRequest]
    /\ hash = [c \in Callers |-> Empty]
    /\ answer = [given |-> None, current |-> None]
    /\ overlap = FALSE /\ found = TRUE /\ unsaved = FALSE
    /\ begun = Empty /\ recent = {Empty}

Idle == \A c \in Callers : pc[c] = "idle"

(* SetAccountData is called with an account for an address, ... *)
SetAccountData(c, a, account) ==
    /\ pc[c] = "idle"
    /\ request' = [request EXCEPT ![c] = [addr |-> a, account |-> account]]
    /\ pc' = [pc EXCEPT ![c] = "commit"]
    /\ overlap' = ~Idle
    /\ recent' = IF Idle THEN {} ELSE recent
    /\ UNCHANGED <<trie, stateObjects, storeVars, blockDB, root, hash, answer, found, unsaved,
                   begun>>

(* Mutant: the batch is not written. *)
CommitUnflushed(c) ==
    /\ pc[c] = "commit"
    /\ batch' = batch \cup {trie}
    /\ unsaved' = FALSE
    /\ pc' = [pc EXCEPT ![c] = "update"]
    /\ UNCHANGED <<trie, stateObjects, stateDB, blockDB, root, request, hash, answer, overlap,
                   found, begun, recent>>

(* ... commits the trie, which writes the whole batch to the database; if that
   fails the batch is still there for the next Commit, and the call goes on, ... *)
Commit(c) ==
    /\ pc[c] = "commit"
    /\ batch' = batch \cup {trie}
    /\ \/ stateDB' = stateDB \cup batch' /\ unsaved' = FALSE
       \/ Failures /\ stateDB' = stateDB /\ unsaved' = TRUE
    /\ pc' = [pc EXCEPT ![c] = "update"]
    /\ UNCHANGED <<trie, stateObjects, blockDB, root, request, hash, answer, overlap, found,
                   begun, recent>>

(* ... then changes the trie (the code it puts in the queue of the database is
   left out), ...                                                          *)
UpdateStateObject(c) ==
    /\ pc[c] = "update"
    /\ trie' = [trie EXCEPT ![request[c].addr] = request[c].account]
    /\ recent' = recent \cup {trie'}
    /\ pc' = [pc EXCEPT ![c] = "hash"]
    /\ UNCHANGED <<stateObjects, storeVars, blockDB, root, request, hash, answer, overlap,
                   found, unsaved, begun>>

(* Mutant: the hash of the last revision. *)
HashStale(c) ==
    /\ pc[c] = "hash"
    /\ hash' = [hash EXCEPT ![c] = root]
    /\ batch' = batch \cup {trie}
    /\ pc' = [pc EXCEPT ![c] = "root"]
    /\ UNCHANGED <<trie, stateObjects, stateDB, blockDB, root, request, answer, histVars>>

(* ... hashes it, which leaves its nodes in the batch, ... *)
Hash(c) ==
    /\ pc[c] = "hash"
    /\ hash' = [hash EXCEPT ![c] = trie]
    /\ batch' = batch \cup {trie}
    /\ pc' = [pc EXCEPT ![c] = "root"]
    /\ UNCHANGED <<trie, stateObjects, stateDB, blockDB, root, request, answer, histVars>>

(* ... and writes the hash as the root, if frame has its database or can open
   it and the flush of that database succeeds.  The answer is a success in
   any case.                                                               *)
PutRoot(c) ==
    /\ pc[c] = "root"
    /\ \/ /\ root' = IF blockDB \/ Opens(TRUE) THEN hash[c] ELSE root
          /\ UNCHANGED recent
       \/ /\ Failures /\ root' = root
          /\ recent' = recent \cup {root}
    /\ pc' = [pc EXCEPT ![c] = "idle"]
    /\ request' = [request EXCEPT ![c] = NoRequest]
    /\ hash' = [hash EXCEPT ![c] = Empty]
    /\ found' = (found \/ root' = hash[c])
    /\ UNCHANGED <<trie, stateObjects, storeVars, blockDB, answer, overlap, unsaved, begun>>

(* GetAccountData: an account that has been read before is not read again. *)
GetAccountData(a) ==
    /\ LET account == IF stateObjects[a] # None THEN stateObjects[a] ELSE trie[a]
       IN  /\ stateObjects' = [stateObjects EXCEPT ![a] = account]
           /\ answer' = [given |-> account, current |-> trie[a]]
    /\ UNCHANGED <<trie, storeVars, blockDB, root, callVars, histVars>>

(* The process dies and starts again on what the databases have. *)
Crash ==
    /\ Crashes
    /\ trie' = OpenTrie(root) /\ stateObjects' = Empty
    /\ batch' = {}
    /\ \E throughInit \in Starts : blockDB' = HandleAtStart(throughInit)
    /\ pc' = [c \in Callers |-> "idle"]
    /\ request' = [c \in Callers |-> NoRequest]
    /\ hash' = [c \in Callers |-> Empty]
    /\ answer' = [given |-> None, current |-> None]
    /\ overlap' = FALSE /\ found' = (root \in stateDB \cup {Empty})
    /\ unsaved' = FALSE /\ begun' = root /\ recent' = {root}
    /\ UNCHANGED <<stateDB, root>>

Next ==
    \/ \E c \in Callers :
          \/ \E a \in Addrs, account \in Accounts : SetAccountData(c, a, account)
          \/ Commit(c) \/ UpdateStateObject(c) \/ Hash(c) \/ PutRoot(c)
    \/ \E a \in Addrs : GetAccountData(a)
    \/ Crash

Spec == Init /\ [][Next]_vars

-----------------------------------------------------------------------------
(* Whatever calls run at once, and wherever processes crashed before: when no
   call is running, the root in the block database is that of the trie as one
   of the calls made it that have run since the server was last idle, so the
   last one's if it ran alone, unless the disk refused a root.  A process that
   main started has no handle on the block database and leaves the root it
   found: PutRoot's error is dropped.                                      *)
RootRecent == Idle => IF blockDB THEN root \in recent ELSE root = begun

(* While a call of SetAccountData that runs alone changes the trie, the state
   that the root in the block database stands for is complete on disk, unless
   it was lost before or the call's own Commit could not write: it is at risk
   only between two calls.                                                 *)
RootKeptWhileChanging ==
    \A c \in Callers :
        pc[c] \in {"update", "hash", "root"} /\ ~overlap => root \in stateDB \/ ~found \/ unsaved

(* A process that starts again between two calls finds the accounts that have
   been set: the test sets one, syncs the trie and writes its root for this
   (service/statedb_test.go:22-24).                                        *)
RestartFindsState == [][Crash /\ Idle => trie' = trie]_vars

(* GetAccountData gives the account as it was set last. *)
ReadsLatest == answer.given = answer.current
=============================================================================
