------------------------ MODULE AccountServiceProofs ------------------------
(* What the account calls leave in the databases, for any addresses, accounts
   and number of requests at a time.                                       *)
EXTENDS AccountService, TLAPS

LEMMA NoRequestType == NoRequest \in [addr: Addrs, account: Accounts \cup {None}]
BY ServiceAssumption DEF NoRequest

LEMMA OpenTrieType ==
    ASSUME TypeOK
    PROVE  Empty \in Tries /\ OpenTrie(root) \in Tries
BY DEF TypeOK, Empty, Tries, OpenTrie

LEMMA HandleType == \A throughInit : HandleAtStart(throughInit) \in BOOLEAN
BY Zenon DEF HandleAtStart, Opens

(* Types, and that a running call has been asked to set an account. *)
Inv == TypeOK /\ \A c \in Callers : pc[c] # "idle" => request[c].account \in Accounts

(* Every variable keeps its type. *)
THEOREM TypeCorrect == Spec => []Inv
<1>1. Init => Inv
  <2> SUFFICES ASSUME Init PROVE Inv
    OBVIOUS
  <2>1. Empty \in Tries
    BY DEF Empty, Tries
  <2> QED
    BY <2>1, NoRequestType, HandleType DEF Init, Inv, TypeOK
<1>2. Inv /\ [Next]_vars => Inv'
  <2> SUFFICES ASSUME Inv, [Next]_vars PROVE Inv'
    OBVIOUS
  <2> USE DEF Inv, TypeOK, storeVars, callVars, histVars
  <2>1. ASSUME NEW c \in Callers, NEW a \in Addrs, NEW account \in Accounts,
               SetAccountData(c, a, account)
        PROVE  Inv'
    BY <2>1 DEF SetAccountData, Idle
  <2>2. ASSUME NEW c \in Callers, Commit(c) PROVE Inv'
    BY <2>2 DEF Commit
  <2>3. ASSUME NEW c \in Callers, UpdateStateObject(c) PROVE Inv'
    BY <2>3 DEF UpdateStateObject, Tries
  <2>4. ASSUME NEW c \in Callers, Hash(c) PROVE Inv'
    BY <2>4 DEF Hash
  <2>5. ASSUME NEW c \in Callers, PutRoot(c) PROVE Inv'
    <3>0. /\ root' = hash[c] \/ root' = root
          /\ recent' = recent \/ recent' = recent \cup {root}
      BY <2>5, Zenon DEF PutRoot
    <3>1. root' \in Tries /\ recent' \subseteq Tries
      BY <3>0
    <3>2. found' = (found \/ root' = hash[c])
      BY <2>5 DEF PutRoot
    <3>3. found' \in BOOLEAN
      BY <3>2, Zenon
    <3> QED
      BY <2>5, <3>1, <3>3, NoRequestType, OpenTrieType DEF PutRoot
  <2>6. ASSUME NEW a \in Addrs, GetAccountData(a) PROVE Inv'
    BY <2>6 DEF GetAccountData, Tries
  <2>7. CASE Crash
    <3>0. found' = (root \in stateDB \cup {Empty})
      BY <2>7 DEF Crash
    <3>1. found' = TRUE \/ found' = FALSE
      BY <3>0
    <3>2. blockDB' \in BOOLEAN
      BY <2>7, HandleType DEF Crash
    <3> QED
      BY <2>7, <3>1, <3>2, NoRequestType, OpenTrieType DEF Crash
  <2>8. CASE UNCHANGED vars
    BY <2>8 DEF vars
  <2> QED
    BY <2>1, <2>2, <2>3, <2>4, <2>5, <2>6, <2>7, <2>8 DEF Next
<1> QED
  BY <1>1, <1>2, PTL DEF Spec

-----------------------------------------------------------------------------
(* A call that runs alone is the only one: what it has hashed is the trie. *)
Solo ==
    ~overlap =>
        /\ \A c, d \in Callers : pc[c] # "idle" /\ pc[d] # "idle" => c = d
        /\ \A c \in Callers : pc[c] = "root" => hash[c] = trie

(* The nodes of a root that has been computed or found are in the batch of the
   trie's cache or on disk, except that the trie the process started with is
   written by the first Commit, before anybody changes the trie.           *)
Kept ==
    /\ \A c \in Callers : pc[c] = "root" => hash[c] \in batch \cup stateDB
    /\ found => \/ root \in batch \cup stateDB
                \/ root = trie /\ \A c \in Callers : pc[c] \in {"idle", "commit"}

RootInv == Solo /\ Kept /\ RootKeptWhileChanging

LEMMA RootInvHolds == Spec => []RootInv
<1>1. Init => RootInv
  BY DEF Init, RootInv, Solo, Kept, RootKeptWhileChanging
<1>2. Inv /\ RootInv /\ [Next]_vars => RootInv'
  <2> SUFFICES ASSUME Inv, RootInv, [Next]_vars PROVE RootInv'
    OBVIOUS
  <2> USE DEF Inv, TypeOK, storeVars, callVars, histVars, RootInv, Solo, Kept,
              RootKeptWhileChanging
  <2>1. ASSUME NEW c \in Callers, NEW a \in Addrs, NEW account \in Accounts,
               SetAccountData(c, a, account)
        PROVE  RootInv'
    <3>1. pc[c] = "idle" /\ pc' = [pc EXCEPT ![c] = "commit"] /\ overlap' = ~Idle
          /\ UNCHANGED <<trie, batch, stateDB, root, hash, found, unsaved>>
      BY <2>1 DEF SetAccountData
    <3>2. overlap' => ~Idle
      BY <3>1, Zenon
    <3>3. ~overlap' => Idle
      BY <3>1, Zenon
    <3> QED
      BY <3>1, <3>2, <3>3 DEF Idle
  <2>2. ASSUME NEW c \in Callers, Commit(c) PROVE RootInv'
    BY <2>2 DEF Commit
  <2>3. ASSUME NEW c \in Callers, UpdateStateObject(c) PROVE RootInv'
    BY <2>3 DEF UpdateStateObject
  <2>4. ASSUME NEW c \in Callers, Hash(c) PROVE RootInv'
    BY <2>4 DEF Hash
  <2>5. ASSUME NEW c \in Callers, PutRoot(c) PROVE RootInv'
    <3>1. /\ pc[c] = "root" /\ pc' = [pc EXCEPT ![c] = "idle"]
          /\ hash' = [hash EXCEPT ![c] = Empty]
          /\ root' = (IF blockDB \/ Opens(TRUE) THEN hash[c] ELSE root) \/ root' = root
          /\ found' = (found \/ root' = hash[c])
          /\ UNCHANGED <<trie, batch, stateDB, overlap, unsaved>>
      BY <2>5 DEF PutRoot
    <3>2. root' = hash[c] \/ root' = root
      BY <3>1, Zenon
    <3>3. found' => found \/ root' = hash[c]
      BY <3>1, Zenon
    <3>4. hash[c] \in batch \cup stateDB
      BY <3>1
    <3>5. Solo'
      BY <3>1
    <3>6. Kept'
      <4>1. \A d \in Callers : pc'[d] = "root" => hash'[d] \in batch' \cup stateDB'
        BY <3>1
      <4>2. found' => root' \in batch' \cup stateDB'
                        \/ (found /\ root' = root)
        BY <3>1, <3>2, <3>3, <3>4
      <4>3. (\A d \in Callers : pc[d] \in {"idle", "commit"}) =>
               \A d \in Callers : pc'[d] \in {"idle", "commit"}
        BY <3>1
      <4> QED
        BY <3>1, <4>1, <4>2, <4>3
    <3>7. RootKeptWhileChanging'
      BY <3>1
    <3> QED
      BY <3>5, <3>6, <3>7
  <2>6. ASSUME NEW a \in Addrs, GetAccountData(a) PROVE RootInv'
    BY <2>6 DEF GetAccountData
  <2>7. CASE Crash
    BY <2>7 DEF Crash, OpenTrie
  <2>8. CASE UNCHANGED vars
    BY <2>8 DEF vars
  <2> QED
    BY <2>1, <2>2, <2>3, <2>4, <2>5, <2>6, <2>7, <2>8 DEF Next
<1> QED
  BY <1>1, <1>2, TypeCorrect, PTL DEF Spec

(* While a call that runs alone changes the trie, the old state is complete on
   disk: its Commit has written the nodes of whatever root there was.      *)
THEOREM RootKeptHolds == Spec => []RootKeptWhileChanging
<1>1. RootInv => RootKeptWhileChanging
  BY DEF RootInv
<1> QED
  BY <1>1, RootInvHolds, PTL

(* What a call has hashed was made by a call that began, like it, since the
   server was last idle; without a handle the root has not been written.   *)
Recent ==
    /\ \A c \in Callers : pc[c] \in {"hash", "root"} => trie \in recent
    /\ \A c \in Callers : pc[c] = "root" => hash[c] \in recent
    /\ ~blockDB => root = begun
    /\ Idle => root \in recent \/ ~blockDB

(* When no call is running, the root in the block database is that of the trie
   as a call made it that has run since the server was last idle, or, without
   a handle on the database, the one the process started with; for any number
   of calls at once, any crashes, and both ways to start.                  *)
THEOREM RootRecentHolds == Spec => []RootRecent
<1>1. Init => Recent
  BY DEF Init, Recent
<1>2. Inv /\ Recent /\ [Next]_vars => Recent'
  <2> SUFFICES ASSUME Inv, Recent, [Next]_vars PROVE Recent'
    OBVIOUS
  <2>0. /\ pc \in [Callers -> {"idle", "commit", "update", "hash", "root"}]
        /\ hash \in [Callers -> Tries] /\ blockDB \in BOOLEAN
    BY DEF Inv, TypeOK
  <2>1. ASSUME NEW c \in Callers, NEW a \in Addrs, NEW account \in Accounts,
               SetAccountData(c, a, account)
        PROVE  Recent'
    <3>1. /\ pc[c] = "idle" /\ pc' = [pc EXCEPT ![c] = "commit"]
          /\ recent' = IF Idle THEN {} ELSE recent
          /\ UNCHANGED <<trie, hash, blockDB, root, begun>>
      BY <2>1 DEF SetAccountData
    <3>2. ~Idle' /\ \A d \in Callers : pc'[d] \in {"hash", "root"} => pc'[d] = pc[d] /\ ~Idle
      BY <2>0, <3>1 DEF Idle
    <3> QED
      BY <3>1, <3>2 DEF Recent
  <2>2. ASSUME NEW c \in Callers, Commit(c) PROVE Recent'
    BY <2>0, <2>2 DEF Commit, Recent, Idle
  <2>3. ASSUME NEW c \in Callers, UpdateStateObject(c) PROVE Recent'
    BY <2>0, <2>3 DEF UpdateStateObject, Recent, Idle, storeVars
  <2>4. ASSUME NEW c \in Callers, Hash(c) PROVE Recent'
    BY <2>0, <2>4 DEF Hash, Recent, Idle, histVars
  <2>5. ASSUME NEW c \in Callers, PutRoot(c) PROVE Recent'
    <3>1. /\ pc[c] = "root" /\ pc' = [pc EXCEPT ![c] = "idle"]
          /\ hash' = [hash EXCEPT ![c] = Empty] /\ UNCHANGED <<trie, blockDB, begun>>
      BY <2>5 DEF PutRoot
    <3>2. recent \subseteq recent' /\ (root' \in recent' \/ ~blockDB) /\ (~blockDB => root' = root)
      BY <2>5, <3>1 DEF PutRoot, Recent, Opens
    <3> QED
      BY <2>0, <3>1, <3>2 DEF Recent
  <2>6. ASSUME UNCHANGED <<trie, root, blockDB, pc, hash, begun, recent>> PROVE Recent'
    BY <2>6 DEF Recent, Idle
  <2>7. CASE Crash
    <3>1. /\ pc' = [c \in Callers |-> "idle"] /\ root' = root /\ begun' = root
          /\ recent' = {root}
      BY <2>7 DEF Crash
    <3> QED
      BY <3>1 DEF Recent
  <2> QED
    BY <2>1, <2>2, <2>3, <2>4, <2>5, <2>6, <2>7 DEF Next, GetAccountData, vars, callVars,
       histVars
<1>3. Recent => RootRecent
  BY DEF Recent, RootRecent
<1> QED
  BY <1>1, <1>2, <1>3, TypeCorrect, PTL DEF Spec
=============================================================================
