------------------------- MODULE ManagedStateProofs -------------------------
(* Proofs about the nonce manager, for any set of addresses and any bounds. *)
EXTENDS ManagedState, TLAPS

(* The account getAccount returns is well formed, and it is not behind the
   state.                                                                  *)
LEMMA AccountType ==
    ASSUME TypeOK, NEW a \in Addrs
    PROVE  /\ StartOf(a) \in 0..MaxNonce /\ NoncesOf(a) \in Seq({TRUE})
           /\ Len(NoncesOf(a)) \in Nat /\ Len(NoncesOf(a)) <= MaxAhead
           /\ StartOf(a) + Len(NoncesOf(a)) >= stateNonce[a]
           /\ a \in managed =>
                 StartOf(a) + Len(NoncesOf(a)) >= nstart[a] + Len(nonces[a])
<1>1. nonces[a] \in Seq({TRUE}) /\ Len(nonces[a]) \in Nat /\ Len(nonces[a]) <= MaxAhead
  BY DEF TypeOK
<1>2. stateNonce[a] \in 0..MaxNonce /\ nstart[a] \in 0..MaxNonce
  BY DEF TypeOK
<1>3. Len(<<>>) = 0 /\ <<>> \in Seq({TRUE})
  OBVIOUS
<1> QED
  BY <1>1, <1>2, <1>3, ManagedStateAssumption DEF StartOf, NoncesOf, Renewed

(* The elements of a sequence over S are in S. *)
LEMMA ElementOfSeq ==
    ASSUME NEW S, NEW s \in Seq(S), NEW i \in 1..Len(s)
    PROVE  s[i] \in S
OBVIOUS

(* A prefix of a sequence over S is one, of the length asked for. *)
LEMMA PrefixOfSeq ==
    ASSUME NEW S, NEW s \in Seq(S), NEW k \in 0..Len(s)
    PROVE  SubSeq(s, 1, k) \in Seq(S) /\ Len(SubSeq(s, 1, k)) = k
OBVIOUS

(* No slot of the slice is free, so NewNonce always extends it. *)
LEMMA NoHoles ==
    ASSUME NEW ns \in Seq({TRUE})
    PROVE  {i \in 1..Len(ns) : ~ns[i]} = {}
<1>1. \A i \in 1..Len(ns) : ns[i] \in {TRUE}
  BY ElementOfSeq, Zenon
<1>2. \A i \in 1..Len(ns) : ns[i]
  BY <1>1, Zenon
<1> QED
  BY <1>2, Zenon

(* The strengthening: the nonces handed out lie below the tracked one. *)
IInv == TypeOK /\ OutstandingTracked /\ FreshNonce /\ NeverBehind

(* Tracking the account further keeps the variables in their types and the
   other accounts as they are.                                             *)
LEMMA TrackType ==
    ASSUME TypeOK, NEW a \in Addrs, NEW start \in 0..MaxNonce, NEW ns \in Seq({TRUE}),
           Len(ns) <= MaxAhead, Track(a, start, ns)
    PROVE  /\ managed' \subseteq Addrs /\ a \in managed'
           /\ nstart' \in [Addrs -> 0..MaxNonce] /\ nstart'[a] = start
           /\ nonces' \in [Addrs -> Seq({TRUE})] /\ nonces'[a] = ns
           /\ \A b \in Addrs : Len(nonces'[b]) <= MaxAhead
           /\ \A b \in Addrs \ {a} : /\ nstart'[b] = nstart[b] /\ nonces'[b] = nonces[b]
                                     /\ b \in managed' <=> b \in managed
BY DEF Track, TypeOK

(* What a step needs to show about the outstanding nonces. *)
LEMMA TrackOutstanding ==
    ASSUME IInv, NEW a \in Addrs, NEW start \in 0..MaxNonce, NEW ns \in Seq({TRUE}),
           Len(ns) <= MaxAhead, Track(a, start, ns),
           NEW out \in SUBSET NonceRange, \A n \in out : n < start + Len(ns),
           outstanding' = [outstanding EXCEPT ![a] = out]
    PROVE  OutstandingTracked' /\ outstanding' \in [Addrs -> SUBSET NonceRange]
<1>1. outstanding \in [Addrs -> SUBSET NonceRange]
  BY DEF IInv, TypeOK
<1>2. OutstandingTracked'
  <2> SUFFICES ASSUME NEW b \in Addrs, NEW n \in outstanding'[b]
               PROVE  b \in managed' /\ n < nstart'[b] + Len(nonces'[b])
    BY DEF OutstandingTracked
  <2>1. CASE b = a
    BY <1>1, <2>1, TrackType DEF IInv
  <2>2. CASE b # a
    BY <1>1, <2>2, TrackType DEF IInv, OutstandingTracked
  <2> QED
    BY <2>1, <2>2
<1> QED
  BY <1>1, <1>2

(* NewNonce hands out the tracked nonce and moves it on by one. *)
LEMMA NewNonceEffect ==
    ASSUME TypeOK, NEW a \in Addrs, NewNonce(a)
    PROVE  LET n == StartOf(a) + Len(NoncesOf(a))
           IN  /\ Len(NoncesOf(a)) < MaxAhead
               /\ Track(a, StartOf(a), Append(NoncesOf(a), TRUE))
               /\ answer' = [op |-> "new", nonce |-> n, state |-> stateNonce[a],
                             fresh |-> n \notin outstanding[a]]
               /\ outstanding' = [outstanding EXCEPT ![a] = @ \cup {n}]
               /\ UNCHANGED stateNonce
<1>1. {i \in 1..Len(NoncesOf(a)) : ~NoncesOf(a)[i]} = {}
  BY AccountType, NoHoles
<1> QED
  BY <1>1, Zenon DEF NewNonce

(* The unsigned offset of RemoveNonce: it is small only if it did not wrap. *)
LEMMA ModSmall ==
    ASSUME NEW n \in 0..MaxNonce, NEW start \in 0..MaxNonce, NEW len \in Nat,
           len <= MaxAhead
    PROVE  LET offset == (n - start) % Word
           IN  /\ offset \in Nat
               /\ offset <= len => n = start + offset
<1>1. Word \in Nat /\ Word > 2 * MaxNonce + 2 * MaxAhead /\ MaxNonce \in Nat /\ MaxAhead \in Nat
  BY ManagedStateAssumption
<1>2. CASE n >= start
  <2>1. n - start \in 0..(Word - 1)
    BY <1>1, <1>2
  <2>2. (n - start) % Word = n - start
    BY <1>1, <2>1
  <2> QED
    BY <1>2, <2>2
<1>3. CASE n < start
  <2>1. n - start + Word \in 0..(Word - 1) /\ n - start + Word > MaxAhead
    BY <1>1, <1>3
  <2>2. (n - start) % Word = n - start + Word
    BY <1>1, <2>1
  <2> QED
    BY <1>1, <2>1, <2>2
<1> QED
  BY <1>2, <1>3

(* IInv is inductive: the types, the freshness of what NewNonce hands out and
   its distance from the state rest on where the outstanding nonces lie.   *)
THEOREM NoncesSafe == Spec => []IInv
<1>1. Init => IInv
  <2> SUFFICES ASSUME Init PROVE IInv
    OBVIOUS
  <2>1. \A a \in Addrs : nonces[a] = <<>> /\ Len(nonces[a]) = 0 /\ outstanding[a] = {}
    BY DEF Init
  <2>2. nonces \in [Addrs -> Seq({TRUE})] /\ nstart \in [Addrs -> 0..MaxNonce]
    BY ManagedStateAssumption DEF Init
  <2>3. answer.fresh = TRUE /\ answer.nonce = 0 /\ answer.state = 0
    BY DEF Init
  <2>4. answer \in [op: {"none", "new", "get"}, nonce: NonceRange, state: 0..MaxNonce,
                    fresh: BOOLEAN]
    BY ManagedStateAssumption DEF Init, NonceRange
  <2> QED
    BY <2>1, <2>2, <2>3, <2>4, ManagedStateAssumption
       DEF Init, IInv, TypeOK, OutstandingTracked, FreshNonce, NeverBehind
<1>2. IInv /\ [Next]_vars => IInv'
  <2> SUFFICES ASSUME IInv, [Next]_vars PROVE IInv'
    OBVIOUS
  <2>0. TypeOK /\ OutstandingTracked /\ FreshNonce /\ NeverBehind
    BY DEF IInv
  <2>1. ASSUME NEW a \in Addrs, NewNonce(a) PROVE IInv'
    <3> DEFINE ns == Append(NoncesOf(a), TRUE)
               n  == StartOf(a) + Len(NoncesOf(a))
    <3>1. /\ Track(a, StartOf(a), ns) /\ UNCHANGED stateNonce
          /\ answer' = [op |-> "new", nonce |-> n, state |-> stateNonce[a],
                        fresh |-> n \notin outstanding[a]]
          /\ outstanding' = [outstanding EXCEPT ![a] = outstanding[a] \cup {n}]
          /\ Len(NoncesOf(a)) < MaxAhead
      BY <2>0, <2>1, NewNonceEffect
    <3>2. /\ ns \in Seq({TRUE}) /\ Len(ns) = Len(NoncesOf(a)) + 1 /\ Len(ns) <= MaxAhead
          /\ StartOf(a) \in 0..MaxNonce
      BY <2>0, <3>1, AccountType, ManagedStateAssumption
    <3>3. \A m \in outstanding[a] : m < n
      <4>1. \A m \in outstanding[a] : m \in NonceRange
        BY <2>0 DEF TypeOK
      <4>2. nstart[a] \in Nat /\ Len(nonces[a]) \in Nat
        BY <2>0 DEF TypeOK
      <4> QED
        BY <2>0, <4>1, <4>2, AccountType DEF OutstandingTracked, NonceRange
    <3>4. n \in NonceRange /\ n \in Nat /\ n < StartOf(a) + Len(ns) /\ n >= stateNonce[a]
      BY <2>0, <3>1, <3>2, AccountType, ManagedStateAssumption DEF NonceRange
    <3>5. OutstandingTracked' /\ outstanding' \in [Addrs -> SUBSET NonceRange]
      <4>1. outstanding[a] \cup {n} \in SUBSET NonceRange
        BY <2>0, <3>4 DEF TypeOK
      <4>2. \A m \in outstanding[a] \cup {n} : m < StartOf(a) + Len(ns)
        BY <3>2, <3>3, <3>4, <4>1 DEF NonceRange
      <4> HIDE DEF ns, n
      <4> QED
        BY <3>1, <3>2, <4>1, <4>2, TrackOutstanding
    <3>6. n \notin outstanding[a]
      BY <3>3, <3>4
    <3>7. FreshNonce' /\ NeverBehind'
      <4>1. answer'.fresh = (n \notin outstanding[a]) /\ answer'.nonce = n
            /\ answer'.state = stateNonce[a]
        BY <3>1, Zenon
      <4> QED
        BY <3>4, <3>6, <4>1 DEF FreshNonce, NeverBehind
    <3>8. answer' \in [op: {"none", "new", "get"}, nonce: NonceRange, state: 0..MaxNonce,
                       fresh: BOOLEAN]
      BY <2>0, <3>1, <3>4 DEF TypeOK
    <3>9. TypeOK'
      <4> HIDE DEF ns, n
      <4> QED
        BY <2>0, <3>1, <3>2, <3>5, <3>8, TrackType DEF TypeOK
    <3> QED
      BY <3>5, <3>7, <3>9 DEF IInv
  <2>2. ASSUME NEW a \in Addrs, GetNonce(a) PROVE IInv'
    <3>1. CASE a \in managed
      <4>1. /\ Track(a, StartOf(a), NoncesOf(a)) /\ UNCHANGED <<stateNonce, outstanding>>
            /\ answer' = [op |-> "get", nonce |-> StartOf(a) + Len(NoncesOf(a)),
                          state |-> stateNonce[a], fresh |-> TRUE]
        BY <2>2, <3>1 DEF GetNonce
      <4>2. outstanding[a] \in SUBSET NonceRange
            /\ outstanding' = [outstanding EXCEPT ![a] = outstanding[a]]
        BY <2>0, <4>1 DEF TypeOK
      <4>3. nstart[a] \in Nat /\ Len(nonces[a]) \in Nat
        BY <2>0 DEF TypeOK
      <4>4. \A m \in outstanding[a] : m < StartOf(a) + Len(NoncesOf(a))
        BY <2>0, <3>1, <4>2, <4>3, AccountType DEF OutstandingTracked, NonceRange
      <4>5. OutstandingTracked' /\ outstanding' \in [Addrs -> SUBSET NonceRange]
        BY <2>0, <4>1, <4>2, <4>4, AccountType, TrackOutstanding
      <4>6. StartOf(a) + Len(NoncesOf(a)) \in NonceRange
        BY <2>0, AccountType, ManagedStateAssumption DEF NonceRange
      <4>7. answer' \in [op: {"none", "new", "get"}, nonce: NonceRange, state: 0..MaxNonce,
                         fresh: BOOLEAN]
        BY <2>0, <4>1, <4>6 DEF TypeOK
      <4>8. FreshNonce' /\ NeverBehind'
        BY <2>0, <4>1, AccountType DEF FreshNonce, NeverBehind
      <4>9. TypeOK'
        BY <2>0, <4>1, <4>5, <4>7, AccountType, TrackType DEF TypeOK
      <4> QED
        BY <4>5, <4>8, <4>9 DEF IInv
    <3>2. CASE a \notin managed
      <4>1. answer' = [op |-> "get", nonce |-> stateNonce[a], state |-> stateNonce[a],
                       fresh |-> TRUE]
            /\ UNCHANGED <<stateNonce, managed, nstart, nonces, outstanding>>
        BY <2>2, <3>2 DEF GetNonce
      <4>2. stateNonce[a] \in 0..MaxNonce /\ stateNonce[a] \in NonceRange
        BY <2>0, ManagedStateAssumption DEF TypeOK, NonceRange
      <4> QED
        BY <2>0, <4>1, <4>2
           DEF IInv, TypeOK, OutstandingTracked, FreshNonce, NeverBehind
    <3> QED
      BY <3>1, <3>2
  <2>3. ASSUME NEW a \in Addrs, NEW n \in 0..MaxNonce, SetNonce(a, n) PROVE IInv'
    <3>1. /\ Track(a, n, <<>>) /\ UNCHANGED answer
          /\ stateNonce' = [stateNonce EXCEPT ![a] = n]
          /\ outstanding' = [outstanding EXCEPT ![a] = {m \in outstanding[a] : m < n}]
      BY <2>3 DEF SetNonce
    <3>2. <<>> \in Seq({TRUE}) /\ Len(<<>>) = 0 /\ Len(<<>>) <= MaxAhead
      BY ManagedStateAssumption
    <3>3. {m \in outstanding[a] : m < n} \in SUBSET NonceRange
      BY <2>0 DEF TypeOK
    <3>4. OutstandingTracked' /\ outstanding' \in [Addrs -> SUBSET NonceRange]
      <4>1. \A m \in {k \in outstanding[a] : k < n} : m < n + Len(<<>>)
        BY <3>2
      <4> QED
        BY <3>1, <3>2, <3>3, <4>1, TrackOutstanding
    <3>5. TypeOK'
      BY <2>0, <3>1, <3>2, <3>4, TrackType DEF TypeOK
    <3> QED
      BY <2>0, <3>1, <3>4, <3>5 DEF IInv, FreshNonce, NeverBehind
  <2>4. ASSUME NEW a \in Addrs, NEW n \in 0..MaxNonce, RemoveNonce(a, n) PROVE IInv'
    <3> DEFINE offset == (n - StartOf(a)) % Word
               ns     == IF offset <= Len(NoncesOf(a)) THEN SubSeq(NoncesOf(a), 1, offset)
                         ELSE NoncesOf(a)
               out    == IF offset <= Len(NoncesOf(a)) THEN {m \in outstanding[a] : m < n}
                         ELSE outstanding[a]
    <3>1. /\ a \in managed /\ Track(a, StartOf(a), ns)
          /\ outstanding' = [outstanding EXCEPT ![a] = out]
          /\ UNCHANGED <<stateNonce, answer>>
      BY <2>4, Zenon DEF RemoveNonce
    <3>2. /\ StartOf(a) \in 0..MaxNonce /\ NoncesOf(a) \in Seq({TRUE})
          /\ Len(NoncesOf(a)) \in Nat /\ Len(NoncesOf(a)) <= MaxAhead
      BY <2>0, AccountType
    <3>3. offset \in Nat /\ (offset <= Len(NoncesOf(a)) => n = StartOf(a) + offset)
      BY <3>2, ModSmall
    <3> HIDE DEF offset
    <3>4. ns \in Seq({TRUE}) /\ Len(ns) <= MaxAhead
      <4>1. CASE offset <= Len(NoncesOf(a))
        <5>1. offset \in 0..Len(NoncesOf(a))
          BY <3>2, <3>3, <4>1
        <5>2. /\ SubSeq(NoncesOf(a), 1, offset) \in Seq({TRUE})
              /\ Len(SubSeq(NoncesOf(a), 1, offset)) = offset
          BY <3>2, <5>1, PrefixOfSeq, Zenon
        <5>3. ns = SubSeq(NoncesOf(a), 1, offset)
          BY <4>1, Zenon
        <5>4. ns \in Seq({TRUE}) /\ Len(ns) = offset
          BY <5>2, <5>3, Zenon
        <5>5. offset <= MaxAhead
          BY <3>2, <5>1, ManagedStateAssumption
        <5> QED
          BY <5>4, <5>5, Zenon
      <4> QED
        BY <3>2, <4>1
    <3>5. out \in SUBSET NonceRange
      BY <2>0 DEF TypeOK
    <3>6. nstart[a] \in Nat /\ Len(nonces[a]) \in Nat
      BY <2>0 DEF TypeOK
    <3>7. \A m \in out : m < StartOf(a) + Len(ns)
      <4>1. CASE offset <= Len(NoncesOf(a))
        <5>1. offset \in 0..Len(NoncesOf(a))
          BY <3>2, <3>3, <4>1
        <5>2. Len(SubSeq(NoncesOf(a), 1, offset)) = offset
          BY <3>2, <5>1, PrefixOfSeq, Zenon
        <5> QED
          BY <3>3, <4>1, <5>2
      <4>2. CASE ~(offset <= Len(NoncesOf(a)))
        BY <2>0, <3>1, <3>2, <3>5, <3>6, <4>2, AccountType DEF OutstandingTracked, NonceRange
      <4> QED
        BY <4>1, <4>2
    <3> HIDE DEF ns, out
    <3>8. OutstandingTracked' /\ outstanding' \in [Addrs -> SUBSET NonceRange]
      BY <3>1, <3>2, <3>4, <3>5, <3>7, TrackOutstanding
    <3>9. TypeOK'
      BY <2>0, <3>1, <3>2, <3>4, <3>8, TrackType DEF TypeOK
    <3> QED
      BY <2>0, <3>1, <3>8, <3>9 DEF IInv, FreshNonce, NeverBehind
  <2>5. CASE SetState
    BY <2>0, <2>5 DEF SetState, IInv, TypeOK, OutstandingTracked, FreshNonce, NeverBehind
  <2>6. CASE UNCHANGED vars
    BY <2>0, <2>6 DEF vars, IInv, TypeOK, OutstandingTracked, FreshNonce, NeverBehind
  <2> QED
    BY <2>1, <2>2, <2>3, <2>4, <2>5, <2>6 DEF Next
<1> QED
  BY <1>1, <1>2, PTL DEF Spec

(* NewNonce never hands out a nonce twice, unless it was given back. *)
THEOREM FreshNonceHolds == Spec => []FreshNonce
BY NoncesSafe, PTL DEF IInv

(* No call returns a nonce behind the state's. *)
THEOREM NeverBehindHolds == Spec => []NeverBehind
BY NoncesSafe, PTL DEF IInv
=============================================================================
