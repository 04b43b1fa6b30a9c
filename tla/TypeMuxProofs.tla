--------------------------- MODULE TypeMuxProofs ---------------------------
(* Proofs about the event multiplexer, for any number of goroutines, types,
   subscriptions and events.                                               *)
EXTENDS TypeMux, SequenceTheorems, TLAPS

-----------------------------------------------------------------------------
(* A slice has no subscription twice. *)
NoDup(q) == \A i, j \in 1..Len(q) : q[i] = q[j] => i = j

(* What posdelete leaves. *)
LEMMA RemoveAtProperties ==
  ASSUME NEW S, NEW q \in Seq(S), NEW n \in 1..Len(q)
  PROVE  /\ RemoveAt(q, n) \in Seq(S)
         /\ Len(RemoveAt(q, n)) = Len(q) - 1
         /\ \A i \in 1..(Len(q) - 1) :
               RemoveAt(q, n)[i] = IF i < n THEN q[i] ELSE q[i + 1]
<1> DEFINE a == SubSeq(q, 1, n - 1)
           b == SubSeq(q, n + 1, Len(q))
<1>1. Len(q) \in Nat /\ \A i \in 1..Len(q) : q[i] \in S
  BY LenProperties, ElementOfSeq
<1>2. /\ a \in Seq(S) /\ Len(a) = n - 1
      /\ \A i \in 1..(n - 1) : a[i] = q[i]
  <2>1. 1 \in Int /\ n - 1 \in Int /\ \A i \in 1..(n - 1) : q[i] \in S
    BY <1>1
  <2>2. a \in Seq(S) /\ Len(a) = IF 1 <= n - 1 THEN (n - 1) - 1 + 1 ELSE 0
    BY <2>1, SubSeqProperties
  <2>3. \A i \in 1..((n - 1) - 1 + 1) : a[i] = q[1 + i - 1]
    BY <2>1, SubSeqProperties
  <2> QED
    BY <2>2, <2>3, <1>1
<1>3. /\ b \in Seq(S) /\ Len(b) = Len(q) - n
      /\ \A i \in 1..(Len(q) - n) : b[i] = q[n + i]
  <2>1. n + 1 \in Int /\ Len(q) \in Int /\ \A i \in (n + 1)..Len(q) : q[i] \in S
    BY <1>1
  <2>2. b \in Seq(S) /\ Len(b) = IF n + 1 <= Len(q) THEN Len(q) - (n + 1) + 1 ELSE 0
    BY <2>1, SubSeqProperties
  <2>3. \A i \in 1..(Len(q) - (n + 1) + 1) : b[i] = q[(n + 1) + i - 1]
    BY <2>1, SubSeqProperties
  <2> QED
    BY <2>2, <2>3, <1>1
<1>4. /\ a \o b \in Seq(S) /\ Len(a \o b) = Len(a) + Len(b)
      /\ \A i \in 1..(Len(a) + Len(b)) :
            (a \o b)[i] = IF i <= Len(a) THEN a[i] ELSE b[i - Len(a)]
  BY <1>2, <1>3, ConcatProperties
<1>5. RemoveAt(q, n) = a \o b
  BY DEF RemoveAt
<1> HIDE DEF a, b
<1>6. RemoveAt(q, n) \in Seq(S) /\ Len(RemoveAt(q, n)) = Len(q) - 1
  BY <1>1, <1>2, <1>3, <1>4, <1>5
<1>7. ASSUME NEW i \in 1..(Len(q) - 1)
      PROVE  RemoveAt(q, n)[i] = IF i < n THEN q[i] ELSE q[i + 1]
  <2>1. Len(a) + Len(b) = Len(q) - 1 /\ Len(a) = n - 1
    BY <1>1, <1>2, <1>3
  <2>2. (a \o b)[i] = IF i <= n - 1 THEN a[i] ELSE b[i - (n - 1)]
    BY <2>1, <1>4
  <2>3. CASE i < n
    <3>1. i <= n - 1 /\ i \in 1..(n - 1)
      BY <1>1, <2>3
    <3> QED
      BY <2>2, <2>3, <3>1, <1>2, <1>5
  <2>4. CASE ~(i < n)
    <3>1. ~(i <= n - 1) /\ i - (n - 1) \in 1..(Len(q) - n) /\ n + (i - (n - 1)) = i + 1
      BY <1>1, <2>4
    <3>2. b[i - (n - 1)] = q[n + (i - (n - 1))]
      BY <3>1, <1>3
    <3> QED
      BY <2>2, <2>4, <3>1, <3>2, <1>5
  <2> QED
    BY <2>3, <2>4
<1> QED
  BY <1>6, <1>7

(* del keeps a slice a slice, adds nothing to it and repeats nothing. *)
LEMMA DelProperties ==
  ASSUME NEW S, NEW q \in Seq(S), NoDup(q), NEW s
  PROVE  /\ del(q, s) \in Seq(S)
         /\ NoDup(del(q, s))
         /\ ToSet(del(q, s)) \subseteq ToSet(q)
<1> DEFINE at == {i \in 1..Len(q) : q[i] = s}
<1>1. CASE at = {}
  BY <1>1 DEF del, find
<1>2. CASE at # {}
  <2>1. PICK n \in 1..Len(q) : q[n] = s
    BY <1>2
  <2>2. at = {n}
    BY <2>1 DEF NoDup
  <2>3. n \in Nat \ {0} /\ Len(q) \in Nat
    BY <2>1, LenProperties
  <2>4. find(q, s) = n
    BY <2>2, <2>3 DEF find
  <2>5. del(q, s) = RemoveAt(q, n)
    BY <2>3, <2>4 DEF del
  <2> DEFINE r == RemoveAt(q, n)
  <2>6. /\ r \in Seq(S) /\ Len(r) = Len(q) - 1
        /\ \A i \in 1..(Len(q) - 1) : r[i] = IF i < n THEN q[i] ELSE q[i + 1]
    BY <2>1, RemoveAtProperties
  <2> HIDE DEF r
  <2>7. NoDup(r)
    BY <2>3, <2>6 DEF NoDup
  <2>8. ToSet(r) \subseteq ToSet(q)
    <3>1. DOMAIN r = 1..Len(r) /\ DOMAIN q = 1..Len(q)
      BY <2>6, LenProperties
    <3> QED
      BY <2>3, <2>6, <3>1 DEF ToSet
  <2> QED
    BY <2>5, <2>6, <2>7, <2>8 DEF r
<1> QED
  BY <1>1, <1>2

(* A slice is its first subscription and the rest. *)
LEMMA TailProperties ==
  ASSUME NEW S, NEW q \in Seq(S), q # <<>>
  PROVE  /\ Head(q) \in S /\ Tail(q) \in Seq(S)
         /\ Head(q) \in ToSet(q)
         /\ ToSet(q) = {Head(q)} \cup ToSet(Tail(q))
         /\ NoDup(q) => NoDup(Tail(q)) /\ Head(q) \notin ToSet(Tail(q))
<1> DEFINE r == Tail(q)
<1>1. /\ Head(q) \in S /\ r \in Seq(S) /\ Len(r) = Len(q) - 1 /\ Head(q) = q[1]
      /\ \A i \in 1..(Len(q) - 1) : r[i] = q[i + 1]
  BY HeadTailProperties
<1>2. Len(q) \in Nat \ {0} /\ DOMAIN q = 1..Len(q) /\ DOMAIN r = 1..Len(r)
  BY <1>1, EmptySeq, LenProperties
<1> HIDE DEF r
<1>3. ToSet(q) = {q[i] : i \in 1..Len(q)} /\ ToSet(r) = {r[i] : i \in 1..(Len(q) - 1)}
  BY <1>1, <1>2 DEF ToSet
<1>4. ToSet(q) = {Head(q)} \cup ToSet(r)
  <2>1. \A i \in 1..Len(q) : i = 1 \/ (i - 1 \in 1..(Len(q) - 1) /\ (i - 1) + 1 = i)
    BY <1>2
  <2>2. \A i \in 1..(Len(q) - 1) : i + 1 \in 1..Len(q)
    BY <1>2
  <2>3. 1 \in 1..Len(q)
    BY <1>2
  <2>4. ASSUME NEW x \in ToSet(q) PROVE x = q[1] \/ x \in ToSet(r)
    <3>1. PICK i \in 1..Len(q) : x = q[i]
      BY <1>3
    <3>2. i # 1 => r[i - 1] = x
      BY <1>1, <2>1, <3>1
    <3> QED
      BY <1>3, <2>1, <3>1, <3>2
  <2>5. \A x \in ToSet(r) : x \in ToSet(q)
    BY <1>1, <1>3, <2>2
  <2> QED
    BY <1>1, <1>3, <2>3, <2>4, <2>5
<1>5. ASSUME NoDup(q) PROVE NoDup(r) /\ Head(q) \notin ToSet(r)
  <2>1. NoDup(r)
    BY <1>1, <1>2, <1>5 DEF NoDup
  <2>2. \A i \in 1..(Len(q) - 1) : r[i] # q[1]
    BY <1>1, <1>2, <1>5 DEF NoDup
  <2> QED
    BY <1>1, <1>3, <2>1, <2>2
<1> QED
  BY <1>1, <1>4, <1>5 DEF r

(* What Subscribe appends. *)
LEMMA AppendSlice ==
  ASSUME NEW S, NEW q \in Seq(S), NEW x \in S
  PROVE  /\ Append(q, x) \in Seq(S)
         /\ ToSet(Append(q, x)) = ToSet(q) \cup {x}
         /\ NoDup(q) /\ x \notin ToSet(q) => NoDup(Append(q, x))
<1> DEFINE r == Append(q, x)
<1>1. /\ r \in Seq(S) /\ Len(r) = Len(q) + 1
      /\ \A i \in 1..Len(q) : r[i] = q[i]
      /\ r[Len(q) + 1] = x
  BY AppendProperties
<1>2. Len(q) \in Nat /\ DOMAIN q = 1..Len(q) /\ DOMAIN r = 1..Len(r)
  BY <1>1, LenProperties
<1> HIDE DEF r
<1>3. ToSet(q) = {q[i] : i \in 1..Len(q)} /\ ToSet(r) = {r[i] : i \in 1..(Len(q) + 1)}
  BY <1>1, <1>2 DEF ToSet
<1>4. ToSet(r) = ToSet(q) \cup {x}
  <2>1. \A i \in 1..(Len(q) + 1) : i \in 1..Len(q) \/ i = Len(q) + 1
    BY <1>2
  <2>2. 1..Len(q) \subseteq 1..(Len(q) + 1) /\ Len(q) + 1 \in 1..(Len(q) + 1)
    BY <1>2
  <2>3. \A y \in ToSet(r) : y \in ToSet(q) \/ y = x
    BY <1>1, <1>3, <2>1
  <2>4. \A y \in ToSet(q) : y \in ToSet(r)
    BY <1>1, <1>3, <2>2
  <2> QED
    BY <1>1, <1>3, <2>2, <2>3, <2>4
<1>5. ASSUME NoDup(q), x \notin ToSet(q) PROVE NoDup(r)
  <2>1. \A i \in 1..Len(q) : q[i] # x
    BY <1>3, <1>5
  <2> QED
    BY <1>1, <1>2, <1>5, <2>1 DEF NoDup
<1> QED
  BY <1>1, <1>4, <1>5 DEF r

LEMMA EmptySlice == NoDup(<<>>) /\ ToSet(<<>>) = {}
<1>1. Len(<<>>) = 0 /\ DOMAIN <<>> = {}
  OBVIOUS
<1> QED
  BY <1>1 DEF NoDup, ToSet

LEMMA SliceElements ==
  ASSUME NEW S, NEW q \in Seq(S)
  PROVE  ToSet(q) \subseteq S
BY LenProperties, ElementOfSeq DEF ToSet

-----------------------------------------------------------------------------
(* The slices of subm, and those that Post has read from it. *)
Slices ==
    /\ \A t \in Types : NoDup(subm[t]) /\ \A s \in ToSet(subm[t]) : t \in made[s]
    /\ \A p \in Posters : todo[p] # <<>> =>
          /\ event[p] \in Events /\ event[p].poster = p /\ event[p].number = posts[p]
          /\ NoDup(todo[p])
          /\ \A s \in ToSet(todo[p]) : event[p].type \in made[s]

(* Only subscriptions that have been made are closed. *)
Targets ==
    /\ \A c \in Closers : phase[c] # "idle" => target[c] \in Subs /\ made[target[c]] # {}
    /\ \A s \in stopping : made[s] # {}

Inv == TypeOK /\ Slices /\ Targets

(* closewait: one closer at a time is past the test of s.closed, nobody has
   cleared the channel before it, and whoever finds the subscription closed
   and closeMu free finds the channel cleared.                             *)
Locks ==
    /\ \A c \in Closers : phase[c] \in {"ask", "finish"} =>
          /\ closeMu[target[c]] = c /\ closed[target[c]]
          /\ postC[target[c]] # "nil"
    /\ \A s \in Subs :
          /\ postC[s] = "nil" => closed[s]
          /\ closed[s] => made[s] # {}
          /\ closed[s] /\ closeMu[s] = NoOne => postC[s] = "nil" \/ panicked
          /\ s \in quiet => postC[s] = "nil" \/ panicked

(* No receiver has an event that is still to be delivered to it. *)
Deliveries ==
    /\ \A s \in Subs : \A i \in 1..Len(received[s]) :
          LET e == received[s][i]
          IN  /\ e.number <= posts[e.poster]
              /\ e.number = posts[e.poster] => s \notin ToSet(todo[e.poster])
    /\ \A p \in Posters, n \in 1..MaxPosts : n > posts[p] => posted[p][n] = {}


-----------------------------------------------------------------------------
(* The variables have their types; slices and targets are of subscriptions
   that have been made.                                                    *)
THEOREM TypeCorrect == Spec => []Inv
<1> USE TypeMuxAssumption DEF Closers
<1>1. Init => Inv
  <2> SUFFICES ASSUME Init PROVE Inv
    OBVIOUS
  <2>1. TypeOK
    <3>1. <<>> \in Seq(Subs) /\ <<>> \in Seq(Events) /\ 0 \in 0..MaxPosts
      BY EmptySeq
    <3> QED
      BY <3>1 DEF Init, TypeOK
  <2>2. Slices /\ Targets
    BY EmptySlice DEF Init, Slices, Targets
  <2> QED
    BY <2>1, <2>2 DEF Inv
<1>2. Inv /\ [Next]_vars => Inv'
  <2> SUFFICES ASSUME Inv, [Next]_vars PROVE Inv'
    OBVIOUS
  <2>0. TypeOK /\ Slices /\ Targets
    BY DEF Inv
  <2>1. ASSUME NEW s \in Subs, NEW T \in SUBSET Types \ {{}}, Subscribe(s, T) PROVE Inv'
    <3>1. made[s] = {} /\ made' = [made EXCEPT ![s] = T]
      BY <2>1 DEF Subscribe
    <3>2. /\ \A x \in Subs : made[x] \subseteq made'[x] /\ (made[x] # {} => made'[x] # {})
          /\ made' \in [Subs -> SUBSET Types] /\ T = made'[s]
      BY <2>0, <3>1 DEF TypeOK
    <3>3. ASSUME NEW t \in Types
          PROVE  /\ subm'[t] \in Seq(Subs) /\ NoDup(subm'[t])
                 /\ \A x \in ToSet(subm'[t]) : t \in made'[x]
      <4>1. /\ subm[t] \in Seq(Subs) /\ NoDup(subm[t]) /\ ToSet(subm[t]) \subseteq Subs
            /\ \A x \in ToSet(subm[t]) : t \in made[x]
        BY <2>0, SliceElements DEF TypeOK, Slices
      <4>2. s \notin ToSet(subm[t])
        BY <4>1, <3>1
      <4>3. subm'[t] = subm[t] \/ (t \in T /\ subm'[t] = Append(subm[t], s))
        BY <2>1, <2>0 DEF Subscribe, TypeOK
      <4>4. /\ Append(subm[t], s) \in Seq(Subs) /\ NoDup(Append(subm[t], s))
            /\ ToSet(Append(subm[t], s)) = ToSet(subm[t]) \cup {s}
        BY <4>1, <4>2, AppendSlice
      <4> QED
        BY <4>1, <4>3, <4>4, <3>2
    <3>4. subm' \in [Types -> Seq(Subs)]
      <4>1. subm' = [t \in Types |-> subm'[t]]
        BY <2>1, <2>0 DEF Subscribe, TypeOK
      <4> QED
        BY <4>1, <3>3
    <3>5. TypeOK'
      BY <2>0, <2>1, <3>2, <3>4 DEF Subscribe, TypeOK, postVars, closeVars
    <3>6. Slices'
      <4>1. \A p \in Posters : ToSet(todo[p]) \subseteq Subs
        BY <2>0, SliceElements DEF TypeOK
      <4>2. UNCHANGED <<todo, event, posts>>
        BY <2>1 DEF Subscribe, postVars
      <4> QED
        BY <2>0, <3>2, <3>3, <4>1, <4>2 DEF Slices
    <3>7. Targets'
      BY <2>0, <2>1, <3>2 DEF Subscribe, Targets, TypeOK, closeVars
    <3> QED
      BY <3>5, <3>6, <3>7 DEF Inv
  <2>2. ASSUME NEW p \in Posters, NEW t \in Types, Post(p, t) PROVE Inv'
    <3> DEFINE n == posts[p] + 1
               e == [type |-> t, poster |-> p, number |-> n]
    <3>1. /\ todo[p] = <<>> /\ posts[p] < MaxPosts
          /\ posts' = [posts EXCEPT ![p] = n] /\ event' = [event EXCEPT ![p] = e]
          /\ \/ /\ todo' = [todo EXCEPT ![p] = subm[t]]
                /\ posted' = [posted EXCEPT ![p][n] = ToSet(subm[t])]
             \/ UNCHANGED <<todo, posted>>
          /\ UNCHANGED <<muxVars, subVars, readers, busy, closeVars, panicked, received, quiet>>
      BY <2>2 DEF Post
    <3>2. n \in 1..MaxPosts /\ n \in 0..MaxPosts
      BY <2>0, <3>1 DEF TypeOK
    <3>3. e \in Events /\ e.type = t /\ e.poster = p /\ e.number = n
      BY <3>2 DEF Events
    <3> HIDE DEF n, e
    <3>4. subm[t] \in Seq(Subs) /\ ToSet(subm[t]) \subseteq Subs
      BY <2>0, SliceElements DEF TypeOK
    <3>5. todo' \in [Posters -> Seq(Subs)] /\ (todo'[p] = <<>> \/ todo'[p] = subm[t])
      BY <2>0, <3>1, <3>4 DEF TypeOK
    <3>6. posted' \in [Posters -> [1..MaxPosts -> SUBSET Subs]]
      <4>1. [posted[p] EXCEPT ![n] = ToSet(subm[t])] \in [1..MaxPosts -> SUBSET Subs]
        BY <2>0, <3>4 DEF TypeOK
      <4>2. [posted EXCEPT ![p][n] = ToSet(subm[t])]
               = [posted EXCEPT ![p] = [posted[p] EXCEPT ![n] = ToSet(subm[t])]]
        OBVIOUS
      <4> QED
        BY <2>0, <3>1, <4>1, <4>2 DEF TypeOK
    <3>7. TypeOK'
      BY <2>0, <3>1, <3>2, <3>3, <3>5, <3>6 DEF TypeOK, muxVars, subVars, closeVars
    <3>8. \A q \in Posters \ {p} :
             todo'[q] = todo[q] /\ event'[q] = event[q] /\ posts'[q] = posts[q]
      BY <2>0, <3>1 DEF TypeOK
    <3>9. event'[p] = e /\ posts'[p] = n
      BY <2>0, <3>1 DEF TypeOK
    <3>10. Slices'
      <4>1. UNCHANGED <<subm, made>>
        BY <3>1 DEF muxVars
      <4>2. NoDup(subm[t]) /\ \A s \in ToSet(subm[t]) : t \in made[s]
        BY <2>0 DEF Slices
      <4>3. \A q \in Posters \ {p} : todo'[q] # <<>> =>
              /\ event'[q] \in Events /\ event'[q].poster = q /\ event'[q].number = posts'[q]
              /\ NoDup(todo'[q])
              /\ \A s \in ToSet(todo'[q]) : event'[q].type \in made'[s]
        BY <2>0, <3>8, <4>1 DEF Slices
      <4>4. todo'[p] # <<>> =>
              /\ event'[p] \in Events /\ event'[p].poster = p /\ event'[p].number = posts'[p]
              /\ NoDup(todo'[p])
              /\ \A s \in ToSet(todo'[p]) : event'[p].type \in made'[s]
        BY <3>3, <3>5, <3>9, <4>1, <4>2
      <4> QED
        BY <2>0, <4>1, <4>3, <4>4 DEF Slices
    <3>11. Targets'
      BY <2>0, <3>1 DEF Targets, closeVars, muxVars
    <3> QED
      BY <3>7, <3>10, <3>11 DEF Inv
  <2>3. ASSUME NEW p \in Posters, todo[p] # <<>>, todo' = [todo EXCEPT ![p] = Tail(@)],
               UNCHANGED <<subm, made, event, posts>>
        PROVE  todo' \in [Posters -> Seq(Subs)] /\ Slices'
    <3>1. todo[p] \in Seq(Subs) /\ todo'[p] = Tail(todo[p])
      BY <2>0, <2>3 DEF TypeOK
    <3>2. /\ Tail(todo[p]) \in Seq(Subs)
          /\ ToSet(Tail(todo[p])) \subseteq ToSet(todo[p])
          /\ NoDup(todo[p]) => NoDup(Tail(todo[p]))
      BY <2>3, <3>1, TailProperties
    <3>3. todo' \in [Posters -> Seq(Subs)]
      BY <2>0, <2>3, <3>2 DEF TypeOK
    <3>4. \A q \in Posters \ {p} : todo'[q] = todo[q]
      BY <2>0, <2>3 DEF TypeOK
    <3>5. /\ event[p] \in Events /\ event[p].poster = p /\ event[p].number = posts[p]
          /\ NoDup(todo[p])
          /\ \A s \in ToSet(todo[p]) : event[p].type \in made[s]
      BY <2>0, <2>3 DEF Slices
    <3> QED
      BY <2>0, <2>3, <3>1, <3>2, <3>3, <3>4, <3>5 DEF Slices
  <2>4. ASSUME UNCHANGED <<subm, made, event, posts, todo>> PROVE Slices'
    BY <2>0, <2>4 DEF Slices
  <2>5. ASSUME NEW p \in Posters, Deliver(p) PROVE Inv'
    <3>1. CASE DeliverLock(p)
      <4>1. TypeOK'
        BY <2>0, <3>1 DEF DeliverLock, TypeOK, muxVars, subVars, postVars, closeVars
      <4>2. Slices' /\ Targets'
        BY <2>0, <2>4, <3>1 DEF DeliverLock, Targets, muxVars, subVars, postVars, closeVars
      <4> QED
        BY <4>1, <4>2 DEF Inv
    <3>2. CASE DeliverSend(p)
      <4> DEFINE s == Head(todo[p])
      <4>1. s \in Subs /\ event[p] \in Events
        BY <2>0, <3>2, TailProperties DEF DeliverSend, TypeOK, Slices
      <4>2. todo' \in [Posters -> Seq(Subs)] /\ Slices'
        BY <2>3, <3>2 DEF DeliverSend, muxVars
      <4>3. received' \in [Subs -> Seq(Events)]
        <5>1. received' = [received EXCEPT ![s] = Append(@, event[p])]
          BY <3>2 DEF DeliverSend
        <5>2. Append(received[s], event[p]) \in Seq(Events)
          BY <2>0, <4>1, AppendProperties DEF TypeOK
        <5> HIDE DEF s
        <5> QED
          BY <2>0, <5>1, <5>2 DEF TypeOK
      <4>4. TypeOK'
        BY <2>0, <3>2, <4>2, <4>3 DEF DeliverSend, TypeOK, muxVars, subVars, closeVars
      <4>5. Targets'
        BY <2>0, <3>2 DEF DeliverSend, Targets, muxVars, closeVars
      <4> QED
        BY <4>2, <4>4, <4>5 DEF Inv
    <3>3. CASE DeliverClosing(p)
      <4>1. todo' \in [Posters -> Seq(Subs)] /\ Slices'
        BY <2>3, <3>3 DEF DeliverClosing, muxVars
      <4>2. TypeOK'
        BY <2>0, <3>3, <4>1 DEF DeliverClosing, TypeOK, muxVars, subVars, closeVars
      <4>3. Targets'
        BY <2>0, <3>3 DEF DeliverClosing, Targets, muxVars, closeVars
      <4> QED
        BY <4>1, <4>2, <4>3 DEF Inv
    <3> QED
      BY <2>5, <3>1, <3>2, <3>3 DEF Deliver
  <2>6. ASSUME NEW s \in Subs, Handle(s) PROVE Inv'
    <3>1. TypeOK'
      BY <2>0, <2>6 DEF Handle, TypeOK, muxVars, subVars, postVars, closeVars
    <3>2. Slices' /\ Targets'
      BY <2>0, <2>4, <2>6 DEF Handle, Targets, muxVars, postVars, closeVars
    <3> QED
      BY <3>1, <3>2 DEF Inv
  <2>7. ASSUME NEW c \in Unsubscribers, NEW s \in Subs, Unsubscribe(c, s) PROVE Inv'
    <3>1. ASSUME NEW t \in Types
          PROVE  /\ subm'[t] \in Seq(Subs) /\ NoDup(subm'[t])
                 /\ \A x \in ToSet(subm'[t]) : t \in made'[x]
      <4>1. subm[t] \in Seq(Subs) /\ NoDup(subm[t]) /\ \A x \in ToSet(subm[t]) : t \in made[x]
        BY <2>0 DEF TypeOK, Slices
      <4>2. subm'[t] = del(subm[t], s) /\ made' = made
        BY <2>7 DEF Unsubscribe
      <4> QED
        BY <4>1, <4>2, DelProperties
    <3>2. subm' \in [Types -> Seq(Subs)]
      <4>1. subm' = [t \in Types |-> subm'[t]]
        BY <2>7 DEF Unsubscribe
      <4> QED
        BY <3>1, <4>1
    <3>3. TypeOK'
      BY <2>0, <2>7, <3>2 DEF Unsubscribe, TypeOK, subVars, postVars
    <3>4. Slices'
      BY <2>0, <2>7, <3>1 DEF Unsubscribe, Slices, postVars
    <3>5. Targets'
      BY <2>0, <2>7 DEF Unsubscribe, Targets, TypeOK
    <3> QED
      BY <3>3, <3>4, <3>5 DEF Inv
  <2>8. ASSUME NEW c \in Closers, Close(c) PROVE Inv'
    <3>1. phase[c] # "idle" /\ target[c] \in Subs /\ made[target[c]] # {}
      BY <2>0, <2>8 DEF Close, CloseStart, CloseAsk, CloseFinish, Targets
    <3>2. Slices'
      BY <2>4, <2>8 DEF Close, CloseStart, CloseAsk, CloseFinish, muxVars, postVars
    <3>3. TypeOK'
      <4>1. CASE CloseStart(c)
        <5>1. /\ closed' = closed \/ closed' = [closed EXCEPT ![target[c]] = TRUE]
              /\ closeMu' = closeMu \/ closeMu' = [closeMu EXCEPT ![target[c]] = c]
              /\ phase' = [phase EXCEPT ![c] = "idle"] \/ phase' = [phase EXCEPT ![c] = "ask"]
              /\ target' = target \/ target' = [target EXCEPT ![c] = NoOne]
              /\ quiet' = quiet \/ quiet' = quiet \cup {target[c]}
              /\ UNCHANGED <<muxVars, postC, writer, readers, busy, postVars, stopping,
                             panicked, received, posted>>
          BY <4>1 DEF CloseStart, CloseReturns
        <5>2. closed' \in [Subs -> BOOLEAN]
          BY <2>0, <5>1 DEF TypeOK
        <5>3. closeMu' \in [Subs -> Closers \cup {NoOne}]
          BY <2>0, <5>1 DEF TypeOK
        <5>4. phase' \in [Closers -> {"idle", "close", "ask", "finish"}]
          BY <2>0, <5>1 DEF TypeOK
        <5>5. target' \in [Closers -> Subs \cup {NoOne}] /\ quiet' \subseteq Subs
          BY <2>0, <3>1, <5>1 DEF TypeOK
        <5> QED
          BY <2>0, <5>1, <5>2, <5>3, <5>4, <5>5 DEF TypeOK, muxVars, postVars
      <4>2. CASE CloseAsk(c)
        BY <2>0, <3>1, <4>2 DEF CloseAsk, TypeOK, muxVars, postVars
      <4>3. CASE CloseFinish(c)
        BY <2>0, <3>1, <4>3 DEF CloseFinish, CloseReturns, TypeOK, muxVars, postVars
      <4> QED
        BY <2>8, <4>1, <4>2, <4>3 DEF Close
    <3>4. Targets'
      <4>1. UNCHANGED <<made, stopping>>
        BY <2>8 DEF Close, CloseStart, CloseAsk, CloseFinish, muxVars
      <4>2. \A d \in Closers \ {c} : phase'[d] = phase[d] /\ target'[d] = target[d]
        BY <2>0, <2>8 DEF Close, CloseStart, CloseAsk, CloseFinish, CloseReturns, TypeOK
      <4>3. phase'[c] = "idle" \/ target'[c] = target[c]
        BY <2>0, <2>8 DEF Close, CloseStart, CloseAsk, CloseFinish, CloseReturns, TypeOK
      <4> QED
        BY <2>0, <3>1, <4>1, <4>2, <4>3 DEF Targets
    <3> QED
      BY <3>2, <3>3, <3>4 DEF Inv
  <2>9. CASE Stop
    <3>1. \A t \in Types : \A s \in ToSet(subm[t]) : s \in Subs /\ made[s] # {}
      BY <2>0, SliceElements DEF TypeOK, Slices
    <3>2. stopping' \subseteq Subs /\ \A s \in stopping' : made[s] # {}
      BY <2>9, <3>1 DEF Stop
    <3>3. TypeOK'
      BY <2>0, <2>9, <3>2 DEF Stop, TypeOK, subVars, postVars
    <3>4. Slices' /\ Targets'
      BY <2>0, <2>4, <2>9, <3>2 DEF Stop, Targets, postVars
    <3> QED
      BY <3>3, <3>4 DEF Inv
  <2>10. ASSUME NEW s \in Subs, StopNext(s) PROVE Inv'
    <3>1. TypeOK'
      BY <2>0, <2>10 DEF StopNext, TypeOK, muxVars, subVars, postVars
    <3>2. Slices'
      BY <2>4, <2>10 DEF StopNext, muxVars, postVars
    <3>3. Targets'
      BY <2>0, <2>10 DEF StopNext, Targets, TypeOK, muxVars
    <3> QED
      BY <3>1, <3>2, <3>3 DEF Inv
  <2>11. CASE StopReturns
    <3>1. TypeOK'
      BY <2>0, <2>11, EmptySeq DEF StopReturns, TypeOK, subVars, postVars, closeVars
    <3>2. Slices'
      BY <2>0, <2>11, EmptySlice DEF StopReturns, Slices, postVars
    <3>3. Targets'
      BY <2>0, <2>11 DEF StopReturns, Targets, closeVars
    <3> QED
      BY <3>1, <3>2, <3>3 DEF Inv
  <2>12. CASE UNCHANGED vars
    BY <2>0, <2>12 DEF vars, muxVars, subVars, postVars, closeVars, Inv, TypeOK, Slices, Targets
  <2> QED
    BY <2>1, <2>2, <2>5, <2>6, <2>7, <2>8, <2>9, <2>10, <2>11, <2>12 DEF Next, FinishStop
<1> QED
  BY <1>1, <1>2, PTL DEF Spec

-----------------------------------------------------------------------------
LEMMA LocksHold == Spec => [](Locks /\ PanicsOnlyIfLate)
<1> USE TypeMuxAssumption
<1> DEFINE IInv == Locks /\ PanicsOnlyIfLate
<1>1. Init => IInv
  BY DEF Init, Locks, PanicsOnlyIfLate
<1>2. Inv /\ IInv /\ [Next]_vars => IInv'
  <2> SUFFICES ASSUME Inv, Locks, PanicsOnlyIfLate, [Next]_vars PROVE Locks' /\ PanicsOnlyIfLate'
    OBVIOUS
  <2>0. TypeOK /\ Targets
    BY DEF Inv
  <2>1. ASSUME UNCHANGED <<closed, postC, closeMu, quiet, made, panicked>>,
               \A c \in Closers : phase'[c] \in {"ask", "finish"} =>
                  phase[c] \in {"ask", "finish"} /\ target'[c] = target[c]
        PROVE  Locks' /\ PanicsOnlyIfLate'
    BY <2>1 DEF Locks, PanicsOnlyIfLate
  <2>2. ASSUME NEW s \in Subs, NEW T \in SUBSET Types \ {{}}, Subscribe(s, T)
        PROVE  Locks' /\ PanicsOnlyIfLate'
    <3>1. /\ ~panicked /\ made[s] = {} /\ made' = [made EXCEPT ![s] = T]
          /\ postC' = postC \/ postC' = [postC EXCEPT ![s] = "closed"]
          /\ UNCHANGED <<closed, closeMu, phase, target, quiet, panicked>>
      BY <2>2 DEF Subscribe, closeVars
    <3>2. \A x \in Subs : made[x] # {} => x # s /\ made'[x] # {} /\ postC'[x] = postC[x]
      BY <2>0, <3>1 DEF TypeOK
    <3>3. ~closed[s] /\ postC'[s] # "nil" /\ s \notin quiet
      BY <2>0, <3>1 DEF Locks, TypeOK
    <3>4. \A c \in Closers : phase[c] \in {"ask", "finish"} =>
             target[c] \in Subs /\ postC'[target[c]] = postC[target[c]]
      BY <2>0, <3>2 DEF Targets
    <3>5. \A x \in Subs \ {s} : postC'[x] = postC[x] /\ made'[x] = made[x]
      BY <2>0, <3>1 DEF TypeOK
    <3>6. Locks'
      BY <3>1, <3>3, <3>4, <3>5 DEF Locks
    <3> QED
      BY <3>1, <3>6 DEF PanicsOnlyIfLate
  <2>3. ASSUME NEW p \in Posters, DeliverSend(p) PROVE Locks' /\ PanicsOnlyIfLate'
    <3>1. Head(todo[p]) \in Subs
      BY <2>0, <2>3, TailProperties DEF DeliverSend, TypeOK
    <3>2. /\ UNCHANGED <<closed, postC, closeMu, quiet, made, phase, target>> /\ ~panicked
          /\ panicked' = (postC[Head(todo[p])] = "closed")
      BY <2>3 DEF DeliverSend, subVars, muxVars, closeVars
    <3>3. panicked' => postC[Head(todo[p])] = "closed"
      BY <3>2, Zenon
    <3> QED
      BY <3>1, <3>2, <3>3 DEF Locks, PanicsOnlyIfLate
  <2>4. ASSUME NEW c \in Closers, CloseStart(c) PROVE Locks' /\ PanicsOnlyIfLate'
    <3> DEFINE s == target[c]
    <3>1. s \in Subs /\ made[s] # {} /\ ~panicked /\ closeMu[s] = NoOne /\ phase[c] = "close"
      BY <2>0, <2>4 DEF CloseStart, Targets
    <3>2. UNCHANGED <<postC, made, panicked>>
      BY <2>4 DEF CloseStart, muxVars
    <3>3. CASE closed[s]
      <4>1. /\ UNCHANGED <<closeMu, closed>> /\ quiet' = quiet \cup {s}
            /\ phase' = [phase EXCEPT ![c] = "idle"] /\ target' = [target EXCEPT ![c] = NoOne]
        BY <2>4, <3>3 DEF CloseStart, CloseReturns
      <4>2. \A d \in Closers : phase'[d] \in {"ask", "finish"} =>
               phase[d] \in {"ask", "finish"} /\ target'[d] = target[d]
        BY <2>0, <4>1 DEF TypeOK
      <4>3. postC[s] = "nil"
        BY <3>1, <3>3 DEF Locks
      <4> HIDE DEF s
      <4>4. UNCHANGED <<closeMu, closed, postC, made, panicked>>
        BY <3>2, <4>1
      <4>5. \A d \in Closers : phase'[d] \in {"ask", "finish"} =>
               /\ closeMu[target'[d]] = d /\ closed[target'[d]]
               /\ postC[target'[d]] # "nil"
        BY <4>2 DEF Locks
      <4>6. \A x \in quiet' : x \in Subs => postC[x] = "nil" \/ panicked
        BY <4>1, <4>3 DEF Locks
      <4>7. Locks'
        BY <4>4, <4>5, <4>6 DEF Locks
      <4> QED
        BY <4>4, <4>7 DEF PanicsOnlyIfLate
    <3>4. CASE ~closed[s]
      <4>1. /\ closeMu' = [closeMu EXCEPT ![s] = c] /\ closed' = [closed EXCEPT ![s] = TRUE]
            /\ phase' = [phase EXCEPT ![c] = "ask"] /\ UNCHANGED <<target, quiet>>
        BY <2>4, <3>4 DEF CloseStart
      <4>2. /\ closeMu'[s] = c /\ closed'[s]
            /\ \A x \in Subs \ {s} : closeMu'[x] = closeMu[x] /\ closed'[x] = closed[x]
        BY <2>0, <3>1, <4>1 DEF TypeOK
      <4>3. postC[s] # "nil"
        BY <3>1, <3>4 DEF Locks
      <4>4. ASSUME NEW d \in Closers, phase'[d] \in {"ask", "finish"}
            PROVE  /\ closeMu'[target'[d]] = d /\ closed'[target'[d]]
                   /\ postC'[target'[d]] # "nil"
        <5>1. CASE d = c
          BY <3>2, <4>1, <4>2, <4>3, <5>1
        <5>2. CASE d # c
          <6>1. phase[d] \in {"ask", "finish"} /\ target[d] \in Subs
            BY <2>0, <4>1, <4>4, <5>2 DEF TypeOK, Targets
          <6>2. /\ closeMu[target[d]] = d /\ closed[target[d]] /\ postC[target[d]] # "nil"
            BY <6>1 DEF Locks
          <6>3. target[d] # s
            BY <3>1, <6>2 DEF Closers
          <6> QED
            BY <3>2, <4>1, <4>2, <6>1, <6>2, <6>3
        <5> QED
          BY <5>1, <5>2
      <4>5. c # NoOne
        BY DEF Closers
      <4>6. ASSUME NEW x \in Subs
            PROVE  /\ postC'[x] = "nil" => closed'[x]
                   /\ closed'[x] => made'[x] # {}
                   /\ closed'[x] /\ closeMu'[x] = NoOne => postC'[x] = "nil" \/ panicked'
                   /\ x \in quiet' => postC'[x] = "nil" \/ panicked'
        <5> HIDE DEF s
        <5>1. /\ postC[x] = "nil" => closed[x]
              /\ closed[x] => made[x] # {}
              /\ closed[x] /\ closeMu[x] = NoOne => postC[x] = "nil" \/ panicked
              /\ x \in quiet => postC[x] = "nil" \/ panicked
          BY DEF Locks
        <5>2. UNCHANGED <<postC, made, panicked, quiet>>
          BY <3>2, <4>1
        <5>3. CASE x = s
          BY <3>1, <4>2, <4>5, <5>1, <5>2, <5>3
        <5>4. CASE x # s
          BY <4>2, <5>1, <5>2, <5>4
        <5> QED
          BY <5>3, <5>4
      <4> QED
        BY <3>2, <4>4, <4>6 DEF Locks, PanicsOnlyIfLate
    <3> QED
      BY <3>3, <3>4
  <2>5. ASSUME NEW c \in Closers, CloseFinish(c) PROVE Locks' /\ PanicsOnlyIfLate'
    <3> DEFINE s == target[c]
    <3>1. /\ s \in Subs /\ closeMu[s] = c /\ closed[s] /\ postC[s] # "nil" /\ phase[c] = "finish"
      BY <2>0, <2>5 DEF CloseFinish, Targets, Locks
    <3>2. /\ closeMu' = [closeMu EXCEPT ![s] = NoOne] /\ quiet' = quiet \cup {s}
          /\ phase' = [phase EXCEPT ![c] = "idle"] /\ target' = [target EXCEPT ![c] = NoOne]
          /\ postC' = [postC EXCEPT ![s] = IF @ = "open" THEN "nil" ELSE @]
          /\ panicked' = (postC[s] # "open") /\ ~panicked /\ UNCHANGED <<closed, made>>
      BY <2>5 DEF CloseFinish, CloseReturns, muxVars
    <3>3. panicked' \/ postC[s] = "open"
      BY <3>2, Zenon
    <3>4. panicked' => postC[s] # "open"
      BY <3>2, Zenon
    <3>5. \A x \in Subs \ {s} : closeMu'[x] = closeMu[x] /\ postC'[x] = postC[x]
      BY <2>0, <3>2 DEF TypeOK
    <3>6. postC'[s] = IF postC[s] = "open" THEN "nil" ELSE postC[s]
      BY <2>0, <3>1, <3>2 DEF TypeOK
    <3>7. \A d \in Closers : phase'[d] \in {"ask", "finish"} =>
             /\ phase[d] \in {"ask", "finish"} /\ target'[d] = target[d]
             /\ target[d] \in Subs \ {s}
      <4> SUFFICES ASSUME NEW d \in Closers, phase'[d] \in {"ask", "finish"}
                   PROVE  /\ phase[d] \in {"ask", "finish"} /\ target'[d] = target[d]
                          /\ target[d] \in Subs \ {s}
        OBVIOUS
      <4>1. d # c /\ phase[d] \in {"ask", "finish"} /\ target'[d] = target[d]
        BY <2>0, <3>2 DEF TypeOK
      <4>2. target[d] \in Subs /\ closeMu[target[d]] = d
        BY <2>0, <4>1 DEF Targets, Locks
      <4> QED
        BY <3>1, <4>1, <4>2
    <3> HIDE DEF s
    <3>8. \A d \in Closers : phase'[d] \in {"ask", "finish"} =>
             /\ closeMu'[target'[d]] = d /\ closed'[target'[d]]
             /\ postC'[target'[d]] # "nil"
      BY <3>2, <3>5, <3>7 DEF Locks
    <3>9. ASSUME NEW x \in Subs
          PROVE  /\ postC'[x] = "nil" => closed'[x]
                 /\ closed'[x] => made'[x] # {}
                 /\ closed'[x] /\ closeMu'[x] = NoOne => postC'[x] = "nil" \/ panicked'
                 /\ x \in quiet' => postC'[x] = "nil" \/ panicked'
      BY <3>1, <3>2, <3>3, <3>5, <3>6 DEF Locks
    <3>10. panicked' => postC'[s] = "closed"
      BY <2>0, <3>1, <3>4, <3>6 DEF TypeOK
    <3> QED
      BY <3>1, <3>8, <3>9, <3>10 DEF Locks, PanicsOnlyIfLate
  <2>6. ASSUME NEW c \in Closers, CloseAsk(c) PROVE Locks' /\ PanicsOnlyIfLate'
    BY <2>0, <2>1, <2>6 DEF CloseAsk, TypeOK, muxVars
  <2>7. ASSUME NEW c \in Unsubscribers, NEW s \in Subs, Unsubscribe(c, s)
        PROVE  Locks' /\ PanicsOnlyIfLate'
    BY <2>0, <2>1, <2>7 DEF Unsubscribe, TypeOK, subVars, Closers
  <2>8. ASSUME NEW s \in Subs, StopNext(s) PROVE Locks' /\ PanicsOnlyIfLate'
    BY <2>0, <2>1, <2>8 DEF StopNext, TypeOK, muxVars, subVars, Closers
  <2>9. ASSUME UNCHANGED <<closed, postC, closeMu, quiet, made, panicked, phase, target>>
        PROVE  Locks' /\ PanicsOnlyIfLate'
    BY <2>1, <2>9
  <2> QED
    BY <2>2, <2>3, <2>4, <2>5, <2>6, <2>7, <2>8, <2>9 DEF Next, FinishStop, Deliver, Close, Post,
       DeliverLock, DeliverClosing, Handle, Stop, StopReturns, vars, muxVars, subVars, closeVars
<1> QED
  BY <1>1, <1>2, TypeCorrect, PTL DEF Spec

(* No interleaving of Post, Unsubscribe and Stop closes a channel twice or
   sends on a closed one, unless somebody subscribed to a stopped mux.     *)
THEOREM PanicsOnlyIfLateHolds == Spec => []PanicsOnlyIfLate
BY LocksHold, PTL

(* A receiver gets nothing after closewait has returned to anybody: deliver
   finds the channel cleared.                                              *)
THEOREM QuietAfterCloseHolds == Spec => QuietAfterClose
<1> DEFINE Quiet == \A s \in quiet : received'[s] = received[s]
<1>1. Inv /\ Locks /\ [Next]_vars => [Quiet]_vars
  <2> SUFFICES ASSUME Inv, Locks, [Next]_vars, NEW s \in quiet PROVE received'[s] = received[s]
    OBVIOUS
  <2>1. s \in Subs /\ (postC[s] = "nil" \/ panicked)
    BY DEF Inv, TypeOK, Locks
  <2>2. ASSUME NEW p \in Posters, DeliverSend(p) PROVE received'[s] = received[s]
    <3>1. Head(todo[p]) # s
      BY <2>1, <2>2 DEF DeliverSend
    <3> QED
      BY <2>2, <3>1 DEF DeliverSend, Inv, TypeOK
  <2> QED
    BY <2>2 DEF Next, FinishStop, Deliver, Close, Subscribe, Post, DeliverLock, DeliverClosing,
       Handle, Unsubscribe, CloseStart, CloseAsk, CloseFinish, Stop, StopNext, StopReturns, vars
<1> QED
  BY <1>1, TypeCorrect, LocksHold, PTL DEF Spec, QuietAfterClose

-----------------------------------------------------------------------------
LEMMA DeliveriesHold == Spec => [](Deliveries /\ InOrder /\ NoMissed)
<1> DEFINE IInv == Deliveries /\ InOrder /\ NoMissed
<1>1. Init => IInv
  <2> SUFFICES ASSUME Init PROVE IInv
    OBVIOUS
  <2>1. \A s \in Subs : received[s] = <<>> /\ 1..Len(received[s]) = {}
    BY DEF Init
  <2>2. \A p \in Posters : posts[p] = 0 /\ 1..posts[p] = {}
    BY DEF Init
  <2>3. \A p \in Posters, n \in 1..MaxPosts : posted[p][n] = {}
    BY DEF Init
  <2>4. Deliveries
    BY <2>1, <2>3 DEF Deliveries
  <2>5. InOrder
    BY <2>1 DEF InOrder
  <2>6. NoMissed
    BY <2>2 DEF NoMissed
  <2> QED
    BY <2>4, <2>5, <2>6
<1>2. Inv /\ IInv /\ [Next]_vars => IInv'
  <2> SUFFICES ASSUME Inv, Deliveries, InOrder, NoMissed, [Next]_vars PROVE IInv'
    OBVIOUS
  <2> HIDE DEF IInv
  <2>0. TypeOK /\ Slices
    BY DEF Inv
  <2>1. /\ \A x \in Subs : received[x] \in Seq(Events) /\ Len(received[x]) \in Nat
        /\ \A x \in Subs : \A i \in 1..Len(received[x]) :
              received[x][i] \in Events /\ received[x][i].poster \in Posters
                /\ received[x][i].number \in Nat
        /\ \A q \in Posters : posts[q] \in Nat /\ posts[q] <= MaxPosts
        /\ \A q \in Posters, m \in 1..MaxPosts : posted[q][m] \subseteq Subs
        /\ MaxPosts \in Nat
    <3>1. \A x \in Subs : received[x] \in Seq(Events) /\ Len(received[x]) \in Nat
      BY <2>0 DEF TypeOK
    <3>2. \A x \in Subs : \A i \in 1..Len(received[x]) : received[x][i] \in Events
      BY <3>1, ElementOfSeq
    <3>3. \A e \in Events : e.poster \in Posters /\ e.number \in Nat
      BY TypeMuxAssumption DEF Events
    <3>4. \A x \in Subs : \A i \in 1..Len(received[x]) :
             received[x][i].poster \in Posters /\ received[x][i].number \in Nat
      BY <3>2, <3>3
    <3>5. posts \in [Posters -> 0..MaxPosts] /\ posted \in [Posters -> [1..MaxPosts -> SUBSET Subs]]
      BY <2>0 DEF TypeOK
    <3>6. \A q \in Posters : posts[q] \in Nat /\ posts[q] <= MaxPosts
      BY <3>5, TypeMuxAssumption
    <3>7. \A q \in Posters, m \in 1..MaxPosts : posted[q][m] \subseteq Subs
      BY <3>5
    <3> QED
      BY <3>1, <3>2, <3>4, <3>6, <3>7, TypeMuxAssumption
  <2>2. ASSUME UNCHANGED <<received, posts, todo, posted>>,
               \A x \in Subs : made[x] \subseteq made'[x] /\ (closed[x] => closed'[x])
        PROVE  IInv'
    <3>1. Deliveries'
      BY <2>2 DEF Deliveries
    <3>2. InOrder'
      BY <2>2 DEF InOrder
    <3>3. NoMissed'
      <4>1. ASSUME NEW q \in Posters PROVE 1..posts[q] \subseteq 1..MaxPosts
        <5>1. posts[q] \in Nat /\ posts[q] <= MaxPosts /\ MaxPosts \in Nat
          BY <2>1
        <5> QED
          BY <5>1
      <4> SUFFICES ASSUME NEW q \in Posters, NEW m \in 1..posts[q], NEW x \in posted[q][m]
                   PROVE  \/ closed'[x]
                          \/ m = posts[q] /\ x \in ToSet(todo[q])
                          \/ \E i \in 1..Len(received[x]) :
                                received[x][i].poster = q /\ received[x][i].number = m
        BY <2>2 DEF NoMissed
      <4>2. x \in Subs
        BY <2>1, <4>1
      <4>3. closed[x] => closed'[x]
        BY <2>2, <4>2
      <4> QED
        BY <4>3 DEF NoMissed
    <3> QED
      BY <3>1, <3>2, <3>3 DEF IInv
  <2>3. ASSUME NEW p \in Posters, NEW t \in Types, Post(p, t) PROVE IInv'
    <3> DEFINE n == posts[p] + 1
    <3>1. /\ todo[p] = <<>> /\ posts[p] < MaxPosts /\ posts' = [posts EXCEPT ![p] = n]
          /\ \/ /\ todo' = [todo EXCEPT ![p] = subm[t]]
                /\ posted' = [posted EXCEPT ![p][n] = ToSet(subm[t])]
             \/ UNCHANGED <<todo, posted>>
          /\ UNCHANGED <<received, made, closed>>
      BY <2>3 DEF Post, muxVars, subVars
    <3>2. n \in 1..MaxPosts /\ n > posts[p] /\ n \in Nat
      BY <2>1, <3>1
    <3>3. posts'[p] = n /\ \A q \in Posters \ {p} :
             posts'[q] = posts[q] /\ todo'[q] = todo[q] /\ posted'[q] = posted[q]
      BY <2>0, <3>1 DEF TypeOK
    <3>4. \A m \in 1..MaxPosts : m # n => posted'[p][m] = posted[p][m]
      <4>1. posted[p] \in [1..MaxPosts -> SUBSET Subs]
        BY <2>0 DEF TypeOK
      <4>2. posted'[p] = posted[p] \/ posted'[p] = [posted[p] EXCEPT ![n] = ToSet(subm[t])]
        BY <2>0, <3>1 DEF TypeOK
      <4> QED
        BY <4>1, <4>2
    <3>5. posted'[p][n] = {} \/ posted'[p][n] = ToSet(todo'[p])
      <4>1. posted[p][n] = {}
        BY <3>2 DEF Deliveries
      <4>2. posted[p] \in [1..MaxPosts -> SUBSET Subs] /\ posted \in [Posters -> [1..MaxPosts -> SUBSET Subs]]
        BY <2>0 DEF TypeOK
      <4>3. CASE UNCHANGED <<todo, posted>>
        BY <4>1, <4>3
      <4>4. CASE /\ todo' = [todo EXCEPT ![p] = subm[t]]
                 /\ posted' = [posted EXCEPT ![p][n] = ToSet(subm[t])]
        <5>1. todo'[p] = subm[t]
          BY <2>0, <4>4 DEF TypeOK
        <5>2. posted'[p] = [posted[p] EXCEPT ![n] = ToSet(subm[t])]
          BY <4>2, <4>4
        <5>3. posted'[p][n] = ToSet(subm[t])
          BY <3>2, <4>2, <5>2
        <5> QED
          BY <5>1, <5>3
      <4> QED
        BY <3>1, <4>3, <4>4
    <3> HIDE DEF n
    <3>6. Deliveries'
      <4>1. ASSUME NEW x \in Subs, NEW i \in 1..Len(received'[x]) 
            PROVE  /\ received'[x][i].number <= posts'[received'[x][i].poster]
                   /\ received'[x][i].number = posts'[received'[x][i].poster]
                        => x \notin ToSet(todo'[received'[x][i].poster])
        <5>1. /\ received' = received /\ received[x][i].poster \in Posters
              /\ received[x][i].number \in Nat
          BY <2>1, <3>1, <4>1
        <5>2. /\ received[x][i].number <= posts[received[x][i].poster]
              /\ received[x][i].number = posts[received[x][i].poster]
                   => x \notin ToSet(todo[received[x][i].poster])
          BY <3>1, <4>1 DEF Deliveries
        <5>3. CASE received[x][i].poster = p
          <6>1. posts[p] \in Nat
            BY <2>1
          <6>2. received[x][i].number < n
            BY <3>2, <5>1, <5>2, <5>3, <6>1
          <6> QED
            BY <3>2, <3>3, <5>1, <5>3, <6>2
        <5>4. CASE received[x][i].poster # p
          BY <3>3, <5>1, <5>2, <5>4
        <5> QED
          BY <5>3, <5>4
      <4>2. ASSUME NEW q \in Posters, NEW m \in 1..MaxPosts, m > posts'[q]
            PROVE  posted'[q][m] = {}
        <5>1. CASE q # p
          BY <3>3, <4>2, <5>1 DEF Deliveries
        <5>2. CASE q = p
          <6>1. m > n /\ posts[p] \in Nat
            BY <2>1, <3>3, <4>2, <5>2
          <6>2. m > posts[p] /\ m # n
            BY <3>2, <6>1
          <6> QED
            BY <3>4, <5>2, <6>2 DEF Deliveries
        <5> QED
          BY <5>1, <5>2
      <4> QED
        BY <4>1, <4>2 DEF Deliveries
    <3>7. InOrder'
      BY <3>1 DEF InOrder
    <3>8. NoMissed'
      <4> SUFFICES ASSUME NEW q \in Posters, NEW m \in 1..posts'[q], NEW x \in posted'[q][m]
                   PROVE  \/ closed'[x]
                          \/ m = posts'[q] /\ x \in ToSet(todo'[q])
                          \/ \E i \in 1..Len(received'[x]) :
                                received'[x][i].poster = q /\ received'[x][i].number = m
        BY DEF NoMissed
      <4>1. CASE q # p
        BY <3>1, <3>3, <4>1 DEF NoMissed
      <4>2. CASE q = p /\ m = n
        BY <3>3, <3>5, <4>2
      <4>3. CASE q = p /\ m # n
        <5>1. m \in 1..posts[p] /\ m \in 1..MaxPosts /\ x \in posted[p][m]
          BY <2>1, <3>1, <3>2, <3>3, <3>4, <4>3 DEF n
        <5>2. ToSet(todo[p]) = {}
          BY <3>1, EmptySlice
        <5> QED
          BY <3>1, <4>3, <5>1, <5>2 DEF NoMissed
      <4> QED
        BY <4>1, <4>2, <4>3
    <3> QED
      BY <3>6, <3>7, <3>8 DEF IInv
  <2>4. ASSUME NEW p \in Posters, todo[p] # <<>>
        PROVE  /\ Head(todo[p]) \in Subs /\ Head(todo[p]) \in ToSet(todo[p])
               /\ ToSet(todo[p]) = {Head(todo[p])} \cup ToSet(Tail(todo[p]))
               /\ Head(todo[p]) \notin ToSet(Tail(todo[p]))
    BY <2>0, <2>4, TailProperties DEF TypeOK, Slices
  <2>5. ASSUME NEW p \in Posters, todo[p] # <<>>, todo' = [todo EXCEPT ![p] = Tail(@)]
        PROVE  /\ todo'[p] = Tail(todo[p]) /\ \A q \in Posters \ {p} : todo'[q] = todo[q]
               /\ \A q \in Posters : ToSet(todo'[q]) \subseteq ToSet(todo[q])
    BY <2>0, <2>4, <2>5 DEF TypeOK
  <2>6. ASSUME NEW p \in Posters, DeliverClosing(p) PROVE IInv'
    <3> DEFINE s == Head(todo[p])
    <3>1. /\ todo[p] # <<>> /\ todo' = [todo EXCEPT ![p] = Tail(@)] /\ closed[s]
          /\ UNCHANGED <<received, posts, posted, made, closed>>
      BY <2>6 DEF DeliverClosing, muxVars, subVars
    <3>2. /\ todo'[p] = Tail(todo[p]) /\ \A q \in Posters \ {p} : todo'[q] = todo[q]
          /\ \A q \in Posters : ToSet(todo'[q]) \subseteq ToSet(todo[q])
      BY <2>5, <3>1
    <3>3. ToSet(todo[p]) = {s} \cup ToSet(todo'[p])
      BY <2>4, <3>1, <3>2
    <3> HIDE DEF s
    <3>4. Deliveries'
      BY <2>1, <3>1, <3>2 DEF Deliveries
    <3>5. InOrder'
      BY <3>1 DEF InOrder
    <3>6. \A q \in Posters : \A x \in ToSet(todo[q]) : closed[x] \/ x \in ToSet(todo'[q])
      BY <3>1, <3>2, <3>3
    <3>7. NoMissed'
      BY <3>1, <3>6 DEF NoMissed
    <3> QED
      BY <3>4, <3>5, <3>7 DEF IInv
  <2>7. ASSUME NEW p \in Posters, DeliverSend(p) PROVE IInv'
    <3> DEFINE s == Head(todo[p])
               k == Len(received[s])
    <3>1. /\ todo[p] # <<>> /\ todo' = [todo EXCEPT ![p] = Tail(@)]
          /\ received' = [received EXCEPT ![s] = Append(@, event[p])]
          /\ UNCHANGED <<posts, posted, made, closed>>
      BY <2>7 DEF DeliverSend, muxVars, subVars
    <3>2. /\ todo'[p] = Tail(todo[p]) /\ \A q \in Posters \ {p} : todo'[q] = todo[q]
          /\ \A q \in Posters : ToSet(todo'[q]) \subseteq ToSet(todo[q])
      BY <2>5, <3>1
    <3>3. /\ s \in Subs /\ s \in ToSet(todo[p]) /\ ToSet(todo[p]) = {s} \cup ToSet(todo'[p])
          /\ s \notin ToSet(todo'[p])
      BY <2>4, <3>1, <3>2
    <3>4. /\ event[p] \in Events /\ event[p].poster = p /\ event[p].number = posts[p]
          /\ event[p].type \in made[s]
      BY <2>0, <3>1, <3>3 DEF Slices
    <3>5. \A x \in Subs \ {s} : received'[x] = received[x]
      BY <2>0, <3>1 DEF TypeOK
    <3>6. received'[s] = Append(received[s], event[p])
      BY <2>0, <3>1, <3>3 DEF TypeOK
    <3>7. /\ Len(received'[s]) = k + 1 /\ received'[s][k + 1] = event[p]
          /\ \A i \in 1..k : received'[s][i] = received[s][i]
      <4>1. received[s] \in Seq(Events) /\ event[p] \in Events
        BY <2>1, <3>3, <3>4
      <4> HIDE DEF s
      <4>2. /\ Len(Append(received[s], event[p])) = Len(received[s]) + 1
            /\ Append(received[s], event[p])[Len(received[s]) + 1] = event[p]
            /\ \A i \in 1..Len(received[s]) : Append(received[s], event[p])[i] = received[s][i]
        BY <4>1, AppendProperties
      <4> QED
        BY <3>6, <4>2, Zenon
    <3>8. k \in Nat
      BY <2>1, <3>3
    <3> HIDE DEF s, k
    <3>9. \A x \in Subs : \A i \in 1..Len(received'[x]) :
             \/ i \in 1..Len(received[x]) /\ received'[x][i] = received[x][i]
             \/ x = s /\ i = k + 1 /\ received'[x][i] = event[p]
      BY <3>5, <3>7, <3>8 DEF k
    <3>10. \A x \in Subs : \A i \in 1..Len(received[x]) :
             i \in 1..Len(received'[x]) /\ received'[x][i] = received[x][i]
      BY <3>5, <3>7, <3>8 DEF k
    <3>11. Deliveries'
      <4>1. ASSUME NEW x \in Subs, NEW i \in 1..Len(received'[x])
            PROVE  /\ received'[x][i].number <= posts'[received'[x][i].poster]
                   /\ received'[x][i].number = posts'[received'[x][i].poster]
                        => x \notin ToSet(todo'[received'[x][i].poster])
        <5>1. CASE i \in 1..Len(received[x]) /\ received'[x][i] = received[x][i]
          <6>1. /\ received[x][i].number <= posts[received[x][i].poster]
                /\ received[x][i].number = posts[received[x][i].poster]
                     => x \notin ToSet(todo[received[x][i].poster])
            BY <5>1 DEF Deliveries
          <6>2. received[x][i].poster \in Posters
            BY <2>1, <5>1
          <6>3. ToSet(todo'[received[x][i].poster]) \subseteq ToSet(todo[received[x][i].poster])
            BY <3>2, <6>2
          <6> QED
            BY <3>1, <5>1, <6>1, <6>3
        <5>2. CASE x = s /\ received'[x][i] = event[p]
          <6>1. posts[p] \in Nat /\ posts' = posts
            BY <2>1, <3>1
          <6>2. received'[x][i].poster = p /\ received'[x][i].number = posts[p]
            BY <3>4, <5>2
          <6>3. x \notin ToSet(todo'[p])
            BY <3>3, <5>2
          <6> QED
            BY <6>1, <6>2, <6>3
        <5> QED
          BY <3>9, <5>1, <5>2
      <4> QED
        BY <3>1, <4>1 DEF Deliveries
    <3>12. InOrder'
      <4> SUFFICES ASSUME NEW x \in Subs, NEW i \in 1..Len(received'[x])
                   PROVE  /\ received'[x][i].type \in made'[x]
                          /\ \A j \in 1..(i - 1) :
                                received'[x][j].poster = received'[x][i].poster =>
                                    received'[x][j].number < received'[x][i].number
        BY DEF InOrder
      <4>1. CASE i \in 1..Len(received[x]) /\ received'[x][i] = received[x][i]
        <5>0. Len(received[x]) \in Nat
          BY <2>1
        <5>1. 1..(i - 1) \subseteq 1..Len(received[x])
          BY <4>1, <5>0
        <5> QED
          BY <3>1, <3>10, <4>1, <5>1 DEF InOrder
      <4>2. CASE x = s /\ i = k + 1 /\ received'[x][i] = event[p]
        <5>1. ASSUME NEW j \in 1..(i - 1), received'[s][j].poster = p
              PROVE  received'[s][j].number < posts[p]
          <6>1. j \in 1..Len(received[s]) /\ received'[s][j] = received[s][j]
            <7>1. i - 1 = k
              BY <3>8, <4>2
            <7>2. j \in 1..k
              BY <5>1, <7>1
            <7> QED
              BY <3>7, <7>2 DEF k
          <6>2. /\ received[s][j].number <= posts[p]
                /\ received[s][j].number = posts[p] => s \notin ToSet(todo[p])
            BY <3>3, <5>1, <6>1 DEF Deliveries
          <6>3. received[s][j].number \in Nat /\ posts[p] \in Nat
            BY <2>1, <3>3, <6>1
          <6>4. received[s][j].number # posts[p]
            BY <3>3, <6>2
          <6>5. received[s][j].number < posts[p]
            BY <6>2, <6>3, <6>4
          <6> QED
            BY <6>1, <6>5
        <5> QED
          BY <3>1, <3>4, <4>2, <5>1
      <4> QED
        BY <3>9, <4>1, <4>2
    <3>13. NoMissed'
      <4>a. posts' = posts /\ posted' = posted /\ closed' = closed
        BY <3>1
      <4> SUFFICES ASSUME NEW q \in Posters, NEW m \in 1..posts[q], NEW x \in posted[q][m]
                   PROVE  \/ closed[x]
                          \/ m = posts[q] /\ x \in ToSet(todo'[q])
                          \/ \E i \in 1..Len(received'[x]) :
                                received'[x][i].poster = q /\ received'[x][i].number = m
        <5>1. NoMissed' <=> \A q \in Posters : \A m \in 1..posts[q] : \A x \in posted[q][m] :
                 \/ closed[x]
                 \/ m = posts[q] /\ x \in ToSet(todo'[q])
                 \/ \E i \in 1..Len(received'[x]) :
                       received'[x][i].poster = q /\ received'[x][i].number = m
          BY <4>a DEF NoMissed
        <5> QED
          BY <5>1
      <4>0. x \in Subs
        <5>1. m \in 1..MaxPosts
          BY <2>1
        <5> QED
          BY <2>1, <5>1
      <4>1. CASE m = posts[q] /\ x \in ToSet(todo[q])
        <5>1. CASE q = p /\ x = s
          <6>1. k + 1 \in 1..Len(received'[s])
            BY <3>7, <3>8
          <6> QED
            BY <3>4, <3>7, <4>1, <5>1, <6>1
        <5>2. CASE ~(q = p /\ x = s)
          BY <3>2, <3>3, <4>1, <5>2
        <5> QED
          BY <5>1, <5>2
      <4>2. CASE \E i \in 1..Len(received[x]) :
                    received[x][i].poster = q /\ received[x][i].number = m
        <5>1. PICK i \in 1..Len(received[x]) :
                 received[x][i].poster = q /\ received[x][i].number = m
          BY <4>2
        <5>2. i \in 1..Len(received'[x]) /\ received'[x][i] = received[x][i]
          BY <3>10, <4>0
        <5> QED
          BY <5>1, <5>2
      <4>3. \/ closed[x]
            \/ m = posts[q] /\ x \in ToSet(todo[q])
            \/ \E i \in 1..Len(received[x]) :
                  received[x][i].poster = q /\ received[x][i].number = m
        BY DEF NoMissed
      <4> QED
        BY <4>1, <4>2, <4>3, Zenon
    <3> QED
      BY <3>11, <3>12, <3>13 DEF IInv
  <2>8. ASSUME NEW s \in Subs, NEW T \in SUBSET Types \ {{}}, Subscribe(s, T) PROVE IInv'
    BY <2>0, <2>2, <2>8 DEF Subscribe, TypeOK, postVars
  <2>9. ASSUME NEW c \in Closers, CloseStart(c) PROVE IInv'
    BY <2>0, <2>2, <2>9 DEF CloseStart, TypeOK, muxVars, postVars
  <2>10. ASSUME UNCHANGED <<received, posts, todo, posted, made, closed>> PROVE IInv'
    BY <2>2, <2>10
  <2> QED
    BY <2>3, <2>6, <2>7, <2>8, <2>9, <2>10 DEF Next, FinishStop, Deliver, Close,
       DeliverLock, Handle, Unsubscribe, CloseAsk, CloseFinish, Stop, StopNext, StopReturns,
       vars, muxVars, subVars, postVars
<1> QED
  BY <1>1, <1>2, TypeCorrect, PTL DEF Spec

(* The events of one poster reach a receiver in order, each at most once and
   only if it subscribed to the type: a slice that Post has read names no
   subscription twice.                                                     *)
THEOREM InOrderHolds == Spec => []InOrder
BY DeliveriesHold, PTL

(* When Post returns, every subscription it was posted to has the event or has
   been closed.                                                            *)
THEOREM NoMissedHolds == Spec => []NoMissed
BY DeliveriesHold, PTL
=============================================================================
