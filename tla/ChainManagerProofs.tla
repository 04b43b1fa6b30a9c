------------------------- MODULE ChainManagerProofs -------------------------
(* Proofs about the chain manager, for any tree of blocks and any chains
   offered, with the facts about chains of blocks they need.               *)
EXTENDS ChainManager, NaturalsInduction, FiniteSetTheorems, SequenceTheorems, TLAPS

-----------------------------------------------------------------------------
(* A set of numbers has a least one. *)
LEMMA Least ==
  ASSUME NEW S, S \subseteq Nat, S # {}
  PROVE  \E n \in S : \A m \in S : n <= m
<1>1. PICK n \in S : \A m \in S : ~(<<m, n>> \in OpToRel(<, Nat))
  BY NatLessThanWellFounded, WFMin, Zenon
<1>2. OpToRel(<, Nat) = {ss \in Nat \X Nat : ss[1] < ss[2]}
  BY DEF OpToRel
<1>3. ASSUME NEW m \in S PROVE n <= m
  <2>1. ~(<<m, n>> \in {ss \in Nat \X Nat : ss[1] < ss[2]})
    BY <1>1, <1>2, Zenon
  <2>2. <<m, n>> \in Nat \X Nat /\ <<m, n>>[1] = m /\ <<m, n>>[2] = n /\ m \in Nat /\ n \in Nat
    OBVIOUS
  <2>3. ~(m < n)
    BY <2>1, <2>2
  <2> QED
    BY <2>2, <2>3
<1> QED
  BY <1>3

LEMMA SetInduction ==
  ASSUME NEW S, 0 \in S, \A n \in Nat : n \in S => n + 1 \in S
  PROVE  Nat \subseteq S
<1> SUFFICES ASSUME Nat \ S # {} PROVE FALSE
  OBVIOUS
<1>1. PICK n \in Nat \ S : \A m \in Nat \ S : n <= m
  BY Least, Zenon
<1>2. n # 0 /\ n - 1 \in Nat /\ (n - 1) + 1 = n /\ ~(n <= n - 1)
  BY <1>1
<1> QED
  BY <1>1, <1>2

(* A chain can be followed down to the genesis block: what holds there, and for
   a block if it does for its parent, holds for every block.               *)
LEMMA ParentInduction ==
  ASSUME NEW S, Genesis \in S, \A b \in Blocks : Parent[b] \in S => b \in S
  PROVE  AllBlocks \subseteq S
<1> SUFFICES ASSUME AllBlocks \ S # {} PROVE FALSE
  OBVIOUS
<1> DEFINE D == {Number[b] : b \in AllBlocks \ S}
<1>1. D \subseteq Nat /\ D # {}
  BY ChainAssumption
<1>2. PICK n \in D : \A m \in D : n <= m
  BY <1>1, Least, Zenon
<1>3. PICK b \in AllBlocks \ S : Number[b] = n
  BY <1>2
<1>4. b \in Blocks /\ Parent[b] \in AllBlocks \ S
  BY <1>3, ChainAssumption DEF AllBlocks
<1>5. Number[Parent[b]] \in D /\ Number[b] = Number[Parent[b]] + 1 /\ Number[Parent[b]] \in Nat
  BY <1>4, ChainAssumption
<1>6. Number[b] <= Number[Parent[b]]
  BY <1>2, <1>3, <1>5
<1> QED
  BY <1>5, <1>6

(* A function can be defined by recursion along the chains. *)
LEMMA ChainRecursion ==
  ASSUME NEW V, NEW v \in V, NEW g \in [Blocks -> [V -> V]]
  PROVE  \E f \in [AllBlocks -> V] :
            f[Genesis] = v /\ \A b \in Blocks : f[b] = g[b][f[Parent[b]]]
<1> DEFINE Right(f, n) == f[Genesis] = v /\ \A b \in Blocks : Number[b] <= n => f[b] = g[b][f[Parent[b]]]
           Next1(f) == [b \in AllBlocks |-> IF b = Genesis THEN v ELSE g[b][f[Parent[b]]]]
           S == {n \in Nat : \E f \in [AllBlocks -> V] : Right(f, n)}
<1>0. /\ \A b \in Blocks : Parent[b] \in AllBlocks /\ Number[b] = Number[Parent[b]] + 1
                             /\ b \in AllBlocks /\ b # Genesis
      /\ \A b \in AllBlocks : Number[b] \in Nat /\ (b # Genesis => b \in Blocks)
      /\ Genesis \in AllBlocks
  BY ChainAssumption DEF AllBlocks
<1>1. 0 \in S
  <2>1. [b \in AllBlocks |-> v] \in [AllBlocks -> V]
    OBVIOUS
  <2>2. \A b \in Blocks : ~(Number[b] <= 0)
    BY <1>0
  <2>3. Right([b \in AllBlocks |-> v], 0)
    BY <1>0, <2>2
  <2> QED
    BY <2>1, <2>3
<1>2. ASSUME NEW n \in Nat, n \in S PROVE n + 1 \in S
  <2>1. PICK f \in [AllBlocks -> V] : Right(f, n)
    BY <1>2
  <2>2. Next1(f) \in [AllBlocks -> V]
    BY <1>0
  <2>3. \A b \in Blocks : Next1(f)[b] = g[b][f[Parent[b]]]
    BY <1>0
  <2>4. Next1(f)[Genesis] = v
    BY <1>0
  <2>5. \A b \in AllBlocks : Number[b] <= n => Next1(f)[b] = f[b]
    BY <1>0, <2>1, <2>3, <2>4
  <2>6. ASSUME NEW b \in Blocks, Number[b] <= n + 1
        PROVE  Next1(f)[b] = g[b][Next1(f)[Parent[b]]]
    <3>1. Number[Parent[b]] <= n
      BY <1>0, <2>6
    <3> QED
      BY <1>0, <2>3, <2>5, <3>1, Zenon
  <2>7. Right(Next1(f), n + 1)
    BY <2>4, <2>6, Zenon
  <2> HIDE DEF Right, Next1
  <2> QED
    BY <2>2, <2>7
<1>3. Nat \subseteq S
  BY <1>1, <1>2, SetInduction, Zenon
<1>4. ASSUME NEW n \in Nat, NEW m \in Nat, n <= m, NEW f \in [AllBlocks -> V], Right(f, n),
             NEW h \in [AllBlocks -> V], Right(h, m)
      PROVE  \A b \in AllBlocks : Number[b] <= n => f[b] = h[b]
  <2> DEFINE T == {b \in AllBlocks : Number[b] <= n => f[b] = h[b]}
  <2>1. Genesis \in T
    BY <1>0, <1>4
  <2>2. ASSUME NEW b \in Blocks, Parent[b] \in T PROVE b \in T
    <3>1. Number[b] <= n => Number[Parent[b]] <= n /\ Number[b] <= m
      BY <1>0, <1>4
    <3> QED
      BY <1>0, <1>4, <2>2, <3>1
  <2>3. AllBlocks \subseteq T
    BY <2>1, <2>2, ParentInduction, Zenon
  <2> QED
    BY <2>3
<1> DEFINE F(n) == CHOOSE f \in [AllBlocks -> V] : Right(f, n)
           h == [b \in AllBlocks |-> F(Number[b])[b]]
<1>5. \A n \in Nat : F(n) \in [AllBlocks -> V] /\ Right(F(n), n)
  <2> SUFFICES ASSUME NEW n \in Nat PROVE F(n) \in [AllBlocks -> V] /\ Right(F(n), n)
    BY Zenon
  <2>1. \E f \in [AllBlocks -> V] : Right(f, n)
    BY <1>3
  <2> HIDE DEF Right
  <2> QED
    BY <2>1
<1> HIDE DEF F
<1>6. h \in [AllBlocks -> V]
  BY <1>0, <1>5
<1>7. h[Genesis] = v
  BY <1>0, <1>5
<1>8. ASSUME NEW b \in Blocks PROVE h[b] = g[b][h[Parent[b]]]
  <2>1. F(Number[b])[b] = g[b][F(Number[b])[Parent[b]]]
    BY <1>0, <1>5
  <2>2. F(Number[Parent[b]])[Parent[b]] = F(Number[b])[Parent[b]]
    <3> HIDE DEF Right
    <3>1. /\ Number[Parent[b]] \in Nat /\ Number[b] \in Nat /\ Parent[b] \in AllBlocks
          /\ Number[Parent[b]] <= Number[b] /\ Number[Parent[b]] <= Number[Parent[b]]
      BY <1>0
    <3>2. /\ F(Number[Parent[b]]) \in [AllBlocks -> V] /\ F(Number[b]) \in [AllBlocks -> V]
          /\ Right(F(Number[Parent[b]]), Number[Parent[b]]) /\ Right(F(Number[b]), Number[b])
      BY <1>5, <3>1
    <3> QED
      BY <1>4, <3>1, <3>2
  <2> QED
    BY <1>0, <2>1, <2>2
<1> QED
  BY <1>6, <1>7, <1>8, Zenon

(* CalcTD gives every block its total difficulty. *)
LEMMA TdValue ==
  /\ Td \in [AllBlocks -> Nat]
  /\ \A b \in Blocks : Td[b] = Difficulty[b] + Td[Parent[b]]
<1> DEFINE Is(f) == f = [b \in AllBlocks |-> Difficulty[b] + (IF b = Genesis THEN 0 ELSE f[Parent[b]])]
           g == [b \in Blocks |-> [n \in Nat |-> Difficulty[b] + n]]
<1>0. /\ \A b \in AllBlocks : Difficulty[b] \in Nat /\ (b # Genesis => b \in Blocks)
      /\ \A b \in Blocks : b \in AllBlocks /\ b # Genesis /\ Parent[b] \in AllBlocks
      /\ Genesis \in AllBlocks
  BY ChainAssumption DEF AllBlocks
<1>1. g \in [Blocks -> [Nat -> Nat]]
  BY <1>0
<1>2. PICK f \in [AllBlocks -> Nat] :
         f[Genesis] = Difficulty[Genesis] /\ \A b \in Blocks : f[b] = g[b][f[Parent[b]]]
  <2> DEFINE V == Nat
  <2>1. Difficulty[Genesis] \in V /\ g \in [Blocks -> [V -> V]]
    BY <1>0, <1>1
  <2> HIDE DEF g, V
  <2>2. \E f \in [AllBlocks -> V] :
           f[Genesis] = Difficulty[Genesis] /\ \A b \in Blocks : f[b] = g[b][f[Parent[b]]]
    BY <2>1, ChainRecursion
  <2> QED
    BY <2>2 DEF V
<1>3. Is(f)
  <2>0. \A b \in Blocks : f[Parent[b]] \in Nat /\ f[b] = Difficulty[b] + f[Parent[b]]
    BY <1>0, <1>2, Zenon
  <2>1. \A b \in AllBlocks : f[b] = Difficulty[b] + (IF b = Genesis THEN 0 ELSE f[Parent[b]])
    BY <1>0, <1>2, <2>0
  <2> QED
    BY <2>1
<1>4. Td = CHOOSE x : Is(x)
  BY DEF Td
<1>5. Is(Td)
  <2> HIDE DEF Is
  <2> QED
    BY <1>3, <1>4
<1>6. Td[Genesis] = Difficulty[Genesis] /\ \A b \in Blocks : Td[b] = Difficulty[b] + Td[Parent[b]]
  BY <1>0, <1>5
<1>7. AllBlocks \subseteq {b \in AllBlocks : Td[b] \in Nat}
  <2>1. \A b \in Blocks : Td[Parent[b]] \in Nat => Td[b] \in Nat
    BY <1>0, <1>6
  <2> HIDE DEF Is
  <2> QED
    BY <1>0, <1>6, <2>1, ParentInduction, Zenon
<1>8. Td = [b \in AllBlocks |-> Td[b]]
  BY <1>5
<1> QED
  BY <1>6, <1>7, <1>8, Zenon

(* The chain of a block is itself and the chain of its parent. *)
LEMMA ChainValue ==
  /\ Chain \in [AllBlocks -> SUBSET AllBlocks]
  /\ Chain[Genesis] = {Genesis}
  /\ \A b \in Blocks : Chain[b] = {b} \cup Chain[Parent[b]]
<1> DEFINE Is(f) == f = [b \in AllBlocks |-> {b} \cup (IF b = Genesis THEN {} ELSE f[Parent[b]])]
           V == SUBSET AllBlocks
           g == [b \in Blocks |-> [s \in V |-> {b} \cup s]]
<1>0. /\ \A b \in AllBlocks : b # Genesis => b \in Blocks
      /\ \A b \in Blocks : b \in AllBlocks /\ b # Genesis /\ Parent[b] \in AllBlocks
      /\ Genesis \in AllBlocks
  BY ChainAssumption DEF AllBlocks
<1>1. g \in [Blocks -> [V -> V]]
  BY <1>0
<1>2. PICK f \in [AllBlocks -> V] :
         f[Genesis] = {Genesis} /\ \A b \in Blocks : f[b] = g[b][f[Parent[b]]]
  <2>1. {Genesis} \in V
    BY <1>0
  <2> HIDE DEF g, V
  <2> QED
    BY <1>1, <2>1, ChainRecursion
<1>3. Is(f)
  <2>1. \A b \in AllBlocks : f[b] = {b} \cup (IF b = Genesis THEN {} ELSE f[Parent[b]])
    BY <1>0, <1>2, Zenon
  <2> QED
    BY <2>1
<1>4. Chain = CHOOSE x : Is(x)
  BY DEF Chain
<1>5. Is(Chain)
  <2> HIDE DEF Is
  <2> QED
    BY <1>3, <1>4
<1>6. Chain[Genesis] = {Genesis} /\ \A b \in Blocks : Chain[b] = {b} \cup Chain[Parent[b]]
  BY <1>0, <1>5
<1>7. \A b \in AllBlocks : Chain[b] \subseteq AllBlocks
  <2> DEFINE T == {b \in AllBlocks : Chain[b] \subseteq AllBlocks}
  <2>1. Genesis \in T
    BY <1>0, <1>6
  <2>2. \A b \in Blocks : Parent[b] \in T => b \in T
    BY <1>0, <1>6
  <2>3. AllBlocks \subseteq T
    BY <2>1, <2>2, ParentInduction, Zenon
  <2> QED
    BY <2>3
<1>8. Chain = [b \in AllBlocks |-> Chain[b]]
  BY <1>5
<1> QED
  BY <1>6, <1>7, <1>8

(* A set of blocks that has the parent of each of its blocks has their chains. *)
Closed(S) == \A b \in S \cap Blocks : Parent[b] \in S

LEMMA ChainClosed ==
  ASSUME NEW S, Closed(S), NEW b \in AllBlocks, b \in S
  PROVE  Chain[b] \subseteq S
<1> DEFINE T == {x \in AllBlocks : x \in S => Chain[x] \subseteq S}
<1>1. Genesis \in T
  BY ChainValue DEF AllBlocks
<1>2. \A x \in Blocks : Parent[x] \in T => x \in T
  BY ChainValue DEF AllBlocks, Closed
<1>3. AllBlocks \subseteq T
  BY <1>1, <1>2, ParentInduction, Zenon
<1> QED
  BY <1>3

(* The numbers go down by one along a chain to that of the genesis block. *)
LEMMA ChainNumbers ==
  ASSUME NEW b \in AllBlocks
  PROVE  /\ b \in Chain[b] /\ Genesis \in Chain[b]
         /\ \A x \in Chain[b] : Number[x] <= Number[b] /\ Chain[x] \subseteq Chain[b]
         /\ \A x, y \in Chain[b] : Number[x] <= Number[y] => x \in Chain[y]
         /\ \A n \in Number[Genesis]..Number[b] : \E x \in Chain[b] : Number[x] = n
<1> DEFINE Good(c) == /\ c \in Chain[c] /\ Genesis \in Chain[c]
                      /\ \A x \in Chain[c] : Number[x] <= Number[c] /\ Chain[x] \subseteq Chain[c]
                      /\ \A x, y \in Chain[c] : Number[x] <= Number[y] => x \in Chain[y]
                      /\ \A n \in Number[Genesis]..Number[c] : \E x \in Chain[c] : Number[x] = n
           T == {c \in AllBlocks : Good(c)}
<1>0. /\ \A c \in Blocks : Parent[c] \in AllBlocks /\ Number[c] = Number[Parent[c]] + 1
                             /\ c \in AllBlocks /\ c # Genesis
      /\ \A c \in AllBlocks : Number[c] \in Nat /\ (c # Genesis => c \in Blocks)
      /\ Genesis \in AllBlocks
      /\ \A c \in AllBlocks : Chain[c] \subseteq AllBlocks
      /\ Chain[Genesis] = {Genesis} /\ \A c \in Blocks : Chain[c] = {c} \cup Chain[Parent[c]]
  BY ChainAssumption, ChainValue DEF AllBlocks
<1>1. Genesis \in T
  BY <1>0
<1>2. ASSUME NEW c \in Blocks, Parent[c] \in T PROVE c \in T
  <2> DEFINE p == Parent[c]
  <2>1. Good(p) /\ Chain[c] = {c} \cup Chain[p] /\ Number[c] = Number[p] + 1
    BY <1>0, <1>2
  <2>2. \A x \in Chain[p] : x \in AllBlocks /\ Number[x] \in Nat /\ Number[x] < Number[c]
    BY <1>0, <2>1
  <2>3. c \in Chain[c] /\ Genesis \in Chain[c] /\ c \in AllBlocks
    BY <1>0, <2>1
  <2>4. \A x \in Chain[c] : Number[x] <= Number[c] /\ Chain[x] \subseteq Chain[c]
    BY <1>0, <2>1, <2>2
  <2>5. \A x, y \in Chain[c] : Number[x] <= Number[y] => x \in Chain[y]
    BY <1>0, <2>1, <2>2
  <2>6. ASSUME NEW n \in Number[Genesis]..Number[c] PROVE \E x \in Chain[c] : Number[x] = n
    <3>1. n = Number[c] \/ n \in Number[Genesis]..Number[p]
      BY <1>0, <2>1
    <3> QED
      BY <2>1, <2>3, <3>1
  <2> QED
    BY <2>3, <2>4, <2>5, <2>6
<1>3. AllBlocks \subseteq T
  <2> HIDE DEF Good
  <2> QED
    BY <1>1, <1>2, ParentInduction, Zenon
<1> QED
  BY <1>3

(* No two blocks of a chain have the same number. *)
LEMMA NumbersDiffer ==
  ASSUME NEW b \in AllBlocks, NEW x \in Chain[b], NEW y \in Chain[b], Number[x] = Number[y]
  PROVE  x = y
<1>1. x \in AllBlocks /\ y \in AllBlocks /\ Number[x] \in Nat /\ Number[y] \in Nat
  BY ChainValue, ChainAssumption
<1>2. x \in Chain[y]
  BY <1>1, ChainNumbers
<1>3. CASE y = Genesis
  BY <1>2, <1>3, ChainValue
<1>4. CASE y \in Blocks
  <2>1. Parent[y] \in AllBlocks /\ Number[y] = Number[Parent[y]] + 1 /\ Number[Parent[y]] \in Nat
    BY <1>4, ChainAssumption
  <2>2. x = y \/ x \in Chain[Parent[y]]
    BY <1>2, <1>4, ChainValue
  <2>3. x \in Chain[Parent[y]] => Number[x] <= Number[Parent[y]]
    BY <2>1, ChainNumbers
  <2> QED
    BY <1>1, <2>1, <2>2, <2>3
<1> QED
  BY <1>1, <1>3, <1>4 DEF AllBlocks

(* The first common block of two chains is the last that is on both. *)
LEMMA CommonBlock ==
  ASSUME NEW b \in AllBlocks, currentBlock \in AllBlocks
  PROVE  /\ Common(b) \in Chain[b] \cap Chain[currentBlock]
         /\ \A y \in Chain[b] \cap Chain[currentBlock] : Number[y] <= Number[Common(b)]
<1> DEFINE both == Chain[b] \cap Chain[currentBlock]
           D == {Number[b] - Number[x] : x \in both}
<1>1. both # {} /\ \A x \in both : Number[x] \in Nat /\ Number[b] \in Nat /\ Number[x] <= Number[b]
  BY ChainNumbers, ChainValue, ChainAssumption
<1>2. D \subseteq Nat /\ D # {}
  BY <1>1
<1>3. PICK n \in D : \A m \in D : n <= m
  <2> HIDE DEF D
  <2> QED
    BY <1>2, Least, Zenon
<1>4. PICK x \in both : n = Number[b] - Number[x]
  BY <1>3
<1>5. \A y \in both : Number[y] <= Number[x]
  <2> SUFFICES ASSUME NEW y \in both PROVE Number[y] <= Number[x]
    OBVIOUS
  <2>1. Number[b] - Number[y] \in D
    OBVIOUS
  <2>2. Number[b] - Number[x] <= Number[b] - Number[y]
    BY <1>3, <1>4, <2>1
  <2> QED
    BY <1>1, <2>2
<1>6. Common(b) = CHOOSE z \in both : \A y \in both : Number[y] <= Number[z]
  BY DEF Common
<1> HIDE DEF both
<1>7. Common(b) \in both /\ \A y \in both : Number[y] <= Number[Common(b)]
  BY <1>5, <1>6
<1> QED
  BY <1>7 DEF both

(* diff gives the blocks of the new chain that are not on the old one. *)
LEMMA DiffBlocks ==
  ASSUME NEW b \in AllBlocks, currentBlock \in AllBlocks
  PROVE  /\ diff(b) \in Seq(AllBlocks)
         /\ ToSet(diff(b)) = Chain[b] \ Chain[currentBlock]
<1> DEFINE c == Common(b)
           n == Number[b] - Number[c]
<1>1. /\ c \in Chain[b] /\ c \in Chain[currentBlock] /\ c \in AllBlocks
      /\ \A y \in Chain[b] \cap Chain[currentBlock] : Number[y] <= Number[c]
  BY CommonBlock, ChainValue
<1>2. /\ \A x \in Chain[b] : x \in AllBlocks /\ Number[x] \in Nat /\ Number[x] <= Number[b]
      /\ Number[b] \in Nat /\ Number[c] \in Nat /\ Number[Genesis] \in Nat
      /\ Number[Genesis] <= Number[c] /\ Number[c] <= Number[b]
  <2>1. Genesis \in Chain[c] /\ Genesis \in AllBlocks
    BY <1>1, ChainNumbers DEF AllBlocks
  <2> QED
    BY <1>1, <2>1, ChainNumbers, ChainValue, ChainAssumption
<1> HIDE DEF c
<1>3. n \in Nat /\ diff(b) = [i \in 1..n |-> Ancestor(b, Number[b] + 1 - i)]
  BY <1>2 DEF diff, c
<1>4. \A m \in Number[Genesis]..Number[b] : Ancestor(b, m) \in Chain[b] /\ Number[Ancestor(b, m)] = m
  BY ChainNumbers DEF Ancestor
<1>5. ASSUME NEW i \in 1..n
      PROVE  Ancestor(b, Number[b] + 1 - i) \in Chain[b] \ Chain[currentBlock]
  <2>1. Number[b] + 1 - i \in Number[Genesis]..Number[b] /\ Number[b] + 1 - i > Number[c]
    BY <1>2, <1>3
  <2> DEFINE a == Ancestor(b, Number[b] + 1 - i)
  <2>2. a \in Chain[b] /\ Number[a] = Number[b] + 1 - i
    BY <1>4, <2>1
  <2> HIDE DEF a
  <2>3. a \notin Chain[currentBlock]
    BY <1>1, <1>2, <2>1, <2>2
  <2> QED
    BY <2>2, <2>3 DEF a
<1>6. ASSUME NEW x \in Chain[b] \ Chain[currentBlock]
      PROVE  \E i \in 1..n : Ancestor(b, Number[b] + 1 - i) = x
  <2>1. Number[x] > Number[c]
    <3> SUFFICES ASSUME Number[x] <= Number[c] PROVE FALSE
      BY <1>2
    <3>1. x \in Chain[c]
      BY <1>1, ChainNumbers
    <3>2. Chain[c] \subseteq Chain[currentBlock]
      BY <1>1, ChainNumbers
    <3> QED
      BY <3>1, <3>2
  <2>2. /\ Number[b] + 1 - Number[x] \in 1..n
        /\ Number[b] + 1 - (Number[b] + 1 - Number[x]) = Number[x]
        /\ Number[x] \in Number[Genesis]..Number[b]
    BY <1>2, <2>1
  <2>3. Ancestor(b, Number[x]) = x
    BY <1>4, <2>2, NumbersDiffer
  <2> QED
    BY <2>2, <2>3
<1>7. Chain[b] \subseteq AllBlocks
  BY ChainValue
<1> HIDE DEF n
<1>8. diff(b) \in Seq(AllBlocks) /\ DOMAIN diff(b) = 1..n
  BY <1>3, <1>5, <1>7
<1>9. \A i \in 1..n : diff(b)[i] = Ancestor(b, Number[b] + 1 - i)
  BY <1>3
<1>10. ToSet(diff(b)) = {diff(b)[i] : i \in 1..n}
  BY <1>8 DEF ToSet
<1> QED
  BY <1>5, <1>6, <1>8, <1>9, <1>10

(* The blocks that WriteBlock inserts: the last one is the block itself. *)
LEMMA AppendBlock ==
  ASSUME NEW q \in Seq(AllBlocks), NEW b \in AllBlocks
  PROVE  /\ Append(q, b) \in Seq(AllBlocks) /\ Append(q, b) # <<>>
         /\ Len(Append(q, b)) = Len(q) + 1
         /\ Append(q, b)[Len(Append(q, b))] = b
         /\ ToSet(Append(q, b)) = ToSet(q) \cup {b}
<1> DEFINE r == Append(q, b)
<1>1. /\ r \in Seq(AllBlocks) /\ r # <<>> /\ Len(r) = Len(q) + 1
      /\ \A i \in 1..Len(q) : r[i] = q[i]
      /\ r[Len(q) + 1] = b
  BY AppendProperties
<1>2. Len(q) \in Nat /\ DOMAIN q = 1..Len(q) /\ DOMAIN r = 1..Len(r)
  BY <1>1, LenProperties
<1> HIDE DEF r
<1>3. ToSet(q) = {q[i] : i \in 1..Len(q)} /\ ToSet(r) = {r[i] : i \in 1..(Len(q) + 1)}
  BY <1>1, <1>2 DEF ToSet
<1>4. 1..(Len(q) + 1) = 1..Len(q) \cup {Len(q) + 1}
  BY <1>2
<1>5. ToSet(r) = ToSet(q) \cup {b}
  BY <1>1, <1>3, <1>4
<1> QED
  BY <1>1, <1>5 DEF r

LEMMA TailBlocks ==
  ASSUME NEW S, NEW q \in Seq(S), q # <<>>
  PROVE  /\ Head(q) \in S /\ Tail(q) \in Seq(S) /\ Len(q) \in Nat \ {0}
         /\ Len(Tail(q)) = Len(q) - 1
         /\ Head(q) \in ToSet(q) /\ ToSet(q) \subseteq {Head(q)} \cup ToSet(Tail(q))
         /\ ToSet(Tail(q)) \subseteq ToSet(q) /\ ToSet(q) \subseteq S
         /\ IF Len(q) = 1 THEN Tail(q) = <<>> /\ Head(q) = q[Len(q)]
            ELSE Tail(q) # <<>> /\ Tail(q)[Len(Tail(q))] = q[Len(q)]
<1> DEFINE r == Tail(q)
<1>1. /\ Head(q) \in S /\ r \in Seq(S) /\ Len(r) = Len(q) - 1 /\ Head(q) = q[1]
      /\ \A i \in 1..(Len(q) - 1) : r[i] = q[i + 1]
  BY HeadTailProperties
<1>2. Len(q) \in Nat \ {0} /\ DOMAIN q = 1..Len(q) /\ DOMAIN r = 1..Len(r)
  BY <1>1, EmptySeq, LenProperties
<1>3. Len(r) = 0 <=> r = <<>>
  BY <1>1, EmptySeq
<1> HIDE DEF r
<1>4. ToSet(q) = {q[i] : i \in 1..Len(q)} /\ ToSet(r) = {r[i] : i \in 1..(Len(q) - 1)}
  BY <1>1, <1>2 DEF ToSet
<1>5. ASSUME NEW x \in ToSet(q) PROVE x = Head(q) \/ x \in ToSet(r)
  <2>1. PICK i \in 1..Len(q) : x = q[i]
    BY <1>4
  <2>2. i = 1 \/ (i - 1 \in 1..(Len(q) - 1) /\ (i - 1) + 1 = i)
    BY <1>2
  <2>3. i # 1 => r[i - 1] = x
    BY <1>1, <2>1, <2>2
  <2> QED
    BY <1>1, <1>4, <2>1, <2>2, <2>3
<1>6. ToSet(r) \subseteq ToSet(q)
  <2>1. \A i \in 1..(Len(q) - 1) : i + 1 \in 1..Len(q)
    BY <1>2
  <2> QED
    BY <1>1, <1>4, <2>1
<1>7. Head(q) \in ToSet(q)
  BY <1>1, <1>2, <1>4
<1>8. ToSet(q) \subseteq S
  BY <1>4, ElementOfSeq
<1>9. Len(q) # 1 => r[Len(r)] = q[Len(q)]
  BY <1>1, <1>2
<1> QED
  BY <1>1, <1>2, <1>3, <1>5, <1>6, <1>7, <1>8, <1>9 DEF r

(* What the writes make of a database. *)
LEMMA Puts ==
  ASSUME NEW d \in Databases, NEW b \in AllBlocks
  PROVE  /\ [d EXCEPT !.has = @ \cup {b}] \in Databases
         /\ [d EXCEPT !.has = @ \cup {b}].has = d.has \cup {b}
         /\ [d EXCEPT !.has = @ \cup {b}].num = d.num
         /\ [d EXCEPT !.last = b] \in Databases
         /\ [d EXCEPT !.last = b].has = d.has /\ [d EXCEPT !.last = b].num = d.num
         /\ [d EXCEPT !.checkpoint = b] \in Databases
         /\ [d EXCEPT !.checkpoint = b].has = d.has /\ [d EXCEPT !.checkpoint = b].num = d.num
         /\ [d EXCEPT !.num[Number[b]] = b] \in Databases
         /\ [d EXCEPT !.num[Number[b]] = b].has = d.has
         /\ [d EXCEPT !.num[Number[b]] = b].num = [d.num EXCEPT ![Number[b]] = b]
BY DEF Databases

LEMMA GenesisPut ==
  ASSUME NEW d \in Databases
  PROVE  /\ GenesisDB(d) \in Databases
         /\ GenesisDB(d).has = d.has \cup {Genesis}
         /\ GenesisDB(d).num = [d.num EXCEPT ![Number[Genesis]] = Genesis]
BY Zenon DEF GenesisDB, Databases, AllBlocks

LEMMA EmptyType == EmptyDB \in Databases /\ EmptyDB.has = {} /\ EmptyDB.num = [n \in Numbers |-> None]
BY DEF EmptyDB, Databases

-----------------------------------------------------------------------------
(* WriteBlock: what it has still to insert is on the chain of its block, which
   comes last, after its total difficulty; InsertChain runs only while there
   is a head.                                                              *)
Writing ==
    /\ IsFiniteSet(futureBlocks)
    /\ inserting # "no" => currentBlock # None
    /\ at # "idle" => inserting # "no"
    /\ at = "idle" <=> writing = None
    /\ at \in {"idle", "has"} => inserts = <<>>
    /\ at = "td" => Len(inserts) = 1
    /\ at \in {"td", "num", "last", "checkpoint", "head"} =>
          inserts # <<>> /\ inserts[Len(inserts)] = writing
    /\ at # "idle" => ToSet(inserts) \subseteq Chain[writing]

(* Unless a flush has failed, a block is stored after its parent, in memory and
   on disk, and only stored blocks and the one in work become the head.    *)
Stored ==
    /\ lost # 0 => Crashes
    /\ lost = 0 =>
          /\ Closed(db.has) /\ Closed(disk.has)
          /\ cached \subseteq db.has /\ Genesis \in db.has
          /\ disk.last # None => Genesis \in disk.has
          /\ at # "idle" => Parent[writing] \in db.has
          /\ currentBlock # None => currentBlock \in db.has \cup {writing}
          /\ currentBlock # None /\ announced # None => announced \in db.has \cup {writing}

Inv == TypeOK /\ Writing /\ Stored

(* td is that of the head, or of the block that is about to become it. *)
Weights ==
    /\ currentBlock # None /\ inserts = <<>> =>
          /\ td = Td[currentBlock]
          /\ \A b \in db.has : Td[b] <= td
          /\ at # "idle" => Td[writing] <= td
    /\ inserts # <<>> =>
          /\ \A b \in db.has : Td[b] <= Td[writing]
          /\ Len(inserts) = 1 /\ at # "td" => td = Td[writing]

(* The blocks of the head's chain are in the index, or about to be. *)
Indexed ==
    /\ currentBlock # None /\ inserts = <<>> =>
          \A b \in Chain[currentBlock] : db.num[Number[b]] = b
    /\ inserts # <<>> =>
          /\ \A b \in Chain[writing] : db.num[Number[b]] = b \/ b \in ToSet(inserts)
          /\ at \in {"last", "checkpoint", "head"} => db.num[Number[Head(inserts)]] = Head(inserts)


-----------------------------------------------------------------------------
(* The variables have their types, and blocks are stored in order, whatever
   was flushed when the process crashed.                                   *)
THEOREM TypeCorrect == Spec => []Inv
<1> USE DEF AllBlocks
<1>0. /\ Genesis \notin Blocks /\ None \notin Blocks /\ None # Genesis
      /\ Parent \in [Blocks -> AllBlocks]
  BY ChainAssumption
<1>1. Init => Inv
  <2> SUFFICES ASSUME Init PROVE Inv
    OBVIOUS
  <2>1. db \in Databases /\ disk \in Databases /\ db.has = {Genesis} /\ disk.has = {} /\ disk.last = None
    BY EmptyType, GenesisPut, Zenon DEF Init, EmptyDB
  <2>2. td \in Nat
    BY TdValue DEF Init
  <2>3. checkpoint \in 0..CheckpointLimit /\ delay \in [Blocks -> 0..2]
    BY ChainAssumption DEF Init
  <2>4. TypeOK
    BY <2>1, <2>2, <2>3, EmptySeq, Zenon DEF Init, TypeOK
  <2>5. IsFiniteSet(futureBlocks)
    BY FS_EmptySet DEF Init
  <2>6. Writing
    BY <2>5 DEF Init, Writing
  <2>7. Stored
    BY <1>0, <2>1 DEF Init, Stored, Closed
  <2> QED
    BY <2>4, <2>6, <2>7 DEF Inv
<1>2. Inv /\ [Next]_vars => Inv'
  <2> SUFFICES ASSUME Inv, [Next]_vars PROVE Inv'
    BY Zenon
  <2>0. TypeOK /\ Writing /\ Stored
    BY DEF Inv
  <2>1. ASSUME UNCHANGED <<db, disk, cached, currentBlock, writing, inserts, at, announced, lost>>,
               IsFiniteSet(futureBlocks'), inserting' # "no" => currentBlock # None,
               at # "idle" => inserting' # "no"
        PROVE  Writing' /\ Stored'
    BY <2>0, <2>1 DEF Writing, Stored
  <2>2. ASSUME UNCHANGED <<db, disk, cached, currentBlock, writing, inserts, at, announced,
                           futureBlocks, inserting, lost>>
        PROVE  Writing' /\ Stored'
    BY <2>0, <2>2 DEF Writing, Stored
  <2>3. ASSUME NEW blocks \in Chains, InsertChain(blocks) PROVE Inv'
    <3>1. blocks \in Seq(Blocks)
      BY ChainAssumption
    <3>2. TypeOK'
      BY <2>0, <2>3, <3>1, EmptySeq
         DEF InsertChain, TypeOK, memVars, writeVars, loopVars, stopVars, dbVars, restVars
    <3>3. IsFiniteSet(futureBlocks')
      BY <2>0, <2>3 DEF InsertChain, Writing, memVars, dbVars, restVars
    <3>4. Writing' /\ Stored'
      BY <2>1, <2>3, <3>3 DEF InsertChain, memVars, writeVars, loopVars, dbVars, restVars
    <3> QED
      BY <3>2, <3>4 DEF Inv
  <2>4. ASSUME Ready
        PROVE  /\ NextBlock \in Blocks /\ Tail(chain) \in Seq(Blocks) /\ at = "idle"
               /\ Parent[NextBlock] \in AllBlocks /\ currentBlock # None /\ inserting # "no"
    BY <1>0, <2>0, <2>4, TailBlocks DEF Ready, NextBlock, TypeOK, Writing
  <2>5. CASE SkipKnown
    <3>1. TypeOK'
      BY <2>0, <2>4, <2>5
         DEF SkipKnown, TypeOK, memVars, writeVars, loopVars, stopVars, dbVars, restVars
    <3>2. Writing' /\ Stored'
      BY <2>2, <2>5 DEF SkipKnown, memVars, writeVars, loopVars, dbVars, restVars
    <3> QED
      BY <3>1, <3>2 DEF Inv
  <2>6. CASE KeepForLater
    <3>1. TypeOK'
      BY <2>0, <2>4, <2>6 DEF KeepForLater, TypeOK, writeVars, loopVars, stopVars, dbVars, restVars
    <3>2. IsFiniteSet(futureBlocks')
      BY <2>0, <2>6, FS_AddElement DEF KeepForLater, Writing, dbVars, restVars
    <3>3. Writing' /\ Stored'
      BY <2>1, <2>4, <2>6, <3>2 DEF KeepForLater, writeVars, loopVars, dbVars, restVars
    <3> QED
      BY <3>1, <3>3 DEF Inv
  <2>7. CASE Fail
    <3>1. unposted' \in BOOLEAN
      BY <2>7 DEF Fail, dbVars, restVars
    <3>2. inserting' = "no" /\ chain' = <<>> /\ queue' = <<>> /\ loop' \in {loop, "select"}
      BY <2>7 DEF Fail, LeaveCall, dbVars, restVars
    <3>3. /\ UNCHANGED <<dbVars, memVars, writeVars, posting, handling, room, retry, announced, stop,
                         delay, lost>>
          /\ at = "idle"
      BY <2>4, <2>7 DEF Fail, dbVars, restVars
    <3>4. TypeOK'
      BY <2>0, <3>1, <3>2, <3>3, EmptySeq DEF TypeOK, memVars, writeVars, dbVars, restVars
    <3>5. IsFiniteSet(futureBlocks')
      BY <2>0, <3>3, Zenon DEF Writing, memVars, dbVars, restVars
    <3>6. Writing' /\ Stored'
      BY <2>1, <3>2, <3>3, <3>5 DEF memVars, writeVars, dbVars, restVars
    <3> QED
      BY <3>4, <3>6 DEF Inv
  <2>8. CASE WriteBlock
    <3> DEFINE b == NextBlock
    <3>1. /\ Ready /\ Accepts(b) /\ writing' = b /\ chain' = Tail(chain)
          /\ UNCHANGED <<dbVars, memVars, inserting, loopVars, stopVars, restVars>>
      BY <2>8 DEF WriteBlock, dbVars, restVars
    <3>2. /\ b \in Blocks /\ b # None /\ Tail(chain) \in Seq(Blocks) /\ currentBlock \in AllBlocks
          /\ lost = 0 => Parent[b] \in db.has
          /\ inserting # "no" /\ currentBlock # None /\ at = "idle"
      BY <1>0, <2>0, <2>4, <3>1 DEF Accepts, HasBlock, TypeOK, Stored
    <3>3. at' = Todo(inserts')
      BY <2>8 DEF WriteBlock, dbVars, restVars
    <3>4. \E e \in Events : queue' = Append(queue, e)
      <4>1. [type |-> "canon", block |-> b] \in Events /\ [type |-> "side", block |-> b] \in Events
        BY <3>2 DEF Events
      <4> QED
        BY <2>8, <4>1 DEF WriteBlock, dbVars, restVars
    <3>5. queue' \in Seq(Events)
      BY <2>0, <3>4, AppendProperties DEF TypeOK
    <3>6. inserts' = <<>> \/ \E q \in {<<>>, diff(b)} : inserts' = Append(q, b)
      BY <2>8, Zenon DEF WriteBlock, dbVars, restVars
    <3> HIDE DEF b
    <3>7. \/ inserts' = <<>>
          \/ /\ inserts' \in Seq(AllBlocks) /\ inserts' # <<>> /\ Len(inserts') \in Nat \ {0}
             /\ inserts'[Len(inserts')] = b /\ ToSet(inserts') \subseteq Chain[b]
      <4>1. b \in AllBlocks /\ b \in Chain[b]
        BY <3>2, ChainNumbers
      <4>2. <<>> \in Seq(AllBlocks) /\ ToSet(<<>>) = {}
        BY EmptySeq DEF ToSet
      <4>3. diff(b) \in Seq(AllBlocks) /\ ToSet(diff(b)) \subseteq Chain[b]
        BY <3>2, <4>1, DiffBlocks
      <4>4. \A q \in Seq(AllBlocks) : ToSet(q) \subseteq Chain[b] =>
               /\ Append(q, b) \in Seq(AllBlocks) /\ Append(q, b) # <<>>
               /\ Len(Append(q, b)) \in Nat \ {0}
               /\ Append(q, b)[Len(Append(q, b))] = b /\ ToSet(Append(q, b)) \subseteq Chain[b]
        BY <4>1, AppendBlock, LenProperties
      <4>5. ASSUME NEW q \in {<<>>, diff(b)}, inserts' = Append(q, b)
            PROVE  /\ inserts' \in Seq(AllBlocks) /\ inserts' # <<>> /\ Len(inserts') \in Nat \ {0}
                   /\ inserts'[Len(inserts')] = b /\ ToSet(inserts') \subseteq Chain[b]
        <5>1. q \in Seq(AllBlocks) /\ ToSet(q) \subseteq Chain[b]
          BY <4>2, <4>3, <4>5, Zenon
        <5> HIDE DEF AllBlocks
        <5> QED
          BY <4>4, <4>5, <5>1
      <4> QED
        BY <3>6, <4>5
    <3>8. /\ at' \in {"has", "td", "num"}
          /\ at' = "has" <=> inserts' = <<>>
          /\ at' = "td" => Len(inserts') = 1
      <4>1. Len(<<>>) = 0
        BY EmptySeq
      <4> QED
        BY <3>3, <3>7, <4>1 DEF Todo
    <3>9. TypeOK'
      <4>1. inserts' \in Seq(AllBlocks)
        BY <3>7, EmptySeq, Zenon
      <4> QED
        BY <2>0, <3>1, <3>2, <3>5, <3>8, <4>1
           DEF TypeOK, memVars, loopVars, stopVars, dbVars, restVars
    <3>10. Writing'
      <4>1. ToSet(<<>>) = {}
        BY DEF ToSet
      <4>2. ToSet(inserts') \subseteq Chain[b]
        BY <3>7, <4>1
      <4> QED
        BY <2>0, <3>1, <3>2, <3>7, <3>8, <4>2 DEF Writing, memVars, dbVars, restVars
    <3>11. Stored'
      BY <2>0, <3>1, <3>2, Zenon DEF Stored, memVars, loopVars, Writing, dbVars, restVars
    <3> QED
      BY <3>9, <3>10, <3>11 DEF Inv
  <2>9. ASSUME at # "idle"
        PROVE  /\ writing \in Blocks /\ inserting # "no"
               /\ lost = 0 => /\ Parent[writing] \in db.has
                             /\ Chain[writing] \subseteq db.has \cup {writing}
    <3>1. writing \in Blocks /\ inserting # "no" /\ writing \in AllBlocks
      BY <2>0, <2>9 DEF TypeOK, Writing
    <3>2. ASSUME lost = 0
          PROVE  Parent[writing] \in db.has /\ Chain[writing] \subseteq db.has \cup {writing}
      <4>1. Parent[writing] \in db.has
        BY <2>0, <2>9, <3>2 DEF Stored
      <4>2. Closed(db.has \cup {writing})
        BY <2>0, <3>2, <4>1 DEF Closed, Stored
      <4> QED
        BY <3>1, <4>1, <4>2, ChainClosed
    <3> QED
      BY <3>1, <3>2
  <2>10. ASSUME at \in {"td", "num", "last", "checkpoint", "head"}
         PROVE  /\ inserts # <<>> /\ Head(inserts) \in AllBlocks
                /\ Head(inserts) \in ToSet(inserts) /\ ToSet(inserts) \subseteq Chain[writing]
    BY <2>0, <2>10, TailBlocks DEF Writing, TypeOK
  <2>11. CASE SetTotalDifficulty
    <3>1. td' \in Nat
      BY <2>9, <2>11, TdValue DEF SetTotalDifficulty, dbVars, restVars
    <3>2. TypeOK'
      BY <2>0, <2>11, <3>1 DEF SetTotalDifficulty, TypeOK, loopVars, stopVars, dbVars, restVars
    <3>3. Writing' /\ Stored'
      BY <2>0, <2>11 DEF SetTotalDifficulty, Writing, Stored, loopVars, dbVars, restVars
    <3> QED
      BY <3>2, <3>3 DEF Inv
  <2>12. CASE WriteNumber
    <3>1. db' \in Databases /\ db'.has = db.has
      BY <2>0, <2>10, <2>12, Puts, Zenon DEF WriteNumber, TypeOK, dbVars, restVars
    <3>2. TypeOK'
      BY <2>0, <2>12, <3>1 DEF WriteNumber, TypeOK, memVars, loopVars, stopVars, dbVars, restVars
    <3>3. Writing' /\ Stored'
      BY <2>0, <2>12, <3>1 DEF WriteNumber, Writing, Stored, memVars, loopVars, dbVars, restVars
    <3> QED
      BY <3>2, <3>3 DEF Inv
  <2>13. CASE WriteLast
    <3>1. db' \in Databases /\ db'.has = db.has
      BY <2>0, <2>10, <2>13, Puts, Zenon DEF WriteLast, TypeOK, dbVars, restVars
    <3>2. TypeOK'
      BY <2>0, <2>13, <3>1 DEF WriteLast, TypeOK, memVars, loopVars, stopVars, dbVars, restVars
    <3>3. Writing' /\ Stored'
      BY <2>0, <2>13, <3>1 DEF WriteLast, Writing, Stored, memVars, loopVars, dbVars, restVars
    <3> QED
      BY <3>2, <3>3 DEF Inv
  <2>14. CASE Checkpoint
    <3>0. /\ db \in Databases /\ checkpoint \in 0..CheckpointLimit /\ CheckpointLimit \in Nat
          /\ Head(inserts) \in AllBlocks
      BY <2>0, <2>10, <2>14, ChainAssumption DEF Checkpoint, TypeOK, dbVars, restVars
    <3>a. \/ checkpoint < CheckpointLimit /\ checkpoint' = checkpoint + 1 /\ db' = db
          \/ checkpoint' = 0 /\ db' = [db EXCEPT !.checkpoint = Head(inserts)]
      BY <2>14 DEF Checkpoint, dbVars, restVars
    <3>b. /\ [db EXCEPT !.checkpoint = Head(inserts)] \in Databases
          /\ [db EXCEPT !.checkpoint = Head(inserts)].has = db.has
      BY <3>0, Puts, Zenon
    <3>1. db' \in Databases /\ db'.has = db.has
      BY <3>0, <3>a, <3>b, Zenon
    <3>2. checkpoint' \in 0..CheckpointLimit
      BY <3>0, <3>a
    <3>3. TypeOK'
      BY <2>0, <2>14, <3>1, <3>2 DEF Checkpoint, TypeOK, loopVars, stopVars, dbVars, restVars
    <3>4. Writing' /\ Stored'
      BY <2>0, <2>14, <3>1 DEF Checkpoint, Writing, Stored, loopVars, dbVars, restVars
    <3> QED
      BY <3>3, <3>4 DEF Inv
  <2>15. CASE SetCurrent
    <3>1. /\ at = "head" /\ currentBlock' = Head(inserts) /\ inserts' = Tail(inserts)
          /\ at' = Todo(inserts')
          /\ UNCHANGED <<dbVars, td, checkpoint, futureBlocks, inserting, chain, writing, queue,
                         loopVars, stopVars, restVars>>
      BY <2>15 DEF SetCurrent, dbVars, restVars
    <3>2. /\ Head(inserts) \in AllBlocks /\ writing \in Blocks /\ inserting # "no"
          /\ inserts # <<>> /\ ToSet(inserts) \subseteq Chain[writing]
          /\ lost = 0 => Head(inserts) \in db.has \cup {writing} /\ Parent[writing] \in db.has
      BY <2>9, <2>10, <3>1
    <3>3. /\ inserts' \in Seq(AllBlocks) /\ Len(inserts') \in Nat
          /\ ToSet(inserts') \subseteq Chain[writing]
          /\ Len(inserts') = 0 <=> inserts' = <<>>
          /\ inserts' # <<>> => inserts'[Len(inserts')] = writing
      <4>1. inserts \in Seq(AllBlocks) /\ inserts[Len(inserts)] = writing
        BY <2>0, <3>1 DEF TypeOK, Writing
      <4>2. /\ inserts' \in Seq(AllBlocks) /\ ToSet(inserts') \subseteq ToSet(inserts)
            /\ inserts' # <<>> => inserts'[Len(inserts')] = inserts[Len(inserts)]
        BY <3>1, <3>2, <4>1, TailBlocks
      <4>3. Len(inserts') \in Nat /\ (Len(inserts') = 0 <=> inserts' = <<>>)
        BY <4>2
      <4> QED
        BY <3>2, <4>1, <4>2, <4>3
    <3>a. at' = IF Len(inserts') = 0 THEN "has" ELSE IF Len(inserts') = 1 THEN "td" ELSE "num"
      BY <3>1, <3>3 DEF Todo
    <3>4. /\ at' \in {"has", "td", "num"}
          /\ at' = "has" <=> inserts' = <<>>
          /\ at' = "td" => Len(inserts') = 1
      BY <3>3, <3>a
    <3>5. TypeOK'
      BY <2>0, <3>1, <3>2, <3>3, <3>4 DEF TypeOK, loopVars, stopVars, dbVars, restVars
    <3>6. Writing'
      BY <1>0, <2>0, <3>1, <3>2, <3>3, <3>4 DEF Writing
    <3>7. Stored'
      BY <2>0, <3>1, <3>2 DEF Stored, Writing, loopVars, dbVars, restVars
    <3> QED
      BY <3>5, <3>6, <3>7 DEF Inv
  <2>16. CASE Store
    <3>1. writing \in AllBlocks /\ (lost = 0 => Parent[writing] \in db.has)
      BY <2>9, <2>16 DEF Store, dbVars, restVars
    <3>2. db' \in Databases /\ db'.has = db.has \cup {writing}
      BY <2>0, <2>16, <3>1, Puts, Zenon DEF Store, TypeOK, dbVars, restVars
    <3>3. TypeOK'
      BY <2>0, <2>16, <3>2 DEF Store, TypeOK, loopVars, stopVars, dbVars, restVars
    <3>4. IsFiniteSet(futureBlocks')
      BY <2>0, <2>16, FS_RemoveElement DEF Store, Writing, dbVars, restVars
    <3>5. Writing'
      BY <2>0, <2>16, <3>4 DEF Store, Writing, dbVars, restVars
    <3>6. lost = 0 => Closed(db'.has)
      BY <2>0, <3>1, <3>2 DEF Closed, Stored
    <3>7. Stored'
      BY <2>0, <2>16, <3>2, <3>6 DEF Store, Stored, loopVars, dbVars, restVars
    <3> QED
      BY <3>3, <3>5, <3>7 DEF Inv
  <2>17. CASE Return
    <3>1. /\ inserting' = "no" /\ chain' = <<>> /\ queue' = <<>> /\ loop' \in {loop, "select"}
          /\ at = "idle" /\ posting' \subseteq posting \cup {queue}
          /\ UNCHANGED <<dbVars, memVars, writeVars, handling, room, retry, announced, stop, restVars>>
      BY <2>17 DEF Return, LeaveCall, dbVars, restVars
    <3>2. TypeOK'
      BY <2>0, <3>1, EmptySeq DEF TypeOK, memVars, writeVars, dbVars, restVars
    <3>3. IsFiniteSet(futureBlocks')
      BY <2>0, <3>1 DEF Writing, memVars, dbVars, restVars
    <3>4. Writing' /\ Stored'
      BY <2>1, <3>1, <3>3 DEF memVars, writeVars, dbVars, restVars
    <3> QED
      BY <3>2, <3>4 DEF Inv
  <2>18. CASE ReceiveAny
    <3>1. PICK events \in posting : Receive(events)
      BY <2>18 DEF ReceiveAny
    <3>2. TypeOK'
      BY <2>0, <3>1 DEF Receive, TypeOK, memVars, callVars, writeVars, stopVars, dbVars, restVars
    <3>3. Writing' /\ Stored'
      BY <2>2, <3>1 DEF Receive, memVars, callVars, writeVars, dbVars, restVars
    <3> QED
      BY <3>2, <3>3 DEF Inv
  <2>19. CASE Handle
    <3>1. Tail(handling) \in Seq(Events) /\ announced' \in {announced, currentBlock}
      BY <2>0, <2>19, TailBlocks DEF Handle, TypeOK, dbVars, restVars
    <3>2. TypeOK'
      BY <2>0, <2>19, <3>1
         DEF Handle, TypeOK, memVars, callVars, writeVars, stopVars, dbVars, restVars
    <3>3. Writing'
      BY <2>0, <2>19, Zenon DEF Handle, Writing, memVars, callVars, writeVars, dbVars, restVars
    <3>4. Stored'
      BY <2>0, <2>19, <3>1 DEF Handle, Stored, memVars, callVars, writeVars, dbVars, restVars
    <3> QED
      BY <3>2, <3>3, <3>4 DEF Inv
  <2>a. Cardinality(futureBlocks) \in Nat
    BY <2>0, FS_CardinalityType DEF Writing
  <2>b. CASE ReadLength
    <3>1. TypeOK'
      BY <2>0, <2>a, <2>b DEF ReadLength, TypeOK, memVars, callVars, writeVars, dbVars, restVars
    <3>2. Writing' /\ Stored'
      BY <2>2, <2>b DEF ReadLength, memVars, callVars, writeVars, dbVars, restVars
    <3> QED
      BY <3>1, <3>2 DEF Inv
  <2>20. CASE ReadKeys
    <3>1. retry' \in Seq(Blocks)
      <4>2. retry' \in [1..Cardinality(futureBlocks) -> futureBlocks]
        BY <2>20 DEF ReadKeys, InOrderOfNumber, dbVars, restVars
      <4>3. futureBlocks \subseteq Blocks
        BY <2>0 DEF TypeOK
      <4> QED
        BY <2>a, <4>2, <4>3
    <3>2. TypeOK'
      BY <2>0, <2>20, <3>1 DEF ReadKeys, TypeOK, memVars, callVars, writeVars, dbVars, restVars
    <3>3. Writing' /\ Stored'
      BY <2>2, <2>20 DEF ReadKeys, memVars, callVars, writeVars, dbVars, restVars
    <3> QED
      BY <3>2, <3>3 DEF Inv
  <2>21. CASE ReadBlocks
    <3>1. CASE currentBlock' = None
      <4>1. /\ inserting' = "no" /\ chain' = <<>> /\ queue' = <<>> /\ writing' = None
            /\ inserts' = <<>> /\ at' = "idle" /\ retry' = <<>> /\ room' = 0 /\ loop' = "gone"
            /\ UNCHANGED <<dbVars, td, checkpoint, futureBlocks, posting, handling, announced,
                           stop, restVars>>
        BY <2>21, <3>1 DEF ReadBlocks, memVars, dbVars, restVars
      <4>2. TypeOK'
        BY <2>0, <3>1, <4>1, EmptySeq DEF TypeOK, dbVars, restVars
      <4>3. Writing'
        BY <2>0, <4>1 DEF Writing
      <4>4. Stored'
        BY <2>0, <3>1, <4>1 DEF Stored, dbVars, restVars
      <4> QED
        BY <4>2, <4>3, <4>4 DEF Inv
    <3>2. CASE currentBlock' # None
      <4>1. /\ loop' = "blocks" /\ room' = 0
            /\ UNCHANGED <<dbVars, memVars, callVars, posting, handling, retry, announced, stop,
                           restVars>>
        BY <2>21, <3>2 DEF ReadBlocks, dbVars, restVars
      <4>2. TypeOK'
        BY <2>0, <4>1 DEF TypeOK, memVars, callVars, writeVars, loopVars, dbVars, restVars
      <4>3. Writing' /\ Stored'
        BY <2>2, <4>1 DEF memVars, callVars, writeVars, loopVars, dbVars, restVars
      <4> QED
        BY <4>2, <4>3 DEF Inv
    <3> QED
      BY <3>1, <3>2
  <2>22. CASE InsertFuture
    <3>1. TypeOK'
      BY <2>0, <2>22, EmptySeq
         DEF InsertFuture, TypeOK, memVars, writeVars, stopVars, dbVars, restVars
    <3>2. IsFiniteSet(futureBlocks')
      BY <2>0, <2>22 DEF InsertFuture, Writing, memVars, dbVars, restVars
    <3>3. Writing' /\ Stored'
      BY <2>1, <2>22, <3>2 DEF InsertFuture, memVars, writeVars, dbVars, restVars
    <3> QED
      BY <3>1, <3>3 DEF Inv
  <2>23. CASE Stop \/ StopReturns \/ LoopQuits
    <3>1. TypeOK'
      <4>1. /\ stop' \in {"no", "waiting", "returned"} /\ loop' \in {"select", "length", "keys", "blocks", "gone"}
            /\ UNCHANGED <<dbVars, memVars, callVars, loopVars, restVars>>
        BY <2>0, <2>23 DEF Stop, StopReturns, LoopQuits, TypeOK, dbVars, restVars
      <4> QED
        BY <2>0, <4>1 DEF TypeOK, memVars, callVars, writeVars, loopVars, dbVars, restVars
    <3>2. Writing' /\ Stored'
      BY <2>2, <2>23
         DEF Stop, StopReturns, LoopQuits, memVars, callVars, writeVars, loopVars, dbVars, restVars
    <3> QED
      BY <3>1, <3>2 DEF Inv
  <2>24. ASSUME NEW b \in Blocks, TimePasses(b) PROVE Inv'
    <3>1. delay' \in [Blocks -> 0..2]
      <4>1. delay[b] \in 0..2 /\ delay[b] > 0
        BY <2>0, <2>24 DEF TimePasses, TypeOK, dbVars, restVars
      <4>2. delay[b] - 1 \in 0..2
        BY <4>1
      <4> QED
        BY <2>0, <2>24, <4>2 DEF TimePasses, TypeOK, dbVars, restVars
    <3>2. TypeOK'
      BY <2>0, <2>24, <3>1
         DEF TimePasses, TypeOK, memVars, callVars, writeVars, loopVars, stopVars, dbVars, restVars
    <3>3. Writing' /\ Stored'
      BY <2>2, <2>24 DEF TimePasses, memVars, callVars, writeVars, loopVars, dbVars, restVars
    <3> QED
      BY <3>2, <3>3 DEF Inv
  <2>25. CASE Flush
    <3>1. UNCHANGED <<memVars, callVars, loopVars, stopVars, delay, unposted>> /\ Crashes
      BY <2>25, Zenon DEF Flush
    <3>2. \/ disk' = db /\ UNCHANGED <<db, cached, lost>>
          \/ db' = disk /\ disk' = disk /\ lost' = lost + 1 /\ cached' \subseteq cached \cup db.has
      BY <2>25, Zenon DEF Flush
    <3>3. db \in Databases /\ disk \in Databases /\ cached \cup db.has \subseteq AllBlocks /\ lost \in Nat
      BY <2>0 DEF TypeOK, Databases
    <3>4. db' \in Databases /\ disk' \in Databases /\ cached' \subseteq AllBlocks /\ lost' \in Nat
      BY <3>2, <3>3
    <3>5. TypeOK'
      BY <2>0, <3>1, <3>4
         DEF TypeOK, memVars, callVars, writeVars, loopVars, stopVars, dbVars, restVars
    <3>6. Writing'
      BY <2>0, <3>1, Zenon DEF Writing, memVars, callVars, writeVars, dbVars, restVars
    <3>7. lost' = 0 => lost = 0 /\ db' = db /\ disk' = db /\ cached' = cached
      BY <3>2, <3>3
    <3>8. Stored'
      BY <2>0, <3>1, <3>7, Zenon DEF Stored, memVars, callVars, writeVars, loopVars, dbVars, restVars
    <3> QED
      BY <3>5, <3>6, <3>8 DEF Inv
  <2>26. CASE Crash
    <3> DEFINE head == LastState(disk)
    <3>0. /\ disk \in Databases /\ disk.has \subseteq AllBlocks
          /\ lost = 0 => Closed(disk.has) /\ (disk.last # None => Genesis \in disk.has)
          /\ disk.last \in AllBlocks \cup {None} /\ disk.checkpoint \in AllBlocks \cup {None}
      BY <2>0 DEF TypeOK, Databases, Stored
    <3>1. /\ currentBlock' = head /\ announced' = head /\ writing' = None /\ inserts' = <<>>
          /\ at' = "idle" /\ inserting' = "no" /\ chain' = <<>> /\ queue' = <<>>
          /\ posting' = {} /\ handling' = <<>> /\ room' = 0 /\ retry' = <<>>
          /\ stop' = "no" /\ loop' = "select" /\ cached' = {Genesis}
          /\ unposted' = FALSE /\ futureBlocks' = {} /\ UNCHANGED <<disk, delay, lost>>
          /\ td' = (IF head = None THEN 0 ELSE Td[head])
          /\ checkpoint' = (IF disk.last = None THEN 1 ELSE 0)
          /\ db' = IF disk.last = None THEN GenesisDB(disk)
                   ELSE IF head = None THEN disk ELSE [disk EXCEPT !.last = head]
      BY <2>26 DEF Crash
    <3>2. head \in AllBlocks \cup {None}
      BY <3>0, Zenon DEF LastState, Recovered
    <3>3. disk.last # None /\ head # None => head \in disk.has
      BY <3>0, Zenon DEF LastState, Recovered
    <3>4. disk.last = None => head = Genesis
      BY DEF LastState
    <3> HIDE DEF head
    <3>5. /\ db' \in Databases
          /\ db'.has = IF disk.last = None THEN disk.has \cup {Genesis} ELSE disk.has
      BY <3>0, <3>1, <3>2, <3>4, Puts, GenesisPut, Zenon
    <3>6. td' \in Nat
      BY <3>1, <3>2, TdValue
    <3>7. checkpoint' \in 0..CheckpointLimit
      BY <3>1, ChainAssumption
    <3>8. TypeOK'
      BY <2>0, <3>1, <3>2, <3>5, <3>6, <3>7, EmptySeq, Zenon DEF TypeOK
    <3>9. IsFiniteSet(futureBlocks')
      BY <3>1, FS_EmptySet
    <3>10. Writing'
      BY <3>1, <3>9 DEF Writing
    <3>11. lost = 0 => Closed(db'.has) /\ Genesis \in db'.has
      BY <1>0, <3>0, <3>5 DEF Closed
    <3>12. head # None => head \in db'.has
      BY <3>3, <3>4, <3>5
    <3>13. Stored'
      BY <2>0, <3>0, <3>1, <3>11, <3>12 DEF Stored
    <3> QED
      BY <3>8, <3>10, <3>13 DEF Inv
  <2>27. CASE UNCHANGED vars
    <3>1. TypeOK'
      BY <2>0, <2>27
         DEF vars, TypeOK, memVars, callVars, writeVars, loopVars, stopVars, dbVars, restVars
    <3>2. Writing' /\ Stored'
      BY <2>2, <2>27 DEF vars, memVars, callVars, writeVars, loopVars, dbVars, restVars
    <3> QED
      BY <3>1, <3>2 DEF Inv
  <2> QED
    BY <2>3, <2>5, <2>6, <2>7, <2>8, <2>11, <2>12, <2>13, <2>14, <2>15, <2>16, <2>17, <2>18,
       <2>19, <2>b, <2>20, <2>21, <2>22, <2>23, <2>24, <2>25, <2>26, <2>27 DEF Next, Write
<1> QED
  BY <1>1, <1>2, PTL DEF Spec

(* The head and all its ancestors are stored, wherever the process crashed,
   unless a flush has failed: setLastState takes only a block that it finds, and a block is stored after
   its parent.                                                             *)
THEOREM ChainStoredHolds == Spec => []ChainStored
<1>1. Inv => ChainStored
  <2> SUFFICES ASSUME Inv, Settled, lost = 0 PROVE Chain[currentBlock] \subseteq db.has
    BY DEF ChainStored
  <2>1. currentBlock \in AllBlocks /\ currentBlock \in db.has /\ Closed(db.has)
    BY Zenon DEF Inv, TypeOK, Writing, Stored, Settled
  <2> QED
    BY <2>1, ChainClosed
<1> QED
  BY <1>1, TypeCorrect, PTL

(* diff finds every block it walks to, so merge never fails, unless a flush has
   failed.                                                                 *)
THEOREM JoinableHolds == Spec => []Joinable
<1>1. Inv => Joinable
  <2> SUFFICES ASSUME Inv, Settled, lost = 0, NEW b \in Blocks, Accepts(b) PROVE ~DiffFails(b)
    BY DEF Joinable
  <2>1. /\ currentBlock \in AllBlocks /\ currentBlock \in db.has /\ Closed(db.has)
        /\ cached \subseteq db.has
    BY Zenon DEF Inv, TypeOK, Writing, Stored, Settled
  <2>2. Chain[currentBlock] \subseteq db.has
    BY <2>1, ChainClosed
  <2>3. b \in AllBlocks /\ Closed(db.has \cup {b})
    BY <2>1, Zenon DEF Closed, Accepts, HasBlock, AllBlocks
  <2>4. Chain[b] \subseteq db.has \cup {b}
    <3> DEFINE S == db.has \cup {b}
    <3>1. b \in S /\ Closed(S) /\ b \in AllBlocks
      BY <2>3
    <3> HIDE DEF S
    <3>2. Chain[b] \subseteq S
      BY <3>1, ChainClosed
    <3> QED
      BY <3>2 DEF S
  <2> QED
    BY <2>2, <2>4 DEF DiffFails, HasBlock
<1> QED
  BY <1>1, TypeCorrect, PTL

-----------------------------------------------------------------------------
(* Without a crash, only WriteBlock changes the head and what is stored, until
   the manager dies.                                                       *)
LEMMA OnlyWrites ==
  ASSUME ~Crashes, [Next]_vars
  PROVE  \/ UNCHANGED <<db, currentBlock, td, writing, inserts, at>>
         \/ currentBlock' = None /\ inserts' = <<>>
         \/ WriteBlock \/ Write
<1> DEFINE Same == UNCHANGED <<db, currentBlock, td, writing, inserts, at>>
<1>1. (\E blocks \in Chains : InsertChain(blocks)) => Same
  BY DEF InsertChain, memVars, writeVars, dbVars, restVars
<1>2. SkipKnown \/ KeepForLater \/ Fail \/ Return => Same
  BY Zenon DEF SkipKnown, KeepForLater, Fail, Return, memVars, writeVars, dbVars, restVars
<1>3. ReceiveAny \/ Handle \/ ReadLength \/ ReadKeys \/ InsertFuture => Same
  BY
     DEF ReceiveAny, Receive, Handle, ReadLength, ReadKeys, InsertFuture, memVars, callVars,
         writeVars, dbVars, restVars
<1>4. ReadBlocks => Same \/ (currentBlock' = None /\ inserts' = <<>>)
  <2>1. ReadBlocks => \/ UNCHANGED <<dbVars, memVars, callVars>>
                      \/ currentBlock' = None /\ inserts' = <<>>
    BY Zenon DEF ReadBlocks, dbVars, restVars
  <2>2. UNCHANGED <<dbVars, memVars, callVars>> => Same
    BY DEF memVars, callVars, writeVars, dbVars, restVars
  <2> HIDE DEF Same
  <2> QED
    BY <2>1, <2>2
<1>5. Stop \/ StopReturns \/ LoopQuits \/ (\E b \in Blocks : TimePasses(b)) => Same
  BY DEF Stop, StopReturns, LoopQuits, TimePasses, memVars, callVars, writeVars, dbVars, restVars
<1>6. UNCHANGED vars => Same
  BY DEF vars, memVars, callVars, writeVars, dbVars, restVars
<1>7. ~Flush /\ ~Crash
  BY DEF Flush, Crash
<1> HIDE DEF Same
<1>8. Same \/ (currentBlock' = None /\ inserts' = <<>>) \/ WriteBlock \/ Write
  BY <1>1, <1>2, <1>3, <1>4, <1>5, <1>6, <1>7 DEF Next
<1> QED
  BY <1>8 DEF Same

(* What WriteBlock has to insert: for a heavier block, its chain up to the
   block itself from where it leaves that of the head.                     *)
LEMMA WriteBlockInserts ==
  ASSUME Inv, WriteBlock
  PROVE  /\ writing' \in Blocks /\ at = "idle" /\ inserts = <<>>
         /\ currentBlock # None /\ currentBlock \in AllBlocks
         /\ UNCHANGED <<db, currentBlock, td>>
         /\ \/ /\ Td[writing'] > td /\ inserts' # <<>>
               /\ Chain[writing'] \subseteq Chain[currentBlock] \cup ToSet(inserts')
               /\ at' \in {"td", "num"} /\ (Len(inserts') = 1 => at' = "td")
            \/ /\ ~(Td[writing'] > td) /\ inserts' = <<>>
<1> USE DEF AllBlocks
<1> DEFINE b == NextBlock
<1>1. /\ writing' = b /\ at = "idle" /\ chain # <<>> /\ inserting # "no" /\ at' = Todo(inserts')
      /\ UNCHANGED <<db, currentBlock, td>>
      /\ \/ Heavier(b) /\ inserts' = Append(IF Forks(b) THEN diff(b) ELSE <<>>, b)
         \/ ~Heavier(b) /\ inserts' = <<>>
  BY DEF WriteBlock, Ready, memVars, dbVars, restVars
<1>2. /\ b \in Blocks /\ currentBlock # None /\ currentBlock \in AllBlocks /\ inserts = <<>>
      /\ b \in AllBlocks
  BY <1>1, TailBlocks DEF NextBlock, Inv, TypeOK, Writing
<1> HIDE DEF b
<1>3. CASE Heavier(b)
  <2> DEFINE q == IF Forks(b) THEN diff(b) ELSE <<>>
  <2>1. <<>> \in Seq(AllBlocks) /\ ToSet(<<>>) = {}
    BY EmptySeq DEF ToSet
  <2>2. diff(b) \in Seq(AllBlocks) /\ ToSet(diff(b)) = Chain[b] \ Chain[currentBlock]
    BY <1>2, DiffBlocks
  <2>3. Chain[b] = {b} \cup Chain[Parent[b]]
    BY <1>2, ChainValue
  <2>4. q \in Seq(AllBlocks) /\ Chain[b] \subseteq Chain[currentBlock] \cup ToSet(q) \cup {b}
    BY <2>1, <2>2, <2>3 DEF Forks
  <2>5. inserts' = Append(q, b)
    BY <1>1, <1>3
  <2> HIDE DEF q
  <2>6. /\ inserts' # <<>> /\ Len(inserts') = Len(q) + 1 /\ ToSet(inserts') = ToSet(q) \cup {b}
        /\ Len(q) \in Nat
    BY <1>2, <2>4, <2>5, AppendBlock, LenProperties
  <2>7. at' = IF Len(inserts') = 1 THEN "td" ELSE "num"
    BY <1>1, <2>6 DEF Todo
  <2> QED
    BY <1>1, <1>2, <1>3, <2>4, <2>6, <2>7 DEF Heavier
<1> QED
  BY <1>1, <1>2, <1>3 DEF Heavier

(* SetCurrent makes the next block the head; after the last one, the block that
   is being written is.                                                    *)
LEMMA SetCurrentSteps ==
  ASSUME Inv, SetCurrent
  PROVE  /\ at = "head" /\ inserts # <<>> /\ currentBlock' = Head(inserts)
         /\ UNCHANGED <<db, td, writing>>
         /\ Len(inserts) \in Nat \ {0} /\ Len(inserts') = Len(inserts) - 1
         /\ ToSet(inserts) \subseteq {Head(inserts)} \cup ToSet(inserts')
         /\ IF Len(inserts) = 1 THEN inserts' = <<>> /\ currentBlock' = writing
            ELSE inserts' # <<>> /\ at' = IF Len(inserts') = 1 THEN "td" ELSE "num"
<1>1. /\ at = "head" /\ currentBlock' = Head(inserts) /\ UNCHANGED <<db, td, writing>>
      /\ inserts' = Tail(inserts) /\ at' = Todo(inserts')
  BY DEF SetCurrent, dbVars, restVars
<1>2. inserts # <<>> /\ inserts[Len(inserts)] = writing /\ inserts \in Seq(AllBlocks)
  BY <1>1 DEF Inv, TypeOK, Writing
<1>3. /\ Len(inserts) \in Nat \ {0} /\ Len(inserts') = Len(inserts) - 1
      /\ ToSet(inserts) \subseteq {Head(inserts)} \cup ToSet(inserts')
      /\ IF Len(inserts) = 1 THEN inserts' = <<>> /\ Head(inserts) = writing
         ELSE inserts' # <<>>
  BY <1>1, <1>2, TailBlocks
<1>4. Len(inserts) # 1 => at' = IF Len(inserts') = 1 THEN "td" ELSE "num"
  BY <1>1, <1>3 DEF Todo
<1> QED
  BY <1>1, <1>2, <1>3, <1>4

(* The Puts of insert leave the stored blocks alone, and only the first one
   changes the index.                                                      *)
LEMMA PutSteps ==
  ASSUME Inv, WriteNumber \/ WriteLast \/ Checkpoint
  PROVE  /\ at # "td" /\ at' \in {"last", "checkpoint", "head"}
         /\ inserts # <<>> /\ Head(inserts) \in AllBlocks
         /\ UNCHANGED <<currentBlock, td, writing, inserts>>
         /\ db'.has = db.has
         /\ db'.num = IF at = "num" THEN [db.num EXCEPT ![Number[Head(inserts)]] = Head(inserts)]
                      ELSE db.num
<1>1. /\ at \in {"num", "last", "checkpoint"} /\ at' \in {"last", "checkpoint", "head"}
      /\ UNCHANGED <<currentBlock, td, writing, inserts>>
  BY DEF WriteNumber, WriteLast, Checkpoint, memVars, dbVars, restVars
<1>2. inserts # <<>> /\ Head(inserts) \in AllBlocks /\ db \in Databases
  BY <1>1, TailBlocks DEF Inv, Writing, TypeOK
<1>3. CASE WriteNumber
  <2>1. at = "num" /\ db' = [db EXCEPT !.num[Number[Head(inserts)]] = Head(inserts)]
    BY <1>3 DEF WriteNumber, dbVars, restVars
  <2> QED
    BY <1>1, <1>2, <2>1, Puts
<1>4. CASE WriteLast
  <2>1. at = "last" /\ db' = [db EXCEPT !.last = Head(inserts)]
    BY <1>4 DEF WriteLast, dbVars, restVars
  <2> QED
    BY <1>1, <1>2, <2>1, Puts
<1>5. CASE Checkpoint
  <2>1. at = "checkpoint" /\ (db' = db \/ db' = [db EXCEPT !.checkpoint = Head(inserts)])
    BY <1>5, Zenon DEF Checkpoint, dbVars, restVars
  <2>a. /\ [db EXCEPT !.checkpoint = Head(inserts)].has = db.has
        /\ [db EXCEPT !.checkpoint = Head(inserts)].num = db.num
    BY <1>2, Puts
  <2>2. db'.has = db.has /\ db'.num = db.num
    BY <2>1, <2>a, Zenon
  <2>3. at # "num" /\ UNCHANGED <<currentBlock, td, writing, inserts>>
    BY <1>1, <2>1
  <2> QED
    BY <1>1, <1>2, <2>2, <2>3
<1> QED
  BY <1>3, <1>4, <1>5

LEMMA WeightsHold == ASSUME ~Crashes PROVE Spec => []Weights
<1>1. Init => Weights
  <2> SUFFICES ASSUME Init PROVE Weights
    OBVIOUS
  <2>1. db.has = {Genesis} /\ currentBlock = Genesis /\ td = Td[Genesis] /\ inserts = <<>> /\ at = "idle"
    BY EmptyType, GenesisPut, Zenon DEF Init
  <2>2. td \in Nat
    BY <2>1, TdValue DEF AllBlocks
  <2> QED
    BY <2>1, <2>2 DEF Weights
<1>2. Inv /\ Weights /\ [Next]_vars => Weights'
  <2> SUFFICES ASSUME Inv, Weights, [Next]_vars PROVE Weights'
    OBVIOUS
  <2>0. /\ td \in Nat /\ \A b \in AllBlocks : Td[b] \in Nat
        /\ db.has \subseteq AllBlocks /\ db \in Databases
    BY TdValue, Zenon DEF Inv, TypeOK, Databases
  <2>1. CASE UNCHANGED <<db, currentBlock, td, writing, inserts, at>>
    BY <2>1 DEF Weights
  <2>2. CASE currentBlock' = None /\ inserts' = <<>>
    BY <2>2 DEF Weights
  <2>3. CASE WriteBlock
    <3>1. Td[writing'] \in Nat
      BY <2>0, <2>3, WriteBlockInserts DEF AllBlocks
    <3> QED
      BY <2>0, <2>3, <3>1, WriteBlockInserts DEF Weights
  <2>4. CASE SetTotalDifficulty
    <3>1. at = "td" /\ inserts # <<>> /\ td' = Td[writing] /\ UNCHANGED <<db, currentBlock, writing, inserts>>
      BY <2>4 DEF SetTotalDifficulty, Inv, Writing, dbVars, restVars
    <3> QED
      BY <3>1 DEF Weights
  <2>5. CASE WriteNumber \/ WriteLast \/ Checkpoint
    BY <2>5, PutSteps DEF Weights
  <2>6. CASE SetCurrent
    <3>1. CASE Len(inserts) = 1
      <4>1. /\ inserts' = <<>> /\ currentBlock' = writing /\ UNCHANGED <<db, td, writing>>
            /\ td = Td[writing] /\ \A b \in db.has : Td[b] <= Td[writing]
        BY <2>6, <3>1, SetCurrentSteps DEF Weights
      <4> QED
        BY <2>0, <4>1 DEF Weights
    <3>2. CASE Len(inserts) # 1
      BY <2>6, <3>2, SetCurrentSteps DEF Weights
    <3> QED
      BY <3>1, <3>2
  <2>7. CASE Store
    <3>1. /\ at = "has" /\ at' = "idle" /\ UNCHANGED <<currentBlock, td, inserts>> /\ inserts = <<>>
          /\ currentBlock # None /\ writing \in AllBlocks /\ db' = [db EXCEPT !.has = @ \cup {writing}]
      BY <2>7 DEF Store, Inv, Writing, TypeOK, AllBlocks, dbVars, restVars
    <3>2. db'.has = db.has \cup {writing}
      BY <2>0, <3>1, Puts
    <3> QED
      BY <3>1, <3>2 DEF Weights
  <2> QED
    BY <2>1, <2>2, <2>3, <2>4, <2>5, <2>6, <2>7, OnlyWrites DEF Write
<1> QED
  BY <1>1, <1>2, TypeCorrect, PTL DEF Spec

(* With no crash, the head is the heaviest block stored, through every
   reorganisation (WriteBlock, merge).                                     *)
THEOREM HeaviestHolds == ASSUME ~Crashes PROVE Spec => []Heaviest
<1>1. Inv /\ Weights => Heaviest
  BY DEF Inv, Writing, Weights, Heaviest, Settled
<1> QED
  BY <1>1, TypeCorrect, WeightsHold, PTL

(* With no crash, a ChainHeadEvent for a lighter block than the one before is
   posted only in the middle of a reorganisation (update, merge).          *)
THEOREM HeadsGrowHold == ASSUME ~Crashes PROVE Spec => HeadsGrow
<1> DEFINE Grows == [announced' # None /\ announced # None /\ Td[announced'] < Td[announced]
                       => at # "idle"]_announced
<1>1. ASSUME Inv, Weights, [Next]_vars PROVE Grows
  <2>1. CASE Handle
    <3> SUFFICES ASSUME announced' # announced, announced # None, at = "idle"
                 PROVE  ~(Td[announced'] < Td[announced])
      OBVIOUS
    <3>1. announced' = currentBlock /\ currentBlock # None
      BY <2>1 DEF Handle, dbVars, restVars
    <3>2. inserts = <<>> /\ writing = None
      BY <1>1 DEF Inv, Writing
    <3>3. td = Td[currentBlock] /\ \A b \in db.has : Td[b] <= td
      BY <1>1, <3>1, <3>2 DEF Weights
    <3>4. announced \in AllBlocks /\ currentBlock \in AllBlocks /\ announced \in db.has
      <4>1. announced \in db.has \cup {None}
        BY <1>1, <3>1, <3>2 DEF Inv, Stored
      <4> QED
        BY <1>1, <3>1, <4>1 DEF Inv, TypeOK
    <3>5. Td[announced] \in Nat /\ Td[currentBlock] \in Nat
      BY <3>4, TdValue
    <3> QED
      BY <3>1, <3>3, <3>4, <3>5
  <2>2. ~Handle => announced' = announced
    <3>1. (\E blocks \in Chains : InsertChain(blocks)) => announced' = announced
      BY DEF InsertChain, loopVars, dbVars, restVars
    <3>2. SkipKnown \/ KeepForLater \/ Fail \/ WriteBlock \/ Return => announced' = announced
      BY Zenon DEF SkipKnown, KeepForLater, Fail, WriteBlock, Return, loopVars, dbVars, restVars
    <3>3. Write => announced' = announced
      BY
         DEF Write, SetTotalDifficulty, WriteNumber, WriteLast, Checkpoint, SetCurrent, Store,
             loopVars, dbVars, restVars
    <3>4. ReceiveAny \/ ReadLength \/ ReadKeys \/ ReadBlocks \/ InsertFuture => announced' = announced
      BY
         DEF ReceiveAny, Receive, ReadLength, ReadKeys, ReadBlocks, InsertFuture, loopVars,
             dbVars, restVars
    <3>5. Stop \/ StopReturns \/ LoopQuits \/ (\E b \in Blocks : TimePasses(b)) => announced' = announced
      BY DEF Stop, StopReturns, LoopQuits, TimePasses, loopVars, dbVars, restVars
    <3>6. UNCHANGED vars => announced' = announced
      BY DEF vars, loopVars, dbVars, restVars
    <3>7. ~Flush /\ ~Crash
      BY DEF Flush, Crash
    <3> QED
      BY <1>1, <3>1, <3>2, <3>3, <3>4, <3>5, <3>6, <3>7 DEF Next
  <2> QED
    BY <2>1, <2>2
<1> QED
  BY <1>1, TypeCorrect, WeightsHold, PTL DEF Spec, HeadsGrow

LEMMA IndexHolds == ASSUME ~Crashes PROVE Spec => []Indexed
<1>1. Init => Indexed
  <2> SUFFICES ASSUME Init PROVE Indexed
    OBVIOUS
  <2>1. /\ db.num = [EmptyDB.num EXCEPT ![Number[Genesis]] = Genesis]
        /\ EmptyDB.num = [n \in Numbers |-> None] /\ currentBlock = Genesis /\ inserts = <<>>
    BY EmptyType, GenesisPut, Zenon DEF Init
  <2>2. Number[Genesis] \in Numbers
    BY DEF Numbers, AllBlocks
  <2>3. db.num[Number[Genesis]] = Genesis
    BY <2>1, <2>2
  <2> QED
    BY <2>1, <2>3, ChainValue, Zenon DEF Indexed
<1>2. Inv /\ Indexed /\ [Next]_vars => Indexed'
  <2> SUFFICES ASSUME Inv, Indexed, [Next]_vars PROVE Indexed'
    OBVIOUS
  <2>0. db \in Databases /\ db.num \in [Numbers -> AllBlocks \cup {None}]
    BY DEF Inv, TypeOK, Databases
  <2>1. CASE UNCHANGED <<db, currentBlock, td, writing, inserts, at>>
    BY <2>1 DEF Indexed
  <2>2. CASE currentBlock' = None /\ inserts' = <<>>
    BY <2>2 DEF Indexed
  <2>3. CASE WriteBlock
    BY <2>3, WriteBlockInserts DEF Indexed
  <2>4. CASE SetTotalDifficulty
    BY <2>4 DEF SetTotalDifficulty, Indexed, dbVars, restVars
  <2>5. CASE WriteNumber \/ WriteLast \/ Checkpoint
    <3> DEFINE h == Head(inserts)
    <3>1. /\ inserts # <<>> /\ h \in AllBlocks /\ UNCHANGED <<currentBlock, writing, inserts>>
          /\ at' \in {"last", "checkpoint", "head"}
          /\ db'.num = IF at = "num" THEN [db.num EXCEPT ![Number[h]] = h] ELSE db.num
          /\ at # "num" => at \in {"last", "checkpoint"}
      BY <2>5, PutSteps DEF WriteLast, Checkpoint, WriteNumber, dbVars, restVars
    <3>2. /\ h \in Chain[writing] /\ writing \in AllBlocks
          /\ Chain[writing] \subseteq AllBlocks
      <4>1. at # "idle" /\ writing \in AllBlocks /\ ToSet(inserts) \subseteq Chain[writing]
        BY <2>5
           DEF WriteNumber, WriteLast, Checkpoint, Inv, Writing, TypeOK, AllBlocks, dbVars, restVars
      <4>2. h \in ToSet(inserts)
        BY <3>1, TailBlocks DEF Inv, TypeOK
      <4> QED
        BY <4>1, <4>2, ChainValue
    <3> HIDE DEF h
    <3>3. CASE at # "num"
      BY <3>1, <3>3, Zenon DEF Indexed, h
    <3>4. CASE at = "num"
      <4>1. /\ db'.num = [db.num EXCEPT ![Number[h]] = h] /\ Number[h] \in Numbers
            /\ \A b \in Chain[writing] : Number[b] \in Numbers
        BY <3>1, <3>2, <3>4, Zenon DEF Numbers
      <4>2. db'.num[Number[h]] = h
        BY <2>0, <4>1, Zenon
      <4>3. ASSUME NEW b \in Chain[writing] PROVE db'.num[Number[b]] \in {b, db.num[Number[b]]}
        <5>1. Number[b] = Number[h] => b = h
          BY <3>2, NumbersDiffer
        <5> QED
          BY <2>0, <4>1, <4>2, <5>1
      <4> QED
        BY <3>1, <4>2, <4>3, Zenon DEF Indexed, h
    <3> QED
      BY <3>3, <3>4
  <2>6. CASE SetCurrent
    <3>1. /\ \A b \in Chain[writing] : db.num[Number[b]] = b \/ b \in ToSet(inserts)
          /\ db.num[Number[Head(inserts)]] = Head(inserts)
      BY <2>6, SetCurrentSteps DEF Indexed
    <3>2. \A b \in Chain[writing] : db.num[Number[b]] = b \/ b \in ToSet(inserts')
      BY <2>6, <3>1, SetCurrentSteps
    <3>3. CASE Len(inserts) = 1
      <4>1. inserts' = <<>> /\ currentBlock' = writing /\ db' = db
        BY <2>6, <3>3, SetCurrentSteps
      <4>2. ToSet(inserts') = {}
        BY <4>1 DEF ToSet
      <4> QED
        BY <3>2, <4>1, <4>2 DEF Indexed
    <3>4. CASE Len(inserts) # 1
      <4>1. inserts' # <<>> /\ db' = db /\ writing' = writing /\ at' \in {"td", "num"}
        BY <2>6, <3>4, SetCurrentSteps
      <4> QED
        BY <3>2, <4>1 DEF Indexed
    <3> QED
      BY <3>3, <3>4
  <2>7. CASE Store
    <3>1. /\ UNCHANGED <<currentBlock, inserts>> /\ inserts = <<>>
          /\ writing \in AllBlocks /\ db' = [db EXCEPT !.has = @ \cup {writing}]
      BY <2>7 DEF Store, Inv, Writing, TypeOK, AllBlocks, dbVars, restVars
    <3>2. db'.num = db.num
      BY <2>0, <3>1, Puts
    <3> QED
      BY <3>1, <3>2 DEF Indexed
  <2> QED
    BY <2>1, <2>2, <2>3, <2>4, <2>5, <2>6, <2>7, OnlyWrites DEF Write
<1> QED
  BY <1>1, <1>2, TypeCorrect, PTL DEF Spec

(* With no crash, the index by number leads to every ancestor of the head,
   also after merge has inserted the blocks of another chain from the top. *)
THEOREM IndexMatchesHolds == ASSUME ~Crashes PROVE Spec => []IndexMatches
<1>1. Inv /\ Indexed => IndexMatches
  BY DEF Inv, Writing, Indexed, IndexMatches, Settled
<1> QED
  BY <1>1, TypeCorrect, IndexHolds, PTL
=============================================================================
