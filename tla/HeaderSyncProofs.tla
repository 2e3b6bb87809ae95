--------------------------- MODULE HeaderSyncProofs ---------------------------
(***************************************************************************)
(* A sync with an honest peer asks for headers from where our chains part, *)
(* is not refused and waits for nothing in vain as long as no two tracked  *)
(* chains overlap, and ends with a chain at least as heavy as the peer's:  *)
(* for every block tree, every sequence of peers, and any number of        *)
(* requests and downloads that fail.                                       *)
(***************************************************************************)
EXTENDS HeaderSync, ChainManagerProofs, FiniteSetTheorems

-----------------------------------------------------------------------------
(* More about chains.                                                      *)

LEMMA HeightType ==
  ASSUME NEW b \in Blocks
  PROVE  Height(b) \in Nat /\ Len(ChainOf[b]) = Height(b) + 1
BY ChainShape DEF Height

\* The index at a height of a chain is a block of that height on it.
LEMMA IndexAtFacts ==
  ASSUME NEW b \in Blocks, NEW h \in 0 .. Height(b)
  PROVE  /\ IndexAt(b, h) \in Blocks
         /\ Height(IndexAt(b, h)) = h
         /\ OnChain(IndexAt(b, h), b)
<1> DEFINE a == ChainOf[b][h + 1]
<1>1. h + 1 \in 1 .. Len(ChainOf[b]) /\ Len(ChainOf[b]) = Height(b) + 1 /\ Height(b) \in Nat
  BY HeightType
<1>2. a \in Blocks /\ ChainOf[a] = SubSeq(ChainOf[b], 1, h + 1) /\ ChainOf[b] \in Seq(Blocks)
  BY <1>1, PrefixChain, ChainShape
<1>3. Len(ChainOf[a]) = h + 1
  BY <1>1, <1>2
<1> HIDE DEF a
<1>4. Height(a) = h
  BY <1>1, <1>3 DEF Height
<1>5. IndexAt(b, h) = a
  BY DEF IndexAt, a
<1> QED
  BY <1>1, <1>2, <1>4, <1>5 DEF OnChain

\* Below a block of a chain the indices are those of the block's own chain.
LEMMA SameBelow ==
  ASSUME NEW a \in Blocks, NEW b \in Blocks, OnChain(a, b), NEW h \in 0 .. Height(a)
  PROVE  IndexAt(a, h) = IndexAt(b, h)
<1>1. /\ Len(ChainOf[a]) \in 1 .. Len(ChainOf[b])
      /\ ChainOf[a] = SubSeq(ChainOf[b], 1, Len(ChainOf[a]))
      /\ ChainOf[b] \in Seq(Blocks) /\ Len(ChainOf[b]) \in Nat
  BY OnChainPrefix, ChainShape
<1>2. h + 1 \in 1 .. Len(ChainOf[a])
  BY HeightType
<1>3. SubSeq(ChainOf[b], 1, Len(ChainOf[a]))[h + 1] = ChainOf[b][h + 1]
  BY <1>1, <1>2
<1> QED
  BY <1>1, <1>3 DEF IndexAt

\* Of two blocks on a chain the lower one is on the chain of the other.
LEMMA OnChainLinear ==
  ASSUME NEW a \in Blocks, NEW b \in Blocks, NEW c \in Blocks,
         OnChain(a, c), OnChain(b, c), Height(a) <= Height(b)
  PROVE  OnChain(a, b)
<1>1. Height(a) \in 0 .. Height(b)
  BY HeightType
<1>2. IndexAt(b, Height(a)) = IndexAt(c, Height(a))
  BY <1>1, SameBelow
<1> QED
  BY <1>2 DEF OnChain

\* On a chain there is one block of each height.
LEMMA OneOfHeight ==
  ASSUME NEW a \in Blocks, NEW b \in Blocks, OnChain(a, b)
  PROVE  Height(a) <= Height(b) /\ (Height(a) = Height(b) => a = b)
<1>1. OnChain(b, b)
  BY OnChainReflexive
<1> QED
  BY <1>1 DEF OnChain

\* Genesis is on every chain, at height zero.
LEMMA GenesisOnChain ==
  ASSUME NEW b \in Blocks
  PROVE  Genesis \in Blocks /\ Height(Genesis) = 0 /\ OnChain(Genesis, b)
<1>1. Genesis \in Blocks /\ Len(ChainOf[Genesis]) = 1
  BY GenesisAssumption, ChainAssumption
<1>2. Height(Genesis) = 0
  BY <1>1 DEF Height
<1> QED
  BY <1>1, <1>2, ChainStartsAtGenesis, HeightType DEF OnChain, IndexAt

\* The chain of a block is that of its parent and the block.
LEMMA ParentOnChain ==
  ASSUME NEW b \in Blocks, b # Genesis
  PROVE  Parent[b] \in Blocks /\ Height(b) = Height(Parent[b]) + 1 /\ OnChain(Parent[b], b)
<1>1. Parent[b] \in Blocks /\ Len(ChainOf[b]) = Len(ChainOf[Parent[b]]) + 1
  BY ChildChain
<1>2. Height(b) = Height(Parent[b]) + 1
  BY <1>1, ChainShape DEF Height
<1>3. ChainOf[b] = Append(ChainOf[Parent[b]], b)
  BY ChildChain
<1>4. ChainOf[b][Len(ChainOf[Parent[b]])] = Parent[b]
  BY <1>1, <1>3, ChainShape
<1> QED
  BY <1>1, <1>2, <1>4, HeightType DEF OnChain, IndexAt

\* A set of blocks that has the parents of its blocks has their chains.
LEMMA Downward ==
  ASSUME NEW S \in SUBSET Blocks, \A x \in S : x # Genesis => Parent[x] \in S,
         NEW a \in Blocks, NEW b \in S, OnChain(a, b)
  PROVE  a \in S
<1> DEFINE T == {Height(x) : x \in {y \in S : OnChain(a, y)}}
<1>1. T \subseteq Nat /\ T # {}
  BY HeightType
<1>2. PICK n \in T : \A k \in T : n <= k
  BY <1>1, LeastNat
<1>3. PICK x \in S : OnChain(a, x) /\ Height(x) = n
  BY <1>2
<1>4. CASE x = a
  BY <1>4
<1>5. CASE x # a
  <2>1. x # Genesis /\ OnChain(a, Parent[x])
    BY <1>3, <1>5, OnParentChain
  <2>2. Parent[x] \in S /\ Height(x) = Height(Parent[x]) + 1
    BY <2>1, ParentOnChain
  <2>3. Height(Parent[x]) \in T
    BY <2>1, <2>2
  <2>4. n <= Height(Parent[x]) /\ Height(Parent[x]) \in Nat
    BY <1>1, <1>2, <2>3
  <2> QED
    BY <1>3, <2>2, <2>4
<1> QED
  BY <1>4, <1>5

\* What is below a stored block is stored.
LEMMA StoredBelow ==
  ASSUME Inv, NEW a \in Blocks, NEW b \in entries, OnChain(a, b)
  PROVE  a \in entries
<1>1. entries \in SUBSET Blocks /\ \A x \in entries : x # Genesis => Parent[x] \in entries
  BY DEF Inv, TypeOK, StoredChainsValid
<1> QED
  BY <1>1, Downward

\* Work does not decrease along a chain.
LEMMA WorkMonotone ==
  ASSUME NEW a \in Blocks, NEW b \in Blocks, OnChain(a, b)
  PROVE  TotalWork[a] <= TotalWork[b]
<1> DEFINE S == {x \in Blocks : TotalWork[x] <= TotalWork[b]}
<1>1. b \in S
  BY WorkAssumption
<1>2. ASSUME NEW x \in S, x # Genesis PROVE Parent[x] \in S
  <2>1. Parent[x] \in Blocks /\ TotalWork[x] > TotalWork[Parent[x]]
    BY <1>2, ParentOnChain, WorkAssumption DEF Children
  <2> QED
    BY <2>1, WorkAssumption
<1> HIDE DEF S
<1>3. a \in S
  BY <1>1, <1>2, Downward DEF S
<1> QED
  BY <1>3 DEF S

\* Fork is the highest block that two chains share.
LEMMA ForkFacts ==
  ASSUME NEW a \in Blocks, NEW t \in Blocks
  PROVE  /\ Fork(a, t) \in Blocks
         /\ OnChain(Fork(a, t), a) /\ OnChain(Fork(a, t), t)
         /\ \A c \in Blocks : OnChain(c, a) /\ OnChain(c, t) => OnChain(c, Fork(a, t))
<1> DEFINE D == {h \in 1 .. Height(a) : h <= Height(t) /\ IndexAt(a, h) = IndexAt(t, h)}
           U == {h \in Nat : h # 0 /\ h \notin D}
<1>1. Height(a) \in Nat /\ Height(t) \in Nat
  BY HeightType
<1>2. U \subseteq Nat /\ U # {}
  <2>1. Height(a) + 1 \in U
    BY <1>1
  <2> QED
    BY <2>1
<1>3. PICK n \in U : \A h \in U : n <= h
  BY <1>2, LeastNat
<1> DEFINE k == n - 1
<1>4. n \in Nat /\ n # 0 /\ k \in Nat
  BY <1>3
<1>5. D = 1 .. k
  <2>1. ASSUME NEW h \in 1 .. k PROVE h \in D
    <3>1. h \in Nat /\ h # 0 /\ ~(n <= h)
      BY <1>4
    <3> QED
      BY <1>3, <3>1
  <2>2. ASSUME NEW h \in D, n <= h PROVE FALSE
    <3> DEFINE c == IndexAt(a, h)
    <3>1. h \in 0 .. Height(a) /\ h \in 0 .. Height(t) /\ c = IndexAt(t, h)
      BY <1>1
    <3>2. c \in Blocks /\ Height(c) = h /\ OnChain(c, a) /\ OnChain(c, t)
      BY <3>1, IndexAtFacts
    <3> HIDE DEF c
    <3>3. n \in 0 .. Height(c)
      BY <1>4, <2>2, <3>2
    <3>4. IndexAt(c, n) = IndexAt(a, n) /\ IndexAt(c, n) = IndexAt(t, n)
      BY <3>2, <3>3, SameBelow
    <3>5. n \in 1 .. Height(a) /\ n <= Height(t)
      BY <1>1, <1>4, <2>2, <3>1
    <3>6. IndexAt(a, n) = IndexAt(t, n)
      BY <3>4
    <3>7. n \in D
      BY <3>5, <3>6
    <3> QED
      BY <1>3, <3>7
  <2> QED
    BY <1>4, <2>1, <2>2
<1> HIDE DEF k
<1>6. Cardinality(D) = k
  <2>1. Cardinality(1 .. k) = IF 1 > k THEN 0 ELSE k - 1 + 1
    BY <1>4, FS_Interval
  <2> HIDE DEF D
  <2> QED
    BY <1>4, <1>5, <2>1
<1>7. Fork(a, t) = IndexAt(a, k)
  BY <1>6 DEF Fork
<1>8. k \in 0 .. Height(a) /\ k \in 0 .. Height(t) /\ IndexAt(a, k) = IndexAt(t, k)
  <2>1. CASE k = 0
    BY <1>1, <2>1, ChainStartsAtGenesis DEF IndexAt
  <2>2. CASE k # 0
    <3>1. k \in D
      BY <1>4, <1>5, <2>2
    <3> QED
      BY <1>1, <3>1
  <2> QED
    BY <2>1, <2>2
<1>9. Fork(a, t) \in Blocks /\ Height(Fork(a, t)) = k /\ OnChain(Fork(a, t), a) /\ OnChain(Fork(a, t), t)
  BY <1>7, <1>8, IndexAtFacts
<1>10. ASSUME NEW c \in Blocks, OnChain(c, a), OnChain(c, t) PROVE Height(c) <= k
  <2>1. /\ Height(c) \in Nat
        /\ Height(c) <= Height(a) /\ Height(c) <= Height(t)
        /\ IndexAt(a, Height(c)) = IndexAt(t, Height(c))
    BY <1>10, HeightType DEF OnChain
  <2>2. CASE Height(c) = 0
    BY <1>4, <2>2
  <2>3. CASE Height(c) # 0
    <3>1. Height(c) \in D
      BY <1>1, <2>1, <2>3
    <3> QED
      BY <1>4, <1>5, <3>1
  <2> QED
    BY <2>2, <2>3
<1> QED
  BY <1>9, <1>10, OnChainLinear

\* AttachPoint is the highest block of the history on the chain, or Genesis.
LEMMA AttachFacts ==
  ASSUME NEW history \in SUBSET Blocks, NEW t \in Blocks
  PROVE  /\ AttachPoint(history, t) \in history \cup {Genesis}
         /\ AttachPoint(history, t) \in Blocks
         /\ OnChain(AttachPoint(history, t), t)
         /\ \A b \in history : OnChain(b, t) => Height(b) <= Height(AttachPoint(history, t))
<1> DEFINE common == {Genesis} \cup {b \in history : OnChain(b, t)}
           Below(b) == Height(t) - Height(b)
           T == {Below(b) : b \in common}
<1>1. \A b \in common : b \in Blocks /\ OnChain(b, t)
  BY GenesisOnChain
<1>2. ASSUME NEW b \in common PROVE Height(b) \in Nat /\ Below(b) \in Nat
  <2>1. Height(b) \in Nat /\ Height(t) \in Nat /\ Height(b) <= Height(t)
    BY <1>1, HeightType, OneOfHeight
  <2> QED
    BY <2>1
<1>3. Genesis \in common
  OBVIOUS
<1> HIDE DEF common
<1>4. T \subseteq Nat /\ T # {}
  BY <1>2, <1>3
<1>5. PICK n \in T : \A k \in T : n <= k
  BY <1>4, LeastNat
<1>6. PICK b \in common : Below(b) = n
  BY <1>5
<1>7. \A c \in common : Height(c) <= Height(b)
  <2>1. ASSUME NEW c \in common PROVE Height(c) <= Height(b)
    <3>1. Below(b) <= Below(c)
      BY <1>5, <1>6
    <3> QED
      BY <1>2, <3>1, HeightType
  <2> QED
    BY <2>1
<1>8. AttachPoint(history, t) = CHOOSE d \in common : \A c \in common : Height(c) <= Height(d)
  BY DEF AttachPoint, common
<1>9. /\ AttachPoint(history, t) \in common
      /\ \A c \in common : Height(c) <= Height(AttachPoint(history, t))
  BY <1>7, <1>8
<1> QED
  BY <1>1, <1>9 DEF common

\* The headers that are sent are on the peer's chain, above the attach point.
LEMMA LastHeaderFacts ==
  ASSUME NEW a \in Blocks, NEW t \in Blocks, OnChain(a, t), a # t
  PROVE  /\ LastHeader(a, t) \in Blocks
         /\ OnChain(a, LastHeader(a, t)) /\ a # LastHeader(a, t)
<1> DEFINE h == IF Height(t) < Height(a) + MaxHeaders THEN Height(t) ELSE Height(a) + MaxHeaders
<1>1. MaxHeaders \in Nat /\ MaxHeaders # 0
  BY HeaderSyncAssumption, ManagerAssumption
<1>2. Height(a) \in Nat /\ Height(t) \in Nat /\ Height(a) < Height(t)
  BY HeightType, OneOfHeight
<1>3. h \in 0 .. Height(t) /\ Height(a) < h
  BY <1>1, <1>2
<1>4. LastHeader(a, t) = IndexAt(t, h)
  BY DEF LastHeader
<1> HIDE DEF h
<1>5. /\ LastHeader(a, t) \in Blocks /\ Height(LastHeader(a, t)) = h
      /\ OnChain(LastHeader(a, t), t)
  BY <1>3, <1>4, IndexAtFacts
<1> QED
  BY <1>2, <1>3, <1>5, OnChainLinear

-----------------------------------------------------------------------------
(* The spacing of a history.                                               *)

\* Powers of two, by what they count: the subsets of 1 .. n.
LEMMA Subsets ==
  ASSUME NEW n \in Nat
  PROVE  IsFiniteSet(SUBSET (1 .. n)) /\ Cardinality(SUBSET (1 .. n)) = 2 ^ n /\ 2 ^ n \in Nat
<1>1. IsFiniteSet(1 .. n) /\ Cardinality(1 .. n) = n
  <2>1. IsFiniteSet(1 .. n) /\ Cardinality(1 .. n) = IF 1 > n THEN 0 ELSE n - 1 + 1
    BY FS_Interval
  <2> QED
    BY <2>1
<1>2. IsFiniteSet(SUBSET (1 .. n)) /\ Cardinality(SUBSET (1 .. n)) = 2 ^ n
  BY <1>1, FS_SUBSET
<1> QED
  BY <1>2, FS_CardinalityType

\* Half of the subsets of 1 .. n + 1 have n + 1.
LEMMA PowerDoubles ==
  ASSUME NEW n \in Nat
  PROVE  2 ^ (n + 1) = 2 * 2 ^ n
<1> DEFINE S == SUBSET (1 .. n)
           W == {A \cup {n + 1} : A \in S}
           f == [A \in S |-> A \cup {n + 1}]
<1>1. n + 1 \notin 1 .. n /\ 1 .. n + 1 = (1 .. n) \cup {n + 1}
  OBVIOUS
<1>2. SUBSET (1 .. n + 1) = S \cup W
  <2>1. ASSUME NEW A \in SUBSET (1 .. n + 1), n + 1 \in A PROVE A \in W
    <3>1. A \ {n + 1} \in S /\ A = (A \ {n + 1}) \cup {n + 1}
      BY <1>1, <2>1
    <3> QED
      BY <3>1
  <2>2. ASSUME NEW A \in SUBSET (1 .. n + 1), n + 1 \notin A PROVE A \in S
    BY <1>1, <2>2
  <2>3. S \cup W \subseteq SUBSET (1 .. n + 1)
    BY <1>1
  <2> QED
    BY <2>1, <2>2, <2>3
<1>3. S \cap W = {}
  BY <1>1
<1>4. f \in Bijection(S, W)
  <2>1. \A A, B \in S : f[A] = f[B] => A = B
    BY <1>1
  <2>2. f \in [S -> W] /\ \A B \in W : \E A \in S : f[A] = B
    OBVIOUS
  <2> QED
    BY <2>1, <2>2, Zenon DEF Bijection, Injection, Surjection, IsInjective
<1>5. IsFiniteSet(S) /\ Cardinality(S) = 2 ^ n /\ 2 ^ n \in Nat
  BY Subsets
<1>6. IsFiniteSet(W) /\ Cardinality(W) = Cardinality(S)
  BY <1>4, <1>5, FS_Bijection DEF ExistsBijection
<1>7. Cardinality(SUBSET (1 .. n + 1)) = 2 ^ (n + 1)
  BY Subsets
<1> HIDE DEF S, W
<1>8. Cardinality(S \cup W) = Cardinality(S) + Cardinality(W) - Cardinality(S \cap W)
  BY <1>5, <1>6, FS_Union
<1>9. Cardinality(S \cap W) = 0
  BY <1>3, FS_EmptySet
<1>10. ASSUME NEW p \in Nat, NEW q, Cardinality(S) = p, Cardinality(SUBSET (1 .. n + 1)) = q
       PROVE  q = 2 * p
  <2>1. Cardinality(S \cup W) = q
    BY <1>2, <1>10, Zenon
  <2>2. Cardinality(W) = p
    BY <1>6, <1>10
  <2>3. Cardinality(S \cup W) = p + p - 0
    BY <1>8, <1>9, <1>10, <2>2
  <2> QED
    BY <2>1, <2>3
<1> QED
  BY <1>5, <1>7, <1>10, Zenon

\* There are n subsets of one element, and the empty one.
LEMMA PowerExceeds ==
  ASSUME NEW n \in Nat
  PROVE  n + 1 <= 2 ^ n
<1> DEFINE S == SUBSET (1 .. n)
           f == [i \in 0 .. n |-> IF i = 0 THEN {} ELSE {i}]
<1>1. f \in Injection(0 .. n, S)
  <2>1. f \in [0 .. n -> S]
    <3>1. \A i \in 0 .. n : i # 0 => i \in 1 .. n
      OBVIOUS
    <3> QED
      BY <3>1
  <2>2. \A i, j \in 0 .. n : f[i] = f[j] => i = j
    OBVIOUS
  <2> QED
    BY <2>1, <2>2, Zenon DEF Injection, IsInjective
<1>2. IsFiniteSet(S) /\ Cardinality(S) = 2 ^ n /\ 2 ^ n \in Nat
  BY Subsets
<1>3. Cardinality(0 .. n) <= Cardinality(S)
  BY <1>1, <1>2, FS_Injection
<1>4. Cardinality(0 .. n) = n + 1
  <2>1. Cardinality(0 .. n) = IF 0 > n THEN 0 ELSE n - 0 + 1
    BY FS_Interval
  <2> QED
    BY <2>1
<1> QED
  BY <1>2, <1>3, <1>4

\* After the tenth offset each is twice the one before, less seven.
LEMMA HistOffsetFacts ==
  ASSUME NEW i \in Nat
  PROVE  /\ HistOffset(i) \in Nat /\ i <= HistOffset(i)
         /\ i < 10 => HistOffset(i) = i
         /\ i = 10 => HistOffset(i) = 11
         /\ i > 10 => HistOffset(i) = 2 * HistOffset(i - 1) - 7
<1>1. CASE i < 10
  BY <1>1 DEF HistOffset
<1>2. CASE i >= 10
  <2> DEFINE n == i - 8
  <2>1. n \in Nat /\ n # 0 /\ i = n + 8
    BY <1>2
  <2> HIDE DEF n
  <2>2. HistOffset(i) = 7 + 2 ^ n
    BY <1>2, <2>1 DEF HistOffset, n
  <2>3. 2 ^ n \in Nat /\ n + 1 <= 2 ^ n
    BY <2>1, Subsets, PowerExceeds
  <2>4. HistOffset(i) \in Nat /\ i <= HistOffset(i)
    <3> DEFINE p == 2 ^ n
    <3>1. p \in Nat /\ n + 1 <= p /\ HistOffset(i) = 7 + p
      BY <2>2, <2>3
    <3> HIDE DEF p
    <3> QED
      BY <2>1, <3>1
  <2>5. ASSUME i = 10 PROVE HistOffset(i) = 11
    <3>1. 2 ^ 0 = 1
      OBVIOUS
    <3>2. 2 ^ (0 + 1) = 2 * 2 ^ 0 /\ 2 ^ (1 + 1) = 2 * 2 ^ 1
      BY PowerDoubles
    <3>3. 2 ^ 1 = 2 * 2 ^ 0
      <4>1. 0 + 1 = 1
        OBVIOUS
      <4> QED
        BY <3>2, <4>1, Zenon
    <3>4. 2 ^ 2 = 2 * 2 ^ 1
      <4>1. 1 + 1 = 2
        OBVIOUS
      <4> QED
        BY <3>2, <4>1, Zenon
    <3>5. ASSUME NEW a, NEW b, a = 2 * 1, b = 2 * a PROVE 7 + b = 11
      BY <3>5
    <3>6. n = 2
      BY <2>1, <2>5
    <3>7. 7 + 2 ^ 2 = 11
      BY <3>1, <3>3, <3>4, <3>5, Zenon
    <3> QED
      BY <2>2, <3>6, <3>7, Zenon
  <2>6. ASSUME i > 10 PROVE HistOffset(i) = 2 * HistOffset(i - 1) - 7
    <3> DEFINE m == n - 1
               p == 2 ^ m
               q == 2 ^ n
    <3>1. m \in Nat /\ n = m + 1
      BY <2>1
    <3>2. q = 2 * p /\ p \in Nat
      BY <3>1, PowerDoubles, Subsets, Zenon
    <3>3. HistOffset(i) = 7 + q
      BY <2>2
    <3>4. HistOffset(i - 1) = 7 + p
      <4>1. ~(i - 1 < 10) /\ (i - 1) - 8 = m
        BY <2>1, <2>6
      <4> QED
        BY <4>1, Zenon DEF HistOffset
    <3> HIDE DEF m, p, q
    <3> QED
      BY <3>2, <3>3, <3>4
  <2> QED
    BY <1>2, <2>4, <2>5, <2>6
<1> QED
  BY <1>1, <1>2

\* Some offset is as large as d, and not much larger.
LEMMA OffsetCovers ==
  ASSUME NEW d \in Nat
  PROVE  \E i \in Nat : /\ d <= HistOffset(i)
                        /\ HistOffset(i) <= IF d < 10 THEN d ELSE 2 * d - 1
<1>1. CASE d < 10
  BY <1>1, HistOffsetFacts
<1>2. CASE d >= 10
  <2> DEFINE T == {i \in Nat : i >= 10 /\ d <= HistOffset(i)}
  <2>1. T \subseteq Nat /\ T # {}
    <3>1. d \in T
      BY <1>2, HistOffsetFacts
    <3> QED
      BY <3>1
  <2>2. PICK i \in T : \A k \in T : i <= k
    BY <2>1, LeastNat
  <2>3. i \in Nat /\ i >= 10 /\ d <= HistOffset(i) /\ HistOffset(i) \in Nat
    BY <2>2, HistOffsetFacts
  <2>4. CASE i = 10
    <3>1. HistOffset(i) = 11
      BY <2>3, <2>4, HistOffsetFacts
    <3> QED
      BY <1>2, <2>3, <3>1
  <2>5. CASE i # 10
    <3>1. i - 1 \in Nat /\ i - 1 >= 10 /\ ~(i <= i - 1)
      BY <2>3, <2>5
    <3>2. i - 1 \notin T
      BY <2>2, <3>1
    <3>3. ~(d <= HistOffset(i - 1)) /\ HistOffset(i - 1) \in Nat
      BY <3>1, <3>2, HistOffsetFacts
    <3>4. HistOffset(i) = 2 * HistOffset(i - 1) - 7
      BY <2>3, <2>5, HistOffsetFacts
    <3> QED
      BY <1>2, <2>3, <3>3, <3>4
  <2> QED
    BY <2>4, <2>5
<1> QED
  BY <1>1, <1>2

\* A history has the tip, and otherwise only blocks below it.
LEMMA HistoryFacts ==
  ASSUME NEW x \in Blocks
  PROVE  /\ x \in History(x)
         /\ \A b \in History(x) : b \in Blocks /\ OnChain(b, x)
<1>1. Height(x) \in Nat
  BY HeightType
<1>2. ASSUME NEW i \in 0 .. Height(x), HistOffset(i) <= Height(x)
      PROVE  Height(x) - HistOffset(i) \in 0 .. Height(x)
  BY <1>1, <1>2, HistOffsetFacts
<1>3. \A b \in History(x) : b \in Blocks /\ OnChain(b, x)
  BY <1>2, IndexAtFacts, GenesisOnChain DEF History
<1>4. HistOffset(0) = 0 /\ 0 \in 0 .. Height(x)
  BY <1>1, HistOffsetFacts
<1>5. IndexAt(x, Height(x) - HistOffset(0)) \in History(x)
  BY <1>1, <1>4 DEF History
<1>6. IndexAt(x, Height(x)) = x
  BY OnChainReflexive DEF OnChain
<1>7. Height(x) - HistOffset(0) = Height(x)
  BY <1>1, <1>4
<1> QED
  BY <1>3, <1>5, <1>6, <1>7

\* The headers begin at the fork, or not far below it.
LEMMA HistoryReaches ==
  ASSUME NEW x \in Blocks, NEW t \in Blocks
  PROVE  LET toFork   == Height(x) - Height(Fork(x, t))
             toAttach == Height(x) - Height(AttachPoint(History(x), t))
         IN  toAttach <= IF toFork < 10 THEN toFork ELSE 2 * toFork - 1
<1> DEFINE f == Fork(x, t)
           a == AttachPoint(History(x), t)
           d == Height(x) - Height(f)
<1>1. f \in Blocks /\ OnChain(f, x) /\ OnChain(f, t)
  BY ForkFacts
<1>2. History(x) \subseteq Blocks
  BY HistoryFacts
<1>3. a \in Blocks /\ \A b \in History(x) : OnChain(b, t) => Height(b) <= Height(a)
  BY <1>2, AttachFacts
<1> HIDE DEF f, a
<1>4. Height(x) \in Nat /\ Height(f) \in Nat /\ Height(a) \in Nat /\ d \in Nat
  BY <1>1, <1>3, HeightType, OneOfHeight
<1>5. PICK i \in Nat : d <= HistOffset(i) /\ HistOffset(i) <= IF d < 10 THEN d ELSE 2 * d - 1
  BY <1>4, OffsetCovers
<1>6. HistOffset(i) \in Nat /\ i <= HistOffset(i)
  BY HistOffsetFacts
<1>7. Height(x) - Height(a) <= HistOffset(i)
  <2>1. CASE HistOffset(i) <= Height(x)
    <3> DEFINE h == Height(x) - HistOffset(i)
               b == IndexAt(x, h)
    <3>1. h \in 0 .. Height(x) /\ h <= Height(f) /\ i \in 0 .. Height(x)
      BY <1>4, <1>5, <1>6, <2>1
    <3>2. b \in History(x)
      BY <2>1, <3>1 DEF History
    <3>3. b \in Blocks /\ Height(b) = h /\ OnChain(b, x)
      BY <3>1, IndexAtFacts
    <3> HIDE DEF b
    <3>4. OnChain(b, f)
      BY <1>1, <3>1, <3>3, OnChainLinear
    <3>5. OnChain(b, t)
      BY <1>1, <3>3, <3>4, OnChainTransitive
    <3>6. h <= Height(a)
      BY <1>3, <3>2, <3>3, <3>5
    <3> QED
      BY <1>4, <1>6, <3>6
  <2>2. CASE ~(HistOffset(i) <= Height(x))
    BY <1>4, <1>6, <2>2
  <2> QED
    BY <2>1, <2>2
<1>8. Height(x) - Height(a) <= IF d < 10 THEN d ELSE 2 * d - 1
  BY <1>4, <1>5, <1>6, <1>7
<1> QED
  BY <1>8 DEF f, a

-----------------------------------------------------------------------------
(* What the Manager's calls do to the scratch chains.                      *)

LEMMA TrackedType ==
  ASSUME TypeOK, NEW i \in DOMAIN chains
  PROVE  /\ chains \in Seq(ScratchChains) /\ i \in 1 .. Len(chains) /\ Len(chains) \in Nat
         /\ chains[i].base \in Blocks /\ chains[i].hs \in Blocks /\ chains[i].ts \in Blocks
<1>1. chains \in Seq(ScratchChains)
  BY DEF TypeOK
<1> QED
  BY <1>1, ChainType

\* A chain's headers are on the chain of the last one, above the base.
LEMMA ContainsFacts ==
  ASSUME NEW sc, sc.hs \in Blocks, sc.base \in Blocks, NEW b \in Blocks
  PROVE  Contains(sc, b) <=> OnChain(b, sc.hs) /\ Height(sc.base) < Height(b)
BY DEF Contains, ScIndex, OnChain

\* A block that is taken is the next one above the last that was validated.
LEMMA TakeBlockChains ==
  ASSUME TypeOK, NEW b \in Blocks, TakeBlock(b)
  PROVE  /\ job.chain \in DOMAIN chains /\ DOMAIN chains' = DOMAIN chains
         /\ \A j \in DOMAIN chains :
              /\ chains'[j].base = chains[j].base /\ chains'[j].hs = chains[j].hs
              /\ chains'[j].ts = IF j = job.chain THEN b ELSE chains[j].ts
         /\ b \in Children /\ Parent[b] = Current.ts
         /\ Height(b) = Height(Current.ts) + 1 /\ Height(b) <= Height(Current.hs)
         /\ OnChain(Current.ts, b)
<1> DEFINE i == job.chain
<1>1. i \in DOMAIN chains /\ chains' = [chains EXCEPT ![i] = ApplyBlock(Current, b)]
  BY DEF TakeBlock, TypeOK
<1>2. Height(Current.ts) + 1 <= Height(Current.hs) /\ b # Genesis /\ Parent[b] = Current.ts
  BY DEF TakeBlock, CanApplyBlock, ValidateBlock
<1>3. Height(b) = Height(Current.ts) + 1 /\ OnChain(Current.ts, b)
  BY <1>2, ParentOnChain
<1>4. chains \in Seq(ScratchChains) /\ Current \in ScratchChains
  BY <1>1 DEF TypeOK, Current
<1>5. /\ ApplyBlock(Current, b).ts = b
      /\ ApplyBlock(Current, b).base = chains[i].base /\ ApplyBlock(Current, b).hs = chains[i].hs
  BY <1>4 DEF ApplyBlock, Current, ScratchChains
<1>6. DOMAIN chains' = DOMAIN chains
      /\ \A j \in DOMAIN chains : chains'[j] = IF j = i THEN ApplyBlock(Current, b) ELSE chains[j]
  BY <1>1, <1>4
<1>7. \A j \in DOMAIN chains :
        /\ chains'[j].base = chains[j].base /\ chains'[j].hs = chains[j].hs
        /\ chains'[j].ts = IF j = i THEN b ELSE chains[j].ts
  BY <1>5, <1>6
<1> QED
  BY <1>1, <1>2, <1>3, <1>6, <1>7 DEF Children

\* When AddBlocks returns, its chain is gone if all of it is validated.
LEMMA FinishChains ==
  ASSUME TypeOK, FinishBlocks
  PROVE  /\ job.chain \in DOMAIN chains
         /\ \/ ~FullyValidated(Current) /\ chains' = chains
            \/ /\ FullyValidated(Current)
               /\ Len(chains') = Len(chains) - 1 /\ DOMAIN chains' = 1 .. Len(chains) - 1
               /\ \A j \in DOMAIN chains' :
                    chains'[j] = IF j < job.chain THEN chains[j] ELSE chains[j + 1]
<1>1. /\ job.chain \in DOMAIN chains
      /\ chains' = IF FullyValidated(Current)
                   THEN SubSeq(chains, 1, job.chain - 1)
                        \o SubSeq(chains, job.chain + 1, Len(chains))
                   ELSE chains
  BY DEF FinishBlocks, TypeOK
<1>2. chains \in Seq(ScratchChains) /\ job.chain \in 1 .. Len(chains)
  BY <1>1, TrackedType
<1>3. CASE ~FullyValidated(Current)
  BY <1>1, <1>3
<1>4. CASE FullyValidated(Current)
  <2>1. /\ chains' \in Seq(ScratchChains) /\ Len(chains') = Len(chains) - 1
        /\ \A j \in 1 .. Len(chains') : chains'[j] = IF j < job.chain THEN chains[j] ELSE chains[j + 1]
    BY <1>1, <1>2, <1>4, RemoveAt
  <2>2. DOMAIN chains' = 1 .. Len(chains) - 1
    <3>1. DOMAIN chains' = 1 .. Len(chains')
      BY <2>1
    <3> QED
      BY <2>1, <3>1
  <2> QED
    BY <1>1, <1>4, <2>1, <2>2, Zenon
<1> QED
  BY <1>3, <1>4

\* The chain that AddHeaders has changed.
Changed == CHOOSE j \in DOMAIN chains' : j \notin DOMAIN chains \/ chains'[j] # chains[j]

\* Headers extend a chain,
Extended(p, t, i, r) ==
  /\ i \in Extends(p, t) /\ IsReached(r, chains[i].hs, t)
  /\ DOMAIN chains' = DOMAIN chains
  /\ \A j \in DOMAIN chains : j # i => chains'[j] = chains[j]
  /\ chains'[i].base = chains[i].base /\ chains'[i].ts = chains[i].ts /\ chains'[i].hs = r

\* or begin one.
Started(p, t, c, r) ==
  /\ Extends(p, t) = {} /\ IsBase(c, p, t) /\ IsReached(r, c, t)
  /\ DOMAIN chains' = 1 .. Len(chains) + 1
  /\ \A j \in DOMAIN chains : chains'[j] = chains[j]
  /\ chains'[Len(chains) + 1] = [base |-> c, hs |-> r, ts |-> c]

LEMMA AddHeadersChains ==
  ASSUME TypeOK, NEW p \in Blocks, NEW t \in Blocks, AddHeaders(p, t), chains' # chains
  PROVE  \E r \in Blocks : \/ Changed \in DOMAIN chains /\ Extended(p, t, Changed, r)
                           \/ /\ Changed = Len(chains) + 1
                              /\ \E c \in Blocks : Started(p, t, c, r)
<1>1. chains \in Seq(ScratchChains)
  BY DEF TypeOK
<1>2. CASE ExtendChain(p, t)
  <2>1. PICK i \in Extends(p, t), r \in Blocks :
          IsReached(r, chains[i].hs, t) /\ chains' = [chains EXCEPT ![i].hs = r]
    BY <1>2 DEF ExtendChain
  <2>2. i \in DOMAIN chains /\ chains[i] \in ScratchChains
    BY <1>1 DEF Extends
  <2>3. DOMAIN chains' = DOMAIN chains
        /\ \A j \in DOMAIN chains : chains'[j] = IF j = i THEN [chains[i] EXCEPT !.hs = r] ELSE chains[j]
    BY <1>1, <2>1, <2>2
  <2>4. chains'[i].base = chains[i].base /\ chains'[i].ts = chains[i].ts /\ chains'[i].hs = r
    BY <2>2, <2>3 DEF ScratchChains
  <2>5. chains'[i] # chains[i]
    <3>1. ASSUME chains'[i] = chains[i] PROVE FALSE
      <4>1. chains' \in Seq(ScratchChains)
        <5>1. [chains[i] EXCEPT !.hs = r] \in ScratchChains
          BY <2>2 DEF ScratchChains
        <5> QED
          BY <1>1, <2>1, <2>2, <5>1
      <4>2. Len(chains') = Len(chains) /\ \A j \in 1 .. Len(chains) : chains'[j] = chains[j]
        BY <1>1, <2>3, <3>1, <4>1
      <4>3. chains' = chains
        BY <1>1, <4>1, <4>2, SeqEqual
      <4> QED
        BY <4>3
    <3> QED
      BY <3>1
  <2>6. Changed = i
    BY <2>2, <2>3, <2>5 DEF Changed
  <2>7. Extended(p, t, i, r)
    BY <2>1, <2>3, <2>4 DEF Extended
  <2> QED
    BY <2>2, <2>6, <2>7
<1>3. CASE StartChain(p, t)
  <2>1. PICK c \in Blocks, r \in Blocks :
          /\ Extends(p, t) = {} /\ IsBase(c, p, t) /\ IsReached(r, c, t)
          /\ chains' = Append(chains, [NewScratchChain(c) EXCEPT !.hs = r])
    BY <1>3 DEF StartChain
  <2>2. [NewScratchChain(c) EXCEPT !.hs = r] = [base |-> c, hs |-> r, ts |-> c]
    BY DEF NewScratchChain
  <2> DEFINE n == Len(chains) + 1
             sc == [base |-> c, hs |-> r, ts |-> c]
  <2>3. chains' = Append(chains, sc)
    BY <2>1, <2>2
  <2> HIDE DEF sc
  <2>4. DOMAIN chains' = 1 .. n /\ DOMAIN chains = 1 .. n - 1 /\ n - 1 \in Nat
        /\ (\A j \in DOMAIN chains : chains'[j] = chains[j]) /\ chains'[n] = sc
    BY <1>1, <2>3
  <2>5. Changed = n
    BY <2>4 DEF Changed
  <2>6. Started(p, t, c, r)
    BY <2>1, <2>4 DEF Started, sc
  <2> QED
    BY <2>5, <2>6
<1> QED
  BY <1>2, <1>3 DEF AddHeaders

-----------------------------------------------------------------------------
(* What holds of a sync in any case.                                       *)

\* No chain has more blocks validated than it has headers.
HeightsOK == \A i \in DOMAIN chains : Height(chains[i].ts) <= Height(chains[i].hs)

\* AddBlocks runs only in a download.
JobOK == sync.pc # "download" => job.pc \in {"idle", "panic"}

\* The chain that is downloaded is tracked, or it is all stored.
ScOK ==
  sync.pc = "download" =>
    /\ sync.next <= Height(sync.scTip)
    /\ sync.sc = 0 => sync.scTip \in entries
    /\ sync.sc # 0 => sync.sc \in DOMAIN chains /\ chains[sync.sc].hs = sync.scTip

\* A history is that of a tip, or one index, and has no block of more work than
\* the tip.
AskOK ==
  sync.pc = "ask" =>
    /\ sync.end = "none"
    /\ (\E x \in Blocks : sync.history = History(x)) \/ (\E b \in Blocks : sync.history = {b})
    /\ ~lost => \A b \in sync.history : TotalWork[b] <= TotalWork[cs]

SyncBase == SyncTypeOK /\ HeightsOK /\ JobOK /\ ScOK /\ AskOK

SInv == Inv /\ Heaviest!Inv /\ SyncBase

LEMMA HeightsStep ==
  ASSUME Inv, HeightsOK, [Next]_vars
  PROVE  HeightsOK'
<1>1. TypeOK /\ TypeOK'
  BY StepInv DEF Inv
<1>2. CASE chains' = chains
  BY <1>2 DEF HeightsOK
<1>3. ASSUME NEW p \in Blocks, NEW t \in Blocks, AddHeaders(p, t), chains' # chains PROVE HeightsOK'
  <2>1. PICK r \in Blocks : \/ Changed \in DOMAIN chains /\ Extended(p, t, Changed, r)
                            \/ /\ Changed = Len(chains) + 1
                               /\ \E c \in Blocks : Started(p, t, c, r)
    BY <1>1, <1>3, AddHeadersChains
  <2>2. CASE Changed \in DOMAIN chains /\ Extended(p, t, Changed, r)
    <3> DEFINE i == Changed
    <3>1. /\ OnChain(chains[i].hs, r)
          /\ chains[i].hs \in Blocks /\ chains[i].ts \in Blocks
      BY <1>1, <2>2, TrackedType DEF Extended, IsReached
    <3> HIDE DEF i
    <3>2. Height(chains[i].ts) <= Height(r)
      <4>1. Height(chains[i].ts) <= Height(chains[i].hs) /\ Height(chains[i].hs) <= Height(r)
        BY <2>2, <3>1, OneOfHeight DEF HeightsOK, i
      <4> QED
        BY <3>1, <4>1, HeightType
    <3>3. /\ DOMAIN chains' = DOMAIN chains
          /\ \A j \in DOMAIN chains : j # i => chains'[j] = chains[j]
          /\ chains'[i].ts = chains[i].ts /\ chains'[i].hs = r
      BY <2>2 DEF Extended, i
    <3> QED
      BY <3>2, <3>3 DEF HeightsOK
  <2>3. CASE \E c \in Blocks : Started(p, t, c, r)
    <3>1. PICK c \in Blocks : Started(p, t, c, r)
      BY <2>3
    <3>2. Height(c) <= Height(r)
      BY <3>1, OneOfHeight DEF Started, IsReached
    <3>3. Len(chains) \in Nat /\ DOMAIN chains = 1 .. Len(chains)
      BY <1>1 DEF TypeOK
    <3>4. ASSUME NEW j \in DOMAIN chains' PROVE Height(chains'[j].ts) <= Height(chains'[j].hs)
      <4>1. j \in DOMAIN chains \/ j = Len(chains) + 1
        BY <3>1, <3>3 DEF Started
      <4>2. CASE j \in DOMAIN chains
        BY <3>1, <4>2 DEF Started, HeightsOK
      <4>3. CASE j = Len(chains) + 1
        BY <3>1, <3>2, <4>3 DEF Started
      <4> QED
        BY <4>1, <4>2, <4>3
    <3> QED
      BY <3>4 DEF HeightsOK
  <2> QED
    BY <2>1, <2>2, <2>3
<1>4. ASSUME NEW b \in Blocks, TakeBlock(b) PROVE HeightsOK'
  BY <1>1, <1>4, TakeBlockChains DEF HeightsOK, Current
<1>5. CASE FinishBlocks
  <2>1. \/ chains' = chains
        \/ /\ DOMAIN chains' = 1 .. Len(chains) - 1
           /\ \A j \in DOMAIN chains' :
                chains'[j] = IF j < job.chain THEN chains[j] ELSE chains[j + 1]
    BY <1>1, <1>5, FinishChains
  <2>2. DOMAIN chains = 1 .. Len(chains) /\ Len(chains) \in Nat
    BY <1>1 DEF TypeOK
  <2>3. \A j \in 1 .. Len(chains) - 1 : j \in DOMAIN chains /\ j + 1 \in DOMAIN chains
    BY <2>2
  <2> QED
    BY <1>2, <2>1, <2>3 DEF HeightsOK
<1>6. \/ chains' = chains \/ FinishBlocks
      \/ \E p, t \in Blocks : AddHeaders(p, t)
      \/ \E b \in Blocks : TakeBlock(b)
  <2>1. CASE \E s \in Subscribers, t \in Blocks : AddSubscriber(s, t)
    BY <2>1 DEF AddSubscriber
  <2>2. CASE \E b \in Blocks : AddTipBlock(b) \/ ClockPasses(b)
    BY <2>2 DEF AddTipBlock, ClockPasses
  <2>3. CASE JobStep
    BY <2>3 DEF JobStep, RefuseBlock, KeepValidating, ApplyToTip, StartReorg, Rebase, RevertTip,
                BranchReached, ApplyTip, ReorgFails, ReorgPanics, ReorgDone
  <2>4. CASE \E p, t \in Blocks : AddBlocks(p, t)
    BY <2>4 DEF AddBlocks
  <2>5. CASE UNCHANGED vars
    BY <2>5 DEF vars
  <2> QED
    BY <2>1, <2>2, <2>3, <2>4, <2>5 DEF Next
<1> QED
  BY <1>2, <1>3, <1>4, <1>5, <1>6

\* The indices of a chunk are those of blocks.
LEMMA ChunkFacts ==
  ASSUME SyncTypeOK, ScOK, sync.pc = "download", sync.next # Height(sync.scTip)
  PROVE  /\ sync.next \in Nat /\ ChunkEnd \in Nat /\ sync.scTip \in Blocks
         /\ sync.next < ChunkEnd /\ ChunkEnd <= Height(sync.scTip) /\ Height(sync.scTip) \in Nat
         /\ IndexAt(sync.scTip, sync.next) \in Blocks /\ IndexAt(sync.scTip, ChunkEnd) \in Blocks
<1>1. BlocksPerRequest \in Nat /\ BlocksPerRequest # 0
  BY HeaderSyncAssumption, ManagerAssumption
<1>2. sync.next \in Nat /\ sync.scTip \in Blocks /\ sync.next <= Height(sync.scTip)
  BY DEF SyncTypeOK, Syncs, ScOK
<1>3. Height(sync.scTip) \in Nat
  BY <1>2, HeightType
<1>4. ChunkEnd \in Nat /\ sync.next < ChunkEnd /\ ChunkEnd <= Height(sync.scTip)
  BY <1>1, <1>2, <1>3 DEF ChunkEnd
<1>5. sync.next \in 0 .. Height(sync.scTip) /\ ChunkEnd \in 0 .. Height(sync.scTip)
  BY <1>2, <1>3, <1>4
<1> QED
  BY <1>2, <1>3, <1>4, <1>5, IndexAtFacts

\* Whatever a sync does is something that the Manager does.
LEMMA SyncIsManagerStep ==
  ASSUME Inv, SyncTypeOK, ScOK, [SyncNext]_syncVars
  PROVE  [Next]_vars
<1>1. CASE UNCHANGED vars
  BY <1>1
<1>2. ASSUME NEW b \in TipBlocks, TipBlock(b) PROVE Next
  <2>1. b \in Blocks
    BY HeaderSyncAssumption DEF Children
  <2> QED
    BY <1>2, <2>1 DEF TipBlock, Next
<1>3. CASE HeadersAdded
  <2>1. sync.from \in Blocks /\ sync.to \in Blocks
    BY DEF SyncTypeOK, Syncs
  <2> QED
    BY <1>3, <2>1 DEF HeadersAdded, Next
<1>4. CASE ChunkArrives
  <2>1. IndexAt(sync.scTip, sync.next) \in Blocks /\ IndexAt(sync.scTip, ChunkEnd) \in Blocks
    BY <1>4, ChunkFacts DEF ChunkArrives, Downloading
  <2> QED
    BY <1>4, <2>1 DEF ChunkArrives, Next
<1>5. CASE AddingBlocks
  <2>1. job.todo # <<>> => Head(job.todo) \in Blocks
    BY DEF Inv, TypeOK, Jobs
  <2>2. \/ (\E b \in Blocks : KeepValidating(b) \/ ApplyToTip(b) \/ StartReorg(b))
        \/ Rebase \/ RevertTip \/ BranchReached \/ ApplyTip \/ ReorgDone
    BY <1>5, <2>1 DEF AddingBlocks
  <2> QED
    BY <2>2 DEF Next, JobStep
<1>6. CASE AddBlocksFails \/ AddBlocksReturns
  BY <1>6 DEF AddBlocksFails, AddBlocksReturns, Next, JobStep
<1>7. CASE \/ \E t \in PeerTips : Begin(t)
           \/ PeerMovesOn \/ NoHeaders \/ SomeHeaders \/ NoAnswer
           \/ HeadersStored \/ HeadersTracked \/ HeadersRefused \/ HeadersOrphaned
           \/ ChunkOrphaned \/ DownloadFails \/ DownloadDone \/ NothingToWaitFor
  BY <1>1, <1>7 DEF Begin, PeerMovesOn, NoHeaders, SomeHeaders, NoAnswer, HeadersStored, HeadersTracked,
     HeadersRefused, HeadersOrphaned, ChunkOrphaned, DownloadFails, DownloadDone, NothingToWaitFor
<1>8. CASE UNCHANGED syncVars
  BY <1>1, <1>8 DEF syncVars
<1> QED
  BY <1>2, <1>3, <1>4, <1>5, <1>6, <1>7, <1>8 DEF SyncNext, SyncStep

\* What a sync goes on to.
LEMMA ReturnedFacts ==
  ASSUME NEW how \in {"none", "synced", "failed", "orphan"}
  PROVE  /\ Returned(how) \in Syncs /\ Returned(how).pc = "idle" /\ Returned(how).end = how
BY GenesisAssumption DEF Returned, Syncs

LEMMA AskNextFacts ==
  ASSUME NEW b \in Blocks
  PROVE  /\ AskNext(b) \in Syncs /\ AskNext(b).pc = "ask" /\ AskNext(b).end = "none"
         /\ AskNext(b).history = {b}
BY GenesisAssumption DEF AskNext, Returned, Syncs

\* Asking for what follows a block of no more work than the tip.
LEMMA AskNextOK ==
  ASSUME NEW b \in Blocks, sync' = AskNext(b), ~lost' => TotalWork[b] <= TotalWork[cs']
  PROVE  sync' \in Syncs /\ sync'.pc = "ask" /\ AskOK' /\ ScOK'
<1>1. /\ sync' \in Syncs /\ sync'.pc = "ask" /\ sync'.end = "none" /\ sync'.history = {b}
  BY AskNextFacts
<1> QED
  BY <1>1 DEF AskOK, ScOK

LEMMA TakeChainOK ==
  ASSUME TypeOK', cs \in Blocks, cs' = cs, SyncTypeOK, HeightsOK', sync.pc = "add",
         NEW i \in DOMAIN chains', OnChain(sync.to, chains'[i].hs), TakeChain(i)
  PROVE  /\ sync' \in Syncs /\ sync'.pc \in {"ask", "download", "waiting"}
         /\ AskOK' /\ ScOK'
<1>1. /\ i \in Nat /\ i # 0 /\ chains'[i].hs \in Blocks /\ chains'[i].ts \in Blocks
      /\ Height(chains'[i].ts) <= Height(chains'[i].hs)
  <2>1. chains' \in Seq(ScratchChains)
    BY DEF TypeOK
  <2>2. i \in Nat /\ i # 0 /\ chains'[i] \in ScratchChains
    BY <2>1
  <2>3. chains'[i].hs \in Blocks /\ chains'[i].ts \in Blocks
    BY <2>2 DEF ScratchChains
  <2> QED
    BY <2>2, <2>3 DEF HeightsOK
<1>2. CASE TotalWork[chains'[i].hs] > TotalWork[cs]
  <2>1. sync' = Download(i)
    BY <1>2 DEF TakeChain
  <2>2. sync \in Syncs /\ Height(chains'[i].ts) \in Nat
    BY <1>1, HeightType DEF SyncTypeOK
  <2>3. /\ sync' \in Syncs /\ sync'.pc \in {"download", "waiting"}
        /\ sync'.sc = i /\ sync'.scTip = chains'[i].hs /\ sync'.next = Height(chains'[i].ts)
    BY <1>1, <2>1, <2>2 DEF Download, Syncs
  <2> QED
    BY <1>1, <2>3 DEF AskOK, ScOK
<1>3. CASE ~(TotalWork[chains'[i].hs] > TotalWork[cs])
  <2>1. sync' = AskNext(sync.to) /\ sync.to \in Blocks
    BY <1>3 DEF TakeChain, SyncTypeOK, Syncs
  <2>2. TotalWork[sync.to] <= TotalWork[chains'[i].hs]
    BY <1>1, <2>1, WorkMonotone
  <2>3. TotalWork[sync.to] <= TotalWork[cs']
    BY <1>1, <1>3, <2>1, <2>2, WorkAssumption
  <2> QED
    BY <2>1, <2>3, AskNextOK
<1> QED
  BY <1>2, <1>3

\* Between calls the tip is the heaviest of the stored blocks.
LEMMA TipHeaviest ==
  ASSUME Heaviest!Inv, job.pc = "idle", ~lost, NEW b \in entries
  PROVE  TotalWork[b] <= TotalWork[cs]
BY DEF Heaviest!Inv, Heaviest!TipIsHeaviest, Decided, Reorging

\* The steps that do not touch the Manager.
LEMMA QuietBase ==
  ASSUME SInv, UNCHANGED vars, Inv',
         \/ \E t \in PeerTips : Begin(t)
         \/ PeerMovesOn \/ NoHeaders \/ SomeHeaders \/ NoAnswer
         \/ HeadersStored \/ HeadersTracked \/ HeadersRefused \/ HeadersOrphaned
         \/ ChunkOrphaned \/ DownloadFails \/ DownloadDone \/ NothingToWaitFor
         \/ UNCHANGED syncVars
  PROVE  SyncBase'
<1>1. /\ entries' = entries /\ cs' = cs /\ chains' = chains /\ job' = job /\ lost' = lost
      /\ cs \in Blocks /\ entries \subseteq Blocks /\ TypeOK /\ TypeOK'
  BY DEF vars, store, SInv, Inv, TypeOK
<1>2. /\ SyncTypeOK /\ HeightsOK /\ HeightsOK' /\ JobOK /\ ScOK /\ AskOK
      /\ sync \in Syncs /\ failures \in 0 .. MaxFailures /\ remote \in Blocks /\ tangled \in BOOLEAN
  BY <1>1 DEF SInv, SyncBase, HeightsOK, SyncTypeOK
<1>3. Heaviest!Inv /\ Inv
  BY DEF SInv
<1>4. MaxFailures \in Nat /\ PeerTips \subseteq Blocks
  BY HeaderSyncAssumption
\* It is enough that sync is of its type and that what it says holds.
<1>5. ASSUME sync' \in Syncs, JobOK', ScOK', AskOK', remote' = remote, tangled' \in BOOLEAN,
             failures' = failures \/ Fails
      PROVE  SyncBase'
  <2>1. failures' \in 0 .. MaxFailures
    BY <1>2, <1>4, <1>5 DEF Fails
  <2> QED
    BY <1>2, <1>5, <2>1 DEF SyncBase, SyncTypeOK
<1>6. CASE NoHeaders \/ NoAnswer \/ HeadersOrphaned \/ ChunkOrphaned \/ DownloadFails
  <2>1. PICK how \in {"none", "synced", "failed", "orphan"} : sync' = Returned(how)
    BY <1>6 DEF NoHeaders, NoAnswer, HeadersOrphaned, ChunkOrphaned, DownloadFails
  <2>2. sync' \in Syncs /\ sync'.pc = "idle"
    BY <2>1, ReturnedFacts
  <2>3. job.pc \in {"idle", "panic"}
    BY <1>2, <1>6 DEF JobOK, NoHeaders, NoAnswer, HeadersOrphaned, ChunkOrphaned, DownloadFails,
       Downloading, Free
  <2>4. JobOK' /\ ScOK' /\ AskOK'
    BY <1>1, <2>2, <2>3 DEF JobOK, ScOK, AskOK
  <2> QED
    BY <1>2, <1>5, <1>6, <2>2, <2>4 DEF NoHeaders, NoAnswer, HeadersOrphaned, ChunkOrphaned, DownloadFails
<1>7. ASSUME NEW t \in PeerTips, Begin(t) PROVE SyncBase'
  <2>1. /\ sync' = [Returned("none") EXCEPT !.pc = "ask", !.history = History(cs)]
        /\ remote' = t /\ job.pc = "idle" /\ failures' = failures /\ tangled' = tangled
    BY <1>7 DEF Begin, Free
  <2>2. History(cs) \in SUBSET Blocks /\ \A b \in History(cs) : OnChain(b, cs)
    BY <1>1, HistoryFacts
  <2>3. Returned("none") \in Syncs /\ Returned("none").end = "none"
    BY ReturnedFacts
  <2>4. sync' \in Syncs /\ sync'.pc = "ask" /\ sync'.end = "none" /\ sync'.history = History(cs)
    BY <2>1, <2>2, <2>3 DEF Syncs
  <2>5. \A b \in History(cs) : TotalWork[b] <= TotalWork[cs]
    BY <1>1, <2>2, WorkMonotone
  <2>6. AskOK' /\ JobOK' /\ ScOK'
    BY <1>1, <2>1, <2>4, <2>5 DEF AskOK, JobOK, ScOK
  <2> QED
    BY <1>2, <1>4, <2>1, <2>4, <2>6 DEF SyncBase, SyncTypeOK
<1>8. CASE PeerMovesOn
  <2>1. remote' \in Blocks /\ sync' = sync /\ failures' = failures /\ tangled' = tangled
    BY <1>8, HeaderSyncAssumption DEF PeerMovesOn
  <2>2. AskOK' /\ JobOK' /\ ScOK'
    BY <1>1, <1>2, <2>1 DEF AskOK, JobOK, ScOK
  <2> QED
    BY <1>2, <2>1, <2>2 DEF SyncBase, SyncTypeOK
<1>9. CASE SomeHeaders
  <2> DEFINE a == AttachPoint(sync.history, remote)
  <2>1. /\ sync.pc = "ask" /\ a # remote /\ remote' = remote /\ failures' = failures
        /\ sync' = [sync EXCEPT !.pc = "add", !.from = a, !.to = LastHeader(a, remote)]
    BY <1>9 DEF SomeHeaders
  <2>2. tangled' \in BOOLEAN
    BY <1>2, <1>9, Zenon DEF SomeHeaders
  <2>3. sync.history \in SUBSET Blocks
    BY <1>2 DEF Syncs
  <2>4. a \in Blocks /\ OnChain(a, remote)
    BY <1>2, <2>3, AttachFacts
  <2> HIDE DEF a
  <2>5. LastHeader(a, remote) \in Blocks
    BY <1>2, <2>1, <2>4, LastHeaderFacts
  <2>6. sync' \in Syncs /\ sync'.pc = "add"
    BY <1>2, <2>1, <2>4, <2>5 DEF Syncs
  <2>7. AskOK' /\ JobOK' /\ ScOK'
    BY <1>1, <1>2, <2>1, <2>6 DEF AskOK, JobOK, ScOK
  <2> QED
    BY <1>5, <2>1, <2>2, <2>6, <2>7
<1>10. CASE HeadersStored
  <2>1. /\ sync' = AskNext(sync.to) /\ sync.to \in entries /\ job.pc = "idle"
        /\ remote' = remote /\ failures' = failures /\ tangled' = tangled
    BY <1>10 DEF HeadersStored, Free
  <2>2. ~lost' => TotalWork[sync.to] <= TotalWork[cs']
    BY <1>1, <1>3, <2>1, TipHeaviest
  <2>3. sync.to \in Blocks
    BY <1>1, <2>1
  <2>4. sync' \in Syncs /\ sync'.pc = "ask" /\ AskOK' /\ ScOK'
    BY <2>1, <2>2, <2>3, AskNextOK
  <2>5. JobOK'
    BY <1>1, <2>1 DEF JobOK
  <2> QED
    BY <1>2, <1>5, <2>1, <2>4, <2>5
<1>11. CASE HeadersTracked
  <2>1. PICK i \in DOMAIN chains : Contains(chains[i], sync.to) /\ TakeChain(i)
    BY <1>11 DEF HeadersTracked
  <2>2. /\ sync.pc = "add" /\ job.pc = "idle" /\ sync.to \in Blocks
        /\ remote' = remote /\ failures' = failures /\ tangled' = tangled
    BY <1>2, <1>11 DEF HeadersTracked, Free, Syncs
  <2>3. OnChain(sync.to, chains'[i].hs) /\ i \in DOMAIN chains'
    BY <1>1, <2>1, <2>2, TrackedType, ContainsFacts
  <2>4. sync' \in Syncs /\ AskOK' /\ ScOK'
    BY <1>1, <1>2, <2>1, <2>2, <2>3, TakeChainOK
  <2>5. JobOK'
    BY <1>1, <2>2 DEF JobOK
  <2> QED
    BY <1>2, <1>5, <2>2, <2>4, <2>5
<1>12. CASE HeadersRefused
  <2>1. /\ sync' = [sync EXCEPT !.pc = "stopped"] /\ job.pc = "idle"
        /\ remote' = remote /\ failures' = failures /\ tangled' = tangled
    BY <1>12 DEF HeadersRefused, Free
  <2>2. sync' \in Syncs /\ sync'.pc = "stopped"
    BY <1>2, <2>1 DEF Syncs
  <2>3. AskOK' /\ JobOK' /\ ScOK'
    BY <1>1, <2>1, <2>2 DEF AskOK, JobOK, ScOK
  <2> QED
    BY <1>2, <1>5, <2>1, <2>2, <2>3
<1>13. CASE DownloadDone
  <2>1. /\ sync' = AskNext(sync.scTip) /\ sync.pc = "download" /\ job.pc = "idle" /\ ChainDone
        /\ remote' = remote /\ failures' = failures /\ tangled' = tangled
    BY <1>13 DEF DownloadDone, Downloading, Free
  <2>2. sync.scTip \in entries
    <3>1. CASE sync.sc = 0
      BY <1>2, <2>1, <3>1 DEF ScOK
    <3>2. CASE sync.sc # 0
      <4>1. /\ sync.sc \in DOMAIN chains /\ chains[sync.sc].hs = sync.scTip
            /\ chains[sync.sc].ts = chains[sync.sc].hs
        BY <1>2, <2>1, <3>2 DEF ScOK, ChainDone, FullyValidated
      <4>2. chains[sync.sc].ts \in entries
        BY <1>3, <4>1 DEF Inv, ChainsOK
      <4> QED
        BY <4>1, <4>2
    <3> QED
      BY <3>1, <3>2
  <2>3. ~lost' => TotalWork[sync.scTip] <= TotalWork[cs']
    BY <1>1, <1>3, <2>1, <2>2, TipHeaviest
  <2>4. sync.scTip \in Blocks
    BY <1>1, <2>2
  <2>5. sync' \in Syncs /\ sync'.pc = "ask" /\ AskOK' /\ ScOK'
    BY <2>1, <2>3, <2>4, AskNextOK
  <2>6. JobOK'
    BY <1>1, <2>1 DEF JobOK
  <2> QED
    BY <1>2, <1>5, <2>1, <2>5, <2>6
<1>14. CASE NothingToWaitFor
  <2>1. /\ sync' = [sync EXCEPT !.pc = "waiting"] /\ job.pc = "idle"
        /\ remote' = remote /\ failures' = failures /\ tangled' = tangled
    BY <1>14 DEF NothingToWaitFor, Downloading, Free
  <2>2. sync' \in Syncs /\ sync'.pc = "waiting"
    BY <1>2, <2>1 DEF Syncs
  <2>3. AskOK' /\ JobOK' /\ ScOK'
    BY <1>1, <2>1, <2>2 DEF AskOK, JobOK, ScOK
  <2> QED
    BY <1>2, <1>5, <2>1, <2>2, <2>3
<1>15. CASE UNCHANGED syncVars
  BY <1>1, <1>2, <1>15 DEF syncVars, SyncBase, SyncTypeOK, JobOK, ScOK, AskOK
<1> QED
  BY <1>6, <1>7, <1>8, <1>9, <1>10, <1>11, <1>12, <1>13, <1>14, <1>15

LEMMA TipBlockBase ==
  ASSUME SInv, NEW b \in TipBlocks, TipBlock(b)
  PROVE  SyncBase'
<1>1. /\ chains' = chains /\ job' = job /\ lost' = lost /\ cs' = b /\ entries' = entries \cup {b}
      /\ remote' = remote /\ sync' = sync /\ failures' = failures /\ tangled' = tangled
      /\ b # Genesis /\ Parent[b] = cs
  BY DEF TipBlock, AddTipBlock, ExtendTo, ValidateBlock
<1>2. SyncTypeOK /\ HeightsOK /\ JobOK /\ ScOK /\ AskOK /\ cs \in Blocks
  BY DEF SInv, SyncBase, Inv, TypeOK
<1>3. b \in Children
  BY HeaderSyncAssumption
<1>4. TotalWork[cs] \in Nat /\ TotalWork[b] \in Nat /\ TotalWork[cs] <= TotalWork[b]
  BY <1>1, <1>2, <1>3, WorkAssumption DEF Children
<1>5. AskOK'
  <2>1. sync.pc = "ask" => \A c \in sync.history : c \in Blocks
    BY <1>2 DEF SyncTypeOK, Syncs
  <2>2. sync.pc = "ask" /\ ~lost => \A c \in sync.history : TotalWork[c] <= TotalWork[b]
    BY <1>2, <1>4, <2>1, WorkAssumption DEF AskOK
  <2> QED
    BY <1>1, <1>2, <2>2 DEF AskOK
<1>6. SyncTypeOK' /\ HeightsOK' /\ JobOK' /\ ScOK'
  BY <1>1, <1>2 DEF SyncTypeOK, HeightsOK, JobOK, ScOK
<1> QED
  BY <1>5, <1>6 DEF SyncBase

\* The last header that was accepted is on the chain of the headers.
LEMMA ReachedOn ==
  ASSUME NEW r \in Blocks, NEW a \in Blocks, NEW t \in Blocks, IsReached(r, a, t)
  PROVE  OnChain(a, r) /\ OnChain(r, t) /\ OnChain(a, t)
<1>1. OnChain(a, r) /\ OnChain(r, t)
  BY DEF IsReached
<1> QED
  BY <1>1, OnChainTransitive

\* What HeadersAdded comes to: a chain that has the headers is taken, or the
\* Syncer stops.
LEMMA HeadersAddedFacts ==
  ASSUME SInv, HeadersAdded
  PROVE  /\ sync.pc = "add" /\ job.pc = "idle" /\ job' = job /\ lost' = lost
         /\ cs' = cs /\ entries' = entries
         /\ remote' = remote /\ failures' = failures /\ tangled' = tangled
         /\ sync.from \in Blocks /\ sync.to \in Blocks /\ ~Known(sync.to)
         /\ AddHeaders(sync.from, sync.to) /\ chains' # chains
         /\ Changed \in DOMAIN chains'
         /\ \/ chains'[Changed].hs = sync.to /\ TakeChain(Changed)
            \/ chains'[Changed].hs # sync.to /\ sync' = [sync EXCEPT !.pc = "stopped"]
<1>1. /\ sync.pc = "add" /\ job.pc = "idle" /\ job' = job /\ lost' = lost
      /\ cs' = cs /\ entries' = entries
      /\ remote' = remote /\ failures' = failures /\ tangled' = tangled
      /\ ~Known(sync.to) /\ AddHeaders(sync.from, sync.to) /\ chains' # chains
  BY DEF HeadersAdded, AddHeaders, Free, store
<1>2. sync.from \in Blocks /\ sync.to \in Blocks /\ TypeOK
  BY DEF SInv, SyncBase, SyncTypeOK, Syncs, Inv
<1>3. Changed \in DOMAIN chains'
  <2>1. PICK r \in Blocks : \/ Changed \in DOMAIN chains /\ Extended(sync.from, sync.to, Changed, r)
                            \/ /\ Changed = Len(chains) + 1
                               /\ \E c \in Blocks : Started(sync.from, sync.to, c, r)
    BY <1>1, <1>2, AddHeadersChains
  <2>2. chains \in Seq(ScratchChains) /\ Len(chains) \in Nat /\ DOMAIN chains = 1 .. Len(chains)
    BY <1>2 DEF TypeOK
  <2>3. CASE Changed \in DOMAIN chains /\ Extended(sync.from, sync.to, Changed, r)
    BY <2>3 DEF Extended
  <2>4. CASE Changed = Len(chains) + 1 /\ \E c \in Blocks : Started(sync.from, sync.to, c, r)
    <3>1. DOMAIN chains' = 1 .. Len(chains) + 1
      BY <2>2, <2>4 DEF Started
    <3> QED
      BY <2>2, <2>4, <3>1
  <2> QED
    BY <2>1, <2>3, <2>4
<1>4. \/ chains'[Changed].hs = sync.to /\ TakeChain(Changed)
      \/ chains'[Changed].hs # sync.to /\ sync' = [sync EXCEPT !.pc = "stopped"]
  BY DEF HeadersAdded, Changed
<1> QED
  BY <1>1, <1>2, <1>3, <1>4

LEMMA HeadersAddedBase ==
  ASSUME SInv, HeadersAdded, Inv', HeightsOK'
  PROVE  SyncBase'
<1>1. /\ SyncTypeOK /\ sync \in Syncs /\ failures \in 0 .. MaxFailures /\ remote \in Blocks
      /\ tangled \in BOOLEAN /\ cs \in Blocks /\ TypeOK'
  BY DEF SInv, SyncBase, SyncTypeOK, Inv, TypeOK
<1>2. /\ sync.pc = "add" /\ job.pc = "idle" /\ job' = job /\ lost' = lost
      /\ cs' = cs /\ entries' = entries /\ sync.to \in Blocks
      /\ remote' = remote /\ failures' = failures /\ tangled' = tangled
      /\ Changed \in DOMAIN chains'
      /\ \/ chains'[Changed].hs = sync.to /\ TakeChain(Changed)
         \/ chains'[Changed].hs # sync.to /\ sync' = [sync EXCEPT !.pc = "stopped"]
  BY HeadersAddedFacts
<1>3. sync' \in Syncs /\ AskOK' /\ ScOK'
  <2>1. CASE chains'[Changed].hs = sync.to /\ TakeChain(Changed)
    <3>1. OnChain(sync.to, chains'[Changed].hs)
      BY <1>2, <2>1, OnChainReflexive
    <3> QED
      BY <1>1, <1>2, <2>1, <3>1, TakeChainOK
  <2>2. CASE sync' = [sync EXCEPT !.pc = "stopped"]
    <3>1. sync' \in Syncs /\ sync'.pc = "stopped"
      BY <1>1, <2>2 DEF Syncs
    <3> QED
      BY <3>1 DEF AskOK, ScOK
  <2> QED
    BY <1>2, <2>1, <2>2
<1>4. JobOK'
  BY <1>2 DEF JobOK
<1> QED
  BY <1>1, <1>2, <1>3, <1>4 DEF SyncBase, SyncTypeOK

\* The steps of a call of AddBlocks.
LEMMA AddingChains ==
  ASSUME TypeOK, AddingBlocks
  PROVE  /\ sync.pc = "download" /\ sync' = sync /\ remote' = remote
         /\ failures' = failures /\ tangled' = tangled
         /\ entries \subseteq entries' /\ lost' = lost
         /\ DOMAIN chains' = DOMAIN chains
         /\ \A j \in DOMAIN chains : chains'[j].hs = chains[j].hs /\ chains'[j].base = chains[j].base
<1>1. sync.pc = "download" /\ sync' = sync /\ remote' = remote /\ failures' = failures /\ tangled' = tangled
  BY DEF AddingBlocks
<1>2. CASE job.todo # <<>> /\ LET b == Head(job.todo)
                              IN  KeepValidating(b) \/ ApplyToTip(b) \/ StartReorg(b)
  <2>1. Head(job.todo) \in Blocks
    BY <1>2 DEF TypeOK, Jobs
  <2>2. PICK b \in Blocks : KeepValidating(b) \/ ApplyToTip(b) \/ StartReorg(b)
    BY <1>2, <2>1
  <2>3. TakeBlock(b) /\ entries' = entries \cup {b} /\ lost' = lost
    BY <2>2 DEF KeepValidating, ApplyToTip, StartReorg, ExtendTo
  <2> QED
    BY <1>1, <2>3, TakeBlockChains
<1>3. CASE Rebase \/ RevertTip \/ BranchReached \/ ApplyTip \/ ReorgDone
  BY <1>1, <1>3 DEF Rebase, RevertTip, BranchReached, ApplyTip, ReorgDone, ExtendTo, store
<1> QED
  BY <1>2, <1>3 DEF AddingBlocks

\* Where the chain at place k is once the one at place c is discarded.
Renumbered(c, k) == IF c = k THEN 0 ELSE IF c < k THEN k - 1 ELSE k

LEMMA PlaceRenumbered ==
  ASSUME NEW s \in Seq(ScratchChains), NEW t, NEW c \in DOMAIN s,
         NEW k \in Nat, k = 0 \/ k \in 1 .. Len(s),
         DOMAIN t = 1 .. Len(s) - 1,
         \A j \in DOMAIN t : t[j] = IF j < c THEN s[j] ELSE s[j + 1]
  PROVE  /\ Renumbered(c, k) \in Nat
         /\ Renumbered(c, k) = 0 => k \in {0, c}
         /\ Renumbered(c, k) # 0 =>
              k # 0 /\ Renumbered(c, k) \in DOMAIN t /\ t[Renumbered(c, k)] = s[k]
<1>1. DOMAIN s = 1 .. Len(s) /\ Len(s) \in Nat /\ c \in 1 .. Len(s)
  OBVIOUS
<1>2. CASE k = 0
  BY <1>1, <1>2 DEF Renumbered
<1>3. CASE k = c
  BY <1>1, <1>3 DEF Renumbered
<1>4. CASE k # 0 /\ c < k
  <2>1. Renumbered(c, k) = k - 1 /\ k - 1 \in Nat /\ k - 1 \in DOMAIN t /\ ~(k - 1 < c)
    BY <1>1, <1>4 DEF Renumbered
  <2>2. t[k - 1] = s[(k - 1) + 1] /\ (k - 1) + 1 = k
    BY <2>1
  <2> QED
    BY <1>4, <2>1, <2>2
<1>5. CASE k # 0 /\ k < c
  <2>1. Renumbered(c, k) = k /\ k \in DOMAIN t
    BY <1>1, <1>5 DEF Renumbered
  <2>2. t[k] = s[k]
    BY <1>5, <2>1
  <2> QED
    BY <1>5, <2>1, <2>2
<1> QED
  BY <1>1, <1>2, <1>3, <1>4, <1>5

LEMMA DownloadBase ==
  ASSUME SInv, Inv', HeightsOK',
         ChunkArrives \/ AddingBlocks \/ AddBlocksFails \/ AddBlocksReturns
  PROVE  SyncBase'
<1>1. /\ SyncTypeOK /\ sync \in Syncs /\ failures \in 0 .. MaxFailures /\ remote \in Blocks
      /\ tangled \in BOOLEAN /\ TypeOK /\ ScOK /\ Inv
  BY DEF SInv, SyncBase, SyncTypeOK, Inv
<1>2. ASSUME sync' \in Syncs, JobOK', ScOK', AskOK', UNCHANGED <<remote, failures, tangled>>
      PROVE  SyncBase'
  BY <1>1, <1>2 DEF SyncBase, SyncTypeOK
<1>3. CASE ChunkArrives
  <2>1. /\ sync.pc = "download" /\ sync' = [sync EXCEPT !.next = ChunkEnd]
        /\ UNCHANGED <<remote, failures, tangled>>
        /\ chains' = chains /\ entries' = entries /\ sync.next # Height(sync.scTip)
    BY <1>3 DEF ChunkArrives, Downloading, AddBlocks, store
  <2>2. ChunkEnd \in Nat /\ ChunkEnd <= Height(sync.scTip)
    BY <1>1, <2>1, ChunkFacts
  <2>3. /\ sync' \in Syncs /\ sync'.pc = "download" /\ sync'.next = ChunkEnd
        /\ sync'.sc = sync.sc /\ sync'.scTip = sync.scTip
    BY <1>1, <2>1, <2>2 DEF Syncs
  <2>4. JobOK' /\ ScOK' /\ AskOK'
    BY <1>1, <2>1, <2>2, <2>3 DEF JobOK, ScOK, AskOK
  <2> QED
    BY <1>2, <2>1, <2>3, <2>4
<1>4. CASE AddingBlocks
  <2>1. /\ sync.pc = "download" /\ sync' = sync /\ UNCHANGED <<remote, failures, tangled>>
        /\ entries \subseteq entries' /\ DOMAIN chains' = DOMAIN chains
        /\ \A j \in DOMAIN chains : chains'[j].hs = chains[j].hs
    BY <1>1, <1>4, AddingChains
  <2>2. JobOK' /\ ScOK' /\ AskOK'
    BY <1>1, <2>1 DEF JobOK, ScOK, AskOK
  <2> QED
    BY <1>1, <1>2, <2>1, <2>2
<1>5. CASE AddBlocksFails
  <2>1. sync' = Returned("failed") /\ UNCHANGED <<remote, failures, tangled>>
    BY <1>5 DEF AddBlocksFails
  <2>2. job'.pc \in {"idle", "panic"}
    BY <1>5 DEF AddBlocksFails, RefuseBlock, ReorgFails, ReorgPanics, Idle
  <2>3. sync' \in Syncs /\ sync'.pc = "idle"
    BY <2>1, ReturnedFacts
  <2>4. JobOK' /\ ScOK' /\ AskOK'
    BY <2>2, <2>3 DEF JobOK, ScOK, AskOK
  <2> QED
    BY <1>2, <2>1, <2>3, <2>4
<1>6. CASE AddBlocksReturns
  <2> DEFINE sc == IF Len(chains') = Len(chains) THEN sync.sc
                   ELSE IF job.chain = sync.sc THEN 0
                   ELSE IF job.chain < sync.sc THEN sync.sc - 1 ELSE sync.sc
  <2>1. /\ sync.pc = "download" /\ FinishBlocks /\ sync' = [sync EXCEPT !.sc = sc]
        /\ UNCHANGED <<remote, failures, tangled>> /\ entries' = entries
    BY <1>6 DEF AddBlocksReturns, FinishBlocks, store
  <2>2. /\ sync.next <= Height(sync.scTip)
        /\ sync.sc = 0 => sync.scTip \in entries
        /\ sync.sc # 0 => sync.sc \in DOMAIN chains /\ chains[sync.sc].hs = sync.scTip
    BY <1>1, <2>1 DEF ScOK
  <2>3. /\ chains \in Seq(ScratchChains) /\ Len(chains) \in Nat /\ DOMAIN chains = 1 .. Len(chains)
        /\ sync.sc \in Nat
    BY <1>1 DEF TypeOK, Syncs
  <2>4. /\ job.chain \in DOMAIN chains
        /\ \/ ~FullyValidated(Current) /\ chains' = chains
           \/ /\ FullyValidated(Current)
              /\ Len(chains') = Len(chains) - 1 /\ DOMAIN chains' = 1 .. Len(chains) - 1
              /\ \A j \in DOMAIN chains' :
                   chains'[j] = IF j < job.chain THEN chains[j] ELSE chains[j + 1]
    BY <1>1, <2>1, FinishChains
  <2>5. /\ sc \in Nat
        /\ sc = 0 => sync.scTip \in entries
        /\ sc # 0 => sc \in DOMAIN chains' /\ chains'[sc].hs = sync.scTip
    <3>1. CASE chains' = chains
      BY <2>2, <2>3, <3>1
    <3>2. CASE FullyValidated(Current) /\ Len(chains') = Len(chains) - 1
      <4>1. /\ DOMAIN chains' = 1 .. Len(chains) - 1
            /\ \A j \in DOMAIN chains' :
                 chains'[j] = IF j < job.chain THEN chains[j] ELSE chains[j + 1]
        <5>1. chains' # chains
          BY <2>3, <3>2
        <5> QED
          BY <2>4, <5>1
      <4>2. sync.sc = 0 \/ sync.sc \in 1 .. Len(chains)
        BY <2>2, <2>3
      <4>3. sc = Renumbered(job.chain, sync.sc)
        <5>1. Len(chains') # Len(chains)
          <6>1. PICK n \in Nat : n = Len(chains)
            BY <2>3
          <6>2. n - 1 # n
            OBVIOUS
          <6> QED
            BY <3>2, <6>1, <6>2, Zenon
        <5> QED
          BY <5>1, Zenon DEF Renumbered
      <4> HIDE DEF sc
      <4>4. /\ Renumbered(job.chain, sync.sc) \in Nat
            /\ Renumbered(job.chain, sync.sc) = 0 => sync.sc \in {0, job.chain}
            /\ Renumbered(job.chain, sync.sc) # 0 =>
                 /\ sync.sc # 0 /\ Renumbered(job.chain, sync.sc) \in DOMAIN chains'
                 /\ chains'[Renumbered(job.chain, sync.sc)] = chains[sync.sc]
        <5>1. chains \in Seq(ScratchChains) /\ job.chain \in DOMAIN chains /\ sync.sc \in Nat
          BY <2>3, <2>4
        <5>2. PICK t : t = chains'
          OBVIOUS
        <5>3. /\ DOMAIN t = 1 .. Len(chains) - 1
              /\ \A j \in DOMAIN t : t[j] = IF j < job.chain THEN chains[j] ELSE chains[j + 1]
          BY <4>1, <5>2, Zenon
        <5>4. /\ Renumbered(job.chain, sync.sc) \in Nat
              /\ Renumbered(job.chain, sync.sc) = 0 => sync.sc \in {0, job.chain}
              /\ Renumbered(job.chain, sync.sc) # 0 =>
                   /\ sync.sc # 0 /\ Renumbered(job.chain, sync.sc) \in DOMAIN t
                   /\ t[Renumbered(job.chain, sync.sc)] = chains[sync.sc]
          BY <4>2, <5>1, <5>3, PlaceRenumbered, SMTT(30)
        <5> QED
          BY <5>2, <5>4, Zenon
      <4>5. sync.sc = job.chain => sync.scTip \in entries
        BY <1>1, <2>2, <2>3, <2>4, <3>2 DEF FullyValidated, Inv, ChainsOK, Current
      <4> QED
        BY <2>2, <4>3, <4>4, <4>5
    <3> QED
      BY <2>4, <3>1, <3>2
  <2> HIDE DEF sc
  <2>6. /\ sync' \in Syncs /\ sync'.pc = "download" /\ sync'.sc = sc
        /\ sync'.next = sync.next /\ sync'.scTip = sync.scTip
    BY <1>1, <2>1, <2>5 DEF Syncs
  <2>7. JobOK' /\ ScOK' /\ AskOK'
    BY <2>1, <2>2, <2>5, <2>6 DEF JobOK, ScOK, AskOK
  <2> QED
    BY <1>2, <2>1, <2>6, <2>7
<1> QED
  BY <1>3, <1>4, <1>5, <1>6

\* All of it is preserved by every step.
LEMMA SyncBaseStep == SInv /\ [SyncNext]_syncVars => SInv'
<1> SUFFICES ASSUME SInv, [SyncNext]_syncVars PROVE SInv'
  OBVIOUS
<1>1. Inv /\ Heaviest!Inv /\ SyncTypeOK /\ ScOK /\ HeightsOK
  BY DEF SInv, SyncBase
<1>2. [Next]_vars
  BY <1>1, SyncIsManagerStep
<1>3. Inv' /\ Heaviest!Inv' /\ HeightsOK'
  <2>1. [Heaviest!Next]_(Heaviest!vars)
    BY <1>1, <1>2, StepRefines
  <2> QED
    BY <1>1, <1>2, <2>1, StepInv, StepHeaviest, HeightsStep
<1>4. SyncBase'
  <2>1. ASSUME NEW b \in TipBlocks, TipBlock(b) PROVE SyncBase'
    BY <2>1, TipBlockBase
  <2>2. CASE HeadersAdded
    BY <1>3, <2>2, HeadersAddedBase
  <2>3. CASE ChunkArrives \/ AddingBlocks \/ AddBlocksFails \/ AddBlocksReturns
    BY <1>3, <2>3, DownloadBase
  <2>4. CASE \/ \E t \in PeerTips : Begin(t)
             \/ PeerMovesOn \/ NoHeaders \/ SomeHeaders \/ NoAnswer
             \/ HeadersStored \/ HeadersTracked \/ HeadersRefused \/ HeadersOrphaned
             \/ ChunkOrphaned \/ DownloadFails \/ DownloadDone \/ NothingToWaitFor
             \/ UNCHANGED syncVars
    <3>1. UNCHANGED vars
      BY <2>4 DEF syncVars, Begin, PeerMovesOn, NoHeaders, SomeHeaders, NoAnswer, HeadersStored,
         HeadersTracked, HeadersRefused, HeadersOrphaned, ChunkOrphaned, DownloadFails, DownloadDone,
         NothingToWaitFor
    <3> QED
      BY <1>3, <2>4, <3>1, QuietBase
  <2> QED
    BY <2>1, <2>2, <2>3, <2>4 DEF SyncNext, SyncStep
<1> QED
  BY <1>3, <1>4 DEF SInv

LEMMA InitSInv == SyncInit => SInv
<1> SUFFICES ASSUME SyncInit PROVE SInv
  OBVIOUS
<1>1. Init /\ Inv /\ Heaviest!Inv
  BY InitInv, InitRefines, InitHeaviest DEF SyncInit
<1>2. Returned("none") \in Syncs /\ Returned("none").pc = "idle"
  BY ReturnedFacts
<1>3. SyncTypeOK
  <2>1. MaxFailures \in Nat /\ Genesis \in Blocks
    BY GenesisAssumption, HeaderSyncAssumption
  <2>2. 0 \in 0 .. MaxFailures
    BY <2>1
  <2> QED
    BY <1>2, <2>1, <2>2 DEF SyncInit, SyncTypeOK
<1>4. HeightsOK
  <2>1. chains = <<>>
    BY <1>1 DEF Init
  <2> QED
    BY <2>1 DEF HeightsOK
<1>5. JobOK /\ ScOK /\ AskOK
  BY <1>1, <1>2 DEF SyncInit, Init, Idle, JobOK, ScOK, AskOK
<1> QED
  BY <1>1, <1>3, <1>4, <1>5 DEF SInv, SyncBase

LEMMA SyncBaseHolds == SyncSpec => []SInv
  BY InitSInv, SyncBaseStep, PTL DEF SyncSpec

-----------------------------------------------------------------------------
(* A sync ends with a chain at least as heavy as the peer's.               *)

\* The types of what syncToTarget keeps.
THEOREM SyncTypes == SyncSpec => []SyncTypeOK
<1>1. SInv => SyncTypeOK
  BY DEF SInv, SyncBase
<1> QED
  BY <1>1, SyncBaseHolds, PTL

\* A sync that ends because the peer has no more headers ends on a chain with
\* at least as much work as the peer's, whether AddHeaders returned chains or
\* nil on the way.
THEOREM SyncEndsSynced == SyncSpec => EndsSynced
<1>1. SInv /\ [SyncNext]_syncVars =>
        (sync.pc = "ask" /\ sync'.end = "synced" /\ ~lost => TotalWork[remote] <= TotalWork[cs])
  <2> SUFFICES ASSUME SInv, [SyncNext]_syncVars, sync.pc = "ask", sync'.end = "synced", ~lost
               PROVE  TotalWork[remote] <= TotalWork[cs]
    OBVIOUS
  <2>1. /\ sync.end = "none" /\ remote \in Blocks /\ cs \in Blocks /\ sync.history \in SUBSET Blocks
        /\ \A b \in sync.history : TotalWork[b] <= TotalWork[cs]
    BY DEF SInv, SyncBase, AskOK, SyncTypeOK, Syncs, Inv, TypeOK
  <2>2. sync \in Syncs
    BY DEF SInv, SyncBase, SyncTypeOK
  <2>3. NoHeaders
    <3>1. CASE sync' = sync
      BY <2>1, <3>1
    <3>2. CASE SomeHeaders
      <4>1. sync'.end = sync.end
        BY <2>2, <3>2 DEF SomeHeaders, Syncs
      <4> QED
        BY <2>1, <4>1
    <3>3. CASE NoAnswer
      <4>1. sync'.end = "failed"
        BY <3>3, ReturnedFacts DEF NoAnswer
      <4> QED
        BY <4>1
    <3> QED
      BY <3>1, <3>2, <3>3 DEF SyncNext, SyncStep, Begin, TipBlock, PeerMovesOn, HeadersStored,
         HeadersTracked, HeadersAdded, HeadersRefused, HeadersOrphaned, Downloading, ChunkArrives,
         ChunkOrphaned, DownloadFails, AddingBlocks, AddBlocksFails, AddBlocksReturns, DownloadDone,
         NothingToWaitFor, syncVars
  <2>4. remote \in sync.history \cup {Genesis}
    BY <2>1, <2>3, AttachFacts DEF NoHeaders
  <2>5. TotalWork[Genesis] <= TotalWork[cs]
    BY <2>1, GenesisOnChain, WorkMonotone
  <2> QED
    BY <2>1, <2>4, <2>5
<1> QED
  BY <1>1, SyncBaseHolds, PTL DEF SyncSpec, EndsSynced

-----------------------------------------------------------------------------
(* Headers are asked for from where the chains part.                       *)

\* The tip of a history is the highest block of it.
LEMMA HighestOfHistory ==
  ASSUME NEW x \in Blocks
  PROVE  (CHOOSE b \in History(x) : \A c \in History(x) : Height(c) <= Height(b)) = x
<1> DEFINE Highest(b) == \A c \in History(x) : Height(c) <= Height(b)
<1>1. x \in History(x) /\ Height(x) \in Nat /\ \A b \in History(x) : b \in Blocks /\ OnChain(b, x)
  BY HistoryFacts, HeightType
<1>2. Highest(x)
  BY <1>1, OneOfHeight
<1>3. ASSUME NEW b \in History(x), Highest(b) PROVE b = x
  <2>1. b \in Blocks /\ OnChain(b, x) /\ Height(x) <= Height(b)
    BY <1>1, <1>3
  <2>2. Height(b) \in Nat /\ Height(b) <= Height(x)
    BY <1>1, <2>1, HeightType, OneOfHeight
  <2> QED
    BY <1>1, <2>1, <2>2, OneOfHeight
<1> HIDE DEF Highest
<1>4. (CHOOSE b \in History(x) : Highest(b)) = x
  BY <1>1, <1>2, <1>3
<1> QED
  BY <1>4 DEF Highest

\* Every history of more than one block that is sent spans the chain: it has
\* the fork with the peer's chain if that is one of the last ten blocks, and
\* else a block less than as far again below it.
THEOREM HistoriesSpan == SyncSpec => []HistorySpans
<1>1. SInv => HistorySpans
  <2> SUFFICES ASSUME SInv, sync.pc = "ask", Cardinality(sync.history) > 1, NEW t \in Blocks
               PROVE  LET tip == CHOOSE b \in sync.history : \A c \in sync.history : Height(c) <= Height(b)
                          toFork   == Height(tip) - Height(Fork(tip, t))
                          toAttach == Height(tip) - Height(AttachPoint(sync.history, t))
                      IN  toAttach <= IF toFork < 10 THEN toFork ELSE 2 * toFork - 1
    BY DEF HistorySpans
  <2>1. (\E x \in Blocks : sync.history = History(x)) \/ (\E b \in Blocks : sync.history = {b})
    BY DEF SInv, SyncBase, AskOK
  <2>2. ASSUME NEW b \in Blocks, sync.history = {b} PROVE FALSE
    <3>1. Cardinality({b}) = 1
      BY FS_Singleton
    <3>2. Cardinality(sync.history) = 1
      BY <2>2, <3>1, Zenon
    <3> QED
      BY <3>2
  <2>3. PICK x \in Blocks : sync.history = History(x)
    BY <2>1, <2>2
  <2>4. (CHOOSE b \in sync.history : \A c \in sync.history : Height(c) <= Height(b)) = x
    BY <2>3, HighestOfHistory
  <2> QED
    BY <2>3, <2>4, HistoryReaches
<1> QED
  BY <1>1, SyncBaseHolds, PTL

-----------------------------------------------------------------------------
(* Tracked chains that stay apart.                                         *)
(*                                                                         *)
(* The blocks of a chain reach it, and not another one that comes before   *)
(* it in chains, because chains share only what the later one has          *)
(* validated, and no earlier chain stands on the headers of a later one.   *)

\* The validated blocks of a chain are those of its headers.
Matched(c) ==
  \A i \in DOMAIN c : OnChain(c[i].base, c[i].ts) /\ OnChain(c[i].ts, c[i].hs)

\* What a chain shares with an earlier one, it has validated.
Apart(c) ==
  \A i, j \in DOMAIN c : i < j =>
    \A x \in Blocks : Contains(c[i], x) /\ Contains(c[j], x) => OnChain(x, c[j].ts)

\* No chain stands on the headers of a later one.
Rooted(c) ==
  \A i, j \in DOMAIN c : j < i =>
    \A x \in Blocks : Contains(c[i], x) => ~OnChain(x, c[j].base)

Separate(c) == Matched(c) /\ Apart(c) /\ Rooted(c)

LEMMA ScratchFacts ==
  ASSUME NEW c \in Seq(ScratchChains), NEW i \in DOMAIN c
  PROVE  /\ c[i].base \in Blocks /\ c[i].hs \in Blocks /\ c[i].ts \in Blocks
         /\ Height(c[i].base) \in Nat /\ Height(c[i].hs) \in Nat /\ Height(c[i].ts) \in Nat
         /\ \A x \in Blocks : Contains(c[i], x) <=> OnChain(x, c[i].hs) /\ Height(c[i].base) < Height(x)
<1>1. c[i] \in ScratchChains
  OBVIOUS
<1>2. c[i].base \in Blocks /\ c[i].hs \in Blocks /\ c[i].ts \in Blocks
  BY <1>1 DEF ScratchChains
<1>3. \A x \in Blocks : Contains(c[i], x) <=> OnChain(x, c[i].hs) /\ Height(c[i].base) < Height(x)
  BY <1>2, ContainsFacts
<1> QED
  BY <1>2, <1>3, HeightType

\* They stay apart when blocks of theirs are validated,
LEMMA SeparateGrow ==
  ASSUME NEW c \in Seq(ScratchChains), NEW d \in Seq(ScratchChains), Separate(c),
         DOMAIN d = DOMAIN c,
         \A j \in DOMAIN c : /\ d[j].base = c[j].base /\ d[j].hs = c[j].hs
                             /\ OnChain(c[j].ts, d[j].ts) /\ OnChain(d[j].ts, d[j].hs)
  PROVE  Separate(d)
<1>1. Matched(d)
  <2> SUFFICES ASSUME NEW j \in DOMAIN d
               PROVE  OnChain(d[j].base, d[j].ts) /\ OnChain(d[j].ts, d[j].hs)
    BY DEF Matched
  <2>1. c[j].base \in Blocks /\ c[j].ts \in Blocks /\ d[j].ts \in Blocks
    BY ScratchFacts
  <2> QED
    BY <2>1, OnChainTransitive DEF Separate, Matched
<1>2. \A j \in DOMAIN c, x \in Blocks : Contains(d[j], x) <=> Contains(c[j], x)
  BY ScratchFacts
<1>3. Apart(d)
  <2> SUFFICES ASSUME NEW i \in DOMAIN d, NEW j \in DOMAIN d, i < j, NEW x \in Blocks,
                      Contains(d[i], x), Contains(d[j], x)
               PROVE  OnChain(x, d[j].ts)
    BY DEF Apart
  <2>1. OnChain(x, c[j].ts)
    BY <1>2 DEF Separate, Apart
  <2>2. c[j].ts \in Blocks /\ d[j].ts \in Blocks
    BY ScratchFacts
  <2> QED
    BY <2>1, <2>2, OnChainTransitive
<1>4. Rooted(d)
  BY <1>2 DEF Separate, Rooted
<1> QED
  BY <1>1, <1>3, <1>4 DEF Separate

\* and when one of them is discarded.
LEMMA SeparateRemove ==
  ASSUME NEW c \in Seq(ScratchChains), Separate(c), NEW d, NEW m \in DOMAIN c,
         DOMAIN d = 1 .. Len(c) - 1,
         \A j \in DOMAIN d : d[j] = IF j < m THEN c[j] ELSE c[j + 1]
  PROVE  Separate(d)
<1> DEFINE Old(j) == IF j < m THEN j ELSE j + 1
<1>1. DOMAIN c = 1 .. Len(c) /\ Len(c) \in Nat /\ m \in 1 .. Len(c)
  OBVIOUS
<1>2. ASSUME NEW j \in DOMAIN d PROVE Old(j) \in DOMAIN c /\ d[j] = c[Old(j)]
  BY <1>1, <1>2
<1>3. ASSUME NEW i \in DOMAIN d, NEW j \in DOMAIN d, i < j PROVE Old(i) < Old(j)
  BY <1>1, <1>3
<1> HIDE DEF Old
<1>4. Matched(d)
  BY <1>2 DEF Separate, Matched
<1>5. Apart(d)
  BY <1>2, <1>3 DEF Separate, Apart
<1>6. Rooted(d)
  BY <1>2, <1>3 DEF Separate, Rooted
<1> QED
  BY <1>4, <1>5, <1>6 DEF Separate

\* A block that a chain shares with the headers up to t is validated, unless
\* the headers extend the chain.
LEMMA SharedIsValidated ==
  ASSUME NEW sc \in ScratchChains, OnChain(sc.ts, sc.hs),
         NEW t \in Blocks, NEW x \in Blocks, Contains(sc, x), OnChain(x, t),
         ~Contains(sc, t), ~LeavesHalfWay(sc, t),
         ~(OnChain(sc.hs, t) /\ Height(sc.hs) < Height(t))
  PROVE  OnChain(x, sc.ts)
<1>1. sc.base \in Blocks /\ sc.hs \in Blocks /\ sc.ts \in Blocks
  BY DEF ScratchChains
<1>2. \A y \in Blocks : Contains(sc, y) <=> OnChain(y, sc.hs) /\ Height(sc.base) < Height(y)
  BY <1>1, ContainsFacts
<1>3. /\ Height(sc.base) \in Nat /\ Height(sc.hs) \in Nat /\ Height(sc.ts) \in Nat
      /\ Height(x) \in Nat /\ Height(t) \in Nat
  BY <1>1, HeightType
<1>4. OnChain(x, sc.hs) /\ Height(sc.base) < Height(x)
  BY <1>2
<1>5. Height(x) <= Height(sc.hs) /\ Height(x) <= Height(t)
  BY <1>1, <1>4, OneOfHeight
<1> DEFINE f == Fork(sc.hs, t)
<1>6. f \in Blocks /\ OnChain(f, sc.hs) /\ OnChain(f, t) /\ OnChain(x, f)
  BY <1>1, <1>4, ForkFacts
<1>7. f # sc.hs
  <2> SUFFICES ASSUME f = sc.hs PROVE FALSE
    OBVIOUS
  <2>1. OnChain(sc.hs, t) /\ Height(sc.hs) <= Height(t)
    BY <1>1, <1>6, OneOfHeight
  <2>2. sc.hs = t
    BY <1>1, <1>3, <2>1, OneOfHeight
  <2>3. Contains(sc, sc.hs)
    BY <1>1, <1>2, <1>3, <1>4, <1>5, OnChainReflexive
  <2> QED
    BY <2>2, <2>3
<1>8. f # t
  <2> SUFFICES ASSUME f = t PROVE FALSE
    OBVIOUS
  <2>1. OnChain(t, sc.hs)
    BY <1>6
  <2> QED
    BY <1>2, <1>3, <1>4, <1>5, <2>1
<1>9. ~(Height(f) > Height(sc.ts))
  BY <1>7, <1>8 DEF LeavesHalfWay
<1> HIDE DEF f
<1>10. Height(f) <= Height(sc.ts)
  BY <1>3, <1>6, <1>9, HeightType
<1>11. OnChain(f, sc.ts)
  BY <1>1, <1>6, <1>10, OnChainLinear
<1> QED
  BY <1>1, <1>6, <1>11, OnChainTransitive

\* The headers up to t, from p, are nothing that chains share: they extend at
\* most the chain at place e, and leave none half way.
Fits(c, p, t, e) ==
  \A i \in DOMAIN c :
    /\ ~Contains(c[i], t) /\ ~LeavesHalfWay(c[i], t)
    /\ i # e /\ OnChain(c[i].hs, t) => Height(c[i].hs) < Height(p)

\* Chains stay apart when headers extend one of them,
LEMMA SeparateExtend ==
  ASSUME NEW c \in Seq(ScratchChains), Separate(c), \A i \in DOMAIN c : c[i].ts # c[i].hs,
         NEW p \in Blocks, NEW t \in Blocks, NEW e \in DOMAIN c, Fits(c, p, t, e),
         OnChain(c[e].hs, t), Height(p) <= Height(c[e].hs), Height(c[e].hs) < Height(t),
         NEW d \in Seq(ScratchChains), DOMAIN d = DOMAIN c,
         \A j \in DOMAIN c : j # e => d[j] = c[j],
         d[e].base = c[e].base /\ d[e].ts = c[e].ts /\ d[e].hs = t
  PROVE  Separate(d) /\ d[e].ts # d[e].hs
<1> DEFINE h == c[e].hs
<1>1. /\ h \in Blocks /\ c[e].ts \in Blocks /\ c[e].base \in Blocks
      /\ Height(h) \in Nat /\ Height(p) \in Nat /\ Height(t) \in Nat
      /\ Height(c[e].ts) \in Nat /\ Height(c[e].base) \in Nat
  BY ScratchFacts, HeightType
<1>2. OnChain(c[e].base, c[e].ts) /\ OnChain(c[e].ts, h)
  BY DEF Separate, Matched
<1>3. Height(c[e].base) < Height(h) /\ Height(c[e].ts) < Height(h)
  <2>1. c[e].ts # h
    OBVIOUS
  <2>2. Height(c[e].base) <= Height(c[e].ts) /\ Height(c[e].ts) <= Height(h)
    BY <1>1, <1>2, OneOfHeight
  <2>3. Height(c[e].ts) # Height(h)
    BY <1>1, <1>2, <2>1, OneOfHeight
  <2> QED
    BY <1>1, <2>2, <2>3
<1>4. Contains(c[e], h)
  BY <1>1, <1>3, ScratchFacts, OnChainReflexive
\* A new header is above h, on whose chain the others are.
<1>5. ASSUME NEW x \in Blocks, Contains(d[e], x), ~Contains(c[e], x)
      PROVE  OnChain(x, t) /\ OnChain(h, x) /\ Height(h) < Height(x)
  <2>1. OnChain(x, t) /\ Height(c[e].base) < Height(x) /\ Height(x) \in Nat
    BY <1>5, ScratchFacts, HeightType
  <2>2. ~OnChain(x, h)
    BY <1>1, <1>5, <2>1, ScratchFacts
  <2>3. ~(Height(x) <= Height(h))
    BY <1>1, <2>1, <2>2, OnChainLinear
  <2>4. Height(h) < Height(x)
    BY <1>1, <2>1, <2>3
  <2> QED
    BY <1>1, <2>1, <2>4, OnChainLinear
\* Another chain that has a new header has validated it.
<1>6. ASSUME NEW x \in Blocks, Contains(d[e], x), ~Contains(c[e], x),
             NEW i \in DOMAIN c, i # e, Contains(c[i], x)
      PROVE  OnChain(x, c[i].ts)
  <2>1. OnChain(x, t) /\ Height(h) < Height(x)
    BY <1>5, <1>6
  <2>2. /\ c[i] \in ScratchChains /\ c[i].hs \in Blocks /\ Height(c[i].hs) \in Nat
        /\ OnChain(x, c[i].hs) /\ Height(x) \in Nat
    BY <1>6, ScratchFacts, HeightType
  <2>3. Height(p) <= Height(c[i].hs)
    <3>1. Height(x) <= Height(c[i].hs)
      BY <2>2, OneOfHeight
    <3>2. Height(p) <= Height(h)
      OBVIOUS
    <3> QED
      BY <1>1, <2>1, <2>2, <3>1, <3>2
  <2>4. ~OnChain(c[i].hs, t) /\ ~Contains(c[i], t) /\ ~LeavesHalfWay(c[i], t)
    BY <1>1, <1>6, <2>2, <2>3 DEF Fits
  <2>5. OnChain(c[i].ts, c[i].hs)
    BY DEF Separate, Matched
  <2> QED
    BY <1>6, <2>1, <2>2, <2>4, <2>5, SharedIsValidated
<1> HIDE DEF h
<1>7. Matched(d)
  <2> SUFFICES ASSUME NEW j \in DOMAIN d
               PROVE  OnChain(d[j].base, d[j].ts) /\ OnChain(d[j].ts, d[j].hs)
    BY DEF Matched
  <2>1. CASE j # e
    BY <2>1 DEF Separate, Matched
  <2>2. CASE j = e
    <3>1. OnChain(h, t)
      BY DEF h
    <3> QED
      BY <1>1, <1>2, <2>2, <3>1, OnChainTransitive
  <2> QED
    BY <2>1, <2>2
<1>8. Apart(d)
  <2> SUFFICES ASSUME NEW i \in DOMAIN d, NEW j \in DOMAIN d, i < j, NEW x \in Blocks,
                      Contains(d[i], x), Contains(d[j], x)
               PROVE  OnChain(x, d[j].ts)
    BY DEF Apart
  <2>1. CASE Contains(c[i], x) /\ Contains(c[j], x)
    <3>1. OnChain(x, c[j].ts)
      BY <2>1 DEF Separate, Apart
    <3>2. d[j].ts = c[j].ts
      OBVIOUS
    <3> QED
      BY <3>1, <3>2
  <2>2. CASE i = e /\ ~Contains(c[e], x)
    <3>1. j # e /\ d[j] = c[j]
      BY <2>2
    <3> QED
      BY <1>6, <2>2, <3>1
  <2>3. CASE j = e /\ ~Contains(c[e], x)
    <3>1. i # e /\ d[i] = c[i]
      BY <2>3
    <3>2. OnChain(x, c[i].ts) /\ OnChain(h, x) /\ c[i].ts \in Blocks /\ c[i].base \in Blocks
          /\ c[i].hs \in Blocks /\ Height(c[i].base) \in Nat
      BY <1>5, <1>6, <2>3, <3>1, ScratchFacts
    <3>3. OnChain(h, c[i].ts)
      BY <1>1, <3>2, OnChainTransitive
    <3>4. OnChain(c[i].base, c[i].ts) /\ OnChain(c[i].ts, c[i].hs)
      BY DEF Separate, Matched
    <3>5. CASE Height(c[i].base) < Height(h)
      <4>1. OnChain(h, c[i].hs)
        BY <1>1, <3>2, <3>3, <3>4, OnChainTransitive
      <4>2. Contains(c[i], h)
        BY <1>1, <3>5, <4>1, ScratchFacts
      <4>3. OnChain(h, c[e].ts)
        BY <1>1, <1>4, <2>3, <4>2 DEF Separate, Apart
      <4>4. Height(h) <= Height(c[e].ts)
        BY <1>1, <4>3, OneOfHeight
      <4> QED
        BY <1>1, <1>3, <4>4
    <3>6. CASE Height(h) <= Height(c[i].base)
      <4>1. OnChain(h, c[i].base)
        BY <1>1, <3>2, <3>3, <3>4, <3>6, OnChainLinear
      <4> QED
        BY <1>1, <1>4, <2>3, <4>1 DEF Separate, Rooted
    <3> QED
      BY <1>1, <3>2, <3>5, <3>6
  <2>4. i = e \/ d[i] = c[i]
    OBVIOUS
  <2>5. j = e \/ d[j] = c[j]
    OBVIOUS
  <2> QED
    BY <2>1, <2>2, <2>3, <2>4, <2>5
<1>9. Rooted(d)
  <2> SUFFICES ASSUME NEW i \in DOMAIN d, NEW j \in DOMAIN d, j < i, NEW x \in Blocks,
                      Contains(d[i], x), OnChain(x, d[j].base)
               PROVE  FALSE
    BY DEF Rooted
  <2>1. d[j].base = c[j].base /\ c[j].base \in Blocks
    BY ScratchFacts
  <2>2. CASE Contains(c[i], x)
    BY <2>1, <2>2 DEF Separate, Rooted
  <2>3. CASE i = e /\ ~Contains(c[e], x)
    <3>1. OnChain(h, x)
      BY <1>5, <2>3
    <3>2. OnChain(h, c[j].base)
      BY <1>1, <2>1, <3>1, OnChainTransitive
    <3> QED
      BY <1>1, <1>4, <2>3, <3>2 DEF Separate, Rooted
  <2>4. i = e \/ d[i] = c[i]
    OBVIOUS
  <2> QED
    BY <2>2, <2>3, <2>4
<1>10. d[e].ts # d[e].hs
  BY <1>1, <1>3 DEF h
<1> QED
  BY <1>7, <1>8, <1>9, <1>10 DEF Separate

\* or begin one above the stored blocks.
LEMMA SeparateStart ==
  ASSUME NEW c \in Seq(ScratchChains), Separate(c),
         NEW stored \in SUBSET Blocks, \A x \in stored : x # Genesis => Parent[x] \in stored,
         \A i \in DOMAIN c : c[i].base \in stored /\ c[i].ts \in stored,
         NEW p \in Blocks, NEW t \in Blocks, Fits(c, p, t, 0),
         NEW b \in stored, OnChain(p, b), OnChain(b, t), b # t,
         IndexAt(t, Height(b) + 1) \notin stored,
         NEW d \in Seq(ScratchChains), DOMAIN d = 1 .. Len(c) + 1,
         \A j \in DOMAIN c : d[j] = c[j],
         d[Len(c) + 1] = [base |-> b, hs |-> t, ts |-> b]
  PROVE  Separate(d) /\ d[Len(c) + 1].ts # d[Len(c) + 1].hs
<1> DEFINE n == Len(c) + 1
<1>1. /\ DOMAIN c = 1 .. n - 1 /\ n \in Nat \ {0} /\ n \in DOMAIN d /\ DOMAIN d = 1 .. n
      /\ d[n].base = b /\ d[n].hs = t /\ d[n].ts = b
  OBVIOUS
<1>2. b \in Blocks /\ Height(b) \in Nat /\ Height(t) \in Nat /\ Height(p) \in Nat
      /\ Height(p) <= Height(b)
  BY HeightType, OneOfHeight
<1> HIDE DEF n
\* No header of the new chain is stored.
<1>3. ASSUME NEW x \in Blocks, Contains(d[n], x), x \in stored PROVE FALSE
  <2>1. OnChain(x, t) /\ Height(b) < Height(x) /\ Height(x) \in Nat
    BY <1>1, <1>3, ScratchFacts, HeightType
  <2>2. Height(b) + 1 \in 0 .. Height(x)
    BY <1>2, <2>1
  <2>3. IndexAt(x, Height(b) + 1) = IndexAt(t, Height(b) + 1)
    BY <2>1, <2>2, SameBelow
  <2>4. IndexAt(x, Height(b) + 1) \in Blocks /\ OnChain(IndexAt(x, Height(b) + 1), x)
    BY <2>2, IndexAtFacts
  <2>5. IndexAt(x, Height(b) + 1) \in stored
    BY <1>3, <2>4, Downward
  <2> QED
    BY <2>3, <2>5
\* So no chain shares one of them.
<1>4. ASSUME NEW x \in Blocks, Contains(d[n], x), NEW i \in DOMAIN c, Contains(c[i], x)
      PROVE  FALSE
  <2>1. OnChain(x, t) /\ Height(b) < Height(x) /\ Height(x) \in Nat
    BY <1>1, <1>4, ScratchFacts, HeightType
  <2>2. /\ c[i] \in ScratchChains /\ c[i].hs \in Blocks /\ Height(c[i].hs) \in Nat
        /\ OnChain(x, c[i].hs) /\ c[i].ts \in Blocks
    BY <1>4, ScratchFacts
  <2>3. ~(Height(c[i].hs) < Height(p))
    <3>1. Height(x) <= Height(c[i].hs)
      BY <2>2, OneOfHeight
    <3> QED
      BY <1>2, <2>1, <2>2, <3>1
  <2>4. ~OnChain(c[i].hs, t) /\ ~Contains(c[i], t) /\ ~LeavesHalfWay(c[i], t)
    BY <1>1, <2>3 DEF Fits
  <2>5. OnChain(c[i].ts, c[i].hs)
    BY DEF Separate, Matched
  <2>6. OnChain(x, c[i].ts)
    BY <1>4, <2>1, <2>2, <2>4, <2>5, SharedIsValidated
  <2>7. x \in stored
    BY <2>2, <2>6, Downward
  <2> QED
    BY <1>3, <1>4, <2>7
<1>5. Matched(d)
  <2> SUFFICES ASSUME NEW j \in DOMAIN d
               PROVE  OnChain(d[j].base, d[j].ts) /\ OnChain(d[j].ts, d[j].hs)
    BY DEF Matched
  <2>1. CASE j \in DOMAIN c
    BY <2>1 DEF Separate, Matched
  <2>2. CASE j = n
    BY <1>1, <1>2, <2>2, OnChainReflexive
  <2> QED
    BY <1>1, <2>1, <2>2
<1>6. Apart(d)
  <2> SUFFICES ASSUME NEW i \in DOMAIN d, NEW j \in DOMAIN d, i < j, NEW x \in Blocks,
                      Contains(d[i], x), Contains(d[j], x)
               PROVE  OnChain(x, d[j].ts)
    BY DEF Apart
  <2>1. i \in DOMAIN c /\ d[i] = c[i]
    BY <1>1
  <2>2. CASE j \in DOMAIN c
    BY <2>1, <2>2 DEF Separate, Apart
  <2>3. CASE j = n
    BY <1>4, <2>1, <2>3
  <2> QED
    BY <1>1, <2>2, <2>3
<1>7. Rooted(d)
  <2> SUFFICES ASSUME NEW i \in DOMAIN d, NEW j \in DOMAIN d, j < i, NEW x \in Blocks,
                      Contains(d[i], x), OnChain(x, d[j].base)
               PROVE  FALSE
    BY DEF Rooted
  <2>1. j \in DOMAIN c /\ d[j] = c[j] /\ c[j].base \in stored
    BY <1>1
  <2>2. CASE i \in DOMAIN c
    BY <2>1, <2>2 DEF Separate, Rooted
  <2>3. CASE i = n
    <3>1. x \in stored
      BY <2>1, Downward
    <3> QED
      BY <1>3, <2>3, <3>1
  <2> QED
    BY <1>1, <2>2, <2>3
<1>8. d[n].ts # d[n].hs
  BY <1>1
<1> QED
  BY <1>5, <1>6, <1>7, <1>8 DEF Separate, n

-----------------------------------------------------------------------------
(* What holds of a sync as long as no headers make tracked chains overlap. *)

\* A chain that has all its blocks is the one that AddBlocks is at.
Unfinished ==
  \A i \in DOMAIN chains : chains[i].ts = chains[i].hs => job.pc # "idle" /\ i = job.chain

\* What we tell the peer we have, we have.
AskHave == sync.pc = "ask" => \A b \in sync.history : Known(b)

\* The headers that arrive follow one of those, and tangle nothing.
AddHave ==
  sync.pc = "add" => /\ Known(sync.from) /\ OnChain(sync.from, sync.to) /\ sync.from # sync.to
                     /\ ~Tangles(sync.from, sync.to)

\* The height up to which the blocks of a call are validated, all of them but
\* for the one whose reorg is not over.
Done == IF Reorging THEN Height(Current.ts) - 1 ELSE Height(Current.ts)

\* AddBlocks is at the chain that is downloaded, and has yet to add the blocks
\* up to sync.next.
DownOK ==
  sync.pc = "download" =>
    /\ job.pc = "idle" /\ sync.sc = 0 => sync.next = Height(sync.scTip)
    /\ job.pc = "idle" /\ sync.sc # 0 => sync.next = Height(chains[sync.sc].ts)
    /\ job.pc # "idle" =>
         /\ sync.sc # 0 /\ job.chain = sync.sc
         /\ Len(job.todo) = sync.next - Done
         /\ \A k \in 1 .. Len(job.todo) : job.todo[k] = IndexAt(sync.scTip, Done + k)

\* Once a reorg is past the base of the chain it stays on what is validated.
ApplyOK ==
  job.pc = "apply" /\ job.rebase = <<>> => OnChain(Current.base, cs) /\ OnChain(cs, Current.ts)

Smooth == ~lost /\ sync.end # "orphan" /\ sync.pc # "waiting" /\ job.pc # "panic"

Orderly == Separate(chains) /\ Unfinished /\ AskHave /\ AddHave /\ DownOK /\ ApplyOK

\* A Syncer that has stopped leaves a chain as it is.
UntangledInv == ~tangled => Smooth /\ (sync.pc # "stopped" => Orderly)

\* AddHeaders returned a chain that is not done, or nil.
LEMMA TakeOrderly ==
  ASSUME TypeOK', SyncTypeOK, sync.pc = "add", sync.end # "orphan", job'.pc = "idle",
         NEW i \in DOMAIN chains', Separate(chains'), chains'[i].ts # chains'[i].hs,
         sync.to \in entries' \/ (\E j \in DOMAIN chains' : Contains(chains'[j], sync.to)),
         TakeChain(i)
  PROVE  sync'.end # "orphan" /\ sync'.pc # "waiting" /\ AskHave' /\ AddHave' /\ DownOK'
<1>1. sync \in Syncs /\ sync.to \in Blocks
  BY DEF SyncTypeOK, Syncs
<1>2. CASE sync' = AskNext(sync.to)
  <2>1. sync'.pc = "ask" /\ sync'.end = "none" /\ sync'.history = {sync.to}
    BY <1>1, <1>2, AskNextFacts
  <2>2. AskHave'
    BY <2>1 DEF AskHave, Known
  <2> QED
    BY <2>1, <2>2 DEF AddHave, DownOK
<1>3. CASE sync' = Download(i)
  <2>1. chains' \in Seq(ScratchChains) /\ OnChain(chains'[i].ts, chains'[i].hs)
    BY DEF TypeOK, Separate, Matched
  <2>2. chains'[i].ts \in Blocks /\ chains'[i].hs \in Blocks
        /\ Height(chains'[i].ts) \in Nat /\ Height(chains'[i].hs) \in Nat
    BY <2>1, ScratchFacts
  <2>3. Height(chains'[i].ts) # Height(chains'[i].hs)
    BY <2>1, <2>2, OneOfHeight
  <2>4. i # 0 /\ i \in Nat
    BY <2>1
  <2>5. sync' = [sync EXCEPT !.pc = "download", !.sc = i, !.scTip = chains'[i].hs,
                             !.next = Height(chains'[i].ts)]
    BY <1>3, <2>3 DEF Download
  <2>6. /\ sync'.pc = "download" /\ sync'.end = sync.end /\ sync'.sc = i
        /\ sync'.next = Height(chains'[i].ts)
    BY <1>1, <2>5 DEF Syncs
  <2> QED
    BY <2>4, <2>6 DEF AskHave, AddHave, DownOK
<1> QED
  BY <1>2, <1>3 DEF TakeChain

\* The next chunk belongs to the chain that is downloaded, and to no chain
\* before it, and follows what that chain has validated.
LEMMA NextChunkAccepted ==
  ASSUME SInv, Orderly, sync.pc = "download", job.pc = "idle", sync.next # Height(sync.scTip)
  PROVE  /\ sync.sc \in DOMAIN chains /\ sync.next = Height(chains[sync.sc].ts)
         /\ sync.sc \in Accepting(IndexAt(sync.scTip, sync.next + 1))
         /\ \A i \in Accepting(IndexAt(sync.scTip, sync.next + 1)) : sync.sc <= i
<1>1. /\ TypeOK /\ SyncTypeOK /\ ScOK /\ chains \in Seq(ScratchChains) /\ Separate(chains)
  BY DEF SInv, SyncBase, Inv, TypeOK, Orderly
<1>2. sync.sc # 0 /\ sync.next = Height(chains[sync.sc].ts)
  BY DEF Orderly, DownOK
<1>3. sync.sc \in DOMAIN chains /\ chains[sync.sc].hs = sync.scTip
  BY <1>1, <1>2 DEF ScOK
<1> DEFINE k == sync.sc
           b == IndexAt(sync.scTip, sync.next + 1)
<1>4. sync.next + 1 \in 0 .. Height(sync.scTip) /\ sync.scTip \in Blocks /\ sync.next \in Nat
  BY <1>1, ChunkFacts
<1>5. b \in Blocks /\ Height(b) = sync.next + 1 /\ OnChain(b, sync.scTip)
  BY <1>4, IndexAtFacts
<1> HIDE DEF b
<1>6. /\ chains[k].base \in Blocks /\ chains[k].ts \in Blocks /\ chains[k].hs \in Blocks
      /\ Height(chains[k].base) \in Nat /\ Height(chains[k].ts) \in Nat
      /\ (Contains(chains[k], b) <=> OnChain(b, chains[k].hs) /\ Height(chains[k].base) < Height(b))
  BY <1>1, <1>3, <1>5, ScratchFacts
<1>7. Height(chains[k].base) <= Height(chains[k].ts)
  BY <1>1, <1>3, <1>6, OneOfHeight DEF Separate, Matched
<1>8. Contains(chains[k], b)
  BY <1>2, <1>3, <1>5, <1>6, <1>7
<1>9. k \in Accepting(b)
  <2>1. chains[k].ts # chains[k].hs
    BY <1>3 DEF Orderly, Unfinished
  <2>2. Height(b) - 1 <= Height(chains[k].ts)
    BY <1>2, <1>5, <1>6
  <2> QED
    BY <1>3, <1>8, <2>1, <2>2 DEF Accepting, FullyValidated
<1>10. ASSUME NEW i \in Accepting(b), i < k PROVE FALSE
  <2>1. i \in DOMAIN chains /\ Contains(chains[i], b)
    BY DEF Accepting
  <2>2. OnChain(b, chains[k].ts)
    BY <1>1, <1>3, <1>5, <1>8, <1>10, <2>1 DEF Separate, Apart
  <2>3. Height(b) <= Height(chains[k].ts)
    BY <1>5, <1>6, <2>2, OneOfHeight
  <2> QED
    BY <1>2, <1>5, <1>6, <2>3
<1>11. \A i \in Accepting(b) : i \in Nat /\ k \in Nat
  BY <1>1, <1>3 DEF Accepting
<1>12. \A i \in Accepting(b) : k <= i
  BY <1>10, <1>11
<1> QED
  BY <1>2, <1>3, <1>9, <1>12 DEF b

\* The steps that do not touch the Manager.  Neither is there a peer with
\* unknown headers, nor a chunk without a chain, nor a chain not done when all
\* its chunks were handed over.
LEMMA QuietOrderly ==
  ASSUME SInv, Smooth, Orderly, sync.pc # "stopped", ~tangled', UNCHANGED vars,
         \/ \E t \in PeerTips : Begin(t)
         \/ PeerMovesOn \/ NoHeaders \/ SomeHeaders \/ NoAnswer
         \/ HeadersStored \/ HeadersTracked \/ HeadersRefused \/ HeadersOrphaned
         \/ ChunkOrphaned \/ DownloadFails \/ DownloadDone \/ NothingToWaitFor
         \/ UNCHANGED syncVars
  PROVE  Smooth' /\ (sync'.pc # "stopped" => Orderly')
<1>1. /\ entries' = entries /\ cs' = cs /\ chains' = chains /\ job' = job /\ lost' = lost
  BY DEF vars, store
<1>2. /\ Inv /\ TypeOK /\ SyncTypeOK /\ sync \in Syncs /\ remote \in Blocks /\ ScOK /\ AskOK /\ JobOK
      /\ chains \in Seq(ScratchChains) /\ Separate(chains) /\ cs \in entries /\ cs \in Blocks
      /\ sync.end # "orphan" /\ ~lost /\ job.pc # "panic" /\ sync.pc # "waiting"
  BY DEF SInv, SyncBase, SyncTypeOK, Inv, StoreMatchesTip, TypeOK, Orderly, Smooth
<1>3. Separate(chains') /\ Unfinished' /\ ApplyOK' /\ ~lost' /\ job'.pc # "panic"
  BY <1>1, <1>2 DEF Orderly, Unfinished, ApplyOK, Current
\* So it is enough what holds of sync.
<1>4. ASSUME sync'.end # "orphan", sync'.pc # "waiting", AskHave', AddHave', DownOK'
      PROVE  Smooth' /\ Orderly'
  BY <1>3, <1>4 DEF Smooth, Orderly
<1>5. \A b \in Blocks : Known(b) <=> b \in entries' \/ \E i \in DOMAIN chains' : Contains(chains'[i], b)
  BY <1>1 DEF Known
<1>6. CASE NoHeaders \/ NoAnswer \/ DownloadFails
  <2>1. PICK how \in {"synced", "failed"} : sync' = Returned(how)
    BY <1>6 DEF NoHeaders, NoAnswer, DownloadFails
  <2>2. sync'.pc = "idle" /\ sync'.end # "orphan"
    BY <2>1, ReturnedFacts
  <2> QED
    BY <1>4, <2>2 DEF AskHave, AddHave, DownOK
<1>7. ASSUME NEW t \in PeerTips, Begin(t) PROVE Smooth' /\ Orderly'
  <2>1. sync' = [Returned("none") EXCEPT !.pc = "ask", !.history = History(cs)]
    BY <1>7 DEF Begin
  <2>2. sync'.pc = "ask" /\ sync'.end = "none" /\ sync'.history = History(cs)
    BY <2>1, ReturnedFacts DEF Syncs
  <2>3. \A b \in History(cs) : b \in entries
    BY <1>2, HistoryFacts, StoredBelow
  <2>4. AskHave'
    BY <1>1, <2>2, <2>3 DEF AskHave, Known
  <2> QED
    BY <1>4, <2>2, <2>4 DEF AddHave, DownOK
<1>8. CASE PeerMovesOn \/ UNCHANGED syncVars
  <2>1. sync' = sync
    BY <1>8 DEF PeerMovesOn, syncVars
  <2>2. AskHave'
    BY <1>1, <2>1 DEF Orderly, AskHave, Known
  <2>3. AddHave'
    BY <1>1, <2>1 DEF Orderly, AddHave, Known, Tangles, Extends
  <2>4. DownOK'
    BY <1>1, <2>1 DEF Orderly, DownOK, Done, Reorging, Current
  <2> QED
    BY <1>2, <1>4, <2>1, <2>2, <2>3, <2>4
<1>9. CASE SomeHeaders
  <2> DEFINE a == AttachPoint(sync.history, remote)
             t == LastHeader(a, remote)
  <2>1. /\ sync.pc = "ask" /\ a # remote /\ tangled' = (tangled \/ Tangles(a, t))
        /\ sync' = [sync EXCEPT !.pc = "add", !.from = a, !.to = t]
    BY <1>9 DEF SomeHeaders
  <2>2. sync.history \in SUBSET Blocks
    BY <1>2 DEF Syncs
  <2>3. a \in sync.history \cup {Genesis} /\ a \in Blocks /\ OnChain(a, remote)
    BY <1>2, <2>2, AttachFacts
  <2>4. Known(a)
    <3>1. Known(Genesis)
      BY <1>2 DEF Known, Inv
    <3>2. \A b \in sync.history : Known(b)
      BY <2>1 DEF Orderly, AskHave
    <3> QED
      BY <2>3, <3>1, <3>2
  <2>5. ~Tangles(a, t)
    BY <2>1
  <2> HIDE DEF a
  <2>6. OnChain(a, t) /\ a # t /\ t \in Blocks
    BY <1>2, <2>1, <2>3, LastHeaderFacts
  <2> HIDE DEF t
  <2>7. sync'.pc = "add" /\ sync'.from = a /\ sync'.to = t /\ sync'.end = sync.end
    BY <1>2, <2>1 DEF Syncs
  <2>8. AddHave'
    BY <1>1, <2>4, <2>5, <2>6, <2>7 DEF AddHave, Known, Tangles, Extends
  <2> QED
    BY <1>2, <1>4, <2>7, <2>8 DEF AskHave, DownOK
<1>10. ASSUME NEW b \in Blocks, Known(b), sync' = AskNext(b) PROVE Smooth' /\ Orderly'
  <2>1. sync'.pc = "ask" /\ sync'.end = "none" /\ sync'.history = {b}
    BY <1>10, AskNextFacts
  <2>2. AskHave'
    BY <1>1, <1>10, <2>1 DEF AskHave, Known
  <2> QED
    BY <1>4, <2>1, <2>2 DEF AddHave, DownOK
<1>11. CASE HeadersStored
  <2>1. sync.to \in entries /\ sync' = AskNext(sync.to) /\ sync.to \in Blocks
    BY <1>2, <1>11 DEF HeadersStored, Syncs
  <2> QED
    BY <1>10, <2>1 DEF Known
<1>12. CASE HeadersTracked
  <2>1. PICK i \in DOMAIN chains : Contains(chains[i], sync.to) /\ TakeChain(i)
    BY <1>12 DEF HeadersTracked
  <2>2. sync.pc = "add" /\ job.pc = "idle"
    BY <1>12 DEF HeadersTracked, Free
  <2>3. TypeOK' /\ chains'[i].ts # chains'[i].hs
    <3>1. TypeOK'
      BY <1>2, StutterInv DEF Inv
    <3> QED
      BY <1>1, <2>2, <3>1 DEF Orderly, Unfinished
  <2>4. sync'.end # "orphan" /\ sync'.pc # "waiting" /\ AskHave' /\ AddHave' /\ DownOK'
    BY <1>1, <1>2, <1>3, <2>1, <2>2, <2>3, TakeOrderly
  <2> QED
    BY <1>4, <2>4
<1>13. CASE HeadersRefused
  <2>1. sync'.pc = "stopped" /\ sync'.end = sync.end
    BY <1>2, <1>13 DEF HeadersRefused, Syncs
  <2> QED
    BY <1>2, <1>3, <2>1 DEF Smooth
<1>14. CASE DownloadDone
  <2>1. /\ sync' = AskNext(sync.scTip) /\ sync.pc = "download" /\ ChainDone
    BY <1>14 DEF DownloadDone, Downloading
  <2>2. sync.scTip \in entries
    <3>1. CASE sync.sc = 0
      BY <1>2, <2>1, <3>1 DEF ScOK
    <3>2. CASE sync.sc # 0
      <4>1. /\ sync.sc \in DOMAIN chains /\ chains[sync.sc].hs = sync.scTip
            /\ chains[sync.sc].ts = chains[sync.sc].hs
        BY <1>2, <2>1, <3>2 DEF ScOK, ChainDone, FullyValidated
      <4>2. chains[sync.sc].ts \in entries
        BY <1>2, <4>1 DEF Inv, ChainsOK
      <4> QED
        BY <4>1, <4>2
    <3> QED
      BY <3>1, <3>2
  <2>3. sync.scTip \in Blocks
    BY <1>2 DEF Syncs
  <2> QED
    BY <1>10, <2>1, <2>2, <2>3 DEF Known
\* What comes next does not happen.
<1>15. ~NothingToWaitFor
  <2> SUFFICES ASSUME NothingToWaitFor PROVE FALSE
    OBVIOUS
  <2>1. sync.pc = "download" /\ job.pc = "idle" /\ ~ChainDone /\ sync.next = Height(sync.scTip)
    BY DEF NothingToWaitFor, Downloading, Free
  <2>2. sync.sc # 0 /\ chains[sync.sc].ts # chains[sync.sc].hs
    BY <2>1 DEF ChainDone, FullyValidated
  <2>3. sync.sc \in DOMAIN chains /\ chains[sync.sc].hs = sync.scTip
    BY <1>2, <2>1, <2>2 DEF ScOK
  <2>4. Height(chains[sync.sc].ts) = Height(chains[sync.sc].hs)
    BY <2>1, <2>2, <2>3 DEF Orderly, DownOK
  <2>5. OnChain(chains[sync.sc].ts, chains[sync.sc].hs)
    BY <1>2, <2>3 DEF Separate, Matched
  <2> QED
    BY <1>2, <2>2, <2>3, <2>4, <2>5, ScratchFacts, OneOfHeight
<1>16. ~HeadersOrphaned
  <2> SUFFICES ASSUME HeadersOrphaned PROVE FALSE
    OBVIOUS
  <2> DEFINE p == sync.from
             t == sync.to
  <2>1. sync.pc = "add" /\ ~Known(t) /\ Extends(p, t) = {} /\ p \notin entries
        /\ p \in Blocks /\ t \in Blocks
    BY <1>2 DEF HeadersOrphaned, Syncs
  <2>2. Known(p) /\ OnChain(p, t) /\ p # t /\ ~Tangles(p, t)
    BY <2>1 DEF Orderly, AddHave
  <2> HIDE DEF p, t
  <2>3. PICK i \in DOMAIN chains : Contains(chains[i], p)
    BY <2>1, <2>2 DEF Known
  <2>4. ~Contains(chains[i], t) /\ ~LeavesHalfWay(chains[i], t)
    BY <2>1, <2>2 DEF Known, Tangles
  <2>5. /\ chains[i] \in ScratchChains /\ OnChain(p, chains[i].hs)
        /\ chains[i].hs \in Blocks /\ chains[i].ts \in Blocks
    BY <1>2, <2>1, <2>3, ScratchFacts
  <2>6. ~(OnChain(chains[i].hs, t) /\ Height(chains[i].hs) < Height(t))
    <3>1. Height(p) <= Height(chains[i].hs)
      BY <2>1, <2>5, OneOfHeight
    <3> QED
      BY <2>1, <3>1 DEF Extends
  <2>7. OnChain(chains[i].ts, chains[i].hs)
    BY <1>2 DEF Separate, Matched
  <2>8. OnChain(p, chains[i].ts)
    BY <2>1, <2>2, <2>3, <2>4, <2>5, <2>6, <2>7, SharedIsValidated
  <2>9. chains[i].ts \in entries
    BY <1>2 DEF Inv, ChainsOK
  <2> QED
    BY <1>2, <2>1, <2>8, <2>9, StoredBelow
<1>17. ~ChunkOrphaned
  BY <1>2, NextChunkAccepted DEF ChunkOrphaned, Downloading, Free
<1> QED
  BY <1>6, <1>7, <1>8, <1>9, <1>11, <1>12, <1>13, <1>14, <1>15, <1>16, <1>17

\* Headers that are added keep the chains apart.
LEMMA HeadersAddedOrderly ==
  ASSUME SInv, Smooth, Orderly, HeadersAdded, TypeOK'
  PROVE  Smooth' /\ (sync'.pc # "stopped" => Orderly')
<1> DEFINE p == sync.from
           t == sync.to
           n == Changed
<1>1. /\ sync.pc = "add" /\ job.pc = "idle" /\ job' = job /\ lost' = lost
      /\ entries' = entries /\ p \in Blocks /\ t \in Blocks /\ ~Known(t)
      /\ AddHeaders(p, t) /\ chains' # chains /\ n \in DOMAIN chains'
      /\ \/ chains'[n].hs = t /\ TakeChain(n)
         \/ chains'[n].hs # t /\ sync' = [sync EXCEPT !.pc = "stopped"]
  BY HeadersAddedFacts
<1>2. /\ TypeOK /\ SyncTypeOK /\ sync \in Syncs /\ chains \in Seq(ScratchChains)
      /\ chains' \in Seq(ScratchChains) /\ Separate(chains)
      /\ ~lost /\ sync.end # "orphan" /\ job.pc # "panic"
      /\ entries \in SUBSET Blocks
  BY DEF SInv, SyncBase, SyncTypeOK, Inv, TypeOK, Orderly, Smooth
<1>3. CASE chains'[n].hs # t
  <2>1. sync' = [sync EXCEPT !.pc = "stopped"]
    BY <1>1, <1>3
  <2>2. sync'.pc = "stopped" /\ sync'.end = sync.end
    BY <1>2, <2>1 DEF Syncs
  <2> QED
    BY <1>1, <1>2, <2>2 DEF Smooth
<1>4. CASE chains'[n].hs = t
  <2>1. ~Tangles(p, t) /\ OnChain(p, t)
    BY <1>1 DEF Orderly, AddHave
  <2>2. \A i \in DOMAIN chains : ~Contains(chains[i], t) /\ ~LeavesHalfWay(chains[i], t)
    BY <1>1, <2>1 DEF Known, Tangles
  <2>3. \A i \in DOMAIN chains : chains[i].ts # chains[i].hs
    BY <1>1 DEF Orderly, Unfinished
  <2>4. PICK r \in Blocks : \/ n \in DOMAIN chains /\ Extended(p, t, n, r)
                            \/ /\ n = Len(chains) + 1
                               /\ \E c \in Blocks : Started(p, t, c, r)
    BY <1>1, <1>2, AddHeadersChains
  \* A chain that has no header left to extend to t ends below them.
  <2>5. ASSUME NEW i \in DOMAIN chains, OnChain(chains[i].hs, t), i \notin Extends(p, t)
        PROVE  Height(chains[i].hs) < Height(p)
    <3>1. /\ chains[i].hs \in Blocks /\ chains[i].base \in Blocks /\ chains[i].ts \in Blocks
          /\ Height(chains[i].hs) \in Nat /\ Height(chains[i].base) \in Nat
          /\ Height(chains[i].ts) \in Nat /\ Height(p) \in Nat /\ Height(t) \in Nat
      BY <1>1, <1>2, ScratchFacts, HeightType
    <3>2. OnChain(chains[i].base, chains[i].ts) /\ OnChain(chains[i].ts, chains[i].hs)
      BY <1>2 DEF Separate, Matched
    <3>3. Height(chains[i].base) < Height(chains[i].hs)
      <4>1. Height(chains[i].base) <= Height(chains[i].ts) /\ Height(chains[i].ts) <= Height(chains[i].hs)
        BY <3>1, <3>2, OneOfHeight
      <4>2. Height(chains[i].ts) # Height(chains[i].hs)
        BY <2>3, <3>1, <3>2, OneOfHeight
      <4> QED
        BY <3>1, <4>1, <4>2
    <3>4. chains[i].hs # t
      <4>1. Contains(chains[i], chains[i].hs)
        BY <1>2, <3>1, <3>3, ScratchFacts, OnChainReflexive
      <4> QED
        BY <2>2, <4>1
    <3>5. Height(chains[i].hs) < Height(t)
      <4>1. Height(chains[i].hs) <= Height(t) /\ Height(chains[i].hs) # Height(t)
        BY <1>1, <2>5, <3>1, <3>4, OneOfHeight
      <4> QED
        BY <3>1, <4>1
    <3> QED
      BY <2>5, <3>1, <3>5 DEF Extends
  <2> HIDE DEF p, t, n
  <2>6. Separate(chains') /\ \A j \in DOMAIN chains' : chains'[j].ts # chains'[j].hs
    <3>1. CASE n \in DOMAIN chains /\ Extended(p, t, n, r)
      <4>1. /\ n \in Extends(p, t) /\ DOMAIN chains' = DOMAIN chains
            /\ \A j \in DOMAIN chains : j # n => chains'[j] = chains[j]
            /\ chains'[n].base = chains[n].base /\ chains'[n].ts = chains[n].ts /\ chains'[n].hs = t
        BY <1>4, <3>1 DEF Extended
      <4>2. /\ OnChain(chains[n].hs, t) /\ Height(p) <= Height(chains[n].hs)
            /\ Height(chains[n].hs) < Height(t)
        BY <4>1 DEF Extends
      <4>3. Fits(chains, p, t, n)
        <5>1. ASSUME NEW i \in DOMAIN chains, i # n PROVE i \notin Extends(p, t)
          BY <2>1, <4>1, <5>1 DEF Tangles
        <5> QED
          BY <2>2, <2>5, <5>1 DEF Fits
      <4>4. Separate(chains') /\ chains'[n].ts # chains'[n].hs
        <5>1. PICK d : d = chains'
          OBVIOUS
        <5>2. Separate(d) /\ d[n].ts # d[n].hs
          BY <1>1, <1>2, <2>3, <3>1, <4>1, <4>2, <4>3, <5>1, SeparateExtend
        <5> QED
          BY <5>1, <5>2
      <4> QED
        BY <2>3, <4>1, <4>4
    <3>2. CASE n = Len(chains) + 1 /\ \E c \in Blocks : Started(p, t, c, r)
      <4>1. PICK c \in Blocks : Started(p, t, c, r)
        BY <3>2
      <4>2. /\ Extends(p, t) = {} /\ IsBase(c, p, t)
            /\ DOMAIN chains' = 1 .. Len(chains) + 1
            /\ \A j \in DOMAIN chains : chains'[j] = chains[j]
            /\ chains'[Len(chains) + 1] = [base |-> c, hs |-> r, ts |-> c]
        BY <4>1 DEF Started
      <4>3. r = t
        BY <1>4, <3>2, <4>2
      <4>4. /\ c \in entries /\ OnChain(p, c) /\ OnChain(c, t) /\ c # t
            /\ IndexAt(t, Height(c) + 1) \notin entries
        BY <4>2 DEF IsBase
      <4>5. Fits(chains, p, t, 0)
        BY <2>2, <2>5, <4>2 DEF Fits
      <4>6. /\ \A x \in entries : x # Genesis => Parent[x] \in entries
            /\ \A i \in DOMAIN chains : chains[i].base \in entries /\ chains[i].ts \in entries
        BY DEF SInv, Inv, StoredChainsValid, ChainsOK
      <4>7. Separate(chains') /\ chains'[n].ts # chains'[n].hs
        <5>1. PICK d : d = chains'
          OBVIOUS
        <5>2. Separate(d) /\ d[Len(chains) + 1].ts # d[Len(chains) + 1].hs
          BY <1>1, <1>2, <4>2, <4>3, <4>4, <4>5, <4>6, <5>1, SeparateStart
        <5> QED
          BY <3>2, <5>1, <5>2
      <4>8. DOMAIN chains' = DOMAIN chains \cup {n}
        <5>1. DOMAIN chains = 1 .. Len(chains) /\ Len(chains) \in Nat
          BY <1>2
        <5> QED
          BY <3>2, <4>2, <5>1
      <4> QED
        BY <2>3, <4>2, <4>7, <4>8
    <3> QED
      BY <2>4, <3>1, <3>2
  <2>7. Contains(chains'[n], t)
    <3>1. OnChain(chains'[n].base, chains'[n].ts) /\ OnChain(chains'[n].ts, chains'[n].hs)
          /\ chains'[n].ts # chains'[n].hs
      BY <1>1, <2>6 DEF Separate, Matched, n
    <3>2. /\ chains'[n].base \in Blocks /\ chains'[n].ts \in Blocks /\ chains'[n].hs \in Blocks
          /\ Height(chains'[n].base) \in Nat /\ Height(chains'[n].ts) \in Nat
          /\ Height(chains'[n].hs) \in Nat /\ n \in DOMAIN chains'
      BY <1>1, <1>2, ScratchFacts DEF n
    <3>3. /\ Height(chains'[n].base) <= Height(chains'[n].ts)
          /\ Height(chains'[n].ts) <= Height(chains'[n].hs)
          /\ Height(chains'[n].ts) # Height(chains'[n].hs)
      BY <3>1, <3>2, OneOfHeight
    <3>4. Height(chains'[n].base) < Height(chains'[n].hs)
      BY <3>2, <3>3
    <3> QED
      BY <1>2, <1>4, <3>2, <3>4, ScratchFacts, OnChainReflexive
  <2>8. TakeChain(n) /\ n \in DOMAIN chains' /\ job'.pc = "idle" /\ sync.pc = "add"
    BY <1>1, <1>4 DEF n, t
  <2>9. chains'[n].ts # chains'[n].hs
    BY <2>6, <2>8
  <2>10. sync'.end # "orphan" /\ sync'.pc # "waiting" /\ AskHave' /\ AddHave' /\ DownOK'
    BY <1>2, <2>6, <2>7, <2>8, <2>9, TakeOrderly DEF t
  <2>11. Unfinished' /\ ApplyOK'
    BY <2>6, <2>8 DEF Unfinished, ApplyOK
  <2> QED
    BY <1>1, <1>2, <2>6, <2>10, <2>11 DEF Smooth, Orderly
<1> QED
  BY <1>3, <1>4

\* A block on top of ours takes nothing away.
LEMMA TipBlockOrderly ==
  ASSUME Smooth, sync.pc # "stopped" => Orderly, NEW b \in TipBlocks, TipBlock(b)
  PROVE  Smooth' /\ (sync'.pc # "stopped" => Orderly')
<1>1. /\ chains' = chains /\ job' = job /\ lost' = lost /\ entries' = entries \cup {b}
      /\ sync' = sync /\ job.pc = "idle"
  BY DEF TipBlock, AddTipBlock, ExtendTo
<1>2. Smooth'
  BY <1>1 DEF Smooth
<1>3. ASSUME Orderly PROVE Orderly'
  <2>1. Separate(chains') /\ Unfinished'
    BY <1>1, <1>3 DEF Orderly, Unfinished
  <2>2. AskHave'
    BY <1>1, <1>3 DEF Orderly, AskHave, Known
  <2>3. AddHave'
    BY <1>1, <1>3 DEF Orderly, AddHave, Known, Tangles, Extends
  <2>4. DownOK'
    BY <1>1, <1>3 DEF Orderly, DownOK
  <2>5. ApplyOK'
    BY <1>1 DEF ApplyOK
  <2> QED
    BY <2>1, <2>2, <2>3, <2>4, <2>5 DEF Orderly
<1> QED
  BY <1>1, <1>2, <1>3

\* The blocks of a chain above one height up to another.
LEMMA PathFacts ==
  ASSUME NEW b \in Blocks, NEW m \in Nat, NEW n \in Nat, m < n, n <= Height(b)
  PROVE  LET path == PathFrom(IndexAt(b, m), IndexAt(b, n))
         IN  /\ path \in Seq(Blocks) /\ Len(path) = n - m
             /\ \A k \in 1 .. n - m : path[k] = IndexAt(b, m + k)
             /\ Head(path) = IndexAt(b, m + 1)
<1> DEFINE a == IndexAt(b, m)
           t == IndexAt(b, n)
           path == PathFrom(a, t)
<1>1. Height(b) \in Nat /\ m \in 0 .. Height(b) /\ n \in 0 .. Height(b)
  BY HeightType
<1>2. /\ a \in Blocks /\ Height(a) = m /\ t \in Blocks /\ Height(t) = n /\ OnChain(t, b)
  BY <1>1, IndexAtFacts
<1> HIDE DEF a, t
<1>3. /\ Len(ChainOf[a]) = m + 1 /\ Len(ChainOf[t]) = n + 1 /\ ChainOf[t] \in Seq(Blocks)
  BY <1>2, HeightType, ChainShape
<1>4. path = SubSeq(ChainOf[t], (m + 1) + 1, n + 1)
  BY <1>3 DEF PathFrom
<1>5. /\ path \in Seq(Blocks) /\ Len(path) = n - m
      /\ \A k \in 1 .. n - m : path[k] = ChainOf[t][(m + 1) + k]
  BY <1>3, <1>4
<1> HIDE DEF path
<1>6. ASSUME NEW k \in 1 .. n - m PROVE path[k] = IndexAt(b, m + k)
  <2>1. m + k \in 0 .. Height(t) /\ (m + 1) + k = (m + k) + 1
    BY <1>2
  <2>2. IndexAt(t, m + k) = IndexAt(b, m + k)
    BY <1>2, <2>1, SameBelow
  <2>3. IndexAt(t, m + k) = ChainOf[t][(m + k) + 1]
    BY DEF IndexAt
  <2> QED
    BY <1>5, <2>1, <2>2, <2>3
<1>7. Head(path) = path[1] /\ 1 \in 1 .. n - m
  BY <1>5
<1>8. /\ path \in Seq(Blocks) /\ Len(path) = n - m
      /\ \A k \in 1 .. n - m : path[k] = IndexAt(b, m + k)
      /\ Head(path) = IndexAt(b, m + 1)
  BY <1>5, <1>6, <1>7
<1> QED
  BY <1>8 DEF path, a, t

LEMMA WholeSeq ==
  ASSUME NEW s \in Seq(Blocks)
  PROVE  /\ Len(SubSeq(s, 1, Len(s))) = Len(s)
         /\ \A k \in 1 .. Len(s) : SubSeq(s, 1, Len(s))[k] = s[k]
<1>1. PICK n \in Nat : n = Len(s)
  OBVIOUS
<1>2. Len(SubSeq(s, 1, n)) = n /\ \A k \in 1 .. n : SubSeq(s, 1, n)[k] = s[k]
  BY <1>1
<1> QED
  BY <1>1, <1>2, Zenon

\* What begins a call of AddBlocks is the next chunk, for the chain that is
\* downloaded, and none of its blocks is there already.
LEMMA ChunkArrivesOrderly ==
  ASSUME SInv, Smooth, Orderly, ChunkArrives
  PROVE  Smooth' /\ Orderly'
<1>1. /\ sync.pc = "download" /\ job.pc = "idle" /\ sync.next # Height(sync.scTip)
      /\ AddBlocks(IndexAt(sync.scTip, sync.next), IndexAt(sync.scTip, ChunkEnd))
      /\ sync' = [sync EXCEPT !.next = ChunkEnd]
  BY DEF ChunkArrives, Downloading, Free
<1>2. /\ TypeOK /\ SyncTypeOK /\ ScOK /\ sync \in Syncs /\ chains \in Seq(ScratchChains)
      /\ Separate(chains)
  BY DEF SInv, SyncBase, SyncTypeOK, Inv, TypeOK, Orderly
<1>3. /\ sync.sc \in DOMAIN chains /\ sync.next = Height(chains[sync.sc].ts)
      /\ \A i \in Accepting(IndexAt(sync.scTip, sync.next + 1)) : sync.sc <= i
      /\ sync.sc \in Accepting(IndexAt(sync.scTip, sync.next + 1))
  BY <1>1, NextChunkAccepted
<1>4. /\ sync.next \in Nat /\ ChunkEnd \in Nat /\ sync.scTip \in Blocks
      /\ sync.next < ChunkEnd /\ ChunkEnd <= Height(sync.scTip) /\ Height(sync.scTip) \in Nat
  BY <1>1, <1>2, ChunkFacts
<1> DEFINE p == IndexAt(sync.scTip, sync.next)
           blocks == PathFrom(p, IndexAt(sync.scTip, ChunkEnd))
           have(i) == Height(chains[i].ts) - Height(p)
<1>5. /\ blocks \in Seq(Blocks) /\ Len(blocks) = ChunkEnd - sync.next
      /\ \A k \in 1 .. ChunkEnd - sync.next : blocks[k] = IndexAt(sync.scTip, sync.next + k)
      /\ Head(blocks) = IndexAt(sync.scTip, sync.next + 1)
  BY <1>4, PathFacts
<1>6. Height(p) = sync.next
  BY <1>4, IndexAtFacts
<1>7. PICK i \in Accepting(Head(blocks)) :
        /\ \A j \in Accepting(Head(blocks)) : i <= j
        /\ job' = IF have(i) > Len(blocks)
                  THEN [Idle EXCEPT !.pc = "panic"]
                  ELSE [Idle EXCEPT !.pc = "blocks", !.chain = i,
                                    !.todo = SubSeq(blocks, have(i) + 1, Len(blocks))]
  BY <1>1 DEF AddBlocks
<1>8. UNCHANGED <<entries, cs, chains, lost>>
  BY <1>1 DEF AddBlocks, store
<1> HIDE DEF p, blocks
<1>9. i = sync.sc
  <2>1. i <= sync.sc /\ sync.sc <= i
    BY <1>3, <1>5, <1>7
  <2>2. i \in Nat /\ sync.sc \in Nat
    BY <1>2, <1>3 DEF Accepting
  <2> QED
    BY <2>1, <2>2
<1>10. ~(have(i) > Len(blocks)) /\ have(i) + 1 = 1
  <2>1. Height(chains[i].ts) - Height(p) = 0 /\ Len(blocks) \in Nat
    BY <1>3, <1>4, <1>5, <1>6, <1>9
  <2> QED
    BY <2>1
<1> HIDE DEF have
<1>11. job' = [Idle EXCEPT !.pc = "blocks", !.chain = i, !.todo = SubSeq(blocks, 1, Len(blocks))]
  BY <1>7, <1>10
<1>12. job'.pc = "blocks" /\ job'.chain = sync.sc /\ job'.todo = SubSeq(blocks, 1, Len(blocks))
  BY <1>9, <1>11 DEF Idle
<1>13. /\ Len(job'.todo) = ChunkEnd - sync.next
       /\ \A k \in 1 .. Len(job'.todo) : job'.todo[k] = IndexAt(sync.scTip, sync.next + k)
  <2>1. PICK todo : todo = job'.todo
    OBVIOUS
  <2>2. todo = SubSeq(blocks, 1, Len(blocks))
    BY <1>12, <2>1
  <2>3. Len(todo) = Len(blocks) /\ \A k \in 1 .. Len(blocks) : todo[k] = blocks[k]
    BY <1>5, <2>2, WholeSeq
  <2>4. /\ Len(todo) = ChunkEnd - sync.next
        /\ \A k \in 1 .. ChunkEnd - sync.next : todo[k] = IndexAt(sync.scTip, sync.next + k)
    BY <1>5, <2>3
  <2> QED
    BY <2>1, <2>4
<1>14. /\ sync'.pc = "download" /\ sync'.sc = sync.sc /\ sync'.scTip = sync.scTip
       /\ sync'.next = ChunkEnd /\ sync'.end = sync.end
  BY <1>1, <1>2, <1>4 DEF Syncs
<1>15. Done' = sync.next
  BY <1>3, <1>8, <1>12 DEF Done, Reorging, Current
<1>16. DownOK'
  <2>1. sync.sc # 0 /\ job'.pc # "idle"
    BY <1>2, <1>3, <1>12
  <2> QED
    BY <1>12, <1>13, <1>14, <1>15, <2>1 DEF DownOK
<1>17. Unfinished'
  BY <1>1, <1>8 DEF Orderly, Unfinished
<1> QED
  BY <1>2, <1>8, <1>12, <1>14, <1>16, <1>17 DEF Smooth, Orderly, AskHave, AddHave, ApplyOK

\* One block less to add.
LEMMA TailFacts ==
  ASSUME NEW s \in Seq(Blocks), NEW b \in Blocks, NEW n \in Nat, NEW h \in Int,
         Len(s) = n - h, \A k \in 1 .. Len(s) : s[k] = IndexAt(b, h + k), s # <<>>
  PROVE  /\ Head(s) = IndexAt(b, h + 1) /\ h + 1 <= n
         /\ Len(Tail(s)) = n - (h + 1)
         /\ \A k \in 1 .. Len(Tail(s)) : Tail(s)[k] = IndexAt(b, (h + 1) + k)
<1>1. Len(s) \in Nat \ {0}
  OBVIOUS
<1>2. Head(s) = s[1] /\ 1 \in 1 .. Len(s) /\ h + 1 <= n
  BY <1>1
<1>3. Len(Tail(s)) = Len(s) - 1 /\ \A k \in 1 .. Len(s) - 1 : Tail(s)[k] = s[k + 1]
  BY <1>1
<1>4. ASSUME NEW k \in 1 .. Len(s) - 1 PROVE Tail(s)[k] = IndexAt(b, (h + 1) + k)
  <2>1. k + 1 \in 1 .. Len(s) /\ h + (k + 1) = (h + 1) + k
    BY <1>1
  <2>2. s[k + 1] = IndexAt(b, h + (k + 1))
    BY <2>1
  <2> QED
    BY <1>3, <2>1, <2>2
<1>5. Len(Tail(s)) = n - (h + 1)
  BY <1>3
<1> QED
  BY <1>2, <1>3, <1>4, <1>5

\* A call of AddBlocks is for the chain that is downloaded.
LEMMA InCall ==
  ASSUME SInv, Smooth, Orderly, sync.pc = "download", job.pc # "idle"
  PROVE  /\ TypeOK /\ chains \in Seq(ScratchChains) /\ Separate(chains)
         /\ job.todo \in Seq(Blocks) /\ sync.next \in Nat /\ sync.scTip \in Blocks
         /\ sync.next <= Height(sync.scTip)
         /\ sync.sc # 0 /\ job.chain = sync.sc /\ sync.sc \in DOMAIN chains
         /\ Current.hs = sync.scTip
         /\ Current.base \in Blocks /\ Current.ts \in Blocks /\ Current.hs \in Blocks
         /\ Height(Current.ts) \in Nat /\ Height(Current.hs) \in Nat
         /\ OnChain(Current.base, Current.ts) /\ OnChain(Current.ts, Current.hs)
         /\ Current.ts \in entries
         /\ Done \in Int
         /\ Len(job.todo) = sync.next - Done
         /\ \A k \in 1 .. Len(job.todo) : job.todo[k] = IndexAt(sync.scTip, Done + k)
<1>1. /\ Inv /\ TypeOK /\ sync \in Syncs /\ ScOK /\ job \in Jobs /\ chains \in Seq(ScratchChains)
      /\ Separate(chains)
  BY DEF SInv, SyncBase, SyncTypeOK, Inv, TypeOK, Orderly
<1>2. /\ sync.sc # 0 /\ job.chain = sync.sc
      /\ Len(job.todo) = sync.next - Done
      /\ \A k \in 1 .. Len(job.todo) : job.todo[k] = IndexAt(sync.scTip, Done + k)
  BY DEF Orderly, DownOK
<1>3. /\ sync.next <= Height(sync.scTip)
      /\ sync.sc \in DOMAIN chains /\ chains[sync.sc].hs = sync.scTip
  BY <1>1, <1>2 DEF ScOK
<1>4. job.todo \in Seq(Blocks) /\ sync.next \in Nat /\ sync.scTip \in Blocks
  BY <1>1 DEF Jobs, Syncs
<1>5. /\ chains[sync.sc].base \in Blocks /\ chains[sync.sc].ts \in Blocks /\ chains[sync.sc].hs \in Blocks
      /\ Height(chains[sync.sc].ts) \in Nat /\ Height(chains[sync.sc].hs) \in Nat
  BY <1>1, <1>3, ScratchFacts
<1>6. OnChain(chains[sync.sc].base, chains[sync.sc].ts) /\ OnChain(chains[sync.sc].ts, chains[sync.sc].hs)
      /\ chains[sync.sc].ts \in entries
  BY <1>1, <1>3 DEF Separate, Matched, Inv, ChainsOK
<1>7. Current = chains[sync.sc]
  BY <1>2 DEF Current
<1>8. Done \in Int
  BY <1>5, <1>7 DEF Done
<1> QED
  BY <1>1, <1>2, <1>3, <1>4, <1>5, <1>6, <1>7, <1>8

\* The block that is added is the next one of the headers.
LEMMA TakeOrderlyBlock ==
  ASSUME SInv, Smooth, Orderly, TypeOK', sync.pc = "download",
         NEW b \in Blocks, TakeBlock(b)
  PROVE  /\ Separate(chains')
         /\ chains'[job.chain].ts = b /\ Height(b) = Done + 1
         /\ \A i \in DOMAIN chains' : chains'[i].ts = chains'[i].hs => i = job.chain
<1>1. job.pc = "blocks" /\ job.todo # <<>> /\ b = Head(job.todo)
  BY DEF TakeBlock
<1>2. /\ TypeOK /\ chains \in Seq(ScratchChains) /\ Separate(chains)
      /\ job.todo \in Seq(Blocks) /\ sync.next \in Nat /\ sync.scTip \in Blocks
      /\ sync.next <= Height(sync.scTip) /\ Current.hs = sync.scTip /\ Done \in Int
      /\ Len(job.todo) = sync.next - Done
      /\ \A k \in 1 .. Len(job.todo) : job.todo[k] = IndexAt(sync.scTip, Done + k)
      /\ Height(Current.ts) \in Nat /\ Height(Current.hs) \in Nat
  BY <1>1, InCall
<1>3. Done = Height(Current.ts)
  BY <1>1 DEF Done, Reorging
<1>4. b = IndexAt(sync.scTip, Done + 1) /\ Done + 1 <= sync.next
  BY <1>1, <1>2, TailFacts
<1>5. Done + 1 \in 0 .. Height(sync.scTip)
  BY <1>2, <1>3, <1>4
<1>6. OnChain(b, Current.hs) /\ Height(b) = Done + 1
  BY <1>2, <1>4, <1>5, IndexAtFacts
<1>7. /\ job.chain \in DOMAIN chains /\ DOMAIN chains' = DOMAIN chains
      /\ \A j \in DOMAIN chains :
           /\ chains'[j].base = chains[j].base /\ chains'[j].hs = chains[j].hs
           /\ chains'[j].ts = IF j = job.chain THEN b ELSE chains[j].ts
      /\ OnChain(Current.ts, b)
  BY <1>2, TakeBlockChains
<1>8. ASSUME NEW j \in DOMAIN chains
      PROVE  OnChain(chains[j].ts, chains'[j].ts) /\ OnChain(chains'[j].ts, chains'[j].hs)
  <2>1. CASE j = job.chain
    BY <1>6, <1>7, <2>1 DEF Current
  <2>2. CASE j # job.chain
    <3>1. chains[j].ts \in Blocks
      BY <1>2, ScratchFacts
    <3> QED
      BY <1>2, <1>7, <2>2, <3>1, OnChainReflexive DEF Separate, Matched
  <2> QED
    BY <2>1, <2>2
<1>9. Separate(chains')
  <2>1. PICK d : d = chains'
    OBVIOUS
  <2>2. d \in Seq(ScratchChains)
    BY <2>1 DEF TypeOK
  <2>3. Separate(d)
    BY <1>2, <1>7, <1>8, <2>1, <2>2, SeparateGrow
  <2> QED
    BY <2>1, <2>3
<1>10. \A i \in DOMAIN chains' : chains'[i].ts = chains'[i].hs => i = job.chain
  BY <1>7 DEF Orderly, Unfinished
<1> QED
  BY <1>6, <1>7, <1>9, <1>10

\* Within a call it is enough to say where the job is.
LEMMA StillOrderly ==
  ASSUME sync.pc = "download", sync' = sync, Smooth, lost' = lost, job'.pc \notin {"idle", "panic"},
         Separate(chains'),
         \A i \in DOMAIN chains' : chains'[i].ts = chains'[i].hs => i = job'.chain,
         sync.sc # 0, job'.chain = sync.sc, Len(job'.todo) = sync.next - Done',
         \A k \in 1 .. Len(job'.todo) : job'.todo[k] = IndexAt(sync.scTip, Done' + k),
         ApplyOK'
  PROVE  Smooth' /\ Orderly'
<1>1. Unfinished'
  BY DEF Unfinished
<1>2. DownOK'
  BY DEF DownOK
<1> QED
  BY <1>1, <1>2 DEF Smooth, Orderly, AskHave, AddHave

\* The steps of a call that add a block.
LEMMA TakeOrderlyStep ==
  ASSUME SInv, Smooth, Orderly, TypeOK', sync.pc = "download", sync' = sync, NEW b \in Blocks,
         KeepValidating(b) \/ ApplyToTip(b) \/ StartReorg(b)
  PROVE  Smooth' /\ Orderly'
<1>1. TakeBlock(b) /\ job.pc = "blocks" /\ job.todo # <<>> /\ lost' = lost
  BY DEF KeepValidating, ApplyToTip, StartReorg, TakeBlock
<1>2. /\ Separate(chains') /\ chains'[job.chain].ts = b /\ Height(b) = Done + 1
      /\ \A i \in DOMAIN chains' : chains'[i].ts = chains'[i].hs => i = job.chain
  BY <1>1, TakeOrderlyBlock
<1>3. /\ job.todo \in Seq(Blocks) /\ sync.next \in Nat /\ sync.scTip \in Blocks
      /\ sync.sc # 0 /\ job.chain = sync.sc /\ Done \in Int
      /\ Len(job.todo) = sync.next - Done /\ job \in Jobs
      /\ \A k \in 1 .. Len(job.todo) : job.todo[k] = IndexAt(sync.scTip, Done + k)
  BY <1>1, InCall DEF TypeOK
<1>4. CASE KeepValidating(b) \/ ApplyToTip(b)
  <2>1. job' = [job EXCEPT !.todo = Tail(job.todo)]
    BY <1>4 DEF KeepValidating, ApplyToTip
  <2>2. job'.pc = "blocks" /\ job'.chain = job.chain /\ job'.todo = Tail(job.todo)
    BY <1>1, <1>3, <2>1 DEF Jobs
  <2>3. Done' = Done + 1
    BY <1>2, <2>2 DEF Done, Reorging, Current
  <2>4. /\ Len(job'.todo) = sync.next - Done'
        /\ \A k \in 1 .. Len(job'.todo) : job'.todo[k] = IndexAt(sync.scTip, Done' + k)
    <3>1. /\ Len(Tail(job.todo)) = sync.next - (Done + 1)
          /\ \A k \in 1 .. Len(Tail(job.todo)) : Tail(job.todo)[k] = IndexAt(sync.scTip, (Done + 1) + k)
      BY <1>1, <1>3, TailFacts
    <3> QED
      BY <2>2, <2>3, <3>1, Zenon
  <2>5. ApplyOK'
    BY <2>2 DEF ApplyOK
  <2> QED
    BY <1>1, <1>2, <1>3, <2>2, <2>4, <2>5, StillOrderly
<1>5. CASE StartReorg(b)
  <2>1. job' = [job EXCEPT !.pc = "rebase", !.at = Current.base]
    BY <1>5 DEF StartReorg
  <2>2. job'.pc = "rebase" /\ job'.chain = job.chain /\ job'.todo = job.todo
    BY <1>1, <1>3, <2>1 DEF Jobs
  <2>3. Done' = Done
    <3>1. Done' = Height(b) - 1
      BY <1>2, <2>2 DEF Done, Reorging, Current
    <3> QED
      BY <1>2, <1>3, <3>1
  <2>4. ApplyOK'
    BY <2>2 DEF ApplyOK
  <2> QED
    BY <1>1, <1>2, <1>3, <2>2, <2>3, <2>4, StillOrderly
<1> QED
  BY <1>4, <1>5

\* Once the rebase path is used up, the next block is one that the chain has
\* validated, so that there is one, and it is stored.
LEMMA NextIsValidated ==
  ASSUME SInv, Smooth, Orderly, sync.pc = "download", job.pc = "apply", cs # Current.ts
  PROVE  /\ HasNext /\ NextIndex \in entries
         /\ job.rebase = <<>> => /\ OnChain(cs, NextIndex) /\ OnChain(NextIndex, Current.ts)
<1>1. /\ Inv /\ TypeOK /\ RebaseOK /\ cs \in Blocks /\ job \in Jobs /\ entries \in SUBSET Blocks
  BY DEF SInv, Inv, TypeOK, ReorgOK, Reorging
<1>2. /\ Current.base \in Blocks /\ Current.ts \in Blocks /\ Current.hs \in Blocks
      /\ Height(Current.ts) \in Nat /\ Height(Current.hs) \in Nat
      /\ OnChain(Current.ts, Current.hs) /\ Current.ts \in entries
  BY InCall
<1>3. CASE job.rebase # <<>>
  <2>1. job.rebase \in Seq(Blocks)
    BY <1>1 DEF Jobs
  <2>2. Len(job.rebase) \in 1 .. Len(job.rebase)
    BY <1>3, <2>1
  <2> QED
    BY <1>1, <1>3, <2>2 DEF RebaseOK, HasNext, NextIndex
<1>4. CASE job.rebase = <<>>
  <2>1. OnChain(Current.base, cs) /\ OnChain(cs, Current.ts)
    BY <1>4 DEF Orderly, ApplyOK
  <2>2. Height(Current.base) \in Nat /\ Height(cs) \in Nat
    BY <1>1, <1>2, HeightType
  <2>3. Height(cs) < Height(Current.ts) /\ Height(Current.ts) <= Height(Current.hs)
    <3>1. Height(cs) <= Height(Current.ts) /\ Height(cs) # Height(Current.ts)
      BY <1>1, <1>2, <2>1, OneOfHeight
    <3>2. Height(Current.ts) <= Height(Current.hs)
      BY <1>2, OneOfHeight
    <3> QED
      BY <1>2, <2>2, <3>1, <3>2
  <2>4. Height(Current.base) <= Height(cs)
    BY <1>1, <1>2, <2>1, OneOfHeight
  <2>5. HasNext
    BY <1>2, <2>2, <2>3, <2>4 DEF HasNext, HasIndex
  <2> DEFINE n == IndexAt(Current.hs, Height(cs) + 1)
  <2>6. NextIndex = n
    BY <1>4 DEF NextIndex, ScIndex
  <2>7. Height(cs) + 1 \in 0 .. Height(Current.hs)
    BY <1>2, <2>2, <2>3
  <2>8. n \in Blocks /\ Height(n) = Height(cs) + 1 /\ OnChain(n, Current.hs)
    BY <1>2, <2>7, IndexAtFacts
  <2> HIDE DEF n
  <2>9. OnChain(n, Current.ts)
    <3>1. Height(n) <= Height(Current.ts)
      BY <1>2, <2>2, <2>3, <2>8
    <3> QED
      BY <1>2, <2>8, <3>1, OnChainLinear
  <2>10. OnChain(cs, n)
    <3>1. Height(cs) <= Height(n)
      BY <2>2, <2>8
    <3> QED
      BY <1>1, <1>2, <2>1, <2>8, <2>9, <3>1, OnChainLinear
  <2>11. n \in entries
    BY <1>1, <1>2, <2>8, <2>9, StoredBelow
  <2> QED
    BY <2>5, <2>6, <2>9, <2>10, <2>11
<1> QED
  BY <1>3, <1>4

\* The steps of a reorg.
LEMMA ReorgOrderly ==
  ASSUME SInv, Smooth, Orderly, sync.pc = "download", sync' = sync,
         Rebase \/ RevertTip \/ BranchReached \/ ApplyTip \/ ReorgDone
  PROVE  Smooth' /\ Orderly'
<1>1. Reorging /\ job.pc # "idle" /\ chains' = chains /\ lost' = lost
  BY DEF Rebase, RevertTip, BranchReached, ApplyTip, ReorgDone, Reorging
<1>2. /\ job.todo \in Seq(Blocks) /\ sync.next \in Nat /\ sync.scTip \in Blocks
      /\ sync.sc # 0 /\ job.chain = sync.sc /\ Done \in Int
      /\ Len(job.todo) = sync.next - Done /\ job \in Jobs
      /\ \A k \in 1 .. Len(job.todo) : job.todo[k] = IndexAt(sync.scTip, Done + k)
      /\ Current.base \in Blocks /\ Current.ts \in Blocks /\ Height(Current.ts) \in Nat
      /\ OnChain(Current.base, Current.ts)
  BY <1>1, InCall DEF TypeOK
<1>3. /\ Inv /\ job.todo # <<>> /\ RebaseOK /\ cs \in Blocks
  BY <1>1 DEF SInv, Inv, ReorgOK, TypeOK
<1>4. Separate(chains') /\ \A i \in DOMAIN chains' : chains'[i].ts = chains'[i].hs => i = job.chain
  BY <1>1 DEF Orderly, Unfinished
\* But for the last one they leave the blocks that remain.
<1>5. ASSUME job'.pc \in {"rebase", "revert", "apply"}, job'.chain = job.chain,
             job'.todo = job.todo, ApplyOK'
      PROVE  Smooth' /\ Orderly'
  <2>1. Done' = Done
    BY <1>1, <1>5 DEF Done, Reorging, Current
  <2> QED
    BY <1>1, <1>2, <1>4, <1>5, <2>1, StillOrderly
<1>6. CASE Rebase
  <2>1. \/ job' = [job EXCEPT !.pc = "revert"] /\ job.pc = "rebase"
        \/ job' = [job EXCEPT !.rebase = Append(@, job.at), !.at = Parent[job.at]] /\ job.pc = "rebase"
    BY <1>6 DEF Rebase
  <2>2. job'.pc \in {"rebase", "revert"} /\ job'.chain = job.chain /\ job'.todo = job.todo
    BY <1>2, <2>1 DEF Jobs
  <2>3. ApplyOK'
    BY <2>2 DEF ApplyOK
  <2> QED
    BY <1>5, <2>2, <2>3
<1>7. CASE RevertTip
  <2>1. job' = job /\ job.pc = "revert"
    BY <1>7 DEF RevertTip
  <2>2. ApplyOK'
    BY <2>1 DEF ApplyOK
  <2> QED
    BY <1>5, <2>1, <2>2
<1>8. CASE BranchReached
  <2>1. /\ job' = [job EXCEPT !.pc = "apply"] /\ job.pc = "revert" /\ cs = job.at /\ cs' = cs
    BY <1>8 DEF BranchReached
  <2>2. job'.pc = "apply" /\ job'.chain = job.chain /\ job'.todo = job.todo /\ job'.rebase = job.rebase
    BY <1>2, <2>1 DEF Jobs
  <2>3. job.rebase = <<>> => cs = Current.base
    BY <1>3, <2>1 DEF RebaseOK
  <2>4. Current' = Current
    BY <1>1, <2>2 DEF Current
  <2>5. ApplyOK'
    BY <1>2, <2>1, <2>2, <2>3, <2>4, OnChainReflexive DEF ApplyOK
  <2> QED
    BY <1>5, <2>2, <2>5
<1>9. CASE ApplyTip
  <2>1. /\ job.pc = "apply" /\ cs # Current.ts /\ cs' = NextIndex
        /\ job' = [job EXCEPT !.rebase = IF @ # <<>> THEN ButLast(@) ELSE @]
    BY <1>9 DEF ApplyTip, ExtendTo
  <2>2. /\ job'.pc = "apply" /\ job'.chain = job.chain /\ job'.todo = job.todo
        /\ job'.rebase = IF job.rebase # <<>> THEN ButLast(job.rebase) ELSE job.rebase
    BY <1>2, <2>1 DEF Jobs
  <2>3. /\ NextIndex \in entries
        /\ job.rebase = <<>> => OnChain(cs, NextIndex) /\ OnChain(NextIndex, Current.ts)
    BY <2>1, NextIsValidated
  <2>4. NextIndex \in Blocks
    BY <1>3, <2>3 DEF Inv, TypeOK
  <2>5. Current' = Current
    BY <1>1, <2>2 DEF Current
  <2>6. CASE job.rebase = <<>>
    <3>1. OnChain(Current.base, cs)
      BY <2>1, <2>6 DEF Orderly, ApplyOK
    <3>2. OnChain(Current.base, NextIndex)
      BY <1>2, <1>3, <2>3, <2>4, <2>6, <3>1, OnChainTransitive
    <3> QED
      BY <1>5, <2>1, <2>2, <2>3, <2>5, <2>6, <3>2 DEF ApplyOK
  <2>7. CASE job.rebase # <<>>
    <3>1. job.rebase \in Seq(Blocks) /\ job.rebase[1] = Current.base
          /\ NextIndex = job.rebase[Len(job.rebase)]
      BY <1>2, <1>3, <2>7 DEF Jobs, RebaseOK, NextIndex
    <3>2. job'.rebase = SubSeq(job.rebase, 1, Len(job.rebase) - 1)
      BY <2>2, <2>7 DEF ButLast
    <3>3. job'.rebase = <<>> => Len(job.rebase) = 1
      <4>1. PICK r : r = job'.rebase
        OBVIOUS
      <4>2. Len(r) = Len(job.rebase) - 1 /\ Len(job.rebase) \in Nat
        BY <2>7, <3>1, <3>2, <4>1
      <4>3. r = <<>> => Len(job.rebase) = 1
        BY <4>2
      <4> QED
        BY <4>1, <4>3
    <3>4. job'.rebase = <<>> => cs' = Current.base
      BY <2>1, <3>1, <3>3
    <3>5. ApplyOK'
      BY <1>2, <2>5, <3>4, OnChainReflexive DEF ApplyOK
    <3> QED
      BY <1>5, <2>2, <3>5
  <2> QED
    BY <2>6, <2>7
<1>10. CASE ReorgDone
  <2>1. job' = [job EXCEPT !.pc = "blocks", !.todo = Tail(@), !.rebase = <<>>, !.at = Genesis]
    BY <1>10 DEF ReorgDone
  <2>2. job'.pc = "blocks" /\ job'.chain = job.chain /\ job'.todo = Tail(job.todo)
    BY <1>2, <2>1 DEF Jobs
  <2>3. Done' = Done + 1
    <3>1. Done' = Height(Current.ts)
      BY <1>1, <2>2 DEF Done, Reorging, Current
    <3>2. Done = Height(Current.ts) - 1
      BY <1>1 DEF Done
    <3> QED
      BY <1>2, <3>1, <3>2
  <2>4. /\ Len(job'.todo) = sync.next - Done'
        /\ \A k \in 1 .. Len(job'.todo) : job'.todo[k] = IndexAt(sync.scTip, Done' + k)
    <3>1. /\ Len(Tail(job.todo)) = sync.next - (Done + 1)
          /\ \A k \in 1 .. Len(Tail(job.todo)) : Tail(job.todo)[k] = IndexAt(sync.scTip, (Done + 1) + k)
      BY <1>2, <1>3, TailFacts
    <3> QED
      BY <2>2, <2>3, <3>1, Zenon
  <2>5. ApplyOK'
    BY <2>2 DEF ApplyOK
  <2> QED
    BY <1>1, <1>2, <1>4, <2>2, <2>4, <2>5, StillOrderly
<1> QED
  BY <1>6, <1>7, <1>8, <1>9, <1>10

\* The only way for a call to fail is a block that is not valid.
LEMMA AddBlocksFailsOrderly ==
  ASSUME SInv, Smooth, Orderly, AddBlocksFails
  PROVE  Smooth' /\ Orderly'
<1>1. sync.pc = "download" /\ sync' = Returned("failed")
  BY DEF AddBlocksFails
<1>2. ~ReorgFails /\ ~ReorgPanics
  <2>1. job.pc = "apply" /\ cs # Current.ts => HasNext /\ NextIndex \in entries
    BY <1>1, NextIsValidated
  <2> QED
    BY <2>1 DEF ReorgFails, ReorgPanics
<1>3. /\ job.pc = "blocks" /\ job.todo # <<>> /\ job' = Idle /\ chains' = chains /\ lost' = lost
  BY <1>2 DEF AddBlocksFails, RefuseBlock
<1>4. sync'.pc = "idle" /\ sync'.end = "failed" /\ job'.pc = "idle"
  BY <1>1, <1>3, ReturnedFacts DEF Idle
\* The chain is not done: a block of it remains.
<1>5. \A i \in DOMAIN chains : chains[i].ts # chains[i].hs
  <2>1. /\ job.todo \in Seq(Blocks) /\ sync.next \in Nat /\ sync.next <= Height(sync.scTip)
        /\ Len(job.todo) = sync.next - Done /\ Current.hs = sync.scTip
        /\ Height(Current.ts) \in Nat /\ Height(Current.hs) \in Nat
    BY <1>1, <1>3, InCall
  <2>2. Done = Height(Current.ts)
    BY <1>3 DEF Done, Reorging
  <2>3. Len(job.todo) > 0
    BY <1>3, <2>1
  <2>4. Current.ts # Current.hs
    <3>1. Height(Current.ts) < Height(Current.hs)
      BY <2>1, <2>2, <2>3
    <3> QED
      BY <2>1, <3>1
  <2> QED
    BY <2>4 DEF Orderly, Unfinished, Current
<1>6. Unfinished' /\ ApplyOK' /\ Separate(chains')
  BY <1>3, <1>4, <1>5 DEF Orderly, Unfinished, ApplyOK
<1> QED
  BY <1>3, <1>4, <1>6 DEF Smooth, Orderly, AskHave, AddHave, DownOK

\* A call returns when all its blocks are there.
LEMMA AddBlocksReturnsOrderly ==
  ASSUME SInv, Smooth, Orderly, AddBlocksReturns
  PROVE  Smooth' /\ Orderly'
<1>1. /\ sync.pc = "download" /\ FinishBlocks /\ job.pc = "blocks" /\ job.todo = <<>>
      /\ job' = Idle /\ lost' = lost /\ job'.pc = "idle"
      /\ sync' = [sync EXCEPT !.sc = IF Len(chains') = Len(chains) THEN @
                                     ELSE IF job.chain = @ THEN 0
                                     ELSE IF job.chain < @ THEN @ - 1 ELSE @]
  BY DEF AddBlocksReturns, FinishBlocks, Idle
<1>2. /\ TypeOK /\ chains \in Seq(ScratchChains) /\ Separate(chains)
      /\ sync.sc # 0 /\ job.chain = sync.sc /\ sync.sc \in DOMAIN chains
      /\ Current.hs = sync.scTip /\ sync.next \in Nat /\ Height(Current.ts) \in Nat
      /\ Len(job.todo) = sync.next - Done
  BY <1>1, InCall
<1>3. sync.next = Height(Current.ts)
  <2>1. Done = Height(Current.ts)
    BY <1>1 DEF Done, Reorging
  <2>2. Len(job.todo) = 0
    BY <1>1
  <2> QED
    BY <1>2, <2>1, <2>2
<1>4. sync \in Syncs
  BY DEF SInv, SyncBase, SyncTypeOK
<1>5. \/ ~FullyValidated(Current) /\ chains' = chains
      \/ /\ FullyValidated(Current)
         /\ Len(chains') = Len(chains) - 1 /\ DOMAIN chains' = 1 .. Len(chains) - 1
         /\ \A j \in DOMAIN chains' : chains'[j] = IF j < job.chain THEN chains[j] ELSE chains[j + 1]
  BY <1>1, <1>2, FinishChains
<1>6. /\ sync'.pc = "download" /\ sync'.next = sync.next /\ sync'.scTip = sync.scTip
      /\ sync'.end = sync.end
      /\ Len(chains') = Len(chains) => sync'.sc = sync.sc
      /\ Len(chains') # Len(chains) => sync'.sc = 0
  BY <1>1, <1>2, <1>4, Zenon DEF Syncs
<1>7. Smooth' /\ AskHave' /\ AddHave' /\ ApplyOK'
  BY <1>1, <1>6 DEF Smooth, AskHave, AddHave, ApplyOK
<1>8. CASE ~FullyValidated(Current) /\ chains' = chains
  <2>1. sync'.sc = sync.sc
    BY <1>6, <1>8
  <2>2. Unfinished'
    BY <1>8 DEF Orderly, Unfinished, FullyValidated, Current
  <2>3. DownOK'
    BY <1>1, <1>2, <1>3, <1>6, <1>8, <2>1 DEF DownOK, Current
  <2> QED
    BY <1>2, <1>7, <1>8, <2>2, <2>3 DEF Orderly
<1>9. CASE /\ FullyValidated(Current)
           /\ Len(chains') = Len(chains) - 1 /\ DOMAIN chains' = 1 .. Len(chains) - 1
           /\ \A j \in DOMAIN chains' : chains'[j] = IF j < job.chain THEN chains[j] ELSE chains[j + 1]
  <2>1. Len(chains') # Len(chains)
    <3>1. PICK n \in Nat : n = Len(chains)
      BY <1>2
    <3>2. n - 1 # n
      OBVIOUS
    <3> QED
      BY <1>9, <3>1, <3>2, Zenon
  <2>2. DownOK'
    BY <1>1, <1>2, <1>3, <1>6, <1>9, <2>1 DEF DownOK, FullyValidated
  <2>3. PICK d : d = chains'
    OBVIOUS
  <2>4. /\ DOMAIN d = 1 .. Len(chains) - 1
        /\ \A j \in DOMAIN d : d[j] = IF j < sync.sc THEN chains[j] ELSE chains[j + 1]
    BY <1>2, <1>9, <2>3
  <2>5. Separate(d)
    BY <1>2, <2>4, SeparateRemove
  <2>6. \A j \in DOMAIN d : d[j].ts # d[j].hs
    <3> SUFFICES ASSUME NEW j \in DOMAIN d PROVE d[j].ts # d[j].hs
      OBVIOUS
    <3> DEFINE k == IF j < sync.sc THEN j ELSE j + 1
    <3>1. DOMAIN chains = 1 .. Len(chains) /\ Len(chains) \in Nat
      BY <1>2
    <3>2. k \in DOMAIN chains /\ k # sync.sc /\ d[j] = chains[k]
      BY <1>2, <2>4, <3>1
    <3> HIDE DEF k
    <3> QED
      BY <1>2, <3>2 DEF Orderly, Unfinished
  <2>7. Unfinished' /\ Separate(chains')
    BY <2>3, <2>5, <2>6 DEF Unfinished
  <2> QED
    BY <1>7, <2>2, <2>7 DEF Orderly
<1> QED
  BY <1>5, <1>8, <1>9

-----------------------------------------------------------------------------
(* Untangled downloads succeed.                                            *)

LEMMA InitUntangled == SyncInit => UntangledInv
<1> SUFFICES ASSUME SyncInit PROVE UntangledInv
  OBVIOUS
<1>1. chains = <<>> /\ job = Idle /\ lost = FALSE /\ sync = Returned("none")
  BY DEF SyncInit, Init
<1>2. sync.pc = "idle" /\ sync.end = "none" /\ job.pc = "idle"
  BY <1>1, ReturnedFacts DEF Idle
<1>3. DOMAIN chains = {}
  BY <1>1
<1>4. Separate(chains) /\ Unfinished
  BY <1>3 DEF Separate, Matched, Apart, Rooted, Unfinished
<1> QED
  BY <1>1, <1>2, <1>4 DEF UntangledInv, Smooth, Orderly, AskHave, AddHave, DownOK, ApplyOK

LEMMA StepUntangled == SInv /\ SInv' /\ UntangledInv /\ [SyncNext]_syncVars => UntangledInv'
<1> SUFFICES ASSUME SInv, SInv', UntangledInv, [SyncNext]_syncVars, ~tangled'
             PROVE  Smooth' /\ (sync'.pc # "stopped" => Orderly')
  BY DEF UntangledInv
<1>1. TypeOK' /\ tangled \in BOOLEAN /\ TypeOK
  BY DEF SInv, SyncBase, SyncTypeOK, Inv
\* Chains that overlap do so for ever.
<1>2. ~tangled
  <2>1. tangled' = tangled \/ tangled' = (tangled \/ Tangles(AttachPoint(sync.history, remote),
                                              LastHeader(AttachPoint(sync.history, remote), remote)))
    BY Zenon DEF SyncNext, SyncStep, Begin, NoHeaders, SomeHeaders, NoAnswer, HeadersStored, HeadersTracked,
       HeadersAdded, HeadersRefused, HeadersOrphaned, ChunkArrives, ChunkOrphaned, DownloadFails,
       AddingBlocks, AddBlocksFails, AddBlocksReturns, DownloadDone, NothingToWaitFor, TipBlock,
       PeerMovesOn, syncVars
  <2> QED
    BY <2>1
<1>3. Smooth /\ (sync.pc # "stopped" => Orderly)
  BY <1>2 DEF UntangledInv
<1>4. ASSUME NEW b \in TipBlocks, TipBlock(b)
      PROVE  Smooth' /\ (sync'.pc # "stopped" => Orderly')
  BY <1>3, <1>4, TipBlockOrderly
<1>5. CASE sync.pc = "stopped"
  <2>1. CASE PeerMovesOn \/ UNCHANGED syncVars
    <3>1. sync' = sync /\ job' = job /\ lost' = lost
      BY <2>1 DEF PeerMovesOn, syncVars, vars
    <3> QED
      BY <1>3, <1>5, <3>1 DEF Smooth
  <2>2. ~SyncStep /\ \A t \in PeerTips : ~Begin(t)
    BY <1>5 DEF SyncStep, Begin, NoHeaders, SomeHeaders, NoAnswer, HeadersStored, HeadersTracked,
       HeadersAdded, HeadersRefused, HeadersOrphaned, ChunkArrives, ChunkOrphaned, DownloadFails,
       AddingBlocks, AddBlocksFails, AddBlocksReturns, DownloadDone, NothingToWaitFor, Downloading
  <2> QED
    BY <1>4, <2>1, <2>2 DEF SyncNext
<1>6. CASE sync.pc # "stopped"
  <2>1. Orderly
    BY <1>3, <1>6
  <2>2. CASE HeadersAdded
    BY <1>1, <1>3, <2>1, <2>2, HeadersAddedOrderly
  <2>3. CASE ChunkArrives
    BY <1>3, <2>1, <2>3, ChunkArrivesOrderly
  <2>4. CASE AddingBlocks
    <3>1. sync.pc = "download" /\ sync' = sync
      BY <2>4 DEF AddingBlocks
    <3>2. CASE job.todo # <<>> /\ LET b == Head(job.todo)
                                  IN  KeepValidating(b) \/ ApplyToTip(b) \/ StartReorg(b)
      <4>1. Head(job.todo) \in Blocks
        BY <1>1, <3>2 DEF TypeOK, Jobs
      <4> QED
        BY <1>1, <1>3, <2>1, <3>1, <3>2, <4>1, TakeOrderlyStep
    <3>3. CASE Rebase \/ RevertTip \/ BranchReached \/ ApplyTip \/ ReorgDone
      BY <1>3, <2>1, <3>1, <3>3, ReorgOrderly
    <3> QED
      BY <2>4, <3>2, <3>3 DEF AddingBlocks
  <2>5. CASE AddBlocksFails
    BY <1>3, <2>1, <2>5, AddBlocksFailsOrderly
  <2>6. CASE AddBlocksReturns
    BY <1>3, <2>1, <2>6, AddBlocksReturnsOrderly
  <2>7. CASE \/ \E t \in PeerTips : Begin(t)
             \/ PeerMovesOn \/ NoHeaders \/ SomeHeaders \/ NoAnswer
             \/ HeadersStored \/ HeadersTracked \/ HeadersRefused \/ HeadersOrphaned
             \/ ChunkOrphaned \/ DownloadFails \/ DownloadDone \/ NothingToWaitFor
             \/ UNCHANGED syncVars
    <3>1. UNCHANGED vars
      BY <2>7 DEF syncVars, Begin, PeerMovesOn, NoHeaders, SomeHeaders, NoAnswer, HeadersStored,
         HeadersTracked, HeadersRefused, HeadersOrphaned, ChunkOrphaned, DownloadFails, DownloadDone,
         NothingToWaitFor
    <3> QED
      BY <1>3, <1>6, <2>1, <2>7, <3>1, QuietOrderly
  <2> QED
    BY <1>4, <2>2, <2>3, <2>4, <2>5, <2>6, <2>7 DEF SyncNext, SyncStep
<1> QED
  BY <1>5, <1>6

\* Whatever the peer, the miner and earlier failed downloads do, an honest
\* peer is not taken for one with unknown headers, AddBlocks finds the chain of
\* every chunk, no reorg to its blocks is given up, and no download waits for a
\* response to nothing, as long as no headers make tracked chains overlap.
THEOREM UntangledSyncs == SyncSpec => []UntangledSucceeds
<1>1. UntangledInv => UntangledSucceeds
  BY DEF UntangledInv, Smooth, UntangledSucceeds
<1>2. SyncSpec => []UntangledInv
  BY InitUntangled, StepUntangled, SyncBaseHolds, PTL DEF SyncSpec
<1> QED
  BY <1>1, <1>2, PTL

\* All that the runs check of syncToTarget in every state.
THEOREM SyncCorrect == SyncSpec => []HeaderSyncInv
<1>1. SyncTypeOK /\ HistorySpans /\ UntangledSucceeds => HeaderSyncInv
  BY DEF HeaderSyncInv
<1> QED
  BY <1>1, SyncTypes, HistoriesSpan, UntangledSyncs, PTL

-----------------------------------------------------------------------------
(* What syncs do to the Manager.                                           *)

\* Whatever syncToTarget does with the Manager, the calls of the miner between
\* its own included, it takes it only through steps of its own: so store,
\* subscribers, reorgs and flushes are as they are proved of the Manager.
THEOREM SyncDrivesManager == SyncSpec => Init /\ [][Next]_vars
<1>1. SyncInit => Init
  BY DEF SyncInit
<1>2. SInv /\ [SyncNext]_syncVars => [Next]_vars
  BY SyncIsManagerStep DEF SInv, SyncBase
<1> QED
  BY <1>1, <1>2, SyncBaseHolds, PTL DEF SyncSpec

\* Syncs follow the rule of HeaviestChain: between them and the miner, a block
\* becomes the tip only if it has more work, until a reorg fails.
THEOREM SyncImplements == SyncSpec => ImplementsHeaviestChain
<1>1. SInv => Inv
  BY DEF SInv
<1> QED
  BY <1>1, SyncDrivesManager, SyncBaseHolds, InitRefines, StepRefines, PTL
     DEF ImplementsHeaviestChain, Heaviest!Spec

\* Whatever the peers' headers and blocks, the store, the subscribers and the
\* tip are at every step of a sync what the Manager promises.
THEOREM SyncKeepsPromises ==
  SyncSpec => [](StoreMatchesTip /\ StoredChainsValid /\ SubscribersFollow /\ TipIsBestUnlessLost)
<1>1. Inv => StoreMatchesTip /\ StoredChainsValid /\ SubscribersFollow
  BY DEF Inv
<1>2. Heaviest!Inv => TipIsBestUnlessLost
  BY DEF Heaviest!Inv, Heaviest!TipIsHeaviest, TipIsBestUnlessLost, Decided, Reorging
<1>3. SInv => Inv /\ Heaviest!Inv
  BY DEF SInv
<1> QED
  BY <1>1, <1>2, <1>3, SyncBaseHolds, PTL
=============================================================================
