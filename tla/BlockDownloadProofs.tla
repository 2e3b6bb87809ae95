-------------------------- MODULE BlockDownloadProofs --------------------------
(***************************************************************************)
(* No chunk is requested twice, no channel is overrun, and no peer given   *)
(* up before it has failed; and while the peers send what they are asked   *)
(* for, no chunk is lost: for any numbers of chunks, workers and peers,    *)
(* whatever is answered, fails or is tried again.                          *)
(***************************************************************************)
EXTENDS BlockDownload, FiniteSetTheorems, SequenceTheorems, WellFoundedInduction, TLAPS

-----------------------------------------------------------------------------
(* The inductive invariant.                                                *)

Requests  == [chunk : Chunks, peer : Peers \cup {NoPeer}]
Calls     == [chunk : Chunks, peer : Peers, got : Ended \cup {"waiting"}]
Responses == [chunk : Chunks, peer : Peers, got : Ended]
Entries   == [chunk : Chunks, peer : Peers, got : Got]
Slots     == 0 .. BufLen - 1

Types ==
  /\ chunks \in 1 .. MaxChunks
  /\ pc \in {"loop", "done", "refused", "no peers left", "panic"}
  /\ peers \subseteq Peers /\ alive \subseteq Peers
  /\ next \in 1 .. chunks
  /\ reqs \in Seq(Requests) /\ working \subseteq Calls /\ resps \in Seq(Responses)
  /\ buf \in [Slots -> Entries \cup {Nil}]
  /\ cursor \in Nat /\ valid \in 0 .. chunks

\* No two messages of a channel are about the same chunk.
ChunksOf(s) == {s[i].chunk : i \in 1 .. Len(s)}
Distinct(s) == \A i, j \in 1 .. Len(s) : s[i].chunk = s[j].chunk => i = j

\* A slot holds a chunk that has it.
Filled(b)   == {k \in Slots : b[k] # Nil}
StoredIn(b) == {b[k].chunk : k \in Filled(b)}
InSlots(b)  == \A k \in Filled(b) : b[k].chunk % BufLen = k

\* Every chunk is in one place, or in none.
Apart ==
  /\ Distinct(reqs) /\ Distinct(resps) /\ InSlots(buf)
  /\ \A v, w \in working : v.chunk = w.chunk => v = w
  /\ ChunksOf(reqs) \cap Worked = {} /\ ChunksOf(reqs) \cap ChunksOf(resps) = {}
  /\ ChunksOf(reqs) \cap StoredIn(buf) = {}
  /\ Worked \cap ChunksOf(resps) = {} /\ Worked \cap StoredIn(buf) = {}
  /\ ChunksOf(resps) \cap StoredIn(buf) = {}

\* Those on their way are no more than the workers; and those in some place are
\* not in the chain yet, and have not been drained.
UnderWay == ChunksOf(reqs) \cup Worked \cup ChunksOf(resps)
InPlace  == UnderWay \cup StoredIn(buf)
Counted ==
  /\ Cardinality(UnderWay) <= NumWorkers
  /\ InPlace \subseteq valid .. next - 1
  /\ cursor + Cardinality(InPlace) <= next

\* A peer that is not used again, or whose call had an error, has failed.
FailedOnly ==
  /\ alive \subseteq peers
  /\ \A w \in working : w.got \in {"error", "nil"} => w.peer \notin alive
  /\ \A i \in 1 .. Len(resps) : resps[i].got \in {"error", "nil"} => resps[i].peer \notin alive
  /\ pc = "no peers left" => alive = {}

IInv == Types /\ Apart /\ Counted /\ FailedOnly /\ (pc = "done" => valid = chunks)

-----------------------------------------------------------------------------
(* What holds while the peers send what they were asked for.               *)

\* The further chunks are requested of no peer, so those that are answered are
\* the first ones, each with a slot of its own.
First == IF chunks < NumWorkers THEN chunks ELSE NumWorkers

WholeInv ==
  /\ pc # "refused" /\ cursor = valid
  /\ \A i \in 1 .. Len(reqs) : reqs[i].peer # NoPeer => reqs[i].chunk < First
  /\ \A w \in working : w.chunk < First
  /\ \A i \in 1 .. Len(resps) : resps[i].chunk < First /\ resps[i].got \in {"full", "error"}
  /\ \A k \in Filled(buf) : buf[k].chunk = k /\ buf[k].got = "full"
  /\ pc = "loop" => valid .. next - 1 \subseteq InPlace

-----------------------------------------------------------------------------
(* Numbers, channels and folds.                                            *)

\* A set of numbers has a least one: induction, as a fact about a set.
LEMMA LeastNat ==
  ASSUME NEW T, T \subseteq Nat, T # {}
  PROVE  \E n \in T : \A k \in T : n <= k
<1> DEFINE Less == OpToRel(<, Nat)
<1>1. PICK n \in T : \A k \in T : ~(<<k, n>> \in Less)
  <2>1. IsWellFoundedOn(Less, Nat)
    BY NatLessThanWellFounded
  <2> HIDE DEF Less
  <2> QED
    BY <2>1, WFMin
<1>2. \A k \in Nat : k < n => <<k, n>> \in Less
  BY DEF OpToRel
<1> HIDE DEF Less
<1>3. \A k \in T : ~(k < n)
  BY <1>1, <1>2
<1> QED
  BY <1>3

\* A slot of the circular buffer, and the slots of numbers that follow each other.
LEMMA SlotOf ==
  ASSUME NEW c \in Nat
  PROVE  c % BufLen \in Slots /\ (c < BufLen => c % BufLen = c)
<1>1. BufLen \in Nat \ {0}
  BY BlockDownloadAssumption
<1> QED
  BY <1>1 DEF Slots

LEMMA SlotsDiffer ==
  ASSUME NEW a \in Nat, NEW b \in Nat, a < b, b - a < BufLen
  PROVE  a % BufLen # b % BufLen
<1> DEFINE q == a \div BufLen
           r == b \div BufLen
<1>1. BufLen \in Nat \ {0}
  BY BlockDownloadAssumption
<1>2. /\ q \in Nat /\ r \in Nat /\ a % BufLen \in Nat /\ b % BufLen \in Nat
      /\ a = BufLen * q + (a % BufLen) /\ b = BufLen * r + (b % BufLen)
  BY <1>1
<1> HIDE DEF q, r
<1>3. SUFFICES ASSUME a % BufLen = b % BufLen PROVE FALSE
  OBVIOUS
<1>4. BufLen * q < BufLen * r /\ BufLen * r < BufLen * q + BufLen
  BY <1>1, <1>2, <1>3
<1>5. CASE r <= q
  <2>1. BufLen * r <= BufLen * q
    BY <1>1, <1>2, <1>5
  <2> QED
    BY <1>1, <1>2, <1>4, <2>1
<1>6. CASE q + 1 <= r
  <2>1. BufLen * (q + 1) <= BufLen * r /\ BufLen * (q + 1) = BufLen * q + BufLen
    BY <1>1, <1>2, <1>6
  <2> QED
    BY <1>1, <1>2, <1>4, <2>1
<1> QED
  BY <1>2, <1>5, <1>6

\* The slots drained are different ones, none is empty, and they are as many as can be.
IsRun(d, b, num) ==
  /\ d = [i \in 1 .. num |-> (cursor + i - 1) % BufLen]
  /\ d \in Seq(Slots) /\ Len(d) = num /\ DOMAIN d = 1 .. num
  /\ \A i \in 1 .. num : b[d[i]] # Nil
  /\ \A i, j \in 1 .. num : d[i] = d[j] => i = j
  /\ \A n \in 0 .. BufLen : (\A k \in 0 .. n - 1 : b[(cursor + k) % BufLen] # Nil) => n <= num

LEMMA DrainedFacts ==
  ASSUME NEW b, NEW d, d = Drained(b), cursor \in Nat
  PROVE  \E num \in 0 .. BufLen : IsRun(d, b, num)
<1> DEFINE full == {n \in 0 .. BufLen : \A k \in 0 .. n - 1 : b[(cursor + k) % BufLen] # Nil}
           num  == CHOOSE n \in full : \A k \in full : k <= n
<1>1. BufLen \in Nat \ {0}
  BY BlockDownloadAssumption
<1>2. \E n \in full : \A k \in full : k <= n
  <2> DEFINE rest == {BufLen - n : n \in full}
  <2>1. 0 \in full
    BY <1>1
  <2>2. rest \subseteq Nat /\ rest # {}
    BY <1>1, <2>1
  <2>3. PICK m \in rest : \A k \in rest : m <= k
    BY <2>2, LeastNat
  <2>4. PICK n \in full : m = BufLen - n
    BY <2>3
  <2>5. ASSUME NEW k \in full PROVE k <= n
    <3>1. BufLen - n <= BufLen - k
      BY <2>3, <2>4
    <3>2. k \in Nat /\ n \in Nat
      BY <1>1
    <3> QED
      BY <1>1, <3>1, <3>2
  <2> QED
    BY <2>5
<1>3. num \in full /\ \A k \in full : k <= num
  BY <1>2
<1> DEFINE slots == [i \in 1 .. num |-> (cursor + i - 1) % BufLen]
<1>4. d = slots
  BY DEF Drained
<1>5. \A n \in 0 .. BufLen : (\A k \in 0 .. n - 1 : b[(cursor + k) % BufLen] # Nil) => n <= num
  BY <1>3
<1> HIDE DEF num
<1>6. num \in 0 .. BufLen /\ num \in Nat /\ \A k \in 0 .. num - 1 : b[(cursor + k) % BufLen] # Nil
  BY <1>1, <1>3
<1>7. \A i \in 1 .. num : slots[i] \in Slots
  <2>1. ASSUME NEW i \in 1 .. num PROVE (cursor + i - 1) % BufLen \in Slots
    <3>1. cursor + i - 1 \in Nat
      BY <1>6
    <3> QED
      BY <3>1, SlotOf
  <2> QED
    BY <2>1
<1>8. slots \in Seq(Slots) /\ Len(slots) = num /\ DOMAIN slots = 1 .. num
  BY <1>6, <1>7
<1>9. ASSUME NEW i \in 1 .. num PROVE b[slots[i]] # Nil
  <2>1. i - 1 \in 0 .. num - 1 /\ cursor + (i - 1) = cursor + i - 1
    BY <1>6
  <2> QED
    BY <1>6, <2>1
<1>10. ASSUME NEW i \in 1 .. num, NEW j \in 1 .. num, i < j PROVE slots[i] # slots[j]
  <2>1. cursor + i - 1 \in Nat /\ cursor + j - 1 \in Nat /\ cursor + i - 1 < cursor + j - 1
        /\ (cursor + j - 1) - (cursor + i - 1) < BufLen
    BY <1>1, <1>6, <1>10
  <2> QED
    BY <2>1, SlotsDiffer
<1>11. \A i, j \in 1 .. num : slots[i] = slots[j] => i = j
  <2>1. \A i, j \in 1 .. num : i < j \/ j < i \/ i = j
    BY <1>6
  <2> QED
    BY <1>10, <2>1
<1> HIDE DEF slots
<1> QED
  BY <1>4, <1>6, <1>8, <1>9, <1>11, <1>5 DEF slots, IsRun

LEMMA MaxOf ==
  ASSUME NEW k \in Nat, NEW t \in SUBSET (1 .. k), k \in t
  PROVE  Max(t) = k
<1>1. \A x \in t : x \in Nat /\ k >= x
  OBVIOUS
<1>2. \A x \in t : (\A y \in t : x >= y) => x = k
  BY <1>1
<1> QED
  BY <1>1, <1>2 DEF Max

\* FoldLeft adds the entries in their order, one after the other.
LEMMA FoldsInOrder ==
  ASSUME NEW n \in Nat, NEW s, DOMAIN s = 1 .. n
  PROVE  \E f : /\ f[0] = [valid |-> valid, ok |-> TRUE]
                /\ \A i \in 1 .. n : f[i] = AddBlocks(f[i - 1], s[i])
                /\ Added(s) = f[n]
<1> DEFINE start == [valid |-> valid, ok |-> TRUE]
           Step(g, t) == IF t = {} THEN start ELSE AddBlocks(g[t \ {Max(t)}], s[Max(t)])
           Folds(k, g) == g = [t \in SUBSET (1 .. k) |-> Step(g, t)]
           Bad         == {k \in 0 .. n : ~ \E g : Folds(k, g)}
<1>1. Bad = {}
  <2>1. SUFFICES ASSUME Bad # {} PROVE FALSE
    OBVIOUS
  <2>2. PICK k \in Bad : \A j \in Bad : k <= j
    <3>1. Bad \subseteq Nat
      OBVIOUS
    <3> HIDE DEF Bad
    <3> QED
      BY <2>1, <3>1, LeastNat
  <2>3. k \in Nat /\ k <= n
    OBVIOUS
  <2>4. CASE k = 0
    <3> DEFINE g == [t \in SUBSET (1 .. 0) |-> start]
    <3>1. \A t \in SUBSET (1 .. 0) : t = {}
      OBVIOUS
    <3>2. Folds(0, g)
      BY <3>1
    <3> QED
      BY <2>4, <3>2
  <2>5. CASE k # 0
    <3>1. k - 1 \in 0 .. n /\ k - 1 \notin Bad
      <4> HIDE DEF Bad
      <4> QED
        BY <2>2, <2>3, <2>5
    <3>2. PICK h : Folds(k - 1, h)
      <4> HIDE DEF Folds
      <4> QED
        BY <3>1
    <3> DEFINE g == [t \in SUBSET (1 .. k) |->
                       IF k \in t THEN AddBlocks(h[t \ {k}], s[k]) ELSE h[t]]
    <3>3. ASSUME NEW t \in SUBSET (1 .. k) PROVE g[t] = Step(g, t)
      <4>1. CASE k \in t
        <5>1. Max(t) = k
          BY <2>3, <4>1, MaxOf
        <5>2. t \ {k} \in SUBSET (1 .. k) /\ k \notin t \ {k}
          OBVIOUS
        <5>3. g[t \ {k}] = h[t \ {k}] /\ g[t] = AddBlocks(h[t \ {k}], s[k])
          BY <4>1, <5>2
        <5> QED
          BY <4>1, <5>1, <5>3
      <4>2. CASE k \notin t
        <5>1. t \in SUBSET (1 .. k - 1) /\ g[t] = h[t]
          BY <2>3, <4>2
        <5>2. h[t] = Step(h, t)
          BY <3>2, <5>1
        <5>3. t \ {Max(t)} \in SUBSET (1 .. k) /\ k \notin t \ {Max(t)}
          BY <4>2
        <5>4. g[t \ {Max(t)}] = h[t \ {Max(t)}]
          BY <5>3
        <5> QED
          BY <5>1, <5>2, <5>4
      <4> QED
        BY <4>1, <4>2
    <3>4. g = [t \in SUBSET (1 .. k) |-> g[t]]
      OBVIOUS
    <3> HIDE DEF g, Step
    <3>5. Folds(k, g)
      BY <3>3, <3>4
    <3> QED
      BY <3>5
  <2> QED
    BY <2>4, <2>5
<1>2. \E g : Folds(n, g)
  <2> HIDE DEF Folds
  <2>1. n \in 0 .. n
    OBVIOUS
  <2> QED
    BY <1>1, <2>1
<1> DEFINE iter == CHOOSE g : Folds(n, g)
<1>3. Folds(n, iter)
  BY <1>2
<1>4. Added(s) = iter[1 .. n]
  BY DEF Added, FoldLeft, MapThenFoldSet
<1> HIDE DEF iter
<1> DEFINE f == [i \in 0 .. n |-> iter[1 .. i]]
<1>5. f[0] = start
  <2>1. 1 .. 0 = {} /\ {} \in SUBSET (1 .. n) /\ 0 \in 0 .. n
    OBVIOUS
  <2>2. iter[{}] = Step(iter, {})
    BY <1>3, <2>1
  <2> QED
    BY <2>1, <2>2
<1>6. ASSUME NEW i \in 1 .. n PROVE f[i] = AddBlocks(f[i - 1], s[i])
  <2>1. 1 .. i \in SUBSET (1 .. n) /\ i \in 1 .. i /\ i \in Nat
    OBVIOUS
  <2>2. Max(1 .. i) = i
    BY <2>1, MaxOf
  <2>3. (1 .. i) \ {i} = 1 .. i - 1 /\ 1 .. i # {}
    OBVIOUS
  <2>4. iter[1 .. i] = Step(iter, 1 .. i)
    BY <1>3, <2>1
  <2>5. iter[1 .. i] = AddBlocks(iter[1 .. i - 1], s[i])
    BY <2>2, <2>3, <2>4
  <2>6. i \in 0 .. n /\ i - 1 \in 0 .. n
    OBVIOUS
  <2> QED
    BY <2>5, <2>6
<1>7. f[n] = iter[1 .. n]
  OBVIOUS
<1> HIDE DEF f
<1> QED
  BY <1>4, <1>5, <1>6, <1>7

\* Every chunk that becomes valid is one of those added.
AddsOnly(n, s, v, sc) ==
  /\ sc.valid \in Nat /\ v <= sc.valid /\ sc.ok \in BOOLEAN
  /\ \A c \in v .. sc.valid - 1 : \E i \in 1 .. n : s[i].chunk = c

LEMMA AddedFacts ==
  ASSUME NEW n \in Nat, NEW s, DOMAIN s = 1 .. n, \A i \in 1 .. n : s[i] \in Entries,
         NEW v \in Nat, v = valid, NEW sc, sc = Added(s)
  PROVE  AddsOnly(n, s, v, sc)
<1> DEFINE start == [valid |-> v, ok |-> TRUE]
<1>1. PICK f : /\ f[0] = start
               /\ \A i \in 1 .. n : f[i] = AddBlocks(f[i - 1], s[i])
               /\ sc = f[n]
  <2>1. \E f : /\ f[0] = [valid |-> valid, ok |-> TRUE]
               /\ \A i \in 1 .. n : f[i] = AddBlocks(f[i - 1], s[i])
               /\ Added(s) = f[n]
    BY FoldsInOrder, ZenonT(30)
  <2> QED
    BY <2>1, ZenonT(30)
<1> DEFINE Good(i) == /\ f[i] \in [valid : Nat, ok : BOOLEAN] /\ v <= f[i].valid
                      /\ \A c \in v .. f[i].valid - 1 : \E j \in 1 .. i : s[j].chunk = c
           Bad     == {i \in 0 .. n : ~Good(i)}
<1>2. Good(0)
  BY <1>1
<1>3. ASSUME NEW i \in 1 .. n, Good(i - 1) PROVE Good(i)
  <2> DEFINE a == f[i - 1]
             r == s[i]
  <2>1. f[i] = AddBlocks(a, r) /\ r \in Entries
    BY <1>1
  <2>2. a \in [valid : Nat, ok : BOOLEAN] /\ v <= a.valid
        /\ \A c \in v .. a.valid - 1 : \E j \in 1 .. i - 1 : s[j].chunk = c
    BY <1>3
  <2> HIDE DEF a
  <2>3. CASE f[i] = a \/ f[i] = [a EXCEPT !.ok = FALSE] \/ f[i] = [a EXCEPT !.valid = @]
    <3>1. f[i] \in [valid : Nat, ok : BOOLEAN] /\ f[i].valid = a.valid
      BY <2>2, <2>3
    <3> QED
      BY <2>2, <3>1
  <2>4. CASE r.chunk = a.valid /\ f[i] = [a EXCEPT !.valid = @ + 1]
    <3>1. f[i] \in [valid : Nat, ok : BOOLEAN] /\ f[i].valid = a.valid + 1
      BY <2>2, <2>4
    <3>2. ASSUME NEW c \in v .. f[i].valid - 1 PROVE \E j \in 1 .. i : s[j].chunk = c
      <4>1. c = a.valid \/ c \in v .. a.valid - 1
        BY <2>2, <3>1
      <4> QED
        BY <2>2, <2>4, <4>1
    <3> QED
      BY <2>2, <3>1, <3>2
  <2> QED
    BY <2>1, <2>3, <2>4 DEF AddBlocks
<1> HIDE DEF Good
<1>4. Bad = {}
  <2>1. SUFFICES ASSUME Bad # {} PROVE FALSE
    OBVIOUS
  <2>2. PICK i \in Bad : \A j \in Bad : i <= j
    <3>1. Bad \subseteq Nat
      OBVIOUS
    <3> HIDE DEF Bad
    <3> QED
      BY <2>1, <3>1, LeastNat
  <2>3. i \in 0 .. n /\ ~Good(i) /\ i # 0
    BY <1>2
  <2>4. i \in 1 .. n /\ i - 1 \in 0 .. n /\ i - 1 < i
    BY <2>3
  <2>5. i - 1 \notin Bad
    <3> HIDE DEF Bad
    <3> QED
      BY <2>2, <2>4
  <2> QED
    BY <1>3, <2>3, <2>4, <2>5
<1>5. Good(n)
  BY <1>4
<1> QED
  BY <1>1, <1>5 DEF Good, AddsOnly

\* Whole chunks that follow the valid ones are all added.
LEMMA WholeAdded ==
  ASSUME NEW n \in Nat, NEW s, DOMAIN s = 1 .. n, NEW v \in Nat, v = valid,
         \A i \in 1 .. n : s[i].got = "full" /\ s[i].chunk = v + i - 1,
         NEW sc, sc = Added(s)
  PROVE  sc.valid = v + n /\ sc.ok
<1> DEFINE start == [valid |-> v, ok |-> TRUE]
<1>1. PICK f : /\ f[0] = start
               /\ \A i \in 1 .. n : f[i] = AddBlocks(f[i - 1], s[i])
               /\ sc = f[n]
  <2>1. \E f : /\ f[0] = [valid |-> valid, ok |-> TRUE]
               /\ \A i \in 1 .. n : f[i] = AddBlocks(f[i - 1], s[i])
               /\ Added(s) = f[n]
    BY FoldsInOrder, ZenonT(30)
  <2> QED
    BY <2>1, ZenonT(30)
<1> DEFINE Good(i) == f[i] \in [valid : Nat, ok : BOOLEAN] /\ f[i].ok = TRUE /\ f[i].valid = v + i
           Bad     == {i \in 0 .. n : ~Good(i)}
<1>2. Good(0)
  BY <1>1
<1>3. ASSUME NEW i \in 1 .. n, Good(i - 1) PROVE Good(i)
  <2> DEFINE a == f[i - 1]
  <2>1. f[i] = AddBlocks(a, s[i]) /\ s[i].got = "full" /\ s[i].chunk = v + (i - 1)
    BY <1>1
  <2>2. a \in [valid : Nat, ok : BOOLEAN] /\ a.valid = v + (i - 1) /\ a.ok = TRUE
    BY <1>3
  <2> HIDE DEF a
  <2>3. f[i] = [a EXCEPT !.valid = @ + 1]
    BY <2>1, <2>2 DEF AddBlocks
  <2>4. f[i] \in [valid : Nat, ok : BOOLEAN] /\ f[i].ok = TRUE /\ f[i].valid = a.valid + 1
    BY <2>2, <2>3
  <2> QED
    BY <2>2, <2>4
<1> HIDE DEF Good
<1>4. Bad = {}
  <2>1. SUFFICES ASSUME Bad # {} PROVE FALSE
    OBVIOUS
  <2>2. PICK i \in Bad : \A j \in Bad : i <= j
    <3>1. Bad \subseteq Nat
      OBVIOUS
    <3> HIDE DEF Bad
    <3> QED
      BY <2>1, <3>1, LeastNat
  <2>3. i \in 0 .. n /\ ~Good(i) /\ i # 0
    BY <1>2
  <2>4. i \in 1 .. n /\ i - 1 \in 0 .. n /\ i - 1 < i
    BY <2>3
  <2>5. i - 1 \notin Bad
    <3> HIDE DEF Bad
    <3> QED
      BY <2>2, <2>4
  <2> QED
    BY <1>3, <2>3, <2>4, <2>5
<1>5. Good(n)
  BY <1>4
<1> QED
  BY <1>1, <1>5 DEF Good

-----------------------------------------------------------------------------
(* The places of chunks.                                                   *)

LEMMA AppendChunks ==
  ASSUME NEW S, NEW s \in Seq(S), NEW e \in S
  PROVE  /\ Append(s, e) \in Seq(S) /\ Len(Append(s, e)) = Len(s) + 1
         /\ ChunksOf(Append(s, e)) = ChunksOf(s) \cup {e.chunk}
         /\ Distinct(s) /\ e.chunk \notin ChunksOf(s) => Distinct(Append(s, e))
         /\ \A i \in 1 .. Len(s) + 1 : Append(s, e)[i] = IF i <= Len(s) THEN s[i] ELSE e
<1> DEFINE a == Append(s, e)
<1>1. /\ a \in Seq(S) /\ Len(a) = Len(s) + 1 /\ Len(s) \in Nat
      /\ \A i \in 1 .. Len(s) : a[i] = s[i]
      /\ a[Len(s) + 1] = e
  BY AppendProperties, LenProperties
<1> HIDE DEF a
<1>2. \A i \in 1 .. Len(s) + 1 : a[i] = IF i <= Len(s) THEN s[i] ELSE e
  BY <1>1
<1>3. ChunksOf(a) = ChunksOf(s) \cup {e.chunk}
  BY <1>1, <1>2 DEF ChunksOf
<1>4. ASSUME Distinct(s), e.chunk \notin ChunksOf(s) PROVE Distinct(a)
  BY <1>1, <1>2, <1>4 DEF Distinct, ChunksOf
<1> QED
  BY <1>1, <1>2, <1>3, <1>4 DEF a

LEMMA TailChunks ==
  ASSUME NEW S, NEW s \in Seq(S), s # <<>>, Distinct(s)
  PROVE  /\ Head(s) \in S /\ Head(s) = s[1] /\ Len(s) \in Nat \ {0} /\ Head(s).chunk \in ChunksOf(s)
         /\ Tail(s) \in Seq(S) /\ Len(Tail(s)) = Len(s) - 1
         /\ ChunksOf(Tail(s)) = ChunksOf(s) \ {Head(s).chunk} /\ Distinct(Tail(s))
         /\ \A i \in 1 .. Len(s) - 1 : Tail(s)[i] = s[i + 1]
<1> DEFINE a == Tail(s)
<1>1. /\ Head(s) \in S /\ Head(s) = s[1] /\ Len(s) \in Nat \ {0}
      /\ a \in Seq(S) /\ Len(a) = Len(s) - 1
      /\ \A i \in 1 .. Len(s) - 1 : a[i] = s[i + 1]
  BY HeadTailProperties, LenProperties, EmptySeq
<1> HIDE DEF a
<1>2. Head(s).chunk \in ChunksOf(s)
  BY <1>1 DEF ChunksOf
<1>3. ChunksOf(a) = ChunksOf(s) \ {Head(s).chunk}
  <2>1. ASSUME NEW c \in ChunksOf(a) PROVE c \in ChunksOf(s) \ {Head(s).chunk}
    <3>1. PICK i \in 1 .. Len(a) : c = a[i].chunk
      BY DEF ChunksOf
    <3>2. i + 1 \in 1 .. Len(s) /\ i + 1 # 1 /\ c = s[i + 1].chunk /\ 1 \in 1 .. Len(s)
      BY <1>1, <3>1
    <3> QED
      BY <1>1, <3>2 DEF ChunksOf, Distinct
  <2>2. ASSUME NEW c \in ChunksOf(s), c # Head(s).chunk PROVE c \in ChunksOf(a)
    <3>1. PICK i \in 1 .. Len(s) : c = s[i].chunk
      BY DEF ChunksOf
    <3>2. i # 1
      BY <1>1, <2>2, <3>1
    <3>3. i - 1 \in 1 .. Len(a) /\ a[i - 1] = s[i]
      BY <1>1, <3>2
    <3> QED
      BY <3>1, <3>3 DEF ChunksOf
  <2> QED
    BY <2>1, <2>2
<1>4. Distinct(a)
  BY <1>1 DEF Distinct
<1> QED
  BY <1>1, <1>2, <1>3, <1>4 DEF a

\* Sets of calls.
LEMMA WorkedFacts ==
  ASSUME NEW ws, NEW w
  PROVE  /\ {x.chunk : x \in ws \cup {w}} = {x.chunk : x \in ws} \cup {w.chunk}
         /\ w \in ws /\ (\A x, y \in ws : x.chunk = y.chunk => x = y) =>
              {x.chunk : x \in ws \ {w}} = {x.chunk : x \in ws} \ {w.chunk}
OBVIOUS

LEMMA SameChain ==
  ASSUME UNCHANGED chunks
  PROVE  Requests' = Requests /\ Calls' = Calls /\ Responses' = Responses /\ Entries' = Entries
BY DEF Requests, Calls, Responses, Entries, Chunks

LEMMA Numbers ==
  ASSUME IInv
  PROVE  /\ chunks \in Nat \ {0} /\ next \in Nat \ {0} /\ next <= chunks
         /\ cursor \in Nat /\ valid \in Nat /\ valid <= chunks
         /\ NumWorkers \in Nat \ {0} /\ BufLen \in Nat \ {0}
<1>1. MaxChunks \in Nat /\ NumWorkers \in Nat \ {0} /\ BufLen \in Nat \ {0}
  BY BlockDownloadAssumption
<1>2. /\ chunks \in 1 .. MaxChunks /\ next \in 1 .. chunks /\ cursor \in Nat /\ valid \in 0 .. chunks
  BY DEF IInv, Types
<1> QED
  BY <1>1, <1>2

\* The places are finitely many.
LEMMA Finite ==
  ASSUME IInv
  PROVE  /\ IsFiniteSet(UnderWay) /\ IsFiniteSet(InPlace)
         /\ Cardinality(UnderWay) \in Nat /\ Cardinality(InPlace) \in Nat
<1>1. IsFiniteSet(valid .. next - 1)
  <2>1. valid \in Int /\ next - 1 \in Int
    BY Numbers
  <2> QED
    BY <2>1, FS_Interval
<1>2. InPlace \in SUBSET (valid .. next - 1) /\ UnderWay \in SUBSET InPlace
  BY DEF IInv, Counted, InPlace
<1>3. IsFiniteSet(InPlace)
  BY <1>1, <1>2, FS_Subset
<1>4. IsFiniteSet(UnderWay)
  BY <1>2, <1>3, FS_Subset
<1> QED
  BY <1>3, <1>4, FS_CardinalityType

\* A step that puts no chunk in another place than some one had.
LEMMA Fewer ==
  ASSUME IInv, UnderWay' \subseteq UnderWay, InPlace' \subseteq InPlace, UNCHANGED <<next, cursor, valid>>
  PROVE  Counted'
<1>1. /\ IsFiniteSet(UnderWay) /\ IsFiniteSet(InPlace)
      /\ Cardinality(UnderWay) \in Nat /\ Cardinality(InPlace) \in Nat
  BY Finite
<1>2. IsFiniteSet(UnderWay') /\ Cardinality(UnderWay') <= Cardinality(UnderWay)
  BY <1>1, FS_Subset
<1>3. IsFiniteSet(InPlace') /\ Cardinality(InPlace') <= Cardinality(InPlace)
  BY <1>1, FS_Subset
<1>4. Cardinality(UnderWay') \in Nat /\ Cardinality(InPlace') \in Nat
  BY <1>2, <1>3, FS_CardinalityType
<1>5. /\ Cardinality(UnderWay) <= NumWorkers /\ NumWorkers \in Nat
      /\ InPlace \subseteq valid .. next - 1 /\ cursor + Cardinality(InPlace) <= next
      /\ cursor \in Nat /\ next \in Nat
  BY Numbers DEF IInv, Counted
<1>6. Cardinality(UnderWay') <= NumWorkers
  BY <1>1, <1>2, <1>4, <1>5
<1>7. cursor + Cardinality(InPlace') <= next
  BY <1>1, <1>3, <1>4, <1>5
<1>8. InPlace' \subseteq valid .. next - 1
  BY <1>5
<1> QED
  BY <1>6, <1>7, <1>8 DEF Counted

-----------------------------------------------------------------------------
(* The steps of the workers.                                               *)

LEMMA TakeRequestInv == ASSUME IInv, TakeRequest PROVE IInv'
<1> DEFINE r == Head(reqs)
           w == Resp(r, "waiting")
<1>1. /\ reqs # <<>> /\ reqs' = Tail(reqs)
      /\ UNCHANGED <<chunks, peers, alive, next, resps, buf, cursor, valid>>
      /\ \/ r.peer = NoPeer /\ pc' = "panic" /\ working' = working
         \/ r.peer # NoPeer /\ working' = working \cup {w} /\ pc' = pc
  BY DEF TakeRequest
<1>2. /\ r \in Requests /\ r.chunk \in ChunksOf(reqs) /\ reqs' \in Seq(Requests)
      /\ ChunksOf(reqs') = ChunksOf(reqs) \ {r.chunk} /\ Distinct(reqs')
  BY <1>1, TailChunks DEF IInv, Types, Apart
<1> HIDE DEF r
<1>3. w.chunk = r.chunk /\ w.peer = r.peer /\ w.got = "waiting"
  BY DEF Resp
<1>4. r.peer # NoPeer => w \in Calls
  BY <1>2 DEF Requests, Calls, Resp
<1> HIDE DEF w
<1>5. Worked' = Worked \/ (r.peer # NoPeer /\ Worked' = Worked \cup {r.chunk})
  BY <1>1, <1>3, WorkedFacts DEF Worked
<1>6. Types'
  BY <1>1, <1>2, <1>4, SameChain DEF IInv, Types
<1>7. r.chunk \notin Worked /\ r.chunk \notin ChunksOf(resps) /\ r.chunk \notin StoredIn(buf)
  BY <1>2 DEF IInv, Apart
<1>8. \A x, y \in working' : x.chunk = y.chunk => x = y
  BY <1>1, <1>3, <1>7 DEF IInv, Apart, Worked
<1>9. Apart'
  BY <1>1, <1>2, <1>5, <1>7, <1>8 DEF IInv, Apart
<1>10. Counted'
  BY <1>1, <1>2, <1>5, Fewer DEF UnderWay, InPlace
<1>11. FailedOnly' /\ (pc = "done" => valid = chunks)'
  BY <1>1, <1>3 DEF IInv, FailedOnly
<1> QED
  BY <1>6, <1>9, <1>10, <1>11 DEF IInv

\* A call that ends, with or without blocks, is still that of its chunk.
LEMMA AnswerInv == ASSUME IInv, NEW w \in working, Answer(w) PROVE IInv'
<1>1. /\ w.peer \in alive /\ w.got = "waiting"
      /\ UNCHANGED <<chunks, pc, peers, alive, next, reqs, resps, buf, cursor, valid>>
  BY DEF Answer, Calling
<1>2. PICK got \in Answers : working' = (working \ {w}) \cup {Resp(w, got)}
  BY DEF Answer
<1> DEFINE v == Resp(w, got)
<1>3. w \in Calls /\ got \in Got
  BY <1>2, BlockDownloadAssumption DEF IInv, Types
<1>4. v \in Calls /\ v.chunk = w.chunk /\ v.got \notin {"error", "nil"} /\ v.peer = w.peer
  BY <1>3 DEF Calls, Resp, Got, Ended
<1> HIDE DEF v
<1>5. working' = (working \ {w}) \cup {v}
  BY <1>2 DEF v
<1>6. Worked' = Worked /\ \A x, y \in working' : x.chunk = y.chunk => x = y
  <2>1. \A x, y \in working : x.chunk = y.chunk => x = y
    BY DEF IInv, Apart
  <2>2. {x.chunk : x \in working \ {w}} = Worked \ {w.chunk}
    BY <2>1, WorkedFacts DEF Worked
  <2>3. Worked' = (Worked \ {w.chunk}) \cup {v.chunk}
    BY <1>5, <2>2, WorkedFacts DEF Worked
  <2>4. w.chunk \in Worked
    BY DEF Worked
  <2>5. Worked' = Worked
    BY <1>4, <2>3, <2>4
  <2> QED
    BY <1>4, <1>5, <2>1, <2>5
<1>7. Types'
  BY <1>1, <1>4, <1>5, SameChain DEF IInv, Types
<1>8. Apart'
  BY <1>1, <1>6 DEF IInv, Apart
<1>9. Counted'
  BY <1>1, <1>6, Fewer DEF UnderWay, InPlace
<1>10. FailedOnly' /\ (pc = "done" => valid = chunks)'
  BY <1>1, <1>4, <1>5 DEF IInv, FailedOnly
<1> QED
  BY <1>7, <1>8, <1>9, <1>10 DEF IInv

LEMMA PeerFailsInv == ASSUME IInv, NEW p \in Peers, PeerFails(p) PROVE IInv'
<1>1. p \in alive /\ alive' = alive \ {p} /\ UNCHANGED <<chunks, pc, peers, next, reqs, resps, buf, cursor, valid>>
  BY DEF PeerFails
<1>2. PICK wrong : working' = (working \ Calling(p))
                     \cup {Resp(w, IF w \in wrong THEN "nil" ELSE "error") : w \in Calling(p)}
  BY DEF PeerFails
<1> DEFINE ended(w) == Resp(w, IF w \in wrong THEN "nil" ELSE "error")
<1>3. Calling(p) \subseteq working /\ \A w \in working : w \in Calling(p) <=> w.peer = p /\ w.got = "waiting"
  BY DEF Calling
<1>4. \A w \in working : w \in Calls
  BY DEF IInv, Types
<1>5. \A w \in Calling(p) : /\ ended(w) \in Calls /\ ended(w).chunk = w.chunk /\ ended(w).peer = p
                            /\ ended(w).got \in {"nil", "error"}
  <2>1. ASSUME NEW w \in Calling(p), NEW got \in {"nil", "error"}
        PROVE  Resp(w, got) \in Calls /\ Resp(w, got).chunk = w.chunk /\ Resp(w, got).peer = p /\ Resp(w, got).got = got
    BY <1>3, <1>4 DEF Calls, Resp, Ended
  <2> QED
    BY <2>1
<1> HIDE DEF ended
<1>6. working' = (working \ Calling(p)) \cup {ended(w) : w \in Calling(p)}
  BY <1>2 DEF ended
<1>7. \A v \in working' : \E w \in working :
        /\ v.chunk = w.chunk /\ v.peer = w.peer /\ v \in Calls
        /\ \/ w \notin Calling(p) /\ v = w
           \/ w \in Calling(p) /\ v = ended(w)
  BY <1>3, <1>4, <1>5, <1>6
<1>8. \A w \in working : \E v \in working' : v.chunk = w.chunk
  BY <1>5, <1>6
<1>9. Worked' = Worked /\ \A x, y \in working' : x.chunk = y.chunk => x = y
  <2>1. \A x, y \in working : x.chunk = y.chunk => x = y
    BY DEF IInv, Apart
  <2>2. Worked' = Worked
    BY <1>7, <1>8 DEF Worked
  <2>3. ASSUME NEW x \in working', NEW y \in working', x.chunk = y.chunk PROVE x = y
    <3>1. PICK v \in working : /\ x.chunk = v.chunk
                               /\ (v \notin Calling(p) /\ x = v) \/ (v \in Calling(p) /\ x = ended(v))
      BY <1>7
    <3>2. PICK w \in working : /\ y.chunk = w.chunk
                               /\ (w \notin Calling(p) /\ y = w) \/ (w \in Calling(p) /\ y = ended(w))
      BY <1>7
    <3>3. v = w
      BY <2>1, <2>3, <3>1, <3>2
    <3> QED
      BY <3>1, <3>2, <3>3
  <2> QED
    BY <2>2, <2>3
<1>10. Types'
  BY <1>1, <1>7, SameChain DEF IInv, Types
<1>11. Apart'
  BY <1>1, <1>9 DEF IInv, Apart
<1>12. Counted'
  BY <1>1, <1>9, Fewer DEF UnderWay, InPlace
<1>13. FailedOnly' /\ (pc = "done" => valid = chunks)'
  <2>1. ASSUME NEW v \in working', v.got \in {"error", "nil"} PROVE v.peer \notin alive'
    <3>1. PICK w \in working : \/ w \notin Calling(p) /\ v = w
                               \/ w \in Calling(p) /\ v = ended(w)
      BY <1>7
    <3>2. CASE v = w
      BY <1>1, <2>1, <3>2 DEF IInv, FailedOnly
    <3>3. CASE w \in Calling(p) /\ v = ended(w)
      BY <1>1, <1>5, <3>3
    <3> QED
      BY <3>1, <3>2, <3>3
  <2> QED
    BY <1>1, <2>1 DEF IInv, FailedOnly
<1> QED
  BY <1>10, <1>11, <1>12, <1>13 DEF IInv

LEMMA RespondInv == ASSUME IInv, NEW w \in working, Respond(w) PROVE IInv'
<1>1. /\ w.got # "waiting" /\ resps' = Append(resps, w) /\ working' = working \ {w}
      /\ UNCHANGED <<chunks, pc, peers, alive, next, reqs, buf, cursor, valid>>
  BY DEF Respond
<1>2. w \in Calls /\ w \in Responses /\ w.chunk \in Worked
  BY <1>1 DEF IInv, Types, Calls, Responses, Worked
<1>3. \A x, y \in working : x.chunk = y.chunk => x = y
  BY DEF IInv, Apart
<1>4. Worked' = Worked \ {w.chunk}
  BY <1>1, <1>3, WorkedFacts DEF Worked
<1>5. resps \in Seq(Responses) /\ Distinct(resps) /\ w.chunk \notin ChunksOf(resps)
  BY <1>2 DEF IInv, Types, Apart
<1>6. /\ resps' \in Seq(Responses) /\ Len(resps') = Len(resps) + 1
      /\ ChunksOf(resps') = ChunksOf(resps) \cup {w.chunk} /\ Distinct(resps')
      /\ \A i \in 1 .. Len(resps) + 1 : resps'[i] = IF i <= Len(resps) THEN resps[i] ELSE w
  BY <1>1, <1>2, <1>5, AppendChunks
<1>7. Types'
  BY <1>1, <1>6, SameChain DEF IInv, Types
<1>8. Apart'
  BY <1>1, <1>2, <1>3, <1>4, <1>6 DEF IInv, Apart
<1>9. Counted'
  BY <1>1, <1>2, <1>4, <1>6, Fewer DEF UnderWay, InPlace
<1>10. FailedOnly' /\ (pc = "done" => valid = chunks)'
  <2>1. Len(resps) \in Nat
    BY <1>5, LenProperties
  <2>2. ASSUME NEW i \in 1 .. Len(resps'), resps'[i].got \in {"error", "nil"}
        PROVE  resps'[i].peer \notin alive'
    <3>1. (i \in 1 .. Len(resps) /\ resps'[i] = resps[i]) \/ resps'[i] = w
      BY <1>6, <2>1
    <3> QED
      BY <1>1, <2>2, <3>1 DEF IInv, FailedOnly
  <2> QED
    BY <1>1, <2>2 DEF IInv, FailedOnly
<1> QED
  BY <1>7, <1>8, <1>9, <1>10 DEF IInv

-----------------------------------------------------------------------------
(* The steps of the loop.                                                  *)

\* The response that the loop receives.
LEMMA Received ==
  ASSUME IInv, resps # <<>>
  PROVE  /\ Head(resps) \in Responses /\ Head(resps) = resps[1] /\ Len(resps) \in Nat \ {0}
         /\ Head(resps).chunk \in ChunksOf(resps)
         /\ Tail(resps) \in Seq(Responses) /\ Len(Tail(resps)) = Len(resps) - 1
         /\ ChunksOf(Tail(resps)) = ChunksOf(resps) \ {Head(resps).chunk} /\ Distinct(Tail(resps))
         /\ \A i \in 1 .. Len(resps) - 1 : Tail(resps)[i] = resps[i + 1]
BY TailChunks DEF IInv, Types, Apart

LEMMA RetryInv == ASSUME IInv, Retry PROVE IInv'
<1> DEFINE r == Head(resps)
<1>1. /\ pc = "loop" /\ resps # <<>> /\ r.got = "error" /\ resps' = Tail(resps) /\ peers' = peers \ {r.peer}
      /\ UNCHANGED <<chunks, alive, next, working, buf, cursor, valid>>
      /\ \/ peers' = {} /\ pc' = "no peers left" /\ reqs' = reqs
         \/ pc' = pc /\ \E p \in peers' : reqs' = Append(reqs, Req(r.chunk, p))
  BY DEF Retry, LeftAfter, Retried
<1>2. /\ r \in Responses /\ r = resps[1] /\ Len(resps) \in Nat \ {0} /\ r.chunk \in ChunksOf(resps)
      /\ resps' \in Seq(Responses) /\ Len(resps') = Len(resps) - 1
      /\ ChunksOf(resps') = ChunksOf(resps) \ {r.chunk} /\ Distinct(resps')
      /\ \A i \in 1 .. Len(resps) - 1 : resps'[i] = resps[i + 1]
  BY <1>1, Received
<1> HIDE DEF r
<1>3. /\ reqs' \in Seq(Requests) /\ Distinct(reqs')
      /\ ChunksOf(reqs') \subseteq ChunksOf(reqs) \cup {r.chunk}
  <2>1. reqs \in Seq(Requests) /\ Distinct(reqs) /\ r.chunk \notin ChunksOf(reqs)
    BY <1>2 DEF IInv, Types, Apart
  <2>2. ASSUME NEW p \in peers', reqs' = Append(reqs, Req(r.chunk, p))
        PROVE  /\ reqs' \in Seq(Requests) /\ Distinct(reqs')
               /\ ChunksOf(reqs') \subseteq ChunksOf(reqs) \cup {r.chunk}
    <3>1. Req(r.chunk, p) \in Requests /\ Req(r.chunk, p).chunk = r.chunk
      BY <1>1, <1>2 DEF IInv, Types, Req, Requests, Responses
    <3> QED
      BY <2>1, <2>2, <3>1, AppendChunks
  <2> QED
    BY <1>1, <2>1, <2>2
<1>4. Types'
  BY <1>1, <1>2, <1>3, SameChain DEF IInv, Types
<1>5. Apart'
  <2>1. Worked' = Worked /\ StoredIn(buf)' = StoredIn(buf)
    BY <1>1 DEF Worked
  <2>2. r.chunk \notin Worked /\ r.chunk \notin StoredIn(buf)
    BY <1>2 DEF IInv, Apart
  <2>3. /\ ChunksOf(reqs') \cap ChunksOf(resps') = {} /\ ChunksOf(reqs') \cap Worked = {}
        /\ ChunksOf(reqs') \cap StoredIn(buf) = {}
    BY <1>2, <1>3, <2>2 DEF IInv, Apart
  <2> QED
    BY <1>1, <1>2, <1>3, <2>1, <2>3 DEF IInv, Apart
<1>6. Counted'
  BY <1>1, <1>2, <1>3, Fewer DEF UnderWay, InPlace, Worked
<1>7. FailedOnly' /\ (pc = "done" => valid = chunks)'
  <2>1. r.peer \notin alive
    <3>1. 1 \in 1 .. Len(resps)
      BY <1>2
    <3>2. \A i \in 1 .. Len(resps) : resps[i].got \in {"error", "nil"} => resps[i].peer \notin alive
      BY DEF IInv, FailedOnly
    <3>3. r.got = "error" /\ r = resps[1]
      BY <1>1, <1>2
    <3> QED
      BY <3>1, <3>2, <3>3
  <2>2. ASSUME NEW i \in 1 .. Len(resps'), resps'[i].got \in {"error", "nil"}
        PROVE  resps'[i].peer \notin alive'
    <3>1. i + 1 \in 1 .. Len(resps) /\ resps'[i] = resps[i + 1]
      BY <1>2
    <3> QED
      BY <1>1, <2>2, <3>1 DEF IInv, FailedOnly
  <2>3. alive' \subseteq peers'
    BY <1>1, <2>1 DEF IInv, FailedOnly
  <2> QED
    BY <1>1, <2>2, <2>3 DEF IInv, FailedOnly
<1> QED
  BY <1>4, <1>5, <1>6, <1>7 DEF IInv

\* What Store computes from the response.
Storing(r, stored, slots, rest) ==
  /\ resps # <<>> /\ r = Head(resps) /\ r.got # "error"
  /\ stored = [buf EXCEPT ![r.chunk % BufLen] = IF r.got = "nil" THEN Nil ELSE r]
  /\ slots = Drained(stored)
  /\ rest = [k \in DOMAIN buf |-> IF k \in Range(slots) THEN Nil ELSE stored[k]]

\* The blocks of a response are in the slot of its chunk, those that the slot
\* held are gone, and the blocks drained are in no slot any more.
Slotted(r, stored, slots, rest) ==
  /\ stored \in [Slots -> Entries \cup {Nil}]
  /\ \A k \in Filled(stored) :
       stored[k] \in Entries /\ (stored[k] = r \/ (k \in Filled(buf) /\ stored[k] = buf[k]))
  /\ rest \in [Slots -> Entries \cup {Nil}] /\ InSlots(rest)
  /\ Len(slots) \in 0 .. BufLen /\ Len(slots) \in Nat /\ DOMAIN slots = 1 .. Len(slots)
  /\ \A i \in 1 .. Len(slots) : slots[i] = (cursor + i - 1) % BufLen /\ slots[i] \in Filled(stored)
  /\ StoredIn(stored) \subseteq StoredIn(buf) \cup {r.chunk}
  /\ LET drained == {stored[slots[i]].chunk : i \in 1 .. Len(slots)} IN
     /\ StoredIn(rest) = StoredIn(stored) \ drained
     /\ drained \subseteq StoredIn(stored)
     /\ IsFiniteSet(drained) /\ Cardinality(drained) = Len(slots)

LEMMA StoredFacts ==
  ASSUME IInv, NEW r, NEW stored, NEW slots, NEW rest, Storing(r, stored, slots, rest)
  PROVE  Slotted(r, stored, slots, rest)
<1> USE DEF Storing
<1>1. /\ r \in Responses /\ r.chunk \in Nat /\ r.chunk % BufLen \in Slots
      /\ buf \in [Slots -> Entries \cup {Nil}] /\ InSlots(buf) /\ cursor \in Nat
  <2>1. r \in Responses
    BY Received
  <2>2. r.chunk \in Nat
    BY <2>1, Numbers DEF Responses, Chunks
  <2> QED
    BY <2>1, <2>2, SlotOf DEF IInv, Types, Apart
<1>2. r.got # "nil" => r \in Entries /\ r # Nil
  <2>1. Nil.got = "nil"
    BY DEF Nil
  <2>2. r.got # "nil" => r.got \in Got
    BY <1>1 DEF Responses, Ended
  <2> QED
    BY <1>1, <2>1, <2>2 DEF Responses, Entries
<1> DEFINE s == r.chunk % BufLen
<1>3. /\ stored \in [Slots -> Entries \cup {Nil}]
      /\ \A k \in Slots : stored[k] = IF k = s THEN (IF r.got = "nil" THEN Nil ELSE r) ELSE buf[k]
  BY <1>1, <1>2
<1>4. \A k \in Filled(stored) :
        /\ stored[k] \in Entries /\ stored[k].chunk % BufLen = k
        /\ stored[k] = r \/ (k \in Filled(buf) /\ stored[k] = buf[k])
  <2>1. ASSUME NEW k \in Filled(stored)
        PROVE  (k = s /\ stored[k] = r /\ r \in Entries) \/ (k \in Filled(buf) /\ stored[k] = buf[k])
    BY <1>2, <1>3, <2>1 DEF Filled
  <2>2. \A k \in Filled(stored) : stored[k] \in Entries
    BY <1>3 DEF Filled
  <2>3. \A k \in Filled(buf) : buf[k].chunk % BufLen = k
    BY <1>1 DEF InSlots
  <2>4. \A k \in Filled(stored) : stored[k].chunk % BufLen = k
    BY <2>1, <2>3
  <2>5. \A k \in Filled(stored) : stored[k] = r \/ (k \in Filled(buf) /\ stored[k] = buf[k])
    BY <2>1
  <2> QED
    BY <2>2, <2>4, <2>5, Zenon
<1>5. StoredIn(stored) \subseteq StoredIn(buf) \cup {r.chunk}
  BY <1>4, ZenonT(30) DEF StoredIn
<1>6. PICK num \in 0 .. BufLen : IsRun(slots, stored, num)
  BY <1>1, DrainedFacts
<1>7.   /\ slots = [i \in 1 .. num |-> (cursor + i - 1) % BufLen]
        /\ slots \in Seq(Slots) /\ Len(slots) = num /\ DOMAIN slots = 1 .. num
        /\ \A i \in 1 .. num : stored[slots[i]] # Nil
        /\ \A i, j \in 1 .. num : slots[i] = slots[j] => i = j
  BY <1>6 DEF IsRun
<1>8. num \in Nat /\ \A i \in 1 .. num : slots[i] = (cursor + i - 1) % BufLen /\ slots[i] \in Filled(stored)
  <2>1. num \in Nat
    BY Numbers
  <2>2. \A i \in 1 .. num : slots[i] \in Slots
    BY <1>7, ElementOfSeq
  <2> QED
    BY <1>7, <2>1, <2>2 DEF Filled
<1>9. Range(slots) = {slots[i] : i \in 1 .. num}
  BY <1>7 DEF Range
<1>10. /\ rest \in [Slots -> Entries \cup {Nil}]
      /\ \A k \in Slots : rest[k] = IF k \in Range(slots) THEN Nil ELSE stored[k]
  BY <1>1, <1>3
<1>11. \A k \in Filled(rest) : k \in Filled(stored) /\ rest[k] = stored[k] /\ k \notin Range(slots)
  BY <1>10 DEF Filled
<1>12. \A k \in Filled(stored) : k \notin Range(slots) => k \in Filled(rest) /\ rest[k] = stored[k]
  BY <1>10 DEF Filled
<1> DEFINE drained == {stored[slots[i]].chunk : i \in 1 .. num}
<1>13. StoredIn(rest) = StoredIn(stored) \ drained
  <2>1. ASSUME NEW c \in StoredIn(rest) PROVE c \in StoredIn(stored) /\ c \notin drained
    <3>1. PICK k \in Filled(rest) : c = rest[k].chunk
      BY DEF StoredIn
    <3>2. k \in Filled(stored) /\ c = stored[k].chunk /\ k \notin Range(slots) /\ c % BufLen = k
      BY <1>4, <1>11, <3>1
    <3>3. ASSUME NEW i \in 1 .. num, c = stored[slots[i]].chunk PROVE FALSE
      <4>1. slots[i] \in Filled(stored)
        BY <1>8
      <4>2. stored[slots[i]].chunk % BufLen = slots[i]
        BY <1>4, <4>1
      <4>3. c % BufLen = slots[i]
        BY <3>3, <4>2
      <4> QED
        BY <1>9, <3>2, <4>3
    <3> QED
      BY <3>2, <3>3 DEF StoredIn
  <2>2. ASSUME NEW c \in StoredIn(stored), c \notin drained PROVE c \in StoredIn(rest)
    <3>1. PICK k \in Filled(stored) : c = stored[k].chunk
      BY DEF StoredIn
    <3>2. k \notin Range(slots)
      BY <1>9, <2>2, <3>1
    <3> QED
      BY <1>12, <3>1, <3>2 DEF StoredIn
  <2> QED
    BY <2>1, <2>2
<1>14. drained \subseteq StoredIn(stored)
  BY <1>8 DEF StoredIn
<1>15. IsFiniteSet(drained) /\ Cardinality(drained) = num
  <2> DEFINE f == [i \in 1 .. num |-> stored[slots[i]].chunk]
  <2>1. \A i, j \in 1 .. num : f[i] = f[j] => i = j
    <3>1. ASSUME NEW i \in 1 .. num, NEW j \in 1 .. num, f[i] = f[j] PROVE slots[i] = slots[j]
      <4>1. stored[slots[i]].chunk = stored[slots[j]].chunk
        BY <3>1
      <4>2. slots[i] \in Filled(stored) /\ slots[j] \in Filled(stored)
        BY <1>8
      <4>3. stored[slots[i]].chunk % BufLen = slots[i] /\ stored[slots[j]].chunk % BufLen = slots[j]
        BY <1>4, <4>2
      <4> QED
        BY <4>1, <4>3
    <3>2. \A i, j \in 1 .. num : slots[i] = slots[j] => i = j
      BY <1>7
    <3> HIDE DEF f
    <3> QED
      BY <3>1, <3>2, Zenon
  <2>2. f \in Bijection(1 .. num, drained)
    BY <2>1 DEF Bijection, Injection, Surjection, IsInjective
  <2>3. ExistsBijection(1 .. num, drained)
    BY <2>2 DEF ExistsBijection
  <2>4. IsFiniteSet(1 .. num) /\ Cardinality(1 .. num) = num
    <3>1. Cardinality(1 .. num) = IF 1 > num THEN 0 ELSE num - 1 + 1
      BY <1>8, FS_Interval
    <3> QED
      BY <1>8, <3>1, FS_Interval
  <2> HIDE DEF f, drained
  <2> QED
    BY <2>3, <2>4, FS_Bijection
<1>16. InSlots(rest)
  BY <1>4, <1>11 DEF InSlots
<1> HIDE DEF drained
<1> QED
  BY <1>3, <1>4, <1>5, <1>7, <1>8, <1>10, <1>13, <1>14, <1>15, <1>16 DEF drained, Slotted

\* What is in no slot of buf and not on its way after a response is drained, and
\* only that becomes valid.
Settled(r, slots, rest, sc, under, mid) ==
  /\ Len(slots) \in Nat /\ sc.valid \in Nat /\ sc.valid <= next /\ sc.ok \in BOOLEAN
  /\ mid \subseteq sc.valid .. next - 1
  /\ IsFiniteSet(mid) /\ Cardinality(mid) \in Nat
  /\ Cardinality(mid) + Len(slots) <= Cardinality(InPlace)
  /\ under = UnderWay \ {r.chunk} /\ r.chunk \in UnderWay
  /\ ChunksOf(reqs) \cap StoredIn(rest) = {} /\ Worked \cap StoredIn(rest) = {}
  /\ ChunksOf(Tail(resps)) \cap StoredIn(rest) = {}

LEMMA DrainFacts ==
  ASSUME IInv, NEW r, NEW stored, NEW slots, NEW rest, Storing(r, stored, slots, rest),
         NEW sc, sc = Added([i \in DOMAIN slots |-> stored[slots[i]]]),
         NEW under, under = ChunksOf(reqs) \cup Worked \cup ChunksOf(Tail(resps)),
         NEW mid, mid = under \cup StoredIn(rest)
  PROVE  Settled(r, slots, rest, sc, under, mid)
<1> DEFINE num     == Len(slots)
           drained == {stored[slots[i]].chunk : i \in 1 .. num}
           added   == [i \in DOMAIN slots |-> stored[slots[i]]]
<1>1. /\ num \in Nat /\ DOMAIN slots = 1 .. num
      /\ \A i \in 1 .. num : slots[i] \in Filled(stored)
      /\ \A k \in Filled(stored) : stored[k] \in Entries
      /\ StoredIn(stored) \subseteq StoredIn(buf) \cup {r.chunk}
      /\ StoredIn(rest) = StoredIn(stored) \ drained
      /\ drained \subseteq StoredIn(stored)
      /\ IsFiniteSet(drained) /\ Cardinality(drained) = num
  <2>1. Slotted(r, stored, slots, rest)
    BY StoredFacts
  <2> QED
    BY <2>1 DEF Slotted
<1>2. DOMAIN added = 1 .. num /\ \A i \in 1 .. num : added[i] \in Entries /\ added[i].chunk \in drained
  <2>1. \A i \in 1 .. num : added[i] = stored[slots[i]]
    BY <1>1
  <2> QED
    BY <1>1, <2>1
<1> HIDE DEF added
<1>3. /\ sc.valid \in Nat /\ valid <= sc.valid /\ sc.ok \in BOOLEAN
      /\ \A c \in valid .. sc.valid - 1 : c \in drained
  <2>1. sc = Added(added)
    BY DEF added
  <2>2. /\ sc.valid \in Nat /\ valid <= sc.valid /\ sc.ok \in BOOLEAN
        /\ \A c \in valid .. sc.valid - 1 : \E i \in 1 .. num : added[i].chunk = c
    <3>1. valid \in Nat
      BY Numbers
    <3> HIDE DEF drained, num
    <3>2. AddsOnly(num, added, valid, sc)
      BY <1>1, <1>2, <2>1, <3>1, AddedFacts
    <3> QED
      BY <3>2 DEF AddsOnly
  <2> HIDE DEF drained, num
  <2> QED
    BY <1>2, <2>2
<1> HIDE DEF drained, num
<1>4. /\ r.chunk \in ChunksOf(resps) /\ ChunksOf(Tail(resps)) = ChunksOf(resps) \ {r.chunk}
  BY Received DEF Storing
<1>5. /\ ChunksOf(reqs) \cap Worked = {} /\ ChunksOf(reqs) \cap ChunksOf(resps) = {}
      /\ ChunksOf(reqs) \cap StoredIn(buf) = {}
      /\ Worked \cap ChunksOf(resps) = {} /\ Worked \cap StoredIn(buf) = {}
      /\ ChunksOf(resps) \cap StoredIn(buf) = {}
  BY DEF IInv, Apart
<1>6. under = UnderWay \ {r.chunk} /\ r.chunk \in UnderWay
  BY <1>4, <1>5 DEF UnderWay
<1>7. /\ ChunksOf(reqs) \cap StoredIn(rest) = {} /\ Worked \cap StoredIn(rest) = {}
      /\ ChunksOf(Tail(resps)) \cap StoredIn(rest) = {}
  BY <1>1, <1>4, <1>5
<1>8. mid \subseteq InPlace /\ drained \subseteq InPlace /\ mid \cap drained = {}
  <2>1. drained \subseteq InPlace
    BY <1>1, <1>6 DEF InPlace
  <2>2. StoredIn(rest) \subseteq InPlace
    BY <1>1, <1>6 DEF InPlace
  <2>3. under \cap drained = {}
    BY <1>1, <1>4, <1>5
  <2> QED
    BY <1>1, <1>6, <2>1, <2>2, <2>3 DEF InPlace
<1>9. /\ IsFiniteSet(InPlace) /\ Cardinality(InPlace) \in Nat
  BY Finite
<1>10. IsFiniteSet(mid) /\ Cardinality(mid) \in Nat
  BY <1>8, <1>9, FS_Subset, FS_CardinalityType
<1>11. Cardinality(mid) + num <= Cardinality(InPlace)
  <2>1. IsFiniteSet(mid \cup drained)
        /\ Cardinality(mid \cup drained) = Cardinality(mid) + Cardinality(drained) - Cardinality(mid \cap drained)
    BY <1>1, <1>10, FS_Union
  <2>2. Cardinality(mid \cap drained) = 0
    BY <1>8, FS_EmptySet
  <2>3. mid \cup drained \in SUBSET InPlace
    BY <1>8
  <2>4. Cardinality(mid \cup drained) <= Cardinality(InPlace)
    BY <1>9, <2>3, FS_Subset
  <2> QED
    BY <1>1, <1>9, <1>10, <2>1, <2>2, <2>4
<1>12. InPlace \subseteq valid .. next - 1 /\ r.chunk \in InPlace /\ valid \in Nat /\ next \in Nat
  BY <1>6, Numbers DEF IInv, Counted, InPlace
<1>13. sc.valid <= next
  <2>1. valid <= next
    <3>1. r.chunk \in valid .. next - 1
      BY <1>12
    <3> QED
      BY <1>12, <3>1
  <2>2. CASE sc.valid = valid
    BY <2>1, <2>2
  <2>3. CASE sc.valid # valid
    <3>1. sc.valid - 1 \in valid .. sc.valid - 1
      BY <1>3, <1>12, <2>3
    <3>2. sc.valid - 1 \in valid .. next - 1
      BY <1>3, <1>8, <1>12, <3>1
    <3> QED
      BY <1>3, <1>12, <3>2
  <2> QED
    BY <2>2, <2>3
<1>14. mid \subseteq sc.valid .. next - 1
  <2>1. ASSUME NEW c \in mid PROVE c \in sc.valid .. next - 1
    <3>1. c \in valid .. next - 1 /\ c \notin drained
      BY <1>8, <1>12
    <3>2. c \notin valid .. sc.valid - 1
      BY <1>3, <3>1
    <3> QED
      BY <1>3, <1>12, <3>1, <3>2
  <2> QED
    BY <2>1
<1> QED
  BY <1>1, <1>3, <1>6, <1>7, <1>10, <1>11, <1>13, <1>14 DEF num, Settled

LEMMA StoreInv == ASSUME IInv, Store PROVE IInv'
<1> DEFINE r      == Head(resps)
           stored == [buf EXCEPT ![r.chunk % BufLen] = IF r.got = "nil" THEN Nil ELSE r]
           slots  == Drained(stored)
           rest   == [k \in DOMAIN buf |-> IF k \in Range(slots) THEN Nil ELSE stored[k]]
           sc     == Added([i \in DOMAIN slots |-> stored[slots[i]]])
           under  == ChunksOf(reqs) \cup Worked \cup ChunksOf(Tail(resps))
           mid    == under \cup StoredIn(rest)
<1>1. /\ pc = "loop" /\ resps # <<>> /\ r.got # "error" /\ resps' = Tail(resps)
      /\ UNCHANGED <<chunks, peers, alive, working>>
      /\ buf' = rest /\ cursor' = cursor + Len(slots) /\ valid' = sc.valid
      /\ \/ pc' \in {"refused", "loop"} /\ next' = next /\ reqs' = reqs
         \/ pc' = "done" /\ sc.valid = chunks /\ next' = next /\ reqs' = reqs
         \/ /\ next < chunks /\ pc' = "loop"
            /\ reqs' = Append(reqs, Req(next, NoPeer)) /\ next' = next + 1
  BY DEF Store, FullyValidated
<1>2. Storing(r, stored, slots, rest)
  BY <1>1 DEF Storing
<1>3. /\ Len(slots) \in Nat /\ sc.valid \in Nat /\ sc.valid <= next /\ sc.ok \in BOOLEAN
      /\ mid \subseteq sc.valid .. next - 1
      /\ IsFiniteSet(mid) /\ Cardinality(mid) \in Nat
      /\ Cardinality(mid) + Len(slots) <= Cardinality(InPlace)
      /\ under = UnderWay \ {r.chunk} /\ r.chunk \in UnderWay
      /\ ChunksOf(reqs) \cap StoredIn(rest) = {} /\ Worked \cap StoredIn(rest) = {}
      /\ ChunksOf(Tail(resps)) \cap StoredIn(rest) = {}
  <2> HIDE DEF r, stored, slots, rest
  <2>1. Settled(r, slots, rest, sc, under, mid)
    BY <1>2, DrainFacts
  <2> QED
    BY <2>1 DEF Settled
<1>4. rest \in [Slots -> Entries \cup {Nil}] /\ InSlots(rest)
  <2> HIDE DEF r, stored, slots, rest
  <2>1. Slotted(r, stored, slots, rest)
    BY <1>2, StoredFacts
  <2> QED
    BY <2>1 DEF Slotted
<1>5. /\ r = resps[1] /\ Len(resps) \in Nat \ {0}
      /\ resps' \in Seq(Responses) /\ Len(resps') = Len(resps) - 1
      /\ ChunksOf(resps') = ChunksOf(resps) \ {r.chunk} /\ Distinct(resps')
      /\ \A i \in 1 .. Len(resps) - 1 : resps'[i] = resps[i + 1]
  BY <1>1, Received
<1> HIDE DEF r, stored, slots, rest, sc
<1>6. /\ chunks \in Nat \ {0} /\ next \in Nat \ {0} /\ next <= chunks
      /\ cursor \in Nat /\ NumWorkers \in Nat \ {0}
  BY Numbers
<1>7. Worked' = Worked /\ UnderWay' = ChunksOf(reqs') \cup Worked \cup ChunksOf(Tail(resps))
      /\ InPlace' = UnderWay' \cup StoredIn(rest)
  BY <1>1 DEF UnderWay, InPlace, Worked
<1>8. /\ IsFiniteSet(UnderWay) /\ Cardinality(UnderWay) \in Nat /\ Cardinality(UnderWay) <= NumWorkers
      /\ Cardinality(InPlace) \in Nat /\ cursor + Cardinality(InPlace) <= next
  BY Finite DEF IInv, Counted
<1>9. IsFiniteSet(under) /\ Cardinality(under) = Cardinality(UnderWay) - 1
  <2> HIDE DEF under
  <2> QED
    BY <1>3, <1>8, FS_RemoveElement
<1>10. FailedOnly' /\ (pc = "done" => valid = chunks)'
  <2>1. ASSUME NEW i \in 1 .. Len(resps'), resps'[i].got \in {"error", "nil"}
        PROVE  resps'[i].peer \notin alive'
    <3>1. i + 1 \in 1 .. Len(resps) /\ resps'[i] = resps[i + 1]
      BY <1>5
    <3> QED
      BY <1>1, <2>1, <3>1 DEF IInv, FailedOnly
  <2> QED
    BY <1>1, <2>1 DEF IInv, FailedOnly
<1>11. reqs \in Seq(Requests) /\ Distinct(reqs)
  BY DEF IInv, Types, Apart
<1>12. /\ \A v, w \in working' : v.chunk = w.chunk => v = w
       /\ ChunksOf(reqs) \cap Worked = {} /\ ChunksOf(reqs) \cap ChunksOf(resps') = {}
       /\ Worked \cap ChunksOf(resps') = {}
  BY <1>1, <1>5 DEF IInv, Apart
<1>13. CASE reqs' = reqs /\ next' = next /\ pc' \in {"refused", "loop", "done"}
  <2>1. UnderWay' = under /\ InPlace' = mid
    BY <1>7, <1>13
  <2>2. Types'
    <3>1. next' \in 1 .. chunks /\ valid' \in 0 .. chunks /\ cursor' \in Nat
      BY <1>1, <1>3, <1>6, <1>13
    <3> QED
      BY <1>1, <1>4, <1>5, <1>11, <1>13, <3>1, SameChain DEF IInv, Types
  <2>3. Apart'
    BY <1>1, <1>3, <1>4, <1>5, <1>7, <1>11, <1>12, <1>13 DEF Apart
  <2>4. Counted'
    <3> HIDE DEF under, mid
    <3>1. Cardinality(UnderWay') <= NumWorkers
      BY <1>6, <1>8, <1>9, <2>1
    <3>2. cursor' + Cardinality(InPlace') <= next'
      BY <1>1, <1>3, <1>6, <1>8, <1>13, <2>1
    <3>3. InPlace' \subseteq valid' .. next' - 1
      BY <1>1, <1>3, <1>13, <2>1
    <3> QED
      BY <3>1, <3>2, <3>3 DEF Counted
  <2> QED
    BY <1>10, <2>2, <2>3, <2>4 DEF IInv
<1>14. CASE /\ next < chunks /\ pc' = "loop"
            /\ reqs' = Append(reqs, Req(next, NoPeer)) /\ next' = next + 1
  <2> DEFINE q == Req(next, NoPeer)
  <2>1. q \in Requests /\ q.chunk = next
    BY <1>6, <1>14 DEF Req, Requests, Chunks
  <2> HIDE DEF q
  <2>2. next \notin mid /\ next \notin under
    BY <1>3, <1>6
  <2>3. reqs' = Append(reqs, q) /\ next \notin ChunksOf(reqs)
    BY <1>14, <2>2 DEF q
  <2>4. reqs' \in Seq(Requests) /\ Distinct(reqs') /\ ChunksOf(reqs') = ChunksOf(reqs) \cup {next}
    BY <1>11, <2>1, <2>3, AppendChunks
  <2>5. UnderWay' = under \cup {next} /\ InPlace' = mid \cup {next}
    BY <1>7, <2>4
  <2>6. Types'
    <3>1. next' \in 1 .. chunks /\ valid' \in 0 .. chunks /\ cursor' \in Nat
      BY <1>1, <1>3, <1>6, <1>14
    <3> QED
      BY <1>1, <1>4, <1>5, <1>14, <2>4, <3>1, SameChain DEF IInv, Types
  <2>7. Apart'
    <3>1. next \notin Worked /\ next \notin ChunksOf(resps') /\ next \notin StoredIn(rest)
      BY <1>1, <2>2
    <3>2. /\ ChunksOf(reqs') \cap Worked = {} /\ ChunksOf(reqs') \cap ChunksOf(resps') = {}
          /\ ChunksOf(reqs') \cap StoredIn(rest) = {}
      BY <1>3, <1>12, <2>4, <3>1
    <3> QED
      BY <1>1, <1>3, <1>4, <1>5, <1>7, <1>12, <2>4, <3>2 DEF Apart
  <2>8. Counted'
    <3> HIDE DEF under, mid
    <3>1. Cardinality(under \cup {next}) = Cardinality(under) + 1
      BY <1>9, <2>2, FS_AddElement
    <3>2. Cardinality(mid \cup {next}) = Cardinality(mid) + 1
      BY <1>3, <2>2, FS_AddElement
    <3>3. Cardinality(UnderWay') <= NumWorkers
      BY <1>6, <1>8, <1>9, <2>5, <3>1
    <3>4. cursor' + Cardinality(InPlace') <= next'
      BY <1>1, <1>3, <1>6, <1>8, <1>14, <2>5, <3>2, SMTT(30)
    <3>5. InPlace' \subseteq valid' .. next' - 1
      BY <1>1, <1>3, <1>6, <1>14, <2>5
    <3> QED
      BY <3>3, <3>4, <3>5 DEF Counted
  <2> QED
    BY <1>10, <2>6, <2>7, <2>8 DEF IInv
<1> QED
  BY <1>1, <1>13, <1>14

-----------------------------------------------------------------------------
(* The invariant, and what it implies.                                     *)

\* The first requests are made before the loop, for the first chunks.
LEMMA FirstRequests ==
  ASSUME Init
  PROVE  /\ MaxChunks \in Nat \ {0} /\ NumWorkers \in Nat \ {0}
         /\ chunks \in Nat /\ next \in 1 .. chunks /\ next <= NumWorkers /\ next \in Nat
         /\ reqs \in Seq(Requests) /\ Len(reqs) = next
         /\ \A i \in 1 .. next : reqs[i].chunk = i - 1
         /\ ChunksOf(reqs) = 0 .. next - 1
<1>1. chunks \in 1 .. MaxChunks /\ next = IF chunks < NumWorkers THEN chunks ELSE NumWorkers
  BY DEF Init
<1>2. PICK random \in [1 .. next -> Peers] : reqs = [i \in 1 .. next |-> Req(i - 1, random[i])]
  BY DEF Init
<1>3. /\ MaxChunks \in Nat \ {0} /\ NumWorkers \in Nat \ {0}
      /\ chunks \in Nat /\ next \in 1 .. chunks /\ next <= NumWorkers /\ next \in Nat
  BY <1>1, BlockDownloadAssumption
<1>4. /\ reqs \in Seq(Requests) /\ Len(reqs) = next
      /\ \A i \in 1 .. next : reqs[i].chunk = i - 1
  <2>1. \A i \in 1 .. next : Req(i - 1, random[i]) \in Requests /\ Req(i - 1, random[i]).chunk = i - 1
    BY <1>3 DEF Req, Requests, Chunks
  <2> QED
    BY <1>2, <1>3, <2>1
<1>5. ChunksOf(reqs) = 0 .. next - 1
  <2>1. ASSUME NEW c \in 0 .. next - 1 PROVE \E i \in 1 .. next : reqs[i].chunk = c
    <3>1. c + 1 \in 1 .. next /\ reqs[c + 1].chunk = c
      BY <1>3, <1>4
    <3> QED
      BY <3>1
  <2>2. \A i \in 1 .. next : reqs[i].chunk \in 0 .. next - 1
    BY <1>3, <1>4
  <2> QED
    BY <1>4, <2>1, <2>2 DEF ChunksOf
<1> QED
  BY <1>3, <1>4, <1>5

LEMMA InitInv == ASSUME Init PROVE IInv
<1>1. /\ chunks \in 1 .. MaxChunks /\ pc = "loop" /\ peers = Peers /\ alive = Peers
      /\ working = {} /\ resps = <<>> /\ buf = [i \in 0 .. BufLen - 1 |-> Nil]
      /\ cursor = 0 /\ valid = 0
  BY DEF Init
<1>2. /\ MaxChunks \in Nat \ {0} /\ NumWorkers \in Nat \ {0}
      /\ chunks \in Nat /\ next \in 1 .. chunks /\ next <= NumWorkers /\ next \in Nat
  BY FirstRequests
<1>3. /\ reqs \in Seq(Requests) /\ Len(reqs) = next
      /\ \A i \in 1 .. next : reqs[i].chunk = i - 1
  BY FirstRequests
<1>4. ChunksOf(reqs) = 0 .. next - 1
  BY FirstRequests
<1>5. Worked = {} /\ ChunksOf(resps) = {} /\ StoredIn(buf) = {} /\ Filled(buf) = {}
  BY <1>1 DEF Worked, ChunksOf, StoredIn, Filled, Slots
<1>6. Types
  <2>1. buf \in [Slots -> Entries \cup {Nil}]
    BY <1>1 DEF Slots
  <2> QED
    BY <1>1, <1>2, <1>3, <2>1 DEF Types
<1>7. Apart
  <2>1. Distinct(reqs)
    BY <1>2, <1>3 DEF Distinct
  <2>2. Distinct(resps)
    <3>1. Len(resps) = 0
      BY <1>1
    <3> QED
      BY <3>1 DEF Distinct
  <2>3. InSlots(buf)
    BY <1>5 DEF InSlots
  <2> QED
    BY <1>1, <1>5, <2>1, <2>2, <2>3 DEF Apart
<1>8. Counted
  <2>1. UnderWay = 0 .. next - 1 /\ InPlace = 0 .. next - 1
    BY <1>4, <1>5 DEF UnderWay, InPlace
  <2>2. Cardinality(0 .. next - 1) = next
    <3>1. Cardinality(0 .. next - 1) = IF 0 > next - 1 THEN 0 ELSE (next - 1) - 0 + 1
      BY <1>2, FS_Interval
    <3> QED
      BY <1>2, <3>1
  <2> QED
    BY <1>1, <1>2, <2>1, <2>2 DEF Counted
<1>9. FailedOnly /\ (pc = "done" => valid = chunks)
  BY <1>1 DEF FailedOnly
<1> QED
  BY <1>6, <1>7, <1>8, <1>9 DEF IInv

LEMMA NextInv == ASSUME IInv, [Next]_vars PROVE IInv'
<1>1. CASE Next
  <2>1. CASE TakeRequest
    BY <2>1, TakeRequestInv
  <2>2. CASE Retry
    BY <2>2, RetryInv
  <2>3. CASE Store
    BY <2>3, StoreInv
  <2>4. CASE \E w \in working : Answer(w) \/ Respond(w)
    BY <2>4, AnswerInv, RespondInv
  <2>5. CASE \E p \in Peers : PeerFails(p)
    BY <2>5, PeerFailsInv
  <2> QED
    BY <1>1, <2>1, <2>2, <2>3, <2>4, <2>5 DEF Next
<1>2. CASE UNCHANGED vars
  <2>1. UNCHANGED <<Requests, Calls, Responses, Entries, Worked, UnderWay, InPlace>>
    BY <1>2, SameChain DEF vars, Worked, UnderWay, InPlace
  <2>2. Types' /\ Apart' /\ Counted' /\ FailedOnly'
    BY <1>2, <2>1 DEF vars, IInv, Types, Apart, Counted, FailedOnly
  <2> QED
    BY <1>2, <2>2 DEF vars, IInv
<1> QED
  BY <1>1, <1>2

\* As many messages in a channel as chunks that they are about.
LEMMA ChannelCard ==
  ASSUME NEW S, NEW s \in Seq(S), Distinct(s)
  PROVE  /\ Range(s) = {s[i] : i \in 1 .. Len(s)} /\ ChunksOf(s) = {x.chunk : x \in Range(s)}
         /\ IsFiniteSet(ChunksOf(s)) /\ Cardinality(ChunksOf(s)) = Len(s) /\ Len(s) \in Nat
<1>1. Len(s) \in Nat /\ DOMAIN s = 1 .. Len(s)
  BY LenProperties
<1>2. Range(s) = {s[i] : i \in 1 .. Len(s)} /\ ChunksOf(s) = {x.chunk : x \in Range(s)}
  BY <1>1 DEF Range, ChunksOf
<1>3. IsFiniteSet(1 .. Len(s)) /\ Cardinality(1 .. Len(s)) = Len(s)
  <2>1. Cardinality(1 .. Len(s)) = IF 1 > Len(s) THEN 0 ELSE Len(s) - 1 + 1
    BY <1>1, FS_Interval
  <2> QED
    BY <1>1, <2>1, FS_Interval
<1> DEFINE f == [i \in 1 .. Len(s) |-> s[i].chunk]
<1>4. f \in Bijection(1 .. Len(s), ChunksOf(s))
  BY DEF Distinct, ChunksOf, Bijection, Injection, Surjection, IsInjective
<1>5. ExistsBijection(1 .. Len(s), ChunksOf(s))
  BY <1>4 DEF ExistsBijection
<1> HIDE DEF f
<1>6. IsFiniteSet(ChunksOf(s)) /\ Cardinality(ChunksOf(s)) = Len(s)
  BY <1>3, <1>5, FS_Bijection
<1> QED
  BY <1>1, <1>2, <1>6

\* As many calls, and as many slots, as chunks that they are about.
LEMMA SetCard ==
  ASSUME NEW s, NEW t, IsFiniteSet(t), NEW f \in Bijection(s, t)
  PROVE  IsFiniteSet(s) /\ Cardinality(s) = Cardinality(t)
<1>1. f \in Injection(s, t) /\ f \in Surjection(s, t)
  BY DEF Bijection
<1> QED
  BY <1>1, FS_Injection

LEMMA WorkedCard == ASSUME IInv PROVE Cardinality(working) = Cardinality(Worked)
<1>1. IsFiniteSet(Worked)
  <2>1. Worked \in SUBSET UnderWay
    BY DEF UnderWay
  <2> QED
    BY <2>1, Finite, FS_Subset
<1>2. \A v, w \in working : v.chunk = w.chunk => v = w
  BY DEF IInv, Apart
<1> DEFINE f == [w \in working |-> w.chunk]
<1>3. f \in Bijection(working, Worked)
  BY <1>2 DEF Worked, Bijection, Injection, Surjection, IsInjective
<1> HIDE DEF f
<1> QED
  BY <1>1, <1>3, SetCard

LEMMA StoredCard ==
  ASSUME IInv
  PROVE  /\ Filled(buf) = {k \in DOMAIN buf : buf[k] # Nil} /\ StoredIn(buf) = Stored
         /\ IsFiniteSet(StoredIn(buf)) /\ Cardinality(Filled(buf)) = Cardinality(StoredIn(buf))
<1>1. IsFiniteSet(StoredIn(buf))
  <2>1. StoredIn(buf) \in SUBSET InPlace
    BY DEF InPlace
  <2> QED
    BY <2>1, Finite, FS_Subset
<1>2. DOMAIN buf = Slots /\ \A k \in Filled(buf) : buf[k].chunk % BufLen = k
  BY DEF IInv, Types, Apart, InSlots
<1> DEFINE f == [k \in Filled(buf) |-> buf[k].chunk]
<1>3. \A k, l \in Filled(buf) : buf[k].chunk = buf[l].chunk => k = l
  <2>1. ASSUME NEW k \in Filled(buf), NEW l \in Filled(buf), buf[k].chunk = buf[l].chunk PROVE k = l
    <3>1. buf[k].chunk % BufLen = k /\ buf[l].chunk % BufLen = l
      BY <1>2
    <3> QED
      BY <2>1, <3>1
  <2> QED
    BY <2>1
<1>4. f \in Bijection(Filled(buf), StoredIn(buf))
  BY <1>3 DEF StoredIn, Bijection, Injection, Surjection, IsInjective
<1> HIDE DEF f
<1>5. Filled(buf) = {k \in DOMAIN buf : buf[k] # Nil}
  BY <1>2 DEF Filled
<1>6. StoredIn(buf) = Stored
  BY <1>2 DEF Stored, StoredIn, Filled, Range
<1> QED
  BY <1>1, <1>4, <1>5, <1>6, SetCard

\* A union of sets that have nothing in common.
LEMMA Disjoint ==
  ASSUME NEW S, NEW T, IsFiniteSet(S), IsFiniteSet(T), S \cap T = {}
  PROVE  IsFiniteSet(S \cup T) /\ Cardinality(S \cup T) = Cardinality(S) + Cardinality(T)
<1>1. IsFiniteSet(S \cup T)
      /\ Cardinality(S \cup T) = Cardinality(S) + Cardinality(T) - Cardinality(S \cap T)
  BY FS_Union
<1>2. Cardinality(S \cap T) = 0
  BY FS_EmptySet
<1>3. Cardinality(S) \in Nat /\ Cardinality(T) \in Nat
  BY FS_CardinalityType
<1> QED
  BY <1>1, <1>2, <1>3

\* The places hold as many messages and slots as chunks.
LEMMA PlacesCard ==
  ASSUME IInv
  PROVE  /\ Places = InPlace /\ Len(reqs) \in Nat /\ Len(resps) \in Nat
         /\ Cardinality(working) \in Nat
         /\ Len(reqs) + Cardinality(working) + Len(resps) = Cardinality(UnderWay)
         /\ Len(reqs) + Cardinality(working) + Len(resps)
              + Cardinality({k \in DOMAIN buf : buf[k] # Nil}) = Cardinality(InPlace)
<1> DEFINE A == ChunksOf(reqs)
           R == ChunksOf(resps)
           B == StoredIn(buf)
<1>1. /\ A = {x.chunk : x \in Range(reqs)} /\ IsFiniteSet(A) /\ Cardinality(A) = Len(reqs)
      /\ Len(reqs) \in Nat
  BY ChannelCard DEF IInv, Types, Apart
<1>2. /\ R = {x.chunk : x \in Range(resps)} /\ IsFiniteSet(R) /\ Cardinality(R) = Len(resps)
      /\ Len(resps) \in Nat
  BY ChannelCard DEF IInv, Types, Apart
<1>3. /\ Cardinality({k \in DOMAIN buf : buf[k] # Nil}) = Cardinality(B) /\ B = Stored /\ IsFiniteSet(B)
  BY StoredCard
<1>4. IsFiniteSet(Worked) /\ Cardinality(Worked) \in Nat /\ Cardinality(working) = Cardinality(Worked)
  <2>1. Worked \in SUBSET UnderWay
    BY DEF UnderWay
  <2>2. IsFiniteSet(Worked)
    BY <2>1, Finite, FS_Subset
  <2> QED
    BY <2>2, WorkedCard, FS_CardinalityType
<1>5. Places = InPlace
  BY <1>1, <1>2, <1>3 DEF Places, InPlace, UnderWay, Requested, Responded
<1>6. /\ A \cap Worked = {} /\ A \cap R = {} /\ A \cap B = {}
      /\ Worked \cap R = {} /\ Worked \cap B = {} /\ R \cap B = {}
  BY DEF IInv, Apart
<1>7. UnderWay = (A \cup Worked) \cup R /\ InPlace = UnderWay \cup B
  BY DEF UnderWay, InPlace
<1> HIDE DEF A, R, B
<1>8. IsFiniteSet(A \cup Worked) /\ Cardinality(A \cup Worked) = Cardinality(A) + Cardinality(Worked)
  BY <1>1, <1>4, <1>6, Disjoint
<1>9. Cardinality(UnderWay) = Cardinality(A \cup Worked) + Cardinality(R)
  <2>1. (A \cup Worked) \cap R = {}
    BY <1>6
  <2> QED
    BY <1>2, <1>7, <1>8, <2>1, Disjoint
<1>10. Cardinality(InPlace) = Cardinality(UnderWay) + Cardinality(B)
  <2>1. UnderWay \cap B = {}
    BY <1>6, <1>7
  <2> QED
    BY <1>3, <1>7, <2>1, Finite, Disjoint
<1>11. Cardinality(B) \in Nat
  BY <1>3, FS_CardinalityType
<1> QED
  BY <1>1, <1>2, <1>3, <1>4, <1>5, <1>8, <1>9, <1>10, <1>11

LEMMA InvDownload == ASSUME IInv PROVE DownloadInv
<1>1. /\ Places = InPlace /\ Len(reqs) \in Nat /\ Len(resps) \in Nat
      /\ Cardinality(working) \in Nat
      /\ Len(reqs) + Cardinality(working) + Len(resps) = Cardinality(UnderWay)
      /\ Len(reqs) + Cardinality(working) + Len(resps)
           + Cardinality({k \in DOMAIN buf : buf[k] # Nil}) = Cardinality(InPlace)
  BY PlacesCard
<1>2. /\ Cardinality(UnderWay) <= NumWorkers /\ NumWorkers \in Nat
      /\ InPlace \subseteq valid .. next - 1
      /\ cursor + Cardinality(InPlace) <= next /\ Cardinality(InPlace) \in Nat
      /\ cursor \in Nat /\ next \in Nat /\ next <= chunks /\ chunks \in Nat /\ valid \in Nat
  BY Numbers, Finite DEF IInv, Counted
<1>3. TypeOK
  <2>1. Range(reqs) \subseteq Requests /\ Range(resps) \subseteq Responses
    BY RangeOfSeq DEF IInv, Types, Range
  <2>2. cursor \in 0 .. chunks
    BY <1>2
  <2>3. next \in 0 .. chunks
    BY <1>2
  <2>4. \A r \in Range(reqs) : r.chunk \in Chunks /\ r.peer \in Peers \cup {NoPeer}
    BY <2>1 DEF Requests
  <2> QED
    BY <2>1, <2>2, <2>3, <2>4 DEF TypeOK, IInv, Types, Calls, Responses, Entries, Slots
<1>4. ChannelRoom
  BY <1>1, <1>2 DEF ChannelRoom
<1>5. EachChunkOnce
  BY <1>1, <1>2 DEF EachChunkOnce
<1>6. GivenUpLast
  BY DEF IInv, FailedOnly, GivenUpLast
<1>7. ASSUME pc = "done" PROVE reqs = <<>> /\ working = {} /\ resps = <<>>
  <2>1. valid = chunks
    BY <1>7 DEF IInv
  <2>2. InPlace = {}
    <3>1. \A c \in valid .. next - 1 : FALSE
      BY <1>2, <2>1
    <3> QED
      BY <1>2, <3>1
  <2>3. ChunksOf(reqs) = {} /\ Worked = {} /\ ChunksOf(resps) = {}
    BY <2>2 DEF InPlace, UnderWay
  <2>4. working = {}
    BY <2>3 DEF Worked
  <2>5. reqs \in Seq(Requests) /\ resps \in Seq(Responses)
    BY DEF IInv, Types
  <2>6. Len(reqs) = 0 /\ Len(resps) = 0
    <3>1. Len(reqs) # 0 => 1 \in 1 .. Len(reqs)
      BY <1>1
    <3>2. Len(resps) # 0 => 1 \in 1 .. Len(resps)
      BY <1>1
    <3> QED
      BY <2>3, <3>1, <3>2 DEF ChunksOf
  <2> QED
    BY <2>4, <2>5, <2>6, EmptySeq
<1> QED
  BY <1>3, <1>4, <1>5, <1>6, <1>7 DEF DownloadInv, NothingLeft

\* The inductive invariant holds after any answers, failures and retries.
THEOREM DownloadInductive == Spec => []IInv
BY InitInv, NextInv, PTL DEF Spec

\* getBlocksForChain: no chunk is requested while it is in some place already, or
\* is in the chain; no send on reqChan or respChan, made for one message per worker,
\* finds it full; the download is given up only when every peer has failed; and
\* when it has succeeded, nothing of it is left in the channels, which are used again.
THEOREM DownloadSafe == Spec => []DownloadInv
<1>1. IInv => DownloadInv
  BY InvDownload
<1> QED
  BY <1>1, DownloadInductive, PTL

-----------------------------------------------------------------------------
(* While the peers send what they were asked for.                          *)

LEMMA FirstFacts ==
  ASSUME IInv
  PROVE  First \in Nat /\ First <= NumWorkers /\ (UNCHANGED chunks => First' = First)
BY Numbers DEF First

LEMMA WholeInit == ASSUME Init PROVE WholeInv
<1>1. /\ pc = "loop" /\ working = {} /\ resps = <<>> /\ buf = [i \in 0 .. BufLen - 1 |-> Nil]
      /\ cursor = 0 /\ valid = 0 /\ next = First
  BY DEF Init, First
<1>2. /\ next \in Nat /\ Len(reqs) = next /\ \A i \in 1 .. next : reqs[i].chunk = i - 1
      /\ ChunksOf(reqs) = 0 .. next - 1
  BY FirstRequests
<1>3. Filled(buf) = {} /\ Len(resps) = 0
  BY <1>1 DEF Filled, Slots
<1>4. \A i \in 1 .. Len(reqs) : reqs[i].chunk < First
  BY <1>1, <1>2
<1>5. valid .. next - 1 \subseteq InPlace
  BY <1>1, <1>2 DEF InPlace, UnderWay
<1>6. \A i \in 1 .. Len(resps) : FALSE
  BY <1>3
<1>7. pc # "refused" /\ cursor = valid /\ \A w \in working : FALSE
  BY <1>1
<1>8. \A k \in Filled(buf) : FALSE
  BY <1>3
<1> QED
  BY <1>4, <1>5, <1>6, <1>7, <1>8 DEF WholeInv

LEMMA WholeTake == ASSUME IInv, WholeInv, TakeRequest PROVE WholeInv'
<1> DEFINE r == Head(reqs)
           w == Resp(r, "waiting")
<1>1. /\ reqs # <<>> /\ reqs' = Tail(reqs)
      /\ UNCHANGED <<chunks, next, resps, buf, cursor, valid>>
      /\ \/ r.peer = NoPeer /\ pc' = "panic" /\ working' = working
         \/ r.peer # NoPeer /\ working' = working \cup {w} /\ pc' = pc
  BY DEF TakeRequest
<1>2. /\ r = reqs[1] /\ Len(reqs) \in Nat \ {0} /\ Len(reqs') = Len(reqs) - 1
      /\ ChunksOf(reqs') = ChunksOf(reqs) \ {r.chunk}
      /\ \A i \in 1 .. Len(reqs) - 1 : reqs'[i] = reqs[i + 1]
  BY <1>1, TailChunks DEF IInv, Types, Apart
<1>3. w.chunk = r.chunk
  BY DEF Resp
<1> HIDE DEF r, w
<1>4. First' = First
  BY <1>1, FirstFacts
<1>5. r.peer # NoPeer => r.chunk < First
  <2>1. 1 \in 1 .. Len(reqs) /\ \A i \in 1 .. Len(reqs) : reqs[i].peer # NoPeer => reqs[i].chunk < First
    BY <1>2 DEF WholeInv
  <2> QED
    BY <1>2, <2>1
<1>6. ASSUME NEW i \in 1 .. Len(reqs'), reqs'[i].peer # NoPeer PROVE reqs'[i].chunk < First
  <2>1. i + 1 \in 1 .. Len(reqs) /\ reqs'[i] = reqs[i + 1]
    BY <1>2
  <2> QED
    BY <1>6, <2>1 DEF WholeInv
<1>7. \A x \in working' : x.chunk < First
  BY <1>1, <1>3, <1>5 DEF WholeInv
<1>8. ASSUME pc' = "loop" PROVE valid' .. next' - 1 \subseteq InPlace'
  <2>1. r.peer # NoPeer /\ working' = working \cup {w} /\ pc = "loop"
    BY <1>1, <1>8
  <2>2. Worked' = Worked \cup {r.chunk}
    BY <1>3, <2>1, WorkedFacts DEF Worked
  <2>3. InPlace \subseteq InPlace'
    BY <1>1, <1>2, <2>2 DEF InPlace, UnderWay
  <2> QED
    BY <1>1, <2>1, <2>3 DEF WholeInv
<1> QED
  BY <1>1, <1>4, <1>6, <1>7, <1>8 DEF WholeInv

\* The calls go on, or end, for the same chunks.
LEMMA WholeCalls ==
  ASSUME IInv, WholeInv, Worked' = Worked,
         UNCHANGED <<chunks, pc, next, reqs, resps, buf, cursor, valid>>
  PROVE  WholeInv'
<1>1. First' = First
  BY FirstFacts
<1>2. InPlace' = InPlace
  BY DEF InPlace, UnderWay
<1>3. ASSUME NEW w \in working' PROVE w.chunk < First
  <2>1. w.chunk \in Worked'
    BY DEF Worked
  <2>2. PICK v \in working : v.chunk = w.chunk
    BY <2>1 DEF Worked
  <2> QED
    BY <2>2 DEF WholeInv
<1> QED
  BY <1>1, <1>2, <1>3 DEF WholeInv

LEMMA WholeRespond == ASSUME IInv, WholeInv, Whole, NEW w \in working, Respond(w) PROVE WholeInv'
<1>1. /\ w.got # "waiting" /\ resps' = Append(resps, w) /\ working' = working \ {w}
      /\ UNCHANGED <<chunks, pc, next, reqs, buf, cursor, valid>>
  BY DEF Respond
<1>2. w.chunk < First /\ w.got \in {"full", "error"}
  BY <1>1 DEF WholeInv, Whole
<1>3. w \in Responses /\ resps \in Seq(Responses) /\ Len(resps) \in Nat
  BY <1>1, LenProperties DEF IInv, Types, Calls, Responses
<1>4. /\ Len(resps') = Len(resps) + 1 /\ ChunksOf(resps') = ChunksOf(resps) \cup {w.chunk}
      /\ \A i \in 1 .. Len(resps) + 1 : resps'[i] = IF i <= Len(resps) THEN resps[i] ELSE w
  BY <1>1, <1>3, AppendChunks
<1>5. First' = First
  BY <1>1, FirstFacts
<1>6. ASSUME NEW i \in 1 .. Len(resps') PROVE resps'[i].chunk < First /\ resps'[i].got \in {"full", "error"}
  <2>1. (i \in 1 .. Len(resps) /\ resps'[i] = resps[i]) \/ resps'[i] = w
    BY <1>3, <1>4
  <2> QED
    BY <1>2, <2>1 DEF WholeInv
<1>7. InPlace \subseteq InPlace'
  <2>1. \A x, y \in working : x.chunk = y.chunk => x = y
    BY DEF IInv, Apart
  <2>2. Worked' = Worked \ {w.chunk}
    BY <1>1, <2>1, WorkedFacts DEF Worked
  <2> QED
    BY <1>1, <1>4, <2>2 DEF InPlace, UnderWay
<1> QED
  BY <1>1, <1>5, <1>6, <1>7 DEF WholeInv

\* The responses that are left.
LEMMA WholeTail ==
  ASSUME IInv, WholeInv, resps # <<>>
  PROVE  /\ Head(resps).chunk < First /\ Head(resps).got \in {"full", "error"}
         /\ \A i \in 1 .. Len(Tail(resps)) :
              Tail(resps)[i].chunk < First /\ Tail(resps)[i].got \in {"full", "error"}
<1>1. /\ Head(resps) = resps[1] /\ Len(resps) \in Nat \ {0} /\ Len(Tail(resps)) = Len(resps) - 1
      /\ \A i \in 1 .. Len(resps) - 1 : Tail(resps)[i] = resps[i + 1]
  BY Received
<1>2. \A i \in 1 .. Len(resps) : resps[i].chunk < First /\ resps[i].got \in {"full", "error"}
  BY DEF WholeInv
<1>3. 1 \in 1 .. Len(resps)
  BY <1>1
<1>4. \A i \in 1 .. Len(resps) - 1 : i + 1 \in 1 .. Len(resps)
  BY <1>1
<1> QED
  BY <1>1, <1>2, <1>3, <1>4

LEMMA WholeRetry == ASSUME IInv, WholeInv, Retry PROVE WholeInv'
<1> DEFINE r == Head(resps)
<1>1. /\ pc = "loop" /\ resps # <<>> /\ resps' = Tail(resps)
      /\ UNCHANGED <<chunks, next, working, buf, cursor, valid>>
      /\ \/ pc' = "no peers left" /\ reqs' = reqs
         \/ pc' = pc /\ \E p \in Peers : reqs' = Append(reqs, Req(r.chunk, p))
  BY DEF Retry, LeftAfter, Retried, IInv, Types
<1>2. /\ r.chunk < First
      /\ \A i \in 1 .. Len(resps') : resps'[i].chunk < First /\ resps'[i].got \in {"full", "error"}
  BY <1>1, WholeTail
<1>3. r \in Responses /\ ChunksOf(resps') = ChunksOf(resps) \ {r.chunk}
  BY <1>1, Received
<1> HIDE DEF r
<1>4. First' = First /\ Worked' = Worked
  BY <1>1, FirstFacts DEF Worked
<1>5. /\ \A i \in 1 .. Len(reqs') : reqs'[i].peer # NoPeer => reqs'[i].chunk < First
      /\ pc' = "loop" => ChunksOf(reqs') = ChunksOf(reqs) \cup {r.chunk}
  <2>1. CASE pc' = "no peers left" /\ reqs' = reqs
    BY <2>1 DEF WholeInv
  <2>2. ASSUME NEW p \in Peers, reqs' = Append(reqs, Req(r.chunk, p))
        PROVE  /\ \A i \in 1 .. Len(reqs') : reqs'[i].peer # NoPeer => reqs'[i].chunk < First
               /\ ChunksOf(reqs') = ChunksOf(reqs) \cup {r.chunk}
    <3> DEFINE q == Req(r.chunk, p)
    <3>1. q \in Requests /\ q.chunk = r.chunk
      BY <1>3 DEF Req, Requests, Responses
    <3> HIDE DEF q
    <3>2. reqs' = Append(reqs, q) /\ reqs \in Seq(Requests) /\ Len(reqs) \in Nat
      BY <2>2, LenProperties DEF q, IInv, Types
    <3>3. /\ Len(reqs') = Len(reqs) + 1 /\ ChunksOf(reqs') = ChunksOf(reqs) \cup {q.chunk}
          /\ \A i \in 1 .. Len(reqs) + 1 : reqs'[i] = IF i <= Len(reqs) THEN reqs[i] ELSE q
      BY <3>1, <3>2, AppendChunks
    <3>4. ASSUME NEW i \in 1 .. Len(reqs'), reqs'[i].peer # NoPeer PROVE reqs'[i].chunk < First
      <4>1. (i \in 1 .. Len(reqs) /\ reqs'[i] = reqs[i]) \/ reqs'[i] = q
        BY <3>2, <3>3
      <4> QED
        BY <1>2, <3>1, <3>4, <4>1 DEF WholeInv
    <3> QED
      BY <3>1, <3>3, <3>4
  <2> QED
    BY <1>1, <2>1, <2>2
<1>6. pc' = "loop" => InPlace \subseteq InPlace'
  BY <1>1, <1>3, <1>4, <1>5 DEF InPlace, UnderWay
<1> QED
  BY <1>1, <1>2, <1>4, <1>5, <1>6 DEF WholeInv

\* The blocks drained are whole chunks that follow the valid ones.
LEMMA WholeDrain ==
  ASSUME IInv, WholeInv, NumWorkers <= BufLen,
         NEW r, NEW stored, NEW slots, NEW rest, Storing(r, stored, slots, rest),
         NEW sc, sc = Added([i \in DOMAIN slots |-> stored[slots[i]]])
  PROVE  /\ sc.valid = valid + Len(slots) /\ sc.ok /\ Len(slots) \in Nat
         /\ \A k \in Filled(rest) : rest[k].chunk = k /\ rest[k].got = "full"
         /\ \A c \in StoredIn(buf) \cup {r.chunk} :
              c \in StoredIn(rest) \/ c \in valid .. valid + Len(slots) - 1
<1> DEFINE num   == Len(slots)
           added == [i \in DOMAIN slots |-> stored[slots[i]]]
<1>1. r.chunk < First /\ r.got = "full" /\ r.chunk \in Nat /\ r \in Responses
  <2>1. r \in Responses /\ r.chunk < First /\ r.got = "full"
    BY Received, WholeTail DEF Storing
  <2> QED
    BY <2>1, Numbers DEF Responses, Chunks
<1>2. /\ First \in Nat /\ First <= BufLen /\ BufLen \in Nat \ {0} /\ NumWorkers \in Nat
      /\ valid \in Nat /\ cursor = valid
  BY FirstFacts, Numbers DEF WholeInv
<1>3. r.chunk % BufLen = r.chunk /\ r.chunk \in Slots
  <2>1. r.chunk < BufLen
    BY <1>1, <1>2
  <2> QED
    BY <1>1, <2>1, SlotOf
<1>4. buf \in [Slots -> Entries \cup {Nil}] /\ \A k \in Filled(buf) : buf[k].chunk = k /\ buf[k].got = "full"
  BY DEF IInv, Types, WholeInv
<1>5. stored = [buf EXCEPT ![r.chunk] = r] /\ r # Nil
  <2>1. Nil.got = "nil"
    BY DEF Nil
  <2> QED
    BY <1>1, <1>3, <2>1 DEF Storing
<1>6. Filled(stored) = Filled(buf) \cup {r.chunk}
      /\ \A k \in Filled(stored) : stored[k] = IF k = r.chunk THEN r ELSE buf[k]
  BY <1>3, <1>4, <1>5 DEF Filled
<1>7. \A k \in Filled(stored) : stored[k].chunk = k /\ stored[k].got = "full"
  BY <1>1, <1>4, <1>6
<1>8. Slotted(r, stored, slots, rest)
  BY StoredFacts
<1>9. /\ num \in 0 .. BufLen /\ num \in Nat /\ DOMAIN slots = 1 .. num
      /\ \A i \in 1 .. num : slots[i] = (cursor + i - 1) % BufLen /\ slots[i] \in Filled(stored)
      /\ StoredIn(stored) \subseteq StoredIn(buf) \cup {r.chunk}
      /\ StoredIn(rest) = StoredIn(stored) \ {stored[slots[i]].chunk : i \in 1 .. num}
      /\ rest \in [Slots -> Entries \cup {Nil}]
  BY <1>8 DEF Slotted
<1> HIDE DEF num
<1>10. StoredIn(stored) \subseteq valid .. next - 1
  <2>1. r.chunk \in ChunksOf(resps)
    BY Received DEF Storing
  <2>2. StoredIn(buf) \cup {r.chunk} \subseteq InPlace
    BY <2>1 DEF InPlace, UnderWay
  <2> QED
    BY <1>9, <2>2 DEF IInv, Counted
<1>11. ASSUME NEW i \in 1 .. num PROVE slots[i] = valid + i - 1
  <2> DEFINE c == slots[i]
             n == valid + i - 1
  <2>1. c \in Filled(stored) /\ stored[c].chunk = c /\ c = n % BufLen /\ n \in Nat
    BY <1>2, <1>7, <1>9
  <2>2. c \in valid .. next - 1 /\ next \in Nat /\ c \in Slots
    <3>1. c \in StoredIn(stored)
      BY <2>1 DEF StoredIn
    <3> HIDE DEF c
    <3> QED
      BY <1>10, <2>1, <3>1, Numbers DEF Filled
  <2>3. i \in Nat /\ i <= BufLen /\ n = valid + i - 1
    BY <1>2, <1>9
  <2> SUFFICES c = n
    OBVIOUS
  <2> HIDE DEF c, n
  <2>4. c \in Nat /\ valid <= c /\ c < BufLen
    BY <1>2, <2>2 DEF Slots
  <2>5. CASE c < n
    <3>1. n - c < BufLen
      BY <1>2, <2>1, <2>3, <2>4
    <3>2. c % BufLen # n % BufLen /\ c % BufLen = c
      BY <2>1, <2>4, <2>5, <3>1, SlotsDiffer, SlotOf
    <3> QED
      BY <2>1, <3>2
  <2>6. CASE n < c
    <3>1. n < BufLen
      BY <1>2, <2>1, <2>4, <2>6
    <3>2. n % BufLen = n
      BY <2>1, <3>1, SlotOf
    <3> QED
      BY <2>1, <2>4, <2>6, <3>2
  <2> QED
    BY <2>1, <2>4, <2>5, <2>6
<1>12. DOMAIN added = 1 .. num /\ \A i \in 1 .. num : added[i].got = "full" /\ added[i].chunk = valid + i - 1
  <2>1. DOMAIN added = 1 .. num /\ \A i \in 1 .. num : added[i] = stored[slots[i]]
    BY <1>9
  <2>2. ASSUME NEW i \in 1 .. num
        PROVE  stored[slots[i]].got = "full" /\ stored[slots[i]].chunk = valid + i - 1
    <3>1. slots[i] \in Filled(stored)
      BY <1>9
    <3>2. stored[slots[i]].got = "full" /\ stored[slots[i]].chunk = slots[i]
      BY <1>7, <3>1
    <3> QED
      BY <1>11, <3>2
  <2> HIDE DEF added
  <2> QED
    BY <2>1, <2>2
<1>13. sc.valid = valid + num /\ sc.ok
  <2>1. sc = Added(added)
    OBVIOUS
  <2> HIDE DEF added
  <2> QED
    BY <1>2, <1>9, <1>12, <2>1, WholeAdded
<1> HIDE DEF added
<1>14. \A k \in Filled(rest) : rest[k].chunk = k /\ rest[k].got = "full"
  <2>1. DOMAIN buf = Slots
    BY <1>4
  <2>2. \A k \in Filled(rest) : k \in Filled(stored) /\ rest[k] = stored[k]
    BY <2>1 DEF Storing, Filled
  <2> QED
    BY <1>7, <2>2
<1>15. ASSUME NEW c \in StoredIn(buf) \cup {r.chunk}, c \notin StoredIn(rest)
       PROVE  c \in valid .. valid + num - 1
  <2>1. c \in StoredIn(stored)
    <3>1. r.chunk \in StoredIn(stored)
      BY <1>6 DEF StoredIn
    <3>2. \A k \in Filled(buf) : k \in Filled(stored) /\ stored[k].chunk = k /\ buf[k].chunk = k
      BY <1>4, <1>6, <1>7
    <3> QED
      BY <3>1, <3>2 DEF StoredIn
  <2>2. PICK i \in 1 .. num : c = stored[slots[i]].chunk
    BY <1>9, <1>15, <2>1
  <2>3. c = valid + i - 1
    BY <1>7, <1>9, <1>11, <2>2
  <2>4. valid \in Nat /\ num \in Nat
    BY <1>2, <1>9
  <2> QED
    BY <2>3, <2>4
<1> QED
  BY <1>9, <1>13, <1>14, <1>15 DEF num

LEMMA WholeStore == ASSUME IInv, WholeInv, NumWorkers <= BufLen, Store PROVE WholeInv'
<1> DEFINE r      == Head(resps)
           stored == [buf EXCEPT ![r.chunk % BufLen] = IF r.got = "nil" THEN Nil ELSE r]
           slots  == Drained(stored)
           rest   == [k \in DOMAIN buf |-> IF k \in Range(slots) THEN Nil ELSE stored[k]]
           sc     == Added([i \in DOMAIN slots |-> stored[slots[i]]])
<1>1. /\ pc = "loop" /\ resps # <<>> /\ resps' = Tail(resps) /\ UNCHANGED <<chunks, working>>
      /\ buf' = rest /\ cursor' = cursor + Len(slots) /\ valid' = sc.valid
      /\ sc.ok => pc' # "refused"
      /\ \/ next' = next /\ reqs' = reqs
         \/ next < chunks /\ reqs' = Append(reqs, Req(next, NoPeer)) /\ next' = next + 1
  BY DEF Store
<1>2. Storing(r, stored, slots, rest)
  BY DEF Store, Storing
<1> HIDE DEF r, stored, slots, rest
<1>3. /\ sc.valid = valid + Len(slots) /\ sc.ok /\ Len(slots) \in Nat
      /\ \A k \in Filled(rest) : rest[k].chunk = k /\ rest[k].got = "full"
      /\ \A c \in StoredIn(buf) \cup {r.chunk} :
           c \in StoredIn(rest) \/ c \in valid .. valid + Len(slots) - 1
  BY <1>2, WholeDrain
<1> HIDE DEF sc
<1>4. /\ \A i \in 1 .. Len(resps') : resps'[i].chunk < First /\ resps'[i].got \in {"full", "error"}
      /\ ChunksOf(resps') = ChunksOf(resps) \ {r.chunk}
  BY <1>1, WholeTail, Received DEF r
<1>5. First' = First /\ Worked' = Worked /\ valid \in Nat /\ next \in Nat /\ cursor = valid
  BY <1>1, FirstFacts, Numbers DEF Worked, WholeInv
<1>6. /\ \A i \in 1 .. Len(reqs') : reqs'[i].peer # NoPeer => reqs'[i].chunk < First
      /\ \/ next' = next /\ ChunksOf(reqs') = ChunksOf(reqs)
         \/ next' = next + 1 /\ ChunksOf(reqs') = ChunksOf(reqs) \cup {next}
  <2>1. CASE next' = next /\ reqs' = reqs
    BY <2>1 DEF WholeInv
  <2>2. CASE next < chunks /\ reqs' = Append(reqs, Req(next, NoPeer)) /\ next' = next + 1
    <3> DEFINE q == Req(next, NoPeer)
    <3>1. q \in Requests /\ q.chunk = next /\ q.peer = NoPeer
      BY <2>2, Numbers DEF Req, Requests, Chunks
    <3>2. reqs \in Seq(Requests) /\ Len(reqs) \in Nat
      BY LenProperties DEF IInv, Types
    <3>3. reqs' = Append(reqs, q)
      BY <2>2
    <3> HIDE DEF q
    <3>4. /\ Len(reqs') = Len(reqs) + 1 /\ ChunksOf(reqs') = ChunksOf(reqs) \cup {q.chunk}
          /\ \A i \in 1 .. Len(reqs) + 1 : reqs'[i] = IF i <= Len(reqs) THEN reqs[i] ELSE q
      BY <3>1, <3>2, <3>3, AppendChunks
    <3>5. ASSUME NEW i \in 1 .. Len(reqs'), reqs'[i].peer # NoPeer PROVE reqs'[i].chunk < First
      <4>1. (i \in 1 .. Len(reqs) /\ reqs'[i] = reqs[i]) \/ reqs'[i] = q
        BY <3>2, <3>4
      <4> QED
        BY <3>1, <3>5, <4>1 DEF WholeInv
    <3> QED
      BY <2>2, <3>1, <3>4, <3>5
  <2> QED
    BY <1>1, <2>1, <2>2
<1>7. ASSUME NEW c \in valid' .. next' - 1 PROVE c \in InPlace'
  <2>1. CASE c \in valid .. next - 1
    <3>1. c \in InPlace
      BY <1>1, <2>1 DEF WholeInv
    <3>2. c \notin valid .. valid + Len(slots) - 1
      BY <1>1, <1>3, <1>5
    <3>3. c \in ChunksOf(reqs) \cup Worked \cup ChunksOf(resps') \cup StoredIn(rest)
      BY <1>3, <1>4, <3>1, <3>2 DEF InPlace, UnderWay
    <3> QED
      BY <1>1, <1>5, <1>6, <3>3 DEF InPlace, UnderWay
  <2>2. CASE c \notin valid .. next - 1
    <3>1. c = next /\ next' = next + 1
      BY <1>1, <1>3, <1>5, <1>6, <2>2
    <3> QED
      BY <1>5, <1>6, <3>1 DEF InPlace, UnderWay
  <2> QED
    BY <2>1, <2>2
<1>8. \A w \in working' : w.chunk < First
  BY <1>1 DEF WholeInv
<1> QED
  BY <1>1, <1>3, <1>4, <1>5, <1>6, <1>7, <1>8 DEF WholeInv

LEMMA WholeNext ==
  ASSUME IInv, WholeInv, Whole, NumWorkers <= BufLen, [Next]_vars
  PROVE  WholeInv'
<1>1. CASE TakeRequest
  BY <1>1, WholeTake
<1>2. CASE Retry
  BY <1>2, WholeRetry
<1>3. CASE Store
  BY <1>3, WholeStore
<1>4. ASSUME NEW w \in working, Answer(w) PROVE WholeInv'
  <2>1. UNCHANGED <<chunks, pc, next, reqs, resps, buf, cursor, valid>>
    BY <1>4 DEF Answer
  <2>2. PICK got \in Answers : working' = (working \ {w}) \cup {Resp(w, got)}
    BY <1>4 DEF Answer
  <2> DEFINE v == Resp(w, got)
  <2>3. v.chunk = w.chunk
    BY DEF Resp
  <2>4. working' = (working \ {w}) \cup {v}
    BY <2>2
  <2> HIDE DEF v
  <2>5. Worked' = Worked
    BY <2>3, <2>4 DEF Worked
  <2> QED
    BY <2>1, <2>5, WholeCalls
<1>5. ASSUME NEW p \in Peers, PeerFails(p) PROVE WholeInv'
  <2>1. UNCHANGED <<chunks, pc, next, reqs, resps, buf, cursor, valid>>
    BY <1>5 DEF PeerFails
  <2>2. PICK wrong : working' = (working \ Calling(p))
                       \cup {Resp(w, IF w \in wrong THEN "nil" ELSE "error") : w \in Calling(p)}
    BY <1>5 DEF PeerFails
  <2> DEFINE ended(w) == Resp(w, IF w \in wrong THEN "nil" ELSE "error")
  <2>3. \A w \in Calling(p) : ended(w).chunk = w.chunk
    BY DEF Resp
  <2>4. Calling(p) \subseteq working
    BY DEF Calling
  <2>5. working' = (working \ Calling(p)) \cup {ended(w) : w \in Calling(p)}
    BY <2>2
  <2> HIDE DEF ended
  <2>6. Worked' = Worked
    BY <2>3, <2>4, <2>5 DEF Worked
  <2> QED
    BY <2>1, <2>6, WholeCalls
<1>6. ASSUME NEW w \in working, Respond(w) PROVE WholeInv'
  BY <1>6, WholeRespond
<1>7. CASE UNCHANGED vars
  <2>1. Worked' = Worked /\ UNCHANGED <<chunks, pc, next, reqs, resps, buf, cursor, valid>>
    BY <1>7 DEF vars, Worked
  <2> QED
    BY <2>1, WholeCalls
<1> QED
  BY <1>1, <1>2, <1>3, <1>4, <1>5, <1>6, <1>7 DEF Next

\* While every call is answered with all of the blocks, or fails with its peer, no
\* chunk that was requested and is not in the chain is lost, and AddBlocks accepts
\* every one: the circular buffer (of 8) is not smaller than the number of workers
\* (8), so that two chunks under way never share a slot.
THEOREM NoChunkLost == ASSUME NumWorkers <= BufLen PROVE Spec => NoneLost
<1>1. Init => WholeInv
  BY WholeInit
<1>2. IInv /\ WholeInv /\ Whole /\ [Next]_vars => WholeInv'
  BY WholeNext
<1>3. IInv /\ WholeInv => (pc = "loop" => valid .. next - 1 \subseteq Places) /\ pc # "refused"
  BY PlacesCard DEF WholeInv
<1> QED
  BY <1>1, <1>2, <1>3, DownloadInductive, PTL DEF Spec, NoneLost
=============================================================================
