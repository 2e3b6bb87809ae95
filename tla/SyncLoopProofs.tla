---------------------------- MODULE SyncLoopProofs ----------------------------
(***************************************************************************)
(* Each node is at most once among the peers, and each peer without an     *)
(* error is among them, while peers are added to and removed from a slice  *)
(* over which syncLoop ranges: for any number of connections, whatever     *)
(* nodes they are to, and any size of the slice.                           *)
(***************************************************************************)
EXTENDS SyncLoop, SequenceTheorems, WellFoundedInduction, TLAPS

-----------------------------------------------------------------------------
(* What removeDisconnected leaves.                                         *)

\* Induction, as a fact about a set.
LEMMA EachNat ==
  ASSUME NEW T, 0 \in T, \A n \in Nat : n \in T => n + 1 \in T
  PROVE  Nat \subseteq T
<1> DEFINE Less == OpToRel(<, Nat)
           S == Nat \ T
<1>1. SUFFICES ASSUME S # {} PROVE FALSE
  OBVIOUS
<1>2. PICK n \in S : \A k \in S : ~(<<k, n>> \in Less)
  <2>1. IsWellFoundedOn(Less, Nat)
    BY NatLessThanWellFounded
  <2> HIDE DEF Less
  <2> QED
    BY <1>1, <2>1, WFMin
<1>3. \A k \in Nat : k < n => <<k, n>> \in Less
  BY DEF OpToRel
<1>4. n - 1 \in Nat /\ n - 1 < n /\ n = (n - 1) + 1
  <2>1. n # 0
    OBVIOUS
  <2> QED
    BY <2>1
<1> HIDE DEF Less
<1>5. n - 1 \in T
  BY <1>2, <1>3, <1>4
<1> QED
  BY <1>4, <1>5

\* One round of the loop, and what it has kept after n of them.
Round(p, s, n, errs) == IF s[n] \in errs THEN p ELSE Append(p, s[n])

Distinct(s, k) == \A i, j \in 1 .. Len(s) : i # j => k[s[i]] # k[s[j]]

Kept(p, s, n, errs, k) ==
  /\ p \in Seq(Conns) /\ Len(p) <= n
  /\ \A i \in 1 .. Len(p) : \E j \in 1 .. n : p[i] = s[j]
  /\ \A j \in 1 .. n : s[j] \notin errs => \E i \in 1 .. Len(p) : p[i] = s[j]
  /\ Distinct(s, k) => Distinct(p, k)

LEMMA RoundKeeps ==
  ASSUME NEW s \in Seq(Conns), NEW errs, NEW k, NEW n \in Nat, n + 1 <= Len(s),
         NEW p, Kept(p, s, n, errs, k)
  PROVE  Kept(Round(p, s, n + 1, errs), s, n + 1, errs, k)
<1> DEFINE c == s[n + 1]
           q == Append(p, c)
<1>1. p \in Seq(Conns) /\ Len(p) \in Nat /\ Len(p) <= n /\ Len(s) \in Nat
  BY LenProperties DEF Kept
<1>2. \A i \in 1 .. Len(p) : \E j \in 1 .. n : p[i] = s[j]
  BY DEF Kept
<1>3. \A j \in 1 .. n : s[j] \notin errs => \E i \in 1 .. Len(p) : p[i] = s[j]
  BY DEF Kept
<1>4. 1 .. n + 1 = 1 .. n \cup {n + 1} /\ n + 1 \notin 1 .. n /\ n + 1 \in 1 .. Len(s)
  BY <1>1
<1>5. CASE c \in errs
  <2>1. Round(p, s, n + 1, errs) = p
    BY <1>5 DEF Round
  <2>2. Len(p) <= n + 1
    BY <1>1
  <2>3. \A i \in 1 .. Len(p) : \E j \in 1 .. n + 1 : p[i] = s[j]
    BY <1>2, <1>4
  <2>4. \A j \in 1 .. n + 1 : s[j] \notin errs => \E i \in 1 .. Len(p) : p[i] = s[j]
    BY <1>3, <1>4, <1>5
  <2> QED
    BY <1>1, <2>1, <2>2, <2>3, <2>4 DEF Kept
<1>6. CASE c \notin errs
  <2>1. Round(p, s, n + 1, errs) = q
    BY <1>6 DEF Round
  <2>2. c \in Conns
    BY <1>4, ElementOfSeq
  <2>3. /\ q \in Seq(Conns) /\ Len(q) = Len(p) + 1 /\ q[Len(p) + 1] = c
        /\ \A i \in 1 .. Len(p) : q[i] = p[i]
    BY <1>1, <2>2
  <2> HIDE DEF q, c
  <2>4. 1 .. Len(q) = 1 .. Len(p) \cup {Len(p) + 1} /\ Len(q) <= n + 1
    BY <1>1, <2>3
  <2>5. \A i \in 1 .. Len(q) : \E j \in 1 .. n + 1 : q[i] = s[j]
    BY <1>2, <1>4, <2>3, <2>4 DEF c
  <2>6. \A j \in 1 .. n + 1 : s[j] \notin errs => \E i \in 1 .. Len(q) : q[i] = s[j]
    BY <1>3, <1>4, <2>3, <2>4 DEF c
  <2>7. Distinct(s, k) => Distinct(q, k)
    <3>1. SUFFICES ASSUME Distinct(s, k), NEW i \in 1 .. Len(q), NEW j \in 1 .. Len(q), i # j
                   PROVE  k[q[i]] # k[q[j]]
      BY DEF Distinct
    <3>2. Distinct(p, k)
      BY <3>1 DEF Kept
    <3>3. \A l \in 1 .. Len(p) : k[q[l]] # k[c]
      <4>1. TAKE l \in 1 .. Len(p)
      <4>2. PICK m \in 1 .. n : p[l] = s[m]
        BY <1>2
      <4>3. m \in 1 .. Len(s) /\ m # n + 1
        BY <1>1, <1>4
      <4> QED
        BY <1>4, <2>3, <3>1, <4>2, <4>3 DEF Distinct, c
    <3> QED
      BY <2>3, <2>4, <3>1, <3>2, <3>3 DEF Distinct
  <2> QED
    BY <2>1, <2>3, <2>4, <2>5, <2>6, <2>7 DEF Kept
<1> QED
  BY <1>5, <1>6

\* The function that follows the loop is there, and ends with what is kept.
LEMMA RemainingKept ==
  ASSUME NEW s \in Seq(Conns), NEW errs, NEW k
  PROVE  Kept(Remaining(s, errs), s, Len(s), errs, k)
<1> DEFINE L == Len(s)
           Loop(f, n) == f = [m \in 0 .. n |-> IF m = 0 THEN <<>> ELSE Round(f[m - 1], s, m, errs)]
           rem == CHOOSE f : Loop(f, L)
<1>1. Remaining(s, errs) = rem[L]
  BY DEF Remaining, Round
<1>2. L \in Nat
  BY LenProperties
<1> HIDE DEF L
<1>3. \E f : Loop(f, L)
  <2> DEFINE T == {n \in Nat : \E f : Loop(f, n)}
  <2>1. 0 \in T
    <3> DEFINE f == [m \in 0 .. 0 |-> <<>>]
    <3>1. f = [m \in 0 .. 0 |-> IF m = 0 THEN <<>> ELSE Round(f[m - 1], s, m, errs)]
      <4>1. \A m \in 0 .. 0 : m = 0
        OBVIOUS
      <4> QED
        BY <4>1
    <3> QED
      BY <3>1
  <2>2. ASSUME NEW n \in Nat, n \in T PROVE n + 1 \in T
    <3>1. PICK f : Loop(f, n)
      BY <2>2
    <3> DEFINE g == [m \in 0 .. n + 1 |-> IF m = n + 1 THEN Round(f[n], s, n + 1, errs) ELSE f[m]]
    <3>2. \A m \in 0 .. n : f[m] = IF m = 0 THEN <<>> ELSE Round(f[m - 1], s, m, errs)
      BY <3>1
    <3>3. \A m \in 0 .. n : g[m] = f[m]
      OBVIOUS
    <3>4. g[n + 1] = Round(f[n], s, n + 1, errs)
      OBVIOUS
    <3>5. g = [m \in 0 .. n + 1 |-> g[m]]
      OBVIOUS
    <3> HIDE DEF g
    <3>6. ASSUME NEW m \in 0 .. n + 1
          PROVE  g[m] = IF m = 0 THEN <<>> ELSE Round(g[m - 1], s, m, errs)
      <4>1. CASE m = n + 1
        <5>1. m - 1 = n /\ n \in 0 .. n /\ m # 0
          BY <4>1
        <5> QED
          BY <3>3, <3>4, <4>1, <5>1
      <4>2. CASE m # n + 1
        <5>1. m \in 0 .. n /\ (m # 0 => m - 1 \in 0 .. n)
          BY <4>2
        <5> QED
          BY <3>2, <3>3, <5>1
      <4> QED
        BY <4>1, <4>2
    <3>7. Loop(g, n + 1)
      BY <3>5, <3>6
    <3> HIDE DEF Loop
    <3> QED
      BY <3>7
  <2> HIDE DEF T
  <2>3. Nat \subseteq T
    BY <2>1, <2>2, EachNat
  <2> QED
    BY <1>2, <2>3 DEF T
<1>4. Loop(rem, L)
  BY <1>3
<1> HIDE DEF rem
<1>5. /\ rem[0] = <<>>
      /\ \A m \in 1 .. L : rem[m] = Round(rem[m - 1], s, m, errs)
  <2>1. \A m \in 0 .. L : rem[m] = IF m = 0 THEN <<>> ELSE Round(rem[m - 1], s, m, errs)
    BY <1>4
  <2>2. 0 \in 0 .. L /\ \A m \in 1 .. L : m \in 0 .. L /\ m # 0
    BY <1>2
  <2> QED
    BY <2>1, <2>2
<1> HIDE DEF Loop
<1> DEFINE U == {n \in Nat : n <= L => Kept(rem[n], s, n, errs, k)}
<1>6. 0 \in U
  <2>1. Kept(<<>>, s, 0, errs, k)
    BY DEF Kept, Distinct
  <2> QED
    BY <1>5, <2>1
<1>7. ASSUME NEW n \in Nat, n \in U PROVE n + 1 \in U
  <2>1. SUFFICES ASSUME n + 1 <= L PROVE Kept(rem[n + 1], s, n + 1, errs, k)
    OBVIOUS
  <2>2. Kept(rem[n], s, n, errs, k)
    BY <1>2, <1>7, <2>1
  <2>3. n + 1 \in 1 .. L /\ (n + 1) - 1 = n
    BY <1>2, <2>1
  <2>4. rem[n + 1] = Round(rem[n], s, n + 1, errs)
    BY <1>5, <2>3
  <2> QED
    BY <2>1, <2>2, <2>4, RoundKeeps DEF L
<1> HIDE DEF U
<1>8. Nat \subseteq U
  BY <1>6, <1>7, EachNat
<1>9. Kept(rem[L], s, L, errs, k)
  BY <1>2, <1>8 DEF U
<1> QED
  BY <1>1, <1>9 DEF L

-----------------------------------------------------------------------------
(* The inductive invariant.                                                *)

Cells == Conns \cup {NoConn}

\* The loops and the peers have their types.
RestOK ==
  /\ err \in BOOLEAN /\ key \in Keyings /\ mu \in Loops \cup {"free"}
  /\ accept \in {"accepting", "stopped", "ended"}
  /\ pc \in [Loops -> Places]
  /\ state \in [Conns -> {"dialing", "added", "announced"}]
  /\ failed \subseteq Conns
  /\ in \in [Conns -> 0 .. Queue] /\ tip \in [Conns -> Tips] /\ seen \subseteq Tips
  /\ target \in Cells

\* s.peers is the first part of its array, and has peers only.
PeersOK ==
  /\ array \in Seq(Cells) /\ len \in 0 .. Len(array)
  /\ \A i \in 1 .. len : array[i] \in Conns
  /\ OncePerNode

\* What syncLoop ranges over is a part of its array, which had peers only and has
\* still: those that are removed give way to others, and never to nothing.
Ranging == {"range", "syncing", "synced"}

RangeOK ==
  /\ range \in [old : Seq(Cells), shared : BOOLEAN, len : Nat, at : Nat]
  /\ range.len <= Len(Ranged)
  /\ \A i \in 1 .. range.len : Ranged[i] \in Conns
  /\ pc["sync"] \in Ranging => range.at >= 1

IInv == RestOK /\ PeersOK /\ RangeOK

LEMMA InvIsEnough ==
  ASSUME IInv
  PROVE  SyncInv
<1>1. NoConn \notin Connected
  BY SyncLoopAssumption DEF IInv, PeersOK, Connected
<1> QED
  BY <1>1 DEF IInv, RestOK, PeersOK, RangeOK, SyncInv, TypeOK, Cells

-----------------------------------------------------------------------------
(* The parts of a step.                                                    *)

\* A broadcast wakes no loop that does not wait.
LEMMA Wakes ==
  ASSUME NEW p \in [Loops -> Places]
  PROVE  /\ Woken(p) \in [Loops -> Places]
         /\ Woken(p)["sync"] \in Ranging => p["sync"] \in Ranging
  BY DEF Woken, Loops, Places, Ranging

\* Loops that have moved, one of them as told.
LEMMA Moves ==
  ASSUME RestOK, NEW l \in Loops, NEW x \in Places, NEW p, p = [pc EXCEPT ![l] = x],
         l = "sync" /\ x \in Ranging => pc["sync"] \in Ranging
  PROVE  p \in [Loops -> Places] /\ (p["sync"] \in Ranging => pc["sync"] \in Ranging)
  BY DEF RestOK, Loops

\* setErr disconnects peers, and wakes the loops.
LEMMA ErrIsSet ==
  ASSUME RestOK, PeersOK, NEW p \in [Loops -> Places], SetErr(p)
  PROVE  /\ err' = TRUE /\ failed' \subseteq Conns /\ failed \subseteq failed'
         /\ pc' \in [Loops -> Places]
         /\ pc'["sync"] \in Ranging => p["sync"] \in Ranging
<1>1. Connected \subseteq Conns
  BY DEF PeersOK, Connected
<1>2. failed' \subseteq Conns /\ failed \subseteq failed'
  BY <1>1 DEF SetErr, RestOK
<1> QED
  BY <1>2, Wakes DEF SetErr

\* The same peers, of which some may fail.
LEMMA SamePeers ==
  ASSUME PeersOK, UNCHANGED <<key, array, len>>, failed \subseteq failed',
         \A c \in Conns : state'[c] # "dialing" <=> state[c] # "dialing"
  PROVE  PeersOK'
<1>1. Connected' = Connected
  BY DEF Connected
<1> QED
  BY <1>1 DEF PeersOK, OncePerNode

LEMMA SameRange ==
  ASSUME RangeOK, UNCHANGED <<array, range>>, pc'["sync"] \in Ranging => pc["sync"] \in Ranging
  PROVE  RangeOK'
<1>1. Ranged' = Ranged
  BY DEF Ranged
<1> QED
  BY <1>1 DEF RangeOK

\* Peers that are removed leave the others in front, once each.
LEMMA Removed ==
  ASSUME PeersOK, NEW errs, RemoveDisconnected(errs)
  PROVE  /\ array' \in Seq(Cells) /\ Len(array') = Len(array) /\ len' \in 0 .. len
         /\ \A i \in 1 .. len' : array'[i] \in Conns
         /\ \A i \in 1 .. Len(array) : array'[i] \in Conns \/ array'[i] = array[i]
         /\ \A c \in Connected \ errs : c \in Connected'
         /\ \A i, j \in 1 .. len' : i # j => key[array'[i]] # key[array'[j]]
<1> DEFINE s == SubSeq(array, 1, len)
           kept == Remaining(s, errs)
<1>1. /\ array' = [i \in DOMAIN array |-> IF i <= Len(kept) THEN kept[i] ELSE array[i]]
      /\ len' = Len(kept)
  BY DEF RemoveDisconnected
<1>2. /\ array \in Seq(Cells) /\ Len(array) \in Nat /\ len \in Nat /\ len <= Len(array)
      /\ DOMAIN array = 1 .. Len(array)
      /\ \A i \in 1 .. Len(array) : array[i] \in Cells
      /\ \A i \in 1 .. len : array[i] \in Conns
  BY LenProperties, ElementOfSeq DEF PeersOK
<1>3. s \in Seq(Conns) /\ Len(s) = len /\ \A i \in 1 .. len : s[i] = array[i]
  BY <1>2, SubSeqProperties
<1> HIDE DEF s
<1>4. Kept(kept, s, len, errs, key)
  BY <1>3, RemainingKept
<1> HIDE DEF kept
<1>5. /\ kept \in Seq(Conns) /\ Len(kept) \in Nat /\ Len(kept) <= len
      /\ \A i \in 1 .. Len(kept) : kept[i] \in Conns
  BY <1>4, LenProperties, ElementOfSeq DEF Kept
<1>6. \A i \in 1 .. Len(array) : array'[i] = IF i <= Len(kept) THEN kept[i] ELSE array[i]
  BY <1>1, <1>2
<1>7. \A i \in 1 .. Len(array) : array'[i] \in Cells /\ (array'[i] \in Conns \/ array'[i] = array[i])
  BY <1>2, <1>5, <1>6 DEF Cells
<1>8. array' \in Seq(Cells) /\ Len(array') = Len(array)
  <2>1. array' \in [1 .. Len(array) -> Cells]
    BY <1>1, <1>2, <1>7
  <2> QED
    BY <1>2, <2>1
<1>9. \A i \in 1 .. Len(kept) : i \in 1 .. Len(array) /\ array'[i] = kept[i]
  BY <1>2, <1>5, <1>6
<1>10. \A c \in Connected \ errs : c \in Connected'
  <2>1. TAKE c \in Connected \ errs
  <2>2. PICK j \in 1 .. len : c = s[j]
    BY <1>3 DEF Connected
  <2>3. PICK i \in 1 .. Len(kept) : kept[i] = c
    BY <1>4, <2>1, <2>2 DEF Kept
  <2> QED
    BY <1>1, <1>9, <2>3 DEF Connected
<1>11. \A i, j \in 1 .. len' : i # j => key[array'[i]] # key[array'[j]]
  <2>1. Distinct(s, key)
    BY <1>3 DEF PeersOK, OncePerNode, Distinct
  <2>2. Distinct(kept, key)
    BY <1>4, <2>1 DEF Kept
  <2> QED
    BY <1>1, <1>9, <2>2 DEF Distinct
<1>12. len' \in 0 .. len /\ \A i \in 1 .. len' : array'[i] \in Conns
  BY <1>1, <1>5, <1>9
<1> QED
  BY <1>7, <1>8, <1>10, <1>11, <1>12

LEMMA RemovedPeers ==
  ASSUME PeersOK, NEW errs, RemoveDisconnected(errs), UNCHANGED <<key, state>>,
         errs \subseteq failed', failed \subseteq failed'
  PROVE  PeersOK'
<1>1. len' \in 0 .. Len(array')
  BY Removed, LenProperties DEF PeersOK
<1>2. \A c \in Conns : state[c] # "dialing" /\ c \notin failed' => c \in Connected'
  BY Removed DEF PeersOK, OncePerNode
<1>3. /\ array' \in Seq(Cells) /\ \A i \in 1 .. len' : array'[i] \in Conns
      /\ \A i, j \in 1 .. len' : i # j => key[array'[i]] # key[array'[j]]
  BY Removed
<1> QED
  BY <1>1, <1>2, <1>3 DEF PeersOK, OncePerNode

LEMMA RemovedRange ==
  ASSUME PeersOK, RangeOK, NEW errs, RemoveDisconnected(errs), UNCHANGED range,
         pc'["sync"] \in Ranging => pc["sync"] \in Ranging
  PROVE  RangeOK'
<1>1. /\ Len(array') = Len(array) /\ Len(array) \in Nat
      /\ \A i \in 1 .. Len(array) : array'[i] \in Conns \/ array'[i] = array[i]
  BY Removed, LenProperties DEF PeersOK
<1>2. CASE range.shared
  <2>1. Ranged = array /\ Ranged' = array'
    BY <1>2 DEF Ranged
  <2>2. \A i \in 1 .. range.len : i \in 1 .. Len(array) /\ array[i] \in Conns
    BY <1>1, <2>1 DEF RangeOK
  <2>3. \A i \in 1 .. range.len : array'[i] \in Conns
    BY <1>1, <2>2
  <2> QED
    BY <1>1, <2>1, <2>3 DEF RangeOK
<1>3. CASE ~range.shared
  <2>1. Ranged' = Ranged
    BY <1>3 DEF Ranged
  <2> QED
    BY <2>1 DEF RangeOK
<1> QED
  BY <1>2, <1>3 DEF RangeOK

\* A peer comes behind the others, in the array or in a longer copy of it.
LEMMA AppendedArray ==
  ASSUME PeersOK, NEW c \in Conns, Appended(c)
  PROVE  /\ array' \in Seq(Cells) /\ len' = len + 1 /\ len' \in 0 .. Len(array')
         /\ \A i \in 1 .. len : array'[i] = array[i]
         /\ array'[len + 1] = c
<1>1. /\ array \in Seq(Cells) /\ Len(array) \in Nat /\ len \in Nat /\ len <= Len(array)
      /\ DOMAIN array = 1 .. Len(array) /\ len' = len + 1
      /\ \A i \in 1 .. Len(array) : array[i] \in Cells
  BY LenProperties, ElementOfSeq DEF PeersOK, Appended
<1>2. CASE len < Len(array)
  <2>1. array' = [array EXCEPT ![len + 1] = c] /\ len + 1 \in 1 .. Len(array)
    BY <1>1, <1>2 DEF Appended
  <2>2. array' \in [1 .. Len(array) -> Cells]
    BY <1>1, <2>1 DEF Cells
  <2>3. array' \in Seq(Cells) /\ Len(array') = Len(array)
    BY <1>1, <2>2
  <2> QED
    BY <1>1, <1>2, <2>1, <2>3
<1>3. CASE ~(len < Len(array))
  <2>1. Grown \in Nat /\ len + 1 <= Grown /\ len = Len(array)
    <3>1. len = Len(array)
      <4> DEFINE m == Len(array)
      <4>1. len \in Nat /\ m \in Nat /\ len <= m /\ ~(len < m)
        BY <1>1, <1>3
      <4> HIDE DEF m
      <4>2. len = m
        BY <4>1
      <4> QED
        BY <4>2 DEF m
    <3>2. CASE Len(array) = 0
      BY <1>1, <3>1, <3>2 DEF Grown
    <3>3. CASE Len(array) # 0
      BY <1>1, <3>1, <3>3 DEF Grown
    <3> QED
      BY <3>2, <3>3
  <2>2. array' = [i \in 1 .. Grown |-> IF i <= len THEN array[i] ELSE IF i = len + 1 THEN c ELSE NoConn]
    BY <1>3 DEF Appended
  <2> HIDE DEF Grown
  <2>3. array' \in [1 .. Grown -> Cells]
    BY <1>1, <2>1, <2>2 DEF Cells
  <2>4. array' \in Seq(Cells) /\ Len(array') = Grown
    BY <2>1, <2>3
  <2>5. \A i \in 1 .. len : array'[i] = array[i]
    BY <1>1, <2>1, <2>2
  <2>6. array'[len + 1] = c
    BY <1>1, <2>1, <2>2
  <2> QED
    BY <1>1, <2>1, <2>4, <2>5, <2>6
<1> QED
  BY <1>2, <1>3

LEMMA AppendedPeers ==
  ASSUME PeersOK, NEW c \in Conns, MayAdd(c), Appended(c), UNCHANGED <<key, failed>>,
         \A d \in Conns \ {c} : state'[d] = state[d]
  PROVE  PeersOK'
<1>1. /\ array' \in Seq(Cells) /\ len' = len + 1 /\ len' \in 0 .. Len(array')
      /\ \A i \in 1 .. len : array'[i] = array[i]
      /\ array'[len + 1] = c /\ len \in Nat
  BY AppendedArray, LenProperties DEF PeersOK
<1>2. \A i \in 1 .. len' : i \in 1 .. len \/ i = len + 1
  BY <1>1
<1>3. \A i \in 1 .. len' : array'[i] \in Conns
  BY <1>1, <1>2 DEF PeersOK
<1>4. \A i \in 1 .. len : key[array[i]] # key[c]
  BY DEF MayAdd, Connected
<1>5. \A i, j \in 1 .. len' : i # j => key[array'[i]] # key[array'[j]]
  BY <1>1, <1>2, <1>4 DEF PeersOK, OncePerNode
<1>6. Connected \cup {c} \subseteq Connected'
  <2>1. \A i \in 1 .. len : i \in 1 .. len' /\ array'[i] = array[i]
    BY <1>1
  <2>2. len + 1 \in 1 .. len'
    BY <1>1
  <2> QED
    BY <1>1, <2>1, <2>2 DEF Connected
<1>7. \A d \in Conns : state'[d] # "dialing" /\ d \notin failed => d \in Connected'
  BY <1>6 DEF PeersOK, OncePerNode
<1> QED
  BY <1>1, <1>3, <1>5, <1>7 DEF PeersOK, OncePerNode

\* The range keeps the array it has begun with, or shares the one there is.
LEMMA AppendedRange ==
  ASSUME PeersOK, RangeOK, NEW c \in Conns, Appended(c),
         pc'["sync"] \in Ranging => pc["sync"] \in Ranging
  PROVE  RangeOK'
<1>1. /\ array \in Seq(Cells) /\ Len(array) \in Nat /\ len \in Nat /\ DOMAIN array = 1 .. Len(array)
  BY LenProperties DEF PeersOK
<1>2. /\ range \in [old : Seq(Cells), shared : BOOLEAN, len : Nat, at : Nat]
      /\ range.len <= Len(Ranged) /\ \A i \in 1 .. range.len : Ranged[i] \in Conns
      /\ pc["sync"] \in Ranging => range.at >= 1
  BY DEF RangeOK
<1>3. CASE ~range.shared
  <2>1. range' = range
    BY <1>3 DEF Appended
  <2>2. Ranged' = Ranged
    BY <1>3, <2>1 DEF Ranged
  <2> QED
    BY <1>2, <2>1, <2>2 DEF RangeOK
<1>4. CASE range.shared /\ len < Len(array)
  <2>1. range' = range /\ array' = [array EXCEPT ![len + 1] = c]
    BY <1>4 DEF Appended
  <2>2. Ranged = array /\ Ranged' = array'
    BY <1>4, <2>1 DEF Ranged
  <2>3. Len(array') = Len(array)
    <3>1. len + 1 \in 1 .. Len(array) /\ \A i \in 1 .. Len(array) : array[i] \in Cells
      BY <1>1, <1>4, ElementOfSeq
    <3>2. array' \in [1 .. Len(array) -> Cells]
      BY <1>1, <2>1, <3>1 DEF Cells
    <3> QED
      BY <1>1, <3>2
  <2>4. \A i \in 1 .. range.len : array'[i] \in Conns
    BY <1>1, <1>2, <2>1, <2>2
  <2> QED
    BY <1>2, <2>1, <2>2, <2>3, <2>4 DEF RangeOK
<1>5. CASE range.shared /\ ~(len < Len(array))
  <2>1. range' = [range EXCEPT !.old = array, !.shared = FALSE]
    BY <1>5 DEF Appended
  <2>2. /\ range' \in [old : Seq(Cells), shared : BOOLEAN, len : Nat, at : Nat]
        /\ range'.len = range.len /\ range'.at = range.at /\ range'.old = array /\ ~range'.shared
    BY <1>1, <1>2, <2>1
  <2>3. Ranged = array /\ Ranged' = array
    BY <1>5, <2>2 DEF Ranged
  <2> QED
    BY <1>2, <2>2, <2>3 DEF RangeOK
<1> QED
  BY <1>3, <1>4, <1>5

-----------------------------------------------------------------------------
(* The steps of the peers, of Close and of acceptLoop.                     *)

LEMMA AddPeerInv == ASSUME IInv, NEW c \in Conns, AddPeer(c) PROVE IInv'
<1>1. /\ state' = [state EXCEPT ![c] = "added"] /\ MayAdd(c) /\ Appended(c)
      /\ UNCHANGED <<key, accept, err, mu, pc, failed, in, tip, seen, target>>
  BY DEF AddPeer
<1>2. RestOK'
  BY <1>1 DEF IInv, RestOK
<1>3. \A d \in Conns \ {c} : state'[d] = state[d]
  BY <1>1 DEF IInv, RestOK
<1> QED
  BY <1>1, <1>2, <1>3, AppendedPeers, AppendedRange DEF IInv

LEMMA AnnounceInv == ASSUME IInv, NEW c \in Conns, Announce(c) PROVE IInv'
<1>1. /\ state[c] = "added" /\ state' = [state EXCEPT ![c] = "announced"] /\ pc' = Woken(pc)
      /\ UNCHANGED <<key, accept, err, mu, array, len, failed, in, tip, seen, target, range>>
  BY DEF Announce
<1>2. pc' \in [Loops -> Places] /\ (pc'["sync"] \in Ranging => pc["sync"] \in Ranging)
  BY <1>1, Wakes DEF IInv, RestOK
<1>3. RestOK' /\ \A d \in Conns : state'[d] # "dialing" <=> state[d] # "dialing"
  BY <1>1, <1>2 DEF IInv, RestOK
<1> QED
  BY <1>1, <1>2, <1>3, SamePeers, SameRange DEF IInv

LEMMA RequestInv == ASSUME IInv, NEW c \in Conns, Request(c) PROVE IInv'
<1>1. /\ in' = [in EXCEPT ![c] = IF in[c] < Queue THEN in[c] + 1 ELSE in[c]] /\ pc' = Woken(pc)
      /\ UNCHANGED <<key, accept, err, mu, array, len, state, failed, tip, seen, target, range>>
  BY DEF Request, IInv, RestOK
<1>2. pc' \in [Loops -> Places] /\ (pc'["sync"] \in Ranging => pc["sync"] \in Ranging)
  BY <1>1, Wakes DEF IInv, RestOK
<1>3. in' \in [Conns -> 0 .. Queue]
  BY <1>1, SyncLoopAssumption DEF IInv, RestOK
<1>4. RestOK'
  BY <1>1, <1>2, <1>3 DEF IInv, RestOK
<1> QED
  BY <1>1, <1>2, <1>4, SamePeers, SameRange DEF IInv

LEMMA ConnFailsInv == ASSUME IInv, NEW c \in Conns, ConnFails(c) PROVE IInv'
<1>1. /\ failed' = failed \cup {c}
      /\ UNCHANGED <<key, err, mu, accept, pc, array, len, state, in, tip, seen, target, range>>
  BY DEF ConnFails
<1>2. RestOK'
  BY <1>1 DEF IInv, RestOK
<1> QED
  BY <1>1, <1>2, SamePeers, SameRange DEF IInv

LEMMA DisconnectInv == ASSUME IInv, NEW c \in Conns, Disconnect(c) PROVE IInv'
<1>1. PICK e : /\ e = failed' /\ e = failed \cup {c} /\ RemoveDisconnected(e)
               /\ UNCHANGED <<key, err, mu, accept, pc, state, in, tip, seen, target, range>>
  BY DEF Disconnect
<1>2. RestOK'
  BY <1>1 DEF IInv, RestOK
<1> QED
  BY <1>1, <1>2, RemovedPeers, RemovedRange DEF IInv

LEMMA CloseInv == ASSUME IInv, Close PROVE IInv'
<1>1. /\ SetErr(pc)
      /\ UNCHANGED <<key, accept, mu, array, len, state, in, tip, seen, target, range>>
  BY DEF Close
<1>2. /\ err' = TRUE /\ failed' \subseteq Conns /\ failed \subseteq failed' /\ pc' \in [Loops -> Places]
      /\ pc'["sync"] \in Ranging => pc["sync"] \in Ranging
  BY <1>1, ErrIsSet DEF IInv, RestOK
<1>3. RestOK'
  BY <1>1, <1>2 DEF IInv, RestOK
<1> QED
  BY <1>1, <1>2, <1>3, SamePeers, SameRange DEF IInv

LEMMA AcceptFailsInv == ASSUME IInv, AcceptFails PROVE IInv'
<1>1. /\ SetErr(pc) /\ accept' = "stopped"
      /\ UNCHANGED <<key, mu, array, len, state, in, tip, seen, target, range>>
  BY DEF AcceptFails
<1>2. /\ err' = TRUE /\ failed' \subseteq Conns /\ failed \subseteq failed' /\ pc' \in [Loops -> Places]
      /\ pc'["sync"] \in Ranging => pc["sync"] \in Ranging
  BY <1>1, ErrIsSet DEF IInv, RestOK
<1>3. RestOK'
  BY <1>1, <1>2 DEF IInv, RestOK
<1> QED
  BY <1>1, <1>2, <1>3, SamePeers, SameRange DEF IInv

LEMMA AcceptEndsInv == ASSUME IInv, AcceptEnds PROVE IInv'
<1>1. /\ accept' = "ended" /\ pc' = Woken(pc)
      /\ UNCHANGED <<key, err, mu, array, len, state, failed, in, tip, seen, target, range>>
  BY DEF AcceptEnds
<1>2. pc' \in [Loops -> Places] /\ (pc'["sync"] \in Ranging => pc["sync"] \in Ranging)
  BY <1>1, Wakes DEF IInv, RestOK
<1>3. RestOK'
  BY <1>1, <1>2 DEF IInv, RestOK
<1> QED
  BY <1>1, <1>2, <1>3, SamePeers, SameRange DEF IInv

-----------------------------------------------------------------------------
(* The steps of the loops.                                                 *)

\* One loop moves, and the mutex with it.
LEMMA LoopMoves ==
  ASSUME IInv, NEW l \in Loops, NEW x \in Places, pc' = [pc EXCEPT ![l] = x],
         mu' \in Loops \cup {"free"}, l = "sync" /\ x \in Ranging => pc["sync"] \in Ranging,
         UNCHANGED <<key, accept, err, array, len, state, failed, in, tip, seen, target, range>>
  PROVE  IInv'
<1>1. pc' \in [Loops -> Places] /\ (pc'["sync"] \in Ranging => pc["sync"] \in Ranging)
  BY Moves DEF IInv
<1>2. RestOK'
  BY <1>1 DEF IInv, RestOK
<1> QED
  BY <1>1, <1>2, SamePeers, SameRange DEF IInv

LEMMA EndOrWaitInv == ASSUME IInv, NEW l \in Loops, LoopStep(l) PROVE IInv'
<1>1. "ended" \in Places /\ "waiting" \in Places /\ "ended" \notin Ranging /\ "waiting" \notin Ranging
  BY DEF Places, Ranging
<1>2. CASE End(l)
  BY <1>1, <1>2, LoopMoves DEF End
<1>3. CASE Wait(l)
  BY <1>1, <1>3, LoopMoves DEF Wait
<1> QED
  BY <1>2, <1>3 DEF LoopStep

LEMMA RunFindsNothingInv == ASSUME IInv, RunFindsNothing PROVE IInv'
<1>1. "run" \in Loops /\ "nothing" \in Places /\ "run" # "sync"
  BY DEF Loops, Places
<1> QED
  BY <1>1, LoopMoves DEF RunFindsNothing

LEMMA NoRequestInv == ASSUME IInv, NoRequest PROVE IInv'
<1>1. /\ mu' = "request" /\ RemoveDisconnected(failed) /\ pc' = [pc EXCEPT !["request"] = "nothing"]
      /\ UNCHANGED <<key, accept, err, state, failed, in, tip, seen, target, range>>
  BY DEF NoRequest
<1>2. pc' \in [Loops -> Places] /\ (pc'["sync"] \in Ranging => pc["sync"] \in Ranging)
  BY <1>1 DEF IInv, RestOK, Loops, Places
<1>3. RestOK'
  BY <1>1, <1>2 DEF IInv, RestOK, Loops
<1> QED
  BY <1>1, <1>2, <1>3, RemovedPeers, RemovedRange DEF IInv

LEMMA HandleRequestInv == ASSUME IInv, HandleRequest PROVE IInv'
<1> DEFINE next == [pc EXCEPT !["request"] = "top"]
<1>1. /\ mu' = "request" /\ RemoveDisconnected(failed)
      /\ UNCHANGED <<key, accept, state, seen, target, range>>
  BY DEF HandleRequest
<1>2. PICK i \in 1 .. len' :
        /\ in[array'[i]] > 0 /\ in' = [in EXCEPT ![array'[i]] = in[array'[i]] - 1]
        /\ \/ pc' = next /\ UNCHANGED <<err, failed, tip>>
           \/ /\ \E t \in Tips : tip' = [tip EXCEPT ![array'[i]] = t]
              /\ pc' = Woken(next)
              /\ UNCHANGED <<err, failed>>
           \/ SetErr(next) /\ UNCHANGED tip
  BY DEF HandleRequest, IInv, RestOK
<1>3. next \in [Loops -> Places] /\ (next["sync"] \in Ranging => pc["sync"] \in Ranging)
  BY DEF IInv, RestOK, Loops, Places
<1> HIDE DEF next
<1>4. PICK c \in Conns : c = array'[i]
  BY <1>1, <1>2, Removed DEF IInv
<1>5. in' \in [Conns -> 0 .. Queue]
  <2>1. in \in [Conns -> 0 .. Queue] /\ in[c] > 0 /\ in' = [in EXCEPT ![c] = in[c] - 1]
    BY <1>2, <1>4 DEF IInv, RestOK
  <2>2. in[c] - 1 \in 0 .. Queue
    BY <2>1, SyncLoopAssumption
  <2> QED
    BY <2>1, <2>2
<1>6. /\ err' \in BOOLEAN /\ failed' \subseteq Conns /\ failed \subseteq failed' /\ tip' \in [Conns -> Tips]
      /\ pc' \in [Loops -> Places] /\ (pc'["sync"] \in Ranging => pc["sync"] \in Ranging)
  <2>1. CASE pc' = next /\ UNCHANGED <<err, failed, tip>>
    BY <1>3, <2>1 DEF IInv, RestOK
  <2>2. CASE (\E t \in Tips : tip' = [tip EXCEPT ![array'[i]] = t]) /\ pc' = Woken(next) /\ UNCHANGED <<err, failed>>
    BY <1>3, <1>4, <2>2, Wakes DEF IInv, RestOK
  <2>3. CASE SetErr(next) /\ UNCHANGED tip
    BY <1>3, <2>3, ErrIsSet DEF IInv, RestOK
  <2> QED
    BY <1>2, <2>1, <2>2, <2>3
<1>7. RestOK'
  BY <1>1, <1>5, <1>6 DEF IInv, RestOK, Loops
<1> QED
  BY <1>1, <1>6, <1>7, RemovedPeers, RemovedRange DEF IInv

\* The range begins with the peers that there are, and shares their array.
LEMMA RangeBeginsInv == ASSUME IInv, RangeBegins PROVE IInv'
<1>1. /\ mu' = "sync" /\ RemoveDisconnected(failed) /\ pc' = [pc EXCEPT !["sync"] = "range"]
      /\ range' = [old |-> <<>>, shared |-> TRUE, len |-> len', at |-> 1]
      /\ UNCHANGED <<key, accept, err, state, failed, in, tip, seen, target>>
  BY DEF RangeBegins
<1>2. pc' \in [Loops -> Places]
  BY <1>1 DEF IInv, RestOK, Loops, Places
<1>3. RestOK'
  BY <1>1, <1>2 DEF IInv, RestOK, Loops
<1>4. PeersOK'
  BY <1>1, RemovedPeers DEF IInv
<1>5. RangeOK'
  <2>1. Ranged' = array' /\ range'.len = len' /\ range'.at = 1
    BY <1>1 DEF Ranged
  <2>2. len' \in Nat /\ len' <= Len(array') /\ \A i \in 1 .. len' : array'[i] \in Conns
    BY <1>4, LenProperties DEF PeersOK
  <2> QED
    BY <1>1, <2>1, <2>2 DEF RangeOK
<1> QED
  BY <1>3, <1>4, <1>5 DEF IInv

\* What it ranges over at a position is a peer.
LEMMA SyncBeginsInv == ASSUME IInv, SyncBegins PROVE IInv'
<1>1. /\ pc["sync"] = "range" /\ range.at <= range.len /\ target' = Ranged[range.at]
      /\ seen' = seen \cup {tip[target']} /\ mu' = "free" /\ pc' = [pc EXCEPT !["sync"] = "syncing"]
      /\ UNCHANGED <<key, accept, err, array, len, state, failed, in, tip, range>>
  BY DEF SyncBegins
<1>2. pc' \in [Loops -> Places] /\ pc["sync"] \in Ranging
  BY <1>1 DEF IInv, RestOK, Loops, Places, Ranging
<1>3. target' \in Conns
  <2>1. range.at \in 1 .. range.len
    BY <1>1, <1>2 DEF IInv, RangeOK
  <2> QED
    BY <1>1, <2>1 DEF IInv, RangeOK
<1>4. RestOK'
  BY <1>1, <1>2, <1>3 DEF IInv, RestOK, Cells
<1> QED
  BY <1>1, <1>2, <1>4, SamePeers, SameRange DEF IInv

\* The range goes on to the next position.
LEMMA NextPosition ==
  ASSUME RangeOK, UNCHANGED array, range' = [range EXCEPT !.at = range.at + 1]
  PROVE  RangeOK'
<1>1. /\ range' \in [old : Seq(Cells), shared : BOOLEAN, len : Nat, at : Nat] /\ range'.at >= 1
      /\ range'.len = range.len /\ range'.old = range.old /\ range'.shared = range.shared
  BY DEF RangeOK
<1>2. Ranged' = Ranged
  BY <1>1 DEF Ranged
<1> QED
  BY <1>1, <1>2 DEF RangeOK

LEMMA NotNewInv == ASSUME IInv, NotNew PROVE IInv'
<1>1. /\ range' = [range EXCEPT !.at = range.at + 1]
      /\ UNCHANGED <<key, err, mu, accept, pc, array, len, state, failed, in, tip, seen, target>>
  BY DEF NotNew, IInv, RangeOK
<1>2. RestOK'
  BY <1>1 DEF IInv, RestOK
<1> QED
  BY <1>1, <1>2, SamePeers, NextPosition DEF IInv

LEMMA RangeGoesOnInv == ASSUME IInv, RangeGoesOn PROVE IInv'
<1>1. /\ mu' = "sync" /\ pc' = [pc EXCEPT !["sync"] = "range"]
      /\ range' = [range EXCEPT !.at = range.at + 1]
      /\ UNCHANGED <<key, accept, err, array, len, state, failed, in, tip, seen, target>>
  BY DEF RangeGoesOn, IInv, RangeOK
<1>2. RestOK'
  BY <1>1 DEF IInv, RestOK, Loops, Places
<1> QED
  BY <1>1, <1>2, SamePeers, NextPosition DEF IInv

LEMMA SyncReturnsInv == ASSUME IInv, SyncReturns PROVE IInv'
<1> DEFINE next == [pc EXCEPT !["sync"] = "synced"]
<1>1. /\ pc["sync"] = "syncing"
      /\ \/ pc' = next /\ UNCHANGED <<err, failed>>
         \/ SetErr(next)
      /\ UNCHANGED <<key, accept, mu, array, len, state, in, tip, seen, target, range>>
  BY DEF SyncReturns
<1>2. next \in [Loops -> Places] /\ pc["sync"] \in Ranging
  BY <1>1 DEF IInv, RestOK, Loops, Places, Ranging
<1> HIDE DEF next
<1>3. /\ err' \in BOOLEAN /\ failed' \subseteq Conns /\ failed \subseteq failed' /\ pc' \in [Loops -> Places]
  BY <1>1, <1>2, ErrIsSet DEF IInv, RestOK
<1>4. RestOK'
  BY <1>1, <1>3 DEF IInv, RestOK
<1> QED
  BY <1>1, <1>2, <1>3, <1>4, SamePeers, SameRange DEF IInv

LEMMA SyncHangsInv == ASSUME IInv, SyncHangs PROVE IInv'
<1>1. "sync" \in Loops /\ "hung" \in Places /\ "hung" \notin Ranging
  BY DEF Loops, Places, Ranging
<1> QED
  BY <1>1, LoopMoves DEF SyncHangs, IInv, RestOK

LEMMA RangeEndsInv == ASSUME IInv, RangeEnds PROVE IInv'
<1>1. /\ pc' = [pc EXCEPT !["sync"] = "nothing"] /\ range' = NoRange /\ target' = NoConn
      /\ UNCHANGED <<key, accept, err, mu, array, len, state, failed, in, tip, seen>>
  BY DEF RangeEnds
<1>2. RestOK' /\ pc'["sync"] \notin Ranging
  BY <1>1 DEF IInv, RestOK, Loops, Places, Cells, Ranging
<1>3. RangeOK'
  <2>1. Ranged' = <<>> /\ range'.len = 0
    BY <1>1 DEF NoRange, Ranged
  <2> QED
    BY <1>1, <1>2, <2>1 DEF RangeOK, NoRange
<1> QED
  BY <1>1, <1>2, <1>3, SamePeers DEF IInv

-----------------------------------------------------------------------------
(* The theorem.                                                            *)

LEMMA InitIInv == Init => IInv
<1>1. SUFFICES ASSUME Init PROVE IInv
  OBVIOUS
<1>2. RestOK
  <2>1. pc \in [Loops -> Places] /\ state \in [Conns -> {"dialing", "added", "announced"}]
    BY <1>1 DEF Init, Places
  <2>2. in \in [Conns -> 0 .. Queue]
    BY <1>1, SyncLoopAssumption DEF Init
  <2> QED
    BY <1>1, <2>1, <2>2 DEF Init, RestOK, Cells
<1>3. PeersOK
  BY <1>1 DEF Init, PeersOK, OncePerNode
<1>4. RangeOK
  BY <1>1 DEF Init, RangeOK, NoRange, Ranged, Ranging, Loops
<1> QED
  BY <1>2, <1>3, <1>4 DEF IInv

LEMMA EachStep == IInv /\ [Next]_vars => IInv'
<1>1. SUFFICES ASSUME IInv, [Next]_vars PROVE IInv'
  OBVIOUS
<1>2. "run" \in Loops /\ "request" \in Loops /\ "sync" \in Loops
  BY DEF Loops
<1>3. CASE \E c \in Conns : AddPeer(c) \/ Announce(c) \/ Request(c) \/ ConnFails(c) \/ Disconnect(c)
  BY <1>1, <1>3, AddPeerInv, AnnounceInv, RequestInv, ConnFailsInv, DisconnectInv
<1>4. CASE Close \/ AcceptFails \/ AcceptEnds
  BY <1>1, <1>4, CloseInv, AcceptFailsInv, AcceptEndsInv
<1>5. CASE RequestLoop
  BY <1>1, <1>2, <1>5, EndOrWaitInv, HandleRequestInv, NoRequestInv DEF RequestLoop
<1>6. CASE RunLoop
  BY <1>1, <1>2, <1>6, EndOrWaitInv, RunFindsNothingInv DEF RunLoop
<1>7. CASE SyncSteps
  BY <1>1, <1>2, <1>7, EndOrWaitInv, RangeBeginsInv, SyncBeginsInv, NotNewInv, SyncReturnsInv,
     SyncHangsInv, RangeGoesOnInv, RangeEndsInv DEF SyncSteps
<1>8. CASE UNCHANGED vars
  <2>1. UNCHANGED <<key, err, mu, accept, pc, array, len, state, failed, in, tip, seen, target, range>>
    BY <1>8 DEF vars
  <2>2. RestOK'
    BY <1>1, <2>1 DEF IInv, RestOK
  <2> QED
    BY <1>1, <2>1, <2>2, SamePeers, SameRange DEF IInv
<1> QED
  BY <1>1, <1>3, <1>4, <1>5, <1>6, <1>7, <1>8 DEF Next

\* However many nodes connect, both ways at the same time, and are disconnected,
\* with slices that share an array: each node is at most once among the peers,
\* each peer without an error is, and what syncLoop ranges over are peers
\* (addPeer, removeDisconnected, syncLoop).
THEOREM LoopsSafe == Spec => []SyncInv
<1>1. IInv => SyncInv
  BY InvIsEnough
<1> QED
  BY <1>1, InitIInv, EachStep, PTL DEF Spec
=============================================================================
