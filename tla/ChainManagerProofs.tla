-------------------------- MODULE ChainManagerProofs --------------------------
(***************************************************************************)
(* The store of the Manager, its subscribers and its tip agree at every    *)
(* step, for every block tree and every bound; and the Manager implements  *)
(* HeaviestChain.                                                          *)
(***************************************************************************)
EXTENDS ChainManager, SequenceTheorems, WellFoundedInduction, TLAPS

-----------------------------------------------------------------------------
(* Chains.                                                                 *)

\* A set of numbers has a least one: induction, as a fact about a set.
LEMMA LeastNat ==
  ASSUME NEW T, T \subseteq Nat, T # {}
  PROVE  \E n \in T : \A k \in T : n <= k
<1> DEFINE Less == OpToRel(<, Nat)
<1>1. PICK n \in T : \A k \in T : ~(<<k, n>> \in Less)
  <2>1. IsWellFoundedOn(Less, Nat)
    BY NatLessThanWellFounded
  <2> HIDE DEF Less
  <2> QED
    BY <2>1, WFMin
<1>2. \A k \in Nat : k < n => <<k, n>> \in Less
  BY DEF OpToRel
<1> HIDE DEF Less
<1>3. \A k \in T : ~(k < n)
  BY <1>1, <1>2
<1> QED
  BY <1>3

\* A chain is a non-empty sequence of blocks that ends with its block.
LEMMA ChainShape ==
  ASSUME NEW b \in Blocks
  PROVE  /\ ChainOf[b] \in Seq(Blocks)
         /\ Len(ChainOf[b]) \in Nat \ {0}
         /\ ChainOf[b][Len(ChainOf[b])] = b
<1>1. ChainOf[b] \in Seq(Blocks)
  BY ChainAssumption
<1>2. CASE b = Genesis
  BY <1>1, <1>2, ChainAssumption
<1>3. CASE b # Genesis
  <2>1. b \in Children /\ Parent[b] \in Blocks
    BY <1>3, GenesisAssumption DEF Children
  <2>2. ChainOf[b] = Append(ChainOf[Parent[b]], b) /\ ChainOf[Parent[b]] \in Seq(Blocks)
    BY <2>1, ChainAssumption
  <2> QED
    BY <2>2, <1>1
<1> QED
  BY <1>2, <1>3

\* The chain of a child is that of its parent with the child appended.
LEMMA ChildChain ==
  ASSUME NEW b \in Blocks, b # Genesis
  PROVE  /\ Parent[b] \in Blocks
         /\ ChainOf[b] = Append(ChainOf[Parent[b]], b)
         /\ Len(ChainOf[b]) = Len(ChainOf[Parent[b]]) + 1
         /\ SubSeq(ChainOf[b], 1, Len(ChainOf[b]) - 1) = ChainOf[Parent[b]]
<1>1. b \in Children /\ Parent[b] \in Blocks
  BY GenesisAssumption DEF Children
<1>2. ChainOf[b] = Append(ChainOf[Parent[b]], b) /\ ChainOf[Parent[b]] \in Seq(Blocks)
  BY <1>1, ChainAssumption
<1> QED
  BY <1>1, <1>2

\* Each block of a chain ends a chain that is a prefix of it: there is no
\* shortest chain of which this is not so.
LEMMA PrefixChain ==
  ASSUME NEW b \in Blocks, NEW n \in 1 .. Len(ChainOf[b])
  PROVE  /\ ChainOf[b][n] \in Blocks
         /\ ChainOf[ChainOf[b][n]] = SubSeq(ChainOf[b], 1, n)
<1> DEFINE Prefixes(a) == \A k \in 1 .. Len(ChainOf[a]) : ChainOf[ChainOf[a][k]] = SubSeq(ChainOf[a], 1, k)
           Bad == {a \in Blocks : ~Prefixes(a)}
<1>1. \A a \in Blocks : Prefixes(a)
  <2>1. SUFFICES ASSUME Bad # {} PROVE FALSE
    OBVIOUS
  <2>2. \A a \in Bad : Len(ChainOf[a]) \in Nat
    BY ChainShape
  <2>3. PICK a \in Bad : \A c \in Bad : Len(ChainOf[a]) <= Len(ChainOf[c])
    <3> DEFINE lens == {Len(ChainOf[c]) : c \in Bad}
    <3>1. lens \subseteq Nat /\ lens # {}
      BY <2>1, <2>2
    <3>2. PICK l \in lens : \A k \in lens : l <= k
      BY <3>1, LeastNat
    <3> QED
      BY <3>2
  <2>4. ASSUME NEW k \in 1 .. Len(ChainOf[a]) PROVE ChainOf[ChainOf[a][k]] = SubSeq(ChainOf[a], 1, k)
    <3>1. CASE k = Len(ChainOf[a])
      <4>1. ChainOf[a][k] = a /\ ChainOf[a] \in Seq(Blocks)
        BY <3>1, ChainShape
      <4> QED
        BY <3>1, <4>1
    <3>2. CASE k # Len(ChainOf[a])
      <4>1. a # Genesis
        <5>1. Len(ChainOf[Genesis]) = 1
          BY ChainAssumption
        <5>2. ASSUME a = Genesis PROVE k = Len(ChainOf[a])
          <6>1. Len(ChainOf[a]) = 1
            BY <5>1, <5>2
          <6>2. k \in 1 .. 1
            BY <6>1
          <6> QED
            BY <6>1, <6>2
        <5> QED
          BY <3>2, <5>2, Zenon
      <4> DEFINE p == Parent[a]
      <4>2. /\ p \in Blocks /\ ChainOf[a] = Append(ChainOf[p], a) /\ Len(ChainOf[a]) = Len(ChainOf[p]) + 1
            /\ ChainOf[p] \in Seq(Blocks) /\ Len(ChainOf[p]) \in Nat
        BY <4>1, ChildChain, ChainShape
      <4>3. Prefixes(p)
        <5>1. ~(Len(ChainOf[a]) <= Len(ChainOf[p]))
          BY <4>2
        <5>2. p \notin Bad
          BY <2>3, <5>1
        <5> QED
          BY <4>2, <5>2
      <4>4. k \in 1 .. Len(ChainOf[p]) /\ ChainOf[a][k] = ChainOf[p][k]
        BY <3>2, <4>2
      <4>5. SubSeq(ChainOf[a], 1, k) = SubSeq(ChainOf[p], 1, k)
        BY <4>2, <4>4
      <4> QED
        BY <4>3, <4>4, <4>5
    <3> QED
      BY <3>1, <3>2
  <2> QED
    BY <2>4
<1>2. ChainOf[b] \in Seq(Blocks)
  BY ChainShape
<1> QED
  BY <1>1, <1>2

\* Every chain starts with Genesis.
LEMMA ChainStartsAtGenesis ==
  ASSUME NEW b \in Blocks
  PROVE  ChainOf[b][1] = Genesis
<1> DEFINE r == ChainOf[b][1]
<1>1. r \in Blocks /\ ChainOf[r] = SubSeq(ChainOf[b], 1, 1)
  BY ChainShape, PrefixChain
<1>2. Len(ChainOf[r]) = 1
  BY <1>1, ChainShape
<1>3. SUFFICES ASSUME r # Genesis PROVE FALSE
  OBVIOUS
<1>4. Len(ChainOf[r]) = Len(ChainOf[Parent[r]]) + 1 /\ Parent[r] \in Blocks
  BY <1>1, <1>3, ChildChain
<1> QED
  BY <1>2, <1>4, ChainShape

\* A block on the chain of b ends a prefix of it.
LEMMA OnChainPrefix ==
  ASSUME NEW a \in Blocks, NEW b \in Blocks, OnChain(a, b)
  PROVE  /\ Len(ChainOf[a]) \in 1 .. Len(ChainOf[b])
         /\ ChainOf[a] = SubSeq(ChainOf[b], 1, Len(ChainOf[a]))
<1>1. Len(ChainOf[a]) \in 1 .. Len(ChainOf[b])
  BY ChainShape DEF OnChain, Height
<1>2. ChainOf[b][Len(ChainOf[a])] = a
  BY <1>1, ChainShape DEF OnChain, Height, IndexAt
<1> QED
  BY <1>1, <1>2, PrefixChain

\* A block on the chain of b, other than b, is on the chain of b's parent.
LEMMA OnParentChain ==
  ASSUME NEW a \in Blocks, NEW b \in Blocks, OnChain(a, b), a # b
  PROVE  b # Genesis /\ OnChain(a, Parent[b])
<1>1. /\ Len(ChainOf[a]) \in 1 .. Len(ChainOf[b])
      /\ ChainOf[b][Len(ChainOf[a])] = a
  BY ChainShape DEF OnChain, Height, IndexAt
<1>2. Len(ChainOf[a]) # Len(ChainOf[b])
  BY <1>1, ChainShape
<1>3. b # Genesis
  BY <1>1, <1>2, ChainAssumption
<1>4. /\ Parent[b] \in Blocks
      /\ ChainOf[b] = Append(ChainOf[Parent[b]], b)
      /\ Len(ChainOf[b]) = Len(ChainOf[Parent[b]]) + 1
  BY <1>3, ChildChain
<1>5. ChainOf[Parent[b]][Len(ChainOf[a])] = a
  BY <1>1, <1>2, <1>4, ChainShape
<1> QED
  BY <1>1, <1>2, <1>3, <1>4, <1>5, ChainShape DEF OnChain, Height, IndexAt

\* Cutting a chain at a block they share and continuing along another chain
\* gives the other chain: what reorgPath's reverts and updates add up to.
LEMMA Splice ==
  ASSUME NEW a \in Blocks, NEW b \in Blocks, NEW c \in Blocks,
         OnChain(c, a), OnChain(c, b)
  PROVE  SubSeq(ChainOf[a], 1, Height(c) + 1) \o PathFrom(c, b) = ChainOf[b]
<1> DEFINE n == Len(ChainOf[c])
           s == ChainOf[b]
<1>1. n \in 1 .. Len(s) /\ s \in Seq(Blocks) /\ Height(c) + 1 = n
  BY OnChainPrefix, ChainShape DEF Height
<1>2. SubSeq(ChainOf[a], 1, n) = SubSeq(s, 1, n)
  BY OnChainPrefix
<1>3. PathFrom(c, b) = SubSeq(s, n + 1, Len(s))
  BY DEF PathFrom
<1>4. SubSeq(s, 1, n) \o SubSeq(s, n + 1, Len(s)) = s
  <2> HIDE DEF n, s
  <2> QED
    BY <1>1
<1> QED
  BY <1>1, <1>2, <1>3, <1>4

-----------------------------------------------------------------------------
(* The inductive invariant.                                                *)

\* A scratch chain stands on a stored block, what it has validated is stored,
\* and its headers connect.
ChainsOK ==
  \A i \in DOMAIN chains :
    /\ chains[i].base \in entries /\ chains[i].ts \in entries
    /\ OnChain(chains[i].base, chains[i].hs)

\* The rebase path leads from the base of the chain down to the branch point,
\* or, once blocks are being applied, to the tip; the headers take over when
\* it is used up.
Front == IF job.pc = "apply" THEN cs ELSE job.at

RebaseOK ==
  /\ \A k \in 1 .. Len(job.rebase) : job.rebase[k] \in entries \ {Genesis}
  /\ \A k \in 1 .. Len(job.rebase) - 1 : Parent[job.rebase[k]] = job.rebase[k + 1]
  /\ job.rebase # <<>> => Parent[job.rebase[Len(job.rebase)]] = Front
  /\ job.rebase # <<>> => job.rebase[1] = Current.base
  /\ job.rebase = <<>> => IF job.pc = "apply" THEN OnChain(cs, Current.hs)
                                              ELSE job.at = Current.base

ReorgOK ==
  IF Reorging THEN /\ job.todo # <<>> /\ job.at \in entries
                   /\ job.pc = "revert" => OnChain(job.at, cs)
                   /\ RebaseOK
              ELSE job.rebase = <<>>

Inv ==
  /\ TypeOK
  /\ StoreMatchesTip
  /\ Genesis \in entries /\ StoredChainsValid
  /\ SubscribersFollow
  /\ ChainsOK
  /\ ReorgOK

-----------------------------------------------------------------------------
(* What the shared steps do to the tip, the store and the subscribers.     *)

\* ExtendBest and the subscribers' update keep step when the block attaches.
LEMMA ExtendToFollows ==
  ASSUME TypeOK, StoreMatchesTip, SubscribersFollow,
         NEW b \in Children, Parent[b] = cs,
         NEW stored \in SUBSET Blocks, b \in stored,
         ExtendTo(b, stored)
  PROVE  /\ StoreMatchesTip' /\ SubscribersFollow'
         /\ best' \in Seq(Blocks) /\ cs' \in Blocks
         /\ view' \in [Subscribers -> Seq(Blocks)]
         /\ flushed' \in [tip : Blocks, entries : SUBSET Blocks]
         /\ committed' \in [Subscribers -> Blocks]
         /\ subscribed' = subscribed
<1>1. ChainOf[b] = Append(ChainOf[cs], b)
  BY ChildChain DEF Children
<1>2. b \in Blocks
  BY DEF Children
<1>3. StoreMatchesTip'
  BY <1>1 DEF ExtendTo, StoreMatchesTip
<1>4. SubscribersFollow'
  BY DEF ExtendTo, NotifyApply, SubscribersFollow, TypeOK
<1>5. best' \in Seq(Blocks) /\ cs' \in Blocks
  BY <1>2 DEF ExtendTo, TypeOK
<1>6. view' \in [Subscribers -> Seq(Blocks)]
  BY <1>2 DEF ExtendTo, NotifyApply, TypeOK
<1>7. PICK mayCommit \in FlushChoices :
        /\ flushed' = IF mayCommit THEN [tip |-> b, entries |-> stored] ELSE flushed
        /\ committed' = [s \in Subscribers |->
                           IF mayCommit /\ s \in subscribed THEN b ELSE committed[s]]
  BY DEF ExtendTo
<1>8. flushed' \in [tip : Blocks, entries : SUBSET Blocks]
  BY <1>2, <1>7 DEF TypeOK
<1>9. committed' \in [Subscribers -> Blocks]
  BY <1>2, <1>7 DEF TypeOK
<1> QED
  BY <1>3, <1>4, <1>5, <1>6, <1>8, <1>9 DEF ExtendTo

\* A block is not the Genesis when it is higher than one.
LEMMA AboveIsChild ==
  ASSUME NEW a \in Blocks, NEW n \in 2 .. Len(ChainOf[a])
  PROVE  /\ ChainOf[a][n] \in Children
         /\ Parent[ChainOf[a][n]] = ChainOf[a][n - 1]
         /\ Len(ChainOf[ChainOf[a][n]]) = n
<1> DEFINE b == ChainOf[a][n]
<1>1. b \in Blocks /\ ChainOf[b] = SubSeq(ChainOf[a], 1, n)
  BY ChainShape, PrefixChain
<1>2. Len(ChainOf[b]) = n /\ n \in Nat \ {0, 1}
  BY <1>1, ChainShape
<1>3. b # Genesis
  BY <1>2, ChainAssumption, Len(<<Genesis>>) = 1
<1>4. /\ Parent[b] \in Blocks
      /\ ChainOf[b] = Append(ChainOf[Parent[b]], b)
      /\ Len(ChainOf[b]) = Len(ChainOf[Parent[b]]) + 1
  BY <1>1, <1>3, ChildChain
<1>5. ChainOf[Parent[b]][n - 1] = Parent[b]
  <2> DEFINE p == Parent[b]
  <2>1. p \in Blocks /\ Len(ChainOf[b]) = Len(ChainOf[p]) + 1
    BY <1>4
  <2>2. Len(ChainOf[p]) \in Nat /\ ChainOf[p][Len(ChainOf[p])] = p
    BY <2>1, ChainShape
  <2> HIDE DEF b, p
  <2>3. Len(ChainOf[p]) = n - 1
    BY <1>2, <2>1, <2>2
  <2>4. ChainOf[p][n - 1] = p
    BY <2>2, <2>3
  <2> QED
    BY <2>4 DEF b, p
<1>6. ChainOf[b][n - 1] = ChainOf[Parent[b]][n - 1]
  BY <1>2, <1>4, ChainShape
<1>7. ChainOf[b][n - 1] = ChainOf[a][n - 1]
  BY <1>1, ChainShape
<1> QED
  BY <1>1, <1>2, <1>3, <1>5, <1>6, <1>7 DEF Children

\* OnChain is transitive.
LEMMA OnChainTransitive ==
  ASSUME NEW a \in Blocks, NEW b \in Blocks, NEW c \in Blocks,
         OnChain(a, b), OnChain(b, c)
  PROVE  OnChain(a, c)
<1>1. /\ Len(ChainOf[a]) \in 1 .. Len(ChainOf[b])
      /\ Len(ChainOf[b]) \in 1 .. Len(ChainOf[c])
      /\ ChainOf[b] = SubSeq(ChainOf[c], 1, Len(ChainOf[b]))
  BY OnChainPrefix
<1>2. ChainOf[b][Len(ChainOf[a])] = a
  BY <1>1, ChainShape DEF OnChain, Height, IndexAt
<1>3. ChainOf[c][Len(ChainOf[a])] = a
  BY <1>1, <1>2, ChainShape
<1> QED
  BY <1>1, <1>3, ChainShape DEF OnChain, Height, IndexAt

LEMMA ChainType ==
  ASSUME TypeOK, NEW i \in DOMAIN chains
  PROVE  /\ chains[i] \in ScratchChains
         /\ chains[i] = [base |-> chains[i].base, hs |-> chains[i].hs, ts |-> chains[i].ts]
         /\ chains[i].base \in Blocks /\ chains[i].hs \in Blocks /\ chains[i].ts \in Blocks
<1>1. chains[i] \in ScratchChains
  BY DEF TypeOK
<1> QED
  BY <1>1 DEF ScratchChains

LEMMA OnChainReflexive == ASSUME NEW a \in Blocks PROVE OnChain(a, a)
  BY ChainShape DEF OnChain, Height, IndexAt

-----------------------------------------------------------------------------
(* Each call and each step of a call preserves the invariant.              *)

LEMMA InitInv == Init => Inv
<1> SUFFICES ASSUME Init PROVE Inv
  OBVIOUS
<1> USE DEF Init
<1>1. Genesis \in Blocks /\ ChainOf[Genesis] = <<Genesis>>
  BY GenesisAssumption, ChainAssumption
<1>2. TypeOK
  <2>1. job \in Jobs
    BY <1>1 DEF Idle, Jobs
  <2>2. early \subseteq Children
    BY ManagerAssumption
  <2>3. lost \in BOOLEAN
    OBVIOUS
  <2>4. /\ entries \subseteq Blocks /\ best \in Seq(Blocks) /\ cs \in Blocks
        /\ flushed \in [tip : Blocks, entries : SUBSET Blocks]
        /\ chains \in Seq(ScratchChains)
        /\ subscribed \subseteq Subscribers
        /\ view \in [Subscribers -> Seq(Blocks)]
        /\ committed \in [Subscribers -> Blocks]
    BY <1>1
  <2>5. job.pc = "idle"
    BY DEF Idle
  <2> QED
    BY <2>1, <2>2, <2>3, <2>4, <2>5 DEF TypeOK
<1>3. StoreMatchesTip /\ StoredChainsValid /\ SubscribersFollow
  BY <1>1 DEF StoreMatchesTip, StoredChainsValid, SubscribersFollow
<1>4. ChainsOK
  BY DEF ChainsOK
<1>5. ReorgOK
  BY DEF ReorgOK, Reorging, Idle
<1> QED
  BY <1>2, <1>3, <1>4, <1>5 DEF Inv

\* Headers only add to the scratch chains, above stored blocks.
LEMMA AddHeadersInv ==
  ASSUME Inv, NEW p \in Blocks, NEW t \in Blocks, AddHeaders(p, t)
  PROVE  Inv'
<1> USE DEF Inv
<1>1. /\ UNCHANGED <<store, cs, subs, early, job, lost>> /\ job.pc = "idle"
  BY DEF AddHeaders
<1>2. chains' \in Seq(ScratchChains) /\ ChainsOK'
  <2>1. CASE ExtendChain(p, t)
    <3>1. PICK i \in Extends(p, t), r \in Blocks :
            /\ IsReached(r, chains[i].hs, t)
            /\ chains' = [chains EXCEPT ![i].hs = r]
      BY <2>1 DEF ExtendChain
    <3>2. i \in DOMAIN chains /\ OnChain(chains[i].hs, r)
      BY <3>1 DEF Extends, IsReached
    <3> DEFINE sc == [chains[i] EXCEPT !.hs = r]
    <3>3. sc \in ScratchChains /\ sc.base = chains[i].base /\ sc.ts = chains[i].ts /\ sc.hs = r
      BY <3>2, ChainType DEF ScratchChains
    <3>4. OnChain(chains[i].base, r)
      BY <3>2, ChainType, OnChainTransitive DEF ChainsOK
    <3>6. chains' = [chains EXCEPT ![i] = sc]
      BY <3>1
    <3>7. chains' \in Seq(ScratchChains)
      <4> HIDE DEF sc
      <4> QED
        BY <3>2, <3>3, <3>6 DEF TypeOK
    <3>5. ASSUME NEW j \in DOMAIN chains'
          PROVE  /\ chains'[j].base \in entries /\ chains'[j].ts \in entries
                 /\ OnChain(chains'[j].base, chains'[j].hs)
      <4>1. j \in DOMAIN chains
        BY <3>6, <3>5 DEF TypeOK
      <4>2. chains'[j] = IF j = i THEN sc ELSE chains[j]
        BY <3>6, <4>1 DEF TypeOK
      <4> QED
        BY <4>1, <4>2, <3>2, <3>3, <3>4 DEF ChainsOK
    <3> QED
      BY <3>7, <3>5, <1>1 DEF ChainsOK, store
  <2>2. CASE StartChain(p, t)
    <3>1. PICK c \in Blocks, r \in Blocks :
            /\ IsBase(c, p, t) /\ IsReached(r, c, t)
            /\ chains' = Append(chains, [NewScratchChain(c) EXCEPT !.hs = r])
      BY <2>2 DEF StartChain
    <3> DEFINE sc == [NewScratchChain(c) EXCEPT !.hs = r]
    <3>2. sc = [base |-> c, hs |-> r, ts |-> c] /\ c \in entries /\ OnChain(c, r)
      BY <3>1 DEF NewScratchChain, IsBase, IsReached
    <3>3. sc \in ScratchChains
      BY <3>2 DEF ScratchChains
    <3>4. chains' \in Seq(ScratchChains)
      BY <3>1, <3>3 DEF TypeOK
    <3>5. \A j \in DOMAIN chains' : chains'[j] = sc \/ (j \in DOMAIN chains /\ chains'[j] = chains[j])
      BY <3>1, <3>3 DEF TypeOK
    <3> QED
      BY <3>2, <3>4, <3>5, <1>1 DEF ChainsOK, store
  <2> QED
    BY <2>1, <2>2 DEF AddHeaders
<1>3. TypeOK'
  BY <1>1, <1>2 DEF TypeOK, store, subs
<1>4. StoreMatchesTip' /\ StoredChainsValid' /\ SubscribersFollow' /\ (Genesis \in entries)'
  BY <1>1 DEF StoreMatchesTip, StoredChainsValid, SubscribersFollow, store, subs
<1>5. ReorgOK'
  BY <1>1 DEF ReorgOK, Reorging
<1> QED
  BY <1>2, <1>3, <1>4, <1>5

\* When the tip, the store and the scratch chains stay as they are, only the
\* job has to be looked at.
LEMMA JobOnlyInv ==
  ASSUME Inv, UNCHANGED <<store, cs, chains, subs, early>>,
         job' \in Jobs, lost' \in BOOLEAN,
         (job.pc \notin {"idle", "panic"} => job.chain \in DOMAIN chains)',
         ReorgOK'
  PROVE  Inv'
<1>1. TypeOK'
  <2>1. lost' \in BOOLEAN
    OBVIOUS
  <2> QED
    BY <2>1 DEF Inv, TypeOK, store, subs
<1>2. StoreMatchesTip' /\ StoredChainsValid' /\ SubscribersFollow' /\ (Genesis \in entries)'
  BY DEF Inv, StoreMatchesTip, StoredChainsValid, SubscribersFollow, store, subs
<1>3. ChainsOK'
  BY DEF Inv, ChainsOK, store
<1> QED
  BY <1>1, <1>2 DEF Inv, ChainsOK, store

LEMMA IdleJob == Idle \in Jobs /\ Idle.pc = "idle"
  BY GenesisAssumption DEF Idle, Jobs

LEMMA AddBlocksInv ==
  ASSUME Inv, NEW p \in Blocks, NEW t \in Blocks, AddBlocks(p, t)
  PROVE  Inv'
<1> DEFINE blocks == PathFrom(p, t)
<1>1. PICK i \in Accepting(Head(blocks)) :
        job' = IF Height(chains[i].ts) - Height(p) > Len(blocks)
               THEN [Idle EXCEPT !.pc = "panic"]
               ELSE [Idle EXCEPT !.pc = "blocks", !.chain = i,
                                 !.todo = SubSeq(blocks, Height(chains[i].ts) - Height(p) + 1,
                                                         Len(blocks))]
  BY DEF AddBlocks
<1>2. i \in DOMAIN chains /\ i \in Nat /\ Height(Head(blocks)) - 1 <= Height(chains[i].ts)
  BY DEF Accepting, Inv, TypeOK
<1>3. /\ Len(ChainOf[p]) \in 1 .. Len(ChainOf[t]) /\ p # t
      /\ ChainOf[t] \in Seq(Blocks)
      /\ ChainOf[p] = SubSeq(ChainOf[t], 1, Len(ChainOf[p]))
  BY OnChainPrefix, ChainShape DEF AddBlocks
<1>4. Len(ChainOf[p]) < Len(ChainOf[t])
  <2>1. ChainOf[t][Len(ChainOf[p])] = p
    BY <1>3, ChainShape
  <2> QED
    BY <1>3, <2>1, ChainShape
<1>5. /\ blocks \in Seq(Blocks) /\ Head(blocks) = ChainOf[t][Len(ChainOf[p]) + 1]
  BY <1>3, <1>4 DEF PathFrom
<1>6. Len(ChainOf[Head(blocks)]) = Len(ChainOf[p]) + 1
  <2>1. Len(ChainOf[p]) + 1 \in 2 .. Len(ChainOf[t])
    BY <1>3, <1>4
  <2>2. Len(ChainOf[ChainOf[t][Len(ChainOf[p]) + 1]]) = Len(ChainOf[p]) + 1
    BY <2>1, AboveIsChild
  <2> QED
    BY <2>2, <1>5
<1>7. Len(ChainOf[chains[i].ts]) \in Nat
  BY <1>2, ChainShape, ChainType DEF Inv
<1>8. Height(chains[i].ts) - Height(p) + 1 \in Nat \ {0}
  BY <1>2, <1>3, <1>6, <1>7 DEF Height
<1>9. job' \in Jobs
  <2>1. CASE job' = [Idle EXCEPT !.pc = "panic"]
    BY <2>1, IdleJob DEF Jobs, Idle
  <2>2. CASE job' = [Idle EXCEPT !.pc = "blocks", !.chain = i,
                                 !.todo = SubSeq(blocks, Height(chains[i].ts) - Height(p) + 1,
                                                         Len(blocks))]
    <3>1. SubSeq(blocks, Height(chains[i].ts) - Height(p) + 1, Len(blocks)) \in Seq(Blocks)
      <4> HIDE DEF blocks
      <4> DEFINE k == Height(chains[i].ts) - Height(p) + 1
      <4>1. k \in Nat \ {0}
        BY <1>8
      <4> HIDE DEF k
      <4>2. SubSeq(blocks, k, Len(blocks)) \in Seq(Blocks)
        BY <1>5, <4>1
      <4> QED
        BY <4>2 DEF k
    <3> QED
      BY <2>2, <3>1, <1>2, IdleJob DEF Jobs, Idle
  <2> QED
    BY <1>1, <2>1, <2>2
<1>10. /\ job'.pc = "panic" \/ (job'.pc = "blocks" /\ job'.chain = i)
       /\ job'.rebase = <<>>
  BY <1>1 DEF Idle
<1>11. UNCHANGED <<store, cs, chains, subs, early, lost>>
  BY DEF AddBlocks
<1>12. (job.pc \notin {"idle", "panic"} => job.chain \in DOMAIN chains)'
  BY <1>2, <1>10, <1>11
<1>13. ReorgOK'
  BY <1>10 DEF ReorgOK, Reorging
<1>14. lost' \in BOOLEAN
  BY <1>11 DEF Inv, TypeOK
<1> QED
  BY <1>9, <1>11, <1>12, <1>13, <1>14, JobOnlyInv

\* The steps that end a call without touching anything else.
LEMMA ReturnInv ==
  ASSUME Inv, RefuseBlock \/ ReorgFails \/ ReorgPanics
  PROVE  Inv'
<1>1. /\ UNCHANGED <<store, cs, chains, subs, early>>
      /\ job' = Idle \/ job' = [Idle EXCEPT !.pc = "panic"]
  BY DEF RefuseBlock, ReorgFails, ReorgPanics
<1>2. lost' \in BOOLEAN
  BY Zenon DEF RefuseBlock, ReorgFails, ReorgPanics, Inv, TypeOK
<1>3. job' \in Jobs /\ job'.pc \in {"idle", "panic"} /\ job'.rebase = <<>>
  <2>1. CASE job' = Idle
    BY <2>1, IdleJob DEF Idle
  <2>2. CASE job' = [Idle EXCEPT !.pc = "panic"]
    BY <2>2, IdleJob DEF Jobs, Idle
  <2> QED
    BY <1>1, <2>1, <2>2
<1>4. ReorgOK'
  BY <1>3 DEF ReorgOK, Reorging
<1> QED
  BY <1>1, <1>2, <1>3, <1>4, JobOnlyInv

\* A block that a scratch chain takes is valid on a stored block, and is
\* stored itself.
LEMMA TakeBlockFacts ==
  ASSUME Inv, NEW b \in Blocks, TakeBlock(b), entries' = entries \cup {b}
  PROVE  /\ job.chain \in DOMAIN chains /\ Current.ts \in entries
         /\ b \in Children /\ Parent[b] = Current.ts /\ ValidateBlock(Current.ts, b)
         /\ chains' \in Seq(ScratchChains) /\ DOMAIN chains' = DOMAIN chains
         /\ chains'[job.chain].ts = b /\ chains'[job.chain].base = Current.base
         /\ ChainsOK' /\ StoredChainsValid' /\ entries' \subseteq Blocks
<1> USE DEF Inv
<1> DEFINE i == job.chain
           sc == ApplyBlock(Current, b)
<1>1. i \in DOMAIN chains /\ chains' = [chains EXCEPT ![i] = sc]
  BY DEF TakeBlock, TypeOK
<1>2. Current.ts \in entries /\ OnChain(Current.base, Current.hs) /\ Current.base \in entries
  BY <1>1 DEF ChainsOK, Current
<1>3. ValidateBlock(Current.ts, b)
  BY DEF TakeBlock, CanApplyBlock
<1>4. b \in Children /\ Parent[b] = Current.ts /\ b \in HeaderOK \cap BodyOK
  BY <1>3 DEF ValidateBlock, Children
<1>5. /\ sc \in ScratchChains /\ sc.ts = b
      /\ sc.base = Current.base /\ sc.hs = Current.hs
  BY <1>1, ChainType DEF ApplyBlock, Current, ScratchChains
<1> HIDE DEF sc
<1>6. chains' \in Seq(ScratchChains) /\ DOMAIN chains' = DOMAIN chains
  BY <1>1, <1>5 DEF TypeOK
<1>7. \A j \in DOMAIN chains : chains'[j] = IF j = i THEN sc ELSE chains[j]
  BY <1>1 DEF TypeOK
<1>8. ChainsOK'
  BY <1>2, <1>5, <1>6, <1>7 DEF ChainsOK
<1>9. StoredChainsValid'
  BY <1>2, <1>4 DEF StoredChainsValid
<1> QED
  BY <1>1, <1>2, <1>3, <1>4, <1>5, <1>6, <1>7, <1>8, <1>9 DEF TypeOK

\* The job after one of its blocks is done.
LEMMA TodoType ==
  ASSUME TypeOK, job.todo # <<>>
  PROVE  [job EXCEPT !.todo = Tail(job.todo)] \in Jobs
<1>1. job \in Jobs /\ job.todo \in Seq(Blocks)
  BY DEF TypeOK, Jobs
<1>2. Tail(job.todo) \in Seq(Blocks)
  BY <1>1
<1> QED
  BY <1>1, <1>2 DEF Jobs

\* The fields that a step of reorgTo sets in the job.
LEMMA JobFields ==
  ASSUME NEW j \in Jobs, NEW todo \in Seq(Blocks), NEW rebase \in Seq(Blocks), NEW at \in Blocks
  PROVE  /\ [j EXCEPT !.pc = "blocks", !.todo = todo, !.rebase = rebase, !.at = at] \in Jobs
         /\ [j EXCEPT !.rebase = rebase, !.at = at] \in Jobs
         /\ [j EXCEPT !.rebase = rebase] \in Jobs
  BY DEF Jobs

LEMMA KeepValidatingInv ==
  ASSUME Inv, NEW b \in Blocks, KeepValidating(b)
  PROVE  Inv'
<1>1. /\ TakeBlock(b) /\ entries' = entries \cup {b}
      /\ job' = [job EXCEPT !.todo = Tail(job.todo)] /\ job.pc = "blocks" /\ job.todo # <<>>
      /\ UNCHANGED <<best, flushed, cs, subs, early, lost>>
  BY DEF KeepValidating, TakeBlock
<1>2. /\ job.chain \in DOMAIN chains /\ DOMAIN chains' = DOMAIN chains
      /\ chains' \in Seq(ScratchChains)
      /\ ChainsOK' /\ StoredChainsValid' /\ entries' \subseteq Blocks
  BY <1>1, TakeBlockFacts
<1>3. job' \in Jobs /\ job'.pc = "blocks" /\ job'.chain = job.chain
      /\ job'.rebase = <<>>
  BY <1>1, TodoType DEF Inv, TypeOK, Jobs, ReorgOK, Reorging
<1>4. TypeOK'
  <2>1. lost' \in BOOLEAN
    BY <1>1 DEF Inv, TypeOK
  <2> QED
    BY <2>1, <1>1, <1>2, <1>3 DEF Inv, TypeOK, subs
<1>5. StoreMatchesTip' /\ SubscribersFollow' /\ (Genesis \in entries)'
  BY <1>1 DEF Inv, StoreMatchesTip, SubscribersFollow, subs
<1>6. ReorgOK'
  BY <1>3 DEF ReorgOK, Reorging
<1> QED
  BY <1>2, <1>4, <1>5, <1>6 DEF Inv

LEMMA ApplyToTipInv ==
  ASSUME Inv, NEW b \in Blocks, ApplyToTip(b)
  PROVE  Inv'
<1>1. /\ TakeBlock(b) /\ ExtendTo(b, entries \cup {b}) /\ Parent[b] = cs
      /\ job' = [job EXCEPT !.todo = Tail(job.todo)] /\ job.pc = "blocks" /\ job.todo # <<>>
      /\ UNCHANGED <<early, lost>>
  BY DEF ApplyToTip, TakeBlock
<1>2. entries' = entries \cup {b}
  BY <1>1 DEF ExtendTo
<1>3. /\ job.chain \in DOMAIN chains /\ DOMAIN chains' = DOMAIN chains
      /\ chains' \in Seq(ScratchChains) /\ b \in Children
      /\ ChainsOK' /\ StoredChainsValid' /\ entries' \subseteq Blocks
  BY <1>1, <1>2, TakeBlockFacts
<1>4. job' \in Jobs /\ job'.pc = "blocks" /\ job'.chain = job.chain
      /\ job'.rebase = <<>>
  BY <1>1, TodoType DEF Inv, TypeOK, Jobs, ReorgOK, Reorging
<1>5. /\ StoreMatchesTip' /\ SubscribersFollow'
      /\ best' \in Seq(Blocks) /\ cs' \in Blocks
      /\ view' \in [Subscribers -> Seq(Blocks)]
      /\ flushed' \in [tip : Blocks, entries : SUBSET Blocks]
      /\ committed' \in [Subscribers -> Blocks]
      /\ subscribed' = subscribed
  BY <1>1, <1>2, <1>3, ExtendToFollows DEF Inv
<1>6. TypeOK'
  <2>1. lost' \in BOOLEAN
    BY <1>1 DEF Inv, TypeOK
  <2> QED
    BY <2>1, <1>1, <1>3, <1>4, <1>5 DEF Inv, TypeOK
<1>7. ReorgOK'
  BY <1>4 DEF ReorgOK, Reorging
<1> QED
  BY <1>2, <1>3, <1>5, <1>6, <1>7 DEF Inv

\* The chain that overtakes the tip starts its rebase at its base.
LEMMA StartReorgInv ==
  ASSUME Inv, NEW b \in Blocks, StartReorg(b)
  PROVE  Inv'
<1>1. /\ TakeBlock(b) /\ entries' = entries \cup {b}
      /\ job' = [job EXCEPT !.pc = "rebase", !.at = Current.base]
      /\ job.pc = "blocks" /\ job.todo # <<>>
      /\ UNCHANGED <<best, flushed, cs, subs, early, lost>>
  BY DEF StartReorg, TakeBlock
<1>2. /\ job.chain \in DOMAIN chains /\ DOMAIN chains' = DOMAIN chains
      /\ chains' \in Seq(ScratchChains) /\ chains'[job.chain].base = Current.base
      /\ ChainsOK' /\ StoredChainsValid' /\ entries' \subseteq Blocks
  BY <1>1, TakeBlockFacts
<1>3. Current.base \in Blocks /\ Current.base \in entries
  BY <1>2, ChainType DEF Inv, ChainsOK, Current
<1>4. /\ job' \in Jobs /\ job'.pc = "rebase" /\ job'.chain = job.chain
      /\ job'.at = Current.base /\ job'.rebase = job.rebase /\ job'.todo = job.todo
  BY <1>1, <1>3 DEF Inv, TypeOK, Jobs
<1>5. TypeOK'
  <2>1. lost' \in BOOLEAN
    BY <1>1 DEF Inv, TypeOK
  <2> QED
    BY <2>1, <1>1, <1>2, <1>4 DEF Inv, TypeOK, subs
<1>6. StoreMatchesTip' /\ SubscribersFollow' /\ (Genesis \in entries)'
  BY <1>1 DEF Inv, StoreMatchesTip, SubscribersFollow, subs
<1>7. ReorgOK'
  <2>1. job.rebase = <<>>
    BY <1>1 DEF Inv, ReorgOK, Reorging
  <2>2. Current' .base = Current.base
    BY <1>2, <1>4 DEF Current
  <2>3. RebaseOK'
    BY <1>4, <2>1, <2>2 DEF RebaseOK
  <2> QED
    BY <1>1, <1>3, <1>4, <2>3 DEF ReorgOK, Reorging
<1> QED
  BY <1>2, <1>5, <1>6, <1>7 DEF Inv

\* Dropping an element of a sequence keeps the others, in order.
LEMMA RemoveAt ==
  ASSUME NEW S, NEW s \in Seq(S), NEW i \in 1 .. Len(s)
  PROVE  LET t == SubSeq(s, 1, i - 1) \o SubSeq(s, i + 1, Len(s))
         IN  /\ t \in Seq(S) /\ Len(t) = Len(s) - 1
             /\ \A j \in 1 .. Len(t) : t[j] = IF j < i THEN s[j] ELSE s[j + 1]
<1> DEFINE n  == Len(s)
           lo == SubSeq(s, 1, i - 1)
           hi == SubSeq(s, i + 1, n)
<1>1. n \in Nat /\ i \in Nat /\ 1 <= i /\ i <= n
  OBVIOUS
<1>2. lo \in Seq(S) /\ Len(lo) = i - 1 /\ \A j \in 1 .. i - 1 : lo[j] = s[j]
  OBVIOUS
<1>3. hi \in Seq(S) /\ Len(hi) = n - i /\ \A j \in 1 .. n - i : hi[j] = s[i + j]
  OBVIOUS
<1> HIDE DEF n, lo, hi
<1>4. /\ lo \o hi \in Seq(S) /\ Len(lo \o hi) = Len(lo) + Len(hi)
      /\ \A j \in 1 .. Len(lo) + Len(hi) :
           (lo \o hi)[j] = IF j <= Len(lo) THEN lo[j] ELSE hi[j - Len(lo)]
  BY <1>2, <1>3, ConcatProperties
<1>5. Len(lo) + Len(hi) = n - 1
  BY <1>1, <1>2, <1>3
<1>6. ASSUME NEW j \in 1 .. n - 1 PROVE (lo \o hi)[j] = IF j < i THEN s[j] ELSE s[j + 1]
  <2>1. CASE j < i
    BY <2>1, <1>1, <1>2, <1>4, <1>5
  <2>2. CASE ~(j < i)
    <3> DEFINE k == j - (i - 1)
    <3>1. k \in 1 .. n - i /\ i + k = j + 1
      BY <2>2, <1>1
    <3>2. (lo \o hi)[j] = hi[k]
      BY <2>2, <1>1, <1>2, <1>4, <1>5
    <3> HIDE DEF k
    <3> QED
      BY <2>2, <3>1, <3>2, <1>3
  <2> QED
    BY <2>1, <2>2
<1>7. /\ lo \o hi \in Seq(S) /\ Len(lo \o hi) = n - 1
      /\ \A j \in 1 .. Len(lo \o hi) : (lo \o hi)[j] = IF j < i THEN s[j] ELSE s[j + 1]
  BY <1>4, <1>5, <1>6
<1> QED
  BY <1>7 DEF n, lo, hi

LEMMA FinishBlocksInv ==
  ASSUME Inv, FinishBlocks
  PROVE  Inv'
<1>1. /\ job.pc = "blocks" /\ job' = Idle
      /\ UNCHANGED <<store, cs, subs, early, lost>>
  BY DEF FinishBlocks
<1> DEFINE i == job.chain
<1>2. i \in DOMAIN chains /\ chains \in Seq(ScratchChains) /\ i \in 1 .. Len(chains)
  BY <1>1 DEF Inv, TypeOK
<1>3. /\ chains' \in Seq(ScratchChains)
      /\ \A j \in DOMAIN chains' : \E k \in DOMAIN chains : chains'[j] = chains[k]
  <2>1. CASE chains' = chains
    BY <2>1, <1>2
  <2>2. CASE chains' = SubSeq(chains, 1, i - 1) \o SubSeq(chains, i + 1, Len(chains))
    <3>1. /\ chains' \in Seq(ScratchChains) /\ Len(chains') = Len(chains) - 1
          /\ \A j \in 1 .. Len(chains') : chains'[j] = chains[j] \/ chains'[j] = chains[j + 1]
      BY <2>2, <1>2, RemoveAt
    <3>2. ASSUME NEW j \in 1 .. Len(chains')
          PROVE  \E k \in DOMAIN chains : chains'[j] = chains[k]
      <4>1. j \in DOMAIN chains /\ j + 1 \in DOMAIN chains
        BY <3>1, <1>2
      <4> QED
        BY <4>1, <3>1
    <3> QED
      BY <3>1, <3>2
  <2> QED
    BY <2>1, <2>2 DEF FinishBlocks
<1>4. job' \in Jobs /\ job'.pc = "idle" /\ job'.rebase = <<>>
  BY <1>1, IdleJob DEF Idle
<1>5. TypeOK'
  <2>1. lost' \in BOOLEAN
    BY <1>1 DEF Inv, TypeOK
  <2> QED
    BY <2>1, <1>1, <1>3, <1>4 DEF Inv, TypeOK, store, subs
<1>6. StoreMatchesTip' /\ StoredChainsValid' /\ SubscribersFollow' /\ (Genesis \in entries)'
  BY <1>1 DEF Inv, StoreMatchesTip, StoredChainsValid, SubscribersFollow, store, subs
<1>7. ChainsOK'
  BY <1>1, <1>3 DEF Inv, ChainsOK, store
<1>8. ReorgOK'
  BY <1>4 DEF ReorgOK, Reorging
<1> QED
  BY <1>5, <1>6, <1>7, <1>8 DEF Inv

\* The rebase path grows down from the base until it meets the best chain,
\* at Genesis at the latest.
LEMMA RebaseInv ==
  ASSUME Inv, Rebase
  PROVE  Inv'
<1> DEFINE r == job.rebase
           at == job.at
<1>1. /\ job.pc = "rebase" /\ job.todo # <<>> /\ at \in entries /\ RebaseOK /\ job \in Jobs
      /\ at \in Blocks /\ r \in Seq(Blocks) /\ job.chain \in DOMAIN chains
      /\ UNCHANGED <<store, cs, chains, subs, early, lost>>
  BY DEF Rebase, Inv, ReorgOK, Reorging, TypeOK, Jobs
<1>2. lost' \in BOOLEAN
  BY <1>1 DEF Inv, TypeOK
<1>3. CASE OnBest(at)
  <2>1. job' = [job EXCEPT !.pc = "revert"]
    BY <1>3 DEF Rebase
  <2>2. /\ job' \in Jobs /\ job'.pc = "revert" /\ job'.at = at /\ job'.rebase = r
        /\ job'.chain = job.chain /\ job'.todo = job.todo
    BY <2>1, <1>1 DEF Jobs
  <2>3. OnChain(at, cs)
    BY <1>3, <1>1, ChainShape DEF OnBest, OnChain, IndexAt, Height, Inv, StoreMatchesTip, TypeOK
  <2>4. RebaseOK'
    BY <1>1, <2>2 DEF RebaseOK, Front, Current, store
  <2>5. ReorgOK'
    BY <1>1, <2>2, <2>3, <2>4 DEF ReorgOK, Reorging, store
  <2> QED
    BY <1>1, <1>2, <2>2, <2>5, JobOnlyInv
<1>4. CASE ~OnBest(at)
  <2>1. job' = [job EXCEPT !.rebase = Append(r, at), !.at = Parent[at]]
    BY <1>4 DEF Rebase
  <2>2. at # Genesis
    <3>1. best = ChainOf[cs] /\ cs \in Blocks
      BY DEF Inv, StoreMatchesTip, TypeOK
    <3>2. OnBest(Genesis)
      BY <3>1, ChainShape, ChainAssumption, ChainStartsAtGenesis, GenesisAssumption
      DEF OnBest, Height
    <3> QED
      BY <3>2, <1>4
  <2>3. Parent[at] \in entries /\ Parent[at] \in Blocks
    BY <1>1, <2>2 DEF Inv, StoredChainsValid, TypeOK
  <2>4. /\ job' \in Jobs /\ job'.pc = "rebase" /\ job'.at = Parent[at]
        /\ job'.rebase = Append(r, at) /\ job'.chain = job.chain /\ job'.todo = job.todo
    <3>1. Append(r, at) \in Seq(Blocks)
      BY <1>1
    <3>2. job' \in Jobs
      BY <3>1, <2>1, <2>3, <1>1, JobFields
    <3> QED
      BY <3>2, <2>1, <1>1 DEF Jobs
  <2>5. RebaseOK'
    <3> DEFINE q == Append(r, at)
    <3>1. /\ Len(q) = Len(r) + 1 /\ Len(r) \in Nat /\ q # <<>>
          /\ \A k \in 1 .. Len(r) : q[k] = r[k]
          /\ q[Len(r) + 1] = at
      BY <1>1
    <3>2. \A k \in 1 .. Len(q) : q[k] \in entries \ {Genesis}
      BY <3>1, <1>1, <2>2 DEF RebaseOK
    <3>3. \A k \in 1 .. Len(q) - 1 : Parent[q[k]] = q[k + 1]
      <4>1. ASSUME NEW k \in 1 .. Len(r) PROVE Parent[r[k]] = q[k + 1]
        <5>1. CASE k = Len(r)
          BY <5>1, <3>1, <1>1 DEF RebaseOK, Front
        <5>2. CASE k < Len(r)
          BY <5>2, <3>1, <1>1 DEF RebaseOK
        <5> QED
          BY <5>1, <5>2, <3>1
      <4> QED
        BY <4>1, <3>1
    <3>4. Parent[q[Len(q)]] = Parent[at]
      BY <3>1
    <3>5. q[1] = Current.base
      BY <3>1, <1>1 DEF RebaseOK
    <3> HIDE DEF q
    <3>6. job'.rebase = q /\ Front' = Parent[at] /\ Current' = Current /\ entries' = entries
      BY <2>4, <1>1 DEF q, Front, Current, store
    <3> QED
      BY <3>1, <3>2, <3>3, <3>4, <3>5, <3>6 DEF RebaseOK
  <2>6. ReorgOK'
    BY <1>1, <2>3, <2>4, <2>5 DEF ReorgOK, Reorging, store
  <2> QED
    BY <1>1, <1>2, <2>4, <2>6, JobOnlyInv
<1> QED
  BY <1>3, <1>4

LEMMA BranchReachedInv ==
  ASSUME Inv, BranchReached
  PROVE  Inv'
<1>1. /\ job.pc = "revert" /\ job.todo # <<>> /\ cs = job.at /\ RebaseOK /\ job.at \in entries
      /\ job' = [job EXCEPT !.pc = "apply"] /\ job \in Jobs
      /\ job.chain \in DOMAIN chains /\ cs \in Blocks
      /\ UNCHANGED <<store, cs, chains, subs, early, lost>>
  BY DEF BranchReached, Inv, ReorgOK, Reorging, TypeOK
<1>2. /\ job' \in Jobs /\ job'.pc = "apply" /\ job'.at = job.at
      /\ job'.rebase = job.rebase /\ job'.chain = job.chain /\ job'.todo = job.todo
  BY <1>1 DEF Jobs
<1>3. lost' \in BOOLEAN
  BY <1>1 DEF Inv, TypeOK
<1>4. OnChain(Current.base, Current.hs)
  BY <1>1 DEF Inv, ChainsOK, Current
<1>5. RebaseOK'
  BY <1>1, <1>2, <1>4 DEF RebaseOK, Front, Current, store
<1>6. ReorgOK'
  BY <1>1, <1>2, <1>5 DEF ReorgOK, Reorging, store
<1> QED
  BY <1>1, <1>2, <1>3, <1>6, JobOnlyInv

LEMMA ReorgDoneInv ==
  ASSUME Inv, ReorgDone
  PROVE  Inv'
<1>1. /\ job.pc = "apply" /\ job.todo # <<>> /\ job.chain \in DOMAIN chains /\ job \in Jobs
      /\ job' = [job EXCEPT !.pc = "blocks", !.todo = Tail(job.todo),
                            !.rebase = <<>>, !.at = Genesis]
      /\ UNCHANGED <<store, cs, chains, subs, early, lost>>
  BY DEF ReorgDone, Inv, TypeOK, ReorgOK, Reorging
<1>2. job.todo \in Seq(Blocks) /\ Tail(job.todo) \in Seq(Blocks)
  BY <1>1 DEF Jobs
<1>3. job' \in Jobs /\ job'.pc = "blocks" /\ job'.chain = job.chain /\ job'.rebase = <<>>
  <2>1. <<>> \in Seq(Blocks) /\ Genesis \in Blocks
    BY GenesisAssumption
  <2>2. job' \in Jobs
    BY <2>1, <1>1, <1>2, JobFields
  <2> QED
    BY <2>2, <1>1 DEF Jobs
<1>4. lost' \in BOOLEAN
  BY <1>1 DEF Inv, TypeOK
<1>5. ReorgOK'
  BY <1>3 DEF ReorgOK, Reorging
<1> QED
  BY <1>1, <1>3, <1>4, <1>5, JobOnlyInv

\* Reverting the tip takes the same block off the store's best chain and off
\* what each subscriber has been told.
LEMMA RevertTipInv ==
  ASSUME Inv, RevertTip
  PROVE  Inv'
<1>1. /\ job.pc = "revert" /\ cs # job.at /\ NotifyRevert
      /\ best' = ButLast(best) /\ cs' = Parent[cs]
      /\ UNCHANGED <<entries, flushed, chains, subscribed, committed, early, job, lost>>
  BY DEF RevertTip
<1>2. /\ OnChain(job.at, cs) /\ job.at \in Blocks /\ cs \in Blocks /\ cs \in entries
      /\ best = ChainOf[cs]
  BY <1>1 DEF Inv, ReorgOK, Reorging, TypeOK, StoreMatchesTip
<1>3. cs # Genesis /\ OnChain(job.at, cs')
  BY <1>1, <1>2, OnParentChain
<1>4. ButLast(ChainOf[cs]) = ChainOf[cs'] /\ cs' \in Blocks /\ ChainOf[cs'] \in Seq(Blocks)
  BY <1>1, <1>2, <1>3, ChildChain, ChainShape DEF ButLast
<1>5. StoreMatchesTip'
  BY <1>1, <1>2, <1>3, <1>4 DEF StoreMatchesTip, Inv, StoredChainsValid
<1>6. \A s \in subscribed : view'[s] = ButLast(best)
  BY <1>1 DEF NotifyRevert, Inv, SubscribersFollow, TypeOK
<1>7. SubscribersFollow'
  BY <1>1, <1>6 DEF SubscribersFollow
<1>8. view' \in [Subscribers -> Seq(Blocks)]
  <2>1. \A s \in Subscribers : s \in subscribed => ButLast(view[s]) \in Seq(Blocks)
    BY <1>2, <1>4 DEF Inv, SubscribersFollow
  <2> QED
    BY <2>1, <1>1 DEF NotifyRevert, Inv, TypeOK
<1>9. TypeOK'
  <2>1. lost' \in BOOLEAN
    BY <1>1 DEF Inv, TypeOK
  <2> QED
    BY <2>1, <1>1, <1>2, <1>4, <1>8 DEF Inv, TypeOK
<1>10. StoredChainsValid' /\ ChainsOK' /\ (Genesis \in entries)'
  BY <1>1 DEF Inv, StoredChainsValid, ChainsOK
<1>11. RebaseOK'
  BY <1>1 DEF Inv, ReorgOK, Reorging, RebaseOK, Front, Current
<1>12. ReorgOK'
  BY <1>1, <1>3, <1>11 DEF Inv, ReorgOK, Reorging
<1> QED
  BY <1>5, <1>7, <1>9, <1>10, <1>12 DEF Inv

\* The headers of the running call's chain above the tip.
LEMMA NextHeader ==
  ASSUME Inv, job.pc = "apply", HasNext, job.rebase = <<>>
  PROVE  NextIndex \in Children /\ Parent[NextIndex] = cs /\ OnChain(NextIndex, Current.hs)
<1> DEFINE hs == Current.hs
           n  == Len(ChainOf[cs]) + 1
<1>1. hs \in Blocks /\ cs \in Blocks /\ OnChain(cs, hs)
  BY ChainType DEF Inv, TypeOK, ReorgOK, Reorging, RebaseOK, Current
<1>2. /\ Len(ChainOf[cs]) \in Nat \ {0} /\ Len(ChainOf[hs]) \in Nat \ {0}
      /\ ChainOf[hs][Len(ChainOf[cs])] = cs
  BY <1>1, ChainShape DEF OnChain, Height, IndexAt
<1>3. n \in 2 .. Len(ChainOf[hs])
  BY <1>2 DEF HasNext, HasIndex, Height
<1>4. NextIndex = ChainOf[hs][n]
  BY <1>2 DEF NextIndex, ScIndex, IndexAt, Height
<1>5. NextIndex \in Children /\ Parent[NextIndex] = ChainOf[hs][n - 1] /\ Len(ChainOf[NextIndex]) = n
  BY <1>1, <1>3, <1>4, AboveIsChild
<1>6. OnChain(NextIndex, hs)
  BY <1>2, <1>3, <1>4, <1>5 DEF OnChain, Height, IndexAt
<1> QED
  BY <1>2, <1>5, <1>6

\* What reorgTo hands to applyTip attaches to the tip.
LEMMA NextAttaches ==
  ASSUME Inv, job.pc = "apply", HasNext, NextIndex \in entries
  PROVE  NextIndex \in Children /\ Parent[NextIndex] = cs
<1>1. CASE job.rebase = <<>>
  BY <1>1, NextHeader
<1>2. CASE job.rebase # <<>>
  <2>1. RebaseOK /\ job.rebase \in Seq(Blocks) /\ Len(job.rebase) \in 1 .. Len(job.rebase)
    BY <1>2 DEF Inv, TypeOK, Jobs, ReorgOK, Reorging
  <2>2. NextIndex = job.rebase[Len(job.rebase)]
    BY <1>2 DEF NextIndex
  <2> QED
    BY <1>2, <2>1, <2>2 DEF RebaseOK, Front, Inv, TypeOK, Children
<1> QED
  BY <1>1, <1>2

LEMMA ApplyTipInv ==
  ASSUME Inv, ApplyTip
  PROVE  Inv'
<1> DEFINE b == NextIndex
           r == job.rebase
           q == IF r # <<>> THEN ButLast(r) ELSE r
<1>1. /\ job.pc = "apply" /\ HasNext /\ b \in entries /\ ExtendTo(b, entries)
      /\ job' = [job EXCEPT !.rebase = q]
      /\ UNCHANGED <<chains, early, lost>>
  BY DEF ApplyTip
<1>2. /\ RebaseOK /\ r \in Seq(Blocks) /\ job \in Jobs /\ job.todo # <<>> /\ job.at \in entries
      /\ job.chain \in DOMAIN chains /\ entries \subseteq Blocks
  BY <1>1 DEF Inv, ReorgOK, Reorging, TypeOK, Jobs
<1>3. b \in Children /\ Parent[b] = cs
  BY <1>1, NextAttaches
<1>4. /\ StoreMatchesTip' /\ SubscribersFollow'
      /\ best' \in Seq(Blocks) /\ cs' \in Blocks
      /\ view' \in [Subscribers -> Seq(Blocks)]
      /\ flushed' \in [tip : Blocks, entries : SUBSET Blocks]
      /\ committed' \in [Subscribers -> Blocks]
      /\ subscribed' = subscribed
  BY <1>1, <1>2, <1>3, ExtendToFollows DEF Inv
<1>5. entries' = entries /\ cs' = b
  BY <1>1 DEF ExtendTo
<1>6. q \in Seq(Blocks)
  BY <1>2 DEF ButLast
<1>7. job' \in Jobs
  BY <1>1, <1>2, <1>6, JobFields
<1>8. /\ job'.pc = "apply" /\ job'.at = job.at /\ job'.rebase = q
      /\ job'.chain = job.chain /\ job'.todo = job.todo
  BY <1>1, <1>2 DEF Jobs
<1>9. Current' = Current
  BY <1>1, <1>8 DEF Current
<1>10. RebaseOK'
  <2>1. CASE r = <<>>
    <3>1. OnChain(b, Current.hs)
      BY <1>1, <2>1, NextHeader
    <3>2. q = <<>>
      BY <2>1
    <3> QED
      BY <3>1, <3>2, <1>5, <1>8, <1>9 DEF RebaseOK
  <2>2. CASE r # <<>>
    <3>1. b = r[Len(r)]
      BY <2>2 DEF NextIndex
    <3>2. Len(r) \in Nat \ {0} /\ Len(q) = Len(r) - 1 /\ \A k \in 1 .. Len(r) - 1 : q[k] = r[k]
      BY <2>2, <1>2 DEF ButLast
    <3>3. \A k \in 1 .. Len(q) : q[k] \in entries \ {Genesis}
      BY <3>2, <1>2 DEF RebaseOK
    <3>4. \A k \in 1 .. Len(q) - 1 : Parent[q[k]] = q[k + 1]
      BY <3>2, <1>2 DEF RebaseOK
    <3>5. q # <<>> => Len(q) \in 1 .. Len(r) - 1
      BY <1>6, <3>2
    <3>6. q # <<>> => Parent[q[Len(q)]] = b
      BY <3>1, <3>2, <3>5, <1>2 DEF RebaseOK
    <3>7. q # <<>> => q[1] = Current.base
      BY <2>2, <3>2, <3>5, <1>2 DEF RebaseOK
    <3>8. q = <<>> => OnChain(b, Current.hs)
      <4> SUFFICES ASSUME q = <<>> PROVE OnChain(b, Current.hs)
        OBVIOUS
      <4>1. Len(r) = 1
        <5> HIDE DEF q, r
        <5>1. Len(q) = 0
          BY Len(<<>>) = 0
        <5> QED
          BY <5>1, <3>2
      <4>2. b = Current.base
        BY <4>1, <3>1, <2>2, <1>2 DEF RebaseOK
      <4> QED
        BY <4>2, <1>2 DEF Inv, ChainsOK, Current
    <3> HIDE DEF q, b
    <3>9. Front' = b
      BY <1>5, <1>8 DEF Front
    <3> QED
      BY <3>3, <3>4, <3>6, <3>7, <3>8, <3>9, <1>5, <1>8, <1>9 DEF RebaseOK
  <2> QED
    BY <2>1, <2>2
<1>11. ReorgOK'
  BY <1>2, <1>5, <1>8, <1>10 DEF ReorgOK, Reorging
<1> HIDE DEF b
<1>12. TypeOK'
  <2>1. lost' \in BOOLEAN
    BY <1>1 DEF Inv, TypeOK
  <2> QED
    BY <2>1, <1>1, <1>2, <1>4, <1>5, <1>7, <1>8 DEF Inv, TypeOK
<1>13. StoredChainsValid' /\ ChainsOK' /\ (Genesis \in entries)'
  BY <1>1, <1>5 DEF Inv, StoredChainsValid, ChainsOK
<1> QED
  BY <1>4, <1>11, <1>12, <1>13 DEF Inv

LEMMA AddTipBlockInv ==
  ASSUME Inv, NEW b \in Blocks, AddTipBlock(b)
  PROVE  Inv'
<1>1. /\ job.pc = "idle" /\ ValidateBlock(cs, b) /\ ExtendTo(b, entries \cup {b})
      /\ UNCHANGED <<chains, early, job, lost>>
  BY DEF AddTipBlock
<1>2. b \in Children /\ Parent[b] = cs /\ b \in HeaderOK \cap BodyOK
  BY <1>1 DEF ValidateBlock, Children
<1>3. entries' = entries \cup {b} /\ entries' \subseteq Blocks
  BY <1>1 DEF ExtendTo, Inv, TypeOK
<1>4. /\ StoreMatchesTip' /\ SubscribersFollow'
      /\ best' \in Seq(Blocks) /\ cs' \in Blocks
      /\ view' \in [Subscribers -> Seq(Blocks)]
      /\ flushed' \in [tip : Blocks, entries : SUBSET Blocks]
      /\ committed' \in [Subscribers -> Blocks]
      /\ subscribed' = subscribed
  BY <1>1, <1>2, <1>3, ExtendToFollows DEF Inv
<1>5. TypeOK'
  <2>1. lost' \in BOOLEAN
    BY <1>1 DEF Inv, TypeOK
  <2> QED
    BY <2>1, <1>1, <1>3, <1>4 DEF Inv, TypeOK
<1>6. StoredChainsValid' /\ (Genesis \in entries)'
  BY <1>2, <1>3 DEF Inv, StoreMatchesTip, StoredChainsValid
<1>7. ChainsOK'
  BY <1>1, <1>3 DEF Inv, ChainsOK
<1>8. ReorgOK'
  BY <1>1 DEF Inv, ReorgOK, Reorging
<1> QED
  BY <1>4, <1>5, <1>6, <1>7, <1>8 DEF Inv

\* The reverts to the fork and the updates from it make up the best chain.
LEMMA AddSubscriberInv ==
  ASSUME Inv, NEW s \in Subscribers, NEW t \in Blocks, AddSubscriber(s, t)
  PROVE  Inv'
<1>1. PICK c \in Blocks :
        /\ IsFork(c, t, cs)
        /\ view' = [view EXCEPT ![s] = SubSeq(ChainOf[t], 1, Height(c) + 1) \o PathFrom(c, cs)]
        /\ committed' = [committed EXCEPT ![s] = IF c # cs THEN cs ELSE t]
  BY DEF AddSubscriber
<1>2. /\ job.pc = "idle" /\ subscribed' = subscribed \cup {s} /\ cs \in Blocks
      /\ best = ChainOf[cs]
      /\ UNCHANGED <<store, cs, chains, early, job, lost>>
  BY DEF AddSubscriber, Inv, TypeOK, StoreMatchesTip
<1>3. OnChain(c, t) /\ OnChain(c, cs)
  BY <1>1 DEF IsFork
<1>4. SubSeq(ChainOf[t], 1, Height(c) + 1) \o PathFrom(c, cs) = ChainOf[cs]
  BY <1>2, <1>3, Splice
<1>5. view' = [view EXCEPT ![s] = ChainOf[cs]] /\ ChainOf[cs] \in Seq(Blocks)
  BY <1>1, <1>2, <1>4, ChainShape
<1>6. SubscribersFollow'
  BY <1>2, <1>5 DEF SubscribersFollow, Inv, TypeOK, store
<1>7. TypeOK'
  <2>1. lost' \in BOOLEAN
    BY <1>2 DEF Inv, TypeOK
  <2>2. committed' \in [Subscribers -> Blocks]
    BY <1>1, <1>2 DEF Inv, TypeOK
  <2>3. view' \in [Subscribers -> Seq(Blocks)]
    BY <1>5 DEF Inv, TypeOK
  <2> QED
    BY <2>1, <2>2, <2>3, <1>2 DEF Inv, TypeOK, store
<1>8. StoreMatchesTip' /\ StoredChainsValid' /\ ChainsOK' /\ (Genesis \in entries)'
  BY <1>2 DEF Inv, StoreMatchesTip, StoredChainsValid, ChainsOK, store
<1>9. ReorgOK'
  BY <1>2 DEF Inv, ReorgOK, Reorging
<1> QED
  BY <1>6, <1>7, <1>8, <1>9 DEF Inv

LEMMA ClockPassesInv ==
  ASSUME Inv, NEW b \in Blocks, ClockPasses(b)
  PROVE  Inv'
<1>1. early' \subseteq early /\ UNCHANGED <<store, cs, chains, subs, job, lost>>
  BY DEF ClockPasses
<1>2. TypeOK'
  <2>1. lost' \in BOOLEAN
    BY <1>1 DEF Inv, TypeOK
  <2> QED
    BY <2>1, <1>1 DEF Inv, TypeOK, store, subs
<1>3. /\ StoreMatchesTip' /\ StoredChainsValid' /\ SubscribersFollow' /\ ChainsOK'
      /\ (Genesis \in entries)'
  BY <1>1 DEF Inv, StoreMatchesTip, StoredChainsValid, SubscribersFollow, ChainsOK, store, subs
<1>4. ReorgOK'
  BY <1>1 DEF Inv, ReorgOK, Reorging, RebaseOK, Front, Current, store
<1> QED
  BY <1>2, <1>3, <1>4 DEF Inv

LEMMA StutterInv == Inv /\ UNCHANGED vars => Inv'
<1> SUFFICES ASSUME Inv, UNCHANGED vars PROVE Inv'
  OBVIOUS
<1>1. UNCHANGED <<store, cs, chains, subs, early, job, lost>>
  BY DEF vars
<1>2. TypeOK'
  <2>1. lost' \in BOOLEAN
    BY <1>1 DEF Inv, TypeOK
  <2> QED
    BY <2>1, <1>1 DEF Inv, TypeOK, store, subs
<1>3. /\ StoreMatchesTip' /\ StoredChainsValid' /\ SubscribersFollow' /\ ChainsOK'
      /\ (Genesis \in entries)'
  BY <1>1 DEF Inv, StoreMatchesTip, StoredChainsValid, SubscribersFollow, ChainsOK, store, subs
<1>4. ReorgOK'
  BY <1>1 DEF Inv, ReorgOK, Reorging, RebaseOK, Front, Current, store
<1> QED
  BY <1>2, <1>3, <1>4 DEF Inv

\* Inv is inductive: each step of each call preserves it.
LEMMA StepInv == Inv /\ [Next]_vars => Inv'
<1> SUFFICES ASSUME Inv, [Next]_vars PROVE Inv'
  OBVIOUS
<1>1. ASSUME NEW p \in Blocks, NEW t \in Blocks, AddHeaders(p, t) \/ AddBlocks(p, t) PROVE Inv'
  BY <1>1, AddHeadersInv, AddBlocksInv
<1>2. ASSUME NEW b \in Blocks, AddTipBlock(b) \/ ClockPasses(b) PROVE Inv'
  BY <1>2, AddTipBlockInv, ClockPassesInv
<1>3. ASSUME NEW s \in Subscribers, NEW t \in Blocks, AddSubscriber(s, t) PROVE Inv'
  BY <1>3, AddSubscriberInv
<1>4. ASSUME NEW b \in Blocks, KeepValidating(b) \/ ApplyToTip(b) \/ StartReorg(b) PROVE Inv'
  BY <1>4, KeepValidatingInv, ApplyToTipInv, StartReorgInv
<1>5. CASE RefuseBlock \/ ReorgFails \/ ReorgPanics
  BY <1>5, ReturnInv
<1>6. CASE FinishBlocks \/ Rebase \/ RevertTip \/ BranchReached \/ ApplyTip \/ ReorgDone
  BY <1>6, FinishBlocksInv, RebaseInv, RevertTipInv, BranchReachedInv, ApplyTipInv, ReorgDoneInv
<1>7. CASE UNCHANGED vars
  BY <1>7, StutterInv
<1> QED
  BY <1>1, <1>2, <1>3, <1>4, <1>5, <1>6, <1>7 DEF Next, JobStep

\* Inv holds of every reachable state of the Manager.
THEOREM Invariance == Spec => []Inv
  BY InitInv, StepInv, PTL DEF Spec

\* The types of the Manager's state.
THEOREM TypeCorrect == Spec => []TypeOK
<1>1. Inv => TypeOK
  BY DEF Inv
<1> QED
  BY <1>1, Invariance, PTL

\* The store's best chain is that of m.cs at every step of every reorg.
THEOREM StoreFollowsTip == Spec => []StoreMatchesTip
<1>1. Inv => StoreMatchesTip
  BY DEF Inv
<1> QED
  BY <1>1, Invariance, PTL

\* No chain with an invalid block can be built from the store.
THEOREM StoreIsValid == Spec => []StoredChainsValid
<1>1. Inv => StoredChainsValid
  BY DEF Inv
<1> QED
  BY <1>1, Invariance, PTL

\* The reverts and updates given to a subscriber make up the best chain.
THEOREM SubscribersAgree == Spec => []SubscribersFollow
<1>1. Inv => SubscribersFollow
  BY DEF Inv
<1> QED
  BY <1>1, Invariance, PTL

\* The panic in applyTip is unreachable: whatever chain a reorg goes to, each
\* block it applies attaches to the tip.
THEOREM ReorgsAttach == Spec => []ReorgAttaches
<1>1. Inv => ReorgAttaches
  BY NextAttaches DEF ReorgAttaches
<1> QED
  BY <1>1, Invariance, PTL
-----------------------------------------------------------------------------
(* The Manager implements HeaviestChain.                                   *)

LEMMA InitRefines == Init => Heaviest!Init
  BY DEF Init, Idle, Decided, Reorging, Heaviest!Init

\* A valid block that is stored is learned, and becomes the tip, or the tip
\* a reorg is on its way to, by the rule of the abstract specification.
LEMMA TakeBlockLearns ==
  ASSUME Inv, NEW b \in Blocks,
         KeepValidating(b) \/ ApplyToTip(b) \/ StartReorg(b)
  PROVE  Heaviest!Learn(b)
<1>1. /\ TakeBlock(b) /\ entries' = entries \cup {b} /\ lost' = lost /\ job.pc = "blocks"
  BY DEF KeepValidating, ApplyToTip, StartReorg, TakeBlock, ExtendTo
<1>2. /\ b \in Children /\ Parent[b] = Current.ts /\ Current.ts \in entries
      /\ ValidateBlock(Current.ts, b) /\ chains'[job.chain].ts = b
  BY <1>1, TakeBlockFacts
<1>3. Decided = cs
  BY <1>1 DEF Decided, Reorging
<1>4. Decided' = IF TotalWork[b] > TotalWork[cs] THEN b ELSE cs
  <2>1. CASE KeepValidating(b)
    <3>1. job'.pc = "blocks" /\ cs' = cs
      BY <2>1, <1>1 DEF KeepValidating, Inv, TypeOK, Jobs
    <3> QED
      BY <3>1, <2>1 DEF KeepValidating, Heavier, Decided, Reorging
  <2>2. CASE ApplyToTip(b)
    <3>1. job'.pc = "blocks" /\ cs' = b
      BY <2>2, <1>1 DEF ApplyToTip, ExtendTo, Inv, TypeOK, Jobs
    <3> QED
      BY <3>1, <2>2 DEF ApplyToTip, Heavier, Decided, Reorging
  <2>3. CASE StartReorg(b)
    <3>1. job'.pc = "rebase" /\ job'.chain = job.chain
      BY <2>3, <1>1 DEF StartReorg, Inv, TypeOK, Jobs
    <3> QED
      BY <3>1, <2>3, <1>2 DEF StartReorg, Heavier, Decided, Reorging, Current
  <2> QED
    BY <2>1, <2>2, <2>3
<1> QED
  BY <1>1, <1>2, <1>3, <1>4 DEF Heaviest!Learn, Heaviest!Children, Heaviest!ValidateBlock,
     Children, ValidateBlock

\* AddTipBlock never has to compare: a block on the tip has more work.
LEMMA AddTipBlockLearns ==
  ASSUME Inv, NEW b \in Blocks, AddTipBlock(b)
  PROVE  Heaviest!Learn(b)
<1>1. /\ job.pc = "idle" /\ job' = job /\ lost' = lost /\ cs' = b
      /\ entries' = entries \cup {b} /\ ValidateBlock(cs, b)
  BY DEF AddTipBlock, ExtendTo
<1>2. b \in Children /\ Parent[b] = cs /\ cs \in entries
  BY <1>1 DEF ValidateBlock, Children, Inv, StoreMatchesTip
<1>3. Decided = cs /\ Decided' = b
  BY <1>1 DEF Decided, Reorging
<1>4. TotalWork[b] > TotalWork[cs]
  BY <1>2, WorkAssumption
<1> QED
  BY <1>1, <1>2, <1>3, <1>4 DEF Heaviest!Learn, Heaviest!Children, Heaviest!ValidateBlock,
     Children, ValidateBlock

\* A reorg that fails leaves the Manager on a block it knows.
LEMMA ReorgFailsAbandons ==
  ASSUME Inv, ReorgFails \/ ReorgPanics
  PROVE  Heaviest!Abandon
<1>1. /\ lost' = TRUE /\ UNCHANGED <<store, cs>> /\ job'.pc \in {"idle", "panic"}
  BY DEF ReorgFails, ReorgPanics, Idle
<1>2. Decided' = cs /\ cs \in entries
  BY <1>1 DEF Decided, Reorging, Inv, StoreMatchesTip
<1> QED
  BY <1>1, <1>2 DEF Heaviest!Abandon, store

\* Every other step leaves the decision as it is: a reorg that is under way
\* keeps going to the block that started it, and ends there.
LEMMA OtherStepsStutter ==
  ASSUME Inv,
         \/ \E p, t \in Blocks : AddHeaders(p, t) \/ AddBlocks(p, t)
         \/ \E b \in Blocks : ClockPasses(b)
         \/ \E s \in Subscribers, t \in Blocks : AddSubscriber(s, t)
         \/ RefuseBlock \/ FinishBlocks \/ Rebase \/ RevertTip \/ BranchReached
         \/ ApplyTip \/ ReorgDone
         \/ UNCHANGED vars
  PROVE  UNCHANGED Heaviest!vars
<1>1. entries' = entries /\ lost' = lost
  BY DEF AddHeaders, AddBlocks, ClockPasses, AddSubscriber, RefuseBlock, FinishBlocks,
         Rebase, RevertTip, BranchReached, ApplyTip, ReorgDone, ExtendTo, vars, store
<1>2. Decided' = Decided
  <2>1. ASSUME NEW p \in Blocks, NEW t \in Blocks, AddHeaders(p, t) PROVE Decided' = Decided
    BY <2>1 DEF AddHeaders, Decided, Reorging
  <2>2. ASSUME NEW p \in Blocks, NEW t \in Blocks, AddBlocks(p, t) PROVE Decided' = Decided
    <3>1. job.pc = "idle" /\ cs' = cs /\ job'.pc \in {"panic", "blocks"}
      BY <2>2 DEF AddBlocks, Idle
    <3> QED
      BY <3>1 DEF Decided, Reorging
  <2>3. ASSUME NEW b \in Blocks, ClockPasses(b) PROVE Decided' = Decided
    BY <2>3 DEF ClockPasses, Decided, Reorging, Current
  <2>4. ASSUME NEW s \in Subscribers, NEW t \in Blocks, AddSubscriber(s, t)
        PROVE  Decided' = Decided
    BY <2>4 DEF AddSubscriber, Decided, Reorging, Current
  <2>5. CASE RefuseBlock \/ FinishBlocks
    BY <2>5 DEF RefuseBlock, FinishBlocks, Idle, Decided, Reorging
  <2>6. CASE Rebase \/ RevertTip \/ BranchReached \/ ApplyTip
    <3>1. Reorging /\ chains' = chains
      BY <2>6 DEF Rebase, RevertTip, BranchReached, ApplyTip, Reorging
    <3>2. job \in Jobs
      BY DEF Inv, TypeOK
    <3>3. job'.chain = job.chain /\ job'.pc \in {"rebase", "revert", "apply"}
      BY <2>6, <3>2 DEF Rebase, RevertTip, BranchReached, ApplyTip, Jobs
    <3> QED
      BY <3>1, <3>3 DEF Decided, Reorging, Current
  <2>7. CASE ReorgDone
    <3>1. job \in Jobs
      BY DEF Inv, TypeOK
    <3>2. job'.pc = "blocks" /\ cs' = cs /\ cs = Current.ts /\ job.pc = "apply"
      BY <2>7, <3>1 DEF ReorgDone, Jobs
    <3> QED
      BY <3>2 DEF Decided, Reorging
  <2>8. CASE UNCHANGED vars
    BY <2>8 DEF vars, Decided, Reorging, Current
  <2> QED
    BY <2>1, <2>2, <2>3, <2>4, <2>5, <2>6, <2>7, <2>8
<1> QED
  BY <1>1, <1>2 DEF Heaviest!vars

\* Every step of every call is a step of the abstract specification.
LEMMA StepRefines == Inv /\ [Next]_vars => [Heaviest!Next]_(Heaviest!vars)
<1> SUFFICES ASSUME Inv, [Next]_vars PROVE [Heaviest!Next]_(Heaviest!vars)
  OBVIOUS
<1>1. ASSUME NEW b \in Blocks,
             KeepValidating(b) \/ ApplyToTip(b) \/ StartReorg(b) \/ AddTipBlock(b)
      PROVE  Heaviest!Next
  BY <1>1, TakeBlockLearns, AddTipBlockLearns DEF Heaviest!Next
<1>2. CASE ReorgFails \/ ReorgPanics
  BY <1>2, ReorgFailsAbandons DEF Heaviest!Next
<1> QED
  BY <1>1, <1>2, OtherStepsStutter DEF Next, JobStep

\* "A Manager tracks multiple blockchains and identifies the best valid chain":
\* the Manager implements HeaviestChain.
THEOREM Refinement == Spec => ImplementsHeaviestChain
  BY InitRefines, StepRefines, Invariance, PTL DEF Spec, ImplementsHeaviestChain, Heaviest!Spec

\* The tip of HeaviestChain is as heavy as any known block.
LEMMA InitHeaviest == Heaviest!Init => Heaviest!Inv
<1> SUFFICES ASSUME Heaviest!Init PROVE Heaviest!Inv
  OBVIOUS
<1> USE WorkAssumption, GenesisAssumption
<1>1. Heaviest!TypeOK
  BY DEF Heaviest!Init, Heaviest!TypeOK
<1>2. \A b \in entries : b = Decided /\ TotalWork[Decided] \in Nat
  BY DEF Heaviest!Init
<1> QED
  BY <1>1, <1>2 DEF Heaviest!Inv, Heaviest!TipIsHeaviest

LEMMA StepHeaviest == Heaviest!Inv /\ [Heaviest!Next]_(Heaviest!vars) => Heaviest!Inv'
<1> SUFFICES ASSUME Heaviest!Inv, [Heaviest!Next]_(Heaviest!vars) PROVE Heaviest!Inv'
  OBVIOUS
<1> USE WorkAssumption, GenesisAssumption DEF Heaviest!Inv
<1>1. ASSUME NEW b \in Blocks, Heaviest!Learn(b) PROVE Heaviest!Inv'
  <2>1. TotalWork[Decided] \in Nat /\ TotalWork[b] \in Nat
    BY DEF Heaviest!TypeOK
  <2>2. Decided' = IF TotalWork[b] > TotalWork[Decided] THEN b ELSE Decided
    BY <1>1 DEF Heaviest!Learn
  <2>3. ASSUME ~lost', NEW c \in entries' PROVE TotalWork[c] <= TotalWork[Decided']
    <3>1. ~lost /\ (c \in entries \/ c = b) /\ (\A d \in entries : TotalWork[d] \in Nat)
      BY <1>1, <2>3 DEF Heaviest!Learn, Heaviest!TypeOK
    <3>2. TotalWork[Decided] <= TotalWork[Decided'] /\ TotalWork[b] <= TotalWork[Decided']
      BY <2>1, <2>2
    <3>3. TotalWork[Decided'] \in Nat
      BY <2>1, <2>2
    <3> QED
      BY <3>1, <3>2, <3>3, <2>1 DEF Heaviest!TipIsHeaviest
  <2> QED
    BY <1>1, <2>2, <2>3 DEF Heaviest!Learn, Heaviest!TypeOK, Heaviest!TipIsHeaviest
<1>2. CASE Heaviest!Abandon
  BY <1>2 DEF Heaviest!Abandon, Heaviest!TypeOK, Heaviest!TipIsHeaviest
<1>3. CASE UNCHANGED Heaviest!vars
  BY <1>3 DEF Heaviest!vars, Heaviest!TypeOK, Heaviest!TipIsHeaviest
<1> QED
  BY <1>1, <1>2, <1>3 DEF Heaviest!Next

\* The rule of Learn keeps the tip at least as heavy as every block learned
\* (AddBlocks and AddTipBlock of the Manager follow it).
THEOREM TipStaysHeaviest == Heaviest!Spec => [](Heaviest!TypeOK /\ Heaviest!TipIsHeaviest)
<1>1. Heaviest!Inv <=> Heaviest!TypeOK /\ Heaviest!TipIsHeaviest
  BY DEF Heaviest!Inv
<1> QED
  BY <1>1, InitHeaviest, StepHeaviest, PTL DEF Heaviest!Spec

\* "Tip returns the tip of the best known valid chain", unless a reorg failed.
THEOREM TipIsHeaviest == Spec => []TipIsBestUnlessLost
<1>1. Heaviest!TypeOK /\ Heaviest!TipIsHeaviest => TipIsBestUnlessLost
  BY DEF Heaviest!TipIsHeaviest, TipIsBestUnlessLost, Decided, Reorging
<1> QED
  BY <1>1, TipStaysHeaviest, Refinement, PTL DEF ImplementsHeaviestChain

-----------------------------------------------------------------------------
(* Reorgs revert to the branch point.                                      *)

\* While the branch point is looked for, and reverted to, no block of the
\* best chain above job.at is on the chain of the base.
BranchOK ==
  job.pc \in {"rebase", "revert"} =>
    \A x \in Blocks : OnChain(x, Current.base) => OnChain(x, job.at) \/ ~OnChain(x, cs)

\* The steps that leave a search for the branch point as it is.
BranchSame == UNCHANGED <<cs, chains, job>>

LEMMA BranchStep ==
  ASSUME Inv, BranchOK, [Next]_vars
  PROVE  BranchOK'
<1>1. job \in Jobs
  BY DEF Inv, TypeOK
<1>2. CASE job'.pc \notin {"rebase", "revert"}
  BY <1>2 DEF BranchOK
<1>3. CASE BranchSame
  BY <1>3 DEF BranchSame, BranchOK, Current
<1>4. ASSUME NEW b \in Blocks, StartReorg(b) PROVE BranchOK'
  <2>1. /\ TakeBlock(b) /\ entries' = entries \cup {b}
        /\ job' = [job EXCEPT !.pc = "rebase", !.at = Current.base]
    BY <1>4 DEF StartReorg
  <2>2. chains'[job.chain].base = Current.base
    BY <2>1, TakeBlockFacts
  <2>3. job'.chain = job.chain /\ job'.at = Current.base
    BY <2>1, <1>1 DEF Jobs
  <2> QED
    BY <2>2, <2>3 DEF BranchOK, Current
<1>5. CASE Rebase
  <2>1. /\ job.pc = "rebase" /\ cs' = cs /\ chains' = chains /\ best = ChainOf[cs] /\ cs \in Blocks
        /\ job.at \in Blocks
    BY <1>5, <1>1 DEF Rebase, Inv, StoreMatchesTip, TypeOK, Jobs
  <2>2. job'.chain = job.chain
    BY <1>5, <1>1 DEF Rebase, Jobs
  <2>3. Current' = Current
    BY <2>1, <2>2 DEF Current
  <2>4. CASE OnBest(job.at)
    <3>1. job'.at = job.at
      BY <1>5, <2>4, <1>1 DEF Rebase, Jobs
    <3> QED
      BY <3>1, <2>1, <2>3 DEF BranchOK
  <2>5. CASE ~OnBest(job.at)
    <3>1. job'.at = Parent[job.at]
      BY <1>5, <2>5, <1>1 DEF Rebase, Jobs
    <3>2. ~OnChain(job.at, cs)
      BY <2>1, <2>5, ChainShape DEF OnBest, OnChain, Height, IndexAt
    <3>3. ASSUME NEW x \in Blocks, OnChain(x, Current.base), OnChain(x, cs)
          PROVE  OnChain(x, Parent[job.at])
      <4>1. OnChain(x, job.at) /\ x # job.at
        BY <2>1, <3>2, <3>3 DEF BranchOK
      <4> QED
        BY <4>1, <2>1, OnParentChain
    <3> QED
      BY <2>1, <2>3, <3>1, <3>3 DEF BranchOK
  <2> QED
    BY <2>4, <2>5
<1>6. CASE RevertTip
  <2>1. job' = job /\ chains' = chains /\ cs' = Parent[cs] /\ job.pc = "revert" /\ cs # job.at
    BY <1>6 DEF RevertTip
  <2>2. OnChain(job.at, cs) /\ job.at \in Blocks /\ cs \in Blocks
    BY <2>1 DEF Inv, TypeOK, ReorgOK, Reorging
  <2>3. cs # Genesis /\ Parent[cs] \in Blocks
    BY <2>1, <2>2, OnParentChain, ChildChain
  <2>4. OnChain(Parent[cs], cs)
    BY <2>2, <2>3, ChildChain, ChainShape DEF OnChain, Height, IndexAt
  <2>5. \A x \in Blocks : OnChain(x, cs') => OnChain(x, cs)
    BY <2>1, <2>2, <2>3, <2>4, OnChainTransitive
  <2>6. Current' = Current
    BY <2>1 DEF Current
  <2> QED
    BY <2>1, <2>5, <2>6 DEF BranchOK
<1>7. \/ job'.pc \notin {"rebase", "revert"} \/ BranchSame
      \/ (\E b \in Blocks : StartReorg(b)) \/ Rebase \/ RevertTip
  <2>1. CASE \E p, t \in Blocks : AddHeaders(p, t)
    BY <2>1 DEF AddHeaders
  <2>2. CASE \E p, t \in Blocks : AddBlocks(p, t)
    <3>1. job'.pc \in {"panic", "blocks"}
      BY <2>2 DEF AddBlocks, Idle
    <3> QED
      BY <3>1
  <2>3. CASE \/ \E b \in Blocks : AddTipBlock(b) \/ ClockPasses(b)
             \/ \E s \in Subscribers, t \in Blocks : AddSubscriber(s, t)
             \/ UNCHANGED vars
    BY <2>3 DEF AddTipBlock, ClockPasses, AddSubscriber, vars, BranchSame
  <2>4. CASE \E b \in Blocks : KeepValidating(b) \/ ApplyToTip(b)
    BY <2>4, <1>1 DEF KeepValidating, ApplyToTip, TakeBlock, Jobs
  <2>5. CASE RefuseBlock \/ FinishBlocks \/ ReorgFails \/ ReorgPanics
    BY <2>5 DEF RefuseBlock, FinishBlocks, ReorgFails, ReorgPanics, Idle
  <2>6. CASE BranchReached \/ ApplyTip \/ ReorgDone
    BY <2>6, <1>1 DEF BranchReached, ApplyTip, ReorgDone, Jobs
  <2> QED
    BY <2>1, <2>2, <2>3, <2>4, <2>5, <2>6 DEF Next, JobStep
<1> QED
  BY <1>2, <1>3, <1>4, <1>5, <1>6, <1>7

\* "revert to branch point": a reorg reverts no block that the chain it goes
\* to is based on, and the tip moves up one block at a time.
THEOREM RevertsOnlyTheFork == Spec => RevertsToBranchPoint
<1>1. Init => BranchOK
  BY DEF Init, BranchOK, Idle
<1>2. Inv /\ BranchOK /\ [Next]_vars =>
        (cs' # cs => IF job.pc = "revert"
                     THEN Parent[cs] = cs' /\ ~OnChain(cs, Current.base)
                     ELSE cs' # Genesis /\ Parent[cs'] = cs)
  <2> SUFFICES ASSUME Inv, BranchOK, [Next]_vars, cs' # cs
               PROVE  IF job.pc = "revert"
                      THEN Parent[cs] = cs' /\ ~OnChain(cs, Current.base)
                      ELSE cs' # Genesis /\ Parent[cs'] = cs
    OBVIOUS
  <2>1. CASE RevertTip
    <3>1. /\ job.pc = "revert" /\ cs # job.at /\ cs' = Parent[cs]
          /\ OnChain(job.at, cs) /\ job.at \in Blocks /\ cs \in Blocks
      BY <2>1 DEF RevertTip, Inv, TypeOK, ReorgOK, Reorging
    <3>2. ~OnChain(cs, job.at)
      BY <3>1, ChainShape DEF OnChain, Height, IndexAt
    <3>3. OnChain(cs, cs)
      BY <3>1, OnChainReflexive
    <3> QED
      BY <3>1, <3>2, <3>3 DEF BranchOK
  <2>2. CASE ApplyTip
    BY <2>2, NextAttaches DEF ApplyTip, ExtendTo, Children
  <2>3. ASSUME NEW b \in Blocks, ApplyToTip(b) \/ AddTipBlock(b)
        PROVE  job.pc # "revert" /\ cs' # Genesis /\ Parent[cs'] = cs
    BY <2>3 DEF ApplyToTip, TakeBlock, CanApplyBlock, AddTipBlock, ValidateBlock, ExtendTo
  <2>4. cs' = cs \/ RevertTip \/ ApplyTip \/ \E b \in Blocks : ApplyToTip(b) \/ AddTipBlock(b)
    BY DEF Next, JobStep, AddHeaders, AddBlocks, ClockPasses, AddSubscriber, RefuseBlock,
       FinishBlocks, KeepValidating, StartReorg, Rebase, BranchReached, ReorgFails,
       ReorgPanics, ReorgDone, vars
  <2> QED
    BY <2>1, <2>2, <2>3, <2>4
<1>3. Inv /\ BranchOK /\ [Next]_vars => BranchOK'
  BY BranchStep
<1> QED
  BY <1>1, <1>2, <1>3, Invariance, PTL DEF Spec, RevertsToBranchPoint
-----------------------------------------------------------------------------
(* What subscribers may commit.                                            *)

\* An update that may be committed has been flushed.
LEMMA ExtendToCommits ==
  ASSUME TypeOK, NEW b, NEW stored, b \in stored, ExtendTo(b, stored),
         NEW s \in subscribed, committed'[s] # committed[s]
  PROVE  committed'[s] \in flushed'.entries /\ flushed'.tip = committed'[s]
<1>1. PICK mayCommit \in FlushChoices :
        /\ flushed' = IF mayCommit THEN [tip |-> b, entries |-> stored] ELSE flushed
        /\ committed' = [t \in Subscribers |-> IF mayCommit /\ t \in subscribed THEN b ELSE committed[t]]
  BY DEF ExtendTo
<1>2. s \in Subscribers
  BY DEF TypeOK
<1>3. mayCommit /\ committed'[s] = b
  BY <1>1, <1>2
<1> QED
  BY <1>1, <1>3

\* "if we haven't flushed, tell the subscriber that it must not commit chain
\* data to disk": whatever blocks, reorgs and subscriptions there are, an update
\* that a subscriber may commit is the tip that the store has made durable.
THEOREM CommitsAreFlushed == Spec => MayCommitMeansFlushed
<1>1. Inv /\ [Next]_vars =>
        \A s \in subscribed : committed'[s] # committed[s] =>
          committed'[s] \in flushed'.entries /\ flushed'.tip = committed'[s]
  <2> SUFFICES ASSUME Inv, [Next]_vars, NEW s \in subscribed, committed'[s] # committed[s]
               PROVE  committed'[s] \in flushed'.entries /\ flushed'.tip = committed'[s]
    OBVIOUS
  <2>1. TypeOK
    BY DEF Inv
  <2>2. ASSUME NEW b \in Blocks, ApplyToTip(b) \/ AddTipBlock(b)
        PROVE  ExtendTo(b, entries \cup {b})
    BY <2>2 DEF ApplyToTip, AddTipBlock
  <2>3. CASE ApplyTip
    BY <2>1, <2>3, ExtendToCommits DEF ApplyTip
  <2>4. ASSUME NEW r \in Subscribers, NEW t \in Blocks, AddSubscriber(r, t)
        PROVE  FALSE
    <3>1. PICK c : committed' = [committed EXCEPT ![r] = c]
      BY <2>4 DEF AddSubscriber
    <3>2. r # s
      BY <2>4 DEF AddSubscriber
    <3> QED
      BY <3>1, <3>2
  <2>5. committed' = committed \/ ApplyTip \/ (\E b \in Blocks : ApplyToTip(b) \/ AddTipBlock(b))
        \/ \E r \in Subscribers, t \in Blocks : AddSubscriber(r, t)
    BY DEF Next, JobStep, AddHeaders, AddBlocks, ClockPasses, RefuseBlock, FinishBlocks,
       KeepValidating, StartReorg, Rebase, RevertTip, BranchReached, ReorgFails,
       ReorgPanics, ReorgDone, vars, subs
  <2>6. committed' # committed
    OBVIOUS
  <2>7. CASE \E b \in Blocks : ApplyToTip(b) \/ AddTipBlock(b)
    BY <2>1, <2>2, <2>7, ExtendToCommits
  <2> QED
    BY <2>3, <2>4, <2>5, <2>6, <2>7
<1> QED
  BY <1>1, Invariance, PTL DEF Spec, MayCommitMeansFlushed
=============================================================================
