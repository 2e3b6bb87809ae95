----------------------- MODULE TransactionBuilderProofs -----------------------
(***************************************************************************)
(* The transaction pool: what it marks as ephemeral follows the chain, no  *)
(* transaction is lost from it, and none comes without its parents: for    *)
(* every set of transactions, outputs and blocks.                          *)
(*                                                                         *)
(* The builder that sends to it: it gives no output to two calls, and the  *)
(* wallet lists all that is unspent, whatever the pool and the chain do    *)
(* meanwhile; and a send that they do not disturb is accepted: for any     *)
(* number of calls, and chains of any height.                              *)
(***************************************************************************)
EXTENDS TransactionBuilder, SequenceTheorems, TLAPS

-----------------------------------------------------------------------------
(* The inductive invariant.                                                *)

Before(n) == SubSeq(chain, 1, n)

\* Each block was valid, and of new transactions, on the blocks before it.
BlocksValid ==
  \A n \in 1 .. Len(chain) :
    chain[n] \cap Mined(Before(n - 1)) = {} /\ ValidBlock(Before(n - 1), chain[n])

\* At every height, what was spent was made.
SpentExists ==
  \A n \in 0 .. Len(chain) : Used(Mined(Before(n))) \subseteq Exists(Before(n))

\* What waits is not mined: the outputs it makes do not exist.
WaitingNotMined == DOMAIN pool \cap Mined(chain) = {}

IInv == PoolInv /\ WaitingNotMined /\ BlocksValid /\ SpentExists

-----------------------------------------------------------------------------
(* Chains and their outputs.                                               *)

\* The transactions and the outputs of a chain with one more block.
LEMMA MinedAppend ==
  ASSUME NEW c \in Seq(SUBSET Txns), NEW ts \in SUBSET Txns
  PROVE  /\ Mined(Append(c, ts)) = Mined(c) \cup ts
         /\ Exists(Append(c, ts)) = Exists(c) \cup Made(ts)
         /\ Used(Mined(Append(c, ts))) = Used(Mined(c)) \cup Used(ts)
<1>1. Range(Append(c, ts)) = Range(c) \cup {ts}
  <2>1. DOMAIN Append(c, ts) = 1 .. Len(c) + 1 /\ DOMAIN c = 1 .. Len(c) /\ Len(c) \in Nat
    OBVIOUS
  <2>2. \A i \in 1 .. Len(c) : Append(c, ts)[i] = c[i]
    OBVIOUS
  <2>3. Append(c, ts)[Len(c) + 1] = ts
    OBVIOUS
  <2>4. 1 .. Len(c) + 1 = 1 .. Len(c) \cup {Len(c) + 1}
    BY <2>1
  <2> HIDE DEF Range
  <2>5. Range(Append(c, ts)) = {Append(c, ts)[i] : i \in 1 .. Len(c) + 1}
    BY <2>1 DEF Range
  <2>6. Range(c) = {c[i] : i \in 1 .. Len(c)}
    BY <2>1 DEF Range
  <2> QED
    BY <2>2, <2>3, <2>4, <2>5, <2>6
<1>2. Mined(Append(c, ts)) = Mined(c) \cup ts
  BY <1>1 DEF Mined
<1> QED
  BY <1>2 DEF Exists, Made, Used

\* The first n blocks of a chain.
LEMMA Prefix ==
  ASSUME NEW c \in Seq(SUBSET Txns), NEW n \in 0 .. Len(c)
  PROVE  /\ SubSeq(c, 1, n) \in Seq(SUBSET Txns)
         /\ Len(SubSeq(c, 1, n)) = n
         /\ \A i \in 1 .. n : SubSeq(c, 1, n)[i] = c[i]
<1>1. Len(c) \in Nat /\ n \in Nat /\ n <= Len(c)
  OBVIOUS
<1>2. \A i \in 1 .. n : c[i] \in SUBSET Txns
  BY <1>1, ElementOfSeq
<1>3. 1 \in Int /\ n \in Int
  BY <1>1
<1> QED
  BY <1>1, <1>2, <1>3, SubSeqProperties

\* The first blocks of a chain stay the same when there is one more.
LEMMA PrefixOfAppend ==
  ASSUME NEW c \in Seq(SUBSET Txns), NEW ts \in SUBSET Txns
  PROVE  /\ Append(c, ts) \in Seq(SUBSET Txns) /\ Len(Append(c, ts)) = Len(c) + 1
         /\ Append(c, ts)[Len(c) + 1] = ts
         /\ \A n \in 1 .. Len(c) : Append(c, ts)[n] = c[n]
         /\ \A n \in 0 .. Len(c) : SubSeq(Append(c, ts), 1, n) = SubSeq(c, 1, n)
         /\ SubSeq(Append(c, ts), 1, Len(c)) = c
<1> DEFINE d == Append(c, ts)
<1>1. /\ d \in Seq(SUBSET Txns) /\ Len(d) = Len(c) + 1 /\ d[Len(c) + 1] = ts
      /\ \A n \in 1 .. Len(c) : d[n] = c[n]
  OBVIOUS
<1>2. Len(c) \in Nat
  OBVIOUS
<1> HIDE DEF d
<1>3. ASSUME NEW n \in 0 .. Len(c)
      PROVE  SubSeq(d, 1, n) = SubSeq(c, 1, n)
  <2>1. n \in 0 .. Len(d)
    BY <1>1, <1>2
  <2>2. SubSeq(d, 1, n) \in Seq(SUBSET Txns) /\ Len(SubSeq(d, 1, n)) = n
        /\ \A i \in 1 .. n : SubSeq(d, 1, n)[i] = d[i]
    BY <1>1, <2>1, Prefix
  <2>3. SubSeq(c, 1, n) \in Seq(SUBSET Txns) /\ Len(SubSeq(c, 1, n)) = n
        /\ \A i \in 1 .. n : SubSeq(c, 1, n)[i] = c[i]
    BY Prefix
  <2>4. \A i \in 1 .. n : d[i] = c[i]
    BY <1>1, <1>2
  <2> HIDE DEF d
  <2> QED
    BY <2>2, <2>3, <2>4, SeqEqual
<1>4. SubSeq(d, 1, Len(c)) = c
  BY <1>2, <1>3, SubSeqFull
<1> QED
  BY <1>1, <1>3, <1>4 DEF d

\* A chain is made of its last block and the blocks before that.
LEMMA LastBlock ==
  ASSUME NEW c \in Seq(SUBSET Txns), c # <<>>
  PROVE  /\ Len(c) \in Nat \ {0} /\ c[Len(c)] \in SUBSET Txns
         /\ SubSeq(c, 1, Len(c) - 1) \in Seq(SUBSET Txns)
         /\ Len(SubSeq(c, 1, Len(c) - 1)) = Len(c) - 1
         /\ c = Append(SubSeq(c, 1, Len(c) - 1), c[Len(c)])
<1> DEFINE d == SubSeq(c, 1, Len(c) - 1)
           ts == c[Len(c)]
<1>1. Len(c) \in Nat \ {0}
  BY EmptySeq
<1>2. ts \in SUBSET Txns
  BY <1>1, ElementOfSeq
<1>3. d \in Seq(SUBSET Txns) /\ Len(d) = Len(c) - 1 /\ \A i \in 1 .. Len(c) - 1 : d[i] = c[i]
  <2>1. Len(c) - 1 \in 0 .. Len(c)
    BY <1>1
  <2> QED
    BY <2>1, Prefix
<1> HIDE DEF d, ts
<1>4. /\ Append(d, ts) \in Seq(SUBSET Txns) /\ Len(Append(d, ts)) = Len(c)
      /\ Append(d, ts)[Len(c)] = ts /\ \A i \in 1 .. Len(c) - 1 : Append(d, ts)[i] = d[i]
  BY <1>1, <1>2, <1>3, PrefixOfAppend
<1>5. \A i \in 1 .. Len(c) : Append(d, ts)[i] = c[i]
  BY <1>1, <1>3, <1>4 DEF ts
<1>6. Append(d, ts) = c
  BY <1>4, <1>5, SeqEqual
<1> QED
  BY <1>1, <1>2, <1>3, <1>6 DEF d, ts

\* A transaction of a chain makes outputs that exist, and only it makes them.
LEMMA OneMaker ==
  ASSUME NEW c \in Seq(SUBSET Txns), NEW ts \in SUBSET Txns, ts \cap Mined(c) = {}
  PROVE  Made(ts) \cap Exists(c) = {}
<1>1. Mined(c) \subseteq Txns
  BY DEF Mined, Range
<1>2. \A t \in ts, u \in Mined(c) : Creates[t] \cap Creates[u] = {}
  BY <1>1, TxnAssumption
<1>3. \A t \in ts : Creates[t] \cap Coins = {}
  BY TxnAssumption
<1> QED
  BY <1>2, <1>3 DEF Made, Exists

-----------------------------------------------------------------------------
(* One transaction comes to a pool.                                        *)

\* What the pool keeps of the transactions p that wait on the chain c.
Follows(p, c) ==
  \A t \in DOMAIN p : p[t] = Ephemeral(c, t) /\ Spends[t] \ p[t] \subseteq Unspent(c)

Waiting(p, c) ==
  /\ DOMAIN p \subseteq Txns
  /\ \A t \in DOMAIN p : p[t] \subseteq Spends[t]
  /\ Follows(p, c)
  /\ DOMAIN p \cap Mined(c) = {}

\* Whatever state a transaction was written on, what is accepted has marked
\* what it should have, and is not mined already.
LEMMA AcceptedFollows ==
  ASSUME NEW p, NEW t \in Txns, NEW at, NEW kept,
         chain \in Seq(SUBSET Txns), Waiting(p, chain),
         Used(Mined(chain)) \subseteq Exists(chain), Accepts(p, t, at, kept)
  PROVE  /\ Waiting(With(p, t, Ephemeral(at, t)), chain)
         /\ Ephemeral(at, t) \subseteq Made(DOMAIN p)
<1> DEFINE marks == Ephemeral(at, t)
<1>1. marks \subseteq Made(DOMAIN p) /\ Spends[t] \ marks \subseteq Unspent(chain)
  BY DEF Accepts, ValidateTransaction
<1>2. Made(DOMAIN p) \cap Exists(chain) = {}
  BY OneMaker DEF Waiting
<1>3. marks \subseteq Spends[t]
  BY DEF Ephemeral
<1>4. Spends[t] \ marks \subseteq Exists(chain) \ Used(Mined(chain))
  BY <1>1 DEF Unspent
<1> HIDE DEF marks
<1>5. marks = Ephemeral(chain, t)
  BY <1>1, <1>2, <1>3, <1>4 DEF Ephemeral
<1>6. t \notin Mined(chain)
  <2>1. SUFFICES ASSUME t \in Mined(chain) PROVE FALSE
    OBVIOUS
  <2>2. Spends[t] \subseteq Used(Mined(chain))
    BY <2>1 DEF Used
  <2>3. Spends[t] \subseteq marks
    BY <1>4, <2>2
  <2>4. Spends[t] = {}
    BY <1>1, <1>2, <2>2, <2>3
  <2> QED
    BY <2>4, TxnAssumption
<1>7. Waiting(With(p, t, marks), chain)
  <2> DEFINE q == With(p, t, marks)
  <2>1. DOMAIN q = DOMAIN p \cup {t} /\ \A u \in DOMAIN q : q[u] = IF u = t THEN marks ELSE p[u]
    BY DEF With
  <2>2. DOMAIN q \subseteq Txns /\ DOMAIN q \cap Mined(chain) = {}
    BY <2>1, <1>6 DEF Waiting
  <2>3. \A u \in DOMAIN q : q[u] \subseteq Spends[u]
    BY <2>1, <1>3 DEF Waiting
  <2>4. Follows(q, chain)
    BY <2>1, <1>1, <1>5 DEF Waiting, Follows
  <2> QED
    BY <2>2, <2>3, <2>4 DEF Waiting
<1> QED
  BY <1>1, <1>7 DEF marks

-----------------------------------------------------------------------------
(* The chain grows by a block, or loses its last one.                      *)

\* One block more: what it spends was made, and each block was valid still.
LEMMA ApplyKeepsChain ==
  ASSUME NEW ts \in SUBSET Txns, chain \in Seq(SUBSET Txns), BlocksValid, SpentExists,
         ts \cap Mined(chain) = {}, ValidBlock(chain, ts), chain' = Append(chain, ts)
  PROVE  (BlocksValid /\ SpentExists)'
<1> DEFINE L == Len(chain)
<1>1. L \in Nat
  OBVIOUS
<1>2. /\ Len(chain') = L + 1 /\ chain'[L + 1] = ts
      /\ \A n \in 1 .. L : chain'[n] = chain[n]
      /\ \A n \in 0 .. L : SubSeq(chain', 1, n) = SubSeq(chain, 1, n)
      /\ SubSeq(chain', 1, L) = chain
      /\ chain' \in Seq(SUBSET Txns)
  BY PrefixOfAppend
<1>3. SubSeq(chain', 1, L + 1) = chain'
  BY <1>2, SubSeqFull
<1> HIDE DEF L
<1>4. BlocksValid'
  <2>1. SUFFICES ASSUME NEW n \in 1 .. L + 1
                 PROVE  LET d == SubSeq(chain', 1, n - 1)
                        IN  chain'[n] \cap Mined(d) = {} /\ ValidBlock(d, chain'[n])
    BY <1>2 DEF BlocksValid, Before, Mined, Range, ValidBlock, NoDoubleSpends, ValidateTransaction, Ephemeral, Unspent, Exists, Made, Used
  <2>2. CASE n = L + 1
    <3>1. n - 1 = L
      BY <2>2, <1>1
    <3>2. chain'[n] = ts /\ SubSeq(chain', 1, n - 1) = chain
      BY <3>1, <2>2, <1>2
    <3> QED
      BY <3>2
  <2>3. CASE n # L + 1
    <3>1. n \in 1 .. L /\ n - 1 \in 0 .. L
      BY <2>3, <1>1
    <3>2. chain'[n] = chain[n] /\ SubSeq(chain', 1, n - 1) = SubSeq(chain, 1, n - 1)
      BY <3>1, <1>2
    <3> QED
      BY <3>1, <3>2 DEF BlocksValid, Before, L
  <2> QED
    BY <2>2, <2>3
<1>5. SpentExists'
  <2>1. SUFFICES ASSUME NEW n \in 0 .. L + 1
                 PROVE  Used(Mined(SubSeq(chain', 1, n))) \subseteq Exists(SubSeq(chain', 1, n))
    BY <1>2 DEF SpentExists, Before, Mined, Range, Exists, Made, Used
  <2>2. CASE n = L + 1
    <3>1. Used(Mined(chain)) \subseteq Exists(chain)
      <4>1. L \in 0 .. L /\ SubSeq(chain, 1, L) = chain
        BY <1>1, SubSeqFull DEF L
      <4> QED
        BY <4>1 DEF SpentExists, Before, L
    <3>2. Used(ts) \subseteq Exists(chain) \cup Made(ts)
      BY DEF ValidBlock, ValidateTransaction, Ephemeral, Unspent, Used
    <3>3. /\ Exists(chain') = Exists(chain) \cup Made(ts)
          /\ Used(Mined(chain')) = Used(Mined(chain)) \cup Used(ts)
      BY MinedAppend
    <3> QED
      BY <2>2, <1>3, <3>1, <3>2, <3>3
  <2>3. CASE n # L + 1
    <3>1. n \in 0 .. L
      BY <2>3, <1>1
    <3> QED
      BY <3>1, <1>2 DEF SpentExists, Before, L
  <2> QED
    BY <2>2, <2>3
<1> QED
  BY <1>4, <1>5

\* One block less: the others were valid before it, too.
LEMMA RevertKeepsChain ==
  ASSUME chain \in Seq(SUBSET Txns), chain # <<>>, BlocksValid, SpentExists,
         chain' = SubSeq(chain, 1, Len(chain) - 1)
  PROVE  (BlocksValid /\ SpentExists)'
<1> DEFINE L == Len(chain) - 1
<1>1. /\ L \in Nat /\ Len(chain) = L + 1 /\ chain[L + 1] \in SUBSET Txns
      /\ chain' \in Seq(SUBSET Txns) /\ Len(chain') = L
      /\ chain = Append(chain', chain[L + 1])
  BY LastBlock
<1> HIDE DEF L
<1>2. /\ \A n \in 1 .. L : chain[n] = chain'[n]
      /\ \A n \in 0 .. L : SubSeq(chain, 1, n) = SubSeq(chain', 1, n)
  <2> DEFINE ts == chain[L + 1]
  <2>1. ts \in SUBSET Txns /\ chain = Append(chain', ts)
    BY <1>1
  <2> HIDE DEF ts
  <2>2. /\ \A n \in 1 .. Len(chain') : Append(chain', ts)[n] = chain'[n]
        /\ \A n \in 0 .. Len(chain') : SubSeq(Append(chain', ts), 1, n) = SubSeq(chain', 1, n)
    BY <1>1, <2>1, PrefixOfAppend
  <2> QED
    BY <1>1, <2>1, <2>2
<1>3. \A n \in 1 .. L : n \in 1 .. Len(chain) /\ n - 1 \in 0 .. L
  BY <1>1
<1>4. \A n \in 0 .. L : n \in 0 .. Len(chain)
  BY <1>1
<1>5. BlocksValid'
  <2>1. SUFFICES ASSUME NEW n \in 1 .. L
                 PROVE  LET d == SubSeq(chain', 1, n - 1)
                        IN  chain'[n] \cap Mined(d) = {} /\ ValidBlock(d, chain'[n])
    BY <1>1 DEF BlocksValid, Before, Mined, Range, ValidBlock, NoDoubleSpends, ValidateTransaction, Ephemeral, Unspent, Exists, Made, Used
  <2>2. chain'[n] = chain[n] /\ SubSeq(chain', 1, n - 1) = SubSeq(chain, 1, n - 1)
    BY <1>2, <1>3
  <2> QED
    BY <1>3, <2>2 DEF BlocksValid, Before
<1>6. SpentExists'
  <2>1. SUFFICES ASSUME NEW n \in 0 .. L
                 PROVE  Used(Mined(SubSeq(chain', 1, n))) \subseteq Exists(SubSeq(chain', 1, n))
    BY <1>1 DEF SpentExists, Before, Mined, Range, Exists, Made, Used
  <2> QED
    BY <1>2, <1>4 DEF SpentExists, Before
<1> QED
  BY <1>5, <1>6

-----------------------------------------------------------------------------
(* One lemma for each operation of the pool: it keeps the invariant, loses *)
(* no transaction, and lets none in without its parents.                   *)

KeptStep ==
  \A t \in DOMAIN pool \cup Mined(chain) :
    \/ t \in DOMAIN pool' \cup Mined(chain')
    \/ \E u \in Mined(chain') \ {t} : Spends[u] \cap Spends[t] # {}

ParentsStep ==
  \A t \in DOMAIN pool' \ DOMAIN pool : pool'[t] \subseteq Made(DOMAIN pool')

\* What the invariant says of the chain as it is, and of the pool.
LEMMA InvFacts ==
  ASSUME IInv
  PROVE  /\ chain \in Seq(SUBSET Txns) /\ Len(chain) \in Nat /\ Len(chain) <= MaxHeight
         /\ Mined(chain) \subseteq Txns
         /\ Waiting(pool, chain)
         /\ Used(Mined(chain)) \subseteq Exists(chain)
<1>1. chain \in Seq(SUBSET Txns) /\ Len(chain) <= MaxHeight
  BY DEF IInv, PoolInv, TypeOK, IsState
<1>2. Len(chain) \in Nat
  BY <1>1, LenProperties
<1>3. Mined(chain) \subseteq Txns
  BY <1>1 DEF Mined, Range
<1>4. Waiting(pool, chain)
  BY DEF IInv, PoolInv, TypeOK, PoolFollowsChain, WaitingNotMined, Waiting, Follows
<1>5. Used(Mined(chain)) \subseteq Exists(chain)
  <2>1. SubSeq(chain, 1, Len(chain)) = chain /\ Len(chain) \in 0 .. Len(chain)
    BY <1>1, <1>2, SubSeqFull
  <2> QED
    BY <2>1 DEF IInv, SpentExists, Before
<1> QED
  BY <1>1, <1>2, <1>3, <1>4, <1>5

\* Nothing but the pool changes, to one that waits on the same chain.
LEMMA PoolOnly ==
  ASSUME IInv, UNCHANGED <<chain, prev>>, Waiting(pool', chain)
  PROVE  IInv'
<1>1. TypeOK'
  BY DEF IInv, PoolInv, TypeOK, Waiting, IsState
<1>2. PoolFollowsChain' /\ WaitingNotMined'
  BY DEF PoolFollowsChain, WaitingNotMined, Waiting, Follows, Ephemeral, Unspent, Mined, Exists, Used, Made, Range
<1>3. BlocksValid' /\ SpentExists'
  BY DEF IInv, BlocksValid, SpentExists, Before, ValidBlock, NoDoubleSpends, ValidateTransaction,
         Ephemeral, Unspent, Mined, Exists, Used, Made, Range
<1> QED
  BY <1>1, <1>2, <1>3 DEF IInv, PoolInv

LEMMA AddTransactionStep ==
  ASSUME IInv, NEW t \in Txns, NEW at, NEW kept, AddTransaction(t, at, kept)
  PROVE  IInv' /\ KeptStep /\ ParentsStep
<1> DEFINE marks == Ephemeral(at, t)
<1>1. Waiting(With(pool, t, marks), chain) /\ marks \subseteq Made(DOMAIN pool)
  BY InvFacts, AcceptedFollows DEF AddTransaction
<1>2. pool' = With(pool, t, marks) /\ UNCHANGED <<chain, prev>>
  BY DEF AddTransaction
<1>3. DOMAIN pool' = DOMAIN pool \cup {t} /\ pool'[t] = marks
  BY <1>2 DEF With
<1> HIDE DEF marks
<1>4. IInv'
  BY <1>1, <1>2, PoolOnly
<1>5. KeptStep
  BY <1>2, <1>3 DEF KeptStep, Mined, Range
<1>6. ParentsStep
  BY <1>1, <1>3 DEF ParentsStep, Made
<1> QED
  BY <1>4, <1>5, <1>6

\* A pool that another one grew to without losing a transaction, each new one
\* with its parents.
Grows(p, q) ==
  /\ DOMAIN p \subseteq DOMAIN q
  /\ \A t \in DOMAIN p : q[t] = p[t]
  /\ \A t \in DOMAIN q \ DOMAIN p : q[t] \subseteq Made(DOMAIN q)

LEMMA OneMoreStep ==
  ASSUME IInv, NEW r, NEW t \in Txns, Waiting(r.pool, chain), Grows(pool, r.pool)
  PROVE  Waiting(OneMore(r, t).pool, chain) /\ Grows(pool, OneMore(r, t).pool)
<1> DEFINE p == r.pool
           marks == Ephemeral(chain, t)
           q == With(p, t, marks)
<1>1. CASE r.ok /\ t \notin DOMAIN p /\ Accepts(p, t, chain, TRUE)
  <2>1. OneMore(r, t).pool = q
    BY <1>1 DEF OneMore
  <2>2. Waiting(q, chain) /\ marks \subseteq Made(DOMAIN p)
    BY <1>1, InvFacts, AcceptedFollows
  <2>3. DOMAIN q = DOMAIN p \cup {t} /\ q[t] = marks /\ \A u \in DOMAIN p : q[u] = p[u]
    BY <1>1 DEF With
  <2> HIDE DEF marks, q, p
  <2>4. Grows(pool, p)
    BY DEF p
  <2>5. Grows(pool, q)
    BY <1>1, <2>2, <2>3, <2>4 DEF Grows, Made
  <2> QED
    BY <2>1, <2>2, <2>5
<1>2. CASE ~(r.ok /\ t \notin DOMAIN p /\ Accepts(p, t, chain, TRUE))
  BY <1>2 DEF OneMore
<1> QED
  BY <1>1, <1>2

\* A pair is handed over: the function that follows it is there, and gives
\* the pool after the first, and after the second.
LEMMA AddTransactionSetStep ==
  ASSUME IInv, NEW t \in Txns, NEW u \in Txns, AddTransactionSet(<<t, u>>)
  PROVE  IInv' /\ KeptStep /\ ParentsStep
<1> DEFINE ts == <<t, u>>
           r0 == [ok |-> TRUE, pool |-> pool]
           r1 == OneMore(r0, t)
           r2 == OneMore(r1, u)
           F(f) == [n \in 0 .. Len(ts) |-> IF n = 0 THEN r0 ELSE OneMore(f[n - 1], ts[n])]
           after == CHOOSE f : f = F(f)
<1>1. pool' = after[Len(ts)].pool /\ UNCHANGED <<chain, prev>>
  BY DEF AddTransactionSet
<1>2. Len(ts) = 2 /\ ts[1] = t /\ ts[2] = u
  OBVIOUS
<1> HIDE DEF ts
<1>3. after = F(after)
  <2> DEFINE g == [n \in 0 .. Len(ts) |-> IF n = 0 THEN r0 ELSE IF n = 1 THEN r1 ELSE r2]
  <2>1. g[0] = r0 /\ g[1] = r1
    BY <1>2
  <2>2. ASSUME NEW n \in 0 .. Len(ts), n # 0
        PROVE  g[n] = OneMore(g[n - 1], ts[n])
    <3>1. n = 1 \/ n = 2
      BY <1>2, <2>2
    <3>2. g[2] = r2 /\ 2 - 1 = 1 /\ 1 - 1 = 0
      BY <1>2
    <3> HIDE DEF g
    <3> QED
      BY <3>1, <3>2, <2>1, <1>2
  <2>3. g = F(g)
    <3>1. \A n \in 0 .. Len(ts) : g[n] = IF n = 0 THEN r0 ELSE OneMore(g[n - 1], ts[n])
      BY <2>1, <2>2
    <3>2. g = [n \in 0 .. Len(ts) |-> g[n]]
      OBVIOUS
    <3> HIDE DEF g
    <3> QED
      BY <3>1, <3>2
  <2> HIDE DEF g, F
  <2> QED
    BY <2>3
<1> HIDE DEF after
<1>4. after[2] = r2
  <2>1. \A n \in 0 .. 2 : after[n] = IF n = 0 THEN r0 ELSE OneMore(after[n - 1], ts[n])
    BY <1>2, <1>3
  <2>2. after[0] = r0
    BY <2>1
  <2>3. after[1] = OneMore(after[0], ts[1]) /\ after[2] = OneMore(after[1], ts[2])
    <3>1. 1 \in 0 .. 2 /\ 2 \in 0 .. 2 /\ 1 - 1 = 0 /\ 2 - 1 = 1 /\ 1 # 0 /\ 2 # 0
      OBVIOUS
    <3> QED
      BY <2>1, <3>1
  <2> QED
    BY <2>1, <2>2, <2>3, <1>2
<1> HIDE DEF F
<1>5. Waiting(pool, chain) /\ Grows(pool, pool)
  BY InvFacts DEF Grows
<1>6. Waiting(r1.pool, chain) /\ Grows(pool, r1.pool)
  BY <1>5, OneMoreStep
<1> HIDE DEF r1
<1>7. Waiting(r2.pool, chain) /\ Grows(pool, r2.pool)
  BY <1>6, OneMoreStep
<1>8. pool' = r2.pool
  BY <1>1, <1>2, <1>4
<1> HIDE DEF r2
<1>9. IInv'
  BY <1>1, <1>7, <1>8, PoolOnly
<1> QED
  BY <1>1, <1>7, <1>8, <1>9 DEF KeptStep, ParentsStep, Grows, Mined, Range

LEMMA ApplyUpdateStep ==
  ASSUME IInv, NEW ts \in SUBSET Txns, ApplyUpdate(ts)
  PROVE  IInv' /\ KeptStep /\ ParentsStep
<1> DEFINE marks(t) == pool[t] \ Made(ts)
           kept == {u \in DOMAIN pool \ ts : ValidateTransaction(chain', u, marks(u))}
<1>1. /\ Len(chain) < MaxHeight /\ ts \cap Mined(chain) = {} /\ ValidBlock(chain, ts)
      /\ chain' = Append(chain, ts) /\ prev' = [chain |-> chain, block |-> ts]
      /\ pool' = [t \in kept |-> marks(t)]
  BY DEF ApplyUpdate
<1>2. /\ chain \in Seq(SUBSET Txns) /\ Len(chain) \in Nat /\ Waiting(pool, chain)
      /\ Used(Mined(chain)) \subseteq Exists(chain) /\ Len(chain) <= MaxHeight
  BY InvFacts
<1>3. /\ Mined(chain') = Mined(chain) \cup ts
      /\ Exists(chain') = Exists(chain) \cup Made(ts)
      /\ Used(Mined(chain')) = Used(Mined(chain)) \cup Used(ts)
  BY <1>1, <1>2, MinedAppend
<1>4. chain' \in Seq(SUBSET Txns) /\ Len(chain') = Len(chain) + 1
  BY <1>1, <1>2, PrefixOfAppend
<1>5. DOMAIN pool' = kept /\ kept \subseteq DOMAIN pool \ ts /\ \A t \in kept : pool'[t] = marks(t)
  BY <1>1
<1>6. \A t \in kept : Spends[t] \ marks(t) \subseteq Unspent(chain')
  BY DEF ValidateTransaction
<1>7. \A t \in DOMAIN pool : marks(t) = Ephemeral(chain', t)
  BY <1>2, <1>3 DEF Waiting, Follows, Ephemeral
<1>8. TypeOK'
  <2>1. IsState(chain')
    BY <1>1, <1>2, <1>4, TxnAssumption DEF IsState
  <2>2. IsState(prev'.chain) /\ prev'.block \subseteq Txns
    BY <1>1, <1>2 DEF IsState
  <2>3. DOMAIN pool' \subseteq Txns /\ \A t \in DOMAIN pool' : pool'[t] \subseteq Spends[t]
    BY <1>2, <1>5 DEF Waiting
  <2> QED
    BY <2>1, <2>2, <2>3 DEF TypeOK, IsState
<1>9. PoolFollowsChain'
  <2>1. \A t \in DOMAIN pool' :
          pool'[t] = Spends[t] \ Exists(chain') /\ Spends[t] \ pool'[t] \subseteq Exists(chain') \ Used(Mined(chain'))
    BY <1>5, <1>6, <1>7 DEF Ephemeral, Unspent
  <2> QED
    BY <2>1 DEF PoolFollowsChain, Ephemeral, Unspent, Exists, Used, Made, Mined, Range
<1>10. WaitingNotMined'
  <2>1. DOMAIN pool' \cap Mined(chain') = {}
    BY <1>2, <1>3, <1>5 DEF Waiting
  <2> QED
    BY <2>1 DEF WaitingNotMined, Mined, Range
<1>11. (BlocksValid /\ SpentExists)'
  BY <1>1, <1>2, ApplyKeepsChain DEF IInv
<1>12. KeptStep
  <2>1. SUFFICES ASSUME NEW t \in DOMAIN pool, t \notin kept, t \notin ts
                 PROVE  \E u \in ts \ {t} : Spends[u] \cap Spends[t] # {}
    BY <1>3, <1>5 DEF KeptStep
  <2>2. PICK o \in Spends[t] \ marks(t) : o \notin Unspent(chain')
    BY <2>1 DEF ValidateTransaction
  <2> HIDE DEF kept
  <2>3. o \in Exists(chain') /\ o \notin Used(Mined(chain))
    BY <2>1, <2>2, <1>2, <1>3, <1>7 DEF Waiting, Follows, Ephemeral, Unspent
  <2>4. o \in Used(ts)
    BY <2>2, <2>3, <1>3 DEF Unspent
  <2>5. PICK u \in ts : o \in Spends[u]
    BY <2>4 DEF Used
  <2> QED
    BY <2>1, <2>2, <2>5
<1>13. ParentsStep
  BY <1>5 DEF ParentsStep
<1> QED
  BY <1>8, <1>9, <1>10, <1>11, <1>12, <1>13 DEF IInv, PoolInv

LEMMA RevertUpdateStep ==
  ASSUME IInv, RevertUpdate
  PROVE  IInv' /\ KeptStep /\ ParentsStep
<1> DEFINE ts == chain[Len(chain)]
           marks(t) == pool[t] \cup (Spends[t] \cap Made(ts))
           valid == {t \in DOMAIN pool : ValidateTransaction(chain', t, marks(t))}
<1>1. /\ chain # <<>> /\ UNCHANGED prev /\ chain' = SubSeq(chain, 1, Len(chain) - 1)
      /\ pool' = [t \in valid \cup ts |-> IF t \in ts THEN Ephemeral(chain', t) ELSE marks(t)]
  BY DEF RevertUpdate
<1>2. /\ chain \in Seq(SUBSET Txns) /\ Len(chain) \in Nat /\ Waiting(pool, chain)
      /\ Used(Mined(chain)) \subseteq Exists(chain) /\ Len(chain) <= MaxHeight
  BY InvFacts
<1>3. /\ Len(chain) \in Nat \ {0} /\ ts \in SUBSET Txns
      /\ chain' \in Seq(SUBSET Txns) /\ Len(chain') = Len(chain) - 1
      /\ chain = Append(chain', ts)
  BY <1>1, <1>2, LastBlock
<1>4. ts \cap Mined(chain') = {} /\ ValidBlock(chain', ts)
  BY <1>1, <1>3 DEF IInv, BlocksValid, Before
<1>5. DOMAIN pool' = valid \cup ts
      /\ \A t \in DOMAIN pool' : pool'[t] = IF t \in ts THEN Ephemeral(chain', t) ELSE marks(t)
  BY <1>1
<1>6. \A t \in valid : t \in DOMAIN pool /\ Spends[t] \ marks(t) \subseteq Unspent(chain')
  BY DEF ValidateTransaction
<1>7. \A t \in DOMAIN pool : Spends[t] \ marks(t) \subseteq Unspent(chain') => t \in valid
  BY DEF ValidateTransaction
<1> HIDE DEF valid, ts
<1>8. /\ Mined(chain) = Mined(chain') \cup ts
      /\ Exists(chain) = Exists(chain') \cup Made(ts)
      /\ Used(Mined(chain)) = Used(Mined(chain')) \cup Used(ts)
  BY <1>3, MinedAppend
<1>9. Made(ts) \cap Exists(chain') = {}
  BY <1>3, <1>4, OneMaker
<1>10. \A t \in DOMAIN pool : marks(t) = Ephemeral(chain', t)
  BY <1>2, <1>8, <1>9 DEF Waiting, Follows, Ephemeral
<1>11. \A t \in ts : Ephemeral(chain', t) \subseteq Made(ts)
                     /\ Spends[t] \ Ephemeral(chain', t) \subseteq Unspent(chain')
  BY <1>4 DEF ValidBlock, ValidateTransaction
<1>12. TypeOK'
  <2>1. IsState(chain')
    BY <1>2, <1>3, TxnAssumption DEF IsState
  <2>2. IsState(prev'.chain) /\ prev'.block \subseteq Txns
    BY <1>1 DEF IInv, PoolInv, TypeOK, IsState
  <2>3. DOMAIN pool' \subseteq Txns
    BY <1>2, <1>3, <1>5, <1>6 DEF Waiting
  <2>4. \A t \in DOMAIN pool' : pool'[t] \subseteq Spends[t]
    BY <1>5, <1>6, <1>10 DEF Ephemeral
  <2> QED
    BY <2>1, <2>2, <2>3, <2>4 DEF TypeOK, IsState
<1>13. PoolFollowsChain'
  <2>1. \A t \in DOMAIN pool' :
          pool'[t] = Spends[t] \ Exists(chain') /\ Spends[t] \ pool'[t] \subseteq Exists(chain') \ Used(Mined(chain'))
    BY <1>5, <1>6, <1>10, <1>11 DEF Ephemeral, Unspent
  <2> QED
    BY <2>1 DEF PoolFollowsChain, Ephemeral, Unspent, Exists, Used, Made, Mined, Range
<1>14. WaitingNotMined'
  <2>1. DOMAIN pool' \cap Mined(chain') = {}
    BY <1>2, <1>4, <1>5, <1>6, <1>8 DEF Waiting
  <2> QED
    BY <2>1 DEF WaitingNotMined, Mined, Range
<1>15. (BlocksValid /\ SpentExists)'
  BY <1>1, <1>2, RevertKeepsChain DEF IInv
<1>16. KeptStep
  <2>1. DOMAIN pool \subseteq valid
    BY <1>2, <1>7, <1>8 DEF Waiting, Follows, Unspent
  <2> QED
    BY <2>1, <1>5, <1>8 DEF KeptStep
<1>17. ParentsStep
  <2>1. SUFFICES ASSUME NEW t \in DOMAIN pool' \ DOMAIN pool
                 PROVE  pool'[t] \subseteq Made(DOMAIN pool')
    BY DEF ParentsStep
  <2>2. t \in ts
    BY <1>5, <1>6
  <2> QED
    BY <2>2, <1>5, <1>11 DEF Made
<1> QED
  BY <1>12, <1>13, <1>14, <1>15, <1>16, <1>17 DEF IInv, PoolInv

-----------------------------------------------------------------------------
(* The theorems.                                                           *)

LEMMA InitIInv ==
  ASSUME Init
  PROVE  IInv
<1>1. TypeOK
  BY TxnAssumption DEF Init, TypeOK, IsState
<1>2. PoolFollowsChain /\ WaitingNotMined
  BY DEF Init, PoolFollowsChain, WaitingNotMined
<1>3. BlocksValid
  BY DEF Init, BlocksValid
<1>4. SpentExists
  <2>1. SUFFICES ASSUME NEW n \in 0 .. Len(chain)
                 PROVE  Used(Mined(Before(n))) \subseteq Exists(Before(n))
    BY DEF SpentExists
  <2>2. n = 0 /\ chain \in Seq(SUBSET Txns)
    BY <2>1 DEF Init
  <2>3. Before(n) = <<>>
    BY <2>2, SubSeqEmpty DEF Before
  <2>4. Mined(<<>>) = {}
    BY DEF Mined, Range
  <2> QED
    BY <2>3, <2>4 DEF Used
<1> QED
  BY <1>1, <1>2, <1>3, <1>4 DEF IInv, PoolInv

LEMMA EachStep ==
  ASSUME IInv, [Next]_poolVars
  PROVE  IInv' /\ KeptStep /\ ParentsStep
<1>1. CASE \E t \in Txns, at \in {prev.chain} \cup {SubSeq(chain, 1, n) : n \in 0 .. Len(chain)},
              kept \in BOOLEAN : AddTransaction(t, at, kept)
  BY <1>1, AddTransactionStep
<1>2. CASE \E t, u \in Txns : AddTransactionSet(<<t, u>>)
  BY <1>2, AddTransactionSetStep
<1>3. CASE \E ts \in SUBSET Txns : ApplyUpdate(ts)
  BY <1>3, ApplyUpdateStep
<1>4. CASE RevertUpdate
  BY <1>4, RevertUpdateStep
<1>5. CASE UNCHANGED poolVars
  <2>1. UNCHANGED <<chain, prev>> /\ pool' = pool
    BY <1>5 DEF poolVars
  <2>2. IInv'
    BY <2>1, InvFacts, PoolOnly
  <2> QED
    BY <2>1, <2>2 DEF KeptStep, ParentsStep, Mined, Range
<1> QED
  BY <1>1, <1>2, <1>3, <1>4, <1>5 DEF Next, Submit, Update

\* Through any reorg, and whatever state it was written on, a transaction of
\* the pool marks as ephemeral what the chain does not have, and the rest of
\* its inputs are unspent (updateEphemeralInputs, revertEphemeralInputs).
THEOREM PoolInvHolds == Spec => []PoolInv
<1>1. IInv => PoolInv
  BY DEF IInv
<1> QED
  BY <1>1, InitIInv, EachStep, PTL DEF Spec

\* A transaction that waits or is mined goes on doing so, until another one
\* that is mined spends an input of it ("put reverted txns back in the pool").
THEOREM NoneIsLost == Spec => KeptUntilSpent
<1>1. IInv /\ [Next]_poolVars => KeptStep
  BY EachStep
<1>2. KeptStep => [\A t \in DOMAIN pool \cup Mined(chain) :
       \/ t \in DOMAIN pool' \cup Mined(chain')
       \/ \E u \in Mined(chain') \ {t} : Spends[u] \cap Spends[t] # {}]_poolVars
  BY DEF KeptStep
<1> QED
  BY <1>1, <1>2, InitIInv, EachStep, PTL DEF Spec, KeptUntilSpent

\* A transaction comes to the pool with its parents, also one of a block that
\* is reverted (validateTransaction, ProcessChainRevertUpdate).
THEOREM ParentsCome == Spec => ParentsAtFirst
<1>1. IInv /\ [Next]_poolVars => ParentsStep
  BY EachStep
<1>2. ParentsStep => [\A t \in DOMAIN pool' \ DOMAIN pool :
       pool'[t] \subseteq Made(DOMAIN pool')]_poolVars
  BY DEF ParentsStep
<1> QED
  BY <1>1, <1>2, InitIInv, EachStep, PTL DEF Spec, ParentsAtFirst

-----------------------------------------------------------------------------
(* The outputs in use: the inductive invariant.                            *)

\* A call has its fields.
CallsOK ==
  /\ DOMAIN call = Calls
  /\ \A c \in Calls : {"pc", "ins", "height", "seen", "at", "toSign", "signed"} \subseteq DOMAIN call[c]

\* What was sent is what a call that has sent it holds: nothing else makes it.
SentByCalls ==
  \A t \in sent : /\ t.call \in Calls
                  /\ call[t.call].pc = "sent"
                  /\ t = Txn(t.call, call[t.call].ins)

HoldInv == CallsOK /\ HeldOnce /\ SentByCalls

Held == UNION {call[c].ins : c \in {d \in Calls : Holding(d)}}

\* A call goes on without taking or releasing anything.
LEMMA SameHolder ==
  ASSUME HoldInv, NEW c \in Calls, CallsOK', shared' = shared, sent' = sent,
         shared => used' = used, call[c].pc # "sent",
         \A d \in Calls \ {c} : call'[d] = call[d],
         Holding(c)' <=> Holding(c),
         Holding(c) => call'[c].ins = call[c].ins
  PROVE  HoldInv'
<1>1. \A d \in Calls : Holding(d)' <=> Holding(d)
  BY DEF Holding
<1>2. \A d \in Calls : Holding(d) => call'[d].ins = call[d].ins
  OBVIOUS
<1>3. HeldOnce'
  <2>1. SUFFICES ASSUME shared
                 PROVE  /\ used = UNION {call'[d].ins : d \in {e \in Calls : Holding(e)'}}
                        /\ \A d, e \in Calls : d # e /\ Holding(d)' /\ Holding(e)'
                                                 => call'[d].ins \cap call'[e].ins = {}
    BY DEF HeldOnce
  <2>2. {e \in Calls : Holding(e)'} = {e \in Calls : Holding(e)}
    BY <1>1
  <2>3. {call'[d].ins : d \in {e \in Calls : Holding(e)'}} = {call[d].ins : d \in {e \in Calls : Holding(e)}}
    BY <1>2, <2>2
  <2> QED
    BY <2>1, <2>3, <1>1, <1>2 DEF HoldInv, HeldOnce
<1>4. SentByCalls'
  BY DEF HoldInv, SentByCalls
<1> QED
  BY <1>3, <1>4 DEF HoldInv

\* A call takes outputs that nobody has.
LEMMA Takes ==
  ASSUME HoldInv, NEW c \in Calls, NEW ins, CallsOK', shared' = shared, sent' = sent,
         used' = used \cup ins, ins \cap used = {},
         ~Holding(c), Holding(c)', call'[c].ins = ins,
         \A d \in Calls \ {c} : call'[d] = call[d]
  PROVE  HoldInv'
<1>1. \A d \in Calls \ {c} : (Holding(d)' <=> Holding(d)) /\ call'[d] = call[d]
  BY DEF Holding
<1>2. HeldOnce'
  <2>1. SUFFICES ASSUME shared
                 PROVE  /\ used \cup ins = UNION {call'[d].ins : d \in {e \in Calls : Holding(e)'}}
                        /\ \A d, e \in Calls : d # e /\ Holding(d)' /\ Holding(e)'
                                                 => call'[d].ins \cap call'[e].ins = {}
    BY DEF HeldOnce
  <2>2. used = Held
    BY <2>1 DEF HoldInv, HeldOnce, Held
  <2>3. {e \in Calls : Holding(e)'} = {e \in Calls : Holding(e)} \cup {c}
    BY <1>1
  <2>4. {call'[d].ins : d \in {e \in Calls : Holding(e)'}}
          = {call[d].ins : d \in {e \in Calls : Holding(e)}} \cup {ins}
    BY <1>1, <2>3
  <2>5. UNION {call'[d].ins : d \in {e \in Calls : Holding(e)'}} = Held \cup ins
    BY <2>4 DEF Held
  <2>6. \A d \in Calls \ {c} : Holding(d)' => call'[d].ins \subseteq used
    BY <1>1, <2>2 DEF Held
  <2>7. \A d, e \in Calls : d # e /\ Holding(d) /\ Holding(e) => call[d].ins \cap call[e].ins = {}
    BY <2>1 DEF HoldInv, HeldOnce
  <2>8. ASSUME NEW d \in Calls, NEW e \in Calls, d # e, Holding(d)', Holding(e)'
        PROVE  call'[d].ins \cap call'[e].ins = {}
    <3>1. CASE d = c
      BY <3>1, <2>6, <2>8
    <3>2. CASE e = c
      BY <3>2, <2>6, <2>8
    <3>3. CASE d # c /\ e # c
      BY <3>3, <1>1, <2>7, <2>8
    <3> QED
      BY <3>1, <3>2, <3>3
  <2> QED
    BY <2>2, <2>5, <2>8
<1>3. SentByCalls'
  BY DEF HoldInv, SentByCalls, Holding
<1> QED
  BY <1>2, <1>3 DEF HoldInv

\* A call releases what it holds.
LEMMA Releases ==
  ASSUME HoldInv, NEW c \in Calls, CallsOK', shared' = shared, sent' = sent,
         used' = Release(c), Holding(c), call[c].pc # "sent", ~Holding(c)',
         \A d \in Calls \ {c} : call'[d] = call[d]
  PROVE  HoldInv'
<1>1. \A d \in Calls \ {c} : (Holding(d)' <=> Holding(d)) /\ call'[d] = call[d]
  BY DEF Holding
<1>2. HeldOnce'
  <2>1. SUFFICES ASSUME shared
                 PROVE  /\ used' = UNION {call'[d].ins : d \in {e \in Calls : Holding(e)'}}
                        /\ \A d, e \in Calls : d # e /\ Holding(d)' /\ Holding(e)'
                                                 => call'[d].ins \cap call'[e].ins = {}
    BY DEF HeldOnce
  <2>2. used = Held
    BY <2>1 DEF HoldInv, HeldOnce, Held
  <2>3. \A d, e \in Calls : d # e /\ Holding(d) /\ Holding(e) => call[d].ins \cap call[e].ins = {}
    BY <2>1 DEF HoldInv, HeldOnce
  <2>4. {e \in Calls : Holding(e)'} = {e \in Calls : Holding(e)} \ {c}
    BY <1>1
  <2>5. {call'[d].ins : d \in {e \in Calls : Holding(e)'}}
          = {call[d].ins : d \in {e \in Calls : Holding(e)} \ {c}}
    BY <1>1, <2>4
  <2>6. UNION {call[d].ins : d \in {e \in Calls : Holding(e)} \ {c}} = Held \ call[c].ins
    BY <2>3 DEF Held
  <2> QED
    BY <1>1, <2>2, <2>3, <2>5, <2>6 DEF Release
<1>3. SentByCalls'
  BY DEF HoldInv, SentByCalls
<1> QED
  BY <1>2, <1>3 DEF HoldInv

-----------------------------------------------------------------------------
(* The steps.                                                              *)

Fields == {"pc", "ins", "height", "seen", "at", "toSign", "signed"}

\* One call changes, and has its fields.
LEMMA OneChanges ==
  ASSUME HoldInv, NEW c \in Calls, NEW r, call' = [call EXCEPT ![c] = r], Fields \subseteq DOMAIN r
  PROVE  CallsOK' /\ call'[c] = r /\ \A d \in Calls \ {c} : call'[d] = call[d]
<1>1. DOMAIN call = Calls
  BY DEF HoldInv, CallsOK
<1>2. DOMAIN call' = Calls /\ call'[c] = r /\ \A d \in Calls \ {c} : call'[d] = call[d]
  BY <1>1
<1>3. \A d \in Calls : Fields \subseteq DOMAIN call'[d]
  BY <1>2 DEF HoldInv, CallsOK, Fields
<1> QED
  BY <1>2, <1>3 DEF CallsOK, Fields

LEMMA DoneFields ==
  ASSUME NEW pc, NEW ins
  PROVE  /\ Fields \subseteq DOMAIN Done(pc, ins)
         /\ Done(pc, ins).pc = pc /\ Done(pc, ins).ins = ins
  BY DEF Done, NoCall, Fields

\* A call fails before it holds anything.
LEMMA TooLittleStep ==
  ASSUME HoldInv, NEW c \in Calls, NEW outs, call[c].pc = "pool", TooLittle(c, outs)
  PROVE  HoldInv'
<1> DEFINE r == Done("failed", {})
<1>1. call' = [call EXCEPT ![c] = r] /\ UNCHANGED <<shared, used, sent>>
  BY DEF TooLittle
<1>2. Fields \subseteq DOMAIN r /\ r.pc = "failed"
  BY DoneFields
<1> HIDE DEF r
<1>3. CallsOK' /\ call'[c] = r /\ \A d \in Calls \ {c} : call'[d] = call[d]
  BY <1>1, <1>2, OneChanges
<1>4. ~Holding(c) /\ ~Holding(c)'
  BY <1>2, <1>3 DEF Holding
<1> QED
  BY <1>1, <1>3, <1>4, SameHolder

LEMMA TakeStateStep ==
  ASSUME HoldInv, NEW c \in Calls, TakeState(c)
  PROVE  HoldInv'
<1> DEFINE r == [call[c] EXCEPT !.pc = "state", !.height = Len(chain)]
<1>1. /\ call[c].pc = "idle" /\ call' = [call EXCEPT ![c] = r]
      /\ UNCHANGED <<shared, sent>> /\ (shared => used' = used)
  BY DEF TakeState, HoldInv, CallsOK
<1>2. Fields \subseteq DOMAIN r /\ r.pc = "state"
  BY DEF HoldInv, CallsOK, Fields
<1> HIDE DEF r
<1>3. CallsOK' /\ call'[c] = r /\ \A d \in Calls \ {c} : call'[d] = call[d]
  BY <1>1, <1>2, OneChanges
<1>4. ~Holding(c) /\ ~Holding(c)'
  BY <1>1, <1>2, <1>3 DEF Holding
<1> QED
  BY <1>1, <1>3, <1>4, SameHolder

LEMMA TakePoolStep ==
  ASSUME HoldInv, NEW c \in Calls, TakePool(c)
  PROVE  HoldInv'
<1> DEFINE r == [call[c] EXCEPT !.pc = "pool", !.seen = Used(DOMAIN pool)]
<1>1. call[c].pc = "state" /\ call' = [call EXCEPT ![c] = r] /\ UNCHANGED <<shared, used, sent>>
  BY DEF TakePool, HoldInv, CallsOK
<1>2. Fields \subseteq DOMAIN r /\ r.pc = "pool"
  BY DEF HoldInv, CallsOK, Fields
<1> HIDE DEF r
<1>3. CallsOK' /\ call'[c] = r /\ \A d \in Calls \ {c} : call'[d] = call[d]
  BY <1>1, <1>2, OneChanges
<1>4. ~Holding(c) /\ ~Holding(c)'
  BY <1>1, <1>2, <1>3 DEF Holding
<1> QED
  BY <1>1, <1>3, <1>4, SameHolder

LEMMA FundStep ==
  ASSUME HoldInv, NEW c \in Calls, Fund(c)
  PROVE  HoldInv'
<1> DEFINE outs == {o \in Free(c) : Maturity[o] <= call[c].height}
<1>1. CASE TooLittle(c, outs)
  BY <1>1, TooLittleStep DEF Fund
<1>2. CASE ~TooLittle(c, outs)
  <2>1. PICK ins \in Selections(outs, Amount[c]) :
          /\ call' = [call EXCEPT ![c].pc = "funded", ![c].ins = ins, ![c].at = wchain]
          /\ used' = used \cup ins /\ UNCHANGED <<shared, sent>>
    BY <1>2 DEF Fund
  <2> DEFINE r == [call[c] EXCEPT !.pc = "funded", !.ins = ins, !.at = wchain]
  <2>2. call' = [call EXCEPT ![c] = r]
    BY <2>1 DEF HoldInv, CallsOK
  <2>3. Fields \subseteq DOMAIN r /\ r.pc = "funded" /\ r.ins = ins
    BY DEF HoldInv, CallsOK, Fields
  <2> HIDE DEF r
  <2>4. CallsOK' /\ call'[c] = r /\ \A d \in Calls \ {c} : call'[d] = call[d]
    BY <2>2, <2>3, OneChanges
  <2>5. ~Holding(c) /\ Holding(c)'
    BY <2>3, <2>4 DEF Fund, Holding
  <2>6. ins \cap used = {}
    BY DEF Selections, Free
  <2> HIDE DEF outs
  <2> QED
    BY <2>1, <2>3, <2>4, <2>5, <2>6, Takes
<1> QED
  BY <1>1, <1>2

LEMMA ReserveFundsStep ==
  ASSUME HoldInv, NEW c \in Calls, ReserveFunds(c)
  PROVE  HoldInv'
<1>1. CASE TooLittle(c, Free(c))
  BY <1>1, TooLittleStep DEF ReserveFunds
<1>2. CASE ~TooLittle(c, Free(c))
  <2>1. PICK ins \in Selections(Free(c), Amount[c]) :
          /\ call' = [call EXCEPT ![c].pc = "reserved", ![c].ins = ins]
          /\ used' = used \cup ins /\ UNCHANGED <<shared, sent>>
    BY <1>2 DEF ReserveFunds
  <2> DEFINE r == [call[c] EXCEPT !.pc = "reserved", !.ins = ins]
  <2>2. call' = [call EXCEPT ![c] = r]
    BY <2>1 DEF HoldInv, CallsOK
  <2>3. Fields \subseteq DOMAIN r /\ r.pc = "reserved" /\ r.ins = ins
    BY DEF HoldInv, CallsOK, Fields
  <2> HIDE DEF r
  <2>4. CallsOK' /\ call'[c] = r /\ \A d \in Calls \ {c} : call'[d] = call[d]
    BY <2>2, <2>3, OneChanges
  <2>5. ~Holding(c) /\ Holding(c)'
    BY <2>3, <2>4 DEF ReserveFunds, Holding
  <2>6. ins \cap used = {}
    BY DEF Selections, Free
  <2> QED
    BY <2>1, <2>3, <2>4, <2>5, <2>6, Takes
<1> QED
  BY <1>1, <1>2

LEMMA GiveUpStep ==
  ASSUME HoldInv, NEW c \in Calls, GiveUp(c)
  PROVE  HoldInv'
<1> DEFINE r == Done("failed", {})
<1>1. /\ call[c].pc = "reserved" /\ used' = Release(c) /\ call' = [call EXCEPT ![c] = r]
      /\ UNCHANGED <<shared, sent>>
  BY DEF GiveUp
<1>2. Fields \subseteq DOMAIN r /\ r.pc = "failed"
  BY DoneFields
<1> HIDE DEF r
<1>3. CallsOK' /\ call'[c] = r /\ \A d \in Calls \ {c} : call'[d] = call[d]
  BY <1>1, <1>2, OneChanges
<1>4. Holding(c) /\ ~Holding(c)'
  BY <1>1, <1>2, <1>3 DEF Holding
<1> QED
  BY <1>1, <1>3, <1>4, Releases

LEMMA SignTransactionStep ==
  ASSUME HoldInv, NEW c \in Calls, SignTransaction(c)
  PROVE  HoldInv'
<1>1. PICK toSign :
        call' = [call EXCEPT ![c].pc = "signed", ![c].toSign = toSign, ![c].signed = Signatures(toSign)]
  BY DEF SignTransaction
<1> DEFINE r == [call[c] EXCEPT !.pc = "signed", !.toSign = toSign, !.signed = Signatures(toSign)]
<1>2. call[c].pc = "funded" /\ call' = [call EXCEPT ![c] = r] /\ UNCHANGED <<shared, used, sent>>
  BY <1>1 DEF SignTransaction, HoldInv, CallsOK
<1>3. Fields \subseteq DOMAIN r /\ r.pc = "signed" /\ r.ins = call[c].ins
  BY DEF HoldInv, CallsOK, Fields
<1> HIDE DEF r
<1>4. CallsOK' /\ call'[c] = r /\ \A d \in Calls \ {c} : call'[d] = call[d]
  BY <1>2, <1>3, OneChanges
<1>5. Holding(c) /\ Holding(c)'
  BY <1>2, <1>3, <1>4 DEF Holding
<1> QED
  BY <1>2, <1>3, <1>4, <1>5, SameHolder

LEMMA BroadcastStep ==
  ASSUME HoldInv, NEW c \in Calls, Broadcast(c)
  PROVE  HoldInv'
<1> DEFINE t == Txn(c, call[c].ins)
           good == [call EXCEPT ![c] = Done("sent", call[c].ins)]
           bad == [call EXCEPT ![c] = Done("failed", {})]
<1>1. /\ call[c].pc = "signed" /\ UNCHANGED shared
      /\ \/ call' = good /\ sent' = sent \cup {t} /\ UNCHANGED used
         \/ call' = bad /\ used' = Release(c) /\ UNCHANGED sent
  BY DEF Broadcast, HoldInv, CallsOK
<1>2. CASE call' = bad /\ used' = Release(c) /\ UNCHANGED sent
  <2>1. CallsOK' /\ call'[c] = Done("failed", {}) /\ \A d \in Calls \ {c} : call'[d] = call[d]
    BY <1>2, DoneFields, OneChanges
  <2>2. Holding(c) /\ ~Holding(c)'
    BY <1>1, <2>1, DoneFields DEF Holding
  <2> QED
    BY <1>1, <1>2, <2>1, <2>2, Releases
<1>3. CASE call' = good /\ sent' = sent \cup {t} /\ UNCHANGED used
  <2> DEFINE r == Done("sent", call[c].ins)
  <2>1. Fields \subseteq DOMAIN r /\ r.pc = "sent" /\ r.ins = call[c].ins
    BY DoneFields
  <2> HIDE DEF r
  <2>2. CallsOK' /\ call'[c] = r /\ \A d \in Calls \ {c} : call'[d] = call[d]
    BY <1>3, <2>1, OneChanges DEF r
  <2>3. Holding(c) /\ Holding(c)'
    BY <1>1, <2>1, <2>2 DEF Holding
  <2>4. \A d \in Calls : (Holding(d)' <=> Holding(d)) /\ call'[d].ins = call[d].ins
    BY <2>1, <2>2, <2>3 DEF Holding
  <2>5. HeldOnce'
    <3>1. SUFFICES ASSUME shared
                   PROVE  /\ used = UNION {call'[d].ins : d \in {e \in Calls : Holding(e)'}}
                          /\ \A d, e \in Calls : d # e /\ Holding(d)' /\ Holding(e)'
                                                   => call'[d].ins \cap call'[e].ins = {}
      BY <1>1, <1>3 DEF HeldOnce
    <3>2. {call'[d].ins : d \in {e \in Calls : Holding(e)'}} = {call[d].ins : d \in {e \in Calls : Holding(e)}}
      BY <2>4
    <3> QED
      BY <3>1, <3>2, <2>4 DEF HoldInv, HeldOnce
  <2>6. SentByCalls'
    <3>1. SUFFICES ASSUME NEW u \in sent \cup {t}
                   PROVE  u.call \in Calls /\ call'[u.call].pc = "sent" /\ u = Txn(u.call, call'[u.call].ins)
      BY <1>3 DEF SentByCalls, Txn
    <3>2. CASE u = t
      <4>1. u.call = c
        BY <3>2 DEF Txn
      <4> QED
        BY <3>2, <4>1, <2>1, <2>2
    <3>3. CASE u # t
      <4>1. u.call \in Calls /\ call[u.call].pc = "sent" /\ u = Txn(u.call, call[u.call].ins)
        BY <3>1, <3>3 DEF HoldInv, SentByCalls
      <4>2. u.call \in Calls \ {c}
        BY <4>1, <1>1
      <4> QED
        BY <4>1, <4>2, <2>2
    <3> QED
      BY <3>2, <3>3
  <2> QED
    BY <2>2, <2>5, <2>6 DEF HoldInv
<1> QED
  BY <1>1, <1>2, <1>3

\* The chain, the pool and the wallet's store may do what they want.
LEMMA OthersStep ==
  ASSUME HoldInv, UNCHANGED <<shared, used, call, sent>>
  PROVE  HoldInv'
<1>1. CallsOK' /\ SentByCalls'
  BY DEF HoldInv, CallsOK, SentByCalls
<1>2. HeldOnce'
  BY DEF HoldInv, HeldOnce, Holding
<1> QED
  BY <1>1, <1>2 DEF HoldInv

LEMMA InitHoldInv ==
  ASSUME BuilderInit
  PROVE  HoldInv
<1>1. CallsOK
  BY DEF BuilderInit, CallsOK, NoCall
<1>2. \A c \in Calls : ~Holding(c)
  BY DEF BuilderInit, NoCall, Holding
<1>3. HeldOnce
  <2>1. used = {}
    BY DEF BuilderInit
  <2>2. {d \in Calls : Holding(d)} = {}
    BY <1>2
  <2> QED
    BY <2>1, <2>2, <1>2 DEF HeldOnce
<1>4. SentByCalls
  BY DEF BuilderInit, SentByCalls
<1> QED
  BY <1>1, <1>3, <1>4 DEF HoldInv

LEMMA HoldStep ==
  ASSUME HoldInv, [BuilderNext]_vars
  PROVE  HoldInv'
<1>1. CASE \E c \in Calls : \/ TakeState(c) \/ TakePool(c) \/ Fund(c) \/ ReserveFunds(c)
                            \/ GiveUp(c) \/ SignTransaction(c) \/ Broadcast(c)
  BY <1>1, TakeStateStep, TakePoolStep, FundStep, ReserveFundsStep, GiveUpStep,
     SignTransactionStep, BroadcastStep
<1>2. CASE PoolUpdate \/ WalletUpdate
  BY <1>2, OthersStep DEF PoolUpdate, WalletUpdate, builderVars
<1>3. CASE UNCHANGED vars
  BY <1>3, OthersStep DEF vars, builderVars
<1> QED
  BY <1>1, <1>2, <1>3 DEF BuilderNext

-----------------------------------------------------------------------------
(* With the pool and the wallet's store: the inductive invariant.          *)

\* The store is on the pool's chain, or one block before it or after it.
Near ==
  \/ wchain = chain
  \/ \E ts \in SUBSET Txns : chain = Append(wchain, ts)
  \/ \E ts \in SUBSET Txns : ts \cap Mined(chain) = {} /\ wchain = Append(chain, ts)

\* Only what was sent is mined, and the store knows the change of what was sent.
ChangeKnown ==
  /\ Mined(chain) \cup Mined(wchain) \subseteq sent
  /\ Made(sent) \subseteq addrs

\* What a call signs it has funded, and the store knows the change of it.
Known(c, ins) == Txn(c, ins) \in Txns /\ Creates[Txn(c, ins)] \subseteq addrs

CallsFunded ==
  \A c \in Calls :
    /\ call[c].pc \in {"funded", "signed"} => Known(c, call[c].ins)
    /\ call[c].pc # "signed" => call[c].signed = {}

WalletInv == BuilderTypeOK /\ Near /\ ChangeKnown /\ CallsFunded /\ ChangeListed

BInv == IInv /\ HoldInv /\ WalletInv

\* What the invariant says of outputs, and of the chains of pool and store.
LEMMA Facts ==
  ASSUME BInv
  PROVE  /\ wchain \in Seq(SUBSET Txns) /\ chain \in Seq(SUBSET Txns)
         /\ wallet \subseteq Outputs /\ used \subseteq Outputs /\ addrs \subseteq Outputs
         /\ sent \subseteq Txns /\ DOMAIN call = Calls
         /\ \A c \in Calls : call[c].ins \subseteq Outputs /\ call[c].signed \subseteq call[c].ins
  BY InvFacts DEF BInv, WalletInv, BuilderTypeOK, IsState, HoldInv, CallsOK

LEMMA CoinsOfTxns ==
  ASSUME NEW ts \in SUBSET Txns
  PROVE  Made(ts) \subseteq Outputs /\ Used(ts) \subseteq Outputs
<1>1. \A t \in ts : Spends[t] \subseteq Outputs
  BY TxnAssumption
<1>2. \A t \in ts : Creates[t] \subseteq Outputs
  BY DEF Outputs
<1> QED
  BY <1>1, <1>2 DEF Made, Used

\* One call changes, and nothing that the pool, the chain or the store has.
LEMMA CallChanges ==
  ASSUME BInv, HoldInv', NEW c \in Calls, NEW r, call' = [call EXCEPT ![c] = r],
         UNCHANGED <<poolVars, shared, wallet, wchain, sent>>,
         addrs \subseteq addrs', addrs' \subseteq Outputs, used' \subseteq Outputs,
         r.ins \subseteq Outputs, r.signed \subseteq r.ins,
         r.pc # "signed" => r.signed = {},
         r.pc \in {"funded", "signed"} =>
           Txn(c, r.ins) \in Txns /\ Creates[Txn(c, r.ins)] \subseteq addrs'
  PROVE  BInv'
<1>1. call'[c] = r /\ \A d \in Calls \ {c} : call'[d] = call[d]
  BY Facts
<1>2. IInv'
  BY EachStep DEF BInv
<1>3. BuilderTypeOK'
  <2>1. \A d \in Calls : call'[d].signed \subseteq call'[d].ins /\ call'[d].ins \subseteq Outputs
    BY <1>1, Facts
  <2>2. TypeOK' /\ IsState(wchain)'
    BY <1>2 DEF IInv, PoolInv, BInv, WalletInv, BuilderTypeOK, IsState
  <2> QED
    BY <2>1, <2>2 DEF BInv, WalletInv, BuilderTypeOK
<1>4. Near'
  BY DEF BInv, WalletInv, Near, poolVars, Mined, Range
<1>5. ChangeKnown'
  BY DEF BInv, WalletInv, ChangeKnown, poolVars, Mined, Made, Range
<1>6. CallsFunded'
  <2>1. \A d \in Calls \ {c} : call'[d].pc \in {"funded", "signed"} =>
          Txn(d, call'[d].ins) \in Txns /\ Creates[Txn(d, call'[d].ins)] \subseteq addrs'
    BY <1>1 DEF BInv, WalletInv, CallsFunded, Known
  <2>2. \A d \in Calls : call'[d].pc # "signed" => call'[d].signed = {}
    BY <1>1 DEF BInv, WalletInv, CallsFunded
  <2> QED
    BY <1>1, <2>1, <2>2 DEF CallsFunded, Known, Txn
<1>7. ChangeListed'
  BY DEF BInv, WalletInv, ChangeListed, Unspent, Exists, Used, Made, Mined, Range
<1> QED
  BY <1>2, <1>3, <1>4, <1>5, <1>6, <1>7 DEF BInv, WalletInv

LEMMA DoneHasNothing ==
  ASSUME NEW pc, NEW ins
  PROVE  Done(pc, ins).signed = {} /\ Done(pc, ins).pc = pc /\ Done(pc, ins).ins = ins
  BY DEF Done, NoCall

LEMMA FailsInv ==
  ASSUME BInv, HoldInv', NEW c \in Calls, call' = [call EXCEPT ![c] = Done("failed", {})],
         UNCHANGED <<poolVars, shared, wallet, wchain, sent, addrs>>, used' \subseteq Outputs
  PROVE  BInv'
<1> DEFINE r == Done("failed", {})
<1>1. r.ins = {} /\ r.signed = {} /\ r.pc = "failed"
  BY DoneHasNothing
<1>2. addrs \subseteq addrs' /\ addrs' \subseteq Outputs
  BY Facts
<1> HIDE DEF r
<1>3. call' = [call EXCEPT ![c] = r] /\ r.ins \subseteq Outputs /\ r.signed \subseteq r.ins
  BY <1>1 DEF r
<1> QED
  BY <1>1, <1>2, <1>3, CallChanges

LEMMA TakeStateInv ==
  ASSUME BInv, HoldInv', NEW c \in Calls, TakeState(c)
  PROVE  BInv'
<1> DEFINE r == [call[c] EXCEPT !.pc = "state", !.height = Len(chain)]
<1>1. /\ call[c].pc = "idle" /\ call' = [call EXCEPT ![c] = r]
      /\ UNCHANGED <<poolVars, shared, wallet, wchain, sent>> /\ addrs' = addrs /\ used' \subseteq used
  BY DEF TakeState, BInv, HoldInv, CallsOK
<1>2. r.pc = "state" /\ r.ins = call[c].ins /\ r.signed = call[c].signed
  BY DEF BInv, HoldInv, CallsOK
<1>3. r.signed = {}
  BY <1>1, <1>2 DEF BInv, WalletInv, CallsFunded
<1> HIDE DEF r
<1>4. r.ins \subseteq Outputs /\ addrs' \subseteq Outputs /\ used' \subseteq Outputs /\ addrs \subseteq addrs'
  BY <1>1, <1>2, Facts
<1> QED
  BY <1>1, <1>2, <1>3, <1>4, CallChanges

LEMMA TakePoolInv ==
  ASSUME BInv, HoldInv', NEW c \in Calls, TakePool(c)
  PROVE  BInv'
<1> DEFINE r == [call[c] EXCEPT !.pc = "pool", !.seen = Used(DOMAIN pool)]
<1>1. /\ call[c].pc = "state" /\ call' = [call EXCEPT ![c] = r]
      /\ UNCHANGED <<poolVars, shared, wallet, wchain, sent>> /\ addrs' = addrs /\ used' = used
  BY DEF TakePool, BInv, HoldInv, CallsOK
<1>2. r.pc = "pool" /\ r.ins = call[c].ins /\ r.signed = call[c].signed
  BY DEF BInv, HoldInv, CallsOK
<1>3. r.signed = {}
  BY <1>1, <1>2 DEF BInv, WalletInv, CallsFunded
<1> HIDE DEF r
<1>4. r.ins \subseteq Outputs /\ addrs' \subseteq Outputs /\ used' \subseteq Outputs /\ addrs \subseteq addrs'
  BY <1>1, <1>2, Facts
<1> QED
  BY <1>1, <1>2, <1>3, <1>4, CallChanges

LEMMA FundInv ==
  ASSUME BInv, HoldInv', NEW c \in Calls, Fund(c)
  PROVE  BInv'
<1> DEFINE outs == {o \in Free(c) : Maturity[o] <= call[c].height}
<1>1. CASE TooLittle(c, outs)
  BY <1>1, Facts, FailsInv DEF TooLittle
<1>2. CASE ~TooLittle(c, outs)
  <2>1. PICK ins \in Selections(outs, Amount[c]) :
          /\ Txn(c, ins) \in Txns
          /\ call' = [call EXCEPT ![c].pc = "funded", ![c].ins = ins, ![c].at = wchain]
          /\ used' = used \cup ins /\ addrs' = addrs \cup Creates[Txn(c, ins)]
          /\ UNCHANGED <<poolVars, shared, wallet, wchain, sent>>
    BY <1>2 DEF Fund
  <2> DEFINE r == [call[c] EXCEPT !.pc = "funded", !.ins = ins, !.at = wchain]
  <2>2. call' = [call EXCEPT ![c] = r]
    BY <2>1 DEF BInv, HoldInv, CallsOK
  <2>3. r.pc = "funded" /\ r.ins = ins /\ r.signed = call[c].signed
    BY DEF BInv, HoldInv, CallsOK
  <2>4. r.signed = {}
    BY <2>3 DEF Fund, BInv, WalletInv, CallsFunded
  <2> HIDE DEF r
  <2>5. ins \subseteq wallet
    BY DEF Selections, Free
  <2>6. ins \subseteq Outputs /\ used' \subseteq Outputs
    BY <2>1, <2>5, Facts
  <2>7. addrs \subseteq addrs' /\ addrs' \subseteq Outputs /\ Creates[Txn(c, ins)] \subseteq addrs'
    BY <2>1, Facts DEF Outputs
  <2> HIDE DEF outs
  <2> QED
    BY <2>1, <2>2, <2>3, <2>4, <2>6, <2>7, CallChanges
<1> QED
  BY <1>1, <1>2

LEMMA ReserveFundsInv ==
  ASSUME BInv, HoldInv', NEW c \in Calls, ReserveFunds(c)
  PROVE  BInv'
<1>1. CASE TooLittle(c, Free(c))
  BY <1>1, Facts, FailsInv DEF TooLittle
<1>2. CASE ~TooLittle(c, Free(c))
  <2>1. PICK ins \in Selections(Free(c), Amount[c]) :
          /\ call' = [call EXCEPT ![c].pc = "reserved", ![c].ins = ins]
          /\ used' = used \cup ins /\ addrs' = addrs
          /\ UNCHANGED <<poolVars, shared, wallet, wchain, sent>>
    BY <1>2 DEF ReserveFunds
  <2> DEFINE r == [call[c] EXCEPT !.pc = "reserved", !.ins = ins]
  <2>2. call' = [call EXCEPT ![c] = r]
    BY <2>1 DEF BInv, HoldInv, CallsOK
  <2>3. r.pc = "reserved" /\ r.ins = ins /\ r.signed = call[c].signed
    BY DEF BInv, HoldInv, CallsOK
  <2>4. r.signed = {}
    BY <2>3 DEF ReserveFunds, BInv, WalletInv, CallsFunded
  <2> HIDE DEF r
  <2>5. ins \subseteq wallet
    BY DEF Selections, Free
  <2>6. ins \subseteq Outputs /\ used' \subseteq Outputs /\ addrs \subseteq addrs' /\ addrs' \subseteq Outputs
    BY <2>1, <2>5, Facts
  <2> QED
    BY <2>1, <2>2, <2>3, <2>4, <2>6, CallChanges
<1> QED
  BY <1>1, <1>2

LEMMA GiveUpInv ==
  ASSUME BInv, HoldInv', NEW c \in Calls, GiveUp(c)
  PROVE  BInv'
  BY Facts, FailsInv DEF GiveUp, Release

LEMMA SignTransactionInv ==
  ASSUME BInv, HoldInv', NEW c \in Calls, SignTransaction(c)
  PROVE  BInv'
<1>1. PICK toSign \in {call[c].ins, {}} :
        call' = [call EXCEPT ![c].pc = "signed", ![c].toSign = toSign, ![c].signed = Signatures(toSign)]
  BY DEF SignTransaction
<1> DEFINE r == [call[c] EXCEPT !.pc = "signed", !.toSign = toSign, !.signed = Signatures(toSign)]
<1>2. /\ call[c].pc = "funded" /\ call' = [call EXCEPT ![c] = r]
      /\ UNCHANGED <<poolVars, shared, wallet, wchain, sent>> /\ addrs' = addrs /\ used' = used
  BY <1>1 DEF SignTransaction, BInv, HoldInv, CallsOK
<1>3. r.pc = "signed" /\ r.ins = call[c].ins /\ r.signed = toSign
  BY DEF BInv, HoldInv, CallsOK, Signatures
<1> HIDE DEF r
<1>4. Txn(c, r.ins) \in Txns /\ Creates[Txn(c, r.ins)] \subseteq addrs'
  BY <1>2, <1>3 DEF BInv, WalletInv, CallsFunded, Known
<1>5. /\ r.ins \subseteq Outputs /\ addrs' \subseteq Outputs /\ used' \subseteq Outputs /\ addrs \subseteq addrs'
      /\ r.signed \subseteq r.ins
  BY <1>1, <1>2, <1>3, Facts
<1> QED
  BY <1>2, <1>3, <1>4, <1>5, CallChanges

\* What is accepted follows the chain, and the store knows its change.
LEMMA BroadcastInv ==
  ASSUME BInv, HoldInv', NEW c \in Calls, Broadcast(c)
  PROVE  BInv'
<1> DEFINE t == Txn(c, call[c].ins)
           at == call[c].at
           good == [call EXCEPT ![c] = Done("sent", call[c].ins)]
           bad == [call EXCEPT ![c] = Done("failed", {})]
<1>1. call[c].pc = "signed" /\ UNCHANGED <<chain, prev, shared, wallet, wchain>> /\ addrs' = addrs
  BY DEF Broadcast
<1>2. \/ \E kept \in BOOLEAN : /\ Accepts(pool, t, at, kept)
                               /\ pool' = With(pool, t, Ephemeral(at, t))
                               /\ call' = good /\ sent' = sent \cup {t} /\ used' = used
      \/ call' = bad /\ used' = Release(c) /\ UNCHANGED <<pool, sent>>
  BY DEF Broadcast, BInv, HoldInv, CallsOK
<1>3. t \in Txns /\ Creates[t] \subseteq addrs
  BY <1>1 DEF BInv, WalletInv, CallsFunded, Known
<1>4. CASE call' = bad /\ used' = Release(c) /\ UNCHANGED <<pool, sent>>
  <2>1. used' \subseteq Outputs
    BY <1>4, Facts DEF Release
  <2> QED
    BY <1>1, <1>4, <2>1, FailsInv DEF poolVars
<1>5. ASSUME NEW kept \in BOOLEAN, Accepts(pool, t, at, kept), pool' = With(pool, t, Ephemeral(at, t)),
             call' = good, sent' = sent \cup {t}, used' = used
      PROVE  BInv'
  <2> DEFINE r == Done("sent", call[c].ins)
  <2>1. r.ins = call[c].ins /\ r.signed = {} /\ r.pc = "sent"
    BY DoneHasNothing
  <2>2. call' = [call EXCEPT ![c] = r]
    BY <1>5
  <2> HIDE DEF r
  <2>3. call'[c] = r /\ \A d \in Calls \ {c} : call'[d] = call[d]
    BY <2>2, Facts
  <2> HIDE DEF t, at
  <2>4. IInv'
    <3>1. IInv
      BY DEF BInv
    <3>2. Waiting(With(pool, t, Ephemeral(at, t)), chain)
      BY <1>3, <1>5, <3>1, InvFacts, AcceptedFollows
    <3>3. Waiting(pool', chain)
      BY <1>5, <3>2
    <3> QED
      BY <1>1, <3>1, <3>3, PoolOnly
  <2>5. BuilderTypeOK'
    <3>1. \A d \in Calls : call'[d].signed \subseteq call'[d].ins /\ call'[d].ins \subseteq Outputs
      BY <2>1, <2>3, Facts
    <3>2. TypeOK' /\ IsState(wchain)'
      BY <1>1, <2>4 DEF IInv, PoolInv, BInv, WalletInv, BuilderTypeOK, IsState
    <3>3. shared' \in BOOLEAN /\ sent' \subseteq Txns
      BY <1>1, <1>3, <1>5, Facts DEF BInv, WalletInv, BuilderTypeOK
    <3>4. wallet' \subseteq Outputs /\ addrs' \subseteq Outputs /\ used' \subseteq Outputs
      BY <1>1, <1>5, Facts
    <3> QED
      BY <3>1, <3>2, <3>3, <3>4 DEF BuilderTypeOK
  <2>6. Near'
    BY <1>1 DEF BInv, WalletInv, Near, Mined, Range
  <2>7. ChangeKnown'
    <3>1. Mined(chain) \cup Mined(wchain) \subseteq sent' /\ Made(sent') \subseteq addrs
      BY <1>3, <1>5 DEF BInv, WalletInv, ChangeKnown, Made
    <3> QED
      BY <1>1, <3>1 DEF ChangeKnown, Mined, Made, Range
  <2>8. CallsFunded'
    <3>1. \A d \in Calls \ {c} : call'[d].pc \in {"funded", "signed"} => Known(d, call'[d].ins)
      BY <2>3 DEF BInv, WalletInv, CallsFunded
    <3>2. \A d \in Calls : call'[d].pc # "signed" => call'[d].signed = {}
      BY <2>1, <2>3 DEF BInv, WalletInv, CallsFunded
    <3> QED
      BY <1>1, <2>1, <2>3, <3>1, <3>2 DEF CallsFunded, Known, Txn
  <2>9. ChangeListed'
    BY <1>1 DEF BInv, WalletInv, ChangeListed, Unspent, Exists, Used, Made, Mined, Range
  <2> QED
    BY <2>4, <2>5, <2>6, <2>7, <2>8, <2>9 DEF BInv, WalletInv
<1> HIDE DEF t, at, good, bad
<1> QED
  BY <1>2, <1>4, <1>5

-----------------------------------------------------------------------------
(* The chain moves, and the store follows.                                 *)

\* The pool and the chain change, and the rest does not.
LEMMA PoolChanges ==
  ASSUME BInv, HoldInv', UNCHANGED builderVars, IInv', Near', Mined(chain') \subseteq sent
  PROVE  BInv'
<1>1. BuilderTypeOK'
  <2>1. TypeOK' /\ IsState(wchain)'
    BY DEF IInv, PoolInv, BInv, WalletInv, BuilderTypeOK, IsState, builderVars
  <2> QED
    BY <2>1 DEF BInv, WalletInv, BuilderTypeOK, builderVars
<1>2. ChangeKnown'
  BY DEF BInv, WalletInv, ChangeKnown, builderVars, Mined, Made, Range
<1>3. CallsFunded'
  BY DEF BInv, WalletInv, CallsFunded, Known, Txn, builderVars
<1>4. ChangeListed'
  BY DEF BInv, WalletInv, ChangeListed, builderVars, Unspent, Exists, Used, Made, Mined, Range
<1> QED
  BY <1>1, <1>2, <1>3, <1>4 DEF BInv, WalletInv

LEMMA PoolUpdateInv ==
  ASSUME BInv, HoldInv', PoolUpdate
  PROVE  BInv'
<1>1. IInv /\ wchain = chain /\ UNCHANGED builderVars /\ wchain' = chain
  BY DEF PoolUpdate, BInv, builderVars
<1>2. chain \in Seq(SUBSET Txns) /\ sent \subseteq Txns /\ Mined(chain) \subseteq sent
  BY Facts DEF BInv, WalletInv, ChangeKnown
<1>3. ASSUME NEW ts \in SUBSET sent, ApplyUpdate(ts)
      PROVE  BInv'
  <2>1. ts \in SUBSET Txns
    BY <1>2
  <2>2. IInv'
    BY <1>1, <1>3, <2>1, ApplyUpdateStep
  <2>3. chain' = Append(chain, ts)
    BY <1>3 DEF ApplyUpdate
  <2>4. Near'
    BY <1>1, <2>1, <2>3 DEF Near
  <2>5. Mined(chain') \subseteq sent
    BY <1>2, <2>1, <2>3, MinedAppend
  <2> QED
    BY <1>1, <2>2, <2>4, <2>5, PoolChanges
<1>4. CASE RevertUpdate
  <2>1. IInv'
    BY <1>1, <1>4, RevertUpdateStep
  <2>2. chain # <<>> /\ chain' = SubSeq(chain, 1, Len(chain) - 1)
    BY <1>4 DEF RevertUpdate
  <2>3. PICK ts \in SUBSET Txns : ts = chain[Len(chain)] /\ chain' \in Seq(SUBSET Txns) /\ chain = Append(chain', ts)
    BY <1>2, <2>2, LastBlock
  <2>4. Len(chain) \in 1 .. Len(chain)
    BY <1>2, <2>2, LastBlock
  <2>5. ts \cap Mined(chain') = {}
    BY <1>1, <2>2, <2>3, <2>4 DEF IInv, BlocksValid, Before
  <2>6. Near'
    BY <1>1, <2>3, <2>5 DEF Near, Mined, Range
  <2>7. Mined(chain) = Mined(chain') \cup ts
    BY <2>3, MinedAppend
  <2> QED
    BY <1>1, <1>2, <2>1, <2>6, <2>7, PoolChanges
<1> QED
  BY <1>3, <1>4 DEF PoolUpdate

\* The store follows the chain by a block: what it spends leaves, and what it
\* makes is known.
LEMMA ListsApplied ==
  ASSUME NEW w \in Seq(SUBSET Txns), NEW ts \in SUBSET Txns,
         Unspent(w) \subseteq wallet, Made(ts) \subseteq addrs
  PROVE  Unspent(Append(w, ts)) \subseteq WalletApply(ts)
<1>1. /\ Exists(Append(w, ts)) = Exists(w) \cup Made(ts)
      /\ Used(Mined(Append(w, ts))) = Used(Mined(w)) \cup Used(ts)
  BY MinedAppend
<1> QED
  BY <1>1 DEF Unspent, WalletApply

\* And back: what the block spent was made before it, or by it.
LEMMA ListsReverted ==
  ASSUME NEW w \in Seq(SUBSET Txns), NEW ts \in SUBSET Txns, ts \cap Mined(w) = {},
         Unspent(Append(w, ts)) \subseteq wallet
  PROVE  Unspent(w) \subseteq WalletRevert(ts)
<1>1. /\ Exists(Append(w, ts)) = Exists(w) \cup Made(ts)
      /\ Used(Mined(Append(w, ts))) = Used(Mined(w)) \cup Used(ts)
  BY MinedAppend
<1>2. Made(ts) \cap Exists(w) = {}
  BY OneMaker
<1> QED
  BY <1>1, <1>2 DEF Unspent, WalletRevert

LEMMA WalletUpdateInv ==
  ASSUME BInv, HoldInv', WalletUpdate
  PROVE  BInv'
<1>1. /\ wchain # chain /\ wchain' = chain
      /\ UNCHANGED <<poolVars, shared, used, call>> /\ addrs' = addrs /\ sent' = sent
      /\ UNCHANGED <<chain, prev, pool>>
  BY DEF WalletUpdate, poolVars
<1>2. /\ wchain \in Seq(SUBSET Txns) /\ chain \in Seq(SUBSET Txns) /\ wallet \subseteq Outputs
      /\ Unspent(wchain) \subseteq wallet /\ Mined(chain) \subseteq sent /\ Made(sent) \subseteq addrs
      /\ sent \subseteq Txns
  BY Facts DEF BInv, WalletInv, ChangeListed, ChangeKnown
<1>3. Unspent(chain) \subseteq wallet' /\ wallet' \subseteq Outputs
  <2>1. ASSUME NEW ts \in SUBSET Txns, chain = Append(wchain, ts)
        PROVE  Unspent(chain) \subseteq wallet' /\ wallet' \subseteq Outputs
    <3>1. Len(chain) > Len(wchain) /\ chain[Len(chain)] = ts
      BY <1>2, <2>1, PrefixOfAppend, LenProperties
    <3>2. wallet' = WalletApply(ts)
      BY <3>1 DEF WalletUpdate
    <3>3. ts \subseteq sent
      <4>1. Mined(chain) = Mined(wchain) \cup ts
        BY <1>2, <2>1, MinedAppend
      <4> QED
        BY <1>2, <4>1
    <3>4. Made(ts) \subseteq addrs
      BY <1>2, <3>3 DEF Made
    <3> QED
      BY <1>2, <2>1, <3>2, <3>4, ListsApplied, CoinsOfTxns DEF WalletApply
  <2>2. ASSUME NEW ts \in SUBSET Txns, ts \cap Mined(chain) = {}, wchain = Append(chain, ts)
        PROVE  Unspent(chain) \subseteq wallet' /\ wallet' \subseteq Outputs
    <3>1. ~(Len(chain) > Len(wchain)) /\ wchain[Len(wchain)] = ts
      BY <1>2, <2>2, PrefixOfAppend, LenProperties
    <3>2. wallet' = WalletRevert(ts)
      BY <3>1 DEF WalletUpdate
    <3> QED
      BY <1>2, <2>2, <3>2, ListsReverted, CoinsOfTxns DEF WalletRevert
  <2> QED
    BY <1>1, <2>1, <2>2 DEF BInv, WalletInv, Near
<1>4. IInv'
  BY <1>1, EachStep DEF BInv
<1>5. BuilderTypeOK'
  <2>1. TypeOK' /\ IsState(wchain)'
    BY <1>1, <1>4 DEF IInv, PoolInv, TypeOK, IsState
  <2> QED
    BY <1>1, <1>3, <2>1 DEF BInv, WalletInv, BuilderTypeOK
<1>6. Near'
  BY <1>1 DEF Near
<1>7. ChangeKnown'
  BY <1>1, <1>2 DEF ChangeKnown, Made, Mined, Range
<1>8. CallsFunded'
  BY <1>1 DEF BInv, WalletInv, CallsFunded, Known, Txn
<1>9. ChangeListed'
  BY <1>1, <1>3 DEF ChangeListed, Unspent, Exists, Used, Made, Mined, Range
<1> QED
  BY <1>4, <1>5, <1>6, <1>7, <1>8, <1>9 DEF BInv, WalletInv

LEMMA InitBInv ==
  ASSUME BuilderInit
  PROVE  BInv
<1>1. IInv /\ HoldInv
  BY InitIInv, InitHoldInv DEF BuilderInit
<1>2. chain = <<>> /\ wchain = <<>> /\ wallet = Coins /\ addrs = {} /\ used = {} /\ sent = {}
  BY DEF BuilderInit, Init
<1>3. Mined(<<>>) = {}
  BY DEF Mined, Range
<1>4. \A c \in Calls : call[c].ins = {} /\ call[c].signed = {} /\ call[c].pc = "idle"
  BY DEF BuilderInit, NoCall
<1>5. BuilderTypeOK
  BY <1>1, <1>2, <1>4 DEF BuilderInit, IInv, PoolInv, TypeOK, BuilderTypeOK, Outputs
<1>6. Near /\ ChangeKnown /\ CallsFunded
  BY <1>2, <1>3, <1>4 DEF Near, ChangeKnown, CallsFunded, Made
<1>7. ChangeListed
  BY <1>2, <1>3 DEF ChangeListed, Unspent, Exists, Made
<1> QED
  BY <1>1, <1>5, <1>6, <1>7 DEF BInv, WalletInv

LEMMA BuilderStep ==
  ASSUME BInv, [BuilderNext]_vars
  PROVE  BInv'
<1>1. HoldInv'
  BY HoldStep DEF BInv
<1>2. CASE \E c \in Calls : \/ TakeState(c) \/ TakePool(c) \/ Fund(c) \/ ReserveFunds(c)
                            \/ GiveUp(c) \/ SignTransaction(c) \/ Broadcast(c)
  BY <1>1, <1>2, TakeStateInv, TakePoolInv, FundInv, ReserveFundsInv, GiveUpInv,
     SignTransactionInv, BroadcastInv
<1>3. CASE PoolUpdate \/ WalletUpdate
  BY <1>1, <1>3, PoolUpdateInv, WalletUpdateInv
<1>4. CASE UNCHANGED vars
  <2>1. UNCHANGED builderVars /\ UNCHANGED poolVars /\ chain' = chain
    BY <1>4 DEF vars, poolVars
  <2>2. IInv'
    BY <2>1, EachStep DEF BInv
  <2>3. Near' /\ Mined(chain') \subseteq sent
    BY <2>1 DEF BInv, WalletInv, Near, ChangeKnown, builderVars, Mined, Range
  <2> QED
    BY <1>1, <2>1, <2>2, <2>3, PoolChanges
<1> QED
  BY <1>2, <1>3, <1>4 DEF BuilderNext

-----------------------------------------------------------------------------
(* Sends that nothing disturbs.                                            *)

\* What a call has chosen was not spent in the pool that it has read, and it has
\* signed what it was asked to.
AsAsked(r) ==
  /\ r.pc \in {"funded", "signed"} => r.ins \cap r.seen = {}
  /\ r.pc = "signed" => r.signed = r.toSign

AllAsAsked == \A c \in Calls : AsAsked(call[c])

LEMMA OneAsAsked ==
  ASSUME HoldInv, AllAsAsked, NEW c \in Calls, NEW r, AsAsked(r), call' = [call EXCEPT ![c] = r]
  PROVE  AllAsAsked'
<1>1. DOMAIN call = Calls
  BY DEF HoldInv, CallsOK
<1>2. call'[c] = r /\ \A d \in Calls \ {c} : call'[d] = call[d]
  BY <1>1
<1>3. \A d \in Calls : AsAsked(call'[d])
  BY <1>2 DEF AllAsAsked
<1> QED
  BY <1>3 DEF AllAsAsked, AsAsked

\* A call that ends, or waits to fund, is bound to nothing.
LEMMA UnboundAsAsked ==
  ASSUME HoldInv, AllAsAsked, NEW c \in Calls, NEW r, r.pc \notin {"funded", "signed"},
         call' = [call EXCEPT ![c] = r]
  PROVE  AllAsAsked'
<1>1. AsAsked(r)
  BY DEF AsAsked
<1> QED
  BY <1>1, OneAsAsked

LEMMA TooLittleAsAsked ==
  ASSUME HoldInv, AllAsAsked, NEW c \in Calls, NEW outs, TooLittle(c, outs)
  PROVE  AllAsAsked'
<1> DEFINE r == Done("failed", {})
<1>1. call' = [call EXCEPT ![c] = r]
  BY DEF TooLittle
<1>2. r.pc = "failed"
  BY DoneFields
<1> HIDE DEF r
<1> QED
  BY <1>1, <1>2, UnboundAsAsked

LEMMA FundAsAsked ==
  ASSUME HoldInv, AllAsAsked, NEW c \in Calls, Fund(c)
  PROVE  AllAsAsked'
<1> DEFINE outs == {o \in Free(c) : Maturity[o] <= call[c].height}
<1>1. CASE TooLittle(c, outs)
  BY <1>1, TooLittleAsAsked
<1>2. CASE ~TooLittle(c, outs)
  <2>1. PICK ins \in Selections(outs, Amount[c]) :
          call' = [call EXCEPT ![c].pc = "funded", ![c].ins = ins, ![c].at = wchain]
    BY <1>2 DEF Fund
  <2> DEFINE r == [call[c] EXCEPT !.pc = "funded", !.ins = ins, !.at = wchain]
  <2>2. call' = [call EXCEPT ![c] = r]
    BY <2>1 DEF HoldInv, CallsOK
  <2>3. r.pc = "funded" /\ r.ins = ins /\ r.seen = call[c].seen
    BY DEF HoldInv, CallsOK
  <2>4. ins \cap call[c].seen = {}
    BY DEF Selections, Free
  <2> HIDE DEF r
  <2>5. AsAsked(r)
    BY <2>3, <2>4 DEF AsAsked
  <2> QED
    BY <2>2, <2>5, OneAsAsked
<1> QED
  BY <1>1, <1>2

LEMMA SignTransactionAsAsked ==
  ASSUME HoldInv, AllAsAsked, NEW c \in Calls, SignTransaction(c)
  PROVE  AllAsAsked'
<1>1. PICK toSign :
        call' = [call EXCEPT ![c].pc = "signed", ![c].toSign = toSign, ![c].signed = Signatures(toSign)]
  BY DEF SignTransaction
<1> DEFINE r == [call[c] EXCEPT !.pc = "signed", !.toSign = toSign, !.signed = Signatures(toSign)]
<1>2. call' = [call EXCEPT ![c] = r]
  BY <1>1 DEF HoldInv, CallsOK
<1>3. /\ r.pc = "signed" /\ r.ins = call[c].ins /\ r.seen = call[c].seen
      /\ r.signed = toSign /\ r.toSign = toSign
  BY DEF HoldInv, CallsOK, Signatures
<1>4. call[c].ins \cap call[c].seen = {}
  BY DEF SignTransaction, AllAsAsked, AsAsked
<1> HIDE DEF r
<1>5. AsAsked(r)
  BY <1>3, <1>4 DEF AsAsked
<1> QED
  BY <1>2, <1>5, OneAsAsked

LEMMA AsAskedStep ==
  ASSUME HoldInv, AllAsAsked, [BuilderNext]_vars
  PROVE  AllAsAsked'
<1>1. ASSUME NEW c \in Calls, TakeState(c) PROVE AllAsAsked'
  <2> DEFINE r == [call[c] EXCEPT !.pc = "state", !.height = Len(chain)]
  <2>1. call' = [call EXCEPT ![c] = r] /\ r.pc = "state"
    BY <1>1 DEF TakeState, HoldInv, CallsOK
  <2> HIDE DEF r
  <2> QED
    BY <2>1, UnboundAsAsked
<1>2. ASSUME NEW c \in Calls, TakePool(c) PROVE AllAsAsked'
  <2> DEFINE r == [call[c] EXCEPT !.pc = "pool", !.seen = Used(DOMAIN pool)]
  <2>1. call' = [call EXCEPT ![c] = r] /\ r.pc = "pool"
    BY <1>2 DEF TakePool, HoldInv, CallsOK
  <2> HIDE DEF r
  <2> QED
    BY <2>1, UnboundAsAsked
<1>3. ASSUME NEW c \in Calls, ReserveFunds(c) PROVE AllAsAsked'
  <2>1. CASE TooLittle(c, Free(c))
    BY <2>1, TooLittleAsAsked
  <2>2. CASE ~TooLittle(c, Free(c))
    <3>1. PICK ins : call' = [call EXCEPT ![c].pc = "reserved", ![c].ins = ins]
      BY <1>3, <2>2 DEF ReserveFunds
    <3> DEFINE r == [call[c] EXCEPT !.pc = "reserved", !.ins = ins]
    <3>2. call' = [call EXCEPT ![c] = r] /\ r.pc = "reserved"
      BY <3>1 DEF HoldInv, CallsOK
    <3> HIDE DEF r
    <3> QED
      BY <3>2, UnboundAsAsked
  <2> QED
    BY <2>1, <2>2
<1>4. ASSUME NEW c \in Calls, GiveUp(c) \/ Broadcast(c) PROVE AllAsAsked'
  <2>1. PICK pc \in {"sent", "failed"}, ins \in {call[c].ins, {}} : call' = [call EXCEPT ![c] = Done(pc, ins)]
    BY <1>4 DEF GiveUp, Broadcast, HoldInv, CallsOK
  <2> DEFINE r == Done(pc, ins)
  <2>2. call' = [call EXCEPT ![c] = r] /\ r.pc = pc
    BY <2>1, DoneFields
  <2> HIDE DEF r
  <2> QED
    BY <2>2, UnboundAsAsked
<1>5. CASE UNCHANGED call
  BY <1>5 DEF AllAsAsked, AsAsked
<1> QED
  BY <1>1, <1>2, <1>3, <1>4, <1>5, FundAsAsked, SignTransactionAsAsked
     DEF BuilderNext, PoolUpdate, WalletUpdate, vars, builderVars

\* The pool takes what is written on its own state and spends what is unspent there.
LEMMA QuietAccepted ==
  ASSUME NEW t, NEW kept, Spends[t] \subseteq Unspent(chain)
  PROVE  Accepts(pool, t, chain, kept)
<1>1. Ephemeral(chain, t) = {}
  BY DEF Ephemeral, Unspent
<1> QED
  BY <1>1 DEF Accepts, ProofsHold, ValidateTransaction

LEMMA QuietSendStep ==
  ASSUME BInv, AllAsAsked, NEW c \in Senders, [BuilderNext]_vars,
         call[c].pc = "signed", call'[c].pc # "signed", Quiet(c), call[c].ins \cap MinerCoins = {}
  PROVE  /\ call'[c].pc = "sent"
         /\ call[c].ins \cap Used(DOMAIN pool) \cap call[c].seen = {}
<1> DEFINE t == Txn(c, call[c].ins)
<1>1. HoldInv /\ c \in Calls
  BY DEF BInv, Calls
<1>2. Broadcast(c)
  <2>1. UNCHANGED call \/ \E d \in Calls : \/ TakeState(d) \/ TakePool(d) \/ Fund(d) \/ ReserveFunds(d)
                                           \/ GiveUp(d) \/ SignTransaction(d) \/ Broadcast(d)
    BY DEF BuilderNext, PoolUpdate, WalletUpdate, vars, builderVars
  <2>2. ~UNCHANGED call
    OBVIOUS
  <2>3. PICK d \in Calls : \/ TakeState(d) \/ TakePool(d) \/ Fund(d) \/ ReserveFunds(d)
                           \/ GiveUp(d) \/ SignTransaction(d) \/ Broadcast(d)
    BY <2>1, <2>2
  <2>4. d = c
    <3>1. ASSUME d # c PROVE call'[c] = call[c]
      BY <1>1, <2>3, <3>1
         DEF TakeState, TakePool, Fund, ReserveFunds, TooLittle, GiveUp, SignTransaction, Broadcast, HoldInv, CallsOK
    <3> QED
      BY <3>1
  <2> QED
    BY <2>3, <2>4 DEF TakeState, TakePool, Fund, ReserveFunds, GiveUp, SignTransaction
<1>3. t \in Txns
  BY <1>1 DEF BInv, WalletInv, CallsFunded, Known
<1>4. Spends[t] = call[c].ins
  BY <1>3, BuilderAssumption DEF Txn
<1>5. PoliciesValid(c)
  BY <1>1 DEF PoliciesValid, Quiet, AllAsAsked, AsAsked
<1>6. \A kept : Accepts(pool, t, call[c].at, kept)
  BY <1>4, QuietAccepted DEF Quiet
<1>7. call' = [call EXCEPT ![c] = Done("sent", call[c].ins)]
  BY <1>1, <1>2, <1>5, <1>6 DEF Broadcast, HoldInv, CallsOK
<1>8. call'[c] = Done("sent", call[c].ins)
  BY <1>1, <1>7 DEF HoldInv, CallsOK
<1>9. call[c].ins \cap call[c].seen = {}
  BY <1>1 DEF AllAsAsked, AsAsked
<1> QED
  BY <1>8, <1>9, DoneFields

-----------------------------------------------------------------------------
(* The theorems.                                                           *)

\* "The inputs will not be available to future calls to ReserveFunds or Fund
\* unless ReleaseInputs is called" (wallet.go:109-111): of one builder, what is
\* in use is what calls hold that have not failed, and each output has one
\* holder.
THEOREM OneHolder == BuilderSpec => []HeldOnce
<1>1. HoldInv => HeldOnce
  BY DEF HoldInv
<1> QED
  BY <1>1, InitHoldInv, HoldStep, PTL DEF BuilderSpec

\* Transactions of one builder that were accepted have no output in common.
THEOREM NeverTwice == BuilderSpec => []SpentByOne
<1>1. HoldInv => SpentByOne
  <2>1. SUFFICES ASSUME HoldInv, shared, NEW t \in sent, NEW u \in sent, t # u
                 PROVE  t.ins \cap u.ins = {}
    BY DEF SpentByOne
  <2>2. /\ t.call \in Calls /\ call[t.call].pc = "sent" /\ t = Txn(t.call, call[t.call].ins)
        /\ u.call \in Calls /\ call[u.call].pc = "sent" /\ u = Txn(u.call, call[u.call].ins)
    BY <2>1 DEF HoldInv, SentByCalls
  <2>3. t.call # u.call
    BY <2>1, <2>2
  <2>4. Holding(t.call) /\ Holding(u.call)
    BY <2>2 DEF Holding
  <2>5. call[t.call].ins \cap call[u.call].ins = {}
    BY <2>1, <2>2, <2>3, <2>4 DEF HoldInv, HeldOnce
  <2>6. t.ins = call[t.call].ins /\ u.ins = call[u.call].ins
    BY <2>2 DEF Txn
  <2> QED
    BY <2>5, <2>6
<1> QED
  BY <1>1, InitHoldInv, HoldStep, PTL DEF BuilderSpec

\* The builder and the wallet between any of their steps: what the wallet lists
\* is all that is unspent, the change of its transactions too, whatever blocks
\* the chain gains and loses (wallet.go:192-203, walletutil/store.go:106-130).
THEOREM BuilderSafe == BuilderSpec => []BuilderInv
<1>1. BInv => BuilderInv
  BY DEF BInv, WalletInv, HoldInv, BuilderInv
<1> QED
  BY <1>1, InitBInv, BuilderStep, PTL DEF BuilderSpec

\* Also what the wallet's calls hand over, written on the state that Fund has
\* seen, follows the pool's chain (wallet.go:162-180, txpool.go:115-180).
THEOREM SendsFollowChain == BuilderSpec => []PoolInv
<1>1. BInv => PoolInv
  BY DEF BInv, IInv
<1> QED
  BY <1>1, InitBInv, BuilderStep, PTL DEF BuilderSpec

\* When the chain has not moved since Fund, what is funded and signed is
\* accepted, also from the change of other calls, and takes nothing from the
\* transactions that the pool had (wallet.go:162-180, 246-268, txpool.go:115-126).
THEOREM QuietSends == BuilderSpec => QuietSendsSucceed
<1>1. BuilderInit => AllAsAsked
  BY DEF BuilderInit, AllAsAsked, AsAsked, NoCall
<1>2. BInv /\ AllAsAsked /\ [BuilderNext]_vars => AllAsAsked'
  BY AsAskedStep DEF BInv
<1>3. BInv /\ AllAsAsked /\ [BuilderNext]_vars =>
        [\A c \in Senders :
           call[c].pc = "signed" /\ call'[c].pc # "signed" /\ Quiet(c) /\ call[c].ins \cap MinerCoins = {}
             => /\ call'[c].pc = "sent"
                /\ call[c].ins \cap Used(DOMAIN pool) \cap call[c].seen = {}]_vars
  BY QuietSendStep
<1> QED
  BY <1>1, <1>2, <1>3, InitBInv, BuilderStep, PTL DEF BuilderSpec, QuietSendsSucceed
=============================================================================
