------------------------------- MODULE TxPool -------------------------------
(***************************************************************************)
(* txpool.Pool: the transactions that wait to be mined, kept in step with  *)
(* the chain by the updates the Manager sends it.                          *)
(*                                                                         *)
(* A block is the set of its transactions, and a state is the sequence of  *)
(* the blocks that led to it.  A transaction spends each of its inputs     *)
(* either as an element of the state, with a proof, or as the ephemeral    *)
(* output of a transaction that is not mined yet; a transaction of the     *)
(* pool is mapped to the inputs it marks as ephemeral.  Values, signatures *)
(* and time locks of transactions are right.                               *)
(***************************************************************************)
EXTENDS Integers, Sequences, Functions

CONSTANTS
  Txns,     \* transactions
  Coins,    \* the outputs of the genesis block
  Spends,   \* the outputs a transaction spends
  Creates,  \* the outputs it creates
  MaxHeight \* bound: blocks on top of genesis

Outputs == Coins \cup UNION {Creates[t] : t \in Txns}

ASSUME TxnAssumption ==
  /\ Spends \in [Txns -> SUBSET Outputs]
  /\ \A t \in Txns : Spends[t] # {} /\ Creates[t] \cap (Coins \cup Spends[t]) = {}
  /\ \A t, u \in Txns : t # u => Creates[t] \cap Creates[u] = {}
  /\ MaxHeight \in Nat

VARIABLES
  chain, \* p.cs
  prev,  \* p.prevCS and the block of p.prevUpdate
  pool   \* p.txns

poolVars == <<chain, prev, pool>>

-----------------------------------------------------------------------------
(* States, and the validity of transactions and blocks on them.            *)

\* The outputs that a set of transactions makes and uses.
Made(ts) == UNION {Creates[t] : t \in ts}
Used(ts) == UNION {Spends[t] : t \in ts}

Mined(c)   == UNION Range(c)
Exists(c)  == Coins \cup Made(Mined(c))
Unspent(c) == Exists(c) \ Used(Mined(c))

\* The inputs that a transaction written on state c has to mark as ephemeral.
Ephemeral(c, t) == Spends[t] \ Exists(c)

\* State.ValidateTransaction: the proofs of the other inputs are checked, but
\* not that there is an output for an ephemeral one.
ValidateTransaction(c, t, marks) == Spends[t] \ marks \subseteq Unspent(c)

\* validateEphemeralOutputs and noDoubleSpends, for transactions in order.
EphemeralInOrder(c, ts) ==
  \A i \in DOMAIN ts : Ephemeral(c, ts[i]) \subseteq Made({ts[j] : j \in 1 .. i - 1})
NoDoubleSpends(ts) == \A t, u \in ts : t # u => Spends[t] \cap Spends[u] = {}

\* The sets of transactions a valid block may have: transactions can only
\* spend what is made before them, so that they can be put in order.
ValidBlock(c, ts) ==
  /\ NoDoubleSpends(ts)
  /\ \A t \in ts : ValidateTransaction(c, t, Ephemeral(c, t))
  /\ \A t \in ts : Ephemeral(c, t) \subseteq Made(ts)

-----------------------------------------------------------------------------
Init ==
  /\ chain = <<>>
  /\ prev = [chain |-> <<>>, block |-> {}]
  /\ pool = <<>>

\* The pool p with the transaction t, which marks these inputs.
With(p, t, marks) ==
  [u \in DOMAIN p \cup {t} |-> IF u = t THEN marks ELSE p[u]]

\* The proofs of a transaction written on the state at are those of p.cs, or
\* of p.prevCS and p.prevUpdate brings them to p.cs, or they happen to be the
\* same on p.cs (kept).
ProofsHold(t, at, kept) ==
  \/ at = chain
  \/ at = prev.chain /\ chain = Append(prev.chain, prev.block)
  \/ kept
  \/ Ephemeral(at, t) = Spends[t]

\* (mutated: the parents are not looked for in the pool)
Accepts_AnyParent(p, t, at, kept) ==
  /\ ProofsHold(t, at, kept)
  /\ ValidateTransaction(chain, t, Ephemeral(at, t))

\* validateTransaction, for a transaction written on the state at.  Every
\* ephemeral output has to be made in the pool.
Accepts(p, t, at, kept) ==
  /\ ProofsHold(t, at, kept)
  /\ ValidateTransaction(chain, t, Ephemeral(at, t))
  /\ Ephemeral(at, t) \subseteq Made(DOMAIN p)

\* AddTransaction(t): t was written on this state, on an earlier one, or on
\* the one that prevCS is.
AddTransaction(t, at, kept) ==
  /\ at \in {SubSeq(chain, 1, n) : n \in 0 .. Len(chain)} \cup {prev.chain}
  /\ t \notin DOMAIN pool
  /\ Accepts(pool, t, at, kept)
  /\ pool' = With(pool, t, Ephemeral(at, t))
  /\ UNCHANGED <<chain, prev>>

\* ValidateTransactionSet(ts) on p.cs.
AcceptsSet(ts) ==
  /\ EphemeralInOrder(chain, ts)
  /\ \A i, j \in DOMAIN ts : i # j => Spends[ts[i]] \cap Spends[ts[j]] = {}
  /\ \A t \in Range(ts) : ValidateTransaction(chain, t, Ephemeral(chain, t))

\* One more transaction of a set, unless one before it was not accepted; one
\* that waits already is passed over.
OneMore(r, t) ==
  IF ~r.ok \/ t \in DOMAIN r.pool THEN r
  ELSE IF Accepts(r.pool, t, chain, TRUE)
       THEN [ok |-> TRUE, pool |-> With(r.pool, t, Ephemeral(chain, t))]
       ELSE [ok |-> FALSE, pool |-> r.pool]

\* AddTransactionSet(ts): one after another, until one is not accepted.
AddTransactionSet(ts) ==
  /\ AcceptsSet(ts)
  /\ LET after[n \in 0 .. Len(ts)] ==
           IF n = 0 THEN [ok |-> TRUE, pool |-> pool] ELSE OneMore(after[n - 1], ts[n])
     IN  pool' = after[Len(ts)].pool
  /\ UNCHANGED <<chain, prev>>

-----------------------------------------------------------------------------
(* The Manager's updates.                                                  *)

\* (mutated: ephemeral inputs whose output is mined stay ephemeral)
ApplyUpdate_NotPromoted(ts) ==
  /\ Len(chain) < MaxHeight
  /\ ts \cap Mined(chain) = {} /\ ValidBlock(chain, ts)
  /\ chain' = Append(chain, ts)
  /\ prev' = [chain |-> chain, block |-> ts]
  /\ pool' = Restrict(pool, {t \in DOMAIN pool \ ts : ValidateTransaction(chain', t, pool[t])})

\* ProcessChainApplyUpdate: mined transactions leave, ephemeral inputs whose
\* output was mined become elements, and what is not valid any more leaves.
ApplyUpdate(ts) ==
  /\ Len(chain) < MaxHeight
  /\ ts \cap Mined(chain) = {} /\ ValidBlock(chain, ts)
  /\ chain' = Append(chain, ts)
  /\ prev' = [chain |-> chain, block |-> ts]
  /\ LET marks(t) == pool[t] \ Made(ts) IN
     pool' = [t \in {u \in DOMAIN pool \ ts : ValidateTransaction(chain', u, marks(u))} |-> marks(t)]

\* (mutated: reverted elements are looked for before they become ephemeral)
RevertUpdate_RemovedFirst ==
  /\ chain # <<>>
  /\ LET ts       == chain[Len(chain)]
         marks(t) == pool[t] \cup (Spends[t] \cap Made(ts))
         valid    == {t \in DOMAIN pool : /\ (Spends[t] \ pool[t]) \cap Made(ts) = {}
                                          /\ ValidateTransaction(chain', t, marks(t))}
     IN  /\ chain' = SubSeq(chain, 1, Len(chain) - 1)
         /\ pool' = [t \in valid \cup ts |-> IF t \in ts THEN Ephemeral(chain', t) ELSE marks(t)]
  /\ UNCHANGED prev

\* (mutated: all outputs of the block are marked)
RevertUpdate_MarksAll ==
  /\ chain # <<>>
  /\ LET ts       == chain[Len(chain)]
         marks(t) == pool[t] \cup Made(ts)
         valid    == {t \in DOMAIN pool : ValidateTransaction(chain', t, marks(t))}
     IN  /\ chain' = SubSeq(chain, 1, Len(chain) - 1)
         /\ pool' = [t \in valid \cup ts |-> IF t \in ts THEN Ephemeral(chain', t) ELSE marks(t)]
  /\ UNCHANGED prev

\* ProcessChainRevertUpdate: inputs whose output is no longer mined become
\* ephemeral (so that none of them is a removed element: only a block reward
\* could be, and it would not have matured), and the block's transactions
\* return to the pool.  prevCS and prevUpdate stay what they were.
RevertUpdate ==
  /\ chain # <<>>
  /\ LET ts       == chain[Len(chain)]
         marks(t) == pool[t] \cup (Spends[t] \cap Made(ts))
         valid    == {t \in DOMAIN pool : ValidateTransaction(chain', t, marks(t))}
     IN  /\ chain' = SubSeq(chain, 1, Len(chain) - 1)
         /\ pool' = [t \in valid \cup ts |-> IF t \in ts THEN Ephemeral(chain', t) ELSE marks(t)]
  /\ UNCHANGED prev

-----------------------------------------------------------------------------
\* Transactions are handed over alone or in pairs.
Submit ==
  \/ \E t \in Txns, at \in {prev.chain} \cup {SubSeq(chain, 1, n) : n \in 0 .. Len(chain)},
        kept \in BOOLEAN : AddTransaction(t, at, kept)
  \/ \E t, u \in Txns : AddTransactionSet(<<t, u>>)

Update == (\E ts \in SUBSET Txns : ApplyUpdate(ts)) \/ RevertUpdate

Next == Submit \/ Update

Spec == Init /\ [][Next]_poolVars
-----------------------------------------------------------------------------
(* Properties.                                                             *)

IsState(c) == c \in Seq(SUBSET Txns) /\ Len(c) <= MaxHeight

TypeOK ==
  /\ IsState(chain)
  /\ IsState(prev.chain) /\ prev.block \subseteq Txns
  /\ DOMAIN pool \subseteq Txns
  /\ \A t \in DOMAIN pool : pool[t] \subseteq Spends[t]

\* Through any reorg, and whatever state it was written on, a transaction of
\* the pool marks as ephemeral exactly the inputs whose output the chain does
\* not have, and the outputs of its other inputs are unspent.
PoolFollowsChain ==
  \A t \in DOMAIN pool :
    pool[t] = Ephemeral(chain, t) /\ Spends[t] \ pool[t] \subseteq Unspent(chain)

\* The pool after any sequence of its four operations: its types, and its marks.
PoolInv == TypeOK /\ PoolFollowsChain

\* "put reverted txns back in the pool": a transaction that waits or is mined
\* goes on waiting or being mined, until another one spends an input of it.
KeptUntilSpent ==
  [][\A t \in DOMAIN pool \cup Mined(chain) :
       \/ t \in DOMAIN pool' \cup Mined(chain')
       \/ \E u \in Mined(chain') \ {t} : Spends[u] \cap Spends[t] # {}]_poolVars

\* A transaction does not come to the pool without its parents: those of its
\* inputs that are not on the chain are made by transactions that wait too.
ParentsAtFirst ==
  [][\A t \in DOMAIN pool' \ DOMAIN pool :
       pool'[t] \subseteq Made(DOMAIN pool')]_poolVars

-----------------------------------------------------------------------------
(* What the code's comments say and TLC refutes.                           *)

\* The transactions of the pool that t depends on, and t itself.
Needs(t) ==
  LET needs[u \in DOMAIN pool] ==
        {u} \cup UNION {needs[v] : v \in {w \in DOMAIN pool : Creates[w] \cap pool[u] # {}}}
  IN  needs[t]

\* "A Pool holds transactions that may be included in future blocks": the
\* next one may include any of them, with those it depends on.
EachMayBeMined == \A t \in DOMAIN pool : ValidBlock(chain, Needs(t))

\* "those parent outputs must be created by transactions in the transaction
\* set or already in the pool": the two ways to hand over a transaction whose
\* parent waits in the pool agree.
SetsMayHavePoolParents ==
  \A t \in Txns \ DOMAIN pool : Accepts(pool, t, chain, TRUE) => AcceptsSet(<<t>>)
=============================================================================
