-------------------------------- MODULE Miner --------------------------------
(***************************************************************************)
(* miner.Miner: one goroutine that mines blocks from the transaction pool, *)
(* while the Manager tells the pool and then the miner of every change of  *)
(* the tip, and transactions go on arriving.                               *)
(*                                                                         *)
(* Miner.mu is held while the transactions of a block are chosen, and not  *)
(* while the nonce is sought.  The Manager hands an update to all of its   *)
(* subscribers before the next one; the node subscribes the pool first.    *)
(***************************************************************************)
EXTENDS TxPool, SequencesExt

CONSTANTS
  Inputs,   \* Spends, in the order of the transaction's inputs
  Weight,   \* the weight of a transaction
  MaxWeight \* State.MaxBlockWeight

ASSUME MinerAssumption ==
  /\ Inputs \in [Txns -> Seq(Outputs)]
  /\ \A t \in Txns : Range(Inputs[t]) = Spends[t]
  /\ Weight \in [Txns -> Nat \ {0}] /\ MaxWeight \in Nat

VARIABLES
  mcs,   \* m.cs
  block, \* the block that MineBlock is working on
  left,  \* poolTxns in txnsForBlock: what is not in the block yet
  ranged \* the keys that the range over poolTxns has visited

vars == <<poolVars, mcs, block, left, ranged>>

\* A block under construction: its parent state, and its transactions with
\* the marks they had in the pool, which was at the state taken.
NoBlock == [pc |-> "idle", parent |-> <<>>, txns |-> <<>>, taken |-> <<>>, from |-> <<>>]

MinerInit ==
  /\ Init
  /\ mcs = <<>>
  /\ block = NoBlock
  /\ left = {} /\ ranged = {}

-----------------------------------------------------------------------------
(* txnsForBlock.                                                           *)

SumOfWeights(ts) == FoldLeft(LAMBDA sum, t : sum + Weight[t], 0, ts)

\* The transaction in poolTxns that makes the output o, if there is one.
Makers(o) == {u \in left : o \in Creates[u]}

\* (mutated: a parent is added before the parents it has itself)
GroupOf_ParentFirst(t) ==
  LET visit[u \in Txns, added \in SUBSET Txns] ==
        FoldLeft(LAMBDA acc, o :
                   IF Makers(o) \subseteq acc.added THEN acc
                   ELSE LET parent == CHOOSE v \in Makers(o) : TRUE
                            sub    == visit[parent, acc.added]
                        IN  [deps |-> Append(acc.deps, parent) \o sub.deps, added |-> sub.added],
                 [deps |-> <<>>, added |-> added \cup {u}],
                 Inputs[u])
  IN  Append(visit[t, {}].deps, t)

\* calcDeps(t), and t: depth first, each parent after those it has itself.
GroupOf(t) ==
  LET visit[u \in Txns, added \in SUBSET Txns] ==
        FoldLeft(LAMBDA acc, o :
                   IF Makers(o) \subseteq acc.added THEN acc
                   ELSE LET parent == CHOOSE v \in Makers(o) : TRUE
                            sub    == visit[parent, acc.added]
                        IN  [deps |-> acc.deps \o Append(sub.deps, parent), added |-> sub.added],
                 [deps |-> <<>>, added |-> added \cup {u}],
                 Inputs[u])
  IN  Append(visit[t, {}].deps, t)

\* (mutated: the block is never filled up)
Fits_Strictly(group) == SumOfWeights(group) < MaxWeight - SumOfWeights(block.txns)

\* The weight of the group does not exceed the remaining capacity.
Fits(group) == SumOfWeights(group) <= MaxWeight - SumOfWeights(block.txns)

-----------------------------------------------------------------------------
\* MineBlock is called, or finds that it has to start over.
StartBlock ==
  /\ block.pc \in {"idle", "start"}
  /\ block' = [pc |-> "choose", parent |-> mcs, txns |-> <<>>, taken |-> chain, from |-> pool]
  /\ left' = DOMAIN pool
  /\ ranged' = {}
  /\ UNCHANGED <<poolVars, mcs>>

\* (mutated: of the group, only t is taken out of poolTxns)
ChooseTxn_LeavesParents(t) ==
  /\ block.pc = "choose"
  /\ t \in left \ ranged
  /\ LET group == GroupOf(t) IN
     IF Fits(group)
     THEN /\ block' = [block EXCEPT !.txns = @ \o group]
          /\ left' = left \ {t}
     ELSE UNCHANGED <<block, left>>
  /\ ranged' = ranged \cup {t}
  /\ UNCHANGED <<poolVars, mcs>>

\* (mutated: a group that does not fit is tried again)
ChooseTxn_TriesAgain(t) ==
  /\ block.pc = "choose"
  /\ t \in left \ ranged
  /\ LET group == GroupOf(t) IN
     IF Fits(group)
     THEN /\ block' = [block EXCEPT !.txns = @ \o group]
          /\ left' = left \ Range(group)
          /\ ranged' = ranged \cup {t}
     ELSE UNCHANGED <<block, left, ranged>>
  /\ UNCHANGED <<poolVars, mcs>>

\* The range over poolTxns reaches t: its group is added or skipped.
ChooseTxn(t) ==
  /\ block.pc = "choose"
  /\ t \in left \ ranged
  /\ LET group == GroupOf(t) IN
     IF Fits(group)
     THEN /\ block' = [block EXCEPT !.txns = @ \o group]
          /\ left' = left \ Range(group)
     ELSE UNCHANGED <<block, left>>
  /\ ranged' = ranged \cup {t}
  /\ UNCHANGED <<poolVars, mcs>>

StartGrinding ==
  /\ block.pc = "choose" /\ left \subseteq ranged
  /\ block' = [block EXCEPT !.pc = "grind"]
  /\ UNCHANGED <<poolVars, mcs, left, ranged>>

\* The nonce is found: start over if the tip has changed, else return.
FinishGrinding ==
  /\ block.pc = "grind"
  /\ block' = IF mcs # block.parent THEN [NoBlock EXCEPT !.pc = "start"]
                                    ELSE [block EXCEPT !.pc = "mined"]
  /\ UNCHANGED <<poolVars, mcs, left, ranged>>

\* The caller takes the block and may ask for another one.
TakeBlock ==
  /\ block.pc = "mined"
  /\ block' = NoBlock
  /\ left' = {} /\ ranged' = {}
  /\ UNCHANGED <<poolVars, mcs>>

\* The miner handles the update that the pool has handled.
MinerUpdate ==
  /\ mcs # chain
  /\ block.pc # "choose"
  /\ mcs' = chain
  /\ UNCHANGED <<poolVars, block, left, ranged>>

PoolStep ==
  /\ Submit \/ (mcs = chain /\ Update)
  /\ UNCHANGED <<mcs, block, left, ranged>>

Working == (\E t \in Txns : ChooseTxn(t)) \/ StartGrinding \/ FinishGrinding

MinerNext == StartBlock \/ Working \/ TakeBlock \/ MinerUpdate \/ PoolStep

\* The goroutine in MineBlock is scheduled and finds its nonces, and an update
\* that the pool has handled is handed on.  Nobody has to call MineBlock.
MinerSpec ==
  /\ MinerInit /\ [][MinerNext]_vars
  /\ WF_vars(Working)
  /\ WF_vars(block.pc = "start" /\ StartBlock)
  /\ WF_vars(MinerUpdate)
-----------------------------------------------------------------------------
(* Properties.                                                             *)

MinerTypeOK ==
  /\ TypeOK
  /\ IsState(mcs)
  /\ block.pc \in {"idle", "start", "choose", "grind", "mined"}
  /\ IsState(block.parent) /\ IsState(block.taken)
  /\ Range(block.txns) \subseteq DOMAIN block.from
  /\ left \subseteq Txns /\ ranged \subseteq Txns
  /\ Range(block.txns) \cap left = {}

\* ValidateTransactionSet on the parent: the proofs that the transactions
\* bring from the pool have to be proofs of that state.
BlockIsValid ==
  /\ SumOfWeights(block.txns) <= MaxWeight
  /\ IsInjective(block.txns)
  /\ \A i \in DOMAIN block.txns :
       block.from[block.txns[i]] \subseteq Made({block.txns[j] : j \in 1 .. i - 1})
  /\ NoDoubleSpends(Range(block.txns))
  /\ block.taken = block.parent
  /\ \A t \in Range(block.txns) : ValidateTransaction(block.parent, t, block.from[t])

\* The pool's transactions do not conflict, and the parents are all there.
Consistent(p) ==
  /\ NoDoubleSpends(DOMAIN p)
  /\ \A t \in DOMAIN p : p[t] \subseteq Made(DOMAIN p)

\* txnsForBlock: from a pool without conflicts and orphans, at the miner's own
\* tip, it chooses a valid block, whichever order the map is visited in:
\* parents come first and once, also when their own group did not fit.
ConsistentPoolIsMined ==
  block.pc \in {"choose", "grind", "mined"} /\ Consistent(block.from) /\ block.taken = block.parent
    => BlockIsValid

\* A transaction is left out of the block only if there is no room for it and
\* the parents of it that were left out too, also after all of the others.
NoRoomIsWasted ==
  block.pc = "mined" =>
    \A t \in left : SumOfWeights(block.txns) + SumOfWeights(GroupOf(t)) > MaxWeight

\* The block at every step of MineBlock: its types, its validity, and that it is
\* filled.
MinerInv == MinerTypeOK /\ ConsistentPoolIsMined /\ NoRoomIsWasted

\* When the tip stops changing, MineBlock returns.
MineBlockReturns == (<>[][FALSE]_chain) => (block.pc = "start" ~> block.pc = "mined")

-----------------------------------------------------------------------------
(* What the code's comments say and TLC refutes.                           *)

\* "MineBlock mines a valid block, using transactions drawn from the txpool":
\* when the pool was at the tip that the miner works on.
MinedBlockIsValid == block.pc = "mined" /\ block.taken = block.parent => BlockIsValid

\* "check whether the tip has changed since we started grinding": the
\* transactions of a block that MineBlock returns are those of its parent.
MinedOnOneState == block.pc = "mined" => block.taken = block.parent
=============================================================================
