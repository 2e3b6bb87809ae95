------------------------ MODULE MCElementAccumulator ------------------------
(***************************************************************************)
(* Properties of ElementAccumulator and the instances TLC checks.          *)
(***************************************************************************)
EXTENDS ElementAccumulator

(***************************************************************************)
(* What the accumulator stands for, computed from the blocks alone.        *)
(***************************************************************************)
CreatedSoFar == FoldLeft(LAMBDA s, b : s \o b.created, GenesisCreated, blocks)

SpentInChain(c) ==
    \/ c.spent
    \/ \E i \in DOMAIN blocks : c.elem \in DOMAIN blocks[i].spends

LeafHashes == [i \in DOMAIN CreatedSoFar |->
    LeafHash([elem |-> CreatedSoFar[i].elem, index |-> i - 1,
              spent |-> SpentInChain(CreatedSoFar[i])])]

IdAt(k) == IF k = 0 THEN GenesisID ELSE blocks[k].id

HistoryHashes == [i \in 1..(Tip + 1) |-> historyLeafHash(i - 1, IdAt(i - 1))]

\* The root of the perfect tree over 2^h hashes of s from position start.
RECURSIVE PerfectRoot(_, _, _)
PerfectRoot(s, start, h) ==
    IF h = 0 THEN s[start + 1]
    ELSE NodeHash(PerfectRoot(s, start, h - 1), PerfectRoot(s, start + 2^(h - 1), h - 1))

\* The leaves, in order, fill one perfect tree for each bit of their number,
\* largest first.
IsForest(a, hashes) ==
    /\ a.numLeaves = Len(hashes)
    /\ \A h \in Heights : Bit(Len(hashes), h) =>
         a.trees[h] = PerfectRoot(hashes, clearBits(Len(hashes), h + 1), h)

SpentNow(e) == SpentInChain(CHOOSE c \in ToSet(CreatedSoFar) : c.elem = e)

-----------------------------------------------------------------------------
\* Every variable has its type: the holder has each element and each block of
\* the chain once (update.go:133-165, 195-211).
TypeOK ==
    /\ acc.numLeaves \in 1..MaxLeaves
    /\ Tip \in 0..MaxHeight
    /\ DOMAIN held = {CreatedSoFar[i].elem : i \in DOMAIN CreatedSoFar}
    /\ DOMAIN histHeld = 0..Tip

\* The roots kept after any sequence of applied and reverted blocks are those
\* of the perfect trees over all leaves created so far, each with its present
\* spent flag: overwriting some leaves and appending others at once loses
\* neither (accumulator.go:188-314, 433-445).
AccumulatorIsForest ==
    /\ IsForest(acc, LeafHashes)
    /\ IsForest(hist, HistoryHashes)

\* A proof moved through every update since its element was created shows the
\* element spent exactly when the chain spent it, and never shows the other
\* state; so a proof survives a reorganisation that unspends its element
\* (accumulator.go:334-397).
ProofsCurrent ==
    \A e \in DOMAIN held :
      /\ containsLeaf(acc, OutputLeaf(e, held[e], SpentNow(e)))
      /\ ~containsLeaf(acc, OutputLeaf(e, held[e], ~SpentNow(e)))

\* The proof of each block of the chain, moved through every update, holds,
\* and shows no other block at that height (accumulator.go:399-478).
HistoryProofsCurrent ==
    \A k \in 0..Tip : \A id \in {IdAt(k), BlockID(k, <<"other">>)} :
      HistoryContains(hist, k, id, histHeld[k]) <=> id = IdAt(k)

\* A proof that missed a block never shows what is false after the block: an
\* output just spent is not shown unspent, an output just unspent is not
\* shown spent, a removed one is not shown at all (accumulator.go:172-186).
OldProofsTellTheTruth ==
    [][\A e \in DOMAIN held, spent \in BOOLEAN :
         containsLeaf(acc', OutputLeaf(e, held[e], spent))
           => e \in DOMAIN held' /\ spent = SpentNow(e)']_vars

\* Manager.UpdateElementProof from the tip to a block below it gives a proof
\* that holds there, with the element unspent if only later blocks spent it; it
\* fails exactly for the elements created later; and back at the tip the proof
\* is the one a holder has that followed every block (manager.go:595-636).
UpdatedThereAndBack ==
    \A e \in DOMAIN held : \A i \in DOMAIN blocks :
      LET below   == ProofBelow(held[e], i - 1)
          spent   == SpentNow(e) /\ \A j \in i..Tip :
                        /\ e \notin DOMAIN blocks[j].spends
                        /\ [elem |-> e, spent |-> TRUE] \notin ToSet(blocks[j].created)
          created == \E j \in i..Tip : e \in {c.elem : c \in ToSet(blocks[j].created)}
      IN  /\ below = Missing <=> created
          /\ below # Missing =>
               /\ containsLeaf(blocks[i].acc, OutputLeaf(e, below, spent))
               /\ ProofAbove(below, i - 1) = held[e]

\* The multiproof of any set of inputs has the size the decoder computes from
\* the encoded inputs, and gives every input its proof back with nothing left
\* over (multiproof.go:37-125).
MultiproofRoundTrip ==
    \A S \in SUBSET Spendable :
      LET leaves == {OutputLeaf(e, held[e], FALSE) : e \in S}
          proof  == ComputeMultiproof(leaves)
          out    == ExpandMultiproof(Compressed(leaves), proof)
      IN  /\ MultiproofSize(Compressed(leaves)) = Len(proof)
          /\ out.leaves = leaves
          /\ out.proof = <<>>

\* The two accumulators and their holder after any blocks and reverts
\* (accumulator.go:96-103).
AccumulatorInv ==
    TypeOK /\ AccumulatorIsForest /\ ProofsCurrent /\ HistoryProofsCurrent /\ MultiproofRoundTrip
=============================================================================
