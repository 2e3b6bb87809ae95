------------------------- MODULE ElementAccumulator -------------------------
(***************************************************************************)
(* The Merkle accumulators of merkle/accumulator.go, as consensus/update.go*)
(* drives them: a block overwrites the leaves of the outputs it spends and *)
(* appends the leaves of those it creates; a holder (wallet, pool, miner)  *)
(* of elements moves every proof it keeps through the update of each       *)
(* applied and each reverted block.  Blocks are encoded with one multiproof*)
(* for all their inputs (merkle/multiproof.go).                            *)
(*                                                                         *)
(* A hash is the tagged tuple of what is hashed, so two hashes are equal   *)
(* exactly when their preimages are.                                       *)
(***************************************************************************)
EXTENDS Integers, Sequences, FiniteSets, SequencesExt

CONSTANTS
    GenesisOutputs, \* outputs the genesis block creates
    MaxHeight,      \* bound: height of the highest block applied
    MaxLeaves,      \* bound: leaves of the accumulator
    MaxCreated      \* bound: outputs created by one block

ASSUME ElementAccumulatorAssumption ==
    /\ GenesisOutputs \in 1..MaxLeaves
    /\ {MaxHeight, MaxLeaves, MaxCreated} \subseteq Nat

VARIABLES
    acc,      \* State.Elements of the tip
    hist,     \* State.History of the tip
    blocks,   \* the blocks above genesis, each with the state before it
    held,     \* element -> [index, proof]: the holder's StateElements
    histHeld  \* height -> the holder's proof that the block is in the chain
vars == <<acc, hist, blocks, held, histHeld>>

(***************************************************************************)
(* Bits and hashes.                                                        *)
(***************************************************************************)
Heights == 0..MaxLeaves \* 64 trees in the code, more than 2^MaxLeaves need

Bit(n, i) == (n \div 2^i) % 2 = 1

mergeHeight(x, y) == CHOOSE n \in Heights :
    /\ x \div 2^n = y \div 2^n
    /\ \A m \in 0..(n - 1) : x \div 2^m # y \div 2^m

clearBits(x, n) == x - (x % 2^n)

NodeHash(left, right) == <<"node", left, right>>

ProofRoot(leafHash, leafIndex, proof) ==
    FoldLeftDomain(LAMBDA root, i : IF Bit(leafIndex, i - 1)
                                    THEN NodeHash(proof[i], root)
                                    ELSE NodeHash(root, proof[i]),
                   leafHash, proof)

\* (mutated: the hash does not cover whether the leaf is spent)
LeafHash_NotSpent(l) == <<"leaf", l.elem, l.index>>

\* An ElementLeaf is a record [elem, index, proof, spent].
LeafHash(l) == <<"leaf", l.elem, l.index, l.spent>>

OutputLeaf(elem, se, spent) ==
    [elem |-> elem, index |-> se.index, proof |-> se.proof, spent |-> spent]

EmptyAccumulator == [numLeaves |-> 0, trees |-> [h \in Heights |-> <<>>]]

hasTreeAtHeight(a, h) == Bit(a.numLeaves, h)

containsLeaf(a, l) ==
    /\ hasTreeAtHeight(a, Len(l.proof))
    /\ a.trees[Len(l.proof)] = ProofRoot(LeafHash(l), l.index, l.proof)

(***************************************************************************)
(* addLeaves: each leaf walks up the forest, merging with the tree of each *)
(* height until a height has none; on the way it extends the proofs of the *)
(* leaves added before it, and records what extends the proofs of the trees*)
(* that were there before the block (treeGrowth).                          *)
(***************************************************************************)
RECURSIVE Merge(_, _, _, _, _)
Merge(st, i, height, h, initial) ==
    IF ~hasTreeAtHeight(st.acc, height)
    THEN [st EXCEPT !.acc = [numLeaves |-> @.numLeaves + 1,
                             trees |-> [@.trees EXCEPT ![height] = h]]]
    ELSE LET old  == st.acc.trees[height]
             cur  == st.acc.numLeaves + 1 - 2^height
             prev == st.acc.numLeaves + 1 - 2^(height + 1)
             sibling(j) == IF j > i - 2^height THEN <<old>>
                           ELSE IF j > i - 2^(height + 1) THEN <<h>>
                           ELSE <<>>
             growth(bit) == LET start == clearBits(initial, bit + 1) IN
                            IF ~Bit(initial, bit) THEN <<>>
                            ELSE IF start >= cur THEN <<old>>
                            ELSE IF start >= prev THEN <<h>>
                            ELSE <<>>
         IN  Merge([st EXCEPT
                      !.leaves = [j \in DOMAIN @ |->
                          IF j > i THEN @[j]
                          ELSE [@[j] EXCEPT !.proof = @ \o sibling(j)]],
                      !.treeGrowth = [bit \in Heights |-> @[bit] \o growth(bit)]],
                   i, height + 1, NodeHash(old, h), initial)

addLeaves(a, leaves) ==
    FoldLeftDomain(
        LAMBDA st, i :
            LET l == [st.leaves[i] EXCEPT !.index = st.acc.numLeaves, !.proof = <<>>]
            IN  Merge([st EXCEPT !.leaves[i] = l], i, 0, LeafHash(l), a.numLeaves),
        [acc |-> a, leaves |-> leaves, treeGrowth |-> [h \in Heights |-> <<>>]],
        leaves)

(***************************************************************************)
(* updateLeaves: the leaves overwritten by a block, grouped by tree, give  *)
(* each tree its new root and each of them its new proof.                  *)
(***************************************************************************)
splitLeaves(ls, mid) ==
    [left |-> {l \in ls : l.index < mid}, right |-> {l \in ls : l.index >= mid}]

AnyOf(S) == CHOOSE x \in S : TRUE

SetSibling(ls, height, root) == {[l EXCEPT !.proof[height] = root] : l \in ls}

RECURSIVE recompute(_, _, _)
recompute(start, height, ls) ==
    IF height = 0 THEN [root |-> LeafHash(AnyOf(ls)), leaves |-> ls]
    ELSE LET mid == start + 2^(height - 1)
             s   == splitLeaves(ls, mid)
             l   == IF s.left = {}
                    THEN [root |-> AnyOf(s.right).proof[height], leaves |-> {}]
                    ELSE recompute(start, height - 1, s.left)
             right == IF s.left = {} THEN s.right
                      ELSE SetSibling(s.right, height, l.root)
             r   == IF right = {}
                    THEN [root |-> AnyOf(l.leaves).proof[height], leaves |-> {}]
                    ELSE recompute(mid, height - 1, right)
             left == IF right = {} THEN l.leaves
                     ELSE SetSibling(l.leaves, height, r.root)
         IN  [root |-> NodeHash(l.root, r.root), leaves |-> left \union r.leaves]

ByTree(leaves) == [h \in Heights |-> {l \in leaves : Len(l.proof) = h}]

\* (mutated: the tree's own bit is kept in the start of the tree)
updateLeaves_WrongStart(a, leaves) ==
    LET trees == ByTree(leaves)
        new   == [h \in {k \in Heights : trees[k] # {}} |->
                     recompute(clearBits(a.numLeaves, h), h, trees[h])]
    IN  [acc |-> [a EXCEPT !.trees = [h \in Heights |->
                     IF h \in DOMAIN new THEN new[h].root ELSE @[h]]],
         updated |-> [h \in Heights |->
                     IF h \in DOMAIN new THEN new[h].leaves ELSE {}]]

updateLeaves(a, leaves) ==
    LET trees == ByTree(leaves)
        new   == [h \in {k \in Heights : trees[k] # {}} |->
                     recompute(clearBits(a.numLeaves, h + 1), h, trees[h])]
    IN  [acc |-> [a EXCEPT !.trees = [h \in Heights |->
                     IF h \in DOMAIN new THEN new[h].root ELSE @[h]]],
         updated |-> [h \in Heights |->
                     IF h \in DOMAIN new THEN new[h].leaves ELSE {}]]

(***************************************************************************)
(* ElementAccumulator.ApplyBlock and RevertBlock, and what their updates do*)
(* to a StateElement.                                                      *)
(***************************************************************************)
ElementApply(a, updated, added) ==
    LET u == updateLeaves(a, updated)
        n == addLeaves(u.acc, added)
    IN  [acc |-> n.acc, updated |-> u.updated,
         treeGrowth |-> n.treeGrowth, added |-> n.leaves]

ElementRevert(a, updated) == [numLeaves |-> a.numLeaves, updated |-> ByTree(updated)]

\* (mutated: the nearest leaf changes one hash of the proof)
updateProof_OnlySibling(se, updated) ==
    LET inTree == updated[Len(se.proof)]
        mh(l)  == mergeHeight(se.index, l.index)
        best   == CHOOSE l \in inTree : \A k \in inTree : mh(l) <= mh(k)
    IN  IF inTree = {} THEN se
        ELSE IF best.index = se.index THEN [se EXCEPT !.proof = best.proof]
        ELSE [se EXCEPT !.proof[mh(best)] =
                 ProofRoot(LeafHash(best), best.index,
                           SubSeq(best.proof, 1, mh(best) - 1))]

updateProof(se, updated) ==
    LET inTree == updated[Len(se.proof)]
        mh(l)  == mergeHeight(se.index, l.index)
        best   == CHOOSE l \in inTree : \A k \in inTree : mh(l) <= mh(k)
    IN  IF inTree = {} THEN se
        ELSE IF best.index = se.index THEN [se EXCEPT !.proof = best.proof]
        ELSE [se EXCEPT !.proof = [i \in DOMAIN @ |->
                 IF i < mh(best) THEN @[i]
                 ELSE IF i > mh(best) THEN best.proof[i]
                 ELSE ProofRoot(LeafHash(best), best.index,
                                SubSeq(best.proof, 1, mh(best) - 1))]]

ApplyUpdateElementProof(se, eau) ==
    LET u == updateProof(se, eau.updated)
    IN  [u EXCEPT !.proof = @ \o eau.treeGrowth[Len(@)]]

\* (mutated: the proof is updated first and cut then)
RevertUpdateElementProof_CutAfter(se, eru) ==
    LET mh == mergeHeight(eru.numLeaves, se.index)
    IN  LET u == updateProof(se, eru.updated)
        IN  [u EXCEPT !.proof = IF mh <= Len(@) THEN SubSeq(@, 1, mh - 1) ELSE @]

RevertUpdateElementProof(se, eru) ==
    LET mh == mergeHeight(eru.numLeaves, se.index)
    IN  updateProof([se EXCEPT !.proof = IF mh <= Len(@)
                                         THEN SubSeq(@, 1, mh - 1) ELSE @],
                    eru.updated)

(***************************************************************************)
(* HistoryAccumulator: one leaf for each block of the chain.               *)
(***************************************************************************)
historyLeafHash(height, id) == <<"leaf", height, id>>

HistoryContains(a, height, id, proof) ==
    /\ hasTreeAtHeight(a, Len(proof))
    /\ a.trees[Len(proof)] = ProofRoot(historyLeafHash(height, id), height, proof)

RECURSIVE HistoryMerge(_, _, _)
HistoryMerge(hau, i, h) ==
    IF ~hasTreeAtHeight(hau.acc, i)
    THEN [hau EXCEPT !.acc = [numLeaves |-> @.numLeaves + 1,
                              trees |-> [@.trees EXCEPT ![i] = h]]]
    ELSE HistoryMerge([hau EXCEPT !.proof = Append(@, hau.acc.trees[i]),
                                  !.growth = Append(@, h)],
                      i + 1, NodeHash(hau.acc.trees[i], h))

HistoryApply(a, height, id) ==
    HistoryMerge([acc |-> a, proof |-> <<>>, growth |-> <<>>], 0,
                 historyLeafHash(height, id))

HistoryApplyUpdateProof(p, hau) ==
    IF Len(hau.growth) > Len(p)
    THEN LET q == Append(p, hau.growth[Len(p) + 1])
         IN  q \o SubSeq(hau.proof, Len(q) + 1, Len(hau.proof))
    ELSE p

\* (mutated: a proof that is one longer stays so)
HistoryRevertUpdateProof_Kept(height, p, revertedHeight) ==
    LET mh == mergeHeight(revertedHeight, height)
    IN  IF mh < Len(p) THEN SubSeq(p, 1, mh - 1) ELSE p

HistoryRevertUpdateProof(height, p, revertedHeight) ==
    LET mh == mergeHeight(revertedHeight, height)
    IN  IF mh <= Len(p) THEN SubSeq(p, 1, mh - 1) ELSE p

(***************************************************************************)
(* Multiproofs: the hashes a block's inputs need that the inputs themselves*)
(* do not give, in the order of a walk of each tree, smallest tree first.  *)
(***************************************************************************)
RECURSIVE proofSize(_, _, _)
proofSize(start, height, ls) ==
    IF ls = {} THEN 1
    ELSE IF height = 0 THEN 0
    ELSE LET mid == start + 2^(height - 1)
             s   == splitLeaves(ls, mid)
         IN  proofSize(start, height - 1, s.left) + proofSize(mid, height - 1, s.right)

\* What each tree with leaves contributes, from the smallest tree up.
OverTrees(leaves, base, op(_, _, _, _)) ==
    LET trees == ByTree(leaves)
        start(h) == clearBits(AnyOf(trees[h]).index, h + 1)
    IN  FoldLeft(LAMBDA r, h : IF trees[h] = {} THEN r
                               ELSE op(r, start(h), h, trees[h]),
                 base, [k \in 1..(MaxLeaves + 1) |-> k - 1])

MultiproofSize(leaves) ==
    OverTrees(leaves, 0, LAMBDA n, start, h, ls : n + proofSize(start, h, ls))

RECURSIVE visit(_, _, _)
visit(start, height, ls) ==
    IF height = 0 THEN <<>>
    ELSE LET mid == start + 2^(height - 1)
             s   == splitLeaves(ls, mid)
         IN  (IF s.left = {} THEN <<AnyOf(s.right).proof[height]>>
              ELSE visit(start, height - 1, s.left))
             \o (IF s.right = {} THEN <<AnyOf(s.left).proof[height]>>
                 ELSE visit(mid, height - 1, s.right))

ComputeMultiproof(leaves) ==
    OverTrees(leaves, <<>>, LAMBDA p, start, h, ls : p \o visit(start, h, ls))

RECURSIVE expand(_, _, _, _)
expand(start, height, ls, proof) ==
    IF ls = {} THEN [root |-> Head(proof), leaves |-> {}, proof |-> Tail(proof)]
    ELSE IF height = 0
    THEN [root |-> LeafHash(AnyOf(ls)), leaves |-> ls, proof |-> proof]
    ELSE LET mid == start + 2^(height - 1)
             s   == splitLeaves(ls, mid)
             l   == expand(start, height - 1, s.left, proof)
             r   == expand(mid, height - 1, s.right, l.proof)
         IN  [root   |-> NodeHash(l.root, r.root),
              leaves |-> SetSibling(l.leaves, height, r.root)
                         \union SetSibling(r.leaves, height, l.root),
              proof  |-> r.proof]

\* (mutated: each tree takes its hashes from the start of the proof)
ExpandMultiproof_FromStart(leaves, proof) ==
    OverTrees(leaves, [leaves |-> {}, proof |-> proof],
              LAMBDA st, start, h, ls :
                  LET e == expand(start, h, ls, proof)
                  IN  [leaves |-> st.leaves \union e.leaves, proof |-> e.proof])

ExpandMultiproof(leaves, proof) ==
    OverTrees(leaves, [leaves |-> {}, proof |-> proof],
              LAMBDA st, start, h, ls :
                  LET e == expand(start, h, ls, st.proof)
                  IN  [leaves |-> st.leaves \union e.leaves, proof |-> e.proof])

\* compressedStateElement: an input is encoded with the length of its proof
\* and none of its hashes.
Compressed(leaves) ==
    {[l EXCEPT !.proof = [i \in DOMAIN @ |-> <<>>]] : l \in leaves}

(***************************************************************************)
(* The chain.  A block is [id, spends, created, acc, hist]: spends maps the*)
(* elements it spends to their StateElement in the transaction's input,    *)
(* created is the sequence of its new outputs, each with whether the block *)
(* itself spends it (an ephemeral output); acc and hist are the State      *)
(* before the block, which the store keeps with it.                        *)
(***************************************************************************)
Tip == Len(blocks)

updatedInBlock(spends, apply) ==
    {OutputLeaf(e, spends[e], apply) : e \in DOMAIN spends}

NewElement == [index |-> 0, proof |-> <<>>]

createdInBlock(created) ==
    [i \in DOMAIN created |-> OutputLeaf(created[i].elem, NewElement, created[i].spent)]

\* The header commits to the block's transactions, and so does its ID.
BlockID(height, transactions) == <<height, transactions>>

Outputs(id, n, ephemeral) ==
    [i \in 1..n |-> [elem |-> <<id, i>>, spent |-> i \in ephemeral]]

ApplyBlock(id, S, created) ==
    LET spends == [e \in S |-> held[e]]
        eau == ElementApply(acc, updatedInBlock(spends, TRUE), createdInBlock(created))
        hau == HistoryApply(hist, Tip + 1, id)
        new == {eau.added[i].elem : i \in DOMAIN created}
        at(e) == eau.added[CHOOSE i \in DOMAIN created : eau.added[i].elem = e]
    IN  /\ acc' = eau.acc
        /\ hist' = hau.acc
        /\ blocks' = Append(blocks, [id |-> id, spends |-> spends, created |-> created,
                                     acc |-> acc, hist |-> hist])
        /\ held' = [e \in DOMAIN held \union new |->
                       IF e \in new THEN [index |-> at(e).index, proof |-> at(e).proof]
                       ELSE ApplyUpdateElementProof(held[e], eau)]
        /\ histHeld' = [k \in 0..(Tip + 1) |->
                           IF k = Tip + 1 THEN hau.proof
                           ELSE HistoryApplyUpdateProof(histHeld[k], hau)]

\* ValidateBlock lets a block spend only outputs its inputs prove unspent.
Spendable == {e \in DOMAIN held : containsLeaf(acc, OutputLeaf(e, held[e], FALSE))}

\* A child of the tip is applied.  Its first output is the miner's, which
\* nothing may spend before it matures; the others need an input's value.
Apply ==
    /\ Tip < MaxHeight
    /\ \E n \in 1..MaxCreated, S \in SUBSET Spendable :
         \E ephemeral \in SUBSET (2..n) :
           /\ acc.numLeaves + n <= MaxLeaves
           /\ n > 1 => S # {}
           /\ LET id == BlockID(Tip + 1, <<S, n, ephemeral>>)
              IN  ApplyBlock(id, S, Outputs(id, n, ephemeral))

\* (mutated: the first reverted element counts as one that was there)
OutputElementWasRemoved_OffByOne(se, before) == se.index > before.numLeaves

\* The element was created by the reverted block.
OutputElementWasRemoved(se, before) == se.index >= before.numLeaves

\* The tip is reverted; genesis never is.
Revert ==
    /\ Tip > 0
    /\ LET b   == Last(blocks)
           eru == ElementRevert(b.acc, updatedInBlock(b.spends, FALSE))
       IN  /\ acc' = b.acc
           /\ hist' = b.hist
           /\ blocks' = Front(blocks)
           /\ held' = [e \in {x \in DOMAIN held : ~OutputElementWasRemoved(held[x], b.acc)} |->
                          RevertUpdateElementProof(held[e], eru)]
           /\ histHeld' = [k \in 0..(Tip - 1) |->
                              HistoryRevertUpdateProof(k, histHeld[k], Tip)]

\* Manager.UpdateElementProof between the tip and the block at a height below
\* it: down through the revert updates, which fails at the block that created
\* the element, and up again through the apply updates.
Missing == [index |-> 0, proof |-> <<<<"missing">>>>]

ProofBelow(se, height) ==
    FoldLeft(LAMBDA e, b :
                 IF e = Missing \/ e.index >= b.acc.numLeaves THEN Missing
                 ELSE RevertUpdateElementProof(e,
                          ElementRevert(b.acc, updatedInBlock(b.spends, FALSE))),
             se, Reverse(SubSeq(blocks, height + 1, Tip)))

ProofAbove(se, height) ==
    FoldLeft(LAMBDA e, b :
                 ApplyUpdateElementProof(e,
                     ElementApply(b.acc, updatedInBlock(b.spends, TRUE),
                                  createdInBlock(b.created))),
             se, SubSeq(blocks, height + 1, Tip))

GenesisID == BlockID(0, <<"genesis">>)
GenesisCreated == Outputs(GenesisID, GenesisOutputs, {})

Init ==
    LET eau == ElementApply(EmptyAccumulator, {}, createdInBlock(GenesisCreated))
        hau == HistoryApply(EmptyAccumulator, 0, GenesisID)
    IN  /\ acc = eau.acc
        /\ hist = hau.acc
        /\ blocks = <<>>
        /\ held = [e \in {<<GenesisID, i>> : i \in 1..GenesisOutputs} |->
                      [index |-> eau.added[e[2]].index, proof |-> eau.added[e[2]].proof]]
        /\ histHeld = [k \in {0} |-> hau.proof]

Next == Apply \/ Revert

Spec == Init /\ [][Next]_vars
=============================================================================
