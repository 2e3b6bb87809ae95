---------------------------- MODULE HeaviestChain ----------------------------
(***************************************************************************)
(* What chain.Manager promises: "A Manager tracks multiple blockchains and *)
(* identifies the best valid chain".  Of the valid blocks it has learned,  *)
(* in whatever order and through whichever call, the tip is one with the   *)
(* most total work, and among those with equal work the one that was the   *)
(* tip first.                                                              *)
(*                                                                         *)
(* A Manager can give up a reorg half way (see ReorgFails in ChainManager) *)
(* and is then left on any block it knows; lost remembers that it did.     *)
(***************************************************************************)
EXTENDS BlockTree

VARIABLES
  known, \* the valid blocks learned so far
  tip,   \* the tip of the best chain
  lost   \* a reorg was abandoned

vars == <<known, tip, lost>>

Init == known = {Genesis} /\ tip = Genesis /\ lost = FALSE

\* A valid block on top of a known one becomes the tip if it has more work.
Learn(b) ==
  /\ b \in Children /\ Parent[b] \in known
  /\ ValidateBlock(Parent[b], b)
  /\ known' = known \cup {b}
  /\ tip' = IF TotalWork[b] > TotalWork[tip] THEN b ELSE tip
  /\ UNCHANGED lost

Abandon ==
  /\ tip' \in known
  /\ lost' = TRUE
  /\ UNCHANGED known

Next == (\E b \in Blocks : Learn(b)) \/ Abandon

Spec == Init /\ [][Next]_vars

-----------------------------------------------------------------------------
TypeOK == known \subseteq Blocks /\ tip \in known /\ lost \in BOOLEAN

\* No known block has more work than the tip.
TipIsHeaviest == ~lost => \A b \in known : TotalWork[b] <= TotalWork[tip]

Inv == TypeOK /\ TipIsHeaviest
=============================================================================
