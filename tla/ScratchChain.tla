---------------------------- MODULE ScratchChain ----------------------------
(***************************************************************************)
(* consensus.ScratchChain: a header chain above a base block of the store, *)
(* and how far its blocks have been validated.                             *)
(*                                                                         *)
(*   sc.base   the parent of the first header                              *)
(*   sc.hs     the index of the state the last header leads to (Tip)       *)
(*   sc.ts     the index of the state of the last applied block (ValidTip) *)
(*                                                                         *)
(* AppendHeader only appends a header that extends hs, so the headers are  *)
(* PathFrom(base, hs) and are not kept a second time.  Nothing ties ts to  *)
(* them: ApplyBlock takes any block that is valid on ts.                   *)
(***************************************************************************)
EXTENDS BlockTree

ScratchChains == [base : Blocks, hs : Blocks, ts : Blocks]

NewScratchChain(s) == [base |-> s, hs |-> s, ts |-> s]

FullyValidated(sc) == sc.ts = sc.hs

\* Index reads the header above the wanted height, or the tip: the height
\* must lie in the header chain, or the slice access is out of range.
HasIndex(sc, h) == Height(sc.base) <= h /\ h <= Height(sc.hs)
ScIndex(sc, h)  == IndexAt(sc.hs, h)

Contains(sc, b) ==
  /\ Height(sc.base) < Height(b)
  /\ Height(b) <= Height(sc.hs)
  /\ ScIndex(sc, Height(b)) = b

\* (mutated: the transactions are not validated)
CanApplyBlock_HeaderOnly(sc, b) ==
  /\ Height(sc.ts) + 1 <= Height(sc.hs)
  /\ b # Genesis /\ Parent[b] = sc.ts /\ b \in HeaderOK

\* ApplyBlock refuses a block above the last header and an invalid block.
CanApplyBlock(sc, b) ==
  /\ Height(sc.ts) + 1 <= Height(sc.hs)
  /\ ValidateBlock(sc.ts, b)
ApplyBlock(sc, b) == [sc EXCEPT !.ts = b]
=============================================================================
