----------------------------- MODULE MCFlatStore -----------------------------
(***************************************************************************)
(* FlatStore on a tree with a fork above the first block.                  *)
(***************************************************************************)
EXTENDS FlatStore, TLC

CONSTANTS g, a1, a2, c1, c2

\* g - a1 - a2
\*   \ c1 - c2
TwoParent == (a1 :> g) @@ (a2 :> a1) @@ (c1 :> g) @@ (c2 :> c1)
TwoChildren == DOMAIN TwoParent
TwoBlocks == {g} \cup TwoChildren
TwoChainOf == (g :> <<g>>) @@ (a1 :> <<g, a1>>) @@ (a2 :> <<g, a1, a2>>)
              @@ (c1 :> <<g, c1>>) @@ (c2 :> <<g, c1, c2>>)
TwoWork == [b \in TwoBlocks |-> Len(TwoChainOf[b])]
=============================================================================
