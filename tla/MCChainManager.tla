--------------------------- MODULE MCChainManager ---------------------------
(***************************************************************************)
(* A block tree to check ChainManager on, given by the parents and the     *)
(* work of its blocks.                                                     *)
(***************************************************************************)
EXTENDS ChainManager, TLC

CONSTANTS g, a1, a2, a3, b2, b3, c1, s1

\* The paths from g of the tree whose parent function is par.
Paths(par) ==
  LET path[b \in {g} \cup DOMAIN par] ==
        IF b = g THEN <<g>> ELSE Append(path[par[b]], b)
  IN  path

\* Total work when block b contributes w[b].
SumWork(par, w) ==
  LET sum[b \in {g} \cup DOMAIN par] == IF b = g THEN 1 ELSE sum[par[b]] + w[b]
  IN  sum

-----------------------------------------------------------------------------
(* g - a1 - a2 - a3    two chains that share their first block, and a      *)
(*   \    \ b2 - b3    block c1 that outweighs the first two blocks of each, *)
(*    c1               whose timestamp is in the future at first and whose *)
(*                     transactions are invalid                            *)
ForkParent == (a1 :> g) @@ (a2 :> a1) @@ (a3 :> a2) @@ (b2 :> a1) @@ (b3 :> b2)
              @@ (c1 :> g)
ForkChildren == DOMAIN ForkParent
ForkBlocks == {g} \cup ForkChildren
ForkChainOf == Paths(ForkParent)
ForkWork == SumWork(ForkParent, [b \in ForkChildren |->
              CASE b \in {b3, c1} -> 3 [] b = a3 -> 2 [] OTHER -> 1])
ForkValid == ForkChildren \ {c1}
=============================================================================
