---------------------------- MODULE MCHeaderSync ----------------------------
(***************************************************************************)
(* Two block trees to check HeaderSync on: one with chains of more than    *)
(* ten blocks, and a small one for downloads that fail.  A block is the    *)
(* name of its chain and its height.                                       *)
(***************************************************************************)
EXTENDS HeaderSync, TLC

(***************************************************************************)
(* g - a1 - a2 - a3 - ... - a13     the last of a is ahead of our clock    *)
(*           |\                                                            *)
(*           | b3 - ... - b6 - b7 - ... - b13                              *)
(*           m3            \ c7 - c8     two blocks with a lot of work      *)
(***************************************************************************)
Run(c, lo, hi) == {<<c, h>> : h \in lo .. hi}
G == <<"g", 0>>
TreeChildren == Run("a", 1, 13) \cup Run("b", 3, 13) \cup Run("c", 7, 8) \cup Run("m", 3, 3)
TreeBlocks == {G} \cup TreeChildren

\* The block of height h on the way to b, and what that says of the tree.
Ancestor(b, h) ==
  CASE h = 0 -> G
    [] h \in 1 .. 2 -> <<"a", h>>
    [] b[1] = "c" /\ h \in 3 .. 6 -> <<"b", h>>
    [] OTHER -> <<b[1], h>>
Ancestors == (G :> <<G>>) @@ [b \in TreeBlocks |-> <<G>> \o [i \in 1 .. b[2] |-> Ancestor(b, i)]]
Parents   == [b \in TreeChildren |-> Ancestor(b, b[2] - 1)]
Works     == [b \in TreeBlocks |-> IF b[1] = "c" THEN 5 * b[2] - 23 ELSE b[2] + 1]

TreeChainOf == Ancestors
TreeParent  == Parents
TreeWork    == Works
TreeNodes   == TreeBlocks

Late == Run("a", 13, 13)
Mined == Run("m", 3, 3) \cup Run("a", 1, 1)
Tips == {<<"a", 12>>, <<"b", 13>>}
Moves == {<< <<"a", 12>>, <<"a", 13>> >>, << <<"a", 12>>, <<"b", 13>> >>, << <<"b", 13>>, <<"c", 8>> >>}

(***************************************************************************)
(* g - a1 - a2 - a3 - a4    the body of a4 is not valid, and b1 and c4     *)
(*  \             \         have a lot of work: a download that fails and  *)
(*   b1            c4       is not the heaviest any more leaves two chains *)
(*                          whose headers the next batch extends           *)
(***************************************************************************)
FewChildren == Run("a", 1, 4) \cup Run("b", 1, 1) \cup Run("c", 4, 4)
FewNodes    == {G} \cup FewChildren

FewAncestor(b, h) == IF b[1] = "c" /\ h < 4 THEN <<"a", h>> ELSE <<b[1], h>>
FewAncestors == (G :> <<G>>) @@ [b \in FewNodes \ {G} |-> <<G>> \o [i \in 1 .. b[2] |-> FewAncestor(b, i)]]
FewParents   == [b \in FewChildren |-> IF b[2] = 1 THEN G ELSE FewAncestor(b, b[2] - 1)]
FewWorks     == [b \in FewNodes |-> CASE b[1] = "b" -> 4
                                      [] b[1] = "c" -> 7
                                      [] b[2] >= 3  -> b[2] + 2
                                      [] OTHER      -> b[2]]
FewBodies == FewChildren \ {<<"a", 4>>}
FewMined  == Run("a", 1, 2)
FewTips   == Run("a", 1, 1) \cup Run("a", 3, 4) \cup Run("b", 1, 1) \cup Run("c", 4, 4)

\* Definitions that a constant is given are evaluated once.
FewChainOf == FewAncestors
FewParent  == FewParents
FewWork    == FewWorks
=============================================================================
