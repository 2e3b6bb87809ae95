----------------------------- MODULE BlockTree -----------------------------
(***************************************************************************)
(* The blocks that exist in the network, as a tree rooted at Genesis.      *)
(*                                                                         *)
(* A block, its header and its ChainIndex are one value here: the hash of  *)
(* a header is taken to be injective, and a header commits to the parent   *)
(* state and the transactions (State.Commitment), so an index determines   *)
(* the block, its parent and the consensus state that results from it.     *)
(* (The hash covers nonce, time stamp and commitment.  That the header's   *)
(* height, parent and miner are those of its commitment is checked with    *)
(* the block; headers of which they are not are left out.)                 *)
(*                                                                         *)
(* A chain is the path from Genesis to its tip.  ChainOf[b] is that path,  *)
(* a sequence that begins with Genesis and ends with b, so the index at    *)
(* height h of the chain of b is ChainOf[b][h + 1].                        *)
(***************************************************************************)
EXTENDS Integers, Sequences

CONSTANTS
  Blocks,     \* every block, Genesis included
  Genesis,    \* the block all chains start from
  Parent,     \* BlockHeader.ParentIndex, for the blocks other than Genesis
  ChainOf,    \* the path from Genesis to a block
  TotalWork,  \* State.TotalWork of the state that results from a block
  HeaderOK,   \* blocks whose header is valid on the state of their parent
  BodyOK      \* blocks whose transactions are valid on that state

Children == Blocks \ {Genesis}

ASSUME GenesisAssumption ==
  /\ Genesis \in Blocks
  /\ Parent \in [Children -> Blocks]

(***************************************************************************)
(* ChainOf is a constant and not a recursive definition, so that what is   *)
(* proved about chains rests on these two equations alone.                 *)
(***************************************************************************)
ASSUME ChainAssumption ==
  /\ ChainOf \in [Blocks -> Seq(Blocks)]
  /\ ChainOf[Genesis] = <<Genesis>>
  /\ \A b \in Children : ChainOf[b] = Append(ChainOf[Parent[b]], b)

(***************************************************************************)
(* Every block adds work (State.Difficulty is never zero), so the total    *)
(* work grows strictly along a chain.  How much is added is arbitrary.     *)
(***************************************************************************)
ASSUME WorkAssumption ==
  /\ TotalWork \in [Blocks -> Nat]
  /\ \A b \in Children : TotalWork[b] > TotalWork[Parent[b]]

ASSUME ValidityAssumption ==
  /\ HeaderOK \subseteq Children
  /\ BodyOK \subseteq Children

-----------------------------------------------------------------------------
(* Indices, headers and the states reached by them.                        *)

Height(b) == Len(ChainOf[b]) - 1

\* The index at height h on the chain that ends in b.
IndexAt(b, h) == ChainOf[b][h + 1]

\* a is on the chain that ends in b.
OnChain(a, b) == Height(a) <= Height(b) /\ IndexAt(b, Height(a)) = a

\* State.ValidateBlock on the state of index s: b's header must extend s.
ValidateBlock(s, b) ==
  b # Genesis /\ Parent[b] = s /\ b \in HeaderOK \cap BodyOK

\* The blocks a path from a (exclusive) down to b (inclusive) consists of.
PathFrom(a, b) == SubSeq(ChainOf[b], Len(ChainOf[a]) + 1, Len(ChainOf[b]))
=============================================================================
