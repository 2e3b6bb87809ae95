------------------------------ MODULE MCMiner ------------------------------
(***************************************************************************)
(* Transactions to check TxPool and Miner on.  P and Q spend the same coin;*)
(* C spends an output of P, and G one of each, so that P is a parent of G  *)
(* twice over.  A block has room for these three.                          *)
(***************************************************************************)
EXTENDS Miner, TLC

CONSTANTS o1, o2, p1, p2, c1, P, Q, C, G

FamilyTxns  == {P, Q, C, G}
FamilyCoins == {o1, o2}
InputsOf  == (P :> <<o1>>) @@ (Q :> <<o1, o2>>) @@ (C :> <<p1>>) @@ (G :> <<c1, p2>>)
SpendsOf  == [t \in FamilyTxns |-> Range(InputsOf[t])]
CreatesOf == (P :> {p1, p2}) @@ (C :> {c1}) @@ [t \in {Q, G} |-> {}]
WeightOf  == [t \in FamilyTxns |-> 1]

FamilyInputs  == InputsOf
FamilySpends  == SpendsOf
FamilyCreates == CreatesOf
FamilyWeight  == WeightOf
=============================================================================
