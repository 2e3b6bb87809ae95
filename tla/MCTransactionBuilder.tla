------------------------ MODULE MCTransactionBuilder ------------------------
(***************************************************************************)
(* Two calls that send and one that reserves, from three coins; one of them*)
(* was mined by the node and matures in the next block.  A call that sends *)
(* may spend the change of the other.                                      *)
(***************************************************************************)
EXTENDS TransactionBuilder, TLC

CONSTANTS o1, o2, o3

MCCoins == {o1, o2, o3}
MCMinerCoins == {o2}
Asked == (1 :> 2) @@ (2 :> 3) @@ (3 :> 2)
MCAmount == Asked

\* The change of a transaction, and what an output is worth.
Change(t) == [call |-> t.call, from |-> t.ins]
CoinValues == (o1 :> 4) @@ (o2 :> 3) @@ (o3 :> 1)
CoinTotal(S) == MapThenSumSet(LAMBDA o : CoinValues[o], S)
First(c) == {t \in {Txn(c, S) : S \in SUBSET MCCoins} :
               /\ CoinTotal(t.ins) >= Asked[c]
               /\ \E o \in t.ins : CoinTotal(t.ins \ {o}) < Asked[c]}
FirstChange(c) == {Change(t) : t \in {u \in First(c) : CoinTotal(u.ins) > Asked[c]}}
Worth == CoinValues @@ [x \in FirstChange(1) \cup FirstChange(2) |-> CoinTotal(x.from) - Asked[x.call]]
WorthOf(S) == MapThenSumSet(LAMBDA o : Worth[o], S)

\* One that spends the change of a first one, and coins that this has left.
Second(c) == {t \in UNION {{Txn(c, S \cup {x}) : S \in SUBSET (MCCoins \ x.from)} : x \in FirstChange(3 - c)} :
                /\ WorthOf(t.ins) >= Asked[c]
                /\ \E o \in t.ins : WorthOf(t.ins \ {o}) < Asked[c]}
TxnSet == UNION {First(c) \cup Second(c) : c \in {1, 2}}
MCTxns == TxnSet
SpendsOf == [t \in TxnSet |-> t.ins]
MCSpends == SpendsOf
CreatesOf == [t \in TxnSet |-> IF WorthOf(t.ins) > Asked[t.call] THEN {Change(t)} ELSE {}]
MCCreates == CreatesOf
Values == Worth @@ [x \in {Change(t) : t \in TxnSet} |-> WorthOf(x.from) - Asked[x.call]]
MCValue == Values
Maturities == [x \in DOMAIN Values |-> IF x = o2 THEN 1 ELSE 0]
MCMaturity == Maturities
=============================================================================
