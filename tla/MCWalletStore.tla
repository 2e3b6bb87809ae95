--------------------------- MODULE MCWalletStore ---------------------------
(***************************************************************************)
(* Properties of WalletStore and the instances TLC checks.                 *)
(***************************************************************************)
EXTENDS WalletStore

\* What the chain up to an index has created for the wallet, and of that what
\* no later block spent.
CreatedBy(path) == UNION {Created(SubSeq(path, 1, i)) : i \in DOMAIN path}
NotSpentLater(path) == {e \in CreatedBy(path) : \A i \in DOMAIN path : e \notin path[i].spends}

\* Every variable has its type (store.go:17-24).
TypeOK ==
    /\ best \in known /\ durable.best \in durable.known /\ durable.known \subseteq known
    /\ up => w.tip = best
    /\ w.addrs \subseteq Addresses /\ w.seedIndex \in 0..MaxSeed
    /\ given \subseteq Addresses

\* Whatever was applied, reverted, saved and loaded, the wallet lists each
\* output paid to it on the chain and not spent by a later block once, and
\* nothing else (store.go:107-132, 164-188, 282-301).  For outputs that the
\* block itself spends see SpentNotListed.
OutputsFollowChain ==
    up => /\ ToSet(w.outputs) = NotSpentLater(best)
          /\ IsInjective(w.outputs)

\* The list of transactions is that of the blocks of the chain that concern
\* the wallet, in order; a revert cuts those of its block off, and only those
\* (store.go:134-158, 190-197).
TxnsFollowChain ==
    up => w.txns = SelectSeq([i \in DOMAIN best |-> SubSeq(best, 1, i)],
                             LAMBDA p : Last(p).spends # {} \/ Last(p).pays # {})

\* An address that was handed out is known to the wallet for ever, and saved,
\* so no exit or crash makes the wallet miss a payment to it or hand it out a
\* second time (store.go:276-279).
AddressesKept ==
    /\ given \subseteq disk.addrs
    /\ \A a \in given : a < disk.seedIndex

\* The wallet after any blocks, reverts, exits and starts (store.go:17-24).
WalletInv == TypeOK /\ OutputsFollowChain /\ TxnsFollowChain /\ AddressesKept

\* When the wallet saves because the manager lets it, wallet.json is at a tip
\* that the chain store reopens with (store.go:285-291, manager.go:424-433).
CommitsAreDurable == [][Commit => disk'.tip \in durable'.known]_vars

\* wallet.json is always at a tip that the chain store reopens with, so the
\* node can start again; Subscriber (manager.go:45-49) asks this of
\* implementations: "Implementations MUST not commit updates to persistent
\* storage unless mayCommit is set."  TLC refutes it: AddAddress saves too.
WalletTipDurable == disk.tip \in durable.known

\* UnspentOutputElements lists no output that the chain has spent (store.go:111,
\* "delete spent elements").  TLC refutes it, for an output that the same block
\* creates and spends.
SpentNotListed == up => ToSet(w.outputs) \subseteq Unspent(best)
=============================================================================
