----------------------------- MODULE WalletStore -----------------------------
(***************************************************************************)
(* The wallet's store (internal/walletutil/store.go) as a subscriber of the*)
(* node's chain: JSONStore keeps the wallet's outputs, addresses and       *)
(* transactions in memory and saves them to wallet.json, when the chain    *)
(* manager says that it may and whenever an address is added.  The node may*)
(* exit or be killed at any time; it then starts from what the chain store *)
(* flushed last and from wallet.json (cmd/main.go, newNode).               *)
(*                                                                         *)
(* A block is a record of what it does to the wallet's outputs; a chain    *)
(* index is the sequence of blocks up to it.  An element is a pair of the  *)
(* height of the block that created it and its address.                    *)
(***************************************************************************)
EXTENDS Integers, Sequences, FiniteSets, SequencesExt, FiniteSetsExt

CONSTANTS
    MaxSeed,    \* bound: addresses derived from the seed
    MaxHeight,  \* bound: height of the chain
    MaxBlocks,  \* bound: blocks in the chain store, genesis included
    MaxRestarts \* bound: starts of the node after the first

VARIABLES
    best,       \* the tip of the chain manager
    known,      \* the indexes of the blocks in the chain store
    durable,    \* [best, known] that the chain store reopens with
    flushed,    \* whether the chain store has ever been flushed
    up,         \* whether the node runs
    w,          \* EphemeralStore: [tip, seedIndex, addrs, outputs, txns]
    committing, \* ProcessChainApplyUpdate is about to save
    adding,     \* the address AddAddress is about to save, or NoAddress
    disk,       \* wallet.json, or NoFile
    given,      \* the addresses handed out
    restarts    \* starts after the first
chain == <<best, known, durable, flushed>>
vars == <<chain, up, w, committing, adding, disk, given, restarts>>

Addresses == 0..(MaxSeed - 1)
NoAddress == -1
NoFile == [tip |-> <<"none">>]
Genesis == <<>>

Created(path) == LET b == Last(path) IN {<<Len(path), a>> : a \in b.pays}

\* (mutated: an older address sets the index of the next one back)
AddAddressTo_AnyIndex(s, index) ==
    [s EXCEPT !.addrs = @ \union {index}, !.seedIndex = index + 1]

\* EphemeralStore.AddAddress.
AddAddressTo(s, index) ==
    [s EXCEPT !.addrs = @ \union {index},
              !.seedIndex = IF index >= @ THEN index + 1 ELSE @]

Mine(s, elements) ==
    SetToSortSeq({e \in elements : e[2] \in s.addrs}, LAMBDA x, y : x[2] < y[2])

Relevant(s, b) == \E e \in b.spends \union {<<0, a>> : a \in b.pays} : e[2] \in s.addrs

(***************************************************************************)
(* EphemeralStore.ProcessChainApplyUpdate: drop what the block spends, add *)
(* what it creates for the wallet, note its transactions.  An output that  *)
(* the block both creates and spends is in NewOutputElements and not in    *)
(* SpentOutputs.                                                           *)
(***************************************************************************)
ProcessApply(s, path) ==
    LET b == Last(path)
    IN  [s EXCEPT !.tip = path,
                  !.outputs = SelectSeq(@, LAMBDA o : o \notin b.spends)
                              \o Mine(s, Created(path)),
                  !.txns = IF Relevant(s, b) THEN Append(@, path) ELSE @]

\* (mutated: the last one goes, whatever block is reverted)
TxnsWithout_Last(txns, path) == IF txns = <<>> THEN txns ELSE Front(txns)

\* Cut before the first transaction of the block, if it has one.
TxnsWithout(txns, path) ==
    IF path \in ToSet(txns)
    THEN SubSeq(txns, 1, SelectInSeq(txns, LAMBDA t : t = path) - 1)
    ELSE txns

\* (mutated: what the block spent is not listed again)
ProcessRevert_NotReadded(s, path) ==
    [s EXCEPT !.tip = Front(path),
              !.outputs = SelectSeq(@, LAMBDA o : o[1] < Len(path)),
              !.txns = TxnsWithout(@, path)]

(***************************************************************************)
(* EphemeralStore.ProcessChainRevertUpdate.                                *)
(***************************************************************************)
ProcessRevert(s, path) ==
    [s EXCEPT !.tip = Front(path),
              !.outputs = SelectSeq(@, LAMBDA o : o[1] < Len(path))
                          \o Mine(s, Last(path).spends),
              !.txns = TxnsWithout(@, path)]

(***************************************************************************)
(* Manager.AddSubscriber at the start of the node: the store follows the   *)
(* path from its own tip to the chain's, and may commit at the end of it.  *)
(***************************************************************************)
CommonHeight(a, b) ==
    Max({h \in 0..Min({Len(a), Len(b)}) : SubSeq(a, 1, h) = SubSeq(b, 1, h)})

\* (mutated: blocks of the fork it is on are not reverted)
CatchUp_NoReverts(s, to) ==
    LET h == CommonHeight(s.tip, to)
    IN  FoldLeft(LAMBDA r, i : ProcessApply(r, SubSeq(to, 1, i)),
                 s, [i \in 1..(Len(to) - h) |-> h + i])

CatchUp(s, to) ==
    LET h == CommonHeight(s.tip, to)
        reverted == FoldLeft(LAMBDA r, i : ProcessRevert(r, SubSeq(s.tip, 1, i)),
                             s, Reverse([i \in 1..(Len(s.tip) - h) |-> h + i]))
    IN  FoldLeft(LAMBDA r, i : ProcessApply(r, SubSeq(to, 1, i)),
                 reverted, [i \in 1..(Len(to) - h) |-> h + i])

\* JSONStore.load: the tip is where the chain is, if there is no file.
Load(tip) ==
    IF disk = NoFile
    THEN [tip |-> tip, seedIndex |-> 0, addrs |-> {}, outputs |-> <<>>, txns |-> <<>>]
    ELSE disk

\* newNode: the chain store reopens, the wallet is loaded and follows, and the
\* miner's address is added, which saves.  A wallet whose tip the chain store
\* does not have makes AddSubscriber, and newNode, fail.
Start ==
    /\ ~up
    /\ Load(durable.best).tip \in durable.known
    /\ restarts' = restarts + 1
    /\ up' = TRUE
    /\ best' = durable.best
    /\ known' = durable.known
    /\ LET s == AddAddressTo(CatchUp(Load(durable.best), durable.best), 0)
       IN  w' = s /\ disk' = s
    /\ given' = given \union {0}
    /\ committing' = FALSE
    /\ adding' = NoAddress
    /\ UNCHANGED <<durable, flushed>>

\* The node exits, which flushes nothing, or is killed.
Stop ==
    /\ up
    /\ restarts < MaxRestarts
    /\ up' = FALSE
    /\ UNCHANGED <<chain, w, committing, adding, disk, given, restarts>>

(***************************************************************************)
(* The chain manager adds a block to its tip, or takes the tip off, in the *)
(* course of a reorganisation, and calls the store; the manager's mutex is *)
(* held until the store has saved.                                         *)
(***************************************************************************)
MayMove == up /\ ~committing

\* The wallet's outputs that are unspent after the block.
Unspent(path) ==
    {e \in UNION {Created(SubSeq(path, 1, i)) : i \in DOMAIN path} :
        \A i \in DOMAIN path : /\ e \notin path[i].spends
                               /\ e[1] = i => e[2] \notin path[i].ephemeral}

NewBlocks ==
    {[spends |-> S, pays |-> A, ephemeral |-> E] :
        S \in SUBSET Unspent(best), A \in SUBSET given, E \in SUBSET given}

\* Before the first flush there is no meta file, and the chain store reopens
\* with every block that it wrote.
Written(k) == IF flushed THEN durable ELSE [durable EXCEPT !.known = k]

\* (mutated: the wallet may commit without a flush)
MayCommit_Always(flush) == TRUE

MayCommit(flush) == flush

ApplyTip(b, flush) ==
    LET path == Append(best, b)
    IN  /\ Len(path) <= MaxHeight
        /\ b.ephemeral \subseteq b.pays
        /\ known' = known \union {path}
        /\ Cardinality(known') <= MaxBlocks
        /\ best' = path
        /\ flushed' = (flushed \/ flush)
        /\ durable' = IF flush THEN [best |-> path, known |-> known']
                      ELSE Written(known')
        /\ w' = ProcessApply(w, path)
        /\ committing' = MayCommit(flush)

Apply ==
    /\ MayMove
    /\ \E flush \in BOOLEAN :
         \E b \in NewBlocks \union {Last(p) : p \in {q \in known \ {Genesis} : Front(q) = best}} :
           ApplyTip(b, flush)
    /\ UNCHANGED <<up, adding, disk, given, restarts>>

Commit ==
    /\ up /\ committing
    /\ disk' = w
    /\ committing' = FALSE
    /\ UNCHANGED <<chain, up, w, adding, given, restarts>>

Revert ==
    /\ MayMove
    /\ best # Genesis
    /\ best' = Front(best)
    /\ w' = ProcessRevert(w, best)
    /\ UNCHANGED <<known, durable, flushed, up, committing, adding, disk, given, restarts>>

(***************************************************************************)
(* JSONStore.AddAddress, for the next index of the seed: the address is in *)
(* memory first, saved next, and handed out when it is saved.              *)
(***************************************************************************)
AddAddress ==
    /\ up /\ adding = NoAddress
    /\ w.seedIndex < MaxSeed
    /\ w' = AddAddressTo(w, w.seedIndex)
    /\ adding' = w.seedIndex
    /\ UNCHANGED <<chain, up, committing, disk, given, restarts>>

SaveAddress ==
    /\ up /\ adding # NoAddress
    /\ disk' = w
    /\ given' = given \union {adding}
    /\ adding' = NoAddress
    /\ UNCHANGED <<chain, up, w, committing, restarts>>

Init ==
    /\ best = Genesis
    /\ known = {Genesis}
    /\ durable = [best |-> Genesis, known |-> {Genesis}]
    /\ flushed = FALSE
    /\ up = TRUE
    /\ w = AddAddressTo([tip |-> Genesis, seedIndex |-> 0, addrs |-> {},
                         outputs |-> <<>>, txns |-> <<>>], 0)
    /\ committing = FALSE
    /\ adding = NoAddress
    /\ disk = w
    /\ given = {0}
    /\ restarts = 0

Next == Start \/ Stop \/ Apply \/ Commit \/ Revert \/ AddAddress \/ SaveAddress

Spec == Init /\ [][Next]_vars
=============================================================================
