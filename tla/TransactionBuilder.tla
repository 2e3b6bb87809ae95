-------------------------- MODULE TransactionBuilder --------------------------
(***************************************************************************)
(* wallet.TransactionBuilder (wallet/wallet.go) between the wallet's store,*)
(* from which it takes outputs, and the pool, to which its transactions are*)
(* handed; and node.send (cmd/main.go), which reads the state, the pool and*)
(* the wallet one after another, while the chain moves.                    *)
(*                                                                         *)
(* All coins are the wallet's.  A transaction is the call that makes it and*)
(* the outputs that it spends; it pays the amount of the call to somebody  *)
(* else, and the rest to a new address, as its change.  The order in which *)
(* the store lists outputs is left open.                                   *)
(***************************************************************************)
EXTENDS TxPool, FiniteSetsExt

CONSTANTS
  Senders,    \* calls that send coins
  Reservers,  \* calls that only reserve them
  Amount,     \* what a call asks for
  Value,      \* what an output is worth
  Maturity,   \* the height from which Fund takes an output
  MinerCoins  \* coins paid to the address that newNode gives the miner

Calls == Senders \cup Reservers
Total(outs) == MapThenSumSet(LAMBDA o : Value[o], outs)
Txn(c, ins) == [call |-> c, ins |-> ins]

\* The pool's time locks hold at any height, as TxPool has it.
ASSUME BuilderAssumption ==
  /\ \A c \in Calls : Amount[c] \in Nat \ {0}
  /\ \A o \in Outputs : Maturity[o] \in {0, 1} /\ Value[o] \in Nat \ {0}
  /\ MinerCoins \subseteq Coins
  /\ \A t \in Txns : /\ t.call \in Senders /\ t.ins = Spends[t]
                     /\ Total(Creates[t]) + Amount[t.call] = Total(t.ins)

VARIABLES
  shared, \* whether one builder serves all calls, or each has a new one
  wallet, \* EphemeralStore.outputs
  wchain, \* the state that the store has followed the chain to
  addrs,  \* the change whose address the store knows
  used,   \* tb.used
  call,   \* what each call has read and made
  sent    \* the transactions that the pool has accepted, for others to mine

builderVars == <<shared, wallet, wchain, addrs, used, call, sent>>
vars == <<poolVars, builderVars>>

NoCall == [pc |-> "idle", height |-> 0, seen |-> {}, ins |-> {}, at |-> <<>>,
           toSign |-> {}, signed |-> {}]

Done(pc, ins) == [NoCall EXCEPT !.pc = pc, !.ins = ins]

BuilderInit ==
  /\ Init
  /\ shared \in BOOLEAN
  /\ wallet = Coins /\ wchain = <<>> /\ addrs = {}
  /\ used = {}
  /\ call = [c \in Calls |-> NoCall]
  /\ sent = {}

-----------------------------------------------------------------------------
(* The builder.                                                            *)

\* Outputs taken until they are worth the amount.
Selections(outs, amount) ==
  {ins \in SUBSET outs : /\ Total(ins) >= amount
                         /\ \E o \in ins : Total(ins \ {o}) < amount}

\* (mutated: what the builder's own transactions use is looked for in the pool only)
Free_PoolOnly(c) == wallet \ call[c].seen

\* (mutated: the pool is not looked at)
Free_NotInPool(c) == wallet \ used

\* What is neither in use nor spent in the pool.
Free(c) == wallet \ (used \cup call[c].seen)

\* TipState, which waits for the manager's mutex.  The node sends one after
\* another, each with a NewTransactionBuilder.
TakeState(c) ==
  /\ call[c].pc = "idle"
  /\ wchain = chain
  /\ ~shared => \A d \in Calls : call[d].pc \in {"idle", "sent", "failed"}
  /\ used' = IF shared THEN used ELSE {}
  /\ call' = [call EXCEPT ![c].pc = "state", ![c].height = Len(chain)]
  /\ UNCHANGED <<poolVars, shared, wallet, wchain, addrs, sent>>

\* Pool.Transactions.
TakePool(c) ==
  /\ call[c].pc = "state"
  /\ call' = [call EXCEPT ![c].pc = "pool", ![c].seen = Used(DOMAIN pool)]
  /\ UNCHANGED <<poolVars, shared, wallet, wchain, addrs, used, sent>>

\* (mutated: the outputs are in use also if they are not worth enough)
TooLittle_Used(c, outs) ==
  /\ Total(outs) < Amount[c]
  /\ call' = [call EXCEPT ![c] = Done("failed", {})]
  /\ used' = used \cup outs
  /\ UNCHANGED <<poolVars, shared, wallet, wchain, addrs, sent>>

TooLittle(c, outs) ==
  /\ Total(outs) < Amount[c]
  /\ call' = [call EXCEPT ![c] = Done("failed", {})]
  /\ UNCHANGED <<poolVars, shared, wallet, wchain, addrs, used, sent>>

\* (mutated: the address of the change is not kept)
Fund_LosesAddress(c) ==
  /\ c \in Senders /\ call[c].pc = "pool"
  /\ LET outs == {o \in Free(c) : Maturity[o] <= call[c].height} IN
     \/ TooLittle(c, outs)
     \/ \E ins \in Selections(outs, Amount[c]) :
          /\ Txn(c, ins) \in Txns
          /\ call' = [call EXCEPT ![c].pc = "funded", ![c].ins = ins, ![c].at = wchain]
          /\ used' = used \cup ins
          /\ UNCHANGED <<poolVars, shared, wallet, wchain, addrs, sent>>

\* Fund: inputs, with the proofs that the store has for them, and change.  As a
\* bound, what it makes is one of the transactions that there are (Txns).
Fund(c) ==
  /\ c \in Senders /\ call[c].pc = "pool"
  /\ LET outs == {o \in Free(c) : Maturity[o] <= call[c].height} IN
     \/ TooLittle(c, outs)
     \/ \E ins \in Selections(outs, Amount[c]) :
          /\ Txn(c, ins) \in Txns
          /\ call' = [call EXCEPT ![c].pc = "funded", ![c].ins = ins, ![c].at = wchain]
          /\ used' = used \cup ins
          /\ addrs' = addrs \cup Creates[Txn(c, ins)]
          /\ UNCHANGED <<poolVars, shared, wallet, wchain, sent>>

\* ReserveFunds, which does not look at the maturity.
ReserveFunds(c) ==
  /\ c \in Reservers /\ call[c].pc = "pool"
  /\ \/ TooLittle(c, Free(c))
     \/ \E ins \in Selections(Free(c), Amount[c]) :
          /\ call' = [call EXCEPT ![c].pc = "reserved", ![c].ins = ins]
          /\ used' = used \cup ins
          /\ UNCHANGED <<poolVars, shared, wallet, wchain, addrs, sent>>

\* (mutated: it stays in use)
Release_Nothing(c) == used

\* ReleaseInputs.
Release(c) == used \ call[c].ins

\* The caller has no use for what it reserved.
GiveUp(c) ==
  /\ call[c].pc = "reserved"
  /\ used' = Release(c)
  /\ call' = [call EXCEPT ![c] = Done("failed", {})]
  /\ UNCHANGED <<poolVars, shared, wallet, wchain, addrs, sent>>

\* (mutated: the last one is left out)
Signatures_NotLast(toSign) == IF toSign = {} THEN {} ELSE toSign \ {CHOOSE o \in toSign : TRUE}

\* SignTransaction: the range over all inputs, if none is specified, signs
\* copies of them.
Signatures(toSign) == toSign

\* The inputs to sign are those that Fund has returned; or are not specified.
SignTransaction(c) ==
  /\ call[c].pc = "funded"
  /\ \E toSign \in {call[c].ins, {}} :
       call' = [call EXCEPT ![c].pc = "signed", ![c].toSign = toSign,
                            ![c].signed = Signatures(toSign)]
  /\ UNCHANGED <<poolVars, shared, wallet, wchain, addrs, used, sent>>

\* validateSpendPolicies.  The address of the miner is the public key itself,
\* and not its hash.
PoliciesValid(c) == call[c].signed = call[c].ins /\ call[c].ins \cap MinerCoins = {}

\* Pool.AddTransaction, and ReleaseInputs if it fails.
Broadcast(c) ==
  /\ call[c].pc = "signed"
  /\ LET t == Txn(c, call[c].ins) IN
     \E kept \in BOOLEAN :
       IF PoliciesValid(c) /\ Accepts(pool, t, call[c].at, kept)
       THEN /\ call' = [call EXCEPT ![c] = Done("sent", @.ins)]
            /\ pool' = With(pool, t, Ephemeral(call[c].at, t))
            /\ sent' = sent \cup {t}
            /\ UNCHANGED used
       ELSE /\ call' = [call EXCEPT ![c] = Done("failed", {})]
            /\ used' = Release(c)
            /\ UNCHANGED <<pool, sent>>
  /\ UNCHANGED <<chain, prev, shared, wallet, wchain, addrs>>

-----------------------------------------------------------------------------
(* The chain moves: first the pool is told, then the wallet's store.       *)

PoolUpdate ==
  /\ wchain = chain
  /\ (\E ts \in SUBSET sent : ApplyUpdate(ts)) \/ RevertUpdate
  /\ UNCHANGED builderVars

\* ProcessChainApplyUpdate and ProcessChainRevertUpdate of the store: what a
\* block spends and did not make itself leaves and returns.
WalletApply(ts)  == (wallet \ Used(ts)) \cup (Made(ts) \cap addrs)
WalletRevert(ts) == (wallet \ Made(ts)) \cup (Used(ts) \ Made(ts))

WalletUpdate ==
  /\ wchain # chain
  /\ wchain' = chain
  /\ wallet' = IF Len(chain) > Len(wchain) THEN WalletApply(chain[Len(chain)])
                                           ELSE WalletRevert(wchain[Len(wchain)])
  /\ UNCHANGED <<poolVars, shared, addrs, used, call, sent>>

BuilderNext ==
  \/ \E c \in Calls : \/ TakeState(c) \/ TakePool(c) \/ Fund(c) \/ ReserveFunds(c)
                      \/ GiveUp(c) \/ SignTransaction(c) \/ Broadcast(c)
  \/ PoolUpdate \/ WalletUpdate

BuilderSpec == BuilderInit /\ [][BuilderNext]_vars
-----------------------------------------------------------------------------
(* Properties.                                                             *)

Holding(c) == call[c].pc \in {"funded", "signed", "reserved", "sent"}

BuilderTypeOK ==
  /\ TypeOK
  /\ shared \in BOOLEAN
  /\ wallet \subseteq Outputs /\ addrs \subseteq Outputs /\ used \subseteq Outputs
  /\ IsState(wchain)
  /\ sent \subseteq Txns
  /\ \A c \in Calls : call[c].signed \subseteq call[c].ins /\ call[c].ins \subseteq Outputs

\* "The inputs will not be available to future calls to ReserveFunds or Fund
\* unless ReleaseInputs is called" (wallet.go:109-111, 150-153): of one builder,
\* what is in use is what the calls hold that have not failed, and no two hold
\* the same output: none is given out twice, and none stays behind.
HeldOnce ==
  shared =>
    /\ used = UNION {call[c].ins : c \in {d \in Calls : Holding(d)}}
    /\ \A c, d \in Calls : c # d /\ Holding(c) /\ Holding(d) => call[c].ins \cap call[d].ins = {}

\* The wallet lists all that is unspent: the change of a transaction too, from
\* the block that makes it on, in which the store must know its address, and
\* again after any reorg (wallet.go:192-203, walletutil/store.go:106-130).
ChangeListed == Unspent(wchain) \subseteq wallet

\* The builder, and the wallet, between any of their steps.
BuilderInv == BuilderTypeOK /\ HeldOnce /\ ChangeListed

\* One builder never has two transactions accepted that spend the same output,
\* however the chain and the pool move while it makes them, although the pool
\* would accept them (wallet.go:93-97, txpool.go:115-126).
SpentByOne == shared => \A t, u \in sent : t # u => t.ins \cap u.ins = {}

\* A call whose transaction is written on the state that the pool is at, with
\* outputs that are unspent there, and with signatures that were asked for.
Quiet(c) == /\ call[c].at = chain /\ call[c].ins \subseteq Unspent(chain)
            /\ call[c].toSign = call[c].ins

\* When the chain has not moved since Fund, what is funded and signed is
\* accepted, also from the change of other calls; and it takes nothing from the
\* transactions that the pool had when its inputs were chosen (wallet.go:162-180,
\* 246-268).
QuietSendsSucceed ==
  [][\A c \in Senders :
       call[c].pc = "signed" /\ call'[c].pc # "signed" /\ Quiet(c) /\ call[c].ins \cap MinerCoins = {}
         => /\ call'[c].pc = "sent"
            /\ call[c].ins \cap Used(DOMAIN pool) \cap call[c].seen = {}]_vars

-----------------------------------------------------------------------------
(* What the code's comments say and TLC refutes.                           *)

\* "An Address is the hash of a public key" (sunyata.go:34), and so what the
\* wallet lists can be spent with its key: also when the node has mined it.
MinedCoinsAreSpent ==
  [][\A c \in Senders :
       call[c].pc = "signed" /\ call'[c].pc # "signed" /\ Quiet(c)
         => call'[c].pc = "sent"]_vars

\* "If len(toSign) == 0, a signature is added for every input with a known key."
EmptyMeansEvery ==
  \A c \in Calls : call[c].pc = "signed" /\ call[c].toSign = {} => call[c].signed = call[c].ins

\* "avoid reusing any inputs currently in the transaction pool": the node's own
\* transactions do not conflict either, although each has a new builder.
NodeSpendsOnce == NoDoubleSpends(DOMAIN pool)
=============================================================================
