---------------------------- MODULE ChainManager ----------------------------
(***************************************************************************)
(* chain.Manager: tracks header chains (ScratchChains) above the blocks of *)
(* its store, validates their blocks, and reorganises the best chain to    *)
(* the one with the most work, telling its subscribers of every block it   *)
(* reverts and applies.                                                    *)
(*                                                                         *)
(* Manager.mu is held for the whole of a call.  AddBlocks, whose loops     *)
(* touch the store and the subscribers block by block, is a sequence of    *)
(* steps driven by job.pc; the other calls are one step.  While a job runs *)
(* no other call starts.  Store operations and subscribers succeed; an     *)
(* error is one the code itself detects.                                   *)
(***************************************************************************)
EXTENDS ScratchChain, FiniteSets

CONSTANTS
  Subscribers,  \* chain.Subscriber implementations
  FutureBlocks, \* blocks whose timestamp is too far ahead at first
  FlushChoices, \* whether a minute has passed since the last flush
  MaxBatch,     \* bound: blocks or headers handed over in one call
  MaxChains     \* bound: scratch chains tracked at a time

ASSUME ManagerAssumption ==
  /\ FutureBlocks \subseteq Children
  /\ FlushChoices \subseteq BOOLEAN
  /\ MaxBatch \in Nat \ {0}
  /\ MaxChains \in Nat

VARIABLES
  entries,    \* store: the indices that have a Checkpoint
  best,       \* store: the best chain, the block of height h at h + 1
  flushed,    \* store: what the last Flush made durable
  cs,         \* m.cs.Index
  chains,     \* m.chains
  subscribed, \* m.subscribers
  view,       \* the chain each subscriber has been told of
  committed,  \* the last index each subscriber was allowed to commit
  early,      \* blocks whose timestamp is still too far in the future
  job,        \* where the running AddBlocks call is
  lost        \* history: some reorg ended half way

store == <<entries, best, flushed>>
subs  == <<subscribed, view, committed>>
vars  == <<store, cs, chains, subs, early, job, lost>>

Idle == [pc |-> "idle", chain |-> 0, todo |-> <<>>, rebase |-> <<>>, at |-> Genesis]

Jobs == [pc     : {"idle", "blocks", "rebase", "revert", "apply", "panic"},
         chain  : Nat,
         todo   : Seq(Blocks),
         rebase : Seq(Blocks),
         at     : Blocks]

Init ==
  /\ entries = {Genesis}
  /\ best = <<Genesis>>
  /\ flushed = [tip |-> Genesis, entries |-> {Genesis}]
  /\ cs = Genesis
  /\ chains = <<>>
  /\ subscribed \in SUBSET Subscribers
  /\ view = [s \in Subscribers |-> <<Genesis>>]
  /\ committed = [s \in Subscribers |-> Genesis]
  /\ early = FutureBlocks
  /\ job = Idle
  /\ lost = FALSE

-----------------------------------------------------------------------------
(* Steps the calls share.                                                  *)

\* Drop the last element of a chain.
ButLast(c) == SubSeq(c, 1, Len(c) - 1)

\* A subscriber handles the update of the block b,
NotifyApply(b) ==
  view' = [s \in Subscribers |-> IF s \in subscribed THEN Append(view[s], b) ELSE view[s]]

\* (mutated: no subscriber is told of a revert)
NotifyRevert_Dropped == view' = view

\* or the revert of the tip.
NotifyRevert ==
  view' = [s \in Subscribers |-> IF s \in subscribed THEN ButLast(view[s]) ELSE view[s]]

\* (mutated: the flush comes before the tip is extended)
ExtendTo_FlushFirst(b, stored) ==
  /\ entries' = stored
  /\ best' = Append(best, b)
  /\ cs' = b
  /\ NotifyApply(b)
  /\ \E mayCommit \in FlushChoices :
       /\ flushed' = IF mayCommit THEN [tip |-> cs, entries |-> entries] ELSE flushed
       /\ committed' = [s \in Subscribers |->
                          IF mayCommit /\ s \in subscribed THEN b ELSE committed[s]]
  /\ UNCHANGED subscribed

\* ExtendBest, the flush that is due at most once a minute, the subscribers'
\* update and the new m.cs.  A subscriber may commit only if we flushed.
ExtendTo(b, stored) ==
  /\ entries' = stored
  /\ best' = Append(best, b)
  /\ cs' = b
  /\ NotifyApply(b)
  /\ \E mayCommit \in FlushChoices :
       /\ flushed' = IF mayCommit THEN [tip |-> b, entries |-> stored] ELSE flushed
       /\ committed' = [s \in Subscribers |->
                          IF mayCommit /\ s \in subscribed THEN b ELSE committed[s]]
  /\ UNCHANGED subscribed

\* (mutated: the longer chain is the better one)
Heavier_ByHeight(b) == Height(b) > Height(cs)

\* A block has to have more work than the tip to become it: ties keep the tip.
Heavier(b) == TotalWork[b] > TotalWork[cs]

\* The scratch chain the running call adds its blocks to.
Current == chains[job.chain]

-----------------------------------------------------------------------------
(* AddHeaders(headers), for the consecutive headers above p up to t.       *)

\* The tip of the headers is known already, so the call changes nothing.
Known(t) == t \in entries \/ \E i \in DOMAIN chains : Contains(chains[i], t)

\* Scratch chains the headers extend: the code takes the first of them.
Extends(p, t) ==
  {i \in DOMAIN chains : /\ OnChain(chains[i].hs, t)
                         /\ Height(p) <= Height(chains[i].hs)
                         /\ Height(chains[i].hs) < Height(t)}

\* c is where a new chain branches off: the last of the headers, or their
\* parent, before the first one that is not in the store.
IsBase(c, p, t) ==
  /\ p \in entries /\ c \in entries
  /\ OnChain(p, c) /\ OnChain(c, t) /\ c # t
  /\ \A h \in Height(p) .. Height(c) : IndexAt(t, h) \in entries
  /\ IndexAt(t, Height(c) + 1) \notin entries

\* Appending from a towards t stops at r: at the first header that is
\* invalid or too far in the future, else at t.
Acceptable(b) == b \in HeaderOK /\ b \notin early
IsReached(r, a, t) ==
  /\ OnChain(a, r) /\ OnChain(r, t)
  /\ \A h \in Height(a) + 1 .. Height(r) : Acceptable(IndexAt(t, h))
  /\ r # t => ~Acceptable(IndexAt(t, Height(r) + 1))

ExtendChain(p, t) ==
  \E i \in Extends(p, t), r \in Blocks :
    /\ \A j \in Extends(p, t) : i <= j
    /\ IsReached(r, chains[i].hs, t)
    /\ chains' = [chains EXCEPT ![i].hs = r]

StartChain(p, t) ==
  \E c, r \in Blocks :
    /\ Extends(p, t) = {}
    /\ Len(chains) < MaxChains
    /\ IsBase(c, p, t)
    /\ IsReached(r, c, t)
    /\ chains' = Append(chains, [NewScratchChain(c) EXCEPT !.hs = r])

AddHeaders(p, t) ==
  /\ job.pc = "idle"
  /\ p # t /\ OnChain(p, t) /\ Height(t) - Height(p) <= MaxBatch
  /\ ~Known(t)
  /\ ExtendChain(p, t) \/ StartChain(p, t)
  /\ UNCHANGED <<store, cs, subs, early, job, lost>>

-----------------------------------------------------------------------------
(* AddBlocks(blocks), for the consecutive blocks above p up to t.          *)

\* The chains the first block b belongs to: the code takes the first.
Accepting(b) ==
  {i \in DOMAIN chains : /\ ~FullyValidated(chains[i])
                         /\ Height(b) - 1 <= Height(chains[i].ts)
                         /\ Contains(chains[i], b)}

\* The caller hands over blocks of a chain that AddHeaders gave it, as the
\* syncer does.
IsTracked(p, t) == \E i \in DOMAIN chains : OnChain(chains[i].base, p) /\ Contains(chains[i], t)

\* Skip the blocks the chain has validated, by their number: blocks[have:]
\* is out of range when there are more of them than blocks.
AddBlocks(p, t) ==
  /\ job.pc = "idle"
  /\ p # t /\ OnChain(p, t) /\ Height(t) - Height(p) <= MaxBatch
  /\ IsTracked(p, t)
  /\ LET blocks == PathFrom(p, t) IN
     \E i \in Accepting(Head(blocks)) :
       LET have == Height(chains[i].ts) - Height(p) IN
       /\ \A j \in Accepting(Head(blocks)) : i <= j
       /\ job' = IF have > Len(blocks)
                 THEN [Idle EXCEPT !.pc = "panic"]
                 ELSE [Idle EXCEPT !.pc = "blocks", !.chain = i,
                                   !.todo = SubSeq(blocks, have + 1, Len(blocks))]
  /\ UNCHANGED <<store, cs, chains, subs, early, lost>>

\* The next block is refused, and the call returns the error.
RefuseBlock ==
  /\ job.pc = "blocks" /\ job.todo # <<>>
  /\ ~CanApplyBlock(Current, Head(job.todo))
  /\ job' = Idle
  /\ UNCHANGED <<store, cs, chains, subs, early, lost>>

\* The next block is valid: the chain advances and its Checkpoint is stored.
TakeBlock(b) ==
  /\ job.pc = "blocks" /\ job.todo # <<>> /\ b = Head(job.todo)
  /\ CanApplyBlock(Current, b)
  /\ chains' = [chains EXCEPT ![job.chain] = ApplyBlock(Current, b)]

KeepValidating(b) ==
  /\ TakeBlock(b)
  /\ ~Heavier(b)
  /\ entries' = entries \cup {b}
  /\ job' = [job EXCEPT !.todo = Tail(job.todo)]
  /\ UNCHANGED <<best, flushed, cs, subs, early, lost>>

\* The chain is now the best one, and its block attaches to the tip.
ApplyToTip(b) ==
  /\ TakeBlock(b)
  /\ Heavier(b)
  /\ Parent[b] = cs
  /\ ExtendTo(b, entries \cup {b})
  /\ job' = [job EXCEPT !.todo = Tail(job.todo)]
  /\ UNCHANGED <<early, lost>>

\* The chain is now the best one, but it forked off: reorgTo(chain).
StartReorg(b) ==
  /\ TakeBlock(b)
  /\ Heavier(b)
  /\ Parent[b] # cs
  /\ entries' = entries \cup {b}
  /\ job' = [job EXCEPT !.pc = "rebase", !.at = Current.base]
  /\ UNCHANGED <<best, flushed, cs, subs, early, lost>>

\* (mutated: the chain is discarded, but the loop goes on)
FinishBlocks_NoReturn ==
  /\ job.pc = "blocks" /\ job.todo = <<>>
  /\ FullyValidated(Current)
  /\ chains' = SubSeq(chains, 1, job.chain - 1)
               \o SubSeq(chains, job.chain + 1, Len(chains))
  /\ UNCHANGED <<store, cs, subs, early, job, lost>>

\* FullyValidated chains are discarded when the call returns.
FinishBlocks ==
  /\ job.pc = "blocks" /\ job.todo = <<>>
  /\ chains' = IF FullyValidated(Current)
               THEN SubSeq(chains, 1, job.chain - 1)
                    \o SubSeq(chains, job.chain + 1, Len(chains))
               ELSE chains
  /\ job' = Idle
  /\ UNCHANGED <<store, cs, subs, early, lost>>

-----------------------------------------------------------------------------
(* reorgTo, a loop iteration at a time.                                    *)

\* (mutated: the whole chain is reverted)
OnBest_GenesisOnly(b) == b = Genesis

\* BestIndex(b.Height) == b
OnBest(b) == Height(b) < Len(best) /\ best[Height(b) + 1] = b

\* Follow the parents of the base until they meet the best chain.
Rebase ==
  /\ job.pc = "rebase"
  /\ job' = IF OnBest(job.at)
            THEN [job EXCEPT !.pc = "revert"]
            ELSE [job EXCEPT !.rebase = Append(@, job.at), !.at = Parent[job.at]]
  /\ UNCHANGED <<store, cs, chains, subs, early, lost>>

\* (mutated: revertTip forgets RewindBest)
RevertTip_NoRewind ==
  /\ job.pc = "revert" /\ cs # job.at
  /\ NotifyRevert
  /\ cs' = Parent[cs]
  /\ UNCHANGED <<store, chains, subscribed, committed, early, job, lost>>

\* revertTip, until the tip is the branch point.
RevertTip ==
  /\ job.pc = "revert" /\ cs # job.at
  /\ NotifyRevert
  /\ best' = ButLast(best)
  /\ cs' = Parent[cs]
  /\ UNCHANGED <<entries, flushed, chains, subscribed, committed, early, job, lost>>

BranchReached ==
  /\ job.pc = "revert" /\ cs = job.at
  /\ job' = [job EXCEPT !.pc = "apply"]
  /\ UNCHANGED <<store, cs, chains, subs, early, lost>>

\* (mutated: after the rebase path, the header at the height of the tip)
NextIndex_SameHeight ==
  IF job.rebase # <<>> THEN job.rebase[Len(job.rebase)]
                       ELSE ScIndex(Current, Height(cs))

\* The next index to apply: the rebase path from its end, then the headers.
NextIndex ==
  IF job.rebase # <<>> THEN job.rebase[Len(job.rebase)]
                       ELSE ScIndex(Current, Height(cs) + 1)
HasNext == job.rebase # <<>> \/ HasIndex(Current, Height(cs) + 1)

ApplyTip ==
  /\ job.pc = "apply" /\ cs # Current.ts
  /\ HasNext /\ NextIndex \in entries /\ Parent[NextIndex] = cs
  /\ ExtendTo(NextIndex, entries)
  /\ job' = [job EXCEPT !.rebase = IF @ # <<>> THEN ButLast(@) ELSE @]
  /\ UNCHANGED <<chains, early, lost>>

\* (mutated: the error does not end the loop)
ReorgFails_Retries ==
  /\ job.pc = "apply" /\ cs # Current.ts
  /\ HasNext /\ NextIndex \notin entries
  /\ lost' = TRUE
  /\ UNCHANGED <<store, cs, chains, subs, early, job>>

\* applyTip finds no Checkpoint: AddBlocks returns "reorg failed".
ReorgFails ==
  /\ job.pc = "apply" /\ cs # Current.ts
  /\ HasNext /\ NextIndex \notin entries
  /\ job' = Idle
  /\ lost' = TRUE
  /\ UNCHANGED <<store, cs, chains, subs, early>>

\* sc.Index reads past the last header.  (applyTip's own panic, on a block
\* that does not attach, is what ReorgAttaches excludes.)
ReorgPanics ==
  /\ job.pc = "apply" /\ cs # Current.ts
  /\ ~HasNext
  /\ job' = [Idle EXCEPT !.pc = "panic"]
  /\ lost' = TRUE
  /\ UNCHANGED <<store, cs, chains, subs, early>>

ReorgDone ==
  /\ job.pc = "apply" /\ cs = Current.ts
  /\ job' = [job EXCEPT !.pc = "blocks", !.todo = Tail(@),
                             !.rebase = <<>>, !.at = Genesis]
  /\ UNCHANGED <<store, cs, chains, subs, early, lost>>

-----------------------------------------------------------------------------
(* The other calls, and time.                                              *)

\* AddTipBlock, for a block that attaches to the tip (any other one is only
\* classified, and changes nothing).  The scratch chains are not consulted.
AddTipBlock(b) ==
  /\ job.pc = "idle"
  /\ b \notin early
  /\ ValidateBlock(cs, b)
  /\ ExtendTo(b, entries \cup {b})
  /\ UNCHANGED <<chains, early, job, lost>>

\* reorgPath meets at c: the last block that both chains have in common.
IsFork(c, a, b) ==
  /\ OnChain(c, a) /\ OnChain(c, b)
  /\ \A d \in Blocks : OnChain(d, a) /\ OnChain(d, b) => Height(d) <= Height(c)

\* AddSubscriber(s, t): a subscriber that stopped at t is reverted to the
\* fork and brought to the tip; the last update it is given may be committed.
AddSubscriber(s, t) ==
  /\ job.pc = "idle"
  /\ s \notin subscribed /\ t \in entries
  /\ \E c \in Blocks :
       /\ IsFork(c, t, cs)
       /\ view' = [view EXCEPT ![s] = SubSeq(ChainOf[t], 1, Height(c) + 1) \o PathFrom(c, cs)]
       /\ committed' = [committed EXCEPT ![s] = IF c # cs THEN cs ELSE t]
  /\ subscribed' = subscribed \cup {s}
  /\ UNCHANGED <<store, cs, chains, early, job, lost>>

\* The clock passes: a block's timestamp comes within two hours of now.
ClockPasses(b) ==
  /\ b \in early
  /\ early' = early \ {b}
  /\ UNCHANGED <<store, cs, chains, subs, job, lost>>

-----------------------------------------------------------------------------
JobStep ==
  \/ RefuseBlock \/ FinishBlocks
  \/ \E b \in Blocks : KeepValidating(b) \/ ApplyToTip(b) \/ StartReorg(b)
  \/ Rebase \/ RevertTip \/ BranchReached
  \/ ApplyTip \/ ReorgFails \/ ReorgPanics \/ ReorgDone

Next ==
  \/ \E p, t \in Blocks : AddHeaders(p, t) \/ AddBlocks(p, t)
  \/ \E b \in Blocks : AddTipBlock(b) \/ ClockPasses(b)
  \/ \E s \in Subscribers, t \in Blocks : AddSubscriber(s, t)
  \/ JobStep

\* A call that has begun runs to its return: the goroutine that made it holds
\* the lock and is scheduled.  Nothing makes anyone call.
Spec == Init /\ [][Next]_vars /\ WF_vars(JobStep)
-----------------------------------------------------------------------------
(* Properties.                                                             *)

\* Types, and the sizes the bounds allow.
TypeOK ==
  /\ entries \subseteq Blocks /\ best \in Seq(Blocks)
  /\ flushed \in [tip : Blocks, entries : SUBSET Blocks]
  /\ cs \in Blocks
  /\ chains \in Seq(ScratchChains)
  /\ subscribed \subseteq Subscribers
  /\ view \in [Subscribers -> Seq(Blocks)]
  /\ committed \in [Subscribers -> Blocks]
  /\ early \subseteq Children
  /\ job \in Jobs
  /\ job.pc \notin {"idle", "panic"} => job.chain \in DOMAIN chains
  /\ lost \in BOOLEAN

\* What ExtendBest and RewindBest leave in the store is at every step of a
\* reorg the chain of m.cs, and its blocks are all stored: BestIndex, Header
\* and Checkpoint never disagree with Tip.
StoreMatchesTip == best = ChainOf[cs] /\ cs \in entries

\* Every stored block was validated, on a stored parent: whichever scratch
\* chain, AddTipBlock or reorg put it there, no chain with an invalid block
\* can be built from the store.
StoredChainsValid ==
  \A b \in entries : b # Genesis => b \in HeaderOK \cap BodyOK /\ Parent[b] \in entries

\* The reverts and updates a subscriber has been given, in that order, make
\* up the best chain, through reorgs, failed reorgs and late subscriptions.
SubscribersFollow == \A s \in subscribed : view[s] = best

\* "Tip returns the tip of the best known valid chain": as long as no reorg has
\* been abandoned half way, no stored block has more work than the tip when no
\* call is running.
TipIsBestUnlessLost ==
  ~lost /\ job.pc = "idle" => \A b \in entries : TotalWork[b] <= TotalWork[cs]

\* "ApplyBlock: the block's validated header must already exist in the
\* chain": the blocks applied to a scratch chain are those of its headers.
BlocksMatchHeaders ==
  \A i \in DOMAIN chains : OnChain(chains[i].ts, chains[i].hs)

\* applyTip's assertion: reorgTo hands it only blocks that attach to the tip.
ReorgAttaches ==
  job.pc = "apply" /\ cs # Current.ts /\ HasNext /\ NextIndex \in entries
    => Parent[NextIndex] = cs

\* An update that may be committed is an update of a block, and of all the
\* blocks below it, that the store has made durable.
MayCommitMeansFlushed ==
  [][\A s \in subscribed : committed'[s] # committed[s] =>
       committed'[s] \in flushed'.entries /\ flushed'.tip = committed'[s]]_vars

\* "revert to branch point": a reorg reverts no block below the base of the
\* chain it goes to (those of its headers it may revert and apply again), and
\* every other change of the tip is to a block on top of it.
RevertsToBranchPoint ==
  [][cs' # cs => IF job.pc = "revert"
                 THEN Parent[cs] = cs' /\ ~OnChain(cs, Current.base)
                 ELSE cs' # Genesis /\ Parent[cs'] = cs]_vars

\* The Manager is a HeaviestChain.  While a reorg runs, the tip it has
\* decided on is the block whose validation started it.
Reorging == job.pc \in {"rebase", "revert", "apply"}
Decided  == IF Reorging THEN Current.ts ELSE cs

Heaviest == INSTANCE HeaviestChain WITH known <- entries, tip <- Decided

\* However many calls, forks and steps it takes, blocks become the tip by the
\* rule of the abstract specification.
ImplementsHeaviestChain == Heaviest!Spec

\* The rebase, revert and apply loops of reorgTo end: AddBlocks returns.
CallsReturn == job.pc # "idle" ~> job.pc \in {"idle", "panic"}

-----------------------------------------------------------------------------
(* What the code's comments say and TLC refutes.                           *)

\* "Tip returns the tip of the best known valid chain": no stored block has
\* more work than the tip when no call is running, failed reorgs or not.
TipIsBest == job.pc = "idle" => \A b \in entries : TotalWork[b] <= TotalWork[cs]

\* "the chain may already contain some of the supplied blocks; ignore the
\* ones we already have": AddBlocks copes with blocks it has seen.
KnownBlocksIgnored == job.pc # "panic"

\* "if we haven't flushed, tell the subscriber that it must not commit chain
\* data to disk": what a subscriber was allowed to commit is durable.
CommittedIsDurable == \A s \in subscribed : committed[s] \in flushed.entries
=============================================================================
