----------------------------- MODULE HeaderSync -----------------------------
(***************************************************************************)
(* Syncer.syncToTarget and the chain.Manager it drives: the headers of a   *)
(* peer's best chain are asked for batch by batch, from the highest index  *)
(* of a history that the peer knows, and whenever they make a ScratchChain *)
(* the heaviest one its blocks are downloaded and added.                   *)
(*                                                                         *)
(* The peer is an honest one: it answers from its own best chain, which    *)
(* may change between two answers.  syncLoop runs one syncToTarget at a    *)
(* time; the other callers of the Manager (requestLoop and the miner) add  *)
(* tip blocks while it is not inside a call of its own.                    *)
(*                                                                         *)
(* BlockDownload models how the chunks of a chain reach AddBlocks in their *)
(* order; here they arrive one after the other, or the download fails.     *)
(***************************************************************************)
EXTENDS ChainManager

CONSTANTS
  PeerTips,        \* best chains that peers have when a sync begins
  PeerMoves,       \* a relation: how the best chain of a peer may change
  TipBlocks,       \* blocks that requestLoop or the miner may add
  MaxHeaders,      \* headers in an answer (2000 in handleMsgGetHeaders)
  BlocksPerRequest,
  MaxFailures      \* bound: requests and downloads that fail

ASSUME HeaderSyncAssumption ==
  /\ PeerTips \subseteq Blocks
  /\ PeerMoves \subseteq Blocks \X Blocks
  /\ TipBlocks \subseteq Children
  /\ {MaxHeaders, BlocksPerRequest} \subseteq 1 .. MaxBatch
  /\ MaxFailures \in Nat

VARIABLES
  remote, \* the tip of the target peer's best chain
  sync,   \* where syncToTarget is
  failures, \* requests and downloads that have failed
  tangled \* history: headers were sent that make tracked chains overlap

syncVars == <<vars, remote, sync, failures, tangled>>

(***************************************************************************)
(* sync.pc       idle, ask, add (headers to add), download, waiting (for a *)
(*               response to no request), stopped (setErr)                 *)
(* sync.history  the indices the next MsgGetHeaders names                  *)
(* sync.from     the headers received: those above from, up to to          *)
(* sync.sc       the place of sc in chains, 0 when it was discarded        *)
(* sync.scTip    sc.Tip()                                                  *)
(* sync.next     the height up to which its blocks were given to AddBlocks *)
(* sync.end      history: how the last call of syncToTarget ended          *)
(***************************************************************************)
Syncs == [pc      : {"idle", "ask", "add", "download", "waiting", "stopped"},
          history : SUBSET Blocks,
          from    : Blocks, to : Blocks,
          sc      : Nat, scTip : Blocks, next : Nat,
          end     : {"none", "synced", "failed", "orphan"}]

Returned(how) ==
  [pc |-> "idle", history |-> {}, from |-> Genesis, to |-> Genesis,
   sc |-> 0, scTip |-> Genesis, next |-> 0, end |-> how]

SyncInit == Init /\ remote = Genesis /\ sync = Returned("none") /\ failures = 0 /\ tangled = FALSE

-----------------------------------------------------------------------------
(* Which headers are asked for, and which are sent.                        *)

\* (mutated: the jumps begin after the first index)
HistOffset_JumpsEarly(i) == 2 ^ i - 1

\* histHeight: how far below the tip the i-th index of a history is.
HistOffset(i) == IF i < 10 THEN i ELSE 7 + 2 ^ (i - 8)

\* Manager.History: the last ten indices, then ever fewer, down to genesis.
History(tip) ==
  {Genesis} \cup {IndexAt(tip, Height(tip) - HistOffset(i)) :
                    i \in {j \in 0 .. Height(tip) : HistOffset(j) <= Height(tip)}}

\* (mutated: the history is searched from the genesis block up)
AttachPoint_Lowest(history, tip) ==
  LET common == {Genesis} \cup {b \in history : OnChain(b, tip)}
  IN  CHOOSE b \in common : \A c \in common : Height(b) <= Height(c)

\* handleMsgGetHeaders searches the history from its highest index down:
\* the first one on the best chain, or else genesis.
AttachPoint(history, tip) ==
  LET common == {Genesis} \cup {b \in history : OnChain(b, tip)}
  IN  CHOOSE b \in common : \A c \in common : Height(c) <= Height(b)

\* HeadersForHistory: the last of the headers sent, or the attach point.
LastHeader(a, tip) ==
  IndexAt(tip, IF Height(tip) < Height(a) + MaxHeaders THEN Height(tip)
               ELSE Height(a) + MaxHeaders)

\* The last block that the chains of a and t have in common.
Fork(a, t) ==
  IndexAt(a, Cardinality({h \in 1 .. Height(a) : h <= Height(t) /\ IndexAt(a, h) = IndexAt(t, h)}))

\* The chain that ends in t has some of the headers of sc whose blocks are not
\* validated, and then goes another way.
LeavesHalfWay(sc, t) ==
  LET c == Fork(sc.hs, t) IN c \notin {sc.hs, t} /\ Height(c) > Height(sc.ts)

\* After the headers above p up to t two tracked chains share some of them: they
\* leave a chain half way, or extend two chains (and only the first one grows).
Tangles(p, t) ==
  \/ \E i \in DOMAIN chains : LeavesHalfWay(chains[i], t)
  \/ \E i, j \in Extends(p, t) : i # j

-----------------------------------------------------------------------------
(* syncToTarget.                                                           *)

\* The Manager is not inside a call.
Free == job.pc = "idle"

\* A connection ends or a peer does not have what it is asked for.
Fails == failures < MaxFailures /\ failures' = failures + 1

\* syncLoop begins to sync with a peer: History is what we have.
Begin(t) ==
  /\ sync.pc = "idle" /\ Free
  /\ remote' = t
  /\ sync' = [Returned("none") EXCEPT !.pc = "ask", !.history = History(cs)]
  /\ UNCHANGED <<vars, failures, tangled>>

\* getHeaders: no headers are left, and the sync is over,
NoHeaders ==
  /\ sync.pc = "ask"
  /\ AttachPoint(sync.history, remote) = remote
  /\ sync' = Returned("synced")
  /\ UNCHANGED <<vars, remote, failures, tangled>>

\* or there are some,
SomeHeaders ==
  /\ sync.pc = "ask"
  /\ LET a == AttachPoint(sync.history, remote) IN
     /\ a # remote
     /\ sync' = [sync EXCEPT !.pc = "add", !.from = a, !.to = LastHeader(a, remote)]
     /\ tangled' = (tangled \/ Tangles(a, LastHeader(a, remote)))
  /\ UNCHANGED <<vars, remote, failures>>

\* or the connection has ended.
NoAnswer ==
  /\ sync.pc = "ask" /\ Fails
  /\ sync' = Returned("failed")
  /\ UNCHANGED <<vars, remote, tangled>>

\* (mutated: after a nil chain the same history is sent again)
AskNext_SameHistory(b) == [sync EXCEPT !.pc = "ask"]

\* Ask for what follows the index b.
AskNext(b) ==
  [Returned("none") EXCEPT !.pc = "ask", !.history = {b}]

\* (mutated: the blocks of all its headers are downloaded)
Download_FromBase(i) ==
  [sync EXCEPT !.pc    = IF Height(chains'[i].ts) = Height(chains'[i].hs)
                         THEN "waiting" ELSE "download",
               !.sc    = i,
               !.scTip = chains'[i].hs,
               !.next  = Height(chains'[i].base)]

\* getBlocksForChain(sc): sc.Unvalidated() are the indices above the height of
\* ValidTip.  If there are none, it waits for a response to no request.
Download(i) ==
  [sync EXCEPT !.pc    = IF Height(chains'[i].ts) = Height(chains'[i].hs)
                         THEN "waiting" ELSE "download",
               !.sc    = i,
               !.scTip = chains'[i].hs,
               !.next  = Height(chains'[i].ts)]

\* (mutated: what counts is the work of the blocks it has, not of its headers)
TakeChain_ByBlocks(i) ==
  sync' = IF TotalWork[chains'[i].ts] > TotalWork[cs] THEN Download(i) ELSE AskNext(sync.to)

\* AddHeaders returns the chain i if it is the heaviest, or else nil.
TakeChain(i) ==
  sync' = IF TotalWork[chains'[i].hs] > TotalWork[cs] THEN Download(i) ELSE AskNext(sync.to)

\* AddHeaders: the last header is stored already: nil.
HeadersStored ==
  /\ sync.pc = "add" /\ Free
  /\ sync.to \in entries
  /\ sync' = AskNext(sync.to)
  /\ UNCHANGED <<vars, remote, failures, tangled>>

\* It is the header of a chain that is tracked already.
HeadersTracked ==
  /\ sync.pc = "add" /\ Free
  /\ sync.to \notin entries
  /\ \E i \in DOMAIN chains :
       /\ Contains(chains[i], sync.to)
       /\ \A j \in 1 .. i - 1 : ~Contains(chains[j], sync.to)
       /\ UNCHANGED vars
       /\ TakeChain(i)
  /\ UNCHANGED <<remote, failures, tangled>>

\* The headers extend a chain or begin one.  If one of them is invalid or ahead
\* of our clock, those before it stay and the whole Syncer stops.
HeadersAdded ==
  /\ sync.pc = "add" /\ Free
  /\ AddHeaders(sync.from, sync.to) /\ chains' # chains
  /\ LET i == CHOOSE j \in DOMAIN chains' : j \notin DOMAIN chains \/ chains'[j] # chains[j]
     IN  IF chains'[i].hs = sync.to THEN TakeChain(i)
                                    ELSE sync' = [sync EXCEPT !.pc = "stopped"]
  /\ UNCHANGED <<remote, failures, tangled>>

\* The first header of an extension is refused: the chain stays as it was.
HeadersRefused ==
  /\ sync.pc = "add" /\ Free
  /\ ~Known(sync.to)
  /\ \E i \in Extends(sync.from, sync.to) :
       /\ \A j \in Extends(sync.from, sync.to) : i <= j
       /\ ~Acceptable(IndexAt(sync.to, Height(chains[i].hs) + 1))
  /\ sync' = [sync EXCEPT !.pc = "stopped"]
  /\ UNCHANGED <<vars, remote, failures, tangled>>

\* They attach neither to a chain nor to the store: ErrUnknownIndex.
HeadersOrphaned ==
  /\ sync.pc = "add" /\ Free
  /\ ~Known(sync.to) /\ Extends(sync.from, sync.to) = {} /\ sync.from \notin entries
  /\ sync' = Returned("orphan")
  /\ UNCHANGED <<vars, remote, failures, tangled>>

-----------------------------------------------------------------------------
(* getBlocksForChain and the AddBlocks calls it makes.                     *)

\* The height of the last block of the next chunk.
ChunkEnd ==
  IF Height(sync.scTip) < sync.next + BlocksPerRequest THEN Height(sync.scTip)
  ELSE sync.next + BlocksPerRequest

Downloading == sync.pc = "download" /\ Free

\* A chunk arrives, and AddBlocks finds the chain it belongs to,
ChunkArrives ==
  /\ Downloading
  /\ sync.next # Height(sync.scTip)
  /\ AddBlocks(IndexAt(sync.scTip, sync.next), IndexAt(sync.scTip, ChunkEnd))
  /\ sync' = [sync EXCEPT !.next = ChunkEnd]
  /\ UNCHANGED <<remote, failures, tangled>>

\* or does not find one.
ChunkOrphaned ==
  /\ Downloading
  /\ sync.next # Height(sync.scTip)
  /\ Accepting(IndexAt(sync.scTip, sync.next + 1)) = {}
  /\ sync' = Returned("orphan")
  /\ UNCHANGED <<vars, remote, failures, tangled>>

\* The download fails: no peer is left that has the blocks.
DownloadFails ==
  /\ Downloading /\ Fails
  /\ sync.next # Height(sync.scTip)
  /\ sync' = Returned("failed")
  /\ UNCHANGED <<vars, remote, tangled>>

\* AddBlocks adds the blocks of the chunk, with any reorg they call for,
AddingBlocks ==
  /\ sync.pc = "download"
  /\ \/ job.todo # <<>> /\ LET b == Head(job.todo)
                            IN  KeepValidating(b) \/ ApplyToTip(b) \/ StartReorg(b)
     \/ Rebase \/ RevertTip \/ BranchReached \/ ApplyTip \/ ReorgDone
  /\ UNCHANGED <<remote, sync, failures, tangled>>

\* or fails half way.
AddBlocksFails ==
  /\ sync.pc = "download"
  /\ RefuseBlock \/ ReorgFails \/ ReorgPanics
  /\ sync' = Returned("failed")
  /\ UNCHANGED <<remote, failures, tangled>>

\* The chain it discards may come before ours in chains, or be ours.
AddBlocksReturns ==
  /\ sync.pc = "download"
  /\ FinishBlocks
  /\ sync' = [sync EXCEPT !.sc = IF Len(chains') = Len(chains) THEN @
                                 ELSE IF job.chain = @ THEN 0
                                 ELSE IF job.chain < @ THEN @ - 1 ELSE @]
  /\ UNCHANGED <<remote, failures, tangled>>

\* sc.FullyValidated(): it was discarded, or it is a chain that AddBlocks left.
ChainDone == sync.sc # 0 => FullyValidated(chains[sync.sc])

\* All its blocks are there: ask for the headers above them.
DownloadDone ==
  /\ Downloading /\ ChainDone
  /\ sync' = AskNext(sync.scTip)
  /\ UNCHANGED <<vars, remote, failures, tangled>>

\* Every chunk was handed over, and the chain is not done.
NothingToWaitFor ==
  /\ Downloading /\ ~ChainDone
  /\ sync.next = Height(sync.scTip)
  /\ sync' = [sync EXCEPT !.pc = "waiting"]
  /\ UNCHANGED <<vars, remote, failures, tangled>>

-----------------------------------------------------------------------------
(* What goes on around it.                                                 *)

\* A block is mined or relayed.
TipBlock(b) ==
  /\ AddTipBlock(b)
  /\ UNCHANGED <<remote, sync, failures, tangled>>

\* The target peer's best chain changes.
PeerMovesOn ==
  /\ sync.pc # "idle"
  /\ \E t \in {m[2] : m \in {n \in PeerMoves : n[1] = remote}} : remote' = t
  /\ UNCHANGED <<vars, sync, failures, tangled>>

SyncStep ==
  \/ NoHeaders \/ SomeHeaders \/ NoAnswer
  \/ HeadersStored \/ HeadersTracked \/ HeadersAdded \/ HeadersRefused \/ HeadersOrphaned
  \/ ChunkArrives \/ ChunkOrphaned \/ DownloadFails
  \/ AddingBlocks \/ AddBlocksFails \/ AddBlocksReturns \/ DownloadDone \/ NothingToWaitFor

SyncNext ==
  \/ \E t \in PeerTips : Begin(t)
  \/ \E b \in TipBlocks : TipBlock(b)
  \/ PeerMovesOn
  \/ SyncStep

\* A request is answered or its connection ends, and a goroutine that may go on
\* does.  Peers need not move, and nothing makes syncLoop begin.
SyncSpec == SyncInit /\ [][SyncNext]_syncVars /\ WF_syncVars(SyncStep)

-----------------------------------------------------------------------------
(* Properties.                                                             *)

SyncTypeOK ==
  /\ remote \in Blocks /\ sync \in Syncs
  /\ failures \in 0 .. MaxFailures /\ tangled \in BOOLEAN

\* "beginning with the last 10, and subsequently spaced exponentionally farther
\* apart": whichever chain the peer has, the headers it sends begin at the fork
\* if that is one of the last ten blocks, and otherwise less than as far again
\* below the fork as the fork is below our tip.
HistorySpans ==
  sync.pc = "ask" /\ Cardinality(sync.history) > 1 =>
    LET tip == CHOOSE b \in sync.history : \A c \in sync.history : Height(c) <= Height(b)
    IN  \A t \in Blocks :
          LET toFork   == Height(tip) - Height(Fork(tip, t))
              toAttach == Height(tip) - Height(AttachPoint(sync.history, t))
          IN  toAttach <= IF toFork < 10 THEN toFork ELSE 2 * toFork - 1

\* A peer that answers from its own best chain is never taken for one with
\* unknown headers, no download of its blocks fails in the Manager or waits for
\* ever, and no reorg to them is given up, whatever that peer, the miner and
\* earlier failed downloads do meanwhile: as long as no headers were sent that
\* leave the unvalidated part of a tracked chain, or extend two tracked chains
\* at once.  (Then all four happen.)
UntangledSucceeds ==
  ~tangled => ~lost /\ sync.end # "orphan" /\ sync.pc # "waiting" /\ job.pc # "panic"

\* What holds of syncToTarget in every state: the types, the spacing of the
\* histories that are sent (History, HeadersForHistory), and the success of
\* untangled downloads.
HeaderSyncInv == SyncTypeOK /\ HistorySpans /\ UntangledSucceeds

\* When the peer has no more headers for us, its best chain does not have more
\* work than ours: what syncToTarget set out to do is done, whether AddHeaders
\* returned chains or nil on the way, unless a reorg was given up.
EndsSynced ==
  [][sync.pc = "ask" /\ sync'.end = "synced" /\ ~lost => TotalWork[remote] <= TotalWork[cs]]_syncVars

\* syncToTarget returns, or stops the Syncer: its loop does not ask for the same
\* headers for ever, also when the peer's best chain changes on the way.  It can
\* wait for ever once headers have made tracked chains overlap.
SyncReturns == sync.pc # "idle" ~> sync.pc \in {"idle", "stopped"} \/ tangled
=============================================================================
