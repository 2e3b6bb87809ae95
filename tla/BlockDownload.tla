---------------------------- MODULE BlockDownload ----------------------------
(***************************************************************************)
(* getBlocksForChain, in Syncer.syncToTarget: the blocks of a ScratchChain *)
(* are downloaded in chunks by several workers, from all the peers that    *)
(* are connected when it starts, and added to the chain in their order.    *)
(*                                                                         *)
(* A chunk is a number.  The chain is the number of its first chunks that  *)
(* have all of their blocks.  The program ends when a worker panics.       *)
(***************************************************************************)
EXTENDS Integers, FiniteSets, Sequences, SequencesExt

CONSTANTS
  MaxChunks,  \* bound: chunks of a chain
  NumWorkers, \* numWorkers, and the capacity of reqChan and respChan
  BufLen,     \* len(buf)
  Peers,
  NoPeer,
  Answers,    \* what a peer may answer (see Got)
  PeersFail,  \* may a connection end?
  WrongTypes  \* may it end because the answer was of the wrong type?

\* The blocks requested, the first of them, no block, a block that is not valid.
Got == {"full", "some", "empty", "invalid"}

ASSUME BlockDownloadAssumption ==
  /\ {MaxChunks, NumWorkers, BufLen} \subseteq Nat \ {0}
  /\ Peers # {} /\ NoPeer \notin Peers
  /\ Answers \subseteq Got
  /\ {PeersFail, WrongTypes} \subseteq BOOLEAN

VARIABLES
  chunks,  \* sc.Unvalidated(), in chunks of blocksPerRequest
  pc,      \* of getBlocksForChain: in its loop, or how it returned
  peers,   \* peers: those not known to have failed
  alive,   \* the peers whose connection has no error
  next,    \* chunkIndex
  reqs,    \* reqChan
  working, \* the requests of the workers, with what getBlocks returned
  resps,   \* respChan
  buf,
  cursor,
  valid    \* sc: the chunks validated

vars == <<chunks, pc, peers, alive, next, reqs, working, resps, buf, cursor, valid>>

Req(c, p)    == [chunk |-> c, peer |-> p]
Resp(r, got) == [chunk |-> r.chunk, peer |-> r.peer, got |-> got]

\* A slot of buf that is nil.  The answer of the wrong type leaves nil as well.
Nil == [got |-> "nil"]

Init ==
  /\ chunks \in 1 .. MaxChunks
  /\ pc = "loop"
  /\ peers = Peers /\ alive = Peers
  /\ next = IF chunks < NumWorkers THEN chunks ELSE NumWorkers
  /\ \E random \in [1 .. next -> Peers] :
       reqs = [i \in 1 .. next |-> Req(i - 1, random[i])]
  /\ working = {} /\ resps = <<>>
  /\ buf = [i \in 0 .. BufLen - 1 |-> Nil]
  /\ cursor = 0 /\ valid = 0

-----------------------------------------------------------------------------
(* The workers, and the peers they call.                                   *)

\* A worker takes a request: it calls the peer, which panics if there is none.
\* A call of a peer that has failed does not end (RPC after setErr).
TakeRequest ==
  /\ reqs # <<>> /\ Cardinality(working) < NumWorkers
  /\ reqs' = Tail(reqs)
  /\ IF Head(reqs).peer = NoPeer
       THEN pc' = "panic" /\ UNCHANGED working
       ELSE working' = working \cup {Resp(Head(reqs), "waiting")} /\ UNCHANGED pc
  /\ UNCHANGED <<chunks, peers, alive, next, resps, buf, cursor, valid>>

Calling(p) == {w \in working : w.peer = p /\ w.got = "waiting"}

Answer(w) ==
  /\ w.peer \in alive /\ w \in Calling(w.peer)
  /\ \E got \in Answers : working' = (working \ {w}) \cup {Resp(w, got)}
  /\ UNCHANGED <<chunks, pc, peers, alive, next, reqs, resps, buf, cursor, valid>>

\* The connection ends, and with it every call, with an error; but when an
\* answer of the wrong type is the reason, this call has none, and no blocks.
PeerFails(p) ==
  /\ PeersFail /\ p \in alive
  /\ alive' = alive \ {p}
  /\ \E wrong \in {{}} \cup (IF WrongTypes THEN {{w} : w \in Calling(p)} ELSE {}) :
       working' = (working \ Calling(p))
                    \cup {Resp(w, IF w \in wrong THEN "nil" ELSE "error") : w \in Calling(p)}
  /\ UNCHANGED <<chunks, pc, peers, next, reqs, resps, buf, cursor, valid>>

Respond(w) ==
  /\ w \in working /\ w.got # "waiting"
  /\ resps' = Append(resps, w)
  /\ working' = working \ {w}
  /\ UNCHANGED <<chunks, pc, peers, alive, next, reqs, buf, cursor, valid>>

-----------------------------------------------------------------------------
(* The loop of getBlocksForChain.                                          *)

\* (mutated: the peers that are being called are not used again either)
LeftAfter_Busy(r) == peers \ ({r.peer} \cup {w.peer : w \in working})

\* (mutated: the loop goes on to request the next chunk as well)
Retried_AndNext(r, p) == reqs \o <<Req(r.chunk, p), Req(r.chunk + 1, NoPeer)>>

\* (mutated: the chunk requested last is requested again)
Retried_Last(r, p) == Append(reqs, Req(next - 1, p))

\* "don't use this peer again", "retry this chunk with a different peer"
LeftAfter(r) == peers \ {r.peer}
Retried(r, p) == Append(reqs, Req(r.chunk, p))
Retry ==
  /\ pc = "loop" /\ resps # <<>> /\ Head(resps).got = "error"
  /\ resps' = Tail(resps)
  /\ peers' = LeftAfter(Head(resps))
  /\ IF peers' = {}
       THEN pc' = "no peers left" /\ UNCHANGED reqs
       ELSE (\E p \in peers' : reqs' = Retried(Head(resps), p)) /\ UNCHANGED pc
  /\ UNCHANGED <<chunks, alive, next, working, buf, cursor, valid>>

\* Manager.AddBlocks(r): the blocks have to follow the valid ones.
AddBlocks(sc, r) ==
  IF r.got = "empty" \/ ~sc.ok                    THEN sc
  ELSE IF r.got = "invalid" \/ r.chunk # sc.valid THEN [sc EXCEPT !.ok = FALSE]
  ELSE [sc EXCEPT !.valid = IF r.got = "full" THEN @ + 1 ELSE @]

\* The chain when the chunks drained have been added to it, one after the other.
Added(drained) == FoldLeft(AddBlocks, [valid |-> valid, ok |-> TRUE], drained)

\* (mutated: "if" in place of "for")
Drained_One(b) == IF b[cursor % BufLen] # Nil THEN <<cursor % BufLen>> ELSE <<>>

\* (mutated: every slot that is not nil)
Drained_Gaps(b) ==
  SelectSeq([i \in 1 .. BufLen |-> (cursor + i - 1) % BufLen], LAMBDA k : b[k] # Nil)

\* The slots that can be drained from buf: from cursor on, until one is nil.
Drained(b) ==
  LET full == {n \in 0 .. BufLen : \A k \in 0 .. n - 1 : b[(cursor + k) % BufLen] # Nil}
      num  == CHOOSE n \in full : \A k \in full : k <= n
  IN  [i \in 1 .. num |-> (cursor + i - 1) % BufLen]

\* (mutated: the last chunk need not be there)
FullyValidated_ButOne(v) == v + 1 >= chunks

FullyValidated(v) == v = chunks

\* "add blocks to circular buffer and drain as much as we can", and "request
\* the next chunk", for which the code names no peer.
Store ==
  /\ pc = "loop" /\ resps # <<>> /\ Head(resps).got # "error"
  /\ resps' = Tail(resps)
  /\ LET r      == Head(resps)
         stored == [buf EXCEPT ![r.chunk % BufLen] = IF r.got = "nil" THEN Nil ELSE r]
         slots  == Drained(stored)
         sc     == Added([i \in DOMAIN slots |-> stored[slots[i]]])
     IN  /\ buf'    = [k \in DOMAIN buf |-> IF k \in Range(slots) THEN Nil ELSE stored[k]]
         /\ cursor' = cursor + Len(slots)
         /\ valid'  = sc.valid
         /\ \/ /\ ~sc.ok
               /\ pc' = "refused"
               /\ UNCHANGED <<next, reqs>>
            \/ /\ sc.ok /\ FullyValidated(valid')
               /\ pc' = "done"
               /\ UNCHANGED <<next, reqs>>
            \/ /\ sc.ok /\ ~FullyValidated(valid') /\ next < chunks
               /\ reqs' = Append(reqs, Req(next, NoPeer))
               /\ next' = next + 1
               /\ UNCHANGED pc
            \/ /\ sc.ok /\ ~FullyValidated(valid') /\ next >= chunks
               /\ UNCHANGED <<pc, next, reqs>>
  /\ UNCHANGED <<chunks, peers, alive, working>>

-----------------------------------------------------------------------------
Running == pc # "panic"

Next == Running /\
  (\/ TakeRequest \/ Retry \/ Store
   \/ \E w \in working : Answer(w) \/ Respond(w)
   \/ \E p \in Peers : PeerFails(p))

\* The goroutines are scheduled, and a peer that has not failed answers.
Fairness ==
  /\ WF_vars(Running /\ TakeRequest)
  /\ WF_vars(Running /\ Retry) /\ WF_vars(Running /\ Store)
  /\ \A c \in 0 .. MaxChunks - 1 :
       /\ WF_vars(Running /\ \E w \in working : w.chunk = c /\ Answer(w))
       /\ WF_vars(Running /\ \E w \in working : w.chunk = c /\ Respond(w))

Spec == Init /\ [][Next]_vars /\ Fairness
-----------------------------------------------------------------------------
(* Properties.                                                             *)

Chunks == 0 .. chunks - 1

Ended == Got \cup {"nil", "error"}

TypeOK ==
  /\ chunks \in 1 .. MaxChunks
  /\ pc \in {"loop", "done", "refused", "no peers left", "panic"}
  /\ peers \subseteq Peers /\ alive \subseteq Peers
  /\ next \in 0 .. chunks
  /\ \A r \in Range(reqs) : r.chunk \in Chunks /\ r.peer \in Peers \cup {NoPeer}
  /\ working \subseteq [chunk : Chunks, peer : Peers, got : Ended \cup {"waiting"}]
  /\ Range(resps) \subseteq [chunk : Chunks, peer : Peers, got : Ended]
  /\ buf \in [0 .. BufLen - 1 -> [chunk : Chunks, peer : Peers, got : Got] \cup {Nil}]
  /\ cursor \in 0 .. chunks
  /\ valid \in 0 .. chunks

\* The channels are made for one message per worker: no send on reqChan, where
\* the loop would wait for the workers, nor on respChan, where they would wait
\* for it, ever finds the channel full.
ChannelRoom == Len(reqs) <= NumWorkers /\ Len(resps) <= NumWorkers

\* In the loop, a chunk is in one place at most, and in none once it is in the
\* chain: no retry and no next request asks for blocks that are under way.
Requested == {r.chunk : r \in Range(reqs)}
Worked    == {w.chunk : w \in working}
Responded == {r.chunk : r \in Range(resps)}
Stored    == {b.chunk : b \in Range(buf) \ {Nil}}
Places    == Requested \cup Worked \cup Responded \cup Stored
EachChunkOnce ==
  pc = "loop" =>
    /\ Places \subseteq valid .. next - 1
    /\ Len(reqs) + Cardinality(working) + Len(resps)
         + Cardinality({k \in DOMAIN buf : buf[k] # Nil}) = Cardinality(Places)

\* The download is given up for want of peers only when each one has failed.
GivenUpLast == pc = "no peers left" => alive = {}

\* The channels are used again for the next batch of headers: when a download
\* has succeeded, no request, call or response of it is left.
NothingLeft == pc = "done" => reqs = <<>> /\ working = {} /\ resps = <<>>

\* The download after any answers, failures and retries: its types, its channels,
\* and where its chunks are.
DownloadInv == TypeOK /\ ChannelRoom /\ EachChunkOnce /\ GivenUpLast /\ NothingLeft

\* What the peers send is what they were asked for, or nothing when they fail.
Whole == \A w \in working : w.got \in {"waiting", "full", "error"}

\* With such peers no chunk is lost, however often its request is retried, and in
\* whatever order the answers come, AddBlocks is given them in that of the chain.
NoneLost ==
  []Whole => []((pc = "loop" => valid .. next - 1 \subseteq Places) /\ pc # "refused")

\* "requesting new chunks as needed until all blocks have been downloaded": as
\* long as no peer fails, for chains that need no further request.
AllDownloaded ==
  chunks <= NumWorkers /\ []Whole /\ [](alive = Peers) => <>(pc = "done")

-----------------------------------------------------------------------------
(* What the code's comments say and TLC refutes.                           *)

\* The same, for any chain: a worker has a peer to call for every request that
\* it takes.  The request for a further chunk names none.
NoPanic == pc # "panic"

\* "retry this chunk with a different peer": the loop ends.  It does not when
\* the last chunk is answered in part, or tried again with a peer that failed.
DownloadEnds == <>(pc # "loop")
=============================================================================
