------------------------------ MODULE SyncLoop ------------------------------
(***************************************************************************)
(* p2p.Syncer: the goroutines Run, requestLoop and syncLoop, which wait on *)
(* Syncer.cond, while peers come, send requests and go, and the Syncer is  *)
(* closed.                                                                 *)
(*                                                                         *)
(* Syncer.mu is held by a goroutine from when it goes on until it waits,   *)
(* and released while syncLoop synchronizes.  What wakes them is often     *)
(* broadcast without the mutex, and then wakes only those already waiting. *)
(* s.peers is a slice: removing peers moves the others within its array,   *)
(* over which syncLoop may be ranging.                                     *)
(***************************************************************************)
EXTENDS Integers, FiniteSets, Sequences

CONSTANTS
  Conns,    \* connections, each made once: a Peer
  Keyings,  \* which connections are to the same node: handshake keys of each
  Tips,     \* indexes that peers may name as their tip
  NoConn,
  Queue,    \* bound: requests in p.in (one more is not told from this many)
  Closes,   \* does anyone call Close?
  MaxFails, \* bound: connections that fail, or are disconnected, by themselves
  Fatal     \* goroutines that may meet a fatal error

ASSUME SyncLoopAssumption ==
  /\ NoConn \notin Conns
  /\ \A k \in Keyings : DOMAIN k = Conns
  /\ Queue \in Nat \ {0}
  /\ Closes \in BOOLEAN /\ MaxFails \in Nat /\ Fatal \subseteq {"request", "sync", "accept"}

Loops == {"run", "request", "sync"}

VARIABLES
  key,    \* of each connection, the key of the node at the other end
  err,    \* is s.err set?
  mu,     \* who holds s.mu: a loop, or "free"
  accept, \* acceptLoop: accepting, stopped by an error, or ended
  pc,     \* where each loop is
  array,  \* the array of the slice s.peers
  len,    \* len(s.peers)
  state,  \* of each connection: dialing, added to s.peers, announced by Broadcast
  failed, \* the peers with an error
  in,     \* len(p.in)
  tip,    \* p.handshake.Tip
  seen,   \* seen, in syncLoop
  target, \* the peer that syncToTarget works with
  range   \* the slice that syncLoop ranges over, and its position there

vars == <<key, err, mu, accept, pc, array, len, state, failed, in, tip, seen, target, range>>

\* The range over s.peers: it has the array of s.peers as long as this is old.
NoRange == [old |-> <<>>, shared |-> FALSE, len |-> 0, at |-> 0]

Init ==
  /\ key \in Keyings
  /\ err = FALSE /\ mu = "free" /\ accept = "accepting"
  /\ pc = [l \in Loops |-> "start"]
  /\ array = <<>> /\ len = 0
  /\ state = [c \in Conns |-> "dialing"]
  /\ failed = {}
  /\ in = [c \in Conns |-> 0]
  /\ tip \in [Conns -> Tips]
  /\ seen = {}
  /\ target = NoConn
  /\ range = NoRange

-----------------------------------------------------------------------------
(* s.peers, s.cond, s.err.                                                 *)

Connected == {array[i] : i \in 1 .. len}
Ranged    == IF range.shared THEN array ELSE range.old

\* (mutated: Signal in place of Broadcast)
Woken_Signal(p) ==
  IF p["request"] = "waiting" THEN [p EXCEPT !["request"] = "woken"]
  ELSE [l \in Loops |-> IF p[l] = "waiting" THEN "woken" ELSE p[l]]

\* Those waiting are woken, and have the mutex to lock before they go on.
Woken(p) == [l \in Loops |-> IF p[l] = "waiting" THEN "woken" ELSE p[l]]

\* The peers not in errs, in their order: rem after each round of the loop.
Remaining(peers, errs) ==
  LET rem[n \in 0 .. Len(peers)] ==
        IF n = 0 THEN <<>>
        ELSE IF peers[n] \in errs THEN rem[n - 1] ELSE Append(rem[n - 1], peers[n])
  IN  rem[Len(peers)]

\* removeDisconnected: they move to the front of the array.
RemoveDisconnected(errs) ==
  LET kept == Remaining(SubSeq(array, 1, len), errs) IN
  /\ array' = [i \in DOMAIN array |-> IF i <= Len(kept) THEN kept[i] ELSE array[i]]
  /\ len' = Len(kept)

\* (mutated: no elements are doubled, too)
Grown_Doubled == 2 * len

\* append(s.peers, c): in the array if it has room, otherwise in one of twice
\* the size, and the old one is left to the range.
Grown == IF len = 0 THEN 1 ELSE 2 * len
Appended(c) ==
  /\ len' = len + 1
  /\ IF len < Len(array)
       THEN array' = [array EXCEPT ![len + 1] = c] /\ UNCHANGED range
       ELSE /\ array' = [i \in 1 .. Grown |->
                           IF i <= len THEN array[i] ELSE IF i = len + 1 THEN c ELSE NoConn]
            /\ range' = IF range.shared THEN [range EXCEPT !.old = array, !.shared = FALSE]
                        ELSE range

\* setErr: with the first error all peers are disconnected; p is where the
\* loops are otherwise.
SetErr(p) ==
  /\ err' = TRUE
  /\ failed' = IF err THEN failed ELSE failed \cup Connected
  /\ pc' = IF err THEN p ELSE Woken(p)

-----------------------------------------------------------------------------
(* Connect, acceptConnection, Disconnect, Close, and the peers.            *)

\* (mutated: no look at the keys of the peers there are)
MayAdd_Any(c) == TRUE

MayAdd(c) == key[c] \notin {key[d] : d \in Connected}

\* addPeer, after a handshake that may have begun before the Syncer was closed.
AddPeer(c) ==
  /\ mu = "free" /\ state[c] = "dialing"
  /\ MayAdd(c)
  /\ state' = [state EXCEPT ![c] = "added"]
  /\ Appended(c)
  /\ UNCHANGED <<key, accept, err, mu, pc, failed, in, tip, seen, target>>

\* "wake syncLoop"
Announce(c) ==
  /\ state[c] = "added"
  /\ state' = [state EXCEPT ![c] = "announced"]
  /\ pc' = Woken(pc)
  /\ UNCHANGED <<key, accept, err, mu, array, len, failed, in, tip, seen, target, range>>

\* (mutated: wakeSyncer is not called)
Request_Silent(c) ==
  /\ state[c] # "dialing" /\ c \notin failed
  /\ in' = [in EXCEPT ![c] = IF @ < Queue THEN @ + 1 ELSE @]
  /\ UNCHANGED <<key, err, mu, accept, pc, array, len, state, failed, tip, seen, target, range>>

\* handleIn reads a request, and calls wakeSyncer.
Request(c) ==
  /\ state[c] # "dialing" /\ c \notin failed
  /\ in' = [in EXCEPT ![c] = IF @ < Queue THEN @ + 1 ELSE @]
  /\ pc' = Woken(pc)
  /\ UNCHANGED <<key, accept, err, mu, array, len, state, failed, tip, seen, target, range>>

ConnFails(c) ==
  /\ Cardinality(failed) < MaxFails /\ ~err
  /\ state[c] # "dialing" /\ c \notin failed
  /\ failed' = failed \cup {c}
  /\ UNCHANGED <<key, err, mu, accept, pc, array, len, state, in, tip, seen, target, range>>

Disconnect(c) ==
  /\ Cardinality(failed) < MaxFails /\ ~err
  /\ mu = "free" /\ c \in Connected
  /\ failed' = failed \cup {c}
  /\ RemoveDisconnected(failed')
  /\ UNCHANGED <<key, accept, err, mu, pc, state, in, tip, seen, target, range>>

Close ==
  /\ Closes /\ ~err /\ mu = "free"
  /\ SetErr(pc)
  /\ UNCHANGED <<key, accept, mu, array, len, state, in, tip, seen, target, range>>

\* acceptLoop: setErr closed the listener, or it fails.  The mutex is released
\* before the Broadcast to "wake s.Run".
AcceptFails ==
  /\ mu = "free" /\ accept = "accepting"
  /\ err \/ "accept" \in Fatal
  /\ SetErr(pc)
  /\ accept' = "stopped"
  /\ UNCHANGED <<key, mu, array, len, state, in, tip, seen, target, range>>

\* (mutated: it does not broadcast)
AcceptEnds_Silent ==
  /\ accept = "stopped"
  /\ accept' = "ended"
  /\ UNCHANGED <<key, err, mu, pc, array, len, state, failed, in, tip, seen, target, range>>

AcceptEnds ==
  /\ accept = "stopped"
  /\ accept' = "ended"
  /\ pc' = Woken(pc)
  /\ UNCHANGED <<key, err, mu, array, len, state, failed, in, tip, seen, target, range>>

-----------------------------------------------------------------------------
(* What the three loops have in common.                                    *)

\* They lock the mutex, at first or when woken, and look whether there is
\* something to do.  (What happens between needs no mutex, and may as well
\* happen before.)
Looks(l) ==
  \/ mu = "free" /\ pc[l] \in {"start", "woken"}
  \/ mu = l /\ pc[l] = "top"

\* They end when there is an error,
End(l) ==
  /\ Looks(l) /\ err
  /\ mu' = "free"
  /\ pc' = [pc EXCEPT ![l] = "ended"]
  /\ UNCHANGED <<key, accept, err, array, len, state, failed, in, tip, seen, target, range>>

\* and wait when they have found nothing to do, releasing it.
Wait(l) ==
  /\ mu = l /\ pc[l] = "nothing"
  /\ mu' = "free"
  /\ pc' = [pc EXCEPT ![l] = "waiting"]
  /\ UNCHANGED <<key, accept, err, array, len, state, failed, in, tip, seen, target, range>>

RunFindsNothing ==
  /\ Looks("run") /\ ~err
  /\ mu' = "run"
  /\ pc' = [pc EXCEPT !["run"] = "nothing"]
  /\ UNCHANGED <<key, accept, err, array, len, state, failed, in, tip, seen, target, range>>

-----------------------------------------------------------------------------
(* requestLoop.                                                            *)

\* nextRequest: the first peer that has a request.
HandleRequest ==
  /\ Looks("request") /\ ~err
  /\ mu' = "request"
  /\ RemoveDisconnected(failed)
  /\ \E i \in 1 .. len' :
       LET c    == array'[i]
           next == [pc EXCEPT !["request"] = "top"]
       IN
       /\ in[c] > 0 /\ \A j \in 1 .. i - 1 : in[array'[j]] = 0
       /\ in' = [in EXCEPT ![c] = @ - 1]
       /\ \/ pc' = next /\ UNCHANGED <<err, failed, tip>>
          \/ \* a block was relayed that extends one not known: "trigger a sync"
             /\ \E t \in Tips : tip' = [tip EXCEPT ![c] = t]
             /\ pc' = Woken(next)
             /\ UNCHANGED <<err, failed>>
          \/ /\ "request" \in Fatal
             /\ SetErr(next)
             /\ UNCHANGED tip
  /\ UNCHANGED <<key, accept, state, seen, target, range>>

NoRequest ==
  /\ Looks("request") /\ ~err
  /\ mu' = "request"
  /\ RemoveDisconnected(failed)
  /\ \A i \in 1 .. len' : in[array'[i]] = 0
  /\ pc' = [pc EXCEPT !["request"] = "nothing"]
  /\ UNCHANGED <<key, accept, err, state, failed, in, tip, seen, target, range>>

-----------------------------------------------------------------------------
(* syncLoop.                                                               *)

RangeBegins ==
  /\ Looks("sync") /\ ~err
  /\ mu' = "sync"
  /\ RemoveDisconnected(failed)
  /\ range' = [old |-> <<>>, shared |-> TRUE, len |-> len', at |-> 1]
  /\ pc' = [pc EXCEPT !["sync"] = "range"]
  /\ UNCHANGED <<key, accept, err, state, failed, in, tip, seen, target>>

\* The peer's tip is new: it is seen, and the mutex released for syncToTarget.
SyncBegins ==
  /\ mu = "sync" /\ pc["sync"] = "range" /\ range.at <= range.len
  /\ target' = Ranged[range.at]
  /\ tip[target'] \notin seen
  /\ seen' = seen \cup {tip[target']}
  /\ mu' = "free"
  /\ pc' = [pc EXCEPT !["sync"] = "syncing"]
  /\ UNCHANGED <<key, accept, err, array, len, state, failed, in, tip, range>>

NotNew ==
  /\ mu = "sync" /\ pc["sync"] = "range" /\ range.at <= range.len
  /\ tip[Ranged[range.at]] \in seen
  /\ range' = [range EXCEPT !.at = @ + 1]
  /\ UNCHANGED <<key, err, mu, accept, pc, array, len, state, failed, in, tip, seen, target>>

\* syncToTarget returns, maybe with a fatal error, which is set without the
\* mutex.
SyncReturns ==
  /\ pc["sync"] = "syncing"
  /\ \/ pc' = [pc EXCEPT !["sync"] = "synced"] /\ UNCHANGED <<err, failed>>
     \/ "sync" \in Fatal /\ SetErr([pc EXCEPT !["sync"] = "synced"])
  /\ UNCHANGED <<key, accept, mu, array, len, state, in, tip, seen, target, range>>

\* It calls a peer that has an error already, and this call never returns.
SyncHangs ==
  /\ pc["sync"] = "syncing" /\ target \in failed
  /\ pc' = [pc EXCEPT !["sync"] = "hung"]
  /\ UNCHANGED <<key, accept, err, mu, array, len, state, failed, in, tip, seen, target, range>>

RangeGoesOn ==
  /\ mu = "free" /\ pc["sync"] = "synced"
  /\ mu' = "sync"
  /\ pc' = [pc EXCEPT !["sync"] = "range"]
  /\ range' = [range EXCEPT !.at = @ + 1]
  /\ UNCHANGED <<key, accept, err, array, len, state, failed, in, tip, seen, target>>

RangeEnds ==
  /\ mu = "sync" /\ pc["sync"] = "range" /\ range.at > range.len
  /\ pc' = [pc EXCEPT !["sync"] = "nothing"]
  /\ range' = NoRange /\ target' = NoConn
  /\ UNCHANGED <<key, accept, err, mu, array, len, state, failed, in, tip, seen>>

-----------------------------------------------------------------------------
LoopStep(l) == End(l) \/ Wait(l)
RequestLoop == LoopStep("request") \/ HandleRequest \/ NoRequest
RunLoop     == LoopStep("run") \/ RunFindsNothing
SyncSteps   == \/ LoopStep("sync") \/ RangeBegins \/ SyncBegins \/ NotNew
               \/ SyncReturns \/ SyncHangs \/ RangeGoesOn \/ RangeEnds

Next ==
  \/ \E c \in Conns : AddPeer(c) \/ Announce(c) \/ Request(c) \/ ConnFails(c) \/ Disconnect(c)
  \/ Close \/ AcceptFails \/ AcceptEnds
  \/ RequestLoop \/ RunLoop \/ SyncSteps

\* The goroutines are scheduled, the mutex is given to each that asks for it
\* again and again, and a synchronization ends or hangs.
Fairness ==
  /\ SF_vars(RequestLoop) /\ SF_vars(RunLoop) /\ SF_vars(SyncSteps)
  /\ SF_vars(err /\ AcceptFails) /\ WF_vars(AcceptEnds)
  /\ \A c \in Conns : WF_vars(Announce(c))

Spec == Init /\ [][Next]_vars /\ Fairness
-----------------------------------------------------------------------------
(* Properties.                                                             *)

Places == {"start", "top", "nothing", "waiting", "woken", "ended", "range", "syncing", "synced", "hung"}

TypeOK ==
  /\ err \in BOOLEAN /\ key \in Keyings /\ mu \in Loops \cup {"free"}
  /\ accept \in {"accepting", "stopped", "ended"}
  /\ pc \in [Loops -> Places]
  /\ array \in Seq(Conns \cup {NoConn}) /\ len \in 0 .. Len(array)
  /\ NoConn \notin Connected
  /\ state \in [Conns -> {"dialing", "added", "announced"}]
  /\ failed \subseteq Conns
  /\ in \in [Conns -> 0 .. Queue] /\ tip \in [Conns -> Tips] /\ seen \subseteq Tips
  /\ range.len <= Len(Ranged) /\ target \in Conns \cup {NoConn}

\* With both nodes connecting to each other at the same time, and peers removed
\* from the slice meanwhile, each node is at most once among the peers, and a
\* peer that is connected is among them.
OncePerNode ==
  /\ \A i, j \in 1 .. len : i # j => key[array[i]] # key[array[j]]
  /\ \A c \in Conns : state[c] # "dialing" /\ c \notin failed => c \in Connected

\* The peers, and what the loops range over, between any two steps of the
\* goroutines.
SyncInv == TypeOK /\ OncePerNode

\* Peers go on sending requests, such as new blocks, and pause at times.  Each
\* request wakes the loops again, which make up for the broadcasts they missed;
\* and requestLoop holds the mutex while there are requests: if they come fast
\* enough from one peer, no other peer and no other loop ever has its turn.
RequestsGoOn  == \A c \in Conns : WF_vars(Request(c))
RequestsPause == []<>(pc["request"] = "waiting")

\* "processes messages until the Syncer is closed or encounters a fatal error":
\* as long as requests go on and pause, each one is handled.
RequestsHandled ==
  RequestsGoOn /\ RequestsPause =>
    \A c \in Conns : in[c] > 0 ~> in[c] = 0 \/ c \in failed \/ err

\* "initiate header sync with any new peers" (unless an earlier one hangs), as
\* long as requests go on and pause.
NewPeersSynced ==
  RequestsGoOn /\ RequestsPause =>
    \A c \in Conns : state[c] = "announced" ~>
      tip[c] \in seen \/ c \in failed \/ err \/ pc["sync"] = "hung"

\* "wake s.Run": after an error Run returns, and requestLoop ends, also when the
\* error is set without the mutex.
RunReturns == err ~> pc["run"] = "ended" /\ pc["request"] = "ended"

-----------------------------------------------------------------------------
(* What the code's comments say and TLC refutes.                           *)

\* "processes messages until the Syncer is closed or encounters a fatal error":
\* a request that comes between the look for one and the wait is handled.
QuietRequestsHandled ==
  RequestsPause => \A c \in Conns : in[c] > 0 ~> in[c] = 0 \/ c \in failed \/ err

\* "Close closes all active connections", those just being made included.
AllClosed == err ~> \A c \in Conns : state[c] = "dialing" \/ c \in failed
=============================================================================
