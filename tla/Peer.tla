-------------------------------- MODULE Peer --------------------------------
(***************************************************************************)
(* p2p.Peer: one connection, shared by the goroutines handleIn and         *)
(* handleOut, by the callers of RPC, and by the Syncer, which answers the  *)
(* requests that the other side makes.                                     *)
(*                                                                         *)
(* Peer.mu is released only while a message is read or written and in      *)
(* cond.Wait, so a step is what happens between two of these.  Whatever    *)
(* changes what a goroutine waits for broadcasts under the mutex, so a     *)
(* wait is modelled by a guard.                                            *)
(*                                                                         *)
(* A request has an even id in the code, and its response that id plus one;*)
(* here both have the number of the request, and each side counts its own. *)
(***************************************************************************)
EXTENDS Integers, Sequences, SequencesExt

CONSTANTS
  MaxCalls,    \* bound: RPCs we make
  MaxRequests, \* bound: requests the other side makes
  LateCalls,   \* does anyone call RPC on a peer that is disconnected?
  Cancels,     \* does anyone use Call.Cancel?
  WrongTypes   \* may the other side answer with a message of another type?

ASSUME PeerAssumption ==
  /\ MaxCalls \in Nat /\ MaxRequests \in Nat
  /\ {LateCalls, Cancels, WrongTypes} \subseteq BOOLEAN

Ids == 1 .. MaxCalls

VARIABLES
  err,     \* p.err, or "none"
  nextID,  \* p.nextID
  calls,   \* p.calls: the calls that are answered
  call,    \* the Call objects, and where their callers are
  in,      \* p.in
  out,     \* p.out
  reading, \* handleIn: reading a header, the body of a message, or ended
  writing, \* handleOut: idle, writing a message, or ended
  toThem,  \* messages on the connection
  toUs,
  theirs   \* requests the other side has made

vars == <<err, nextID, calls, call, in, out, reading, writing, toThem, toUs, theirs>>

Request(id)  == [kind |-> "request", id |-> id]
Response(id) == [kind |-> "response", id |-> id]
Wrong(id)    == [kind |-> "wrong", id |-> id]
NoMsg        == [kind |-> "none", id |-> 0]

NoCall == [caller |-> "absent", done |-> FALSE, err |-> "none", answered |-> FALSE]

Init ==
  /\ err = "none"
  /\ nextID = 1
  /\ calls = {}
  /\ call = [i \in Ids |-> NoCall]
  /\ in = <<>> /\ out = <<>>
  /\ reading = [pc |-> "header", msg |-> NoMsg]
  /\ writing = [pc |-> "idle", msg |-> NoMsg]
  /\ toThem = <<>> /\ toUs = <<>>
  /\ theirs = 0

-----------------------------------------------------------------------------
(* setErr, RPC, Wait and Cancel.                                           *)

\* (mutated: the calls are forgotten, and not ended)
Ended_Forgotten(c, e) == c

\* The calls c when setErr(e) has ended those in p.calls, unless the peer had
\* an error before.
Ended(c, e) ==
  IF err # "none" THEN c
  ELSE [i \in Ids |-> IF i \in calls THEN [c[i] EXCEPT !.err = e, !.done = TRUE] ELSE c[i]]
ErrAfter(e) == IF err # "none" THEN err ELSE e

\* disconnect (or ban): by the Syncer, at any time.
Disconnect ==
  /\ err = "none"
  /\ err' = "closing"
  /\ call' = Ended(call, "closing")
  /\ UNCHANGED <<nextID, calls, in, out, reading, writing, toThem, toUs, theirs>>

\* (mutated: the id is not counted, so that the next call has it as well)
RPC_SameID ==
  /\ nextID \in Ids
  /\ err = "none" \/ LateCalls
  /\ out' = Append(out, Request(nextID))
  /\ call' = [call EXCEPT ![nextID] = [NoCall EXCEPT !.caller = "waiting"]]
  /\ calls' = calls \cup {nextID}
  /\ UNCHANGED <<err, nextID, in, reading, writing, toThem, toUs, theirs>>

\* RPC(req, resp), and then the caller is in Wait.
RPC ==
  /\ nextID \in Ids
  /\ err = "none" \/ LateCalls
  /\ nextID' = nextID + 1
  /\ out' = Append(out, Request(nextID))
  /\ call' = [call EXCEPT ![nextID] = [NoCall EXCEPT !.caller = "waiting"]]
  /\ calls' = calls \cup {nextID}
  /\ UNCHANGED <<err, in, reading, writing, toThem, toUs, theirs>>

\* Wait returns c.err.
WaitReturns(i) ==
  /\ call[i].caller = "waiting" /\ call[i].done
  /\ call' = [call EXCEPT ![i].caller = "returned"]
  /\ UNCHANGED <<err, nextID, calls, in, out, reading, writing, toThem, toUs, theirs>>

Cancel(i) ==
  /\ Cancels
  /\ call[i].caller = "waiting"
  /\ call' = [call EXCEPT ![i].err = "canceled"]
  /\ calls' = calls \ {i}
  /\ UNCHANGED <<err, nextID, in, out, reading, writing, toThem, toUs, theirs>>

-----------------------------------------------------------------------------
(* handleIn.                                                               *)

Stop(e) ==
  /\ err' = ErrAfter(e)
  /\ reading' = [pc |-> "ended", msg |-> NoMsg]

\* (mutated: the call is done when its header is read)
ReadHeader_Done ==
  /\ reading.pc = "header" /\ toUs # <<>>
  /\ LET m == Head(toUs) IN
     /\ m.kind = "request" \/ m.id \in calls
     /\ reading' = [pc |-> "body", msg |-> m]
     /\ call' = IF m.kind = "request" THEN call ELSE [call EXCEPT ![m.id].done = TRUE]
  /\ UNCHANGED <<err, nextID, calls, in, out, writing, toThem, toUs, theirs>>

\* A header is read, maybe just before the connection is closed.  A response
\* has to be to one of p.calls, and of its type.  (When it is not, the call is
\* done and no longer in p.calls when setErr ends these.)
ReadHeader ==
  /\ reading.pc = "header" /\ toUs # <<>>
  /\ LET m == Head(toUs) IN
     \/ /\ m.kind # "wrong" /\ (m.kind = "request" \/ m.id \in calls)
        /\ reading' = [pc |-> "body", msg |-> m]
        /\ UNCHANGED <<err, calls, call, toUs>>
     \/ /\ m.kind = "wrong" /\ m.id \in calls
        /\ Stop("wrong type")
        /\ call' = [Ended(call, "wrong type") EXCEPT ![m.id] = [call[m.id] EXCEPT !.done = TRUE]]
        /\ calls' = calls \ {m.id}
        /\ toUs' = Tail(toUs)
     \/ /\ m.kind # "request" /\ m.id \notin calls
        /\ Stop("unsolicited")
        /\ call' = Ended(call, "unsolicited")
        /\ toUs' = Tail(toUs)
        /\ UNCHANGED calls
  /\ UNCHANGED <<nextID, in, out, writing, toThem, theirs>>

\* (mutated: the response is given to the call made last)
ReadBody_LastCall ==
  /\ reading.pc = "body"
  /\ LET m == reading.msg IN
     \/ /\ m.kind = "request"
        /\ in' = Append(in, m)
        /\ UNCHANGED <<calls, call>>
     \/ /\ m.kind = "response" /\ m.id \in calls
        /\ call' = [call EXCEPT ![nextID - 1].done = TRUE, ![m.id].answered = TRUE]
        /\ calls' = calls \ {m.id}
        /\ UNCHANGED in
  /\ toUs' = Tail(toUs)
  /\ reading' = [pc |-> "header", msg |-> NoMsg]
  /\ UNCHANGED <<err, nextID, out, writing, toThem, theirs>>

\* The body is read: a request waits for the Syncer, a response ends its call.
ReadBody ==
  /\ reading.pc = "body"
  /\ LET m == reading.msg IN
     \/ /\ m.kind = "request"
        /\ in' = Append(in, m)
        /\ UNCHANGED <<calls, call>>
     \/ /\ m.kind = "response" /\ m.id \in calls
        /\ call' = [call EXCEPT ![m.id].done = TRUE, ![m.id].answered = TRUE]
        /\ calls' = calls \ {m.id}
        /\ UNCHANGED in
  /\ toUs' = Tail(toUs)
  /\ reading' = [pc |-> "header", msg |-> NoMsg]
  /\ UNCHANGED <<err, nextID, out, writing, toThem, theirs>>

\* The call was cancelled while the body was read: c is nil, c.done panics.
ReadBodyPanics ==
  /\ reading.pc = "body"
  /\ reading.msg.kind = "response" /\ reading.msg.id \notin calls
  /\ reading' = [pc |-> "panic", msg |-> NoMsg]
  /\ UNCHANGED <<err, nextID, calls, call, in, out, writing, toThem, toUs, theirs>>

\* The connection was closed, on this side or the other, or nothing came for
\* an hour.
ReadFails ==
  /\ reading.pc \in {"header", "body"}
  /\ Stop("read")
  /\ call' = Ended(call, "read")
  /\ UNCHANGED <<nextID, calls, in, out, writing, toThem, toUs, theirs>>

-----------------------------------------------------------------------------
(* handleOut, and the Syncer.                                              *)

\* (mutated: the message stays in p.out until the next one is appended)
TakeOut_Kept ==
  /\ writing.pc = "idle" /\ err = "none" /\ out # <<>>
  /\ writing' = [pc |-> "writing", msg |-> Head(out)]
  /\ UNCHANGED <<err, nextID, calls, call, in, out, reading, toThem, toUs, theirs>>

TakeOut ==
  /\ writing.pc = "idle" /\ err = "none" /\ out # <<>>
  /\ writing' = [pc |-> "writing", msg |-> Head(out)]
  /\ out' = Tail(out)
  /\ UNCHANGED <<err, nextID, calls, call, in, reading, toThem, toUs, theirs>>

Write ==
  /\ writing.pc = "writing"
  /\ toThem' = Append(toThem, writing.msg)
  /\ writing' = [pc |-> "idle", msg |-> NoMsg]
  /\ UNCHANGED <<err, nextID, calls, call, in, out, reading, toUs, theirs>>

\* (mutated: handleOut is not woken by an error)
WriteEnds_NotWoken ==
  /\ writing.pc = "writing"
  /\ writing' = [pc |-> "ended", msg |-> NoMsg]
  /\ err' = ErrAfter("write")
  /\ call' = Ended(call, "write")
  /\ UNCHANGED <<nextID, calls, in, out, reading, toThem, toUs, theirs>>

\* The write fails, or the peer has an error and the loop ends.
WriteEnds ==
  /\ \/ writing.pc = "writing"
     \/ writing.pc = "idle" /\ err # "none"
  /\ writing' = [pc |-> "ended", msg |-> NoMsg]
  /\ err' = ErrAfter("write")
  /\ call' = Ended(call, "write")
  /\ UNCHANGED <<nextID, calls, in, out, reading, toThem, toUs, theirs>>

\* Syncer.requestLoop answers the oldest request, or gives no answer to it.
Answer ==
  /\ in # <<>>
  /\ in' = Tail(in)
  /\ out' \in {out, Append(out, Response(Head(in).id))}
  /\ UNCHANGED <<err, nextID, calls, call, reading, writing, toThem, toUs, theirs>>

-----------------------------------------------------------------------------
(* The other side of the connection.                                       *)

\* It answers our requests in any order.
TheyAnswer(n) ==
  /\ n \in DOMAIN toThem /\ toThem[n].kind = "request"
  /\ toThem' = RemoveAt(toThem, n)
  /\ \E m \in {Response(toThem[n].id)} \cup (IF WrongTypes THEN {Wrong(toThem[n].id)} ELSE {}) :
       toUs' = Append(toUs, m)
  /\ UNCHANGED <<err, nextID, calls, call, in, out, reading, writing, theirs>>

TheyTake ==
  /\ toThem # <<>> /\ Head(toThem).kind = "response"
  /\ toThem' = Tail(toThem)
  /\ UNCHANGED <<err, nextID, calls, call, in, out, reading, writing, toUs, theirs>>

TheyRequest ==
  /\ theirs < MaxRequests
  /\ theirs' = theirs + 1
  /\ toUs' = Append(toUs, Request(theirs'))
  /\ UNCHANGED <<err, nextID, calls, call, in, out, reading, writing, toThem>>

-----------------------------------------------------------------------------
They == TheyTake \/ \E n \in DOMAIN toThem : TheyAnswer(n)

Crashed == reading.pc = "panic"

Next == ~Crashed /\
  (\/ RPC \/ Disconnect \/ \E i \in Ids : WaitReturns(i) \/ Cancel(i)
   \/ ReadHeader \/ ReadBody \/ ReadBodyPanics \/ ReadFails
   \/ TakeOut \/ Write \/ WriteEnds \/ Answer
   \/ They \/ TheyRequest)

\* The goroutines are scheduled, a read on a connection that we have closed
\* fails, and the other side answers requests.  It need not make any.
Fairness ==
  /\ WF_vars(ReadHeader) /\ WF_vars(ReadBody \/ ReadBodyPanics)
  /\ WF_vars(err # "none" /\ ReadFails)
  /\ WF_vars(~Crashed /\ TakeOut) /\ WF_vars(~Crashed /\ Write)
  /\ WF_vars(~Crashed /\ err # "none" /\ WriteEnds)
  /\ WF_vars(~Crashed /\ They)
  /\ \A i \in Ids : WF_vars(~Crashed /\ WaitReturns(i))

Spec == Init /\ [][Next]_vars /\ Fairness
-----------------------------------------------------------------------------
(* Properties.                                                             *)

Messages == [kind : {"none", "request", "response", "wrong"}, id : 0 .. MaxCalls + MaxRequests]
Errors   == {"none", "closing", "canceled", "read", "write", "unsolicited", "wrong type"}

TypeOK ==
  /\ err \in Errors
  /\ nextID \in 1 .. MaxCalls + 1
  /\ calls \subseteq 1 .. nextID - 1
  /\ call \in [Ids -> [caller : {"absent", "waiting", "returned"}, done : BOOLEAN,
                       err : Errors, answered : BOOLEAN]]
  /\ \A m \in Range(in) : m \in Messages /\ m.kind = "request"
  /\ Range(out) \cup Range(toThem) \cup Range(toUs) \subseteq Messages
  /\ reading.pc \in {"header", "body", "ended", "panic"} /\ reading.msg \in Messages
  /\ writing.pc \in {"idle", "writing", "ended"} /\ writing.msg \in Messages
  /\ theirs \in 0 .. MaxRequests

\* However many calls there are, and in whatever order they are answered, Wait
\* returns no error only if the response to that call was read, or was of the
\* wrong type (for which see ErrorOrAnswer).
OwnAnswer ==
  \A i \in Ids : call[i].caller = "returned" /\ call[i].err = "none" /\ ~call[i].answered
                => err = "wrong type" /\ i \notin calls

\* A caller whose Wait has returned no error reads its response, and handleIn,
\* which fills a response with the mutex released, is not filling this one.
FilledWhenReturned ==
  reading.pc = "body" /\ reading.msg.kind = "response" =>
    LET c == call[reading.msg.id] IN ~(c.caller = "returned" /\ c.err = "none")

\* Each request is, as long as the peer has no error, in one place on its way
\* to the other side, back, and to its caller: none is lost or doubled.
Places(i) ==
  <<Request(i) \in Range(out), writing.msg = Request(i), Request(i) \in Range(toThem),
    {Response(i), Wrong(i)} \cap Range(toUs) # {} /\ ~call[i].answered, call[i].answered>>
EachCallSomewhere ==
  err = "none" => \A i \in 1 .. nextID - 1 :
    \E k \in 1 .. 5 : Places(i)[k] /\ \A l \in (1 .. 5) \ {k} : ~Places(i)[l]

\* The connection between any two steps of its goroutines and callers: its types,
\* and the places of its calls.
PeerInv == TypeOK /\ OwnAnswer /\ FilledWhenReturned /\ EachCallSomewhere

\* "wake (Call).Wait": a call made on a peer without an error ends, by its
\* response or by the peer's error, unless it is cancelled.
WaitEnds ==
  \A i \in Ids : call[i].caller = "waiting" /\ err = "none" ~>
    call[i].caller = "returned" \/ call[i].err = "canceled" \/ Crashed

\* "wake p.handleIn", "wake p.handleOut": after an error no goroutine of the peer
\* goes on.
PeerEnds == err # "none" ~> Crashed \/ (reading.pc = "ended" /\ writing.pc = "ended")
-----------------------------------------------------------------------------
(* What the code's comments and messages say and TLC refutes.              *)

\* "wake p.handleOut and (Call).Wait", "wake c.Wait": every call ends.  A call
\* made after setErr does not, nor does one that is cancelled.
EveryWaitEnds == \A i \in Ids : call[i].caller = "waiting" ~> call[i].caller = "returned"

\* "peer sent wrong response type": Wait returns an error, or there is a
\* response.  The caller whose response is of the wrong type has neither.
ErrorOrAnswer ==
  \A i \in Ids : call[i].caller = "returned" => call[i].err # "none" \/ call[i].answered
=============================================================================
