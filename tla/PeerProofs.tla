----------------------------- MODULE PeerProofs -----------------------------
(***************************************************************************)
(* Whatever comes over the connection, and in whatever order callers, the  *)
(* two goroutines and the Syncer take their steps: for any number of calls *)
(* and requests, no call is lost or answered for another, and no response  *)
(* is written to after its caller has gone on with it.                     *)
(***************************************************************************)
EXTENDS Peer, SequenceTheorems, TLAPS

-----------------------------------------------------------------------------
(* The inductive invariant.                                                *)

Types ==
  /\ err \in Errors
  /\ nextID \in 1 .. MaxCalls + 1
  /\ calls \subseteq 1 .. nextID - 1
  /\ call \in [Ids -> [caller : {"absent", "waiting", "returned"}, done : BOOLEAN,
                       err : Errors, answered : BOOLEAN]]
  /\ in \in Seq({m \in Messages : m.kind = "request"})
  /\ out \in Seq(Messages) /\ toThem \in Seq(Messages) /\ toUs \in Seq(Messages)
  /\ reading \in [pc : {"header", "body", "ended", "panic"}, msg : Messages]
  /\ writing \in [pc : {"idle", "writing", "ended"}, msg : Messages]
  /\ theirs \in 0 .. MaxRequests

\* Our requests are those of the calls made so far, and their responses to them
\* are answers to such requests.
Made == 1 .. nextID - 1
Ours ==
  /\ \A m \in Range(out) \cup Range(toThem) \cup {writing.msg} : m.kind = "request" => m.id \in Made
  /\ \A m \in Range(toUs) : m.kind # "request" => m.id \in Made
  /\ \A i \in Ids \ Made : call[i] = NoCall

\* A request is on its way once, and until it has arrived there is no answer.
Once(s) == \A a, b \in 1 .. Len(s) : s[a] = s[b] /\ s[a].kind = "request" => a = b
Replied(i) == Response(i) \in Range(toUs) \/ Wrong(i) \in Range(toUs) \/ call[i].answered
OnTheWay ==
  /\ Once(out) /\ Once(toThem)
  /\ \A i \in Made :
       /\ ~(Request(i) \in Range(out) /\ writing.msg = Request(i))
       /\ ~(Request(i) \in Range(out) /\ Request(i) \in Range(toThem))
       /\ ~(writing.msg = Request(i) /\ Request(i) \in Range(toThem))
       /\ Request(i) \in Range(out) \/ writing.msg = Request(i) \/ Request(i) \in Range(toThem)
            => ~Replied(i)

\* No request is lost.
NotLost ==
  err = "none" => \A i \in Made :
    Request(i) \in Range(out) \/ writing.msg = Request(i) \/ Request(i) \in Range(toThem) \/ Replied(i)

\* The message that handleIn reads is the first on the connection, and it is not of
\* another type.  That handleOut writes nothing when it is idle.
Reading ==
  /\ reading.pc = "body" => toUs # <<>> /\ reading.msg = Head(toUs) /\ reading.msg.kind # "wrong"
  /\ writing.pc # "writing" => writing.msg = NoMsg

\* A call that is done has an error, or its response, or one of another type; one
\* that may still be answered has an error when it is done.  A call that has none
\* after setErr was made after it, so that its request is not sent.
CallOK(i) ==
  /\ call[i].caller = "returned" => call[i].done
  /\ call[i].done /\ call[i].err = "none" /\ ~call[i].answered => err = "wrong type" /\ i \notin calls
  /\ i \in calls => /\ call[i].done => call[i].err # "none"
                    /\ err # "none" => call[i].err # "none" \/ Request(i) \in Range(out)
  /\ reading.pc = "body" /\ reading.msg = Response(i) => ~(call[i].done /\ call[i].err = "none")
DoneOK == \A i \in Ids : CallOK(i)

IInv == Types /\ Ours /\ OnTheWay /\ NotLost /\ Reading /\ DoneOK

-----------------------------------------------------------------------------
(* Queues, messages and calls.                                             *)

LEMMA AppendFacts ==
  ASSUME NEW S, NEW s \in Seq(S), NEW e \in S
  PROVE  /\ Append(s, e) \in Seq(S)
         /\ Range(Append(s, e)) = Range(s) \cup {e}
         /\ Once(s) /\ (e.kind = "request" => e \notin Range(s)) => Once(Append(s, e))
<1> DEFINE a == Append(s, e)
<1>1. /\ a \in Seq(S) /\ Len(a) = Len(s) + 1 /\ Len(s) \in Nat
      /\ \A i \in 1 .. Len(s) : a[i] = s[i]
      /\ a[Len(s) + 1] = e /\ DOMAIN a = 1 .. Len(s) + 1 /\ DOMAIN s = 1 .. Len(s)
  BY AppendProperties, LenProperties
<1> HIDE DEF a
<1>2. \A i \in 1 .. Len(s) + 1 : a[i] = IF i <= Len(s) THEN s[i] ELSE e
  BY <1>1
<1>3. Range(a) = Range(s) \cup {e}
  BY <1>1, <1>2 DEF Range
<1>4. ASSUME Once(s), e.kind = "request" => e \notin Range(s) PROVE Once(a)
  <2>1. ASSUME NEW i \in 1 .. Len(a), NEW j \in 1 .. Len(a), a[i] = a[j], a[i].kind = "request"
        PROVE  i = j
    <3>1. CASE i <= Len(s) /\ j <= Len(s)
      BY <1>1, <1>4, <2>1, <3>1 DEF Once
    <3>2. CASE i = Len(s) + 1 /\ j <= Len(s)
      BY <1>1, <1>4, <2>1, <3>2 DEF Range
    <3>3. CASE j = Len(s) + 1 /\ i <= Len(s)
      BY <1>1, <1>4, <2>1, <3>3 DEF Range
    <3> QED
      BY <1>1, <3>1, <3>2, <3>3
  <2> QED
    BY <2>1 DEF Once
<1> QED
  BY <1>1, <1>3, <1>4 DEF a

LEMMA TailFacts ==
  ASSUME NEW S, NEW s \in Seq(S), s # <<>>
  PROVE  /\ Head(s) \in S /\ Tail(s) \in Seq(S)
         /\ Range(s) = Range(Tail(s)) \cup {Head(s)}
         /\ Once(s) => Once(Tail(s)) /\ (Head(s).kind = "request" => Head(s) \notin Range(Tail(s)))
<1> DEFINE a == Tail(s)
<1>1. /\ Head(s) \in S /\ Head(s) = s[1] /\ Len(s) \in Nat \ {0}
      /\ a \in Seq(S) /\ Len(a) = Len(s) - 1
      /\ \A i \in 1 .. Len(s) - 1 : a[i] = s[i + 1]
      /\ DOMAIN a = 1 .. Len(s) - 1 /\ DOMAIN s = 1 .. Len(s)
  BY HeadTailProperties, LenProperties, EmptySeq
<1> HIDE DEF a
<1>2. Range(s) = Range(a) \cup {Head(s)}
  <2>1. ASSUME NEW m \in Range(s) PROVE m \in Range(a) \cup {Head(s)}
    <3>1. PICK i \in 1 .. Len(s) : m = s[i]
      BY <1>1 DEF Range
    <3>2. i = 1 \/ (i - 1 \in 1 .. Len(s) - 1 /\ a[i - 1] = s[i])
      BY <1>1
    <3> QED
      BY <1>1, <3>1, <3>2 DEF Range
  <2>2. ASSUME NEW m \in Range(a) PROVE m \in Range(s)
    <3>1. PICK i \in 1 .. Len(s) - 1 : m = a[i]
      BY <1>1 DEF Range
    <3>2. i + 1 \in 1 .. Len(s) /\ m = s[i + 1]
      BY <1>1, <3>1
    <3> QED
      BY <1>1, <3>2 DEF Range
  <2>3. Head(s) \in Range(s)
    <3>1. 1 \in 1 .. Len(s)
      BY <1>1
    <3> QED
      BY <1>1, <3>1 DEF Range
  <2> QED
    BY <2>1, <2>2, <2>3
<1>3. ASSUME Once(s) PROVE Once(a) /\ (Head(s).kind = "request" => Head(s) \notin Range(a))
  <2>1. Once(a)
    BY <1>1, <1>3 DEF Once
  <2>2. ASSUME Head(s).kind = "request", Head(s) \in Range(a) PROVE FALSE
    <3>1. PICK i \in 1 .. Len(s) - 1 : Head(s) = a[i]
      BY <1>1, <2>2 DEF Range
    <3>2. i + 1 \in 1 .. Len(s) /\ 1 \in 1 .. Len(s) /\ i + 1 # 1 /\ s[1] = s[i + 1]
      BY <1>1, <3>1
    <3> QED
      BY <1>1, <1>3, <2>2, <3>2 DEF Once
  <2> QED
    BY <2>1, <2>2
<1> QED
  BY <1>1, <1>2, <1>3 DEF a

LEMMA RemoveFacts ==
  ASSUME NEW S, NEW s \in Seq(S), NEW n \in 1 .. Len(s)
  PROVE  /\ s[n] \in S /\ RemoveAt(s, n) \in Seq(S)
         /\ Range(s) = Range(RemoveAt(s, n)) \cup {s[n]}
         /\ Once(s) => Once(RemoveAt(s, n)) /\ (s[n].kind = "request" => s[n] \notin Range(RemoveAt(s, n)))
<1> DEFINE a == RemoveAt(s, n)
           l == SubSeq(s, 1, n - 1)
           r == SubSeq(s, n + 1, Len(s))
<1>1. Len(s) \in Nat /\ n \in Nat /\ 1 <= n /\ n <= Len(s) /\ s[n] \in S /\ DOMAIN s = 1 .. Len(s)
  BY LenProperties, ElementOfSeq
<1>2. /\ l \in Seq(S) /\ Len(l) = n - 1 /\ \A i \in 1 .. n - 1 : l[i] = s[i]
      /\ r \in Seq(S) /\ Len(r) = Len(s) - n /\ \A i \in 1 .. Len(s) - n : r[i] = s[n + i]
  <2>1. \A i \in 1 .. Len(s) : s[i] \in S
    BY ElementOfSeq
  <2>2. 1 \in Int /\ n - 1 \in Int /\ n + 1 \in Int /\ Len(s) \in Int
    BY <1>1
  <2>3. /\ l \in Seq(S) /\ Len(l) = IF 1 <= n - 1 THEN (n - 1) - 1 + 1 ELSE 0
        /\ \A i \in 1 .. (n - 1) - 1 + 1 : l[i] = s[1 + i - 1]
    <3>1. \A i \in 1 .. n - 1 : s[i] \in S
      BY <1>1, <2>1
    <3> QED
      BY <2>2, <3>1, SubSeqProperties
  <2>4. /\ r \in Seq(S) /\ Len(r) = IF n + 1 <= Len(s) THEN Len(s) - (n + 1) + 1 ELSE 0
        /\ \A i \in 1 .. Len(s) - (n + 1) + 1 : r[i] = s[(n + 1) + i - 1]
    <3>1. \A i \in n + 1 .. Len(s) : s[i] \in S
      BY <1>1, <2>1
    <3> QED
      BY <2>2, <3>1, SubSeqProperties
  <2> HIDE DEF l, r
  <2>5. Len(l) = n - 1 /\ \A i \in 1 .. n - 1 : l[i] = s[i]
    BY <1>1, <2>3
  <2>6. Len(r) = Len(s) - n /\ \A i \in 1 .. Len(s) - n : r[i] = s[n + i]
    <3>1. Len(r) = Len(s) - n
      <4>1. PICK k \in Nat : k = Len(s)
        BY <1>1
      <4>2. Len(r) = IF n + 1 <= k THEN k - (n + 1) + 1 ELSE 0
        BY <2>4, <4>1
      <4>3. n \in Nat /\ n <= k
        BY <1>1, <4>1
      <4>4. (IF n + 1 <= k THEN k - (n + 1) + 1 ELSE 0) = k - n
        <5>1. n < k \/ n = k
          BY <4>3
        <5>2. CASE n < k
          BY <4>3, <5>2
        <5>3. CASE n = k
          BY <4>3, <5>3
        <5> QED
          BY <5>1, <5>2, <5>3
      <4> QED
        BY <4>1, <4>2, <4>4
    <3>2. ASSUME NEW i \in 1 .. Len(s) - n PROVE r[i] = s[n + i]
      <4>1. i \in 1 .. Len(s) - (n + 1) + 1 /\ (n + 1) + i - 1 = n + i
        BY <1>1
      <4>2. r[i] = s[(n + 1) + i - 1]
        BY <2>4, <4>1
      <4> QED
        BY <4>1, <4>2
    <3> QED
      BY <3>1, <3>2
  <2> QED
    BY <2>3, <2>4, <2>5, <2>6
<1>3. a = l \o r
  BY DEF RemoveAt
<1> HIDE DEF a, l, r
<1>4. /\ a \in Seq(S) /\ Len(a) = Len(s) - 1 /\ DOMAIN a = 1 .. Len(s) - 1
      /\ \A i \in 1 .. Len(s) - 1 : a[i] = IF i < n THEN s[i] ELSE s[i + 1]
  <2>1. a \in Seq(S) /\ Len(a) = Len(l) + Len(r)
    BY <1>2, <1>3, ConcatProperties
  <2>2. \A i \in 1 .. Len(l) + Len(r) : a[i] = IF i <= Len(l) THEN l[i] ELSE r[i - Len(l)]
    BY <1>2, <1>3, ConcatProperties
  <2>3. Len(a) = Len(s) - 1 /\ DOMAIN a = 1 .. Len(s) - 1
    BY <1>1, <1>2, <2>1, LenProperties
  <2>4. ASSUME NEW i \in 1 .. Len(s) - 1 PROVE a[i] = IF i < n THEN s[i] ELSE s[i + 1]
    <3>3. i \in 1 .. Len(l) + Len(r) /\ Len(l) = n - 1
      BY <1>1, <1>2
    <3>4. a[i] = IF i <= n - 1 THEN l[i] ELSE r[i - (n - 1)]
      BY <2>2, <3>3
    <3>1. CASE i < n
      <4>1. i <= n - 1 /\ i \in 1 .. n - 1
        BY <1>1, <3>1
      <4> QED
        BY <1>2, <3>1, <3>4, <4>1
    <3>2. CASE ~(i < n)
      <4>1. i - (n - 1) \in 1 .. Len(s) - n /\ n + (i - (n - 1)) = i + 1 /\ ~(i <= n - 1)
        BY <1>1, <3>2
      <4>2. a[i] = r[i - (n - 1)]
        BY <3>4, <4>1
      <4> QED
        BY <1>2, <3>2, <4>1, <4>2
    <3> QED
      BY <3>1, <3>2
  <2> QED
    BY <2>1, <2>3, <2>4
<1>5. \A i \in 1 .. Len(s) - 1 : \E j \in 1 .. Len(s) \ {n} : a[i] = s[j] /\ j = IF i < n THEN i ELSE i + 1
  BY <1>1, <1>4
<1>6. \A j \in 1 .. Len(s) \ {n} : \E i \in 1 .. Len(s) - 1 : a[i] = s[j]
  <2>1. ASSUME NEW j \in 1 .. Len(s) \ {n} PROVE \E i \in 1 .. Len(s) - 1 : a[i] = s[j]
    <3>1. CASE j < n
      BY <1>1, <1>4, <3>1
    <3>2. CASE n < j
      <4>1. j - 1 \in 1 .. Len(s) - 1 /\ a[j - 1] = s[j]
        BY <1>1, <1>4, <3>2
      <4> QED
        BY <4>1
    <3> QED
      BY <1>1, <3>1, <3>2
  <2> QED
    BY <2>1
<1>7. Range(s) = Range(a) \cup {s[n]}
  <2>1. Range(a) = {a[i] : i \in 1 .. Len(s) - 1} /\ Range(s) = {s[j] : j \in 1 .. Len(s)}
    BY <1>1, <1>4 DEF Range
  <2>2. Range(a) \subseteq {s[j] : j \in 1 .. Len(s) \ {n}}
    BY <1>5, <2>1
  <2>3. {s[j] : j \in 1 .. Len(s) \ {n}} \subseteq Range(a)
    BY <1>6, <2>1
  <2> QED
    BY <2>1, <2>2, <2>3
<1>8. ASSUME Once(s) PROVE Once(a) /\ (s[n].kind = "request" => s[n] \notin Range(a))
  <2>1. ASSUME NEW i \in 1 .. Len(a), NEW j \in 1 .. Len(a), a[i] = a[j], a[i].kind = "request"
        PROVE  i = j
    <3>1. PICK k \in 1 .. Len(s) \ {n} : a[i] = s[k] /\ k = IF i < n THEN i ELSE i + 1
      BY <1>4, <1>5
    <3>2. PICK l2 \in 1 .. Len(s) \ {n} : a[j] = s[l2] /\ l2 = IF j < n THEN j ELSE j + 1
      BY <1>4, <1>5
    <3>3. k = l2
      BY <1>8, <2>1, <3>1, <3>2 DEF Once
    <3> QED
      BY <1>1, <1>4, <3>1, <3>2, <3>3
  <2>2. ASSUME s[n].kind = "request", s[n] \in Range(a) PROVE FALSE
    <3>1. PICK i \in 1 .. Len(s) - 1 : s[n] = a[i]
      BY <1>4, <2>2 DEF Range
    <3>2. PICK k \in 1 .. Len(s) \ {n} : a[i] = s[k]
      BY <1>5
    <3> QED
      BY <1>8, <2>2, <3>1, <3>2 DEF Once
  <2> QED
    BY <2>1, <2>2 DEF Once
<1> QED
  BY <1>1, <1>4, <1>7, <1>8 DEF a

\* The messages are different ones.
LEMMA MessageFacts ==
  /\ \A i : /\ Request(i).kind = "request" /\ Request(i).id = i
            /\ Response(i).kind = "response" /\ Response(i).id = i
            /\ Wrong(i).kind = "wrong" /\ Wrong(i).id = i
  /\ NoMsg.kind = "none" /\ NoMsg \in Messages
  /\ \A i \in 0 .. MaxCalls + MaxRequests : {Request(i), Response(i), Wrong(i)} \subseteq Messages
  /\ \A m \in Messages : /\ m.kind = "request" => m = Request(m.id)
                         /\ m.kind = "response" => m = Response(m.id)
                         /\ m.kind = "wrong" => m = Wrong(m.id)
                         /\ m.id \in 0 .. MaxCalls + MaxRequests
BY PeerAssumption DEF Request, Response, Wrong, NoMsg, Messages

\* The ids of the calls made.
LEMMA MadeFacts ==
  ASSUME Types
  PROVE  /\ Made \subseteq Ids /\ Ids \subseteq 0 .. MaxCalls + MaxRequests /\ calls \subseteq Made
         /\ MaxCalls \in Nat /\ MaxRequests \in Nat /\ nextID \in Nat /\ nextID \notin Made
BY PeerAssumption DEF Types, Made, Ids

\* setErr.
LEMMA EndedFacts ==
  ASSUME Types, NEW e \in Errors \ {"none"}, NEW c, c = Ended(call, e)
  PROVE  /\ c \in [Ids -> [caller : {"absent", "waiting", "returned"}, done : BOOLEAN,
                           err : Errors, answered : BOOLEAN]]
         /\ \A i \in Ids : /\ c[i].answered = call[i].answered /\ c[i].caller = call[i].caller
                           /\ call[i].done => c[i].done
                           /\ i \notin calls => c[i] = call[i]
                           /\ err = "none" /\ i \in calls => c[i].err = e
                           /\ err # "none" => c[i] = call[i]
         /\ ErrAfter(e) \in Errors \ {"none"} /\ (err # "none" => ErrAfter(e) = err)
<1>1. ErrAfter(e) \in Errors \ {"none"} /\ (err # "none" => ErrAfter(e) = err)
  BY DEF ErrAfter, Types
<1>2. CASE err # "none"
  BY <1>1, <1>2 DEF Ended, Types
<1>3. CASE err = "none"
  <2>1. c = [i \in Ids |-> IF i \in calls THEN [call[i] EXCEPT !.err = e, !.done = TRUE] ELSE call[i]]
    BY <1>3 DEF Ended
  <2>2. /\ e \in Errors
        /\ call \in [Ids -> [caller : {"absent", "waiting", "returned"}, done : BOOLEAN,
                              err : Errors, answered : BOOLEAN]]
    BY DEF Types
  <2>3. ASSUME NEW i \in Ids
        PROVE  /\ c[i] \in [caller : {"absent", "waiting", "returned"}, done : BOOLEAN,
                             err : Errors, answered : BOOLEAN]
               /\ c[i].answered = call[i].answered /\ c[i].caller = call[i].caller
               /\ call[i].done => c[i].done
               /\ i \notin calls => c[i] = call[i]
               /\ i \in calls => c[i].err = e
    <3>1. CASE i \in calls
      <4>1. c[i] = [call[i] EXCEPT !.err = e, !.done = TRUE]
        BY <2>1, <3>1
      <4> QED
        BY <2>2, <3>1, <4>1, ZenonT(30)
    <3>2. CASE i \notin calls
      BY <2>1, <2>2, <3>2
    <3> QED
      BY <3>1, <3>2
  <2>4. c = [i \in Ids |-> c[i]]
    BY <2>1
  <2> QED
    BY <1>1, <1>3, <2>3, <2>4
<1> QED
  BY <1>2, <1>3

\* What handleIn reads is on the connection, and answers a call that was made.
LEMMA ReadingFacts ==
  ASSUME IInv
  PROVE  /\ reading.pc = "body" =>
              /\ reading.msg \in Range(toUs) /\ reading.msg \in Messages
              /\ reading.msg.kind = "response" =>
                   reading.msg.id \in Made /\ reading.msg = Response(reading.msg.id)
         /\ toUs # <<>> =>
              /\ Head(toUs) \in Range(toUs) /\ Head(toUs) \in Messages
              /\ Tail(toUs) \in Seq(Messages) /\ Range(toUs) = Range(Tail(toUs)) \cup {Head(toUs)}
<1>1. toUs # <<>> =>
              /\ Head(toUs) \in Range(toUs) /\ Head(toUs) \in Messages
              /\ Tail(toUs) \in Seq(Messages) /\ Range(toUs) = Range(Tail(toUs)) \cup {Head(toUs)}
  <2>1. toUs \in Seq(Messages)
    BY DEF IInv, Types
  <2> QED
    BY <2>1, TailFacts
<1>2. ASSUME reading.pc = "body", reading.msg.kind = "response"
      PROVE  reading.msg.id \in Made /\ reading.msg = Response(reading.msg.id)
  BY <1>1, <1>2, MessageFacts DEF IInv, Reading, Ours
<1> QED
  BY <1>1, <1>2 DEF IInv, Reading

-----------------------------------------------------------------------------
(* Steps that end in setErr.                                               *)

LEMMA EndsInv ==
  ASSUME IInv, NEW e \in Errors \ {"none"},
         err' = ErrAfter(e), call' = Ended(call, e),
         UNCHANGED <<nextID, calls, in, out, toThem, theirs>>,
         \/ UNCHANGED <<reading, toUs>>
         \/ /\ reading' = [pc |-> "ended", msg |-> NoMsg]
            /\ toUs' = toUs \/ (toUs # <<>> /\ toUs' = Tail(toUs)),
         writing' = writing \/ writing' = [pc |-> "ended", msg |-> NoMsg]
  PROVE  IInv'
<1> USE DEF IInv
<1>1. /\ call' \in [Ids -> [caller : {"absent", "waiting", "returned"}, done : BOOLEAN,
                            err : Errors, answered : BOOLEAN]]
      /\ \A i \in Ids : /\ call'[i].answered = call[i].answered /\ call'[i].caller = call[i].caller
                        /\ call[i].done => call'[i].done
                        /\ i \notin calls => call'[i] = call[i]
                        /\ err = "none" /\ i \in calls => call'[i].err = e
                        /\ err # "none" => call'[i] = call[i]
      /\ err' \in Errors \ {"none"} /\ (err # "none" => err' = err)
  BY EndedFacts
<1>2. toUs' \in Seq(Messages) /\ Range(toUs') \subseteq Range(toUs)
  <2>1. CASE toUs' = toUs
    BY <2>1 DEF Types
  <2>2. CASE toUs # <<>> /\ toUs' = Tail(toUs)
    <3>1. toUs \in Seq(Messages)
      BY DEF Types
    <3>2. Tail(toUs) \in Seq(Messages) /\ Range(toUs) = Range(Tail(toUs)) \cup {Head(toUs)}
      BY <2>2, <3>1, TailFacts
    <3> QED
      BY <2>2, <3>2
  <2> QED
    BY <2>1, <2>2
<1>3. \A i : writing'.msg = Request(i) => writing.msg = Request(i)
  BY MessageFacts
<1>4. Types'
  BY <1>1, <1>2, MessageFacts DEF Types
<1>5. Made' = Made
  BY DEF Made
<1>6. Ours'
  BY <1>1, <1>2, <1>5, MadeFacts, MessageFacts DEF Ours
<1>7. OnTheWay'
  BY <1>1, <1>2, <1>3, <1>5, MadeFacts DEF OnTheWay, Once, Replied
<1>8. NotLost' /\ Reading'
  BY <1>1 DEF NotLost, Reading
<1>9. DoneOK'
  <2>1. ASSUME NEW i \in Ids PROVE CallOK(i)'
    <3>1. CallOK(i) /\ (reading'.pc = "body" => reading' = reading)
      BY DEF DoneOK
    <3>2. CASE err = "none"
      BY <1>1, <3>1, <3>2 DEF CallOK
    <3>3. CASE err # "none"
      BY <1>1, <3>1, <3>3 DEF CallOK
    <3> QED
      BY <3>2, <3>3
  <2> QED
    BY <2>1 DEF DoneOK
<1> QED
  BY <1>4, <1>6, <1>7, <1>8, <1>9

-----------------------------------------------------------------------------
(* The calls.                                                              *)

LEMMA RPCInv ==
  ASSUME IInv, RPC
  PROVE  IInv'
<1> USE DEF IInv, RPC
<1>0. PICK n \in Ids : n = nextID
  OBVIOUS
<1>1. n \in Ids /\ n \notin Made /\ n \notin calls /\ n \in 0 .. MaxCalls + MaxRequests
      /\ out' = Append(out, Request(n)) /\ calls' = calls \cup {n} /\ nextID' = n + 1
  BY <1>0, MadeFacts
<1>2. Made' = Made \cup {n}
  BY <1>0, MadeFacts DEF Made, Ids
<1>3. /\ \A i \in Ids : i # n => call'[i] = call[i]
      /\ call'[n] = [caller |-> "waiting", done |-> FALSE, err |-> "none", answered |-> FALSE]
      /\ call[n] = NoCall
  BY <1>0, <1>1 DEF Types, NoCall, Ours
<1>4. /\ Request(n) \notin Range(out) /\ Request(n) \notin Range(toThem) /\ writing.msg # Request(n)
      /\ Response(n) \notin Range(toUs) /\ Wrong(n) \notin Range(toUs) /\ ~call[n].answered
  BY <1>1, <1>3, MessageFacts DEF Ours, NoCall
<1>5. /\ out' \in Seq(Messages) /\ Range(out') = Range(out) \cup {Request(n)}
      /\ Once(out) => Once(out')
  <2>1. out \in Seq(Messages) /\ Request(n) \in Messages /\ out' = Append(out, Request(n))
    BY <1>1, MessageFacts DEF Types
  <2> QED
    BY <1>4, <2>1, AppendFacts
<1>6. \A i : Request(i) = Request(n) => i = n
  BY MessageFacts
<1>7. Types'
  <2>1. nextID' \in 1 .. MaxCalls + 1 /\ calls' \subseteq 1 .. nextID' - 1
    BY <1>0, <1>1, MadeFacts, SMTT(30) DEF Types, Ids
  <2> QED
    BY <1>1, <1>5, <2>1 DEF Types, NoCall, Errors
<1>8. Ours'
  BY <1>1, <1>2, <1>3, <1>5, MessageFacts DEF Ours
<1>9. OnTheWay' /\ NotLost'
  <2>1. Once(out') /\ Once(toThem')
    BY <1>5 DEF OnTheWay
  <2>2. ASSUME NEW i \in Made PROVE (Request(i) \in Range(out') <=> Request(i) \in Range(out))
                                    /\ (Replied(i)' <=> Replied(i))
    BY <1>1, <1>3, <1>5, <1>6, MadeFacts DEF Replied
  <2>3. ~Replied(n)'
    BY <1>3, <1>4 DEF Replied
  <2>4. OnTheWay'
    BY <1>2, <1>4, <2>1, <2>2, <2>3 DEF OnTheWay
  <2>5. NotLost'
    <3>1. Request(n) \in Range(out')
      BY <1>5
    <3>2. ASSUME err' = "none", NEW i \in Made'
          PROVE  Request(i) \in Range(out') \/ writing'.msg = Request(i)
                   \/ Request(i) \in Range(toThem') \/ Replied(i)'
      BY <1>2, <2>2, <3>1, <3>2 DEF NotLost
    <3> QED
      BY <3>2 DEF NotLost
  <2> QED
    BY <2>4, <2>5
<1>10. Reading'
  BY DEF Reading
<1>11. DoneOK'
  <2>1. CallOK(n)'
    <3>1. Request(n) \in Range(out')
      BY <1>5
    <3>2. call'[n].caller # "returned" /\ ~call'[n].done
      BY <1>3
    <3> QED
      BY <3>1, <3>2 DEF CallOK
  <2>2. ASSUME NEW i \in Ids, i # n PROVE CallOK(i)'
    <3>1. CallOK(i) /\ call'[i] = call[i] /\ err' = err /\ (i \in calls' <=> i \in calls)
      BY <1>1, <1>3, <2>2 DEF DoneOK
    <3> QED
      BY <1>5, <3>1 DEF CallOK
  <2> QED
    BY <2>1, <2>2 DEF DoneOK
<1> QED
  BY <1>7, <1>8, <1>9, <1>10, <1>11

\* A caller that goes on, or is told that its call is cancelled.
LEMMA CallerInv ==
  ASSUME IInv, NEW i \in Ids, WaitReturns(i) \/ Cancel(i)
  PROVE  IInv'
<1> USE DEF IInv
<1>1. /\ UNCHANGED <<err, nextID, in, out, reading, writing, toThem, toUs, theirs>>
      /\ calls' \subseteq calls /\ calls \subseteq calls' \cup {i}
      /\ \A j \in Ids : /\ j # i => call'[j] = call[j]
                        /\ call'[j].answered = call[j].answered /\ call'[j].done = call[j].done
                        /\ call'[j].err = call[j].err
                             \/ (j = i /\ call'[j].err = "canceled" /\ i \notin calls'
                                   /\ call'[i].caller = "waiting")
      /\ call'[i].caller = "returned" => call[i].done
      /\ call' \in [Ids -> [caller : {"absent", "waiting", "returned"}, done : BOOLEAN,
                            err : Errors, answered : BOOLEAN]]
      /\ call[i].caller = "waiting"
  <2>1. CASE WaitReturns(i)
    BY <2>1 DEF WaitReturns, Types
  <2>2. CASE Cancel(i)
    <3>1. "canceled" \in Errors
      BY DEF Errors
    <3> QED
      BY <2>2, <3>1 DEF Cancel, Types
  <2> QED
    BY <2>1, <2>2
<1>2. Made' = Made /\ i \in Made
  BY <1>1 DEF Made, Ours, NoCall
<1>3. Types'
  BY <1>1 DEF Types
<1>4. Ours'
  BY <1>1, <1>2 DEF Ours
<1>5. OnTheWay' /\ NotLost'
  <2>1. \A j \in Made : Replied(j)' <=> Replied(j)
    BY <1>1, MadeFacts DEF Replied
  <2> QED
    BY <1>1, <1>2, <2>1 DEF OnTheWay, NotLost, Once
<1>6. Reading'
  BY <1>1 DEF Reading
<1>7. DoneOK'
  <2>1. ASSUME NEW j \in Ids PROVE CallOK(j)'
    <3>1. CallOK(j)
      BY DEF DoneOK
    <3>2. CASE j = i
      BY <1>1, <3>1, <3>2 DEF CallOK
    <3>3. CASE j # i
      BY <1>1, <3>1, <3>3 DEF CallOK
    <3> QED
      BY <3>2, <3>3
  <2> QED
    BY <2>1 DEF DoneOK
<1> QED
  BY <1>3, <1>4, <1>5, <1>6, <1>7

-----------------------------------------------------------------------------
(* handleIn.                                                               *)

LEMMA ReadHeaderInv ==
  ASSUME IInv, ReadHeader
  PROVE  IInv'
<1> USE DEF IInv
<1> DEFINE m == Head(toUs)
<1>1. /\ reading.pc = "header" /\ toUs # <<>>
      /\ m \in Range(toUs) /\ m \in Messages /\ Tail(toUs) \in Seq(Messages)
      /\ Range(toUs) = Range(Tail(toUs)) \cup {m}
      /\ UNCHANGED <<nextID, in, out, writing, toThem, theirs>>
  BY ReadingFacts DEF ReadHeader
<1>2. Made' = Made
  BY <1>1 DEF Made
<1>3. CASE /\ m.kind # "wrong" /\ (m.kind = "request" \/ m.id \in calls)
           /\ reading' = [pc |-> "body", msg |-> m]
           /\ UNCHANGED <<err, calls, call, toUs>>
  <2> HIDE DEF m
  <2>1. Types'
    BY <1>1, <1>3 DEF Types
  <2>2. Ours' /\ OnTheWay' /\ NotLost'
    BY <1>1, <1>2, <1>3 DEF Ours, OnTheWay, NotLost, Once, Replied
  <2>3. Reading'
    BY <1>1, <1>3 DEF Reading, m
  <2>4. ASSUME NEW i \in Ids PROVE CallOK(i)'
    <3>1. CallOK(i)
      BY DEF DoneOK
    <3>2. m = Response(i) => i \in calls
      BY <1>3, MessageFacts
    <3> QED
      BY <1>1, <1>3, <3>1, <3>2 DEF CallOK
  <2> QED
    BY <2>1, <2>2, <2>3, <2>4 DEF DoneOK
<1>4. CASE /\ m.kind = "wrong" /\ m.id \in calls
           /\ Stop("wrong type")
           /\ call' = [Ended(call, "wrong type") EXCEPT ![m.id] = [call[m.id] EXCEPT !.done = TRUE]]
           /\ calls' = calls \ {m.id}
           /\ toUs' = Tail(toUs)
  <2>1. PICK n \in Ids : n = m.id /\ n \in calls /\ n \in Made
    BY <1>4, MadeFacts
  <2>2. PICK e \in Errors \ {"none"} : e = "wrong type"
    BY DEF Errors
  <2>2a. PICK c : c = Ended(call, e)
    OBVIOUS
  <2>3. /\ c \in [Ids -> [caller : {"absent", "waiting", "returned"}, done : BOOLEAN,
                          err : Errors, answered : BOOLEAN]]
        /\ \A i \in Ids : /\ c[i].answered = call[i].answered /\ c[i].caller = call[i].caller
                          /\ call[i].done => c[i].done
                          /\ i \notin calls => c[i] = call[i]
                          /\ err = "none" /\ i \in calls => c[i].err = e
                          /\ err # "none" => c[i] = call[i]
        /\ ErrAfter(e) \in Errors \ {"none"} /\ (err # "none" => ErrAfter(e) = err)
        /\ err = "none" => ErrAfter(e) = e
    <3>1. err = "none" => ErrAfter(e) = e
      BY DEF ErrAfter
    <3> QED
      BY <2>2a, <3>1, EndedFacts
  <2>4. /\ call' = [c EXCEPT ![n] = [call[n] EXCEPT !.done = TRUE]] /\ calls' = calls \ {n}
        /\ err' = ErrAfter(e) /\ reading' = [pc |-> "ended", msg |-> NoMsg] /\ toUs' = Tail(toUs)
        /\ m = Wrong(n)
    BY <1>1, <1>4, <2>1, <2>2, <2>2a, MessageFacts DEF Stop
  <2> HIDE DEF m
  <2>5. /\ call' \in [Ids -> [caller : {"absent", "waiting", "returned"}, done : BOOLEAN,
                              err : Errors, answered : BOOLEAN]]
        /\ \A i \in Ids : i # n => call'[i] = c[i]
        /\ call'[n] = [call[n] EXCEPT !.done = TRUE]
    <3>1. [call[n] EXCEPT !.done = TRUE] \in [caller : {"absent", "waiting", "returned"},
                                              done : BOOLEAN, err : Errors, answered : BOOLEAN]
      BY ZenonT(30) DEF Types
    <3> QED
      BY <2>3, <2>4, <3>1
  <2>6. call'[n].done /\ \A i \in Ids : call'[i].answered = call[i].answered
                                       /\ call'[i].caller = call[i].caller
    <3>1. call[n] \in [caller : {"absent", "waiting", "returned"},
                       done : BOOLEAN, err : Errors, answered : BOOLEAN]
      BY DEF Types
    <3>2. call'[n].done /\ call'[n].answered = call[n].answered /\ call'[n].caller = call[n].caller
      BY <2>5, <3>1
    <3> QED
      BY <2>3, <2>5, <3>2
  <2>7. /\ Types' /\ Reading'
        /\ Range(toUs') \subseteq Range(toUs)
    BY <1>1, <2>3, <2>4, <2>5, MessageFacts DEF Types, Reading
  <2>8. Ours'
    <3>1. \A i \in Ids \ Made : call'[i] = call[i]
      BY <2>1, <2>3, <2>5, MadeFacts
    <3> QED
      BY <1>1, <1>2, <2>7, <3>1 DEF Ours
  <2>9. OnTheWay' /\ NotLost'
    <3>1. \A i \in Made : Replied(i)' => Replied(i)
      BY <2>6, <2>7, MadeFacts DEF Replied
    <3> QED
      BY <1>1, <1>2, <2>3, <2>4, <3>1 DEF OnTheWay, NotLost, Once
  <2>10. ASSUME NEW i \in Ids PROVE CallOK(i)'
    <3>1. CallOK(i) /\ reading'.pc # "body" /\ out' = out
      BY <1>1, <2>4 DEF DoneOK
    <3>2. CASE i = n
      <4>1. err # "none" => call[n].err # "none"
        <5>1. Request(n) \notin Range(out)
          BY <1>1, <2>1, <2>4 DEF OnTheWay, Replied
        <5> QED
          BY <2>1, <3>1, <3>2, <5>1 DEF CallOK
      <4>2. call'[n].err = call[n].err /\ i \notin calls'
        BY <2>4, <2>5, <3>2 DEF Types
      <4>3. err = "none" => err' = "wrong type"
        BY <2>2, <2>3, <2>4
      <4> QED
        BY <2>6, <3>1, <3>2, <4>1, <4>2, <4>3 DEF CallOK
    <3>3. CASE i # n
      <4>1. call'[i] = c[i] /\ (i \in calls' <=> i \in calls)
        BY <2>4, <2>5, <3>3
      <4>2. CASE err = "none"
        BY <2>2, <2>3, <2>4, <3>1, <4>1, <4>2 DEF CallOK
      <4>3. CASE err # "none"
        BY <2>3, <2>4, <3>1, <4>1, <4>3 DEF CallOK
      <4> QED
        BY <4>2, <4>3
    <3> QED
      BY <3>2, <3>3
  <2> QED
    BY <2>7, <2>8, <2>9, <2>10 DEF DoneOK
<1>5. CASE /\ Stop("unsolicited")
           /\ call' = Ended(call, "unsolicited")
           /\ toUs' = Tail(toUs)
           /\ UNCHANGED calls
  <2>1. "unsolicited" \in Errors \ {"none"}
    BY DEF Errors
  <2> QED
    BY <1>1, <1>5, <2>1, EndsInv DEF Stop
<1> QED
  BY <1>3, <1>4, <1>5 DEF ReadHeader

LEMMA ReadBodyInv ==
  ASSUME IInv, ReadBody
  PROVE  IInv'
<1> USE DEF IInv
<1> DEFINE m == reading.msg
<1>1. /\ reading.pc = "body" /\ toUs # <<>> /\ m = Head(toUs)
      /\ m \in Range(toUs) /\ m \in Messages /\ toUs' = Tail(toUs) /\ toUs' \in Seq(Messages)
      /\ Range(toUs) = Range(toUs') \cup {m}
      /\ reading' = [pc |-> "header", msg |-> NoMsg]
      /\ UNCHANGED <<err, nextID, out, writing, toThem, theirs>>
  BY ReadingFacts DEF ReadBody, Reading
<1>2. Made' = Made
  BY <1>1 DEF Made
<1>3. CASE m.kind = "request" /\ in' = Append(in, m) /\ UNCHANGED <<calls, call>>
  <2> HIDE DEF m
  <2>1. in' \in Seq({a \in Messages : a.kind = "request"})
    <3>1. m \in {a \in Messages : a.kind = "request"} /\ in \in Seq({a \in Messages : a.kind = "request"})
      BY <1>1, <1>3 DEF Types
    <3> QED
      BY <1>3, <3>1, AppendProperties
  <2>2. Types' /\ Reading'
    BY <1>1, <1>3, <2>1, MessageFacts DEF Types, Reading
  <2>3. Ours'
    BY <1>1, <1>2, <1>3 DEF Ours
  <2>4. OnTheWay' /\ NotLost'
    <3>1. \A i \in Made : Replied(i)' <=> Replied(i)
      BY <1>1, <1>3, MessageFacts DEF Replied
    <3> QED
      BY <1>1, <1>2, <3>1 DEF OnTheWay, NotLost, Once
  <2>5. ASSUME NEW i \in Ids PROVE CallOK(i)'
    <3>1. CallOK(i)
      BY DEF DoneOK
    <3> QED
      BY <1>1, <1>3, <3>1 DEF CallOK
  <2> QED
    BY <2>2, <2>3, <2>4, <2>5 DEF DoneOK
<1>4. CASE /\ m.kind = "response" /\ m.id \in calls
           /\ call' = [call EXCEPT ![m.id].done = TRUE, ![m.id].answered = TRUE]
           /\ calls' = calls \ {m.id}
           /\ UNCHANGED in
  <2>1. PICK n \in Ids : n = m.id /\ n \in calls /\ n \in Made /\ m = Response(n)
    BY <1>1, <1>4, MadeFacts, MessageFacts
  <2> HIDE DEF m
  <2>2. /\ call' = [call EXCEPT ![n].done = TRUE, ![n].answered = TRUE]
        /\ calls' = calls \ {n}
    BY <1>4, <2>1
  <2>3. /\ call' \in [Ids -> [caller : {"absent", "waiting", "returned"}, done : BOOLEAN,
                              err : Errors, answered : BOOLEAN]]
        /\ \A i \in Ids : i # n => call'[i] = call[i]
        /\ call'[n].answered
    BY <2>2 DEF Types
  <2>4. Types' /\ Reading'
    BY <1>1, <1>4, <2>2, <2>3, MessageFacts DEF Types, Reading
  <2>5. Ours'
    BY <1>1, <1>2, <2>1, <2>3 DEF Ours
  <2>6. OnTheWay' /\ NotLost'
    <3>1. ASSUME NEW i \in Made, i # n PROVE Replied(i)' <=> Replied(i)
      BY <1>1, <2>1, <2>3, <3>1, MadeFacts, MessageFacts DEF Replied
    <3>2. Replied(n) /\ Replied(n)'
      BY <1>1, <2>1, <2>3 DEF Replied
    <3> QED
      BY <1>1, <1>2, <3>1, <3>2 DEF OnTheWay, NotLost, Once
  <2>7. ASSUME NEW i \in Ids PROVE CallOK(i)'
    <3>1. CallOK(i) /\ reading'.pc # "body" /\ out' = out /\ err' = err
      BY <1>1 DEF DoneOK
    <3>2. CASE i = n
      <4>1. call'[n].done /\ call'[n].answered /\ n \notin calls'
        BY <2>2, <2>3 DEF Types
      <4> QED
        BY <3>1, <3>2, <4>1 DEF CallOK
    <3>3. CASE i # n
      BY <2>2, <2>3, <3>1, <3>3 DEF CallOK
    <3> QED
      BY <3>2, <3>3
  <2> QED
    BY <2>4, <2>5, <2>6, <2>7 DEF DoneOK
<1> QED
  BY <1>3, <1>4 DEF ReadBody

LEMMA ReadBodyPanicsInv ==
  ASSUME IInv, ReadBodyPanics
  PROVE  IInv'
<1> USE DEF IInv, ReadBodyPanics
<1>1. Types' /\ Reading'
  BY MessageFacts DEF Types, Reading
<1>2. Ours' /\ OnTheWay' /\ NotLost'
  BY DEF Ours, Made, OnTheWay, NotLost, Once, Replied
<1>3. DoneOK'
  BY DEF DoneOK, CallOK
<1> QED
  BY <1>1, <1>2, <1>3

-----------------------------------------------------------------------------
(* handleOut, and the Syncer.                                              *)

LEMMA TakeOutInv ==
  ASSUME IInv, TakeOut
  PROVE  IInv'
<1> USE DEF IInv, TakeOut
<1> DEFINE m == Head(out)
<1>1. /\ m \in Messages /\ out' \in Seq(Messages) /\ Range(out) = Range(out') \cup {m}
      /\ Once(out') /\ (m.kind = "request" => m \notin Range(out'))
      /\ writing.msg = NoMsg /\ writing'.msg = m
  <2>1. out \in Seq(Messages) /\ Once(out)
    BY DEF Types, OnTheWay
  <2> QED
    BY <2>1, TailFacts DEF Reading
<1> HIDE DEF m
<1>2. Made' = Made
  BY DEF Made
<1>3. Types'
  BY <1>1 DEF Types, m
<1>4. Ours'
  BY <1>1, <1>2 DEF Ours
<1>5. ASSUME NEW i \in Made
      PROVE  /\ Request(i) \in Range(out) <=> Request(i) \in Range(out') \/ writing'.msg = Request(i)
             /\ ~(Request(i) \in Range(out') /\ writing'.msg = Request(i))
             /\ Replied(i)' <=> Replied(i)
  BY <1>1, MessageFacts DEF Replied
<1>6. OnTheWay' /\ NotLost'
  BY <1>1, <1>2, <1>5, MessageFacts DEF OnTheWay, NotLost, Once
<1>7. Reading'
  BY DEF Reading
<1>8. DoneOK'
  BY DEF DoneOK, CallOK
<1> QED
  BY <1>3, <1>4, <1>6, <1>7, <1>8

LEMMA WriteInv ==
  ASSUME IInv, Write
  PROVE  IInv'
<1> USE DEF IInv, Write
<1> DEFINE m == writing.msg
<1>1. m.kind = "request" => m \notin Range(toThem)
  BY MessageFacts DEF Types, Ours, OnTheWay
<1>2. toThem' \in Seq(Messages) /\ Range(toThem') = Range(toThem) \cup {m} /\ Once(toThem')
  <2>1. toThem \in Seq(Messages) /\ m \in Messages /\ Once(toThem) /\ toThem' = Append(toThem, m)
    BY DEF Types, OnTheWay
  <2> QED
    BY <1>1, <2>1, AppendFacts
<1>3. Made' = Made
  BY DEF Made
<1> HIDE DEF m
<1>4. Types' /\ Reading'
  BY <1>2, MessageFacts DEF Types, Reading
<1>5. Ours'
  BY <1>2, <1>3, MessageFacts DEF Ours, m
<1>6. ASSUME NEW i \in Made
      PROVE  /\ Request(i) \in Range(toThem') <=> Request(i) \in Range(toThem) \/ writing.msg = Request(i)
             /\ writing'.msg # Request(i)
             /\ Replied(i)' <=> Replied(i)
  BY <1>2, MessageFacts DEF Replied, m
<1>7. OnTheWay' /\ NotLost'
  BY <1>2, <1>3, <1>6 DEF OnTheWay, NotLost, Once
<1>8. DoneOK'
  BY DEF DoneOK, CallOK
<1> QED
  BY <1>4, <1>5, <1>7, <1>8

LEMMA AnswerInv ==
  ASSUME IInv, Answer
  PROVE  IInv'
<1> USE DEF IInv, Answer
<1> DEFINE r == Response(Head(in).id)
           Asked == {m \in Messages : m.kind = "request"}
<1>1. in' \in Seq(Asked) /\ Head(in) \in Messages
  <2>1. in \in Seq(Asked)
    BY DEF Types
  <2> QED
    BY <2>1, TailFacts
<1>2. /\ out' \in Seq(Messages) /\ Once(out')
      /\ Range(out) \subseteq Range(out') /\ Range(out') \subseteq Range(out) \cup {r}
  <2>1. out \in Seq(Messages) /\ r \in Messages /\ Once(out) /\ r.kind = "response"
    BY <1>1, MessageFacts DEF Types, OnTheWay
  <2>2. CASE out' = out
    BY <2>1, <2>2
  <2>3. CASE out' = Append(out, r)
    BY <2>1, <2>3, AppendFacts
  <2> QED
    BY <2>2, <2>3
<1>3. r.kind = "response" /\ \A i : Request(i) # r
  BY MessageFacts
<1> HIDE DEF r
<1>4. Made' = Made
  BY DEF Made
<1>5. Types' /\ Reading'
  BY <1>1, <1>2 DEF Types, Reading
<1>6. Ours'
  BY <1>2, <1>3, <1>4 DEF Ours
<1>7. OnTheWay' /\ NotLost'
  BY <1>2, <1>3, <1>4 DEF OnTheWay, NotLost, Once, Replied
<1>8. DoneOK'
  BY <1>2, <1>3 DEF DoneOK, CallOK
<1> QED
  BY <1>5, <1>6, <1>7, <1>8

-----------------------------------------------------------------------------
(* The other side.                                                         *)

\* What arrives does not change what is being read.
LEMMA ArrivalFacts ==
  ASSUME IInv, NEW m \in Messages, toUs' = Append(toUs, m), UNCHANGED <<reading, writing>>
  PROVE  /\ toUs' \in Seq(Messages) /\ Range(toUs') = Range(toUs) \cup {m}
         /\ Reading'
<1>1. toUs \in Seq(Messages)
  BY DEF IInv, Types
<1>2. toUs' \in Seq(Messages) /\ Range(toUs') = Range(toUs) \cup {m}
  BY <1>1, AppendFacts
<1>3. toUs # <<>> => toUs' # <<>> /\ Head(toUs') = Head(toUs)
  <2>1. ASSUME toUs # <<>> PROVE toUs' # <<>> /\ Head(toUs') = Head(toUs)
    <3>1. Len(toUs) \in Nat \ {0} /\ Head(toUs) = toUs[1]
      BY <1>1, <2>1, EmptySeq, LenProperties, HeadTailProperties
    <3>2. Len(toUs') = Len(toUs) + 1 /\ toUs'[1] = toUs[1]
      BY <1>1, <3>1, AppendProperties
    <3>3. toUs' # <<>>
      BY <1>2, <3>1, <3>2, EmptySeq
    <3> QED
      BY <1>2, <3>1, <3>2, <3>3, HeadTailProperties
  <2> QED
    BY <2>1
<1> QED
  BY <1>2, <1>3 DEF IInv, Reading

LEMMA TheyAnswerInv ==
  ASSUME IInv, NEW n \in DOMAIN toThem, TheyAnswer(n)
  PROVE  IInv'
<1> USE DEF IInv
<1>1. n \in 1 .. Len(toThem) /\ toThem \in Seq(Messages) /\ Once(toThem)
  BY LenProperties DEF Types, OnTheWay
<1>2. PICK i : i = toThem[n].id
  OBVIOUS
<1>3. /\ toThem' \in Seq(Messages) /\ Once(toThem')
      /\ Range(toThem) = Range(toThem') \cup {Request(i)} /\ Request(i) \notin Range(toThem')
      /\ toThem[n] = Request(i)
      /\ UNCHANGED <<err, nextID, calls, call, in, out, reading, writing, theirs>>
  <2>1. /\ toThem[n] \in Messages /\ RemoveAt(toThem, n) \in Seq(Messages) /\ Once(RemoveAt(toThem, n))
        /\ Range(toThem) = Range(RemoveAt(toThem, n)) \cup {toThem[n]}
        /\ toThem[n].kind = "request" => toThem[n] \notin Range(RemoveAt(toThem, n))
    BY <1>1, RemoveFacts
  <2>2. toThem[n] = Request(i)
    BY <1>2, <2>1, MessageFacts DEF TheyAnswer
  <2> QED
    BY <2>1, <2>2, MessageFacts DEF TheyAnswer
<1>4. i \in Made /\ i \in 0 .. MaxCalls + MaxRequests
  <2>1. i \in Made
    BY <1>3, MessageFacts DEF Ours
  <2> QED
    BY <2>1, MadeFacts
<1>5. PICK m \in {Response(i), Wrong(i)} : toUs' = Append(toUs, m)
  BY <1>2 DEF TheyAnswer
<1>6. m \in Messages /\ m.kind # "request" /\ m.id = i
  BY <1>4, MessageFacts
<1>7. toUs' \in Seq(Messages) /\ Range(toUs') = Range(toUs) \cup {m} /\ Reading'
  BY <1>3, <1>5, <1>6, ArrivalFacts
<1>8. Made' = Made
  BY <1>3 DEF Made
<1>9. Types'
  BY <1>3, <1>7 DEF Types
<1>10. Ours'
  BY <1>3, <1>4, <1>6, <1>7, <1>8 DEF Ours
<1>11. OnTheWay' /\ NotLost'
  <2>1. ASSUME NEW j \in Made, j # i
        PROVE  /\ Request(j) \in Range(toThem') <=> Request(j) \in Range(toThem)
               /\ Replied(j)' <=> Replied(j)
    BY <1>3, <1>5, <1>7, <2>1, MessageFacts DEF Replied
  <2>2. /\ Request(i) \in Range(toThem)
        /\ Request(i) \notin Range(toThem')
        /\ Replied(i)'
    BY <1>3, <1>5, <1>7 DEF Replied
  <2>3. Request(i) \notin Range(out) /\ writing.msg # Request(i)
    BY <1>4, <2>2 DEF OnTheWay
  <2>4. OnTheWay'
    BY <1>3, <1>8, <2>1, <2>2, <2>3 DEF OnTheWay
  <2>5. NotLost'
    BY <1>3, <1>8, <2>1, <2>2 DEF NotLost
  <2> QED
    BY <2>4, <2>5
<1>12. DoneOK'
  BY <1>3 DEF DoneOK, CallOK
<1> QED
  BY <1>7, <1>9, <1>10, <1>11, <1>12

LEMMA TheyTakeInv ==
  ASSUME IInv, TheyTake
  PROVE  IInv'
<1> USE DEF IInv, TheyTake
<1>1. /\ toThem' \in Seq(Messages) /\ Once(toThem') /\ Range(toThem) = Range(toThem') \cup {Head(toThem)}
      /\ \A i : Request(i) # Head(toThem)
  <2>1. toThem \in Seq(Messages) /\ Once(toThem)
    BY DEF Types, OnTheWay
  <2> QED
    BY <2>1, TailFacts, MessageFacts
<1>2. Made' = Made
  BY DEF Made
<1>3. Types' /\ Reading'
  BY <1>1 DEF Types, Reading
<1>4. Ours'
  BY <1>1, <1>2 DEF Ours
<1>5. OnTheWay' /\ NotLost'
  BY <1>1, <1>2 DEF OnTheWay, NotLost, Once, Replied
<1>6. DoneOK'
  BY DEF DoneOK, CallOK
<1> QED
  BY <1>3, <1>4, <1>5, <1>6

LEMMA TheyRequestInv ==
  ASSUME IInv, TheyRequest
  PROVE  IInv'
<1> USE DEF IInv, TheyRequest
<1>1. PICK k \in 0 .. MaxRequests : k = theirs' /\ k \in 0 .. MaxCalls + MaxRequests
  BY PeerAssumption DEF Types
<1>2. toUs' = Append(toUs, Request(k)) /\ Request(k) \in Messages /\ Request(k).kind = "request"
  BY <1>1, MessageFacts
<1>3. toUs' \in Seq(Messages) /\ Range(toUs') = Range(toUs) \cup {Request(k)} /\ Reading'
  BY <1>2, ArrivalFacts
<1>4. Made' = Made
  BY DEF Made
<1>5. Types'
  BY <1>1, <1>3 DEF Types
<1>6. Ours'
  BY <1>2, <1>3, <1>4 DEF Ours
<1>7. OnTheWay' /\ NotLost'
  <2>1. \A i : Replied(i)' <=> Replied(i)
    BY <1>3, MessageFacts DEF Replied
  <2> QED
    BY <1>4, <2>1 DEF OnTheWay, NotLost, Once
<1>8. DoneOK'
  BY DEF DoneOK, CallOK
<1> QED
  BY <1>3, <1>5, <1>6, <1>7, <1>8

-----------------------------------------------------------------------------
(* The invariant, and what it says of the properties of Peer.              *)

LEMMA InitInv ==
  ASSUME Init
  PROVE  IInv
<1> USE DEF Init
<1>1. Range(out) = {} /\ Range(toThem) = {} /\ Range(toUs) = {} /\ Len(out) = 0 /\ Len(toThem) = 0
  <2>1. Range(<<>>) = {} /\ Len(<<>>) = 0
    BY DEF Range
  <2> QED
    BY <2>1
<1>2. Made = {} /\ nextID \in 1 .. MaxCalls + 1 /\ theirs \in 0 .. MaxRequests
  BY PeerAssumption DEF Made
<1>3. Types
  <2>1. /\ in \in Seq({m \in Messages : m.kind = "request"})
        /\ out \in Seq(Messages) /\ toThem \in Seq(Messages) /\ toUs \in Seq(Messages)
    BY EmptySeq
  <2>2. call \in [Ids -> [caller : {"absent", "waiting", "returned"}, done : BOOLEAN,
                          err : Errors, answered : BOOLEAN]]
    BY DEF NoCall, Errors
  <2> QED
    BY <1>2, <2>1, <2>2, MessageFacts DEF Types, Errors
<1>4. Ours /\ OnTheWay /\ NotLost /\ Reading
  BY <1>1, <1>2, MessageFacts DEF Ours, OnTheWay, NotLost, Reading, Once
<1>5. DoneOK
  BY DEF DoneOK, CallOK, NoCall
<1> QED
  BY <1>3, <1>4, <1>5 DEF IInv

LEMMA NextInv ==
  ASSUME IInv, [Next]_vars
  PROVE  IInv'
<1>1. CASE Disconnect
  <2>1. "closing" \in Errors \ {"none"} /\ err' = ErrAfter("closing")
    BY <1>1 DEF Errors, Disconnect, ErrAfter
  <2> QED
    BY <1>1, <2>1, EndsInv DEF Disconnect
<1>2. CASE ReadFails
  <2>1. "read" \in Errors \ {"none"}
    BY DEF Errors
  <2> QED
    BY <1>2, <2>1, EndsInv DEF ReadFails, Stop
<1>3. CASE WriteEnds
  <2>1. "write" \in Errors \ {"none"}
    BY DEF Errors
  <2> QED
    BY <1>3, <2>1, EndsInv DEF WriteEnds
<1>4. CASE UNCHANGED vars
  <2>1. Types' /\ Ours' /\ Reading'
    BY <1>4 DEF IInv, vars, Types, Ours, Made, Reading
  <2>2. OnTheWay' /\ NotLost'
    BY <1>4 DEF IInv, vars, OnTheWay, NotLost, Made, Once, Replied
  <2>3. DoneOK'
    BY <1>4 DEF IInv, vars, DoneOK, CallOK
  <2> QED
    BY <2>1, <2>2, <2>3 DEF IInv
<1> QED
  BY <1>1, <1>2, <1>3, <1>4, RPCInv, CallerInv, ReadHeaderInv, ReadBodyInv, ReadBodyPanicsInv,
     TakeOutInv, WriteInv, AnswerInv, TheyAnswerInv, TheyTakeInv, TheyRequestInv DEF Next, They

\* A request in p.out, being written or with the other side has no answer, so that a
\* call is in one place of the five.
LEMMA InvPeer ==
  ASSUME IInv
  PROVE  PeerInv
<1> USE DEF IInv
<1>1. TypeOK
  <2>1. /\ \A m \in Range(in) : m \in Messages /\ m.kind = "request"
        /\ Range(out) \subseteq Messages /\ Range(toThem) \subseteq Messages
        /\ Range(toUs) \subseteq Messages
    <3>1. ASSUME NEW S, NEW s \in Seq(S) PROVE Range(s) \subseteq S
      BY ElementOfSeq, LenProperties DEF Range
    <3> QED
      BY <3>1 DEF Types
  <2> QED
    BY <2>1 DEF Types, TypeOK
<1>2. OwnAnswer
  BY DEF DoneOK, CallOK, OwnAnswer
<1>3. FilledWhenReturned
  <2>1. SUFFICES ASSUME reading.pc = "body", reading.msg.kind = "response",
                        call[reading.msg.id].caller = "returned", call[reading.msg.id].err = "none"
                 PROVE  FALSE
    BY DEF FilledWhenReturned
  <2>2. PICK i \in Ids : i = reading.msg.id /\ reading.msg = Response(i)
    BY <2>1, ReadingFacts, MadeFacts
  <2> QED
    BY <2>1, <2>2 DEF DoneOK, CallOK
<1>4. EachCallSomewhere
  <2>1. SUFFICES ASSUME err = "none", NEW i \in Made
                 PROVE  \E k \in 1 .. 5 : Places(i)[k] /\ \A l \in (1 .. 5) \ {k} : ~Places(i)[l]
    BY DEF EachCallSomewhere, Made
  <2>2. /\ Places(i)[1] <=> Request(i) \in Range(out)
        /\ Places(i)[2] <=> writing.msg = Request(i)
        /\ Places(i)[3] <=> Request(i) \in Range(toThem)
        /\ Places(i)[4] <=> (Response(i) \in Range(toUs) \/ Wrong(i) \in Range(toUs)) /\ ~call[i].answered
        /\ Places(i)[5] <=> call[i].answered
    BY DEF Places
  <2>3. \A l \in 1 .. 5 : l = 1 \/ l = 2 \/ l = 3 \/ l = 4 \/ l = 5
    OBVIOUS
  <2>4. Places(i)[1] => ~Places(i)[2] /\ ~Places(i)[3] /\ ~Places(i)[4] /\ ~Places(i)[5]
    BY <2>2 DEF OnTheWay, Replied
  <2>5. Places(i)[2] => ~Places(i)[1] /\ ~Places(i)[3] /\ ~Places(i)[4] /\ ~Places(i)[5]
    BY <2>2 DEF OnTheWay, Replied
  <2>6. Places(i)[3] => ~Places(i)[1] /\ ~Places(i)[2] /\ ~Places(i)[4] /\ ~Places(i)[5]
    BY <2>2 DEF OnTheWay, Replied
  <2>7. Places(i)[1] \/ Places(i)[2] \/ Places(i)[3] \/ Places(i)[4] \/ Places(i)[5]
    BY <2>1, <2>2 DEF NotLost, Replied
  <2>8. ~(Places(i)[4] /\ Places(i)[5])
    BY <2>2
  <2> QED
    BY <2>3, <2>4, <2>5, <2>6, <2>7, <2>8
<1> QED
  BY <1>1, <1>2, <1>3, <1>4 DEF PeerInv

\* Through every interleaving of RPC, Wait, Cancel, handleIn, handleOut and the
\* Syncer's answers, for any number of calls: requests and responses are where a
\* connection in order has them.
THEOREM PeerInductive == Spec => []IInv
<1>1. Init => IInv
  BY InitInv
<1>2. IInv /\ [Next]_vars => IInv'
  BY NextInv
<1> QED
  BY <1>1, <1>2, PTL DEF Spec

\* RPC, setErr and handleIn: Wait returns an error or the call's own answer (unless
\* that is of the wrong type), the response of a caller that has gone on is not
\* written to, and no request that RPC queued is lost or doubled while the peer has
\* no error.
THEOREM PeerSafe == Spec => []PeerInv
<1>1. IInv => PeerInv
  BY InvPeer
<1> QED
  BY <1>1, PeerInductive, PTL
=============================================================================
