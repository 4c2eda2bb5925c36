--------------------------- MODULE RelayClientProofs ---------------------------
(* Proofs that a client never has two requests in flight, loses no push and *)
(* takes none for a reply, and gets the answers to its own requests.        *)
EXTENDS RelayClient, SequenceTheorems, TLAPS

\* The types of the initial state.
LEMMA InitType == Init => TypeOK /\ HeldOK
<1> SUFFICES ASSUME Init PROVE TypeOK /\ HeldOK
  OBVIOUS
<1> USE ClientAssumption DEF Init
<1>1. WireTypes
  BY DEF WireTypes
<1>2. CallTypes
  BY DEF CallTypes
<1>3. ReaderTypes
  <2>1. events \in Seq(Envelopes) /\ Len(events) <= EventsCap
    OBVIOUS
  <2>2. shown \in Seq(Envelopes)
    OBVIOUS
  <2>3. held \in Envelopes \cup {NoEnv} /\ snap \in Requests \cup {Nobody}
    OBVIOUS
  <2>4. QED BY <2>1, <2>2, <2>3 DEF ReaderTypes
<1>4. HeldOK
  BY DEF HeldOK
<1>5. QED BY <1>1, <1>2, <1>3, <1>4 DEF TypeOK

\* Every step of request() keeps the types.
LEMMA CallType ==
  ASSUME TypeOK, HeldOK, NEW r \in Requests, Call(r)
  PROVE  TypeOK' /\ HeldOK'
<1> USE DEF TypeOK
<1>1. WireTypes'
  <2>1. /\ UNCHANGED <<conn, sent, wire, pushed>>
        /\ reqs' = reqs \/ reqs' = Append(reqs, r)
    BY DEF Call, InFlight, Begin, Write, Receive, SeeDone, Timeout, Release
  <2>2. Append(reqs, r) \in Seq(Requests \cup Relays)
    BY DEF WireTypes
  <2>3. QED BY <2>1, <2>2 DEF WireTypes
<1>2. CallTypes'
  <2>1. CASE Begin(r)
    BY <2>1 DEF CallTypes, Begin, Goto, Return, Failures
  <2>2. CASE Write(r)
    BY <2>2 DEF CallTypes, Write, Goto, Return, Failures
  <2>3. CASE Receive(r)
    BY <2>3 DEF CallTypes, Receive, Goto, Return
  <2>4. CASE SeeDone(r) \/ Timeout(r)
    BY <2>4 DEF CallTypes, SeeDone, Timeout, Goto, Return, Failures
  <2>5. CASE Release(r)
    BY <2>5 DEF CallTypes, Release, Goto
  <2>6. QED BY <2>1, <2>2, <2>3, <2>4, <2>5 DEF Call, InFlight
<1>3. UNCHANGED <<readerVars, uiVars>>
  BY DEF Call, InFlight, Begin, Write, Receive, SeeDone, Timeout, Release
<1>4. ReaderTypes'
  BY <1>3 DEF ReaderTypes, readerVars, uiVars
<1>5. HeldOK'
  <2>1. waiting' => replyCh' \in Requests
    BY DEF HeldOK, Call, InFlight, Begin, Write, Receive, SeeDone, Timeout, Release
  <2>2. QED BY <1>3, <2>1 DEF HeldOK, readerVars
<1>6. QED BY <1>1, <1>2, <1>4, <1>5

\* What the server, the connection and SendRelay do to the wire.
LEMMA WireType ==
  ASSUME TypeOK, HeldOK, Push \/ Answer \/ CloseConn \/ \E m \in Relays : SendRelay(m)
  PROVE  TypeOK' /\ HeldOK'
<1> USE DEF TypeOK
<1>1. UNCHANGED <<clientVars, readerVars, uiVars>>
  BY DEF Push, Answer, CloseConn, SendRelay
<1>2. CallTypes' /\ ReaderTypes' /\ HeldOK'
  BY <1>1 DEF CallTypes, ReaderTypes, HeldOK, clientVars, readerVars, uiVars
<1>3. WireTypes'
  <2>1. CASE Push
    <3>1. pushed + 1 \in 1..MaxPushes
      BY <2>1, ClientAssumption DEF Push, WireTypes
    <3>2. Env("push", pushed + 1) \in Envelopes
      BY <3>1 DEF Env, Envelopes
    <3>3. QED BY <2>1, <3>1, <3>2, ClientAssumption DEF Push, WireTypes
  <2>2. CASE Answer
    <3>1. Head(reqs) \in Requests \cup Relays /\ Tail(reqs) \in Seq(Requests \cup Relays)
      BY <2>2 DEF Answer, WireTypes
    <3>2. /\ Head(reqs) \in Requests => Env("reply", Head(reqs)) \in Envelopes
          /\ Head(reqs) \in Relays => Env("error", Head(reqs)) \in Envelopes
      BY DEF Env, Envelopes, Answers
    <3>3. wire' \in Seq(Envelopes)
      <4>1. CASE Head(reqs) \in Requests
        <5>1. wire' = Append(wire, Env("reply", Head(reqs)))
          BY <2>2, <4>1 DEF Answer
        <5>2. Env("reply", Head(reqs)) \in Envelopes
          BY <3>2, <4>1
        <5>3. QED BY <5>1, <5>2 DEF WireTypes
      <4>2. CASE Head(reqs) \notin Requests
        <5>1. wire' = Append(wire, Env("error", Head(reqs))) \/ wire' = wire
          BY <2>2, <4>2 DEF Answer
        <5>2. Env("error", Head(reqs)) \in Envelopes
          BY <3>1, <3>2, <4>2
        <5>3. QED BY <5>1, <5>2 DEF WireTypes
      <4>3. QED BY <4>1, <4>2
    <3>4. QED BY <2>2, <3>1, <3>3 DEF Answer, WireTypes
  <2>3. CASE CloseConn
    <3>1. reqs' \in Seq(Requests \cup Relays)
      BY <2>3 DEF CloseConn
    <3>2. wire' \in Seq(Envelopes)
      <4>1. <<>> \in Seq(Envelopes)
        OBVIOUS
      <4>2. QED BY <2>3, <4>1 DEF CloseConn, WireTypes
    <3>3. QED BY <2>3, <3>1, <3>2 DEF CloseConn, WireTypes
  <2>4. CASE \E m \in Relays : SendRelay(m)
    BY <2>4 DEF SendRelay, WireTypes
  <2>5. QED BY <2>1, <2>2, <2>3, <2>4
<1>4. QED BY <1>2, <1>3

\* readLoop and the UI's pump keep the types; in particular what readLoop
\* puts in a reply channel is never a push.
LEMMA ReaderType ==
  ASSUME TypeOK, HeldOK, Reader \/ OpenChat \/ Consume
  PROVE  TypeOK' /\ HeldOK'
<1> USE ClientAssumption DEF TypeOK
<1>1. CASE ReadNext
  <2>1. Head(wire) \in Envelopes /\ Tail(wire) \in Seq(Envelopes)
    BY <1>1 DEF ReadNext, WireTypes
  <2>2. Head(wire).type # "push" => Head(wire) \in Answers
    BY <2>1 DEF Envelopes
  <2>3. WireTypes'
    BY <1>1, <2>1 DEF ReadNext, WireTypes
  <2>4. CallTypes'
    BY <1>1 DEF ReadNext, CallTypes, clientVars
  <2>5. ReaderTypes' /\ HeldOK'
    <3>1. CASE Head(wire).type # "push" /\ waiting
      BY <1>1, <2>1, <2>2, <3>1 DEF ReadNext, Hold, ReaderTypes, HeldOK, clientVars, uiVars
    <3>2. CASE ~(Head(wire).type # "push" /\ waiting)
      BY <1>1, <2>1, <3>2 DEF ReadNext, Hold, ReaderTypes, HeldOK, clientVars, uiVars
    <3>3. QED BY <3>1, <3>2
  <2>6. QED BY <2>3, <2>4, <2>5
<1>2. CASE PushEvent
  <2>1. events' \in Seq(Envelopes) /\ Len(events') <= EventsCap
    BY <1>2 DEF PushEvent, ReaderTypes, HeldOK
  <2>2. WireTypes' /\ CallTypes'
    BY <1>2 DEF PushEvent, WireTypes, CallTypes, clientVars
  <2>3. ReaderTypes' /\ HeldOK'
    BY <1>2, <2>1 DEF PushEvent, Hold, ReaderTypes, HeldOK, clientVars, uiVars
  <2>4. QED BY <2>2, <2>3
<1>3. CASE PutReply
  <2>1. WireTypes' /\ CallTypes'
    BY <1>3 DEF PutReply, WireTypes, CallTypes, HeldOK
  <2>2. ReaderTypes' /\ HeldOK'
    BY <1>3 DEF PutReply, Hold, ReaderTypes, HeldOK, uiVars
  <2>3. QED BY <2>1, <2>2
<1>4. CASE Stop
  <2>1. WireTypes' /\ CallTypes'
    BY <1>4 DEF Stop, WireTypes, CallTypes, clientVars
  <2>2. ReaderTypes' /\ HeldOK'
    BY <1>4 DEF Stop, Hold, ReaderTypes, HeldOK, clientVars, uiVars
  <2>3. QED BY <2>1, <2>2
<1>5. CASE OpenChat \/ Consume
  <2>1. WireTypes' /\ CallTypes' /\ HeldOK'
    BY <1>5 DEF OpenChat, Consume, WireTypes, CallTypes, HeldOK, clientVars, readerVars
  <2>2. CASE OpenChat
    BY <2>1, <2>2 DEF OpenChat, ReaderTypes, readerVars
  <2>3. CASE Consume
    <3>1. shown' \in Seq(Envelopes)
      BY <2>3 DEF Consume, ReaderTypes
    <3>2. events' \in Seq(Envelopes) /\ Len(events') <= EventsCap
      BY <2>3 DEF Consume, ReaderTypes
    <3>3. ReaderTypes'
      BY <2>3, <3>1, <3>2 DEF Consume, ReaderTypes
    <3>4. QED BY <2>1, <3>3
  <2>4. QED BY <1>5, <2>2, <2>3
<1>6. QED BY <1>1, <1>2, <1>3, <1>4, <1>5 DEF Reader

\* Every step keeps every variable's type.
LEMMA NextType == TypeOK /\ HeldOK /\ [Next]_vars => TypeOK' /\ HeldOK'
<1> SUFFICES ASSUME TypeOK, HeldOK, [Next]_vars PROVE TypeOK' /\ HeldOK'
  OBVIOUS
<1>1. CASE UNCHANGED vars
  <2>1. WireTypes' /\ CallTypes'
    BY <1>1 DEF TypeOK, vars, WireTypes, CallTypes, clientVars
  <2>2. ReaderTypes' /\ HeldOK'
    BY <1>1 DEF TypeOK, vars, ReaderTypes, HeldOK, clientVars, readerVars, uiVars
  <2>3. QED BY <2>1, <2>2 DEF TypeOK
<1>2. CASE Next
  BY <1>2, CallType, WireType, ReaderType DEF Next
<1>3. QED BY <1>1, <1>2

\* Only request() moves the flag, the channel and the calls.
LEMMA OthersKeepFlight ==
  ASSUME [Next]_vars, \A r \in Requests : ~Call(r)
  PROVE  UNCHANGED <<pc, waiting, replyCh>>
BY DEF Next, vars, SendRelay, Push, Answer, CloseConn, Reader, ReadNext, PushEvent,
       PutReply, Stop, OpenChat, Consume, clientVars

\* At most one call is between its two critical sections: the first is
\* entered only while waiting is clear, and only its owner clears it.
LEMMA NextOneInFlight == TypeOK /\ OneInFlight /\ [Next]_vars => OneInFlight'
<1> SUFFICES ASSUME TypeOK, OneInFlight, [Next]_vars PROVE OneInFlight'
  OBVIOUS
<1> USE DEF TypeOK, CallTypes, OneInFlight, Busy
<1>1. ASSUME NEW r \in Requests, Begin(r) PROVE OneInFlight'
  <2>1. CASE waiting
    BY <1>1, <2>1 DEF Begin, Goto
  <2>2. CASE ~waiting
    BY <1>1, <2>2 DEF Begin, Goto
  <2>3. QED BY <2>1, <2>2
<1>2. ASSUME NEW r \in Requests, Write(r) \/ Receive(r) \/ SeeDone(r) \/ Timeout(r)
      PROVE  OneInFlight'
  <2>1. Busy(r) /\ Busy(r)' /\ UNCHANGED <<waiting, replyCh>>
    BY <1>2, SMTT(60) DEF Write, Receive, SeeDone, Timeout, Goto
  <2>2. \A s \in Requests : s # r => pc'[s] = pc[s]
    BY <1>2, SMTT(60) DEF Write, Receive, SeeDone, Timeout, Goto
  <2>3. QED BY <2>1, <2>2
<1>3. ASSUME NEW r \in Requests, Release(r) PROVE OneInFlight'
  BY <1>3 DEF Release, Goto
<1>4. CASE \A r \in Requests : ~Call(r)
  BY <1>4, OthersKeepFlight
<1>5. QED BY <1>1, <1>2, <1>3, <1>4 DEF Call, InFlight

-------------------------------------------------------------------------------
(* The stream of pushes: shown, then events, then what readLoop holds, then *)
(* the wire.  A step appends to it, takes an answer out, or only moves the  *)
(* border between its parts.                                                *)

Stream == shown \o InTransit

LEMMA NextPush ==
  ASSUME NEW s \in Seq(Envelopes), NEW k \in Nat, HasPushes(s, k),
         k + 1 \in 1..MaxPushes
  PROVE  HasPushes(Append(s, Env("push", k + 1)), k + 1)
<1> DEFINE e == Env("push", k + 1)
           t == Append(s, e)
<1>1. e \in Envelopes /\ IsPush(e) /\ e.id = k + 1
  BY DEF Env, Envelopes, IsPush
<1>2. /\ DOMAIN s = 1..Len(s) /\ DOMAIN t = 1..(Len(s) + 1) /\ Len(s) \in Nat
      /\ \A i \in 1..Len(s) : t[i] = s[i]
      /\ t[Len(s) + 1] = e
  BY <1>1, AppendProperties, LenProperties
<1> HIDE DEF e, t
<1>3. \A i \in DOMAIN t : IsPush(t[i]) => t[i].id \in 1..(k + 1)
  BY <1>1, <1>2 DEF HasPushes
<1>4. \A i, j \in DOMAIN t : IsPush(t[i]) /\ IsPush(t[j]) /\ i < j => t[i].id < t[j].id
  BY <1>1, <1>2, SMTT(20) DEF HasPushes
<1>5. \A n \in 1..(k + 1) : \E i \in DOMAIN t : t[i] = Env("push", n)
  BY <1>2 DEF HasPushes, e
<1>6. QED BY <1>3, <1>4, <1>5 DEF HasPushes, t, e

LEMMA NextAnswer ==
  ASSUME NEW s \in Seq(Envelopes), NEW k \in Nat, HasPushes(s, k),
         NEW e \in Envelopes, ~IsPush(e)
  PROVE  HasPushes(Append(s, e), k)
<1> DEFINE t == Append(s, e)
<1>1. /\ DOMAIN s = 1..Len(s) /\ DOMAIN t = 1..(Len(s) + 1) /\ Len(s) \in Nat
      /\ \A i \in 1..Len(s) : t[i] = s[i]
      /\ t[Len(s) + 1] = e
  BY AppendProperties, LenProperties
<1> HIDE DEF t
<1>2. QED BY <1>1 DEF HasPushes, t

\* Taking an answer out of the stream leaves the pushes as they are.
LEMMA AnswerTaken ==
  ASSUME NEW s \in Seq(Envelopes), NEW t \in Seq(Envelopes), t # <<>>, NEW k \in Nat,
         ~IsPush(Head(t)), HasPushes(s \o t, k)
  PROVE  HasPushes(s \o Tail(t), k)
<1> DEFINE a == s \o t
           b == s \o Tail(t)
           m == Len(s)
           At(i) == IF i <= m THEN i ELSE i + 1
<1>1. /\ m \in Nat /\ Len(t) \in Nat \ {0} /\ Tail(t) \in Seq(Envelopes)
      /\ Len(Tail(t)) = Len(t) - 1
      /\ \A i \in 1..Len(Tail(t)) : Tail(t)[i] = t[i + 1]
  BY HeadTailProperties, LenProperties, EmptySeq
<1>2. /\ DOMAIN a = 1..(m + Len(t)) /\ DOMAIN b = 1..(m + Len(t) - 1)
      /\ \A i \in 1..(m + Len(t)) : a[i] = IF i <= m THEN s[i] ELSE t[i - m]
      /\ \A i \in 1..(m + Len(t) - 1) : b[i] = IF i <= m THEN s[i] ELSE Tail(t)[i - m]
  BY <1>1, ConcatProperties, LenProperties
<1>3. ~IsPush(a[m + 1])
  BY <1>1, <1>2
<1> HIDE DEF a, b, m
<1>4. \A i \in DOMAIN b : At(i) \in DOMAIN a /\ b[i] = a[At(i)]
  <2>1. ASSUME NEW i \in DOMAIN b, i <= m PROVE i \in DOMAIN a /\ b[i] = a[i]
    BY <2>1, <1>1, <1>2
  <2>2. ASSUME NEW i \in DOMAIN b, i > m PROVE i + 1 \in DOMAIN a /\ b[i] = a[i + 1]
    <3>1. /\ i \in 1..(m + Len(t) - 1) /\ i + 1 \in 1..(m + Len(t)) /\ i - m \in 1..Len(Tail(t))
          /\ (i + 1) - m = (i - m) + 1 /\ ~(i <= m) /\ ~(i + 1 <= m)
      BY <2>2, <1>1, <1>2
    <3>2. b[i] = Tail(t)[i - m] /\ a[i + 1] = t[(i + 1) - m]
      BY <3>1, <1>2
    <3>3. Tail(t)[i - m] = t[(i - m) + 1]
      BY <3>1, <1>1
    <3>4. QED BY <3>1, <3>2, <3>3, <1>2
  <2>3. QED BY <2>1, <2>2, <1>1, <1>2
<1>5. \A i, j \in DOMAIN b : i < j => At(i) < At(j)
  BY <1>1, <1>2
<1>6. \A i \in DOMAIN a \ {m + 1} : \E j \in DOMAIN b : i = At(j)
  <2>1. ASSUME NEW i \in DOMAIN a, i < m + 1 PROVE i \in DOMAIN b /\ i = At(i)
    BY <1>1, <1>2, <2>1
  <2>2. ASSUME NEW i \in DOMAIN a, i > m + 1 PROVE i - 1 \in DOMAIN b /\ i = At(i - 1)
    BY <1>1, <1>2, <2>2
  <2>3. QED BY <1>1, <1>2, <2>1, <2>2
<1> HIDE DEF At
<1>7. \A i \in DOMAIN b : IsPush(b[i]) => b[i].id \in 1..k
  BY <1>4 DEF HasPushes, a
<1>8. \A i, j \in DOMAIN b : IsPush(b[i]) /\ IsPush(b[j]) /\ i < j => b[i].id < b[j].id
  BY <1>4, <1>5 DEF HasPushes, a
<1>9. ASSUME NEW n \in 1..k PROVE \E i \in DOMAIN b : b[i] = Env("push", n)
  <2>1. PICK i \in DOMAIN a : a[i] = Env("push", n)
    BY DEF HasPushes, a
  <2>2. i # m + 1
    BY <1>3, <2>1 DEF IsPush, Env
  <2>3. QED BY <1>4, <1>6, <2>1, <2>2
<1>10. QED BY <1>7, <1>8, <1>9 DEF HasPushes, b

\* The first of t moves to the end of s.
LEMMA BorderMoves ==
  ASSUME NEW s \in Seq(Envelopes), NEW t \in Seq(Envelopes), t # <<>>
  PROVE  Append(s, Head(t)) \o Tail(t) = s \o t
<1>1. Head(t) \in Envelopes /\ Tail(t) \in Seq(Envelopes)
  BY HeadTailProperties
<1>2. t = <<Head(t)>> \o Tail(t)
  <2>1. <<Head(t)>> \in Seq(Envelopes)
    BY <1>1
  <2>2. /\ Len(<<Head(t)>> \o Tail(t)) = Len(t) /\ Len(t) \in Nat
        /\ <<Head(t)>> \o Tail(t) \in Seq(Envelopes)
        /\ \A i \in 1..Len(t) : (<<Head(t)>> \o Tail(t))[i] = t[i]
    BY <1>1, <2>1, HeadTailProperties, ConcatProperties, LenProperties
  <2>3. QED BY <2>2, SeqEqual
<1>3. Append(s, Head(t)) = s \o <<Head(t)>> /\ <<Head(t)>> \in Seq(Envelopes)
  BY <1>1, AppendIsConcat
<1>4. QED BY <1>1, <1>2, <1>3, ConcatAssociative

LEMMA Reassociate ==
  ASSUME NEW s \in Seq(Envelopes), NEW t \in Seq(Envelopes), NEW u \in Seq(Envelopes)
  PROVE  s \o (t \o u) = (s \o t) \o u
  BY ConcatAssociative, SMTT(20)

Holding == IF rl = "event" THEN <<held>> ELSE <<>>

InParts ==
  /\ shown \in Seq(Envelopes) /\ events \in Seq(Envelopes)
  /\ Holding \in Seq(Envelopes) /\ wire \in Seq(Envelopes)
  /\ Stream \in Seq(Envelopes)
  /\ Stream = ((shown \o events) \o Holding) \o wire

LEMMA StreamParts == TypeOK /\ HeldOK => InParts
<1> SUFFICES ASSUME TypeOK, HeldOK PROVE InParts
  OBVIOUS
<1>1. /\ shown \in Seq(Envelopes) /\ events \in Seq(Envelopes) /\ wire \in Seq(Envelopes)
      /\ Holding \in Seq(Envelopes)
  BY DEF TypeOK, ReaderTypes, WireTypes, HeldOK, Holding
<1>2. Stream = shown \o ((events \o Holding) \o wire)
  BY DEF Stream, InTransit, Holding
<1> HIDE DEF Holding
<1>3. Stream = ((shown \o events) \o Holding) \o wire
  <2>1. shown \o ((events \o Holding) \o wire) = ((shown \o events) \o Holding) \o wire
    BY <1>1
  <2>2. QED BY <1>2, <2>1
<1>4. Stream \in Seq(Envelopes)
  BY <1>1, <1>3, ConcatProperties
<1>5. QED BY <1>1, <1>3, <1>4 DEF InParts

\* How a step changes what the UI has seen and will see.
LEMMA StreamStep ==
  ASSUME TypeOK, HeldOK, TypeOK', HeldOK', conn = "open", conn' = "open",
         HasPushes(Stream, pushed), Next
  PROVE  HasPushes(Stream', pushed')
<1>0. pushed \in Nat
  BY ClientAssumption DEF TypeOK, WireTypes
<1>1. /\ Stream = ((shown \o events) \o Holding) \o wire
      /\ Stream' = ((shown' \o events') \o Holding') \o wire'
      /\ shown \in Seq(Envelopes) /\ events \in Seq(Envelopes) /\ Stream \in Seq(Envelopes)
      /\ Holding \in Seq(Envelopes) /\ wire \in Seq(Envelopes)
  <2>1. TypeOK' /\ HeldOK' => InParts'
    BY StreamParts, PTL
  <2>2. QED BY <2>1, StreamParts DEF InParts
<1> USE DEF TypeOK
<1>2. ASSUME NEW e \in Envelopes, wire' = Append(wire, e),
             UNCHANGED <<shown, events, rl, held>>
      PROVE  Stream' = Append(Stream, e)
  <2>1. Holding' = Holding
    BY <1>2 DEF Holding
  <2>2. <<e>> \in Seq(Envelopes) /\ wire' = wire \o <<e>>
    BY <1>1, <1>2, AppendIsConcat
  <2> DEFINE s == (shown \o events) \o Holding
  <2>3. s \in Seq(Envelopes)
    BY <1>1, ConcatProperties
  <2>4. Stream' = s \o wire' /\ Stream = s \o wire
    BY <1>1, <1>2, <2>1
  <2> DEFINE last == <<e>>
  <2> HIDE DEF s, last
  <2>5. s \o (wire \o last) = (s \o wire) \o last
    <3>1. last \in Seq(Envelopes)
      BY <2>2 DEF last
    <3>2. wire \in Seq(Envelopes)
      BY <1>1
    <3>3. QED BY ONLY <2>3, <3>1, <3>2, Reassociate
  <2>6. QED BY <1>1, <2>2, <2>4, <2>5, AppendIsConcat DEF last
<1>3. CASE Push
  <2> DEFINE e == Env("push", pushed + 1)
  <2>1. pushed + 1 \in 1..MaxPushes /\ pushed' = pushed + 1
    BY <1>3, ClientAssumption DEF Push, WireTypes
  <2>2. e \in Envelopes
    BY <2>1 DEF Env, Envelopes
  <2>3. wire' = Append(wire, e) /\ UNCHANGED <<shown, events, rl, held>>
    BY <1>3 DEF Push, readerVars, uiVars
  <2> HIDE DEF e
  <2>4. Stream' = Append(Stream, e)
    BY <1>2, <2>2, <2>3
  <2>5. QED BY <1>0, <1>1, <2>1, <2>4, NextPush DEF e
<1>4. CASE Answer
  <2>1. UNCHANGED <<shown, events, rl, held, pushed>>
    BY <1>4 DEF Answer, readerVars, uiVars
  <2>2. CASE UNCHANGED wire
    BY <2>1, <2>2 DEF Stream, InTransit
  <2>3. ASSUME NEW type \in {"reply", "error"}, wire' = Append(wire, Env(type, Head(reqs))),
               Env(type, Head(reqs)) \in Envelopes
        PROVE  HasPushes(Stream', pushed')
    <3>1. Stream' = Append(Stream, Env(type, Head(reqs)))
      BY <1>2, <2>1, <2>3
    <3>2. ~IsPush(Env(type, Head(reqs)))
      BY DEF Env, IsPush
    <3>3. QED BY <1>0, <1>1, <2>1, <2>3, <3>1, <3>2, NextAnswer
  <2>4. Head(reqs) \in Requests \cup Relays
    BY <1>4 DEF Answer, WireTypes
  <2>5. /\ Head(reqs) \in Requests => Env("reply", Head(reqs)) \in Envelopes
        /\ Head(reqs) \in Relays => Env("error", Head(reqs)) \in Envelopes
    BY DEF Env, Envelopes, Answers
  <2>6. \/ UNCHANGED wire
        \/ Head(reqs) \in Requests /\ wire' = Append(wire, Env("reply", Head(reqs)))
        \/ Head(reqs) \in Relays /\ wire' = Append(wire, Env("error", Head(reqs)))
    BY <1>4, <2>4 DEF Answer
  <2>7. QED BY <2>2, <2>3, <2>5, <2>6
<1>5. CASE ReadNext
  <2>1. wire # <<>> /\ wire' = Tail(wire) /\ UNCHANGED <<shown, events, pushed>>
    BY <1>5 DEF ReadNext, uiVars
  <2>2. Holding = <<>>
    BY <1>5 DEF ReadNext, Holding
  <2>3. shown \o events \in Seq(Envelopes) /\ Stream = (shown \o events) \o wire
    BY <1>1, <2>2, ConcatProperties, ConcatEmptySeq
  <2>4. CASE Head(wire).type # "push" /\ waiting
    <3>1. Holding' = <<>> /\ ~IsPush(Head(wire))
      BY <1>5, <2>4 DEF ReadNext, Hold, Holding, IsPush
    <3>2. Stream' = (shown \o events) \o Tail(wire)
      BY <1>1, <2>1, <2>3, <3>1, ConcatEmptySeq
    <3>3. QED BY <1>0, <1>1, <2>1, <2>3, <3>1, <3>2, AnswerTaken
  <2>5. CASE ~(Head(wire).type # "push" /\ waiting)
    <3>1. Holding' = <<Head(wire)>>
      BY <1>5, <2>5 DEF ReadNext, Hold, Holding
    <3>2. (shown \o events) \o <<Head(wire)>> = Append(shown \o events, Head(wire))
      BY <1>1, <2>1, <2>3, HeadTailProperties, AppendIsConcat
    <3>3. Stream' = Append(shown \o events, Head(wire)) \o Tail(wire)
      BY <1>1, <2>1, <3>1, <3>2
    <3>4. Stream' = Stream
      BY <1>1, <2>1, <2>3, <3>3, BorderMoves
    <3>5. QED BY <2>1, <3>4
  <2>6. QED BY <2>4, <2>5
<1>6. CASE PushEvent
  <2>1. /\ Holding = <<held>> /\ Holding' = <<>> /\ events' = Append(events, held)
        /\ held \in Envelopes /\ UNCHANGED <<shown, wire, pushed>>
    BY <1>6 DEF PushEvent, Hold, Holding, HeldOK, uiVars
  <2>2. Append(events, held) = events \o Holding
    BY <1>1, <2>1, AppendIsConcat
  <2>3. shown \o (events \o Holding) = (shown \o events) \o Holding
    <3>1. shown \in Seq(Envelopes) /\ events \in Seq(Envelopes) /\ Holding \in Seq(Envelopes)
      BY <1>1
    <3>2. QED BY ONLY <3>1, Reassociate
  <2>4. (shown \o events) \o Holding \in Seq(Envelopes)
    BY <1>1, ConcatProperties
  <2>5. (shown' \o events') \o Holding' = (shown \o events) \o Holding
    BY <2>1, <2>2, <2>3, <2>4, ConcatEmptySeq
  <2>6. Stream' = Stream
    BY <1>1, <2>1, <2>5
  <2>7. QED BY <2>1, <2>6
<1>7. CASE Consume
  <2>1. /\ events # <<>> /\ shown' = Append(shown, Head(events)) /\ events' = Tail(events)
        /\ UNCHANGED <<rl, held, wire, pushed>>
    BY <1>7 DEF Consume
  <2>2. shown' \o events' = shown \o events /\ Holding' = Holding
    BY <1>1, <2>1, BorderMoves DEF Holding
  <2>3. Stream' = Stream
    BY <1>1, <2>1, <2>2
  <2>4. QED BY <2>1, <2>3
<1>8. ASSUME UNCHANGED <<shown, events, wire, pushed>>, rl # "event", rl' # "event"
      PROVE  HasPushes(Stream', pushed')
  BY <1>8 DEF Stream, InTransit
<1>9. CASE PutReply
  BY <1>8, <1>9 DEF PutReply, Hold, uiVars
<1>10. CASE \/ \E r \in Requests : Call(r)
            \/ \E m \in Relays : SendRelay(m)
            \/ OpenChat
  <2>1. UNCHANGED <<shown, events, wire, pushed, rl, held>>
    BY <1>10 DEF Call, InFlight, Begin, Write, Receive, SeeDone, Timeout, Release, SendRelay,
       OpenChat, readerVars, uiVars
  <2>2. QED BY <2>1 DEF Stream, InTransit
<1>11. ~CloseConn /\ ~Stop
  BY DEF CloseConn, Stop
<1>12. QED BY <1>3, <1>4, <1>5, <1>6, <1>7, <1>9, <1>10, <1>11 DEF Next, Reader

-------------------------------------------------------------------------------
(* Answers stay in step: while nothing disturbs the connection, at most one *)
(* answer is awaited, it is to the call in flight, and it is in exactly one *)
(* place on its way: asked for, on the wire, in readLoop's hand or in the   *)
(* call's own channel.                                                      *)

Awaiting(r) == replyCh = r /\ pc[r] = "wait"

Ended ==
  /\ conn = "closed" => reqs = <<>>
  /\ rl = "stopped" => conn = "closed" /\ wire = <<>>
  /\ \A r \in Requests : outcome[r] # NoEnv => pc[r] \in {"release", "done"}

AskedFor ==
  /\ Len(reqs) <= 1
  /\ \A i \in DOMAIN reqs :
       /\ reqs[i] \in Requests /\ Awaiting(reqs[i])
       /\ \A j \in DOMAIN wire : IsPush(wire[j])
       /\ rl # "reply" /\ box[reqs[i]] = NoEnv

OnTheWire ==
  \A i \in DOMAIN wire : ~IsPush(wire[i]) =>
    /\ wire[i].id \in Requests /\ Awaiting(wire[i].id)
    /\ \A j \in DOMAIN wire : j # i => IsPush(wire[j])
    /\ rl # "reply" /\ box[wire[i].id] = NoEnv

InHand == rl = "reply" => held.id = snap /\ Awaiting(snap) /\ box[snap] = NoEnv

InBox ==
  \A r \in Requests : box[r] # NoEnv =>
    box[r].id = r /\ (Awaiting(r) \/ rl = "stopped")

OneAnswerAwaited == AskedFor /\ OnTheWire /\ InHand /\ InBox

InStep == Ended /\ (Undisturbed => OneAnswerAwaited /\ ReplyMatches)

LEMMA EndedKept ==
  ASSUME TypeOK, OneInFlight, Ended, Next
  PROVE  Ended'
<1> USE DEF TypeOK, WireTypes, CallTypes, ReaderTypes, Ended
<1>1. ASSUME NEW r \in Requests, Begin(r) PROVE Ended'
  BY <1>1 DEF Begin, Goto, Return, readerVars, uiVars
<1>2. ASSUME NEW r \in Requests, Write(r) PROVE Ended'
  BY <1>2 DEF Write, Goto, Return, readerVars, uiVars
<1>3. ASSUME NEW r \in Requests, Receive(r) \/ SeeDone(r) \/ Timeout(r) \/ Release(r)
      PROVE  Ended'
  BY <1>3 DEF Receive, SeeDone, Timeout, Release, Goto, Return, readerVars, uiVars
<1>4. CASE \/ Push \/ Answer \/ CloseConn \/ OpenChat \/ Consume
           \/ \E m \in Relays : SendRelay(m)
  BY <1>4 DEF Push, Answer, CloseConn, SendRelay, OpenChat, Consume, clientVars, readerVars,
     uiVars
<1>5. CASE Reader
  BY <1>5 DEF Reader, ReadNext, PushEvent, PutReply, Stop, Hold, clientVars, uiVars
<1>6. QED BY <1>1, <1>2, <1>3, <1>4, <1>5 DEF Next, Call, InFlight

\* What is disturbed stays so.
LEMMA StillUndisturbed ==
  ASSUME TypeOK, Ended, Next, Undisturbed'
  PROVE  Undisturbed /\ (\A m \in Relays : ~SendRelay(m)) /\ \A r \in Requests : ~Timeout(r)
<1> USE DEF TypeOK, WireTypes, CallTypes, Ended, Undisturbed
<1>1. ASSUME NEW m \in Relays PROVE ~SendRelay(m)
  BY DEF SendRelay
<1>2. ASSUME NEW r \in Requests PROVE ~Timeout(r)
  BY DEF Timeout, Return, Failed, Env
<1>3. sent = {}
  BY <1>1 DEF Next, Call, InFlight, Begin, Write, Receive, SeeDone, Timeout, Release, Push,
     Answer, CloseConn, Reader, ReadNext, PushEvent, PutReply, Stop, OpenChat, Consume
<1>4. ASSUME NEW r \in Requests PROVE outcome[r].type # "timeout"
  <2>1. CASE outcome'[r] = outcome[r]
    BY <2>1
  <2>2. CASE outcome[r] = NoEnv
    BY <2>2 DEF NoEnv, Env
  <2>3. CASE outcome[r] # NoEnv
    <3>1. pc[r] \in {"release", "done"}
      BY <2>3
    <3>2. ASSUME NEW s \in Requests, Call(s) PROVE outcome'[r] = outcome[r]
      BY <3>1, <3>2 DEF Call, InFlight, Begin, Write, Receive, SeeDone, Timeout, Release,
         Return
    <3>3. ASSUME \A s \in Requests : ~Call(s) PROVE outcome' = outcome
      BY <3>3 DEF Next, SendRelay, Push, Answer, CloseConn, Reader, ReadNext, PushEvent,
         PutReply, Stop, OpenChat, Consume, clientVars
    <3>4. QED BY <2>1, <3>2, <3>3
  <2>4. QED BY <2>2, <2>3
<1>5. QED BY <1>1, <1>2, <1>3, <1>4

LEMMA SomethingAsked == ASSUME TypeOK, reqs # <<>> PROVE 1 \in DOMAIN reqs
  BY DEF TypeOK, WireTypes

\* The calls: Begin finds nothing awaited, and only the call in flight asks,
\* and only it takes its answer.
LEMMA CallInStep ==
  ASSUME TypeOK, HeldOK, OneInFlight, Ended, OneAnswerAwaited, NEW r \in Requests,
         Call(r), ~Timeout(r)
  PROVE  OneAnswerAwaited'
<1> USE ClientAssumption DEF TypeOK, WireTypes, CallTypes, ReaderTypes, OneInFlight, Busy,
        OneAnswerAwaited
<1>1. UNCHANGED <<wire, rl, held, snap>>
  BY DEF Call, InFlight, Begin, Write, Receive, SeeDone, Timeout, Release, readerVars
<1>2. CASE Begin(r)
  <2>1. CASE waiting
    <3>1. /\ UNCHANGED <<reqs, replyCh, box>> /\ pc[r] = "idle"
          /\ \A s \in Requests : s # r => pc'[s] = pc[s]
      BY <1>2, <2>1 DEF Begin, Goto
    <3>2. \A s \in Requests : Awaiting(s) => Awaiting(s)'
      BY <3>1 DEF Awaiting
    <3>3. QED BY <1>1, <3>1, <3>2 DEF AskedFor, OnTheWire, InHand, InBox, HeldOK
  <2>2. CASE ~waiting
    <3>1. UNCHANGED <<reqs, box>> /\ \A s \in Requests : ~Awaiting(s)
      BY <1>2, <2>2 DEF Begin, Awaiting
    <3>2. /\ reqs = <<>> /\ rl # "reply" /\ \A i \in DOMAIN wire : IsPush(wire[i])
          /\ \A s \in Requests : box[s] # NoEnv => box[s].id = s /\ rl = "stopped"
      BY <3>1, SomethingAsked DEF AskedFor, OnTheWire, InHand, InBox, HeldOK
    <3>3. QED BY <1>1, <3>1, <3>2 DEF AskedFor, OnTheWire, InHand, InBox
  <2>3. QED BY <2>1, <2>2
<1>3. CASE Write(r)
  <2>1. /\ UNCHANGED <<box, replyCh>> /\ pc[r] = "write" /\ replyCh = r
        /\ \A s \in Requests : s # r => pc'[s] = pc[s]
    BY <1>3 DEF Write, Goto
  <2>2. \A s \in Requests : ~Awaiting(s)
    BY <2>1 DEF Awaiting
  <2>3. /\ reqs = <<>> /\ rl # "reply" /\ \A i \in DOMAIN wire : IsPush(wire[i])
        /\ \A s \in Requests : box[s] # NoEnv => box[s].id = s /\ rl = "stopped"
    BY <2>2, SomethingAsked DEF AskedFor, OnTheWire, InHand, InBox, HeldOK
  <2>4. CASE UNCHANGED reqs
    BY <1>1, <2>1, <2>3, <2>4 DEF AskedFor, OnTheWire, InHand, InBox
  <2>5. CASE conn = "open" /\ reqs' = Append(reqs, r) /\ Goto(r, "wait")
    <3>1. reqs' = <<r>> /\ pc'[r] = "wait" /\ box[r] = NoEnv
      BY <2>3, <2>5 DEF Goto, Ended
    <3>2. Awaiting(r)'
      BY <2>1, <3>1 DEF Awaiting
    <3>3. QED BY <1>1, <2>1, <2>3, <3>1, <3>2 DEF AskedFor, OnTheWire, InHand, InBox
  <2>6. QED BY <1>3, <2>4, <2>5 DEF Write
<1>4. CASE Receive(r)
  <2>1. /\ UNCHANGED <<reqs, replyCh>> /\ pc[r] = "wait" /\ replyCh = r
        /\ box[r] # NoEnv /\ box' = [box EXCEPT ![r] = NoEnv]
        /\ \A s \in Requests : s # r => pc'[s] = pc[s]
    BY <1>4 DEF Receive, Goto
  <2>2. \A s \in Requests : Awaiting(s) => s = r
    BY <2>1 DEF Awaiting
  <2>3. reqs = <<>> /\ rl # "reply" /\ \A i \in DOMAIN wire : IsPush(wire[i])
    BY <2>1, <2>2, SomethingAsked DEF AskedFor, OnTheWire, InHand, HeldOK
  <2>4. \A s \in Requests : box'[s] # NoEnv =>
          s # r /\ box'[s] = box[s] /\ rl = "stopped"
    BY <2>1, <2>2 DEF InBox
  <2>5. QED BY <1>1, <2>1, <2>3, <2>4 DEF AskedFor, OnTheWire, InHand, InBox
<1>5. CASE SeeDone(r)
  <2>1. /\ UNCHANGED <<reqs, replyCh, box>> /\ rl = "stopped"
        /\ reqs = <<>> /\ wire = <<>>
    BY <1>5 DEF SeeDone, Ended
  <2>2. QED BY <1>1, <2>1 DEF AskedFor, OnTheWire, InHand, InBox
<1>6. CASE Release(r)
  <2>1. /\ UNCHANGED <<reqs, replyCh, box>> /\ pc[r] = "release"
        /\ \A s \in Requests : s # r => pc'[s] = pc[s]
    BY <1>6 DEF Release, Goto
  <2>2. \A s \in Requests : Awaiting(s) => Awaiting(s)'
    BY <2>1 DEF Awaiting
  <2>3. QED BY <1>1, <2>1, <2>2 DEF AskedFor, OnTheWire, InHand, InBox, HeldOK
<1>7. QED BY <1>2, <1>3, <1>4, <1>5, <1>6 DEF Call, InFlight

\* The server and readLoop pass the answer on.
LEMMA ReaderInStep ==
  ASSUME TypeOK, HeldOK, OneInFlight, Ended, OneAnswerAwaited,
         Push \/ Answer \/ CloseConn \/ Reader \/ OpenChat \/ Consume
  PROVE  OneAnswerAwaited'
<1> USE ClientAssumption DEF TypeOK, WireTypes, CallTypes, ReaderTypes, OneAnswerAwaited
<1>1. UNCHANGED <<pc, replyCh>>
  BY DEF Push, Answer, CloseConn, Reader, ReadNext, PushEvent, PutReply, Stop, OpenChat,
     Consume, clientVars
<1>2. \A s : Awaiting(s)' = Awaiting(s)
  BY <1>1 DEF Awaiting
<1>3. CASE Push
  <2> DEFINE e == Env("push", pushed + 1)
  <2>1. wire' = Append(wire, e) /\ UNCHANGED <<reqs, rl, held, snap, box>>
    BY <1>3 DEF Push, clientVars, readerVars
  <2>2. IsPush(e)
    BY DEF IsPush, Env
  <2> HIDE DEF e
  <2>3. \A i \in DOMAIN wire' : wire'[i] = e \/ (i \in DOMAIN wire /\ wire'[i] = wire[i])
    BY <2>1, SMTT(20)
  <2>4. QED BY <1>2, <2>1, <2>2, <2>3 DEF AskedFor, OnTheWire, InHand, InBox
<1>4. CASE Answer
  <2>1. UNCHANGED <<rl, held, snap, box>> /\ reqs # <<>> /\ reqs' = Tail(reqs)
    BY <1>4 DEF Answer, clientVars, readerVars
  <2>2. reqs' = <<>> /\ 1 \in DOMAIN reqs /\ Head(reqs) = reqs[1]
    BY <2>1 DEF AskedFor
  <2>3. PICK r \in Requests : Head(reqs) = r
    BY <2>2 DEF AskedFor
  <2>4. /\ Awaiting(r) /\ rl # "reply" /\ box[r] = NoEnv
        /\ \A j \in DOMAIN wire : IsPush(wire[j])
    BY <2>2, <2>3 DEF AskedFor
  <2> DEFINE e == Env("reply", r)
  <2>5. wire' = Append(wire, e)
    BY <1>4, <2>3 DEF Answer
  <2>6. ~IsPush(e) /\ e.id = r
    BY DEF IsPush, Env
  <2> HIDE DEF e
  <2>7. \A i \in DOMAIN wire' :
          \/ i \in DOMAIN wire /\ wire'[i] = wire[i]
          \/ i = Len(wire) + 1 /\ wire'[i] = e
    BY <2>5
  <2>8. QED BY <1>2, <2>1, <2>2, <2>4, <2>6, <2>7 DEF AskedFor, OnTheWire, InHand, InBox
<1>5. CASE CloseConn
  <2>1. /\ reqs' = <<>> /\ (wire' = wire \/ wire' = <<>>)
        /\ UNCHANGED <<rl, held, snap, box>>
    BY <1>5 DEF CloseConn, clientVars, readerVars
  <2>2. QED BY <1>2, <2>1 DEF AskedFor, OnTheWire, InHand, InBox
<1>6. CASE ReadNext
  <2>1. /\ rl = "read" /\ wire # <<>> /\ wire' = Tail(wire) /\ UNCHANGED <<reqs, box>>
        /\ rl' # "stopped"
    BY <1>6 DEF ReadNext, Hold, clientVars
  <2>2. /\ 1 \in DOMAIN wire /\ Head(wire) = wire[1]
        /\ \A i \in DOMAIN wire' : i + 1 \in DOMAIN wire /\ i + 1 # 1 /\ wire'[i] = wire[i + 1]
        /\ \A i, j \in DOMAIN wire' : i # j => i + 1 # j + 1
    BY <2>1
  <2>3. CASE IsPush(Head(wire))
    <3>1. rl' = "event"
      BY <1>6, <2>3 DEF ReadNext, Hold, IsPush
    <3>2. AskedFor' /\ InHand' /\ InBox'
      BY <1>2, <2>1, <2>2, <3>1 DEF AskedFor, InHand, InBox
    <3>3. OnTheWire'
      BY <1>2, <2>1, <2>2, <3>1 DEF OnTheWire
    <3>4. QED BY <3>2, <3>3
  <2>4. CASE ~IsPush(Head(wire))
    <3>1. /\ reqs = <<>> /\ wire[1].id \in Requests /\ Awaiting(wire[1].id)
          /\ box[wire[1].id] = NoEnv
          /\ \A j \in DOMAIN wire' : IsPush(wire'[j])
      BY <2>2, <2>4 DEF AskedFor, OnTheWire
    <3>2. waiting /\ replyCh = wire[1].id
      BY <3>1 DEF Awaiting, OneInFlight, Busy
    <3>3. rl' = "reply" /\ held' = wire[1] /\ snap' = wire[1].id
      BY <1>6, <2>2, <2>4, <3>2 DEF ReadNext, Hold, IsPush
    <3>4. QED BY <1>2, <2>1, <3>1, <3>3 DEF AskedFor, OnTheWire, InHand, InBox
  <2>5. QED BY <2>3, <2>4
<1>7. CASE PushEvent
  <2>1. rl = "event" /\ rl' = "read" /\ UNCHANGED <<reqs, wire, box>>
    BY <1>7 DEF PushEvent, Hold, clientVars
  <2>2. QED BY <1>2, <2>1 DEF AskedFor, OnTheWire, InHand, InBox
<1>8. CASE PutReply
  <2>1. /\ rl = "reply" /\ rl' = "read" /\ UNCHANGED <<reqs, wire>>
        /\ snap \in Requests /\ box' = [box EXCEPT ![snap] = held]
    BY <1>8 DEF PutReply, Hold, HeldOK
  <2>2. reqs = <<>> /\ (\A i \in DOMAIN wire : IsPush(wire[i])) /\ held.id = snap /\ Awaiting(snap)
    BY <2>1, SomethingAsked DEF AskedFor, OnTheWire, InHand
  <2>3. QED BY <1>2, <2>1, <2>2 DEF AskedFor, OnTheWire, InHand, InBox
<1>9. CASE Stop
  <2>1. /\ rl = "read" /\ rl' = "stopped" /\ reqs = <<>> /\ wire = <<>>
        /\ UNCHANGED <<reqs, wire, box>>
    BY <1>9 DEF Stop, Hold, Ended, clientVars
  <2>2. QED BY <1>2, <2>1 DEF AskedFor, OnTheWire, InHand, InBox
<1>10. CASE OpenChat \/ Consume
  <2>1. UNCHANGED <<reqs, wire, rl, held, snap, box>>
    BY <1>10 DEF OpenChat, Consume, clientVars, readerVars
  <2>2. QED BY <1>2, <2>1 DEF AskedFor, OnTheWire, InHand, InBox
<1>11. QED BY <1>3, <1>4, <1>5, <1>6, <1>7, <1>8, <1>9, <1>10 DEF Reader

LEMMA MatchesKept ==
  ASSUME TypeOK, Ended, InBox, ReplyMatches, Next
  PROVE  ReplyMatches'
<1> USE DEF TypeOK, CallTypes
<1>1. ASSUME NEW r \in Requests, Call(r) PROVE ReplyMatches'
  <2>1. \A s \in Requests : s # r => outcome'[s] = outcome[s]
    BY <1>1 DEF Call, InFlight, Begin, Write, Receive, SeeDone, Timeout, Release, Return
  <2>2. CASE outcome'[r] = outcome[r]
    BY <2>1, <2>2 DEF ReplyMatches, Answered
  <2>3. CASE Receive(r)
    <3>1. outcome'[r] = box[r] /\ box[r].id = r
      BY <2>3 DEF Receive, Return, InBox
    <3>2. QED BY <2>1, <3>1 DEF ReplyMatches, Answered
  <2>4. CASE outcome'[r] \in {Failed("busy"), Failed("closed"), Failed("timeout")}
    BY <2>1, <2>4 DEF ReplyMatches, Answered, Failed, Env
  <2>5. QED
    BY <1>1, <2>2, <2>3, <2>4 DEF Call, InFlight, Begin, Write, SeeDone, Timeout, Release,
       Return
<1>2. CASE \A r \in Requests : ~Call(r)
  BY <1>2 DEF ReplyMatches, Answered, Next, SendRelay, Push, Answer, CloseConn, Reader,
     ReadNext, PushEvent, PutReply, Stop, OpenChat, Consume, clientVars
<1>3. QED BY <1>1, <1>2

\* Every variable keeps its type: events never exceeds its capacity, and no
\* reply channel and no returned answer is ever a push.
THEOREM ClientTypeCorrect == Spec => []TypeOK
BY InitType, NextType, PTL DEF Spec

\* request() is "one-at-a-time": never are two calls in flight, and the
\* channel readLoop would pick is that of the call in flight.
THEOREM OneRequestInFlight == Spec => []OneInFlight
<1>1. Init => OneInFlight
  BY DEF Init, OneInFlight, Busy
<1>2. QED BY <1>1, NextOneInFlight, ClientTypeCorrect, PTL DEF Spec

\* No push is lost, repeated, reordered or taken for a reply while the
\* connection lasts, whatever requests are made around it.
THEOREM PushesKeepOrder == Spec => []PushesInOrder
<1>1. Init => PushesInOrder
  BY DEF Init, PushesInOrder, HasPushes, InTransit
<1>2. ASSUME TypeOK, HeldOK, PushesInOrder, [Next]_vars, TypeOK', HeldOK'
      PROVE  PushesInOrder'
  <2>1. CASE UNCHANGED vars
    BY <1>2, <2>1 DEF vars, readerVars, uiVars, PushesInOrder, InTransit
  <2>2. conn' = "open" => conn = "open"
    BY <1>2, <2>1 DEF Next, vars, Call, InFlight, Begin, Write, Receive, SeeDone, Timeout,
       Release, SendRelay, Push, Answer, CloseConn, Reader, ReadNext, PushEvent, PutReply,
       Stop, OpenChat, Consume
  <2>3. CASE Next
    BY <1>2, <2>2, <2>3, StreamStep DEF PushesInOrder, Stream
  <2>4. QED BY <1>2, <2>1, <2>3
<1>3. QED BY <1>1, <1>2, InitType, NextType, PTL DEF Spec

LEMMA InStepAlways == Spec => []InStep
<1>1. Init => InStep
  BY DEF Init, InStep, Ended, OneAnswerAwaited, AskedFor, OnTheWire, InHand, InBox,
     ReplyMatches, Answered, NoEnv, Env
<1>2. ASSUME TypeOK, HeldOK, OneInFlight, InStep, [Next]_vars PROVE InStep'
  <2>1. CASE UNCHANGED vars
    BY <1>2, <2>1 DEF vars, clientVars, readerVars, InStep, Ended, Undisturbed,
       OneAnswerAwaited, AskedFor, OnTheWire, InHand, InBox, Awaiting, ReplyMatches, Answered
  <2>2. CASE Next
    <3>1. Ended'
      BY <1>2, <2>2, EndedKept DEF InStep
    <3>2. ASSUME Undisturbed' PROVE OneAnswerAwaited' /\ ReplyMatches'
      <4>1. /\ Undisturbed /\ OneAnswerAwaited /\ ReplyMatches /\ Ended
            /\ (\A m \in Relays : ~SendRelay(m)) /\ \A r \in Requests : ~Timeout(r)
        BY <1>2, <2>2, <3>2, StillUndisturbed DEF InStep
      <4>2. ReplyMatches'
        BY <1>2, <2>2, <4>1, MatchesKept DEF OneAnswerAwaited
      <4>3. OneAnswerAwaited'
        BY <1>2, <2>2, <4>1, CallInStep, ReaderInStep DEF Next
      <4>4. QED BY <4>2, <4>3
    <3>3. QED BY <3>1, <3>2 DEF InStep
  <2>3. QED BY <1>2, <2>1, <2>2
<1>3. Init => OneInFlight
  BY DEF Init, OneInFlight, Busy
<1>4. QED BY <1>1, <1>2, <1>3, InitType, NextType, NextOneInFlight, PTL DEF Spec

\* A reply carries no id, yet until a call times out or a relay is sent every
\* call gets the reply to its own request, and no other.
THEOREM RepliesStayInStep == Spec => []RepliesInStep
<1>1. InStep => RepliesInStep
  BY DEF InStep, RepliesInStep
<1>2. QED BY <1>1, InStepAlways, PTL

\* The reader that has a reply in hand can put it, and its call still waits.
ReplyHasRoom ==
  Undisturbed /\ rl = "reply" => box[snap] = NoEnv /\ pc[snap] = "wait" /\ replyCh = snap

\* Only a call that timed out, or the error that answers a relay, can wedge
\* readLoop on a full reply channel: the safety half of PushesShown.
THEOREM ReaderIsNotWedged == Spec => []ReplyHasRoom
<1>1. InStep => ReplyHasRoom
  BY DEF InStep, OneAnswerAwaited, InHand, Awaiting, ReplyHasRoom
<1>2. QED BY <1>1, InStepAlways, PTL

================================================================================
