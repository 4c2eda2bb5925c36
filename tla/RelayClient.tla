------------------------------ MODULE RelayClient ------------------------------
(***************************************************************************)
(* One authenticated relay connection seen from the client:                *)
(* internal/relay/client.go, the UI's event pump, and the server as a FIFO *)
(* that answers every request once and pushes presence and messages at any *)
(* time.  Each element of Requests is one call of request(), made by some  *)
(* goroutine; each element of Relays is one SendRelay.                     *)
(*                                                                         *)
(* Replies carry no request id: the id in an envelope is history, and no   *)
(* step of the client reads it.                                            *)
(***************************************************************************)
EXTENDS Naturals, Sequences

CONSTANTS
  Requests,    \* calls of request()
  Relays,      \* calls of SendRelay
  MaxPushes,   \* bound: presence and message pushes the server sends
  EventsCap,   \* capacity of Client.events
  MayTimeOut,  \* can requestTimeout fire?
  MayClose     \* can the connection end?

ASSUME ClientAssumption ==
  /\ Requests \cap Relays = {}
  /\ (Requests \cup Relays) \cap Nat = {}
  /\ MaxPushes \in Nat
  /\ EventsCap \in Nat \ {0}

VARIABLES
  conn,     \* the TCP connection: "open" or "closed"
  reqs,     \* written by the client, not yet handled by the server
  sent,     \* the relays sent so far
  wire,     \* written by the server, not yet read by the client
  pushed,   \* pushes sent so far
  pc,       \* where each call of request() is
  waiting,  \* Client.waiting
  replyCh,  \* Client.replyCh: the call that made the current channel
  box,      \* contents of each call's one-slot reply channel
  outcome,  \* what each call returned
  rl,       \* where readLoop is
  held,     \* the envelope readLoop has in hand
  snap,     \* the reply channel readLoop copied under the lock
  events,   \* Client.events
  pump,     \* is the chat screen running its waitForRelayEvent pump?
  shown     \* history: what the UI received from events

clientVars == <<pc, waiting, replyCh, box, outcome>>
readerVars == <<rl, held, snap, events>>
uiVars == <<pump, shown>>
vars == <<conn, reqs, sent, wire, pushed, clientVars, readerVars, uiVars>>

Nobody == 0
Env(type, id) == [type |-> type, id |-> id]
Answers == [type : {"reply"}, id : Requests] \cup [type : {"error"}, id : Relays]
Envelopes == [type : {"push"}, id : 1..MaxPushes] \cup Answers

NoEnv == Env("none", Nobody)
Failed(why) == Env(why, Nobody)
Failures == {Failed("busy"), Failed("closed"), Failed("timeout")}

Init ==
  /\ conn = "open"
  /\ reqs = <<>> /\ sent = {} /\ wire = <<>> /\ pushed = 0
  /\ pc = [r \in Requests |-> "idle"]
  /\ waiting = FALSE /\ replyCh = Nobody
  /\ box = [r \in Requests |-> NoEnv]
  /\ outcome = [r \in Requests |-> NoEnv]
  /\ rl = "read" /\ held = NoEnv /\ snap = Nobody
  /\ events = <<>>
  /\ pump = FALSE /\ shown = <<>>

-------------------------------------------------------------------------------
(* request(): claim the connection, write, wait, release. *)

Goto(r, phase) == pc' = [pc EXCEPT ![r] = phase]
Return(r, env) == outcome' = [outcome EXCEPT ![r] = env]

\* Mutant: a second call does not look at waiting.
BeginUnguarded(r) ==
  /\ pc[r] = "idle"
  /\ waiting' = TRUE /\ replyCh' = r /\ Goto(r, "write")
  /\ UNCHANGED <<conn, reqs, sent, wire, pushed, box, outcome, readerVars, uiVars>>

\* The first critical section: refuse a second call, else make a channel.
Begin(r) ==
  /\ pc[r] = "idle"
  /\ IF waiting
       THEN /\ Goto(r, "done") /\ Return(r, Failed("busy"))
            /\ UNCHANGED <<waiting, replyCh>>
       ELSE /\ waiting' = TRUE /\ replyCh' = r /\ Goto(r, "write")
            /\ UNCHANGED outcome
  /\ UNCHANGED <<conn, reqs, sent, wire, pushed, box, readerVars, uiVars>>

\* Into a connection that has just ended, a write may still seem to succeed.
Write(r) ==
  /\ pc[r] = "write"
  /\ \/ /\ conn = "open"
        /\ reqs' = Append(reqs, r) /\ Goto(r, "wait") /\ UNCHANGED outcome
     \/ /\ conn = "closed"
        /\ \/ Goto(r, "wait") /\ UNCHANGED outcome
           \/ Goto(r, "release") /\ Return(r, Failed("closed"))
        /\ UNCHANGED reqs
  /\ UNCHANGED <<conn, sent, wire, pushed, waiting, replyCh, box, readerVars, uiVars>>

\* The select's three cases; Go picks any of those that are ready.
Receive(r) ==
  /\ pc[r] = "wait" /\ box[r] # NoEnv
  /\ Return(r, box[r]) /\ box' = [box EXCEPT ![r] = NoEnv]
  /\ Goto(r, "release")
  /\ UNCHANGED <<conn, reqs, sent, wire, pushed, waiting, replyCh, readerVars, uiVars>>

SeeDone(r) ==
  /\ pc[r] = "wait" /\ rl = "stopped"
  /\ Return(r, Failed("closed")) /\ Goto(r, "release")
  /\ UNCHANGED <<conn, reqs, sent, wire, pushed, waiting, replyCh, box, readerVars, uiVars>>

\* Mutant: request() waits for ever.
TimeoutNever(r) == FALSE /\ UNCHANGED vars

Timeout(r) ==
  /\ MayTimeOut
  /\ pc[r] = "wait"
  /\ Return(r, Failed("timeout")) /\ Goto(r, "release")
  /\ UNCHANGED <<conn, reqs, sent, wire, pushed, waiting, replyCh, box, readerVars, uiVars>>

\* The deferred critical section.
Release(r) ==
  /\ pc[r] = "release"
  /\ waiting' = FALSE /\ Goto(r, "done")
  /\ UNCHANGED <<conn, reqs, sent, wire, pushed, replyCh, box, outcome, readerVars, uiVars>>

InFlight(r) == Write(r) \/ Receive(r) \/ SeeDone(r) \/ Timeout(r) \/ Release(r)

\* SendRelay only writes: no reply is awaited.
SendRelay(m) ==
  /\ m \notin sent /\ conn = "open"
  /\ sent' = sent \cup {m} /\ reqs' = Append(reqs, m)
  /\ UNCHANGED <<conn, wire, pushed, clientVars, readerVars, uiVars>>

\* What CreateOrg, ListOrgs, AddTodo and the other methods report: whatever
\* answer request() returned, since none of them checks its type.
Answered(r) == outcome[r].type = "reply"

-------------------------------------------------------------------------------
(* The server, and the end of the connection. *)

Push ==
  /\ conn = "open" /\ pushed < MaxPushes
  /\ pushed' = pushed + 1
  /\ wire' = Append(wire, Env("push", pushed + 1))
  /\ UNCHANGED <<conn, reqs, sent, clientVars, readerVars, uiVars>>

\* One reply per request; a relay is answered only when it fails.
Answer ==
  /\ conn = "open" /\ reqs # <<>>
  /\ reqs' = Tail(reqs)
  /\ IF Head(reqs) \in Requests
       THEN wire' = Append(wire, Env("reply", Head(reqs)))
       ELSE \/ wire' = Append(wire, Env("error", Head(reqs)))
            \/ UNCHANGED wire
  /\ UNCHANGED <<conn, sent, pushed, clientVars, readerVars, uiVars>>

\* Either side closes; what is in flight may be lost.
CloseConn ==
  /\ MayClose /\ conn = "open"
  /\ conn' = "closed" /\ reqs' = <<>>
  /\ UNCHANGED wire \/ wire' = <<>>
  /\ UNCHANGED <<sent, pushed, clientVars, readerVars, uiVars>>

-------------------------------------------------------------------------------
(* readLoop. *)

Hold(phase, env, ch) == rl' = phase /\ held' = env /\ snap' = ch

\* Mutant: pushes are not told apart from replies.
ReadNextUntyped ==
  /\ rl = "read" /\ wire # <<>>
  /\ wire' = Tail(wire)
  /\ IF waiting THEN Hold("reply", Head(wire), replyCh)
                ELSE Hold("event", Head(wire), Nobody)
  /\ UNCHANGED <<conn, reqs, sent, pushed, clientVars, events, uiVars>>

\* The next envelope: a push goes to events, anything else to the channel
\* of the call in flight, read here under the lock and used after it.
ReadNext ==
  /\ rl = "read" /\ wire # <<>>
  /\ wire' = Tail(wire)
  /\ IF Head(wire).type # "push" /\ waiting
       THEN Hold("reply", Head(wire), replyCh)
       ELSE Hold("event", Head(wire), Nobody)
  /\ UNCHANGED <<conn, reqs, sent, pushed, clientVars, events, uiVars>>

\* Mutant: a push that finds events full is dropped.
PushEventDropping ==
  /\ rl = "event"
  /\ events' = IF Len(events) < EventsCap THEN Append(events, held) ELSE events
  /\ Hold("read", NoEnv, Nobody)
  /\ UNCHANGED <<conn, reqs, sent, wire, pushed, clientVars, uiVars>>

\* c.events <- env, blocking while the channel is full.
PushEvent ==
  /\ rl = "event" /\ Len(events) < EventsCap
  /\ events' = Append(events, held)
  /\ Hold("read", NoEnv, Nobody)
  /\ UNCHANGED <<conn, reqs, sent, wire, pushed, clientVars, uiVars>>

\* replyCh <- env, blocking while its one slot is taken.
PutReply ==
  /\ rl = "reply" /\ box[snap] = NoEnv
  /\ box' = [box EXCEPT ![snap] = held]
  /\ Hold("read", NoEnv, Nobody)
  /\ UNCHANGED <<conn, reqs, sent, wire, pushed, pc, waiting, replyCh, outcome,
                 events, uiVars>>

\* A failed read ends the loop and closes done and events.
Stop ==
  /\ rl = "read" /\ conn = "closed" /\ wire = <<>>
  /\ Hold("stopped", NoEnv, Nobody)
  /\ UNCHANGED <<conn, reqs, sent, wire, pushed, clientVars, events, uiVars>>

-------------------------------------------------------------------------------
(* The UI: the chat screen, and with it the pump, starts only once a request *)
(* of the screens before it (an organization chosen) was answered.           *)

OpenChat ==
  /\ ~pump
  /\ \E r \in Requests : outcome[r].type \in {"reply", "error"}
  /\ pump' = TRUE
  /\ UNCHANGED <<conn, reqs, sent, wire, pushed, clientVars, readerVars, shown>>

Consume ==
  /\ pump /\ events # <<>>
  /\ shown' = Append(shown, Head(events)) /\ events' = Tail(events)
  /\ UNCHANGED <<conn, reqs, sent, wire, pushed, clientVars, rl, held, snap, pump>>

-------------------------------------------------------------------------------
Call(r) == Begin(r) \/ InFlight(r)
Reader == ReadNext \/ PushEvent \/ PutReply \/ Stop

Next ==
  \/ \E r \in Requests : Call(r)
  \/ \E m \in Relays : SendRelay(m)
  \/ Push \/ Answer \/ CloseConn
  \/ Reader \/ OpenChat \/ Consume

Spec == Init /\ [][Next]_vars

\* Goroutines that can run do; time passes; the server answers; a user who
\* can open the chat does.  Nobody has to call, push or close.
Fairness ==
  /\ \A r \in Requests : WF_vars(InFlight(r))
  /\ WF_vars(Reader) /\ WF_vars(Answer) /\ WF_vars(OpenChat) /\ WF_vars(Consume)

FairSpec == Spec /\ Fairness

-------------------------------------------------------------------------------
WireTypes ==
  /\ conn \in {"open", "closed"}
  /\ reqs \in Seq(Requests \cup Relays) /\ wire \in Seq(Envelopes)
  /\ sent \subseteq Relays /\ pushed \in 0..MaxPushes

CallTypes ==
  /\ pc \in [Requests -> {"idle", "write", "wait", "release", "done"}]
  /\ waiting \in BOOLEAN
  /\ replyCh \in Requests \cup {Nobody}
  /\ box \in [Requests -> Answers \cup {NoEnv}]
  /\ outcome \in [Requests -> Answers \cup Failures \cup {NoEnv}]

ReaderTypes ==
  /\ rl \in {"read", "event", "reply", "stopped"}
  /\ held \in Envelopes \cup {NoEnv}
  /\ snap \in Requests \cup {Nobody}
  /\ events \in Seq(Envelopes) /\ Len(events) <= EventsCap
  /\ pump \in BOOLEAN /\ shown \in Seq(Envelopes)

TypeOK == WireTypes /\ CallTypes /\ ReaderTypes

Busy(r) == pc[r] \in {"write", "wait", "release"}

\* "Requests are synchronous and one-at-a-time by design": at most one call is
\* between its two critical sections, whichever goroutines make them, and the
\* waiting flag and the channel readLoop would pick are that call's.
OneInFlight ==
  /\ waiting <=> \E r \in Requests : Busy(r)
  /\ \A r \in Requests : Busy(r) => replyCh = r

\* What readLoop is about to put in a reply channel is an answer, and goes to
\* a channel that was made (the proofs' strengthening of TypeOK).
HeldOK ==
  /\ rl = "reply" => held \in Answers /\ snap \in Requests
  /\ rl = "event" => held \in Envelopes
  /\ waiting => replyCh \in Requests

IsPush(env) == env.type = "push"

\* The pushes in s are 1..k in order: each of them once, and no other.
HasPushes(s, k) ==
  /\ \A i \in DOMAIN s : IsPush(s[i]) => s[i].id \in 1..k
  /\ \A i, j \in DOMAIN s : IsPush(s[i]) /\ IsPush(s[j]) /\ i < j => s[i].id < s[j].id
  /\ \A n \in 1..k : \E i \in DOMAIN s : s[i] = Env("push", n)

\* Everything pushed and not yet taken by the UI, in order of arrival.
InTransit == events \o (IF rl = "event" THEN <<held>> ELSE <<>>) \o wire

\* No push is lost, repeated, reordered or taken for a reply, whatever the
\* requests around it do, while the connection lasts.
PushesInOrder == conn = "open" => HasPushes(shown \o InTransit, pushed)

\* request "waits for the single reply the server sends back for it".
ReplyMatches ==
  \A r \in Requests : Answered(r) => outcome[r].id = r

\* No call has timed out and no SendRelay was made: nothing is on its way that
\* the call in flight did not ask for.
Undisturbed == sent = {} /\ \A r \in Requests : outcome[r].type # "timeout"

\* Replies carry no id, yet until a call times out or a relay is sent every
\* call, and no other, gets the reply to its own request.
RepliesInStep == Undisturbed => ReplyMatches

\* Every call returns, whatever the server, the reader and the UI do.
CallsReturn == \A r \in Requests : Busy(r) ~> pc[r] = "done"

\* A push is shown while the chat screen pumps, unless a stray reply wedged
\* the reader or the connection ended; and Events is "closed when the
\* connection ends", with the same exception.
PushesShown ==
  /\ \A n \in 1..MaxPushes :
       (pump /\ pushed >= n)
       ~> \/ conn = "closed" \/ ~Undisturbed
          \/ Env("push", n) \in {shown[i] : i \in DOMAIN shown}
  /\ pump /\ conn = "closed" ~> rl = "stopped" \/ ~Undisturbed
================================================================================
