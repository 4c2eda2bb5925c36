------------------------------ MODULE RelayServer ------------------------------
(***************************************************************************)
(* The relay server's connections: internal/relay/server.go and hub.go.    *)
(* Every accepted connection has two goroutines, the handler (handleConn,  *)
(* readLoop and everything they call) and the writer (writeLoop), which    *)
(* share a bounded outbox; handlers reach each other's outboxes through    *)
(* the Hub.  A step of this module ends wherever the code takes a lock,    *)
(* touches a channel or queries the store, so every interleaving of two    *)
(* handlers that the Go scheduler can produce is a behaviour.              *)
(*                                                                         *)
(* Abstracted: credentials and tokens (RelaySession), the content of       *)
(* replies (every answer to a connection's own request is one "reply"),    *)
(* and a client's socket, which is open, stalled (the peer stopped         *)
(* reading) or gone.                                                       *)
(***************************************************************************)
EXTENDS Naturals, Sequences

CONSTANTS
  Handles,      \* registered accounts
  Conns,        \* TCP connections; each is accepted at most once
  Orgs,         \* organizations
  InitMembers,  \* [Orgs -> SUBSET Handles], org_members at start-up
  NoOne,        \* "no connection", "no user", "no organization"
  OutboxSize,   \* capacity of a connection's outbox channel
  MaxRequests,  \* bound: requests handled on one connection
  Accounts,     \* [Conns -> SUBSET Handles], whose clients a connection may be
  MayHangUp,    \* the connections whose clients may disconnect
  MayTimeOut,   \* do clients stay silent past readTimeout?
  MayStall,     \* do clients stop reading without disconnecting?
  StoreMayFail  \* can the query for a user's org-mates fail?

ASSUME ServerAssumption ==
  /\ NoOne \notin Handles /\ NoOne \notin Conns /\ NoOne \notin Orgs
  /\ InitMembers \in [Orgs -> SUBSET Handles]
  /\ Accounts \in [Conns -> SUBSET Handles]
  /\ OutboxSize \in Nat \ {0}
  /\ MaxRequests \in Nat

VARIABLES
  members,  \* org_members: the handles of every organization
  hub,      \* Hub.clients: the connection each handle is registered with
  pc,       \* where each connection's handler is
  user,     \* readLoop's user: the handle it authenticated as
  job,      \* what the handler is announcing or answering
  org,      \* the organization of the invite just redeemed
  todo,     \* org-mates the current presence loop has still to visit
  target,   \* the org-mate (or relay recipient) being visited
  ref,      \* the connection Online or Send found registered for target
  outbox,   \* the envelopes queued for each connection's writer
  writer,   \* is the connection's writeLoop running?
  sock,     \* the client's end of the connection
  roster,   \* the client's view: the UI's orgMates set
  asked,    \* requests handled so far (bounded by MaxRequests)
  told,     \* history: <<c, d>> when c was sent "d's user joined"
  lost,     \* history: <<c, d>> when that notice was dropped or skipped
  undone    \* history: <<c, d>> when c was then sent "d's user left", by the
            \* handler of an earlier connection of d's user

handlerVars == <<pc, user, job, org, todo, target, ref, asked>>
historyVars == <<told, lost, undone>>
vars == <<members, hub, handlerVars, outbox, writer, sock, roster, historyVars>>

Phases == {"idle", "preauth", "refuse", "token", "mates", "roster", "push",
           "lookup", "deliver", "reply", "members", "ready", "leave",
           "farewell", "closed"}
Jobs == {"none", "connect", "relay", "orgjoin", "leave"}

Reply == [type |-> "reply", about |-> NoOne]
Envelopes == {Reply} \cup [type : {"joined", "left", "relay"}, about : Handles]
Joined(h) == [type |-> "joined", about |-> h]

\* What Hub.Send carries for the job at hand.
Notice(c) ==
  [type |-> IF job[c] = "leave" THEN "left"
            ELSE IF job[c] = "relay" THEN "relay" ELSE "joined",
   about |-> user[c]]

\* SharesOrg: true of a member and itself too, as the SQL is.
Shares(g, h) == \E o \in Orgs : g \in members[o] /\ h \in members[o]

\* OrgMateHandles.
Mates(h) == {g \in Handles \ {h} : Shares(g, h)}

HasRoom(c) == Len(outbox[c]) < OutboxSize

Goto(c, phase) == pc' = [pc EXCEPT ![c] = phase]

Put(c, env) == outbox' = [outbox EXCEPT ![c] = Append(@, env)]

-------------------------------------------------------------------------------
Init ==
  /\ members = InitMembers
  /\ hub = [h \in Handles |-> NoOne]
  /\ pc = [c \in Conns |-> "idle"]
  /\ user = [c \in Conns |-> NoOne]
  /\ job = [c \in Conns |-> "none"]
  /\ org = [c \in Conns |-> NoOne]
  /\ todo = [c \in Conns |-> {}]
  /\ target = [c \in Conns |-> NoOne]
  /\ ref = [c \in Conns |-> NoOne]
  /\ outbox = [c \in Conns |-> <<>>]
  /\ writer = [c \in Conns |-> TRUE]
  /\ sock = [c \in Conns |-> "open"]
  /\ roster = [c \in Conns |-> {}]
  /\ asked = [c \in Conns |-> 0]
  /\ told = {}
  /\ lost = {}
  /\ undone = {}

-------------------------------------------------------------------------------
(* Connecting and authenticating. *)

\* Run accepts a connection; handleConn starts its writer and reads.
Accept(c) ==
  /\ pc[c] = "idle"
  /\ Goto(c, "preauth")
  /\ UNCHANGED <<members, hub, user, job, org, todo, target, ref, asked,
                 outbox, writer, sock, roster, historyVars>>

\* readLoop hands the next request to handlePreAuth or handleAuthed.
Serve(c, phase) ==
  /\ pc[c] = phase
  /\ asked[c] < MaxRequests
  /\ asked' = [asked EXCEPT ![c] = @ + 1]

\* Mutant: Join overwrites an existing registration.
AuthenticateEvicting(c, h) ==
  /\ Serve(c, "preauth")
  /\ h \in Accounts[c]
  /\ hub' = [hub EXCEPT ![h] = c]
  /\ user' = [user EXCEPT ![c] = h]
  /\ job' = [job EXCEPT ![c] = "connect"]
  /\ Goto(c, "token")
  /\ UNCHANGED <<members, org, todo, target, ref, outbox, writer, sock, roster,
                 historyVars>>

\* completeJoin's first step: the credentials were good and Hub.Join took h.
Authenticate(c, h) ==
  /\ Serve(c, "preauth")
  /\ h \in Accounts[c]
  /\ hub[h] = NoOne
  /\ hub' = [hub EXCEPT ![h] = c]
  /\ user' = [user EXCEPT ![c] = h]
  /\ job' = [job EXCEPT ![c] = "connect"]
  /\ Goto(c, "token")
  /\ UNCHANGED <<members, org, todo, target, ref, outbox, writer, sock, roster,
                 historyVars>>

\* Any pre-auth request that leaves the connection unauthenticated: bad
\* credentials, a question, or a handle already connected elsewhere.
Refuse(c) ==
  /\ Serve(c, "preauth")
  /\ Goto(c, "refuse")
  /\ UNCHANGED <<members, hub, user, job, org, todo, target, ref, outbox, writer,
                 sock, roster, historyVars>>

\* outbox <- ... : the handler blocks while its own outbox is full.
PushReply(c) ==
  /\ pc[c] \in {"refuse", "token", "reply"}
  /\ HasRoom(c)
  /\ Put(c, Reply)
  /\ Goto(c, IF pc[c] = "refuse" THEN "preauth"
             ELSE IF pc[c] = "token" THEN "mates"
             ELSE IF job[c] = "orgjoin" THEN "members" ELSE "ready")
  /\ UNCHANGED <<members, hub, user, job, org, todo, target, ref, asked, writer,
                 sock, roster, historyVars>>

-------------------------------------------------------------------------------
(* Presence: completeJoin, notifyOrgOfNewMember and handleConn's exit.     *)

StartLoop(c, handles) ==
  /\ todo' = [todo EXCEPT ![c] = handles]
  /\ org' = [org EXCEPT ![c] = NoOne]
  /\ Goto(c, "roster")
  /\ UNCHANGED <<members, hub, user, target, ref, asked, outbox, writer,
                 sock, roster, historyVars>>

\* completeJoin: MateHandles of the user who just joined.
QueryMates(c) ==
  /\ pc[c] = "mates"
  /\ StartLoop(c, Mates(user[c]))
  /\ UNCHANGED job

\* notifyOrgOfNewMember: MemberHandles of the organization just joined.
QueryMembers(c) ==
  /\ pc[c] = "members"
  /\ StartLoop(c, members[org[c]] \ {user[c]})
  /\ UNCHANGED job

\* handleConn after Leave: MateHandles of the user who just left.
QueryFarewell(c) ==
  /\ pc[c] = "farewell"
  /\ job' = [job EXCEPT ![c] = "leave"]
  /\ StartLoop(c, Mates(user[c]))

\* handleConn returns: the socket is closed and the writer stopped.
Finish(c) ==
  /\ Goto(c, "closed")
  /\ writer' = [writer EXCEPT ![c] = FALSE]
  /\ sock' = [sock EXCEPT ![c] = "gone"]

\* Any of the three queries fails: its presence notices are skipped.
QueryFails(c) ==
  /\ StoreMayFail
  /\ \/ /\ pc[c] \in {"mates", "members"}
        /\ Goto(c, "ready")
        /\ UNCHANGED <<writer, sock>>
     \/ /\ pc[c] = "farewell"
        /\ Finish(c)
  /\ job' = [job EXCEPT ![c] = "none"]
  /\ org' = [org EXCEPT ![c] = NoOne]
  /\ lost' = lost \cup ({c} \X Conns) \cup (Conns \X {c})
  /\ UNCHANGED <<members, hub, user, todo, target, ref, asked, outbox, roster,
                 told, undone>>

\* The loop's next mate: joining asks Hub.Online first, leaving does not.
VisitMate(c, m) ==
  /\ pc[c] = "roster"
  /\ m \in todo[c]
  /\ todo' = [todo EXCEPT ![c] = @ \ {m}]
  /\ IF job[c] # "leave" /\ hub[m] = NoOne
       THEN UNCHANGED <<pc, target, ref>>
       ELSE /\ target' = [target EXCEPT ![c] = m]
            /\ ref' = [ref EXCEPT ![c] = hub[m]]
            /\ Goto(c, IF job[c] = "leave" THEN "lookup" ELSE "push")
  /\ UNCHANGED <<members, hub, user, job, org, asked, outbox, writer, sock, roster,
                 historyVars>>

\* Mutant: the joiner seeds its own roster and forgets to tell the mate.
PushMateOneWay(c) ==
  /\ pc[c] = "push"
  /\ HasRoom(c)
  /\ Put(c, Joined(target[c]))
  /\ told' = told \cup {<<c, ref[c]>>}
  /\ undone' = undone \ {<<c, ref[c]>>}
  /\ Goto(c, "roster")
  /\ UNCHANGED <<members, hub, user, job, org, todo, target, ref, asked, writer,
                 sock, roster, lost>>

\* outbox <- presence_joined(mate), for a mate seen online a moment ago.
PushMate(c) ==
  /\ pc[c] = "push"
  /\ HasRoom(c)
  /\ Put(c, Joined(target[c]))
  /\ told' = told \cup {<<c, ref[c]>>}
  /\ undone' = undone \ {<<c, ref[c]>>}
  /\ Goto(c, "lookup")
  /\ UNCHANGED <<members, hub, user, job, org, todo, target, ref, asked, writer,
                 sock, roster, lost>>

\* Where the handler goes when its Hub.Send returns; its locals are dead.
AfterSend(c, sent) ==
  /\ Goto(c, IF job[c] # "relay" THEN "roster"
             ELSE IF sent THEN "ready" ELSE "reply")
  /\ target' = [target EXCEPT ![c] = NoOne]
  /\ ref' = [ref EXCEPT ![c] = NoOne]
  /\ job' = [job EXCEPT ![c] = IF @ = "relay" THEN "none" ELSE @]

\* Hub.Send, under the lock: find the recipient's outbox.
Lookup(c) ==
  /\ pc[c] = "lookup"
  /\ IF hub[target[c]] = NoOne
       THEN AfterSend(c, FALSE)
       ELSE /\ ref' = [ref EXCEPT ![c] = hub[target[c]]]
            /\ Goto(c, "deliver")
            /\ UNCHANGED <<job, target>>
  /\ UNCHANGED <<members, hub, user, org, todo, asked, outbox, writer, sock, roster,
                 historyVars>>

\* The arrivals that c's farewell takes back although they are not c's own: the
\* user has connected again before it is said (handleConn leaves the Hub first).
Overtaken(c) ==
  IF job[c] = "leave" THEN {<<ref[c], d>> : d \in {e \in Conns :
                              user[e] = user[c] /\ <<ref[c], e>> \in told}}
  ELSE {}

\* Hub.Send, after the lock: a non-blocking send, dropped when full.
Deliver(c) ==
  /\ pc[c] = "deliver"
  /\ AfterSend(c, HasRoom(ref[c]))
  /\ LET pair == IF job[c] \in {"connect", "orgjoin"} THEN {<<ref[c], c>>} ELSE {}
     IN IF HasRoom(ref[c])
          THEN /\ Put(ref[c], Notice(c))
               /\ told' = told \cup pair
               /\ undone' = (undone \ pair) \cup Overtaken(c)
               /\ UNCHANGED lost
          ELSE lost' = lost \cup pair /\ UNCHANGED <<outbox, told, undone>>
  /\ UNCHANGED <<members, hub, user, org, todo, asked, writer, sock, roster>>

EndLoop(c) ==
  /\ pc[c] = "roster"
  /\ todo[c] = {}
  /\ job' = [job EXCEPT ![c] = "none"]
  /\ IF job[c] = "leave" THEN Finish(c)
                         ELSE Goto(c, "ready") /\ UNCHANGED <<writer, sock>>
  /\ UNCHANGED <<members, hub, user, org, todo, target, ref, asked, outbox,
                 roster, historyVars>>

-------------------------------------------------------------------------------
(* Authenticated requests. *)

\* Mutant: relay to anyone who is registered.
RelayUnchecked(c, h) ==
  /\ Serve(c, "ready")
  /\ job' = [job EXCEPT ![c] = "relay"]
  /\ target' = [target EXCEPT ![c] = h]
  /\ Goto(c, "lookup")
  /\ UNCHANGED <<members, hub, user, org, todo, ref, outbox, writer, sock, roster,
                 historyVars>>

\* handleRelay past its checks: h is a registered user who shares an org.
Relay(c, h) ==
  /\ Serve(c, "ready")
  /\ Shares(user[c], h)
  /\ job' = [job EXCEPT ![c] = "relay"]
  /\ target' = [target EXCEPT ![c] = h]
  /\ Goto(c, "lookup")
  /\ UNCHANGED <<members, hub, user, org, todo, ref, outbox, writer, sock, roster,
                 historyVars>>

\* Mutant: the new member is answered but never announced.
RedeemInviteSilent(c, o) ==
  /\ Serve(c, "ready")
  /\ user[c] \notin members[o] /\ members[o] # {}
  /\ members' = [members EXCEPT ![o] = @ \cup {user[c]}]
  /\ Goto(c, "reply")
  /\ UNCHANGED <<hub, user, job, org, todo, target, ref, outbox, writer, sock,
                 roster, historyVars>>

\* MsgOrgJoin: the invite was good; answered, then announced.
RedeemInvite(c, o) ==
  /\ Serve(c, "ready")
  /\ user[c] \notin members[o] /\ members[o] # {}
  /\ members' = [members EXCEPT ![o] = @ \cup {user[c]}]
  /\ org' = [org EXCEPT ![c] = o]
  /\ job' = [job EXCEPT ![c] = "orgjoin"]
  /\ Goto(c, "reply")
  /\ UNCHANGED <<hub, user, todo, target, ref, outbox, writer, sock, roster,
                 historyVars>>

\* MsgOrgCreate: the creator is the only member, so nobody is told.
CreateOrg(c, o) ==
  /\ Serve(c, "ready")
  /\ members[o] = {}
  /\ members' = [members EXCEPT ![o] = {user[c]}]
  /\ job' = [job EXCEPT ![c] = "none"]
  /\ Goto(c, "reply")
  /\ UNCHANGED <<hub, user, org, todo, target, ref, outbox, writer, sock, roster,
                 historyVars>>

\* Every other request, and every request that fails: one reply, no change
\* of hub or membership.
Ask(c) ==
  /\ Serve(c, "ready")
  /\ job' = [job EXCEPT ![c] = "none"]
  /\ Goto(c, "reply")
  /\ UNCHANGED <<members, hub, user, org, todo, target, ref, outbox, writer, sock,
                 roster, historyVars>>

-------------------------------------------------------------------------------
(* The end of a connection. *)

\* readLoop returns: end of file, a reset, or readTimeout without a request.
\* A connection that never authenticated has nothing to announce.
ReadEnd(c) ==
  /\ sock[c] = "gone" \/ MayTimeOut
  /\ \/ pc[c] = "ready" /\ Goto(c, "leave") /\ UNCHANGED <<writer, sock>>
     \/ pc[c] = "preauth" /\ Finish(c)
  /\ UNCHANGED <<members, hub, user, job, org, todo, target, ref, asked, outbox,
                 roster, historyVars>>

\* Mutant: handleConn ends without leaving the Hub.
LeaveForgotten(c) ==
  /\ pc[c] = "leave"
  /\ Goto(c, "farewell")
  /\ UNCHANGED <<members, hub, user, job, org, todo, target, ref, asked, outbox,
                 writer, sock, roster, historyVars>>

\* Hub.Leave: unregister, unless a newer connection took the handle.
Leave(c) ==
  /\ pc[c] = "leave"
  /\ hub' = IF hub[user[c]] = c THEN [hub EXCEPT ![user[c]] = NoOne] ELSE hub
  /\ Goto(c, "farewell")
  /\ told' = {pair \in told : c \notin {pair[1], pair[2]}}
  /\ lost' = {pair \in lost : c \notin {pair[1], pair[2]}}
  /\ undone' = {pair \in undone : c \notin {pair[1], pair[2]}}
  /\ UNCHANGED <<members, user, job, org, todo, target, ref, asked, outbox, writer,
                 sock, roster>>

-------------------------------------------------------------------------------
(* The writer goroutine and the client behind the socket. *)

\* handleRelayEvent: what one envelope does to the client's orgMates.
Seen(mates, env) ==
  IF env.type = "joined" THEN mates \cup {env.about}
  ELSE IF env.type = "left" THEN mates \ {env.about} ELSE mates

\* writeLoop writes the next envelope.  To a client that no longer reads,
\* the write may vanish into a buffer or fail; on failure writeLoop returns
\* and nothing drains the outbox any more.
WriteNext(c) ==
  /\ writer[c] /\ outbox[c] # <<>>
  /\ outbox' = [outbox EXCEPT ![c] = Tail(@)]
  /\ \/ /\ sock[c] = "open"
        /\ roster' = [roster EXCEPT ![c] = Seen(@, Head(outbox[c]))]
        /\ UNCHANGED writer
     \/ /\ sock[c] # "open"
        /\ writer' \in {writer, [writer EXCEPT ![c] = FALSE]}
        /\ UNCHANGED roster
  /\ UNCHANGED <<members, hub, handlerVars, sock, historyVars>>

Connected(c) == pc[c] \notin {"idle", "closed"}

\* The client disconnects.
HangUp(c) ==
  /\ c \in MayHangUp /\ Connected(c) /\ sock[c] # "gone"
  /\ sock' = [sock EXCEPT ![c] = "gone"]
  /\ UNCHANGED <<members, hub, handlerVars, outbox, writer, roster, historyVars>>

\* The client stops reading.
Stall(c) ==
  /\ MayStall /\ Connected(c) /\ sock[c] = "open"
  /\ sock' = [sock EXCEPT ![c] = "stalled"]
  /\ UNCHANGED <<members, hub, handlerVars, outbox, writer, roster, historyVars>>

-------------------------------------------------------------------------------
Presence(c) ==
  \/ QueryMates(c) \/ QueryMembers(c) \/ QueryFarewell(c) \/ QueryFails(c)
  \/ \E m \in Handles : VisitMate(c, m)
  \/ PushMate(c) \/ Lookup(c) \/ Deliver(c) \/ EndLoop(c)

Request(c) ==
  \/ \E h \in Handles : Authenticate(c, h) \/ Relay(c, h)
  \/ \E o \in Orgs : RedeemInvite(c, o) \/ CreateOrg(c, o)
  \/ Refuse(c) \/ Ask(c)

Handler(c) == PushReply(c) \/ Presence(c) \/ Leave(c)

Next ==
  \E c \in Conns :
    \/ Accept(c) \/ Request(c) \/ Handler(c) \/ ReadEnd(c)
    \/ WriteNext(c) \/ HangUp(c) \/ Stall(c)

Spec == Init /\ [][Next]_vars

\* The Go scheduler runs every goroutine that can run; clients owe nothing.
\* A read of a socket that is gone returns.
Fairness ==
  \A c \in Conns :
    /\ WF_vars(Handler(c))
    /\ WF_vars(WriteNext(c))
    /\ WF_vars(ReadEnd(c) /\ sock[c] = "gone")

FairSpec == Spec /\ Fairness

-------------------------------------------------------------------------------
TypeOK ==
  /\ members \in [Orgs -> SUBSET Handles]
  /\ hub \in [Handles -> Conns \cup {NoOne}]
  /\ pc \in [Conns -> Phases]
  /\ user \in [Conns -> Handles \cup {NoOne}]
  /\ job \in [Conns -> Jobs]
  /\ org \in [Conns -> Orgs \cup {NoOne}]
  /\ todo \in [Conns -> SUBSET Handles]
  /\ target \in [Conns -> Handles \cup {NoOne}]
  /\ ref \in [Conns -> Conns \cup {NoOne}]
  /\ outbox \in [Conns -> Seq(Envelopes)]
  /\ \A c \in Conns : Len(outbox[c]) <= OutboxSize
  /\ writer \in [Conns -> BOOLEAN]
  /\ sock \in [Conns -> {"open", "stalled", "gone"}]
  /\ roster \in [Conns -> SUBSET Handles]
  /\ asked \in [Conns -> 0..MaxRequests]
  /\ told \subseteq Conns \X Conns
  /\ lost \subseteq Conns \X Conns
  /\ undone \subseteq Conns \X Conns

\* The connections that completed Hub.Join and have not reached Hub.Leave.
Registered(c) ==
  \/ pc[c] \in {"token", "mates", "push", "reply", "members", "ready", "leave"}
  \/ pc[c] \in {"roster", "lookup", "deliver"} /\ job[c] # "leave"

\* Hub's doc promises "at most one active connection per handle": a handle
\* is registered exactly while one connection's handler is between its
\* Join and its Leave, whatever other connections of that user do.
OneConnectionPerHandle ==
  /\ \A h \in Handles, c \in Conns : hub[h] = c <=> Registered(c) /\ user[c] = h
  /\ \A c, d \in Conns :
       Registered(c) /\ Registered(d) /\ user[c] = user[d] => c = d

\* What is queued for c is about users its own user shares an org with.
OutboxIsolated(c) ==
  \A i \in DOMAIN outbox[c] :
    outbox[c][i].type # "reply" => Shares(user[c], outbox[c][i].about)

\* Presence and relay are "scoped to shared organization membership": no
\* outbox ever holds, and no client is ever shown, anything about a user
\* its own user shares no organization with.
OrgIsolation ==
  \A c \in Conns :
    OutboxIsolated(c) /\ \A h \in roster[c] : Shares(user[c], h)

\* completeJoin registers before it looks for mates, so of two connections
\* racing to come online one sees the other: whenever two org-mates are both
\* past their presence exchange, each was sent the other's arrival, unless
\* its outbox was full or the store failed.
NoMissedPresence ==
  \A c, d \in Conns :
    /\ pc[c] = "ready" /\ pc[d] = "ready"
    /\ user[c] # user[d] /\ Shares(user[c], user[d])
    => <<c, d>> \in told \cup lost

\* Two org-mates who finished connecting end up on each other's screens, those
\* who left and came back included, unless one leaves, stops reading, a full
\* outbox dropped the notice, or the farewell of a mate's earlier connection was
\* said after the arrival of the one it has now.
RosterConverges ==
  \A c \in Conns : \A d \in Conns \ {c} :
    (/\ pc[c] = "ready" /\ pc[d] = "ready"
     /\ user[c] # user[d] /\ Shares(user[c], user[d]))
    ~> \/ user[d] \in roster[c] \/ <<c, d>> \in lost \cup undone
       \/ sock[c] # "open" \/ ~Registered(d)

\* presence_left is pushed "when Handle disconnects": the handler of a client
\* that is gone reaches its Leave, so the handle can connect again.  It fails
\* one way only: the writer has stopped at an error and the outbox is full, so
\* the handler waits on it for ever (server.go:130-137).
HandleReleased ==
  \A c \in Conns :
    sock[c] = "gone" ~> \/ \A h \in Handles : hub[h] # c
                        \/ ~writer[c] /\ Len(outbox[c]) = OutboxSize

-------------------------------------------------------------------------------
(* The inductive invariant behind the safety properties. *)

Before == {"idle", "preauth", "refuse"}

\* Where a handler is determines its job, and a job its locals.
LocalsOK(c) ==
  /\ pc[c] \in Before => user[c] = NoOne
  /\ pc[c] \notin Before \cup {"closed"} => user[c] \in Handles
  /\ pc[c] \in {"token", "mates"} => job[c] = "connect"
  /\ pc[c] = "members" => job[c] = "orgjoin"
  /\ pc[c] = "reply" => job[c] \in {"none", "orgjoin"}
  /\ pc[c] \in {"reply", "members"} /\ job[c] = "orgjoin" =>
       org[c] \in Orgs /\ user[c] \in members[org[c]]
  /\ pc[c] = "roster" => job[c] \in {"connect", "orgjoin", "leave"}
  /\ pc[c] = "push" => job[c] \in {"connect", "orgjoin"}
  /\ pc[c] \in {"lookup", "deliver"} => job[c] \in {"connect", "orgjoin", "leave", "relay"}
  /\ pc[c] \in {"ready", "leave", "farewell"} => job[c] = "none"
  /\ pc[c] \in {"push", "lookup", "deliver"} => target[c] \in Handles
  /\ pc[c] \in {"push", "deliver"} => ref[c] \in Conns

Locals == \A c \in Conns : LocalsOK(c)

\* The Hub agrees with the handlers.
Registry ==
  \A h \in Handles, c \in Conns : hub[h] = c <=> Registered(c) /\ user[c] = h

\* Whatever a handler is about to announce, and whoever it is about to tell,
\* shares an organization with its user.
IsolatedOK(c) ==
  /\ OutboxIsolated(c)
  /\ \A h \in roster[c] \cup todo[c] : Shares(user[c], h)
  /\ pc[c] \in {"push", "lookup", "deliver"} => Shares(user[c], target[c])
  /\ pc[c] = "deliver" => user[ref[c]] = target[c]

Isolated == \A c \in Conns : IsolatedOK(c)

Announced(c, d) == <<c, d>> \in told \cup lost

\* c's handler has still to visit d's user, or is visiting it right now.
Owes(c, d) ==
  \/ pc[c] \in {"token", "mates"}
  \/ /\ pc[c] \in {"reply", "members"} /\ job[c] = "orgjoin"
     /\ user[d] \in members[org[c]]
  \/ /\ pc[c] \in {"roster", "push", "lookup", "deliver"}
     /\ job[c] \in {"connect", "orgjoin"}
     /\ \/ user[d] \in todo[c]
        \/ pc[c] = "push" /\ ref[c] = d /\ target[c] = user[d]
        \/ pc[c] = "lookup" /\ target[c] = user[d] /\ Announced(c, d)
        \/ pc[c] = "deliver" /\ ref[c] = d /\ Announced(c, d)

MetOK(c, d) ==
  Registered(c) /\ Registered(d) /\ user[c] # user[d] /\ Shares(user[c], user[d])
  => Owes(c, d) \/ Owes(d, c) \/ (Announced(c, d) /\ Announced(d, c))

\* Of two registered org-mates, one still owes the other a visit unless both
\* notices are out.
Met == \A c, d \in Conns : MetOK(c, d)

IInv == TypeOK /\ Locals /\ Registry /\ Isolated /\ Met
================================================================================
