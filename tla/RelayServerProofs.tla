--------------------------- MODULE RelayServerProofs ---------------------------
(* Proofs of RelayServer's invariants, for any number of users and        *)
(* connections and any outbox size.                                       *)
EXTENDS RelayServer, TLAPS

-------------------------------------------------------------------------------
USE ServerAssumption

LEMMA NoticeType ==
  ASSUME NEW c \in Conns, user[c] \in Handles
  PROVE  Notice(c) \in Envelopes
  BY DEF Notice, Envelopes

LEMMA PutType ==
  ASSUME TypeOK, NEW c \in Conns, NEW e \in Envelopes, HasRoom(c), Put(c, e)
  PROVE  /\ outbox' \in [Conns -> Seq(Envelopes)]
         /\ \A d \in Conns : Len(outbox'[d]) <= OutboxSize
<1>1. outbox[c] \in Seq(Envelopes) /\ Append(outbox[c], e) \in Seq(Envelopes)
  BY DEF TypeOK
<1>2. Len(Append(outbox[c], e)) = Len(outbox[c]) + 1 /\ Len(outbox[c]) \in Nat
  BY <1>1
<1>3. QED BY <1>1, <1>2 DEF TypeOK, Put, HasRoom

\* Moving a handler to one of its phases keeps the type of pc.
LEMMA GotoType ==
  ASSUME TypeOK, NEW c \in Conns, NEW phase \in Phases, Goto(c, phase)
  PROVE  pc' \in [Conns -> Phases]
  BY DEF Goto, TypeOK

LEMMA TypeInit == Init => TypeOK
  BY DEF Init, TypeOK, Phases, Jobs

LEMMA TypeNext == TypeOK /\ Locals /\ [Next]_vars => TypeOK'
<1> SUFFICES ASSUME TypeOK, Locals, [Next]_vars PROVE TypeOK'
  OBVIOUS
<1> USE DEF handlerVars, historyVars
<1>1. CASE UNCHANGED vars
  BY <1>1 DEF vars, TypeOK
<1>2. ASSUME NEW c \in Conns, Accept(c) PROVE TypeOK'
  BY <1>2 DEF Accept, Goto, TypeOK, Phases
<1>3. ASSUME NEW c \in Conns, Request(c) PROVE TypeOK'
  <2>1. asked' \in [Conns -> 0..MaxRequests]
    <3>1. Serve(c, "preauth") \/ Serve(c, "ready")
      BY <1>3 DEF Request, Authenticate, Refuse, Relay, RedeemInvite, CreateOrg, Ask
    <3>2. asked[c] \in Nat /\ asked[c] < MaxRequests
          /\ asked' = [asked EXCEPT ![c] = asked[c] + 1]
      BY <3>1 DEF Serve, TypeOK
    <3>3. asked[c] + 1 \in 0..MaxRequests
      BY <3>2
    <3>4. QED BY <3>2, <3>3 DEF TypeOK
  <2>2. CASE \E h \in Handles : Authenticate(c, h)
    <3>1. pc' \in [Conns -> Phases]
      BY <2>2, GotoType DEF Authenticate, Phases
    <3>2. hub' \in [Handles -> Conns \cup {NoOne}] /\ user' \in [Conns -> Handles \cup {NoOne}]
      BY <2>2 DEF Authenticate, TypeOK
    <3>3. job' \in [Conns -> Jobs]
      BY <2>2 DEF Authenticate, TypeOK, Jobs
    <3>4. QED BY <2>1, <2>2, <3>1, <3>2, <3>3 DEF Authenticate, TypeOK
  <2>3. CASE \E h \in Handles : Relay(c, h)
    <3>1. pc' \in [Conns -> Phases]
      BY <2>3, GotoType DEF Relay, Phases
    <3>2. target' \in [Conns -> Handles \cup {NoOne}]
      BY <2>3 DEF Relay, TypeOK
    <3>3. job' \in [Conns -> Jobs]
      BY <2>3 DEF Relay, TypeOK, Jobs
    <3>4. QED BY <2>1, <2>3, <3>1, <3>2, <3>3 DEF Relay, TypeOK
  <2>4. CASE \E o \in Orgs : RedeemInvite(c, o)
    <3>1. user[c] \in Handles
      BY <2>4 DEF RedeemInvite, Serve, Locals, LocalsOK, Before
    <3>2. members' \in [Orgs -> SUBSET Handles]
      BY <2>4, <3>1 DEF RedeemInvite, TypeOK
    <3>3. pc' \in [Conns -> Phases]
      BY <2>4, GotoType DEF RedeemInvite, Phases
    <3>4. job' \in [Conns -> Jobs] /\ org' \in [Conns -> Orgs \cup {NoOne}]
      BY <2>4 DEF RedeemInvite, TypeOK, Jobs
    <3>5. QED BY <2>1, <2>4, <3>2, <3>3, <3>4 DEF RedeemInvite, TypeOK
  <2>5. CASE \E o \in Orgs : CreateOrg(c, o)
    <3>1. user[c] \in Handles
      BY <2>5 DEF CreateOrg, Serve, Locals, LocalsOK, Before
    <3>2. members' \in [Orgs -> SUBSET Handles]
      BY <2>5, <3>1 DEF CreateOrg, TypeOK
    <3>3. pc' \in [Conns -> Phases]
      BY <2>5, GotoType DEF CreateOrg, Phases
    <3>4. QED BY <2>1, <2>5, <3>2, <3>3 DEF CreateOrg, TypeOK, Jobs
  <2>6. CASE Refuse(c) \/ Ask(c)
    BY <2>1, <2>6 DEF Refuse, Ask, Goto, TypeOK, Phases, Jobs
  <2>7. QED BY <1>3, <2>2, <2>3, <2>4, <2>5, <2>6 DEF Request
<1>4. ASSUME NEW c \in Conns, PushReply(c) PROVE TypeOK'
  <2>1. Reply \in Envelopes
    BY DEF Reply, Envelopes
  <2>2. /\ outbox' \in [Conns -> Seq(Envelopes)]
        /\ \A d \in Conns : Len(outbox'[d]) <= OutboxSize
    BY <1>4, <2>1, PutType DEF PushReply
  <2>3. QED BY <1>4, <2>2 DEF PushReply, Goto, TypeOK, Phases
<1>5. ASSUME NEW c \in Conns, QueryMates(c) \/ QueryMembers(c) \/ QueryFarewell(c)
      PROVE  TypeOK'
  <2>1. \E hs \in SUBSET Handles : StartLoop(c, hs)
    BY <1>5 DEF QueryMates, QueryMembers, QueryFarewell, Mates, TypeOK, Locals, LocalsOK
  <2>2. job' \in [Conns -> Jobs]
    BY <1>5 DEF QueryMates, QueryMembers, QueryFarewell, TypeOK, Jobs
  <2>3. todo' \in [Conns -> SUBSET Handles] /\ org' \in [Conns -> Orgs \cup {NoOne}]
    BY <2>1 DEF StartLoop, TypeOK
  <2>4. QED BY <2>1, <2>2, <2>3 DEF StartLoop, Goto, TypeOK, Phases
<1>6. ASSUME NEW c \in Conns, QueryFails(c) PROVE TypeOK'
  BY <1>6 DEF QueryFails, Finish, Goto, TypeOK, Phases, Jobs
<1>7. ASSUME NEW c \in Conns, NEW m \in Handles, VisitMate(c, m) PROVE TypeOK'
  <2>1. todo' \in [Conns -> SUBSET Handles]
    <3>1. todo[c] \ {m} \in SUBSET Handles
      BY DEF TypeOK
    <3>2. todo' = [todo EXCEPT ![c] = todo[c] \ {m}]
      BY <1>7 DEF VisitMate
    <3>3. QED BY <3>1, <3>2 DEF TypeOK
  <2>2. ref' \in [Conns -> Conns \cup {NoOne}] /\ target' \in [Conns -> Handles \cup {NoOne}]
    <3>1. hub[m] \in Conns \cup {NoOne}
      BY DEF TypeOK
    <3>2. CASE UNCHANGED <<target, ref>>
      BY <3>2 DEF TypeOK
    <3>3. CASE target' = [target EXCEPT ![c] = m] /\ ref' = [ref EXCEPT ![c] = hub[m]]
      BY <3>1, <3>3 DEF TypeOK
    <3>4. QED BY <1>7, <3>2, <3>3 DEF VisitMate
  <2>3. pc' \in [Conns -> Phases]
    <3>1. UNCHANGED pc \/ Goto(c, "lookup") \/ Goto(c, "push")
      BY <1>7 DEF VisitMate
    <3>2. {"lookup", "push"} \subseteq Phases
      BY DEF Phases
    <3>3. CASE UNCHANGED pc
      BY <3>3 DEF TypeOK
    <3>4. QED BY <3>1, <3>2, <3>3, GotoType
  <2>4. QED BY <1>7, <2>1, <2>2, <2>3 DEF VisitMate, TypeOK
<1>8. ASSUME NEW c \in Conns, PushMate(c) PROVE TypeOK'
  <2>1. Joined(target[c]) \in Envelopes
    BY <1>8 DEF PushMate, Joined, Envelopes, Locals, LocalsOK
  <2>2. /\ outbox' \in [Conns -> Seq(Envelopes)]
        /\ \A d \in Conns : Len(outbox'[d]) <= OutboxSize
    BY <1>8, <2>1, PutType DEF PushMate
  <2>3. told' \subseteq Conns \X Conns
    BY <1>8 DEF PushMate, TypeOK, Locals, LocalsOK
  <2>4. QED BY <1>8, <2>2, <2>3 DEF PushMate, Goto, TypeOK, Phases
<1>9. ASSUME NEW c \in Conns, Lookup(c) PROVE TypeOK'
  <2>1. target[c] \in Handles
    BY <1>9 DEF Lookup, Locals, LocalsOK
  <2>2. ref' \in [Conns -> Conns \cup {NoOne}] /\ target' \in [Conns -> Handles \cup {NoOne}]
    BY <1>9, <2>1 DEF Lookup, AfterSend, TypeOK
  <2>3. pc' \in [Conns -> Phases]
    <3>1. \E phase \in {"roster", "ready", "reply", "deliver"} : Goto(c, phase)
      BY <1>9 DEF Lookup, AfterSend
    <3>2. {"roster", "ready", "reply", "deliver"} \subseteq Phases
      BY DEF Phases
    <3>3. QED BY <3>1, <3>2, GotoType
  <2>4. job' \in [Conns -> Jobs]
    <3>1. \/ UNCHANGED job
          \/ job' = [job EXCEPT ![c] = IF @ = "relay" THEN "none" ELSE @]
      BY <1>9 DEF Lookup, AfterSend
    <3>2. job[c] \in Jobs /\ "none" \in Jobs
      BY DEF TypeOK, Jobs
    <3>3. QED BY <3>1, <3>2 DEF TypeOK
  <2>5. QED BY <1>9, <2>2, <2>3, <2>4 DEF Lookup, TypeOK
<1>10. ASSUME NEW c \in Conns, Deliver(c) PROVE TypeOK'
  <2>1. ref[c] \in Conns
    BY <1>10 DEF Deliver, Locals, LocalsOK
  <2>2. /\ outbox' \in [Conns -> Seq(Envelopes)]
        /\ \A d \in Conns : Len(outbox'[d]) <= OutboxSize
    <3>1. Notice(c) \in Envelopes
      BY <1>10, NoticeType DEF Deliver, Locals, LocalsOK, Before
    <3>2. CASE HasRoom(ref[c])
      BY <1>10, <2>1, <3>1, <3>2, PutType DEF Deliver
    <3>3. CASE ~HasRoom(ref[c])
      BY <1>10, <3>3 DEF Deliver, TypeOK
    <3>4. QED BY <3>2, <3>3
  <2>3. told' \subseteq Conns \X Conns /\ lost' \subseteq Conns \X Conns
    BY <1>10, <2>1 DEF Deliver, TypeOK
  <2>4. undone' \subseteq Conns \X Conns
    <3>1. ASSUME NEW pair \in Overtaken(c) PROVE pair \in Conns \X Conns
      <4>1. PICK d \in Conns : pair = <<ref[c], d>>
        BY DEF Overtaken
      <4>2. QED BY <2>1, <4>1
    <3>2. undone' \subseteq undone \cup Overtaken(c)
      BY <1>10 DEF Deliver
    <3>3. QED BY <3>1, <3>2 DEF TypeOK
  <2>5. /\ pc' \in [Conns -> Phases] /\ job' \in [Conns -> Jobs]
        /\ target' \in [Conns -> Handles \cup {NoOne}] /\ ref' \in [Conns -> Conns \cup {NoOne}]
    BY <1>10 DEF Deliver, AfterSend, Goto, TypeOK, Phases, Jobs
  <2>6. QED BY <1>10, <2>2, <2>3, <2>4, <2>5 DEF Deliver, TypeOK
<1>11. ASSUME NEW c \in Conns, EndLoop(c) PROVE TypeOK'
  <2>1. pc' \in [Conns -> Phases]
    <3>1. Goto(c, "closed") \/ Goto(c, "ready")
      BY <1>11 DEF EndLoop, Finish
    <3>2. {"closed", "ready"} \subseteq Phases
      BY DEF Phases
    <3>3. QED BY <3>1, <3>2, GotoType
  <2>2. writer' \in [Conns -> BOOLEAN] /\ sock' \in [Conns -> {"open", "stalled", "gone"}]
    BY <1>11 DEF EndLoop, Finish, TypeOK
  <2>3. job' \in [Conns -> Jobs]
    BY <1>11 DEF EndLoop, TypeOK, Jobs
  <2>4. QED BY <1>11, <2>1, <2>2, <2>3 DEF EndLoop, TypeOK
<1>12. ASSUME NEW c \in Conns, Leave(c) PROVE TypeOK'
  BY <1>12 DEF Leave, Goto, TypeOK, Phases
<1>13. ASSUME NEW c \in Conns, ReadEnd(c) PROVE TypeOK'
  BY <1>13 DEF ReadEnd, Finish, Goto, TypeOK, Phases
<1>14. ASSUME NEW c \in Conns, WriteNext(c) PROVE TypeOK'
  <2>1. /\ Head(outbox[c]) \in Envelopes /\ Tail(outbox[c]) \in Seq(Envelopes)
        /\ Len(Tail(outbox[c])) <= OutboxSize
    BY <1>14 DEF WriteNext, TypeOK
  <2>2. \A r \in SUBSET Handles : Seen(r, Head(outbox[c])) \in SUBSET Handles
    BY <2>1 DEF Seen, Envelopes, Reply
  <2>3. roster' \in [Conns -> SUBSET Handles]
    <3>1. CASE roster' = roster
      BY <3>1 DEF TypeOK
    <3>2. CASE roster' = [roster EXCEPT ![c] = Seen(roster[c], Head(outbox[c]))]
      BY <2>2, <3>2 DEF TypeOK
    <3>3. QED BY <1>14, <3>1, <3>2 DEF WriteNext
  <2>4. QED BY <1>14, <2>1, <2>3 DEF WriteNext, TypeOK
<1>15. ASSUME NEW c \in Conns, HangUp(c) \/ Stall(c) PROVE TypeOK'
  BY <1>15 DEF HangUp, Stall, TypeOK
<1>16. QED
  BY <1>1, <1>2, <1>3, <1>4, <1>5, <1>6, <1>7, <1>8, <1>9, <1>10, <1>11, <1>12, <1>13,
     <1>14, <1>15 DEF Next, Handler, Presence

-------------------------------------------------------------------------------
LEMMA LocalsInit == Init => Locals /\ Registry
  BY DEF Init, Locals, LocalsOK, Registry, Registered, Before

LEMMA LocalsNext == TypeOK /\ Locals /\ Registry /\ [Next]_vars => Locals'
<1> SUFFICES ASSUME TypeOK, Locals, Registry, [Next]_vars, NEW d \in Conns
             PROVE  LocalsOK(d)'
  BY DEF Locals
<1> USE DEF handlerVars, historyVars, Goto
<1>a. LocalsOK(d)
  BY DEF Locals
<1>1. CASE UNCHANGED vars
  BY <1>1, <1>a DEF vars, LocalsOK
<1>2. ASSUME NEW c \in Conns, Accept(c) PROVE LocalsOK(d)'
  BY <1>2, <1>a DEF Accept, TypeOK, LocalsOK, Before
<1>3. ASSUME NEW c \in Conns, Request(c) PROVE LocalsOK(d)'
  <2>1. CASE \E h \in Handles : Authenticate(c, h)
    BY <1>a, <2>1 DEF Authenticate, Serve, TypeOK, LocalsOK, Before
  <2>2. CASE \E h \in Handles : Relay(c, h)
    BY <1>a, <2>2 DEF Relay, Serve, TypeOK, LocalsOK, Before
  <2>3. ASSUME NEW o \in Orgs, RedeemInvite(c, o) PROVE LocalsOK(d)'
    BY <1>a, <2>3 DEF RedeemInvite, Serve, TypeOK, LocalsOK, Before
  <2>4. ASSUME NEW o \in Orgs, CreateOrg(c, o) PROVE LocalsOK(d)'
    BY <1>a, <2>4 DEF CreateOrg, Serve, TypeOK, LocalsOK, Before
  <2>5. CASE Refuse(c) \/ Ask(c)
    BY <1>a, <2>5 DEF Refuse, Ask, Serve, TypeOK, LocalsOK, Before
  <2>6. QED BY <1>3, <2>1, <2>2, <2>3, <2>4, <2>5 DEF Request
<1>4. ASSUME NEW c \in Conns, PushReply(c) PROVE LocalsOK(d)'
  BY <1>4, <1>a DEF PushReply, TypeOK, LocalsOK, Before
<1>5. ASSUME NEW c \in Conns, QueryMates(c) \/ QueryMembers(c) \/ QueryFarewell(c)
      PROVE  LocalsOK(d)'
  BY <1>5, <1>a DEF QueryMates, QueryMembers, QueryFarewell, StartLoop, TypeOK, LocalsOK, Before
<1>6. ASSUME NEW c \in Conns, QueryFails(c) PROVE LocalsOK(d)'
  BY <1>6, <1>a DEF QueryFails, Finish, TypeOK, LocalsOK, Before
<1>7. ASSUME NEW c \in Conns, NEW m \in Handles, VisitMate(c, m) PROVE LocalsOK(d)'
  BY <1>7, <1>a DEF VisitMate, TypeOK, LocalsOK, Before
<1>8. ASSUME NEW c \in Conns, PushMate(c) PROVE LocalsOK(d)'
  BY <1>8, <1>a DEF PushMate, TypeOK, LocalsOK, Before
<1>9. ASSUME NEW c \in Conns, Lookup(c) PROVE LocalsOK(d)'
  BY <1>9, <1>a DEF Lookup, AfterSend, TypeOK, LocalsOK, Before
<1>10. ASSUME NEW c \in Conns, Deliver(c) PROVE LocalsOK(d)'
  BY <1>10, <1>a DEF Deliver, AfterSend, TypeOK, LocalsOK, Before
<1>11. ASSUME NEW c \in Conns, EndLoop(c) PROVE LocalsOK(d)'
  BY <1>11, <1>a DEF EndLoop, Finish, TypeOK, LocalsOK, Before
<1>12. ASSUME NEW c \in Conns, Leave(c) PROVE LocalsOK(d)'
  BY <1>12, <1>a DEF Leave, TypeOK, LocalsOK, Before
<1>13. ASSUME NEW c \in Conns, ReadEnd(c) PROVE LocalsOK(d)'
  BY <1>13, <1>a DEF ReadEnd, Finish, TypeOK, LocalsOK, Before
<1>14. ASSUME NEW c \in Conns, WriteNext(c) \/ HangUp(c) \/ Stall(c) PROVE LocalsOK(d)'
  BY <1>14, <1>a DEF WriteNext, HangUp, Stall, TypeOK, LocalsOK, Before
<1>15. QED
  BY <1>1, <1>2, <1>3, <1>4, <1>5, <1>6, <1>7, <1>8, <1>9, <1>10, <1>11, <1>12, <1>13,
     <1>14 DEF Next, Handler, Presence

-------------------------------------------------------------------------------
(* The registry of the Hub agrees with the handlers.  Only Join and Leave  *)
(* change either side; every other step keeps Registered.                  *)

LEMMA StepKeepsRegistry ==
  ASSUME TypeOK, Registry, UNCHANGED <<hub, user>>,
         \A d \in Conns : Registered(d)' <=> Registered(d)
  PROVE  Registry'
  BY DEF Registry

LEMMA RegistryNext == TypeOK /\ Locals /\ Registry /\ [Next]_vars => Registry'
<1> SUFFICES ASSUME TypeOK, Locals, Registry, [Next]_vars PROVE Registry'
  OBVIOUS
<1> USE DEF handlerVars, historyVars, Goto
<1>1. ASSUME NEW c \in Conns, NEW g \in Handles, Authenticate(c, g) PROVE Registry'
  <2>1. SUFFICES ASSUME NEW h \in Handles, NEW d \in Conns
                 PROVE  hub'[h] = d <=> Registered(d)' /\ user'[d] = h
    BY DEF Registry
  <2>2. hub[h] = d <=> Registered(d) /\ user[d] = h
    BY DEF Registry
  <2>3. Registered(d)' <=> d = c \/ Registered(d)
    BY <1>1 DEF Authenticate, Serve, Registered, TypeOK
  <2>4. ~Registered(c)
    BY <1>1 DEF Authenticate, Serve, Registered
  <2>5. hub'[h] = IF h = g THEN c ELSE hub[h]
    BY <1>1 DEF Authenticate, TypeOK
  <2>6. user'[d] = IF d = c THEN g ELSE user[d]
    BY <1>1 DEF Authenticate, TypeOK
  <2>7. hub[g] = NoOne
    BY <1>1 DEF Authenticate
  <2>8. QED BY <2>2, <2>3, <2>4, <2>5, <2>6, <2>7 DEF Registry
<1>2. ASSUME NEW c \in Conns, Leave(c) PROVE Registry'
  <2>1. SUFFICES ASSUME NEW h \in Handles, NEW d \in Conns
                 PROVE  hub'[h] = d <=> Registered(d)' /\ user'[d] = h
    BY DEF Registry
  <2>2. /\ hub[h] = d <=> Registered(d) /\ user[d] = h
        /\ hub[h] = c <=> Registered(c) /\ user[c] = h
    BY DEF Registry
  <2>3. Registered(c) /\ user[c] \in Handles
    BY <1>2 DEF Leave, Registered, Locals, LocalsOK, Before
  <2>4. hub' = [hub EXCEPT ![user[c]] = NoOne]
    BY <1>2, <2>3 DEF Leave, Registry
  <2>5. Registered(d)' <=> d # c /\ Registered(d)
    BY <1>2 DEF Leave, Registered, TypeOK
  <2>6. user' = user
    BY <1>2 DEF Leave
  <2>7. QED BY <2>2, <2>3, <2>4, <2>5, <2>6 DEF TypeOK
<1>3. ASSUME NEW c \in Conns, Accept(c) \/ Refuse(c) \/ Ask(c) PROVE Registry'
  <2>1. ASSUME NEW d \in Conns PROVE Registered(d)' <=> Registered(d)
    BY <1>3 DEF Accept, Refuse, Ask, Serve, Registered, TypeOK
  <2>2. QED BY <1>3, <2>1, StepKeepsRegistry DEF Accept, Refuse, Ask
<1>4. ASSUME NEW c \in Conns, PushReply(c) PROVE Registry'
  <2>1. ASSUME NEW d \in Conns PROVE Registered(d)' <=> Registered(d)
    BY <1>4 DEF PushReply, Locals, LocalsOK, Registered, TypeOK
  <2>2. QED BY <1>4, <2>1, StepKeepsRegistry DEF PushReply
<1>5. ASSUME NEW c \in Conns, QueryMates(c) \/ QueryMembers(c) PROVE Registry'
  <2>1. ASSUME NEW d \in Conns PROVE Registered(d)' <=> Registered(d)
    BY <1>5 DEF QueryMates, QueryMembers, StartLoop, Locals, LocalsOK, Registered, TypeOK
  <2>2. QED BY <1>5, <2>1, StepKeepsRegistry DEF QueryMates, QueryMembers, StartLoop
<1>6. ASSUME NEW c \in Conns, QueryFarewell(c) PROVE Registry'
  <2>1. ASSUME NEW d \in Conns PROVE Registered(d)' <=> Registered(d)
    BY <1>6 DEF QueryFarewell, StartLoop, Registered, TypeOK
  <2>2. QED BY <1>6, <2>1, StepKeepsRegistry DEF QueryFarewell, StartLoop
<1>7. ASSUME NEW c \in Conns, QueryFails(c) \/ EndLoop(c) \/ ReadEnd(c) PROVE Registry'
  <2>1. ASSUME NEW d \in Conns PROVE Registered(d)' <=> Registered(d)
    BY <1>7 DEF QueryFails, EndLoop, ReadEnd, Finish, Registered, TypeOK
  <2>2. QED BY <1>7, <2>1, StepKeepsRegistry DEF QueryFails, EndLoop, ReadEnd, Finish
<1>8. ASSUME NEW c \in Conns, PushMate(c) PROVE Registry'
  <2>1. ASSUME NEW d \in Conns PROVE Registered(d)' <=> Registered(d)
    BY <1>8 DEF PushMate, Locals, LocalsOK, Registered, TypeOK
  <2>2. QED BY <1>8, <2>1, StepKeepsRegistry DEF PushMate
<1>9. ASSUME NEW c \in Conns, Lookup(c) PROVE Registry'
  <2>1. ASSUME NEW d \in Conns PROVE Registered(d)' <=> Registered(d)
    BY <1>9 DEF Lookup, AfterSend, Locals, LocalsOK, Registered, TypeOK
  <2>2. QED BY <1>9, <2>1, StepKeepsRegistry DEF Lookup, AfterSend
<1>10. ASSUME NEW c \in Conns, Deliver(c) PROVE Registry'
  <2>1. ASSUME NEW d \in Conns PROVE Registered(d)' <=> Registered(d)
    BY <1>10 DEF Deliver, AfterSend, Locals, LocalsOK, Registered, TypeOK
  <2>2. QED BY <1>10, <2>1, StepKeepsRegistry DEF Deliver, AfterSend
<1>11. ASSUME NEW c \in Conns, NEW m \in Handles, VisitMate(c, m) PROVE Registry'
  <2>1. ASSUME NEW d \in Conns PROVE Registered(d)' <=> Registered(d)
    BY <1>11 DEF VisitMate, Locals, LocalsOK, Registered, TypeOK
  <2>2. QED BY <1>11, <2>1, StepKeepsRegistry DEF VisitMate
<1>12. ASSUME NEW c \in Conns, NEW m \in Handles, Relay(c, m) PROVE Registry'
  <2>1. ASSUME NEW d \in Conns PROVE Registered(d)' <=> Registered(d)
    BY <1>12 DEF Relay, Serve, Registered, TypeOK
  <2>2. QED BY <1>12, <2>1, StepKeepsRegistry DEF Relay
<1>13. ASSUME NEW c \in Conns, NEW o \in Orgs, RedeemInvite(c, o) \/ CreateOrg(c, o) PROVE Registry'
  <2>1. ASSUME NEW d \in Conns PROVE Registered(d)' <=> Registered(d)
    BY <1>13 DEF RedeemInvite, CreateOrg, Serve, Registered, TypeOK
  <2>2. QED BY <1>13, <2>1, StepKeepsRegistry DEF RedeemInvite, CreateOrg
<1>14. CASE \E c \in Conns : WriteNext(c) \/ HangUp(c) \/ Stall(c)
  BY <1>14, StepKeepsRegistry DEF WriteNext, HangUp, Stall, Registered
<1>15. CASE UNCHANGED vars
  BY <1>15, StepKeepsRegistry DEF vars, Registered
<1>16. QED
  BY <1>1, <1>2, <1>3, <1>4, <1>5, <1>6, <1>7, <1>8, <1>9, <1>10, <1>11, <1>12, <1>13, <1>14, <1>15
     DEF Next, Handler, Presence, Request

-------------------------------------------------------------------------------
(* Memberships are never revoked and a connection never changes its user,  *)
(* so what was announced to an org-mate stays announced to an org-mate.     *)

LEMMA Stable ==
  TypeOK /\ Locals /\ [Next]_vars =>
    /\ \A o \in Orgs : members[o] \subseteq members'[o]
    /\ \A d \in Conns : user[d] \in Handles => user'[d] = user[d]
<1> SUFFICES ASSUME TypeOK, Locals, [Next]_vars
             PROVE  /\ \A o \in Orgs : members[o] \subseteq members'[o]
                    /\ \A d \in Conns : user[d] \in Handles => user'[d] = user[d]
  OBVIOUS
<1>1. CASE members' = members /\ user' = user
  BY <1>1
<1>2. ASSUME NEW c \in Conns, NEW h \in Handles, Authenticate(c, h)
      PROVE  members' = members /\ \A d \in Conns : user[d] \in Handles => user'[d] = user[d]
  BY <1>2 DEF Authenticate, Serve, TypeOK, Locals, LocalsOK, Before
<1>3. ASSUME NEW c \in Conns, NEW o \in Orgs, RedeemInvite(c, o) \/ CreateOrg(c, o)
      PROVE  user' = user /\ \A p \in Orgs : members[p] \subseteq members'[p]
  <2>1. user' = user
    BY <1>3 DEF RedeemInvite, CreateOrg
  <2>2. ASSUME NEW p \in Orgs PROVE members[p] \subseteq members'[p]
    <3>1. CASE members' = [members EXCEPT ![o] = members[o] \cup {user[c]}]
      BY <3>1 DEF TypeOK
    <3>2. CASE members[o] = {} /\ members' = [members EXCEPT ![o] = {user[c]}]
      BY <3>2 DEF TypeOK
    <3>3. QED BY <1>3, <3>1, <3>2 DEF RedeemInvite, CreateOrg
  <2>3. QED BY <2>1, <2>2
<1>4. ASSUME NEW c \in Conns, Handler(c) PROVE members' = members /\ user' = user
  BY <1>4 DEF Handler, Presence, PushReply, QueryMates, QueryMembers, QueryFarewell,
              StartLoop, QueryFails, VisitMate, PushMate, Lookup, Deliver, EndLoop, Leave
<1>5. ASSUME NEW c \in Conns, Accept(c) \/ ReadEnd(c) \/ WriteNext(c) \/ HangUp(c) \/ Stall(c)
      PROVE  members' = members /\ user' = user
  BY <1>5 DEF Accept, ReadEnd, WriteNext, HangUp, Stall, handlerVars
<1>6. ASSUME NEW c \in Conns, Refuse(c) \/ Ask(c) \/ \E h \in Handles : Relay(c, h)
      PROVE  members' = members /\ user' = user
  BY <1>6 DEF Refuse, Ask, Relay
<1>7. CASE UNCHANGED vars
  BY <1>7 DEF vars, handlerVars
<1>8. QED
  BY <1>1, <1>2, <1>3, <1>4, <1>5, <1>6, <1>7 DEF Next, Request

LEMMA SharesGrows ==
  ASSUME \A o \in Orgs : members[o] \subseteq members'[o],
         NEW g, NEW h, Shares(g, h)
  PROVE  Shares(g, h)'
  BY DEF Shares

\* Appending e to c's outbox keeps every outbox d's content isolated.
LEMMA PutKeepsIsolation ==
  ASSUME TypeOK, NEW c \in Conns, NEW e \in Envelopes, Put(c, e),
         \A o \in Orgs : members[o] \subseteq members'[o], user' = user,
         NEW d \in Conns, IsolatedOK(d),
         e.type # "reply" => Shares(user[c], e.about)
  PROVE  OutboxIsolated(d)'
<1> SUFFICES ASSUME NEW i \in DOMAIN outbox'[d], outbox'[d][i].type # "reply"
             PROVE  \E o \in Orgs : user[d] \in members'[o] /\ outbox'[d][i].about \in members'[o]
  BY DEF OutboxIsolated, Shares
<1>1. outbox[c] \in Seq(Envelopes) /\ outbox[d] \in Seq(Envelopes)
  BY DEF TypeOK
<1>2. outbox'[d] = IF d = c THEN Append(outbox[c], e) ELSE outbox[d]
  BY DEF Put, TypeOK
<1>3. CASE d = c /\ i = Len(outbox[c]) + 1
  <2>1. outbox'[d][i] = e
    BY <1>1, <1>2, <1>3
  <2>2. Shares(user[d], outbox'[d][i].about)
    BY <1>3, <2>1
  <2>3. QED BY <2>2 DEF Shares
<1>4. CASE ~(d = c /\ i = Len(outbox[c]) + 1)
  <2>1. i \in DOMAIN outbox[d] /\ outbox'[d][i] = outbox[d][i]
    BY <1>1, <1>2, <1>4
  <2>2. Shares(user[d], outbox'[d][i].about)
    BY <2>1 DEF IsolatedOK, OutboxIsolated
  <2>3. QED BY <2>2 DEF Shares
<1>5. QED BY <1>3, <1>4

\* A step that leaves d's own variables alone keeps IsolatedOK(d).
LEMMA OthersStayIsolated ==
  ASSUME TypeOK, Locals, NEW d \in Conns, IsolatedOK(d),
         \A o \in Orgs : members[o] \subseteq members'[o],
         \A f \in Conns : user[f] \in Handles => user'[f] = user[f],
         pc'[d] = pc[d], user'[d] = user[d], target'[d] = target[d], ref'[d] = ref[d],
         todo'[d] = todo[d], roster'[d] = roster[d], outbox'[d] = outbox[d]
  PROVE  IsolatedOK(d)'
<1>1. pc[d] = "deliver" => user'[ref[d]] = user[ref[d]]
  BY DEF IsolatedOK, Locals, LocalsOK
<1>2. \A g, h : Shares(g, h) => Shares(g, h)'
  BY SharesGrows
<1>3. QED BY <1>1, <1>2 DEF IsolatedOK, OutboxIsolated

LEMMA IsolatedInit == Init => Isolated
  BY DEF Init, Isolated, IsolatedOK, OutboxIsolated

LEMMA IsolatedNext == TypeOK /\ Locals /\ Registry /\ Isolated /\ [Next]_vars => Isolated'
<1> SUFFICES ASSUME TypeOK, Locals, Registry, Isolated, [Next]_vars, NEW d \in Conns
             PROVE  IsolatedOK(d)'
  BY DEF Isolated
<1> USE DEF handlerVars, historyVars, Goto
<1>a. IsolatedOK(d)
  BY DEF Isolated
<1>b. /\ \A o \in Orgs : members[o] \subseteq members'[o]
      /\ \A f \in Conns : user[f] \in Handles => user'[f] = user[f]
  BY Stable
<1>c. \A g, h : Shares(g, h) => Shares(g, h)'
  BY <1>b, SharesGrows
<1>1. CASE UNCHANGED vars
  BY <1>1, <1>a, <1>b, OthersStayIsolated DEF vars
<1>2. ASSUME NEW c \in Conns, Accept(c) \/ Leave(c) \/ EndLoop(c) \/ QueryFails(c) \/ ReadEnd(c)
      PROVE  IsolatedOK(d)'
  <2>1. /\ UNCHANGED <<members, user, target, ref, todo, outbox, roster>>
        /\ pc'[d] = pc[d] \/ pc'[d] \notin {"push", "lookup", "deliver"}
    BY <1>2 DEF Accept, Leave, EndLoop, QueryFails, ReadEnd, Finish, TypeOK
  <2>2. QED BY <1>a, <2>1 DEF IsolatedOK, OutboxIsolated, Shares
<1>3. ASSUME NEW c \in Conns, Refuse(c) \/ Ask(c) \/ \E o \in Orgs : RedeemInvite(c, o) \/ CreateOrg(c, o)
      PROVE  IsolatedOK(d)'
  <2>1. /\ UNCHANGED <<user, target, ref, todo, outbox, roster>>
        /\ pc'[d] = pc[d] \/ pc'[d] \notin {"push", "lookup", "deliver"}
    BY <1>3 DEF Refuse, Ask, RedeemInvite, CreateOrg, Serve, TypeOK
  <2>2. QED BY <1>a, <1>c, <2>1 DEF IsolatedOK, OutboxIsolated
<1>4. ASSUME NEW c \in Conns, NEW h \in Handles, Authenticate(c, h) PROVE IsolatedOK(d)'
  <2>1. CASE d # c
    BY <1>4, <1>a, <1>b, <2>1, OthersStayIsolated DEF Authenticate, Serve, TypeOK
  <2>2. CASE d = c
    <3>1. \A x : ~Shares(user[c], x)
      BY <1>4 DEF Authenticate, Serve, Locals, LocalsOK, Before, Shares, TypeOK
    <3>2. pc'[c] = "token"
      BY <1>4 DEF Authenticate, TypeOK
    <3>3. QED BY <1>4, <1>a, <2>2, <3>1, <3>2 DEF Authenticate, IsolatedOK, OutboxIsolated
  <2>3. QED BY <2>1, <2>2
<1>5. ASSUME NEW c \in Conns, NEW h \in Handles, Relay(c, h) PROVE IsolatedOK(d)'
  <2>1. CASE d # c
    BY <1>5, <1>a, <1>b, <2>1, OthersStayIsolated DEF Relay, Serve, TypeOK
  <2>2. CASE d = c
    BY <1>5, <1>a, <2>2 DEF Relay, Serve, IsolatedOK, OutboxIsolated, Shares, TypeOK
  <2>3. QED BY <2>1, <2>2
<1>6. ASSUME NEW c \in Conns, PushReply(c) PROVE IsolatedOK(d)'
  <2>1. Reply \in Envelopes /\ Reply.type = "reply"
    BY DEF Reply, Envelopes
  <2>2. UNCHANGED <<members, user, target, ref, todo, roster>>
    BY <1>6 DEF PushReply
  <2>3. pc'[d] = pc[d] \/ pc'[d] \notin {"push", "lookup", "deliver"}
    BY <1>6 DEF PushReply, TypeOK
  <2>4. OutboxIsolated(d)'
    BY <1>6, <1>a, <1>b, <2>1, <2>2, PutKeepsIsolation DEF PushReply
  <2>5. QED BY <1>a, <1>c, <2>2, <2>3, <2>4 DEF IsolatedOK
<1>7. ASSUME NEW c \in Conns, QueryMates(c) \/ QueryMembers(c) \/ QueryFarewell(c)
      PROVE  IsolatedOK(d)'
  <2>1. CASE d # c
    BY <1>7, <1>a, <1>b, <2>1, OthersStayIsolated
       DEF QueryMates, QueryMembers, QueryFarewell, StartLoop, TypeOK
  <2>2. CASE d = c
    <3>1. PICK hs : StartLoop(c, hs) /\ \A m \in hs : Shares(user[c], m)
      BY <1>7 DEF QueryMates, QueryMembers, QueryFarewell, Mates, Shares, Locals, LocalsOK
    <3>2. QED BY <1>a, <1>c, <2>2, <3>1 DEF StartLoop, IsolatedOK, OutboxIsolated, TypeOK
  <2>3. QED BY <2>1, <2>2
<1>8. ASSUME NEW c \in Conns, NEW m \in Handles, VisitMate(c, m) PROVE IsolatedOK(d)'
  <2>1. CASE d # c
    <3>1. UNCHANGED <<members, user, roster, outbox>>
      BY <1>8 DEF VisitMate
    <3>2. UNCHANGED <<pc[d], target[d], ref[d], todo[d]>>
      BY <1>8, <2>1 DEF VisitMate, Goto, TypeOK
    <3>3. QED BY <1>a, <1>b, <3>1, <3>2, OthersStayIsolated
  <2>2. CASE d = c
    <3>1. Shares(user[c], m) /\ \A g \in todo'[c] : g \in todo[c]
      BY <1>8, <1>a, <2>2 DEF VisitMate, IsolatedOK, TypeOK
    <3>2. pc'[c] # "deliver" /\ (pc'[c] \in {"push", "lookup"} => target'[c] = m)
      BY <1>8 DEF VisitMate, TypeOK
    <3>3. UNCHANGED <<members, user, outbox, roster>>
      BY <1>8 DEF VisitMate
    <3>4. QED BY <1>a, <1>c, <2>2, <3>1, <3>2, <3>3 DEF IsolatedOK, OutboxIsolated
  <2>3. QED BY <2>1, <2>2
<1>9. ASSUME NEW c \in Conns, PushMate(c) PROVE IsolatedOK(d)'
  <2>1. Joined(target[c]) \in Envelopes /\ Shares(user[c], Joined(target[c]).about)
    BY <1>9 DEF PushMate, Joined, Envelopes, Locals, LocalsOK, Isolated, IsolatedOK
  <2>2. UNCHANGED <<members, user, target, ref, todo, roster>>
    BY <1>9 DEF PushMate
  <2>3. /\ pc'[d] = pc[d] \/ (d = c /\ pc[c] = "push" /\ pc'[d] = "lookup")
    BY <1>9 DEF PushMate, TypeOK
  <2>4. OutboxIsolated(d)'
    BY <1>9, <1>a, <1>b, <2>1, <2>2, PutKeepsIsolation DEF PushMate
  <2>5. QED BY <1>a, <1>c, <2>2, <2>3, <2>4 DEF IsolatedOK
<1>10. ASSUME NEW c \in Conns, Lookup(c) PROVE IsolatedOK(d)'
  <2>1. CASE d # c
    <3>1. /\ pc'[d] = pc[d] /\ target'[d] = target[d] /\ ref'[d] = ref[d]
          /\ UNCHANGED <<user, todo, roster, outbox>>
      BY <1>10, <2>1 DEF Lookup, AfterSend, TypeOK
    <3>2. QED BY <1>a, <1>b, <3>1, OthersStayIsolated
  <2>2. CASE d = c /\ hub[target[c]] = NoOne
    BY <1>10, <1>a, <1>c, <2>2 DEF Lookup, AfterSend, IsolatedOK, OutboxIsolated, TypeOK
  <2>3. CASE d = c /\ hub[target[c]] # NoOne
    <3>1. target[c] \in Handles /\ hub[target[c]] \in Conns
      BY <1>10, <2>3 DEF Lookup, Locals, LocalsOK, TypeOK
    <3>2. user[hub[target[c]]] = target[c]
      BY <3>1 DEF Registry
    <3>3. QED BY <1>10, <1>a, <1>c, <2>3, <3>2 DEF Lookup, IsolatedOK, OutboxIsolated, TypeOK
  <2>4. QED BY <2>1, <2>2, <2>3
<1>11. ASSUME NEW c \in Conns, Deliver(c) PROVE IsolatedOK(d)'
  <2>1. /\ ref[c] \in Conns /\ user[c] \in Handles /\ Shares(user[c], target[c])
        /\ user[ref[c]] = target[c]
    BY <1>11 DEF Deliver, Locals, LocalsOK, Before, Isolated, IsolatedOK
  <2>2. Notice(c) \in Envelopes /\ Shares(user[ref[c]], Notice(c).about)
    BY <2>1, NoticeType DEF Notice, Shares
  <2>3. UNCHANGED <<members, user, todo, roster>>
    BY <1>11 DEF Deliver
  <2>4. OutboxIsolated(d)'
    <3>1. CASE HasRoom(ref[c])
      BY <1>11, <1>a, <1>b, <2>1, <2>2, <2>3, <3>1, PutKeepsIsolation DEF Deliver
    <3>2. CASE ~HasRoom(ref[c])
      BY <1>11, <1>a, <1>c, <2>3, <3>2 DEF Deliver, IsolatedOK, OutboxIsolated
    <3>3. QED BY <3>1, <3>2
  <2>5. \/ d = c /\ pc'[d] \notin {"push", "lookup", "deliver"}
        \/ pc'[d] = pc[d] /\ target'[d] = target[d] /\ ref'[d] = ref[d]
    BY <1>11 DEF Deliver, AfterSend, TypeOK
  <2>6. QED BY <1>a, <1>c, <2>3, <2>4, <2>5 DEF IsolatedOK
<1>12. ASSUME NEW c \in Conns, HangUp(c) \/ Stall(c) PROVE IsolatedOK(d)'
  BY <1>12, <1>a, <1>b, OthersStayIsolated DEF HangUp, Stall
<1>13. ASSUME NEW c \in Conns, WriteNext(c) PROVE IsolatedOK(d)'
  <2>1. CASE d # c
    <3>1. UNCHANGED <<members, user, pc, target, ref, todo>>
      BY <1>13 DEF WriteNext
    <3>2. UNCHANGED <<roster[d], outbox[d]>>
      BY <1>13, <2>1 DEF WriteNext, TypeOK
    <3>3. QED BY <1>a, <1>b, <3>1, <3>2, OthersStayIsolated
  <2>2. CASE d = c
    <3>1. outbox[c] \in Seq(Envelopes) /\ outbox[c] # <<>> /\ outbox'[c] = Tail(outbox[c])
      BY <1>13 DEF WriteNext, TypeOK
    <3>2. \A i \in DOMAIN outbox'[c] :
            i + 1 \in DOMAIN outbox[c] /\ outbox'[c][i] = outbox[c][i + 1]
      BY <3>1
    <3>3. 1 \in DOMAIN outbox[c] /\ Head(outbox[c]) = outbox[c][1] /\ Head(outbox[c]) \in Envelopes
      BY <3>1
    <3>4. \A h \in roster'[c] : h \in roster[c] \/
            (Head(outbox[c]).type # "reply" /\ h = Head(outbox[c]).about)
      BY <1>13 DEF WriteNext, Seen, TypeOK
    <3>5. \A h \in roster'[c] : Shares(user[c], h)
      BY <1>a, <2>2, <3>3, <3>4 DEF IsolatedOK, OutboxIsolated
    <3>6. UNCHANGED <<members, user, todo, target, ref, pc>>
      BY <1>13 DEF WriteNext
    <3>7. QED BY <1>a, <1>c, <2>2, <3>2, <3>5, <3>6 DEF IsolatedOK, OutboxIsolated
  <2>3. QED BY <2>1, <2>2
<1>14. QED
  BY <1>1, <1>2, <1>3, <1>4, <1>5, <1>6, <1>7, <1>8, <1>9, <1>10, <1>11, <1>12, <1>13
     DEF Next, Handler, Presence, Request

-------------------------------------------------------------------------------
(* Why nobody is missed: a connection that registers owes a visit to every *)
(* mate that is registered already, and a visit ends with both notices out. *)

LEMMA MetInit == Init => Met
  BY DEF Init, Met, MetOK, Registered

SameLocals(x) ==
  /\ pc'[x] = pc[x] /\ job'[x] = job[x] /\ org'[x] = org[x]
  /\ todo'[x] = todo[x] /\ target'[x] = target[x] /\ ref'[x] = ref[x]

\* What x owes y it still owes after a step of somebody else.
LEMMA OwesKeeps ==
  ASSUME TypeOK, Locals, NEW x \in Conns, NEW y \in Conns, Owes(x, y), SameLocals(x),
         user'[y] = user[y], \A o \in Orgs : members[o] \subseteq members'[o],
         Announced(x, y) => Announced(x, y)'
  PROVE  Owes(x, y)'
<1>1. pc[x] \in {"reply", "members"} /\ job[x] = "orgjoin" => org[x] \in Orgs
  BY DEF Locals, LocalsOK
<1>2. QED BY <1>1 DEF Owes, SameLocals

\* A step of c that registers nobody and creates no org-mates keeps Met as
\* soon as c does not forget a visit.
LEMMA MetStep ==
  ASSUME TypeOK, Locals, Met, NEW c \in Conns,
         members' = members, user' = user,
         \A x \in Conns : x # c => SameLocals(x),
         \A x \in Conns : Registered(x)' => Registered(x),
         \A x, y \in Conns : Registered(x)' /\ Registered(y)' /\ Announced(x, y) => Announced(x, y)',
         \A y \in Conns : Registered(c)' /\ Registered(y) /\ Owes(c, y) =>
           Owes(c, y)' \/ (Announced(c, y)' /\ Announced(y, c)')
  PROVE  Met'
<1> SUFFICES ASSUME NEW x \in Conns, NEW y \in Conns, Registered(x)', Registered(y)',
                    user[x] # user[y], Shares(user[x], user[y])
             PROVE  Owes(x, y)' \/ Owes(y, x)' \/ (Announced(x, y)' /\ Announced(y, x)')
  BY DEF Met, MetOK, Shares
<1>1. Owes(x, y) \/ Owes(y, x) \/ (Announced(x, y) /\ Announced(y, x))
  BY DEF Met, MetOK
<1>2. Announced(x, y) /\ Announced(y, x) => Announced(x, y)' /\ Announced(y, x)'
  OBVIOUS
<1>3. CASE Owes(x, y)
  <2>1. CASE x = c
    BY <1>3, <2>1
  <2>2. CASE x # c
    BY <1>3, <2>2, OwesKeeps
  <2>3. QED BY <2>1, <2>2
<1>4. CASE Owes(y, x)
  <2>1. CASE y = c
    BY <1>4, <2>1
  <2>2. CASE y # c
    BY <1>4, <2>2, OwesKeeps
  <2>3. QED BY <2>1, <2>2
<1>5. QED BY <1>1, <1>2, <1>3, <1>4

LEMMA MetNext == TypeOK /\ Locals /\ Registry /\ Met /\ [Next]_vars => Met'
<1> SUFFICES ASSUME TypeOK, Locals, Registry, Met, [Next]_vars PROVE Met'
  OBVIOUS
<1> USE DEF handlerVars, historyVars, Goto
<1>1. CASE UNCHANGED vars
  BY <1>1 DEF vars, Met, MetOK, Owes, Announced, Registered, Shares
<1>2. ASSUME NEW c \in Conns, Accept(c) \/ Refuse(c) PROVE Met'
  <2>1. /\ UNCHANGED <<members, user, told, lost>> /\ ~Registered(c)'
        /\ \A x \in Conns : x # c => SameLocals(x) /\ (Registered(x)' <=> Registered(x))
    BY <1>2 DEF Accept, Refuse, Serve, SameLocals, Registered, TypeOK
  <2>2. QED BY <2>1, MetStep DEF Announced
<1>3. ASSUME NEW c \in Conns, NEW h \in Handles, Authenticate(c, h) PROVE Met'
  <2>1. /\ UNCHANGED <<members, told, lost>> /\ pc'[c] = "token"
        /\ \A x \in Conns : x # c => SameLocals(x) /\ user'[x] = user[x]
                                   /\ (Registered(x)' <=> Registered(x))
    BY <1>3 DEF Authenticate, Serve, SameLocals, Registered, TypeOK
  <2>2. SUFFICES ASSUME NEW x \in Conns, NEW y \in Conns, MetOK(x, y) PROVE MetOK(x, y)'
    BY DEF Met
  <2>3. CASE x = c \/ y = c
    BY <2>1, <2>3 DEF MetOK, Owes
  <2>4. CASE x # c /\ y # c
    <3>1. /\ Owes(x, y) => Owes(x, y)'
          /\ Owes(y, x) => Owes(y, x)'
      BY <2>1, <2>4, OwesKeeps DEF Announced
    <3>2. QED BY <2>1, <2>2, <2>4, <3>1 DEF MetOK, Shares, Announced
  <2>5. QED BY <2>3, <2>4
<1>4. ASSUME NEW c \in Conns, Ask(c) \/ \E h \in Handles : Relay(c, h) PROVE Met'
  <2>1. /\ UNCHANGED <<members, user, told, lost>> /\ ~Owes(c, c)
        /\ \A y \in Conns : ~Owes(c, y)
        /\ \A x \in Conns : (x # c => SameLocals(x)) /\ (Registered(x)' => Registered(x))
    BY <1>4 DEF Ask, Relay, Serve, SameLocals, Registered, TypeOK, Owes
  <2>2. QED BY <2>1, MetStep DEF Announced
<1>5. ASSUME NEW c \in Conns, NEW o \in Orgs, RedeemInvite(c, o) PROVE Met'
  <2>1. /\ UNCHANGED <<user, told, lost>> /\ pc[c] = "ready"
        /\ pc'[c] = "reply" /\ job'[c] = "orgjoin" /\ org'[c] = o
        /\ members' = [members EXCEPT ![o] = members[o] \cup {user[c]}]
        /\ \A x \in Conns : (x # c => SameLocals(x)) /\ (Registered(x)' <=> Registered(x))
    BY <1>5 DEF RedeemInvite, Serve, SameLocals, Registered, TypeOK
  <2>2. SUFFICES ASSUME NEW x \in Conns, NEW y \in Conns, MetOK(x, y),
                        Registered(x), Registered(y),
                        user[x] # user[y], Shares(user[x], user[y])'
                 PROVE  Owes(x, y)' \/ Owes(y, x)' \/ (Announced(x, y)' /\ Announced(y, x)')
    BY <2>1 DEF Met, MetOK
  <2>3. CASE Shares(user[x], user[y])
    <3>1. \A z \in Conns : ~Owes(c, z)
      BY <2>1 DEF Owes
    <3>2. \A p \in Orgs : members[p] \subseteq members'[p]
      BY <2>1 DEF TypeOK
    <3>3. Owes(x, y) => Owes(x, y)'
      BY <2>1, <3>1, <3>2, OwesKeeps DEF Announced
    <3>4. Owes(y, x) => Owes(y, x)'
      BY <2>1, <3>1, <3>2, OwesKeeps DEF Announced
    <3>5. QED BY <2>1, <2>2, <2>3, <3>3, <3>4 DEF MetOK, Announced
  <2>4. CASE ~Shares(user[x], user[y])
    <3>1. PICK p \in Orgs : user[x] \in members'[p] /\ user[y] \in members'[p]
      BY <2>1, <2>2 DEF Shares
    <3>2. p = o /\ (user[x] = user[c] \/ user[y] = user[c])
      BY <2>1, <2>4, <3>1 DEF Shares, TypeOK
    <3>3. \A z \in Conns : Registered(z) /\ user[z] = user[c] => z = c
      <4>1. Registered(c) /\ user[c] \in Handles
        BY <2>1 DEF Registered, Locals, LocalsOK, Before
      <4>2. QED BY <4>1 DEF Registry
    <3>4. x = c \/ y = c
      BY <2>2, <3>2, <3>3
    <3>5. QED BY <2>1, <2>2, <3>1, <3>2, <3>4 DEF Owes
  <2>5. QED BY <2>3, <2>4
<1>6. ASSUME NEW c \in Conns, NEW o \in Orgs, CreateOrg(c, o) PROVE Met'
  <2>1. /\ UNCHANGED <<user, told, lost>> /\ pc[c] = "ready"
        /\ members[o] = {} /\ members' = [members EXCEPT ![o] = {user[c]}]
        /\ \A x \in Conns : (x # c => SameLocals(x)) /\ (Registered(x)' <=> Registered(x))
    BY <1>6 DEF CreateOrg, Serve, SameLocals, Registered, TypeOK
  <2>2. SUFFICES ASSUME NEW x \in Conns, NEW y \in Conns, MetOK(x, y),
                        Registered(x), Registered(y),
                        user[x] # user[y], Shares(user[x], user[y])'
                 PROVE  Owes(x, y)' \/ Owes(y, x)' \/ (Announced(x, y)' /\ Announced(y, x)')
    BY <2>1 DEF Met, MetOK
  <2>3. Shares(user[x], user[y])
    <3>1. PICK p \in Orgs : user[x] \in members'[p] /\ user[y] \in members'[p]
      BY <2>1, <2>2 DEF Shares
    <3>2. p # o
      BY <2>1, <2>2, <3>1 DEF TypeOK
    <3>3. members'[p] = members[p]
      BY <2>1, <3>2 DEF TypeOK
    <3>4. QED BY <3>1, <3>3 DEF Shares
  <2>4. \A z \in Conns : ~Owes(c, z)
    BY <2>1 DEF Owes
  <2>5. \A p \in Orgs : members[p] \subseteq members'[p]
    BY <2>1 DEF TypeOK
  <2>6. Owes(x, y) => Owes(x, y)'
    BY <2>1, <2>4, <2>5, OwesKeeps DEF Announced
  <2>7. Owes(y, x) => Owes(y, x)'
    BY <2>1, <2>4, <2>5, OwesKeeps DEF Announced
  <2>8. QED BY <2>1, <2>2, <2>3, <2>6, <2>7 DEF MetOK, Announced
<1>7. ASSUME NEW c \in Conns, PushReply(c) PROVE Met'
  <2>1. /\ UNCHANGED <<members, user, told, lost>>
        /\ \A x \in Conns : x # c => SameLocals(x)
        /\ UNCHANGED <<job, org, todo, target, ref>>
    BY <1>7 DEF PushReply, SameLocals, TypeOK
  <2>2. \A x \in Conns : Registered(x)' => Registered(x)
    BY <1>7 DEF PushReply, Registered, TypeOK
  <2>3. ASSUME NEW y \in Conns, Owes(c, y) PROVE Owes(c, y)'
    BY <1>7, <2>1, <2>3 DEF PushReply, Owes, TypeOK
  <2>4. QED BY <2>1, <2>2, <2>3, MetStep DEF Announced
<1>8. ASSUME NEW c \in Conns, QueryMates(c) PROVE Met'
  <2>1. /\ UNCHANGED <<members, user, told, lost, job>>
        /\ pc'[c] = "roster" /\ job[c] = "connect" /\ todo'[c] = Mates(user[c])
        /\ \A x \in Conns : (x # c => SameLocals(x)) /\ (Registered(x)' => Registered(x))
    BY <1>8 DEF QueryMates, StartLoop, SameLocals, Registered, TypeOK, Locals, LocalsOK
  <2>2. SUFFICES ASSUME NEW x \in Conns, NEW y \in Conns, MetOK(x, y),
                        Registered(x), Registered(y),
                        user[x] # user[y], Shares(user[x], user[y])
                 PROVE  Owes(x, y)' \/ Owes(y, x)' \/ (Announced(x, y)' /\ Announced(y, x)')
    BY <2>1 DEF Met, MetOK, Shares
  <2>3. user[x] \in Handles /\ user[y] \in Handles
    BY <2>2 DEF Registered, Locals, LocalsOK, Before
  <2>4. CASE x = c
    <3>1. Shares(user[y], user[c])
      BY <2>2, <2>4 DEF Shares
    <3>2. user[y] \in todo'[c]
      BY <2>1, <2>2, <2>3, <2>4, <3>1 DEF Mates
    <3>3. QED BY <2>1, <2>4, <3>2 DEF Owes
  <2>5. CASE y = c
    BY <2>1, <2>2, <2>3, <2>5 DEF Owes, Mates, Shares
  <2>6. CASE x # c /\ y # c
    <3>1. /\ Owes(x, y) => Owes(x, y)'
          /\ Owes(y, x) => Owes(y, x)'
      BY <2>1, <2>6, OwesKeeps DEF Announced
    <3>2. QED BY <2>1, <2>2, <3>1 DEF MetOK, Announced
  <2>7. QED BY <2>4, <2>5, <2>6
<1>9. ASSUME NEW c \in Conns, QueryMembers(c) PROVE Met'
  <2>1. /\ UNCHANGED <<members, user, told, lost, job>>
        /\ pc[c] = "members" /\ pc'[c] = "roster" /\ job[c] = "orgjoin"
        /\ todo'[c] = members[org[c]] \ {user[c]}
        /\ \A x \in Conns : (x # c => SameLocals(x)) /\ (Registered(x)' => Registered(x))
    BY <1>9 DEF QueryMembers, StartLoop, SameLocals, Registered, TypeOK, Locals, LocalsOK
  <2>2. SUFFICES ASSUME NEW x \in Conns, NEW y \in Conns, MetOK(x, y),
                        Registered(x), Registered(y),
                        user[x] # user[y], Shares(user[x], user[y])
                 PROVE  Owes(x, y)' \/ Owes(y, x)' \/ (Announced(x, y)' /\ Announced(y, x)')
    BY <2>1 DEF Met, MetOK, Shares
  <2>3. \A z \in Conns : user[z] # user[c] /\ Owes(c, z) => Owes(c, z)'
    BY <2>1 DEF Owes
  <2>4. \A z, w \in Conns : z # c /\ Owes(z, w) => Owes(z, w)'
    BY <2>1, OwesKeeps DEF Announced
  <2>5. QED BY <2>1, <2>2, <2>3, <2>4 DEF MetOK, Announced
<1>10. ASSUME NEW c \in Conns, QueryFarewell(c) PROVE Met'
  <2>1. /\ UNCHANGED <<members, user, told, lost>> /\ ~Registered(c)'
        /\ \A x \in Conns : x # c => SameLocals(x) /\ (Registered(x)' => Registered(x))
    BY <1>10 DEF QueryFarewell, StartLoop, SameLocals, Registered, TypeOK
  <2>2. QED BY <2>1, MetStep DEF Announced
<1>11. ASSUME NEW c \in Conns, QueryFails(c) PROVE Met'
  <2>1. /\ UNCHANGED <<members, user, told>>
        /\ \A x \in Conns : (x # c => SameLocals(x)) /\ (Registered(x)' => Registered(x))
        /\ lost' = lost \cup ({c} \X Conns) \cup (Conns \X {c})
    BY <1>11 DEF QueryFails, Finish, SameLocals, Registered, TypeOK
  <2>2. \A y \in Conns : Announced(c, y)' /\ Announced(y, c)'
    BY <2>1 DEF Announced
  <2>3. QED BY <2>1, <2>2, MetStep DEF Announced
<1>12. ASSUME NEW c \in Conns, NEW m \in Handles, VisitMate(c, m) PROVE Met'
  <2>1. /\ UNCHANGED <<members, user, told, lost, job, hub>> /\ pc[c] = "roster"
        /\ \A x \in Conns : x # c => SameLocals(x)
        /\ todo'[c] = todo[c] \ {m}
    BY <1>12 DEF VisitMate, SameLocals, TypeOK
  <2>2. \A x \in Conns : Registered(x)' => Registered(x)
    BY <1>12 DEF VisitMate, Registered, TypeOK
  <2>3. ASSUME NEW y \in Conns, Registered(y), Owes(c, y) PROVE Owes(c, y)'
    <3>1. job[c] \in {"connect", "orgjoin"} /\ user[y] \in todo[c]
      BY <2>1, <2>3 DEF Owes
    <3>2. CASE user[y] # m
      <4>1. pc'[c] \in {"roster", "push", "lookup"}
        BY <1>12 DEF VisitMate, TypeOK
      <4>2. QED BY <2>1, <3>1, <3>2, <4>1 DEF Owes
    <3>3. CASE user[y] = m
      <4>1. hub[m] = y /\ y # NoOne
        BY <2>3, <3>3 DEF Registry
      <4>2. pc'[c] = "push" /\ ref'[c] = y /\ target'[c] = m
        BY <1>12, <3>1, <4>1 DEF VisitMate, TypeOK
      <4>3. QED BY <2>1, <3>1, <3>3, <4>2 DEF Owes
    <3>4. QED BY <3>2, <3>3
  <2>4. QED BY <2>1, <2>2, <2>3, MetStep DEF Announced
<1>13. ASSUME NEW c \in Conns, PushMate(c) PROVE Met'
  <2>1. /\ UNCHANGED <<members, user, lost, job, org, todo, target, ref>>
        /\ pc[c] = "push" /\ pc'[c] = "lookup" /\ told' = told \cup {<<c, ref[c]>>}
        /\ \A x \in Conns : x # c => SameLocals(x)
    BY <1>13 DEF PushMate, SameLocals, TypeOK
  <2>2. \A x \in Conns : Registered(x)' => Registered(x)
    BY <2>1 DEF SameLocals, Registered
  <2>3. \A y \in Conns : Owes(c, y) => Owes(c, y)'
    BY <2>1 DEF Owes, Announced
  <2>4. QED BY <2>1, <2>2, <2>3, MetStep DEF Announced
<1>14. ASSUME NEW c \in Conns, Lookup(c) PROVE Met'
  <2>1. /\ UNCHANGED <<members, user, told, lost, hub, todo>> /\ pc[c] = "lookup"
        /\ \A x \in Conns : x # c => SameLocals(x)
    BY <1>14 DEF Lookup, AfterSend, SameLocals, TypeOK
  <2>2. \A x \in Conns : Registered(x)' => Registered(x)
    BY <1>14 DEF Lookup, AfterSend, Registered, TypeOK
  <2>3. ASSUME NEW y \in Conns, Registered(y), Owes(c, y) PROVE Owes(c, y)'
    <3>1. job[c] \in {"connect", "orgjoin"}
      BY <2>1, <2>3 DEF Owes
    <3>2. job' = job /\ pc'[c] \in {"roster", "deliver"}
      BY <1>14, <3>1 DEF Lookup, AfterSend, TypeOK
    <3>3. CASE user[y] \in todo[c]
      BY <2>1, <3>1, <3>2, <3>3 DEF Owes
    <3>4. CASE target[c] = user[y] /\ Announced(c, y)
      <4>1. target[c] \in Handles
        BY <2>1 DEF Locals, LocalsOK
      <4>2. hub[target[c]] = y /\ y # NoOne
        BY <2>3, <3>4, <4>1 DEF Registry
      <4>3. pc'[c] = "deliver" /\ ref'[c] = y
        BY <1>14, <4>2 DEF Lookup, TypeOK
      <4>4. QED BY <2>1, <3>1, <3>2, <3>4, <4>3 DEF Owes, Announced
    <3>5. QED BY <2>1, <2>3, <3>3, <3>4 DEF Owes
  <2>4. QED BY <2>1, <2>2, <2>3, MetStep DEF Announced
<1>15. ASSUME NEW c \in Conns, Deliver(c) PROVE Met'
  <2>1. /\ UNCHANGED <<members, user, todo>> /\ pc[c] = "deliver"
        /\ told \subseteq told' /\ lost \subseteq lost'
        /\ \A x \in Conns : x # c => SameLocals(x)
    BY <1>15 DEF Deliver, AfterSend, SameLocals, TypeOK
  <2>2. \A x \in Conns : Registered(x)' => Registered(x)
    BY <1>15 DEF Deliver, AfterSend, Registered, TypeOK
  <2>3. ASSUME NEW y \in Conns, Owes(c, y)
        PROVE  Owes(c, y)' \/ (Announced(c, y)' /\ Announced(y, c)')
    <3>1. job[c] \in {"connect", "orgjoin"}
      BY <2>1, <2>3 DEF Owes
    <3>2. job' = job /\ pc'[c] = "roster" /\ <<ref[c], c>> \in told' \cup lost'
      BY <1>15, <3>1 DEF Deliver, AfterSend, TypeOK
    <3>3. CASE user[y] \in todo[c]
      BY <2>1, <3>1, <3>2, <3>3 DEF Owes
    <3>4. CASE ref[c] = y /\ Announced(c, y)
      BY <2>1, <3>2, <3>4 DEF Announced
    <3>5. QED BY <2>1, <2>3, <3>3, <3>4 DEF Owes
  <2>4. QED BY <2>1, <2>2, <2>3, MetStep DEF Announced
<1>16. ASSUME NEW c \in Conns, EndLoop(c) PROVE Met'
  <2>1. /\ UNCHANGED <<members, user, told, lost>> /\ pc[c] = "roster" /\ todo[c] = {}
        /\ \A x \in Conns : x # c => SameLocals(x)
    BY <1>16 DEF EndLoop, Finish, SameLocals, TypeOK
  <2>2. \A x \in Conns : Registered(x)' => Registered(x)
    BY <1>16 DEF EndLoop, Finish, Registered, TypeOK
  <2>3. \A y \in Conns : ~Owes(c, y)
    BY <2>1 DEF Owes
  <2>4. QED BY <2>1, <2>2, <2>3, MetStep DEF Announced
<1>17. ASSUME NEW c \in Conns, Leave(c) PROVE Met'
  <2>1. /\ UNCHANGED <<members, user>> /\ ~Registered(c)'
        /\ \A x \in Conns : x # c => SameLocals(x) /\ (Registered(x)' => Registered(x))
        /\ \A x, y \in Conns : x # c /\ y # c /\ Announced(x, y) => Announced(x, y)'
    BY <1>17 DEF Leave, SameLocals, Registered, Announced, TypeOK
  <2>2. QED BY <2>1, MetStep
<1>18. ASSUME NEW c \in Conns, ReadEnd(c) PROVE Met'
  <2>1. /\ UNCHANGED <<members, user, told, lost>>
        /\ \A x \in Conns : (x # c => SameLocals(x)) /\ (Registered(x)' => Registered(x))
        /\ \A y \in Conns : ~Owes(c, y)
    BY <1>18 DEF ReadEnd, Finish, SameLocals, Registered, Owes, TypeOK
  <2>2. QED BY <2>1, MetStep DEF Announced
<1>19. ASSUME NEW c \in Conns, WriteNext(c) \/ HangUp(c) \/ Stall(c) PROVE Met'
  BY <1>19 DEF WriteNext, HangUp, Stall, Met, MetOK, Owes, Announced, Registered, Shares
<1>20. QED
  BY <1>1, <1>2, <1>3, <1>4, <1>5, <1>6, <1>7, <1>8, <1>9, <1>10, <1>11, <1>12, <1>13,
     <1>14, <1>15, <1>16, <1>17, <1>18, <1>19 DEF Next, Handler, Presence, Request

-------------------------------------------------------------------------------
\* The inductive invariant holds in every reachable state.
THEOREM Invariance == Spec => []IInv
<1>1. Init => IInv
  BY TypeInit, LocalsInit, IsolatedInit, MetInit DEF IInv
<1>2. IInv /\ [Next]_vars => IInv'
  BY TypeNext, LocalsNext, RegistryNext, IsolatedNext, MetNext DEF IInv
<1>3. QED BY <1>1, <1>2, PTL DEF Spec

\* Every variable keeps its type; in particular no outbox ever holds more
\* than OutboxSize envelopes.
THEOREM TypeCorrect == Spec => []TypeOK
<1>1. IInv => TypeOK
  BY DEF IInv
<1>2. QED BY <1>1, Invariance, PTL

\* Hub's "at most one active connection per handle", for any number of
\* connections racing for the same handle.
THEOREM OneConnection == Spec => []OneConnectionPerHandle
<1>1. IInv => OneConnectionPerHandle
  <2> SUFFICES ASSUME IInv PROVE OneConnectionPerHandle
    OBVIOUS
  <2>1. ASSUME NEW c \in Conns, Registered(c) PROVE user[c] \in Handles
    BY <2>1 DEF IInv, Locals, LocalsOK, Registered, Before
  <2>2. QED BY <2>1 DEF IInv, Registry, OneConnectionPerHandle
<1>2. QED BY <1>1, Invariance, PTL

\* Presence and relay never cross an organization's border, whatever the
\* interleaving of logins, logouts, invites and relays.
THEOREM Isolation == Spec => []OrgIsolation
<1>1. IInv => OrgIsolation
  BY DEF IInv, Isolated, IsolatedOK, OrgIsolation
<1>2. QED BY <1>1, Invariance, PTL

\* Two org-mates racing to come online, or to join the same organization,
\* cannot both miss each other, for any number of connections.
THEOREM NobodyMissed == Spec => []NoMissedPresence
<1>1. IInv => NoMissedPresence
  BY DEF IInv, Met, MetOK, Owes, Announced, Registered, NoMissedPresence
<1>2. QED BY <1>1, Invariance, PTL
================================================================================
