-------------------------------- MODULE AppProofs --------------------------------
(* Proofs about the running program: no pump stops on the chat screen, a     *)
(* Ludo lobby is all or nothing, and what is registered was checked.         *)
EXTENDS App, SequenceTheorems, FiniteSetTheorems, TLAPS

PumpTypes ==
  /\ chats \in Nat
  /\ queued \in [Pumps -> Nat] /\ waiting \in [Pumps -> Nat]
  /\ carried \in [Pumps -> Nat] /\ dropped \in [Pumps -> Nat]

PumpInv == PumpTypes /\ PumpsKept

\* Everything else leaves the pumps alone.
LEMMA PumpActions ==
  ASSUME [Next]_vars
  PROVE  \/ BuildChat
         \/ \E p \in Pumps : Arrive(p) \/ Take(p) \/ Deliver(p)
         \/ UNCHANGED pumpVars
<1>1. SignInReplies \/ SignInKeys \/ OrgDone => UNCHANGED pumpVars
  BY DEF SignInReplies, SignInKeys, OrgDone
<1>2. \A msg : Command(msg) \/ Route(msg) => UNCHANGED pumpVars
  BY DEF Command, Route
<1>3. SendChallenge \/ ChallengeReturns \/ RouteChallenge \/ AnswerInvite \/ Close
      => UNCHANGED pumpVars
  BY DEF SendChallenge, ChallengeReturns, RouteChallenge, AnswerInvite, Close
<1>4. StartLobby => UNCHANGED pumpVars
  BY DEF StartLobby
<1>5. \A g : GuestAnswers(g) \/ LobbyResult(g) => UNCHANGED pumpVars
  BY DEF GuestAnswers, LobbyResult
<1>6. UNCHANGED vars => UNCHANGED pumpVars
  BY DEF vars
<1>7. QED BY <1>1, <1>2, <1>3, <1>4, <1>5, <1>6 DEF Next

LEMMA PumpStep == PumpInv /\ [Next]_vars => PumpInv'
<1> SUFFICES ASSUME PumpInv, [Next]_vars PROVE PumpInv'
  OBVIOUS
<1> USE DEF PumpInv, PumpTypes, PumpsKept
<1>1. CASE BuildChat
  BY <1>1 DEF BuildChat
<1>2. ASSUME NEW p \in Pumps, Arrive(p) PROVE PumpInv'
  BY <1>2 DEF Arrive
<1>3. ASSUME NEW p \in Pumps, Take(p) PROVE PumpInv'
  BY <1>3 DEF Take
<1>4. ASSUME NEW p \in Pumps, Deliver(p) PROVE PumpInv'
  BY <1>4 DEF Deliver
<1>5. CASE UNCHANGED pumpVars
  BY <1>5 DEF pumpVars
<1>6. QED BY <1>1, <1>2, <1>3, <1>4, <1>5, PumpActions

\* No pump stops or runs twice while the chat screen is open, for any number of
\* channels, screens visited and chat Models built.
THEOREM PumpsNeverStop == Spec => []PumpsKept
<1>1. Init => PumpInv
  BY DEF Init, S!Init, S!Skipped, None, PumpInv, PumpTypes, PumpsKept
<1>2. PumpInv => PumpsKept
  BY DEF PumpInv
<1>3. QED BY <1>1, <1>2, PumpStep, PTL DEF Spec

-------------------------------------------------------------------------------
(* The lobby. *)

Answers == {"none", "sent", "yes", "no", "accepted", "declined", "dropped"}

LobbyTypes ==
  /\ chats \in Nat /\ lobby \in {"none", "pending"}
  /\ reply \in [Guests -> Answers]
  /\ session \in [Guests -> {"none", "open", "closed", "playing"}]

\* Before there is a chat Model nothing was challenged, invited or opened; and
\* the screens before it are never shown again.
Before ==
  /\ chats = 0 => /\ screen \in {"onboarding", "orgselect"}
                  /\ nav = {} /\ challenge = "none" /\ lobby = "none"
                  /\ \A g \in Guests : reply[g] = "none" /\ session[g] = "none"
  /\ chats > 0 => screen # "onboarding"

\* A guest who has yet to answer has no session, and no match begins or runs;
\* only one lobby, that of the one chat Model, waits for guests.
Pending ==
  /\ \A g \in Guests : reply[g] = "sent" =>
       /\ session[g] = "none" /\ "networked ludo" \notin nav
       /\ \A h \in Guests : session[h] # "playing"
  /\ chats <= 1 /\ (\E g \in Guests : reply[g] \in {"sent", "yes", "no"}) => lobby = "pending"

LobbyInv == LobbyTypes /\ Before /\ Pending /\ LobbyAllOrNothing

lobbySees == <<chats, screen, nav, challenge, lobbyVars>>

LEMMA LobbyFrame == LobbyInv /\ UNCHANGED lobbySees => LobbyInv'
  BY DEF LobbyInv, LobbyTypes, Before, Pending, LobbyAllOrNothing, lobbySees, lobbyVars

\* Signing in opens neither the chat nor the first screen.
LEMMA SigningKeepsLobby ==
  ASSUME LobbyInv, SignInReplies \/ SignInKeys \/ OrgDone PROVE LobbyInv'
<1>1. UNCHANGED <<chats, nav, challenge, lobbyVars>>
  BY DEF SignInReplies, SignInKeys, OrgDone, pumpVars, chatVars
<1>2. UNCHANGED screen \/ (screen = "onboarding" /\ screen' = "orgselect")
  <2>1. SignInReplies => UNCHANGED screen \/ (screen = "onboarding" /\ screen' = "orgselect")
    BY DEF SignInReplies, S!OnboardingReplies, S!Dialled, S!AskQuestion, S!HandleChecked,
           S!Authenticated, S!AuthFails, S!Return
  <2>2. SignInKeys => UNCHANGED screen
    BY DEF SignInKeys, S!OnboardingKeys, S!OrgKeys, S!TakenElsewhere, S!ChooseFlow, S!Advance,
           S!Retreat, S!Redial, S!OpenMode, S!LeaveMode, S!SendOrg, S!SelectRow
  <2>3. OrgDone => UNCHANGED screen
    BY DEF OrgDone, S!OrgDone
  <2>4. QED BY <2>1, <2>2, <2>3
<1>3. QED BY <1>1, <1>2 DEF LobbyInv, LobbyTypes, Before, Pending, LobbyAllOrNothing, lobbyVars

LEMMA BuildChatKeepsLobby == ASSUME LobbyInv, BuildChat PROVE LobbyInv'
<1> USE DEF LobbyInv
<1>1. chats' = chats + 1 /\ lobby' = "none" /\ screen' = "chat" /\ UNCHANGED <<nav, reply, session>>
  BY DEF BuildChat
<1>2. chats = 0 => \A g \in Guests : reply[g] = "none" /\ session[g] = "none"
  BY DEF Before
<1>3. LobbyTypes' /\ Before'
  BY <1>1 DEF LobbyTypes, Before
<1>4. chats' <= 1 => \A g \in Guests : reply[g] = "none" /\ session[g] = "none"
  BY <1>1, <1>2 DEF LobbyTypes
<1>5. Pending' /\ LobbyAllOrNothing'
  <2>1. \A g \in Guests : reply'[g] = "sent" =>
          /\ session'[g] = "none" /\ "networked ludo" \notin nav'
          /\ \A h \in Guests : session'[h] # "playing"
    BY <1>1 DEF Pending
  <2>2. chats' <= 1 => ~\E g \in Guests : reply'[g] \in {"sent", "yes", "no"}
    BY <1>1, <1>4
  <2>3. (\E g \in Guests : session'[g] = "playing") => \A g \in Guests : session'[g] = "playing"
    BY <1>1 DEF LobbyAllOrNothing
  <2>4. chats' = 1 => \A g \in Guests : session'[g] # "open"
    BY <1>1, <1>4
  <2>5. QED BY <2>1, <2>2, <2>3, <2>4 DEF Pending, LobbyAllOrNothing
<1>6. QED BY <1>3, <1>5

\* A step that touches neither the lobby nor the match leaves the rest to Before.
LEMMA LobbyQuiet ==
  ASSUME LobbyInv, UNCHANGED <<chats, lobby, reply, session>>,
         "networked ludo" \in nav' <=> "networked ludo" \in nav
  PROVE  LobbyTypes' /\ Pending' /\ LobbyAllOrNothing'
<1> USE DEF LobbyInv
<1>1. LobbyTypes'
  BY DEF LobbyTypes
<1>2. Pending'
  BY DEF Pending
<1>3. LobbyAllOrNothing'
  BY DEF LobbyAllOrNothing
<1>4. QED BY <1>1, <1>2, <1>3

Navigation ==
  \/ \E msg \in {"open todo", "open account", "ludo"} : Command(msg)
  \/ SendChallenge \/ ChallengeReturns \/ RouteChallenge \/ AnswerInvite \/ Close
  \/ \E msg \in Messages : Route(msg)

\* The user's other steps need the chat screen or what it has started.
LEMMA NavigatingNeedsChat ==
  ASSUME LobbyInv, Navigation
  PROVE  chats > 0 /\ screen # "onboarding"
<1>1. screen = "chat" \/ challenge # "none" \/ nav # {} \/ screen \in {"todo", "account", "game", "ludo"}
  <2>1. ASSUME NEW msg \in {"open todo", "open account", "ludo"}, Command(msg) PROVE screen = "chat"
    BY <2>1 DEF Command, AtInput
  <2>2. SendChallenge => screen = "chat"
    BY DEF SendChallenge, AtInput
  <2>3. ASSUME NEW msg \in Messages, Route(msg) PROVE nav # {}
    BY <2>3 DEF Route
  <2>4. ChallengeReturns \/ RouteChallenge \/ AnswerInvite \/ Close
        => screen = "chat" \/ challenge # "none" \/ screen \in {"todo", "account", "game", "ludo"}
    BY DEF ChallengeReturns, RouteChallenge, AnswerInvite, Close
  <2>5. QED BY <2>1, <2>2, <2>3, <2>4 DEF Navigation
<1>2. chats # 0
  BY <1>1 DEF LobbyInv, Before
<1>3. chats \in Nat
  BY DEF LobbyInv, LobbyTypes
<1>4. chats > 0
  BY <1>2, <1>3
<1>5. QED BY <1>4 DEF LobbyInv, Before

LEMMA NavigatingKeepsLobby ==
  ASSUME LobbyInv, Navigation
  PROVE  LobbyInv'
<1>1. chats > 0 /\ screen # "onboarding" /\ chats \in Nat
  BY NavigatingNeedsChat DEF LobbyInv, LobbyTypes
<1>2. ASSUME chats' = chats, screen' # "onboarding" PROVE Before'
  <2>1. chats' # 0
    BY <1>1, <1>2
  <2>2. QED BY <1>2, <2>1 DEF Before
<1>3. ASSUME UNCHANGED <<chats, lobby, reply, session>>, screen' # "onboarding",
             "networked ludo" \in nav' <=> "networked ludo" \in nav
      PROVE  LobbyInv'
  BY <1>2, <1>3, LobbyQuiet DEF LobbyInv
<1>4. ASSUME NEW msg \in {"open todo", "open account", "ludo"}, Command(msg) PROVE LobbyInv'
  <2>1. /\ UNCHANGED <<chats, lobby, reply, session, screen>> /\ nav' = nav \cup {msg}
        /\ msg # "networked ludo"
    BY <1>4 DEF Command, signVars, pumpVars, lobbyVars
  <2>2. QED BY <1>1, <1>3, <2>1
<1>5. CASE SendChallenge \/ ChallengeReturns
  <2>1. UNCHANGED <<chats, lobby, reply, session>> /\ screen' = screen /\ nav' = nav
    BY <1>5 DEF SendChallenge, ChallengeReturns, signVars, pumpVars, lobbyVars
  <2>2. screen' # "onboarding"
    BY <1>1, <2>1
  <2>3. QED BY <1>3, <2>1, <2>2
<1>6. CASE RouteChallenge
  <2>1. UNCHANGED <<chats, lobby, reply, session, nav>> /\ screen' \in {"game", screen}
    BY <1>6 DEF RouteChallenge, pumpVars, lobbyVars
  <2>2. QED BY <1>1, <1>3, <2>1
<1>7. CASE AnswerInvite
  <2>1. /\ UNCHANGED <<chats, lobby, reply, session, screen>>
        /\ nav' \in {nav, nav \cup {"game"}, nav \cup {"ludo"}}
    BY <1>7 DEF AnswerInvite, signVars, pumpVars, lobbyVars
  <2>2. "networked ludo" \in nav' <=> "networked ludo" \in nav
    BY <2>1
  <2>3. screen' # "onboarding"
    BY <1>1, <2>1
  <2>4. QED BY <1>3, <2>1, <2>2, <2>3
<1>8. CASE Close
  <2>1. UNCHANGED <<chats, lobby, reply, session, screen>> /\ nav' = nav \cup {"closed"}
    BY <1>8 DEF Close, signVars, pumpVars, lobbyVars
  <2>2. QED BY <1>1, <1>3, <2>1
<1>9. ASSUME NEW msg \in Messages, Route(msg) PROVE LobbyInv'
  <2>1. nav' = nav \ {msg} /\ UNCHANGED <<chats, lobby, reply>>
    BY <1>9 DEF Route, pumpVars
  <2>2. screen' # "onboarding"
    BY <1>9 DEF Route, Target, Messages
  <2>3. CASE msg = "networked ludo"
    <3>1. session' = [g \in Guests |-> "playing"] /\ "networked ludo" \in nav
      BY <1>9, <2>3 DEF Route
    <3>2. \A g \in Guests : reply'[g] # "sent"
      BY <2>1, <3>1 DEF LobbyInv, Pending
    <3>3. Pending'
      BY <2>1, <3>2 DEF LobbyInv, Pending
    <3>4. LobbyTypes' /\ LobbyAllOrNothing'
      BY <2>1, <3>1 DEF LobbyInv, LobbyTypes, LobbyAllOrNothing
    <3>5. QED BY <1>2, <2>1, <2>2, <3>3, <3>4 DEF LobbyInv
  <2>4. CASE msg # "networked ludo"
    <3>1. UNCHANGED session
      BY <1>9, <2>4 DEF Route
    <3>2. QED BY <1>3, <2>1, <2>2, <2>4, <3>1
  <2>5. QED BY <2>3, <2>4
<1>10. QED BY <1>4, <1>5, <1>6, <1>7, <1>8, <1>9 DEF Navigation

LEMMA StartKeepsLobby == ASSUME LobbyInv, StartLobby PROVE LobbyInv'
<1>1. /\ screen = "chat" /\ UNCHANGED <<chats, screen, nav, challenge>>
      /\ "networked ludo" \notin nav /\ lobby' = "pending"
  BY DEF StartLobby, AtInput, signVars, pumpVars
<1>2. reply' = [g \in Guests |-> "sent"] /\ session' = [g \in Guests |-> "none"]
  BY DEF StartLobby, NoReplies
<1>3. LobbyTypes'
  BY <1>1, <1>2 DEF LobbyInv, LobbyTypes, Answers
<1>4. Before'
  BY <1>1 DEF LobbyInv, LobbyTypes, Before
<1>5. Pending'
  BY <1>1, <1>2 DEF Pending
<1>6. LobbyAllOrNothing'
  BY <1>1, <1>2 DEF LobbyAllOrNothing
<1>7. QED BY <1>3, <1>4, <1>5, <1>6 DEF LobbyInv

\* A guest answers: their session opens, while the lobby waits.
LEMMA AnswerKeepsLobby ==
  ASSUME LobbyInv, NEW g \in Guests, GuestAnswers(g) PROVE LobbyInv'
<1>1. /\ reply[g] = "sent" /\ UNCHANGED <<chats, screen, nav, challenge, lobby>>
      /\ reply' \in {[reply EXCEPT ![g] = "yes"], [reply EXCEPT ![g] = "no"]}
      /\ session' \in {session, [session EXCEPT ![g] = "open"]}
  BY DEF GuestAnswers, signVars, pumpVars, chatVars
<1>2. /\ reply \in [Guests -> Answers] /\ chats \in Nat /\ lobby \in {"none", "pending"}
      /\ session \in [Guests -> {"none", "open", "closed", "playing"}]
  BY DEF LobbyInv, LobbyTypes
<1>3. /\ session[g] = "none" /\ "networked ludo" \notin nav
      /\ \A h \in Guests : session[h] # "playing"
      /\ chats <= 1 => lobby = "pending"
  BY <1>1 DEF LobbyInv, Pending
<1>4. LobbyTypes'
  <2>1. reply' \in [Guests -> Answers]
    BY <1>1, <1>2 DEF Answers
  <2>2. session' \in [Guests -> {"none", "open", "closed", "playing"}]
    BY <1>1, <1>2
  <2>3. QED BY <1>1, <1>2, <2>1, <2>2 DEF LobbyTypes
<1>5. Before'
  BY <1>1, <1>2 DEF LobbyInv, Before
<1>6. ASSUME NEW h \in Guests PROVE session'[h] # "playing"
  <2>1. CASE session' = session
    BY <1>3, <2>1
  <2>2. CASE session' = [session EXCEPT ![g] = "open"]
    BY <1>2, <1>3, <2>2
  <2>3. QED BY <1>1, <2>1, <2>2
<1>7. Pending'
  <2>1. ASSUME NEW h \in Guests, reply'[h] = "sent" PROVE session'[h] = "none"
    <3>1. h # g /\ reply[h] = "sent" /\ session'[h] = session[h]
      BY <1>1, <1>2, <2>1
    <3>2. QED BY <3>1 DEF LobbyInv, Pending
  <2>2. chats' <= 1 => lobby' = "pending"
    BY <1>1, <1>3
  <2>3. QED BY <1>1, <1>3, <1>6, <2>1, <2>2 DEF Pending
<1>8. LobbyAllOrNothing'
  <2>1. ASSUME chats' = 1 PROVE lobby' # "none"
    <3>1. chats <= 1
      BY <1>1, <2>1
    <3>2. QED BY <1>1, <1>3, <3>1
  <2>2. QED BY <1>6, <2>1 DEF LobbyAllOrNothing
<1>9. QED BY <1>4, <1>5, <1>7, <1>8 DEF LobbyInv

\* An answer no lobby takes.
LEMMA DropKeepsLobby ==
  ASSUME LobbyInv, NEW g \in Guests, LobbyResult(g), screen # "chat" \/ lobby = "none" PROVE LobbyInv'
<1>1. /\ reply[g] \in {"yes", "no"} /\ reply' = [reply EXCEPT ![g] = "dropped"]
      /\ UNCHANGED <<chats, screen, nav, challenge, lobby, session>>
  BY DEF LobbyResult, signVars, pumpVars
<1>2. reply \in [Guests -> Answers]
  BY DEF LobbyInv, LobbyTypes
<1>3. \A h \in Guests : reply'[h] \in {"sent", "yes", "no"} => reply'[h] = reply[h]
  BY <1>1, <1>2
<1>4. LobbyTypes'
  BY <1>1, <1>2 DEF LobbyInv, LobbyTypes, Answers
<1>5. Before'
  BY <1>1, <1>2 DEF LobbyInv, Before
<1>6. Pending'
  BY <1>1, <1>3 DEF LobbyInv, Pending
<1>7. LobbyAllOrNothing'
  BY <1>1 DEF LobbyInv, LobbyAllOrNothing
<1>8. QED BY <1>4, <1>5, <1>6, <1>7 DEF LobbyInv

\* An answer the lobby takes: the last one starts the match or closes what is open.
LEMMA ResultKeepsLobby ==
  ASSUME LobbyInv, NEW g \in Guests, LobbyResult(g), screen = "chat", lobby = "pending" PROVE LobbyInv'
<1> DEFINE ended == \A h \in Guests : reply'[h] \in {"accepted", "declined"}
           all == \A h \in Guests : reply'[h] = "accepted"
<1>1. reply' = Resolved(g, reply) /\ UNCHANGED <<chats, screen, challenge>>
  BY DEF LobbyResult, signVars, pumpVars
<1>2. lobby' = IF ended THEN "none" ELSE "pending"
  BY DEF LobbyResult
<1>3. nav' = IF all THEN nav \cup {"networked ludo"} ELSE nav
  BY DEF LobbyResult
<1>4. session' = IF lobby' = "pending" \/ nav' # nav THEN session
                 ELSE [h \in Guests |-> IF session[h] = "open" THEN "closed" ELSE session[h]]
  BY DEF LobbyResult
<1>5. /\ reply \in [Guests -> Answers] /\ chats \in Nat /\ chats > 0
      /\ session \in [Guests -> {"none", "open", "closed", "playing"}]
  BY DEF LobbyInv, LobbyTypes, Before
<1>6. /\ reply' \in [Guests -> Answers]
      /\ \A h \in Guests : reply'[h] \in {"sent", "yes", "no"} => reply'[h] = reply[h]
  BY <1>1, <1>5 DEF Resolved, Answers
<1>7. \A h \in Guests : /\ session'[h] = "playing" <=> session[h] = "playing"
                        /\ session[h] = "none" => session'[h] = "none"
  BY <1>4, <1>5
<1>8. LobbyTypes'
  <2>1. lobby' \in {"none", "pending"}
    BY <1>2
  <2>2. session' \in [Guests -> {"none", "open", "closed", "playing"}]
    BY <1>4, <1>5
  <2>3. QED BY <1>1, <1>5, <1>6, <2>1, <2>2 DEF LobbyTypes
<1>9. Before'
  BY <1>1, <1>5 DEF LobbyInv, Before
<1>10. Pending'
  <2>1. ASSUME NEW h \in Guests, reply'[h] = "sent"
        PROVE  /\ session'[h] = "none" /\ "networked ludo" \notin nav'
               /\ \A k \in Guests : session'[k] # "playing"
    <3>1. ~all /\ reply[h] = "sent"
      BY <1>6, <2>1
    <3>2. /\ session[h] = "none" /\ "networked ludo" \notin nav
          /\ \A k \in Guests : session[k] # "playing"
      BY <3>1 DEF LobbyInv, Pending
    <3>3. QED BY <1>3, <1>7, <3>1, <3>2
  <2>2. (\E h \in Guests : reply'[h] \in {"sent", "yes", "no"}) => lobby' = "pending"
    BY <1>2
  <2>3. QED BY <2>1, <2>2 DEF Pending
<1>11. LobbyAllOrNothing'
  <2>1. (\E h \in Guests : session'[h] = "playing") => \A h \in Guests : session'[h] = "playing"
    BY <1>7 DEF LobbyInv, LobbyAllOrNothing
  <2>2. ASSUME chats' = 1, lobby' = "none", "networked ludo" \notin nav', NEW h \in Guests
        PROVE  session'[h] # "open"
    <3>1. nav' = nav
      BY <1>3, <2>2
    <3>2. session' = [k \in Guests |-> IF session[k] = "open" THEN "closed" ELSE session[k]]
      BY <1>4, <2>2, <3>1
    <3>3. QED BY <1>5, <3>2
  <2>3. QED BY <2>1, <2>2 DEF LobbyAllOrNothing
<1>12. QED BY <1>8, <1>9, <1>10, <1>11 DEF LobbyInv

LEMMA LobbyStepsKeepLobby ==
  ASSUME LobbyInv, StartLobby \/ \E g \in Guests : GuestAnswers(g) \/ LobbyResult(g)
  PROVE  LobbyInv'
<1>1. screen # "chat" \/ lobby = "none" \/ (screen = "chat" /\ lobby = "pending")
  BY DEF LobbyInv, LobbyTypes
<1>2. QED BY <1>1, StartKeepsLobby, AnswerKeepsLobby, DropKeepsLobby, ResultKeepsLobby

LEMMA LobbyStep == LobbyInv /\ [Next]_vars => LobbyInv'
<1> SUFFICES ASSUME LobbyInv, [Next]_vars PROVE LobbyInv'
  OBVIOUS
<1>1. ASSUME NEW p \in Pumps, Arrive(p) \/ Take(p) \/ Deliver(p) PROVE LobbyInv'
  <2>1. UNCHANGED lobbySees
    BY <1>1 DEF Arrive, Take, Deliver, lobbySees, signVars, chatVars, lobbyVars
  <2>2. QED BY <2>1, LobbyFrame
<1>2. CASE UNCHANGED vars
  BY <1>2, LobbyFrame DEF vars, lobbySees, signVars, pumpVars, chatVars
<1>3. QED BY <1>1, <1>2, SigningKeepsLobby, BuildChatKeepsLobby, NavigatingKeepsLobby,
             LobbyStepsKeepLobby DEF Next, Navigation

LEMMA InitLobby == Init => LobbyInv
  BY DEF Init, S!Init, S!Skipped, S!Blank, NoReplies, LobbyInv, LobbyTypes, Before, Pending,
         LobbyAllOrNothing, Answers

\* A Ludo match starts with every guest or with none, and what was opened for a
\* match that does not start is closed, in whatever order guests answer.
THEOREM AllOrNothing == Spec => []LobbyAllOrNothing
<1>1. LobbyInv => LobbyAllOrNothing
  BY DEF LobbyInv
<1>2. QED BY <1>1, InitLobby, LobbyStep, PTL DEF Spec

-------------------------------------------------------------------------------
(* Signing in. *)

Entries == Handles \cup Passwords \cup {S!NoText, "picture", "question", "answer"}
Flows == {"login", "register", "recover", "answer"}

SignTypes ==
  /\ step \in {"connecting", "resuming", "error", "welcome", "wizard", "done"}
  /\ answers \in Seq(Entries) /\ checking \in BOOLEAN

\* What a wizard has taken is what it shows, the handle was called free, and
\* the password confirmed.
Filled ==
  step = "wizard" =>
    /\ flow \in Flows /\ fieldIdx = Len(answers) /\ fieldIdx <= S!NumFields(flow)
    /\ flow = "register" /\ fieldIdx > 0 => answers[1] \in checked
    /\ flow = "register" /\ fieldIdx > 2 => answers[3] = answers[2]

\* The one request that runs is the one the screen is waiting for.
Awaited ==
  screen = "onboarding" =>
    /\ step = "connecting" => requests = {S!Simple("dial")}
    /\ step = "resuming" => requests = {S!Simple("resume")}
    /\ step \in {"error", "welcome", "done"} => requests = {}
    /\ step = "wizard" =>
         IF checking THEN \E h \in Handles : requests = {S!Request("check", h, S!NoText)}
         ELSE requests = IF fieldIdx < S!NumFields(flow) THEN {} ELSE {S!Submission(answers)}

\* The wizard checks a handle in one place only, and nothing of it is left once
\* another screen is open.
Checking ==
  /\ checking => step = "wizard" /\ flow = "register" /\ fieldIdx = 0
  /\ screen # "onboarding" => requests = {} /\ ~checking /\ step # "wizard"
  /\ screen = "onboarding" => selected = 0

SignInv == SignTypes /\ Filled /\ Awaited /\ Checking

LEMMA NumFieldsIs ==
  /\ S!NumFields("login") = 2 /\ S!NumFields("register") = 6 /\ S!NumFields("recover") = 1
  /\ S!NumFields("answer") = 2
  /\ \A f \in Flows : S!NumFields(f) \in 1..6
  BY DEF S!NumFields, Flows

\* The instance's copy of the standard operator is the operator.
LEMMA SameCardinality == \A s : S!Cardinality(s) = Cardinality(s)
  BY DEF S!Cardinality, Cardinality

LEMMA OneRequest ==
  ASSUME requests = {} \/ \E r : requests = {r}
  PROVE  S!Cardinality(requests) <= 1
<1>1. CASE requests = {}
  BY <1>1, FS_EmptySet, SameCardinality
<1>2. ASSUME NEW r, requests = {r} PROVE S!Cardinality(requests) <= 1
  <2>1. Cardinality({r}) = 1
    BY FS_Singleton
  <2>2. QED BY <1>2, <2>1, SameCardinality
<1>3. QED BY <1>1, <1>2

LEMMA NoAnswers == <<>> \in Seq(Entries) /\ \A v \in Entries : <<v>> \in Seq(Entries)
  OBVIOUS

LEMMA SubmissionOps ==
  ASSUME flow \in Flows
  PROVE  \A all : /\ S!Submission(all).op \in {"login", "register", "recover", "finish"}
                  /\ S!Submission(all).op = "register" => flow = "register"
                  /\ flow = "register" => S!Submission(all) = S!Request("register", all[1], all[2])
  BY DEF Flows, S!Submission, S!Request

\* What a request that returns says of the screen.
LEMMA ReturnsTo ==
  ASSUME SignInv, NEW op, S!Return(op)
  PROVE  /\ screen = "onboarding" /\ step # "done"
         /\ op = "dial" => step = "connecting"
         /\ op = "check" => /\ checking /\ step = "wizard" /\ flow = "register" /\ fieldIdx = 0
                            /\ \E h \in Handles : requests = {S!Request("check", h, S!NoText)}
         /\ op # "check" => ~checking
<1> USE DEF SignInv
<1>1. screen = "onboarding"
  BY DEF S!Return
<1>2. PICK r \in requests : r.op = op
  BY DEF S!Return
<1>3. CASE step \in {"connecting", "resuming", "error", "welcome", "done"}
  <2>1. ~checking
    BY <1>3 DEF Checking
  <2>2. /\ step = "connecting" => op = "dial"
        /\ step = "resuming" => op = "resume"
        /\ step \notin {"error", "welcome", "done"}
    BY <1>1, <1>2, <1>3 DEF Awaited, S!Simple, S!Request
  <2>3. op # "check" /\ (op = "dial" => step = "connecting")
    BY <1>3, <2>2
  <2>4. QED BY <1>1, <2>1, <2>2, <2>3
<1>4. CASE step = "wizard" /\ checking
  <2>1. PICK h \in Handles : requests = {S!Request("check", h, S!NoText)}
    BY <1>1, <1>4 DEF Awaited
  <2>2. op = "check"
    BY <1>2, <2>1 DEF S!Request
  <2>3. QED BY <1>1, <1>4, <2>1, <2>2 DEF Checking
<1>5. CASE step = "wizard" /\ ~checking
  <2>1. r = S!Submission(answers)
    BY <1>1, <1>2, <1>5 DEF Awaited
  <2>2. op \in {"login", "register", "recover", "finish"}
    BY <1>2, <1>5, <2>1, SubmissionOps DEF Filled
  <2>3. QED BY <1>1, <1>5, <2>2
<1>6. QED BY <1>3, <1>4, <1>5 DEF SignTypes

\* Steps elsewhere in the program.
LEMMA SignFrame ==
  ASSUME SignInv, UNCHANGED <<step, flow, fieldIdx, answers, checking, requests, checked>>,
         screen' = screen \/ (screen # "onboarding" /\ screen' # "onboarding"),
         screen' = "onboarding" => selected' = selected
  PROVE  SignInv'
<1> USE DEF SignInv
<1>1. SignTypes' /\ Filled'
  BY DEF SignTypes, Filled
<1>2. Awaited'
  BY DEF Awaited, S!Submission
<1>3. Checking'
  BY DEF Checking
<1>4. QED BY <1>1, <1>2, <1>3

\* A wizard's first field, with no answers yet.
LEMMA WizardStarts ==
  ASSUME SignInv, NEW f \in Flows, S!StartWizard(f), requests' = {}, checking' = FALSE,
         screen = "onboarding", UNCHANGED <<screen, selected>>
  PROVE  SignInv'
<1>1. /\ step' = "wizard" /\ flow' = f /\ fieldIdx' = 0 /\ answers' = <<>> /\ Len(answers') = 0
      /\ answers' \in Seq(Entries)
  BY DEF S!StartWizard
<1>2. S!NumFields(f) \in 1..6
  BY NumFieldsIs
<1>3. SignTypes'
  BY <1>1 DEF SignTypes
<1>4. Filled'
  BY <1>1, <1>2 DEF Filled
<1>5. Awaited'
  BY <1>1, <1>2 DEF Awaited
<1>6. Checking'
  BY <1>1 DEF Checking, SignInv
<1>7. QED BY <1>3, <1>4, <1>5, <1>6 DEF SignInv

\* Steps to a screen without a form.
LEMMA WizardEnds ==
  ASSUME SignInv, step' \in {"connecting", "resuming", "error", "welcome", "done"},
         \/ answers' = answers
         \/ answers' = <<>>,
         checking' = FALSE, screen' = "onboarding" => selected' = selected /\ screen = "onboarding",
         screen' # "onboarding" => requests' = {},
         requests' = CASE step' = "connecting" -> {S!Simple("dial")}
                       [] step' = "resuming" -> {S!Simple("resume")}
                       [] OTHER -> {}
  PROVE  SignInv'
<1>1. SignTypes'
  BY NoAnswers DEF SignInv, SignTypes
<1>2. Filled'
  BY DEF Filled
<1>3. Awaited'
  BY DEF Awaited
<1>4. Checking'
  BY DEF Checking, SignInv
<1>5. QED BY <1>1, <1>2, <1>3, <1>4 DEF SignInv

-------------------------------------------------------------------------------
(* Results. *)

LEMMA DialledKeeps == ASSUME SignInv, S!Dialled PROVE SignInv'
<1>1. step = "connecting" /\ screen = "onboarding" /\ checking = FALSE
  BY ReturnsTo DEF S!Dialled, SignInv, SignTypes
<1>2. /\ UNCHANGED <<answers, checking, screen, selected>>
      /\ \/ step' = "error" /\ requests' = {}
         \/ step' = "resuming" /\ requests' = {S!Simple("resume")}
         \/ step' = "welcome" /\ requests' = {}
  BY DEF S!Dialled, S!wizardVars, S!orgVars
<1>3. QED BY <1>1, <1>2, WizardEnds

LEMMA AuthKeeps ==
  ASSUME SignInv, NEW op \in S!AuthOps \cup {"recover"},
         (op \in S!AuthOps /\ S!Authenticated(op)) \/ S!AuthFails(op)
  PROVE  SignInv'
<1>1. S!Return(op) /\ op # "check"
  BY DEF S!Authenticated, S!AuthFails, S!AuthOps
<1>2. screen = "onboarding" /\ checking = FALSE
  BY <1>1, ReturnsTo DEF SignInv, SignTypes
<1>3. CASE S!AuthFails(op)
  <2>1. step' = "welcome" /\ requests' = {} /\ UNCHANGED <<answers, checking, screen, selected>>
    BY <1>3 DEF S!AuthFails, S!wizardVars, S!orgVars
  <2>2. QED BY <2>1, <1>2, WizardEnds
<1>4. CASE S!Authenticated(op)
  <2>1. /\ step' = "done" /\ requests' = {} /\ answers' = <<>> /\ screen' = "orgselect"
        /\ UNCHANGED checking
    BY <1>4 DEF S!Authenticated, S!Forget
  <2>2. QED BY <2>1, <1>2, WizardEnds
<1>5. QED BY <1>3, <1>4

LEMMA AskQuestionKeeps == ASSUME SignInv, S!AskQuestion PROVE SignInv'
<1>1. S!Return("recover") /\ S!StartWizard("answer") /\ requests' = {}
      /\ UNCHANGED <<screen, checking, selected>>
  BY DEF S!AskQuestion, S!orgVars
<1>2. screen = "onboarding" /\ checking = FALSE
  BY <1>1, ReturnsTo DEF SignInv, SignTypes
<1>3. QED BY <1>1, <1>2, WizardStarts DEF Flows

\* The handle that was called free is the first answer.
LEMMA HandleCheckedKeeps == ASSUME SignInv, S!HandleChecked PROVE SignInv'
<1>1. S!Return("check") /\ checking' = FALSE /\ UNCHANGED <<screen, step, flow, selected>>
  BY DEF S!HandleChecked, S!orgVars
<1>2. PICK h \in Handles : requests = {S!Request("check", h, S!NoText)}
  BY <1>1, ReturnsTo
<1>3. screen = "onboarding" /\ step = "wizard" /\ flow = "register" /\ fieldIdx = 0
  BY <1>1, ReturnsTo
<1>4. answers \in Seq(Entries) /\ Len(answers) = 0 /\ answers = <<>>
  BY <1>3, EmptySeq DEF SignInv, SignTypes, Filled
<1>5. \/ /\ answers' = <<h>> /\ fieldIdx' = 1 /\ requests' = {} /\ h \in checked'
      \/ requests' = {} /\ UNCHANGED <<fieldIdx, answers, checked>>
  <2>1. ASSUME NEW r \in requests, S!Commit(<<r.handle>>), checked' = checked \cup {r.handle}
        PROVE  answers' = <<h>> /\ fieldIdx' = 1 /\ requests' = {} /\ h \in checked'
    <3>1. r.handle = h
      BY <1>2 DEF S!Request
    <3>2. answers' = <<h>> /\ fieldIdx' = 1
      BY <2>1, <3>1, <1>3, <1>4 DEF S!Commit
    <3>3. requests' = {}
      BY <2>1, <3>2, <1>3, NumFieldsIs DEF S!Commit
    <3>4. QED BY <2>1, <3>1, <3>2, <3>3
  <2>2. QED BY <2>1 DEF S!HandleChecked
<1>6. SignTypes'
  <2>1. <<h>> \in Seq(Entries)
    BY NoAnswers DEF Entries
  <2>2. QED BY <1>1, <1>4, <1>5, <2>1 DEF SignInv, SignTypes
<1>7. Filled'
  <2>1. CASE answers' = <<h>> /\ fieldIdx' = 1 /\ h \in checked'
    <3>1. Len(answers') = 1 /\ answers'[1] \in checked'
      BY <2>1
    <3>2. QED BY <1>1, <1>3, <2>1, <3>1, NumFieldsIs DEF Filled, Flows
  <2>2. CASE UNCHANGED <<fieldIdx, answers, checked>>
    BY <1>1, <2>2 DEF SignInv, Filled
  <2>3. QED BY <1>5, <2>1, <2>2
<1>8. Awaited'
  BY <1>1, <1>3, <1>5, NumFieldsIs DEF Awaited
<1>9. Checking'
  BY <1>1, <1>3 DEF SignInv, Checking
<1>10. QED BY <1>6, <1>7, <1>8, <1>9 DEF SignInv

-------------------------------------------------------------------------------
(* Keys. *)

\* A field that waits for the user: nothing runs.
LEMMA FieldWaits ==
  ASSUME SignInv, S!AtField
  PROVE  /\ screen = "onboarding" /\ step = "wizard" /\ flow \in Flows /\ checking = FALSE
         /\ fieldIdx = Len(answers) /\ fieldIdx \in Nat /\ fieldIdx < S!NumFields(flow)
         /\ answers \in Seq(Entries)
         /\ flow = "register" /\ fieldIdx > 0 => answers[1] \in checked
         /\ flow = "register" /\ fieldIdx > 2 => answers[3] = answers[2]
         /\ requests = {} /\ selected = 0
<1>1. screen = "onboarding" /\ step = "wizard" /\ checking = FALSE /\ fieldIdx < S!NumFields(flow)
  BY DEF S!AtField, SignInv, SignTypes
<1>2. fieldIdx = Len(answers) /\ fieldIdx \in Nat /\ answers \in Seq(Entries)
  BY <1>1, LenProperties DEF SignInv, SignTypes, Filled
<1>3. QED BY <1>1, <1>2 DEF SignInv, Filled, Awaited, Checking

\* What is entered, and where a question may be skipped.
LEMMA ValueIs ==
  ASSUME flow \in Flows, fieldIdx \in Nat, fieldIdx < S!NumFields(flow),
         NEW value \in S!Values(flow, fieldIdx)
  PROVE  /\ value # "skip" => value \in Entries
         /\ value = "skip" => flow = "register" /\ fieldIdx = 4
         /\ flow = "register" /\ fieldIdx = 0 => value \in Handles
<1>1. CASE fieldIdx = 0
  BY <1>1, AppAssumption DEF S!Values, Flows, Entries
<1>2. CASE fieldIdx = 1
  BY <1>2, AppAssumption DEF S!Values, Flows, Entries
<1>3. CASE fieldIdx \notin {0, 1}
  BY <1>3, AppAssumption DEF S!Values, Flows, Entries
<1>4. QED BY <1>1, <1>2, <1>3

LEMMA CommitKeeps ==
  ASSUME SignInv, S!AtField, NEW value \in S!Values(flow, fieldIdx),
         flow = "register" => fieldIdx # 0,
         flow = "register" /\ fieldIdx = 2 => value = answers[2],
         S!Commit(S!Committed(value)), UNCHANGED <<screen, step, flow, checking, checked, selected>>
  PROVE  SignInv'
<1> DEFINE values == S!Committed(value)
<1>1. /\ screen = "onboarding" /\ step = "wizard" /\ flow \in Flows /\ checking = FALSE
      /\ fieldIdx = Len(answers) /\ fieldIdx \in Nat /\ fieldIdx < S!NumFields(flow)
      /\ answers \in Seq(Entries) /\ selected = 0
      /\ flow = "register" /\ fieldIdx > 0 => answers[1] \in checked
      /\ flow = "register" /\ fieldIdx > 2 => answers[3] = answers[2]
  BY FieldWaits
<1>2. /\ value # "skip" => value \in Entries
      /\ value = "skip" => flow = "register" /\ fieldIdx = 4
  BY <1>1, ValueIs
<1>3. S!NumFields(flow) \in 1..6 /\ (flow = "register" => S!NumFields(flow) = 6)
  BY <1>1, NumFieldsIs
<1>4. /\ values \in Seq(Entries) /\ Len(values) \in {1, 2}
      /\ Len(values) = 2 => flow = "register" /\ fieldIdx = 4
      /\ value # "skip" => values[1] = value
  <2>1. CASE value = "skip"
    <3>1. values = <<S!NoText, S!NoText>>
      BY <2>1 DEF S!Committed
    <3>2. S!NoText \in Entries
      BY DEF Entries
    <3>3. values \in Seq(Entries) /\ Len(values) = 2
      BY <3>1, <3>2
    <3>4. QED BY <2>1, <3>3, <1>2
  <2>2. CASE value # "skip"
    <3>1. values = <<value>>
      BY <2>2 DEF S!Committed
    <3>2. values \in Seq(Entries) /\ Len(values) = 1 /\ values[1] = value
      BY <2>2, <3>1, <1>2, NoAnswers
    <3>3. QED BY <2>2, <3>2
  <2>3. QED BY <2>1, <2>2
<1>5. answers' = answers \o values /\ fieldIdx' = fieldIdx + Len(values)
  BY DEF S!Commit
<1>6. requests' = IF fieldIdx' < S!NumFields(flow) THEN {} ELSE {S!Submission(answers')}
  BY DEF S!Commit
<1> HIDE DEF values
<1>7. /\ answers' \in Seq(Entries) /\ Len(answers') = fieldIdx'
      /\ \A i \in 1..Len(answers) : answers'[i] = answers[i]
      /\ answers'[Len(answers) + 1] = values[1]
  BY <1>1, <1>4, <1>5, ConcatProperties
<1>8. fieldIdx' \in Nat /\ fieldIdx' <= S!NumFields(flow)
  <2>1. S!NumFields(flow) \in Nat /\ fieldIdx \in Nat /\ fieldIdx < S!NumFields(flow)
    BY <1>1, <1>3
  <2>2. CASE Len(values) = 1
    BY <2>1, <2>2, <1>5
  <2>3. CASE Len(values) = 2
    <3>1. fieldIdx = 4 /\ S!NumFields(flow) = 6
      BY <1>3, <1>4, <2>3
    <3>2. QED BY <3>1, <2>3, <1>5
  <2>4. QED BY <2>2, <2>3, <1>4
<1>9. flow = "register" => answers'[1] \in checked
  BY <1>1, <1>7
<1>10. ASSUME flow = "register", fieldIdx' > 2 PROVE answers'[3] = answers'[2]
  <2>1. CASE fieldIdx > 2
    BY <2>1, <1>1, <1>7, <1>10
  <2>2. CASE fieldIdx <= 2
    <3>1. fieldIdx = 2 /\ value = answers[2] /\ value # "skip"
      BY <2>2, <1>1, <1>2, <1>4, <1>5, <1>10
    <3>2. Len(answers) = 2 /\ values[1] = value
      BY <3>1, <1>1, <1>4
    <3>3. answers'[3] = value /\ answers'[2] = answers[2]
      BY <3>2, <1>7
    <3>4. QED BY <3>1, <3>3
  <2>3. QED BY <2>1, <2>2, <1>1
<1>11. SignTypes'
  BY <1>7 DEF SignInv, SignTypes
<1>12. Filled'
  BY <1>1, <1>7, <1>8, <1>9, <1>10 DEF Filled
<1>13. Awaited'
  BY <1>1, <1>6 DEF Awaited, S!Submission
<1>14. Checking'
  BY <1>1 DEF Checking
<1>15. QED BY <1>11, <1>12, <1>13, <1>14 DEF SignInv

LEMMA AdvanceKeeps ==
  ASSUME SignInv, NEW value \in S!Values(flow, fieldIdx), S!Advance(value)
  PROVE  SignInv'
<1>1. /\ S!AtField /\ UNCHANGED <<screen, step, flow, checked, selected>>
      /\ flow = "register" /\ fieldIdx = 2 => value = answers[2]
  BY DEF S!Advance, S!orgVars
<1>2. CASE flow = "register" /\ fieldIdx = 0
  <2>1. /\ checking' = TRUE /\ requests' = {S!Request("check", value, S!NoText)}
        /\ UNCHANGED <<fieldIdx, answers>>
    BY <1>2 DEF S!Advance
  <2>2. /\ screen = "onboarding" /\ step = "wizard" /\ value \in Handles
        /\ fieldIdx < S!NumFields(flow)
    BY <1>1, <1>2, FieldWaits, ValueIs
  <2>3. SignTypes' /\ Filled'
    BY <1>1, <2>1 DEF SignInv, SignTypes, Filled
  <2>4. Awaited'
    BY <1>1, <2>1, <2>2 DEF Awaited
  <2>5. Checking'
    BY <1>1, <1>2, <2>1, <2>2 DEF SignInv, Checking
  <2>6. QED BY <2>3, <2>4, <2>5 DEF SignInv
<1>3. CASE ~(flow = "register" /\ fieldIdx = 0)
  <2>1. S!Commit(S!Committed(value)) /\ UNCHANGED checking
    BY <1>3 DEF S!Advance
  <2>2. QED BY <1>1, <1>3, <2>1, CommitKeeps
<1>4. QED BY <1>2, <1>3

\* Going back takes the last answer away, and nothing else.
LEMMA RetreatKeeps == ASSUME SignInv, S!Retreat PROVE SignInv'
<1>1. S!AtField /\ UNCHANGED <<screen, flow, checking, requests, checked, selected>>
  BY DEF S!Retreat, S!orgVars
<1>2. /\ screen = "onboarding" /\ step = "wizard" /\ flow \in Flows /\ checking = FALSE
      /\ fieldIdx = Len(answers) /\ fieldIdx \in Nat /\ fieldIdx < S!NumFields(flow)
      /\ answers \in Seq(Entries) /\ requests = {} /\ selected = 0
      /\ flow = "register" /\ fieldIdx > 0 => answers[1] \in checked
      /\ flow = "register" /\ fieldIdx > 2 => answers[3] = answers[2]
  BY <1>1, FieldWaits
<1>3. CASE fieldIdx = 0
  <2>1. step' = "welcome" /\ UNCHANGED answers
    BY <1>3 DEF S!Retreat
  <2>2. QED BY <2>1, <1>1, <1>2, WizardEnds
<1>4. CASE fieldIdx # 0
  <2>1. /\ fieldIdx' = fieldIdx - 1 /\ answers' = SubSeq(answers, 1, Len(answers) - 1)
        /\ UNCHANGED step
    BY <1>4 DEF S!Retreat
  <2>2. /\ answers' \in Seq(Entries) /\ Len(answers') = fieldIdx'
        /\ \A i \in 1..fieldIdx' : answers'[i] = answers[i]
    <3>1. \A i \in 1..(Len(answers) - 1) : answers[i] \in Entries
      BY <1>2, ElementOfSeq
    <3>2. /\ answers' \in Seq(Entries)
          /\ Len(answers') = IF 1 <= Len(answers) - 1 THEN Len(answers) - 1 ELSE 0
          /\ \A i \in 1..(Len(answers) - 1) : answers'[i] = answers[1 + i - 1]
      BY <1>2, <1>4, <2>1, <3>1, SubSeqProperties
    <3>3. QED BY <3>2, <1>2, <1>4, <2>1
  <2>3. S!NumFields(flow) \in 1..6
    BY <1>2, NumFieldsIs
  <2>4. SignTypes'
    BY <1>1, <2>1, <2>2 DEF SignInv, SignTypes
  <2>5. Filled'
    BY <1>1, <1>2, <1>4, <2>1, <2>2, <2>3 DEF Filled
  <2>6. Awaited'
    BY <1>1, <1>2, <1>4, <2>1, <2>3 DEF Awaited
  <2>7. Checking'
    BY <1>1, <1>2 DEF Checking
  <2>8. QED BY <2>4, <2>5, <2>6, <2>7 DEF SignInv
<1>5. QED BY <1>3, <1>4

LEMMA OtherKeysKeep ==
  ASSUME SignInv, S!Redial \/ \E f \in {"login", "register", "recover"} : S!ChooseFlow(f)
  PROVE  SignInv'
<1>1. screen = "onboarding" /\ step \in {"error", "welcome"} => checking = FALSE /\ requests = {}
  BY DEF SignInv, SignTypes, Awaited, Checking
<1>2. CASE S!Redial
  <2>1. /\ screen = "onboarding" /\ step = "error" /\ step' = "connecting"
        /\ requests' = {S!Simple("dial")} /\ UNCHANGED <<answers, checking, screen, selected>>
    BY <1>2 DEF S!Redial, S!wizardVars, S!orgVars
  <2>2. QED BY <2>1, <1>1, WizardEnds
<1>3. ASSUME NEW f \in {"login", "register", "recover"}, S!ChooseFlow(f) PROVE SignInv'
  <2>1. /\ screen = "onboarding" /\ step = "welcome" /\ S!StartWizard(f)
        /\ UNCHANGED <<screen, checking, requests, selected>>
    BY <1>3 DEF S!ChooseFlow, S!orgVars
  <2>2. QED BY <2>1, <1>1, WizardStarts DEF Flows
<1>4. QED BY <1>2, <1>3

LEMMA OrgKeepsSignIn ==
  ASSUME SignInv, S!OrgKeys \/ S!OrgDone \/ \E h \in Handles : S!TakenElsewhere(h)
  PROVE  SignInv'
<1>1. /\ UNCHANGED <<screen, step, flow, fieldIdx, answers, checking, requests, checked>>
      /\ screen = "onboarding" => UNCHANGED selected
  BY DEF S!OrgKeys, S!OrgDone, S!TakenElsewhere, S!OpenMode, S!LeaveMode, S!SendOrg,
         S!SelectRow, S!onboardingVars, S!wizardVars, S!orgVars
<1>2. QED BY <1>1, SignFrame

\* The rest of the program: once the chat screen is open nobody signs in.
LEMMA ProgramKeepsSignIn ==
  ASSUME SignInv, LobbyInv, BuildChat \/ Navigation
  PROVE  SignInv'
<1>1. CASE BuildChat
  <2>1. /\ selected > 0 /\ screen' = "chat"
        /\ UNCHANGED <<step, flow, fieldIdx, answers, checking, requests, checked>>
    BY <1>1 DEF BuildChat
  <2>2. screen # "onboarding"
    BY <2>1 DEF SignInv, Checking
  <2>3. QED BY <2>1, <2>2, SignFrame
<1>2. CASE Navigation
  <2>1. UNCHANGED <<step, flow, fieldIdx, answers, checking, requests, checked, selected>>
    BY <1>2 DEF Navigation, Command, SendChallenge, ChallengeReturns, RouteChallenge, AnswerInvite,
       Close, Route, signVars, signInside
  <2>2. screen # "onboarding" /\ screen' # "onboarding"
    <3>1. screen # "onboarding"
      BY <1>2, NavigatingNeedsChat
    <3>2. UNCHANGED screen \/ screen' = "game" \/ \E msg \in Messages : screen' = Target(msg)
      BY <1>2 DEF Navigation, Command, SendChallenge, ChallengeReturns, RouteChallenge,
         AnswerInvite, Close, Route, signVars
    <3>3. \A msg \in Messages : Target(msg) # "onboarding"
      BY DEF Target, Messages
    <3>4. QED BY <3>1, <3>2, <3>3
  <2>3. QED BY <2>1, <2>2, SignFrame
<1>3. QED BY <1>1, <1>2

LEMMA SignInStep ==
  ASSUME SignInv, LobbyInv, [Next]_vars
  PROVE  SignInv'
<1>1. CASE SignInReplies
  BY <1>1, DialledKeeps, AskQuestionKeeps, HandleCheckedKeeps, AuthKeeps
     DEF SignInReplies, S!OnboardingReplies
<1>2. CASE SignInKeys
  BY <1>2, AdvanceKeeps, RetreatKeeps, OtherKeysKeep, OrgKeepsSignIn
     DEF SignInKeys, S!OnboardingKeys
<1>3. CASE OrgDone
  BY <1>3, OrgKeepsSignIn DEF OrgDone
<1>4. CASE BuildChat \/ Navigation
  BY <1>4, ProgramKeepsSignIn
<1>5. ASSUME UNCHANGED signVars PROVE SignInv'
  <2>1. UNCHANGED <<step, flow, fieldIdx, answers, checking, requests, checked, screen, selected>>
    BY <1>5 DEF signVars
  <2>2. QED BY <2>1, SignFrame
<1>6. ASSUME NEW p \in Pumps, Arrive(p) \/ Take(p) \/ Deliver(p) PROVE SignInv'
  BY <1>5, <1>6 DEF Arrive, Take, Deliver
<1>7. ASSUME StartLobby \/ \E g \in Guests : GuestAnswers(g) \/ LobbyResult(g) PROVE SignInv'
  BY <1>5, <1>7 DEF StartLobby, GuestAnswers, LobbyResult
<1>8. CASE UNCHANGED vars
  BY <1>5, <1>8 DEF vars
<1>9. QED BY <1>1, <1>2, <1>3, <1>4, <1>6, <1>7, <1>8 DEF Next, Navigation

LEMMA InitSignIn == Init => SignInv
<1> SUFFICES ASSUME Init PROVE SignInv
  OBVIOUS
<1>1. /\ step = "connecting" /\ answers = <<>> /\ checking = FALSE /\ selected = 0
      /\ \/ screen = "onboarding" /\ requests = {S!Simple("dial")}
         \/ screen = "chat" /\ requests = {}
  BY DEF Init, S!Init, S!Skipped, S!Blank
<1>2. QED BY <1>1, NoAnswers DEF SignInv, SignTypes, Filled, Awaited, Checking

\* The invariant says what is registered and what is awaited.
LEMMA SignInvProtects ==
  ASSUME SignInv
  PROVE  SignUpChecked
<1> USE DEF SignInv
<1>1. CASE screen # "onboarding"
  <2>1. requests = {} /\ step # "wizard"
    BY <1>1 DEF Checking
  <2>2. QED BY <2>1, <1>1, OneRequest
       DEF SignUpChecked, S!RegistersWhatWasChecked, S!OneAnswerAwaited
<1>2. CASE screen = "onboarding" /\ step # "wizard"
  <2>1. \/ step \in {"connecting", "resuming"} /\ \E op \in {"dial", "resume"} : requests = {S!Simple(op)}
        \/ step \notin {"connecting", "resuming"} /\ requests = {}
    BY <1>2 DEF SignTypes, Awaited
  <2>2. S!Cardinality(requests) <= 1
    BY <2>1, OneRequest
  <2>3. \A r \in requests : r.op # "register"
    BY <2>1 DEF S!Simple, S!Request
  <2>4. ~checking
    BY <1>2 DEF Checking
  <2>5. QED BY <1>2, <2>1, <2>2, <2>3, <2>4
       DEF SignUpChecked, S!RegistersWhatWasChecked, S!OneAnswerAwaited
<1>3. CASE screen = "onboarding" /\ step = "wizard"
  <2>1. /\ flow \in Flows /\ fieldIdx = Len(answers) /\ fieldIdx <= S!NumFields(flow)
        /\ fieldIdx \in Nat /\ S!NumFields(flow) \in 1..6
    BY <1>3, NumFieldsIs, LenProperties DEF SignTypes, Filled
  <2>2. CASE checking
    <3>1. PICK h \in Handles : requests = {S!Request("check", h, S!NoText)}
      BY <1>3, <2>2 DEF Awaited
    <3>2. S!Cardinality(requests) <= 1 /\ requests # {} /\ \A r \in requests : r.op # "register"
      <4>1. S!Cardinality(requests) <= 1
        BY <3>1, OneRequest
      <4>2. requests # {} /\ \A r \in requests : r.op # "register"
        BY <3>1 DEF S!Request
      <4>3. QED BY <4>1, <4>2
    <3>3. QED BY <1>3, <2>1, <2>2, <3>2
         DEF SignUpChecked, S!RegistersWhatWasChecked, S!OneAnswerAwaited
  <2>3. CASE ~checking /\ fieldIdx < S!NumFields(flow)
    <3>1. requests = {} /\ fieldIdx # S!NumFields(flow)
      BY <1>3, <2>1, <2>3 DEF Awaited
    <3>2. QED BY <1>3, <2>1, <2>3, <3>1, OneRequest
         DEF SignUpChecked, S!RegistersWhatWasChecked, S!OneAnswerAwaited
  <2>4. CASE ~checking /\ fieldIdx = S!NumFields(flow)
    <3>1. requests = {S!Submission(answers)}
      BY <1>3, <2>1, <2>4 DEF Awaited
    <3>2. S!Cardinality(requests) <= 1 /\ requests # {}
      BY <3>1, OneRequest
    <3>3. ASSUME NEW r \in requests, r.op = "register"
          PROVE  /\ r.handle \in checked /\ r.password = answers[3]
                 /\ Len(answers) = S!NumFields("register")
      <4>1. flow = "register" /\ r = S!Request("register", answers[1], answers[2])
        BY <2>1, <3>1, <3>3, SubmissionOps
      <4>2. fieldIdx = 6
        BY <2>4, <4>1, NumFieldsIs
      <4>3. answers[1] \in checked /\ answers[3] = answers[2]
        BY <1>3, <4>1, <4>2 DEF Filled
      <4>4. QED BY <2>1, <2>4, <4>1, <4>3 DEF S!Request
    <3>4. QED BY <1>3, <2>1, <2>4, <3>2, <3>3
         DEF SignUpChecked, S!RegistersWhatWasChecked, S!OneAnswerAwaited
  <2>5. QED BY <2>1, <2>2, <2>3, <2>4
<1>4. QED BY <1>1, <1>2, <1>3

\* What is registered is what was checked and confirmed, for any handles and
\* passwords, whatever keys are pressed, however often the user goes back and
\* however late an answer comes; and only one answer is ever awaited.
THEOREM RegisteredAsChecked == Spec => []SignUpChecked
<1>1. SignInv /\ LobbyInv /\ [Next]_vars => SignInv'
  BY SignInStep
<1>2. SignInv => SignUpChecked
  BY SignInvProtects
<1>3. Init => LobbyInv
  BY InitLobby
<1>4. QED BY <1>1, <1>2, <1>3, InitSignIn, LobbyStep, PTL DEF Spec
================================================================================
