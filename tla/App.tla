---------------------------------- MODULE App ----------------------------------
(***************************************************************************)
(* One running program: the router of internal/ui/app.go, the event pumps  *)
(* and the Ludo lobby of internal/ui/model.go, and, with a relay server,   *)
(* signing in (module SignIn).                                             *)
(*                                                                         *)
(* Everything that happens reaches the program as a message, which the     *)
(* router handles itself or gives to the screen that is open.  A pump is a *)
(* command that waits for one event; the screen that handles its message   *)
(* has to issue it again.                                                  *)
(***************************************************************************)
EXTENDS Naturals, FiniteSets

CONSTANTS
  Pumps,        \* the channels the chat screen waits on
  Guests,       \* whom a Ludo lobby invites
  Modes,        \* with a relay server ("relay"), without ("lan"), or both
  MaxArrivals,  \* bound: events that come, on all channels
  MaxTrips,     \* bound: how often the user leaves the chat screen, in each mode
  MaxLobbies,   \* bound: lobbies opened
  Handles, Passwords, MaxOrgWork, MaxDials  \* see SignIn

\* The name of the choice that skips the security question is nothing else's.
ASSUME AppAssumption == "skip" \notin Handles \cup Passwords

VARIABLES
  \* SignIn's
  screen, step, flow, fieldIdx, answers, checking, requests, dials, saved, taken, checked,
  mode, orgWork, orgSent, selected,
  \* the pumps
  chats,      \* how many chat Models were built and started
  arrived,    \* events that came
  queued,     \* events in the channel
  waiting,    \* waits for an event
  carried,    \* events on their way to the router
  dropped,    \* events given to a screen that ignores them
  \* the chat screen
  invites,    \* game invitations shown on it
  challenge,  \* its tic-tac-toe challenge: "none", "sent", "accepted", "denied"
  nav,        \* other messages on their way to the router
  trips,
  \* the Ludo lobby
  lobby,      \* "none", or "pending" until everybody has answered
  lobbies,
  reply,      \* what each guest's challenge has come to
  session     \* the session of a guest who accepted

signVars == <<screen, step, flow, fieldIdx, answers, checking, requests, dials, saved, taken,
              checked, mode, orgWork, orgSent, selected>>
pumpVars == <<chats, arrived, queued, waiting, carried, dropped>>
chatVars == <<invites, challenge, nav, trips>>
lobbyVars == <<lobby, lobbies, reply, session>>
vars == <<signVars, pumpVars, chatVars, lobbyVars>>

S == INSTANCE SignIn
signInside == <<step, flow, fieldIdx, answers, checking, requests, dials, saved, taken,
                checked, mode, orgWork, orgSent>>

Invites == "invites"  \* the pump for game invitations

None == [p \in Pumps |-> 0]
NoReplies == [g \in Guests |-> "none"]

\* NewAppWithOnboarding, or NewApp, already on the chat screen.
Init ==
  /\ \/ "relay" \in Modes /\ S!Init /\ chats = 0 /\ waiting = None
     \/ "lan" \in Modes /\ S!Skipped /\ chats = 1 /\ waiting = [p \in Pumps |-> 1]
  /\ arrived = 0 /\ queued = None /\ carried = None /\ dropped = None
  /\ invites = 0 /\ challenge = "none" /\ nav = {} /\ trips = 0
  /\ lobby = "none" /\ lobbies = 0 /\ reply = NoReplies /\ session = NoReplies

Relay == step = "done"

-------------------------------------------------------------------------------
(* Signing in. *)

SignInReplies == S!OnboardingReplies /\ UNCHANGED <<pumpVars, chatVars, lobbyVars>>

SignInKeys ==
  /\ S!OnboardingKeys \/ S!OrgKeys \/ \E h \in Handles : S!TakenElsewhere(h)
  /\ UNCHANGED <<pumpVars, chatVars, lobbyVars>>

OrgDone == S!OrgDone /\ UNCHANGED <<pumpVars, chatVars, lobbyVars>>

\* SelectedMsg: a new chat Model, whichever screen is open, and all its pumps.
\* A second one takes the place of the first; the organization screen's results
\* that are still to come are ignored.
BuildChat ==
  /\ selected > 0 /\ selected' = selected - 1
  /\ screen' = "chat" /\ chats' = chats + 1
  /\ waiting' = [p \in Pumps |-> waiting[p] + 1]
  /\ invites' = 0 /\ lobby' = "none" /\ mode' = "list"
  /\ orgWork' = 0 /\ orgSent' = 0
  /\ UNCHANGED <<step, flow, fieldIdx, answers, checking, requests, dials, saved, taken, checked,
                 arrived, queued, carried, dropped, challenge, nav, trips, lobbies,
                 reply, session>>

-------------------------------------------------------------------------------
(* The pumps. *)

Arrive(p) ==
  /\ arrived < MaxArrivals /\ arrived' = arrived + 1
  /\ queued' = [queued EXCEPT ![p] = @ + 1]
  /\ UNCHANGED <<signVars, chats, waiting, carried, dropped, chatVars, lobbyVars>>

Take(p) ==
  /\ waiting[p] > 0 /\ queued[p] > 0
  /\ waiting' = [waiting EXCEPT ![p] = @ - 1] /\ queued' = [queued EXCEPT ![p] = @ - 1]
  /\ carried' = [carried EXCEPT ![p] = @ + 1]
  /\ UNCHANGED <<signVars, chats, arrived, dropped, chatVars, lobbyVars>>

\* Mutant: the chat screen handles the event and does not wait for the next.
DeliverOnce(p) ==
  /\ carried[p] > 0 /\ carried' = [carried EXCEPT ![p] = @ - 1]
  /\ IF screen = "chat"
       THEN invites' = (IF p = Invites THEN invites + 1 ELSE invites) /\ UNCHANGED dropped
       ELSE dropped' = [dropped EXCEPT ![p] = @ + 1] /\ UNCHANGED invites
  /\ UNCHANGED <<signVars, chats, arrived, queued, waiting, challenge, nav, trips, lobbyVars>>

\* The chat screen shows the event and waits for the next.  Any other screen
\* ignores it, and with it the pump is gone.
Deliver(p) ==
  /\ carried[p] > 0 /\ carried' = [carried EXCEPT ![p] = @ - 1]
  /\ IF screen = "chat"
       THEN /\ waiting' = [waiting EXCEPT ![p] = @ + 1] /\ UNCHANGED dropped
            /\ invites' = IF p = Invites THEN invites + 1 ELSE invites
       ELSE dropped' = [dropped EXCEPT ![p] = @ + 1] /\ UNCHANGED <<waiting, invites>>
  /\ UNCHANGED <<signVars, chats, arrived, queued, challenge, nav, trips, lobbyVars>>

-------------------------------------------------------------------------------
(* What the user does, and the messages that change the screen. *)

\* Where a message takes the program.
Target(msg) ==
  CASE msg = "open todo" -> "todo" [] msg = "open account" -> "account"
    [] msg \in {"ludo", "networked ludo"} -> "ludo" [] msg = "game" -> "game"
    [] msg = "closed" -> "chat"

\* An invitation on the screen takes every key.
AtInput == screen = "chat" /\ invites = 0 /\ trips < MaxTrips[IF Relay THEN "relay" ELSE "lan"]

Command(msg) ==
  /\ AtInput /\ (msg = "open account" => Relay)
  /\ nav' = nav \cup {msg} /\ trips' = trips + 1
  /\ UNCHANGED <<signVars, pumpVars, invites, challenge, lobbyVars>>

SendChallenge ==
  /\ AtInput /\ challenge = "none" /\ challenge' = "sent" /\ trips' = trips + 1
  /\ UNCHANGED <<signVars, pumpVars, invites, nav, lobbyVars>>

ChallengeReturns ==
  /\ challenge = "sent" /\ challenge' \in {"accepted", "denied"}
  /\ UNCHANGED <<signVars, pumpVars, invites, nav, trips, lobbyVars>>

\* The router itself gives a refusal to the chat screen, whichever is open.
RouteChallenge ==
  /\ challenge \in {"accepted", "denied"} /\ challenge' = "none"
  /\ screen' = IF challenge = "accepted" THEN "game" ELSE screen
  /\ UNCHANGED <<signInside, selected, pumpVars, invites, nav, trips, lobbyVars>>

\* Accepting may fail; an accepted game is tic-tac-toe or Ludo.
AnswerInvite ==
  /\ screen = "chat" /\ invites > 0 /\ invites' = invites - 1
  /\ nav' \in {nav, nav \cup {"game"}, nav \cup {"ludo"}}
  /\ UNCHANGED <<signVars, pumpVars, challenge, trips, lobbyVars>>

\* The user closes a screen, or its game ends.
Close ==
  /\ screen \in {"todo", "account", "game", "ludo"} /\ nav' = nav \cup {"closed"}
  /\ UNCHANGED <<signVars, pumpVars, invites, challenge, trips, lobbyVars>>

Route(msg) ==
  /\ msg \in nav /\ nav' = nav \ {msg} /\ screen' = Target(msg)
  /\ session' = IF msg = "networked ludo" THEN [g \in Guests |-> "playing"] ELSE session
  /\ UNCHANGED <<signInside, selected, pumpVars, invites, challenge, trips, lobby, lobbies, reply>>

-------------------------------------------------------------------------------
(* The Ludo lobby. *)

\* One lobby at a time.  The sessions of two lobbies are not told apart here: no
\* challenge of an earlier one is still out, no match of one about to begin.
StartLobby ==
  /\ AtInput /\ lobby = "none" /\ lobbies < MaxLobbies
  /\ \A g \in Guests : reply[g] \notin {"sent", "yes", "no"}
  /\ "networked ludo" \notin nav
  /\ lobby' = "pending" /\ lobbies' = lobbies + 1 /\ trips' = trips + 1
  /\ reply' = [g \in Guests |-> "sent"] /\ session' = NoReplies
  /\ UNCHANGED <<signVars, pumpVars, invites, challenge, nav>>

GuestAnswers(g) ==
  /\ reply[g] = "sent"
  /\ \/ reply' = [reply EXCEPT ![g] = "yes"] /\ session' = [session EXCEPT ![g] = "open"]
     \/ reply' = [reply EXCEPT ![g] = "no"] /\ UNCHANGED session
  /\ UNCHANGED <<signVars, pumpVars, chatVars, lobby, lobbies>>

Resolved(g, all) == [all EXCEPT ![g] = IF @ = "yes" THEN "accepted" ELSE "declined"]

\* Mutant: the sessions of a lobby that fails are forgotten.
LobbyResultLeaking(g) ==
  /\ reply[g] \in {"yes", "no"}
  /\ IF screen # "chat" \/ lobby = "none"
       THEN reply' = [reply EXCEPT ![g] = "dropped"] /\ UNCHANGED <<lobby, session, nav>>
       ELSE /\ reply' = Resolved(g, reply)
            /\ lobby' = IF \A h \in Guests : reply'[h] \in {"accepted", "declined"} THEN "none" ELSE "pending"
            /\ nav' = IF \A h \in Guests : reply'[h] = "accepted" THEN nav \cup {"networked ludo"} ELSE nav
            /\ UNCHANGED session
  /\ UNCHANGED <<signVars, pumpVars, invites, challenge, trips, lobbies>>

\* handleLudoChallengeResult, on the chat screen only: when all have answered,
\* the match starts or every session is closed.  Any other screen ignores the
\* answer, and the lobby waits for it.
LobbyResult(g) ==
  /\ reply[g] \in {"yes", "no"}
  /\ IF screen # "chat" \/ lobby = "none"
       THEN reply' = [reply EXCEPT ![g] = "dropped"] /\ UNCHANGED <<lobby, session, nav>>
       ELSE /\ reply' = Resolved(g, reply)
            /\ lobby' = IF \A h \in Guests : reply'[h] \in {"accepted", "declined"} THEN "none" ELSE "pending"
            /\ nav' = IF \A h \in Guests : reply'[h] = "accepted" THEN nav \cup {"networked ludo"} ELSE nav
            /\ session' = IF lobby' = "pending" \/ nav' # nav THEN session
                          ELSE [h \in Guests |-> IF session[h] = "open" THEN "closed" ELSE session[h]]
  /\ UNCHANGED <<signVars, pumpVars, invites, challenge, trips, lobbies>>

-------------------------------------------------------------------------------
Messages == {"open todo", "open account", "ludo", "networked ludo", "game", "closed"}

Next ==
  \/ SignInReplies \/ SignInKeys \/ OrgDone \/ BuildChat
  \/ \E p \in Pumps : Arrive(p) \/ Take(p) \/ Deliver(p)
  \/ \E msg \in {"open todo", "open account", "ludo"} : Command(msg)
  \/ SendChallenge \/ ChallengeReturns \/ RouteChallenge \/ AnswerInvite \/ Close
  \/ \E msg \in Messages : Route(msg)
  \/ StartLobby \/ \E g \in Guests : GuestAnswers(g) \/ LobbyResult(g)

Spec == Init /\ [][Next]_vars

\* Commands run and the router takes their messages; the peers who were asked
\* answer or are given up.  The user need not do anything.
Fairness ==
  /\ WF_vars(SignInReplies) /\ WF_vars(BuildChat)
  /\ \A p \in Pumps : WF_vars(Take(p)) /\ WF_vars(Deliver(p))
  /\ \A g \in Guests : WF_vars(GuestAnswers(g)) /\ WF_vars(LobbyResult(g))

FairSpec == Spec /\ Fairness

-------------------------------------------------------------------------------
\* For every chat Model that was started each channel has one wait or one event
\* under way, unless another screen was given the event: no pump stops on the
\* chat screen, and none runs twice (model.go:384-386).
PumpsKept == \A p \in Pumps : waiting[p] + carried[p] + dropped[p] = chats

\* What is registered is what was checked and confirmed, whatever keys are
\* pressed and however answers are delayed, and one answer is awaited at a time.
SignUpChecked == S!RegistersWhatWasChecked /\ S!OneAnswerAwaited

\* "It's all-or-nothing": a match starts with everybody or every session that
\* was opened is closed, "so nobody is left waiting on a match that isn't going
\* to start" (model.go:1152-1196), as long as the chat Model is not replaced.
LobbyAllOrNothing ==
  /\ (\E g \in Guests : session[g] = "playing") => \A g \in Guests : session[g] = "playing"
  /\ chats = 1 /\ lobby = "none" /\ "networked ludo" \notin nav => \A g \in Guests : session[g] # "open"

\* A form that was sent is answered; an event that arrives is taken while the
\* channel has a pump; a lobby is resolved unless an answer was dropped.
Attended ==
  /\ S!SubmittedReturns
  /\ \A p \in Pumps : (queued[p] > 0 /\ chats > 0) ~> (queued[p] = 0 \/ dropped[p] = chats)
  /\ lobby = "pending" ~> (lobby = "none" \/ \E g \in Guests : reply[g] = "dropped")

\* "Update() re-issues this Cmd after each message so the pump keeps running for
\* the lifetime of the program" (model.go:385-386).
PumpForLife == \A p \in Pumps : chats > 0 => waiting[p] + carried[p] > 0
================================================================================
