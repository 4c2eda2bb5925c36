------------------------------- MODULE LudoMatch -------------------------------
(***************************************************************************)
(* A ludo match: internal/games/ludo/model.go and net.go.  Either a local  *)
(* one, seat 0 a person and the others computer players driven by ticks,   *)
(* or a networked one, seat 0 the host, which alone holds the game, and    *)
(* the others guests, each with a connection to the host, a copy of the    *)
(* game and nothing else.                                                  *)
(*                                                                         *)
(* A connection is a FIFO each way, from the sender's write to the reading *)
(* side's event channel.  The host's waits for an action are commands:     *)
(* each takes one event, and what they took reaches Update in any order,   *)
(* so with n of them any of the next n events may be the one handled.      *)
(***************************************************************************)
EXTENDS LudoRules, Sequences, SequencesExt

CONSTANTS
  Modes,      \* which kinds of match are played: TRUE the local one
  MayBreak,   \* the guests whose network may fail while they play
  MinHome,    \* bound: tokens that are home before a network may fail
  MaxLag,     \* bound: broadcasts a guest has not read
  MaxTaps,    \* bound: actions of a guest the host has not handled
  MaxMatches  \* bound: local matches started one after another

ASSUME MatchAssumption ==
  /\ Modes \subseteq BOOLEAN /\ MayBreak \subseteq Seats /\ MinHome \in Nat
  /\ MaxLag \in Nat /\ MaxTaps \in Nat /\ MaxMatches \in Nat

VARIABLES
  local,      \* is this the match against the computer?
  game,       \* the host's, or the local match's, *Game
  over,       \* how Model.done was reached there: "no" while it was not
  ticks,      \* aiTicks on their way
  matches,    \* local matches begun
  staleTick,  \* history: a tick of an earlier match was still on its way
  waits,      \* waitForGuestAction commands out, per guest
  up,         \* guest to host
  down,       \* host to guest
  broken,     \* the guests whose network has failed
  view,       \* each guest's game: NoView before the first broadcast
  guestOver   \* how each guest's Model.done was reached

localVars == <<ticks, matches, staleTick>>
guestVars == <<view, guestOver>>
vars == <<local, game, over, localVars, waits, up, down, broken, guestVars>>

Host == 0
Guests == Seats \ {Host}

\* The JSON of a Game: its unexported consecutiveSixes is left behind.
Snapshot(g) == [tokens |-> g.tokens, turn |-> g.turn, dice |-> g.dice,
                phase |-> g.phase, winner |-> g.winner, sixes |-> 0]
NoView == [Snapshot(NewGame) EXCEPT !.phase = "over"]

Action(kind, id) == [kind |-> kind, id |-> id]
Actions == {Action("roll", 0), Action("resign", 0)}
             \cup [kind : {"move"}, id : Ids]
Frame(kind, g) == [kind |-> kind, game |-> g]

Init ==
  /\ local \in Modes
  /\ game = NewGame /\ over = "no"
  /\ ticks = 0 /\ matches = 1 /\ staleTick = FALSE
  /\ waits = [p \in Guests |-> IF local THEN 0 ELSE 1]
  /\ up = [p \in Guests |-> <<>>]
  /\ down = [p \in Guests |-> <<>>] /\ broken = {}
  /\ view = [p \in Guests |-> NoView]
  /\ guestOver = [p \in Guests |-> "no"]

-------------------------------------------------------------------------------
(* afterAction: broadcast, then wait for whoever is next. *)

Room == \A p \in Guests : Len(down[p]) < MaxLag

\* A write to a guest that has closed its end, or whose network has failed, is
\* lost, and its error ignored.
Unreached(p) == local \/ guestOver[p] # "no" \/ p \in broken

\* Mutant: the state is sent before the action is applied to it.
BroadcastBefore(g) ==
  [p \in Guests |-> IF Unreached(p) THEN down[p]
                    ELSE Append(down[p], Frame("state", Snapshot(game)))]

Broadcast(g) ==
  [p \in Guests |-> IF Unreached(p) THEN down[p]
                    ELSE Append(down[p], Frame("state", Snapshot(g)))]

Arm(g, listening) ==
  IF ~local /\ g.turn # Host THEN [listening EXCEPT ![g.turn] = @ + 1] ELSE listening

\* Mutant: only the tick before an AI's first throw of a turn is ordered.
OrderOnce(g, pending) ==
  IF local /\ g.turn # Host /\ g.turn # game.turn THEN pending + 1 ELSE pending

Order(g, pending) == IF local /\ g.turn # Host THEN pending + 1 ELSE pending

\* What is still waiting or on its way when the match is over here no
\* longer matters: Update ignores it.
Deaf == [p \in Guests |-> 0]

\* Close, on the connections of all guests: closing one with something unread
\* resets it, and then what was under way to the guest may be lost.
Close(sending, unheard) ==
  \E cut \in SUBSET {p \in Guests \ broken : unheard[p] # <<>>} :
    down' = [p \in Guests |-> IF p \in cut THEN <<>> ELSE sending[p]]

\* unheard is what the guests have sent and the host not handled.
AfterAction(g, unheard, listening, pending) ==
  /\ Room
  /\ game' = g /\ up' = unheard
  /\ IF game'.phase = "over"
       THEN /\ over' = "finished" /\ Close(Broadcast(game'), unheard)
            /\ waits' = Deaf /\ ticks' = pending
       ELSE /\ over' = over /\ down' = Broadcast(game')
            /\ waits' = Arm(game', listening) /\ ticks' = Order(game', pending)

-------------------------------------------------------------------------------
(* The person at seat 0. *)

MyTurn == over = "no" /\ game.turn = Host

HumanRoll ==
  /\ MyTurn /\ game.phase = "roll"
  /\ \E val \in Die : AfterAction(ApplyRoll(game, val), up, waits, ticks)
  /\ UNCHANGED <<local, matches, staleTick, broken, guestVars>>

HumanMove ==
  /\ MyTurn /\ game.phase = "select"
  /\ \E id \in LegalMoves(game) : AfterAction(MoveToken(game, id), up, waits, ticks)
  /\ UNCHANGED <<local, matches, staleTick, broken, guestVars>>

\* finishWithReason: the router then drops the screen, and the game with it.
Abandon(why) ==
  over' = why /\ game' = NewGame /\ waits' = Deaf /\ up' = [p \in Guests |-> <<>>]

\* Leaving tells every guest and closes every connection.
HumanQuit ==
  /\ over = "no"
  /\ Abandon("quit")
  /\ Close([p \in Guests |-> IF Unreached(p) THEN down[p]
                            ELSE Append(down[p], Frame("resign", NoView))], up)
  /\ UNCHANGED <<local, localVars, broken, guestVars>>

-------------------------------------------------------------------------------
(* The computer players. *)

\* aiStep asks whose turn it is nowhere.
Tick ==
  /\ ticks > 0 /\ over = "no"
  /\ \/ /\ game.phase = "roll"
        /\ \E val \in Die : AfterAction(ApplyRoll(game, val), up, waits, ticks - 1)
     \/ /\ game.phase = "select"
        /\ AfterAction(MoveToken(game, ChooseAIMove(game)), up, waits, ticks - 1)
  /\ UNCHANGED <<local, matches, staleTick, broken, guestVars>>

\* A tick that arrives when the match is over is ignored.
TickIgnored ==
  /\ ticks > 0 /\ over # "no"
  /\ ticks' = ticks - 1
  /\ UNCHANGED <<local, game, over, matches, staleTick, waits, up, down, broken, guestVars>>

\* The lobby starts another match; ticks of the last one are still on their
\* way and carry nothing that tells them apart.
Rematch ==
  /\ local /\ over # "no" /\ matches < MaxMatches
  /\ game' = NewGame /\ over' = "no" /\ matches' = matches + 1
  /\ staleTick' = (ticks > 0)
  /\ UNCHANGED <<local, ticks, waits, up, down, broken, guestVars>>

-------------------------------------------------------------------------------
(* The host's end of a guest's connection. *)

Reach(p) == 1..Min({waits[p], Len(up[p])})
Without(p, n) == [up EXCEPT ![p] = RemoveAt(@, n)]

\* A guest that resigned, or after whose last event a wait finds the connection
\* closed or lost.  One guest gone, the match is over for all.
HasLeft(p) ==
  \/ \E n \in Reach(p) : up[p][n].kind = "resign"
  \/ waits[p] > Len(up[p]) /\ (guestOver[p] # "no" \/ p \in broken)

GuestLeft(p) ==
  /\ over = "no" /\ HasLeft(p)
  /\ Abandon("left")
  /\ Close(down, up)
  /\ UNCHANGED <<local, localVars, broken, guestVars>>

Accepted(p, action) ==
  /\ game.turn = p
  /\ \/ action.kind = "roll"
     \/ action.kind = "move" /\ game.phase = "select" /\ action.id \in LegalMoves(game)

\* Mutant: a refused action is the last one the host hears of that guest.
IgnoreActionDeaf(p, n) ==
  /\ over = "no" /\ up[p][n].kind \in {"roll", "move"} /\ ~Accepted(p, up[p][n])
  /\ up' = Without(p, n) /\ waits' = [waits EXCEPT ![p] = @ - 1]
  /\ UNCHANGED <<local, game, over, localVars, down, broken, guestVars>>

\* The wait that took it is replaced.
IgnoreAction(p, n) ==
  /\ over = "no" /\ up[p][n].kind \in {"roll", "move"} /\ ~Accepted(p, up[p][n])
  /\ up' = Without(p, n)
  /\ UNCHANGED <<local, game, over, localVars, waits, down, broken, guestVars>>

Answered(p) == [waits EXCEPT ![p] = @ - 1]

\* A "roll" is accepted in any phase.
ApplyAction(p, n) ==
  /\ over = "no" /\ Accepted(p, up[p][n])
  /\ \/ /\ up[p][n].kind = "roll"
        /\ \E val \in Die : AfterAction(ApplyRoll(game, val), Without(p, n), Answered(p), ticks)
     \/ /\ up[p][n].kind = "move"
        /\ AfterAction(MoveToken(game, up[p][n].id), Without(p, n), Answered(p), ticks)
  /\ UNCHANGED <<local, matches, staleTick, broken, guestVars>>

Deliver(p) ==
  GuestLeft(p) \/ \E n \in Reach(p) : IgnoreAction(p, n) \/ ApplyAction(p, n)

-------------------------------------------------------------------------------
(* The guests. *)

\* What a guest's own copy lets it ask for.  Nothing stops it from asking
\* again before the host's next broadcast.
Allowed(p) ==
  IF view[p] = NoView \/ view[p].turn # p THEN {}
  ELSE IF view[p].phase = "roll" THEN {Action("roll", 0)}
  ELSE {Action("move", id) : id \in LegalMoves(view[p])}

\* Writing to a host that has closed resets the connection; what is written to
\* a network that has failed is lost.
GuestSend(p) ==
  /\ ~Unreached(p) /\ Len(up[p]) < MaxTaps
  /\ \E action \in Allowed(p) :
       IF over = "no" THEN up' = [up EXCEPT ![p] = Append(@, action)] /\ UNCHANGED down
                      ELSE down' = [down EXCEPT ![p] = <<>>] /\ UNCHANGED up
  /\ UNCHANGED <<local, game, over, localVars, waits, broken, guestVars>>

EndGuest(p, how) ==
  guestOver' = [guestOver EXCEPT ![p] = how] /\ view' = [view EXCEPT ![p] = NoView]

GuestQuit(p) ==
  /\ ~local /\ guestOver[p] = "no"
  /\ EndGuest(p, "quit")
  /\ up' = [up EXCEPT ![p] =
       IF over = "no" /\ p \notin broken THEN Append(@, Action("resign", 0)) ELSE @]
  /\ down' = [down EXCEPT ![p] = <<>>]
  /\ UNCHANGED <<local, game, over, localVars, waits, broken>>

\* Each state replaces the guest's copy; the last one ends its match too.
GuestReceive(p) ==
  /\ ~local /\ guestOver[p] = "no" /\ down[p] # <<>>
  /\ down' = [down EXCEPT ![p] = Tail(@)]
  /\ IF Head(down[p]).kind = "resign"
       THEN EndGuest(p, "ended")
       ELSE /\ view' = [view EXCEPT ![p] = Head(down[p]).game]
            /\ guestOver' = [guestOver EXCEPT ![p] =
                 IF Head(down[p]).game.phase = "over" THEN "finished" ELSE "no"]
  /\ UNCHANGED <<local, game, over, localVars, waits, up, broken>>

GuestLost(p) ==
  /\ ~local /\ guestOver[p] = "no" /\ down[p] = <<>> /\ (over # "no" \/ p \in broken)
  /\ EndGuest(p, "lost")
  /\ UNCHANGED <<local, game, over, localVars, waits, up, down, broken>>

\* The network between the host and a guest fails while both play: of what was
\* under way each way, only the first of it arrives.
Break(p) ==
  /\ p \in MayBreak /\ ~Unreached(p) /\ over = "no"
  /\ Cardinality({t \in Seats \X Ids : game.tokens[t[1]][t[2]] = FinishPos}) >= MinHome
  /\ broken' = broken \cup {p}
  /\ \E m \in 0..Len(up[p]), n \in 0..Len(down[p]) :
       /\ up' = [up EXCEPT ![p] = SubSeq(@, 1, m)]
       /\ down' = [down EXCEPT ![p] = SubSeq(@, 1, n)]
  /\ UNCHANGED <<local, game, over, localVars, waits, guestVars>>

-------------------------------------------------------------------------------
Human == HumanRoll \/ HumanMove \/ HumanQuit
Computer == Tick \/ TickIgnored
Guest(p) == GuestSend(p) \/ GuestQuit(p) \/ GuestReceive(p) \/ GuestLost(p)

Next ==
  \/ Human \/ Computer \/ Rematch
  \/ \E p \in Guests : Deliver(p) \/ Guest(p) \/ Break(p)

Spec == Init /\ [][Next]_vars

\* Timers fire; commands that took an event deliver it; a guest's wait reads
\* what arrived.  Nobody has to roll, move, quit or play again.
Fairness ==
  /\ WF_vars(Computer)
  /\ \A p \in Guests :
       /\ WF_vars(Deliver(p))
       /\ WF_vars(GuestReceive(p) \/ GuestLost(p))

FairSpec == Spec /\ Fairness

-------------------------------------------------------------------------------
Endings == {"no", "finished", "quit", "left", "ended", "lost"}
Frames == [kind : {"state", "resign"}, game : Games]

TypeOK ==
  /\ local \in BOOLEAN /\ game \in Games /\ over \in {"no", "finished", "quit", "left"}
  /\ ticks \in Nat /\ matches \in Nat /\ staleTick \in BOOLEAN
  /\ waits \in [Guests -> Nat] /\ up \in [Guests -> Seq(Actions)]
  /\ down \in [Guests -> Seq(Frames)] /\ broken \subseteq Guests
  /\ view \in [Guests -> Games] /\ guestOver \in [Guests -> Endings]

\* Captures keep two colours apart: no unsafe square of the track ever holds
\* tokens of two players, whatever order the actions came in (game.go:capture).
NoSharing ==
  \A p, q \in Seats : \A i, j \in Ids :
    LET a == game.tokens[p][i]
        b == game.tokens[q][j]
    IN p # q /\ OnTrack(a) /\ OnTrack(b) /\ GlobalIndex(p, a) = GlobalIndex(q, b)
       => IsSafeSquare(GlobalIndex(p, a))

\* The computer "captures an opponent if any legal move lands on one": what it
\* looks for is what the rules would do (ai.go:3-5).
AITakes ==
  game.phase = "select" /\ (\E id \in LegalMoves(game) : CaptureMade(game, id))
  => CaptureMade(game, ChooseAIMove(game))

\* The rule for captures, as the board keeps it and as the computer foresees it.
CaptureRule == NoSharing /\ AITakes

\* A match is over exactly when it has a winner, who has every token home.
Won ==
  /\ game.phase = "over" <=> game.winner # NoWinner
  /\ game.phase = "over" <=> over = "finished"
  /\ \A p \in Seats : HasWon(game.tokens, p) <=> p = game.winner

\* The match goes on until it is won: a token is asked for only when one can
\* move; a computer player always has exactly one tick coming, a person none,
\* except in a match begun while a tick of the last one was on its way; and the
\* host never stops listening to a guest, whoever's turn it is and however many
\* of its actions came too late.
SomeoneActs ==
  /\ Won
  /\ over = "no" =>
       /\ game.phase = "select" => LegalMoves(game) # {}
       /\ local /\ ~staleTick => ticks = (IF game.turn = Host THEN 0 ELSE 1)
       /\ ~local => \A p \in Guests : waits[p] >= 1

\* A step moves at most one token forward, the current player's and by what
\* the die says; a token goes back only to its yard, only off an unsafe square
\* of the track, and only because another player's token has landed there.
TokenSteps ==
  \A p \in Seats, i \in Ids :
    LET a == game.tokens[p][i]
        b == game'.tokens[p][i]
    IN b # a =>
         \/ /\ b > a /\ p = game.turn /\ \A j \in Ids \ {i} : game'.tokens[p][j] = game.tokens[p][j]
            /\ b = IF a = Yard THEN 0 ELSE a + game.dice
         \/ /\ b = Yard /\ p # game.turn /\ OnTrack(a) /\ ~IsSafeSquare(GlobalIndex(p, a))
            /\ \E j \in Ids : StandsOn(game.turn, game'.tokens[game.turn][j], GlobalIndex(p, a))

TokensAdvance == [][over' \in {over, "finished"} => TokenSteps]_vars

\* The last of the games on their way to a guest, or else its own copy.
Latest(p) == IF down[p] = <<>> THEN view[p] ELSE Last(down[p]).game

\* "Their screens stay in lockstep": once everything sent has arrived a guest's
\* copy is the host's game, unless the network between them has failed; and a
\* match that ends with a winner ends with the same one at every guest that did
\* not leave or lose its connection.
Lockstep ==
  ~local => \A p \in Guests :
    /\ over = "no" /\ ~Unreached(p) => Latest(p) \in {NoView, Snapshot(game)}
    /\ over = "no" /\ ~Unreached(p) /\ game # NewGame => Latest(p) # NoView
    /\ guestOver[p] = "finished" => over = "finished" /\ view[p] = Snapshot(game)

\* A computer player's turn ends, however the dice fall: the third six in a row
\* forfeits it, and a tick is ordered after every throw and every move.
TurnEnds ==
  \A p \in Guests : (local /\ game.turn = p) ~> (game.turn # p \/ over # "no")

\* Whoever ends the match, or loses the network, it ends for everybody.
EndReachesAll ==
  \A p, q \in Guests : (~local /\ (over # "no" \/ guestOver[q] # "no" \/ q \in broken))
                       ~> (over # "no" /\ guestOver[p] # "no")
================================================================================
