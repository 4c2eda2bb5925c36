--------------------------------- MODULE Match ---------------------------------
(***************************************************************************)
(* One tic-tac-toe challenge and the game that may follow:                 *)
(* internal/network/game.go, internal/games/tictactoe and what the screens *)
(* of the two players do with them.  Player X sends the challenge, O gets  *)
(* it.  They share one TCP connection, a FIFO each way; each player's      *)
(* events are what has arrived on it.                                      *)
(*                                                                         *)
(* A player takes part in this one game only: a second challenge that      *)
(* replaces it on the screen is outside this module.                       *)
(***************************************************************************)
EXTENDS Naturals, Sequences, FiniteSets

CONSTANTS
  Cells, Lines,  \* the board
  MayTimeOut,    \* can gameInviteTimeout pass on either side?
  MayBreak       \* can the network between the two players fail?

ASSUME BoardAssumption == Lines \subseteq SUBSET Cells /\ {} \notin Lines

VARIABLES
  chal,     \* X's SendGameInvite
  handler,  \* O's handleGameInvite
  respond,  \* the handler's one-slot respond channel
  prompt,   \* O's screen: what became of the invitation there
  open,     \* has a player not closed its end of the connection?
  broken,   \* has the network failed?
  wire,     \* what is on its way to a player
  screen,   \* has a player's game been put on its screen?
  board,    \* each player's board
  turn,     \* each player's idea of who is to move
  done,     \* how each player's Model.done was reached: "no" while it was not
  sending,  \* a player's sendMove commands not yet run
  back,     \* has a GameOverMsg brought a player back to the chat?
  played    \* history: the moves made, in order

inviteVars == <<chal, handler, respond, prompt>>
connVars == <<open, broken, wire>>
gameVars == <<screen, board, turn, done, sending, back, played>>
vars == <<inviteVars, connVars, gameVars>>

Rules == INSTANCE TicTacToe
X == Rules!X
O == Rules!O
Players == Rules!Marks
Other(p) == Rules!Other(p)
Empty == Rules!Empty

NoCell == {}
Msg(type, cell) == [type |-> type, cell |-> cell]
Accept == Msg("accept", NoCell)
Deny == Msg("deny", NoCell)
ResignMsg == Msg("resign", NoCell)

Init ==
  /\ chal = "idle" /\ handler = "none" /\ respond = "none" /\ prompt = "none"
  /\ open = [p \in Players |-> FALSE] /\ broken = FALSE
  /\ wire = [p \in Players |-> <<>>]
  /\ screen = [p \in Players |-> FALSE]
  /\ board = [p \in Players |-> Rules!NewBoard]
  /\ turn = [p \in Players |-> X]
  /\ done = [p \in Players |-> "no"]
  /\ sending = [p \in Players |-> {}]
  /\ back = [p \in Players |-> FALSE]
  /\ played = <<>>

-------------------------------------------------------------------------------
(* The connection. *)

\* A write by p: lost if the other end is gone.
Written(p, msg) ==
  IF open[Other(p)] /\ ~broken THEN [wire EXCEPT ![Other(p)] = Append(@, msg)] ELSE wire

\* After closing its end a player reads nothing any more.
Closed(p, sent) ==
  /\ open' = [open EXCEPT ![p] = FALSE]
  /\ wire' = [sent EXCEPT ![p] = <<>>]

\* A read by p fails: nothing more is coming.
AtEnd(p) == wire[p] = <<>> /\ (~open[Other(p)] \/ broken)

\* May a write by p report an error?
WriteFails(p) == broken \/ ~open[p] \/ ~open[Other(p)]

\* The network fails, with what was under way.
Break ==
  /\ MayBreak /\ ~broken /\ chal # "idle"
  /\ broken' = TRUE /\ wire' = [p \in Players |-> <<>>]
  /\ UNCHANGED <<inviteVars, open, gameVars>>

-------------------------------------------------------------------------------
(* The challenge: SendGameInvite at X, handleGameInvite and the prompt at O. *)

Challenge ==
  /\ chal = "idle"
  /\ chal' = "waiting" /\ handler' = "offered" /\ prompt' = "queued"
  /\ open' = [p \in Players |-> TRUE]
  /\ UNCHANGED <<respond, broken, wire, gameVars>>

ShowInvite ==
  /\ prompt = "queued" /\ prompt' = "shown"
  /\ UNCHANGED <<chal, handler, respond, connVars, gameVars>>

\* GameInvite.Accept then waits for the handler's result, Deny for nothing.
PressYes ==
  /\ prompt = "shown" /\ prompt' = "accepting" /\ respond' = "yes"
  /\ UNCHANGED <<chal, handler, connVars, gameVars>>

PressNo ==
  /\ prompt = "shown" /\ prompt' = "denied" /\ respond' = "no"
  /\ UNCHANGED <<chal, handler, connVars, gameVars>>

\* The handler takes the answer; a positive one makes O's session, unless the
\* write fails.
HandlerAccepts ==
  /\ handler = "offered" /\ respond = "yes"
  /\ \/ /\ handler' = "session" /\ wire' = Written(O, Accept) /\ UNCHANGED open
     \/ /\ WriteFails(O)
        /\ handler' = "failed" /\ Closed(O, wire)
  /\ UNCHANGED <<chal, respond, prompt, broken, gameVars>>

HandlerDenies ==
  /\ handler = "offered" /\ respond = "no"
  /\ handler' = "denied" /\ Closed(O, Written(O, Deny))
  /\ UNCHANGED <<chal, respond, prompt, broken, gameVars>>

\* Time runs out, even with an answer just given: the select picks either.
HandlerTimeout ==
  /\ MayTimeOut /\ handler = "offered"
  /\ handler' = "timedout" /\ Closed(O, Written(O, Deny))
  /\ UNCHANGED <<chal, respond, prompt, broken, gameVars>>

\* The challenger reads one line.
Take(p) == wire' = [wire EXCEPT ![p] = Tail(@)]

ReadAnswer ==
  /\ chal = "waiting" /\ wire[X] # <<>>
  /\ \/ /\ Head(wire[X]) = Accept
        /\ chal' = "session" /\ Take(X) /\ screen' = [screen EXCEPT ![X] = TRUE]
        /\ UNCHANGED open
     \/ /\ Head(wire[X]) # Accept
        /\ chal' = "denied" /\ Closed(X, wire) /\ UNCHANGED screen
  /\ UNCHANGED <<handler, respond, prompt, broken, board, turn, done, sending, back, played>>

ChallengeFails ==
  /\ chal = "waiting" /\ (MayTimeOut \/ AtEnd(X))
  /\ chal' = "failed" /\ Closed(X, wire)
  /\ UNCHANGED <<handler, respond, prompt, broken, gameVars>>

\* What Accept returned reaches O's router.
StartAtO ==
  /\ prompt = "accepting" /\ handler \in {"session", "failed"}
  /\ IF handler = "session"
       THEN prompt' = "playing" /\ screen' = [screen EXCEPT ![O] = TRUE]
       ELSE prompt' = "failed" /\ UNCHANGED screen
  /\ UNCHANGED <<chal, handler, respond, connVars, board, turn, done, sending, back, played>>

-------------------------------------------------------------------------------
(* The game at player p. *)

Playing(p) == screen[p] /\ done[p] = "no"
End(p, how) == done' = [done EXCEPT ![p] = how]
Mark(p, cell, mark) == [board EXCEPT ![p][cell] = mark]
Record(p, cell) == played' = Append(played, [mark |-> p, cell |-> cell])

\* Mutant: whose turn it is is not looked at.
AttemptMoveAnyTurn(p, cell) ==
  /\ Playing(p) /\ board[p][cell] = Empty
  /\ board' = Mark(p, cell, p) /\ Record(p, cell)
  /\ turn' = [turn EXCEPT ![p] = Other(p)]
  /\ sending' = [sending EXCEPT ![p] = @ \cup {cell}]
  /\ UNCHANGED <<inviteVars, connVars, screen, done, back>>

\* Mutant: a winning move is sent like any other and the session closed.
AttemptMoveClosing(p, cell) ==
  /\ Playing(p) /\ turn[p] = p /\ board[p][cell] = Empty
  /\ board' = Mark(p, cell, p) /\ Record(p, cell)
  /\ turn' = [turn EXCEPT ![p] = Other(p)]
  /\ sending' = [sending EXCEPT ![p] = @ \cup {cell}]
  /\ IF Rules!Wins(board'[p], p) THEN End(p, "win") /\ Closed(p, wire)
     ELSE IF Rules!Full(board'[p]) THEN End(p, "draw") /\ Closed(p, wire)
     ELSE UNCHANGED <<done, open, wire>>
  /\ UNCHANGED <<inviteVars, broken, screen, back>>

\* The move that ends the game is sent before the session is closed; any other
\* by a command that runs later.
AttemptMove(p, cell) ==
  /\ Playing(p) /\ turn[p] = p /\ board[p][cell] = Empty
  /\ board' = Mark(p, cell, p) /\ Record(p, cell)
  /\ IF Rules!Decided(board'[p])
       THEN /\ End(p, IF Rules!Wins(board'[p], p) THEN "win" ELSE "draw")
            /\ Closed(p, Written(p, Msg("move", {cell})))
            /\ UNCHANGED <<turn, sending>>
       ELSE /\ turn' = [turn EXCEPT ![p] = Other(p)]
            /\ sending' = [sending EXCEPT ![p] = @ \cup {cell}]
            /\ UNCHANGED <<done, open, wire>>
  /\ UNCHANGED <<inviteVars, broken, screen, back>>

\* sendMove runs.  An error ends the game without a GameOverMsg: the events that
\* still come are ignored, and so is every key.
SendMove(p, cell) ==
  /\ cell \in sending[p]
  /\ sending' = [sending EXCEPT ![p] = @ \ {cell}]
  /\ \/ /\ open[p] /\ wire' = Written(p, Msg("move", {cell})) /\ UNCHANGED done
     \/ /\ WriteFails(p) /\ UNCHANGED wire
        /\ IF Playing(p) THEN End(p, "unsent") ELSE UNCHANGED done
  /\ UNCHANGED <<inviteVars, open, broken, screen, board, turn, back, played>>

Resign(p) ==
  /\ Playing(p)
  /\ End(p, "resigned") /\ Closed(p, Written(p, ResignMsg))
  /\ UNCHANGED <<inviteVars, broken, screen, board, turn, sending, back, played>>

\* A cell that is taken is left as it is; the turn changes all the same.
Opponents(p, cells) ==
  [board EXCEPT ![p] = [c \in Cells |->
     IF c \in cells /\ board[p][c] = Empty THEN Other(p) ELSE board[p][c]]]

ReceiveMove(p) ==
  /\ Playing(p) /\ wire[p] # <<>> /\ Head(wire[p]).type = "move"
  /\ board' = Opponents(p, Head(wire[p]).cell)
  /\ IF Rules!Decided(board'[p])
       THEN /\ End(p, IF Rules!Wins(board'[p], p) THEN "win"
                      ELSE IF Rules!Wins(board'[p], Other(p)) THEN "lose" ELSE "draw")
            /\ Closed(p, wire) /\ UNCHANGED turn
       ELSE turn' = [turn EXCEPT ![p] = p] /\ Take(p) /\ UNCHANGED <<done, open>>
  /\ UNCHANGED <<inviteVars, broken, screen, sending, back, played>>

ReceiveResign(p) ==
  /\ Playing(p) /\ wire[p] # <<>> /\ Head(wire[p]).type = "resign"
  /\ End(p, "win by resignation") /\ Closed(p, wire)
  /\ UNCHANGED <<inviteVars, broken, screen, board, turn, sending, back, played>>

\* The session is not closed on this path.
LoseOpponent(p) ==
  /\ Playing(p) /\ AtEnd(p)
  /\ End(p, "lost")
  /\ UNCHANGED <<inviteVars, connVars, screen, board, turn, sending, back, played>>

\* Mutant: a lost connection ends the game without a GameOverMsg.
GameOverUnlessLost(p) ==
  /\ done[p] \notin {"no", "unsent", "lost"} /\ ~back[p]
  /\ back' = [back EXCEPT ![p] = TRUE]
  /\ UNCHANGED <<inviteVars, connVars, screen, board, turn, done, sending, played>>

\* The GameOverMsg that every end but an unsent move comes with: the router
\* shows the chat again.  Nothing else leaves the game's screen once done is set.
GameOver(p) ==
  /\ done[p] \notin {"no", "unsent"} /\ ~back[p]
  /\ back' = [back EXCEPT ![p] = TRUE]
  /\ UNCHANGED <<inviteVars, connVars, screen, board, turn, done, sending, played>>

-------------------------------------------------------------------------------
Invitation ==
  ShowInvite \/ HandlerAccepts \/ HandlerDenies \/ ReadAnswer \/ ChallengeFails \/ StartAtO

Events(p) ==
  \/ \E cell \in Cells : SendMove(p, cell)
  \/ ReceiveMove(p) \/ ReceiveResign(p) \/ LoseOpponent(p)

Play ==
  \/ Challenge \/ Break \/ HandlerTimeout \/ PressYes \/ PressNo \/ Invitation
  \/ \E p \in Players : Events(p) \/ Resign(p) \/ \E cell \in Cells : AttemptMove(p, cell)

Next == Play \/ \E p \in Players : GameOver(p)

Spec == Init /\ [][Next]_vars

\* Commands run, what arrives is read and shown, time passes.  Nobody has to
\* challenge, answer, move or resign.
Fairness ==
  /\ WF_vars(Invitation) /\ WF_vars(HandlerTimeout)
  /\ \A p \in Players : WF_vars(Events(p)) /\ WF_vars(GameOver(p))

FairSpec == Spec /\ Fairness

-------------------------------------------------------------------------------
Results == {"no", "win", "lose", "draw", "win by resignation", "resigned", "lost", "unsent"}

\* p's opponent has made a move that p has not seen.
Unseen(p) ==
  /\ played # <<>> /\ played[Len(played)].mark = Other(p)
  /\ board[p][played[Len(played)].cell] = Empty

\* Both boards are the one game's board, except for the last move until it
\* arrives; who has yet to see it does not think it is their turn.
BoardsAgree ==
  \A p \in Players :
    /\ board[p] = Rules!BoardOf(IF Unseen(p) THEN SubSeq(played, 1, Len(played) - 1) ELSE played)
    /\ done[p] = "no" => (turn[p] = p <=> ~Unseen(p) /\ (played = <<>> => p = X)
                                          /\ (played # <<>> => played[Len(played)].mark # p))

\* Two results that the players of one game may be told.  A player may resign
\* or fail to send while the other's last move is on its way.
Compatible(a, b) ==
  \/ "no" \in {a, b} \/ "lost" \in {a, b} \/ "unsent" \in {a, b}
  \/ a = "draw" /\ b = "draw"
  \/ "resigned" \in {a, b} /\ {a, b} \cap {"lose"} = {}
  \/ {a, b} = {"win", "lose"}

\* Nobody is told of a victory that the other is told of too, or of a draw
\* where the other won; while the network works a finished game is not
\* reported lost, and a game on one screen only was refused or timed out.
SameOutcome ==
  /\ Compatible(done[X], done[O])
  /\ ~broken => \A p \in Players :
       done[p] \in {"win", "lose", "draw"} /\ screen[Other(p)] => done[Other(p)] # "lost"
  /\ screen[X] => handler = "session"
  /\ \A p \in Players : done[p] = "win" <=> done[p] # "no" /\ Rules!Wins(board[p], p)

\* "They play one game of tic-tac-toe": what the two make of their two boards is
\* the abstract game, move by move.
Game == INSTANCE TicTacToe WITH played <- played
PlaysTicTacToe == Game!Spec

\* Whoever ends the game ends it for both, and both are brought back to the chat;
\* a game that starts for O after X has given up ends too.  One player is not
\* brought back: whose move could not be sent before the game was over stays on
\* the game's screen for ever.  The challenge is settled at both sides, unless O
\* answered after the handler had given up: then Accept waits for ever.
Concluded ==
  /\ \A p \in Players :
       (screen[p] /\ (\/ \E q \in Players : done[q] # "no"
                     \/ broken \/ chal = "failed")) ~> back[p] \/ done[p] = "unsent"
  /\ chal = "waiting" ~> chal \in {"session", "denied", "failed"}
  /\ prompt = "accepting" ~> (prompt \in {"playing", "failed"} \/ handler = "timedout")
================================================================================
