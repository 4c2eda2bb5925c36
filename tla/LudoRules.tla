------------------------------- MODULE LudoRules -------------------------------
(***************************************************************************)
(* The rules of ludo: internal/games/ludo/board.go, game.go and ai.go, as  *)
(* operators on a game record.  A token is its relative position: Yard, a  *)
(* square of the shared track, of its colour's home stretch, or FinishPos. *)
(***************************************************************************)
EXTENDS Integers, FiniteSets

CONSTANTS
  NumSeats,            \* players at the board, seat 0 first to move
  TokensPerPlayer,     \* 4 in the code
  TrackSquares,        \* 52
  HomeStretchSquares,  \* 5
  YardExitRoll,        \* 6, which is also the largest roll
  StartOffset,         \* each colour's entry square: 0, 13, 26, 39
  StarOffset           \* the extra safe square behind each start: 8

Seats == 0..(NumSeats - 1)
Ids == 0..(TokensPerPlayer - 1)
Die == 1..YardExitRoll
Colors == DOMAIN StartOffset

ASSUME RulesAssumption ==
  /\ NumSeats \in Nat \ {0} /\ TokensPerPlayer \in Nat \ {0}
  /\ TrackSquares \in Nat \ {0, 1} /\ HomeStretchSquares \in Nat \ {0}
  /\ YardExitRoll \in Nat \ {0}
  /\ Seats \subseteq Colors
  /\ StartOffset \in [Colors -> 0..(TrackSquares - 1)]
  /\ StarOffset \in Nat

SharedSquares == TrackSquares - 1
FinishPos == SharedSquares + HomeStretchSquares
Yard == -1
Positions == Yard..FinishPos

OnTrack(pos) == pos \in 0..(SharedSquares - 1)
GlobalIndex(c, pos) == (StartOffset[c] + pos) % TrackSquares
IsSafeSquare(square) ==
  \E c \in Colors : square \in {StartOffset[c], (StartOffset[c] + StarOffset) % TrackSquares}

NoWinner == -1
Phases == {"roll", "select", "over"}
Games == [tokens : [Seats -> [Ids -> Positions]], turn : Seats, dice : 0..YardExitRoll,
          phase : Phases, winner : Seats \cup {NoWinner}, sixes : 0..2]

NewGame ==
  [tokens |-> [p \in Seats |-> [i \in Ids |-> Yard]], turn |-> 0, dice |-> 0,
   phase |-> "roll", winner |-> NoWinner, sixes |-> 0]

-------------------------------------------------------------------------------
\* Mutant: the last square need not be reached exactly.
CanMoveOver(g, id) ==
  LET pos == g.tokens[g.turn][id]
  IN IF pos = Yard THEN g.dice = YardExitRoll ELSE pos # FinishPos

CanMove(g, id) ==
  LET pos == g.tokens[g.turn][id]
  IN IF pos = Yard THEN g.dice = YardExitRoll
                   ELSE pos # FinishPos /\ pos + g.dice <= FinishPos

LegalMoves(g) == {id \in Ids : CanMove(g, id)}

EndTurn(g, extraRoll) ==
  IF extraRoll
    THEN [g EXCEPT !.phase = "roll"]
    ELSE [g EXCEPT !.phase = "roll", !.sixes = 0, !.turn = (g.turn + 1) % NumSeats]

Thrown(g, val) ==
  [g EXCEPT !.dice = val, !.sixes = IF val = YardExitRoll THEN g.sixes + 1 ELSE 0]

\* The phase is not looked at but for "over": a throw while a token is to be
\* selected replaces the one before it.
ApplyRoll(g, val) ==
  LET thrown == Thrown(g, val)
  IN IF g.phase = "over" THEN g
     ELSE IF thrown.sixes = 3 THEN EndTurn(thrown, FALSE)
     ELSE IF LegalMoves(thrown) = {} THEN EndTurn(thrown, val = YardExitRoll)
     ELSE [thrown EXCEPT !.phase = "select"]

-------------------------------------------------------------------------------
\* The token of seat q at pos stands on global square `square`.
StandsOn(q, pos, square) == OnTrack(pos) /\ GlobalIndex(q, pos) = square

Landing(g, id) ==
  LET pos == g.tokens[g.turn][id] IN IF pos = Yard THEN 0 ELSE pos + g.dice

\* Mutant: safe squares protect nobody.
CapturesAnywhere(g, landing, q, i) ==
  /\ q # g.turn /\ OnTrack(landing)
  /\ StandsOn(q, g.tokens[q][i], GlobalIndex(g.turn, landing))

\* Does the mover, landing there, send token i of seat q back to its yard?
Captures(g, landing, q, i) ==
  /\ q # g.turn /\ OnTrack(landing)
  /\ ~IsSafeSquare(GlobalIndex(g.turn, landing))
  /\ StandsOn(q, g.tokens[q][i], GlobalIndex(g.turn, landing))

CaptureMade(g, id) == \E q \in Seats, i \in Ids : Captures(g, Landing(g, id), q, i)

Moved(g, id) ==
  [q \in Seats |-> [i \in Ids |->
     IF q = g.turn /\ i = id THEN Landing(g, id)
     ELSE IF Captures(g, Landing(g, id), q, i) THEN Yard
     ELSE g.tokens[q][i]]]

HasWon(tokens, p) == \A i \in Ids : tokens[p][i] = FinishPos

\* Called with a legal id in phase "select"; the refusals are the callers'.
MoveToken(g, id) ==
  LET moved == [g EXCEPT !.tokens = Moved(g, id)]
  IN IF HasWon(moved.tokens, g.turn)
       THEN [moved EXCEPT !.winner = g.turn, !.phase = "over"]
       ELSE EndTurn(moved, g.dice = YardExitRoll)

-------------------------------------------------------------------------------
\* Mutant: the square looked at is where the token stands, not where it lands.
WouldCaptureAtStart(g, id) ==
  \E q \in Seats \ {g.turn}, i \in Ids :
    StandsOn(q, g.tokens[q][i], GlobalIndex(g.turn, g.tokens[g.turn][id]))

\* wouldCaptureAt, for a token that is out of the yard.
WouldCaptureAt(g, id) ==
  LET pos == g.tokens[g.turn][id] + g.dice
      square == GlobalIndex(g.turn, pos)
  IN /\ pos < SharedSquares /\ ~IsSafeSquare(square)
     /\ \E q \in Seats \ {g.turn}, i \in Ids : StandsOn(q, g.tokens[q][i], square)

\* The first of a set of ids that the loops of ChooseAIMove meet.
First(ids) == CHOOSE i \in ids : \A j \in ids : i <= j

\* ChooseAIMove: a capture, else a token out of the yard, else the furthest.
ChooseAIMove(g) ==
  LET legal == LegalMoves(g)
      mine == g.tokens[g.turn]
      inYard == {i \in legal : mine[i] = Yard}
      capturing == {i \in legal \ inYard : WouldCaptureAt(g, i)}
      furthest == {i \in legal : \A j \in legal : mine[j] <= mine[i]}
  IN IF capturing # {} THEN First(capturing)
     ELSE IF inYard # {} THEN First(inYard)
     ELSE First(furthest)
================================================================================
