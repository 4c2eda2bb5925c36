------------------------------- MODULE LudoProofs -------------------------------
(* Proofs about ludo on any board: a game stays sound, and a match, local or  *)
(* networked, waits for somebody until it is over.                            *)
EXTENDS LudoMatch, SequenceTheorems, WellFoundedInduction, TLAPS

(* Seats, ids and least elements. *)

LEMMA NextSeat == \A p \in Seats : (p + 1) % NumSeats \in Seats
  BY RulesAssumption DEF Seats

LEMMA Least ==
  ASSUME NEW T \in SUBSET Nat, T # {}
  PROVE  \E x \in T : \A y \in T : x <= y
<1> DEFINE R == OpToRel(<, Nat)
<1>1. IsWellFoundedOn(R, Nat)
  BY NatLessThanWellFounded, Zenon
<1>2. \A x, y \in Nat : <<y, x>> \in R <=> y < x
  BY DEF OpToRel
<1> HIDE DEF R
<1>3. \E x \in T : \A y \in T : ~(<<y, x>> \in R)
  BY <1>1, WFMin, Zenon
<1>4. PICK x \in T : \A y \in T : ~(<<y, x>> \in R)
  BY <1>3, Zenon
<1>5. \A y \in T : ~(y < x)
  BY <1>2, <1>4
<1>6. QED BY <1>5

LEMMA FirstOf ==
  ASSUME NEW T \in SUBSET Ids, T # {}
  PROVE  First(T) \in T
<1>1. T \subseteq Nat
  BY RulesAssumption DEF Ids
<1>2. QED BY <1>1, Least DEF First

-------------------------------------------------------------------------------
(* A sound game. *)

Apart(tokens) ==
  \A p, q \in Seats : \A i, j \in Ids :
    p # q /\ OnTrack(tokens[p][i]) /\ OnTrack(tokens[q][j])
      /\ GlobalIndex(p, tokens[p][i]) = GlobalIndex(q, tokens[q][j])
    => IsSafeSquare(GlobalIndex(p, tokens[p][i]))

Sound(g) ==
  /\ g \in Games
  /\ g.phase = "select" => g.dice \in Die /\ LegalMoves(g) # {}
  /\ g.phase = "over" <=> g.winner # NoWinner
  /\ \A p \in Seats : HasWon(g.tokens, p) <=> p = g.winner
  /\ Apart(g.tokens)

LEMMA Numbers ==
  /\ FinishPos \in Nat \ {0} /\ SharedSquares \in Nat /\ SharedSquares <= FinishPos
  /\ Yard \in Positions /\ 0 \in Positions /\ FinishPos \in Positions
  /\ ~OnTrack(Yard) /\ Yard # FinishPos
  /\ 0 \in Ids /\ Host \in Seats /\ NoWinner \notin Seats /\ 0 \in 0..YardExitRoll
  BY RulesAssumption DEF FinishPos, SharedSquares, Yard, Positions, OnTrack, Ids, Host, Seats, NoWinner

LEMMA NewGameSound == Sound(NewGame) /\ NewGame.turn = Host
<1>1. NewGame \in Games
  BY Numbers DEF NewGame, Games, Phases, Host
<1>2. \A p \in Seats : ~HasWon(NewGame.tokens, p)
  BY Numbers DEF NewGame, HasWon
<1>3. Apart(NewGame.tokens)
  BY Numbers DEF NewGame, Apart
<1>4. QED BY <1>1, <1>2, <1>3, Numbers DEF Sound, NewGame, Host

LEMMA EndTurnFields ==
  ASSUME NEW g \in Games, NEW extra \in BOOLEAN
  PROVE  /\ EndTurn(g, extra) \in Games
         /\ EndTurn(g, extra).tokens = g.tokens /\ EndTurn(g, extra).winner = g.winner
         /\ EndTurn(g, extra).phase = "roll"
<1> DEFINE next == (g.turn + 1) % NumSeats
<1>1. next \in Seats
  BY NextSeat DEF Games
<1>2. CASE extra
  BY <1>2 DEF EndTurn, Games, Phases
<1>3. CASE ~extra
  <2>1. EndTurn(g, extra) =
          [tokens |-> g.tokens, turn |-> next, dice |-> g.dice, phase |-> "roll",
           winner |-> g.winner, sixes |-> 0]
    BY <1>3 DEF EndTurn, Games
  <2> HIDE DEF next
  <2>2. QED BY <1>1, <2>1, 0 \in 0..2 DEF Games, Phases
<1>4. QED BY <1>2, <1>3

\* A third six leaves the counter out of a game's range, until the turn ends.
Throws == [tokens : [Seats -> [Ids -> Positions]], turn : Seats, dice : 0..YardExitRoll,
           phase : Phases, winner : Seats \cup {NoWinner}, sixes : 0..3]

LEMMA ForfeitFields ==
  ASSUME NEW g \in Throws
  PROVE  /\ EndTurn(g, FALSE) \in Games
         /\ EndTurn(g, FALSE).tokens = g.tokens /\ EndTurn(g, FALSE).winner = g.winner
         /\ EndTurn(g, FALSE).phase = "roll"
<1> DEFINE next == (g.turn + 1) % NumSeats
           ended == EndTurn(g, FALSE)
<1>1. next \in Seats
  BY NextSeat DEF Throws
<1>2. ended = [tokens |-> g.tokens, turn |-> next, dice |-> g.dice, phase |-> "roll",
               winner |-> g.winner, sixes |-> 0]
  BY DEF EndTurn, Throws
<1> HIDE DEF next, ended
<1>3. /\ ended \in Games /\ ended.tokens = g.tokens /\ ended.winner = g.winner
      /\ ended.phase = "roll"
  BY <1>1, <1>2, 0 \in 0..2 DEF Games, Throws, Phases
<1>4. QED BY <1>3 DEF ended

\* A throw moves no token and leaves the game sound.
LEMMA RollSound ==
  ASSUME NEW g, Sound(g), g.phase # "over", NEW val \in Die
  PROVE  /\ Sound(ApplyRoll(g, val)) /\ ApplyRoll(g, val).phase # "over"
         /\ ApplyRoll(g, val).tokens = g.tokens
<1> DEFINE thrown == Thrown(g, val)
           rolled == ApplyRoll(g, val)
<1>1. /\ g \in Games /\ val \in 0..YardExitRoll /\ g.winner = NoWinner
  BY RulesAssumption DEF Sound, Die
<1>2. /\ thrown \in Throws
      /\ thrown.tokens = g.tokens /\ thrown.winner = NoWinner /\ thrown.dice = val
      /\ thrown.phase = g.phase
  <2> DEFINE count == IF val = YardExitRoll THEN g.sixes + 1 ELSE 0
  <2>1. thrown = [g EXCEPT !.dice = val, !.sixes = count] /\ count \in 0..3
    BY <1>1 DEF Thrown, Games
  <2> HIDE DEF thrown, count
  <2>2. QED BY <1>1, <2>1 DEF Games, Throws
<1>3. thrown.sixes # 3 => thrown \in Games
  BY <1>2 DEF Games, Throws
<1> HIDE DEF thrown
<1>4. rolled = IF thrown.sixes = 3 THEN EndTurn(thrown, FALSE)
               ELSE IF LegalMoves(thrown) = {} THEN EndTurn(thrown, val = YardExitRoll)
               ELSE [thrown EXCEPT !.phase = "select"]
  BY DEF ApplyRoll, thrown
<1> HIDE DEF rolled
<1>5. /\ rolled \in Games /\ rolled.tokens = g.tokens /\ rolled.winner = NoWinner
      /\ rolled.phase # "over"
      /\ rolled.phase = "select" => rolled.dice \in Die /\ LegalMoves(rolled) # {}
  <2>1. CASE thrown.sixes = 3
    BY <2>1, <1>2, <1>4, ForfeitFields
  <2>2. CASE thrown.sixes # 3 /\ LegalMoves(thrown) = {}
    BY <2>2, <1>2, <1>3, <1>4, EndTurnFields
  <2>3. CASE thrown.sixes # 3 /\ LegalMoves(thrown) # {}
    <3>1. rolled = [thrown EXCEPT !.phase = "select"]
      BY <2>3, <1>4
    <3>2. /\ rolled \in Games /\ rolled.tokens = g.tokens /\ rolled.winner = NoWinner
          /\ rolled.phase = "select" /\ rolled.dice = val /\ rolled.turn = thrown.turn
          /\ rolled.tokens = thrown.tokens /\ rolled.dice = thrown.dice
      BY <2>3, <3>1, <1>2, <1>3 DEF Games, Phases
    <3>3. LegalMoves(rolled) = LegalMoves(thrown)
      BY <3>2 DEF LegalMoves, CanMove
    <3>4. QED BY <2>3, <3>2, <3>3
  <2>4. QED BY <2>1, <2>2, <2>3
<1>6. QED BY <1>1, <1>5 DEF Sound, rolled

-------------------------------------------------------------------------------
(* A move. *)

LEMMA Landed ==
  ASSUME NEW g, Sound(g), g.phase = "select", NEW id \in LegalMoves(g)
  PROVE  /\ id \in Ids /\ Landing(g, id) \in Positions
         /\ Landing(g, id) > g.tokens[g.turn][id]
<1>1. /\ g.tokens \in [Seats -> [Ids -> Positions]] /\ g.turn \in Seats
      /\ g.dice \in Die /\ id \in Ids /\ CanMove(g, id)
  BY DEF Sound, Games, LegalMoves
<1>2. g.tokens[g.turn][id] \in Positions
  BY <1>1
<1>3. QED BY <1>1, <1>2, Numbers, RulesAssumption DEF CanMove, Landing, Positions, Yard, Die

\* What a move does to each token.
LEMMA MovedTokens ==
  ASSUME NEW g, Sound(g), g.phase = "select", NEW id \in LegalMoves(g)
  PROVE  /\ Moved(g, id) \in [Seats -> [Ids -> Positions]]
         /\ Moved(g, id)[g.turn][id] = Landing(g, id)
         /\ \A i \in Ids \ {id} : Moved(g, id)[g.turn][i] = g.tokens[g.turn][i]
         /\ \A q \in Seats \ {g.turn}, i \in Ids :
              Moved(g, id)[q][i] =
                IF Captures(g, Landing(g, id), q, i) THEN Yard ELSE g.tokens[q][i]
<1>1. g.tokens \in [Seats -> [Ids -> Positions]] /\ g.turn \in Seats
  BY DEF Sound, Games
<1>2. Landing(g, id) \in Positions /\ Yard \in Positions /\ id \in Ids
  BY Landed, Numbers
<1>3. \A i \in Ids : ~Captures(g, Landing(g, id), g.turn, i)
  BY DEF Captures
<1>4. QED BY <1>1, <1>2, <1>3 DEF Moved

\* Nobody is left standing beside the token that moved, unless it is safe there.
LEMMA MovedApart ==
  ASSUME NEW g, Sound(g), g.phase = "select", NEW id \in LegalMoves(g)
  PROVE  Apart(Moved(g, id))
<1> DEFINE after == Moved(g, id)
           land == Landing(g, id)
<1>1. /\ Apart(g.tokens) /\ g.turn \in Seats /\ id \in Ids
      /\ after[g.turn][id] = land
      /\ \A i \in Ids \ {id} : after[g.turn][i] = g.tokens[g.turn][i]
      /\ \A q \in Seats \ {g.turn}, i \in Ids :
           after[q][i] = IF Captures(g, land, q, i) THEN Yard ELSE g.tokens[q][i]
  BY MovedTokens, Landed DEF Sound, Games
<1> HIDE DEF after, land
\* A token that stayed and is on the track stands where it stood.
<1>2. \A q \in Seats, i \in Ids :
        OnTrack(after[q][i]) /\ ~(q = g.turn /\ i = id) => after[q][i] = g.tokens[q][i]
  BY <1>1, Numbers
<1>3. ASSUME NEW q \in Seats \ {g.turn}, NEW i \in Ids, OnTrack(land), OnTrack(after[q][i]),
             GlobalIndex(q, after[q][i]) = GlobalIndex(g.turn, land)
      PROVE  IsSafeSquare(GlobalIndex(g.turn, land))
  <2>1. after[q][i] = g.tokens[q][i] /\ after[q][i] # Yard
    BY <1>2, <1>3, Numbers
  <2>2. ~Captures(g, land, q, i)
    BY <2>1, <1>1
  <2>3. QED BY <1>3, <2>1, <2>2 DEF Captures, StandsOn
<1>4. SUFFICES ASSUME NEW p \in Seats, NEW q \in Seats, NEW i \in Ids, NEW j \in Ids,
                      p # q, OnTrack(after[p][i]), OnTrack(after[q][j]),
                      GlobalIndex(p, after[p][i]) = GlobalIndex(q, after[q][j])
               PROVE  IsSafeSquare(GlobalIndex(p, after[p][i]))
  BY DEF Apart, after
<1>5. CASE p = g.turn /\ i = id
  BY <1>1, <1>3, <1>4, <1>5
<1>6. CASE q = g.turn /\ j = id
  BY <1>1, <1>3, <1>4, <1>6
<1>7. CASE ~(p = g.turn /\ i = id) /\ ~(q = g.turn /\ j = id)
  <2>1. after[p][i] = g.tokens[p][i] /\ after[q][j] = g.tokens[q][j]
    BY <1>2, <1>4, <1>7
  <2>2. QED BY <2>1, <1>1, <1>4 DEF Apart
<1>8. QED BY <1>5, <1>6, <1>7

LEMMA MoveSound ==
  ASSUME NEW g, Sound(g), g.phase = "select", NEW id \in LegalMoves(g)
  PROVE  Sound(MoveToken(g, id)) /\ MoveToken(g, id).tokens = Moved(g, id)
<1> DEFINE after == Moved(g, id)
           moved == [g EXCEPT !.tokens = after]
           extra == (g.dice = YardExitRoll)
<1>1. /\ g \in Games /\ g.winner = NoWinner /\ g.turn \in Seats
      /\ \A p \in Seats : ~HasWon(g.tokens, p)
  BY Numbers DEF Sound, Games
<1>2. after \in [Seats -> [Ids -> Positions]] /\ Apart(after)
  BY MovedTokens, MovedApart
<1>3. /\ moved \in Games /\ moved.tokens = after /\ moved.winner = NoWinner
  BY <1>1, <1>2 DEF Games
\* The others have not won by it.
<1>4. \A p \in Seats \ {g.turn} : ~HasWon(after, p)
  <2>1. TAKE p \in Seats \ {g.turn}
  <2>2. PICK i \in Ids : g.tokens[p][i] # FinishPos
    BY <1>1 DEF HasWon
  <2>3. after[p][i] # FinishPos
    BY <2>2, MovedTokens, Numbers
  <2>4. QED BY <2>3 DEF HasWon
<1>5. MoveToken(g, id) = IF HasWon(after, g.turn)
                           THEN [moved EXCEPT !.winner = g.turn, !.phase = "over"]
                           ELSE EndTurn(moved, extra)
  BY <1>3 DEF MoveToken
<1> HIDE DEF after, moved, extra
<1>6. CASE HasWon(after, g.turn)
  <2>1. MoveToken(g, id) = [moved EXCEPT !.winner = g.turn, !.phase = "over"]
    BY <1>5, <1>6
  <2>2. /\ MoveToken(g, id) \in Games /\ MoveToken(g, id).tokens = after
        /\ MoveToken(g, id).winner = g.turn /\ MoveToken(g, id).phase = "over"
    BY <2>1, <1>1, <1>3 DEF Games, Phases
  <2>3. Sound(MoveToken(g, id))
    BY <2>2, <1>1, <1>2, <1>4, <1>6, Numbers DEF Sound
  <2>4. QED BY <2>2, <2>3 DEF after
<1>7. CASE ~HasWon(after, g.turn)
  <2>1. MoveToken(g, id) = EndTurn(moved, extra) /\ extra \in BOOLEAN
    BY <1>5, <1>7 DEF extra
  <2>2. /\ MoveToken(g, id) \in Games /\ MoveToken(g, id).tokens = after
        /\ MoveToken(g, id).winner = NoWinner /\ MoveToken(g, id).phase = "roll"
    BY <2>1, <1>3, EndTurnFields
  <2>3. Sound(MoveToken(g, id))
    BY <2>2, <1>2, <1>4, <1>7, Numbers DEF Sound
  <2>4. QED BY <2>2, <2>3 DEF after
<1>8. QED BY <1>6, <1>7

\* A move takes its token forward, and others only back to their yard, from
\* where it landed.
LEMMA MoveSteps ==
  ASSUME Sound(game), game.phase = "select", NEW id \in LegalMoves(game),
         game'.tokens = Moved(game, id)
  PROVE  TokenSteps
<1> DEFINE land == Landing(game, id)
           after == game'.tokens
<1>1. /\ game.turn \in Seats /\ id \in Ids /\ land \in Positions
      /\ land > game.tokens[game.turn][id]
      /\ land = IF game.tokens[game.turn][id] = Yard THEN 0
                ELSE game.tokens[game.turn][id] + game.dice
  BY Landed DEF Sound, Games, Landing
<1>2. /\ after[game.turn][id] = land
      /\ \A i \in Ids \ {id} : after[game.turn][i] = game.tokens[game.turn][i]
      /\ \A q \in Seats \ {game.turn}, i \in Ids :
           after[q][i] = IF Captures(game, land, q, i) THEN Yard ELSE game.tokens[q][i]
  BY MovedTokens
<1> HIDE DEF land, after
<1>3. ASSUME NEW p \in Seats, NEW i \in Ids, after[p][i] # game.tokens[p][i]
      PROVE
         \/ /\ after[p][i] > game.tokens[p][i] /\ p = game.turn
            /\ \A j \in Ids \ {i} : after[p][j] = game.tokens[p][j]
            /\ after[p][i] = IF game.tokens[p][i] = Yard THEN 0 ELSE game.tokens[p][i] + game.dice
         \/ /\ after[p][i] = Yard /\ p # game.turn /\ OnTrack(game.tokens[p][i])
            /\ ~IsSafeSquare(GlobalIndex(p, game.tokens[p][i]))
            /\ \E j \in Ids : StandsOn(game.turn, after[game.turn][j],
                                       GlobalIndex(p, game.tokens[p][i]))
  <2>1. CASE p = game.turn
    BY <1>1, <1>2, <1>3, <2>1
  <2>2. CASE p # game.turn
    <3>1. Captures(game, land, p, i) /\ after[p][i] = Yard
      BY <1>2, <1>3, <2>2
    <3>2. /\ OnTrack(land) /\ ~IsSafeSquare(GlobalIndex(game.turn, land))
          /\ OnTrack(game.tokens[p][i])
          /\ GlobalIndex(p, game.tokens[p][i]) = GlobalIndex(game.turn, land)
      BY <3>1 DEF Captures, StandsOn
    <3>3. StandsOn(game.turn, after[game.turn][id], GlobalIndex(p, game.tokens[p][i]))
      BY <3>2, <1>2 DEF StandsOn
    <3>4. QED BY <2>2, <3>1, <3>2, <3>3, <1>1
  <2>3. QED BY <2>1, <2>2
<1>4. QED BY <1>3 DEF TokenSteps, after

-------------------------------------------------------------------------------
(* The computer player. *)

\* One of a set of tokens is the furthest.
LEMMA Furthest ==
  ASSUME NEW mine \in [Ids -> Positions], NEW T \in SUBSET Ids, T # {}
  PROVE  {i \in T : \A j \in T : mine[j] <= mine[i]} # {}
<1> DEFINE left == {FinishPos - mine[i] : i \in T}
<1>1. \A i \in T : mine[i] \in Int /\ mine[i] <= FinishPos
  BY Numbers DEF Positions, Yard
<1>2. left \in SUBSET Nat /\ left # {}
  BY <1>1, Numbers
<1>3. \E x \in left : \A y \in left : x <= y
  <2> HIDE DEF left
  <2>1. QED BY <1>2, Least
<1>4. PICK i \in T : \A j \in T : FinishPos - mine[i] <= FinishPos - mine[j]
  BY <1>3
<1>5. \A j \in T : mine[j] <= mine[i]
  BY <1>1, <1>4, Numbers
<1>6. QED BY <1>5

Capturing(g) ==
  {i \in LegalMoves(g) : g.tokens[g.turn][i] # Yard /\ WouldCaptureAt(g, i)}

\* The computer moves a token that may move; one that captures, if there is one.
LEMMA AIChoice ==
  ASSUME NEW g, Sound(g), g.phase = "select"
  PROVE  /\ ChooseAIMove(g) \in LegalMoves(g)
         /\ Capturing(g) # {} => ChooseAIMove(g) \in Capturing(g)
<1> DEFINE legal == LegalMoves(g)
           mine == g.tokens[g.turn]
           inYard == {i \in legal : mine[i] = Yard}
           capturing == {i \in legal \ inYard : WouldCaptureAt(g, i)}
           furthest == {i \in legal : \A j \in legal : mine[j] <= mine[i]}
<1>1. /\ legal \in SUBSET Ids /\ legal # {} /\ mine \in [Ids -> Positions]
  BY DEF Sound, Games, LegalMoves
<1>2. capturing = Capturing(g)
  BY DEF Capturing
<1>3. ChooseAIMove(g) = IF capturing # {} THEN First(capturing)
                        ELSE IF inYard # {} THEN First(inYard)
                        ELSE First(furthest)
  BY DEF ChooseAIMove
<1>4. /\ capturing \subseteq legal /\ inYard \subseteq legal /\ furthest \subseteq legal
      /\ furthest # {}
  <2> HIDE DEF mine, legal
  <2>1. furthest # {}
    BY <1>1, Furthest
  <2>2. QED BY <2>1
<1> HIDE DEF legal, mine, inYard, capturing, furthest
<1>5. \A T \in SUBSET legal : T # {} => First(T) \in T
  BY <1>1, FirstOf
<1>6. ChooseAIMove(g) \in legal /\ (capturing # {} => ChooseAIMove(g) \in capturing)
  BY <1>3, <1>4, <1>5
<1>7. QED BY <1>2, <1>6 DEF legal

\* Entry squares are safe: a token that leaves its yard captures nobody.
LEMMA EntrySafe == \A p \in Seats : IsSafeSquare(GlobalIndex(p, 0))
<1> TAKE p \in Seats
<1>1. p \in Colors /\ StartOffset[p] \in 0..(TrackSquares - 1) /\ TrackSquares \in Nat \ {0}
  BY RulesAssumption
<1>2. (StartOffset[p] + 0) % TrackSquares = StartOffset[p]
  BY <1>1
<1>3. QED BY <1>1, <1>2 DEF IsSafeSquare, GlobalIndex

\* What the computer takes for a capture is one.
LEMMA CaptureForeseen ==
  ASSUME NEW g, Sound(g), g.phase = "select", NEW id \in LegalMoves(g)
  PROVE  CaptureMade(g, id) <=> id \in Capturing(g)
<1> DEFINE land == Landing(g, id)
           start == g.tokens[g.turn][id]
<1>1. /\ g.turn \in Seats /\ id \in Ids /\ land \in Positions /\ land > start
      /\ start \in Positions /\ land = IF start = Yard THEN 0 ELSE start + g.dice
  BY Landed DEF Sound, Games, Landing
<1>2. CaptureMade(g, id) <=>
        /\ OnTrack(land) /\ ~IsSafeSquare(GlobalIndex(g.turn, land))
        /\ \E q \in Seats \ {g.turn}, i \in Ids :
             StandsOn(q, g.tokens[q][i], GlobalIndex(g.turn, land))
  BY DEF CaptureMade, Captures
<1>3. CASE start = Yard
  <2>1. IsSafeSquare(GlobalIndex(g.turn, land))
    BY <1>1, <1>3, EntrySafe
  <2>2. QED BY <1>2, <1>3, <2>1 DEF Capturing
<1>4. CASE start # Yard
  <2>1. land = start + g.dice
    BY <1>1, <1>4
  <2>2. OnTrack(land) <=> land < SharedSquares
    BY <1>1, Numbers DEF OnTrack, Positions, Yard
  <2>3. WouldCaptureAt(g, id) <=>
        /\ land < SharedSquares /\ ~IsSafeSquare(GlobalIndex(g.turn, land))
        /\ \E q \in Seats \ {g.turn}, i \in Ids :
             StandsOn(q, g.tokens[q][i], GlobalIndex(g.turn, land))
    BY <2>1 DEF WouldCaptureAt
  <2>4. QED BY <1>2, <1>4, <2>2, <2>3 DEF Capturing
<1>5. QED BY <1>3, <1>4

LEMMA ComputerTakes == Sound(game) => AITakes
<1> SUFFICES ASSUME Sound(game), game.phase = "select",
                    NEW id \in LegalMoves(game), CaptureMade(game, id)
             PROVE  CaptureMade(game, ChooseAIMove(game))
  BY DEF AITakes
<1>1. id \in Capturing(game)
  BY CaptureForeseen
<1>2. ChooseAIMove(game) \in Capturing(game) /\ ChooseAIMove(game) \in LegalMoves(game)
  BY <1>1, AIChoice
<1>3. QED BY <1>2, CaptureForeseen

-------------------------------------------------------------------------------
(* The invariant of a match. *)

\* The host's game is sound, and over exactly when it says so.
Held == Sound(game) /\ (game.phase = "over" <=> over = "finished")

\* Who is waited for.  In the networked match one more wait than is needed is
\* out for the guest whose turn it is; the turn takes it along.
Waited ==
  /\ local => \A p \in Guests : waits[p] = 0 /\ up[p] = <<>>
  /\ ~local => ticks = 0
  /\ over = "no" =>
       /\ local /\ ~staleTick => ticks = (IF game.turn = Host THEN 0 ELSE 1)
       /\ ~local => \A p \in Guests : waits[p] >= (IF game.turn = p THEN 2 ELSE 1)

\* Among the games on their way only the one the match ended with is over.
Decisive(frame) ==
  frame.kind = "state" /\ frame.game.phase = "over"
    => over = "finished" /\ frame.game = Snapshot(game)

Copied ==
  ~local => \A p \in Guests :
    /\ over = "no" /\ ~Unreached(p) =>
         /\ Latest(p) \in {NoView, Snapshot(game)}
         /\ game # NewGame => Latest(p) # NoView
    /\ guestOver[p] = "no" => \A i \in 1..Len(down[p]) : Decisive(down[p][i])
    /\ guestOver[p] = "finished" => over = "finished" /\ view[p] = Snapshot(game)

MatchInv == TypeOK /\ Held /\ Waited /\ Copied

LEMMA SmallerOfTwo ==
  \A m, n \in Nat : Min({m, n}) \in Nat /\ Min({m, n}) <= m /\ Min({m, n}) <= n
<1> TAKE m, n \in Nat
<1>1. \E x \in {m, n} : \A y \in {m, n} : x =< y
  OBVIOUS
<1>2. QED BY <1>1 DEF Min

LEMMA Removed ==
  ASSUME NEW S, NEW s \in Seq(S), NEW n \in 1..Len(s)
  PROVE  RemoveAt(s, n) \in Seq(S)
<1>1. Len(s) \in Nat /\ \A i \in 1..Len(s) : s[i] \in S
  BY LenProperties, ElementOfSeq
<1>2. SubSeq(s, 1, n - 1) \in Seq(S)
  BY <1>1, SubSeqProperties
<1>3. SubSeq(s, n + 1, Len(s)) \in Seq(S)
  BY <1>1, SubSeqProperties
<1>4. QED BY <1>2, <1>3, ConcatProperties DEF RemoveAt

LEMMA FrontOf ==
  ASSUME NEW S, NEW s \in Seq(S), NEW n \in 0..Len(s)
  PROVE  /\ SubSeq(s, 1, n) \in Seq(S) /\ Len(SubSeq(s, 1, n)) = n /\ Len(s) \in Nat
         /\ \A i \in 1..n : SubSeq(s, 1, n)[i] = s[i]
<1>1. Len(s) \in Nat /\ \A i \in 1..Len(s) : s[i] \in S
  BY LenProperties, ElementOfSeq
<1>2. /\ SubSeq(s, 1, n) \in Seq(S) /\ Len(SubSeq(s, 1, n)) = IF 1 <= n THEN n ELSE 0
      /\ \A i \in 1..n : SubSeq(s, 1, n)[i] = s[1 + i - 1]
  BY <1>1, SubSeqProperties
<1>3. QED BY <1>1, <1>2

LEMMA Reached ==
  ASSUME TypeOK, NEW p \in Guests, NEW n \in Reach(p)
  PROVE  /\ n \in 1..Len(up[p]) /\ waits[p] >= 1 /\ up[p][n] \in Actions
         /\ Without(p, n) \in [Guests -> Seq(Actions)]
<1>1. up[p] \in Seq(Actions) /\ waits[p] \in Nat /\ Len(up[p]) \in Nat
  BY LenProperties DEF TypeOK
<1>2. n \in 1..Len(up[p]) /\ waits[p] >= 1
  <2> DEFINE least == Min({waits[p], Len(up[p])})
  <2>1. least \in Nat /\ least <= waits[p] /\ least <= Len(up[p])
    BY <1>1, SmallerOfTwo
  <2>2. n \in 1..least
    BY DEF Reach
  <2> HIDE DEF least
  <2>3. QED BY <1>1, <2>1, <2>2
<1>3. RemoveAt(up[p], n) \in Seq(Actions) /\ up[p][n] \in Actions
  BY <1>1, <1>2, Removed, ElementOfSeq
<1>4. QED BY <1>2, <1>3 DEF Without, TypeOK

LEMMA SnapshotType ==
  ASSUME NEW g \in Games
  PROVE  /\ Snapshot(g) \in Games /\ Snapshot(g).phase = g.phase
         /\ Snapshot(g).winner = g.winner
  BY 0 \in 0..2 DEF Snapshot, Games

LEMMA NoViewType ==
  /\ NoView \in Games /\ NoView.phase = "over" /\ NoView.winner = NoWinner
  /\ \A g : Sound(g) => Snapshot(g) # NoView
<1>1. /\ Snapshot(NewGame) \in Games /\ Snapshot(NewGame).winner = NoWinner
  BY NewGameSound, SnapshotType DEF Sound, NewGame
<1>2. NoView \in Games /\ NoView.phase = "over" /\ NoView.winner = NoWinner
  BY <1>1 DEF NoView, Games, Phases
<1>3. ASSUME NEW g, Sound(g) PROVE Snapshot(g) # NoView
  BY <1>2, <1>3, SnapshotType DEF Sound
<1>4. QED BY <1>2, <1>3

LEMMA FrameType ==
  ASSUME NEW g \in Games, NEW kind \in {"state", "resign"}
  PROVE  /\ Frame(kind, g) \in Frames
         /\ Frame(kind, g).kind = kind /\ Frame(kind, g).game = g
  BY DEF Frame, Frames

-------------------------------------------------------------------------------
(* What a step leaves alone. *)

LEMMA HeldFrame == Held /\ UNCHANGED <<game, over>> => Held'
  BY DEF Held

LEMMA CopiedFrame ==
  Copied /\ UNCHANGED <<local, game, over, down, broken, guestVars>> => Copied'
  BY DEF Copied, Decisive, Latest, Unreached, guestVars

-------------------------------------------------------------------------------
(* A broadcast, and the end of a match. *)

LEMMA BroadcastType ==
  ASSUME TypeOK, NEW g \in Games
  PROVE  /\ Broadcast(g) \in [Guests -> Seq(Frames)]
         /\ \A p \in Guests : ~Unreached(p) =>
              /\ Len(down[p]) \in Nat /\ Broadcast(g)[p] # <<>>
              /\ Len(Broadcast(g)[p]) = Len(down[p]) + 1
              /\ \A i \in 1..Len(down[p]) : Broadcast(g)[p][i] = down[p][i]
              /\ Broadcast(g)[p][Len(down[p]) + 1] = Frame("state", Snapshot(g))
         /\ \A p \in Guests : Unreached(p) => Broadcast(g)[p] = down[p]
<1>1. Frame("state", Snapshot(g)) \in Frames
  BY SnapshotType, FrameType
<1>2. ASSUME NEW p \in Guests
      PROVE  /\ down[p] \in Seq(Frames) /\ Len(down[p]) \in Nat
             /\ Append(down[p], Frame("state", Snapshot(g))) \in Seq(Frames)
             /\ Append(down[p], Frame("state", Snapshot(g))) # <<>>
             /\ Len(Append(down[p], Frame("state", Snapshot(g)))) = Len(down[p]) + 1
             /\ \A i \in 1..Len(down[p]) :
                  Append(down[p], Frame("state", Snapshot(g)))[i] = down[p][i]
             /\ Append(down[p], Frame("state", Snapshot(g)))[Len(down[p]) + 1]
                  = Frame("state", Snapshot(g))
  BY <1>1, AppendProperties, LenProperties DEF TypeOK
<1>3. QED BY <1>2 DEF Broadcast

LEMMA CloseKeeps ==
  ASSUME NEW sending \in [Guests -> Seq(Frames)], NEW unheard, Close(sending, unheard)
  PROVE  /\ down' \in [Guests -> Seq(Frames)]
         /\ \A p \in Guests : down'[p] = sending[p] \/ down'[p] = <<>>
<1>1. PICK cut \in SUBSET Guests :
        down' = [p \in Guests |-> IF p \in cut THEN <<>> ELSE sending[p]]
  BY DEF Close
<1>2. <<>> \in Seq(Frames)
  BY EmptySeq
<1>3. QED BY <1>1, <1>2

\* Whoever acted, the host's game after it is sent to all and the next wait or
\* tick ordered.
LEMMA ActionKeeps ==
  ASSUME MatchInv, over = "no", NEW g, Sound(g),
         NEW unheard \in [Guests -> Seq(Actions)], NEW listening \in [Guests -> Nat],
         NEW pending \in Nat, AfterAction(g, unheard, listening, pending),
         UNCHANGED <<local, matches, staleTick, broken, guestVars>>,
         local => unheard = up /\ listening = waits,
         local /\ ~staleTick => pending = 0,
         ~local => pending = 0 /\ \A p \in Guests : listening[p] >= 1
  PROVE  MatchInv'
<1>1. /\ TypeOK /\ Held /\ Waited /\ Copied /\ game' = g /\ up' = unheard
      /\ g \in Games /\ g.turn \in Seats /\ UNCHANGED <<broken, view, guestOver>>
  BY DEF MatchInv, AfterAction, Sound, Games, guestVars
<1>2. over' \in {"no", "finished"} /\ (g.phase = "over" <=> over' = "finished")
  BY DEF AfterAction
<1>3. Arm(g, listening) \in [Guests -> Nat] /\ Order(g, pending) \in Nat /\ Deaf \in [Guests -> Nat]
  BY <1>1 DEF Arm, Order, Deaf, Guests
<1>4. /\ Broadcast(g) \in [Guests -> Seq(Frames)] /\ down' \in [Guests -> Seq(Frames)]
      /\ over' = "no" => down' = Broadcast(g)
      /\ \A p \in Guests : down'[p] \in {Broadcast(g)[p], <<>>}
  <2>1. Broadcast(g) \in [Guests -> Seq(Frames)]
    BY <1>1, BroadcastType
  <2>2. CASE g.phase = "over"
    BY <2>1, <2>2, CloseKeeps DEF AfterAction
  <2>3. CASE g.phase # "over"
    BY <2>1, <2>3 DEF AfterAction
  <2>4. QED BY <2>1, <2>2, <2>3 DEF AfterAction
<1>5. TypeOK'
  <2>1. waits' \in [Guests -> Nat] /\ ticks' \in Nat
    BY <1>3 DEF AfterAction
  <2>2. QED BY <1>1, <1>2, <1>4, <2>1 DEF TypeOK
<1>6. Held'
  BY <1>1, <1>2 DEF Held
<1>7. Waited'
  <2>1. local => up' = up /\ (waits' = waits \/ waits' = Deaf)
    BY DEF AfterAction, Arm
  <2>2. local => \A p \in Guests : waits'[p] = 0 /\ up'[p] = <<>>
    BY <1>1, <2>1 DEF Waited, Deaf
  <2>3. ~local => ticks' = 0
    BY DEF AfterAction, Order
  <2>4. ASSUME over' = "no", local, ~staleTick
        PROVE  ticks' = (IF g.turn = Host THEN 0 ELSE 1)
    BY <2>4 DEF AfterAction, Order
  <2>5. ASSUME over' = "no", ~local, NEW p \in Guests
        PROVE  waits'[p] >= (IF g.turn = p THEN 2 ELSE 1)
    <3>1. waits' = Arm(g, listening)
      BY <2>5 DEF AfterAction
    <3>2. p # Host /\ listening[p] \in Nat /\ listening[p] >= 1
      BY <2>5 DEF Guests
    <3>3. CASE g.turn = p
      BY <2>5, <3>1, <3>2, <3>3 DEF Arm
    <3>4. CASE g.turn # p
      BY <2>5, <3>1, <3>2, <3>4 DEF Arm
    <3>5. QED BY <3>3, <3>4
  <2>6. QED BY <1>1, <2>2, <2>3, <2>4, <2>5 DEF Waited
<1>8. Copied'
  <2> SUFFICES ASSUME ~local, NEW p \in Guests
               PROVE  /\ over' = "no" /\ ~Unreached(p) =>
                           /\ Latest(p)' \in {NoView, Snapshot(g)}
                           /\ g # NewGame => Latest(p)' # NoView
                      /\ guestOver[p] = "no" => \A i \in 1..Len(down'[p]) : Decisive(down[p][i])'
                      /\ guestOver[p] = "finished" => over' = "finished" /\ view[p] = Snapshot(g)
    BY <1>1 DEF Copied, Unreached
  <2>1. guestOver[p] # "finished"
    BY <1>1 DEF Copied
  <2>2. Frame("state", Snapshot(g)).game = Snapshot(g) /\ Snapshot(g).phase = g.phase
    BY <1>1, SnapshotType, FrameType
  <2>3. ASSUME over' = "no", ~Unreached(p) PROVE Latest(p)' = Snapshot(g)
    <3>1. /\ down'[p] # <<>> /\ Len(down'[p]) = Len(down[p]) + 1
          /\ down'[p][Len(down[p]) + 1] = Frame("state", Snapshot(g))
      BY <1>1, <1>4, <2>3, BroadcastType
    <3>2. QED BY <2>2, <3>1 DEF Latest, Last
  <2>4. ASSUME guestOver[p] = "no", NEW i \in 1..Len(down'[p]) PROVE Decisive(down[p][i])'
    <3>1. CASE down'[p] = <<>>
      <4>1. Len(down'[p]) = 0
        BY <3>1, EmptySeq
      <4>2. QED BY <2>4, <4>1
    <3>2. CASE down'[p] = Broadcast(g)[p] /\ ~Unreached(p)
      <4>1. /\ Len(down[p]) \in Nat /\ Len(down'[p]) = Len(down[p]) + 1
            /\ \A k \in 1..Len(down[p]) : down'[p][k] = down[p][k]
            /\ down'[p][Len(down[p]) + 1] = Frame("state", Snapshot(g))
        BY <1>1, <2>4, <3>2, BroadcastType
      <4>2. CASE i = Len(down[p]) + 1
        BY <1>1, <1>2, <2>2, <4>1, <4>2 DEF Decisive
      <4>3. CASE i \in 1..Len(down[p])
        BY <1>1, <2>4, <4>1, <4>3 DEF Decisive, Copied
      <4>4. QED BY <2>4, <4>1, <4>2, <4>3
    <3>3. CASE down'[p] = Broadcast(g)[p] /\ Unreached(p)
      <4>1. down'[p] = down[p]
        BY <1>1, <3>3, BroadcastType
      <4>2. QED BY <1>1, <2>4, <4>1 DEF Decisive, Copied
    <3>4. QED BY <1>4, <3>1, <3>2, <3>3
  <2>5. Snapshot(g) # NoView
    BY NoViewType
  <2>6. QED BY <2>1, <2>3, <2>4, <2>5
<1>9. QED BY <1>5, <1>6, <1>7, <1>8 DEF MatchInv

\* A match that is abandoned: nothing on its way says that somebody has won.
LEMMA AbandonKeeps ==
  ASSUME MatchInv, over = "no", NEW why \in {"quit", "left"}, Abandon(why),
         NEW sending \in [Guests -> Seq(Frames)], NEW unheard, Close(sending, unheard),
         ~local => \A p \in Guests : guestOver[p] = "no" => \A i \in 1..Len(sending[p]) :
           sending[p][i].kind = "state" => sending[p][i].game.phase # "over",
         UNCHANGED <<local, localVars, broken, guestVars>>
  PROVE  MatchInv'
<1>1. /\ TypeOK /\ Held /\ Waited /\ Copied /\ UNCHANGED <<local, ticks, matches, staleTick, broken, view, guestOver>>
      /\ over' = why /\ game' = NewGame /\ waits' = Deaf /\ up' = [p \in Guests |-> <<>>]
  BY DEF MatchInv, Abandon, localVars, guestVars
<1>2. /\ down' \in [Guests -> Seq(Frames)]
      /\ \A p \in Guests : down'[p] \in {sending[p], <<>>}
  BY CloseKeeps
<1>3. TypeOK'
  <2>1. Deaf \in [Guests -> Nat] /\ [p \in Guests |-> <<>>] \in [Guests -> Seq(Actions)]
    BY EmptySeq DEF Deaf
  <2>2. QED BY <1>1, <1>2, <2>1, NewGameSound DEF TypeOK, Sound
<1>4. Held'
  BY <1>1, NewGameSound DEF Held, NewGame
<1>5. Waited'
  BY <1>1 DEF Waited, Deaf
<1>6. Copied'
  <2>1. ASSUME ~local, NEW p \in Guests PROVE guestOver[p] # "finished"
    BY <1>1, <2>1 DEF Copied
  <2>2. ASSUME ~local, NEW p \in Guests, guestOver[p] = "no", NEW i \in 1..Len(down'[p])
        PROVE  Decisive(down[p][i])'
    <3>1. CASE down'[p] = <<>>
      <4>1. Len(down'[p]) = 0
        BY <3>1, EmptySeq
      <4>2. QED BY <2>2, <4>1
    <3>2. CASE down'[p] = sending[p]
      BY <2>2, <3>2 DEF Decisive
    <3>3. QED BY <1>2, <3>1, <3>2
  <2>3. QED BY <1>1, <2>1, <2>2 DEF Copied
<1>7. QED BY <1>3, <1>4, <1>5, <1>6 DEF MatchInv

-------------------------------------------------------------------------------
(* One lemma per action. *)

LEMMA HumanRollKeeps == ASSUME MatchInv, HumanRoll PROVE MatchInv'
<1>1. PICK val \in Die : AfterAction(ApplyRoll(game, val), up, waits, ticks)
  BY DEF HumanRoll
<1>2. /\ over = "no" /\ game.turn = Host /\ Sound(game) /\ game.phase # "over"
      /\ UNCHANGED <<local, matches, staleTick, broken, guestVars>>
      /\ up \in [Guests -> Seq(Actions)] /\ waits \in [Guests -> Nat] /\ ticks \in Nat
  BY DEF MatchInv, Held, HumanRoll, MyTurn, TypeOK
<1>3. /\ local /\ ~staleTick => ticks = 0
      /\ ~local => ticks = 0 /\ \A p \in Guests : waits[p] >= 1
  BY <1>2 DEF MatchInv, Waited, Guests
<1>4. Sound(ApplyRoll(game, val))
  BY <1>2, RollSound
<1>5. QED BY <1>1, <1>2, <1>3, <1>4, ActionKeeps

LEMMA HumanMoveKeeps == ASSUME MatchInv, HumanMove PROVE MatchInv'
<1>1. PICK id \in LegalMoves(game) : AfterAction(MoveToken(game, id), up, waits, ticks)
  BY DEF HumanMove
<1>2. /\ over = "no" /\ game.turn = Host /\ Sound(game) /\ game.phase = "select"
      /\ UNCHANGED <<local, matches, staleTick, broken, guestVars>>
      /\ up \in [Guests -> Seq(Actions)] /\ waits \in [Guests -> Nat] /\ ticks \in Nat
  BY DEF MatchInv, Held, HumanMove, MyTurn, TypeOK
<1>3. /\ local /\ ~staleTick => ticks = 0
      /\ ~local => ticks = 0 /\ \A p \in Guests : waits[p] >= 1
  BY <1>2 DEF MatchInv, Waited, Guests
<1>4. Sound(MoveToken(game, id))
  BY <1>2, MoveSound
<1>5. QED BY <1>1, <1>2, <1>3, <1>4, ActionKeeps

LEMMA TickKeeps == ASSUME MatchInv, Tick PROVE MatchInv'
<1>1. PICK g : /\ AfterAction(g, up, waits, ticks - 1)
               /\ \/ game.phase = "roll" /\ \E val \in Die : g = ApplyRoll(game, val)
                  \/ game.phase = "select" /\ g = MoveToken(game, ChooseAIMove(game))
  BY DEF Tick
<1>2. /\ over = "no" /\ ticks > 0 /\ Sound(game)
      /\ UNCHANGED <<local, matches, staleTick, broken, guestVars>>
      /\ up \in [Guests -> Seq(Actions)] /\ waits \in [Guests -> Nat] /\ ticks \in Nat
  BY DEF MatchInv, Held, Tick, TypeOK
<1>3. local /\ (~staleTick => ticks - 1 = 0) /\ ticks - 1 \in Nat
  BY <1>2 DEF MatchInv, Waited
<1>4. Sound(g)
  BY <1>1, <1>2, RollSound, MoveSound, AIChoice
<1>5. QED BY <1>1, <1>2, <1>3, <1>4, ActionKeeps

LEMMA ApplyActionKeeps ==
  ASSUME MatchInv, NEW p \in Guests, NEW n \in Reach(p), ApplyAction(p, n)
  PROVE  MatchInv'
<1>1. PICK g : /\ AfterAction(g, Without(p, n), Answered(p), ticks)
               /\ \/ \E val \in Die : g = ApplyRoll(game, val)
                  \/ /\ game.phase = "select" /\ up[p][n].id \in LegalMoves(game)
                     /\ g = MoveToken(game, up[p][n].id)
  BY DEF ApplyAction, Accepted
<1>2. /\ over = "no" /\ game.turn = p /\ Sound(game) /\ game.phase # "over"
      /\ UNCHANGED <<local, matches, staleTick, broken, guestVars>>
      /\ waits \in [Guests -> Nat] /\ ticks \in Nat
      /\ waits[p] >= 1 /\ Without(p, n) \in [Guests -> Seq(Actions)]
  BY Reached DEF MatchInv, Held, ApplyAction, Accepted, TypeOK
<1>3. ~local /\ ticks = 0 /\ waits[p] >= 2 /\ \A q \in Guests : waits[q] >= 1
  BY <1>2 DEF MatchInv, Waited
<1>4. /\ Answered(p) \in [Guests -> Nat]
      /\ \A q \in Guests : Answered(p)[q] >= 1
  BY <1>2, <1>3 DEF Answered
<1>5. Sound(g)
  BY <1>1, <1>2, RollSound, MoveSound
<1>6. QED BY <1>1, <1>2, <1>3, <1>4, <1>5, ActionKeeps

\* While nobody has won, nothing under way says so.
LEMMA Undecided ==
  ASSUME MatchInv, over = "no", ~local, NEW p \in Guests, guestOver[p] = "no",
         NEW i \in 1..Len(down[p]), down[p][i].kind = "state"
  PROVE  down[p][i].game.phase # "over"
  BY DEF MatchInv, Copied, Decisive

LEMMA HumanQuitKeeps == ASSUME MatchInv, HumanQuit PROVE MatchInv'
<1> DEFINE sending == [p \in Guests |-> IF Unreached(p) THEN down[p]
                                        ELSE Append(down[p], Frame("resign", NoView))]
           last == Frame("resign", NoView)
<1>1. /\ over = "no" /\ Abandon("quit") /\ Close(sending, up)
      /\ UNCHANGED <<local, localVars, broken, guestVars>>
  BY DEF HumanQuit
<1>2. last \in Frames /\ last.kind = "resign"
  BY NoViewType, FrameType
<1>3. ASSUME NEW p \in Guests
      PROVE  /\ sending[p] \in Seq(Frames)
             /\ ~local /\ guestOver[p] = "no" => \A i \in 1..Len(sending[p]) :
                  sending[p][i].kind = "state" => sending[p][i].game.phase # "over"
  <2>1. CASE Unreached(p)
    <3>1. sending[p] = down[p] /\ down[p] \in Seq(Frames)
      BY <2>1 DEF MatchInv, TypeOK
    <3> HIDE DEF sending
    <3>2. QED BY <1>1, <3>1, Undecided
  <2>2. CASE ~Unreached(p)
    <3>1. /\ sending[p] = Append(down[p], last) /\ down[p] \in Seq(Frames)
          /\ ~local /\ guestOver[p] = "no"
      BY <2>2 DEF MatchInv, TypeOK, Unreached
    <3> HIDE DEF sending, last
    <3>2. /\ sending[p] \in Seq(Frames) /\ Len(down[p]) \in Nat
          /\ Len(sending[p]) = Len(down[p]) + 1 /\ sending[p][Len(down[p]) + 1] = last
          /\ \A i \in 1..Len(down[p]) : sending[p][i] = down[p][i]
      BY <1>2, <3>1, AppendProperties, LenProperties
    <3>3. ASSUME NEW i \in 1..Len(sending[p]), sending[p][i].kind = "state"
          PROVE  sending[p][i].game.phase # "over"
      <4>1. i \in 1..Len(down[p]) /\ sending[p][i] = down[p][i]
        BY <1>2, <3>2, <3>3
      <4>2. QED BY <1>1, <3>1, <3>3, <4>1, Undecided
    <3>4. QED BY <3>2, <3>3
  <2>3. QED BY <2>1, <2>2
<1>4. sending \in [Guests -> Seq(Frames)]
  BY <1>3
<1> HIDE DEF sending
<1>5. QED BY <1>1, <1>3, <1>4, AbandonKeeps

LEMMA GuestLeftKeeps == ASSUME MatchInv, NEW p \in Guests, GuestLeft(p) PROVE MatchInv'
<1>1. /\ over = "no" /\ HasLeft(p) /\ Abandon("left") /\ Close(down, up)
      /\ UNCHANGED <<local, localVars, broken, guestVars>>
  BY DEF GuestLeft
<1>2. down \in [Guests -> Seq(Frames)] /\ up \in [Guests -> Seq(Actions)] /\ waits \in [Guests -> Nat]
  BY DEF MatchInv, TypeOK
\* In a local match there are no guests to hear of.
<1>3. ~local
  <2>1. SUFFICES ASSUME local PROVE FALSE
    OBVIOUS
  <2>2. waits[p] = 0 /\ Len(up[p]) \in Nat
    BY <1>2, <2>1, LenProperties DEF MatchInv, Waited
  <2>3. \A n \in Reach(p) : FALSE
    BY <2>2, Reached DEF MatchInv
  <2>4. QED BY <1>1, <2>2, <2>3 DEF HasLeft
<1>4. \A q \in Guests : guestOver[q] = "no" => \A i \in 1..Len(down[q]) :
        down[q][i].kind = "state" => down[q][i].game.phase # "over"
  BY <1>1, <1>3, Undecided
<1>5. QED BY <1>1, <1>2, <1>4, AbandonKeeps

LEMMA TickIgnoredKeeps == ASSUME MatchInv, TickIgnored PROVE MatchInv'
<1>1. /\ TypeOK /\ Held /\ Waited /\ Copied
  BY DEF MatchInv
<1>2. TypeOK'
  BY <1>1 DEF TypeOK, TickIgnored, guestVars
<1>3. Held'
  BY <1>1, HeldFrame DEF TickIgnored
<1>4. Waited'
  BY <1>1 DEF Waited, TickIgnored, TypeOK
<1>5. Copied'
  BY <1>1, CopiedFrame DEF TickIgnored
<1>6. QED BY <1>2, <1>3, <1>4, <1>5 DEF MatchInv

LEMMA RematchKeeps == ASSUME MatchInv, Rematch PROVE MatchInv'
<1>1. /\ TypeOK /\ Held /\ Waited /\ Copied /\ local
  BY DEF MatchInv, Rematch
<1>2. TypeOK'
  BY <1>1, NewGameSound DEF TypeOK, Rematch, guestVars, Sound
<1>3. Held'
  BY <1>1, NewGameSound DEF Held, Rematch, NewGame
<1>4. Waited'
  <2>1. CASE ticks > 0
    <3>1. staleTick' = TRUE
      BY <2>1 DEF Rematch
    <3>2. QED BY <3>1, <1>1 DEF Waited, Rematch
  <2>2. CASE ~(ticks > 0)
    <3>1. ticks' = 0 /\ game'.turn = Host
      BY <1>1, <2>2, NewGameSound DEF Rematch, TypeOK
    <3>2. QED BY <3>1, <1>1 DEF Waited, Rematch
  <2>3. QED BY <2>1, <2>2
<1>5. Copied'
  BY <1>1 DEF Copied, Rematch
<1>6. QED BY <1>2, <1>3, <1>4, <1>5 DEF MatchInv

LEMMA IgnoreActionKeeps ==
  ASSUME MatchInv, NEW p \in Guests, NEW n \in Reach(p), IgnoreAction(p, n)
  PROVE  MatchInv'
<1>1. /\ TypeOK /\ Held /\ Waited /\ Copied /\ up' = Without(p, n)
      /\ UNCHANGED <<local, game, over, localVars, waits, down, broken, guestVars>>
  BY DEF MatchInv, IgnoreAction
<1>2. up' \in [Guests -> Seq(Actions)] /\ waits[p] >= 1
  BY <1>1, Reached
<1>3. TypeOK'
  BY <1>1, <1>2 DEF TypeOK, localVars, guestVars
<1>4. Waited'
  BY <1>1, <1>2 DEF Waited, localVars
<1>5. QED BY <1>1, <1>3, <1>4, HeldFrame, CopiedFrame DEF MatchInv

-------------------------------------------------------------------------------
(* The guests. *)

LEMMA AllowedType ==
  ASSUME TypeOK, NEW p \in Guests PROVE Allowed(p) \subseteq Actions
  BY Numbers DEF Allowed, Actions, Action, LegalMoves

LEMMA GuestSendKeeps == ASSUME MatchInv, NEW p \in Guests, GuestSend(p) PROVE MatchInv'
<1>1. /\ TypeOK /\ Held /\ Waited /\ Copied /\ ~local
      /\ UNCHANGED <<local, game, over, ticks, matches, staleTick, waits, broken, view, guestOver>>
  BY DEF MatchInv, GuestSend, Unreached, localVars, guestVars
<1>2. PICK action \in Actions :
        \/ over = "no" /\ up' = [up EXCEPT ![p] = Append(@, action)] /\ UNCHANGED down
        \/ over # "no" /\ down' = [down EXCEPT ![p] = <<>>] /\ UNCHANGED up
  BY <1>1, AllowedType DEF GuestSend
<1>3. up' \in [Guests -> Seq(Actions)] /\ down' \in [Guests -> Seq(Frames)]
  <2>1. Append(up[p], action) \in Seq(Actions) /\ <<>> \in Seq(Frames)
    BY <1>1, AppendProperties, EmptySeq DEF TypeOK
  <2>2. QED BY <1>1, <1>2, <2>1 DEF TypeOK
<1>4. TypeOK'
  BY <1>1, <1>3 DEF TypeOK
<1>5. Waited'
  BY <1>1 DEF Waited
<1>6. Copied'
  <2>1. CASE over = "no"
    BY <1>1, <1>2, <2>1, CopiedFrame DEF guestVars
  <2>2. CASE over # "no"
    <3>1. \A q \in Guests : down'[q] = (IF q = p THEN <<>> ELSE down[q])
      BY <1>1, <1>2, <2>2 DEF TypeOK
    <3>2. \A q \in Guests : \A i \in 1..Len(down'[q]) : q # p /\ down'[q] = down[q]
      BY <3>1, EmptySeq
    <3>3. QED BY <1>1, <2>2, <3>2 DEF Copied, Decisive
  <2>3. QED BY <2>1, <2>2
<1>7. QED BY <1>1, <1>4, <1>5, <1>6, HeldFrame DEF MatchInv

\* A guest that is gone, how ever: its copy is dropped.
LEMMA EndGuestKeeps ==
  ASSUME MatchInv, ~local, NEW p \in Guests, NEW how \in {"quit", "ended", "lost"}, EndGuest(p, how),
         UNCHANGED <<local, game, over, localVars, waits, broken>>,
         up' \in [Guests -> Seq(Actions)],
         down' \in [Guests -> Seq(Frames)], \A q \in Guests \ {p} : down'[q] = down[q]
  PROVE  MatchInv'
<1>1. /\ TypeOK /\ Held /\ Waited /\ Copied /\ UNCHANGED <<ticks, matches, staleTick, broken>>
  BY DEF MatchInv, localVars
<1>2. /\ guestOver' \in [Guests -> Endings] /\ view' \in [Guests -> Games]
      /\ guestOver'[p] \notin {"no", "finished"}
      /\ \A q \in Guests \ {p} : guestOver'[q] = guestOver[q] /\ view'[q] = view[q]
  BY <1>1, NoViewType DEF EndGuest, TypeOK, Endings
<1>3. TypeOK'
  BY <1>1, <1>2 DEF TypeOK
<1>4. Waited'
  BY <1>1 DEF Waited
<1>5. Copied'
  <2>1. SUFFICES ASSUME NEW q \in Guests
                 PROVE  /\ over' = "no" /\ ~Unreached(q)' =>
                             /\ Latest(q)' \in {NoView, Snapshot(game')}
                             /\ game' # NewGame => Latest(q)' # NoView
                        /\ guestOver'[q] = "no" => \A i \in 1..Len(down'[q]) : Decisive(down[q][i])'
                        /\ guestOver'[q] = "finished" => over' = "finished" /\ view'[q] = Snapshot(game')
    BY <1>1 DEF Copied
  <2>2. CASE q = p
    BY <1>2, <2>2 DEF Unreached
  <2>3. CASE q # p
    <3>1. /\ guestOver'[q] = guestOver[q] /\ view'[q] = view[q] /\ down'[q] = down[q]
          /\ UNCHANGED <<local, game, over>>
      BY <1>1, <1>2, <2>3
    <3>2. Latest(q)' = Latest(q) /\ (Unreached(q)' <=> Unreached(q))
      BY <1>1, <3>1 DEF Latest, Unreached
    <3>3. \A i \in 1..Len(down'[q]) : Decisive(down[q][i]) => Decisive(down[q][i])'
      BY <3>1 DEF Decisive
    <3>4. QED BY <1>1, <3>1, <3>2, <3>3 DEF Copied
  <2>4. QED BY <2>2, <2>3
<1>6. QED BY <1>1, <1>3, <1>4, <1>5, HeldFrame DEF MatchInv

LEMMA GuestQuitKeeps == ASSUME MatchInv, NEW p \in Guests, GuestQuit(p) PROVE MatchInv'
<1>1. TypeOK
  BY DEF MatchInv
<1>2. /\ Action("resign", 0) \in Actions /\ up[p] \in Seq(Actions) /\ <<>> \in Seq(Frames)
  BY <1>1, EmptySeq DEF TypeOK, Actions
<1>3. Append(up[p], Action("resign", 0)) \in Seq(Actions)
  BY <1>2, AppendProperties
<1>4. up' \in [Guests -> Seq(Actions)]
  BY <1>1, <1>2, <1>3 DEF GuestQuit, TypeOK
<1>5. down' \in [Guests -> Seq(Frames)] /\ \A q \in Guests \ {p} : down'[q] = down[q]
  BY <1>1, <1>2 DEF GuestQuit, TypeOK
<1>6. QED BY <1>4, <1>5, EndGuestKeeps DEF GuestQuit

LEMMA GuestLostKeeps == ASSUME MatchInv, NEW p \in Guests, GuestLost(p) PROVE MatchInv'
<1>1. TypeOK
  BY DEF MatchInv
<1>2. QED BY <1>1, EndGuestKeeps DEF GuestLost, TypeOK

LEMMA GuestReceiveKeeps == ASSUME MatchInv, NEW p \in Guests, GuestReceive(p) PROVE MatchInv'
<1> DEFINE frame == Head(down[p])
           rest == Tail(down[p])
<1>1. /\ TypeOK /\ Held /\ Waited /\ Copied /\ ~local /\ guestOver[p] = "no"
      /\ UNCHANGED <<local, game, over, localVars, waits, up, broken>>
      /\ down[p] \in Seq(Frames) /\ down[p] # <<>> /\ down' = [down EXCEPT ![p] = Tail(@)]
  BY DEF MatchInv, GuestReceive, TypeOK
<1>2. /\ frame \in Frames /\ frame = down[p][1] /\ rest \in Seq(Frames)
      /\ Len(down[p]) \in Nat \ {0} /\ Len(rest) = Len(down[p]) - 1
      /\ \A i \in 1..Len(rest) : rest[i] = down[p][i + 1]
  BY <1>1, HeadTailProperties, EmptySeq
<1>3. /\ down' \in [Guests -> Seq(Frames)] /\ down'[p] = rest
      /\ \A q \in Guests \ {p} : down'[q] = down[q]
  BY <1>1, <1>2 DEF TypeOK
<1> HIDE DEF rest
<1>4. CASE frame.kind = "resign"
  BY <1>1, <1>3, <1>4, EndGuestKeeps DEF GuestReceive, TypeOK
<1>5. CASE frame.kind # "resign"
  <2>1. /\ frame.kind = "state" /\ frame.game \in Games
        /\ view' = [view EXCEPT ![p] = frame.game]
        /\ guestOver' = [guestOver EXCEPT ![p] =
                           IF frame.game.phase = "over" THEN "finished" ELSE "no"]
    BY <1>1, <1>2, <1>5 DEF GuestReceive, Frames
  <2> HIDE DEF frame
  <2>2. TypeOK'
    BY <1>1, <1>3, <2>1 DEF TypeOK, Endings, localVars
  <2>3. Waited'
    BY <1>1 DEF Waited, localVars
  <2>4. Decisive(frame) /\ \A i \in 1..Len(down'[p]) : Decisive(down'[p][i])
    <3>1. \A i \in 1..Len(down[p]) : Decisive(down[p][i])
      BY <1>1 DEF Copied
    <3>2. 1 \in 1..Len(down[p]) /\ \A i \in 1..Len(rest) : i + 1 \in 1..Len(down[p])
      BY <1>2
    <3>3. Decisive(frame)
      BY <1>2, <3>1, <3>2
    <3>4. \A i \in 1..Len(rest) : Decisive(rest[i])
      BY <1>2, <3>1, <3>2
    <3>5. QED BY <1>3, <3>3, <3>4
  <2>5. Latest(p)' = Latest(p)
    <3>1. Latest(p) = down[p][Len(down[p])].game
      BY <1>1 DEF Latest, Last
    <3>2. CASE rest = <<>>
      <4>1. Len(down[p]) = 1
        <5>1. Len(rest) = 0
          BY <3>2, EmptySeq
        <5>2. QED BY <1>2, <5>1
      <4>2. Latest(p)' = frame.game
        BY <1>1, <1>3, <2>1, <3>2 DEF Latest, TypeOK
      <4>3. QED BY <1>2, <3>1, <4>1, <4>2
    <3>3. CASE rest # <<>>
      <4>1. /\ Len(rest) \in Nat \ {0}
            /\ rest[Len(rest)] = down[p][Len(down[p])]
        <5>1. Len(rest) \in Nat \ {0}
          BY <1>2, <3>3, EmptySeq
        <5>2. Len(rest) + 1 = Len(down[p])
          <6>1. Len(rest) = Len(down[p]) - 1 /\ Len(down[p]) \in Nat
            BY <1>2
          <6>2. QED BY <6>1
        <5>3. Len(rest) \in 1..Len(rest)
          BY <5>1
        <5>4. QED BY <1>2, <5>1, <5>2, <5>3
      <4>2. Latest(p)' = rest[Len(rest)].game
        BY <1>3, <3>3 DEF Latest, Last
      <4>3. QED BY <3>1, <4>1, <4>2
    <3>4. QED BY <3>2, <3>3
  <2>6. ASSUME NEW q \in Guests
        PROVE  /\ over' = "no" /\ ~Unreached(q)' =>
                    /\ Latest(q)' \in {NoView, Snapshot(game')}
                    /\ game' # NewGame => Latest(q)' # NoView
               /\ guestOver'[q] = "no" => \A i \in 1..Len(down'[q]) : Decisive(down[q][i])'
               /\ guestOver'[q] = "finished" => over' = "finished" /\ view'[q] = Snapshot(game')
    <3>1. \A i \in 1..Len(down'[q]) : Decisive(down'[q][i]) => Decisive(down[q][i])'
      BY <1>1 DEF Decisive
    <3>2. CASE q = p
      <4>1. view'[q] = frame.game
            /\ guestOver'[q] = IF frame.game.phase = "over" THEN "finished" ELSE "no"
        BY <1>1, <2>1, <3>2 DEF TypeOK
      <4>2. guestOver'[q] = "finished" => over' = "finished" /\ view'[q] = Snapshot(game')
        BY <1>1, <2>1, <2>4, <4>1 DEF Decisive
      <4>3. over' = "no" /\ ~Unreached(q)' =>
              /\ Latest(q)' \in {NoView, Snapshot(game')}
              /\ game' # NewGame => Latest(q)' # NoView
        BY <1>1, <2>5, <3>2 DEF Copied, Unreached
      <4>4. QED BY <2>4, <3>1, <3>2, <4>2, <4>3
    <3>3. CASE q # p
      <4>1. guestOver'[q] = guestOver[q] /\ view'[q] = view[q] /\ down'[q] = down[q]
        BY <1>3, <2>1, <3>3, <1>1 DEF TypeOK
      <4>2. Latest(q)' = Latest(q)
        BY <4>1 DEF Latest
      <4>3. Unreached(q)' <=> Unreached(q)
        BY <1>1, <4>1 DEF Unreached
      <4>4. QED BY <1>1, <3>1, <4>1, <4>2, <4>3 DEF Copied
    <3>4. QED BY <3>2, <3>3
  <2>7. Copied'
    BY <2>6 DEF Copied
  <2>8. QED BY <1>1, <2>2, <2>3, <2>7, HeldFrame DEF MatchInv
<1>6. QED BY <1>4, <1>5

LEMMA BreakKeeps == ASSUME MatchInv, NEW p \in Guests, Break(p) PROVE MatchInv'
<1>1. /\ TypeOK /\ Held /\ Waited /\ Copied /\ ~local
      /\ UNCHANGED <<local, game, over, ticks, matches, staleTick, waits, view, guestOver>>
      /\ broken' = broken \cup {p}
  BY DEF MatchInv, Break, Unreached, localVars, guestVars
<1>2. PICK m \in 0..Len(up[p]), n \in 0..Len(down[p]) :
        /\ up' = [up EXCEPT ![p] = SubSeq(@, 1, m)]
        /\ down' = [down EXCEPT ![p] = SubSeq(@, 1, n)]
  BY DEF Break
<1>3. SubSeq(up[p], 1, m) \in Seq(Actions)
  <2>1. up[p] \in Seq(Actions)
    BY <1>1 DEF TypeOK
  <2>2. QED BY <2>1, FrontOf
<1>4. /\ SubSeq(down[p], 1, n) \in Seq(Frames) /\ Len(SubSeq(down[p], 1, n)) = n
      /\ Len(down[p]) \in Nat /\ \A i \in 1..n : SubSeq(down[p], 1, n)[i] = down[p][i]
  <2>1. down[p] \in Seq(Frames)
    BY <1>1 DEF TypeOK
  <2>2. QED BY <2>1, FrontOf
<1>5. /\ up' \in [Guests -> Seq(Actions)] /\ down' \in [Guests -> Seq(Frames)]
      /\ down'[p] = SubSeq(down[p], 1, n) /\ \A q \in Guests \ {p} : down'[q] = down[q]
  BY <1>1, <1>2, <1>3, <1>4 DEF TypeOK
<1>6. TypeOK'
  BY <1>1, <1>5 DEF TypeOK
<1>7. Waited'
  BY <1>1 DEF Waited
<1>8. Copied'
  <2> SUFFICES ASSUME NEW q \in Guests
               PROVE  /\ over' = "no" /\ ~Unreached(q)' =>
                           /\ Latest(q)' \in {NoView, Snapshot(game')}
                           /\ game' # NewGame => Latest(q)' # NoView
                      /\ guestOver'[q] = "no" => \A i \in 1..Len(down'[q]) : Decisive(down[q][i])'
                      /\ guestOver'[q] = "finished" => over' = "finished" /\ view'[q] = Snapshot(game')
    BY DEF Copied
  <2>1. CASE q = p
    <3>1. Unreached(q)'
      BY <1>1, <2>1 DEF Unreached
    <3>2. \A i \in 1..Len(down'[q]) : i \in 1..Len(down[q]) /\ down'[q][i] = down[q][i]
      BY <1>4, <1>5, <2>1
    <3>3. QED BY <1>1, <3>1, <3>2 DEF Copied, Decisive
  <2>2. CASE q # p
    <3>1. Latest(q)' = Latest(q) /\ (Unreached(q)' <=> Unreached(q)) /\ down'[q] = down[q]
      BY <1>1, <1>5, <2>2 DEF Latest, Unreached
    <3>2. QED BY <1>1, <3>1 DEF Copied, Decisive
  <2>3. QED BY <2>1, <2>2
<1>9. QED BY <1>1, <1>6, <1>7, <1>8, HeldFrame DEF MatchInv

-------------------------------------------------------------------------------
(* The theorems. *)

LEMMA MatchInit == Init => MatchInv
<1> SUFFICES ASSUME Init PROVE MatchInv
  OBVIOUS
<1>1. /\ game = NewGame /\ over = "no" /\ ticks = 0 /\ matches = 1 /\ staleTick = FALSE
      /\ local \in BOOLEAN
      /\ waits = [p \in Guests |-> IF local THEN 0 ELSE 1]
      /\ up = [p \in Guests |-> <<>>] /\ down = [p \in Guests |-> <<>>]
      /\ view = [p \in Guests |-> NoView] /\ guestOver = [p \in Guests |-> "no"]
      /\ broken = {}
  BY MatchAssumption DEF Init
<1>2. <<>> \in Seq(Actions) /\ <<>> \in Seq(Frames) /\ Len(<<>>) = 0
  BY EmptySeq
<1>3. TypeOK
  BY <1>1, <1>2, NewGameSound, NoViewType DEF TypeOK, Sound, Endings
<1>4. Held
  BY <1>1, NewGameSound DEF Held, NewGame
<1>5. Waited
  BY <1>1, NewGameSound DEF Waited, Guests
<1>6. Copied
  BY <1>1, <1>2 DEF Copied, Latest
<1>7. QED BY <1>3, <1>4, <1>5, <1>6 DEF MatchInv

LEMMA MatchStep == MatchInv /\ [Next]_vars => MatchInv'
<1> SUFFICES ASSUME MatchInv, [Next]_vars PROVE MatchInv'
  OBVIOUS
<1>1. CASE HumanRoll \/ HumanMove \/ HumanQuit
  BY <1>1, HumanRollKeeps, HumanMoveKeeps, HumanQuitKeeps
<1>2. CASE Tick \/ TickIgnored \/ Rematch
  BY <1>2, TickKeeps, TickIgnoredKeeps, RematchKeeps
<1>3. ASSUME NEW p \in Guests, Deliver(p) PROVE MatchInv'
  BY <1>3, GuestLeftKeeps, IgnoreActionKeeps, ApplyActionKeeps DEF Deliver
<1>4. ASSUME NEW p \in Guests, Guest(p) PROVE MatchInv'
  BY <1>4, GuestSendKeeps, GuestQuitKeeps, GuestReceiveKeeps, GuestLostKeeps DEF Guest
<1>5. ASSUME NEW p \in Guests, Break(p) PROVE MatchInv'
  BY <1>5, BreakKeeps
<1>6. CASE UNCHANGED vars
  <2>1. TypeOK' /\ Waited'
    BY <1>6 DEF MatchInv, TypeOK, Waited, vars, localVars, guestVars
  <2>2. Held' /\ Copied'
    BY <1>6, HeldFrame, CopiedFrame DEF MatchInv, vars
  <2>3. QED BY <2>1, <2>2 DEF MatchInv
<1>7. QED BY <1>1, <1>2, <1>3, <1>4, <1>5, <1>6 DEF Next, Human, Computer

LEMMA MatchInvariance == Spec => []MatchInv
  BY MatchInit, MatchStep, PTL DEF Spec

\* Every variable of a match keeps its type, the tokens and the dice theirs, on any
\* board.
THEOREM TypeCorrect == Spec => []TypeOK
<1>1. MatchInv => TypeOK
  BY DEF MatchInv
<1>2. QED BY <1>1, MatchInvariance, PTL

\* Until somebody has won, somebody acts: the person, the one tick that is on its
\* way, or a guest the host listens to.
THEOREM SomebodyActs == Spec => []SomeoneActs
<1>1. MatchInv => SomeoneActs
  <2> SUFFICES ASSUME MatchInv PROVE SomeoneActs
    OBVIOUS
  <2>1. Won
    BY DEF MatchInv, Held, Sound, Won
  <2>2. game.phase = "select" => LegalMoves(game) # {}
    BY DEF MatchInv, Held, Sound
  <2>3. over = "no" => /\ local /\ ~staleTick => ticks = (IF game.turn = Host THEN 0 ELSE 1)
                       /\ ~local => \A p \in Guests : waits[p] >= 1
    BY DEF MatchInv, Waited, TypeOK
  <2>4. QED BY <2>1, <2>2, <2>3 DEF SomeoneActs
<1>2. QED BY <1>1, MatchInvariance, PTL

\* No unsafe square is ever shared, and the computer takes what it can.
THEOREM CapturesByTheRule == Spec => []CaptureRule
<1>1. MatchInv => CaptureRule
  BY ComputerTakes DEF MatchInv, Held, Sound, Apart, NoSharing, CaptureRule
<1>2. QED BY <1>1, MatchInvariance, PTL

\* A guest's copy is the host's game once everything sent has arrived.
THEOREM ScreensInLockstep == Spec => []Lockstep
<1>1. MatchInv => Lockstep
  BY DEF MatchInv, Copied, Lockstep
<1>2. QED BY <1>1, MatchInvariance, PTL

\* A token goes forward by the throw, or back to its yard because it was taken.
THEOREM TokensGoForward == Spec => TokensAdvance
<1>1. MatchInv /\ [Next]_vars => [over' \in {over, "finished"} => TokenSteps]_vars
  <2> SUFFICES ASSUME MatchInv, Next, over' \in {over, "finished"} PROVE TokenSteps
    OBVIOUS
  <2>1. Sound(game)
    BY DEF MatchInv, Held
  <2>2. game'.tokens = game.tokens => TokenSteps
    BY DEF TokenSteps
  <2>3. ASSUME NEW val \in Die, game' = ApplyRoll(game, val), over = "no" PROVE TokenSteps
    <3>1. game.phase # "over"
      BY <2>3 DEF MatchInv, Held
    <3>2. QED BY <2>1, <2>2, <2>3, <3>1, RollSound
  <2>4. ASSUME NEW id \in LegalMoves(game), game.phase = "select", game' = MoveToken(game, id)
        PROVE  TokenSteps
    BY <2>1, <2>4, MoveSound, MoveSteps
  <2>5. CASE HumanRoll \/ HumanMove
    BY <2>3, <2>4, <2>5 DEF HumanRoll, HumanMove, MyTurn, AfterAction
  <2>6. CASE Tick
    BY <2>1, <2>3, <2>4, <2>6, AIChoice DEF Tick, AfterAction
  <2>7. ASSUME NEW p \in Guests, NEW n, ApplyAction(p, n) PROVE TokenSteps
    BY <2>3, <2>4, <2>7 DEF ApplyAction, Accepted, AfterAction
  <2>8. CASE HumanQuit \/ Rematch \/ \E p \in Guests : GuestLeft(p)
    <3>1. over' \notin {over, "finished"}
      BY <2>8 DEF HumanQuit, Rematch, GuestLeft, Abandon
    <3>2. QED BY <3>1
  <2>9. CASE \/ TickIgnored
             \/ \E p \in Guests : (\E n : IgnoreAction(p, n)) \/ Guest(p) \/ Break(p)
    BY <2>2, <2>9 DEF TickIgnored, IgnoreAction, Guest, Break, GuestSend, GuestQuit, GuestReceive, GuestLost
  <2>10. QED BY <2>5, <2>6, <2>7, <2>8, <2>9 DEF Next, Human, Computer, Deliver
<1>2. QED BY <1>1, MatchInvariance, PTL DEF Spec, TokensAdvance
=================================================================================
