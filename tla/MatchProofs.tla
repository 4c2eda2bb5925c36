------------------------------ MODULE MatchProofs ------------------------------
(* Proofs that two boards and a connection make one game of tic-tac-toe, on   *)
(* any board.                                                                 *)
EXTENDS Match, SequenceTheorems, TLAPS

Moves == Rules!Moves
Messages == [type : {"accept", "deny", "resign", "move"}, cell : SUBSET Cells]

-------------------------------------------------------------------------------
(* Boards and the moves that were made on them. *)

Separate(moves) == \A i, j \in DOMAIN moves : moves[i].cell = moves[j].cell => i = j

\* Each cell shows the mark of the one move made on it.
LEMMA BoardOfCell ==
  ASSUME NEW moves \in Seq(Moves), Separate(moves)
  PROVE  /\ Rules!BoardOf(moves) \in Rules!Boards
         /\ \A i \in DOMAIN moves : Rules!BoardOf(moves)[moves[i].cell] = moves[i].mark
         /\ \A c \in Cells :
              (\A i \in DOMAIN moves : moves[i].cell # c) => Rules!BoardOf(moves)[c] = Empty
<1> USE DEF Moves, Rules!Moves
<1>1. \A i \in DOMAIN moves : moves[i] \in [mark : Rules!Marks, cell : Cells]
  BY LenProperties, ElementOfSeq
<1>2. \A i \in DOMAIN moves :
        (CHOOSE j \in DOMAIN moves : moves[j].cell = moves[i].cell) = i
  BY DEF Separate
<1>3. \A i \in DOMAIN moves : Rules!BoardOf(moves)[moves[i].cell] = moves[i].mark
  BY <1>1, <1>2 DEF Rules!BoardOf
<1>4. \A c \in Cells :
        (\A i \in DOMAIN moves : moves[i].cell # c) => Rules!BoardOf(moves)[c] = Empty
  BY DEF Rules!BoardOf, Empty
<1>5. ASSUME NEW c \in Cells PROVE Rules!BoardOf(moves)[c] \in Rules!Marks \cup {Empty}
  <2>1. CASE \E i \in DOMAIN moves : moves[i].cell = c
    <3>1. PICK i \in DOMAIN moves : moves[i].cell = c
      BY <2>1
    <3>2. QED BY <3>1, <1>1, <1>3
  <2>2. CASE ~ \E i \in DOMAIN moves : moves[i].cell = c
    BY <2>2, <1>4
  <2>3. QED BY <2>1, <2>2
<1>6. Rules!BoardOf(moves) = [c \in Cells |-> Rules!BoardOf(moves)[c]]
  BY DEF Rules!BoardOf
<1>7. Rules!BoardOf(moves) \in Rules!Boards
  BY <1>5, <1>6 DEF Rules!Boards, Empty
<1>8. QED BY <1>3, <1>4, <1>7

\* One more move marks one more cell.
LEMMA BoardOfAppend ==
  ASSUME NEW moves \in Seq(Moves), Separate(moves), NEW move \in Moves,
         \A i \in DOMAIN moves : moves[i].cell # move.cell
  PROVE  /\ Append(moves, move) \in Seq(Moves) /\ Separate(Append(moves, move))
         /\ Rules!BoardOf(Append(moves, move))
              = [Rules!BoardOf(moves) EXCEPT ![move.cell] = move.mark]
         /\ Rules!BoardOf(moves)[move.cell] = Empty
<1> DEFINE more == Append(moves, move)
<1>1. /\ more \in Seq(Moves) /\ DOMAIN more = 1..(Len(moves) + 1)
      /\ DOMAIN moves = 1..Len(moves) /\ Len(moves) \in Nat
      /\ \A i \in DOMAIN moves : more[i] = moves[i]
      /\ more[Len(moves) + 1] = move
  BY AppendProperties, LenProperties
<1> HIDE DEF more
<1>2. Separate(more)
  BY <1>1 DEF Separate
<1>3. move.cell \in Cells
  BY DEF Moves, Rules!Moves
<1>4. \A c \in Cells : Rules!BoardOf(more)[c]
                         = IF c = move.cell THEN move.mark ELSE Rules!BoardOf(moves)[c]
  <2> SUFFICES ASSUME NEW c \in Cells
               PROVE  Rules!BoardOf(more)[c]
                        = IF c = move.cell THEN move.mark ELSE Rules!BoardOf(moves)[c]
    OBVIOUS
  <2>1. CASE c = move.cell
    BY <2>1, <1>1, <1>2, BoardOfCell
  <2>2. CASE c # move.cell /\ \E i \in DOMAIN moves : moves[i].cell = c
    <3>1. PICK i \in DOMAIN moves : moves[i].cell = c
      BY <2>2
    <3>2. Rules!BoardOf(moves)[c] = moves[i].mark
      BY <3>1, BoardOfCell
    <3>3. Rules!BoardOf(more)[c] = moves[i].mark
      BY <3>1, <1>1, <1>2, BoardOfCell
    <3>4. QED BY <3>2, <3>3, <2>2
  <2>3. CASE c # move.cell /\ \A i \in DOMAIN moves : moves[i].cell # c
    <3>1. \A i \in DOMAIN more : more[i].cell # c
      BY <2>3, <1>1
    <3>2. Rules!BoardOf(more)[c] = Empty
      BY <3>1, <1>1, <1>2, BoardOfCell
    <3>3. QED BY <3>2, <2>3, BoardOfCell
  <2>4. QED BY <2>1, <2>2, <2>3
<1>5. Rules!BoardOf(more) \in Rules!Boards /\ Rules!BoardOf(moves) \in Rules!Boards
  BY <1>1, <1>2, BoardOfCell
<1>6. Rules!BoardOf(more) = [Rules!BoardOf(moves) EXCEPT ![move.cell] = move.mark]
  BY <1>3, <1>4, <1>5 DEF Rules!Boards
<1>7. Rules!BoardOf(moves)[move.cell] = Empty
  BY <1>3, BoardOfCell
<1>8. QED BY <1>1, <1>2, <1>6, <1>7 DEF more

\* And one less, one less.
LEMMA BoardOfFront ==
  ASSUME NEW moves \in Seq(Moves), Separate(moves), moves # <<>>
  PROVE  Rules!BoardOf(SubSeq(moves, 1, Len(moves) - 1))
           = [Rules!BoardOf(moves) EXCEPT ![moves[Len(moves)].cell] = Empty]
<1> DEFINE n == Len(moves)
           front == SubSeq(moves, 1, n - 1)
<1>1. n \in Nat \ {0} /\ DOMAIN moves = 1..n /\ \A i \in 1..n : moves[i] \in Moves
  BY LenProperties, EmptySeq, ElementOfSeq
<1>2. /\ front \in Seq(Moves) /\ Len(front) = n - 1
      /\ \A i \in 1..(n - 1) : front[i] = moves[i]
  <2>1. \A i \in 1..(n - 1) : moves[i] \in Moves
    BY <1>1
  <2>2. /\ front \in Seq(Moves) /\ Len(front) = IF 1 <= n - 1 THEN n - 1 ELSE 0
        /\ \A i \in 1..(n - 1) : front[i] = moves[1 + i - 1]
    BY <1>1, <2>1, SubSeqProperties
  <2>3. QED BY <2>2, <1>1
<1>3. DOMAIN front = 1..(n - 1)
  BY <1>2, LenProperties
<1>4. moves = Append(front, moves[n])
  BY <1>1, <1>2, <1>3, AppendProperties, SeqEqual
<1> HIDE DEF n, front
<1>5. Separate(front)
  BY <1>1, <1>2, <1>3 DEF Separate
<1>6. \A i \in DOMAIN front : front[i].cell # moves[n].cell
  BY <1>1, <1>2, <1>3 DEF Separate
<1>7. /\ Rules!BoardOf(moves) = [Rules!BoardOf(front) EXCEPT ![moves[n].cell] = moves[n].mark]
      /\ Rules!BoardOf(front)[moves[n].cell] = Empty
  <2>1. moves[n] \in Moves /\ front \in Seq(Moves)
    BY <1>1, <1>2
  <2>2. /\ Rules!BoardOf(Append(front, moves[n]))
             = [Rules!BoardOf(front) EXCEPT ![moves[n].cell] = moves[n].mark]
        /\ Rules!BoardOf(front)[moves[n].cell] = Empty
    BY <2>1, <1>5, <1>6, BoardOfAppend
  <2>3. QED BY <2>2, <1>4
<1>8. Rules!BoardOf(front) \in Rules!Boards /\ moves[n].cell \in Cells
  <2>1. Rules!BoardOf(front) \in Rules!Boards
    BY <1>2, <1>5, BoardOfCell
  <2>2. moves[n] \in Moves
    BY <1>1
  <2>3. QED BY <2>1, <2>2 DEF Moves, Rules!Moves
<1>9. Rules!BoardOf(front) = [Rules!BoardOf(moves) EXCEPT ![moves[n].cell] = Empty]
  BY <1>7, <1>8 DEF Rules!Boards
<1>10. QED BY <1>9 DEF n, front
-------------------------------------------------------------------------------
(* The invariant. *)

LastMove == played[Len(played)]
Table == Rules!BoardOf(played)

MatchTypes ==
  /\ wire \in [Players -> Seq(Messages)]
  /\ board \in [Players -> Rules!Boards] /\ turn \in [Players -> Players]
  /\ done \in [Players -> Results] /\ sending \in [Players -> SUBSET Cells]
  /\ played \in Seq(Moves) /\ Separate(played)

\* Each board is the table, but for the last move until it arrives.
Boarded ==
  \A p \in Players :
    board[p] = IF Unseen(p) THEN [Table EXCEPT ![LastMove.cell] = Empty] ELSE Table

ToMove(p) == IF played = <<>> THEN p = X ELSE LastMove.mark # p

Turned == \A p \in Players : done[p] = "no" => (turn[p] = p <=> ~Unseen(p) /\ ToMove(p))

Undecided == Cells # {} => \A p \in Players : done[p] = "no" => ~Rules!Decided(board[p])

IsMove(w, i) == i \in DOMAIN w /\ w[i].type = "move"

\* The only move on its way to a player is the last one, which it has not seen.
OnWire ==
  \A p \in Players : \A i \in DOMAIN wire[p] :
    IsMove(wire[p], i) => /\ Unseen(p) /\ wire[p][i].cell = {LastMove.cell}
                          /\ \A j \in DOMAIN wire[p] : IsMove(wire[p], j) => j = i

\* Nor is any other still to be sent.
ToSend ==
  \A p \in Players : \A cell \in sending[p] :
    /\ Unseen(Other(p)) /\ cell = LastMove.cell
    /\ \A i \in DOMAIN wire[Other(p)] : ~IsMove(wire[Other(p)], i)

MatchInv == MatchTypes /\ Boarded /\ Turned /\ Undecided /\ OnWire /\ ToSend

\* What becomes of a wire on which no move is written.
Fewer(v, w) ==
  \/ v = <<>> \/ v = w
  \/ w # <<>> /\ v = Tail(w)
  \/ \E msg \in Messages : msg.type # "move" /\ v = Append(w, msg)

LEMMA FewerMoves ==
  ASSUME NEW w \in Seq(Messages), NEW v, Fewer(v, w)
  PROVE  /\ v \in Seq(Messages)
         /\ \A i : IsMove(v, i) => \E j : IsMove(w, j) /\ v[i] = w[j]
         /\ (\A i, j : IsMove(w, i) /\ IsMove(w, j) => i = j)
              => \A i, j : IsMove(v, i) /\ IsMove(v, j) => i = j
<1> USE DEF IsMove
<1>1. CASE v = <<>>
  BY <1>1
<1>2. CASE v = w
  BY <1>2
<1>3. CASE w # <<>> /\ v = Tail(w)
  <2>1. /\ v \in Seq(Messages) /\ DOMAIN v = 1..(Len(w) - 1) /\ DOMAIN w = 1..Len(w)
        /\ Len(w) \in Nat /\ \A i \in DOMAIN v : v[i] = w[i + 1]
    BY <1>3, HeadTailProperties, LenProperties
  <2>2. \A i \in DOMAIN v : i + 1 \in DOMAIN w
    BY <2>1
  <2>3. ASSUME \A i, j : IsMove(w, i) /\ IsMove(w, j) => i = j, NEW i, NEW j,
               IsMove(v, i), IsMove(v, j)
        PROVE  i = j
    <3>1. IsMove(w, i + 1) /\ IsMove(w, j + 1)
      BY <2>1, <2>2, <2>3
    <3>2. i + 1 = j + 1 /\ i \in Int /\ j \in Int
      BY <3>1, <2>1, <2>3
    <3>3. QED BY <3>2
  <2>4. QED BY <2>1, <2>2, <2>3
<1>4. ASSUME NEW msg \in Messages, msg.type # "move", v = Append(w, msg)
      PROVE  /\ v \in Seq(Messages)
             /\ \A i : IsMove(v, i) => IsMove(w, i) /\ v[i] = w[i]
  <2>1. /\ v \in Seq(Messages) /\ DOMAIN v = 1..(Len(w) + 1) /\ DOMAIN w = 1..Len(w)
        /\ Len(w) \in Nat /\ v[Len(w) + 1] = msg /\ \A i \in DOMAIN w : v[i] = w[i]
    BY <1>4, AppendProperties, LenProperties
  <2>2. QED BY <2>1, <1>4
<1>5. QED BY <1>1, <1>2, <1>3, <1>4 DEF Fewer

\* A step that makes, sends and receives no move keeps the invariant.
LEMMA Quiet ==
  ASSUME MatchInv, UNCHANGED <<board, turn, sending, played>>,
         wire' \in [Players -> Seq(Messages)], done' \in [Players -> Results],
         \A p \in Players : Fewer(wire'[p], wire[p]) /\ (done'[p] = "no" => done[p] = "no")
  PROVE  MatchInv'
<1>1. MatchTypes'
  BY DEF MatchInv, MatchTypes
<1>2. \A p : Unseen(p)' <=> Unseen(p)
  BY DEF Unseen
<1>3. Boarded' /\ Turned' /\ Undecided'
  BY <1>2 DEF MatchInv, Boarded, Turned, Undecided, ToMove, LastMove, Table
<1>4. \A p \in Players :
        /\ \A i : IsMove(wire'[p], i) => \E j : IsMove(wire[p], j) /\ wire'[p][i] = wire[p][j]
        /\ (\A i, j : IsMove(wire[p], i) /\ IsMove(wire[p], j) => i = j)
             => \A i, j : IsMove(wire'[p], i) /\ IsMove(wire'[p], j) => i = j
  <2> SUFFICES ASSUME NEW p \in Players
               PROVE  /\ \A i : IsMove(wire'[p], i)
                                => \E j : IsMove(wire[p], j) /\ wire'[p][i] = wire[p][j]
                      /\ (\A i, j : IsMove(wire[p], i) /\ IsMove(wire[p], j) => i = j)
                           => \A i, j : IsMove(wire'[p], i) /\ IsMove(wire'[p], j) => i = j
    OBVIOUS
  <2>1. wire[p] \in Seq(Messages) /\ Fewer(wire'[p], wire[p])
    BY DEF MatchInv, MatchTypes
  <2>2. QED BY <2>1, FewerMoves, Zenon
<1>5. \A p \in Players : \A i, j : IsMove(wire[p], i) /\ IsMove(wire[p], j) => i = j
  BY DEF MatchInv, OnWire, IsMove
<1>6. OnWire'
  <2> SUFFICES ASSUME NEW p \in Players, NEW i, IsMove(wire'[p], i)
               PROVE  /\ Unseen(p) /\ wire'[p][i].cell = {LastMove.cell}
                      /\ \A j : IsMove(wire'[p], j) => j = i
    BY <1>2 DEF OnWire, LastMove
  <2>1. PICK j : IsMove(wire[p], j) /\ wire'[p][i] = wire[p][j]
    BY <1>4
  <2>2. j \in DOMAIN wire[p]
    BY <2>1 DEF IsMove
  <2>3. Unseen(p) /\ wire'[p][i].cell = {LastMove.cell}
    BY <2>1, <2>2 DEF MatchInv, OnWire
  <2>4. \A k : IsMove(wire'[p], k) => k = i
    BY <1>4, <1>5
  <2>5. QED BY <2>3, <2>4
<1>7. ToSend'
  <2> SUFFICES ASSUME NEW p \in Players, NEW cell \in sending[p]
               PROVE  /\ Unseen(Other(p)) /\ cell = LastMove.cell
                      /\ \A i : ~IsMove(wire'[Other(p)], i)
    BY <1>2 DEF ToSend, LastMove
  <2>1. Other(p) \in Players
    BY DEF Other, Players, Rules!Other, Rules!Marks
  <2>2. \A i : ~IsMove(wire[Other(p)], i)
    BY DEF MatchInv, ToSend, IsMove
  <2>3. QED BY <2>1, <2>2, <1>4 DEF MatchInv, ToSend
<1>8. QED BY <1>1, <1>3, <1>6, <1>7 DEF MatchInv

LEMMA Opponent == \A p \in Players : Other(p) \in Players /\ Other(p) # p /\ Other(Other(p)) = p
                                    /\ \A q \in Players : q # p => q = Other(p)
  BY DEF Other, Players, Rules!Other, Rules!Marks, Rules!X, Rules!O

LEMMA InitMatch == Init => MatchInv
<1> SUFFICES ASSUME Init PROVE MatchInv
  OBVIOUS
<1> USE DEF Init
<1>1. played \in Seq(Moves) /\ Separate(played) /\ DOMAIN played = {} /\ played = <<>>
  BY DEF Separate
<1>2. Rules!NewBoard \in Rules!Boards /\ \A c \in Cells : Rules!NewBoard[c] = Empty
  BY DEF Rules!NewBoard, Rules!Boards, Empty
<1>3. Table \in Rules!Boards /\ \A c \in Cells : Table[c] = Empty
  BY <1>1, BoardOfCell DEF Table
<1>4. Table = Rules!NewBoard
  BY <1>2, <1>3 DEF Rules!Boards
<1>5. X \in Players
  BY DEF X, Players, Rules!Marks
<1>6. MatchTypes
  BY <1>1, <1>2, <1>5 DEF MatchTypes, Results
<1>7. \A p \in Players : ~Unseen(p)
  BY DEF Unseen
<1>8. Boarded /\ Turned
  BY <1>4, <1>7, <1>5 DEF Boarded, Turned, ToMove
<1>9. Undecided
  <2> SUFFICES ASSUME Cells # {} PROVE ~Rules!Decided(Rules!NewBoard)
    BY DEF Undecided
  <2>1. ~Rules!Full(Rules!NewBoard)
    BY <1>2 DEF Rules!Full, Empty
  <2>2. ASSUME NEW mark \in Rules!Marks PROVE ~Rules!Wins(Rules!NewBoard, mark)
    <3>1. mark # Empty
      BY DEF Rules!Marks, Rules!X, Rules!O, Empty, Rules!Empty
    <3>2. ASSUME NEW line \in Lines PROVE \E c \in line : c \in Cells
      BY BoardAssumption
    <3>3. QED BY <3>1, <3>2, <1>2 DEF Rules!Wins
  <2>3. QED BY <2>1, <2>2 DEF Rules!Decided
<1>10. OnWire /\ ToSend
  BY DEF OnWire, ToSend
<1>11. QED BY <1>6, <1>8, <1>9, <1>10 DEF MatchInv

-------------------------------------------------------------------------------
(* Steps that make, send and receive no move. *)

LEMMA Writing ==
  ASSUME MatchInv, NEW p \in Players, NEW msg \in Messages
  PROVE  /\ Written(p, msg) \in [Players -> Seq(Messages)]
         /\ Written(p, msg)[p] = wire[p]
         /\ \/ Written(p, msg)[Other(p)] = wire[Other(p)]
            \/ Written(p, msg)[Other(p)] = Append(wire[Other(p)], msg)
<1>1. wire \in [Players -> Seq(Messages)] /\ Other(p) \in Players /\ Other(p) # p
  BY Opponent DEF MatchInv, MatchTypes
<1>2. Append(wire[Other(p)], msg) \in Seq(Messages)
  BY <1>1
<1>3. QED BY <1>1, <1>2 DEF Written

LEMMA Answers ==
  /\ Accept \in Messages /\ Deny \in Messages /\ ResignMsg \in Messages
  /\ Accept.type # "move" /\ Deny.type # "move" /\ ResignMsg.type # "move"
  BY DEF Accept, Deny, ResignMsg, Messages, Msg, NoCell

\* Writing an answer, closing, reading.
LEMMA QuietWires ==
  ASSUME MatchInv, NEW p \in Players, NEW msg \in Messages, msg.type # "move",
         \/ UNCHANGED wire
         \/ wire' = Written(p, msg)
         \/ Closed(p, Written(p, msg))
         \/ Closed(p, wire)
         \/ wire[p] # <<>> /\ Take(p)
  PROVE  /\ wire' \in [Players -> Seq(Messages)]
         /\ \A q \in Players : Fewer(wire'[q], wire[q])
<1>1. wire \in [Players -> Seq(Messages)] /\ Other(p) \in Players /\ Other(p) # p
      /\ \A q \in Players : q = p \/ q = Other(p)
  BY Opponent DEF MatchInv, MatchTypes
<1>2. /\ Written(p, msg) \in [Players -> Seq(Messages)]
      /\ \A q \in Players : Fewer(Written(p, msg)[q], wire[q])
  <2>1. /\ Written(p, msg) \in [Players -> Seq(Messages)]
        /\ Written(p, msg)[p] = wire[p]
        /\ \/ Written(p, msg)[Other(p)] = wire[Other(p)]
           \/ Written(p, msg)[Other(p)] = Append(wire[Other(p)], msg)
    BY Writing
  <2>2. Fewer(Written(p, msg)[p], wire[p])
    BY <2>1 DEF Fewer
  <2>3. Fewer(Written(p, msg)[Other(p)], wire[Other(p)])
    BY <2>1 DEF Fewer
  <2>4. QED BY <1>1, <2>1, <2>2, <2>3
<1>3. CASE UNCHANGED wire
  BY <1>1, <1>3 DEF Fewer
<1>4. CASE wire' = Written(p, msg)
  BY <1>2, <1>4
<1>5. CASE Closed(p, Written(p, msg))
  <2>1. wire' = [Written(p, msg) EXCEPT ![p] = <<>>]
    BY <1>5 DEF Closed
  <2>2. \A q \in Players : wire'[q] = <<>> \/ wire'[q] = Written(p, msg)[q]
    BY <2>1, <1>2
  <2>3. wire' \in [Players -> Seq(Messages)]
    BY <2>1, <1>2
  <2>4. QED BY <2>2, <2>3, <1>2 DEF Fewer
<1>6. CASE Closed(p, wire)
  BY <1>1, <1>6 DEF Closed, Fewer
<1>7. CASE wire[p] # <<>> /\ Take(p)
  <2>1. Tail(wire[p]) \in Seq(Messages)
    BY <1>1, <1>7
  <2>2. QED BY <2>1, <1>1, <1>7 DEF Take, Fewer
<1>8. QED BY <1>3, <1>4, <1>5, <1>6, <1>7

LEMMA InvitationKeeps ==
  ASSUME MatchInv,
         Challenge \/ Break \/ HandlerTimeout \/ PressYes \/ PressNo \/ Invitation
  PROVE  MatchInv' /\ UNCHANGED played
<1> USE DEF gameVars, connVars, inviteVars
<1>1. UNCHANGED <<board, turn, done, sending, played>>
  BY DEF Challenge, Break, HandlerTimeout, PressYes, PressNo, Invitation, ShowInvite,
         HandlerAccepts, HandlerDenies, ReadAnswer, ChallengeFails, StartAtO
<1>2. X \in Players /\ O \in Players
  BY DEF X, O, Players, Rules!Marks
<1>3. /\ wire' \in [Players -> Seq(Messages)]
      /\ \A q \in Players : Fewer(wire'[q], wire[q])
  <2>1. CASE Challenge \/ PressYes \/ PressNo \/ ShowInvite \/ StartAtO
    <3>1. UNCHANGED wire
      BY <2>1 DEF Challenge, PressYes, PressNo, ShowInvite, StartAtO
    <3>2. QED BY <3>1, <1>2, Answers, QuietWires
  <2>2. CASE Break
    BY <2>2 DEF Break, Fewer
  <2>3. CASE HandlerTimeout \/ HandlerDenies
    BY <2>3, <1>2, Answers, QuietWires DEF HandlerTimeout, HandlerDenies
  <2>4. CASE HandlerAccepts
    BY <2>4, <1>2, Answers, QuietWires DEF HandlerAccepts
  <2>5. CASE ReadAnswer
    BY <2>5, <1>2, Answers, QuietWires DEF ReadAnswer
  <2>6. CASE ChallengeFails
    BY <2>6, <1>2, Answers, QuietWires DEF ChallengeFails
  <2>7. QED BY <2>1, <2>2, <2>3, <2>4, <2>5, <2>6 DEF Invitation
<1>4. done' \in [Players -> Results] /\ \A p \in Players : done'[p] = "no" => done[p] = "no"
  BY <1>1 DEF MatchInv, MatchTypes
<1>5. QED BY <1>1, <1>3, <1>4, Quiet

LEMMA EndingKeeps ==
  ASSUME MatchInv, NEW p \in Players, Resign(p) \/ ReceiveResign(p) \/ LoseOpponent(p)
  PROVE  MatchInv' /\ UNCHANGED played
<1> USE DEF gameVars, connVars, inviteVars
<1>1. UNCHANGED <<board, turn, sending, played>>
  BY DEF Resign, ReceiveResign, LoseOpponent
<1>2. /\ wire' \in [Players -> Seq(Messages)]
      /\ \A q \in Players : Fewer(wire'[q], wire[q])
  <2>1. CASE Resign(p)
    BY <2>1, Answers, QuietWires DEF Resign
  <2>2. CASE ReceiveResign(p)
    BY <2>2, Answers, QuietWires DEF ReceiveResign
  <2>3. CASE LoseOpponent(p)
    <3>1. UNCHANGED wire
      BY <2>3 DEF LoseOpponent
    <3>2. QED BY <3>1, Answers, QuietWires
  <2>4. QED BY <2>1, <2>2, <2>3
<1>3. done' \in [Players -> Results] /\ \A q \in Players : done'[q] = "no" => done[q] = "no"
  BY DEF Resign, ReceiveResign, LoseOpponent, End, MatchInv, MatchTypes, Results
<1>4. QED BY <1>1, <1>2, <1>3, Quiet

-------------------------------------------------------------------------------
(* Moves. *)

LEMMA LastPlayed ==
  ASSUME played \in Seq(Moves), played # <<>>
  PROVE  /\ LastMove \in Moves /\ LastMove.mark \in Players /\ LastMove.cell \in Cells
         /\ played[Len(played)].mark \in Players
<1>1. Len(played) \in 1..Len(played)
  BY EmptySeq
<1>2. LastMove \in Moves
  BY <1>1, ElementOfSeq DEF LastMove
<1>3. QED BY <1>2 DEF Moves, Rules!Moves, Players, LastMove

\* Where p may move the table is what p sees, and no move is under way.
LEMMA MovesAlternate ==
  ASSUME MatchInv, NEW p \in Players, done[p] = "no", turn[p] = p
  PROVE  /\ ~Unseen(p) /\ ~Unseen(Other(p)) /\ ToMove(p)
         /\ board[p] = Table /\ board[Other(p)] = Table
         /\ sending[p] = {} /\ sending[Other(p)] = {}
         /\ \A q \in Players : \A i : ~IsMove(wire[q], i)
<1>1. ~Unseen(p) /\ ToMove(p)
  BY DEF MatchInv, Turned
<1>2. ~Unseen(Other(p))
  BY <1>1, Opponent DEF Unseen, ToMove, LastMove
<1>3. \A q \in Players : ~Unseen(q)
  BY <1>1, <1>2, Opponent
<1>4. \A q \in Players : board[q] = Table
  BY <1>3 DEF MatchInv, Boarded
<1>5. \A q \in Players : sending[q] = {}
  BY <1>3, Opponent DEF MatchInv, ToSend
<1>6. \A q \in Players : \A i : ~IsMove(wire[q], i)
  BY <1>3 DEF MatchInv, OnWire, IsMove
<1>7. QED BY <1>1, <1>2, <1>4, <1>5, <1>6, Opponent

LEMMA AttemptKeeps ==
  ASSUME MatchInv, NEW p \in Players, NEW cell \in Cells, AttemptMove(p, cell)
  PROVE  /\ MatchInv' /\ Game!Move(p, cell)
         /\ played' # <<>> /\ [Table' EXCEPT ![LastMove'.cell] = Empty] = Table
         /\ ~Unseen(p)' /\ Unseen(Other(p))' /\ Table' = [Table EXCEPT ![cell] = p]
         /\ board[p] = Table /\ board'[p] = Table' /\ board'[Other(p)] = board[Other(p)]
<1> DEFINE q == Other(p)
           move == [mark |-> p, cell |-> cell]
<1>1. q \in Players /\ q # p /\ \A r \in Players : r = p \/ r = q
  BY Opponent
<1>2. /\ done[p] = "no" /\ turn[p] = p /\ board[p][cell] = Empty
      /\ board' = Mark(p, cell, p) /\ Record(p, cell)
  BY DEF AttemptMove, Playing
<1>3. /\ ~Unseen(p) /\ ~Unseen(q) /\ ToMove(p) /\ board[p] = Table /\ board[q] = Table
      /\ sending[p] = {} /\ sending[q] = {} /\ \A r \in Players : \A i : ~IsMove(wire[r], i)
  BY <1>2, MovesAlternate
<1> HIDE DEF q
<1>4. /\ played \in Seq(Moves) /\ Separate(played) /\ move \in Moves
      /\ Len(played) \in Nat /\ DOMAIN played = 1..Len(played)
  <2>1. move \in Moves
    BY DEF Moves, Rules!Moves, Players
  <2>2. QED BY <2>1, LenProperties DEF MatchInv, MatchTypes
<1>5. \A i \in DOMAIN played : played[i].cell # move.cell
  <2>1. \A i \in DOMAIN played : Table[played[i].cell] = played[i].mark /\ played[i] \in Moves
    BY <1>4, BoardOfCell, ElementOfSeq DEF Table
  <2>2. \A mark \in Rules!Marks : mark # Empty
    BY DEF Rules!Marks, Rules!X, Rules!O, Empty, Rules!Empty
  <2>3. QED BY <2>1, <2>2, <1>2, <1>3 DEF Moves, Rules!Moves
<1>6. /\ played' = Append(played, move) /\ played' # <<>> /\ Len(played') = Len(played) + 1
      /\ LastMove' = move
  BY <1>2, <1>4, AppendProperties DEF Record, LastMove
<1>7. /\ played' \in Seq(Moves) /\ Separate(played)'
      /\ Table' = [Table EXCEPT ![cell] = p] /\ Table[cell] = Empty
  <2>1. /\ Append(played, move) \in Seq(Moves) /\ Separate(Append(played, move))
        /\ Rules!BoardOf(Append(played, move))
             = [Rules!BoardOf(played) EXCEPT ![move.cell] = move.mark]
        /\ Rules!BoardOf(played)[move.cell] = Empty
    BY <1>4, <1>5, BoardOfAppend
  <2>2. QED BY <2>1, <1>6 DEF Table
<1>8. Table \in Rules!Boards /\ board \in [Players -> Rules!Boards]
  BY <1>4, BoardOfCell DEF Table, MatchInv, MatchTypes
<1>9. board'[p] = Table' /\ board'[q] = Table /\ board' \in [Players -> Rules!Boards]
  BY <1>1, <1>2, <1>3, <1>7, <1>8 DEF Mark, Rules!Boards, Players
<1>10. ~Unseen(p)' /\ Unseen(q)'
  <2>1. Unseen(p)' <=> p = Other(p) /\ board'[p][cell] = Empty
    BY <1>6 DEF Unseen, LastMove
  <2>2. Unseen(q)' <=> p = Other(q) /\ board'[q][cell] = Empty
    BY <1>6 DEF Unseen, LastMove
  <2>3. QED BY <2>1, <2>2, <1>1, <1>7, <1>9, Opponent DEF q
<1>11. Boarded' /\ Table = [Table' EXCEPT ![LastMove'.cell] = Empty]
  <2>1. Table = [Table' EXCEPT ![cell] = Empty]
    BY <1>7, <1>8 DEF Rules!Boards
  <2>2. QED BY <2>1, <1>1, <1>6, <1>9, <1>10 DEF Boarded
<1>12. Turned'
  <2>1. done'[q] = done[q] /\ turn'[q] = turn[q]
    BY <1>1 DEF AttemptMove, End, MatchInv, MatchTypes
  <2>2. done[q] = "no" => turn[q] # q
    <3>1. ~ToMove(q)
      BY <1>1, <1>3, <1>4, LastPlayed DEF ToMove, LastMove
    <3>2. QED BY <3>1, <1>1 DEF MatchInv, Turned
  <2>3. done'[p] = "no" => turn'[p] = q
    BY <1>1, <1>2 DEF AttemptMove, End, MatchInv, MatchTypes, q
  <2>4. ~ToMove(p)'
    BY <1>6 DEF ToMove
  <2>5. QED BY <2>1, <2>2, <2>3, <2>4, <1>1, <1>10 DEF Turned
<1>13. Undecided'
  <2>1. done'[q] = done[q] /\ (done'[p] = "no" => ~Rules!Decided(board'[p]))
    BY <1>1, <1>2 DEF AttemptMove, End, MatchInv, MatchTypes
  <2>2. done[q] = "no" => ~Rules!Decided(board'[q])
    BY <1>1, <1>3, <1>9 DEF MatchInv, Undecided
  <2>3. QED BY <2>1, <2>2, <1>1 DEF Undecided
<1>14. Msg("move", {cell}) \in Messages
  BY DEF Msg, Messages
<1>15. wire \in [Players -> Seq(Messages)] /\ sending \in [Players -> SUBSET Cells]
  BY DEF MatchInv, MatchTypes
<1>16. Game!Move(p, cell)
  <2>1. ~Rules!Decided(Table)
    BY <1>2, <1>3 DEF MatchInv, Undecided
  <2>2. p = IF played = <<>> THEN X ELSE Other(played[Len(played)].mark)
    <3>1. played # <<>> => played[Len(played)].mark \in Players
      BY <1>4, LastPlayed
    <3>2. QED BY <3>1, <1>3, Opponent DEF ToMove, LastMove
  <2>3. QED BY <2>1, <2>2, <1>2, <1>3, <1>6
       DEF Game!Move, Table, Game!Decided, Rules!Decided, Game!BoardOf, Rules!BoardOf,
           Game!Wins, Rules!Wins, Game!Full, Rules!Full, Game!Marks, Rules!Marks,
           Game!Empty, Rules!Empty, Empty, Game!X, Rules!X, X, Game!O, Rules!O,
           Game!Other, Rules!Other, Other
<1>17. ASSUME ~Rules!Decided(board'[p]) PROVE MatchInv'
  <2>1. wire' = wire /\ sending' = [sending EXCEPT ![p] = {cell}]
    BY <1>3, <1>17 DEF AttemptMove
  <2>2. MatchTypes'
    <3>1. turn' = [turn EXCEPT ![p] = q] /\ UNCHANGED done
      BY <1>17 DEF AttemptMove, q
    <3>2. sending' \in [Players -> SUBSET Cells]
      BY <2>1, <1>15
    <3>3. QED BY <3>1, <3>2, <2>1, <1>1, <1>7, <1>9 DEF MatchInv, MatchTypes
  <2>3. OnWire'
    BY <2>1, <1>3 DEF OnWire
  <2>4. ToSend'
    BY <2>1, <1>1, <1>3, <1>6, <1>10, <1>15 DEF ToSend, q
  <2>5. QED BY <2>2, <2>3, <2>4, <1>11, <1>12, <1>13 DEF MatchInv
<1>18. ASSUME Rules!Decided(board'[p]) PROVE MatchInv'
  <2>1. Closed(p, Written(p, Msg("move", {cell}))) /\ UNCHANGED <<turn, sending>>
    BY <1>18 DEF AttemptMove
  <2>2. /\ Written(p, Msg("move", {cell})) \in [Players -> Seq(Messages)]
        /\ \/ Written(p, Msg("move", {cell}))[q] = wire[q]
           \/ Written(p, Msg("move", {cell}))[q] = Append(wire[q], Msg("move", {cell}))
    BY <1>14, Writing DEF q
  <2>3. /\ wire' \in [Players -> Seq(Messages)] /\ wire'[p] = <<>>
        /\ wire'[q] = wire[q] \/ wire'[q] = Append(wire[q], Msg("move", {cell}))
    <3>1. wire' = [Written(p, Msg("move", {cell})) EXCEPT ![p] = <<>>]
      BY <2>1 DEF Closed
    <3>2. <<>> \in Seq(Messages)
      OBVIOUS
    <3>3. QED BY <3>1, <3>2, <2>2, <1>1
  <2>4. MatchTypes'
    BY <2>1, <2>3, <1>7, <1>9, <1>18 DEF AttemptMove, End, MatchInv, MatchTypes, Results
  <2>5. \A i : IsMove(wire'[q], i) => /\ i = Len(wire[q]) + 1
                                       /\ wire'[q][i] = Msg("move", {cell})
    <3>1. CASE wire'[q] = wire[q]
      BY <3>1, <1>1, <1>3
    <3>2. CASE wire'[q] = Append(wire[q], Msg("move", {cell}))
      <4>1. wire[q] \in Seq(Messages)
        BY <1>1, <1>15
      <4>2. /\ DOMAIN wire'[q] = 1..(Len(wire[q]) + 1) /\ DOMAIN wire[q] = 1..Len(wire[q])
            /\ \A i \in DOMAIN wire[q] : wire'[q][i] = wire[q][i]
            /\ wire'[q][Len(wire[q]) + 1] = Msg("move", {cell}) /\ Len(wire[q]) \in Nat
        BY <4>1, <3>2, <1>14, AppendProperties, LenProperties
      <4>3. QED BY <4>2, <1>1, <1>3 DEF IsMove
    <3>3. QED BY <2>3, <3>1, <3>2
  <2>6. OnWire'
    <3> SUFFICES ASSUME NEW i, IsMove(wire'[q], i)
                 PROVE  /\ Unseen(q)' /\ wire'[q][i].cell = {LastMove'.cell}
                        /\ \A j : IsMove(wire'[q], j) => j = i
      BY <2>3, <1>1 DEF OnWire, IsMove
    <3>1. QED BY <2>5, <1>6, <1>10 DEF Msg
  <2>7. ToSend'
    BY <2>1, <1>1, <1>3 DEF ToSend
  <2>8. QED BY <2>4, <2>6, <2>7, <1>11, <1>12, <1>13 DEF MatchInv
<1>19. QED BY <1>3, <1>6, <1>7, <1>9, <1>10, <1>11, <1>16, <1>17, <1>18 DEF q

LEMMA SendKeeps ==
  ASSUME MatchInv, NEW p \in Players, NEW cell \in Cells, SendMove(p, cell)
  PROVE  MatchInv' /\ UNCHANGED played
<1> DEFINE q == Other(p)
           msg == Msg("move", {cell})
<1>1. q \in Players /\ q # p /\ Other(q) = p /\ \A r \in Players : r = p \/ r = q
  BY Opponent
<1> HIDE DEF q
<1>2. /\ cell \in sending[p] /\ sending' = [sending EXCEPT ![p] = @ \ {cell}]
      /\ UNCHANGED <<board, turn, played, screen>>
  BY DEF SendMove
<1>3. /\ Unseen(q) /\ cell = LastMove.cell /\ \A i : ~IsMove(wire[q], i)
      /\ \A other \in sending[p] : other = cell
  BY <1>2 DEF MatchInv, ToSend, IsMove, q
<1>4. /\ wire \in [Players -> Seq(Messages)] /\ sending \in [Players -> SUBSET Cells]
      /\ done \in [Players -> Results]
  BY DEF MatchInv, MatchTypes
<1>5. msg \in Messages
  BY DEF Msg, Messages
<1>6. /\ wire' \in [Players -> Seq(Messages)] /\ wire'[p] = wire[p]
      /\ wire'[q] = wire[q] \/ wire'[q] = Append(wire[q], msg)
  <2>1. wire' = wire \/ wire' = Written(p, msg)
    BY DEF SendMove
  <2>2. /\ Written(p, msg) \in [Players -> Seq(Messages)] /\ Written(p, msg)[p] = wire[p]
        /\ Written(p, msg)[q] = wire[q] \/ Written(p, msg)[q] = Append(wire[q], msg)
    BY <1>5, Writing DEF q
  <2>3. QED BY <2>1, <2>2, <1>4
<1>7. \A r : Unseen(r)' <=> Unseen(r)
  BY <1>2 DEF Unseen
<1>8. sending' \in [Players -> SUBSET Cells] /\ sending'[p] = {} /\ sending'[q] = sending[q]
  BY <1>1, <1>2, <1>3, <1>4
<1>9. done' \in [Players -> Results] /\ \A r \in Players : done'[r] = "no" => done[r] = "no"
  BY <1>4 DEF SendMove, End, Playing, Results
<1>10. MatchTypes'
  BY <1>2, <1>6, <1>8, <1>9 DEF MatchInv, MatchTypes
<1>11. Boarded' /\ Turned' /\ Undecided'
  BY <1>2, <1>7, <1>9 DEF MatchInv, Boarded, Turned, Undecided, ToMove, LastMove, Table
<1>12. \A i : IsMove(wire'[q], i) => i = Len(wire[q]) + 1 /\ wire'[q][i] = msg
  <2>1. CASE wire'[q] = wire[q]
    BY <2>1, <1>3
  <2>2. CASE wire'[q] = Append(wire[q], msg)
    <3>1. wire[q] \in Seq(Messages)
      BY <1>1, <1>4
    <3>2. /\ DOMAIN wire'[q] = 1..(Len(wire[q]) + 1) /\ DOMAIN wire[q] = 1..Len(wire[q])
          /\ \A i \in DOMAIN wire[q] : wire'[q][i] = wire[q][i]
          /\ wire'[q][Len(wire[q]) + 1] = msg /\ Len(wire[q]) \in Nat
      BY <3>1, <2>2, <1>5, AppendProperties, LenProperties
    <3>3. QED BY <3>2, <1>3 DEF IsMove
  <2>3. QED BY <1>6, <2>1, <2>2
<1>13. OnWire'
  <2> SUFFICES ASSUME NEW r \in Players, NEW i, IsMove(wire'[r], i)
               PROVE  /\ Unseen(r) /\ wire'[r][i].cell = {LastMove.cell}
                      /\ \A j : IsMove(wire'[r], j) => j = i
    BY <1>2, <1>7 DEF OnWire, LastMove
  <2>1. CASE r = p
    BY <2>1, <1>6 DEF MatchInv, OnWire, IsMove
  <2>2. CASE r = q
    BY <2>2, <1>3, <1>12 DEF Msg
  <2>3. QED BY <2>1, <2>2, <1>1
<1>14. ToSend'
  <2> SUFFICES ASSUME NEW r \in Players, NEW other \in sending'[r]
               PROVE  /\ Unseen(Other(r)) /\ other = LastMove.cell
                      /\ \A i : ~IsMove(wire'[Other(r)], i)
    BY <1>2, <1>7 DEF ToSend, LastMove
  <2>1. r = q /\ Other(r) = p /\ other \in sending[q]
    BY <1>1, <1>8
  <2>2. QED BY <2>1, <1>1, <1>6 DEF MatchInv, ToSend, IsMove
<1>15. QED BY <1>2, <1>10, <1>11, <1>13, <1>14 DEF MatchInv

\* The move that arrives is the one the board lacks.
LEMMA ReceiveKeeps ==
  ASSUME MatchInv, NEW p \in Players, ReceiveMove(p)
  PROVE  /\ MatchInv' /\ UNCHANGED played
         /\ ~Unseen(p)' /\ ~Unseen(Other(p))' /\ board'[Other(p)] = board[Other(p)]
         /\ Cells # {}
<1> DEFINE q == Other(p)
           cells == Head(wire[p]).cell
<1>1. q \in Players /\ q # p /\ Other(q) = p /\ \A r \in Players : r = p \/ r = q
  BY Opponent
<1> HIDE DEF q
<1>2. /\ done[p] = "no" /\ wire[p] # <<>> /\ Head(wire[p]).type = "move"
      /\ board' = Opponents(p, cells) /\ UNCHANGED <<sending, played>>
  BY DEF ReceiveMove, Playing
<1>3. /\ wire \in [Players -> Seq(Messages)] /\ board \in [Players -> Rules!Boards]
      /\ done \in [Players -> Results] /\ turn \in [Players -> Players]
      /\ played \in Seq(Moves) /\ Separate(played)
  BY DEF MatchInv, MatchTypes
<1>4. IsMove(wire[p], 1) /\ 1 \in DOMAIN wire[p] /\ wire[p][1] = Head(wire[p])
  <2>1. wire[p] \in Seq(Messages)
    BY <1>3
  <2>2. 1 \in DOMAIN wire[p] /\ wire[p][1] = Head(wire[p])
    BY <2>1, <1>2, LenProperties, EmptySeq
  <2>3. QED BY <2>2, <1>2 DEF IsMove
<1>5. Unseen(p) /\ cells = {LastMove.cell} /\ \A j : IsMove(wire[p], j) => j = 1
  BY <1>4 DEF MatchInv, OnWire, IsMove
<1> HIDE DEF cells
<1>6. /\ played # <<>> /\ LastMove.mark = q /\ board[p][LastMove.cell] = Empty
      /\ LastMove.cell \in Cells /\ ~Unseen(q)
  BY <1>1, <1>3, <1>5, LastPlayed DEF Unseen, LastMove, q
<1>7. Table \in Rules!Boards /\ Table[LastMove.cell] = q
  <2>1. Len(played) \in DOMAIN played
    BY <1>3, <1>6, LenProperties, EmptySeq
  <2>2. QED BY <2>1, <1>3, <1>6, BoardOfCell DEF Table, LastMove
<1>8. board[p] = [Table EXCEPT ![LastMove.cell] = Empty] /\ board[q] = Table
  BY <1>1, <1>5, <1>6 DEF MatchInv, Boarded
<1>9. board' \in [Players -> Rules!Boards] /\ board'[p] = Table /\ board'[q] = Table
  <2>1. [c \in Cells |-> IF c \in cells /\ board[p][c] = Empty THEN q ELSE board[p][c]] = Table
    BY <1>5, <1>6, <1>7, <1>8 DEF Rules!Boards
  <2>2. board' = [board EXCEPT ![p] = Table]
    BY <2>1, <1>2 DEF Opponents, q
  <2>3. QED BY <2>2, <1>1, <1>3, <1>7, <1>8
<1>10. ~Unseen(p)' /\ ~Unseen(q)'
  <2>1. Unseen(p)' => board'[p][LastMove.cell] = Empty
    BY <1>2 DEF Unseen, LastMove
  <2>2. q # Empty
    BY <1>1 DEF Players, Rules!Marks, Rules!X, Rules!O, Empty, Rules!Empty
  <2>3. Unseen(q)' => Unseen(q)
    BY <1>1, <1>2, <1>8, <1>9 DEF Unseen
  <2>4. QED BY <2>1, <2>2, <2>3, <1>6, <1>7, <1>9
<1>11. Boarded'
  BY <1>1, <1>2, <1>9, <1>10 DEF Boarded, Table
<1>12. /\ done' \in [Players -> Results] /\ done'[q] = done[q]
       /\ turn' \in [Players -> Players] /\ turn'[q] = turn[q]
       /\ done'[p] = "no" => turn'[p] = p /\ ~Rules!Decided(board'[p])
  BY <1>1, <1>2, <1>3 DEF ReceiveMove, End, Results
<1>13. Turned'
  <2>1. ToMove(p)' /\ ~ToMove(q)'
    BY <1>1, <1>2, <1>6 DEF ToMove, LastMove
  <2>2. done[q] = "no" => turn[q] # q
    BY <1>1, <1>6 DEF MatchInv, Turned, ToMove
  <2>3. QED BY <2>1, <2>2, <1>1, <1>10, <1>12 DEF Turned
<1>14. Undecided'
  BY <1>1, <1>8, <1>9, <1>12 DEF MatchInv, Undecided
<1>15. wire' = [wire EXCEPT ![p] = <<>>] \/ wire' = [wire EXCEPT ![p] = Tail(wire[p])]
  BY <1>3 DEF ReceiveMove, Closed, Take
<1>16. /\ wire' \in [Players -> Seq(Messages)] /\ wire'[q] = wire[q]
       /\ \A i : ~IsMove(wire'[p], i)
  <2>1. wire[p] \in Seq(Messages)
    BY <1>3
  <2>2. /\ Tail(wire[p]) \in Seq(Messages) /\ DOMAIN Tail(wire[p]) = 1..(Len(wire[p]) - 1)
        /\ DOMAIN wire[p] = 1..Len(wire[p]) /\ Len(wire[p]) \in Nat
        /\ \A i \in DOMAIN Tail(wire[p]) : Tail(wire[p])[i] = wire[p][i + 1]
    BY <2>1, <1>2, HeadTailProperties, LenProperties
  <2>3. ASSUME NEW i, IsMove(Tail(wire[p]), i) PROVE FALSE
    <3>1. IsMove(wire[p], i + 1) /\ i \in 1..(Len(wire[p]) - 1)
      BY <2>2, <2>3 DEF IsMove
    <3>2. QED BY <3>1, <2>2, <1>5
  <2>4. CASE wire' = [wire EXCEPT ![p] = <<>>]
    <3>1. <<>> \in Seq(Messages) /\ \A i : ~IsMove(<<>>, i)
      BY DEF IsMove
    <3>2. wire'[p] = <<>>
      BY <2>4, <1>3
    <3>3. QED BY <3>1, <3>2, <2>4, <1>1, <1>3
  <2>5. CASE wire' = [wire EXCEPT ![p] = Tail(wire[p])]
    <3>1. wire'[p] = Tail(wire[p])
      BY <2>5, <1>3
    <3>2. QED BY <3>1, <2>2, <2>3, <2>5, <1>1, <1>3
  <2>6. QED BY <2>4, <2>5, <1>15
<1>17. MatchTypes'
  BY <1>2, <1>9, <1>12, <1>16 DEF MatchInv, MatchTypes
<1>18. OnWire'
  <2>1. \A i : ~IsMove(wire[q], i)
    BY <1>1, <1>6 DEF MatchInv, OnWire, IsMove
  <2>2. QED BY <2>1, <1>1, <1>16 DEF OnWire
<1>19. ToSend'
  <2>1. sending[p] = {}
    BY <1>6 DEF MatchInv, ToSend, q
  <2>2. sending[q] = {}
    BY <1>1, <1>4 DEF MatchInv, ToSend
  <2>3. QED BY <2>1, <2>2, <1>1, <1>2 DEF ToSend
<1>20. QED BY <1>2, <1>6, <1>8, <1>9, <1>10, <1>11, <1>13, <1>14, <1>17, <1>18, <1>19
     DEF MatchInv, q

-------------------------------------------------------------------------------
LEMMA MatchStep ==
  ASSUME MatchInv, [Next]_vars
  PROVE  MatchInv' /\ [Game!Next]_played
<1>1. ASSUME Challenge \/ Break \/ HandlerTimeout \/ PressYes \/ PressNo \/ Invitation
      PROVE  MatchInv' /\ [Game!Next]_played
  BY <1>1, InvitationKeeps
<1>2. ASSUME NEW p \in Players, Events(p) \/ Resign(p) PROVE MatchInv' /\ [Game!Next]_played
  BY <1>2, EndingKeeps, SendKeeps, ReceiveKeeps DEF Events
<1>3. ASSUME NEW p \in Players, NEW cell \in Cells, AttemptMove(p, cell)
      PROVE  MatchInv' /\ [Game!Next]_played
  BY <1>3, AttemptKeeps DEF Game!Next, Players, Rules!Marks, Game!Marks, Rules!X, Rules!O,
     Game!X, Game!O
<1>4. CASE UNCHANGED vars \/ \E p \in Players : GameOver(p)
  <2>1. UNCHANGED <<wire, board, turn, done, sending, played>>
    BY <1>4 DEF vars, connVars, gameVars, GameOver
  <2>2. MatchInv'
    BY <2>1 DEF MatchInv, MatchTypes, Boarded, Turned, Undecided, OnWire, ToSend, Unseen,
       ToMove, LastMove, Table
  <2>3. QED BY <2>1, <2>2
<1>5. QED BY <1>1, <1>2, <1>3, <1>4 DEF Next, Play

LEMMA MatchInvariance == Spec => []MatchInv
<1>1. QED BY InitMatch, MatchStep, PTL DEF Spec

\* The two boards and the two turns agree, but for the last move until it
\* arrives, whatever is lost, closed or timed out on the way.
THEOREM TwoBoardsAgree == Spec => []BoardsAgree
<1>1. MatchInv => BoardsAgree
  <2> SUFFICES ASSUME MatchInv, NEW p \in Players
               PROVE  /\ board[p] = Rules!BoardOf(IF Unseen(p)
                                       THEN SubSeq(played, 1, Len(played) - 1) ELSE played)
                      /\ done[p] = "no" => (turn[p] = p <=>
                            /\ ~Unseen(p) /\ (played = <<>> => p = X)
                            /\ (played # <<>> => played[Len(played)].mark # p))
    BY DEF BoardsAgree
  <2>1. CASE Unseen(p)
    <3>1. played \in Seq(Moves) /\ Separate(played) /\ played # <<>>
      BY <2>1 DEF MatchInv, MatchTypes, Unseen
    <3>2. board[p] = [Table EXCEPT ![LastMove.cell] = Empty]
      BY <2>1 DEF MatchInv, Boarded
    <3>3. QED BY <3>1, <3>2, <2>1, BoardOfFront DEF Table, LastMove, MatchInv, Turned
  <2>2. CASE ~Unseen(p)
    BY <2>2 DEF MatchInv, Boarded, Turned, Table, ToMove, LastMove
  <2>3. QED BY <2>1, <2>2
<1>2. QED BY <1>1, MatchInvariance, PTL

\* "They play one game of tic-tac-toe": what two programs make of their own
\* boards and a connection that may fail is the game on one board, on any board
\* with any set of winning lines.
THEOREM MatchImplementsTicTacToe == Spec => PlaysTicTacToe
<1>1. Init => Game!Init
  BY DEF Init, Game!Init
<1>2. MatchInv /\ [Next]_vars => [Game!Next]_played
  BY MatchStep
<1>3. QED BY <1>1, <1>2, MatchInvariance, PTL DEF Spec, PlaysTicTacToe, Game!Spec

-------------------------------------------------------------------------------
(* The two results.  What a player is told follows from the board it ends on, *)
(* the resignation it read, or the end of its connection; the invariant says  *)
(* what each of these says of the other player.                               *)

Verdicts == {"win", "lose", "draw"}
Verdict(b, p) ==
  IF Rules!Wins(b, p) THEN "win" ELSE IF Rules!Wins(b, Other(p)) THEN "lose" ELSE "draw"

\* The game was not decided when its last move was made.
LatestDecides ==
  played # <<>> => ~Rules!Decided([Table EXCEPT ![LastMove.cell] = Empty])

\* A decided board has its verdict for result, and no other board has a verdict.
Resolved ==
  \A p \in Players :
    /\ done[p] \in Verdicts => /\ Cells # {} /\ Rules!Decided(board[p])
                               /\ done[p] = Verdict(board[p], p)
    /\ done[p] \notin Verdicts /\ Cells # {} => ~Rules!Decided(board[p])

Carried(w) == {w[i] : i \in DOMAIN w}

\* An answer and a resignation are on the wire only after they were given.
Answered ==
  /\ \A msg \in Carried(wire[X]) : msg.type = "accept" => handler = "session"
  /\ \A p \in Players :
       /\ \A msg \in Carried(wire[p]) : msg.type = "resign" => done[Other(p)] = "resigned"
       /\ done[p] = "win by resignation" => done[Other(p)] = "resigned"

\* Has player p neither refused, nor given up, nor ended the game?
Engaged(p) ==
  /\ p = X => chal \in {"waiting", "session"}
  /\ p = O => handler \in {"offered", "session"}
  /\ done[p] = "no"

Seated ==
  /\ open \in [Players -> BOOLEAN] /\ screen \in [Players -> BOOLEAN]
  /\ chal = "idle" => handler = "none"
  /\ handler = "none" => chal = "idle"
  /\ screen[X] => chal = "session" /\ handler = "session"
  /\ screen[O] => handler = "session"
  /\ \A p \in Players : (Engaged(p) => open[p]) /\ (done[p] # "no" => screen[p])

\* A deciding move waits for the player who has not seen it.
Delivered ==
  ~broken => \A p \in Players :
    done[Other(p)] \in Verdicts /\ Unseen(p) /\ open[p]
      => \E msg \in Carried(wire[p]) : msg.type = "move"

\* Who lost the opponent lost it for good, and the opponent has no verdict.
Abandoned ==
  ~broken => \A p \in Players :
    done[p] = "lost" => ~open[Other(p)] /\ done[Other(p)] \notin Verdicts

OutcomeInv ==
  LatestDecides /\ Resolved /\ Answered /\ Seated /\ Delivered /\ Abandoned

LEMMA CarriedOn ==
  ASSUME NEW w \in Seq(Messages)
  PROVE  /\ Carried(<<>>) = {}
         /\ \A msg \in Messages : Carried(Append(w, msg)) = Carried(w) \cup {msg}
         /\ w # <<>> => Carried(w) = Carried(Tail(w)) \cup {Head(w)}
<1>1. Carried(<<>>) = {}
  BY DEF Carried
<1>2. ASSUME NEW msg \in Messages PROVE Carried(Append(w, msg)) = Carried(w) \cup {msg}
  <2>1. /\ DOMAIN Append(w, msg) = 1..(Len(w) + 1) /\ DOMAIN w = 1..Len(w) /\ Len(w) \in Nat
        /\ Append(w, msg)[Len(w) + 1] = msg
        /\ \A i \in DOMAIN w : Append(w, msg)[i] = w[i]
    BY AppendProperties, LenProperties
  <2>2. QED BY <2>1 DEF Carried
<1>3. ASSUME w # <<>> PROVE Carried(w) = Carried(Tail(w)) \cup {Head(w)}
  <2>1. /\ DOMAIN Tail(w) = 1..(Len(w) - 1) /\ DOMAIN w = 1..Len(w) /\ Len(w) \in Nat \ {0}
        /\ Head(w) = w[1] /\ \A i \in DOMAIN Tail(w) : Tail(w)[i] = w[i + 1]
    BY <1>3, HeadTailProperties, LenProperties, EmptySeq
  <2>2. \A i \in DOMAIN w : i = 1 \/ (i - 1 \in DOMAIN Tail(w) /\ w[i] = Tail(w)[i - 1])
    BY <2>1
  <2>3. \A i \in DOMAIN Tail(w) : i + 1 \in DOMAIN w
    BY <2>1
  <2>4. ASSUME NEW msg \in Carried(w) PROVE msg \in Carried(Tail(w)) \cup {Head(w)}
    <3>1. PICK i \in DOMAIN w : msg = w[i]
      BY DEF Carried
    <3>2. QED BY <3>1, <2>1, <2>2 DEF Carried
  <2>5. Carried(Tail(w)) \subseteq Carried(w) /\ Head(w) \in Carried(w)
    BY <2>1, <2>3 DEF Carried
  <2>6. QED BY <2>4, <2>5
<1>4. QED BY <1>1, <1>2, <1>3

-------------------------------------------------------------------------------
(* Who wins. *)

\* A mark completes lines of its own only.
LEMMA NewMark ==
  ASSUME NEW b \in Rules!Boards, NEW cell, NEW mark, NEW other, other # mark,
         Rules!Wins([b EXCEPT ![cell] = mark], other)
  PROVE  Rules!Wins(b, other)
<1>1. PICK line \in Lines : \A c \in line : [b EXCEPT ![cell] = mark][c] = other
  BY DEF Rules!Wins
<1>2. line \subseteq Cells
  BY BoardAssumption
<1>3. \A c \in line : b[c] = other
  BY <1>1, <1>2 DEF Rules!Boards
<1>4. QED BY <1>3 DEF Rules!Wins

\* Who has a line made the last move.
LEMMA WinnerMovedLast ==
  ASSUME MatchInv, LatestDecides, NEW p \in Players, Rules!Wins(Table, p)
  PROVE  played # <<>> /\ LastMove.mark = p /\ ~Rules!Wins(Table, Other(p)) /\ Cells # {}
<1>1. played \in Seq(Moves) /\ Separate(played) /\ Table \in Rules!Boards
  BY BoardOfCell DEF MatchInv, MatchTypes, Table
<1>2. PICK line \in Lines : \A c \in line : Table[c] = p
  BY DEF Rules!Wins
<1>3. PICK c \in line : c \in Cells /\ Table[c] = p
  BY <1>2, BoardAssumption
<1>4. played # <<>>
  <2>1. CASE played = <<>>
    <3>1. DOMAIN played = {}
      BY <2>1
    <3>2. Table[c] = Empty
      BY <3>1, <1>1, <1>3, BoardOfCell DEF Table
    <3>3. QED BY <3>2, <1>3 DEF Players, Rules!Marks, Rules!X, Rules!O, Empty, Rules!Empty
  <2>2. QED BY <2>1
<1>5. LastMove \in Moves /\ LastMove.mark \in Players /\ Table[LastMove.cell] = LastMove.mark
  <2>1. Len(played) \in DOMAIN played
    BY <1>1, <1>4, LenProperties, EmptySeq
  <2>2. QED BY <2>1, <1>1, <1>4, LastPlayed, BoardOfCell DEF Table, LastMove
<1> DEFINE front == [Table EXCEPT ![LastMove.cell] = Empty]
<1>6. front \in Rules!Boards /\ Table = [front EXCEPT ![LastMove.cell] = LastMove.mark]
  BY <1>1, <1>5 DEF Rules!Boards, Empty
<1>7. ~Rules!Decided(front)
  BY <1>4 DEF LatestDecides
<1> HIDE DEF front
<1>8. ASSUME NEW other \in Players, Rules!Wins(Table, other) PROVE other = LastMove.mark
  <2>1. other # LastMove.mark => Rules!Wins(front, other)
    BY <1>6, <1>8, NewMark
  <2>2. QED BY <2>1, <1>7 DEF Rules!Decided, Players
<1>9. QED BY <1>3, <1>4, <1>8, Opponent

\* A decided board is the table.
LEMMA DecidedIsTable ==
  ASSUME MatchInv, LatestDecides, NEW p \in Players, Rules!Decided(board[p])
  PROVE  ~Unseen(p) /\ board[p] = Table
<1>1. ~Unseen(p)
  BY DEF Unseen, MatchInv, Boarded, LatestDecides
<1>2. QED BY <1>1 DEF MatchInv, Boarded

\* Who can still play against a player that has a verdict has not seen the
\* last move.
LEMMA VerdictUnseen ==
  ASSUME MatchInv, LatestDecides, Resolved, NEW p \in Players,
         done[p] \notin Verdicts, done[Other(p)] \in Verdicts
  PROVE  Unseen(p)
<1>1. Other(p) \in Players /\ Cells # {} /\ Rules!Decided(board[Other(p)])
  BY Opponent DEF Resolved
<1>2. board[Other(p)] = Table
  BY <1>1, DecidedIsTable
<1>3. ~Rules!Decided(board[p])
  BY <1>1 DEF Resolved
<1>4. QED BY <1>1, <1>2, <1>3 DEF MatchInv, Boarded

LEMMA ResultsKeep ==
  ASSUME LatestDecides, Resolved, UNCHANGED <<board, played>>,
         \A p \in Players : \/ done'[p] = done[p]
                            \/ done[p] \notin Verdicts /\ done'[p] \notin Verdicts
  PROVE  LatestDecides' /\ Resolved'
<1>1. LatestDecides'
  BY DEF LatestDecides, Table, LastMove
<1>2. Resolved'
  BY DEF Resolved
<1>3. QED BY <1>1, <1>2

-------------------------------------------------------------------------------
(* What each step does to the results. *)

\* Steps that leave the boards alone: nobody gets a verdict.
LEMMA QuietResults ==
  ASSUME MatchInv, LatestDecides, Resolved,
         \/ Challenge \/ Break \/ HandlerTimeout \/ PressYes \/ PressNo \/ Invitation
         \/ \E p \in Players : \/ Resign(p) \/ ReceiveResign(p) \/ LoseOpponent(p)
                               \/ \E cell \in Cells : SendMove(p, cell)
  PROVE  LatestDecides' /\ Resolved'
<1>1. ASSUME Challenge \/ Break \/ HandlerTimeout \/ PressYes \/ PressNo \/ Invitation
      PROVE  UNCHANGED <<board, done, played>>
  BY <1>1 DEF gameVars, Challenge, Break, HandlerTimeout, PressYes, PressNo, Invitation,
     ShowInvite, HandlerAccepts, HandlerDenies, ReadAnswer, ChallengeFails, StartAtO
<1>2. ASSUME NEW p \in Players,
             \/ Resign(p) \/ ReceiveResign(p) \/ LoseOpponent(p)
             \/ \E cell \in Cells : SendMove(p, cell)
      PROVE  /\ UNCHANGED <<board, played>>
             /\ \/ UNCHANGED done
                \/ \E how \in {"resigned", "win by resignation", "lost", "unsent"} :
                     done[p] = "no" /\ done' = [done EXCEPT ![p] = how]
  BY <1>2 DEF Resign, ReceiveResign, LoseOpponent, SendMove, End, Playing
<1>3. done \in [Players -> Results]
  BY DEF MatchInv, MatchTypes
<1>4. QED BY <1>1, <1>2, <1>3, ResultsKeep DEF Verdicts

LEMMA AttemptResults ==
  ASSUME MatchInv, LatestDecides, Resolved, NEW p \in Players, NEW cell \in Cells,
         AttemptMove(p, cell)
  PROVE  LatestDecides' /\ Resolved'
<1> DEFINE q == Other(p)
<1>1. q \in Players /\ q # p /\ \A r \in Players : r = p \/ r = q
  BY Opponent
<1>2. /\ MatchInv' /\ [Table' EXCEPT ![LastMove'.cell] = Empty] = Table
      /\ Table' = [Table EXCEPT ![cell] = p]
      /\ board[p] = Table /\ board'[p] = Table' /\ board'[q] = board[q]
  BY AttemptKeeps
<1> HIDE DEF q
<1>3. done[p] = "no" /\ Cells # {}
  BY DEF AttemptMove, Playing
<1>4. ~Rules!Decided(Table)
  BY <1>2, <1>3 DEF Resolved, Verdicts
<1>5. LatestDecides'
  BY <1>2, <1>4 DEF LatestDecides
<1>6. Table \in Rules!Boards /\ done \in [Players -> Results]
  BY BoardOfCell DEF MatchInv, MatchTypes, Table
<1>7. ~Rules!Wins(Table', q)
  <2>1. Rules!Wins([Table EXCEPT ![cell] = p], q) => Rules!Wins(Table, q)
    BY <1>1, <1>6, NewMark
  <2>2. QED BY <2>1, <1>1, <1>2, <1>4 DEF Rules!Decided, Players
<1>8. /\ done'[q] = done[q]
      /\ done'[p] = IF Rules!Decided(board'[p]) THEN Verdict(board'[p], p) ELSE "no"
  BY <1>1, <1>2, <1>3, <1>6, <1>7 DEF AttemptMove, End, Verdict, q
<1>9. Verdict(board'[p], p) \in Verdicts /\ "no" \notin Verdicts
  BY DEF Verdict, Verdicts
<1> HIDE DEF Verdict
<1>10. Resolved'
  BY <1>1, <1>2, <1>3, <1>8, <1>9 DEF Resolved
<1>11. QED BY <1>5, <1>10

LEMMA ReceiveResults ==
  ASSUME MatchInv, LatestDecides, Resolved, NEW p \in Players, ReceiveMove(p)
  PROVE  LatestDecides' /\ Resolved'
<1> DEFINE q == Other(p)
<1>1. q \in Players /\ q # p /\ \A r \in Players : r = p \/ r = q
  BY Opponent
<1>2. UNCHANGED played /\ board'[q] = board[q] /\ Cells # {}
  BY ReceiveKeeps
<1> HIDE DEF q
<1>3. done[p] = "no" /\ done \in [Players -> Results]
  BY DEF ReceiveMove, Playing, MatchInv, MatchTypes
<1>4. /\ done'[q] = done[q]
      /\ done'[p] = IF Rules!Decided(board'[p]) THEN Verdict(board'[p], p) ELSE "no"
  BY <1>1, <1>3 DEF ReceiveMove, End, Verdict
<1>5. Verdict(board'[p], p) \in Verdicts /\ "no" \notin Verdicts
  BY DEF Verdict, Verdicts
<1>6. Resolved'
  BY <1>1, <1>2, <1>4, <1>5 DEF Resolved
<1>7. LatestDecides'
  BY <1>2 DEF LatestDecides, Table, LastMove
<1>8. QED BY <1>6, <1>7

LEMMA ResultsStep ==
  ASSUME MatchInv, LatestDecides, Resolved, Play
  PROVE  LatestDecides' /\ Resolved'
BY QuietResults, AttemptResults, ReceiveResults DEF Play, Events

-------------------------------------------------------------------------------
(* What each step does to the two ends of the connection. *)

LEMMA SeatedStep ==
  ASSUME MatchInv, Seated, Answered, Play
  PROVE  Seated'
<1> USE DEF Seated, Engaged
<1>1. X \in Players /\ O \in Players /\ X # O /\ Players = {X, O}
  BY DEF X, O, Players, Rules!Marks, Rules!X, Rules!O
<1>2. done \in [Players -> Results] /\ wire \in [Players -> Seq(Messages)]
  BY DEF MatchInv, MatchTypes
<1>3. CASE Challenge
  BY <1>3, <1>1, <1>2 DEF Challenge, gameVars
<1>4. CASE Break \/ PressYes \/ PressNo \/ ShowInvite
  BY <1>4, <1>1, <1>2 DEF Break, PressYes, PressNo, ShowInvite, gameVars, connVars, inviteVars
<1>5. CASE HandlerTimeout \/ HandlerDenies
  BY <1>5, <1>1, <1>2 DEF HandlerTimeout, HandlerDenies, Closed, gameVars
<1>6. CASE HandlerAccepts
  BY <1>6, <1>1, <1>2 DEF HandlerAccepts, Closed, gameVars
<1>7. CASE ReadAnswer
  <2>1. Head(wire[X]) = Accept => handler = "session"
    <3>1. wire[X] # <<>> => Head(wire[X]) \in Carried(wire[X])
      BY <1>1, <1>2, CarriedOn
    <3>2. QED BY <3>1, <1>7 DEF ReadAnswer, Answered, Accept, Msg
  <2>2. QED BY <2>1, <1>7, <1>1, <1>2 DEF ReadAnswer, Closed
<1>8. CASE ChallengeFails
  BY <1>8, <1>1, <1>2 DEF ChallengeFails, Closed, gameVars
<1>9. CASE StartAtO
  BY <1>9, <1>1, <1>2 DEF StartAtO, connVars
<1>10. ASSUME NEW p \in Players,
              \/ Resign(p) \/ ReceiveResign(p) \/ LoseOpponent(p) \/ ReceiveMove(p)
              \/ \E cell \in Cells : SendMove(p, cell) \/ AttemptMove(p, cell)
       PROVE  Seated'
  <2>1. UNCHANGED <<chal, handler, screen>>
    BY <1>10 DEF Resign, ReceiveResign, LoseOpponent, ReceiveMove, SendMove, AttemptMove,
       inviteVars
  <2>2. \/ UNCHANGED <<open, done>>
        \/ \E how \in Results \ {"no"} :
             /\ screen[p] /\ done' = [done EXCEPT ![p] = how]
             /\ UNCHANGED open \/ open' = [open EXCEPT ![p] = FALSE]
    <3>1. CASE Resign(p) \/ ReceiveResign(p) \/ LoseOpponent(p)
      BY <3>1 DEF Resign, ReceiveResign, LoseOpponent, connVars, Closed, End, Playing, Results
    <3>2. CASE ReceiveMove(p)
      BY <3>2 DEF ReceiveMove, Closed, End, Playing, Results
    <3>3. CASE \E cell \in Cells : SendMove(p, cell)
      BY <3>3 DEF SendMove, End, Playing, Results
    <3>4. CASE \E cell \in Cells : AttemptMove(p, cell)
      BY <3>4 DEF AttemptMove, Closed, End, Playing, Results
    <3>5. QED BY <1>10, <3>1, <3>2, <3>3, <3>4
  <2>3. QED BY <2>1, <2>2, <1>1, <1>2
<1>11. QED BY <1>3, <1>4, <1>5, <1>6, <1>7, <1>8, <1>9, <1>10 DEF Play, Invitation, Events

-------------------------------------------------------------------------------
(* What each step does to the messages. *)

\* Player p writes msg, or nothing, and reads one message, or none, or closes.
Exchange(p, msg) ==
  /\ Carried(wire'[p]) \subseteq Carried(wire[p])
  /\ \/ Carried(wire'[Other(p)]) = Carried(wire[Other(p)])
     \/ Carried(wire'[Other(p)]) = Carried(wire[Other(p)]) \cup {msg}

LEMMA Exchanges ==
  ASSUME MatchInv, NEW p \in Players, NEW msg \in Messages,
         \/ wire' = Written(p, msg)
         \/ Closed(p, Written(p, msg))
         \/ Closed(p, wire)
         \/ wire[p] # <<>> /\ Take(p)
         \/ UNCHANGED wire
  PROVE  Exchange(p, msg)
<1>1. wire \in [Players -> Seq(Messages)] /\ Other(p) \in Players /\ Other(p) # p
  BY Opponent DEF MatchInv, MatchTypes
<1>2. /\ Written(p, msg) \in [Players -> Seq(Messages)] /\ Written(p, msg)[p] = wire[p]
      /\ \/ Written(p, msg)[Other(p)] = wire[Other(p)]
         \/ Written(p, msg)[Other(p)] = Append(wire[Other(p)], msg)
  BY Writing
<1>3. \/ Carried(Written(p, msg)[Other(p)]) = Carried(wire[Other(p)])
      \/ Carried(Written(p, msg)[Other(p)]) = Carried(wire[Other(p)]) \cup {msg}
  BY <1>1, <1>2, CarriedOn
<1>4. Carried(<<>>) = {} /\ (wire[p] # <<>> => Carried(Tail(wire[p])) \subseteq Carried(wire[p]))
  BY <1>1, CarriedOn
<1>5. CASE wire' = Written(p, msg) \/ UNCHANGED wire
  BY <1>2, <1>3, <1>5 DEF Exchange
<1>6. CASE Closed(p, Written(p, msg)) \/ Closed(p, wire)
  <2>1. wire'[p] = <<>> /\ wire'[Other(p)] \in {wire[Other(p)], Written(p, msg)[Other(p)]}
    BY <1>1, <1>2, <1>6 DEF Closed
  <2>2. QED BY <2>1, <1>3, <1>4 DEF Exchange
<1>7. CASE wire[p] # <<>> /\ Take(p)
  <2>1. wire'[p] = Tail(wire[p]) /\ wire'[Other(p)] = wire[Other(p)]
    BY <1>1, <1>7 DEF Take
  <2>2. QED BY <2>1, <1>4, <1>7 DEF Exchange
<1>8. QED BY <1>5, <1>6, <1>7

\* What may be written, and what has been done by whoever writes it.
LEMMA AnsweredKeeps ==
  ASSUME MatchInv, Answered, NEW p \in Players, NEW msg \in Messages, Exchange(p, msg),
         done' \in [Players -> Results],
         handler = "session" => handler' = "session",
         msg.type = "accept" => p = O /\ handler' = "session",
         msg.type = "resign" => done'[p] = "resigned",
         \A q \in Players : /\ done[q] = "resigned" => done'[q] = "resigned"
                            /\ done'[q] = "win by resignation" =>
                                 \/ done[q] = "win by resignation"
                                 \/ done'[Other(q)] = "resigned"
  PROVE  Answered'
<1>1. Other(p) \in Players /\ Other(p) # p /\ Other(Other(p)) = p
      /\ \A q \in Players : q = p \/ q = Other(p)
  BY Opponent
<1>2. X \in Players
  BY DEF X, Players, Rules!Marks
<1>3. ASSUME NEW q \in Players, NEW m \in Carried(wire'[q])
      PROVE  m \in Carried(wire[q]) \/ (q = Other(p) /\ m = msg)
  BY <1>1, <1>3 DEF Exchange
<1>4. \A m \in Carried(wire'[X]) : m.type = "accept" => handler' = "session"
  BY <1>2, <1>3 DEF Answered
<1>5. ASSUME NEW q \in Players, NEW m \in Carried(wire'[q]), m.type = "resign"
      PROVE  done'[Other(q)] = "resigned"
  <2>1. CASE m \in Carried(wire[q])
    BY <2>1, <1>5, Opponent DEF Answered
  <2>2. CASE q = Other(p) /\ m = msg
    BY <2>2, <1>1, <1>5
  <2>3. QED BY <1>3, <2>1, <2>2
<1>6. ASSUME NEW q \in Players, done'[q] = "win by resignation"
      PROVE  done'[Other(q)] = "resigned"
  BY <1>6, Opponent DEF Answered
<1>7. QED BY <1>4, <1>5, <1>6 DEF Answered

LEMMA AnsweredStep ==
  ASSUME MatchInv, MatchInv', Answered, Seated, Play
  PROVE  Answered'
<1>1. X \in Players /\ O \in Players /\ X # O /\ Players = {X, O} /\ Other(X) = O /\ Other(O) = X
  BY DEF X, O, Other, Players, Rules!Marks, Rules!X, Rules!O, Rules!Other
<1>2. done \in [Players -> Results] /\ done' \in [Players -> Results]
      /\ wire \in [Players -> Seq(Messages)]
  BY DEF MatchInv, MatchTypes
<1>3. CASE Challenge \/ PressYes \/ PressNo \/ ShowInvite \/ StartAtO
  <2>1. /\ UNCHANGED <<wire, done>> /\ (handler = "session" => handler' = "session")
    BY <1>3 DEF Challenge, PressYes, PressNo, ShowInvite, StartAtO, gameVars, connVars, Seated
  <2>2. QED BY <2>1 DEF Answered
<1>4. CASE Break
  <2>1. /\ UNCHANGED <<done, handler>> /\ wire' = [p \in Players |-> <<>>]
    BY <1>4 DEF Break, gameVars, inviteVars
  <2>2. \A p \in Players : Carried(wire'[p]) = {}
    BY <2>1 DEF Carried
  <2>3. QED BY <2>1, <2>2, <1>1 DEF Answered
<1>5. CASE HandlerTimeout \/ HandlerDenies
  <2>1. UNCHANGED done /\ handler # "session" /\ Closed(O, Written(O, Deny))
    BY <1>5 DEF HandlerTimeout, HandlerDenies, gameVars
  <2>2. QED BY <2>1, <1>1, <1>2, Answers, Exchanges, AnsweredKeeps DEF Deny, Msg
<1>6. CASE HandlerAccepts
  <2>1. UNCHANGED done /\ handler # "session"
    BY <1>6 DEF HandlerAccepts, gameVars
  <2>2. CASE handler' = "session" /\ wire' = Written(O, Accept)
    BY <2>1, <2>2, <1>1, <1>2, Answers, Exchanges, AnsweredKeeps DEF Accept, Msg
  <2>3. CASE Closed(O, wire)
    BY <2>1, <2>3, <1>1, <1>2, Answers, Exchanges, AnsweredKeeps DEF Deny, Msg
  <2>4. QED BY <1>6, <2>2, <2>3 DEF HandlerAccepts
<1>7. CASE ReadAnswer \/ ChallengeFails
  <2>1. UNCHANGED <<done, handler>>
        /\ ((wire[X] # <<>> /\ Take(X)) \/ Closed(X, wire))
    BY <1>7 DEF ReadAnswer, ChallengeFails, gameVars
  <2>2. QED BY <2>1, <1>1, <1>2, Answers, Exchanges, AnsweredKeeps DEF Deny, Msg
<1>8. ASSUME NEW p \in Players, Resign(p) PROVE Answered'
  <2>1. /\ done[p] = "no" /\ done' = [done EXCEPT ![p] = "resigned"] /\ UNCHANGED handler
        /\ Closed(p, Written(p, ResignMsg))
    BY <1>8 DEF Resign, End, Playing, inviteVars
  <2>2. QED BY <2>1, <1>2, Answers, Exchanges, AnsweredKeeps DEF ResignMsg, Msg
<1>9. ASSUME NEW p \in Players, ReceiveResign(p) PROVE Answered'
  <2>1. /\ done[p] = "no" /\ done' = [done EXCEPT ![p] = "win by resignation"]
        /\ Closed(p, wire) /\ wire[p] # <<>> /\ Head(wire[p]).type = "resign"
        /\ UNCHANGED handler
    BY <1>9 DEF ReceiveResign, End, Playing, inviteVars
  <2>2. Head(wire[p]) \in Carried(wire[p])
    BY <2>1, <1>2, CarriedOn
  <2>3. done[Other(p)] = "resigned"
    BY <2>1, <2>2 DEF Answered
  <2>4. Exchange(p, Deny)
    BY <2>1, Answers, Exchanges
  <2>5. \A q \in Players : /\ done[q] = "resigned" => done'[q] = "resigned"
                           /\ done'[q] = "win by resignation" =>
                                \/ done[q] = "win by resignation"
                                \/ done'[Other(q)] = "resigned"
    BY <2>1, <2>3, <1>2, Opponent
  <2>6. Deny \in Messages /\ Deny.type = "deny"
    BY Answers DEF Deny, Msg
  <2>7. handler' = handler
    BY <2>1
  <2>8. QED BY <2>4, <2>5, <2>6, <2>7, <1>2, AnsweredKeeps
<1>10. ASSUME NEW p \in Players, LoseOpponent(p) PROVE Answered'
  <2>1. /\ done[p] = "no" /\ done' = [done EXCEPT ![p] = "lost"]
        /\ UNCHANGED <<handler, wire>>
    BY <1>10 DEF LoseOpponent, End, Playing, inviteVars, connVars
  <2>2. \A q \in Players : /\ done[q] = "resigned" => done'[q] = "resigned"
                           /\ done'[q] = "win by resignation" => done[q] = "win by resignation"
    BY <2>1, <1>2
  <2>3. QED BY <2>1, <2>2, Opponent DEF Answered
<1>11. ASSUME NEW p \in Players, NEW cell \in Cells, SendMove(p, cell) PROVE Answered'
  <2>1. /\ done' = done \/ (done[p] = "no" /\ done' = [done EXCEPT ![p] = "unsent"])
        /\ UNCHANGED handler /\ (UNCHANGED wire \/ wire' = Written(p, Msg("move", {cell})))
    BY <1>11 DEF SendMove, End, Playing, inviteVars
  <2>2. Msg("move", {cell}) \in Messages /\ Msg("move", {cell}).type = "move"
    BY DEF Messages, Msg
  <2>3. Exchange(p, Msg("move", {cell}))
    BY <2>1, <2>2, Exchanges
  <2>4. QED BY <2>1, <2>2, <2>3, <1>2, AnsweredKeeps
<1>12. ASSUME NEW p \in Players, NEW cell \in Cells, AttemptMove(p, cell) PROVE Answered'
  <2>1. /\ \/ done' = done
           \/ \E how \in Verdicts : done[p] = "no" /\ done' = [done EXCEPT ![p] = how]
        /\ UNCHANGED handler /\ (UNCHANGED wire \/ Closed(p, Written(p, Msg("move", {cell}))))
    BY <1>12 DEF AttemptMove, End, Playing, inviteVars, Verdicts
  <2>2. Msg("move", {cell}) \in Messages /\ Msg("move", {cell}).type = "move"
    BY DEF Messages, Msg
  <2>3. Exchange(p, Msg("move", {cell}))
    BY <2>1, <2>2, Exchanges
  <2>4. QED BY <2>1, <2>2, <2>3, <1>2, AnsweredKeeps DEF Verdicts
<1>13. ASSUME NEW p \in Players, ReceiveMove(p) PROVE Answered'
  <2>1. /\ \/ done' = done
           \/ \E how \in Verdicts : done[p] = "no" /\ done' = [done EXCEPT ![p] = how]
        /\ UNCHANGED handler /\ ((wire[p] # <<>> /\ Take(p)) \/ Closed(p, wire))
    BY <1>13 DEF ReceiveMove, End, Playing, inviteVars, Verdicts
  <2>2. Exchange(p, Deny)
    BY <2>1, Answers, Exchanges
  <2>3. QED BY <2>1, <2>2, <1>2, Answers, AnsweredKeeps DEF Verdicts, Deny, Msg
<1>14. QED BY <1>3, <1>4, <1>5, <1>6, <1>7, <1>8, <1>9, <1>10, <1>11, <1>12, <1>13
       DEF Play, Invitation, Events

-------------------------------------------------------------------------------
(* What each step does to a deciding move under way, and to who is left alone. *)

\* A step that makes and takes no move: what is under way stays, unless its
\* reader closes.
LEMMA DeliveredKeeps ==
  ASSUME Delivered, UNCHANGED <<board, played>>, broken => broken',
         \A p \in Players :
           /\ done'[p] \in Verdicts => done[p] \in Verdicts
           /\ open'[p] => /\ open[p]
                          /\ \A msg \in Carried(wire[p]) :
                               msg.type = "move" => msg \in Carried(wire'[p])
  PROVE  Delivered'
<1>1. \A p : Unseen(p)' <=> Unseen(p)
  BY DEF Unseen
<1>2. QED BY <1>1, Opponent DEF Delivered

\* What p does when it reads nothing: it writes, or closes, or both.
LEMMA OthersStay ==
  ASSUME MatchInv, open \in [Players -> BOOLEAN], NEW p \in Players, NEW msg \in Messages,
         \/ UNCHANGED open /\ wire' = Written(p, msg)
         \/ Closed(p, Written(p, msg)) \/ Closed(p, wire)
         \/ UNCHANGED <<open, wire>>
  PROVE  \A q \in Players : open'[q] => /\ open[q]
                                        /\ Carried(wire[q]) \subseteq Carried(wire'[q])
<1>1. wire \in [Players -> Seq(Messages)] /\ Other(p) \in Players /\ Other(p) # p
      /\ \A q \in Players : q = p \/ q = Other(p)
  BY Opponent DEF MatchInv, MatchTypes
<1>2. /\ Written(p, msg) \in [Players -> Seq(Messages)] /\ Written(p, msg)[p] = wire[p]
      /\ \/ Written(p, msg)[Other(p)] = wire[Other(p)]
         \/ Written(p, msg)[Other(p)] = Append(wire[Other(p)], msg)
  BY Writing
<1>3. \A q \in Players : Carried(wire[q]) \subseteq Carried(Written(p, msg)[q])
  <2>1. Carried(Append(wire[Other(p)], msg)) = Carried(wire[Other(p)]) \cup {msg}
    BY <1>1, CarriedOn
  <2>2. Carried(wire[Other(p)]) \subseteq Carried(Written(p, msg)[Other(p)])
    BY <2>1, <1>2
  <2>3. QED BY <2>2, <1>1, <1>2
<1>4. CASE Closed(p, Written(p, msg)) \/ Closed(p, wire)
  <2>1. /\ wire'[Other(p)] \in {wire[Other(p)], Written(p, msg)[Other(p)]}
        /\ ~open'[p] /\ open'[Other(p)] = open[Other(p)]
    BY <1>1, <1>2, <1>4 DEF Closed
  <2>2. QED BY <2>1, <1>1, <1>3
<1>5. CASE UNCHANGED open /\ (wire' = Written(p, msg) \/ UNCHANGED wire)
  BY <1>3, <1>5
<1>6. QED BY <1>4, <1>5

LEMMA DeliveredStep ==
  ASSUME MatchInv, MatchInv', Seated, Delivered, Play
  PROVE  Delivered'
<1>1. X \in Players /\ O \in Players /\ X # O /\ Players = {X, O} /\ Other(X) = O /\ Other(O) = X
  BY DEF X, O, Other, Players, Rules!Marks, Rules!X, Rules!O, Rules!Other
<1>2. /\ done \in [Players -> Results] /\ open \in [Players -> BOOLEAN]
      /\ wire \in [Players -> Seq(Messages)]
  BY DEF MatchInv, MatchTypes, Seated
<1>3. CASE Challenge
  <2>1. \A p \in Players : done'[p] = "no"
    BY <1>1, <1>2, <1>3 DEF Challenge, gameVars, Seated
  <2>2. QED BY <2>1, <1>1 DEF Delivered, Verdicts
<1>4. CASE Break
  BY <1>4 DEF Break, Delivered
<1>5. CASE PressYes \/ PressNo \/ ShowInvite \/ StartAtO
  <2>1. UNCHANGED <<board, played, broken, done, open, wire>>
    BY <1>5 DEF PressYes, PressNo, ShowInvite, StartAtO, gameVars, connVars
  <2>2. QED BY <2>1, DeliveredKeeps
<1>6. CASE HandlerTimeout \/ HandlerDenies
  BY <1>6, <1>1, <1>2, Answers, OthersStay, DeliveredKeeps
     DEF HandlerTimeout, HandlerDenies, gameVars
<1>7. CASE HandlerAccepts
  <2>1. /\ UNCHANGED <<board, played, broken, done>>
        /\ (UNCHANGED open /\ wire' = Written(O, Accept)) \/ Closed(O, wire)
    BY <1>7 DEF HandlerAccepts, gameVars
  <2>2. QED BY <2>1, <1>1, <1>2, Answers, OthersStay, DeliveredKeeps
<1>8. CASE ChallengeFails
  BY <1>8, <1>1, <1>2, Answers, OthersStay, DeliveredKeeps DEF ChallengeFails, gameVars
<1>9. CASE ReadAnswer
  <2>1. UNCHANGED <<board, played, broken, done>>
    BY <1>9 DEF ReadAnswer
  <2>2. CASE Closed(X, wire)
    BY <2>1, <2>2, <1>1, <1>2, Answers, OthersStay, DeliveredKeeps
  <2>3. CASE wire[X] # <<>> /\ Head(wire[X]) = Accept /\ Take(X) /\ UNCHANGED open
    <3>1. Carried(wire[X]) = Carried(wire'[X]) \cup {Accept} /\ wire'[O] = wire[O]
      BY <2>3, <1>1, <1>2, CarriedOn DEF Take
    <3>2. QED BY <3>1, <2>1, <2>3, <1>1, Answers, DeliveredKeeps
  <2>4. QED BY <1>9, <2>2, <2>3 DEF ReadAnswer
<1>10. ASSUME NEW p \in Players, Resign(p) \/ ReceiveResign(p) \/ LoseOpponent(p)
       PROVE  Delivered'
  <2>1. /\ UNCHANGED <<board, played, broken>>
        /\ \E how \in {"resigned", "win by resignation", "lost"} :
             done' = [done EXCEPT ![p] = how]
        /\ \/ Closed(p, Written(p, ResignMsg)) \/ Closed(p, wire) \/ UNCHANGED <<open, wire>>
    BY <1>10 DEF Resign, ReceiveResign, LoseOpponent, connVars, End
  <2>2. \A q \in Players : open'[q] => open[q] /\ Carried(wire[q]) \subseteq Carried(wire'[q])
    BY <2>1, <1>2, Answers, OthersStay
  <2>3. QED BY <2>1, <2>2, <1>2, DeliveredKeeps DEF Verdicts
<1>11. ASSUME NEW p \in Players, NEW cell \in Cells, SendMove(p, cell) PROVE Delivered'
  <2>1. /\ UNCHANGED <<board, played, broken, open>>
        /\ done' = done \/ done' = [done EXCEPT ![p] = "unsent"]
        /\ wire' = Written(p, Msg("move", {cell})) \/ UNCHANGED wire
    BY <1>11 DEF SendMove, End
  <2>2. Msg("move", {cell}) \in Messages
    BY DEF Messages, Msg
  <2>3. \A q \in Players : open'[q] => open[q] /\ Carried(wire[q]) \subseteq Carried(wire'[q])
    BY <2>1, <2>2, <1>2, OthersStay
  <2>4. QED BY <2>1, <2>3, <1>2, DeliveredKeeps DEF Verdicts
<1>12. ASSUME NEW p \in Players, NEW cell \in Cells, AttemptMove(p, cell) PROVE Delivered'
  <2> DEFINE q == Other(p)
  <2>1. q \in Players /\ q # p /\ Other(q) = p /\ \A r \in Players : r = p \/ r = q
    BY Opponent
  <2>2. ~Unseen(p)' /\ Unseen(q)' /\ done[p] = "no" /\ UNCHANGED broken
    BY <1>12, AttemptKeeps DEF AttemptMove, Playing
  <2> HIDE DEF q
  <2>3. ASSUME ~broken, done'[p] \in Verdicts, open'[q]
        PROVE  \E msg \in Carried(wire'[q]) : msg.type = "move"
    <3>1. Closed(p, Written(p, Msg("move", {cell})))
      BY <1>12, <2>2, <2>3 DEF AttemptMove, Verdicts
    <3>2. open[q]
      BY <3>1, <2>1, <2>3, <1>2 DEF Closed
    <3>3. wire'[q] = Append(wire[q], Msg("move", {cell}))
      BY <3>1, <3>2, <2>1, <2>3, <1>2 DEF Closed, Written, q
    <3>4. Msg("move", {cell}) \in Messages /\ Msg("move", {cell}).type = "move"
      BY DEF Messages, Msg
    <3>5. QED BY <3>3, <3>4, <2>1, <1>2, CarriedOn
  <2>4. QED BY <2>1, <2>2, <2>3 DEF Delivered
<1>13. ASSUME NEW p \in Players, ReceiveMove(p) PROVE Delivered'
  BY <1>13, ReceiveKeeps, Opponent DEF Delivered
<1>14. QED BY <1>3, <1>4, <1>5, <1>6, <1>7, <1>8, <1>9, <1>10, <1>11, <1>12, <1>13
       DEF Play, Invitation, Events

\* Nothing reopens an end once the challenge is made, and only who plays, on an
\* open end, gets a result.
LEMMA EndsStayClosed ==
  ASSUME MatchInv, Seated, Play, NEW p \in Players, screen[Other(p)] \/ screen[p]
  PROVE  /\ ~open[p] => ~open'[p]
         /\ broken => broken'
         /\ done'[p] # done[p] => done[p] = "no" /\ open[p] /\ screen[p]
<1>1. X \in Players /\ O \in Players /\ X # O /\ Players = {X, O} /\ Other(X) = O /\ Other(O) = X
  BY DEF X, O, Other, Players, Rules!Marks, Rules!X, Rules!O, Rules!Other
<1>2. done \in [Players -> Results] /\ open \in [Players -> BOOLEAN]
  BY DEF MatchInv, MatchTypes, Seated
<1>3. ~Challenge
  BY <1>1 DEF Challenge, Seated
<1>4. CASE Break \/ HandlerTimeout \/ PressYes \/ PressNo \/ Invitation
  <2>1. UNCHANGED done /\ (broken => broken')
    BY <1>4 DEF gameVars, connVars, Break, HandlerTimeout, PressYes, PressNo, Invitation,
       ShowInvite, HandlerAccepts, HandlerDenies, ReadAnswer, ChallengeFails, StartAtO
  <2>2. \/ UNCHANGED open
        \/ open' = [open EXCEPT ![X] = FALSE] \/ open' = [open EXCEPT ![O] = FALSE]
    BY <1>4 DEF gameVars, connVars, Break, HandlerTimeout, PressYes, PressNo, Invitation,
       ShowInvite, HandlerAccepts, HandlerDenies, ReadAnswer, ChallengeFails, StartAtO, Closed
  <2>3. QED BY <2>1, <2>2, <1>1, <1>2
<1>5. ASSUME NEW q \in Players,
             \/ Events(q) \/ Resign(q) \/ \E cell \in Cells : AttemptMove(q, cell)
      PROVE  /\ UNCHANGED broken
             /\ UNCHANGED open \/ open' = [open EXCEPT ![q] = FALSE]
             /\ \/ UNCHANGED done
                \/ Playing(q) /\ \E how : done' = [done EXCEPT ![q] = how]
  <2>1. CASE Resign(q) \/ ReceiveResign(q) \/ LoseOpponent(q)
    BY <2>1 DEF Resign, ReceiveResign, LoseOpponent, connVars, Closed, End
  <2>2. CASE ReceiveMove(q)
    BY <2>2 DEF ReceiveMove, Closed, End
  <2>3. CASE \E cell \in Cells : SendMove(q, cell)
    BY <2>3 DEF SendMove, End
  <2>4. CASE \E cell \in Cells : AttemptMove(q, cell)
    BY <2>4 DEF AttemptMove, Closed, End
  <2>5. QED BY <1>5, <2>1, <2>2, <2>3, <2>4 DEF Events
<1>6. \A q \in Players : Playing(q) => done[q] = "no" /\ open[q] /\ screen[q]
  BY <1>1 DEF Playing, Seated, Engaged
<1>7. ASSUME NEW q \in Players,
             \/ Events(q) \/ Resign(q) \/ \E cell \in Cells : AttemptMove(q, cell)
      PROVE  /\ ~open[p] => ~open'[p]
             /\ broken => broken'
             /\ done'[p] # done[p] => done[p] = "no" /\ open[p] /\ screen[p]
  BY <1>5, <1>6, <1>7, <1>2
<1>8. QED BY <1>3, <1>4, <1>7 DEF Play

\* Who finds the opponent gone has read all there was to read.
LEMMA AbandonedStep ==
  ASSUME MatchInv, OutcomeInv, Play
  PROVE  Abandoned'
<1> SUFFICES ASSUME ~broken', NEW p \in Players, done'[p] = "lost"
             PROVE  ~open'[Other(p)] /\ done'[Other(p)] \notin Verdicts
  BY DEF Abandoned
<1> DEFINE q == Other(p)
<1>1. q \in Players /\ q # p /\ Other(q) = p
  BY Opponent
<1> HIDE DEF q
<1>2. CASE done[p] = "lost"
  <2>1. screen[p]
    BY <1>2 DEF OutcomeInv, Seated
  <2>2. ~broken /\ (~open[q] => ~open'[q]) /\ (done'[q] # done[q] => open[q])
    BY <2>1, <1>1, EndsStayClosed DEF OutcomeInv
  <2>3. ~open[q] /\ done[q] \notin Verdicts
    BY <2>2, <1>2 DEF OutcomeInv, Abandoned, q
  <2>4. QED BY <2>2, <2>3 DEF q
<1>3. CASE done[p] # "lost"
  <2>1. LoseOpponent(p)
    <3>1. done \in [Players -> Results]
      BY DEF MatchInv, MatchTypes
    <3>2. CASE Challenge \/ Break \/ HandlerTimeout \/ PressYes \/ PressNo \/ Invitation
      BY <3>2, <1>3 DEF gameVars, Challenge, Break, HandlerTimeout, PressYes, PressNo,
         Invitation, ShowInvite, HandlerAccepts, HandlerDenies, ReadAnswer, ChallengeFails,
         StartAtO
    <3>3. ASSUME NEW r \in Players,
                 \/ Resign(r) \/ ReceiveResign(r) \/ ReceiveMove(r)
                 \/ \E cell \in Cells : SendMove(r, cell) \/ AttemptMove(r, cell)
          PROVE  FALSE
      BY <3>1, <3>3, <1>3 DEF Resign, ReceiveResign, ReceiveMove, SendMove, AttemptMove, End
    <3>4. ASSUME NEW r \in Players, LoseOpponent(r) PROVE r = p
      BY <3>1, <3>4, <1>3 DEF LoseOpponent, End
    <3>5. QED BY <3>2, <3>3, <3>4 DEF Play, Events
  <2>2. /\ done[p] = "no" /\ screen[p] /\ UNCHANGED <<broken, open>>
        /\ wire[p] = <<>> /\ ~open[q] /\ done' = [done EXCEPT ![p] = "lost"]
    BY <2>1 DEF LoseOpponent, Playing, connVars, AtEnd, End, q
  <2>3. done'[q] = done[q]
    BY <2>2, <1>1 DEF MatchInv, MatchTypes
  <2>4. open[p]
    BY <2>2 DEF OutcomeInv, Seated, Engaged, X, O, Players, Rules!Marks, Rules!X, Rules!O
  <2>5. Carried(wire[p]) = {}
    BY <2>2 DEF Carried
  <2>6. done[q] \in Verdicts => Unseen(p)
    BY <2>2, VerdictUnseen DEF OutcomeInv, Verdicts, q
  <2>7. done[q] \notin Verdicts
    BY <2>2, <2>4, <2>5, <2>6 DEF OutcomeInv, Delivered, q
  <2>8. QED BY <2>2, <2>3, <2>7 DEF q
<1>4. QED BY <1>2, <1>3

-------------------------------------------------------------------------------
LEMMA InitOutcome == Init => OutcomeInv
<1> SUFFICES ASSUME Init PROVE OutcomeInv
  OBVIOUS
<1>1. MatchInv
  BY InitMatch
<1>2. /\ \A p \in Players : /\ done[p] = "no" /\ ~screen[p] /\ ~open[p] /\ wire[p] = <<>>
                            /\ ~Unseen(p)
      /\ chal = "idle" /\ handler = "none" /\ played = <<>>
  BY DEF Init, Unseen
<1>3. X \in Players /\ O \in Players /\ X # O /\ Players = {X, O}
  BY DEF X, O, Players, Rules!Marks, Rules!X, Rules!O
<1>4. LatestDecides /\ Resolved
  BY <1>1, <1>2 DEF LatestDecides, Resolved, Verdicts, MatchInv, Undecided
<1>5. Answered /\ Delivered /\ Abandoned
  <2>1. \A p \in Players : Carried(wire[p]) = {}
    BY <1>2 DEF Carried
  <2>2. QED BY <2>1, <1>2, <1>3, Opponent DEF Answered, Delivered, Abandoned, Verdicts
<1>6. open \in [Players -> BOOLEAN] /\ screen \in [Players -> BOOLEAN]
  BY DEF Init
<1>7. Seated
  BY <1>2, <1>3, <1>6 DEF Seated, Engaged
<1>8. QED BY <1>4, <1>5, <1>7 DEF OutcomeInv

LEMMA OutcomeStep ==
  ASSUME MatchInv, MatchInv', OutcomeInv, [Next]_vars
  PROVE  OutcomeInv'
<1>1. CASE Play
  BY <1>1, ResultsStep, AnsweredStep, SeatedStep, DeliveredStep, AbandonedStep DEF OutcomeInv
<1>2. CASE UNCHANGED vars \/ \E p \in Players : GameOver(p)
  <2>1. UNCHANGED <<chal, handler, open, broken, wire, screen, board, done, played>>
    BY <1>2 DEF vars, inviteVars, connVars, gameVars, GameOver
  <2>2. QED BY <2>1 DEF OutcomeInv, LatestDecides, Table, LastMove, Resolved, Answered, Seated,
            Engaged, Delivered, Unseen, Abandoned
<1>3. QED BY <1>1, <1>2 DEF Next

\* What the two results can be, whoever ended the game and however.
LEMMA OutcomesMatch ==
  ASSUME MatchInv, OutcomeInv
  PROVE  SameOutcome
<1>1. X \in Players /\ O \in Players /\ X # O /\ Players = {X, O} /\ Other(X) = O /\ Other(O) = X
  BY DEF X, O, Other, Players, Rules!Marks, Rules!X, Rules!O, Rules!Other
<1>2. done[X] \in Results /\ done[O] \in Results
  BY <1>1 DEF MatchInv, MatchTypes
<1>3. ASSUME NEW p \in Players, done[p] \in Verdicts
      PROVE  /\ Rules!Decided(board[p]) /\ board[p] = Table /\ done[p] = Verdict(Table, p)
             /\ Cells # {}
  BY <1>3, DecidedIsTable DEF OutcomeInv, Resolved
\* A player who resigned has not lost.
<1>4. ASSUME NEW p \in Players, done[p] = "lose" PROVE done[Other(p)] # "resigned"
  <2> DEFINE q == Other(p)
  <2>1. q \in Players /\ q # p
    BY Opponent
  <2>2. board[p] = Table /\ Cells # {} /\ Rules!Wins(Table, q)
    BY <1>3, <1>4 DEF Verdicts, Verdict
  <2> HIDE DEF q
  <2>3. LastMove.mark = q
    BY <2>1, <2>2, WinnerMovedLast DEF OutcomeInv
  <2>4. ~Unseen(q)
    BY <2>1, <2>3, Opponent DEF Unseen, LastMove, q
  <2>5. Rules!Decided(board[q])
    BY <2>1, <2>2, <2>4 DEF MatchInv, Boarded, Rules!Decided, Players
  <2>6. done[q] \in Verdicts
    BY <2>1, <2>2, <2>5 DEF OutcomeInv, Resolved
  <2>7. QED BY <2>6 DEF Verdicts, q
<1>5. ASSUME done[X] \in Verdicts, done[O] \in Verdicts
      PROVE  \/ done[X] = "draw" /\ done[O] = "draw"
             \/ {done[X], done[O]} = {"win", "lose"}
  <2>1. done[X] = Verdict(Table, X) /\ done[O] = Verdict(Table, O)
    BY <1>1, <1>3, <1>5
  <2>2. ~(Rules!Wins(Table, X) /\ Rules!Wins(Table, O))
    BY <1>1, WinnerMovedLast DEF OutcomeInv
  <2>3. QED BY <2>1, <2>2, <1>1 DEF Verdict
<1>6. \A p \in Players : done[p] = "win by resignation" => done[Other(p)] = "resigned"
  BY DEF OutcomeInv, Answered
<1>7. Compatible(done[X], done[O])
  <2>1. CASE done[X] \in Verdicts /\ done[O] \in Verdicts
    BY <2>1, <1>5 DEF Compatible
  <2>2. CASE done[X] = "resigned" \/ done[O] = "resigned"
    BY <2>2, <1>1, <1>4 DEF Compatible
  <2>3. CASE "no" \in {done[X], done[O]} \/ "lost" \in {done[X], done[O]}
             \/ "unsent" \in {done[X], done[O]}
    BY <2>3 DEF Compatible
  <2>4. CASE done[X] = "win by resignation" \/ done[O] = "win by resignation"
    BY <2>2, <2>4, <1>1, <1>6
  <2>5. QED BY <2>1, <2>2, <2>3, <2>4, <1>2 DEF Results, Verdicts
<1>8. ~broken => \A p \in Players :
        done[p] \in {"win", "lose", "draw"} /\ screen[Other(p)] => done[Other(p)] # "lost"
  BY Opponent DEF OutcomeInv, Abandoned, Verdicts
<1>9. screen[X] => handler = "session"
  BY DEF OutcomeInv, Seated
<1>10. ASSUME NEW p \in Players
       PROVE  done[p] = "win" <=> done[p] # "no" /\ Rules!Wins(board[p], p)
  <2>1. done[p] = "win" => Rules!Wins(board[p], p)
    BY DEF OutcomeInv, Resolved, Verdicts, Verdict
  <2>2. ASSUME done[p] # "no", Rules!Wins(board[p], p) PROVE done[p] = "win"
    <3>1. Cells # {} /\ Rules!Decided(board[p])
      <4>1. Rules!Decided(board[p])
        BY <2>2 DEF Rules!Decided, Players
      <4>2. PICK line \in Lines : \A c \in line : board[p][c] = p
        BY <2>2 DEF Rules!Wins
      <4>3. QED BY <4>1, <4>2, BoardAssumption
    <3>2. done[p] \in Verdicts /\ done[p] = Verdict(board[p], p)
      BY <3>1 DEF OutcomeInv, Resolved
    <3>3. QED BY <3>2, <2>2 DEF Verdict
  <2>3. QED BY <2>1, <2>2
<1>11. QED BY <1>7, <1>8, <1>9, <1>10 DEF SameOutcome

\* Two players are never told results that do not belong together: not two
\* victories, nor a draw and a defeat, whichever of them ended the game and
\* whatever was under way, refused, timed out or lost; and while the network
\* works nobody is told that the opponent of a finished game is gone.
THEOREM OutcomesAgree == Spec => []SameOutcome
<1>1. MatchInv /\ MatchInv' /\ OutcomeInv /\ [Next]_vars => OutcomeInv'
  BY OutcomeStep
<1>2. MatchInv /\ OutcomeInv => SameOutcome
  BY OutcomesMatch
<1>3. QED BY <1>1, <1>2, InitOutcome, MatchInvariance, PTL DEF Spec
================================================================================
