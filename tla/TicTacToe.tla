------------------------------- MODULE TicTacToe -------------------------------
(***************************************************************************)
(* The game two players mean to play: internal/games/tictactoe/board.go    *)
(* and the rules attemptMove enforces, on one board nobody has to copy.    *)
(* X moves first, the marks alternate, a mark goes on an empty cell, and   *)
(* nothing is played after a line is complete or the board is full.        *)
(***************************************************************************)
EXTENDS Naturals, Sequences, FiniteSets

CONSTANTS
  Cells,  \* 0..8 in the code
  Lines   \* winLines: the sets of cells that win

VARIABLE played  \* the moves so far: a sequence of [mark, cell]

X == "X"
O == "O"
Marks == {X, O}
Empty == "-"
Other(mark) == IF mark = X THEN O ELSE X

Boards == [Cells -> Marks \cup {Empty}]
NewBoard == [c \in Cells |-> Empty]
Moves == [mark : Marks, cell : Cells]

\* The board after a sequence of moves, each on a cell of its own.
BoardOf(moves) ==
  [c \in Cells |->
     IF \E i \in DOMAIN moves : moves[i].cell = c
       THEN moves[CHOOSE i \in DOMAIN moves : moves[i].cell = c].mark
       ELSE Empty]

Wins(board, mark) == \E line \in Lines : \A c \in line : board[c] = mark
Full(board) == \A c \in Cells : board[c] # Empty
Decided(board) == (\E mark \in Marks : Wins(board, mark)) \/ Full(board)

Init == played = <<>>

Move(mark, cell) ==
  /\ ~Decided(BoardOf(played))
  /\ mark = IF played = <<>> THEN X ELSE Other(played[Len(played)].mark)
  /\ BoardOf(played)[cell] = Empty
  /\ played' = Append(played, [mark |-> mark, cell |-> cell])

Next == \E mark \in Marks, cell \in Cells : Move(mark, cell)

Spec == Init /\ [][Next]_played
================================================================================
