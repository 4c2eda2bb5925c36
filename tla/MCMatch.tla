-------------------------------- MODULE MCMatch --------------------------------
(* A small board for TLC: two rows of three cells, where the rows and the two  *)
(* diagonals win, so that games are won by either side, late or early, or drawn. *)
EXTENDS Match

SmallLines == {{0, 1, 2}, {3, 4, 5}, {0, 4}, {2, 4}}
================================================================================
