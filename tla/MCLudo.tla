-------------------------------- MODULE MCLudo --------------------------------
(* A small board for TLC: two seats on a track of four squares, of which the   *)
(* second is the only one where a token can be captured.                       *)
EXTENDS LudoMatch, TLC
StartsOfFour == 0 :> 0 @@ 1 :> 3
================================================================================
