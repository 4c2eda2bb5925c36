--------------------------------- MODULE MCApp ---------------------------------
(* After signing in the user leaves the chat screen once; without a server,    *)
(* where nothing came before, twice.                                           *)
EXTENDS App

TripsByMode == [m \in Modes |-> IF m = "lan" THEN 2 ELSE 1]
================================================================================
