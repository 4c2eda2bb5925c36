---------------------------- MODULE MCFileTransfer ----------------------------
(* Two transfers of files of the same name, of one piece each.              *)
EXTENDS FileTransfer

CONSTANTS t1, t2, name

OneName == [t \in Transfers |-> name]
OnePiece == [t \in Transfers |-> 1]
===============================================================================
