------------------------------- MODULE TcpMC -------------------------------
(***************************************************************************)
(* A small connection of Tcp for TLC.                                      *)
(***************************************************************************)
EXTENDS TcpRefinement

MCWrites == [e \in Ends |-> IF e = Client THEN <<3, 1>> ELSE <<>>]
MCNetSize == [e \in Ends |-> IF e = Client THEN 2 ELSE 1]
MCIss == [e \in Ends |-> IF e = Client THEN SeqSpace - 2 ELSE SeqSpace - 1]
=============================================================================
