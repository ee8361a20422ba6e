--------------------------- MODULE TcpRefinement ----------------------------
(***************************************************************************)
(* The connection of Tcp implements ByteStreams: app is what the programs  *)
(* at the ends have seen of it.                                            *)
(***************************************************************************)
EXTENDS Tcp

Streams == INSTANCE ByteStreams
             WITH Other <- Peer,
                  Sizes <- UNION {Range(Writes[e]) : e \in Ends},
                  wrote <- [e \in Ends |-> app[e].wrote],
                  ended <- {e \in Ends : app[e].ended},
                  got   <- [e \in Ends |-> app[e].got],
                  told  <- {e \in Ends : app[e].eof}

\* However segments are lost, repeated, overtaken, cut, split and
\* retransmitted, and whatever the window does, tcp_receive hands the program
\* the bytes tcp_write was given, in order and once, and its end after them.
ImplementsStreams == Streams!Spec
=============================================================================
