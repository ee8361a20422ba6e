------------------------------ MODULE TcpReplay -----------------------------
(***************************************************************************)
(* One behaviour of Tcp, step by step, that its own runs are too shallow   *)
(* to reach: a fast retransmission into a window that an ACK overtaken on  *)
(* the way has closed, and a retransmission time-out after it.             *)
(***************************************************************************)
EXTENDS Tcp

VARIABLE at

ReplayWrites == [e \in Ends |-> IF e = Client THEN <<3, 1, 1, 1>> ELSE <<1>>]
ReplayNetSize == [e \in Ends |-> 4]
ReplayIss == [e \in Ends |-> IF e = Client THEN 10 ELSE 40]

Arrives(e, i) == Input(e, i, FALSE)
ArrivesRepeated(e) == Input(e, 1, TRUE)
TimesOutAt(e) == SlowTmr(e, TRUE, FALSE)

\* The handshake, and a byte of the server's that is lost.
Opening(i) ==
  \/ i = 1 /\ Connect
  \/ i = 2 /\ Arrives(Server, 1)
  \/ i = 3 /\ Arrives(Client, 1)
  \/ i = 4 /\ Arrives(Server, 1)
  \/ i = 5 /\ Write(Server)
  \/ i = 6 /\ Lose(Client, 1)

\* The client fills the window.  One copy of the ACK that closes it stays
\* under way; the server reads, its window update is lost, and the byte it
\* sends again opens the window.
Overtaken(i) ==
  \/ i = 7 /\ Write(Client)
  \/ i \in {8, 9} /\ Arrives(Server, 1)
  \/ i = 10 /\ ArrivesRepeated(Client)
  \/ i = 11 /\ Recved(Server)
  \/ i = 12 /\ Lose(Client, 2)
  \/ i = 13 /\ TimesOutAt(Server)
  \/ i = 14 /\ Arrives(Client, 2)

\* The client sends two segments; the ACK that was overtaken closes the
\* window behind them, its three copies are duplicate ACKs, and then the
\* retransmission timer expires.
Reordered(i) ==
  \/ i \in {15, 16} /\ Write(Client)
  \/ i \in {17, 18, 19} /\ ArrivesRepeated(Client)
  \/ i = 20 /\ Arrives(Client, 1)
  \/ i = 21 /\ TimesOutAt(Client)

ReplayInit == Init /\ at = 0
ReplayNext ==
  /\ at' = at + 1
  /\ Opening(at') \/ Overtaken(at') \/ Reordered(at')
ReplaySpec == ReplayInit /\ [][ReplayNext]_<<vars, at>>

\* "These are ordered by sequence number" (tcp.h:337): unsent and unacked of
\* each PCB, whatever tcp_rexmit and tcp_rexmit_rto_prepare have moved
\* between them.
QueuesOrdered ==
  \A e \in Ends : \A q \in {pcb[e].unsent, pcb[e].unacked} :
    \A i \in 2 .. Len(q) : SeqLT(q[i - 1].seq, q[i].seq)
=============================================================================
