-------------------------------- MODULE Tcp --------------------------------
(***************************************************************************)
(* A TCP connection between two ends that both run tcp.c, tcp_in.c and     *)
(* tcp_out.c with the options of lwipopts.h: the client opens it actively, *)
(* the server accepts one connection and closes its listener.  Segments    *)
(* are lost, overtake each other and are delivered twice; the ends' timers *)
(* run at their own pace.  Sequence numbers wrap.                          *)
(*                                                                         *)
(* Left open, as choices: on which tick the retransmission timer expires   *)
(* (rto follows the measured round trips) or a state has lasted too long   *)
(* (its clock stops once the program has closed), the congestion window    *)
(* (of a segment or more), whether Nagle's algorithm holds back a short    *)
(* last segment (the program may switch it off), on which ticks the        *)
(* program is polled, and which duplicate ACK is the third.                *)
(* TCP_QUEUE_OOSEQ is 0: what comes early is not kept.                     *)
(***************************************************************************)
EXTENDS Integers, Sequences, FiniteSets, SequencesExt

CONSTANTS
  Client, Server,
  Writes,          \* Writes[e]: the lengths of the tcp_writes e's program does
  ISS,             \* ISS[e]: what tcp_next_iss gives e first
  SeqSpace,          \* 2^32 in the code
  TCP_MSS, TCP_WND,
  TCP_MAXRTX, TCP_SYNMAXRTX,
  NetSize,         \* NetSize[e]: segments under way to e, at most
  MaxConns,        \* connections the server's pool has room for, in all
  MaxFaults,       \* segments lost, overtaken or delivered twice, FINs there is
                   \* no memory for and timers that expire too early, in all
  Closers,         \* the ends whose program may close before the other has
  HalfClosers      \* the ends whose program may shut down sending alone

Ends == {Client, Server}
Peer(e) == IF e = Client THEN Server ELSE Client

ASSUME TcpAssumption ==
  /\ Client # Server
  /\ Writes \in [Ends -> Seq(Nat \ {0})]
  /\ SeqSpace \in Nat \ {0} /\ SeqSpace % 2 = 0
  /\ ISS \in [Ends -> 0 .. SeqSpace - 1]
  /\ {TCP_MSS, TCP_WND, TCP_MAXRTX, TCP_SYNMAXRTX} \subseteq Nat \ {0}
  /\ NetSize \in [Ends -> Nat \ {0}]
  /\ {MaxConns, MaxFaults} \subseteq Nat
  /\ Closers \subseteq Ends /\ HalfClosers \subseteq Ends
  /\ TCP_MSS <= TCP_WND /\ 4 * TCP_WND < SeqSpace

VARIABLES
  pcb,         \* the protocol control block of each end
  listening,   \* whether the end has a listening PCB
  app,         \* what each end's program has written, got and asked for
  net,         \* the segments under way to each end
  conns, faults   \* how often each bounded event has happened

vars == <<pcb, listening, app, net, conns, faults>>

-----------------------------------------------------------------------------
(* Sequence numbers and segments.                                          *)

Plus(a, n) == (a + n) % SeqSpace
Minus(a, b) == (a - b) % SeqSpace
SeqLT(a, b) == Minus(a, b) >= SeqSpace \div 2
SeqLEQ(a, b) == a = b \/ SeqLT(a, b)
Between(a, b, c) == ~SeqLT(a, b) /\ SeqLEQ(a, c)

TcpLen(s) == Len(s.data) + IF s.syn \/ s.fin THEN 1 ELSE 0
SegEnd(s) == Plus(s.seq, TcpLen(s))

QueuedSeg(seq, data, syn, fin) ==
  [seq |-> seq, data |-> data, syn |-> syn, fin |-> fin]

\* A queued segment s as tcp_output_segment puts it on the wire.
OnWire(p, s) ==
  [seq |-> s.seq, data |-> s.data, syn |-> s.syn, fin |-> s.fin,
   rst |-> FALSE, ack |-> p.state # "SYN_SENT",
   ackno |-> IF p.state = "SYN_SENT" THEN 0 ELSE p.rcv_nxt,
   wnd |-> p.rcv_ann_wnd]

Reset(seq, ackno) ==
  [seq |-> seq, data |-> <<>>, syn |-> FALSE, fin |-> FALSE, rst |-> TRUE,
   ack |-> TRUE, ackno |-> ackno, wnd |-> TCP_WND]

\* The reset that answers segment s.
ResetFor(s) == Reset(s.ackno, SegEnd(s))

-----------------------------------------------------------------------------
(* The PCB.                                                                *)

NoPcb ==
  [state |-> "NONE", unsent |-> <<>>, unacked |-> <<>>,
   lastack |-> 0, snd_nxt |-> 0, snd_lbb |-> 0,
   snd_wnd |-> 0, snd_wl1 |-> 0, snd_wl2 |-> 0,
   rcv_nxt |-> 0, rcv_wnd |-> TCP_WND,
   rcv_ann_wnd |-> TCP_WND, rcv_ann_right_edge |-> 0,
   nrtx |-> 0, rtime |-> FALSE, persist |-> FALSE, probes |-> 0,
   ack_now |-> FALSE, ack_delay |-> FALSE, infr |-> FALSE,
   rxclosed |-> FALSE, closepend |-> FALSE,
   refused |-> <<>>, refused_fin |-> FALSE]

NoApp == [wrote |-> 0, writes |-> 0, got |-> <<>>, ended |-> FALSE,
          eof |-> FALSE, closed |-> FALSE]

Init ==
  /\ pcb = [e \in Ends |-> NoPcb]
  /\ listening = [e \in Ends |-> e = Server]
  /\ app = [e \in Ends |-> NoApp]
  /\ net = [e \in Ends |-> <<>>]
  /\ conns = [e \in Ends |-> 0]
  /\ faults = 0

\* What one call works on: the PCB, the program's side of it, the segments
\* sent, and recv_data and recv_flags of tcp_in.c.
Work(e) ==
  [p |-> pcb[e], a |-> app[e], listen |-> listening[e], out |-> <<>>,
   data |-> <<>>, fin |-> FALSE, flag |-> "OK"]

FinStates == {"FIN_WAIT_1", "FIN_WAIT_2", "CLOSING", "LAST_ACK"}
Receiving == {"SYN_RCVD", "ESTABLISHED", "FIN_WAIT_1", "FIN_WAIT_2"}

\* tcp_pcb_purge and the move to TIME_WAIT.
ToTimeWait(w) ==
  [w EXCEPT !.p.state = "TIME_WAIT", !.p.unsent = <<>>, !.p.unacked = <<>>,
            !.p.rtime = FALSE, !.p.refused = <<>>, !.p.refused_fin = FALSE]

Freed(w) == [w EXCEPT !.p = NoPcb, !.flag = "GONE"]

Sends(w, s) == [w EXCEPT !.out = Append(@, s)]

AckNow(w) == [w EXCEPT !.p.ack_now = TRUE]

SendEmptyAck(w) ==
  [Sends(w, OnWire(w.p, QueuedSeg(w.p.snd_nxt, <<>>, FALSE, FALSE)))
     EXCEPT !.p.ack_now = FALSE, !.p.ack_delay = FALSE,
            !.p.rcv_ann_right_edge = Plus(w.p.rcv_nxt, w.p.rcv_ann_wnd)]

\* tcp_update_rcv_ann_wnd; Inflation is what it returns.
Lesser(a, b) == IF a < b THEN a ELSE b

Inflation(p) ==
  LET edge == Plus(p.rcv_nxt, p.rcv_wnd)
      enough == Plus(p.rcv_ann_right_edge, Lesser(TCP_WND \div 2, TCP_MSS))
  IN  IF SeqLT(edge, enough) THEN 0 ELSE Minus(edge, p.rcv_ann_right_edge)

AnnouncedWnd(p) ==
  IF Inflation(p) > 0 THEN p.rcv_wnd
  ELSE IF SeqLT(p.rcv_ann_right_edge, p.rcv_nxt) THEN 0
  ELSE Minus(p.rcv_ann_right_edge, p.rcv_nxt)

WithAnnWnd(w) == [w EXCEPT !.p.rcv_ann_wnd = AnnouncedWnd(w.p)]

-----------------------------------------------------------------------------
(* Output: tcp_out.c.                                                      *)

\* How far behind what is acknowledged a segment ends.
Distance(p, s) == Minus(Plus(s.seq, Len(s.data)), p.lastack)

\* How many segments at the head of q come before s, and q with s put there.
Earlier(q, s) ==
  CHOOSE n \in 0 .. Len(q) :
    /\ \A i \in 1 .. n : SeqLT(q[i].seq, s.seq)
    /\ n < Len(q) => ~SeqLT(q[n + 1].seq, s.seq)

Insert(q, s) ==
  LET n == Earlier(q, s)
  IN  SubSeq(q, 1, n) \o <<s>> \o SubSeq(q, n + 1, Len(q))

Later(a, b) == IF SeqLT(a, b) THEN b ELSE a

\* The body of tcp_output's loop, for the head of unsent.
OutputSegment(w) ==
  LET p == w.p
      s == Head(p.unsent)
  IN  [Sends(w, OnWire(p, s)) EXCEPT
         !.p.unsent = Tail(p.unsent),
         !.p.unacked = Insert(p.unacked, s),
         !.p.snd_nxt = Later(p.snd_nxt, SegEnd(s)),
         !.p.rcv_ann_right_edge = Plus(p.rcv_nxt, p.rcv_ann_wnd),
         !.p.rtime = TRUE,
         !.p.ack_now = p.ack_now /\ p.state = "SYN_SENT",
         !.p.ack_delay = p.ack_delay /\ p.state = "SYN_SENT"]

\* Sending the first n segments of unsent.
OutputFirst(w, n) ==
  LET sent[k \in 0 .. n] == IF k = 0 THEN w ELSE OutputSegment(sent[k - 1])
  IN  sent[n]

AckIfDue(w) == IF w.p.ack_now THEN SendEmptyAck(w) ELSE w

\* The head does not fit into the window: the persist timer takes over.
Blocked(w) ==
  IF w.p.unacked = <<>> /\ ~w.p.persist
    THEN [w EXCEPT !.p.persist = TRUE, !.p.probes = 0]
    ELSE w

\* Nagle's algorithm may hold back the last segment if it is short and
\* others are in flight, but neither in a fast retransmission nor once the
\* FIN is in the queue.
MayHold(p) == /\ p.unacked # <<>> /\ ~p.infr /\ p.state \notin FinStates
              /\ Len(p.unsent) = 1 /\ Len(Head(p.unsent).data) < TCP_MSS

\* tcp_output with a window of wnd.  Only the peer's window starts the
\* persist timer.
OutputWithin(w, wnd) ==
  LET p == w.p
      fits(n) == Distance(p, p.unsent[n]) <= wnd
      send == [w EXCEPT !.p.persist = FALSE]
      stops == {n \in 0 .. Len(p.unsent) :
                  /\ \A k \in 1 .. n : fits(k)
                  /\ n < Len(p.unsent) /\ fits(n + 1) => MayHold(OutputFirst(send, n).p)}
  IN  IF fits(1) THEN {OutputFirst(send, n) : n \in stops}
      ELSE {AckIfDue(IF wnd = p.snd_wnd THEN Blocked(w) ELSE w)}

\* tcp_output, for every congestion window.
Output(w) ==
  IF w.p.unsent = <<>> THEN {AckIfDue(w)}
  ELSE UNION {OutputWithin(w, Lesser(w.p.snd_wnd, cwnd)) : cwnd \in TCP_MSS .. TCP_WND}

\* The segments tcp_write makes of new data: it fills up the last unsent
\* segment and cuts the rest into new ones.
Bytes(m, n) == [i \in 1 .. n |-> m + i]

Room(q) ==
  IF q = <<>> \/ Last(q).data = <<>> THEN 0 ELSE TCP_MSS - Len(Last(q).data)

CutUp(data, seq) ==
  [k \in 1 .. (Len(data) + TCP_MSS - 1) \div TCP_MSS |->
     QueuedSeg(Plus(seq, (k - 1) * TCP_MSS),
               SubSeq(data, (k - 1) * TCP_MSS + 1, Lesser(Len(data), k * TCP_MSS)),
               FALSE, FALSE)]

Enqueued(p, data) ==
  LET n == Lesser(Room(p.unsent), Len(data))
      filled == IF n = 0 THEN p.unsent
                ELSE [p.unsent EXCEPT ![Len(p.unsent)].data =
                                        @ \o SubSeq(data, 1, n)]
  IN  filled \o CutUp(SubSeq(data, n + 1, Len(data)), Plus(p.snd_lbb, n))

\* tcp_send_fin, when the memory it may need is there: the FIN goes onto the
\* last unsent segment if there is one that has data.
PiggyBacks(p) == p.unsent # <<>> /\ ~Last(p.unsent).syn /\ ~Last(p.unsent).fin

SendFin(w) ==
  IF PiggyBacks(w.p)
    THEN [w EXCEPT !.p.unsent[Len(w.p.unsent)].fin = TRUE]
    ELSE [w EXCEPT !.p.unsent = Append(@, QueuedSeg(w.p.snd_lbb, <<>>, FALSE, TRUE)),
                   !.p.snd_lbb = Plus(@, 1)]

\* tcp_rexmit_rto_prepare and _commit, up to its tcp_output.
RexmitRto(w) ==
  [w EXCEPT !.p.unsent = w.p.unacked \o @, !.p.unacked = <<>>,
            !.p.nrtx = @ + 1, !.p.rtime = TRUE]

\* tcp_rexmit.
Rexmit(w) ==
  IF w.p.unacked = <<>> THEN w
  ELSE [w EXCEPT !.p.unacked = Tail(@),
                 !.p.unsent = Insert(@, Head(w.p.unacked)),
                 !.p.nrtx = @ + 1]

\* tcp_rexmit_fast.
RexmitFast(w) ==
  IF w.p.unacked = <<>> \/ w.p.infr THEN w
  ELSE [Rexmit(w) EXCEPT !.p.infr = TRUE, !.p.rtime = TRUE]

\* tcp_zero_window_probe: one byte of the head of unsent, or its FIN.
ZeroWindowProbe(w) ==
  LET s == Head(w.p.unsent)
      probe == IF s.data = <<>> THEN s
               ELSE [s EXCEPT !.data = SubSeq(@, 1, 1), !.fin = FALSE]
      v == [w EXCEPT !.p.probes = @ + 1,
                     !.p.snd_nxt = Later(@, Plus(s.seq, 1)),
                     !.p.rcv_ann_right_edge = Plus(w.p.rcv_nxt, w.p.rcv_ann_wnd)]
  IN  IF w.p.unsent = <<>> THEN w
      ELSE Sends(v, OnWire(w.p, [probe EXCEPT !.syn = FALSE]))

\* Mutant of Split: the FIN stays on the first part.
SplitFinFirst(q, n) ==
  LET s == Head(q)
  IN  IF Len(s.data) <= n THEN q
      ELSE <<[s EXCEPT !.data = SubSeq(@, 1, n)],
             QueuedSeg(Plus(s.seq, n), SubSeq(s.data, n + 1, Len(s.data)), FALSE, FALSE)>>
           \o Tail(q)

\* tcp_split_unsent_seg.
Split(q, n) ==
  LET s == Head(q)
  IN  IF Len(s.data) <= n THEN q
      ELSE <<[s EXCEPT !.data = SubSeq(@, 1, n), !.fin = FALSE],
             QueuedSeg(Plus(s.seq, n), SubSeq(s.data, n + 1, Len(s.data)), FALSE, s.fin)>>
           \o Tail(q)

-----------------------------------------------------------------------------
(* tcp_receive: the acknowledgment, then the data.                         *)

\* tcp_free_acked_segments.
Acked(q, ackno) ==
  CHOOSE n \in 0 .. Len(q) :
    /\ \A i \in 1 .. n : SeqLEQ(SegEnd(q[i]), ackno)
    /\ n < Len(q) => ~SeqLEQ(SegEnd(q[n + 1]), ackno)

Unacked(q, ackno) == SubSeq(q, Acked(q, ackno) + 1, Len(q))

\* Mutant of NewAck: an ACK of part of what is in flight stops the timer.
NewAckStopsTimer(w, ackno) ==
  [w EXCEPT !.p.infr = FALSE, !.p.nrtx = 0, !.p.lastack = ackno,
            !.p.unacked = Unacked(@, ackno), !.p.unsent = Unacked(@, ackno),
            !.p.rtime = FALSE]

NewAck(w, ackno) ==
  LET rest == Unacked(w.p.unacked, ackno)
  IN  [w EXCEPT !.p.infr = FALSE, !.p.nrtx = 0, !.p.lastack = ackno,
                !.p.unacked = rest, !.p.unsent = Unacked(@, ackno),
                !.p.rtime = rest # <<>>]

UpdatesWindow(p, s) ==
  \/ SeqLT(p.snd_wl1, s.seq)
  \/ p.snd_wl1 = s.seq /\ SeqLT(p.snd_wl2, s.ackno)
  \/ p.snd_wl2 = s.ackno /\ s.wnd > p.snd_wnd

ReceiveAck(w, s) ==
  LET p == w.p
      u == IF ~UpdatesWindow(p, s) THEN w
           ELSE [w EXCEPT !.p.snd_wnd = s.wnd, !.p.snd_wl1 = s.seq,
                          !.p.snd_wl2 = s.ackno]
      duplicate == /\ TcpLen(s) = 0 /\ p.rtime /\ s.ackno = p.lastack
                   /\ Plus(u.p.snd_wl2, u.p.snd_wnd) = Plus(p.snd_wl2, p.snd_wnd)
  IN  IF SeqLEQ(s.ackno, p.lastack)
        THEN {u} \cup IF duplicate THEN {RexmitFast(u)} ELSE {}
      ELSE IF Between(s.ackno, Plus(p.lastack, 1), p.snd_nxt)
        THEN {NewAck(u, s.ackno)}
      ELSE {SendEmptyAck(u)}

\* Mutant of Trimmed: only the sequence number moves.
TrimmedSeqOnly(s, nxt) == [s EXCEPT !.seq = nxt]

\* What lies before rcv_nxt is cut off, and what lies beyond the window.
Trimmed(s, nxt) ==
  [s EXCEPT !.seq = nxt, !.data = SubSeq(@, Minus(nxt, s.seq) + 1, Len(@))]

Cut(s, wnd) ==
  IF TcpLen(s) <= wnd THEN s
  ELSE [s EXCEPT !.data = SubSeq(@, 1, wnd), !.fin = FALSE]

\* tcp_ack: every second segment is acknowledged at once.
Ack(w) == IF w.p.ack_delay
            THEN [w EXCEPT !.p.ack_delay = FALSE, !.p.ack_now = TRUE]
            ELSE [w EXCEPT !.p.ack_delay = TRUE]

Accept(w, s) ==
  Ack([WithAnnWnd([w EXCEPT !.p.rcv_nxt = SegEnd(s), !.p.rcv_wnd = @ - TcpLen(s)])
         EXCEPT !.data = s.data, !.fin = s.fin])

ReceiveData(w, s) ==
  LET p == w.p
      n == TcpLen(s)
      overlaps == Between(p.rcv_nxt, Plus(s.seq, 1), Plus(s.seq, n - 1))
      t == IF overlaps THEN Trimmed(s, p.rcv_nxt) ELSE s
  IN  IF n = 0 \/ p.state \notin Receiving
        THEN IF Between(s.seq, p.rcv_nxt, Plus(p.rcv_nxt, p.rcv_wnd - 1))
               THEN w ELSE AckNow(w)
      ELSE IF t.seq = p.rcv_nxt /\ p.rcv_wnd > 0 THEN Accept(w, Cut(t, p.rcv_wnd))
      ELSE SendEmptyAck(w)

Receive(w, s) ==
  {ReceiveData(v, s) : v \in IF s.ack THEN ReceiveAck(w, s) ELSE {w}}

-----------------------------------------------------------------------------
(* tcp_process, the state machine.                                         *)

ProcessReset(w, s) ==
  LET p == w.p
      acceptable == IF p.state = "SYN_SENT" THEN s.ackno = p.snd_nxt
                                            ELSE s.seq = p.rcv_nxt
  IN  IF acceptable THEN Freed(w)
      ELSE IF /\ p.state # "SYN_SENT"
              /\ Between(s.seq, p.rcv_nxt, Plus(p.rcv_nxt, p.rcv_wnd))
        THEN AckNow(w)
      ELSE w

ProcessSynSent(w, s) ==
  LET p == w.p
      left == IF p.unacked = <<>> THEN [w EXCEPT !.p.unsent = Tail(@)]
                                  ELSE [w EXCEPT !.p.unacked = Tail(@)]
  IN  IF s.ack /\ s.syn /\ s.ackno = Plus(p.lastack, 1)
        THEN AckNow([left EXCEPT
               !.p.state = "ESTABLISHED", !.p.rcv_nxt = Plus(s.seq, 1),
               !.p.rcv_ann_right_edge = Plus(s.seq, 1), !.p.lastack = s.ackno,
               !.p.snd_wnd = s.wnd, !.p.snd_wl1 = Plus(s.seq, SeqSpace - 1),
               !.p.rtime = left.p.unacked # <<>>,
               !.p.nrtx = IF left.p.unacked = <<>> THEN @ ELSE 0])
      ELSE IF s.ack
        THEN LET r == Sends(w, ResetFor(s))
             IN  IF p.nrtx < TCP_SYNMAXRTX /\ p.unacked # <<>>
                   THEN RexmitRto(r) ELSE r
      ELSE w

\* The program accepts the connection, and no other.
ProcessSynRcvd(w, s) ==
  LET p == w.p
  IN  IF s.ack /\ Between(s.ackno, Plus(p.lastack, 1), p.snd_nxt)
        THEN {IF v.fin THEN AckNow([v EXCEPT !.p.state = "CLOSE_WAIT"]) ELSE v :
                v \in Receive([w EXCEPT !.p.state = "ESTABLISHED",
                                        !.listen = FALSE], s)}
      ELSE IF s.ack THEN {Sends(w, ResetFor(s))}
      ELSE IF s.syn /\ s.seq = Plus(p.rcv_nxt, SeqSpace - 1) THEN {Rexmit(w)}
      ELSE {w}

\* Mutant of AcksAll: a FIN that waits in unsent is forgotten.
AcksAllSent(v, s) == s.ack /\ s.ackno = v.p.snd_nxt

\* Whether segment s acknowledges everything the end has to send.
AcksAll(v, s) == s.ack /\ s.ackno = v.p.snd_nxt /\ v.p.unsent = <<>>

\* The state after tcp_receive has made v of the PCB.
AfterReceive(v, s) ==
  LET goto(state) == [v EXCEPT !.p.state = state]
  IN  CASE v.p.state \in {"ESTABLISHED", "CLOSE_WAIT"} ->
             IF v.fin THEN AckNow(goto("CLOSE_WAIT")) ELSE v
        [] v.p.state = "FIN_WAIT_1" ->
             IF v.fin THEN AckNow(IF AcksAll(v, s) THEN ToTimeWait(v) ELSE goto("CLOSING"))
             ELSE IF AcksAll(v, s) THEN goto("FIN_WAIT_2") ELSE v
        [] v.p.state = "FIN_WAIT_2" ->
             IF v.fin THEN AckNow(ToTimeWait(v)) ELSE v
        [] v.p.state = "CLOSING" ->
             IF AcksAll(v, s) THEN ToTimeWait(v) ELSE v
        [] v.p.state = "LAST_ACK" ->
             IF AcksAll(v, s) THEN Freed(v) ELSE v

Process(w, s) ==
  LET v == [w EXCEPT !.p.probes = 0]
  IN  IF s.rst THEN {ProcessReset(w, s)}
      ELSE IF s.syn /\ w.p.state \notin {"SYN_SENT", "SYN_RCVD"} THEN {AckNow(w)}
      ELSE IF w.p.state = "SYN_SENT" THEN {ProcessSynSent(v, s)}
      ELSE IF w.p.state = "SYN_RCVD" THEN ProcessSynRcvd(v, s)
      ELSE {AfterReceive(u, s) : u \in Receive(v, s)}

-----------------------------------------------------------------------------
(* tcp_input: what follows tcp_process, and the segments no PCB matches.   *)

\* The program is told of the end of the stream; its sequence number goes
\* back to the window.
EndOfStream(w) ==
  [w EXCEPT !.a.eof = TRUE, !.p.rcv_wnd = IF @ = TCP_WND THEN @ ELSE @ + 1]

\* The program takes the data it is offered, or refuses it for now.
Offer(w, data, fin, take) ==
  IF ~take THEN [w EXCEPT !.p.refused = data, !.p.refused_fin = fin]
  ELSE LET v == [w EXCEPT !.a.got = @ \o data, !.p.refused = <<>>,
                          !.p.refused_fin = FALSE]
       IN  IF fin THEN EndOfStream(v) ELSE v

\* tcp_process_refused_data.
OfferAgain(w, take) ==
  IF w.p.refused = <<>> THEN w ELSE Offer(w, w.p.refused, w.p.refused_fin, take)

\* tcp_abort: no reset is sent from TIME_WAIT.
Abort(w) ==
  Freed(IF w.p.state = "TIME_WAIT" THEN w
        ELSE Sends(w, Reset(w.p.snd_nxt, w.p.rcv_nxt)))

\* After tcp_process: the data and the end of the stream go to the program,
\* then tcp_output.  Data that comes after tcp_close aborts the connection.
Callbacks(w, take) ==
  IF w.flag = "GONE" THEN {w}
  ELSE IF w.data # <<>> /\ w.p.rxclosed THEN {Abort(w)}
  ELSE Output(IF w.data # <<>> THEN Offer(w, w.data, w.fin, take)
              ELSE IF w.fin THEN EndOfStream(w) ELSE w)

\* Data refused before is offered again first; while it is refused, a
\* segment with anything in it is dropped.
ActiveInput(w, s, take) ==
  LET v == OfferAgain(w, take)
  IN  IF v.p.refused # <<>> /\ TcpLen(s) > 0
        THEN {IF v.p.rcv_ann_wnd = 0 THEN SendEmptyAck(v) ELSE v}
        ELSE UNION {Callbacks(u, take) : u \in Process(v, s)}

TimewaitInput(w, s) ==
  IF s.rst THEN {w}
  ELSE IF s.syn /\ Between(s.seq, w.p.rcv_nxt, Plus(w.p.rcv_nxt, w.p.rcv_wnd))
    THEN {Sends(w, ResetFor(s))}
  ELSE IF TcpLen(s) > 0 THEN Output(AckNow(w))
  ELSE {w}

\* The PCB tcp_listen_input makes for a SYN.
SynRcvdPcb(s, iss) ==
  [NoPcb EXCEPT
     !.state = "SYN_RCVD", !.rcv_nxt = Plus(s.seq, 1),
     !.rcv_ann_right_edge = Plus(s.seq, 1),
     !.lastack = iss, !.snd_nxt = iss, !.snd_wl2 = iss,
     !.snd_wl1 = Plus(s.seq, SeqSpace - 1), !.snd_wnd = s.wnd,
     !.snd_lbb = Plus(iss, 1), !.unsent = <<QueuedSeg(iss, <<>>, TRUE, FALSE)>>]

\* Each connection has an initial sequence number of its own.
Iss(e) == Plus(ISS[e], conns[e])

ListenInput(e, s) ==
  IF s.rst THEN {Work(e)}
  ELSE IF s.ack THEN {Sends(Work(e), ResetFor(s))}
  ELSE IF s.syn /\ conns[e] < MaxConns
    THEN Output([Work(e) EXCEPT !.p = SynRcvdPcb(s, Iss(e))])
  ELSE {Work(e)}

NoPcbInput(w, s) == {IF s.rst THEN w ELSE Sends(w, ResetFor(s))}

TcpInput(e, s, take) ==
  CASE pcb[e].state = "NONE" ->
         IF listening[e] THEN ListenInput(e, s) ELSE NoPcbInput(Work(e), s)
    [] pcb[e].state = "TIME_WAIT" -> TimewaitInput(Work(e), s)
    [] OTHER -> ActiveInput(Work(e), s, take)

-----------------------------------------------------------------------------
(* The program's calls: tcp.c.                                             *)

\* tcp_close_shutdown_fin: without memory for the FIN the timer retries it.
CloseWithFin(w, memory) ==
  LET v == SendFin(w)
      next == IF w.p.state = "CLOSE_WAIT" THEN "LAST_ACK" ELSE "FIN_WAIT_1"
  IN  IF w.p.state \notin {"SYN_RCVD", "ESTABLISHED", "CLOSE_WAIT"} THEN {w}
      ELSE IF ~memory /\ ~PiggyBacks(w.p) THEN {[w EXCEPT !.p.closepend = TRUE]}
      ELSE Output([v EXCEPT !.p.state = next])

\* tcp_close_shutdown, for tcp_close: data the program has not read is
\* answered for with a reset.
UnreadData(p) ==
  /\ p.state \in {"ESTABLISHED", "CLOSE_WAIT"}
  /\ p.refused # <<>> \/ p.rcv_wnd # TCP_WND

CloseAll(w, memory) ==
  IF UnreadData(w.p) THEN {Freed(Sends(w, Reset(w.p.snd_nxt, w.p.rcv_nxt)))}
  ELSE IF w.p.state = "SYN_SENT" THEN {Freed(w)}
  ELSE CloseWithFin(w, memory)

-----------------------------------------------------------------------------
(* The timers.                                                             *)

Exhausted(p) == \/ p.state = "SYN_SENT" /\ p.nrtx >= TCP_SYNMAXRTX
                \/ p.nrtx >= TCP_MAXRTX
                \/ p.persist /\ p.probes >= TCP_MAXRTX

\* The states that end when nothing has been heard for too long.
TimesOut(p) == \/ p.state = "FIN_WAIT_2" /\ p.rxclosed
               \/ p.state \in {"SYN_RCVD", "LAST_ACK", "TIME_WAIT"}

\* The persist or the retransmission timer, if it expires on this tick.
Expired(w, expires) ==
  LET p == w.p
  IN  IF ~expires THEN {w}
      ELSE IF p.persist
        THEN IF p.snd_wnd = 0 THEN {ZeroWindowProbe(w)}
             ELSE IF p.unsent = <<>> THEN {w}
             ELSE Output([w EXCEPT !.p.unsent = Split(@, p.snd_wnd)])
      ELSE IF p.rtime /\ (p.unacked # <<>> \/ p.unsent # <<>>)
        THEN Output(RexmitRto(w))
      ELSE {w}

\* The program is polled, and tcp_output called, every pollinterval ticks.
SlowTmrWork(w, expires, overdue) ==
  IF w.p.state = "TIME_WAIT" THEN {IF overdue THEN Freed(w) ELSE w}
  ELSE IF Exhausted(w.p) THEN {Freed(w)}
  ELSE UNION {IF overdue /\ TimesOut(v.p) THEN {Freed(v)} ELSE {v} \cup Output(v) :
                v \in Expired(w, expires)}

\* tcp_fasttmr: a delayed ACK, a pending FIN and refused data, in turn.
DelayedAck(w) ==
  IF ~w.p.ack_delay THEN {w}
  ELSE {[v EXCEPT !.p.ack_delay = FALSE, !.p.ack_now = FALSE] : v \in Output(AckNow(w))}

PendingFin(w, memory) ==
  IF w.p.closepend
    THEN CloseWithFin([w EXCEPT !.p.closepend = FALSE], memory) ELSE {w}

FastTmrWork(w, memory, take) ==
  {OfferAgain(v, take) : v \in UNION {PendingFin(u, memory) : u \in DelayedAck(w)}}

-----------------------------------------------------------------------------
(* Actions.                                                                *)

\* What a call at e leaves behind, one of results.  A network that is full
\* loses what is sent.
Step(e, rest, results) ==
  \E w \in results :
    LET sent == rest[Peer(e)] \o w.out
    IN  /\ pcb' = [pcb EXCEPT ![e] = w.p]
        /\ app' = [app EXCEPT ![e] = w.a]
        /\ listening' = [listening EXCEPT ![e] = w.listen]
        /\ net' = [rest EXCEPT ![Peer(e)] = SubSeq(sent, 1, Lesser(Len(sent), NetSize[Peer(e)]))]
        /\ conns' = [conns EXCEPT ![e] =
                       IF pcb[e].state = "NONE" /\ w.p.state # "NONE" THEN @ + 1 ELSE @]

Active(e) == pcb[e].state \notin {"NONE", "TIME_WAIT"}

\* A step in which a fault happens, if fault, counts against the bound.
Fault(fault) == /\ fault => faults < MaxFaults
                /\ faults' = IF fault THEN faults + 1 ELSE faults

SynSentPcb(iss) ==
  [NoPcb EXCEPT
     !.state = "SYN_SENT", !.snd_nxt = Plus(iss, 1), !.lastack = iss,
     !.snd_wl2 = iss, !.snd_wnd = TCP_WND, !.snd_lbb = Plus(iss, 1),
     !.unsent = <<QueuedSeg(iss, <<>>, TRUE, FALSE)>>]

Connect ==
  /\ conns[Client] = 0
  /\ Step(Client, net, Output([Work(Client) EXCEPT !.p = SynSentPcb(Iss(Client))]))
  /\ Fault(FALSE)

\* A bound: no end writes more than half the sequence space has room for, with
\* its SYN and its FIN.
MaxStream == SeqSpace \div 2 - 3

\* tcp_write and the tcp_output that follows it.
Write(e) ==
  LET w == Work(e)
      n == Writes[e][app[e].writes + 1]
  IN  /\ app[e].writes < Len(Writes[e])
      /\ app[e].wrote + n <= MaxStream
      /\ ~app[e].ended
      /\ pcb[e].state \in {"ESTABLISHED", "CLOSE_WAIT"}
      /\ Step(e, net, Output([w EXCEPT
           !.a.wrote = @ + n, !.a.writes = @ + 1,
           !.p.unsent = Enqueued(w.p, Bytes(app[e].wrote, n)),
           !.p.snd_lbb = Plus(@, n)]))
      /\ Fault(FALSE)

\* tcp_shutdown of the sending side.
Shutdown(e, memory) ==
  /\ e \in HalfClosers /\ ~app[e].ended
  /\ pcb[e].state \in {"ESTABLISHED", "CLOSE_WAIT"}
  /\ Fault(~memory)
  /\ Step(e, net, CloseWithFin([Work(e) EXCEPT !.a.ended = TRUE], memory))

Close(e, memory) ==
  /\ ~app[e].closed /\ (e \in Closers \/ app[e].eof)
  /\ pcb[e].state \notin {"NONE", "SYN_RCVD"}
  /\ Fault(~memory)
  /\ Step(e, net, CloseAll([Work(e) EXCEPT !.a.ended = TRUE, !.a.closed = TRUE,
                                            !.p.rxclosed = TRUE], memory))

\* What the program has taken and not yet read, and its reading it.
Unread(p) ==
  TCP_WND - p.rcv_wnd - Len(p.refused) - IF p.refused_fin THEN 1 ELSE 0

Recved(e) ==
  LET w == [Work(e) EXCEPT !.p.rcv_wnd = @ + Unread(pcb[e])]
      v == WithAnnWnd(w)
  IN  /\ Active(e) /\ ~pcb[e].rxclosed
      /\ Unread(pcb[e]) > 0
      /\ Step(e, net, IF Inflation(w.p) >= Lesser(TCP_WND \div 4, 4 * TCP_MSS)
                       THEN Output(AckNow(v)) ELSE {v})
      /\ Fault(FALSE)

\* The i-th segment under way arrives; if again, it will once more, after the
\* others.
Input(e, i, again) ==
  LET s == net[e][i]
      rest == RemoveAt(net[e], i)
  IN  /\ i <= Len(net[e])
      /\ Fault(again \/ i # 1)
      /\ \E take \in BOOLEAN :
           /\ ~take => s.data # <<>> \/ pcb[e].refused # <<>>
           /\ Step(e, [net EXCEPT ![e] = IF again THEN Append(rest, s) ELSE rest],
                   TcpInput(e, s, take))

Lose(e, i) ==
  /\ i <= Len(net[e])
  /\ Fault(TRUE)
  /\ net' = [net EXCEPT ![e] = RemoveAt(@, i)]
  /\ UNCHANGED <<pcb, listening, app, conns>>

SlowTmr(e, expires, overdue) ==
  /\ pcb[e].state # "NONE"
  /\ expires => pcb[e].rtime \/ pcb[e].persist
  /\ overdue => TimesOut(pcb[e])
  /\ Fault(expires /\ \E d \in Ends : net[d] # <<>>)
  /\ Step(e, net, SlowTmrWork(Work(e), expires, overdue))

FastTmr(e, memory, take) ==
  /\ Active(e)
  /\ pcb[e].ack_delay \/ pcb[e].closepend \/ pcb[e].refused # <<>>
  /\ ~memory => pcb[e].closepend
  /\ ~take => pcb[e].refused # <<>>
  /\ Fault(~memory)
  /\ Step(e, net, FastTmrWork(Work(e), memory, take))

Next ==
  \/ Connect
  \/ \E e \in Ends :
       \/ Write(e)
       \/ \E memory \in BOOLEAN : Shutdown(e, memory) \/ Close(e, memory)
       \/ Recved(e)
       \/ \E i \in 1 .. NetSize[e] :
            (\E again \in BOOLEAN : Input(e, i, again)) \/ Lose(e, i)
       \/ \E expires, overdue \in BOOLEAN : SlowTmr(e, expires, overdue)
       \/ \E memory, take \in BOOLEAN : FastTmr(e, memory, take)

Spec == Init /\ [][Next]_vars

-----------------------------------------------------------------------------
(* Properties.                                                             *)

Synchronized == {"ESTABLISHED", "CLOSE_WAIT", "TIME_WAIT"} \cup FinStates

Pcbs ==
  [state : Synchronized \cup {"NONE", "SYN_SENT", "SYN_RCVD"},
   unsent : Seq([seq : Nat, data : Seq(Nat), syn : BOOLEAN, fin : BOOLEAN]),
   unacked : Seq([seq : Nat, data : Seq(Nat), syn : BOOLEAN, fin : BOOLEAN]),
   lastack : Nat, snd_nxt : Nat, snd_lbb : Nat,
   snd_wnd : 0 .. TCP_WND, snd_wl1 : Nat, snd_wl2 : Nat,
   rcv_nxt : Nat, rcv_wnd : 0 .. TCP_WND, rcv_ann_wnd : 0 .. TCP_WND,
   rcv_ann_right_edge : Nat, nrtx : Nat, rtime : BOOLEAN, persist : BOOLEAN,
   probes : 0 .. TCP_MAXRTX, ack_now : BOOLEAN, ack_delay : BOOLEAN,
   infr : BOOLEAN, rxclosed : BOOLEAN, closepend : BOOLEAN,
   refused : Seq(Nat), refused_fin : BOOLEAN]

TypeOK ==
  /\ pcb \in [Ends -> Pcbs]
  /\ listening \in [Ends -> BOOLEAN]
  /\ conns \in [Ends -> 0 .. MaxConns + 1]
  /\ faults \in 0 .. MaxFaults
  /\ \A e \in Ends : Len(net[e]) <= NetSize[e]

\* The sequence numbers of a stream: the SYN, the bytes, the FIN.
FirstSeq(e) == Plus(ISS[e], conns[e] - 1)
StreamEnd(e) == Plus(FirstSeq(e), 1 + app[e].wrote
                       + IF pcb[e].state \in FinStates THEN 1 ELSE 0)

\* What the PCB holds for the peer, unacknowledged and unsent, by sequence
\* number.
Held(p) == FoldLeft(Insert, p.unacked, p.unsent)

\* The windows and the queues keep their types, and what tcp_write,
\* tcp_send_fin, the retransmissions, the split for a small window and the
\* trimming by acknowledgments have made of unsent and unacked is at all
\* times the stream from the first unacknowledged byte, or one before it, to
\* its end: no gap, no overlap, each byte at its number, a FIN at the end if
\* the program has closed and nowhere else.  This is a claim about few faults:
\* TcpReplay shows what a row of them does to the order of unsent.
QueueSound ==
  /\ TypeOK
  /\ \A e \in Ends : Active(e) =>
       LET p == pcb[e]
           q == Held(p)
       IN  /\ Minus(p.snd_nxt, p.lastack) <= Minus(StreamEnd(e), p.lastack)
           /\ p.unacked = <<>> /\ q # <<>> => q[1] = Head(p.unsent)
           /\ IF q = <<>> THEN p.lastack = StreamEnd(e)
              ELSE /\ Between(p.lastack, q[1].seq, Plus(StreamEnd(e), SeqSpace - 1))
                   /\ SegEnd(Last(q)) = StreamEnd(e)
           /\ \A i \in 1 .. Len(q) :
                /\ TcpLen(q[i]) > 0
                /\ i > 1 => q[i].seq = SegEnd(q[i - 1])
                /\ q[i].fin <=> i = Len(q) /\ p.state \in FinStates
                /\ \A k \in 1 .. Len(q[i].data) :
                     q[i].data[k] = Minus(Plus(q[i].seq, k), Plus(FirstSeq(e), 1))

\* What an end has seen acknowledged its peer has received, the FIN
\* included: in FIN_WAIT_2 and TIME_WAIT the peer knows of the close.
AckedWasReceived ==
  \A e \in Ends :
    LET p == pcb[e]
        q == pcb[Peer(e)]
    IN  /\ p.state \in Synchronized /\ q.state \in Synchronized =>
             /\ SeqLEQ(p.lastack, q.rcv_nxt)
             /\ SeqLEQ(q.rcv_nxt, p.snd_nxt)
        /\ p.state \in {"FIN_WAIT_2", "TIME_WAIT"} =>
             q.state \in {"CLOSE_WAIT", "LAST_ACK", "CLOSING", "TIME_WAIT", "NONE"}

\* Nothing is in flight, so that only the peer's window holds back the head
\* of unsent, which ends within a segment of what is acknowledged: so it does
\* while the queue is in order (QueueSound), and the congestion window, of a
\* segment at least, then lets it go.
HeldByPeer(p) ==
  /\ p.unsent # <<>> /\ p.unacked = <<>>
  /\ Distance(p, Head(p.unsent)) <= TCP_MSS

\* What is unacknowledged has the retransmission timer running, what the
\* peer's window holds back has the persist timer, which never runs in the
\* place of the other; an end that waits for its FIN to be acknowledged
\* still holds it; and a connection the program has closed is in a state the
\* slow timer ends, or the fast timer is to send its FIN.
NeverStalls ==
  \A e \in Ends :
    LET p == pcb[e]
    IN  /\ p.unacked # <<>> => p.rtime
        /\ HeldByPeer(p) => p.persist
        /\ p.state # "TIME_WAIT" /\ p.persist => p.unacked = <<>>
        /\ p.state \in {"FIN_WAIT_1", "CLOSING", "LAST_ACK"} =>
             p.unacked # <<>> \/ p.unsent # <<>>
        /\ app[e].closed /\ p.state # "NONE" =>
             /\ p.rxclosed
             /\ p.closepend \/ p.state \in FinStates \cup {"TIME_WAIT"}
=============================================================================
