----------------------------- MODULE Reassembly -----------------------------
(***************************************************************************)
(* Reassembly of IPv4 datagrams (ip4_reass and ip_reass_tmr of ip4_frag.c).*)
(* The network may lose, repeat and reorder fragments, and two copies of   *)
(* a datagram may be cut up differently on their paths: a fragment is any  *)
(* proper part of its datagram and may arrive at any time.  Fragments with *)
(* IP options and malformed headers are refused before any state changes.  *)
(*                                                                         *)
(* Lengths are counted in units of one pbuf: a fragment of n units arrives *)
(* in a chain of n pbufs, taken from the pool that reception takes all its *)
(* buffers from.  What is delivered, and what the datagram that does not   *)
(* fit is worth, is freed by its receiver within the same call.            *)
(***************************************************************************)
EXTENDS Integers, Sequences, FiniteSets

CONSTANTS
  Ids,             \* datagrams: source, destination and identification
  Size,            \* Size[d] is the length of the data of d
  Wrap,            \* one more than the greatest u16_t
  MaxLen,          \* 0xFFFF - IP_HLEN
  MaxPbufs,        \* IP_REASS_MAX_PBUFS
  NumReassdata,    \* MEMP_NUM_REASSDATA
  PoolSize,        \* PBUF_POOL_SIZE
  MaxAge           \* IP_REASS_MAXAGE

ASSUME ReassemblyAssumption ==
  /\ IsFiniteSet(Ids)
  /\ Size \in [Ids -> Nat \ {0}]
  /\ Wrap \in Nat /\ MaxLen \in 0..(Wrap - 1)
  /\ \A d \in Ids : Size[d] <= Wrap
  /\ {MaxPbufs, NumReassdata, PoolSize, MaxAge} \subseteq Nat \ {0}

VARIABLES
  reassdatagrams,  \* the list of datagrams, newest first
  pbufcount,       \* ip_reass_pbufcount
  delivered        \* the entry whose datagram ip4_input got in this step

vars == <<reassdatagrams, pbufcount, delivered>>

None == [id |-> "none"]

\* A fragment of a datagram, by its start and its end: a proper part of it.
Fragments ==
  {f \in [id : Ids, start : 0..Wrap, end : 0..Wrap] :
     /\ f.start < f.end /\ f.end <= Size[f.id]
     /\ f.end - f.start < Size[f.id]}

IsLast(f) == f.end = Size[f.id]
Clen(f) == f.end - f.start

\* The pbufs of a set of pieces: one for every unit of each.
Units(ps) ==
  {x \in ps \X (0..(Wrap - 1)) : x[1].start <= x[2] /\ x[2] < x[1].end}

PbufsOf(ps) == Cardinality(Units(ps))

\* The pieces of the datagrams at some positions of the list.
PiecesAt(list, I) == UNION {list[i].p : i \in I}

Pbufs(list) == PbufsOf(PiecesAt(list, DOMAIN list))

Init ==
  /\ reassdatagrams = <<>>
  /\ pbufcount = 0
  /\ delivered = None

-----------------------------------------------------------------------------
(* Memory: which other datagrams go, for want of room or of an entry.      *)

\* What is at some positions of the list, in the order of the list.
Sub(list, I) ==
  [k \in 1..Cardinality(I) |->
     list[CHOOSE i \in I : Cardinality({j \in I : j <= i}) = k]]

Without(list, iprs) == Sub(list, {i \in DOMAIN list : list[i] \notin iprs})

\* Among the datagrams other than d, the one with the smallest timer is the
\* oldest; of two with the same timer, the one further down the list.
OlderOthers(list, d, i) ==
  {j \in DOMAIN list : /\ list[j].id # d
                       /\ \/ list[j].timer < list[i].timer
                          \/ list[j].timer = list[i].timer /\ j > i}

\* Mutant of Oldest: the datagram of the fragment is not spared.
OldestOfAll(list, d, needed) ==
  {list[i] : i \in {k \in DOMAIN list :
     PbufsOf(PiecesAt(list, {j \in DOMAIN list : j > k})) < needed}}

\* ip_reass_remove_oldest_datagram frees the oldest of the others, and goes
\* on while it has freed fewer pbufs than are needed and others are left.
Oldest(list, d, needed) ==
  {list[i] : i \in {k \in DOMAIN list :
     /\ list[k].id # d
     /\ PbufsOf(PiecesAt(list, OlderOthers(list, d, k))) < needed}}

\* ip_reass_pbufcount once the entries missing from list have been freed.
CountAfter(list) == pbufcount - (Pbufs(reassdatagrams) - Pbufs(list))

\* Room for the pbufs of f, as far as other datagrams can make it.
MakeRoom(f) ==
  IF pbufcount + Clen(f) > MaxPbufs
  THEN Without(reassdatagrams, Oldest(reassdatagrams, f.id, Clen(f)))
  ELSE reassdatagrams

Known(list, d) == \E i \in DOMAIN list : list[i].id = d

\* A fresh struct ip_reassdata; first tells that the IP header kept in it
\* is the one of the first fragment.
NewEntry(f) ==
  [id |-> f.id, timer |-> MaxAge, p |-> {}, last |-> FALSE, len |-> 0,
   first |-> f.start = 0]

\* The list in which f is put: with an entry for its datagram at the front,
\* if there was none and the pool has one, or can get one back from others
\* that also free as many pbufs as f has.
Enqueue(list, f) ==
  LET victims == IF Len(list) < NumReassdata
                 THEN {} ELSE Oldest(list, f.id, Clen(f))
      rest    == Without(list, victims)
  IN  IF Known(list, f.id) THEN list
      ELSE IF \/ Len(list) < NumReassdata
              \/ Pbufs(list) - Pbufs(rest) >= Clen(f)
           THEN <<NewEntry(f)>> \o rest
           ELSE rest

-----------------------------------------------------------------------------
(* One fragment.                                                           *)

Overlap(f, g) == f.start < g.end /\ g.start < f.end

\* The fragment is dropped when its end wraps around, when it ends a
\* datagram that is too long, and when it shares a byte with another piece.
Rejected(ipr, f) ==
  \/ f.end % Wrap < f.start
  \/ IsLast(f) /\ f.end % Wrap > MaxLen
  \/ \E g \in ipr.p : Overlap(f, g)

\* Mutant of Complete: the first piece need not start at 0.
CompleteFromAnywhere(ipr) ==
  /\ ipr.last
  /\ \A g \in ipr.p : \/ \E h \in ipr.p : h.end = g.start
                      \/ \A h \in ipr.p : g.start <= h.start

\* The last fragment has come, the pieces start at 0 and have no hole.
Complete(ipr) ==
  /\ ipr.last
  /\ \A g \in ipr.p : g.start = 0 \/ \E h \in ipr.p : h.end = g.start

\* Mutant of WithHeader: every fragment starts the timer again.
WithHeaderRefreshed(ipr, f) ==
  [ipr EXCEPT !.first = @ \/ f.start = 0, !.timer = MaxAge]

\* The entry of f once its header has been looked at, and with f chained in.
WithHeader(ipr, f) ==
  [ipr EXCEPT !.first = @ \/ f.start = 0]

Chained(ipr, f) ==
  [ipr EXCEPT !.p = @ \cup {f}, !.last = @ \/ IsLast(f),
              !.len = IF IsLast(f) THEN f.end ELSE @]

Put(list, i, ipr) == [list EXCEPT ![i] = ipr]

\* No room, or no entry: f is dropped; what was freed for it stays freed.
Refuse(f) ==
  LET room == MakeRoom(f)
      list == Enqueue(room, f)
  IN  /\ \/ /\ CountAfter(room) + Clen(f) > MaxPbufs
            /\ reassdatagrams' = room
         \/ /\ CountAfter(room) + Clen(f) <= MaxPbufs
            /\ ~Known(list, f.id)
            /\ reassdatagrams' = list
      /\ pbufcount' = CountAfter(reassdatagrams')
      /\ delivered' = None

\* Mutant of Drop: the entry made for a fragment that is then dropped stays.
DropKeepingEntry(list, i, f) ==
  /\ Rejected(list[i], f)
  /\ reassdatagrams' = Put(list, i, WithHeader(list[i], f))
  /\ pbufcount' = CountAfter(list)
  /\ delivered' = None

\* nullreturn_ipr: f is dropped, and the entry with it if f was to be its
\* first piece; the header of a first fragment has been copied by then.
Drop(list, i, f) ==
  /\ Rejected(list[i], f)
  /\ reassdatagrams' = IF list[i].p = {}
                       THEN Without(list, {list[i]})
                       ELSE Put(list, i, WithHeader(list[i], f))
  /\ pbufcount' = CountAfter(list)
  /\ delivered' = None

\* f is chained into its datagram, which is not complete with it.
Keep(list, i, f) ==
  LET ipr == Chained(WithHeader(list[i], f), f)
  IN  /\ ~Rejected(list[i], f)
      /\ ~Complete(ipr)
      /\ reassdatagrams' = Put(list, i, ipr)
      /\ pbufcount' = CountAfter(list) + Clen(f)
      /\ delivered' = None

\* f completes its datagram: the entry is released, and ip4_input gets the
\* chain under the header that was kept.
Deliver(list, i, f) ==
  LET ipr == Chained(WithHeader(list[i], f), f)
  IN  /\ ~Rejected(list[i], f)
      /\ Complete(ipr)
      /\ reassdatagrams' = Without(list, {list[i]})
      /\ pbufcount' = CountAfter(list) + Clen(f) - PbufsOf(ipr.p)
      /\ delivered' = ipr

\* A fragment arrives, if the pool has the pbufs for it: ip4_reass.
Ip4Reass(f) ==
  /\ Pbufs(reassdatagrams) + Clen(f) <= PoolSize
  /\ \/ Refuse(f)
     \/ LET room == MakeRoom(f)
            list == Enqueue(room, f)
        IN  /\ CountAfter(room) + Clen(f) <= MaxPbufs
            /\ \E i \in DOMAIN list :
                 /\ list[i].id = f.id
                 /\ \/ Drop(list, i, f)
                    \/ Keep(list, i, f)
                    \/ Deliver(list, i, f)

\* Once a second: entries whose timer is 0 are freed, the others age.  A
\* fragment that arrives does not make its datagram young again.
IpReassTmr ==
  LET live == Sub(reassdatagrams,
                  {i \in DOMAIN reassdatagrams : reassdatagrams[i].timer > 0})
  IN  /\ reassdatagrams' = [i \in DOMAIN live |->
                              [live[i] EXCEPT !.timer = @ - 1]]
      /\ pbufcount' = CountAfter(live)
      /\ delivered' = None

Next ==
  \/ \E f \in Fragments : Ip4Reass(f)
  \/ IpReassTmr

Spec == Init /\ [][Next]_vars /\ WF_vars(IpReassTmr)

-----------------------------------------------------------------------------
(* Properties.                                                             *)

Entry ==
  [id : Ids, timer : 0..MaxAge, p : SUBSET Fragments, last : BOOLEAN,
   len : 0..MaxLen, first : BOOLEAN]

\* The variables have their types: a list within the pool of entries, and a
\* count within IP_REASS_MAX_PBUFS, whatever arrives.
TypeOK ==
  /\ Len(reassdatagrams) <= NumReassdata
  /\ \A i \in DOMAIN reassdatagrams : reassdatagrams[i] \in Entry
  /\ pbufcount \in 0..MaxPbufs
  /\ delivered \in Entry \cup {None}

\* ip_reass_pbufcount is the number of pbufs in the list (the assertions of
\* ip_reass_free_complete_datagram and of ip4_reass on it), so that no pbuf
\* of the receive pool is forgotten and the limit is on what is held.
CountIsHeld == pbufcount = Pbufs(reassdatagrams)

\* No entry is without a piece: ip_reass_free_complete_datagram reads the
\* first one without looking, and an entry that a rejected fragment left
\* behind would be that.
NoEmptyEntry ==
  \A i \in DOMAIN reassdatagrams : reassdatagrams[i].p # {}

\* A datagram has one entry, whose pieces are its own and do not overlap,
\* and which knows its length when it has the last one.
Pieces ==
  \A i \in DOMAIN reassdatagrams :
    LET ipr == reassdatagrams[i] IN
    /\ \A j \in DOMAIN reassdatagrams : reassdatagrams[j].id = ipr.id => i = j
    /\ \A f, g \in ipr.p : f.id = ipr.id /\ (Overlap(f, g) => f = g)
    /\ ipr.last <=> \E f \in ipr.p : IsLast(f)
    /\ ipr.last => ipr.len = Size[ipr.id]

\* The answer to the question in ip_reass_remove_oldest_datagram, "Can't we
\* simply remove the last datagram in the linked list": yes, the timers
\* never increase down the list.
OldestAtTheEnd ==
  \A i, j \in DOMAIN reassdatagrams :
    i < j => reassdatagrams[j].timer <= reassdatagrams[i].timer

\* When an entry that starts at 0 times out, its first pbuf goes into an
\* ICMP message under the header that was kept: it is then the header of
\* the first fragment.
HeaderOfFirst ==
  \A i \in DOMAIN reassdatagrams :
    (\E f \in reassdatagrams[i].p : f.start = 0) => reassdatagrams[i].first

\* The list as a whole, through every mixture of arrivals, evictions,
\* rejections and time-outs: its types, and what follows.
ListSound ==
  /\ TypeOK
  /\ CountIsHeld
  /\ NoEmptyEntry
  /\ Pieces
  /\ OldestAtTheEnd
  /\ HeaderOfFirst

\* What ip4_input gets is a whole datagram: every unit of it exactly once,
\* its true length, no more than a datagram can have, and the header of its
\* first fragment; in whatever pieces and order it came.
WholeDatagram ==
  delivered # None =>
    /\ \A u \in 0..(Size[delivered.id] - 1) :
         \E f \in delivered.p :
           /\ f.start <= u /\ u < f.end
           /\ \A g \in delivered.p : g.start <= u /\ u < g.end => f = g
    /\ delivered.len = Size[delivered.id]
    /\ delivered.len <= MaxLen
    /\ delivered.first

\* A fragment that arrives never costs its own datagram what it has already
\* ("the datagram 'fraghdr' belongs to is not freed"), unless it completes
\* it: a datagram goes only when it is delivered, when its timer has run
\* out, or for the sake of another.
PiecesStay ==
  \A i \in DOMAIN reassdatagrams :
    LET ipr == reassdatagrams[i]
        Stays == \E j \in DOMAIN reassdatagrams' :
                   /\ reassdatagrams'[j].id = ipr.id
                   /\ ipr.p \subseteq reassdatagrams'[j].p
    IN  ~Stays /\ delivered' = None =>
          \A f \in Fragments : f.id = ipr.id => ~Ip4Reass(f)

OwnPiecesStay == [][PiecesStay]_vars

\* An incomplete datagram is given up, even one of whose fragments keep
\* coming, so that the pbufs it holds come back to reception.
Forgotten ==
  \A d \in Ids :
    Known(reassdatagrams, d) ~> ~Known(reassdatagrams, d)
=============================================================================
