---------------------------- MODULE NetifProofs -----------------------------
(***************************************************************************)
(* Proofs about the two parts that serve the interface: the ARP cache      *)
(* (Etharp), for every set of hosts, hardware addresses and packets, every *)
(* size of the table and all ages, and the link control (LinkCtl), for     *)
(* every set of partners and modes and every outcome of the negotiation.   *)
(***************************************************************************)
EXTENDS Etharp, LinkCtl, OrderedListsProofs

-----------------------------------------------------------------------------
(* The slots that a search chooses.                                        *)

\* The search takes the lowest of the slots it looks for.
LEMMA MinOfSlots ==
  ASSUME NEW S \in SUBSET Slots, S # {}
  PROVE  Min(S) \in S
<1>1. IsFiniteSet(S) /\ S \in SUBSET Int
  <2>1. IsFiniteSet(Slots) /\ Slots \subseteq Int
    <3>1. 0 \in Int /\ ARP_TABLE_SIZE - 1 \in Int
      BY EtharpAssumption
    <3> QED
      BY <3>1, FS_Interval DEF Slots
  <2> QED
    BY <2>1, FS_Subset
<1>2. \E x \in S : \A y \in S : x <= y
  BY <1>1, LeastElement
<1> QED
  BY <1>2 DEF Min

\* The sweep ends with one of the entries it is to choose from, and with the
\* oldest.
LEMMA OldestOfSlots ==
  ASSUME NEW table, NEW S \in SUBSET Slots, S # {},
         \A i \in S : table[i].ctime \in 0 .. ARP_MAXAGE
  PROVE  /\ OldestOf(table, S) \in S
         /\ \A j \in S : table[j].ctime <= table[OldestOf(table, S)].ctime
<1> USE EtharpAssumption
<1> DEFINE Ages == {table[i].ctime : i \in S}
<1>1. Ages \in SUBSET (0 .. ARP_MAXAGE) /\ Ages # {} /\ ARP_MAXAGE \in Nat
  OBVIOUS
<1>2. PICK m \in Ages : \A y \in Ages : y <= m
  <2> HIDE DEF Ages
  <2> QED
    BY <1>1, GreatestElement
<1> DEFINE Old == {i \in S : table[i].ctime = m}
<1>3. Old \in SUBSET (0 .. ARP_TABLE_SIZE - 1) /\ Old # {}
  BY DEF Slots
<1>4. PICK i \in Old : \A j \in Old : j <= i
  <2>1. ARP_TABLE_SIZE - 1 \in Nat
    OBVIOUS
  <2> HIDE DEF Old
  <2> QED
    BY <1>3, <2>1, GreatestElement
<1>5. \A j \in S : \/ table[j].ctime < table[i].ctime
                   \/ table[j].ctime = table[i].ctime /\ j <= i
  <2> SUFFICES ASSUME NEW j \in S
               PROVE  \/ table[j].ctime < table[i].ctime
                      \/ table[j].ctime = table[i].ctime /\ j <= i
    OBVIOUS
  <2>1. table[j].ctime <= m /\ table[i].ctime = m
    BY <1>2, <1>4
  <2>2. table[j].ctime = m => j <= i
    BY <1>4
  <2> QED
    BY <2>1, <2>2
<1>6. /\ OldestOf(table, S) \in S
      /\ \A j \in S :
           \/ table[j].ctime < table[OldestOf(table, S)].ctime
           \/ table[j].ctime = table[OldestOf(table, S)].ctime
                /\ j <= OldestOf(table, S)
  <2>1. i \in S
    BY <1>4
  <2> HIDE DEF Old, Ages
  <2> QED
    BY <1>5, <2>1 DEF OldestOf
<1> QED
  BY <1>6
-----------------------------------------------------------------------------
(* The inductive invariant.                                                *)

Entry ==
  [state : Stable \cup {"EMPTY", "PENDING"}, ip : Ips \cup {None},
   hw : Hws \cup {None}, ctime : 0..(ARP_MAXAGE - 1),
   q : DOMAIN Packets \cup {None}]

\* A table whose packets are held by the references r, and whose mappings are
\* what was last heard, c.  It also says what CacheSound leaves open: an entry
\* in use has an address, a stable one an answer, an empty one no age.  The
\* functions of etharp.c pass through such tables on the way.
TableOK(t, r, c) ==
  /\ t \in [Slots -> Entry]
  /\ \A i, j \in Slots :
       t[i].state # "EMPTY" /\ t[j].state # "EMPTY" /\ t[i].ip = t[j].ip
         => i = j
  /\ \A i \in Slots :
       /\ t[i].q # None =>
            t[i].state = "PENDING" /\ Packets[t[i].q] = t[i].ip
       /\ t[i].state = "PENDING" => t[i].ctime < ARP_MAXPENDING
       /\ t[i].state = "EMPTY" => t[i].ctime = 0
       /\ t[i].state # "EMPTY" => t[i].ip \in Ips
       /\ t[i].state \in Stable => t[i].hw \in Hws /\ t[i].hw = c[t[i].ip]
  /\ r = {t[i].q : i \in Slots} \ {None}
  /\ \A i, j \in Slots : t[i].q = t[j].q /\ t[i].q # None => i = j

IInv ==
  /\ TableOK(arp_table, refs, claim)
  /\ cached \in Slots
  /\ out \in [pkt : DOMAIN Packets, hw : Hws] \cup {None}
  /\ claim \in [Ips -> Hws \cup {None}]
  /\ RightAddress

\* Slot i is the one for a: no other entry in use has this address.
Belongs(t, i, a) ==
  /\ i \in Slots
  /\ t[i].ip = a
  /\ \A j \in Slots : t[j].state # "EMPTY" /\ t[j].ip = a => j = i

-----------------------------------------------------------------------------
(* What the functions of etharp.c keep of a table.                         *)

\* Whatever the table holds, there is a slot to recycle.
LEMMA RecycledSlot ==
  ASSUME NEW t \in [Slots -> Entry]
  PROVE  Recycled(t) \in Slots
<1>1. ASSUME NEW S \in SUBSET Slots, S # {}
      PROVE  Min(S) \in Slots /\ OldestOf(t, S) \in Slots
  <2>1. \A i \in S : t[i].ctime \in 0 .. ARP_MAXAGE
    BY EtharpAssumption DEF Entry
  <2> QED
    BY <1>1, <2>1, MinOfSlots, OldestOfSlots
<1>2. 0 \in Slots
  BY EtharpAssumption DEF Slots
<1> QED
  BY <1>1, <1>2 DEF Recycled, InState

\* etharp_find_entry keeps a sound table, and the slot it returns belongs to
\* the address.
LEMMA FindEntry ==
  ASSUME NEW t, NEW r, NEW c, TableOK(t, r, c), NEW a \in Ips
  PROVE  /\ TableOK(Found(t, a), r \ Released(t, a), c)
         /\ Belongs(Found(t, a), Slot(t, a), a)
<1> DEFINE i == Slot(t, a)
           u == Found(t, a)
<1>1. CASE Matching(t, a) # {}
  <2>1. i \in Matching(t, a)
    BY <1>1, MinOfSlots DEF Slot, Matching, InState
  <2>2. u = t /\ r \ Released(t, a) = r
    BY <1>1 DEF Found, Released
  <2>3. i \in Slots /\ t[i].state # "EMPTY" /\ t[i].ip = a
    BY <2>1 DEF Matching, InState, Stable
  <2> QED
    BY <2>2, <2>3 DEF TableOK, Belongs
<1>2. CASE Matching(t, a) = {}
  <2>1. i = Recycled(t) /\ i \in Slots
    BY <1>2, RecycledSlot DEF Slot, TableOK
  <2>2. u = [t EXCEPT ![i] = [EmptyEntry EXCEPT !.ip = a]]
    BY <1>2, <2>1 DEF Found
  <2>3. Released(t, a) = {t[i].q}
    BY <1>2, <2>1 DEF Released
  <2>4. [EmptyEntry EXCEPT !.ip = a]
          = [state |-> "EMPTY", ip |-> a, hw |-> None, ctime |-> 0, q |-> None]
    BY DEF EmptyEntry
  <2>5. /\ u[i] = [state |-> "EMPTY", ip |-> a, hw |-> None, ctime |-> 0,
                   q |-> None]
        /\ \A j \in Slots \ {i} : u[j] = t[j]
    BY <2>1, <2>2, <2>4 DEF TableOK
  <2>6. u \in [Slots -> Entry]
    <3>1. [state |-> "EMPTY", ip |-> a, hw |-> None, ctime |-> 0, q |-> None]
            \in Entry
      BY EtharpAssumption DEF Entry
    <3> QED
      BY <2>1, <2>2, <2>4, <3>1 DEF TableOK
  <2>7. \A j \in Slots : ~ (t[j].state # "EMPTY" /\ t[j].ip = a)
    BY <1>2 DEF Matching, InState, TableOK, Entry
  <2>8. Belongs(u, i, a)
    BY <2>1, <2>5, <2>7 DEF Belongs
  <2>9. r \ {t[i].q} = {u[j].q : j \in Slots} \ {None}
    BY <2>1, <2>5 DEF TableOK
  <2> HIDE DEF u, i
  <2>10. /\ \A j, k \in Slots :
              u[j].state # "EMPTY" /\ u[k].state # "EMPTY" /\ u[j].ip = u[k].ip
                => j = k
         /\ \A j, k \in Slots : u[j].q = u[k].q /\ u[j].q # None => j = k
    BY <2>1, <2>5 DEF TableOK
  <2>11. \A j \in Slots :
           /\ u[j].q # None =>
                u[j].state = "PENDING" /\ Packets[u[j].q] = u[j].ip
           /\ u[j].state = "PENDING" => u[j].ctime < ARP_MAXPENDING
           /\ u[j].state = "EMPTY" => u[j].ctime = 0
           /\ u[j].state # "EMPTY" => u[j].ip \in Ips
           /\ u[j].state \in Stable => u[j].hw \in Hws /\ u[j].hw = c[u[j].ip]
    BY <2>1, <2>5 DEF TableOK, Stable
  <2>12. TableOK(u, r \ Released(t, a), c)
    BY <2>3, <2>6, <2>9, <2>10, <2>11 DEF TableOK
  <2> QED
    BY <2>8, <2>12 DEF u, i
<1> QED
  BY <1>1, <1>2

\* The fields of an entry that the invariant relates: a table made of another
\* by one new entry at i, not used twice, is sound if the new entry is.
LEMMA OneEntryChanged ==
  ASSUME NEW t, NEW r, NEW c, TableOK(t, r, c),
         NEW i \in Slots, NEW e \in Entry, NEW a \in Ips, Belongs(t, i, a),
         e.ip = a, NEW d, \A b \in Ips \ {a} : d[b] = c[b],
         e.q # None => e.state = "PENDING" /\ Packets[e.q] = a,
         e.q \in r => e.q = t[i].q,
         e.state = "PENDING" => e.ctime < ARP_MAXPENDING,
         e.state = "EMPTY" => e.ctime = 0,
         e.state \in Stable => e.hw \in Hws /\ e.hw = d[a]
  PROVE  TableOK([t EXCEPT ![i] = e], (r \ {t[i].q}) \cup ({e.q} \ {None}), d)
<1> DEFINE u == [t EXCEPT ![i] = e]
<1>1. u[i] = e /\ \A j \in Slots \ {i} : u[j] = t[j]
  BY DEF TableOK
<1>2. u \in [Slots -> Entry]
  BY DEF TableOK
<1>3. (r \ {t[i].q}) \cup ({e.q} \ {None}) = {u[j].q : j \in Slots} \ {None}
  BY <1>1 DEF TableOK
<1> HIDE DEF u
<1>4. \A j, k \in Slots :
        u[j].state # "EMPTY" /\ u[k].state # "EMPTY" /\ u[j].ip = u[k].ip
          => j = k
  BY <1>1 DEF TableOK, Belongs
<1>5. \A j, k \in Slots : u[j].q = u[k].q /\ u[j].q # None => j = k
  <2>1. ASSUME NEW j \in Slots, j # i, e.q # None PROVE t[j].q # e.q
    <3>1. t[j].q = e.q => e.q \in r
      BY <2>1 DEF TableOK
    <3> QED
      BY <2>1, <3>1 DEF TableOK
  <2> QED
    BY <1>1, <2>1 DEF TableOK
<1>6. \A j \in Slots :
        /\ u[j].q # None =>
             u[j].state = "PENDING" /\ Packets[u[j].q] = u[j].ip
        /\ u[j].state = "PENDING" => u[j].ctime < ARP_MAXPENDING
        /\ u[j].state = "EMPTY" => u[j].ctime = 0
        /\ u[j].state # "EMPTY" => u[j].ip \in Ips
        /\ u[j].state \in Stable => u[j].hw \in Hws /\ u[j].hw = d[u[j].ip]
  <2>1. ASSUME NEW j \in Slots, j # i, t[j].state \in Stable
        PROVE  t[j].ip \in Ips \ {a}
    BY <2>1 DEF TableOK, Belongs, Stable
  <2> QED
    BY <1>1, <2>1 DEF TableOK
<1>7. TableOK(u, (r \ {t[i].q}) \cup ({e.q} \ {None}), d)
  BY <1>2, <1>3, <1>4, <1>5, <1>6 DEF TableOK
<1> QED
  BY <1>7 DEF u

\* An entry that is asked for becomes pending; nothing else changes.
LEMMA MadePending ==
  ASSUME NEW t, NEW r, NEW c, TableOK(t, r, c), NEW a \in Ips,
         LET i == Slot(arp_table, a)
         IN  Belongs(t, i, a)
  PROVE  LET i == Slot(arp_table, a)
             u == Pending(t, a)
         IN  /\ TableOK(u, r, c)
             /\ Belongs(u, i, a)
             /\ u[i].state # "EMPTY"
             /\ u[i].state \in Stable => t[i].state \in Stable
<1> DEFINE i == Slot(arp_table, a)
           e == [t[i] EXCEPT !.state = IF @ = "EMPTY" THEN "PENDING" ELSE @]
           u == Pending(t, a)
<1>1. i \in Slots /\ t[i] \in Entry /\ t[i].ip = a
  BY DEF Belongs, TableOK
<1>2. u = [t EXCEPT ![i] = e]
  BY <1>1 DEF Pending, TableOK
<1>3. /\ e \in Entry
      /\ e.state = IF t[i].state = "EMPTY" THEN "PENDING" ELSE t[i].state
      /\ e.ip = a /\ e.q = t[i].q /\ e.ctime = t[i].ctime /\ e.hw = t[i].hw
  BY <1>1 DEF Entry
<1>4. t[i].state = "EMPTY" => t[i].ctime < ARP_MAXPENDING
  BY <1>1, EtharpAssumption DEF TableOK
<1>5. /\ e.q # None => e.state = "PENDING" /\ Packets[e.q] = a
      /\ e.state = "PENDING" => e.ctime < ARP_MAXPENDING
      /\ e.state # "EMPTY"
      /\ e.state \in Stable => t[i].state \in Stable
      /\ e.state \in Stable => e.hw \in Hws /\ e.hw = c[a]
  BY <1>1, <1>3, <1>4 DEF TableOK, Stable
<1>6. (r \ {t[i].q}) \cup ({e.q} \ {None}) = r
  BY <1>1, <1>3 DEF TableOK
<1>7. u[i] = e /\ \A j \in Slots \ {i} : u[j] = t[j]
  BY <1>1, <1>2 DEF TableOK
<1> HIDE DEF e, u
<1>8. TableOK(u, r, c)
  <2>1. Belongs(t, i, a)
    OBVIOUS
  <2>2. TableOK([t EXCEPT ![i] = e], (r \ {t[i].q}) \cup ({e.q} \ {None}), c)
    <3> HIDE DEF i
    <3> QED
      BY <1>1, <1>3, <1>5, <2>1, OneEntryChanged
  <2> QED
    BY <1>2, <1>6, <2>2
<1>9. Belongs(u, i, a)
  BY <1>1, <1>3, <1>7 DEF Belongs
<1> QED
  BY <1>5, <1>7, <1>8, <1>9 DEF u

\* A packet that is queued on the pending entry of its next hop takes the
\* place of the one that waited there.
LEMMA QueuedKeeps ==
  ASSUME NEW t, NEW r, NEW c, TableOK(t, r, c),
         NEW p \in DOMAIN Packets \ r, NEW i, Belongs(t, i, Packets[p]),
         t[i].state = "PENDING"
  PROVE  TableOK([t EXCEPT ![i].q = p], (r \ {t[i].q}) \cup {p}, c)
<1> DEFINE e == [t[i] EXCEPT !.q = p]
<1>1. i \in Slots /\ t[i] \in Entry /\ t[i].ip = Packets[p] /\ Packets[p] \in Ips
  BY EtharpAssumption DEF Belongs, TableOK
<1>2. /\ e \in Entry
      /\ e.q = p /\ e.ip = t[i].ip /\ e.state = "PENDING" /\ e.ctime = t[i].ctime
  BY <1>1 DEF Entry
<1>3. t[i].ctime < ARP_MAXPENDING
  BY <1>1 DEF TableOK
<1>4. {e.q} \ {None} = {p}
  BY <1>2, EtharpAssumption
<1>5. [t EXCEPT ![i].q = p] = [t EXCEPT ![i] = e]
  OBVIOUS
<1> HIDE DEF e
<1>6. TableOK([t EXCEPT ![i] = e], (r \ {t[i].q}) \cup ({e.q} \ {None}), c)
  BY <1>1, <1>2, <1>3, OneEntryChanged DEF Stable
<1> QED
  BY <1>4, <1>5, <1>6

\* An answer makes the entry stable with the address that was heard, and the
\* packet leaves it.
LEMMA ResolvedKeeps ==
  ASSUME NEW t, NEW r, NEW c \in [Ips -> Hws \cup {None}], TableOK(t, r, c),
         NEW a \in Ips, NEW h \in Hws, NEW i, Belongs(t, i, a)
  PROVE  TableOK(Resolved(t, i, h), r \ {t[i].q}, [c EXCEPT ![a] = h])
<1> DEFINE e == [state |-> "STABLE", ip |-> a, hw |-> h, ctime |-> 0, q |-> None]
           d == [c EXCEPT ![a] = h]
<1>1. i \in Slots /\ t[i] \in Entry /\ t[i].ip = a
  BY DEF Belongs, TableOK
<1>2. /\ e \in Entry
      /\ e.q = None /\ e.ip = a /\ e.state = "STABLE" /\ e.hw = h
  BY <1>1, EtharpAssumption DEF Entry, Stable
<1>3. d[a] = h /\ \A b \in Ips \ {a} : d[b] = c[b]
  OBVIOUS
<1>4. None \notin r
  BY DEF TableOK
<1>5. Resolved(t, i, h) = [t EXCEPT ![i] = e]
  BY <1>1 DEF Resolved, TableOK
<1> HIDE DEF e, d
<1>6. TableOK([t EXCEPT ![i] = e], (r \ {t[i].q}) \cup ({e.q} \ {None}), d)
  BY <1>1, <1>2, <1>3, <1>4, OneEntryChanged
<1>7. (r \ {t[i].q}) \cup ({e.q} \ {None}) = r \ {t[i].q}
  BY <1>2
<1> QED
  BY <1>5, <1>6, <1>7 DEF d

\* Without an entry of the address, what is heard of it concerns no entry.
LEMMA UnknownHeard ==
  ASSUME NEW t, NEW r, NEW c \in [Ips -> Hws \cup {None}], TableOK(t, r, c),
         NEW a \in Ips, NEW h \in Hws, Matching(t, a) = {}
  PROVE  TableOK(t, r, [c EXCEPT ![a] = h])
<1>1. \A j \in Slots : t[j].state \in Stable => t[j].ip \in Ips \ {a}
  BY DEF Matching, InState, TableOK, Stable
<1>2. \A b \in Ips \ {a} : [c EXCEPT ![a] = h][b] = c[b]
  OBVIOUS
<1> QED
  BY <1>1, <1>2 DEF TableOK

-----------------------------------------------------------------------------
(* The invariant is inductive.                                             *)

\* The invariant holds initially.
LEMMA InitInvariant == Init => IInv
<1> SUFFICES ASSUME Init PROVE IInv
  OBVIOUS
<1>1. \A i \in Slots : arp_table[i] = EmptyEntry
  BY DEF Init
<1>2. EmptyEntry \in Entry
  BY EtharpAssumption DEF EmptyEntry, Entry
<1>3. arp_table \in [Slots -> Entry]
  BY <1>2 DEF Init
<1>4. TableOK(arp_table, refs, claim)
  BY <1>1, <1>3 DEF TableOK, Init, EmptyEntry, Stable
<1>5. 0 \in Slots
  BY EtharpAssumption DEF Slots
<1> QED
  BY <1>4, <1>5 DEF IInv, Init, RightAddress

\* A stable entry that etharp_output finds is one of the packet's next hop.
LEMMA StableFound ==
  ASSUME IInv, NEW a \in Ips
  PROVE  /\ \A i \in StableSlots(a) :
              i \in Slots /\ arp_table[i].state \in Stable /\ arp_table[i].ip = a
         /\ StableSlots(a) = {} =>
              \A i \in Slots :
                ~ (arp_table[i].state \in Stable /\ arp_table[i].ip = a)
<1> DEFINE S == {i \in InState(arp_table, Stable) : arp_table[i].ip = a}
<1>1. CASE CachedHit(a)
  BY <1>1 DEF IInv, CachedHit, StableSlots
<1>2. CASE ~CachedHit(a)
  <2>1. S \in SUBSET Slots /\ (S # {} => Min(S) \in S)
    BY MinOfSlots DEF InState
  <2>2. StableSlots(a) = IF S = {} THEN {} ELSE {Min(S)}
    BY <1>2 DEF StableSlots
  <2> QED
    BY <2>1, <2>2 DEF InState
<1> QED
  BY <1>1, <1>2

\* etharp_output keeps it.
LEMMA OutputStep ==
  ASSUME IInv, NEW p \in DOMAIN Packets, EtharpOutput(p)
  PROVE  IInv'
<1> DEFINE a == Packets[p]
<1>0. a \in Ips
  BY EtharpAssumption
<1>1. ASSUME NEW i \in StableSlots(a), OutputToIndex(p, i) PROVE IInv'
  <2>1. /\ i \in Slots /\ arp_table[i].state \in Stable /\ arp_table[i].ip = a
        /\ arp_table[i].hw \in Hws /\ arp_table[i].hw = claim[a]
    BY <1>0, StableFound DEF IInv, TableOK
  <2>2. TableOK(arp_table', refs', claim')
    <3>1. CASE arp_table' = arp_table
      BY <1>1, <3>1 DEF OutputToIndex, IInv
    <3>2. CASE arp_table' = [arp_table EXCEPT ![i].state = "REREQUESTING_1"]
      <4> DEFINE e == [arp_table[i] EXCEPT !.state = "REREQUESTING_1"]
      <4>1. arp_table[i] \in Entry
        BY <2>1 DEF IInv, TableOK
      <4>2. /\ e \in Entry
            /\ e.state = "REREQUESTING_1" /\ e.ip = a
            /\ e.hw = arp_table[i].hw /\ e.q = arp_table[i].q
        BY <2>1, <4>1 DEF Entry, Stable
      <4>3. arp_table[i].q = None
        BY <2>1 DEF IInv, TableOK, Stable
      <4>4. Belongs(arp_table, i, a)
        BY <2>1 DEF IInv, TableOK, Belongs, Stable
      <4>5. arp_table' = [arp_table EXCEPT ![i] = e]
        BY <3>2
      <4> HIDE DEF e
      <4>6. TableOK([arp_table EXCEPT ![i] = e],
                    (refs \ {arp_table[i].q}) \cup ({e.q} \ {None}), claim)
        <5>1. TableOK(arp_table, refs, claim)
          BY DEF IInv
        <5>2. /\ e.q = None
              /\ e.state # "PENDING" /\ e.state # "EMPTY"
          BY <4>2, <4>3
        <5> HIDE DEF a
        <5> QED
          BY <1>0, <2>1, <4>2, <4>4, <5>1, <5>2, OneEntryChanged
      <4>7. (refs \ {arp_table[i].q}) \cup ({e.q} \ {None}) = refs
        BY <4>2, <4>3 DEF IInv, TableOK
      <4> QED
        BY <1>1, <4>5, <4>6, <4>7 DEF OutputToIndex
    <3> QED
      BY <1>1, <3>1, <3>2 DEF OutputToIndex
  <2>3. /\ out' = [pkt |-> p, hw |-> arp_table[i].hw]
        /\ claim' = claim /\ cached' = i
    BY <1>1 DEF OutputToIndex
  <2>4. RightAddress'
    BY <2>1, <2>3 DEF RightAddress
  <2> QED
    BY <2>1, <2>2, <2>3, <2>4 DEF IInv
<1>2. ASSUME StableSlots(a) = {}, QueueOn(p) PROVE IInv'
  <2> DEFINE i == Slot(arp_table, a)
             f == Found(arp_table, a)
             t == Pending(f, a)
             r == refs \ Released(arp_table, a)
  <2>1. TableOK(f, r, claim) /\ Belongs(f, i, a)
    BY <1>0, FindEntry DEF IInv
  <2>2. /\ TableOK(t, r, claim) /\ Belongs(t, i, a)
        /\ t[i].state # "EMPTY"
        /\ t[i].state \in Stable => f[i].state \in Stable
    <3> HIDE DEF f, r
    <3> QED
      BY <1>0, <2>1, MadePending
  <2>3. f[i].state \notin Stable
    <3>1. \A j \in Slots : f[j] = arp_table[j] \/ f[j].state = "EMPTY"
      BY <1>0, RecycledSlot DEF Found, IInv, TableOK, EmptyEntry
    <3> QED
      BY <1>0, <1>2, <2>1, <3>1, StableFound DEF Belongs, Stable
  <2>4. t[i].state = "PENDING"
    <3>1. t[i] \in Entry
      BY <2>2 DEF TableOK, Belongs
    <3> QED
      BY <2>2, <2>3, <3>1 DEF Entry
  <2>5. p \in DOMAIN Packets \ r
    BY DEF EtharpOutput
  <2>6. TableOK([t EXCEPT ![i].q = p], (r \ {t[i].q}) \cup {p}, claim)
    <3> HIDE DEF t, r, i
    <3> QED
      BY <2>2, <2>4, <2>5, QueuedKeeps
  <2>7. TableOK(arp_table', refs', claim')
    BY <1>2, <2>2, <2>6 DEF QueueOn
  <2>8. out' = None /\ cached' = cached /\ claim' = claim
    BY <1>2 DEF QueueOn
  <2> QED
    BY <2>7, <2>8 DEF IInv, RightAddress
<1> QED
  BY <1>1, <1>2 DEF EtharpOutput

\* etharp_query keeps it.
LEMMA QueryStep ==
  ASSUME IInv, NEW a \in Ips, EtharpQuery(a)
  PROVE  IInv'
<1> DEFINE i == Slot(arp_table, a)
           f == Found(arp_table, a)
           r == refs \ Released(arp_table, a)
<1>1. TableOK(f, r, claim) /\ Belongs(f, i, a)
  BY FindEntry DEF IInv
<1>2. TableOK(Pending(f, a), r, claim)
  <2> HIDE DEF f, r
  <2> QED
    BY <1>1, MadePending
<1>3. /\ arp_table' = Pending(f, a) /\ refs' = r
      /\ out' = None /\ cached' = cached /\ claim' = claim
  BY DEF EtharpQuery
<1> QED
  BY <1>2, <1>3 DEF IInv, RightAddress

\* etharp_input keeps it.
LEMMA InputStep ==
  ASSUME IInv, NEW a \in Ips, NEW h \in Hws, NEW for_us \in BOOLEAN,
         EtharpInput(a, h, for_us)
  PROVE  IInv'
<1> DEFINE i == Slot(arp_table, a)
           t == Found(arp_table, a)
           r == refs \ Released(arp_table, a)
<1>1. TableOK(t, r, claim) /\ Belongs(t, i, a)
  BY FindEntry DEF IInv
<1>2. /\ claim \in [Ips -> Hws \cup {None}]
      /\ claim' = [claim EXCEPT ![a] = h] /\ cached' = cached
  BY DEF IInv, EtharpInput
<1>3. claim' \in [Ips -> Hws \cup {None}] /\ claim'[a] = h
  BY <1>2
<1>4. CASE for_us \/ Matching(arp_table, a) # {}
  <2>1. /\ arp_table' = Resolved(t, i, h)
        /\ refs' = refs \ (Released(arp_table, a) \cup {t[i].q})
        /\ out' = IF t[i].q = None THEN None ELSE [pkt |-> t[i].q, hw |-> h]
    BY <1>4 DEF EtharpInput
  <2>2. refs' = r \ {t[i].q}
    BY <2>1
  <2>3. TableOK(Resolved(t, i, h), r \ {t[i].q}, [claim EXCEPT ![a] = h])
    <3> HIDE DEF t, r, i
    <3> QED
      BY <1>1, <1>2, ResolvedKeeps
  <2>4. t[i].q # None => t[i].q \in DOMAIN Packets /\ Packets[t[i].q] = a
    <3> HIDE DEF t, r, i
    <3> QED
      BY <1>1 DEF TableOK, Belongs, Entry
  <2>5. /\ out' \in [pkt : DOMAIN Packets, hw : Hws] \cup {None}
        /\ RightAddress'
    <3> HIDE DEF t, i
    <3> QED
      BY <1>3, <2>1, <2>4 DEF RightAddress
  <2> QED
    BY <1>2, <1>3, <2>1, <2>2, <2>3, <2>5 DEF IInv
<1>5. CASE ~(for_us \/ Matching(arp_table, a) # {})
  <2>1. arp_table' = arp_table /\ refs' = refs /\ out' = None
    BY <1>5 DEF EtharpInput
  <2>2. TableOK(arp_table, refs, [claim EXCEPT ![a] = h])
    BY <1>2, <1>5, UnknownHeard DEF IInv
  <2> QED
    BY <1>2, <1>3, <2>1, <2>2 DEF IInv, RightAddress
<1> QED
  BY <1>4, <1>5

\* etharp_tmr keeps it.
LEMMA TimerStep == ASSUME IInv, EtharpTmr PROVE IInv'
<1> DEFINE used == InState(arp_table, Stable \cup {"PENDING"})
           expired == {i \in used :
                         \/ arp_table[i].ctime + 1 >= ARP_MAXAGE
                         \/ /\ arp_table[i].state = "PENDING"
                            /\ arp_table[i].ctime + 1 >= ARP_MAXPENDING}
           t == arp_table'
<1>1. /\ t = [i \in Slots |->
                IF i \in expired THEN EmptyEntry
                ELSE IF i \in used THEN Aged(arp_table[i])
                ELSE arp_table[i]]
      /\ refs' = refs \ {arp_table[i].q : i \in expired}
      /\ out' = None /\ cached' = cached /\ claim' = claim
  BY DEF EtharpTmr
<1>2. arp_table \in [Slots -> Entry]
  BY DEF IInv, TableOK
<1>3. ASSUME NEW i \in used \ expired
      PROVE  /\ Aged(arp_table[i]) \in Entry
             /\ Aged(arp_table[i]).ip = arp_table[i].ip
             /\ Aged(arp_table[i]).hw = arp_table[i].hw
             /\ Aged(arp_table[i]).q = arp_table[i].q
             /\ Aged(arp_table[i]).state # "EMPTY"
             /\ Aged(arp_table[i]).state = "PENDING"
                  <=> arp_table[i].state = "PENDING"
             /\ Aged(arp_table[i]).state \in Stable
                  <=> arp_table[i].state \in Stable
             /\ Aged(arp_table[i]).state = "PENDING"
                  => Aged(arp_table[i]).ctime < ARP_MAXPENDING
  <2> DEFINE e == arp_table[i]
  <2>1. e \in Entry /\ e.ctime \in 0 .. ARP_MAXAGE - 1
    BY <1>2 DEF InState, Entry
  <2>2. /\ e.ctime + 1 \in 0 .. ARP_MAXAGE - 1
        /\ e.state = "PENDING" => e.ctime + 1 < ARP_MAXPENDING
        /\ e.state \in Stable \cup {"PENDING"}
    BY <1>2, <2>1, EtharpAssumption DEF InState
  <2> HIDE DEF e
  <2>3. Aged(e) = [state |-> CASE e.state = "REREQUESTING_1" -> "REREQUESTING_2"
                               [] e.state = "REREQUESTING_2" -> "STABLE"
                               [] OTHER -> e.state,
                   ip |-> e.ip, hw |-> e.hw, ctime |-> e.ctime + 1, q |-> e.q]
    <3> DEFINE s == CASE e.state = "REREQUESTING_1" -> "REREQUESTING_2"
                      [] e.state = "REREQUESTING_2" -> "STABLE"
                      [] OTHER -> e.state
               f == [e EXCEPT !.ctime = @ + 1]
    <3>1. f = [state |-> e.state, ip |-> e.ip, hw |-> e.hw,
               ctime |-> e.ctime + 1, q |-> e.q]
      BY <2>1 DEF Entry
    <3>2. Aged(e) = [f EXCEPT !.state = s]
      BY <2>1 DEF Aged, Entry
    <3> HIDE DEF s, f
    <3>3. Aged(e) = [state |-> s, ip |-> e.ip, hw |-> e.hw,
                     ctime |-> e.ctime + 1, q |-> e.q]
      BY <3>1, <3>2
    <3> QED
      BY <3>3 DEF s
  <2> QED
    BY <2>1, <2>2, <2>3 DEF e, Entry, Stable
<1>4. ASSUME NEW i \in Slots
      PROVE  \/ i \in expired /\ t[i] = EmptyEntry
             \/ i \in used \ expired /\ t[i] = Aged(arp_table[i])
             \/ arp_table[i].state = "EMPTY" /\ t[i] = arp_table[i]
  <2>1. i \notin used => arp_table[i].state = "EMPTY"
    BY <1>2 DEF InState, Entry
  <2> QED
    BY <1>1, <2>1
<1>5. EmptyEntry \in Entry
  BY EtharpAssumption DEF EmptyEntry, Entry
<1>6. t \in [Slots -> Entry]
  <2>1. \A i \in Slots : t[i] \in Entry
    BY <1>2, <1>3, <1>4, <1>5
  <2>2. t = [i \in Slots |-> t[i]]
    BY <1>1
  <2> QED
    BY <2>1, <2>2
<1> HIDE DEF used, expired, t
<1>7. \A i \in Slots :
        \/ /\ i \in expired
           /\ t[i].state = "EMPTY" /\ t[i].q = None /\ t[i].ctime = 0
        \/ /\ i \notin expired
           /\ t[i].ip = arp_table[i].ip /\ t[i].hw = arp_table[i].hw
           /\ t[i].q = arp_table[i].q
           /\ t[i].state = "EMPTY" <=> arp_table[i].state = "EMPTY"
           /\ t[i].state = "PENDING" <=> arp_table[i].state = "PENDING"
           /\ t[i].state \in Stable <=> arp_table[i].state \in Stable
           /\ t[i].state = "PENDING" => t[i].ctime < ARP_MAXPENDING
           /\ t[i].state = "EMPTY" => t[i].ctime = 0
  <2> SUFFICES ASSUME NEW i \in Slots
               PROVE  \/ /\ i \in expired
                         /\ t[i].state = "EMPTY" /\ t[i].q = None
                         /\ t[i].ctime = 0
                      \/ /\ i \notin expired
                         /\ t[i].ip = arp_table[i].ip
                         /\ t[i].hw = arp_table[i].hw
                         /\ t[i].q = arp_table[i].q
                         /\ t[i].state = "EMPTY" <=> arp_table[i].state = "EMPTY"
                         /\ t[i].state = "PENDING"
                              <=> arp_table[i].state = "PENDING"
                         /\ t[i].state \in Stable
                              <=> arp_table[i].state \in Stable
                         /\ t[i].state = "PENDING" => t[i].ctime < ARP_MAXPENDING
                         /\ t[i].state = "EMPTY" => t[i].ctime = 0
    OBVIOUS
  <2>1. CASE i \in expired /\ t[i] = EmptyEntry
    BY <2>1 DEF EmptyEntry
  <2>2. CASE i \in used \ expired /\ t[i] = Aged(arp_table[i])
    <3>1. arp_table[i].state # "EMPTY"
      BY <2>2 DEF used, InState, Stable
    <3> QED
      BY <1>3, <2>2, <3>1
  <2>3. CASE arp_table[i].state = "EMPTY" /\ t[i] = arp_table[i]
    <3>1. i \notin expired
      BY <2>3 DEF expired, used, InState, Stable
    <3> QED
      BY <2>3, <3>1 DEF IInv, TableOK
  <2> QED
    BY <1>4, <2>1, <2>2, <2>3
<1>8. expired \subseteq Slots
  BY DEF expired, used, InState
<1>9. refs' = {t[i].q : i \in Slots} \ {None}
  <2>1. \A i \in expired, j \in Slots \ expired :
          arp_table[i].q # None => arp_table[i].q # arp_table[j].q
    BY <1>8 DEF IInv, TableOK
  <2> QED
    BY <1>1, <1>7, <1>8, <2>1 DEF IInv, TableOK
<1>10. TableOK(t, refs', claim)
  <2>1. TableOK(arp_table, refs, claim)
    BY DEF IInv
  <2>2. \A i, j \in Slots :
          t[i].state # "EMPTY" /\ t[j].state # "EMPTY" /\ t[i].ip = t[j].ip
            => i = j
    BY <1>7, <2>1 DEF TableOK
  <2>3. \A i \in Slots :
          /\ t[i].q # None =>
               t[i].state = "PENDING" /\ Packets[t[i].q] = t[i].ip
          /\ t[i].state = "PENDING" => t[i].ctime < ARP_MAXPENDING
          /\ t[i].state = "EMPTY" => t[i].ctime = 0
          /\ t[i].state # "EMPTY" => t[i].ip \in Ips
          /\ t[i].state \in Stable => t[i].hw \in Hws /\ t[i].hw = claim[t[i].ip]
    BY <1>7, <2>1 DEF TableOK, Stable
  <2>4. \A i, j \in Slots : t[i].q = t[j].q /\ t[i].q # None => i = j
    BY <1>7, <2>1 DEF TableOK
  <2> QED
    BY <1>6, <1>9, <2>2, <2>3, <2>4 DEF TableOK
<1> QED
  BY <1>1, <1>10 DEF IInv, RightAddress, t

\* etharp_cleanup_netif keeps it.
LEMMA CleanupStep == ASSUME IInv, EtharpCleanupNetif PROVE IInv'
<1>1. /\ arp_table' = [i \in Slots |-> EmptyEntry]
      /\ refs' = refs \ {arp_table[i].q : i \in Slots}
      /\ out' = None /\ cached' = cached /\ claim' = claim
  BY DEF EtharpCleanupNetif
<1>2. refs' = {}
  BY <1>1 DEF IInv, TableOK
<1>3. EmptyEntry \in Entry
  BY EtharpAssumption DEF EmptyEntry, Entry
<1>4. arp_table' \in [Slots -> Entry] /\ \A i \in Slots : arp_table'[i] = EmptyEntry
  BY <1>1, <1>3
<1>5. TableOK(arp_table', refs', claim)
  BY <1>2, <1>4 DEF TableOK, EmptyEntry, Stable
<1> QED
  BY <1>1, <1>5 DEF IInv, RightAddress

\* Every step keeps it.
LEMMA NextInvariant == IInv /\ [Next]_vars => IInv'
<1> SUFFICES ASSUME IInv, [Next]_vars PROVE IInv'
  OBVIOUS
<1>1. CASE Next
  BY <1>1, OutputStep, QueryStep, InputStep, TimerStep, CleanupStep DEF Next
<1>2. CASE UNCHANGED vars
  BY <1>2 DEF vars, IInv, TableOK, RightAddress
<1> QED
  BY <1>1, <1>2

\* The table, the packets on it and the messages on the wire agree at all
\* times.
THEOREM Inductive == Spec => []IInv
<1> QED
  BY InitInvariant, NextInvariant, PTL DEF Spec

\* The cache is sound: one entry to an address, packets on pending entries of
\* their own next hop and nowhere else, and no reference kept or lost.
THEOREM Sound == Spec => []CacheSound
<1>1. IInv => CacheSound
  <2> SUFFICES ASSUME IInv PROVE CacheSound
    OBVIOUS
  <2>1. arp_table \in [Slots -> Entry] /\ refs \subseteq DOMAIN Packets
    BY DEF IInv, TableOK, Entry
  <2>2. TypeOK
    BY <2>1 DEF TypeOK, IInv, Entry
  <2>3. OneEntryEach
    BY DEF OneEntryEach, IInv, TableOK, InState, Stable
  <2>4. QueuedPending /\ NoLeak
    BY DEF QueuedPending, NoLeak, IInv, TableOK
  <2> QED
    BY <2>2, <2>3, <2>4 DEF CacheSound
<1> QED
  BY <1>1, Inductive, PTL

\* No packet goes to the hardware address of an entry that has meanwhile been
\* recycled or answered anew.
THEOREM ToTheRightAddress == Spec => []RightAddress
<1>1. IInv => RightAddress
  BY DEF IInv
<1> QED
  BY <1>1, Inductive, PTL

-----------------------------------------------------------------------------
(* When a packet is lost.                                                  *)

\* Recycling takes a packet only if all entries wait with packets, none of
\* them longer.
LEMMA RecycledLast ==
  ASSUME NEW t, NEW r, NEW c, TableOK(t, r, c), NEW a \in Ips,
         NEW i \in Slots, t[i].q # None, t[i].q \in Released(t, a)
  PROVE  \A j \in Slots : t[j].q # None /\ t[j].ctime <= t[i].ctime
<1> DEFINE k == Recycled(t)
           empty  == InState(t, {"EMPTY"})
           stable == InState(t, Stable)
           idle   == {j \in InState(t, {"PENDING"}) : t[j].q = None}
<1>1. k \in Slots
  BY RecycledSlot DEF TableOK
<1>2. t[i].q = t[k].q
  BY DEF Released
<1>3. k = i
  BY <1>1, <1>2 DEF TableOK
<1>4. k \notin empty /\ k \notin stable /\ k \notin idle
  BY <1>3 DEF TableOK, InState, Stable
<1>5. \A S \in SUBSET Slots : S # {} =>
        /\ Min(S) \in S /\ OldestOf(t, S) \in S
        /\ \A j \in S : t[j].ctime <= t[OldestOf(t, S)].ctime
  <2>1. \A j \in Slots : t[j].ctime \in 0 .. ARP_MAXAGE
    BY EtharpAssumption DEF TableOK, Entry
  <2> QED
    BY <2>1, MinOfSlots, OldestOfSlots
<1>6. empty \in SUBSET Slots /\ stable \in SUBSET Slots /\ idle \in SUBSET Slots
  BY DEF InState
<1>7. k = IF empty # {} THEN Min(empty)
          ELSE IF stable # {} THEN OldestOf(t, stable)
          ELSE IF idle # {} THEN OldestOf(t, idle)
          ELSE OldestOf(t, Slots)
  BY DEF Recycled
<1>8. empty = {} /\ stable = {} /\ idle = {} /\ k = OldestOf(t, Slots)
  <2> HIDE DEF k, empty, stable, idle
  <2> QED
    BY <1>4, <1>5, <1>6, <1>7
<1>9. \A j \in Slots : t[j].q # None
  BY <1>8 DEF TableOK, Entry, InState
<1> QED
  BY <1>3, <1>5, <1>8, <1>9

\* A packet etharp_output drops makes room for another to the same address.
LEMMA QueueLoss ==
  ASSUME IInv, NEW p \in DOMAIN Packets, EtharpOutput(p), NEW i \in Slots
  PROVE  Justified(i)
<1> DEFINE a == Packets[p]
           k == Slot(arp_table, a)
           t == Pending(Found(arp_table, a), a)
           r == refs \ Released(arp_table, a)
<1> SUFFICES ASSUME arp_table[i].q \in refs \ refs',
                    arp_table[i].q \notin Released(arp_table, a)
             PROVE  \E x \in refs' \ refs : Packets[x] = arp_table[i].ip
  <2>1. arp_table[i].q \in refs => arp_table[i].q # None
    BY DEF IInv, TableOK
  <2>2. a \in Ips
    BY EtharpAssumption
  <2>3. TableOK(arp_table, refs, claim)
    BY DEF IInv
  <2> HIDE DEF a
  <2> QED
    BY <2>1, <2>2, <2>3, RecycledLast DEF Justified
<1>1. a \in Ips /\ p \notin refs
  BY EtharpAssumption DEF EtharpOutput
<1>2. refs' # refs
  OBVIOUS
<1>3. QueueOn(p)
  BY <1>2 DEF EtharpOutput, OutputToIndex
<1>4. refs' = (r \ {t[k].q}) \cup {p} /\ arp_table[i].q = t[k].q
  <2>1. refs' = r \/ refs' = (r \ {t[k].q}) \cup {p}
    BY <1>3 DEF QueueOn
  <2> QED
    BY <2>1
<1>5. /\ TableOK(Found(arp_table, a), r, claim)
      /\ Belongs(Found(arp_table, a), k, a)
  BY <1>1, FindEntry DEF IInv
<1>6. TableOK(t, r, claim) /\ Belongs(t, k, a)
  <2> HIDE DEF r
  <2> QED
    BY <1>1, <1>5, MadePending
<1>7. arp_table[i].q # None
  BY DEF IInv, TableOK
<1>8. t[k].ip = a /\ t[k].q = arp_table[i].q /\ Packets[t[k].q] = t[k].ip
  <2> HIDE DEF t, r, k
  <2> QED
    BY <1>4, <1>6, <1>7 DEF TableOK, Belongs
<1>9. Packets[arp_table[i].q] = arp_table[i].ip
  BY <1>7 DEF IInv, TableOK
<1> QED
  BY <1>1, <1>4, <1>8, <1>9

\* etharp_input drops no packet but those it sends or whose entry it recycles.
LEMMA InputLoss ==
  ASSUME IInv, NEW a \in Ips, NEW h \in Hws, NEW for_us \in BOOLEAN,
         EtharpInput(a, h, for_us), NEW i \in Slots
  PROVE  Justified(i)
<1> DEFINE k == Slot(arp_table, a)
           t == Found(arp_table, a)
<1> SUFFICES ASSUME arp_table[i].q \in refs \ refs'
             PROVE  \/ out' # None /\ out'.pkt = arp_table[i].q
                    \/ arp_table[i].q \in Released(arp_table, a)
  <2>1. arp_table[i].q \in refs => arp_table[i].q # None
    BY DEF IInv, TableOK
  <2>2. TableOK(arp_table, refs, claim)
    BY DEF IInv
  <2> QED
    BY <2>1, <2>2, RecycledLast DEF Justified
<1>1. /\ refs' = refs \ (Released(arp_table, a) \cup {t[k].q})
      /\ out' = IF t[k].q = None THEN None ELSE [pkt |-> t[k].q, hw |-> h]
  BY DEF EtharpInput
<1>2. None \notin refs
  BY DEF IInv, TableOK
<1>3. t[k].q \in DOMAIN Packets => [pkt |-> t[k].q, hw |-> h] # None
  BY EtharpAssumption
<1>4. arp_table[i].q \in DOMAIN Packets
  BY <1>2 DEF IInv, TableOK, Entry
<1>5. CASE arp_table[i].q = t[k].q
  <2>1. out' = [pkt |-> arp_table[i].q, hw |-> h] /\ out' # None
    BY <1>1, <1>2, <1>3, <1>4, <1>5
  <2> QED
    BY <2>1
<1> QED
  BY <1>1, <1>5

\* etharp_tmr drops a packet with its entry, after ARP_MAXPENDING rounds.
LEMMA TimerLoss ==
  ASSUME IInv, EtharpTmr, NEW i \in Slots
  PROVE  Justified(i)
<1> SUFFICES ASSUME arp_table[i].q \in refs \ refs'
             PROVE  arp_table[i].ctime + 1 = ARP_MAXPENDING
  BY DEF Justified
<1> DEFINE used == InState(arp_table, Stable \cup {"PENDING"})
           expired == {k \in used :
                         \/ arp_table[k].ctime + 1 >= ARP_MAXAGE
                         \/ /\ arp_table[k].state = "PENDING"
                            /\ arp_table[k].ctime + 1 >= ARP_MAXPENDING}
<1>1. refs' = refs \ {arp_table[k].q : k \in expired}
  BY DEF EtharpTmr
<1>2. arp_table[i].q # None
  BY DEF IInv, TableOK
<1>3. i \in expired
  <2>1. expired \subseteq Slots
    BY DEF InState
  <2> HIDE DEF expired
  <2> QED
    BY <1>1, <1>2, <2>1 DEF IInv, TableOK
<1>4. /\ arp_table[i].state = "PENDING"
      /\ arp_table[i].ctime \in Nat /\ arp_table[i].ctime < ARP_MAXPENDING
  BY <1>2 DEF IInv, TableOK, Entry
<1> QED
  BY <1>3, <1>4, EtharpAssumption

\* A waiting packet is sent, displaced by a newer one to its next hop, or
\* waits out its time; recycling takes it only when nothing better is left.
THEOREM LossIsJustified == Spec => LossJustified
<1>1. IInv /\ [Next]_vars => [\A i \in Slots : Justified(i)]_vars
  <2> SUFFICES ASSUME IInv, Next, NEW i \in Slots PROVE Justified(i)
    OBVIOUS
  <2>1. ASSUME NEW p \in DOMAIN Packets, EtharpOutput(p) PROVE Justified(i)
    BY <2>1, QueueLoss
  <2>2. ASSUME NEW a \in Ips, EtharpQuery(a) PROVE Justified(i)
    <3>1. TableOK(arp_table, refs, claim)
      BY DEF IInv
    <3>2. None \notin refs
      BY <3>1 DEF TableOK
    <3> QED
      BY <2>2, <3>1, <3>2, RecycledLast DEF Justified, EtharpQuery
  <2>3. ASSUME NEW a \in Ips, NEW h \in Hws, NEW for_us \in BOOLEAN,
               EtharpInput(a, h, for_us)
        PROVE  Justified(i)
    BY <2>3, InputLoss
  <2>4. CASE EtharpTmr
    BY <2>4, TimerLoss
  <2>5. CASE EtharpCleanupNetif
    BY <2>5 DEF Justified
  <2> QED
    BY <2>1, <2>2, <2>3, <2>4, <2>5 DEF Next
<1> QED
  BY <1>1, Inductive, PTL DEF Spec, LossJustified

-----------------------------------------------------------------------------
(* Link control.                                                           *)

\* The program is in ETH_Init, ETH_BSP_Config or LwIP_Init.
Starting == pc \in {"reset", "negotiate", "configure", "bsp", "lwip"}

\* Until LwIP_Init is through nothing is up, and in the callback's wait the
\* link is reported and the interface still down.
FlagsFollow ==
  /\ Starting => flags = {} /\ ~started
  /\ pc = "renegotiate" => flags = {"LINK_UP"}

\* ETH_INIT_FLAG tells of a negotiation that was completed, whose mode was
\* taken.
InitTold ==
  /\ pc \in {"reset", "negotiate", "configure"} => EthStatus = {}
  /\ pc \in {"bsp", "lwip"} /\ "INIT" \in EthStatus =>
       ~failed /\ InitStructure \in Modes

\* At every step of the start and of ETH_link_callback the flags, the MAC and
\* the record of the negotiation fit together, so that the parts agree in the
\* main loop and after the wait: the inductive invariant.
LinkInv == LinkTypeOK /\ FlagsFollow /\ InitTold /\ PartsAgree

\* The invariant holds initially.
LEMMA LinkInitInvariant == LinkInit => LinkInv
<1> SUFFICES ASSUME LinkInit PROVE LinkInv
  OBVIOUS
<1>1. LinkTypeOK
  BY DEF LinkInit, LinkTypeOK
<1>2. FlagsFollow /\ InitTold /\ PartsAgree
  BY DEF LinkInit, FlagsFollow, InitTold, PartsAgree, Starting
<1> QED
  BY <1>1, <1>2 DEF LinkInv

\* Every step keeps the type invariant.
LEMMA LinkTypeStep == LinkTypeOK /\ LinkNext => LinkTypeOK'
<1> SUFFICES ASSUME LinkTypeOK, LinkNext PROVE LinkTypeOK'
  OBVIOUS
<1> USE DEF LinkTypeOK
<1>1. ASSUME NEW q \in Partners, Replug(q) PROVE LinkTypeOK'
  BY <1>1 DEF Replug
<1>2. CASE Settle
  BY <1>2, LinkAssumption DEF Settle
<1>3. CASE WaitLink
  <2>1. phy' \in Modes \cup {NoLink} /\ failed' \in BOOLEAN
    BY <1>3 DEF WaitLink
  <2>2. pc' \in {"negotiate", "configure"}
    BY <1>3 DEF WaitLink
  <2> QED
    BY <1>3, <2>1, <2>2 DEF WaitLink
<1>4. CASE WaitNegotiation
  BY <1>4 DEF WaitNegotiation, env
<1>5. StatusRead \subseteq [FES : BOOLEAN, DM : BOOLEAN]
  BY LinkAssumption DEF StatusRead
<1>6. CASE Configure
  <2>1. InitStructure' \in [FES : BOOLEAN, DM : BOOLEAN]
    <3>1. InitStructure' \in ModeAfterInit
      BY <1>6 DEF Configure
    <3>2. [FES |-> TRUE, DM |-> TRUE] \in [FES : BOOLEAN, DM : BOOLEAN]
      OBVIOUS
    <3>3. failed => InitStructure' = [FES |-> TRUE, DM |-> TRUE]
      BY <3>1 DEF ModeAfterInit
    <3>4. ~failed => InitStructure' \in StatusRead
      BY <3>1 DEF ModeAfterInit
    <3> QED
      BY <1>5, <3>2, <3>3, <3>4, Zenon
  <2>2. MACCR' = InitStructure' /\ EthStatus' \subseteq {"INIT", "LINK"}
    BY <1>6 DEF Configure
  <2>3. pc' = "bsp"
    BY <1>6 DEF Configure
  <2> QED
    BY <1>6, <2>1, <2>2, <2>3 DEF Configure, env
<1>7. CASE BspConfig
  BY <1>7 DEF BspConfig, env
<1>8. CASE LwipInit
  BY <1>8 DEF LwipInit, env
<1>9. CASE LinkUp
  BY <1>9 DEF LinkUp
<1>10. CASE Renegotiated
  <2>1. InitStructure' \in [FES : BOOLEAN, DM : BOOLEAN]
    BY <1>5, <1>10 DEF Renegotiated
  <2>2. MACCR' \in [FES : BOOLEAN, DM : BOOLEAN]
    BY <1>10, <2>1 DEF Renegotiated
  <2> QED
    BY <1>10, <2>1, <2>2 DEF Renegotiated, env
<1>11. CASE LinkDown
  BY <1>11 DEF LinkDown, env
<1> QED
  BY <1>1, <1>2, <1>3, <1>4, <1>6, <1>7, <1>8, <1>9, <1>10, <1>11 DEF LinkNext

\* The cable and the PHY change nothing the invariant is about.
LEMMA EnvironmentStep ==
  ASSUME LinkInv, (\E q \in Partners : Replug(q)) \/ Settle
  PROVE  (FlagsFollow /\ InitTold /\ PartsAgree)'
BY DEF LinkInv, Replug, Settle, FlagsFollow, InitTold, PartsAgree, Starting

\* The steps of the start keep the rest of it.
LEMMA StartStep ==
  ASSUME LinkInv, WaitLink \/ WaitNegotiation \/ Configure \/ BspConfig \/ LwipInit
  PROVE  (FlagsFollow /\ InitTold /\ PartsAgree)'
<1> USE DEF LinkInv, FlagsFollow, InitTold, PartsAgree, Starting
<1>1. CASE WaitLink
  BY <1>1 DEF WaitLink
<1>2. CASE WaitNegotiation
  BY <1>2 DEF WaitNegotiation
<1>3. CASE Configure
  <2>1. ~failed => InitStructure' \in Modes
    BY <1>3 DEF Configure, ModeAfterInit, StatusRead, LinkTypeOK
  <2> QED
    BY <1>3, <2>1 DEF Configure
<1>4. CASE BspConfig
  BY <1>4 DEF BspConfig
<1>5. CASE LwipInit
  BY <1>5 DEF LwipInit
<1> QED
  BY <1>1, <1>2, <1>3, <1>4, <1>5

\* ETH_link_callback keeps the rest of it.
LEMMA CallbackStep ==
  ASSUME LinkInv, LinkUp \/ Renegotiated \/ LinkDown
  PROVE  (FlagsFollow /\ InitTold /\ PartsAgree)'
<1> USE DEF LinkInv, FlagsFollow, InitTold, PartsAgree, Starting
<1>1. CASE LinkUp
  <2>1. flags = {}
    BY <1>1 DEF LinkUp, LinkTypeOK
  <2> QED
    BY <1>1, <2>1 DEF LinkUp
<1>2. CASE Renegotiated
  BY <1>2 DEF Renegotiated
<1>3. CASE LinkDown
  BY <1>3 DEF LinkDown
<1> QED
  BY <1>1, <1>2, <1>3

\* Every step keeps it.
LEMMA LinkNextInvariant == LinkInv /\ [LinkNext]_linkVars => LinkInv'
<1> SUFFICES ASSUME LinkInv, [LinkNext]_linkVars PROVE LinkInv'
  OBVIOUS
<1>1. CASE LinkNext
  <2>1. LinkTypeOK'
    BY <1>1, LinkTypeStep DEF LinkInv
  <2>2. (FlagsFollow /\ InitTold /\ PartsAgree)'
    BY <1>1, EnvironmentStep, StartStep, CallbackStep DEF LinkNext
  <2> QED
    BY <2>1, <2>2 DEF LinkInv
<1>2. CASE UNCHANGED linkVars
  BY <1>2 DEF linkVars, LinkInv, LinkTypeOK, FlagsFollow, InitTold, PartsAgree, Starting
<1> QED
  BY <1>1, <1>2

\* The invariant holds: it relates the flags, the MAC and DHCP at every step
\* of the start and of the callback.
LEMMA LinkInductive == LinkSpec => []LinkInv
<1>1. LinkInit => LinkInv
  BY LinkInitInvariant
<1>2. LinkInv /\ [LinkNext]_linkVars => LinkInv'
  BY LinkNextInvariant
<1> QED
  BY <1>1, <1>2, PTL DEF LinkSpec

\* Interface, link flag, MAC and DHCP agree whenever the main loop goes on,
\* whatever the PHY did between two reads.
THEOREM Agreement == LinkSpec => []PartsAgree
<1>1. LinkInv => PartsAgree
  BY DEF LinkInv
<1> QED
  BY <1>1, LinkInductive, PTL

\* LwIP_Init brings the board up only after a completed negotiation.
THEOREM UpNegotiated == LinkSpec => UpAsNegotiated
<1>1. LinkInv /\ [LinkNext]_linkVars
        => [pc = "lwip" /\ "UP" \in flags' => ~failed /\ InitStructure \in Modes]_linkVars
  <2> SUFFICES ASSUME LinkInv, LinkNext, pc = "lwip", "UP" \in flags'
               PROVE  ~failed /\ InitStructure \in Modes
    OBVIOUS
  <2>1. flags = {}
    BY DEF LinkInv, FlagsFollow, Starting
  <2>2. flags' # flags => LwipInit
    BY DEF LinkNext, Replug, Settle, WaitLink, WaitNegotiation, Configure,
           BspConfig, LinkUp, Renegotiated, LinkDown
  <2>3. LwipInit
    BY <2>1, <2>2
  <2>4. "INIT" \in EthStatus
    BY <2>3 DEF LwipInit, LinkAtStart
  <2> QED
    BY <2>4 DEF LinkInv, InitTold
<1> QED
  BY <1>1, LinkInductive, PTL DEF LinkSpec, UpAsNegotiated

\* The MAC and the DMA engine are started and stopped with the interface.
THEOREM MacFollows == LinkSpec => MacFollowsInterface
<1>1. LinkInv /\ [LinkNext]_linkVars
        => [~("UP" \in flags <=> "UP" \in flags')
              => (started' <=> "UP" \in flags')]_linkVars
  <2> SUFFICES ASSUME LinkInv, LinkNext, ~("UP" \in flags <=> "UP" \in flags')
               PROVE  started' <=> "UP" \in flags'
    OBVIOUS
  <2>1. LwipInit \/ Renegotiated \/ LinkDown
    BY DEF LinkNext, Replug, Settle, WaitLink, WaitNegotiation, Configure,
           BspConfig, LinkUp
  <2>2. CASE LwipInit
    <3>1. "UP" \notin flags
      BY <2>2 DEF LwipInit, LinkInv, FlagsFollow, Starting
    <3> QED
      BY <2>2, <3>1 DEF LwipInit
  <2>3. CASE Renegotiated
    BY <2>3 DEF Renegotiated
  <2>4. CASE LinkDown
    BY <2>4 DEF LinkDown
  <2> QED
    BY <2>1, <2>2, <2>3, <2>4
<1> QED
  BY <1>1, LinkInductive, PTL DEF LinkSpec, MacFollowsInterface
=============================================================================
