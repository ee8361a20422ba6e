------------------------------- MODULE Etharp -------------------------------
(***************************************************************************)
(* The ARP cache (etharp.c) with ARP_QUEUEING off: packets wait, one to an *)
(* entry, for the hardware address of their next hop; entries age, are     *)
(* asked for again, recycled for other addresses and dropped with the      *)
(* interface.  ARP messages come from the network at any time and in any   *)
(* order, answers to requests that were sent or not; a request may fail    *)
(* for want of memory.  One interface, no static entries (the default);    *)
(* broadcast and multicast packets do not touch the cache.                 *)
(***************************************************************************)
EXTENDS Integers, FiniteSetsExt

CONSTANTS
  Ips,             \* addresses of next hops: hosts and the gateway
  Hws,             \* hardware addresses
  Packets,         \* Packets[p] is the next hop of p
  ARP_TABLE_SIZE,
  ARP_MAXAGE,
  ARP_MAXPENDING,
  RequestAge,      \* ARP_AGE_REREQUEST_USED_UNICAST, the lower of the two
  None

Slots == 0..(ARP_TABLE_SIZE - 1)

ASSUME EtharpAssumption ==
  /\ ARP_TABLE_SIZE \in Nat \ {0}
  /\ {ARP_MAXAGE, ARP_MAXPENDING, RequestAge} \subseteq Nat \ {0}
  /\ ARP_MAXPENDING <= ARP_MAXAGE /\ RequestAge < ARP_MAXAGE
  /\ Packets \in [DOMAIN Packets -> Ips]
  /\ None \notin Ips \cup Hws \cup DOMAIN Packets
  /\ None \notin [pkt : DOMAIN Packets, hw : Hws]

VARIABLES
  arp_table,       \* the entries, by slot
  cached,          \* etharp_cached_entry, a slot
  refs,            \* packets the cache holds a reference to
  out,             \* the packet this step has given to ethernet_output
  claim            \* the hardware address last heard of an address: a
                   \* history variable

vars == <<arp_table, cached, refs, out, claim>>

Stable == {"STABLE", "REREQUESTING_1", "REREQUESTING_2"}

EmptyEntry ==
  [state |-> "EMPTY", ip |-> None, hw |-> None, ctime |-> 0, q |-> None]

Init ==
  /\ arp_table = [i \in Slots |-> EmptyEntry]
  /\ cached = 0
  /\ refs = {}
  /\ out = None
  /\ claim = [a \in Ips |-> None]

-----------------------------------------------------------------------------
(* Finding, recycling and freeing entries.                                 *)

InState(table, states) == {i \in Slots : table[i].state \in states}

Matching(table, a) ==
  {i \in InState(table, Stable \cup {"PENDING"}) : table[i].ip = a}

\* The sweep keeps the last of the oldest entries it meets.
OldestOf(table, S) ==
  CHOOSE i \in S : \A j \in S :
    \/ table[j].ctime < table[i].ctime
    \/ table[j].ctime = table[i].ctime /\ j <= i

\* Mutant of Recycled: packets that wait are dropped before mappings are.
RecycledWaiting(table) ==
  LET empty   == InState(table, {"EMPTY"})
      pending == InState(table, {"PENDING"})
  IN  IF empty # {} THEN Min(empty)
      ELSE IF pending # {} THEN OldestOf(table, pending)
      ELSE OldestOf(table, Slots)

\* Part b) of etharp_find_entry: the least destructive entry to recycle.
Recycled(table) ==
  LET empty  == InState(table, {"EMPTY"})
      stable == InState(table, Stable)
      idle   == {i \in InState(table, {"PENDING"}) : table[i].q = None}
  IN  IF empty # {} THEN Min(empty)
      ELSE IF stable # {} THEN OldestOf(table, stable)
      ELSE IF idle # {} THEN OldestOf(table, idle)
      ELSE OldestOf(table, Slots)

\* etharp_find_entry with ETHARP_FLAG_TRY_HARD: the slot for a, ...
Slot(table, a) ==
  IF Matching(table, a) # {} THEN Min(Matching(table, a)) ELSE Recycled(table)

\* ... and the table then: a new entry is empty, but for its address.
Found(table, a) ==
  IF Matching(table, a) # {} THEN table
  ELSE [table EXCEPT ![Recycled(table)] = [EmptyEntry EXCEPT !.ip = a]]

\* The packet that etharp_free_entry lets go of for it.
Released(table, a) ==
  IF Matching(table, a) # {} THEN {} ELSE {table[Recycled(table)].q}

-----------------------------------------------------------------------------
(* Output.                                                                 *)

\* Mutant of CachedHit: the address of the cached entry is not compared.
CachedHitAny(a) == arp_table[cached].state \in Stable

CachedHit(a) ==
  /\ arp_table[cached].state \in Stable
  /\ arp_table[cached].ip = a

\* The stable entry etharp_output finds: the cached one, or the first.
StableSlots(a) ==
  IF CachedHit(a) THEN {cached}
  ELSE LET S == {i \in InState(arp_table, Stable) : arp_table[i].ip = a}
       IN  IF S = {} THEN {} ELSE {Min(S)}

\* etharp_output_to_arp_index: p goes out; an entry about to expire is asked
\* for again, once per two timer ticks, if the request finds memory.
OutputToIndex(p, i) ==
  /\ \/ arp_table' = arp_table
     \/ /\ arp_table[i].state = "STABLE"
        /\ arp_table[i].ctime >= RequestAge
        /\ arp_table' = [arp_table EXCEPT ![i].state = "REREQUESTING_1"]
  /\ cached' = i
  /\ out' = [pkt |-> p, hw |-> arp_table[i].hw]
  /\ UNCHANGED <<refs, claim>>

\* Mutant of Pending: a request for an address that is pending starts its
\* time over.
PendingAgain(table, a) ==
  LET i == Slot(arp_table, a)
  IN  IF table[i].state \in Stable THEN table
      ELSE [table EXCEPT ![i].state = "PENDING", ![i].ctime = 0]

\* The entry etharp_query has found or made, pending if it is not stable.
Pending(table, a) ==
  LET i == Slot(arp_table, a)
  IN  [table EXCEPT ![i].state = IF @ = "EMPTY" THEN "PENDING" ELSE @]

\* etharp_query with a packet, when no stable entry was found: p is queued,
\* in the place of the one that waits there, unless it cannot be copied.
QueueOn(p) ==
  LET a == Packets[p]
      i == Slot(arp_table, a)
      t == Pending(Found(arp_table, a), a)
      r == refs \ Released(arp_table, a)
  IN  /\ \/ /\ arp_table' = [t EXCEPT ![i].q = p]
            /\ refs' = (r \ {t[i].q}) \cup {p}
         \/ /\ arp_table' = t
            /\ refs' = r
      /\ out' = None
      /\ UNCHANGED <<cached, claim>>

\* etharp_output for a unicast packet, by its next hop.
EtharpOutput(p) ==
  /\ p \notin refs
  /\ LET S == StableSlots(Packets[p])
     IN  IF S = {} THEN QueueOn(p) ELSE \E i \in S : OutputToIndex(p, i)

\* etharp_query without a packet, as the DHCP client probes an address.
EtharpQuery(a) ==
  /\ arp_table' = Pending(Found(arp_table, a), a)
  /\ refs' = refs \ Released(arp_table, a)
  /\ out' = None
  /\ UNCHANGED <<cached, claim>>

-----------------------------------------------------------------------------
(* Input, timer and interface.                                             *)

\* Mutant of Resolved: the packet goes out and stays on the entry.
ResolvedKeeping(table, i, h) ==
  [table EXCEPT ![i] = [state |-> "STABLE", ip |-> @.ip, hw |-> h,
                        ctime |-> 0, q |-> @.q]]

\* The entry of a sender: stable, young, and with no packet any more.
Resolved(table, i, h) ==
  [table EXCEPT ![i] = [state |-> "STABLE", ip |-> @.ip, hw |-> h,
                        ctime |-> 0, q |-> None]]

\* etharp_input: an ARP message from a, at hardware address h, updates the
\* entry of a; one that is for us makes an entry if there is none.  The
\* packet that waits there goes out.
EtharpInput(a, h, for_us) ==
  LET i == Slot(arp_table, a)
      t == Found(arp_table, a)
  IN  /\ IF for_us \/ Matching(arp_table, a) # {}
         THEN /\ arp_table' = Resolved(t, i, h)
              /\ refs' = refs \ (Released(arp_table, a) \cup {t[i].q})
              /\ out' = IF t[i].q = None THEN None
                        ELSE [pkt |-> t[i].q, hw |-> h]
         ELSE UNCHANGED <<arp_table, refs>> /\ out' = None
      /\ claim' = [claim EXCEPT ![a] = h]
      /\ UNCHANGED cached

\* What a tick makes of an entry that does not expire with it.
Aged(e) ==
  [e EXCEPT !.ctime = @ + 1,
            !.state = CASE @ = "REREQUESTING_1" -> "REREQUESTING_2"
                        [] @ = "REREQUESTING_2" -> "STABLE"
                        [] OTHER -> @]

\* etharp_tmr, once a second; what is still pending is asked for again.
EtharpTmr ==
  LET used    == InState(arp_table, Stable \cup {"PENDING"})
      expired == {i \in used :
                    \/ arp_table[i].ctime + 1 >= ARP_MAXAGE
                    \/ /\ arp_table[i].state = "PENDING"
                       /\ arp_table[i].ctime + 1 >= ARP_MAXPENDING}
  IN  /\ arp_table' = [i \in Slots |->
                         IF i \in expired THEN EmptyEntry
                         ELSE IF i \in used THEN Aged(arp_table[i])
                         ELSE arp_table[i]]
      /\ refs' = refs \ {arp_table[i].q : i \in expired}
      /\ out' = None
      /\ UNCHANGED <<cached, claim>>

\* netif_set_down and netif_remove call etharp_cleanup_netif.
EtharpCleanupNetif ==
  /\ arp_table' = [i \in Slots |-> EmptyEntry]
  /\ refs' = refs \ {arp_table[i].q : i \in Slots}
  /\ out' = None
  /\ UNCHANGED <<cached, claim>>

Next ==
  \/ \E p \in DOMAIN Packets : EtharpOutput(p)
  \/ \E a \in Ips : EtharpQuery(a)
  \/ \E a \in Ips, h \in Hws, for_us \in BOOLEAN : EtharpInput(a, h, for_us)
  \/ EtharpTmr
  \/ EtharpCleanupNetif

Spec == Init /\ [][Next]_vars /\ WF_vars(EtharpTmr)

-----------------------------------------------------------------------------
(* Properties.                                                             *)

TypeOK ==
  /\ arp_table \in [Slots ->
       [state : Stable \cup {"EMPTY", "PENDING"}, ip : Ips \cup {None},
        hw : Hws \cup {None}, ctime : 0..(ARP_MAXAGE - 1),
        q : DOMAIN Packets \cup {None}]]
  /\ cached \in Slots
  /\ refs \subseteq DOMAIN Packets
  /\ out \in [pkt : DOMAIN Packets, hw : Hws] \cup {None}
  /\ claim \in [Ips -> Hws \cup {None}]

\* An address has one entry, however entries were recycled.
OneEntryEach ==
  \A i, j \in InState(arp_table, Stable \cup {"PENDING"}) :
    arp_table[i].ip = arp_table[j].ip => i = j

\* Packets wait for an answer only ("no queued packets should exist on
\* stable entries"), on the entry of their own next hop, for a while only.
QueuedPending ==
  \A i \in Slots :
    /\ arp_table[i].q # None =>
         /\ arp_table[i].state = "PENDING"
         /\ Packets[arp_table[i].q] = arp_table[i].ip
    /\ arp_table[i].state = "PENDING" => arp_table[i].ctime < ARP_MAXPENDING

\* The cache holds the references of the packets that wait, each once: none
\* is sent and kept, or dropped and kept.
NoLeak ==
  /\ refs = {arp_table[i].q : i \in Slots} \ {None}
  /\ \A i, j \in Slots :
       arp_table[i].q = arp_table[j].q /\ arp_table[i].q # None => i = j

\* The cache as a whole, through recycling, expiry, displacement of packets
\* and answers nobody asked for.
CacheSound == TypeOK /\ OneEntryEach /\ QueuedPending /\ NoLeak

\* A packet goes to the hardware address last heard of its next hop, by the
\* index remembered in etharp_cached_entry or by any other way: never by an
\* entry that has meanwhile been recycled.
RightAddress == out # None => out.hw = claim[Packets[out.pkt]]

\* A waiting packet goes out, makes place for a newer one to the same next
\* hop, or waits out its time; but for the interface going down it is lost
\* only when all entries wait with packets, none of them longer.
Justified(i) ==
  LET e == arp_table[i] IN
    e.q \in refs \ refs' =>
      \/ out' # None /\ out'.pkt = e.q
      \/ \E p \in refs' \ refs : Packets[p] = e.ip
      \/ e.ctime + 1 = ARP_MAXPENDING /\ EtharpTmr
      \/ EtharpCleanupNetif
      \/ \A j \in Slots : /\ arp_table[j].q # None
                          /\ arp_table[j].ctime <= e.ctime

LossJustified == [][\A i \in Slots : Justified(i)]_vars

\* No packet waits for ever for a host that never answers, however often its
\* address is asked for: its memory comes back.
NoPacketStays ==
  \A p \in DOMAIN Packets : p \in refs ~> p \notin refs
=============================================================================
