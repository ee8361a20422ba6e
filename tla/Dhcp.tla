-------------------------------- MODULE Dhcp --------------------------------
(***************************************************************************)
(* How the board gets its IP address: the DHCP client of lwIP              *)
(* (src/src/core/ipv4/dhcp.c), the state machine of the port on top of it  *)
(* (LwIP_DHCP_Process_Handle in src/src/netconf.c) and the link callback   *)
(* (ETH_link_callback in src/src/stm32f4x7_eth_bsp.c), with a server and a *)
(* network that loses, delays, reorders and duplicates its replies.        *)
(*                                                                         *)
(* Everything runs on the main loop, so an operation of the client is one  *)
(* step.  Its operators map a state "w" of the interface to the set of the *)
(* states it may lead to: a pbuf may be missing and the server may answer  *)
(* in several ways.  Leases are counted in ticks of the coarse timer, and  *)
(* a transaction id is current (the last one the client chose) or not.     *)
(***************************************************************************)
EXTENDS Integers, FiniteSets

CONSTANTS
  Addr,            \* addresses the server leases
  NoAddr,          \* 0.0.0.0
  Static,          \* IP_ADDR0 .. IP_ADDR3
  NULL,
  Leases,          \* lease times the server gives: [t0, t1, t2] in ticks
  MAX_DHCP_TRIES,
  RequestRetries,  \* 5 in dhcp_timeout: the REQUEST is repeated up to here
  StartMayFail,    \* mem_malloc and udp_new may fail in dhcp_start
  MaxTries,        \* bound: stands for 255, where "tries" stops
  RequestTicks,    \* bound: fine ticks a request waits for its answer
  FinePerCoarse,   \* bound: stands for the 120 fine ticks of a minute
  MaxReplies,      \* bound: replies in flight
  MaxNaks,         \* bound: NAKs
  MaxConflicts     \* bound: hosts that answer the ARP check

Max0(S) == CHOOSE x \in S : \A y \in S : x >= y

MaxLease == Max0({l.t0 : l \in Leases})

NoLease == [t0 |-> 0, t1 |-> 0, t2 |-> 0]

States == {"OFF", "SELECTING", "REQUESTING", "CHECKING", "BOUND", "RENEWING",
           "REBINDING", "BACKING_OFF"}

\* A state in which the address of the interface comes from DHCP.
Supplied == {"BOUND", "RENEWING", "REBINDING"}

Client == [state : States, tries : 0 .. MaxTries,
           request_timeout : 0 .. RequestTicks, xid : BOOLEAN,
           offered : Addr \cup {NoAddr}, lease : Leases \cup {NoLease},
           t0_timeout : 0 .. MaxLease, t2_timeout : 0 .. MaxLease,
           t1_renew_time : 0 .. MaxLease, t2_rebind_time : 0 .. MaxLease,
           lease_used : 0 .. MaxLease, pcb_allocated : BOOLEAN]

ASSUME DhcpAssumption ==
  /\ NoAddr \notin Addr /\ Static \notin Addr \cup {NoAddr}
  /\ NULL \notin Client
  /\ Leases \subseteq [t0 : Nat \ {0}, t1 : Nat \ {0}, t2 : Nat \ {0}]
  /\ Leases # {} /\ IsFiniteSet(Leases)
  /\ \A l \in Leases : l.t1 <= l.t0 /\ l.t2 <= l.t0
  /\ MAX_DHCP_TRIES \in Nat /\ MaxTries \in Nat \ {0, 1}
  /\ RequestRetries \in MAX_DHCP_TRIES .. MaxTries - 1
  /\ StartMayFail \in BOOLEAN
  /\ RequestTicks \in Nat \ {0} /\ FinePerCoarse \in Nat \ {0, 1}
  /\ MaxReplies \in Nat /\ MaxNaks \in Nat /\ MaxConflicts \in Nat

Reply == [type : {"OFFER", "ACK", "NAK"}, addr : Addr \cup {NoAddr},
          lease : Leases \cup {NoLease}, cur : BOOLEAN, aged : BOOLEAN]

VARIABLES
  w,           \* the interface: its address ip, the client dhcp and the
               \* count dhcp_pcb_refcount; the replies in flight, net; and
               \* how long the server holds each address for it, left
  link,        \* NETIF_FLAG_LINK_UP, and NETIF_FLAG_UP, which follows it
  DHCP_state,  \* the state machine of netconf.c
  IPaddress,   \* what LwIP_DHCP_GetAddress returns
  fine,        \* fine ticks since the last coarse tick
  unpolled,    \* fine ticks since LwIP_Periodic_Handle polled DHCP
  naks,        \* NAKs received so far
  conflicts    \* conflicts so far

vars == <<w, link, DHCP_state, IPaddress, fine, unpolled, naks,
          conflicts>>

-----------------------------------------------------------------------------
(* The client.                                                             *)

\* memset(dhcp, 0, sizeof(struct dhcp)).
Cleared == [state |-> "OFF", tries |-> 0, request_timeout |-> 0,
            xid |-> FALSE, offered |-> NoAddr, lease |-> NoLease,
            t0_timeout |-> 0, t2_timeout |-> 0, t1_renew_time |-> 0,
            t2_rebind_time |-> 0, lease_used |-> 0, pcb_allocated |-> FALSE]

\* Mutant of SetState: the state that is left is not compared.
SetStateAlways(d, new_state) ==
  [d EXCEPT !.state = new_state, !.tries = 0, !.request_timeout = 0]

SetState(d, new_state) ==
  IF d.state = new_state THEN d
  ELSE [d EXCEPT !.state = new_state, !.tries = 0, !.request_timeout = 0]

\* What ends every request: one more try, and the time to wait for an answer.
Tried(v, ticks) ==
  [v EXCEPT !.dhcp.tries = IF @ < MaxTries THEN @ + 1 ELSE @,
            !.dhcp.request_timeout = ticks]

\* dhcp_create_msg, for a message that is not a REQUEST: the first try has a
\* new transaction id, and the replies in flight carry an older one.
CreateMsg(v) ==
  IF v.dhcp.tries > 0 THEN [v EXCEPT !.dhcp.xid = TRUE]
  ELSE [v EXCEPT !.dhcp.xid = TRUE,
                 !.net = {[m EXCEPT !.cur = FALSE] : m \in @}]

Message(type, a, l) ==
  [type |-> type, addr |-> a, lease |-> l, cur |-> TRUE, aged |-> FALSE]

\* The server does not answer, or sends reply r.
Answers(v, replies) ==
  {v} \cup {[v EXCEPT !.net = @ \cup {r}] :
              r \in {r \in replies : Cardinality(v.net) < MaxReplies}}

\* The replies to a REQUEST for address a; none acknowledges 0.0.0.0.  The
\* address is the client's for as long as an ACK says, from the time of the
\* request on; the server keeps the longest lease it has given.
Requested(v, a) ==
  LET nak    == Message("NAK", NoAddr, NoLease)
      ack(l) == Message("ACK", a, l)
  IN  Answers(v, IF naks < MaxNaks THEN {nak} ELSE {})
        \cup UNION {Answers([v EXCEPT !.left[a] = Max0({@, l.t0})], {ack(l)}) :
                      l \in {l \in Leases : a \in Addr}}

\* dhcp_discover.
Discover(v) ==
  LET selecting == [v EXCEPT !.dhcp = SetState([@ EXCEPT !.offered = NoAddr],
                                               "SELECTING")]
      offers == {Message("OFFER", a, NoLease) : a \in Addr}
  IN  {Tried(u, RequestTicks) :
         u \in {selecting} \cup Answers(CreateMsg(selecting), offers)}

\* dhcp_select, dhcp_renew and dhcp_rebind.
Request(v, new_state, a) ==
  {Tried(u, RequestTicks) :
     u \in Requested([v EXCEPT !.dhcp = SetState(@, new_state)], a)}

Select(v) == Request(v, "REQUESTING", v.dhcp.offered)
Renew(v)  == Request(v, "RENEWING", v.ip)
Rebind(v) == Request(v, "REBINDING", v.ip)

\* dhcp_check: the ARP request.
Check(v) == Tried([v EXCEPT !.dhcp = SetState(@, "CHECKING")], 1)

\* Mutant of Bind: the lease goes on from where the last one was.
BindUsed(v) ==
  [v EXCEPT !.dhcp = SetState([@ EXCEPT !.t0_timeout = v.dhcp.lease.t0,
                                        !.t1_renew_time = v.dhcp.lease.t1,
                                        !.t2_timeout = v.dhcp.lease.t2,
                                        !.t2_rebind_time = v.dhcp.lease.t2],
                              "BOUND"),
            !.ip = v.dhcp.offered]

\* dhcp_bind.
Bind(v) ==
  [v EXCEPT !.dhcp = SetState([@ EXCEPT !.lease_used = 0,
                                        !.t0_timeout = v.dhcp.lease.t0,
                                        !.t1_renew_time = v.dhcp.lease.t1,
                                        !.t2_timeout = v.dhcp.lease.t2,
                                        !.t2_rebind_time = v.dhcp.lease.t2],
                              "BOUND"),
            !.ip = v.dhcp.offered]

\* dhcp_decline.
Decline(v) ==
  LET off == [v EXCEPT !.dhcp = SetState(@, "BACKING_OFF")]
  IN  {Tried(u, RequestTicks) : u \in {off, CreateMsg(off)}}

\* Mutant of PcbReleased: the reference is not given back.
PcbKept(v) == [v EXCEPT !.dhcp.pcb_allocated = FALSE]

\* The client gives back its reference to the UDP PCB.
PcbReleased(v) ==
  IF v.dhcp.pcb_allocated
    THEN [v EXCEPT !.dhcp.pcb_allocated = FALSE, !.dhcp_pcb_refcount = @ - 1]
    ELSE v

\* Mutant of Stop: the state is left as it is.
StopNotOff(v) ==
  IF v.dhcp = NULL \/ v.dhcp.state = "OFF" THEN {v}
  ELSE {PcbReleased([v EXCEPT !.ip = NoAddr])}

\* dhcp_release_and_stop.
Stop(v) ==
  IF v.dhcp = NULL \/ v.dhcp.state = "OFF" THEN {v}
  ELSE LET cleaned == [v EXCEPT !.dhcp =
                         [@ EXCEPT !.offered = NoAddr, !.lease = NoLease,
                                   !.t1_renew_time = 0, !.t2_rebind_time = 0,
                                   !.lease_used = 0, !.t0_timeout = 0]]
           released == IF v.dhcp.state \in Supplied
                         THEN {cleaned, CreateMsg(cleaned)} ELSE {cleaned}
       IN  {PcbReleased([u EXCEPT !.ip = NoAddr, !.dhcp = SetState(@, "OFF")]) :
              u \in released}

\* dhcp_start; the interface and its link are up.
Start(v) ==
  LET noPcb == [(IF v.dhcp = NULL THEN v ELSE PcbReleased(v))
                  EXCEPT !.dhcp = Cleared]
  IN  Discover([noPcb EXCEPT !.dhcp.pcb_allocated = TRUE,
                             !.dhcp_pcb_refcount = @ + 1])
      \cup {u \in {noPcb} : StartMayFail /\ u.dhcp_pcb_refcount = 0}
      \cup {u \in {v} : StartMayFail /\ v.dhcp = NULL}

Restart(v) == UNION {Start(u) : u \in Stop(v)}

\* Mutant of Timeout: one ARP request is enough.
TimeoutOneProbe(v) ==
  CASE v.dhcp.state \in {"BACKING_OFF", "SELECTING"} -> Discover(v)
    [] v.dhcp.state = "REQUESTING" -> Select(v)
    [] v.dhcp.state = "CHECKING" -> {Bind(v)}
    [] OTHER -> {v}

\* dhcp_timeout.
Timeout(v) ==
  CASE v.dhcp.state \in {"BACKING_OFF", "SELECTING"} -> Discover(v)
    [] v.dhcp.state = "REQUESTING" ->
         IF v.dhcp.tries <= RequestRetries THEN Select(v) ELSE Restart(v)
    [] v.dhcp.state = "CHECKING" ->
         IF v.dhcp.tries <= 1 THEN {Check(v)} ELSE {Bind(v)}
    [] OTHER -> {v}

\* dhcp_t1_timeout, in a state in which the timer can run out: renew, and
\* again after half of the time that is left until t2, if it is a tick.
T1Timeout(v) ==
  LET again == (v.dhcp.t2_timeout - v.dhcp.lease_used) \div 2
  IN  IF v.dhcp.state \notin {"REQUESTING", "BOUND", "RENEWING"} THEN {v}
      ELSE {[u EXCEPT !.dhcp.t1_renew_time = IF again >= 1 THEN again ELSE @] :
              u \in Renew(v)}

\* dhcp_t2_timeout.
T2Timeout(v) ==
  LET again == (v.dhcp.t0_timeout - v.dhcp.lease_used) \div 2
  IN  IF v.dhcp.state \notin {"REQUESTING", "BOUND", "RENEWING", "REBINDING"}
        THEN {v}
      ELSE {[u EXCEPT !.dhcp.t2_rebind_time = IF again >= 1 THEN again ELSE @] :
              u \in Rebind(v)}

\* dhcp_coarse_tmr, for a client that is not off: the first of the lease, t2
\* and t1 that runs out; those before it count on.
CoarseTimers(v) ==
  LET used == IF v.dhcp.t0_timeout = 0 THEN v
              ELSE [v EXCEPT !.dhcp.lease_used = @ + 1]
      t2   == IF v.dhcp.t2_rebind_time = 0 THEN used
              ELSE [used EXCEPT !.dhcp.t2_rebind_time = @ - 1]
      t1   == IF v.dhcp.t1_renew_time = 0 THEN t2
              ELSE [t2 EXCEPT !.dhcp.t1_renew_time = @ - 1]
  IN  IF used # v /\ used.dhcp.lease_used = used.dhcp.t0_timeout THEN Restart(used)
      ELSE IF v.dhcp.t2_rebind_time = 1 THEN T2Timeout(t2)
      ELSE IF v.dhcp.t1_renew_time = 1 THEN T1Timeout(t1)
      ELSE {t1}

\* dhcp_recv, for a reply that matches the transaction.  An ACK that was
\* asked for is checked by ARP (DHCP_DOES_ARP_CHECK) before it is used.
Received(v, m) ==
  LET acked == [v EXCEPT !.dhcp.offered = m.addr, !.dhcp.lease = m.lease]
  IN  CASE m.type = "ACK" /\ v.dhcp.state = "REQUESTING" -> {Check(acked)}
        [] m.type = "ACK" /\ v.dhcp.state \in {"REBINDING", "RENEWING"} -> {Bind(acked)}
        [] m.type = "NAK" /\ v.dhcp.state \in {"REQUESTING", "REBINDING", "RENEWING"} ->
             Discover([v EXCEPT !.dhcp = SetState(@, "BACKING_OFF"), !.ip = NoAddr])
        [] m.type = "OFFER" /\ v.dhcp.state = "SELECTING" ->
             Select([v EXCEPT !.dhcp.request_timeout = 0, !.dhcp.offered = m.addr])
        [] OTHER -> {v}

-----------------------------------------------------------------------------
Init ==
  /\ w = [ip |-> NoAddr, dhcp |-> NULL, dhcp_pcb_refcount |-> 0, net |-> {},
          left |-> [a \in Addr |-> 0]]
  /\ link \in BOOLEAN
  /\ DHCP_state = IF link THEN "START" ELSE "LINK_DOWN"
  /\ IPaddress = NoAddr
  /\ fine = 0
  /\ unpolled = 0
  /\ naks = 0
  /\ conflicts = 0

\* dhcp_fine_tmr, every 500 ms.
FineTmr ==
  /\ fine < FinePerCoarse
  /\ unpolled < 2
  /\ fine' = fine + 1
  /\ unpolled' = unpolled + 1
  /\ IF w.dhcp = NULL \/ w.dhcp.request_timeout = 0 THEN UNCHANGED w
     ELSE LET v == [w EXCEPT !.dhcp.request_timeout = @ - 1]
          IN  w' \in IF v.dhcp.request_timeout = 0 THEN Timeout(v) ELSE {v}
  /\ UNCHANGED <<link, DHCP_state, IPaddress, naks, conflicts>>

\* The minute is over for the server and for what is in flight: a reply that
\* was sent in the minute before is lost.
MinuteOver(v) ==
  [v EXCEPT !.net = {[m EXCEPT !.aged = TRUE] : m \in {m \in @ : ~m.aged}},
            !.left = [a \in Addr |-> IF @[a] > -MaxLease THEN @[a] - 1 ELSE @[a]]]

\* dhcp_coarse_tmr, every minute.
CoarseTmr ==
  /\ fine = FinePerCoarse
  /\ fine' = 0
  /\ w' \in IF w.dhcp = NULL \/ w.dhcp.state = "OFF" THEN {MinuteOver(w)}
            ELSE CoarseTimers(MinuteOver(w))
  /\ UNCHANGED <<link, DHCP_state, IPaddress, unpolled, naks, conflicts>>

\* A reply arrives, perhaps not for the last time: dhcp_recv.
Recv(m) ==
  /\ link
  /\ m \in w.net
  /\ \E net \in {w.net, w.net \ {m}} :
       LET v == [w EXCEPT !.net = net]
       IN  IF w.dhcp # NULL /\ w.dhcp.pcb_allocated /\ m.cur /\ w.dhcp.xid
             THEN w' \in Received(v, m)
             ELSE w' = v
  /\ naks' = IF m.type = "NAK" THEN naks + 1 ELSE naks
  /\ naks' <= MaxNaks
  /\ UNCHANGED <<link, DHCP_state, IPaddress, fine, unpolled, conflicts>>

\* A reply is lost.
Lose(m) ==
  /\ m \in w.net
  /\ w' = [w EXCEPT !.net = @ \ {m}]
  /\ UNCHANGED <<link, DHCP_state, IPaddress, fine, unpolled, naks, conflicts>>

\* dhcp_arp_reply: a host has the address the client checks.
ArpReply ==
  /\ link
  /\ w.dhcp # NULL
  /\ w.dhcp.state = "CHECKING"
  /\ conflicts < MaxConflicts
  /\ conflicts' = conflicts + 1
  /\ w' \in Decline(w)
  /\ UNCHANGED <<link, DHCP_state, IPaddress, fine, unpolled, naks>>

-----------------------------------------------------------------------------
(* netconf.c and the link callback.                                        *)

\* LwIP_DHCP_Process_Handle in DHCP_START; the result of dhcp_start is not
\* looked at.
PollStart ==
  /\ DHCP_state = "START"
  /\ DHCP_state' = "WAIT_ADDRESS"
  /\ w' \in Start(w)
  /\ IPaddress' = NoAddr
  /\ unpolled' = 0
  /\ UNCHANGED <<link, fine, naks, conflicts>>

\* ... in DHCP_WAIT_ADDRESS, when there is an address ...
PollAssigned ==
  /\ DHCP_state = "WAIT_ADDRESS"
  /\ w.ip # NoAddr
  /\ IPaddress' = w.ip
  /\ DHCP_state' = "ADDRESS_ASSIGNED"
  /\ unpolled' = 0
  /\ UNCHANGED <<w, link, fine, naks, conflicts>>

\* dhcp->tries; without a client, what is at that offset of address 0.
TriesSeen == IF w.dhcp = NULL THEN 0 .. MaxTries ELSE {w.dhcp.tries}

\* Mutant of StaticAddress: dhcp_stop comes last.
StaticAddressFirst == Stop([w EXCEPT !.ip = Static])

\* dhcp_stop, and then the static address.
StaticAddress == {[u EXCEPT !.ip = Static] : u \in Stop(w)}

\* ... and when there is none.
PollNoAddress ==
  /\ DHCP_state = "WAIT_ADDRESS"
  /\ w.ip = NoAddr
  /\ IPaddress' = NoAddr
  /\ \E tries \in TriesSeen :
       IF tries > MAX_DHCP_TRIES
         THEN /\ DHCP_state' = "TIMEOUT"
              /\ w' \in StaticAddress
         ELSE UNCHANGED <<DHCP_state, w>>
  /\ unpolled' = 0
  /\ UNCHANGED <<link, fine, naks, conflicts>>

\* LwIP_Periodic_Handle has nothing to do for DHCP in the other states.
PollIdle ==
  /\ DHCP_state \in {"ADDRESS_ASSIGNED", "TIMEOUT", "LINK_DOWN"}
  /\ unpolled' = 0
  /\ UNCHANGED <<w, link, DHCP_state, IPaddress, fine, naks, conflicts>>

Poll == PollStart \/ PollAssigned \/ PollNoAddress \/ PollIdle

\* The application tells of the link (netif_set_link_down), and the link
\* callback stops the client.
LinkDown ==
  /\ link
  /\ link' = FALSE
  /\ DHCP_state' = "LINK_DOWN"
  /\ w' \in Stop(w)
  /\ UNCHANGED <<IPaddress, fine, unpolled, naks, conflicts>>

\* netif_set_link_up and the link callback: dhcp_network_changed has nothing
\* to do, for the client is off (AddressHasSource); DHCP is to start again.
LinkUp ==
  /\ ~link
  /\ link' = TRUE
  /\ DHCP_state' = "START"
  /\ w' = [w EXCEPT !.ip = NoAddr]
  /\ UNCHANGED <<IPaddress, fine, unpolled, naks, conflicts>>

Next == \/ FineTmr \/ CoarseTmr
        \/ \E m \in w.net : Recv(m) \/ Lose(m)
        \/ ArpReply
        \/ PollStart \/ PollAssigned \/ PollNoAddress \/ PollIdle
        \/ LinkDown \/ LinkUp

Spec == Init /\ [][Next]_vars

\* The main loop comes round and time passes.
FairSpec == /\ Spec
            /\ WF_vars(FineTmr)
            /\ WF_vars(CoarseTmr)
            /\ WF_vars(Poll)

-----------------------------------------------------------------------------
(* Properties.                                                             *)

TypeOK ==
  /\ w.ip \in Addr \cup {NoAddr, Static}
  /\ w.dhcp \in Client \cup {NULL}
  /\ w.dhcp_pcb_refcount \in {0, 1}
  /\ w.net \subseteq Reply
  /\ w.left \in [Addr -> -MaxLease .. MaxLease]
  /\ link \in BOOLEAN
  /\ DHCP_state \in {"START", "WAIT_ADDRESS", "ADDRESS_ASSIGNED", "TIMEOUT",
                     "LINK_DOWN"}
  /\ IPaddress \in Addr \cup {NoAddr, Static}
  /\ fine \in 0 .. FinePerCoarse
  /\ unpolled \in 0 .. 2
  /\ naks \in 0 .. MaxNaks
  /\ conflicts \in 0 .. MaxConflicts

Running == w.dhcp # NULL /\ w.dhcp.state # "OFF"

\* The address of the interface has one source.  It uses none that the client
\* does not hold, whatever way the lease ends; once the static one is taken,
\* no late reply overwrites it and the client does not run beside it; and
\* without a link nothing of the client runs, so that dhcp_network_changed
\* never finds it in another state.
AddressHasSource ==
  /\ w.ip \in Addr => Running /\ w.dhcp.state \in Supplied
  /\ DHCP_state = "TIMEOUT" => w.ip = Static /\ ~Running
  /\ w.ip = Static => DHCP_state \in {"TIMEOUT", "LINK_DOWN"}
  /\ ~link => ~Running /\ w.ip \notin Addr

\* "Check if DHCP supplied netif->ip_addr" (dhcp_supplied_address): in the
\* states that say so, the interface has an address.
SuppliedHasAddress == Running /\ w.dhcp.state \in Supplied => w.ip \in Addr

\* So it is until a NAK comes, whatever else happens: no retry, expiry or
\* restart leaves the client in such a state without an address.
SuppliedUnlessNak == naks = 0 => SuppliedHasAddress

\* The client counts its leases no slower than the server: it gives up an
\* address two minutes after the lease at the latest, one for the delay of
\* the ACK and one for the ARP check.
LeaseHonoured == w.ip \in Addr => w.left[w.ip] >= -1

\* The UDP PCB is held exactly while the client runs: no restart of the
\* client, by itself or by the link, loses or leaks it.
PcbHeld ==
  /\ TypeOK
  /\ w.dhcp_pcb_refcount = IF w.dhcp # NULL /\ w.dhcp.pcb_allocated THEN 1 ELSE 0
  /\ Running <=> w.dhcp # NULL /\ w.dhcp.pcb_allocated

\* Unless a NAK has come, an interface without an address of the server's is
\* given none that was not probed by ARP, twice and without an answer.
Probed ==
  naks = 0 /\ w.ip \notin Addr /\ w'.ip \in Addr =>
    w.dhcp.state = "CHECKING" /\ w.dhcp.tries = 2 /\ w'.ip = w.dhcp.offered

ProbedFirst == [][Probed]_vars

\* The board ends up with an address, from the server or the static one,
\* unless the link goes down or dhcp_start fails, and provided that NAKs and
\* conflicts come to an end.
Settles == DHCP_state \in {"START", "WAIT_ADDRESS"}
             ~> \/ DHCP_state \in {"ADDRESS_ASSIGNED", "TIMEOUT", "LINK_DOWN"}
                \/ DHCP_state = "WAIT_ADDRESS" /\ ~Running

\* "IP address should be set to 0 every time we want to assign a new DHCP
\* address" (netconf.c).
ZeroWhileSeeking ==
  Running /\ w.dhcp.state \notin Supplied => IPaddress = NoAddr
=============================================================================
