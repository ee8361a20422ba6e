----------------------------- MODULE DhcpProofs ------------------------------
(***************************************************************************)
(* Proofs about Dhcp, for every set of addresses and of lease times, and   *)
(* every bound on retries, replies, NAKs and conflicts.                    *)
(***************************************************************************)
EXTENDS Dhcp, FiniteSetTheorems, TLAPS

-----------------------------------------------------------------------------
(* The inductive invariant, in terms of a state v of the interface.        *)

Iface == [ip : Addr \cup {NoAddr, Static}, dhcp : Client \cup {NULL},
          dhcp_pcb_refcount : {0, 1}, net : SUBSET Reply,
          left : [Addr -> -MaxLease .. MaxLease]]

Off(v) == v.dhcp = NULL \/ v.dhcp.state = "OFF"

\* The replies in flight are about addresses of the server's, and an
\* acknowledged lease began a minute ago at the most.
Valid(m, left) ==
  /\ m.type # "NAK" => m.addr \in Addr
  /\ m.type = "ACK" =>
       /\ m.lease \in Leases
       /\ left[m.addr] >= m.lease.t0 - (IF m.aged THEN 1 ELSE 0)

Replies(v) == \A m \in v.net : Valid(m, v.left)

\* The client holds a reference to the PCB exactly while it runs.
Held(v) ==
  /\ v.dhcp_pcb_refcount =
       IF v.dhcp # NULL /\ v.dhcp.pcb_allocated THEN 1 ELSE 0
  /\ v.dhcp # NULL => (v.dhcp.pcb_allocated <=> v.dhcp.state # "OFF")

\* A lease that runs is not over.
Counting(v) ==
  v.dhcp # NULL /\ v.dhcp.t0_timeout # 0 =>
    v.dhcp.lease_used < v.dhcp.t0_timeout

Sound(v) == v \in Iface /\ Held(v) /\ Counting(v) /\ Replies(v)

\* The address is the client's, which counts its lease two ticks later than
\* the server at the most.
Leased(v) ==
  v.ip \in Addr =>
    /\ v.dhcp # NULL
    /\ v.dhcp.state \in Supplied
    /\ v.dhcp.t0_timeout # 0
    /\ v.left[v.ip] >= v.dhcp.t0_timeout - v.dhcp.lease_used - 2

\* An address that is being checked has been acknowledged a minute ago at the
\* most when the check begins; f fine ticks of the next one have passed.
Probing(v, f) ==
  /\ v.dhcp.offered \in Addr
  /\ v.dhcp.lease \in Leases
  /\ v.dhcp.tries \in {1, 2}
  /\ \/ v.left[v.dhcp.offered] >= v.dhcp.lease.t0 - 1
     \/ /\ v.left[v.dhcp.offered] >= v.dhcp.lease.t0 - 2
        /\ f <= v.dhcp.tries - 1

Checked(v, f) ==
  v.dhcp # NULL /\ v.dhcp.state = "CHECKING" =>
    v.dhcp.request_timeout = 1 /\ Probing(v, f)

\* As long as no NAK has come, the lease timers run in the states they are
\* for only, and in those there is an address.
Timed(v) ==
  v.dhcp # NULL =>
    /\ v.dhcp.state \notin Supplied =>
         v.dhcp.t1_renew_time = 0 /\ v.dhcp.t2_rebind_time = 0
    /\ v.dhcp.state \in Supplied => v.ip \in Addr

\* The state machine of netconf.c and the link.
Ported ==
  /\ link <=> DHCP_state # "LINK_DOWN"
  /\ DHCP_state \in {"START", "TIMEOUT", "LINK_DOWN"} => Off(w) /\ w.ip \notin Addr
  /\ DHCP_state = "START" => w.ip = NoAddr
  /\ DHCP_state = "TIMEOUT" => w.ip = Static
  /\ w.ip = Static => DHCP_state \in {"TIMEOUT", "LINK_DOWN"}

IInv ==
  /\ TypeOK
  /\ Sound(w)
  /\ Leased(w)
  /\ Checked(w, fine)
  /\ naks = 0 => Timed(w)
  /\ Ported

-----------------------------------------------------------------------------
(* The operators of the model.                                             *)

\* A finite set of numbers has a greatest one.
LEMMA GreatestElement ==
  ASSUME NEW S \in SUBSET Int, IsFiniteSet(S), S # {}
  PROVE  Max0(S) \in S /\ \A y \in S : Max0(S) >= y
<1> DEFINE Above(x) == {y \in S : y > x}
           T == {Above(x) : x \in S}
<1>1. IsWellFoundedOn(StrictSubsetOrdering(S), SUBSET S)
  BY FS_StrictSubsetOrderingWellFounded, FS_FiniteSubsetsOfFinite
<1>2. T \subseteq SUBSET S /\ T # {}
  OBVIOUS
<1>3. PICK B \in T : \A C \in T : ~ (<<C, B>> \in StrictSubsetOrdering(S))
  <2> HIDE DEF T
  <2> QED
    BY <1>1, <1>2, WFMin
<1>4. PICK x \in S : B = Above(x)
  BY <1>3
<1>5. ASSUME NEW y \in S, y > x PROVE FALSE
  <2>1. Above(y) \subseteq Above(x)
    <3>1. ASSUME NEW z \in S, z > y PROVE z > x
      BY <1>5, <3>1
    <3> QED
      BY <3>1
  <2>2. y \in Above(x) /\ y \notin Above(y)
    BY <1>5
  <2>3. Above(y) # Above(x) /\ Above(y) \in SUBSET S /\ Above(x) \in SUBSET S
    BY <2>2
  <2>4. <<Above(y), Above(x)>> \in StrictSubsetOrdering(S)
    <3> HIDE DEF Above
    <3> QED
      BY <2>1, <2>3 DEF StrictSubsetOrdering
  <2> QED
    BY <2>4, <1>3, <1>4
<1>6. \A y \in S : x >= y
  BY <1>5
<1> QED
  BY <1>6 DEF Max0

\* The greater of two timers.
LEMMA GreaterOfTwo ==
  ASSUME NEW x \in Int, NEW y \in Int
  PROVE  /\ Max0({x, y}) \in {x, y}
         /\ Max0({x, y}) >= x /\ Max0({x, y}) >= y
<1>1. \E z \in {x, y} : \A z2 \in {x, y} : z >= z2
  <2>1. CASE x >= y
    BY <2>1
  <2>2. CASE ~(x >= y)
    BY <2>2
  <2> QED
    BY <2>1, <2>2
<1> QED
  BY <1>1 DEF Max0

\* MaxLease bounds the times of every lease.
LEMMA LongestLease ==
  /\ MaxLease \in Nat \ {0}
  /\ \A l \in Leases : /\ l.t0 \in 1 .. MaxLease
                       /\ l.t1 \in 1 .. MaxLease
                       /\ l.t2 \in 1 .. MaxLease
<1> DEFINE S == {l.t0 : l \in Leases}
<1>1. S \in SUBSET Int /\ S # {}
  BY DhcpAssumption
<1>2. IsFiniteSet(S)
  <2> DEFINE f == [l \in Leases |-> l.t0]
  <2>1. f \in Surjection(Leases, S)
    BY DEF Surjection
  <2> HIDE DEF f, S
  <2> QED
    BY <2>1, DhcpAssumption, FS_Surjection
<1>3. MaxLease \in S /\ \A y \in S : MaxLease >= y
  <2>1. MaxLease = Max0(S)
    BY DEF MaxLease
  <2> HIDE DEF S
  <2> QED
    BY <1>1, <1>2, <2>1, GreatestElement
<1> QED
  BY <1>3, DhcpAssumption

-----------------------------------------------------------------------------
(* Messages and requests leave alone most of the interface.                *)

\* From v to u, what only the end of a lease or its beginning touches is the
\* same, and the server holds each address as long or longer.
Kept(u, v) ==
  /\ u \in Iface
  /\ u.dhcp \in Client
  /\ u.ip = v.ip
  /\ u.dhcp_pcb_refcount = v.dhcp_pcb_refcount
  /\ u.dhcp.lease = v.dhcp.lease
  /\ u.dhcp.t0_timeout = v.dhcp.t0_timeout
  /\ u.dhcp.t2_timeout = v.dhcp.t2_timeout
  /\ u.dhcp.t1_renew_time = v.dhcp.t1_renew_time
  /\ u.dhcp.t2_rebind_time = v.dhcp.t2_rebind_time
  /\ u.dhcp.lease_used = v.dhcp.lease_used
  /\ u.dhcp.pcb_allocated = v.dhcp.pcb_allocated
  /\ \A a \in Addr : u.left[a] >= v.left[a]
  /\ Replies(v) => Replies(u)

\* A change after a change keeps what both keep.
LEMMA KeptTransitive ==
  ASSUME NEW u, NEW v, NEW x, v \in Iface, x \in Iface, Kept(u, v), Kept(v, x)
  PROVE  Kept(u, x)
<1>1. ASSUME NEW a \in Addr PROVE u.left[a] >= x.left[a]
  <2>1. u.left[a] \in Int /\ v.left[a] \in Int /\ x.left[a] \in Int
    BY LongestLease DEF Kept, Iface
  <2>2. u.left[a] >= v.left[a] /\ v.left[a] >= x.left[a]
    BY DEF Kept
  <2> QED
    BY <2>1, <2>2
<1> QED
  BY <1>1 DEF Kept

\* The interface v with client d.
With(v, d) == [v EXCEPT !.dhcp = d]

\* Nothing but the client changes.
LEMMA WithClient ==
  ASSUME NEW v \in Iface, NEW d \in Client \cup {NULL}
  PROVE  /\ With(v, d) \in Iface
         /\ With(v, d).dhcp = d
         /\ With(v, d).ip = v.ip
         /\ With(v, d).dhcp_pcb_refcount = v.dhcp_pcb_refcount
         /\ With(v, d).net = v.net
         /\ With(v, d).left = v.left
         /\ Replies(v) <=> Replies(With(v, d))
<1>1. /\ With(v, d) \in Iface
      /\ With(v, d).dhcp = d
      /\ With(v, d).ip = v.ip
      /\ With(v, d).dhcp_pcb_refcount = v.dhcp_pcb_refcount
      /\ With(v, d).net = v.net
      /\ With(v, d).left = v.left
  BY DEF With, Iface
<1> QED
  BY <1>1 DEF Replies

\* dhcp_set_state changes the state and starts the count of its messages.
LEMMA SetStateKeeps ==
  ASSUME NEW d \in Client, NEW s \in States
  PROVE  /\ SetState(d, s) \in Client
         /\ SetState(d, s).state = s
         /\ SetState(d, s).xid = d.xid
         /\ SetState(d, s).offered = d.offered
         /\ SetState(d, s).lease = d.lease
         /\ SetState(d, s).t0_timeout = d.t0_timeout
         /\ SetState(d, s).t2_timeout = d.t2_timeout
         /\ SetState(d, s).t1_renew_time = d.t1_renew_time
         /\ SetState(d, s).t2_rebind_time = d.t2_rebind_time
         /\ SetState(d, s).lease_used = d.lease_used
         /\ SetState(d, s).pcb_allocated = d.pcb_allocated
         /\ SetState(d, s).tries = IF d.state = s THEN d.tries ELSE 0
         /\ SetState(d, s).request_timeout =
              IF d.state = s THEN d.request_timeout ELSE 0
<1>1. 0 \in 0 .. MaxTries /\ 0 \in 0 .. RequestTicks
  BY DhcpAssumption
<1>2. CASE d.state = s
  BY <1>2 DEF SetState
<1>3. CASE d.state # s
  <2> DEFINE e == [d EXCEPT !.state = s, !.tries = 0, !.request_timeout = 0]
  <2>1. SetState(d, s) = e
    BY <1>3 DEF SetState
  <2>2. e \in Client /\ e.state = s /\ e.tries = 0 /\ e.request_timeout = 0
    BY <1>1 DEF Client
  <2>3. /\ e.xid = d.xid
        /\ e.offered = d.offered
        /\ e.lease = d.lease
        /\ e.t0_timeout = d.t0_timeout
        /\ e.t2_timeout = d.t2_timeout
    BY DEF Client
  <2>4. /\ e.t1_renew_time = d.t1_renew_time
        /\ e.t2_rebind_time = d.t2_rebind_time
        /\ e.lease_used = d.lease_used
        /\ e.pcb_allocated = d.pcb_allocated
    BY DEF Client
  <2> HIDE DEF e
  <2> QED
    BY <1>3, <2>1, <2>2, <2>3, <2>4
<1> QED
  BY <1>2, <1>3

\* A message more is counted, as far as the counter goes, and the next awaited.
LEMMA TriedKeeps ==
  ASSUME NEW v \in Iface, v.dhcp \in Client, NEW n \in 0 .. RequestTicks
  PROVE  /\ Kept(Tried(v, n), v)
         /\ Tried(v, n).dhcp.state = v.dhcp.state
         /\ Tried(v, n).dhcp.offered = v.dhcp.offered
         /\ Tried(v, n).left = v.left
         /\ Tried(v, n).dhcp.request_timeout = n
         /\ Tried(v, n).dhcp.tries =
              IF v.dhcp.tries < MaxTries THEN v.dhcp.tries + 1 ELSE v.dhcp.tries
<1> DEFINE t == IF v.dhcp.tries < MaxTries THEN v.dhcp.tries + 1 ELSE v.dhcp.tries
           d == [v.dhcp EXCEPT !.tries = t, !.request_timeout = n]
<1>1. t \in 0 .. MaxTries
  <2>1. v.dhcp.tries \in 0 .. MaxTries /\ MaxTries \in Nat
    BY DhcpAssumption DEF Client
  <2> QED
    BY <2>1
<1>2. Tried(v, n) = With(v, d)
  <2> HIDE DEF t
  <2>1. Tried(v, n) = [v EXCEPT !.dhcp.tries = t, !.dhcp.request_timeout = n]
    BY DEF Tried, t
  <2> QED
    BY <2>1 DEF With, Iface
<1>3. t = IF v.dhcp.tries < MaxTries THEN v.dhcp.tries + 1 ELSE v.dhcp.tries
  OBVIOUS
<1> HIDE DEF t
<1>4. d \in Client /\ d.tries = t /\ d.request_timeout = n
  BY <1>1 DEF Client
<1>5. /\ d.state = v.dhcp.state
      /\ d.xid = v.dhcp.xid
      /\ d.offered = v.dhcp.offered
      /\ d.lease = v.dhcp.lease
      /\ d.t0_timeout = v.dhcp.t0_timeout
      /\ d.t2_timeout = v.dhcp.t2_timeout
  BY DEF Client
<1>6. /\ d.t1_renew_time = v.dhcp.t1_renew_time
      /\ d.t2_rebind_time = v.dhcp.t2_rebind_time
      /\ d.lease_used = v.dhcp.lease_used
      /\ d.pcb_allocated = v.dhcp.pcb_allocated
  BY DEF Client
<1> HIDE DEF d
<1>7. \A a \in Addr : v.left[a] >= v.left[a]
  BY LongestLease DEF Iface
<1> QED
  BY <1>2, <1>3, <1>4, <1>5, <1>6, <1>7, WithClient DEF Kept

\* Nothing is lost when nothing happens.
LEMMA KeptReflexive ==
  ASSUME NEW v \in Iface, v.dhcp \in Client
  PROVE  Kept(v, v)
<1>1. \A a \in Addr : v.left[a] >= v.left[a]
  BY LongestLease DEF Iface
<1> QED
  BY <1>1 DEF Kept

\* A change of the state, or of the address on offer.
LEMMA SetStateFrame ==
  ASSUME NEW v \in Iface, v.dhcp \in Client, NEW s \in States,
         NEW o \in Addr \cup {NoAddr}
  PROVE  LET d == [v.dhcp EXCEPT !.offered = o]
             u == With(v, SetState(d, s))
         IN  /\ Kept(u, v)
             /\ u.left = v.left
             /\ u.dhcp.state = s
             /\ u.dhcp.offered = o
             /\ u.dhcp.tries = IF v.dhcp.state = s THEN v.dhcp.tries ELSE 0
             /\ u.dhcp.request_timeout =
                  IF v.dhcp.state = s THEN v.dhcp.request_timeout ELSE 0
<1> DEFINE d == [v.dhcp EXCEPT !.offered = o]
           e == SetState(d, s)
           u == With(v, e)
<1>1. d \in Client /\ d.offered = o
  BY DEF Client
<1>2. /\ d.state = v.dhcp.state
      /\ d.tries = v.dhcp.tries
      /\ d.request_timeout = v.dhcp.request_timeout
      /\ d.lease = v.dhcp.lease
      /\ d.t0_timeout = v.dhcp.t0_timeout
      /\ d.t2_timeout = v.dhcp.t2_timeout
  BY DEF Client
<1>3. /\ d.t1_renew_time = v.dhcp.t1_renew_time
      /\ d.t2_rebind_time = v.dhcp.t2_rebind_time
      /\ d.lease_used = v.dhcp.lease_used
      /\ d.pcb_allocated = v.dhcp.pcb_allocated
  BY DEF Client
<1> HIDE DEF d
<1>4. /\ e \in Client
      /\ e.state = s
      /\ e.offered = d.offered
      /\ e.lease = d.lease
      /\ e.t0_timeout = d.t0_timeout
      /\ e.t2_timeout = d.t2_timeout
      /\ e.t1_renew_time = d.t1_renew_time
      /\ e.t2_rebind_time = d.t2_rebind_time
      /\ e.lease_used = d.lease_used
      /\ e.pcb_allocated = d.pcb_allocated
      /\ e.tries = IF d.state = s THEN d.tries ELSE 0
      /\ e.request_timeout = IF d.state = s THEN d.request_timeout ELSE 0
  BY <1>1, SetStateKeeps
<1> HIDE DEF e
<1>5. /\ u \in Iface
      /\ u.dhcp = e
      /\ u.ip = v.ip
      /\ u.dhcp_pcb_refcount = v.dhcp_pcb_refcount
      /\ u.left = v.left
      /\ Replies(v) <=> Replies(u)
  BY <1>4, WithClient
<1> HIDE DEF u
<1>6. \A a \in Addr : u.left[a] >= v.left[a]
  BY <1>5, LongestLease DEF Iface
<1>7. Kept(u, v)
  BY <1>2, <1>3, <1>4, <1>5, <1>6 DEF Kept
<1>8. /\ u.left = v.left
      /\ u.dhcp.state = s
      /\ u.dhcp.offered = o
      /\ u.dhcp.tries = IF v.dhcp.state = s THEN v.dhcp.tries ELSE 0
      /\ u.dhcp.request_timeout =
           IF v.dhcp.state = s THEN v.dhcp.request_timeout ELSE 0
  BY <1>1, <1>2, <1>4, <1>5
<1> QED
  BY <1>7, <1>8 DEF u, e, d

\* Without a change of the address on offer.
LEMMA SetStateOnly ==
  ASSUME NEW v \in Iface, v.dhcp \in Client, NEW s \in States
  PROVE  LET u == With(v, SetState(v.dhcp, s))
         IN  /\ Kept(u, v)
             /\ u.left = v.left
             /\ u.dhcp.state = s
             /\ u.dhcp.offered = v.dhcp.offered
             /\ u.dhcp.tries = IF v.dhcp.state = s THEN v.dhcp.tries ELSE 0
             /\ u.dhcp.request_timeout =
                  IF v.dhcp.state = s THEN v.dhcp.request_timeout ELSE 0
<1>1. v.dhcp.offered \in Addr \cup {NoAddr}
  BY DEF Client
<1>2. [v.dhcp EXCEPT !.offered = v.dhcp.offered] = v.dhcp
  BY DEF Client
<1> QED
  BY <1>1, <1>2, SetStateFrame

\* A new transaction.
LEMMA CreateMsgKeeps ==
  ASSUME NEW v \in Iface, v.dhcp \in Client
  PROVE  /\ Kept(CreateMsg(v), v)
         /\ CreateMsg(v).left = v.left
         /\ CreateMsg(v).dhcp.state = v.dhcp.state
         /\ CreateMsg(v).dhcp.offered = v.dhcp.offered
         /\ CreateMsg(v).dhcp.tries = v.dhcp.tries
<1> DEFINE d == [v.dhcp EXCEPT !.xid = TRUE]
           u == With(v, d)
           N == {[m EXCEPT !.cur = FALSE] : m \in v.net}
           x == [u EXCEPT !.net = N]
<1>1. d \in Client
  BY DEF Client
<1>2. /\ d.state = v.dhcp.state
      /\ d.offered = v.dhcp.offered
      /\ d.tries = v.dhcp.tries
      /\ d.lease = v.dhcp.lease
      /\ d.t0_timeout = v.dhcp.t0_timeout
      /\ d.t2_timeout = v.dhcp.t2_timeout
  BY DEF Client
<1>3. /\ d.t1_renew_time = v.dhcp.t1_renew_time
      /\ d.t2_rebind_time = v.dhcp.t2_rebind_time
      /\ d.lease_used = v.dhcp.lease_used
      /\ d.pcb_allocated = v.dhcp.pcb_allocated
  BY DEF Client
<1>4. \A a \in Addr : v.left[a] >= v.left[a]
  BY LongestLease DEF Iface
<1>5. CreateMsg(v) \in {u, x}
  BY DEF CreateMsg, With, Iface
<1> HIDE DEF d
<1>6. /\ u \in Iface
      /\ u.dhcp = d
      /\ u.ip = v.ip
      /\ u.dhcp_pcb_refcount = v.dhcp_pcb_refcount
      /\ u.left = v.left
      /\ Replies(v) <=> Replies(u)
  BY <1>1, WithClient
<1> HIDE DEF u
<1>7. N \subseteq Reply
  <2>1. ASSUME NEW m \in v.net PROVE [m EXCEPT !.cur = FALSE] \in Reply
    <3>1. m \in Reply
      BY DEF Iface
    <3> QED
      BY <3>1 DEF Reply
  <2> QED
    BY <2>1
<1>8. \A n \in N : \E m \in v.net :
        n.type = m.type /\ n.addr = m.addr /\ n.lease = m.lease /\ n.aged = m.aged
  BY DEF Iface, Reply
<1>9. Replies(v) => \A n \in N : Valid(n, v.left)
  BY <1>8 DEF Replies, Valid
<1> HIDE DEF N
<1>10. /\ x \in Iface
       /\ x.dhcp = d
       /\ x.ip = v.ip
       /\ x.dhcp_pcb_refcount = v.dhcp_pcb_refcount
       /\ x.left = v.left
       /\ x.net = N
  BY <1>6, <1>7 DEF Iface
<1>11. Replies(v) => Replies(x)
  BY <1>9, <1>10 DEF Replies
<1> HIDE DEF x
<1>12. CASE CreateMsg(v) = u
  BY <1>12, <1>1, <1>2, <1>3, <1>4, <1>6 DEF Kept
<1>13. CASE CreateMsg(v) = x
  BY <1>13, <1>1, <1>2, <1>3, <1>4, <1>10, <1>11 DEF Kept
<1> QED
  BY <1>5, <1>12, <1>13

\* The server's answer puts a reply on the way and nothing else.
LEMMA AnswersKeep ==
  ASSUME NEW v \in Iface, v.dhcp \in Client, NEW R \in SUBSET Reply,
         \A r \in R : Valid(r, v.left), NEW u \in Answers(v, R)
  PROVE  Kept(u, v) /\ u.dhcp = v.dhcp
<1>1. CASE u = v
  BY <1>1, KeptReflexive
<1>2. ASSUME NEW r \in R, u = [v EXCEPT !.net = @ \cup {r}]
      PROVE  Kept(u, v) /\ u.dhcp = v.dhcp
  <2>1. /\ u \in Iface
        /\ u.dhcp = v.dhcp
        /\ u.ip = v.ip
        /\ u.dhcp_pcb_refcount = v.dhcp_pcb_refcount
        /\ u.left = v.left
        /\ u.net = v.net \cup {r}
    BY <1>2 DEF Iface
  <2>2. Replies(v) => Replies(u)
    BY <2>1 DEF Replies
  <2>3. \A a \in Addr : u.left[a] >= v.left[a]
    BY <2>1, LongestLease DEF Iface
  <2> QED
    BY <2>1, <2>2, <2>3 DEF Kept
<1> QED
  BY <1>1, <1>2 DEF Answers

\* The server promises address a for lease l.
LEMMA LongerKeeps ==
  ASSUME NEW v \in Iface, v.dhcp \in Client, NEW a \in Addr, NEW l \in Leases
  PROVE  LET u == [v EXCEPT !.left[a] = Max0({@, l.t0})]
         IN  Kept(u, v) /\ u.dhcp = v.dhcp /\ u.left[a] >= l.t0
<1> DEFINE n == Max0({v.left[a], l.t0})
           left == [v.left EXCEPT ![a] = n]
           u == [v EXCEPT !.left = left]
<1>1. l.t0 \in 1 .. MaxLease /\ MaxLease \in Nat
  BY LongestLease
<1>2. v.left \in [Addr -> -MaxLease .. MaxLease]
  BY DEF Iface
<1>3. n \in {v.left[a], l.t0} /\ n >= v.left[a] /\ n >= l.t0
  <2>1. v.left[a] \in Int /\ l.t0 \in Int
    BY <1>1, <1>2
  <2> QED
    BY <2>1, GreaterOfTwo
<1>4. n \in -MaxLease .. MaxLease
  BY <1>1, <1>2, <1>3
<1>5. [v EXCEPT !.left[a] = Max0({@, l.t0})] = u
  BY DEF Iface
<1> HIDE DEF n
<1>6. left \in [Addr -> -MaxLease .. MaxLease] /\ left[a] >= l.t0
  BY <1>2, <1>3, <1>4
<1>7. \A b \in Addr : left[b] >= v.left[b]
  BY <1>1, <1>2, <1>3
<1> HIDE DEF left
<1>8. /\ u \in Iface
      /\ u.dhcp = v.dhcp
      /\ u.ip = v.ip
      /\ u.dhcp_pcb_refcount = v.dhcp_pcb_refcount
      /\ u.net = v.net
      /\ u.left = left
  BY <1>6 DEF Iface
<1>9. Replies(v) => Replies(u)
  <2>1. ASSUME NEW m \in v.net, Valid(m, v.left) PROVE Valid(m, left)
    <3>1. CASE m.type = "ACK"
      <4>1. m.lease \in Leases /\ m.addr \in Addr /\ m.lease.t0 \in Int
        BY <3>1, <2>1, LongestLease DEF Valid
      <4>2. /\ left[m.addr] \in Int /\ v.left[m.addr] \in Int
            /\ left[m.addr] >= v.left[m.addr]
        BY <4>1, <1>1, <1>2, <1>6, <1>7
      <4>3. v.left[m.addr] >= m.lease.t0 - (IF m.aged THEN 1 ELSE 0)
        BY <2>1, <3>1 DEF Valid
      <4>4. left[m.addr] >= m.lease.t0 - (IF m.aged THEN 1 ELSE 0)
        BY <4>1, <4>2, <4>3
      <4> QED
        BY <2>1, <4>4 DEF Valid
    <3>2. CASE m.type # "ACK"
      BY <3>2, <2>1 DEF Valid
    <3> QED
      BY <3>1, <3>2
  <2> QED
    BY <2>1, <1>8 DEF Replies
<1> HIDE DEF u
<1>10. Kept(u, v)
  BY <1>7, <1>8, <1>9 DEF Kept
<1> QED
  BY <1>5, <1>6, <1>8, <1>10

\* A REQUEST moves the server's lease on, if it moves it.
LEMMA RequestedKeeps ==
  ASSUME NEW v \in Iface, v.dhcp \in Client, NEW a, NEW u \in Requested(v, a)
  PROVE  Kept(u, v) /\ u.dhcp = v.dhcp
<1> DEFINE nak == Message("NAK", NoAddr, NoLease)
           ack(l) == Message("ACK", a, l)
           longer(l) == [v EXCEPT !.left[a] = Max0({@, l.t0})]
<1>1. nak \in Reply /\ Valid(nak, v.left)
  BY DEF Message, Reply, Valid
<1>2. CASE u \in Answers(v, IF naks < MaxNaks THEN {nak} ELSE {})
  <2> DEFINE R == IF naks < MaxNaks THEN {nak} ELSE {}
  <2>1. R \in SUBSET Reply /\ \A r \in R : Valid(r, v.left)
    BY <1>1
  <2> HIDE DEF R
  <2>2. u \in Answers(v, R)
    BY <1>2 DEF R
  <2> QED
    BY <2>1, <2>2, AnswersKeep
<1>3. ASSUME a \in Addr, NEW l \in Leases, u \in Answers(longer(l), {ack(l)})
      PROVE  Kept(u, v) /\ u.dhcp = v.dhcp
  <2>1. /\ Kept(longer(l), v)
        /\ longer(l).dhcp = v.dhcp
        /\ longer(l).left[a] >= l.t0
    BY <1>3, LongerKeeps
  <2>2. longer(l) \in Iface /\ longer(l).dhcp \in Client
    BY <2>1 DEF Kept
  <2> HIDE DEF longer
  <2>3. ack(l) \in Reply
    BY <1>3 DEF Message, Reply
  <2>4. /\ ack(l).type = "ACK" /\ ack(l).addr = a
        /\ ack(l).lease = l /\ ack(l).aged = FALSE
    BY DEF Message
  <2>5. l.t0 \in Int /\ longer(l).left[a] \in Int
    BY <2>2, <1>3, LongestLease DEF Iface
  <2>6. longer(l).left[a] >= l.t0 - 0
    BY <2>1, <2>5
  <2>7. Valid(ack(l), longer(l).left)
    BY <1>3, <2>4, <2>6 DEF Valid
  <2> HIDE DEF ack
  <2>8. Kept(u, longer(l)) /\ u.dhcp = longer(l).dhcp
    BY <2>2, <2>3, <2>7, <1>3, AnswersKeep
  <2> QED
    BY <2>1, <2>2, <2>8, KeptTransitive
<1> QED
  BY <1>2, <1>3 DEF Requested

\* dhcp_select, dhcp_renew, dhcp_rebind.
LEMMA RequestKeeps ==
  ASSUME NEW v \in Iface, v.dhcp \in Client, NEW s \in States, NEW a,
         NEW u \in Request(v, s, a)
  PROVE  Kept(u, v) /\ u.dhcp.state = s /\ u.dhcp.offered = v.dhcp.offered
<1> DEFINE x == With(v, SetState(v.dhcp, s))
<1>1. /\ Kept(x, v)
      /\ x.dhcp.state = s
      /\ x.dhcp.offered = v.dhcp.offered
  BY SetStateOnly
<1>2. [v EXCEPT !.dhcp = SetState(@, s)] = x
  BY DEF With, Iface
<1> HIDE DEF x
<1>3. x \in Iface /\ x.dhcp \in Client
  BY <1>1 DEF Kept
<1>4. PICK y \in Requested(x, a) : u = Tried(y, RequestTicks)
  BY <1>2 DEF Request
<1>5. Kept(y, x) /\ y.dhcp = x.dhcp
  BY <1>3, RequestedKeeps
<1>6. y \in Iface /\ y.dhcp \in Client
  BY <1>5 DEF Kept
<1>7. RequestTicks \in 0 .. RequestTicks
  BY DhcpAssumption
<1>8. /\ Kept(u, y)
      /\ u.dhcp.state = y.dhcp.state
      /\ u.dhcp.offered = y.dhcp.offered
  BY <1>4, <1>6, <1>7, TriedKeeps
<1>9. Kept(u, x)
  BY <1>3, <1>5, <1>6, <1>8, KeptTransitive
<1>10. Kept(u, v)
  BY <1>1, <1>3, <1>9, KeptTransitive
<1> QED
  BY <1>1, <1>5, <1>8, <1>10

\* dhcp_discover.
LEMMA DiscoverKeeps ==
  ASSUME NEW v \in Iface, v.dhcp \in Client, NEW u \in Discover(v)
  PROVE  Kept(u, v) /\ u.dhcp.state = "SELECTING"
<1> DEFINE d == [v.dhcp EXCEPT !.offered = NoAddr]
           x == With(v, SetState(d, "SELECTING"))
           offers == {Message("OFFER", a, NoLease) : a \in Addr}
<1>1. "SELECTING" \in States /\ NoAddr \in Addr \cup {NoAddr}
  BY DEF States
<1>2. Kept(x, v) /\ x.dhcp.state = "SELECTING"
  BY <1>1, SetStateFrame
<1>3. [v EXCEPT !.dhcp = SetState([@ EXCEPT !.offered = NoAddr], "SELECTING")] = x
  BY DEF With, Iface
<1> HIDE DEF x
<1>4. x \in Iface /\ x.dhcp \in Client
  BY <1>2 DEF Kept
<1>5. PICK y \in {x} \cup Answers(CreateMsg(x), offers) : u = Tried(y, RequestTicks)
  BY <1>3 DEF Discover
<1>6. offers \in SUBSET Reply /\ \A r \in offers : Valid(r, CreateMsg(x).left)
  <2>1. ASSUME NEW a \in Addr
        PROVE  /\ Message("OFFER", a, NoLease) \in Reply
               /\ Valid(Message("OFFER", a, NoLease), CreateMsg(x).left)
    <3>1. Message("OFFER", a, NoLease) \in Reply
      BY DEF Message, Reply
    <3>2. /\ Message("OFFER", a, NoLease).type = "OFFER"
          /\ Message("OFFER", a, NoLease).addr = a
      BY DEF Message
    <3> QED
      BY <3>1, <3>2 DEF Valid
  <2> QED
    BY <2>1
<1> HIDE DEF offers
<1>7. Kept(y, x) /\ y.dhcp.state = "SELECTING"
  <2>1. CASE y = x
    BY <2>1, <1>2, <1>4, KeptReflexive
  <2>2. CASE y \in Answers(CreateMsg(x), offers)
    <3>1. Kept(CreateMsg(x), x) /\ CreateMsg(x).dhcp.state = "SELECTING"
      BY <1>2, <1>4, CreateMsgKeeps
    <3>2. CreateMsg(x) \in Iface /\ CreateMsg(x).dhcp \in Client
      BY <3>1 DEF Kept
    <3>3. Kept(y, CreateMsg(x)) /\ y.dhcp = CreateMsg(x).dhcp
      BY <2>2, <3>2, <1>6, AnswersKeep
    <3> QED
      BY <3>1, <3>2, <3>3, <1>4, KeptTransitive
  <2> QED
    BY <1>5, <2>1, <2>2
<1>8. y \in Iface /\ y.dhcp \in Client
  BY <1>7 DEF Kept
<1>9. RequestTicks \in 0 .. RequestTicks
  BY DhcpAssumption
<1>10. Kept(u, y) /\ u.dhcp.state = y.dhcp.state
  BY <1>5, <1>8, <1>9, TriedKeeps
<1>11. Kept(u, x)
  BY <1>4, <1>7, <1>8, <1>10, KeptTransitive
<1>12. Kept(u, v)
  BY <1>2, <1>4, <1>11, KeptTransitive
<1> QED
  BY <1>7, <1>10, <1>12

\* dhcp_decline.
LEMMA DeclineKeeps ==
  ASSUME NEW v \in Iface, v.dhcp \in Client, NEW u \in Decline(v)
  PROVE  Kept(u, v) /\ u.dhcp.state = "BACKING_OFF"
<1> DEFINE x == With(v, SetState(v.dhcp, "BACKING_OFF"))
<1>1. "BACKING_OFF" \in States
  BY DEF States
<1>2. Kept(x, v) /\ x.dhcp.state = "BACKING_OFF"
  BY <1>1, SetStateOnly
<1>3. [v EXCEPT !.dhcp = SetState(@, "BACKING_OFF")] = x
  BY DEF With, Iface
<1> HIDE DEF x
<1>4. x \in Iface /\ x.dhcp \in Client
  BY <1>2 DEF Kept
<1>5. PICK y \in {x, CreateMsg(x)} : u = Tried(y, RequestTicks)
  BY <1>3 DEF Decline
<1>6. Kept(y, x) /\ y.dhcp.state = "BACKING_OFF"
  BY <1>2, <1>4, <1>5, KeptReflexive, CreateMsgKeeps
<1>7. y \in Iface /\ y.dhcp \in Client
  BY <1>6 DEF Kept
<1>8. RequestTicks \in 0 .. RequestTicks
  BY DhcpAssumption
<1>9. Kept(u, y) /\ u.dhcp.state = y.dhcp.state
  BY <1>5, <1>7, <1>8, TriedKeeps
<1>10. Kept(u, x)
  BY <1>4, <1>6, <1>7, <1>9, KeptTransitive
<1>11. Kept(u, v)
  BY <1>2, <1>4, <1>10, KeptTransitive
<1> QED
  BY <1>6, <1>9, <1>11

\* dhcp_check.
LEMMA CheckKeeps ==
  ASSUME NEW v \in Iface, v.dhcp \in Client
  PROVE  /\ Kept(Check(v), v)
         /\ Check(v).left = v.left
         /\ Check(v).dhcp.state = "CHECKING"
         /\ Check(v).dhcp.offered = v.dhcp.offered
         /\ Check(v).dhcp.request_timeout = 1
         /\ v.dhcp.state # "CHECKING" => Check(v).dhcp.tries = 1
         /\ v.dhcp.state = "CHECKING" /\ v.dhcp.tries = 1 => Check(v).dhcp.tries = 2
<1> DEFINE x == With(v, SetState(v.dhcp, "CHECKING"))
<1>1. "CHECKING" \in States
  BY DEF States
<1>2. /\ Kept(x, v)
      /\ x.left = v.left
      /\ x.dhcp.state = "CHECKING"
      /\ x.dhcp.offered = v.dhcp.offered
      /\ x.dhcp.tries = IF v.dhcp.state = "CHECKING" THEN v.dhcp.tries ELSE 0
  BY <1>1, SetStateOnly
<1>3. [v EXCEPT !.dhcp = SetState(@, "CHECKING")] = x
  BY DEF With, Iface
<1> HIDE DEF x
<1>4. x \in Iface /\ x.dhcp \in Client
  BY <1>2 DEF Kept
<1>5. Check(v) = Tried(x, 1)
  BY <1>3 DEF Check
<1>6. 1 \in 0 .. RequestTicks /\ MaxTries \in Nat /\ MaxTries >= 2
  BY DhcpAssumption
<1>7. /\ Kept(Check(v), x)
      /\ Check(v).left = x.left
      /\ Check(v).dhcp.state = x.dhcp.state
      /\ Check(v).dhcp.offered = x.dhcp.offered
      /\ Check(v).dhcp.request_timeout = 1
      /\ Check(v).dhcp.tries =
           IF x.dhcp.tries < MaxTries THEN x.dhcp.tries + 1 ELSE x.dhcp.tries
  BY <1>4, <1>5, <1>6, TriedKeeps
<1>8. Kept(Check(v), v)
  BY <1>2, <1>4, <1>7, KeptTransitive
<1>9. v.dhcp.state # "CHECKING" => Check(v).dhcp.tries = 1
  BY <1>2, <1>6, <1>7
<1>10. v.dhcp.state = "CHECKING" /\ v.dhcp.tries = 1 => Check(v).dhcp.tries = 2
  BY <1>2, <1>6, <1>7
<1> QED
  BY <1>2, <1>7, <1>8, <1>9, <1>10

-----------------------------------------------------------------------------
(* The beginning and the end of a lease.                                   *)

\* dhcp_bind.
LEMMA BindKeeps ==
  ASSUME NEW v \in Iface, v.dhcp \in Client
  PROVE  LET u == Bind(v)
         IN  /\ u \in Iface
             /\ u.dhcp \in Client
             /\ u.ip = v.dhcp.offered
             /\ u.dhcp_pcb_refcount = v.dhcp_pcb_refcount
             /\ u.net = v.net
             /\ u.left = v.left
             /\ u.dhcp.state = "BOUND"
             /\ u.dhcp.t0_timeout = v.dhcp.lease.t0
             /\ u.dhcp.lease_used = 0
             /\ u.dhcp.pcb_allocated = v.dhcp.pcb_allocated
<1> DEFINE l == v.dhcp.lease
           d1 == [v.dhcp EXCEPT !.lease_used = 0, !.t0_timeout = l.t0]
           d2 == [d1 EXCEPT !.t1_renew_time = l.t1, !.t2_timeout = l.t2,
                            !.t2_rebind_time = l.t2]
           e == SetState(d2, "BOUND")
           u == [v EXCEPT !.dhcp = e, !.ip = v.dhcp.offered]
<1>1. "BOUND" \in States
  BY DEF States
<1>2. 0 \in 0 .. MaxLease /\ l.t0 \in 0 .. MaxLease
      /\ l.t1 \in 0 .. MaxLease /\ l.t2 \in 0 .. MaxLease
  <2>1. l \in Leases \cup {NoLease}
    BY DEF Client
  <2>2. CASE l \in Leases
    BY <2>2, LongestLease
  <2>3. CASE l = NoLease
    BY <2>3, LongestLease DEF NoLease
  <2> QED
    BY <2>1, <2>2, <2>3
<1> HIDE DEF l
<1>3. d1 \in Client /\ d1.lease_used = 0 /\ d1.t0_timeout = l.t0
      /\ d1.pcb_allocated = v.dhcp.pcb_allocated
  BY <1>2 DEF Client
<1>4. [v.dhcp EXCEPT !.lease_used = 0, !.t0_timeout = l.t0, !.t1_renew_time = l.t1,
                     !.t2_timeout = l.t2, !.t2_rebind_time = l.t2] = d2
  BY DEF Client
<1> HIDE DEF d1
<1>5. d2 \in Client /\ d2.lease_used = 0 /\ d2.t0_timeout = l.t0
      /\ d2.pcb_allocated = v.dhcp.pcb_allocated
  <2>1. d2 \in Client
    BY <1>2, <1>3 DEF Client
  <2>2. /\ d2.lease_used = d1.lease_used /\ d2.t0_timeout = d1.t0_timeout
        /\ d2.pcb_allocated = d1.pcb_allocated
    BY <1>3 DEF Client
  <2> QED
    BY <1>3, <2>1, <2>2
<1>6. Bind(v) = u
  BY <1>4 DEF Bind, l, Iface
<1> HIDE DEF d2
<1>7. /\ e \in Client
      /\ e.state = "BOUND"
      /\ e.t0_timeout = l.t0
      /\ e.lease_used = 0
      /\ e.pcb_allocated = v.dhcp.pcb_allocated
  BY <1>1, <1>5, SetStateKeeps
<1> HIDE DEF e
<1>8. v.dhcp.offered \in Addr \cup {NoAddr, Static}
  BY DEF Client
<1>9. /\ u \in Iface
      /\ u.dhcp = e
      /\ u.ip = v.dhcp.offered
      /\ u.dhcp_pcb_refcount = v.dhcp_pcb_refcount
      /\ u.net = v.net
      /\ u.left = v.left
  BY <1>7, <1>8 DEF Iface
<1> HIDE DEF u
<1> QED
  BY <1>6, <1>7, <1>9 DEF l

\* The reference to the PCB is given back.
LEMMA PcbReleasedKeeps ==
  ASSUME NEW v \in Iface, v.dhcp \in Client,
         v.dhcp_pcb_refcount = IF v.dhcp.pcb_allocated THEN 1 ELSE 0
  PROVE  LET u == PcbReleased(v)
         IN  /\ u \in Iface
             /\ u.dhcp \in Client
             /\ u.dhcp_pcb_refcount = 0
             /\ u.dhcp.pcb_allocated = FALSE
             /\ u.ip = v.ip
             /\ u.net = v.net
             /\ u.left = v.left
             /\ u.dhcp.state = v.dhcp.state
             /\ u.dhcp.t0_timeout = v.dhcp.t0_timeout
             /\ u.dhcp.t1_renew_time = v.dhcp.t1_renew_time
             /\ u.dhcp.t2_rebind_time = v.dhcp.t2_rebind_time
             /\ u.dhcp.lease_used = v.dhcp.lease_used
<1>1. v.dhcp.pcb_allocated \in BOOLEAN
  BY DEF Client
<1>2. CASE v.dhcp.pcb_allocated = FALSE
  BY <1>2 DEF PcbReleased
<1>3. CASE v.dhcp.pcb_allocated = TRUE
  <2> DEFINE d == [v.dhcp EXCEPT !.pcb_allocated = FALSE]
             u == [v EXCEPT !.dhcp = d, !.dhcp_pcb_refcount = 0]
  <2>1. d \in Client /\ d.pcb_allocated = FALSE
        /\ d.state = v.dhcp.state
        /\ d.t0_timeout = v.dhcp.t0_timeout
        /\ d.t1_renew_time = v.dhcp.t1_renew_time
    BY DEF Client
  <2>2. d.t2_rebind_time = v.dhcp.t2_rebind_time
        /\ d.lease_used = v.dhcp.lease_used
    BY DEF Client
  <2>3. v.dhcp_pcb_refcount = 1
    BY <1>3
  <2>4. v.dhcp_pcb_refcount - 1 = 0
    BY <2>3
  <2>5. PcbReleased(v) = [v EXCEPT !.dhcp.pcb_allocated = FALSE,
                                   !.dhcp_pcb_refcount = @ - 1]
    BY <1>3 DEF PcbReleased
  <2>6. PcbReleased(v) = u
    BY <2>4, <2>5 DEF Iface
  <2> HIDE DEF d
  <2>7. /\ u \in Iface
        /\ u.dhcp = d
        /\ u.dhcp_pcb_refcount = 0
        /\ u.ip = v.ip
        /\ u.net = v.net
        /\ u.left = v.left
    BY <2>1 DEF Iface
  <2> HIDE DEF u
  <2> QED
    BY <2>1, <2>2, <2>6, <2>7
<1> QED
  BY <1>1, <1>2, <1>3

\* dhcp_release_and_stop.
LEMMA StopKeeps ==
  ASSUME NEW v \in Iface, Held(v), ~Off(v), NEW u \in Stop(v)
  PROVE  /\ u \in Iface
         /\ u.dhcp \in Client
         /\ u.dhcp_pcb_refcount = 0
         /\ u.dhcp.pcb_allocated = FALSE
         /\ u.ip = NoAddr
         /\ u.left = v.left
         /\ Replies(v) => Replies(u)
         /\ u.dhcp.state = "OFF"
         /\ u.dhcp.t0_timeout = 0
         /\ u.dhcp.t1_renew_time = 0
         /\ u.dhcp.t2_rebind_time = 0
         /\ u.dhcp.lease_used = 0
<1> DEFINE c1 == [v.dhcp EXCEPT !.offered = NoAddr, !.lease = NoLease]
           c2 == [c1 EXCEPT !.t1_renew_time = 0, !.t2_rebind_time = 0]
           c3 == [c2 EXCEPT !.lease_used = 0, !.t0_timeout = 0]
           x == With(v, c3)
<1>1. v.dhcp \in Client /\ v.dhcp # NULL /\ v.dhcp.state # "OFF"
  BY DEF Off, Iface
<1>2. v.dhcp.pcb_allocated = TRUE /\ v.dhcp_pcb_refcount = 1
  <2>1. v.dhcp.pcb_allocated \in BOOLEAN
    BY <1>1 DEF Client
  <2> QED
    BY <1>1, <2>1 DEF Held
<1>3. 0 \in 0 .. MaxLease
  BY LongestLease
<1>4. c1 \in Client /\ c1.pcb_allocated = TRUE /\ c1.state = v.dhcp.state
  BY <1>1, <1>2 DEF Client
<1>5. [v.dhcp EXCEPT !.offered = NoAddr, !.lease = NoLease, !.t1_renew_time = 0,
                     !.t2_rebind_time = 0, !.lease_used = 0, !.t0_timeout = 0] = c3
  BY <1>1 DEF Client
<1> HIDE DEF c1
<1>6. /\ c2 \in Client /\ c2.pcb_allocated = TRUE /\ c2.state = v.dhcp.state
      /\ c2.t1_renew_time = 0 /\ c2.t2_rebind_time = 0
  BY <1>3, <1>4 DEF Client
<1> HIDE DEF c2
<1>7. /\ c3 \in Client /\ c3.pcb_allocated = TRUE /\ c3.state = v.dhcp.state
      /\ c3.t1_renew_time = 0 /\ c3.t2_rebind_time = 0
      /\ c3.lease_used = 0 /\ c3.t0_timeout = 0
  BY <1>3, <1>6 DEF Client
<1> HIDE DEF c3
<1>8. /\ x \in Iface
      /\ x.dhcp = c3
      /\ x.ip = v.ip
      /\ x.dhcp_pcb_refcount = v.dhcp_pcb_refcount
      /\ x.left = v.left
      /\ Replies(v) <=> Replies(x)
  BY <1>7, WithClient
<1>9. x = [v EXCEPT !.dhcp =
            [@ EXCEPT !.offered = NoAddr, !.lease = NoLease,
                      !.t1_renew_time = 0, !.t2_rebind_time = 0,
                      !.lease_used = 0, !.t0_timeout = 0]]
  BY <1>5 DEF With, Iface
<1> HIDE DEF x
<1>10. PICK y \in {x, CreateMsg(x)} :
         u = PcbReleased([y EXCEPT !.ip = NoAddr, !.dhcp = SetState(@, "OFF")])
  <2>1. Stop(v) =
          {PcbReleased([z EXCEPT !.ip = NoAddr, !.dhcp = SetState(@, "OFF")]) :
             z \in IF v.dhcp.state \in Supplied THEN {x, CreateMsg(x)} ELSE {x}}
    BY <1>1, <1>9 DEF Stop
  <2> QED
    BY <2>1
<1>11. Kept(y, x) /\ y.left = x.left
  <2>1. CASE y = x
    BY <2>1, <1>7, <1>8, KeptReflexive
  <2>2. CASE y = CreateMsg(x)
    BY <2>2, <1>7, <1>8, CreateMsgKeeps
  <2> QED
    BY <2>1, <2>2, <1>10
<1> DEFINE e == SetState(y.dhcp, "OFF")
           z == [y EXCEPT !.ip = NoAddr, !.dhcp = e]
<1>12. y \in Iface /\ y.dhcp \in Client
  BY <1>11 DEF Kept
<1>13. "OFF" \in States
  BY DEF States
<1>14. /\ y.dhcp_pcb_refcount = 1
       /\ y.dhcp.pcb_allocated = TRUE
       /\ y.dhcp.t0_timeout = 0
       /\ y.dhcp.t1_renew_time = 0
       /\ y.dhcp.t2_rebind_time = 0
       /\ y.dhcp.lease_used = 0
       /\ y.left = v.left
       /\ Replies(v) => Replies(y)
  BY <1>2, <1>7, <1>8, <1>11 DEF Kept
<1>15. /\ e \in Client
       /\ e.state = "OFF"
       /\ e.t0_timeout = 0
       /\ e.t1_renew_time = 0
       /\ e.t2_rebind_time = 0
       /\ e.lease_used = 0
       /\ e.pcb_allocated = TRUE
  BY <1>12, <1>13, <1>14, SetStateKeeps
<1>16. u = PcbReleased(z)
  BY <1>10, <1>12 DEF Iface
<1> HIDE DEF e
<1>17. /\ z \in Iface
       /\ z.dhcp = e
       /\ z.ip = NoAddr
       /\ z.dhcp_pcb_refcount = 1
       /\ z.net = y.net
       /\ z.left = v.left
  BY <1>12, <1>14, <1>15 DEF Iface
<1> HIDE DEF z
<1>18. /\ u \in Iface
       /\ u.dhcp \in Client
       /\ u.dhcp_pcb_refcount = 0
       /\ u.dhcp.pcb_allocated = FALSE
       /\ u.ip = z.ip
       /\ u.net = z.net
       /\ u.left = z.left
       /\ u.dhcp.state = z.dhcp.state
       /\ u.dhcp.t0_timeout = z.dhcp.t0_timeout
       /\ u.dhcp.t1_renew_time = z.dhcp.t1_renew_time
       /\ u.dhcp.t2_rebind_time = z.dhcp.t2_rebind_time
       /\ u.dhcp.lease_used = z.dhcp.lease_used
  BY <1>15, <1>16, <1>17, PcbReleasedKeeps
<1>19. Replies(v) => Replies(u)
  BY <1>14, <1>17, <1>18 DEF Replies
<1> QED
  BY <1>15, <1>17, <1>18, <1>19

\* From v to u, the client has been started, or could not be.
Started(u, v) ==
  /\ u \in Iface
  /\ Held(u)
  /\ u.ip = v.ip
  /\ \A a \in Addr : u.left[a] >= v.left[a]
  /\ Replies(v) => Replies(u)
  /\ u.dhcp # NULL => /\ u.dhcp \in Client
                      /\ u.dhcp.state \in {"OFF", "SELECTING"}
                      /\ u.dhcp.t0_timeout = 0
                      /\ u.dhcp.t1_renew_time = 0
                      /\ u.dhcp.t2_rebind_time = 0

\* dhcp_start.
LEMMA StartKeeps ==
  ASSUME NEW v \in Iface, Held(v), NEW u \in Start(v)
  PROVE  Started(u, v)
<1> DEFINE base == IF v.dhcp = NULL THEN v ELSE PcbReleased(v)
           noPcb == With(base, Cleared)
           d == [Cleared EXCEPT !.pcb_allocated = TRUE]
           held == [noPcb EXCEPT !.dhcp = d, !.dhcp_pcb_refcount = 1]
<1>1. NULL \notin Client
  BY DhcpAssumption
<1>2. Cleared \in Client
  <2>1. 0 \in 0 .. MaxLease /\ 0 \in 0 .. MaxTries /\ 0 \in 0 .. RequestTicks
    BY LongestLease, DhcpAssumption
  <2> QED
    BY <2>1 DEF Cleared, Client, States
<1>3. /\ Cleared.pcb_allocated = FALSE /\ Cleared.state = "OFF"
      /\ Cleared.t0_timeout = 0 /\ Cleared.t1_renew_time = 0
      /\ Cleared.t2_rebind_time = 0
  BY DEF Cleared
<1>4. \A a \in Addr : v.left[a] >= v.left[a]
  BY LongestLease DEF Iface
<1>5. /\ base \in Iface
      /\ base.ip = v.ip
      /\ base.dhcp_pcb_refcount = 0
      /\ base.net = v.net
      /\ base.left = v.left
  <2>1. CASE v.dhcp = NULL
    BY <2>1 DEF Held
  <2>2. CASE v.dhcp # NULL
    <3>1. v.dhcp \in Client
      BY <2>2 DEF Iface
    <3>2. v.dhcp_pcb_refcount = IF v.dhcp.pcb_allocated THEN 1 ELSE 0
      BY <2>2 DEF Held
    <3> QED
      BY <2>2, <3>1, <3>2, PcbReleasedKeeps
  <2> QED
    BY <2>1, <2>2
<1> HIDE DEF base
<1>6. /\ noPcb \in Iface
      /\ noPcb.dhcp = Cleared
      /\ noPcb.ip = v.ip
      /\ noPcb.dhcp_pcb_refcount = 0
      /\ noPcb.net = v.net
      /\ noPcb.left = v.left
  BY <1>2, <1>5, WithClient
<1>7. Started(noPcb, v)
  <2>1. Held(noPcb)
    BY <1>3, <1>6 DEF Held
  <2>2. Replies(v) => Replies(noPcb)
    BY <1>6 DEF Replies
  <2> QED
    BY <1>2, <1>3, <1>4, <1>6, <2>1, <2>2 DEF Started
<1>8. noPcb = [(IF v.dhcp = NULL THEN v ELSE PcbReleased(v)) EXCEPT !.dhcp = Cleared]
  BY DEF base, With
<1> HIDE DEF noPcb
<1>9. /\ d \in Client /\ d.pcb_allocated = TRUE /\ d.state = "OFF"
      /\ d.t0_timeout = 0 /\ d.t1_renew_time = 0 /\ d.t2_rebind_time = 0
  BY <1>2, <1>3 DEF Client
<1>10. [noPcb EXCEPT !.dhcp.pcb_allocated = TRUE,
                     !.dhcp_pcb_refcount = @ + 1] = held
  <2>1. noPcb.dhcp_pcb_refcount + 1 = 1
    BY <1>6
  <2> QED
    BY <1>6, <2>1 DEF Iface
<1> HIDE DEF d
<1>11. /\ held \in Iface
       /\ held.dhcp = d
       /\ held.ip = v.ip
       /\ held.dhcp_pcb_refcount = 1
       /\ held.net = v.net
       /\ held.left = v.left
  BY <1>6, <1>9 DEF Iface
<1> HIDE DEF held
<1>12. CASE u \in Discover(held)
  <2>1. Kept(u, held) /\ u.dhcp.state = "SELECTING"
    BY <1>9, <1>11, <1>12, DiscoverKeeps
  <2>2. /\ u \in Iface /\ u.dhcp \in Client /\ u.ip = v.ip
        /\ u.dhcp_pcb_refcount = 1 /\ u.dhcp.pcb_allocated = TRUE
        /\ u.dhcp.t0_timeout = 0 /\ u.dhcp.t1_renew_time = 0
        /\ u.dhcp.t2_rebind_time = 0
        /\ \A a \in Addr : u.left[a] >= v.left[a]
    BY <1>9, <1>11, <2>1 DEF Kept
  <2>3. Held(u)
    BY <1>1, <2>1, <2>2 DEF Held
  <2>4. Replies(v) => Replies(u)
    BY <1>11, <2>1 DEF Kept, Replies
  <2> QED
    BY <2>1, <2>2, <2>3, <2>4 DEF Started
<1>13. CASE u = noPcb
  BY <1>7, <1>13
<1>14. CASE u = v /\ v.dhcp = NULL
  BY <1>4, <1>14 DEF Started
<1> QED
  BY <1>8, <1>10, <1>12, <1>13, <1>14 DEF Start

-----------------------------------------------------------------------------
(* Each operation of the client leaves the invariant true, for the fine    *)
(* tick f at its end.                                                      *)

\* The client runs, and what is common to all of its states holds.
Busy(v) ==
  /\ v \in Iface
  /\ v.dhcp \in Client
  /\ v.dhcp_pcb_refcount = 1
  /\ v.dhcp.pcb_allocated = TRUE
  /\ Counting(v)
  /\ Replies(v)

\* A client that is not off has its PCB.
LEMMA RunningIsBusy ==
  ASSUME NEW v, Sound(v), ~Off(v)
  PROVE  Busy(v) /\ v.dhcp.state # "OFF" /\ v.dhcp # NULL
<1>1. v.dhcp \in Client /\ v.dhcp.state # "OFF" /\ v.dhcp # NULL
  BY DEF Sound, Iface, Off
<1>2. v.dhcp.pcb_allocated = TRUE
  <2>1. v.dhcp.pcb_allocated \in BOOLEAN
    BY <1>1 DEF Client
  <2> QED
    BY <1>1, <2>1 DEF Sound, Held
<1> QED
  BY <1>1, <1>2 DEF Busy, Sound, Held

\* A client with its PCB that is not off satisfies the invariant of one.
LEMMA BusyIsSound ==
  ASSUME NEW v, Busy(v), v.dhcp.state # "OFF"
  PROVE  Sound(v)
<1>1. v.dhcp # NULL
  BY DhcpAssumption DEF Busy
<1> QED
  BY <1>1 DEF Busy, Sound, Held

\* Messages and answers leave the client its PCB.
LEMMA KeptBusy ==
  ASSUME NEW u, NEW v, Busy(v), Kept(u, v)
  PROVE  Busy(u)
<1>1. v.dhcp # NULL
  BY DhcpAssumption DEF Busy
<1> QED
  BY <1>1 DEF Busy, Kept, Counting

\* Into a state without an address.
LEMMA AfterUnsupplied ==
  ASSUME NEW v, NEW u, NEW f, Busy(v), v.ip \notin Addr, Kept(u, v),
         u.dhcp.state \in {"SELECTING", "REQUESTING", "BACKING_OFF"}
  PROVE  /\ Sound(u) /\ Leased(u) /\ Checked(u, f)
         /\ v.dhcp.t1_renew_time = 0 /\ v.dhcp.t2_rebind_time = 0 => Timed(u)
<1>1. Busy(u)
  BY KeptBusy
<1>2. Sound(u)
  BY <1>1, BusyIsSound
<1>3. Leased(u) /\ Checked(u, f)
  BY DEF Kept, Leased, Checked
<1>4. v.dhcp.t1_renew_time = 0 /\ v.dhcp.t2_rebind_time = 0 => Timed(u)
  BY DEF Kept, Timed, Supplied
<1> QED
  BY <1>2, <1>3, <1>4

\* The address counts its lease, whatever the state is.
Counted(v) ==
  v.ip \in Addr =>
    /\ v.dhcp.t0_timeout # 0
    /\ v.left[v.ip] >= v.dhcp.t0_timeout - v.dhcp.lease_used - 2

\* Into a state with one.
LEMMA AfterSupplied ==
  ASSUME NEW v, NEW u, NEW f, Busy(v), Counted(v), Kept(u, v),
         u.dhcp.state \in Supplied
  PROVE  /\ Sound(u) /\ Leased(u) /\ Checked(u, f)
         /\ v.ip \in Addr => Timed(u)
<1>1. Busy(u)
  BY KeptBusy
<1>2. u.dhcp.state # "OFF" /\ u.dhcp.state # "CHECKING"
  BY DEF Supplied
<1>3. Sound(u)
  BY <1>1, <1>2, BusyIsSound
<1>4. ASSUME u.ip \in Addr
      PROVE  u.left[u.ip] >= u.dhcp.t0_timeout - u.dhcp.lease_used - 2
  <2>1. /\ u.ip = v.ip
        /\ u.dhcp.t0_timeout = v.dhcp.t0_timeout
        /\ u.dhcp.lease_used = v.dhcp.lease_used
        /\ u.left[u.ip] >= v.left[u.ip]
    BY <1>4 DEF Kept
  <2>2. u.left[u.ip] \in Int /\ v.left[u.ip] \in Int
    BY <1>4, <1>1, LongestLease DEF Busy, Iface
  <2>3. v.dhcp.t0_timeout \in Int /\ v.dhcp.lease_used \in Int
    BY LongestLease DEF Busy, Client
  <2>4. v.left[u.ip] >= v.dhcp.t0_timeout - v.dhcp.lease_used - 2
    BY <1>4, <2>1 DEF Counted
  <2> QED
    BY <2>1, <2>2, <2>3, <2>4
<1>5. u.dhcp # NULL
  BY <1>1, DhcpAssumption DEF Busy
<1>6. Leased(u)
  BY <1>4, <1>5 DEF Leased, Kept, Counted
<1>7. Checked(u, f)
  BY <1>2 DEF Checked
<1>8. v.ip \in Addr => Timed(u)
  BY DEF Kept, Timed
<1> QED
  BY <1>3, <1>6, <1>7, <1>8

\* dhcp_bind, of a lease that began two minutes ago at the most.
LEMMA AfterBind ==
  ASSUME NEW v, NEW f, Busy(v), v.dhcp.offered \in Addr, v.dhcp.lease \in Leases,
         v.left[v.dhcp.offered] >= v.dhcp.lease.t0 - 2
  PROVE  /\ Sound(Bind(v)) /\ Leased(Bind(v)) /\ Checked(Bind(v), f)
         /\ Timed(Bind(v))
         /\ Bind(v).ip = v.dhcp.offered
<1> DEFINE u == Bind(v)
<1>1. /\ u \in Iface
      /\ u.dhcp \in Client
      /\ u.ip = v.dhcp.offered
      /\ u.dhcp_pcb_refcount = v.dhcp_pcb_refcount
      /\ u.net = v.net
      /\ u.left = v.left
      /\ u.dhcp.state = "BOUND"
      /\ u.dhcp.t0_timeout = v.dhcp.lease.t0
      /\ u.dhcp.lease_used = 0
      /\ u.dhcp.pcb_allocated = v.dhcp.pcb_allocated
  BY BindKeeps DEF Busy
<1> HIDE DEF u
<1>2. u.dhcp # NULL
  BY <1>1, DhcpAssumption
<1>3. v.dhcp.lease.t0 \in Nat \ {0}
  BY DhcpAssumption
<1>4. Counting(u)
  BY <1>1, <1>3 DEF Counting
<1>5. Replies(u)
  BY <1>1 DEF Replies, Busy
<1>6. Busy(u)
  BY <1>1, <1>4, <1>5 DEF Busy
<1>7. Sound(u)
  BY <1>1, <1>6, BusyIsSound
<1>8. u.left[u.ip] >= u.dhcp.t0_timeout - u.dhcp.lease_used - 2
  <2>1. v.dhcp.lease.t0 - 0 - 2 = v.dhcp.lease.t0 - 2
    BY <1>3
  <2> QED
    BY <1>1, <2>1
<1>9. Leased(u)
  BY <1>1, <1>2, <1>3, <1>8 DEF Leased, Supplied
<1>10. Checked(u, f) /\ Timed(u)
  BY <1>1 DEF Checked, Timed, Supplied
<1> QED
  BY <1>1, <1>7, <1>9, <1>10 DEF u

\* dhcp_start: from an interface without an address of the server's.
LEMMA AfterStart ==
  ASSUME NEW v, NEW u, NEW f, Started(u, v), Replies(v), v.ip \notin Addr
  PROVE  Sound(u) /\ Leased(u) /\ Checked(u, f) /\ Timed(u) /\ u.ip = v.ip
<1>1. Sound(u)
  BY DEF Started, Sound, Counting
<1>2. Leased(u)
  BY DEF Started, Leased
<1>3. Checked(u, f)
  BY DEF Started, Checked
<1>4. Timed(u)
  BY DEF Started, Timed, Supplied
<1> QED
  BY <1>1, <1>2, <1>3, <1>4 DEF Started

\* dhcp_release_and_stop.
LEMMA AfterStop ==
  ASSUME NEW v, NEW u, NEW f, v \in Iface, Held(v), Replies(v),
         Off(v) => Counting(v) /\ v.ip \notin Addr, u \in Stop(v)
  PROVE  /\ Sound(u) /\ Off(u) /\ Leased(u) /\ Checked(u, f)
         /\ u.ip = IF Off(v) THEN v.ip ELSE NoAddr
         /\ ~Off(v) \/ Timed(v) => Timed(u)
<1>1. CASE Off(v)
  <2>1. u = v
    BY <1>1 DEF Off, Stop
  <2> QED
    BY <1>1, <2>1 DEF Leased, Checked, Off, Sound
<1>2. CASE ~Off(v)
  <2>1. /\ u \in Iface
        /\ u.dhcp \in Client
        /\ u.dhcp_pcb_refcount = 0
        /\ u.dhcp.pcb_allocated = FALSE
        /\ u.ip = NoAddr
        /\ Replies(v) => Replies(u)
        /\ u.dhcp.state = "OFF"
        /\ u.dhcp.t0_timeout = 0
        /\ u.dhcp.t1_renew_time = 0
        /\ u.dhcp.t2_rebind_time = 0
    BY <1>2, StopKeeps
  <2>2. Sound(u)
    BY <2>1 DEF Sound, Held, Counting
  <2>3. Leased(u)
    BY <2>1, DhcpAssumption DEF Leased
  <2> QED
    BY <1>2, <2>1, <2>2, <2>3 DEF Off, Checked, Timed, Supplied
<1> QED
  BY <1>1, <1>2

\* A restart of the client, when the tries or the lease run out.
LEMMA AfterRestart ==
  ASSUME NEW v, NEW u, NEW f, v \in Iface, Held(v), Replies(v), ~Off(v),
         u \in Restart(v)
  PROVE  Sound(u) /\ Leased(u) /\ Checked(u, f) /\ Timed(u) /\ u.ip = NoAddr
<1>2. PICK x \in Stop(v) : u \in Start(x)
  BY DEF Restart
<1>3. Sound(x) /\ x.ip = NoAddr
  BY <1>2, AfterStop
<1>4. Started(u, x)
  BY <1>2, <1>3, StartKeeps DEF Sound
<1>5. NoAddr \notin Addr
  BY DhcpAssumption
<1> QED
  BY <1>3, <1>4, <1>5, AfterStart DEF Sound

\* dhcp_timeout.
LEMMA AfterTimeout ==
  ASSUME NEW v, NEW u, NEW f \in Nat, Sound(v), Leased(v), v.dhcp # NULL,
         v.dhcp.state = "CHECKING" => Probing(v, f - 1), u \in Timeout(v)
  PROVE  /\ Sound(u) /\ Leased(u) /\ Checked(u, f)
         /\ Timed(v) => Timed(u)
         /\ Off(v) => u = v
         /\ \/ u.ip \in {v.ip, NoAddr}
            \/ /\ v.dhcp.state = "CHECKING" /\ v.dhcp.tries = 2
               /\ u.ip = v.dhcp.offered
<1> DEFINE s == v.dhcp.state
<1>1. v.dhcp \in Client /\ s \in States
  BY DEF Sound, Iface, Client
<1>2. CASE s \in {"BACKING_OFF", "SELECTING"}
  <2>1. ~Off(v)
    BY <1>2 DEF Off
  <2>2. Busy(v)
    BY <2>1, RunningIsBusy
  <2>3. v.ip \notin Addr
    BY <1>2 DEF Leased, Supplied
  <2>4. u \in Discover(v)
    BY <1>2 DEF Timeout
  <2>5. Kept(u, v) /\ u.dhcp.state = "SELECTING"
    BY <1>1, <2>4, DiscoverKeeps DEF Sound
  <2>6. Timed(v) => v.dhcp.t1_renew_time = 0 /\ v.dhcp.t2_rebind_time = 0
    BY <1>2 DEF Timed, Supplied
  <2>7. /\ Sound(u) /\ Leased(u) /\ Checked(u, f)
        /\ v.dhcp.t1_renew_time = 0 /\ v.dhcp.t2_rebind_time = 0 => Timed(u)
    BY <2>2, <2>3, <2>5, AfterUnsupplied
  <2> QED
    BY <2>1, <2>5, <2>6, <2>7 DEF Kept
<1>3. CASE s = "REQUESTING" /\ v.dhcp.tries <= RequestRetries
  <2>1. ~Off(v)
    BY <1>3 DEF Off
  <2>2. Busy(v)
    BY <2>1, RunningIsBusy
  <2>3. v.ip \notin Addr
    BY <1>3 DEF Leased, Supplied
  <2>4. u \in Request(v, "REQUESTING", v.dhcp.offered)
    BY <1>3 DEF Timeout, Select
  <2>5. Kept(u, v) /\ u.dhcp.state = "REQUESTING"
    BY <1>1, <1>3, <2>4, RequestKeeps DEF Sound
  <2>6. Timed(v) => v.dhcp.t1_renew_time = 0 /\ v.dhcp.t2_rebind_time = 0
    BY <1>3 DEF Timed, Supplied
  <2>7. /\ Sound(u) /\ Leased(u) /\ Checked(u, f)
        /\ v.dhcp.t1_renew_time = 0 /\ v.dhcp.t2_rebind_time = 0 => Timed(u)
    BY <2>2, <2>3, <2>5, AfterUnsupplied
  <2> QED
    BY <2>1, <2>5, <2>6, <2>7 DEF Kept
<1>4. CASE s = "REQUESTING" /\ ~(v.dhcp.tries <= RequestRetries)
  <2>1. ~Off(v)
    BY <1>4 DEF Off
  <2>2. u \in Restart(v)
    BY <1>4 DEF Timeout
  <2>3. Sound(u) /\ Leased(u) /\ Checked(u, f) /\ Timed(u) /\ u.ip = NoAddr
    BY <2>1, <2>2, AfterRestart DEF Sound
  <2> QED
    BY <2>1, <2>3
<1>5. CASE s = "CHECKING" /\ v.dhcp.tries <= 1
  <2>1. ~Off(v)
    BY <1>5 DEF Off
  <2>2. Busy(v)
    BY <2>1, RunningIsBusy
  <2>3. v.ip \notin Addr
    BY <1>5 DEF Leased, Supplied
  <2>4. u = Check(v)
    BY <1>5 DEF Timeout
  <2>5. Probing(v, f - 1) /\ v.dhcp.tries = 1
    <3>1. Probing(v, f - 1) /\ v.dhcp.tries \in {1, 2}
      BY <1>5 DEF Probing
    <3> QED
      BY <3>1, <1>5
  <2>6. /\ Kept(u, v)
        /\ u.left = v.left
        /\ u.dhcp.state = "CHECKING"
        /\ u.dhcp.offered = v.dhcp.offered
        /\ u.dhcp.request_timeout = 1
        /\ u.dhcp.tries = 2
    BY <1>1, <1>5, <2>4, <2>5, CheckKeeps DEF Sound
  <2>7. Sound(u)
    BY <2>2, <2>6, KeptBusy, BusyIsSound
  <2>8. Leased(u)
    BY <2>3, <2>6 DEF Leased, Kept
  <2>9. u.dhcp.lease = v.dhcp.lease
    BY <2>6 DEF Kept
  <2>10. f - 1 <= 1 - 1 => f <= 2 - 1
    OBVIOUS
  <2>11. Probing(u, f)
    BY <2>5, <2>6, <2>9, <2>10 DEF Probing
  <2>12. Timed(v) => Timed(u)
    BY <1>5, <2>6 DEF Timed, Kept, Supplied
  <2> QED
    BY <2>1, <2>6, <2>7, <2>8, <2>11, <2>12 DEF Checked, Kept
<1>6. CASE s = "CHECKING" /\ ~(v.dhcp.tries <= 1)
  <2>1. ~Off(v)
    BY <1>6 DEF Off
  <2>2. Busy(v)
    BY <2>1, RunningIsBusy
  <2>3. u = Bind(v)
    BY <1>6 DEF Timeout
  <2>4. Probing(v, f - 1)
    BY <1>6
  <2>5. v.dhcp.tries = 2
    BY <1>6, <2>4 DEF Probing
  <2>6. v.dhcp.offered \in Addr /\ v.dhcp.lease \in Leases
    BY <2>4 DEF Probing
  <2>7. v.left[v.dhcp.offered] \in Int /\ v.dhcp.lease.t0 \in Int
    BY <2>6, LongestLease DEF Sound, Iface
  <2>8. v.left[v.dhcp.offered] >= v.dhcp.lease.t0 - 2
    BY <2>4, <2>7 DEF Probing
  <2>9. /\ Sound(u) /\ Leased(u) /\ Checked(u, f) /\ Timed(u)
        /\ u.ip = v.dhcp.offered
    BY <2>2, <2>3, <2>6, <2>8, AfterBind
  <2> QED
    BY <1>6, <2>1, <2>5, <2>9
<1>7. CASE s \notin {"BACKING_OFF", "SELECTING", "REQUESTING", "CHECKING"}
  <2>1. u = v
    BY <1>7 DEF Timeout
  <2> QED
    BY <1>7, <2>1 DEF Checked
<1> QED
  BY <1>2, <1>3, <1>4, <1>5, <1>6, <1>7

\* From v to u, only the times of t1 and t2 have changed.
Alike(u, v) ==
  /\ u \in Iface
  /\ u.dhcp \in Client
  /\ u.ip = v.ip
  /\ u.dhcp_pcb_refcount = v.dhcp_pcb_refcount
  /\ u.left = v.left
  /\ Replies(v) => Replies(u)
  /\ u.dhcp.state = v.dhcp.state
  /\ u.dhcp.tries = v.dhcp.tries
  /\ u.dhcp.request_timeout = v.dhcp.request_timeout
  /\ u.dhcp.offered = v.dhcp.offered
  /\ u.dhcp.lease = v.dhcp.lease
  /\ u.dhcp.t0_timeout = v.dhcp.t0_timeout
  /\ u.dhcp.lease_used = v.dhcp.lease_used
  /\ u.dhcp.pcb_allocated = v.dhcp.pcb_allocated

\* What the invariant says of a lease does not depend on T1 and T2.
LEMMA AlikeKeeps ==
  ASSUME NEW u, NEW v, NEW f, Alike(u, v), Busy(v)
  PROVE  /\ Busy(u)
         /\ Leased(v) => Leased(u)
         /\ Checked(v, f) => Checked(u, f)
         /\ Counted(v) => Counted(u)
<1>1. v.dhcp # NULL /\ u.dhcp # NULL
  BY DhcpAssumption DEF Busy, Alike
<1>2. Busy(u)
  BY <1>1 DEF Busy, Alike, Counting
<1>3. Leased(v) => Leased(u)
  BY <1>1 DEF Leased, Alike
<1>4. Checked(v, f) => Checked(u, f)
  BY <1>1 DEF Checked, Probing, Alike
<1>5. Counted(v) => Counted(u)
  BY DEF Counted, Alike
<1> QED
  BY <1>2, <1>3, <1>4, <1>5

\* Setting T1 leaves the rest of the client alone.
LEMMA SetT1Keeps ==
  ASSUME NEW v \in Iface, v.dhcp \in Client, NEW n \in 0 .. MaxLease
  PROVE  LET u == With(v, [v.dhcp EXCEPT !.t1_renew_time = n])
         IN  /\ Alike(u, v)
             /\ u.dhcp.t1_renew_time = n
             /\ u.dhcp.t2_rebind_time = v.dhcp.t2_rebind_time
<1> DEFINE d == [v.dhcp EXCEPT !.t1_renew_time = n]
           u == With(v, d)
<1>1. /\ d \in Client /\ d.t1_renew_time = n
      /\ d.state = v.dhcp.state /\ d.tries = v.dhcp.tries
      /\ d.request_timeout = v.dhcp.request_timeout
      /\ d.offered = v.dhcp.offered /\ d.lease = v.dhcp.lease
  BY DEF Client
<1>2. /\ d.t0_timeout = v.dhcp.t0_timeout
      /\ d.t2_rebind_time = v.dhcp.t2_rebind_time
      /\ d.lease_used = v.dhcp.lease_used
      /\ d.pcb_allocated = v.dhcp.pcb_allocated
  BY DEF Client
<1> HIDE DEF d
<1>3. /\ u \in Iface
      /\ u.dhcp = d
      /\ u.ip = v.ip
      /\ u.dhcp_pcb_refcount = v.dhcp_pcb_refcount
      /\ u.left = v.left
      /\ Replies(v) <=> Replies(u)
  BY <1>1, WithClient
<1> HIDE DEF u
<1>4. Alike(u, v)
  BY <1>1, <1>2, <1>3 DEF Alike
<1> QED
  BY <1>1, <1>2, <1>3, <1>4 DEF u, d

\* Setting T2 leaves the rest of the client alone.
LEMMA SetT2Keeps ==
  ASSUME NEW v \in Iface, v.dhcp \in Client, NEW n \in 0 .. MaxLease
  PROVE  LET u == With(v, [v.dhcp EXCEPT !.t2_rebind_time = n])
         IN  /\ Alike(u, v)
             /\ u.dhcp.t2_rebind_time = n
             /\ u.dhcp.t1_renew_time = v.dhcp.t1_renew_time
<1> DEFINE d == [v.dhcp EXCEPT !.t2_rebind_time = n]
           u == With(v, d)
<1>1. /\ d \in Client /\ d.t2_rebind_time = n
      /\ d.state = v.dhcp.state /\ d.tries = v.dhcp.tries
      /\ d.request_timeout = v.dhcp.request_timeout
      /\ d.offered = v.dhcp.offered /\ d.lease = v.dhcp.lease
  BY DEF Client
<1>2. /\ d.t0_timeout = v.dhcp.t0_timeout
      /\ d.t1_renew_time = v.dhcp.t1_renew_time
      /\ d.lease_used = v.dhcp.lease_used
      /\ d.pcb_allocated = v.dhcp.pcb_allocated
  BY DEF Client
<1> HIDE DEF d
<1>3. /\ u \in Iface
      /\ u.dhcp = d
      /\ u.ip = v.ip
      /\ u.dhcp_pcb_refcount = v.dhcp_pcb_refcount
      /\ u.left = v.left
      /\ Replies(v) <=> Replies(u)
  BY <1>1, WithClient
<1> HIDE DEF u
<1>4. Alike(u, v)
  BY <1>1, <1>2, <1>3 DEF Alike
<1> QED
  BY <1>1, <1>2, <1>3, <1>4 DEF u, d

\* dhcp_t1_timeout and dhcp_t2_timeout: the lease goes on.
LEMMA AfterT1Timeout ==
  ASSUME NEW v, NEW u, NEW f, Busy(v), v.dhcp.state # "OFF", Leased(v),
         Checked(v, f), u \in T1Timeout(v)
  PROVE  /\ Sound(u) /\ Leased(u) /\ Checked(u, f)
         /\ u.ip = v.ip
         /\ v.ip \in Addr => Timed(u)
<1>1. CASE v.dhcp.state \notin {"REQUESTING", "BOUND", "RENEWING"}
  <2>1. u = v
    BY <1>1 DEF T1Timeout
  <2> QED
    BY <2>1, BusyIsSound DEF Leased, Timed
<1>2. CASE v.dhcp.state \in {"REQUESTING", "BOUND", "RENEWING"}
  <2> DEFINE again == (v.dhcp.t2_timeout - v.dhcp.lease_used) \div 2
             n(x) == IF again >= 1 THEN again ELSE x.dhcp.t1_renew_time
  <2>1. v \in Iface /\ v.dhcp \in Client
    BY DEF Busy
  <2>2. PICK x \in Renew(v) :
          u = [x EXCEPT !.dhcp.t1_renew_time = IF again >= 1 THEN again ELSE @]
    BY <1>2 DEF T1Timeout
  <2>3. Kept(x, v) /\ x.dhcp.state = "RENEWING"
    <3>1. "RENEWING" \in States
      BY DEF States
    <3> QED
      BY <2>1, <2>2, <3>1, RequestKeeps DEF Renew
  <2>4. x \in Iface /\ x.dhcp \in Client
    BY <2>3 DEF Kept
  <2>5. n(x) \in 0 .. MaxLease
    <3>1. /\ v.dhcp.t2_timeout \in 0 .. MaxLease
          /\ v.dhcp.lease_used \in 0 .. MaxLease
          /\ x.dhcp.t1_renew_time \in 0 .. MaxLease
          /\ MaxLease \in Nat
      BY <2>1, <2>4, LongestLease DEF Client
    <3>2. again >= 1 => again \in 0 .. MaxLease
      BY <3>1
    <3> QED
      BY <3>1, <3>2
  <2>6. u = With(x, [x.dhcp EXCEPT !.t1_renew_time = n(x)])
    <3> HIDE DEF again
    <3> QED
      BY <2>2, <2>4 DEF With, Iface
  <2> HIDE DEF n
  <2>7. Alike(u, x)
    BY <2>4, <2>5, <2>6, SetT1Keeps
  <2>8. Busy(x)
    BY <2>3, KeptBusy
  <2>9. Counted(v)
    BY DEF Leased, Counted
  <2>10. /\ Sound(x) /\ Leased(x) /\ Checked(x, f)
         /\ v.ip \in Addr => Timed(x)
    BY <2>3, <2>9, AfterSupplied DEF Supplied
  <2>11. Busy(u) /\ Leased(u) /\ Checked(u, f)
    BY <2>7, <2>8, <2>10, AlikeKeeps
  <2>12. u.dhcp.state = "RENEWING" /\ u.ip = v.ip
    BY <2>3, <2>7 DEF Alike, Kept
  <2>13. v.ip \in Addr => Timed(u)
    BY <2>12 DEF Timed, Supplied
  <2> QED
    BY <2>11, <2>12, <2>13, BusyIsSound
<1> QED
  BY <1>1, <1>2

\* dhcp_t2_timeout keeps the address and its lease.
LEMMA AfterT2Timeout ==
  ASSUME NEW v, NEW u, NEW f, Busy(v), v.dhcp.state # "OFF", Leased(v),
         Checked(v, f), u \in T2Timeout(v)
  PROVE  /\ Sound(u) /\ Leased(u) /\ Checked(u, f)
         /\ u.ip = v.ip
         /\ v.ip \in Addr => Timed(u)
<1>1. CASE v.dhcp.state \notin {"REQUESTING", "BOUND", "RENEWING", "REBINDING"}
  <2>1. u = v
    BY <1>1 DEF T2Timeout
  <2> QED
    BY <2>1, BusyIsSound DEF Leased, Timed
<1>2. CASE v.dhcp.state \in {"REQUESTING", "BOUND", "RENEWING", "REBINDING"}
  <2> DEFINE again == (v.dhcp.t0_timeout - v.dhcp.lease_used) \div 2
             n(x) == IF again >= 1 THEN again ELSE x.dhcp.t2_rebind_time
  <2>1. v \in Iface /\ v.dhcp \in Client
    BY DEF Busy
  <2>2. PICK x \in Rebind(v) :
          u = [x EXCEPT !.dhcp.t2_rebind_time = IF again >= 1 THEN again ELSE @]
    BY <1>2 DEF T2Timeout
  <2>3. Kept(x, v) /\ x.dhcp.state = "REBINDING"
    <3>1. "REBINDING" \in States
      BY DEF States
    <3> QED
      BY <2>1, <2>2, <3>1, RequestKeeps DEF Rebind
  <2>4. x \in Iface /\ x.dhcp \in Client
    BY <2>3 DEF Kept
  <2>5. n(x) \in 0 .. MaxLease
    <3>1. /\ v.dhcp.t0_timeout \in 0 .. MaxLease
          /\ v.dhcp.lease_used \in 0 .. MaxLease
          /\ x.dhcp.t2_rebind_time \in 0 .. MaxLease
          /\ MaxLease \in Nat
      BY <2>1, <2>4, LongestLease DEF Client
    <3>2. again >= 1 => again \in 0 .. MaxLease
      BY <3>1
    <3> QED
      BY <3>1, <3>2
  <2>6. u = With(x, [x.dhcp EXCEPT !.t2_rebind_time = n(x)])
    <3> HIDE DEF again
    <3> QED
      BY <2>2, <2>4 DEF With, Iface
  <2> HIDE DEF n
  <2>7. Alike(u, x)
    BY <2>4, <2>5, <2>6, SetT2Keeps
  <2>8. Busy(x)
    BY <2>3, KeptBusy
  <2>9. Counted(v)
    BY DEF Leased, Counted
  <2>10. /\ Sound(x) /\ Leased(x) /\ Checked(x, f)
         /\ v.ip \in Addr => Timed(x)
    BY <2>3, <2>9, AfterSupplied DEF Supplied
  <2>11. Busy(u) /\ Leased(u) /\ Checked(u, f)
    BY <2>7, <2>8, <2>10, AlikeKeeps
  <2>12. u.dhcp.state = "REBINDING" /\ u.ip = v.ip
    BY <2>3, <2>7 DEF Alike, Kept
  <2>13. v.ip \in Addr => Timed(u)
    BY <2>12 DEF Timed, Supplied
  <2> QED
    BY <2>11, <2>12, <2>13, BusyIsSound
<1> QED
  BY <1>1, <1>2

\* A minute passes for the server and the network.
LEMMA MinuteKeeps ==
  ASSUME NEW v, Sound(v)
  PROVE  LET u == MinuteOver(v)
         IN  /\ Sound(u)
             /\ u.ip = v.ip
             /\ u.dhcp = v.dhcp
             /\ \A a \in Addr : u.left[a] >= v.left[a] - 1
<1> DEFINE net == {[m EXCEPT !.aged = TRUE] : m \in {m \in v.net : ~m.aged}}
           left == [a \in Addr |-> IF v.left[a] > -MaxLease
                                     THEN v.left[a] - 1 ELSE v.left[a]]
           u == [v EXCEPT !.net = net, !.left = left]
<1>1. v \in Iface /\ v.net \subseteq Reply
  BY DEF Sound, Iface
<1>2. MaxLease \in Nat /\ v.left \in [Addr -> -MaxLease .. MaxLease]
  BY <1>1, LongestLease DEF Iface
<1>3. left \in [Addr -> -MaxLease .. MaxLease]
  <2>1. ASSUME NEW a \in Addr
        PROVE  (IF v.left[a] > -MaxLease THEN v.left[a] - 1 ELSE v.left[a])
                 \in -MaxLease .. MaxLease
    <3>1. v.left[a] \in -MaxLease .. MaxLease
      BY <1>2
    <3> QED
      BY <3>1, <1>2
  <2> QED
    BY <2>1
<1>4. \A a \in Addr : left[a] >= v.left[a] - 1 /\ left[a] \in Int
  <2>1. ASSUME NEW a \in Addr PROVE left[a] >= v.left[a] - 1 /\ left[a] \in Int
    <3>1. v.left[a] \in -MaxLease .. MaxLease
      BY <1>2
    <3> QED
      BY <3>1, <1>2
  <2> QED
    BY <2>1
<1>5. MinuteOver(v) = u
  BY <1>1 DEF MinuteOver, Iface
<1>6. net \subseteq Reply
  <2>1. ASSUME NEW m \in v.net PROVE [m EXCEPT !.aged = TRUE] \in Reply
    <3>1. m \in Reply
      BY <1>1
    <3> QED
      BY <3>1 DEF Reply
  <2> QED
    BY <2>1
<1>7. \A n \in net : Valid(n, left)
  <2>1. ASSUME NEW m \in v.net, ~m.aged PROVE Valid([m EXCEPT !.aged = TRUE], left)
    <3> DEFINE n == [m EXCEPT !.aged = TRUE]
    <3>1. n.type = m.type /\ n.addr = m.addr /\ n.lease = m.lease /\ n.aged = TRUE
      BY <1>1 DEF Reply
    <3> HIDE DEF n, left
    <3>2. Valid(m, v.left)
      BY DEF Sound, Replies
    <3>3. CASE m.type = "ACK"
      <4>1. m.addr \in Addr /\ m.lease \in Leases /\ v.left[m.addr] >= m.lease.t0 - 0
        BY <2>1, <3>2, <3>3 DEF Valid
      <4>2. m.lease.t0 \in Int /\ v.left[m.addr] \in Int
        BY <4>1, <1>2, LongestLease
      <4>3. left[m.addr] >= m.lease.t0 - 1
        BY <4>1, <4>2, <1>4
      <4> QED
        BY <3>1, <3>3, <4>1, <4>3 DEF Valid
    <3>4. CASE m.type # "ACK"
      BY <3>1, <3>2, <3>4 DEF Valid
    <3> QED
      BY <3>3, <3>4 DEF n
  <2> QED
    BY <2>1
<1> HIDE DEF net, left
<1>8. /\ u \in Iface
      /\ u.dhcp = v.dhcp
      /\ u.ip = v.ip
      /\ u.dhcp_pcb_refcount = v.dhcp_pcb_refcount
      /\ u.net = net
      /\ u.left = left
  BY <1>1, <1>3, <1>6 DEF Iface
<1> HIDE DEF u
<1>9. Sound(u)
  BY <1>7, <1>8 DEF Sound, Held, Counting, Replies
<1> QED
  BY <1>4, <1>5, <1>8, <1>9

\* dhcp_coarse_tmr.
LEMMA AfterCoarseTimers ==
  ASSUME NEW v, NEW u, Sound(v), Leased(v), Checked(v, FinePerCoarse), ~Off(v),
         u \in CoarseTimers(MinuteOver(v))
  PROVE  /\ Sound(u) /\ Leased(u) /\ Checked(u, 0)
         /\ Timed(v) => Timed(u)
         /\ u.ip \in {v.ip, NoAddr}
<1> DEFINE m == MinuteOver(v)
           d == [m.dhcp EXCEPT !.lease_used = m.dhcp.lease_used + 1]
           used == IF m.dhcp.t0_timeout = 0 THEN m ELSE With(m, d)
           over == m.dhcp.t0_timeout # 0 /\ m.dhcp.lease_used + 1 = m.dhcp.t0_timeout
           t2 == IF m.dhcp.t2_rebind_time = 0 THEN used
                 ELSE With(used, [used.dhcp EXCEPT
                                    !.t2_rebind_time = used.dhcp.t2_rebind_time - 1])
           t1 == IF m.dhcp.t1_renew_time = 0 THEN t2
                 ELSE With(t2, [t2.dhcp EXCEPT
                                  !.t1_renew_time = t2.dhcp.t1_renew_time - 1])
<1>1. /\ Sound(m)
      /\ m.ip = v.ip
      /\ m.dhcp = v.dhcp
      /\ \A a \in Addr : m.left[a] >= v.left[a] - 1
  BY MinuteKeeps
<1> HIDE DEF m
<1>2. /\ Busy(m) /\ m.dhcp.state # "OFF" /\ m.dhcp # NULL
      /\ m \in Iface /\ m.dhcp \in Client
  BY <1>1, RunningIsBusy DEF Off, Busy
<1>3. /\ m.dhcp.t0_timeout \in 0 .. MaxLease /\ m.dhcp.lease_used \in 0 .. MaxLease
      /\ m.dhcp.t1_renew_time \in 0 .. MaxLease
      /\ m.dhcp.t2_rebind_time \in 0 .. MaxLease
      /\ MaxLease \in Nat
  BY <1>2, LongestLease DEF Client
<1>4. m.dhcp.t0_timeout # 0 => m.dhcp.lease_used < m.dhcp.t0_timeout
  BY <1>2 DEF Busy, Counting
<1>5. m.dhcp.t0_timeout # 0 =>
        /\ d \in Client /\ d.lease_used = m.dhcp.lease_used + 1
        /\ d.t0_timeout = m.dhcp.t0_timeout /\ d.state = m.dhcp.state
        /\ d.tries = m.dhcp.tries /\ d.request_timeout = m.dhcp.request_timeout
        /\ d.offered = m.dhcp.offered /\ d.lease = m.dhcp.lease
        /\ d.t1_renew_time = m.dhcp.t1_renew_time
        /\ d.t2_rebind_time = m.dhcp.t2_rebind_time
        /\ d.pcb_allocated = m.dhcp.pcb_allocated
  <2>1. SUFFICES ASSUME m.dhcp.t0_timeout # 0
                 PROVE  /\ d \in Client /\ d.lease_used = m.dhcp.lease_used + 1
                        /\ d.t0_timeout = m.dhcp.t0_timeout /\ d.state = m.dhcp.state
                        /\ d.tries = m.dhcp.tries
                        /\ d.request_timeout = m.dhcp.request_timeout
                        /\ d.offered = m.dhcp.offered /\ d.lease = m.dhcp.lease
                        /\ d.t1_renew_time = m.dhcp.t1_renew_time
                        /\ d.t2_rebind_time = m.dhcp.t2_rebind_time
                        /\ d.pcb_allocated = m.dhcp.pcb_allocated
    OBVIOUS
  <2>2. m.dhcp.lease_used + 1 \in 0 .. MaxLease
    BY <1>3, <1>4, <2>1
  <2>3. /\ d \in Client /\ d.lease_used = m.dhcp.lease_used + 1
        /\ d.t0_timeout = m.dhcp.t0_timeout /\ d.state = m.dhcp.state
        /\ d.tries = m.dhcp.tries /\ d.request_timeout = m.dhcp.request_timeout
    BY <1>2, <2>2 DEF Client
  <2>4. /\ d.offered = m.dhcp.offered /\ d.lease = m.dhcp.lease
        /\ d.t1_renew_time = m.dhcp.t1_renew_time
        /\ d.t2_rebind_time = m.dhcp.t2_rebind_time
        /\ d.pcb_allocated = m.dhcp.pcb_allocated
    BY <1>2 DEF Client
  <2> QED
    BY <2>3, <2>4
<1>6. /\ used \in Iface
      /\ used.dhcp \in Client
      /\ used.ip = v.ip
      /\ used.dhcp_pcb_refcount = 1
      /\ used.dhcp.pcb_allocated = TRUE
      /\ used.left = m.left
      /\ Replies(used)
      /\ used.dhcp.state = v.dhcp.state
      /\ used.dhcp.tries = v.dhcp.tries
      /\ used.dhcp.request_timeout = v.dhcp.request_timeout
      /\ used.dhcp.offered = v.dhcp.offered
      /\ used.dhcp.lease = v.dhcp.lease
      /\ used.dhcp.t0_timeout = v.dhcp.t0_timeout
      /\ used.dhcp.t1_renew_time = v.dhcp.t1_renew_time
      /\ used.dhcp.t2_rebind_time = v.dhcp.t2_rebind_time
      /\ v.dhcp.t0_timeout # 0 => used.dhcp.lease_used = v.dhcp.lease_used + 1
  <2>1. CASE m.dhcp.t0_timeout = 0
    BY <2>1, <1>1, <1>2 DEF Busy
  <2>2. CASE m.dhcp.t0_timeout # 0
    <3> HIDE DEF d
    <3>1. /\ With(m, d) \in Iface
          /\ With(m, d).dhcp = d
          /\ With(m, d).ip = m.ip
          /\ With(m, d).dhcp_pcb_refcount = m.dhcp_pcb_refcount
          /\ With(m, d).left = m.left
          /\ Replies(m) <=> Replies(With(m, d))
      BY <1>2, <1>5, <2>2, WithClient
    <3> QED
      BY <2>2, <3>1, <1>1, <1>2, <1>5 DEF Busy
  <2> QED
    BY <2>1, <2>2
<1>7. (used # m /\ used.dhcp.lease_used = used.dhcp.t0_timeout) <=> over
  <2>1. CASE m.dhcp.t0_timeout = 0
    BY <2>1
  <2>2. CASE m.dhcp.t0_timeout # 0
    <3>1. used.dhcp.lease_used = m.dhcp.lease_used + 1
          /\ used.dhcp.t0_timeout = m.dhcp.t0_timeout
      BY <2>2, <1>1, <1>6
    <3>2. m.dhcp.lease_used + 1 # m.dhcp.lease_used
      BY <1>3
    <3> HIDE DEF used
    <3> QED
      BY <2>2, <3>1, <3>2
  <2> QED
    BY <2>1, <2>2
<1>8. /\ over => u \in Restart(used)
      /\ ~over /\ v.dhcp.t2_rebind_time = 1 => u \in T2Timeout(t2)
      /\ ~over /\ v.dhcp.t2_rebind_time # 1 /\ v.dhcp.t1_renew_time = 1 =>
           u \in T1Timeout(t1)
      /\ ~over /\ v.dhcp.t2_rebind_time # 1 /\ v.dhcp.t1_renew_time # 1 => u = t1
  <2> DEFINE usedC == IF m.dhcp.t0_timeout = 0 THEN m
                      ELSE [m EXCEPT !.dhcp.lease_used = @ + 1]
             t2C == IF m.dhcp.t2_rebind_time = 0 THEN usedC
                    ELSE [usedC EXCEPT !.dhcp.t2_rebind_time = @ - 1]
             t1C == IF m.dhcp.t1_renew_time = 0 THEN t2C
                    ELSE [t2C EXCEPT !.dhcp.t1_renew_time = @ - 1]
  <2>1. usedC = used
    BY <1>2 DEF With, Iface
  <2> DEFINE end == usedC # m /\ usedC.dhcp.lease_used = usedC.dhcp.t0_timeout
  <2>2. u \in IF end THEN Restart(usedC)
            ELSE IF m.dhcp.t2_rebind_time = 1 THEN T2Timeout(t2C)
            ELSE IF m.dhcp.t1_renew_time = 1 THEN T1Timeout(t1C)
            ELSE {t1C}
    BY DEF CoarseTimers, m
  <2> HIDE DEF usedC, used
  <2>3. t2C = t2
    BY <2>1, <1>6 DEF With, Iface
  <2> HIDE DEF t2C
  <2>4. t1C = t1
    <3>1. t2 \in [ip : Addr \cup {NoAddr, Static}, dhcp : {t2.dhcp},
                  dhcp_pcb_refcount : {0, 1}, net : SUBSET Reply,
                  left : [Addr -> -MaxLease .. MaxLease]]
      BY <1>6 DEF With, Iface
    <3> HIDE DEF t2
    <3> QED
      BY <2>3, <3>1 DEF With
  <2>5. end <=> over
    BY <2>1, <1>7
  <2> HIDE DEF t1C, t1, t2, over, end
  <2>6. CASE over
    BY <2>1, <2>2, <2>5, <2>6
  <2>7. CASE ~over /\ m.dhcp.t2_rebind_time = 1
    BY <2>2, <2>3, <2>5, <2>7, <1>1
  <2>8. CASE ~over /\ m.dhcp.t2_rebind_time # 1 /\ m.dhcp.t1_renew_time = 1
    BY <2>2, <2>4, <2>5, <2>8, <1>1
  <2>9. CASE ~over /\ m.dhcp.t2_rebind_time # 1 /\ m.dhcp.t1_renew_time # 1
    BY <2>2, <2>4, <2>5, <2>9, <1>1
  <2> QED
    BY <2>6, <2>7, <2>8, <2>9, <1>1
<1>9. used.dhcp # NULL /\ used.dhcp.state # "OFF"
  BY <1>1, <1>2, <1>6, DhcpAssumption
<1> HIDE DEF d, used
<1>10. CASE over
  <2>1. u \in Restart(used)
    BY <1>8, <1>10
  <2>2. Held(used) /\ ~Off(used)
    BY <1>6, <1>9 DEF Held, Off
  <2>3. Sound(u) /\ Leased(u) /\ Checked(u, 0) /\ Timed(u) /\ u.ip = NoAddr
    BY <1>6, <2>1, <2>2, AfterRestart
  <2> QED
    BY <2>3
<1>11. CASE ~over
  <2>1. Busy(used)
    <3>1. Counting(used)
      <4>1. SUFFICES ASSUME v.dhcp.t0_timeout # 0
                     PROVE  used.dhcp.lease_used < used.dhcp.t0_timeout
        BY <1>6 DEF Counting
      <4>2. /\ used.dhcp.lease_used = m.dhcp.lease_used + 1
            /\ used.dhcp.t0_timeout = m.dhcp.t0_timeout
            /\ m.dhcp.lease_used < m.dhcp.t0_timeout
            /\ m.dhcp.lease_used + 1 # m.dhcp.t0_timeout
        BY <4>1, <1>1, <1>4, <1>6, <1>11
      <4> QED
        BY <4>2, <1>3
    <3> QED
      BY <3>1, <1>6 DEF Busy
  <2>2. Leased(used)
    <3>1. SUFFICES ASSUME used.ip \in Addr
                   PROVE  /\ used.dhcp.state \in Supplied
                          /\ used.dhcp.t0_timeout # 0
                          /\ used.left[used.ip] >=
                               used.dhcp.t0_timeout - used.dhcp.lease_used - 2
      BY <1>9 DEF Leased
    <3>2. /\ v.dhcp.state \in Supplied
          /\ v.dhcp.t0_timeout # 0
          /\ v.left[v.ip] >= v.dhcp.t0_timeout - v.dhcp.lease_used - 2
      BY <3>1, <1>6 DEF Leased
    <3>3. used.left[v.ip] >= v.left[v.ip] - 1
      BY <3>1, <1>1, <1>6
    <3>4. used.dhcp.lease_used = v.dhcp.lease_used + 1
      BY <3>2, <1>6
    <3>5. v.left[v.ip] \in Int /\ used.left[v.ip] \in Int
      BY <3>1, <1>6, LongestLease DEF Sound, Iface
    <3>6. v.dhcp.t0_timeout \in Int /\ v.dhcp.lease_used \in Int
      BY <1>1, <1>3
    <3>7. used.left[v.ip] >= v.dhcp.t0_timeout - (v.dhcp.lease_used + 1) - 2
      BY <3>2, <3>3, <3>5, <3>6
    <3> QED
      BY <3>2, <3>4, <3>7, <1>6
  <2>3. Checked(used, 0)
    <3>1. SUFFICES ASSUME used.dhcp.state = "CHECKING"
                   PROVE  used.dhcp.request_timeout = 1 /\ Probing(used, 0)
      BY DEF Checked
    <3>2. v.dhcp.request_timeout = 1 /\ Probing(v, FinePerCoarse)
      BY <3>1, <1>1, <1>2, <1>6 DEF Checked
    <3>3. /\ v.dhcp.offered \in Addr /\ v.dhcp.lease \in Leases
          /\ v.dhcp.tries \in {1, 2}
      BY <3>2 DEF Probing
    <3>4. v.left[v.dhcp.offered] >= v.dhcp.lease.t0 - 1
      <4>1. FinePerCoarse \in Nat /\ FinePerCoarse >= 2
        BY DhcpAssumption
      <4>2. ~(FinePerCoarse <= v.dhcp.tries - 1)
        BY <4>1, <3>3
      <4> QED
        BY <4>2, <3>2 DEF Probing
    <3>5. v.left[v.dhcp.offered] \in Int /\ used.left[v.dhcp.offered] \in Int
          /\ v.dhcp.lease.t0 \in Int
      BY <3>3, <1>6, LongestLease DEF Sound, Iface
    <3>6. used.left[v.dhcp.offered] >= v.left[v.dhcp.offered] - 1
      BY <3>3, <1>1, <1>6
    <3>7. used.left[v.dhcp.offered] >= v.dhcp.lease.t0 - 2
      BY <3>4, <3>5, <3>6
    <3>8. 0 <= v.dhcp.tries - 1
      BY <3>3
    <3> QED
      BY <3>2, <3>3, <3>7, <3>8, <1>6 DEF Probing
  <2>4. /\ Alike(t2, used)
        /\ t2.dhcp.t1_renew_time = used.dhcp.t1_renew_time
        /\ v.dhcp.t2_rebind_time = 0 => t2.dhcp.t2_rebind_time = 0
    <3>1. CASE m.dhcp.t2_rebind_time = 0
      BY <3>1, <1>1, <1>6 DEF Alike
    <3>2. CASE m.dhcp.t2_rebind_time # 0
      <4>1. used.dhcp.t2_rebind_time - 1 \in 0 .. MaxLease
        BY <3>2, <1>1, <1>3, <1>6
      <4> QED
        BY <4>1, <3>2, <1>1, <1>6, SetT2Keeps
    <3> QED
      BY <3>1, <3>2
  <2>5. t2.dhcp.state # "OFF" /\ t2.ip = v.ip
    BY <2>4, <1>6, <1>9 DEF Alike
  <2> HIDE DEF t2
  <2>6. Busy(t2) /\ Leased(t2) /\ Checked(t2, 0)
    BY <2>1, <2>2, <2>3, <2>4, AlikeKeeps
  <2>7. /\ Alike(t1, t2)
        /\ t1.dhcp.t2_rebind_time = t2.dhcp.t2_rebind_time
        /\ v.dhcp.t1_renew_time = 0 => t1.dhcp.t1_renew_time = 0
    <3>1. CASE m.dhcp.t1_renew_time = 0
      BY <3>1, <1>1, <1>6, <2>4, <2>6 DEF Alike, Busy
    <3>2. CASE m.dhcp.t1_renew_time # 0
      <4>1. t2.dhcp.t1_renew_time - 1 \in 0 .. MaxLease
        BY <3>2, <1>1, <1>3, <1>6, <2>4
      <4>2. t2 \in Iface /\ t2.dhcp \in Client
        BY <2>6 DEF Busy
      <4> QED
        BY <4>1, <4>2, <3>2, <1>1, SetT1Keeps
    <3> QED
      BY <3>1, <3>2
  <2>8. t1.dhcp.state = v.dhcp.state /\ t1.ip = v.ip
    BY <2>4, <2>7, <1>6 DEF Alike
  <2> HIDE DEF t1
  <2>9. Busy(t1) /\ Leased(t1) /\ Checked(t1, 0)
    BY <2>6, <2>7, AlikeKeeps
  <2>10. t1.dhcp.state # "OFF"
    BY <2>8, <1>6, <1>9
  <2>11. Timed(v) =>
           /\ v.dhcp.t2_rebind_time = 1 => v.ip \in Addr
           /\ v.dhcp.t1_renew_time = 1 => v.ip \in Addr
    BY <1>1, <1>2 DEF Timed
  <2>12. CASE v.dhcp.t2_rebind_time = 1
    <3>1. u \in T2Timeout(t2)
      BY <1>8, <1>11, <2>12
    <3> QED
      BY <3>1, <2>5, <2>6, <2>11, <2>12, AfterT2Timeout
  <2>13. CASE v.dhcp.t2_rebind_time # 1 /\ v.dhcp.t1_renew_time = 1
    <3>1. u \in T1Timeout(t1)
      BY <1>8, <1>11, <2>13
    <3> QED
      BY <3>1, <2>8, <2>9, <2>10, <2>11, <2>13, AfterT1Timeout
  <2>14. CASE v.dhcp.t2_rebind_time # 1 /\ v.dhcp.t1_renew_time # 1
    <3>1. u = t1
      BY <1>8, <1>11, <2>14
    <3>2. Sound(t1)
      BY <2>9, <2>10, BusyIsSound
    <3>3. Timed(v) => Timed(t1)
      BY <2>4, <2>7, <2>8, <1>1, <1>2 DEF Timed
    <3> QED
      BY <3>1, <3>2, <3>3, <2>8, <2>9
  <2> QED
    BY <2>12, <2>13, <2>14
<1> QED
  BY <1>10, <1>11

\* dhcp_recv, for a reply that matches the transaction.
LEMMA AfterReceived ==
  ASSUME NEW v, NEW u, NEW f, NEW m \in Reply, Sound(v), Leased(v), Checked(v, f),
         ~Off(v), Valid(m, v.left), u \in Received(v, m)
  PROVE  /\ Sound(u) /\ Leased(u) /\ Checked(u, f)
         /\ Timed(v) /\ m.type # "NAK" => Timed(u)
         /\ \/ u.ip \in {v.ip, NoAddr}
            \/ v.dhcp.state \in Supplied /\ u.ip \in Addr
<1> DEFINE s == v.dhcp.state
<1>1. /\ Busy(v) /\ s # "OFF" /\ v.dhcp # NULL
      /\ v \in Iface /\ v.dhcp \in Client /\ s \in States
  BY RunningIsBusy DEF Busy, Client
<1>2. m.type \in {"OFFER", "ACK", "NAK"} /\ m.addr \in Addr \cup {NoAddr}
      /\ m.lease \in Leases \cup {NoLease}
  BY DEF Reply
<1>3. ASSUME m.type = "ACK"
      PROVE  LET x == [v EXCEPT !.dhcp.offered = m.addr, !.dhcp.lease = m.lease]
             IN  /\ Busy(x) /\ x.ip = v.ip /\ x.left = v.left
                 /\ x.dhcp.state = s
                 /\ x.dhcp.offered = m.addr /\ m.addr \in Addr
                 /\ x.dhcp.lease = m.lease /\ m.lease \in Leases
                 /\ x.dhcp.t1_renew_time = v.dhcp.t1_renew_time
                 /\ x.dhcp.t2_rebind_time = v.dhcp.t2_rebind_time
                 /\ v.left[m.addr] >= m.lease.t0 - 1
  <2> DEFINE d == [v.dhcp EXCEPT !.offered = m.addr, !.lease = m.lease]
             x == With(v, d)
  <2>1. m.addr \in Addr /\ m.lease \in Leases
        /\ v.left[m.addr] >= m.lease.t0 - (IF m.aged THEN 1 ELSE 0)
    BY <1>3 DEF Valid
  <2>2. v.left[m.addr] >= m.lease.t0 - 1
    <3>1. v.left[m.addr] \in Int /\ m.lease.t0 \in Int
      BY <1>1, <2>1, LongestLease DEF Iface
    <3> QED
      BY <2>1, <3>1
  <2>3. /\ d \in Client /\ d.offered = m.addr /\ d.lease = m.lease
        /\ d.state = s
        /\ d.t0_timeout = v.dhcp.t0_timeout
        /\ d.lease_used = v.dhcp.lease_used
    BY <1>1, <2>1 DEF Client
  <2>4. /\ d.t1_renew_time = v.dhcp.t1_renew_time
        /\ d.t2_rebind_time = v.dhcp.t2_rebind_time
        /\ d.pcb_allocated = v.dhcp.pcb_allocated
    BY <1>1 DEF Client
  <2>5. [v EXCEPT !.dhcp.offered = m.addr, !.dhcp.lease = m.lease] = x
    BY <1>1 DEF With, Iface
  <2> HIDE DEF d
  <2>6. /\ x \in Iface /\ x.dhcp = d /\ x.ip = v.ip
        /\ x.dhcp_pcb_refcount = v.dhcp_pcb_refcount
        /\ x.left = v.left
        /\ Replies(v) <=> Replies(x)
    BY <1>1, <2>3, WithClient
  <2> HIDE DEF x
  <2>7. Busy(x)
    BY <1>1, <2>3, <2>4, <2>6 DEF Busy, Counting
  <2> QED
    BY <2>1, <2>2, <2>3, <2>4, <2>5, <2>6, <2>7
<1>4. CASE m.type = "ACK" /\ s = "REQUESTING"
  <2> DEFINE x == [v EXCEPT !.dhcp.offered = m.addr, !.dhcp.lease = m.lease]
  <2>1. u = Check(x)
    BY <1>4 DEF Received
  <2>2. /\ Busy(x) /\ x.ip = v.ip /\ x.left = v.left
        /\ x.dhcp.state = s
        /\ x.dhcp.offered = m.addr /\ m.addr \in Addr
        /\ x.dhcp.lease = m.lease /\ m.lease \in Leases
        /\ x.dhcp.t1_renew_time = v.dhcp.t1_renew_time
        /\ x.dhcp.t2_rebind_time = v.dhcp.t2_rebind_time
        /\ v.left[m.addr] >= m.lease.t0 - 1
    BY <1>3, <1>4
  <2> HIDE DEF x
  <2>3. v.ip \notin Addr
    BY <1>4 DEF Leased, Supplied
  <2>4. x \in Iface /\ x.dhcp \in Client
    BY <2>2 DEF Busy
  <2>5. /\ Kept(u, x)
        /\ u.left = x.left
        /\ u.dhcp.state = "CHECKING"
        /\ u.dhcp.offered = x.dhcp.offered
        /\ u.dhcp.request_timeout = 1
        /\ u.dhcp.tries = 1
    BY <1>4, <2>1, <2>2, <2>4, CheckKeeps
  <2>6. Sound(u)
    BY <2>2, <2>5, KeptBusy, BusyIsSound
  <2>7. Leased(u)
    BY <2>2, <2>3, <2>5 DEF Leased, Kept
  <2>8. Checked(u, f)
    <3>1. u.dhcp.lease = m.lease
      BY <2>2, <2>5 DEF Kept
    <3> QED
      BY <2>2, <2>5, <3>1 DEF Checked, Probing
  <2>9. Timed(v) => Timed(u)
    BY <1>1, <1>4, <2>2, <2>5 DEF Timed, Supplied, Kept
  <2> QED
    BY <2>2, <2>5, <2>6, <2>7, <2>8, <2>9 DEF Kept
<1>5. CASE m.type = "ACK" /\ s \in {"REBINDING", "RENEWING"}
  <2> DEFINE x == [v EXCEPT !.dhcp.offered = m.addr, !.dhcp.lease = m.lease]
  <2>1. u = Bind(x)
    BY <1>5 DEF Received
  <2>2. /\ Busy(x) /\ x.ip = v.ip /\ x.left = v.left
        /\ x.dhcp.state = s
        /\ x.dhcp.offered = m.addr /\ m.addr \in Addr
        /\ x.dhcp.lease = m.lease /\ m.lease \in Leases
        /\ v.left[m.addr] >= m.lease.t0 - 1
    BY <1>3, <1>5
  <2> HIDE DEF x
  <2>3. x.left[x.dhcp.offered] >= x.dhcp.lease.t0 - 2
    <3>1. v.left[m.addr] \in Int /\ m.lease.t0 \in Int
      BY <1>1, <2>2, LongestLease DEF Iface
    <3>2. v.left[m.addr] >= m.lease.t0 - 2
      BY <2>2, <3>1
    <3> QED
      BY <2>2, <3>2
  <2>4. /\ Sound(u) /\ Leased(u) /\ Checked(u, f) /\ Timed(u)
        /\ u.ip = x.dhcp.offered
    BY <2>1, <2>2, <2>3, AfterBind
  <2> QED
    BY <1>5, <2>2, <2>4 DEF Supplied
<1>6. CASE m.type = "NAK" /\ s \in {"REQUESTING", "REBINDING", "RENEWING"}
  <2> DEFINE e == SetState(v.dhcp, "BACKING_OFF")
             y == With(v, e)
             x == [y EXCEPT !.ip = NoAddr]
  <2>1. "BACKING_OFF" \in States
    BY DEF States
  <2>2. Kept(y, v)
    BY <1>1, <2>1, SetStateOnly
  <2>3. [v EXCEPT !.dhcp = SetState(@, "BACKING_OFF"), !.ip = NoAddr] = x
    BY <1>1 DEF With, Iface
  <2>4. u \in Discover(x)
    BY <1>6, <2>3 DEF Received
  <2> HIDE DEF y
  <2>5. Busy(y) /\ y \in Iface
    BY <1>1, <2>2, KeptBusy DEF Busy
  <2>6. x \in Iface /\ x.dhcp = y.dhcp /\ x.ip = NoAddr
        /\ x.dhcp_pcb_refcount = y.dhcp_pcb_refcount
        /\ x.net = y.net /\ x.left = y.left
    BY <2>5 DEF Iface
  <2> HIDE DEF x
  <2>7. Busy(x)
    BY <2>5, <2>6 DEF Busy, Counting, Replies
  <2>8. x.ip \notin Addr
    BY <2>6, DhcpAssumption
  <2>9. Kept(u, x) /\ u.dhcp.state = "SELECTING"
    BY <2>4, <2>7, DiscoverKeeps DEF Busy
  <2>10. Sound(u) /\ Leased(u) /\ Checked(u, f)
    BY <2>7, <2>8, <2>9, AfterUnsupplied
  <2>11. u.ip = NoAddr
    BY <2>6, <2>9 DEF Kept
  <2> QED
    BY <1>6, <2>10, <2>11
<1>7. CASE m.type = "OFFER" /\ s = "SELECTING"
  <2> DEFINE d == [v.dhcp EXCEPT !.request_timeout = 0, !.offered = m.addr]
             x == With(v, d)
  <2>1. [v EXCEPT !.dhcp.request_timeout = 0, !.dhcp.offered = m.addr] = x
    BY <1>1 DEF With, Iface
  <2>2. u \in Select(x)
    BY <1>7, <2>1 DEF Received
  <2>3. 0 \in 0 .. RequestTicks
    BY DhcpAssumption
  <2>4. /\ d \in Client /\ d.state = s
        /\ d.t0_timeout = v.dhcp.t0_timeout
        /\ d.lease_used = v.dhcp.lease_used
    BY <1>1, <1>2, <2>3 DEF Client
  <2>5. /\ d.t1_renew_time = v.dhcp.t1_renew_time
        /\ d.t2_rebind_time = v.dhcp.t2_rebind_time
        /\ d.pcb_allocated = v.dhcp.pcb_allocated
    BY <1>1 DEF Client
  <2> HIDE DEF d
  <2>6. /\ x \in Iface /\ x.dhcp = d /\ x.ip = v.ip
        /\ x.dhcp_pcb_refcount = v.dhcp_pcb_refcount
        /\ Replies(v) <=> Replies(x)
    BY <1>1, <2>4, WithClient
  <2> HIDE DEF x
  <2>7. Busy(x)
    BY <1>1, <2>4, <2>5, <2>6 DEF Busy, Counting
  <2>8. v.ip \notin Addr
    BY <1>7 DEF Leased, Supplied
  <2>9. Kept(u, x) /\ u.dhcp.state = "REQUESTING"
    <3>1. "REQUESTING" \in States
      BY DEF States
    <3> QED
      BY <2>2, <2>7, <3>1, RequestKeeps DEF Select, Busy
  <2>10. Timed(v) => x.dhcp.t1_renew_time = 0 /\ x.dhcp.t2_rebind_time = 0
    BY <1>1, <1>7, <2>5, <2>6 DEF Timed, Supplied
  <2>11. /\ Sound(u) /\ Leased(u) /\ Checked(u, f)
         /\ Timed(v) => Timed(u)
    BY <2>6, <2>7, <2>8, <2>9, <2>10, AfterUnsupplied
  <2>12. u.ip = v.ip
    BY <2>6, <2>9 DEF Kept
  <2> QED
    BY <2>11, <2>12
<1>8. CASE /\ ~(m.type = "ACK" /\ s = "REQUESTING")
           /\ ~(m.type = "ACK" /\ s \in {"REBINDING", "RENEWING"})
           /\ ~(m.type = "NAK" /\ s \in {"REQUESTING", "REBINDING", "RENEWING"})
           /\ ~(m.type = "OFFER" /\ s = "SELECTING")
  <2>1. u = v
    BY <1>8 DEF Received
  <2> QED
    BY <2>1
<1> QED
  BY <1>4, <1>5, <1>6, <1>7, <1>8

-----------------------------------------------------------------------------
(* The invariant is inductive, and every step is as Probed says.           *)

\* The invariant holds initially.
LEMMA InitInv == Init => IInv
<1> SUFFICES ASSUME Init PROVE IInv
  OBVIOUS
<1> USE DhcpAssumption
<1>1. MaxLease \in Nat /\ 0 \in -MaxLease .. MaxLease
  BY LongestLease
<1>2. [a \in Addr |-> 0] \in [Addr -> -MaxLease .. MaxLease]
  BY <1>1
<1>3. /\ w.ip = NoAddr /\ w.dhcp = NULL /\ w.dhcp_pcb_refcount = 0
      /\ w.net = {} /\ w.left = [a \in Addr |-> 0]
  BY DEF Init
<1>4. w \in Iface
  BY <1>1, <1>2 DEF Init, Iface
<1>5. Sound(w) /\ Leased(w) /\ Checked(w, fine) /\ Timed(w)
  BY <1>3, <1>4 DEF Sound, Held, Counting, Replies, Leased, Checked, Timed
<1>6. TypeOK
  BY <1>4 DEF TypeOK, Iface, Init
<1>7. Ported
  BY <1>3 DEF Ported, Off, Init
<1> QED
  BY <1>5, <1>6, <1>7 DEF IInv

\* What a step of the client has to do for the rest of the invariant.
LEMMA ClientStep ==
  ASSUME IInv, Sound(w'), Leased(w'), Checked(w', fine'), naks' = 0 => Timed(w'),
         w'.ip \in Addr \cup {NoAddr, w.ip}, Off(w) => Off(w') /\ w'.ip = w.ip,
         link' = link, DHCP_state' = DHCP_state, IPaddress' = IPaddress,
         fine' \in 0 .. FinePerCoarse, unpolled' \in 0 .. 2,
         naks' \in 0 .. MaxNaks, conflicts' \in 0 .. MaxConflicts
  PROVE  IInv'
<1>1. TypeOK'
  BY DEF IInv, TypeOK, Sound, Iface
<1>2. Ported'
  BY DhcpAssumption DEF IInv, Ported, Off
<1> QED
  BY <1>1, <1>2 DEF IInv

\* Replies that have gone.
LEMMA FewerReplies ==
  ASSUME NEW v, NEW N \in SUBSET v.net, Sound(v)
  PROVE  LET u == [v EXCEPT !.net = N]
         IN  /\ Sound(u)
             /\ u.ip = v.ip /\ u.dhcp = v.dhcp /\ u.left = v.left
             /\ Off(u) <=> Off(v)
             /\ Leased(v) => Leased(u)
             /\ \A f : Checked(v, f) => Checked(u, f)
             /\ Timed(v) => Timed(u)
<1> DEFINE u == [v EXCEPT !.net = N]
<1>1. /\ u \in Iface /\ u.ip = v.ip /\ u.dhcp = v.dhcp /\ u.left = v.left
      /\ u.dhcp_pcb_refcount = v.dhcp_pcb_refcount /\ u.net = N
  BY DEF Sound, Iface
<1> HIDE DEF u
<1>2. Sound(u)
  BY <1>1 DEF Sound, Held, Counting, Replies
<1>3. /\ Off(u) <=> Off(v)
      /\ Leased(v) => Leased(u)
      /\ \A f : Checked(v, f) => Checked(u, f)
      /\ Timed(v) => Timed(u)
  BY <1>1 DEF Off, Leased, Checked, Probing, Timed
<1> QED
  BY <1>1, <1>2, <1>3 DEF u

\* An address that is not the server's, for an interface without a client
\* that runs.
LEMMA AddressSet ==
  ASSUME NEW v, NEW n \in {NoAddr, Static}, Sound(v), Off(v)
  PROVE  LET u == [v EXCEPT !.ip = n]
         IN  /\ Sound(u) /\ u.ip = n /\ Off(u) /\ Leased(u)
             /\ \A f : Checked(u, f)
             /\ Timed(v) => Timed(u)
<1> DEFINE u == [v EXCEPT !.ip = n]
<1>1. /\ u \in Iface /\ u.ip = n /\ u.dhcp = v.dhcp /\ u.left = v.left
      /\ u.dhcp_pcb_refcount = v.dhcp_pcb_refcount /\ u.net = v.net
  BY DEF Sound, Iface
<1> HIDE DEF u
<1>2. Sound(u) /\ Off(u)
  BY <1>1 DEF Sound, Held, Counting, Replies, Off
<1>3. Leased(u)
  BY <1>1, DhcpAssumption DEF Leased
<1>4. (\A f : Checked(u, f)) /\ (Timed(v) => Timed(u))
  BY <1>1 DEF Off, Checked, Timed, Supplied
<1> QED
  BY <1>1, <1>2, <1>3, <1>4 DEF u

\* dhcp_fine_tmr keeps it, and moves to no address without the probe.
LEMMA FineTmrInv == IInv /\ FineTmr => IInv' /\ Probed
<1> SUFFICES ASSUME IInv, FineTmr PROVE IInv' /\ Probed
  OBVIOUS
<1>1. /\ Sound(w) /\ Leased(w) /\ Checked(w, fine) /\ (naks = 0 => Timed(w))
      /\ fine \in 0 .. FinePerCoarse /\ fine < FinePerCoarse /\ fine' = fine + 1
      /\ FinePerCoarse \in Nat
      /\ w \in Iface
  BY DhcpAssumption DEF IInv, TypeOK, FineTmr, Sound
<1>2. /\ fine' \in 0 .. FinePerCoarse /\ unpolled' \in 0 .. 2
      /\ naks' \in 0 .. MaxNaks /\ conflicts' \in 0 .. MaxConflicts
      /\ link' = link /\ DHCP_state' = DHCP_state /\ IPaddress' = IPaddress
      /\ naks' = naks
  BY <1>1 DEF IInv, TypeOK, FineTmr
<1>3. CASE w.dhcp = NULL \/ w.dhcp.request_timeout = 0
  <2>1. w' = w
    BY <1>3 DEF FineTmr
  <2>2. Checked(w, fine')
    BY <1>1, <1>3 DEF Checked
  <2>3. IInv'
    BY <1>1, <1>2, <2>1, <2>2, ClientStep
  <2> QED
    BY <2>1, <2>3 DEF Probed
<1>4. CASE ~(w.dhcp = NULL \/ w.dhcp.request_timeout = 0)
  <2> DEFINE d == [w.dhcp EXCEPT !.request_timeout = w.dhcp.request_timeout - 1]
             v == With(w, d)
  <2>1. w.dhcp \in Client /\ w.dhcp # NULL /\ w.dhcp.request_timeout # 0
    BY <1>1, <1>4 DEF Iface
  <2>2. w.dhcp.request_timeout - 1 \in 0 .. RequestTicks
    <3>1. w.dhcp.request_timeout \in 0 .. RequestTicks /\ RequestTicks \in Nat
      BY <2>1, DhcpAssumption DEF Client
    <3> QED
      BY <2>1, <3>1
  <2>3. /\ d \in Client /\ d.request_timeout = w.dhcp.request_timeout - 1
        /\ d.state = w.dhcp.state /\ d.tries = w.dhcp.tries
        /\ d.offered = w.dhcp.offered /\ d.lease = w.dhcp.lease
        /\ d.t0_timeout = w.dhcp.t0_timeout
    BY <2>1, <2>2 DEF Client
  <2>4. /\ d.t1_renew_time = w.dhcp.t1_renew_time
        /\ d.t2_rebind_time = w.dhcp.t2_rebind_time
        /\ d.lease_used = w.dhcp.lease_used
        /\ d.pcb_allocated = w.dhcp.pcb_allocated
    BY <2>1 DEF Client
  <2>5. w' \in IF v.dhcp.request_timeout = 0 THEN Timeout(v) ELSE {v}
    <3> DEFINE x == [w EXCEPT !.dhcp.request_timeout = @ - 1]
    <3>1. w' \in IF x.dhcp.request_timeout = 0 THEN Timeout(x) ELSE {x}
      BY <1>4 DEF FineTmr
    <3>2. x = v
      BY <1>1 DEF With, Iface
    <3> HIDE DEF x, v
    <3> QED
      BY <3>1, <3>2
  <2> HIDE DEF d
  <2>6. /\ v \in Iface /\ v.dhcp = d /\ v.ip = w.ip
        /\ v.dhcp_pcb_refcount = w.dhcp_pcb_refcount
        /\ v.left = w.left
        /\ Replies(w) <=> Replies(v)
    BY <1>1, <2>3, WithClient
  <2> HIDE DEF v
  <2>7. v.dhcp # NULL
    BY <2>3, <2>6, DhcpAssumption
  <2>8. Sound(v)
    BY <1>1, <2>1, <2>3, <2>4, <2>6, <2>7 DEF Sound, Held, Counting
  <2>9. /\ Leased(v)
        /\ Timed(w) => Timed(v)
        /\ Off(w) <=> Off(v)
    BY <1>1, <2>1, <2>3, <2>4, <2>6, <2>7 DEF Leased, Timed, Off
  <2>10. v.dhcp.state = "CHECKING" => w.dhcp.request_timeout = 1 /\ Probing(v, fine)
    BY <1>1, <2>1, <2>3, <2>6 DEF Checked, Probing
  <2>11. CASE v.dhcp.request_timeout = 0
    <3>1. w' \in Timeout(v)
      BY <2>5, <2>11
    <3>2. fine' \in Nat /\ fine' - 1 = fine
      BY <1>1
    <3>3. v.dhcp.state = "CHECKING" => Probing(v, fine' - 1)
      BY <2>10, <3>2
    <3>4. /\ Sound(w') /\ Leased(w') /\ Checked(w', fine')
          /\ Timed(v) => Timed(w')
          /\ Off(v) => w' = v
          /\ \/ w'.ip \in {v.ip, NoAddr}
             \/ /\ v.dhcp.state = "CHECKING" /\ v.dhcp.tries = 2
                /\ w'.ip = v.dhcp.offered
      BY <2>7, <2>8, <2>9, <3>1, <3>2, <3>3, AfterTimeout
    <3>5. w'.ip \in Addr \cup {NoAddr, w.ip}
      BY <2>6, <2>10, <3>4 DEF Probing
    <3>6. Off(w) => Off(w') /\ w'.ip = w.ip
      BY <2>6, <2>9, <3>4
    <3>7. IInv'
      BY <1>1, <1>2, <2>9, <3>4, <3>5, <3>6, ClientStep
    <3>8. Probed
      BY <2>3, <2>6, <3>4, DhcpAssumption DEF Probed
    <3> QED
      BY <3>7, <3>8
  <2>12. CASE v.dhcp.request_timeout # 0
    <3>1. w' = v
      BY <2>5, <2>12
    <3>2. v.dhcp.state # "CHECKING"
      BY <2>3, <2>6, <2>10, <2>12
    <3>3. Checked(v, fine')
      BY <3>2 DEF Checked
    <3>4. IInv'
      BY <1>1, <1>2, <2>6, <2>8, <2>9, <3>1, <3>3, ClientStep
    <3> QED
      BY <2>6, <3>1, <3>4 DEF Probed
  <2> QED
    BY <2>11, <2>12
<1> QED
  BY <1>3, <1>4

\* dhcp_coarse_tmr keeps it.
LEMMA CoarseTmrInv == IInv /\ CoarseTmr => IInv' /\ Probed
<1> SUFFICES ASSUME IInv, CoarseTmr PROVE IInv' /\ Probed
  OBVIOUS
<1>1. /\ Sound(w) /\ Leased(w) /\ Checked(w, FinePerCoarse)
      /\ naks = 0 => Timed(w)
      /\ fine' = 0 /\ fine' \in 0 .. FinePerCoarse
  BY DhcpAssumption DEF IInv, CoarseTmr
<1>2. /\ unpolled' \in 0 .. 2
      /\ naks' \in 0 .. MaxNaks /\ conflicts' \in 0 .. MaxConflicts
      /\ link' = link /\ DHCP_state' = DHCP_state /\ IPaddress' = IPaddress
      /\ naks' = naks
  BY DEF IInv, TypeOK, CoarseTmr
<1>3. CASE Off(w)
  <2>1. w' = MinuteOver(w)
    BY <1>3 DEF CoarseTmr, Off
  <2>2. Sound(w') /\ w'.ip = w.ip /\ w'.dhcp = w.dhcp
    BY <1>1, <2>1, MinuteKeeps
  <2>3. w.ip \notin Addr
    BY <1>1, <1>3 DEF Leased, Off, Supplied
  <2>4. Off(w') /\ Leased(w') /\ Checked(w', fine') /\ (Timed(w) => Timed(w'))
    BY <1>3, <2>2, <2>3 DEF Off, Leased, Checked, Timed
  <2>5. IInv'
    BY <1>1, <1>2, <2>2, <2>4, ClientStep
  <2> QED
    BY <2>2, <2>5 DEF Probed
<1>4. CASE ~Off(w)
  <2>1. w' \in CoarseTimers(MinuteOver(w))
    BY <1>4 DEF CoarseTmr, Off
  <2>2. /\ Sound(w') /\ Leased(w') /\ Checked(w', fine')
        /\ Timed(w) => Timed(w')
        /\ w'.ip \in {w.ip, NoAddr}
    BY <1>1, <1>4, <2>1, AfterCoarseTimers
  <2>3. IInv'
    BY <1>1, <1>2, <1>4, <2>2, ClientStep
  <2> QED
    BY <2>2, <2>3, DhcpAssumption DEF Probed
<1> QED
  BY <1>3, <1>4

\* dhcp_recv keeps it.
LEMMA RecvInv ==
  ASSUME IInv, NEW m \in w.net, Recv(m)
  PROVE  IInv' /\ Probed
<1>1. /\ Sound(w) /\ Leased(w) /\ Checked(w, fine)
      /\ naks = 0 => Timed(w)
      /\ m \in Reply /\ Valid(m, w.left)
  BY DEF IInv, Sound, Iface, Replies
<1>2. /\ naks \in 0 .. MaxNaks /\ MaxNaks \in Nat
      /\ naks' = IF m.type = "NAK" THEN naks + 1 ELSE naks
      /\ naks' <= MaxNaks
  BY DhcpAssumption DEF IInv, TypeOK, Recv
<1>3. /\ naks' \in 0 .. MaxNaks
      /\ naks' = 0 => naks = 0 /\ m.type # "NAK"
  <2>1. CASE m.type = "NAK"
    BY <2>1, <1>2
  <2>2. CASE m.type # "NAK"
    BY <2>2, <1>2
  <2> QED
    BY <2>1, <2>2
<1>4. /\ fine' = fine /\ fine' \in 0 .. FinePerCoarse /\ unpolled' \in 0 .. 2
      /\ conflicts' \in 0 .. MaxConflicts
      /\ link' = link /\ DHCP_state' = DHCP_state /\ IPaddress' = IPaddress
  BY DEF IInv, TypeOK, Recv
<1>5. PICK N \in {w.net, w.net \ {m}} :
        LET v == [w EXCEPT !.net = N]
        IN  IF w.dhcp # NULL /\ w.dhcp.pcb_allocated /\ m.cur /\ w.dhcp.xid
              THEN w' \in Received(v, m)
              ELSE w' = v
  BY DEF Recv
<1> DEFINE v == [w EXCEPT !.net = N]
<1>6. /\ Sound(v) /\ v.ip = w.ip /\ v.dhcp = w.dhcp /\ v.left = w.left
      /\ Off(v) <=> Off(w)
      /\ Leased(v) /\ Checked(v, fine) /\ (Timed(w) => Timed(v))
  BY <1>1, FewerReplies
<1>7. CASE w.dhcp # NULL /\ w.dhcp.pcb_allocated /\ m.cur /\ w.dhcp.xid
  <2>1. w' \in Received(v, m)
    BY <1>5, <1>7
  <2> HIDE DEF v
  <2>2. ~Off(v) /\ Valid(m, v.left)
    BY <1>1, <1>6, <1>7 DEF Off, Sound, Held
  <2>3. /\ Sound(w') /\ Leased(w') /\ Checked(w', fine')
        /\ Timed(v) /\ m.type # "NAK" => Timed(w')
        /\ \/ w'.ip \in {v.ip, NoAddr}
           \/ v.dhcp.state \in Supplied /\ w'.ip \in Addr
    BY <1>1, <1>4, <1>6, <2>1, <2>2, AfterReceived
  <2>4. IInv'
    BY <1>1, <1>3, <1>4, <1>6, <2>2, <2>3, ClientStep
  <2>5. Probed
    <3>1. SUFFICES ASSUME naks = 0, w.ip \notin Addr, w'.ip \in Addr
                   PROVE  FALSE
      BY DEF Probed
    <3>2. w.dhcp.state \in Supplied
      BY <3>1, <1>6, <2>3, DhcpAssumption
    <3> QED
      BY <3>1, <3>2, <1>1, <1>7 DEF Timed
  <2> QED
    BY <2>4, <2>5
<1>8. CASE ~(w.dhcp # NULL /\ w.dhcp.pcb_allocated /\ m.cur /\ w.dhcp.xid)
  <2>1. w' = v
    BY <1>5, <1>8
  <2> HIDE DEF v
  <2>2. IInv'
    BY <1>1, <1>3, <1>4, <1>6, <2>1, ClientStep
  <2> QED
    BY <1>6, <2>1, <2>2 DEF Probed
<1> QED
  BY <1>7, <1>8

\* A lost reply keeps it.
LEMMA LoseInv ==
  ASSUME IInv, NEW m \in w.net, Lose(m)
  PROVE  IInv' /\ Probed
<1> DEFINE v == [w EXCEPT !.net = w.net \ {m}]
<1>1. w' = v
  BY DEF Lose
<1>2. /\ fine' = fine /\ fine' \in 0 .. FinePerCoarse /\ unpolled' \in 0 .. 2
      /\ naks' = naks /\ naks' \in 0 .. MaxNaks /\ conflicts' \in 0 .. MaxConflicts
      /\ link' = link /\ DHCP_state' = DHCP_state /\ IPaddress' = IPaddress
      /\ Sound(w) /\ Leased(w) /\ Checked(w, fine) /\ (naks = 0 => Timed(w))
  BY DEF IInv, TypeOK, Lose
<1>3. /\ Sound(v) /\ v.ip = w.ip
      /\ Off(v) <=> Off(w)
      /\ Leased(v) /\ Checked(v, fine) /\ (Timed(w) => Timed(v))
  BY <1>2, FewerReplies
<1> HIDE DEF v
<1>4. IInv'
  BY <1>1, <1>2, <1>3, ClientStep
<1> QED
  BY <1>1, <1>3, <1>4 DEF Probed

\* The reply of another host to the ARP check keeps it.
LEMMA ArpReplyInv == IInv /\ ArpReply => IInv' /\ Probed
<1> SUFFICES ASSUME IInv, ArpReply PROVE IInv' /\ Probed
  OBVIOUS
<1>1. /\ fine' = fine /\ fine' \in 0 .. FinePerCoarse /\ unpolled' \in 0 .. 2
      /\ naks' = naks /\ naks' \in 0 .. MaxNaks
      /\ link' = link /\ DHCP_state' = DHCP_state /\ IPaddress' = IPaddress
      /\ Sound(w) /\ Leased(w) /\ (naks = 0 => Timed(w))
      /\ w.dhcp # NULL /\ w.dhcp.state = "CHECKING"
      /\ w' \in Decline(w)
  BY DEF IInv, TypeOK, ArpReply
<1>2. conflicts' \in 0 .. MaxConflicts
  <2>1. /\ conflicts \in 0 .. MaxConflicts /\ MaxConflicts \in Nat
        /\ conflicts < MaxConflicts /\ conflicts' = conflicts + 1
    BY DhcpAssumption DEF IInv, TypeOK, ArpReply
  <2> QED
    BY <2>1
<1>3. ~Off(w)
  BY <1>1 DEF Off
<1>4. Busy(w)
  BY <1>1, <1>3, RunningIsBusy
<1>5. Kept(w', w) /\ w'.dhcp.state = "BACKING_OFF"
  BY <1>1, <1>4, DeclineKeeps DEF Busy
<1>6. w.ip \notin Addr
  BY <1>1 DEF Leased, Supplied
<1>7. Timed(w) => w.dhcp.t1_renew_time = 0 /\ w.dhcp.t2_rebind_time = 0
  BY <1>1 DEF Timed, Supplied
<1>8. /\ Sound(w') /\ Leased(w') /\ Checked(w', fine')
      /\ Timed(w) => Timed(w')
  BY <1>4, <1>5, <1>6, <1>7, AfterUnsupplied
<1>9. w'.ip = w.ip
  BY <1>5 DEF Kept
<1>10. IInv'
  BY <1>1, <1>2, <1>3, <1>8, <1>9, ClientStep
<1> QED
  BY <1>9, <1>10 DEF Probed

\* The port's start of the client keeps it.
LEMMA PollStartInv == IInv /\ PollStart => IInv' /\ Probed
<1> SUFFICES ASSUME IInv, PollStart PROVE IInv' /\ Probed
  OBVIOUS
<1>1. /\ Sound(w) /\ w.ip = NoAddr /\ w' \in Start(w)
      /\ link = TRUE /\ link' = TRUE /\ DHCP_state' = "WAIT_ADDRESS"
  BY DEF IInv, TypeOK, Ported, PollStart
<1>2. Started(w', w)
  BY <1>1, StartKeeps DEF Sound
<1>3. /\ Sound(w') /\ Leased(w') /\ Checked(w', fine') /\ Timed(w')
      /\ w'.ip = NoAddr
  BY <1>1, <1>2, DhcpAssumption, AfterStart DEF Sound
<1>4. TypeOK'
  BY <1>3 DEF IInv, TypeOK, Sound, Iface, PollStart
<1>5. Ported'
  BY <1>1, <1>3, DhcpAssumption DEF Ported
<1> QED
  BY <1>3, <1>4, <1>5, DhcpAssumption DEF IInv, Probed

\* The port's notice of the address keeps it.
LEMMA PollAssignedInv == IInv /\ PollAssigned => IInv' /\ Probed
<1> SUFFICES ASSUME IInv, PollAssigned PROVE IInv' /\ Probed
  OBVIOUS
<1>1. w' = w /\ link' = link /\ fine' = fine /\ naks' = naks
  BY DEF PollAssigned
<1>2. TypeOK'
  BY DEF IInv, TypeOK, PollAssigned
<1>3. Ported'
  BY DEF IInv, Ported, PollAssigned
<1> QED
  BY <1>1, <1>2, <1>3 DEF IInv, Probed

\* The port's fallback to the static address keeps it.
LEMMA PollNoAddressInv == IInv /\ PollNoAddress => IInv' /\ Probed
<1> SUFFICES ASSUME IInv, PollNoAddress PROVE IInv' /\ Probed
  OBVIOUS
<1>1. /\ Sound(w) /\ Leased(w) /\ Checked(w, fine) /\ (naks = 0 => Timed(w))
      /\ w.ip = NoAddr /\ NoAddr \notin Addr /\ Static \notin Addr
      /\ fine' = fine /\ naks' = naks /\ link' = link
  BY DhcpAssumption DEF IInv, PollNoAddress
<1>2. CASE w' = w /\ DHCP_state' = DHCP_state
  <2>1. TypeOK'
    BY <1>2 DEF IInv, TypeOK, PollNoAddress
  <2>2. Ported'
    BY <1>1, <1>2 DEF IInv, Ported
  <2> QED
    BY <1>1, <1>2, <2>1, <2>2 DEF IInv, Probed
<1>3. CASE w' \in StaticAddress /\ DHCP_state' = "TIMEOUT"
  <2>1. PICK u \in Stop(w) : w' = [u EXCEPT !.ip = Static]
    BY <1>3 DEF StaticAddress
  <2>2. Sound(u) /\ Off(u) /\ (~Off(w) \/ Timed(w) => Timed(u))
    BY <1>1, <2>1, AfterStop DEF Sound
  <2>3. /\ Sound(w') /\ w'.ip = Static /\ Off(w') /\ Leased(w')
        /\ Checked(w', fine')
        /\ Timed(u) => Timed(w')
    BY <2>1, <2>2, AddressSet
  <2>4. TypeOK'
    BY <1>3, <2>3 DEF IInv, TypeOK, Sound, Iface, PollNoAddress
  <2>5. Ported'
    BY <1>1, <1>3, <2>3, DhcpAssumption DEF IInv, Ported, PollNoAddress
  <2> QED
    BY <1>1, <2>2, <2>3, <2>4, <2>5 DEF IInv, Probed
<1> QED
  BY <1>2, <1>3 DEF PollNoAddress

\* A round of the port without anything to do keeps it.
LEMMA PollIdleInv == IInv /\ PollIdle => IInv' /\ Probed
<1> SUFFICES ASSUME IInv, PollIdle PROVE IInv' /\ Probed
  OBVIOUS
<1>1. w' = w /\ link' = link /\ DHCP_state' = DHCP_state /\ fine' = fine /\ naks' = naks
  BY DEF PollIdle
<1>2. TypeOK'
  BY DEF IInv, TypeOK, PollIdle
<1> QED
  BY <1>1, <1>2 DEF IInv, Ported, Probed

\* The loss of the link keeps it.
LEMMA LinkDownInv == IInv /\ LinkDown => IInv' /\ Probed
<1> SUFFICES ASSUME IInv, LinkDown PROVE IInv' /\ Probed
  OBVIOUS
<1>1. /\ Sound(w) /\ Leased(w) /\ (naks = 0 => Timed(w))
      /\ w' \in Stop(w) /\ naks' = naks
      /\ link' = FALSE /\ DHCP_state' = "LINK_DOWN"
  BY DEF IInv, LinkDown
<1>2. Off(w) => Counting(w) /\ w.ip \notin Addr
  BY <1>1 DEF Sound, Leased, Off, Supplied
<1>3. /\ Sound(w') /\ Off(w') /\ Leased(w') /\ Checked(w', fine')
      /\ w'.ip = IF Off(w) THEN w.ip ELSE NoAddr
      /\ ~Off(w) \/ Timed(w) => Timed(w')
  BY <1>1, <1>2, AfterStop DEF Sound
<1>4. w'.ip \notin Addr
  BY <1>2, <1>3, DhcpAssumption
<1>5. TypeOK'
  BY <1>1, <1>3 DEF IInv, TypeOK, Sound, Iface, LinkDown
<1>6. Ported'
  BY <1>1, <1>3, <1>4 DEF Ported
<1> QED
  BY <1>1, <1>3, <1>4, <1>5, <1>6 DEF IInv, Probed

\* The return of the link keeps it.
LEMMA LinkUpInv == IInv /\ LinkUp => IInv' /\ Probed
<1> SUFFICES ASSUME IInv, LinkUp PROVE IInv' /\ Probed
  OBVIOUS
<1>1. /\ Sound(w) /\ Off(w) /\ (naks = 0 => Timed(w)) /\ naks' = naks
      /\ w' = [w EXCEPT !.ip = NoAddr]
      /\ link' = TRUE /\ DHCP_state' = "START"
      /\ NoAddr \notin Addr /\ Static # NoAddr
  BY DhcpAssumption DEF IInv, Ported, LinkUp
<1>2. /\ Sound(w') /\ w'.ip = NoAddr /\ Off(w') /\ Leased(w')
      /\ Checked(w', fine')
      /\ Timed(w) => Timed(w')
  BY <1>1, AddressSet
<1>3. TypeOK'
  BY <1>1, <1>2 DEF IInv, TypeOK, Sound, Iface, LinkUp
<1>4. Ported'
  BY <1>1, <1>2 DEF Ported
<1> QED
  BY <1>1, <1>2, <1>3, <1>4 DEF IInv, Probed

\* Every step keeps it.
LEMMA NextInv == IInv /\ [Next]_vars => IInv' /\ [Probed]_vars
<1> SUFFICES ASSUME IInv, [Next]_vars PROVE IInv' /\ (Probed \/ UNCHANGED vars)
  OBVIOUS
<1>1. CASE UNCHANGED vars
  BY <1>1 DEF vars, IInv, TypeOK, Ported
<1>2. CASE Next
  BY <1>2, FineTmrInv, CoarseTmrInv, RecvInv, LoseInv, ArpReplyInv, PollStartInv,
     PollAssignedInv, PollNoAddressInv, PollIdleInv, LinkDownInv, LinkUpInv DEF Next
<1> QED
  BY <1>1, <1>2

-----------------------------------------------------------------------------
(* The theorems.                                                           *)

\* The replies in flight, the lease that runs, the address under the ARP
\* check and the state machine of netconf.c agree at all times.
THEOREM Inductive == Spec => []IInv
<1> QED
  BY InitInv, NextInv, PTL DEF Spec

\* The UDP PCB of the client is held exactly while it runs, whatever restarts
\* or stops it.
THEOREM Holds == Spec => []PcbHeld
<1>1. IInv => PcbHeld
  BY DEF IInv, PcbHeld, Sound, Held, Running, Off
<1> QED
  BY <1>1, Inductive, PTL

\* The address of the interface comes from the client, which then holds a
\* lease, or is the static one, next to which no client runs; and there is
\* neither a client nor an address of the server's without a link.
THEOREM OneSource == Spec => []AddressHasSource
<1>1. IInv => AddressHasSource
  BY DEF IInv, AddressHasSource, Leased, Running, Ported, Off, Supplied
<1> QED
  BY <1>1, Inductive, PTL

\* Before the first NAK, a client in a state that supplies the address has
\* supplied it.
THEOREM Supplies == Spec => []SuppliedUnlessNak
<1>1. IInv => SuppliedUnlessNak
  BY DEF IInv, SuppliedUnlessNak, SuppliedHasAddress, Running, Timed
<1> QED
  BY <1>1, Inductive, PTL

\* The interface uses no address for more than two minutes after its lease,
\* however replies are delayed, repeated or lost.
THEOREM Honours == Spec => []LeaseHonoured
<1>1. IInv => LeaseHonoured
  <2>1. SUFFICES ASSUME IInv, w.ip \in Addr PROVE w.left[w.ip] >= -1
    BY DEF LeaseHonoured
  <2>2. /\ w.dhcp # NULL /\ w.dhcp.t0_timeout # 0
        /\ w.left[w.ip] >= w.dhcp.t0_timeout - w.dhcp.lease_used - 2
        /\ w.dhcp.lease_used < w.dhcp.t0_timeout
        /\ w \in Iface
    BY <2>1 DEF IInv, Leased, Sound, Counting
  <2>3. w.dhcp \in Client
    BY <2>2 DEF Iface
  <2>4. w.dhcp.t0_timeout \in Int /\ w.dhcp.lease_used \in Int
        /\ w.left[w.ip] \in Int
    BY <2>1, <2>2, <2>3, LongestLease DEF Iface, Client
  <2> QED
    BY <2>2, <2>4
<1> QED
  BY <1>1, Inductive, PTL

\* Before the first NAK, an interface without an address of the server's takes
\* none that has not been probed by ARP twice.
THEOREM Probes == Spec => ProbedFirst
<1>1. IInv /\ [Next]_vars => [Probed]_vars
  BY NextInv
<1> QED
  BY <1>1, Inductive, PTL DEF Spec, ProbedFirst
=============================================================================
