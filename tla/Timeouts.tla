------------------------------ MODULE Timeouts ------------------------------
(***************************************************************************)
(* The timers of lwIP without an operating system                          *)
(* (src/src/core/timeouts.c): a list of one-shot timeouts sorted by due    *)
(* time, on a millisecond clock that wraps around.  The main loop calls    *)
(* sys_check_timeouts, which runs the handlers of the timeouts that are    *)
(* due; cyclic timers and the TCP timer arm themselves again from their    *)
(* handlers, and handlers, like the rest of the main loop, may start and   *)
(* cancel timeouts of the application.  The clock goes on meanwhile.       *)
(*                                                                         *)
(* Wrap stands for 2^32.  Each timeout carries, besides the due time the   *)
(* code stores, the ghost "left": the true number of milliseconds to go,   *)
(* negative when the timeout is late.  The code never looks at it.         *)
(***************************************************************************)
EXTENDS Integers, Sequences, FiniteSets

CONSTANTS
  Wrap,                  \* the clock counts modulo Wrap
  Cyclic,                \* the cyclic timers (lwip_cyclic_timers but TCP's)
  Tcp,                   \* the TCP timer
  App,                   \* handlers the application passes to sys_timeout
  NoHandler,             \* no handler
  Interval,              \* interval_ms of the cyclic and the TCP timers
  MEMP_NUM_SYS_TIMEOUT,  \* size of the pool of timeouts
  AppQuota,              \* bound: timeouts the application has at a time
  MaxLate                \* bound: how late the main loop may be

LWIP_MAX_TIMEOUT == Wrap \div 2 - 1

\* The longest timeout sys_timeout accepts.
MaxMsecs == Wrap \div 4

Handlers == Cyclic \cup {Tcp} \cup App

ASSUME TimerAssumption ==
  /\ Wrap \in Nat \ {0} /\ Wrap % 4 = 0
  /\ IsFiniteSet(Cyclic)
  /\ Tcp \notin Cyclic /\ NoHandler \notin Handlers
  /\ App \cap (Cyclic \cup {Tcp}) = {}
  /\ Interval \in [Cyclic \cup {Tcp} -> 1 .. MaxMsecs]
  /\ AppQuota \in Nat /\ MEMP_NUM_SYS_TIMEOUT \in Nat
  /\ MaxLate \in 1 .. MaxMsecs - 1

\* The pool has an element for every timer of the stack and for as many as
\* the application uses.
ASSUME PoolAssumption ==
  Cardinality(Cyclic) + 1 + AppQuota <= MEMP_NUM_SYS_TIMEOUT

VARIABLES
  clock,         \* what sys_now() returns
  next_timeout,  \* the list
  pc,            \* "idle", "check" (in the loop), "handler" (running h)
  now,           \* sys_check_timeouts' local, 0 outside it
  h,             \* the handler that runs, NoHandler between handlers
  due,           \* current_timeout_due_time, 0 between handlers, ...
  dueLeft,       \* ... and its ghost
  tcpip_tcp_timer_active,
  tcp_pcbs       \* tcp_active_pcbs || tcp_tw_pcbs

vars == <<clock, next_timeout, pc, now, h, due, dueLeft,
          tcpip_tcp_timer_active, tcp_pcbs>>

Clock    == 0 .. Wrap - 1
Timeouts == [h : Handlers, time : Clock, left : -MaxLate .. MaxMsecs]

\* Mutant of TIME_LESS_THAN: plain comparison.
TIME_LESS_THAN_Plain(t, compare_to) == t < compare_to

TIME_LESS_THAN(t, compare_to) == (t - compare_to) % Wrap > LWIP_MAX_TIMEOUT

-----------------------------------------------------------------------------
(* The list.                                                               *)

\* The position of the first element that is due after "time".
Position(list, time) ==
  CHOOSE k \in 1 .. Len(list) + 1 :
    /\ k <= Len(list) => TIME_LESS_THAN(time, list[k].time)
    /\ \A j \in 1 .. k - 1 : ~TIME_LESS_THAN(time, list[j].time)

Inserted(list, t) ==
  LET k == Position(list, t.time)
  IN  SubSeq(list, 1, k - 1) \o <<t>> \o SubSeq(list, k, Len(list))

\* Mutant of SysTimeoutAbs: one element of the pool is still taken.
SysTimeoutAbs_OneLess(list, t) ==
  IF Len(list) + 1 < MEMP_NUM_SYS_TIMEOUT THEN Inserted(list, t) ELSE list

\* sys_timeout_abs: nothing happens (but an assertion message) when the pool
\* is empty.
SysTimeoutAbs(list, t) ==
  IF Len(list) < MEMP_NUM_SYS_TIMEOUT THEN Inserted(list, t) ELSE list

\* sys_timeout.
SysTimeout(list, msecs, handler) ==
  SysTimeoutAbs(list, [h |-> handler, time |-> (clock + msecs) % Wrap,
                       left |-> msecs])

\* The positions of the timeouts with a given handler.
At(list, handler) == {k \in 1 .. Len(list) : list[k].h = handler}

\* sys_untimeout: the first match is unlinked and freed.
Without(list, handler) ==
  IF At(list, handler) = {} THEN list
  ELSE LET k == CHOOSE k \in At(list, handler) :
                  \A j \in At(list, handler) : k <= j
       IN  SubSeq(list, 1, k - 1) \o SubSeq(list, k + 1, Len(list))

\* tcp_timer_needed, when there are TCP connections.
TcpTimerNeeded(list) ==
  IF tcpip_tcp_timer_active THEN list
  ELSE SysTimeout(list, Interval[Tcp], Tcp)

-----------------------------------------------------------------------------
(* sys_timeouts_init arms the cyclic timers in some order; TCP's waits for *)
(* tcp_timer_needed.                                                       *)
Init ==
  /\ clock = 0
  /\ next_timeout \in
       {s \in [1 .. Cardinality(Cyclic) ->
                 {[h |-> c, time |-> (clock + Interval[c]) % Wrap,
                   left |-> Interval[c]] : c \in Cyclic}] :
          /\ \A c \in Cyclic : At(s, c) # {}
          /\ \A k \in 2 .. Len(s) : s[k - 1].left <= s[k].left}
  /\ pc = "idle"
  /\ now = 0
  /\ h = NoHandler
  /\ due = 0
  /\ dueLeft = 0
  /\ tcpip_tcp_timer_active = FALSE
  /\ tcp_pcbs = FALSE

\* A millisecond passes.  The main loop is never later than MaxLate.
Tick ==
  /\ \A k \in 1 .. Len(next_timeout) : next_timeout[k].left > -MaxLate
  /\ pc = "handler" => dueLeft > -MaxLate
  /\ clock' = (clock + 1) % Wrap
  /\ next_timeout' = [k \in 1 .. Len(next_timeout) |->
                        [next_timeout[k] EXCEPT !.left = @ - 1]]
  /\ dueLeft' = IF pc = "handler" THEN dueLeft - 1 ELSE dueLeft
  /\ UNCHANGED <<pc, now, h, due, tcpip_tcp_timer_active, tcp_pcbs>>

\* sys_check_timeouts is called.
Check ==
  /\ pc = "idle"
  /\ now' = clock
  /\ pc' = "check"
  /\ UNCHANGED <<clock, next_timeout, h, due, dueLeft,
                 tcpip_tcp_timer_active, tcp_pcbs>>

\* Mutant of NothingDue: the clock is read again for every timeout.
NothingDueNow == \/ next_timeout = <<>>
                 \/ TIME_LESS_THAN(clock, Head(next_timeout).time)

NothingDue == \/ next_timeout = <<>>
              \/ TIME_LESS_THAN(now, Head(next_timeout).time)

\* It returns when the list is empty or the first timeout is not due.
Return ==
  /\ pc = "check"
  /\ NothingDue
  /\ pc' = "idle"
  /\ now' = 0
  /\ UNCHANGED <<clock, next_timeout, h, due, dueLeft,
                 tcpip_tcp_timer_active, tcp_pcbs>>

\* It takes the first timeout off the list, frees it and calls its handler.
Expire ==
  /\ pc = "check"
  /\ ~NothingDue
  /\ LET t == Head(next_timeout)
     IN  h' = t.h /\ due' = t.time /\ dueLeft' = t.left
  /\ next_timeout' = Tail(next_timeout)
  /\ pc' = "handler"
  /\ UNCHANGED <<clock, now, tcpip_tcp_timer_active, tcp_pcbs>>

\* The handler returns to the loop of sys_check_timeouts.
HandlerReturns ==
  /\ pc' = "check"
  /\ h' = NoHandler
  /\ due' = 0
  /\ dueLeft' = 0

\* When cyclic timer c is due next: one interval after it was due, or after
\* now if that is over already ("overload").
NextDue(c) ==
  IF TIME_LESS_THAN((due + Interval[c]) % Wrap, clock)
    THEN [h |-> c, time |-> (clock + Interval[c]) % Wrap,
          left |-> Interval[c]]
    ELSE [h |-> c, time |-> (due + Interval[c]) % Wrap,
          left |-> dueLeft + Interval[c]]

\* The handler of a cyclic timer has returned: lwip_cyclic_timer arms it.
CyclicDone ==
  /\ pc = "handler"
  /\ h \in Cyclic
  /\ next_timeout' = SysTimeoutAbs(next_timeout, NextDue(h))
  /\ HandlerReturns
  /\ UNCHANGED <<clock, now, tcpip_tcp_timer_active, tcp_pcbs>>

\* Mutant of TcpDone: the flag is left set.
TcpDoneActive ==
  /\ pc = "handler"
  /\ h = Tcp
  /\ next_timeout' = IF tcp_pcbs THEN SysTimeout(next_timeout, Interval[Tcp], Tcp)
                                 ELSE next_timeout
  /\ HandlerReturns
  /\ UNCHANGED <<clock, now, tcpip_tcp_timer_active, tcp_pcbs>>

\* tcp_tmr has returned: tcpip_tcp_timer goes on while it is needed.
TcpDone ==
  /\ pc = "handler"
  /\ h = Tcp
  /\ IF tcp_pcbs
       THEN /\ next_timeout' = SysTimeout(next_timeout, Interval[Tcp], Tcp)
            /\ UNCHANGED tcpip_tcp_timer_active
       ELSE /\ tcpip_tcp_timer_active' = FALSE
            /\ UNCHANGED next_timeout
  /\ HandlerReturns
  /\ UNCHANGED <<clock, now, tcp_pcbs>>

\* A handler of the application has returned.
AppDone ==
  /\ pc = "handler"
  /\ h \in App
  /\ HandlerReturns
  /\ UNCHANGED <<clock, next_timeout, now, tcpip_tcp_timer_active, tcp_pcbs>>

-----------------------------------------------------------------------------
(* The rest of the main loop, and the handlers, use the timers.            *)

AppTimeouts ==
  {k \in 1 .. Len(next_timeout) : next_timeout[k].h \in App}

\* The application calls sys_timeout.
StartApp(a, msecs) ==
  /\ pc \in {"idle", "handler"}
  /\ Cardinality(AppTimeouts) < AppQuota
  /\ next_timeout' = SysTimeout(next_timeout, msecs, a)
  /\ UNCHANGED <<clock, pc, now, h, due, dueLeft, tcpip_tcp_timer_active,
                 tcp_pcbs>>

\* The application calls sys_untimeout.
StopApp(a) ==
  /\ pc \in {"idle", "handler"}
  /\ next_timeout' = Without(next_timeout, a)
  /\ UNCHANGED <<clock, pc, now, h, due, dueLeft, tcpip_tcp_timer_active,
                 tcp_pcbs>>

\* A connection comes into being: TCP_REG calls tcp_timer_needed.
TcpOpens ==
  /\ pc \in {"idle", "handler"}
  /\ ~tcp_pcbs
  /\ tcp_pcbs' = TRUE
  /\ tcpip_tcp_timer_active' = TRUE
  /\ next_timeout' = TcpTimerNeeded(next_timeout)
  /\ UNCHANGED <<clock, pc, now, h, due, dueLeft>>

\* The last connection is gone.
TcpCloses ==
  /\ pc \in {"idle", "handler"}
  /\ tcp_pcbs
  /\ tcp_pcbs' = FALSE
  /\ UNCHANGED <<clock, next_timeout, pc, now, h, due, dueLeft,
                 tcpip_tcp_timer_active>>

-----------------------------------------------------------------------------
HandlerDone == CyclicDone \/ TcpDone \/ AppDone

Next == \/ Tick
        \/ Check \/ Return \/ Expire
        \/ CyclicDone \/ TcpDone \/ AppDone
        \/ \E a \in App : \E msecs \in 0 .. MaxMsecs : StartApp(a, msecs)
        \/ \E a \in App : StopApp(a)
        \/ TcpOpens \/ TcpCloses

Spec == Init /\ [][Next]_vars

\* Time passes, the main loop comes round, and handlers return.
FairSpec == /\ Spec
            /\ WF_vars(Tick)
            /\ WF_vars(Check \/ Return \/ Expire \/ HandlerDone)

-----------------------------------------------------------------------------
(* Properties.                                                             *)

TypeOK ==
  /\ clock \in Clock
  /\ next_timeout \in Seq(Timeouts)
  /\ pc \in {"idle", "check", "handler"}
  /\ now \in Clock
  /\ h \in Handlers \cup {NoHandler}
  /\ due \in Clock
  /\ dueLeft \in -MaxLate .. MaxMsecs
  /\ tcpip_tcp_timer_active \in BOOLEAN
  /\ tcp_pcbs \in BOOLEAN

\* The list is in the order the timeouts are truly due, across the
\* wrap-around and whatever handlers do to it; sys_check_timeouts, which
\* stops at the first timeout that is not due, relies on it.  The times stay
\* within the clock.
Sorted ==
  /\ TypeOK
  /\ \A k \in 2 .. Len(next_timeout) :
       next_timeout[k - 1].left <= next_timeout[k].left

\* No handler runs before its time.
NeverEarly == pc = "handler" => dueLeft <= 0

\* sys_check_timeouts does not return while a timeout is due that was due
\* when it was called, and what it leaves behind fell due since then.
NoneLeftDue ==
  Return => \A k \in 1 .. Len(next_timeout) :
              next_timeout[k].left + ((clock - now) % Wrap) > 0

AllDueHandled == [][NoneLeftDue]_vars

\* A cyclic timer is in the list exactly once or its handler is running: its
\* pool element, freed before the handler is called, is there to be taken
\* again although the handlers start other timeouts.
CyclicAlive ==
  \A c \in Cyclic :
    Cardinality(At(next_timeout, c)) = IF pc = "handler" /\ h = c THEN 0 ELSE 1

\* The TCP timer runs, once, while there are connections, however they come
\* and go around its expiry.
TcpTimerRuns ==
  /\ tcp_pcbs => tcpip_tcp_timer_active
  /\ Cardinality(At(next_timeout, Tcp)) =
       IF tcpip_tcp_timer_active /\ ~(pc = "handler" /\ h = Tcp) THEN 1 ELSE 0

\* No timer starves: a cyclic handler runs again and again, however the
\* handlers delay the main loop.
CyclicRuns == \A c \in Cyclic : []<>(pc = "handler" /\ h = c)

\* sys_check_timeouts comes back to the main loop ("Process only timers
\* expired at the start of the function"), although handlers take longer
\* than their intervals and arm themselves again before it goes on.
CheckReturns == pc # "idle" ~> pc = "idle"
=============================================================================
