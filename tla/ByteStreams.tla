---------------------------- MODULE ByteStreams ----------------------------
(***************************************************************************)
(* What a TCP connection promises the programs at its two ends: the bytes  *)
(* each of them writes reach the other in order, each once, and the other  *)
(* is told of the end of the stream only after it has got all of it.       *)
(* Nothing says that they arrive at all.                                   *)
(***************************************************************************)
EXTENDS Naturals, Sequences

CONSTANTS
  Ends, Other(_),
  Sizes    \* how many bytes one write may have

VARIABLES
  wrote,   \* how many bytes each end has written; the n-th byte is n
  ended,   \* the ends that will write no more
  got,     \* the bytes each end has been handed
  told     \* the ends that have been told of the other's end

Init ==
  /\ wrote = [e \in Ends |-> 0]
  /\ ended = {}
  /\ got = [e \in Ends |-> <<>>]
  /\ told = {}

Write(e) ==
  /\ e \notin ended
  /\ \E n \in Sizes : wrote' = [wrote EXCEPT ![e] = @ + n]
  /\ UNCHANGED <<ended, got, told>>

End(e) ==
  /\ ended' = ended \cup {e}
  /\ UNCHANGED <<wrote, got, told>>

\* The next bytes, possibly the last with the end of the stream.
Receive(e) ==
  /\ \E n \in Len(got[e]) .. wrote[Other(e)] :
       /\ got' = [got EXCEPT ![e] = [i \in 1 .. n |-> i]]
       /\ \/ told' = told
          \/ /\ Other(e) \in ended /\ n = wrote[Other(e)]
             /\ told' = told \cup {e}
  /\ UNCHANGED <<wrote, ended>>

Next == \E e \in Ends : Write(e) \/ End(e) \/ Receive(e)

Spec == Init /\ [][Next]_<<wrote, ended, got, told>>
=============================================================================
