----------------------------- MODULE FrameInbox -----------------------------
(***************************************************************************)
(* What the receive path of the driver promises to the stack: the frames   *)
(* that fitted into the ring, or as much of them as did, are taken in the  *)
(* order they came, and each is passed on as it came, without the CRC, or, *)
(* for want of memory, not at all.                                         *)
(***************************************************************************)
EXTENDS Naturals, Sequences

CONSTANTS
  Frames,    \* records with the fields payload, segs and bare
  Capacity   \* how many frames can wait

VARIABLES
  inbox,   \* frames that have come in, with the segments of data got
  taken    \* the segments of the frame being passed on, <<>> if none

Segs(e) ==
  [n \in 1 .. e.got |-> [payload |-> e.payload, segs |-> e.segs, seg |-> n]]

Init ==
  /\ inbox = <<>>
  /\ taken = <<>>

\* n segments of f, the last one of which may hold but bytes of the CRC.
DataOf(f, n) == IF f.bare /\ n = f.segs THEN n - 1 ELSE n

ComeIn(f, n) ==
  /\ Len(inbox) < Capacity
  /\ inbox' = Append(inbox, [payload |-> f.payload, segs |-> f.segs,
                             got |-> DataOf(f, n)])
  /\ UNCHANGED taken

Take ==
  /\ inbox # <<>>
  /\ taken = <<>>
  /\ taken' = Segs(Head(inbox))
  /\ inbox' = Tail(inbox)

NoMemory ==
  /\ inbox # <<>>
  /\ taken = <<>>
  /\ inbox' = Tail(inbox)
  /\ UNCHANGED taken

PassOn ==
  /\ taken # <<>>
  /\ taken' = <<>>
  /\ UNCHANGED inbox

Next == \/ \E f \in Frames : \E n \in 1 .. f.segs : ComeIn(f, n)
        \/ Take
        \/ NoMemory
        \/ PassOn

Spec == Init /\ [][Next]_<<inbox, taken>>
=============================================================================
