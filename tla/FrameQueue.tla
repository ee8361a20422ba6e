----------------------------- MODULE FrameQueue -----------------------------
(***************************************************************************)
(* What the transmit path of the driver promises to the stack: frames that *)
(* have been accepted wait in a bounded queue and go out one at a time, in *)
(* the order they were accepted, each of them whole.  A frame on the wire  *)
(* is the sequence of its segments.                                        *)
(***************************************************************************)
EXTENDS Naturals, Sequences

CONSTANTS
  Frames,    \* records with the fields payload and segs
  Capacity   \* how many frames can wait

VARIABLES
  queue,  \* accepted frames that have not gone out, oldest first
  wire    \* the segments of the frame going out, <<>> when there is none

Whole(f) ==
  [n \in 1 .. f.segs |-> [payload |-> f.payload, segs |-> f.segs, seg |-> n]]

Init ==
  /\ queue = <<>>
  /\ wire = <<>>

Accept(f) ==
  /\ Len(queue) < Capacity
  /\ queue' = Append(queue, f)
  /\ UNCHANGED wire

Send ==
  /\ queue # <<>>
  /\ wire = <<>>
  /\ wire' = Whole(Head(queue))
  /\ queue' = Tail(queue)

Finish ==
  /\ wire # <<>>
  /\ wire' = <<>>
  /\ UNCHANGED queue

Next == (\E f \in Frames : Accept(f)) \/ Send \/ Finish

Spec == Init /\ [][Next]_<<queue, wire>>
=============================================================================
