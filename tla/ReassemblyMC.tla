---------------------------- MODULE ReassemblyMC ----------------------------
(* A small instance of Reassembly for TLC: a datagram that is as long as    *)
(* one may be, one that is longer, and one whose end does not fit in u16_t.*)
EXTENDS Reassembly

IdsMC == {"full", "over", "wrapped"}
SizeMC == [d \in IdsMC |-> CASE d = "full" -> MaxLen
                             [] d = "over" -> MaxLen + 1
                             [] d = "wrapped" -> Wrap]
=============================================================================
