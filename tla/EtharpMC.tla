------------------------------ MODULE EtharpMC ------------------------------
(* A small instance of Etharp for TLC: more next hops than entries, and two *)
(* packets for one of them.                                                *)
EXTENDS Etharp

IpsMC == {"gateway", "host", "other"}
PacketsMC == [p \in {"g1", "g2", "h1", "o1"} |->
                CASE p \in {"g1", "g2"} -> "gateway"
                  [] p = "h1" -> "host"
                  [] p = "o1" -> "other"]
=============================================================================
