----------------------------- MODULE TimeoutsMC -----------------------------
(* Small instances of Timeouts for TLC.                                    *)
EXTENDS Timeouts

CONSTANTS arp, dhcp

IntervalMC == [x \in Cyclic \cup {Tcp} |-> CASE x = arp  -> 1
                                            [] x = dhcp -> 3
                                            [] x = Tcp  -> 2]
=============================================================================
