------------------------------- MODULE DhcpMC -------------------------------
(* Small instances of Dhcp for TLC.                                        *)
EXTENDS Dhcp

LeasesMC == {[t0 |-> 2, t1 |-> 1, t2 |-> 2], [t0 |-> 3, t1 |-> 1, t2 |-> 2]}
=============================================================================
