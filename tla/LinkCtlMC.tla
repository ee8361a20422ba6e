----------------------------- MODULE LinkCtlMC ------------------------------
(* A small instance of LinkCtl for TLC.                                    *)
EXTENDS LinkCtl

Full100 == [FES |-> TRUE, DM |-> TRUE]
Half100 == [FES |-> TRUE, DM |-> FALSE]
Half10  == [FES |-> FALSE, DM |-> FALSE]

ModesMC == {Full100, Half100, Half10}

\* A switch negotiates anything; "half100" offers one mode only; a hub does
\* not negotiate and is detected by its speed; nobody answers if unplugged.
PartnersMC == {"switch", "half100", "hub", "unplugged"}

ResolvesMC(adv, p) ==
  CASE p = "switch" -> Full100
    [] p = "half100" /\ adv = "ALL" -> Half100
    [] p = "hub" -> Half10
    [] OTHER -> NoLink
=============================================================================
