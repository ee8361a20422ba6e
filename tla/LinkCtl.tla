------------------------------ MODULE LinkCtl -------------------------------
(***************************************************************************)
(* How the board brings up its link: ETH_Init and ETH_BSP_Config at the    *)
(* start, LwIP_Init, which decides from EthStatus whether there is a link, *)
(* and ETH_link_callback, whenever the application tells lwIP of a change  *)
(* (nothing in the library does).  The cable and the PHY change at any     *)
(* time, also between two reads of the PHY; both are external.             *)
(*                                                                         *)
(* ETH_AutoNegotiation is enabled, as ETH_MACDMA_Config sets it.  The MII  *)
(* transfers themselves are taken to succeed.                              *)
(***************************************************************************)
CONSTANTS
  Partners,       \* what may be at the other end of the cable
  Resolves(_, _), \* the mode the PHY settles on with a partner, by what
                  \* it advertises ("ALL" or "100FULL"), or NoLink
  Modes,          \* speed and duplex: records with the fields FES and DM
  NoLink

ASSUME LinkAssumption ==
  /\ Modes \subseteq [FES : BOOLEAN, DM : BOOLEAN]
  /\ NoLink \notin Modes
  /\ \A adv \in {"ALL", "100FULL"}, q \in Partners :
       Resolves(adv, q) \in Modes \cup {NoLink}

VARIABLES
  partner,        \* at the other end of the cable
  advertised,     \* PHY_ADVERTISE
  phy,            \* the mode the PHY has settled on, NoLink meanwhile
  pc,             \* where the program is in the start or in the callback
  failed,         \* err = ETH_ERROR in ETH_Init
  InitStructure,  \* ETH_Speed and ETH_Mode of ETH_InitStructure
  MACCR,          \* the bits FES and DM of the MAC
  started,        \* MAC and DMA are enabled
  EthStatus,      \* the flags INIT and LINK
  flags,          \* the flags LINK_UP and UP of the interface
  DHCP_state      \* what the link makes of it: "START" or "LINK_DOWN"

env  == <<partner, phy>>
linkVars == <<partner, advertised, phy, pc, failed, InitStructure, MACCR, started,
          EthStatus, flags, DHCP_state>>

LinkInit ==
  /\ partner \in Partners
  /\ advertised = "ALL"
  /\ phy = NoLink
  /\ pc = "reset"
  /\ failed = FALSE
  /\ InitStructure = [FES |-> TRUE, DM |-> TRUE]
  /\ MACCR = [FES |-> FALSE, DM |-> FALSE]
  /\ started = FALSE
  /\ EthStatus = {}
  /\ flags = {}
  /\ DHCP_state = "START"

-----------------------------------------------------------------------------
(* The cable and the PHY (external).                                       *)

\* The cable is pulled, or plugged in somewhere else.
Replug(q) ==
  /\ q # partner
  /\ partner' = q
  /\ phy' = NoLink
  /\ UNCHANGED <<advertised, pc, failed, InitStructure, MACCR, started,
                 EthStatus, flags, DHCP_state>>

\* The PHY has settled with its partner, by negotiation or without.
Settle ==
  /\ phy = NoLink
  /\ phy' = Resolves(advertised, partner)
  /\ UNCHANGED <<partner, advertised, pc, failed, InitStructure, MACCR,
                 started, EthStatus, flags, DHCP_state>>

\* What PHY_SR may say of speed and duplex: anything, without a link.
StatusRead == IF phy = NoLink THEN Modes ELSE {phy}

-----------------------------------------------------------------------------
(* The start: ETH_Init, ETH_BSP_Config and LwIP_Init.                      *)

\* ETH_Init waits for the link and, when there is one, enables the
\* negotiation, which the PHY may then go through again; it gives up after
\* PHY_READ_TO reads.
WaitLink ==
  /\ pc = "reset"
  /\ IF phy = NoLink
       THEN /\ failed' = TRUE
            /\ pc' = "configure"
            /\ UNCHANGED phy
       ELSE /\ phy' \in {phy, NoLink}
            /\ pc' = "negotiate"
            /\ UNCHANGED failed
  /\ UNCHANGED <<partner, advertised, InitStructure, MACCR, started,
                 EthStatus, flags, DHCP_state>>

\* It waits for the negotiation in the same way.
WaitNegotiation ==
  /\ pc = "negotiate"
  /\ failed' = (phy = NoLink)
  /\ pc' = "configure"
  /\ UNCHANGED <<env, advertised, InitStructure, MACCR, started, EthStatus,
                 flags, DHCP_state>>

\* The mode ETH_Init sets up: the PHY's or, after a failure, 100 Mbit/s and
\* full duplex.
ModeAfterInit == IF failed THEN {[FES |-> TRUE, DM |-> TRUE]} ELSE StatusRead

\* ETH_Init sets up the MAC and returns.
Configure ==
  /\ pc = "configure"
  /\ InitStructure' \in ModeAfterInit
  /\ MACCR' = InitStructure'
  /\ EthStatus' = IF failed THEN {} ELSE {"INIT"}
  /\ pc' = "bsp"
  /\ UNCHANGED <<env, advertised, failed, started, flags, DHCP_state>>

\* ETH_BSP_Config reads the link once more.
BspConfig ==
  /\ pc = "bsp"
  /\ EthStatus' = IF phy # NoLink THEN EthStatus \cup {"LINK"} ELSE EthStatus
  /\ pc' = "lwip"
  /\ UNCHANGED <<env, advertised, failed, InitStructure, MACCR, started,
                 flags, DHCP_state>>

\* Mutant of LinkAtStart: the link alone is enough.
LinkAtStartOnly == "LINK" \in EthStatus

LinkAtStart == EthStatus = {"INIT", "LINK"}

\* LwIP_Init: netif_add ends in ETH_Start; then the link.
LwipInit ==
  /\ pc = "lwip"
  /\ started' = TRUE
  /\ flags' = IF LinkAtStart THEN {"LINK_UP", "UP"} ELSE {}
  /\ DHCP_state' = IF LinkAtStart THEN "START" ELSE "LINK_DOWN"
  /\ pc' = "loop"
  /\ UNCHANGED <<env, advertised, failed, InitStructure, MACCR, EthStatus>>

-----------------------------------------------------------------------------
(* The application tells of the link, truly or late: netif_set_link_up and *)
(* netif_set_link_down call ETH_link_callback when the flag changes.       *)

\* The link is up: the callback advertises 100 Mbit/s and full duplex only,
\* and enables the negotiation.
LinkUp ==
  /\ pc = "loop"
  /\ "LINK_UP" \notin flags
  /\ flags' = flags \cup {"LINK_UP"}
  /\ advertised' = "100FULL"
  /\ phy' \in {phy, NoLink}
  /\ pc' = "renegotiate"
  /\ UNCHANGED <<partner, failed, InitStructure, MACCR, started, EthStatus,
                 DHCP_state>>

\* Mutant of Renegotiated: without a result the callback returns.
RenegotiatedGivesUp ==
  /\ pc = "renegotiate"
  /\ phy = NoLink
  /\ pc' = "loop"
  /\ UNCHANGED <<env, advertised, failed, InitStructure, MACCR, started,
                 EthStatus, flags, DHCP_state>>

\* It waits, takes what PHY_SR says when the negotiation is complete or was
\* waited for long enough, adds the bits to MACCR and starts the MAC.
Renegotiated ==
  /\ pc = "renegotiate"
  /\ InitStructure' \in StatusRead
  /\ MACCR' = [FES |-> MACCR.FES \/ InitStructure'.FES,
               DM  |-> MACCR.DM \/ InitStructure'.DM]
  /\ started' = TRUE
  /\ flags' = flags \cup {"UP"}
  /\ DHCP_state' = "START"
  /\ pc' = "loop"
  /\ UNCHANGED <<env, advertised, failed, EthStatus>>

\* Mutant of LinkDown: the MAC runs on.
LinkDownRunning ==
  /\ pc = "loop"
  /\ "LINK_UP" \in flags
  /\ flags' = {}
  /\ DHCP_state' = "LINK_DOWN"
  /\ UNCHANGED <<env, advertised, pc, failed, InitStructure, MACCR, started,
                 EthStatus>>

\* The link is down: ETH_Stop, and the interface is down too.
LinkDown ==
  /\ pc = "loop"
  /\ "LINK_UP" \in flags
  /\ flags' = {}
  /\ started' = FALSE
  /\ DHCP_state' = "LINK_DOWN"
  /\ UNCHANGED <<env, advertised, pc, failed, InitStructure, MACCR,
                 EthStatus>>

LinkNext == \/ \E q \in Partners : Replug(q)
        \/ Settle
        \/ WaitLink \/ WaitNegotiation \/ Configure \/ BspConfig \/ LwipInit
        \/ LinkUp \/ Renegotiated \/ LinkDown

LinkSpec == LinkInit /\ [][LinkNext]_linkVars

-----------------------------------------------------------------------------
(* Properties.                                                             *)

LinkTypeOK ==
  /\ partner \in Partners
  /\ advertised \in {"ALL", "100FULL"}
  /\ phy \in Modes \cup {NoLink}
  /\ pc \in {"reset", "negotiate", "configure", "bsp", "lwip", "loop",
             "renegotiate"}
  /\ failed \in BOOLEAN
  /\ InitStructure \in [FES : BOOLEAN, DM : BOOLEAN]
  /\ MACCR \in [FES : BOOLEAN, DM : BOOLEAN]
  /\ started \in BOOLEAN
  /\ EthStatus \subseteq {"INIT", "LINK"}
  /\ flags \subseteq {"LINK_UP", "UP"}
  /\ DHCP_state \in {"START", "LINK_DOWN"}

\* Whatever the PHY does in between, the parts agree when the main loop goes
\* on: an interface that is up has its link, a running MAC and DHCP, and one
\* that is down has none of them (the MAC runs before the first report, for
\* netif_add started it).
PartsAgree ==
  pc = "loop" =>
    IF "UP" \in flags
      THEN "LINK_UP" \in flags /\ started /\ DHCP_state = "START"
      ELSE "LINK_UP" \notin flags /\ DHCP_state = "LINK_DOWN"

\* The board comes up by itself only after a negotiation that was completed:
\* the mode ETH_Init falls back to never carries a frame at the start.
UpAsNegotiated ==
  [][pc = "lwip" /\ "UP" \in flags' => ~failed /\ InitStructure \in Modes]_linkVars

\* Every time the interface goes up the MAC and the DMA engine are enabled,
\* and every time it goes down they are stopped.
MacFollowsInterface ==
  [][~("UP" \in flags <=> "UP" \in flags')
       => (started' <=> "UP" \in flags')]_linkVars

\* "Set the FES bit according to ETH_Speed value", "Set the DM bit according
\* to ETH_Mode value" (ETH_link_callback).
MacAsNegotiated == pc = "loop" => MACCR = InitStructure
=============================================================================
