------------------------------ MODULE EthTxMC ------------------------------
(* Small instances of EthTx for TLC.                                       *)
EXTENDS EthTxRefinement, EthTxProofs

CONSTANTS p1, p2

TwoPayloads == {p1, p2}
OnePayload == {p1}
=============================================================================
