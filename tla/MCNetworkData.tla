---------------------------- MODULE MCNetworkData ----------------------------
(***************************************************************************)
(* One or two interfaces, with an address each or with one between them.   *)
(***************************************************************************)
EXTENDS NetworkData

CONSTANTS eth, wlan, mac1, mac2

MCOwnAddress    == [ni \in Interfaces |-> IF ni = eth THEN mac1 ELSE mac2]
MCSharedAddress == [ni \in Interfaces |-> mac1]
MCAddressMaps   == {MCOwnAddress, MCSharedAddress}
MCOneMap        == {MCOwnAddress}
=============================================================================
