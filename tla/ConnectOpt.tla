----------------------------- MODULE ConnectOpt -----------------------------
(***************************************************************************)
(* The LaneConnInfo -> ConnectOption translator of                         *)
(* trans_lane_pending_ctl.c (TransGetConnectOptByConnInfo and its Set*     *)
(* helpers).  The address payloads (ip, mac, port, psm) are copied field   *)
(* for field and are abstracted away: what the rest of the controller      *)
(* reads from the result is the ConnectOption type, and whether the        *)
(* translation failed.                                                     *)
(***************************************************************************)

\* The LaneLinkType values a LaneConnInfo can carry.
LaneLinkTypes ==
    {"LANE_BR", "LANE_BLE", "LANE_P2P", "LANE_WLAN_5G", "LANE_WLAN_2P4G",
     "LANE_P2P_REUSE", "LANE_BLE_DIRECT", "LANE_COC", "LANE_COC_DIRECT",
     "LANE_HML", "LANE_ETH", "LANE_LINK_TYPE_BUTT"}

\* The ConnectOption types, and the failure result.
ConnectTypes ==
    {"CONNECT_TCP", "CONNECT_BR", "CONNECT_BLE", "CONNECT_P2P",
     "CONNECT_P2P_REUSE", "CONNECT_BLE_DIRECT", "CONNECT_HML"}
ConnErr == "SOFTBUS_ERR"

\* The Set*ConnInfo helper each branch calls, by the type it writes.
SetP2pConnInfo        == "CONNECT_P2P"
SetWlanConnInfo       == "CONNECT_TCP"
SetBrConnInfo         == "CONNECT_BR"
SetBleConnInfo        == "CONNECT_BLE"
SetP2pReusesConnInfo  == "CONNECT_P2P_REUSE"
SetBleDirectConnInfo  == "CONNECT_BLE_DIRECT"
SetHmlConnectInfo     == "CONNECT_HML"

\* The if-chain of TransGetConnectOptByConnInfo, in the code's order: the
\* first branch that matches decides, so LANE_HML is taken by the P2P branch.
TransGetConnectOptByConnInfo(type) ==
    IF type \in {"LANE_P2P", "LANE_HML"} THEN SetP2pConnInfo
    ELSE IF type \in {"LANE_WLAN_2P4G", "LANE_WLAN_5G", "LANE_ETH"} THEN SetWlanConnInfo
    ELSE IF type = "LANE_BR" THEN SetBrConnInfo
    ELSE IF type \in {"LANE_BLE", "LANE_COC"} THEN SetBleConnInfo
    ELSE IF type = "LANE_P2P_REUSE" THEN SetP2pReusesConnInfo
    ELSE IF type \in {"LANE_BLE_DIRECT", "LANE_COC_DIRECT"} THEN SetBleDirectConnInfo
    ELSE IF type = "LANE_HML" THEN SetHmlConnectInfo
    ELSE ConnErr
=============================================================================
