---------------------------- MODULE RequestShaper ----------------------------
(***************************************************************************)
(* The request shaping of trans_lane_pending_ctl.c: SessionParam ->        *)
(* LaneRequestOption (GetRequestOptionBySessionParam) or LaneAllocInfo     *)
(* (GetAllocInfoBySessionParam), with the preferred-link translation, the  *)
(* legacy-OS / mesh-sync adaptation and the QoS extraction.                *)
(*                                                                         *)
(* A session name is a sequence of chunks: each name constant of the code  *)
(* is one chunk, "OTHER" stands for any text that is none of them, so      *)
(* <<"DSL", "OTHER">> is "device.security.level" followed by more text.    *)
(* strcmp is equality of names, strncmp(name, C, strlen(C)) is a prefix.   *)
(* The ledger and uid/pid lookups the shaping makes are inputs (env).      *)
(***************************************************************************)
EXTENDS Integers, Sequences, FiniteSets

LOCAL FS == INSTANCE FiniteSetsExt

\* Session-name constants (the #defines at the top of the file).
SESSION_NAME_PHONEPAD                 == "PHONEPAD"
SESSION_NAME_CASTPLUS                 == "CASTPLUS"
SESSION_NAME_DISTRIBUTE_COMMUNICATION == "BOOSTERD"
SESSION_NAME_ISHARE                   == "IShare"
SESSION_NAME_DBD                      == "DBD"
SESSION_NAME_DSL                      == "DSL"
NameChunks == {SESSION_NAME_PHONEPAD, SESSION_NAME_CASTPLUS,
               SESSION_NAME_DISTRIBUTE_COMMUNICATION, SESSION_NAME_ISHARE,
               SESSION_NAME_DBD, SESSION_NAME_DSL, "OTHER"}

\* strncmp(name, c, strlen(c)) == 0
HasPrefix(name, c) == Len(name) > 0 /\ name[1] = c

LANE_LINK_TYPE_BUTT == "LANE_LINK_TYPE_BUTT"
LINK_TYPE_MAX == 9

\* g_laneMap, indexed by the session LinkType 0..LINK_TYPE_MAX.
g_laneMap ==
    <<LANE_LINK_TYPE_BUTT, "LANE_WLAN_5G", "LANE_WLAN_2P4G", "LANE_P2P", "LANE_BR",
      "LANE_BLE", "LANE_P2P_REUSE", "LANE_BLE_DIRECT", "LANE_COC", "LANE_COC_DIRECT">>

TransGetLaneLinkTypeBySessionLinkType(type) == g_laneMap[type + 1]

\* Mutant: the BUTT test breaks out of the loop instead of continuing.
RECURSIVE PreferredLoopBreakOnButt(_, _, _)
PreferredLoopBreakOnButt(links, i, preferred) ==
    IF i > Len(links) THEN preferred
    ELSE LET linkType == TransGetLaneLinkTypeBySessionLinkType(links[i]) IN
         IF linkType = LANE_LINK_TYPE_BUTT \/ Len(preferred) >= LINK_TYPE_MAX
           THEN preferred
           ELSE PreferredLoopBreakOnButt(links, i + 1, Append(preferred, linkType))

\* The for-loop of TransformSessionPreferredToLanePreferred: skip entries
\* mapping to BUTT, stop once LINK_TYPE_MAX links are collected.
RECURSIVE PreferredLoop(_, _, _)
PreferredLoop(links, i, preferred) ==
    IF i > Len(links) THEN preferred
    ELSE LET linkType == TransGetLaneLinkTypeBySessionLinkType(links[i]) IN
         IF linkType = LANE_LINK_TYPE_BUTT
           THEN PreferredLoop(links, i + 1, preferred)
           ELSE IF Len(preferred) >= LINK_TYPE_MAX
             THEN preferred
             ELSE PreferredLoop(links, i + 1, Append(preferred, linkType))

TransformSessionPreferredToLanePreferred(links) ==
    IF Len(links) <= 0 \/ Len(links) > LINK_TYPE_MAX THEN <<>>
    ELSE PreferredLoop(links, 1, <<>>)

\* strlen(name) >= ISHARE_MIN_NAME_LEN and the name starts with "IShare".
IsShareSession(name) == HasPrefix(name, SESSION_NAME_ISHARE)

\* env.authOk: LnnGetDLAuthCapacity succeeded; env.authCapacity its answer.
PeerDeviceIsLegacyOs(env, name) ==
    /\ env.authOk
    /\ env.authCapacity = 0
    /\ HasPrefix(name, SESSION_NAME_DBD) \/ HasPrefix(name, SESSION_NAME_DSL)

IsMeshSync(name) == HasPrefix(name, SESSION_NAME_DSL)

ModuleLaneAdapterLinks == <<"LANE_WLAN_5G", "LANE_WLAN_2P4G", "LANE_BR">>

\* Whether the name selects networkDelegate (both request shapes).
NetworkDelegate(name) ==
    name = <<SESSION_NAME_PHONEPAD>> \/ name = <<SESSION_NAME_CASTPLUS>>

\* LNN_PROTOCOL_ALL ^ LNN_PROTOCOL_NIP, with NIP added back for an LSA peer.
AcceptableProtocols(env) ==
    IF env.lsa THEN "LNN_PROTOCOL_ALL" ELSE "LNN_PROTOCOL_ALL_BUT_NIP"

\* GetRequestOptionBySessionParam: its return code, the request option, and
\* the *isQosLane it leaves (ModuleLaneAdapter forces FALSE).
GetRequestOptionBySessionParam(param, env) ==
    LET name  == param.sessionName
        adapt == PeerDeviceIsLegacyOs(env, name) \/ IsMeshSync(name)
    IN
    IF ~env.transTypeOk
      THEN [ret |-> "SOFTBUS_TRANS_INVALID_SESSION_TYPE", isQosLane |-> param.isQosLane]
    ELSE IF ~env.uidPidOk
      THEN [ret |-> "UID_PID_ERR", isQosLane |-> param.isQosLane]
    ELSE [ret |-> "SOFTBUS_OK",
          isQosLane |-> param.isQosLane /\ ~adapt,
          networkDelegate |-> NetworkDelegate(name),
          p2pOnly |-> name = <<SESSION_NAME_DISTRIBUTE_COMMUNICATION>> \/ IsShareSession(name),
          acceptableProtocols |-> AcceptableProtocols(env),
          expectedLink |-> IF adapt THEN ModuleLaneAdapterLinks
                           ELSE TransformSessionPreferredToLanePreferred(param.linkType)]

QosInfoZero == [minBW |-> 0, maxLaneLatency |-> 0, minLaneLatency |-> 0, rttLevel |-> 0]

\* Mutant: QOS_TYPE_RTT_LEVEL copied without clamping negatives to 0.
RECURSIVE QosLoopNoClamp(_, _, _)
QosLoopNoClamp(qos, i, info) ==
    IF i > Len(qos) THEN info
    ELSE LET tv == qos[i] IN
         QosLoopNoClamp(qos, i + 1,
             CASE tv.qos = "QOS_TYPE_MIN_BW"      -> [info EXCEPT !.minBW = tv.value]
               [] tv.qos = "QOS_TYPE_MAX_LATENCY" -> [info EXCEPT !.maxLaneLatency = tv.value]
               [] tv.qos = "QOS_TYPE_MIN_LATENCY" -> [info EXCEPT !.minLaneLatency = tv.value]
               [] tv.qos = "QOS_TYPE_RTT_LEVEL"   -> [info EXCEPT !.rttLevel = tv.value]
               [] OTHER                           -> info)

\* The switch over param->qos[0 .. qosCount-1] in TransGetQosInfo.
RECURSIVE QosLoop(_, _, _)
QosLoop(qos, i, info) ==
    IF i > Len(qos) THEN info
    ELSE LET tv == qos[i] IN
         QosLoop(qos, i + 1,
             CASE tv.qos = "QOS_TYPE_MIN_BW"      -> [info EXCEPT !.minBW = tv.value]
               [] tv.qos = "QOS_TYPE_MAX_LATENCY" -> [info EXCEPT !.maxLaneLatency = tv.value]
               [] tv.qos = "QOS_TYPE_MIN_LATENCY" -> [info EXCEPT !.minLaneLatency = tv.value]
               [] tv.qos = "QOS_TYPE_RTT_LEVEL"   ->
                    [info EXCEPT !.rttLevel = IF tv.value > 0 THEN tv.value ELSE 0]
               [] OTHER                           -> info)

\* qosRequire starts zeroed (memset of allocInfo by the caller).
TransGetQosInfo(qos, isQosLane) ==
    IF ~isQosLane THEN QosInfoZero ELSE QosLoop(qos, 1, QosInfoZero)

\* GetAllocInfoBySessionParam, called with the *isQosLane the request
\* option left.
GetAllocInfoBySessionParam(param, env, isQosLane) ==
    IF ~env.transTypeOk
      THEN [ret |-> "SOFTBUS_TRANS_INVALID_SESSION_TYPE"]
    ELSE IF ~env.uidPidOk
      THEN [ret |-> "UID_PID_ERR"]
    ELSE [ret |-> "SOFTBUS_OK",
          networkDelegate |-> NetworkDelegate(param.sessionName),
          acceptableProtocols |-> AcceptableProtocols(env),
          qosRequire |-> TransGetQosInfo(param.qos, isQosLane)]

-----------------------------------------------------------------------------
(* Reference definitions, from spec.md 4.2, for the checks.                *)

\* Step 6: the lane-link image of each entry, in order, BUTT entries dropped;
\* an empty or over-long list gives no preferred links.
PreferredReference(links) ==
    IF Len(links) \in 1..LINK_TYPE_MAX
      THEN SelectSeq([i \in DOMAIN links |-> g_laneMap[links[i] + 1]],
                     LAMBDA l : l # LANE_LINK_TYPE_BUTT)
      ELSE <<>>

\* Step 8: each field holds the value of the last entry of its kind (the
\* RTT level clamped at 0), or 0 when there is none.
LastValueOf(qos, kind) ==
    LET at == {i \in DOMAIN qos : qos[i].qos = kind} IN
    IF at = {} THEN 0 ELSE qos[FS!Max(at)].value

QosReference(qos) ==
    [minBW          |-> LastValueOf(qos, "QOS_TYPE_MIN_BW"),
     maxLaneLatency |-> LastValueOf(qos, "QOS_TYPE_MAX_LATENCY"),
     minLaneLatency |-> LastValueOf(qos, "QOS_TYPE_MIN_LATENCY"),
     rttLevel       |-> IF LastValueOf(qos, "QOS_TYPE_RTT_LEVEL") > 0
                          THEN LastValueOf(qos, "QOS_TYPE_RTT_LEVEL") ELSE 0]
=============================================================================
