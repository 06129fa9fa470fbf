------------------------- MODULE MC_TransLanePending -------------------------
(***************************************************************************)
(* Model-checking instance of TransLanePending.                            *)
(* Two requests, so that a sync and an async request (or two of either)    *)
(* interleave; three link kinds: a WLAN link (TCP connect option), a P2P   *)
(* link, and an HML link (which the translator turns into a P2P option);   *)
(* a TCP_DIRECT and a proxy channel, so that both the free-at-once and the *)
(* bind-to-channel tails of TransAsyncOpenChannelProc are reached.         *)
(***************************************************************************)
EXTENDS TransLanePending

MCLinkKinds    == {"LANE_WLAN_5G", "LANE_P2P", "LANE_HML"}
MCChannelTypes == {"CHANNEL_TYPE_TCP_DIRECT", "CHANNEL_TYPE_PROXY"}

\* A distributeddata-default session and an ordinary one, each asking for a
\* QoS lane or not; the peer is a legacy OS (authCapacity 0) or not, and
\* the uid/pid lookup may fail, so that the adapter's downgrade of
\* isQosLane and the shaping error both happen.
MCSessionParams ==
    [sessionName : {<<"DBD">>, <<"OTHER">>}, isQosLane : BOOLEAN,
     linkType : {<<>>}, qos : {<<>>}]
MCEnvs ==
    {[authOk |-> TRUE, authCapacity |-> 0, lsa |-> FALSE, transTypeOk |-> TRUE, uidPidOk |-> TRUE],
     [authOk |-> TRUE, authCapacity |-> 1, lsa |-> FALSE, transTypeOk |-> TRUE, uidPidOk |-> TRUE],
     [authOk |-> TRUE, authCapacity |-> 1, lsa |-> FALSE, transTypeOk |-> TRUE, uidPidOk |-> FALSE]}
=============================================================================
