-------------------------- MODULE MC_RequestShaper --------------------------
(***************************************************************************)
(* Checks the pure shaping operators of RequestShaper against the          *)
(* reference definitions, over every input up to the bounds below.  The    *)
(* input is chosen in the initial state and never changes.                 *)
(*                                                                         *)
(* Preferred links: every list of length 0 .. LINK_TYPE_MAX + 1 over the   *)
(* session link types 0 (maps to BUTT), 1 and 9 (the last map entry), so   *)
(* the empty list, the over-long list, BUTT entries before, between and    *)
(* after real ones, and repeats all occur.  QoS: every list of up to three *)
(* entries over the four handled kinds and one unhandled kind, with a      *)
(* negative, a zero and a positive value, so duplicates, an unhandled kind *)
(* and a negative RTT level all occur.                                     *)
(***************************************************************************)
EXTENDS Integers, Sequences, FiniteSets

RS == INSTANCE RequestShaper

VARIABLE input

SessionLinkTypes == {0, 1, 9}
LinkLists == UNION {[1..n -> SessionLinkTypes] : n \in 0..(RS!LINK_TYPE_MAX + 1)}

QosKinds == {"QOS_TYPE_MIN_BW", "QOS_TYPE_MAX_LATENCY", "QOS_TYPE_MIN_LATENCY",
             "QOS_TYPE_RTT_LEVEL", "QOS_TYPE_MAX_WAIT_TIMEOUT"}
QosTVs   == [qos : QosKinds, value : {-1, 0, 2}]
QosLists == UNION {[1..n -> QosTVs] : n \in 0..3}

Init == input \in {[kind |-> "links", v |-> l] : l \in LinkLists}
                  \cup {[kind |-> "qos", v |-> q] : q \in QosLists}

Next == UNCHANGED input

Spec == Init /\ [][Next]_input

\* TransformSessionPreferredToLanePreferred gives the g_laneMap image of the
\* session's preferred links in order with BUTT entries skipped, and gives
\* nothing for an empty or over-long list (spec.md 4.2 step 6).
PreferredLinksMatchReference ==
    input.kind = "links" =>
        RS!TransformSessionPreferredToLanePreferred(input.v) = RS!PreferredReference(input.v)

\* TransGetQosInfo leaves in each QoS field the value of the last entry of
\* its kind, clamps a negative RTT level to 0, ignores unhandled kinds, and
\* fills nothing for a non-QoS request (spec.md 4.2 step 8).
QosInfoMatchesReference ==
    input.kind = "qos" =>
        /\ RS!TransGetQosInfo(input.v, TRUE) = RS!QosReference(input.v)
        /\ RS!TransGetQosInfo(input.v, FALSE) = RS!QosInfoZero
=============================================================================
