--------------------------- MODULE ConnectCommand ---------------------------
(***************************************************************************)
(* ConnectCommand of wifi_direct_cpp/command (connect_command.cpp/.h): the *)
(* request a Wi-Fi Direct processor works on.  It caches the remote        *)
(* device id (a uuid looked up from the network id) and chooses the        *)
(* negotiate channel.  The processors that call it are not in this         *)
(* repository, so its public operations may be called in any order, and    *)
(* between two calls the environment changes: the ledger may learn or      *)
(* forget the peer, and LinkManager's link to the peer may come and go.    *)
(*                                                                         *)
(* One command, one peer.  "UUID" is the peer's uuid, "" the empty string  *)
(* NetworkIdToUuid returns for a network id the ledger does not know.      *)
(* A channel is "none" (a null shared_ptr), "auth" or "coc" (made from the *)
(* input negoChannel), or <<"inner", g>>: the negotiate channel of the     *)
(* g-th link LinkManager has held to the peer.                             *)
(***************************************************************************)
EXTENDS Naturals

CONSTANTS
    NegoTypes,   \* negoChannel.type values a caller may pass
    MaxLinkGen   \* how many times the link to the peer may be (re)built

ASSUME /\ {"NEGO_CHANNEL_AUTH", "NEGO_CHANNEL_COC"} \subseteq NegoTypes
       /\ MaxLinkGen \in Nat \ {0}

VARIABLES
    known,            \* the ledger maps the peer's network id to its uuid
    link,             \* LinkManager's inner link to the peer
    negoType,         \* info_.info_.negoChannel.type
    remoteDeviceId_,  \* the mutable cached uuid
    channel_,         \* info_.channel_
    hasRetried_,
    lastCall          \* the operation of the last step (history, for the check)

vars == <<known, link, negoType, remoteDeviceId_, channel_, hasRetried_, lastCall>>

\* The fields of ConnectCommand and its ConnectInfo the model keeps.
CommandState == <<negoType, remoteDeviceId_, channel_, hasRetried_>>

NoLink == [exists |-> FALSE, hasChannel |-> FALSE, gen |-> 0]
Links  == [exists : BOOLEAN, hasChannel : BOOLEAN, gen : 0..MaxLinkGen]

\* WifiDirectUtils::NetworkIdToUuid
NetworkIdToUuid == IF known THEN "UUID" ELSE ""

\* LinkManager::GetReuseLink(connectType, uuid): the link held to that uuid.
GetReuseLink(uuid) == IF uuid = "UUID" /\ link.exists THEN link ELSE NoLink

InnerChannel(l) == <<"inner", l.gen>>

\* The constructor: copy the connect info and look the uuid up once.
Init ==
    /\ known \in BOOLEAN
    /\ link \in {NoLink} \cup IF known THEN {l \in Links : l.exists /\ l.gen = 1} ELSE {}
    /\ negoType \in NegoTypes
    /\ remoteDeviceId_ = NetworkIdToUuid
    /\ channel_ = "none"
    /\ hasRetried_ = FALSE
    /\ lastCall = "ConnectCommand"

\* GetRemoteDeviceId: return the cached uuid, or look it up again and cache
\* the answer when the cache is empty.
GetRemoteDeviceId ==
    /\ remoteDeviceId_' = IF remoteDeviceId_ # "" THEN remoteDeviceId_ ELSE NetworkIdToUuid
    /\ lastCall' = "GetRemoteDeviceId"
    /\ UNCHANGED <<known, link, negoType, channel_, hasRetried_>>

\* PreferNegotiateChannel: the inner link's negotiate channel if there is
\* one for remoteDeviceId_ (the field, not GetRemoteDeviceId()); otherwise
\* a channel made from the input negoChannel if its type is AUTH or COC,
\* and for any other type channel_ is left as it was.
PreferNegotiateChannel ==
    /\ LET innerLink == GetReuseLink(remoteDeviceId_) IN
       channel_' =
         IF ~innerLink.exists \/ ~innerLink.hasChannel
           THEN CASE negoType = "NEGO_CHANNEL_AUTH" -> "auth"
                  [] negoType = "NEGO_CHANNEL_COC"  -> "coc"
                  [] OTHER                          -> channel_
           ELSE InnerChannel(innerLink)
    /\ lastCall' = "PreferNegotiateChannel"
    /\ UNCHANGED <<known, link, negoType, remoteDeviceId_, hasRetried_>>

SetRetried ==
    /\ \E retried \in BOOLEAN : hasRetried_' = retried
    /\ lastCall' = "SetRetried"
    /\ UNCHANGED <<known, link, negoType, remoteDeviceId_, channel_>>

-----------------------------------------------------------------------------
(* The environment between calls.                                          *)

\* The peer joins or leaves the ledger.
LedgerChange ==
    /\ known' = ~known
    /\ lastCall' = "env"
    /\ UNCHANGED <<link, CommandState>>

\* LinkManager builds a new link to the peer, with or without a negotiate
\* channel; a link is only built to a peer the ledger knows.
LinkUp ==
    /\ known /\ ~link.exists /\ link.gen < MaxLinkGen
    /\ \E hasChannel \in BOOLEAN :
         link' = [exists |-> TRUE, hasChannel |-> hasChannel, gen |-> link.gen + 1]
    /\ lastCall' = "env"
    /\ UNCHANGED <<known, CommandState>>

LinkDown ==
    /\ link.exists
    /\ link' = [link EXCEPT !.exists = FALSE, !.hasChannel = FALSE]
    /\ lastCall' = "env"
    /\ UNCHANGED <<known, CommandState>>

Next ==
    \/ GetRemoteDeviceId \/ PreferNegotiateChannel \/ SetRetried
    \/ LedgerChange \/ LinkUp \/ LinkDown

Spec == Init /\ [][Next]_vars

-----------------------------------------------------------------------------

\* The channel LinkManager holds for the peer GetRemoteDeviceId names now.
CurrentInnerChannel ==
    LET l == GetReuseLink(IF remoteDeviceId_ # "" THEN remoteDeviceId_ ELSE NetworkIdToUuid)
    IN IF l.exists /\ l.hasChannel THEN {InnerChannel(l)} ELSE {}

\* PreferNegotiateChannel ("prefer inner channel") chooses the negotiate
\* channel of the link LinkManager holds to the command's peer whenever
\* there is one, and never leaves the command on the channel of a link that
\* is no longer held.
PreferredChannelIsCurrent ==
    [][lastCall' = "PreferNegotiateChannel" =>
         /\ CurrentInnerChannel # {} => channel_' \in CurrentInnerChannel
         /\ channel_' \notin {InnerChannel(l) : l \in Links} \/ channel_' \in CurrentInnerChannel
      ]_vars
=============================================================================
