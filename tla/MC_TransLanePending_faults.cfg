\* Safety of the controller when the environment misbehaves: the Lane
\* Manager may never answer, TransCommonGetAppInfo may fail, and the
\* pending lists may be destroyed under live requests.
CONSTANTS
    Req = {r1, r2}
    LinkKinds <- MCLinkKinds
    ChannelTypes <- MCChannelTypes
    SessionParams <- MCSessionParams
    Envs <- MCEnvs
    SpuriousWakeup = FALSE
    LoseCallback = TRUE
    AppInfoMayFail = TRUE
    MayDeinit = TRUE

SPECIFICATION Spec

INVARIANT AtMostOneOutcomeNotified
INVARIANT ParamCopyReleasedWithEntry

PROPERTY LaneOwnershipOnce

\* A lost callback, or deinit under a waiter, leaves a sync requester
\* blocked for good: the system really stops there.
CHECK_DEADLOCK FALSE
