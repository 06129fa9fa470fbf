\* TransReqLanePendingDeinit under a blocked sync requester, with a Lane
\* Manager that always answers: the waiter is never released.
CONSTANTS
    Req = {r1, r2}
    LinkKinds <- MCLinkKinds
    ChannelTypes <- MCChannelTypes
    SessionParams <- MCSessionParams
    Envs <- MCEnvs
    SpuriousWakeup = FALSE
    LoseCallback = FALSE
    AppInfoMayFail = FALSE
    MayDeinit = TRUE

SPECIFICATION Spec

PROPERTY WaitersReleasedByDeinit

\* The stranded waiter is the behaviour under test: the system stops there.
CHECK_DEADLOCK FALSE
