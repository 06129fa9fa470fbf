\* A Lane Manager that never answers a sync request.
CONSTANTS
    Req = {r1, r2}
    LinkKinds <- MCLinkKinds
    ChannelTypes <- MCChannelTypes
    SessionParams <- MCSessionParams
    Envs <- MCEnvs
    SpuriousWakeup = FALSE
    LoseCallback = TRUE
    AppInfoMayFail = FALSE
    MayDeinit = FALSE

SPECIFICATION Spec

PROPERTY SyncCallerReturns

\* The blocked requester is the point of this run.
CHECK_DEADLOCK FALSE
