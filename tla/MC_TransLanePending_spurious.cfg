\* A sync requester woken spuriously from SoftBusCondWait.
CONSTANTS
    Req = {r1, r2}
    LinkKinds <- MCLinkKinds
    ChannelTypes <- MCChannelTypes
    SessionParams <- MCSessionParams
    Envs <- MCEnvs
    SpuriousWakeup = TRUE
    LoseCallback = FALSE
    AppInfoMayFail = FALSE
    MayDeinit = FALSE

SPECIFICATION Spec

INVARIANT SyncReturnReflectsLaneResult
