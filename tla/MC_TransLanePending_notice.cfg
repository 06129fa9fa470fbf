\* The error code an async caller is told its open failed with.
CONSTANTS
    Req = {r1, r2}
    LinkKinds <- MCLinkKinds
    ChannelTypes <- MCChannelTypes
    SessionParams <- MCSessionParams
    Envs <- MCEnvs
    SpuriousWakeup = FALSE
    LoseCallback = FALSE
    AppInfoMayFail = FALSE
    MayDeinit = FALSE

SPECIFICATION Spec

INVARIANT FailureNoticeCarriesError
