\* TransCommonGetAppInfo returns NULL inside an async callback.
CONSTANTS
    Req = {r1, r2}
    LinkKinds <- MCLinkKinds
    ChannelTypes <- MCChannelTypes
    SessionParams <- MCSessionParams
    Envs <- MCEnvs
    SpuriousWakeup = FALSE
    LoseCallback = FALSE
    AppInfoMayFail = TRUE
    MayDeinit = FALSE

SPECIFICATION Spec

PROPERTY AllRequestsServed
