\* TransReqLanePendingDeinit while an async callback still uses the shallow
\* param copy it took from its pending item.
CONSTANTS
    Req = {r1, r2}
    LinkKinds <- MCLinkKinds
    ChannelTypes <- MCChannelTypes
    SessionParams <- MCSessionParams
    Envs <- MCEnvs
    SpuriousWakeup = FALSE
    LoseCallback = FALSE
    AppInfoMayFail = FALSE
    MayDeinit = TRUE

SPECIFICATION Spec

INVARIANT ViewBackedByEntry
