\* Which free API releases an async lane.
CONSTANTS
    Req = {r1, r2}
    LinkKinds <- MCLinkKinds
    ChannelTypes <- MCChannelTypes
    SessionParams <- MCSessionParams
    Envs <- MCEnvs
    SpuriousWakeup = FALSE
    LoseCallback = FALSE
    AppInfoMayFail = FALSE
    MayDeinit = FALSE

SPECIFICATION Spec

INVARIANT LaneFreedViaAllocatingApi
