\* The controller as the Lane Manager contract and POSIX-without-spurious-
\* wakeups assume it: safety of the rendezvous and liveness of cleanup.
CONSTANTS
    Req = {r1, r2}
    LinkKinds <- MCLinkKinds
    ChannelTypes <- MCChannelTypes
    SessionParams <- MCSessionParams
    Envs <- MCEnvs
    SpuriousWakeup = FALSE
    LoseCallback = FALSE
    AppInfoMayFail = FALSE
    MayDeinit = FALSE

SPECIFICATION Spec

INVARIANT SyncReturnReflectsLaneResult
INVARIANT ViewBackedByEntry

PROPERTY AllRequestsServed
PROPERTY ImplementsLaneRequest
