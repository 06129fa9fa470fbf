\* Every failure point of InitSoftBusServer.
SPECIFICATION Spec

INVARIANT FailedInitLeavesNothingUp
