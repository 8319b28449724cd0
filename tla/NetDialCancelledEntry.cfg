SPECIFICATION Spec
CONSTANT Addrs <- MCAddrs
INVARIANT CancelledCallNeverReachesStack
CHECK_DEADLOCK FALSE
