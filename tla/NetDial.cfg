SPECIFICATION FairSpec
CONSTANTS
    Addrs <- MCAddrs
INVARIANT TypeOK
INVARIANT NoHalfOpenLeak
INVARIANT ReturnedConnIsReady
INVARIANT AggregateMatchesAttempts
PROPERTY ImplementsDialCall
PROPERTY NoGoroutineLeak
PROPERTY ReturnsOnceCtxDone
CHECK_DEADLOCK FALSE
