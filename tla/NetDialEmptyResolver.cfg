SPECIFICATION Spec
CONSTANT Addrs <- MCAddrs
INVARIANT AggregateIsNeverEmpty
CHECK_DEADLOCK FALSE
