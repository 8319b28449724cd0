SPECIFICATION Spec
CONSTANTS
    Conns <- MCConns
    SNIs <- MCSNIs
    NoSNI = NoSNI
    RuleSNI = "ndt0.local"
    RulePLR = 10
    LinkDelay <- MCLinkDelay
    LinkPLR <- MCReturnPathLoss
    MaxFrames = 2
INVARIANT TypeOK
INVARIANT OnlyOffendingFlowsAreThrottled
INVARIANT DeliveredInSourceOrder
CHECK_DEADLOCK FALSE
