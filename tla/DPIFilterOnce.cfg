SPECIFICATION Spec
CONSTANTS
    Conns <- MCConns
    SNIs <- MCSNIs
    NoSNI = NoSNI
    RuleSNI = "ndt0.local"
    RulePLR = 10
    LinkDelay <- MCLinkDelay
    LinkPLR <- MCNoLoss
    MaxFrames = 2
INVARIANT FilterCalledOncePerFlow
CHECK_DEADLOCK FALSE
