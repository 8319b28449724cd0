SPECIFICATION FairSpec
CONSTANTS
    Conns <- MCConns
    SNIs <- MCOffendingOnly
    NoSNI = NoSNI
    RuleSNI = "ndt0.local"
    RulePLR = 10
    LinkDelay <- MCLinkDelay
    LinkPLR <- MCNoLoss
    MaxFrames = 2
PROPERTY FramesAreDeliveredOrLost
CHECK_DEADLOCK FALSE
