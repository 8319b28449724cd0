SPECIFICATION FairSpec
CONSTANTS
    MaxPings = 3
    QueueCap = 2
INVARIANT TypeOK
INVARIANT CaptureIsComplete
PROPERTY MainEventuallyStops
CHECK_DEADLOCK FALSE
