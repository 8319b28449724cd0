SPECIFICATION FairSpec
CONSTANTS
    Harnesses = {"LinkPLR", "ResetForSNI"}
    MaxSamples = 2
    None = None
INVARIANT TypeOK
INVARIANT CleanReturn
PROPERTY MainEventuallyStops
PROPERTY GoroutinesEventuallyExit
CHECK_DEADLOCK FALSE
