SPECIFICATION FairSpec
CONSTANTS
    Harnesses = {"throttle"}
    MaxSamples = 2
    None = None
PROPERTY MainEventuallyStops
CHECK_DEADLOCK FALSE
