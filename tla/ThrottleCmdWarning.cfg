SPECIFICATION Spec
CONSTANTS
    Harnesses = {"throttle"}
    MaxSamples = 2
    None = None
INVARIANT ServerWarningShowsServerError
CHECK_DEADLOCK FALSE
