SPECIFICATION Spec
CONSTANTS
    Harnesses = {"throttle", "DropForSNI"}
    MaxSamples = 2
    None = None
INVARIANT CleanReturn
INVARIANT TopologyOutlivesGoroutines
CHECK_DEADLOCK FALSE
