\* The message for read-only disks after an interruption.
CONSTANTS
    Faults = {}
    PingRetries = 2
    MaxPolls = 2
    MaxDisks = 2
SPECIFICATION Spec
INVARIANT
    ReadonlyMessageTrue
