\* A hypervisor that fills its stderr pipe before it has answered a ping.
CONSTANTS
    Builds = {b1}
    Paths = {p1}
    NoPath = NoPath
    PingRetries = 1
    PipeSize = 1
SPECIFICATION FairSpec
PROPERTY
    PingsBounded
