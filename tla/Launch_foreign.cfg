\* A ping is answered by the hypervisor of another build.
CONSTANTS
    Builds = {b1, b2}
    Paths = {p1, p2}
    NoPath = NoPath
    PingRetries = 1
    PipeSize = 1
SPECIFICATION Spec
INVARIANT
    PingsOwnSubprocess
