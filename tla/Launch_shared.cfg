\* Two builds on one host, with one path or two, and Packer dying at any point.
CONSTANTS
    Builds = {b1, b2}
    Paths = {p1, p2}
    NoPath = NoPath
    PingRetries = 1
    PipeSize = 1
SPECIFICATION FairSpec
INVARIANTS
    TypeOK
    OwnHypervisor
    Reachable
    LeftoverExplained
    StallEnds
    LaunchInv
PROPERTIES
    Isolated
    LaunchReturns
    StallsOnlyUnready
    CleanupEnds
