\* Three disks anywhere, three builds into one output directory.
CONSTANTS
    Dirs = {"images", "output"}
    Bases = {"root", "data", "swap"}
    OutputDir = "output"
    MaxDisks = 3
    MaxBuilds = 3
SPECIFICATION FairSpec
INVARIANTS
    TypeOK
    ArtifactFaithful
    CollectInv
PROPERTIES
    SourcesKept
    CopyProgress
    ImplementsCollect
    CollectReturns
