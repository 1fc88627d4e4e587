\* A truthful API; every crash, refusal, interruption and stale socket.
CONSTANTS
    Faults = {}
    PingRetries = 3
    MaxPolls = 3
    MaxDisks = 3
SPECIFICATION Spec
INVARIANTS
    TypeOK
    NoOrphan
    DisksQuiescent
    TermAfterDelete
    ArtifactSound
    NoSilentFailure
    SocketRemoved
    IInv
PROPERTIES
    GuestStarts
    BuilderProgress
    ImplementsLifecycle
