\* Every configuration, from Prepare to StepConnect.
\* 2^64 is scaled down to 2^7 and a MiB to 4, so that sizes wrap at 16.
CONSTANTS
    Configs <- MCConfigs
    RawLists <- MCRawLists
    MinMemory = 2
    MiB = 4
    Word = 128
SPECIFICATION Spec
INVARIANTS
    TypeOK
    AcceptedIsBootable
    MemoryExact
    HostOfInterface
    CommunicatorHonoured
