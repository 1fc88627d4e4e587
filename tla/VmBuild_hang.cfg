\* The hypervisor may hang, answer with errors, and the build be interrupted.
CONSTANTS
    Faults = {"api", "hang", "remove"}
    PingRetries = 2
    MaxPolls = 2
    MaxDisks = 2
SPECIFICATION FairSpec
INVARIANTS
    IInv
PROPERTIES
    Terminates
    CancelTerminates
    HypervisorGone
