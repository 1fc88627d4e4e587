\* A vm.info that is never answered: the shutdown timeout is not looked at.
CONSTANTS
    Faults = {"hang"}
    PingRetries = 2
    MaxPolls = 2
    MaxDisks = 2
SPECIFICATION FairSpec
PROPERTY
    ShutdownBounded
