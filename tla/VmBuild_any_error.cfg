\* A vm.info that fails is taken for a VM that is gone.
CONSTANTS
    Faults = {"api"}
    PingRetries = 2
    MaxPolls = 2
    MaxDisks = 2
SPECIFICATION Spec
INVARIANT
    DisksQuiescentAlways
