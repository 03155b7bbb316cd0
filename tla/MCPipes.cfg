SPECIFICATION Spec
CONSTANTS
    Programs = {"pipedec", "es2", "mybc", "bcserver", "server1"}
    MaxFd = 14
    Starts = {0, 1, 2, 3}
    None = None
INVARIANTS
    OnlyPeerWrites
    LeaksReadEnds
PROPERTIES
    Finishes
