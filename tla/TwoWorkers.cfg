SPECIFICATION Spec
CONSTANTS
    nt = 2
    Clients = {c1, c2}
    Stdin = Stdin
    NoClient = NoClient
    MaxRequests = 1
    Crashes = FALSE
    Signals = FALSE
INVARIANT
    MasterReadsPairs
