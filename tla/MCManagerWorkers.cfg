SPECIFICATION Spec
CONSTANTS
    nt = 2
    Clients = {c1, c2}
    Stdin = Stdin
    NoClient = NoClient
    MaxRequests = 1
    Crashes = TRUE
    Signals = TRUE
INVARIANTS
    OneOwner
    SelectSetSound
    OnlyMixingBreaksPairs
    ServerSurvivesClients
PROPERTIES
    RequestIsAnswered
    DescriptorIsClosed
