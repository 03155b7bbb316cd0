SPECIFICATION Spec
CONSTANTS
    Programs = {"server2", "server3", "es1", "es3", "toup_server", "toup_server_select", "bcserver", "bcserver_v2"}
    Clients = {c1, c2}
    NoClient = NoClient
    nt = 1
    Units = 2
    Rooms = {4, 5}
    MaxRequests = 2
    Crashes = TRUE
    Signals = TRUE
INVARIANTS
    OneKeeper
    InSync
    ServerSurvives
PROPERTIES
    RequestIsAnswered
    GoneIsClosed
