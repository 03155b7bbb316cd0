SPECIFICATION TestSpec
CONSTANTS
    p = 2
    c = 2
    n = 3
    Threads = {0, 1, 2, 3, Main}
    Data = {0, 1, 2, EOS}
    Nodes = {n1, n2, n3, n4, n5, n6, n7, n8}
    NULL = NULL
    Main = Main
    EOS = EOS
    MaxFailures = 1
INVARIANTS
    ListInv
    WakeupInv
    ExactlyOnce
PROPERTIES
    ImplementsFifo
    Termination
