SPECIFICATION TestSpec
CONSTANTS
    Threads = {0, 1, 2, 3, Main}
    Data = {0, 1, 2, 3, 4, EOS}
    p = 2
    c = 2
    n = 5
    qsize = 2
    SizeRange = 16
    Main = Main
    EOS = EOS
    NULL = NULL
    MaxSpurious = 1
INVARIANTS
    ExactlyOnce
    EOSIsLast
    SafeDelete
PROPERTIES
    InOrder
    Termination
