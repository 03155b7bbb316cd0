SPECIFICATION Spec
CONSTANTS
    Threads = {t1, t2, t3, t4}
    Data = {d1, d2}
    NULL = NULL
    qsize = 2
    SizeRange = 16
INVARIANTS
    TypeOK
    RingInv
    WakeupInv
    NoLostWakeup
PROPERTY
    ImplementsFifo
SYMMETRY Symmetry
