\* Two io threads and two loops (one of them starts late); every caller of stop().
SPECIFICATION FairSpec
CONSTANTS
    t1 = t1
    t2 = t2
    IoThreads = {t1, t2}
    Loops = {"sync"}
CHECK_DEADLOCK FALSE
INVARIANTS
    TypeOK
    ShutdownOnce
    NoOrphanGame
    
PROPERTIES
    StopCompletes
