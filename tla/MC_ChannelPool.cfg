\* Two threads over a pool of two sub channels.
CONSTANTS
    t1 = t1
    t2 = t2
    None = None
    Threads <- MC_Threads
    PoolSize = 2
SPECIFICATION Spec
INVARIANTS
    TypeOK
    CountsExact
