\* Two threads with two calls each over three keys in two buckets, a
\* cache of capacity 2 that starts full, used_mem 1 or 3 (refused by put,
\* taken by exchange), _mem_size_used kept modulo 16.
CONSTANTS
    k1 = k1
    k2 = k2
    k3 = k3
    t1 = t1
    t2 = t2
    None = None
    Keys <- MC_Keys
    Threads <- MC_Threads
    Buckets <- MC_Buckets
    Bucket <- MC_Bucket
    Preload <- MC_Preload
    Mems = {1, 3}
    MemSize = 2
    MemMod = 16
    MaxNodes = 4
    MaxOps = 2

SPECIFICATION Spec

\* Callers stop after MaxOps calls each.
CHECK_DEADLOCK FALSE

INVARIANTS
    TypeOK
    FreedOnce
