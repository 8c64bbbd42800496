\* Reclaim fd 4 lands on reactor 0, reclaim waits may time out.
CONSTANTS
    t1 = t1
    t2 = t2
    None = None
    Threads <- MC_Threads
    FDs <- MC_FDs
    NR = 2
    RFd = 4
    Short = FALSE
    MayTimeOut = TRUE
SPECIFICATION Spec
INVARIANTS
    TypeOK
    OkSocketWatched
PROPERTIES
    HandsOutOwned
    ReclaimEventually
