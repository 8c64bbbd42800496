\* Bolt socket, deadlines only after the send path, writes may fail.
CONSTANTS
    c1 = c1
    c2 = c2
    NoRS = NoRS
    Calls <- MC_Calls
    Mode <- MC_Mode
    MaxAttempts = 2
    QCap = 1
    Protocol = "bolt"
    WriteMayFail = TRUE
    EarlyDeadline = FALSE
SPECIFICATION Spec
INVARIANTS
    TypeOK
    AtMostOnceNotify
    NoUseAfterFree
PROPERTIES
    SyncCallReturns
