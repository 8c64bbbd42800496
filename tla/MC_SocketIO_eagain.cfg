\* As MC_SocketIO.cfg, but the send buffer holds 3 bytes, less than the
\* two requests: a writev finds it full and returns EAGAIN.
CONSTANTS
    Callers <- MC_Callers
    Blocks <- MC_Blocks
    Reactor = 0
    NoBlock = 0
    NoOwner = 0
    ReqLens = {1, 2}
    RespLens = {1, 2}
    SndBuf = 3
    MinOnceRead = 2
    WordMod = 1024
    Cap = 3
    SliceRefSize = 1
    MaxIovec = 64

SPECIFICATION Spec

\* Each caller makes one call; the system stops once both returned.
CHECK_DEADLOCK FALSE

INVARIANT
    WriteSendsAll
