\* Two callers sending a body of 1 or 2 bytes and getting a body of 1 or 2
\* bytes back, blocks of 3 bytes, onRead offering 2 bytes a round (so one
\* round may take two blocks), a send buffer that holds both requests, and
\* _ref compacted once more than 1 slice is consumed.
CONSTANTS
    Callers <- MC_Callers
    Blocks <- MC_Blocks
    Reactor = 0
    NoBlock = 0
    NoOwner = 0
    ReqLens = {1, 2}
    RespLens = {1, 2}
    SndBuf = 8
    MinOnceRead = 2
    WordMod = 1024
    Cap = 3
    SliceRefSize = 1
    MaxIovec = 64

SPECIFICATION Spec

\* Each caller makes one call; the system stops once both returned.
CHECK_DEADLOCK FALSE

INVARIANTS
    TypeOK
    ReleaseLoopEnds
    RequestsIntact
    ResponsesIntact

PROPERTIES
    CallsReturn
