\* Up to three legs, default session timeout, channel timeout_ms SOCKET_TIMEOUT_MS.
CONSTANTS
    MaxLegs = 3
    SessionTimeout <- MC_SessionTimeout
    ChannelTimeout <- MC_ChannelTimeout
SPECIFICATION Spec
\* The pipeline returns and late callbacks drain: the model may stop.
CHECK_DEADLOCK FALSE
INVARIANTS
    TypeOK
    OkOnlyIfAllOk
