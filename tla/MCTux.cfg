\* Transmitting: a ring of three bytes before a driver of two.
\* Receiving: a ring of four bytes, read four at a time.
\* Bytes, resets, buttons and ioctls are bounded: a behaviour may stop there.
CONSTANTS
    TUXCTL_BUFSIZE = 4
    PutSizes = {1, 3}
    ResetSize = 2
    DriverSize = 2
    WAKEUP_CHARS = 2
    MaxBytes = 7
    RX_BUFSIZE = 5
    PACKET_SIZE = 4
    MaxChunk = 5
    MaxReceived = 7
    MaxOpens = 2
    MaxResets = 1
    MaxChanges = 1
    MaxCalls = 2
    Words <- MCWords
    Times = {754, 83}
SPECIFICATION MCSpec
INVARIANTS SendSafety ReceivedWhole DriverSafety
PROPERTIES LossesKnown Answered
CHECK_DEADLOCK FALSE
