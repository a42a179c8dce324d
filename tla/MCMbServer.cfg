SPECIFICATION ServerSpec
CONSTANTS
    HOLD_REG_COUNT = 126
    TX_BUF_SIZE = 256
    MB_SLV_ADDR = 8
    Requests <- BoundaryRequests
    MaxFrames = 3
INVARIANTS
    ServerTypeOK
    AccessInBounds
    ReplyFits
    ReadBack
PROPERTIES
    RefusedChangesNothing
    ReadIsFaithful
CHECK_DEADLOCK FALSE
