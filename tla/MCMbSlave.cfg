SPECIFICATION FairSpec
CONSTANTS
    HOLD_REG_COUNT = 2
    TX_BUF_SIZE = 256
    MB_SLV_ADDR = 8
    Requests <- Traffic
    MaxFrames = 2
    RX_BUF_SIZE = 12
    TurnTaking = TRUE
    MaxGaps = 1
    Echo = TRUE
INVARIANTS
    TypeOK
    HalfDuplex
    BusReleased
    WireFollowsReplies
PROPERTIES
    DriverHeld
    ReplyStable
    FrameStable
    Implements
    ListensAgain
    Answered
CHECK_DEADLOCK FALSE
