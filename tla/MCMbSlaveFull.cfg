SPECIFICATION FairSpec
CONSTANTS
    HOLD_REG_COUNT = 2
    TX_BUF_SIZE = 256
    MB_SLV_ADDR = 8
    Requests <- FullAdu
    MaxFrames = 1
    RX_BUF_SIZE = 12
    TurnTaking = TRUE
    MaxGaps = 0
    Echo = TRUE
PROPERTIES
    AlwaysRunning
CHECK_DEADLOCK FALSE
