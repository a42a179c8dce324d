SPECIFICATION ServerSpec
CONSTANTS
    HOLD_REG_COUNT = 2
    TX_BUF_SIZE = 256
    MB_SLV_ADDR = 8
    Requests <- SingleWrites
    MaxFrames = 3
PROPERTIES
    AcknowledgedIsStored
CHECK_DEADLOCK FALSE
