SPECIFICATION Spec
CONSTANTS
    HOLD_REG_COUNT = 2
    TX_BUF_SIZE = 256
    MB_SLV_ADDR = 8
    Requests <- TwoKinds
    MaxFrames = 2
    RX_BUF_SIZE = 12
    TurnTaking = TRUE
    MaxGaps = 2
    Echo = TRUE
INVARIANTS
    IInv
PROPERTIES
    Implements
CHECK_DEADLOCK FALSE
