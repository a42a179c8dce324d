SPECIFICATION FairSpec
CONSTANTS
    Frames = {f, g}
    Damaged = damaged
    None = none
    TXBUF_NUM = 2
    RXBUF_NUM = 2
INVARIANTS
    TypeOK
PROPERTIES
    Implements
    Sends
