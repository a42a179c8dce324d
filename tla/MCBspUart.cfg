SPECIFICATION FairSpec
CONSTANTS
    a = a
    b = b
    short = short
    long = long
    None = None
    Tasks = {a, b}
    Data = {short, long}
    Size <- MCSize
    rx_buf_size = 2
INVARIANTS
    TypeOK
    QuietWhenFree
PROPERTIES
    DriverHeld
    BufferStable
    WholeMessage
    RxLenWhenPolite
    Released
