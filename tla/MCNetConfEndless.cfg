SPECIFICATION FairSpec
CONSTANTS
    x = x
    AnyAddr = AnyAddr
    BoardAddr = BoardAddr
    y = y
    Addresses = {x, y}
    Leases = {60, 150, 660, 65535}
    u32_max = 65535
    timeout_max = 5
    tries_max = 8
    BackOff <- MCBackOff
    Timers = {"tcp", "arp", "fine", "coarse"}
    Period <- MCPeriod
    Modulus = 8
    MaxGap = 3
PROPERTIES
    EndlessKept
