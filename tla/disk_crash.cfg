SPECIFICATION DiskSpec
CONSTANTS
    g = g
    a1 = a1
    a2 = a2
    b1 = b1
    c1 = c1
    NoBlock = NoBlock
    NoThread = NoThread
    Block = {g, a1, a2, b1, c1}
    Genesis = g
    pprev <- MCpprev
    nHeight <- MCnHeight
    nChainWork <- MCnChainWork
    Ancestors <- MCAncestors
    Address <- MCAddress
    Thread = {t1}
    BadBlock = {}
    BadConnect = {c1}
    Invalidatable = {}
    Reconsiderable = {}
    MaxReorg = 1
    MinBlocksToKeep = 1
    PerFile = 2
INVARIANTS
    DiskTipRecoverable
    CleanEntriesOnDisk
    RestartLinked
    RestartBestChain
