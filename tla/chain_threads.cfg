SPECIFICATION FairSpec
CONSTANTS
    g = g
    a1 = a1
    a2 = a2
    b1 = b1
    b2 = b2
    b3 = b3
    c2 = c2
    NoBlock = NoBlock
    NoThread = NoThread
    Block = {g, a1, a2, b1, b2, b3}
    Genesis = g
    pprev <- MCpprev
    nHeight <- MCnHeight
    nChainWork <- MCnChainWork
    Ancestors <- MCAncestors
    Address <- MCAddress
    Thread = {t1, t2}
    BadBlock = {}
    BadConnect = {b2}
    Invalidatable = {}
    Reconsiderable = {}
    MaxReorg = 1
    MinBlocksToKeep = 1
INVARIANTS
    ChainInv
    ActiveChainDisconnectable
PROPERTIES
    ReorgBounded
    ActivationTerminates
