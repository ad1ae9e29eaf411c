SPECIFICATION Spec
CONSTANTS
    g = g
    a1 = a1
    a2 = a2
    b2 = b2
    b3 = b3
    b4 = b4
    b5 = b5
    n1 = n1
    n2 = n2
    Block = {g, a1, a2, b2, b3, b4, b5}
    Genesis = g
    NoBlock = NoBlock
    pprev <- MCpprev
    nHeight <- MCnHeight
    nChainWork <- MCnChainWork
    Ancestors <- MCAncestors
    Address <- MCAddress
    Note = {n1, n2}
    MinedIn <- MCMinedIn
    SpentIn <- MCSpentIn
    HasNullifier = {a2, b5}
    MAX_REORG_LENGTH = 1
    Tx = {t1}
    WALLET_NOTIFY_MAX_BLOCKS = 2
    Starts <- MCStarts
    AnyRestart = TRUE
CHECK_DEADLOCK FALSE
INVARIANT
    WitnessesCurrent
