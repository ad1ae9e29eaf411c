SPECIFICATION Spec
CONSTANTS
    g = g
    a1 = a1
    a2 = a2
    a3 = a3
    honest = honest
    mute = mute
    Block = {g, a1, a2, a3}
    Genesis = g
    NoBlock = NoBlock
    pprev <- MCpprev
    nHeight <- MCnHeight
    nChainWork <- MCnHeight
    Ancestors <- MCAncestors
    Address <- MCAddress
    Peer = {honest, mute}
    NoPeer = NoPeer
    PeerTip <- MCPeerTip
    Silent = {mute}
    Preferred = {honest, mute}
    Recent = {a1, a2, a3}
    MAX_BLOCKS_IN_TRANSIT_PER_PEER = 2
    BLOCK_DOWNLOAD_WINDOW = 1
    MAX_HEADERS_RESULTS = 2
    MIN_BLOCKS_TO_KEEP = 2
    MaxFaults = 2
INVARIANTS
    InFlightExact
    NoStrayRequest
    CommonBlockLinked
PROPERTY
    ChainDownloaded
