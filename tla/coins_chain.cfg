SPECIFICATION ChainSpec
CONSTANTS
    g = g
    a1 = a1
    a2 = a2
    a3 = a3
    b2 = b2
    b3 = b3
    d3 = d3
    c = c
    t = t
    u = u
    v = v
    w = w
    n1 = n1
    r0 = r0
    r2 = r2
    r3 = r3
    NullHash = NullHash
    Txid = {c, t, u, v, w}
    CCoins <- MCCCoins
    Pruned <- MCPruned
    Nullifier = {n1}
    Root = {r0, r2, r3}
    EmptyRoot = r0
    Block = {g, a1, a2, a3, b2, b3, d3}
    Genesis = g
    pprev <- MCpprev
    nHeight <- MCnHeight
    vtx <- MCvtx
    anchor <- MCanchor
    size <- MCsize
INVARIANTS
    CoinsInv
    TipMatchesChain
    DisconnectClean
PROPERTIES
    ImplementsCoinsView
