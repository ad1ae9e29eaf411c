SPECIFICATION Spec
CONSTANTS
    g = g
    b1 = b1
    b2 = b2
    c1 = c1
    c2 = c2
    c3 = c3
    A = A
    B = B
    C = C
    D = D
    E = E
    F = F
    G = G
    x = x
    y = y
    aOut = aOut
    aOut2 = aOut2
    bOut = bOut
    cOut = cOut
    cOut2 = cOut2
    Block = {g, b1, b2, c1, c2, c3}
    Genesis = g
    NoBlock = NoBlock
    pprev <- MCpprev
    nHeight <- MCnHeight
    nChainWork <- MCnHeight
    Ancestors <- MCAncestors
    Address <- MCAddress
    Tx = {A, B, C, D, E, F, G}
    NoTx = NoTx
    OutPoint = {x, y, aOut, aOut2, bOut, cOut, cOut2}
    Creator <- MCCreator
    Inputs <- MCInputs
    Fee <- MCFee
    maxDescendantsToVisit = 1
    limitAncestorCount = 4
    limitDescendantCount = 4
    vtx <- MCvtx
    MinHeight <- MCMinHeight
    ExpiryHeight <- MCExpiry
    Anchor <- MCAnchor
    UpgradeHeight = 4
    BranchId <- MCBranchId
    NonStandard = {}
    Cost <- MCCost
    costLimit = 4
    EVICTION_MEMORY_ENTRIES = 1
    TX_EXPIRING_SOON_THRESHOLD = 0
    Prioritisable = {A, C}
    MaxDelta = 1
INVARIANTS
    InputsAvailableUnlessCut
    LinksExact
    DescendantTotals
    NextBlockValid
