SPECIFICATION FairSpec
CONSTANTS
    m = m
    w1 = w1
    w2 = w2
    c1 = c1
    c2 = c2
    c3 = c3
    c4 = c4
    Master = m
    Workers = {w1, w2}
    Checks = {c1, c2, c3, c4}
    Good = {c1, c2, c3}
    nBatchSize = 2
    MaxInterrupts = 1
INVARIANTS
    QueueInv
    VerdictExact
    SessionsIsolated
    NoLostWakeup
PROPERTIES
    WaitReturns
