SPECIFICATION AddrSpec
CONSTANTS
    p = p
    q = q
    u = u
    v = v
    r1 = r1
    r2 = r2
    Service = {p, q, u, v}
    NetAddr <- MCNetAddr
    Source = {r1, r2}
    NewSlot <- MCNewSlot
    TriedSlot = {1, 2}
    NewSlotOf <- MCNewSlotOf
    NewSlotsOf <- MCNewSlotsOf
    TriedSlotOf <- MCTriedSlotOf
    ADDRMAN_NEW_BUCKETS_PER_ADDRESS = 2
    MaxRead = 0
INVARIANTS
    AddrmanConsistent
PROPERTIES
    TriedNotForgotten
