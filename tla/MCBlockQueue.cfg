\* Two branches of three blocks, two connections, a stripe of one block.
CONSTANTS
    a1 = a1
    a2 = a2
    a3 = a3
    b2 = b2
    b3 = b3
    c1 = c1
    c2 = c2
    Conn = {c1, c2}
    Hash <- MCHash
    Segments <- MCSegments
    MaxHeight = 3
    MaxSpan = 3
    Seed <- MCSeed
    LocalSeed = 0
    SyncPruned = FALSE
    StripeSize = 1
    LogStripes = 1
    TipBlocks = 1
SPECIFICATION Spec
INVARIANTS RequestedBacked HaveBacked NextNeededIsFirstGap
