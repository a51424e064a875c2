SPECIFICATION FairSpec
CONSTANTS
    Txs = {t1}
    Never = Never
    LIVETIME = 8
    ALT_LIVETIME = 9
    MIN_RELAY_TIME = 1
    MAX_RELAY_TIME = 3
    CHECK = 2
    Delays = {1, 2}
    Networks = {"public", "anonymity", "two_anonymity"}
    MaxArrivals = 4
    MaxCrashes = 1
INVARIANTS NothingExpiresUnsent EmbargoWatched
PROPERTY StemEnds
