CONSTANTS
    MIN_SEC = 2
    MIN_OF_DAY = 2
    SubDayBits = 2
    SubDeltaBits = 1
    ExpDeltaBits = 1
    TtlBits = 2
    MinBits = 1
    TtlMinBits = 2
    SizeBits = 2
    Handles = {w, r}
    Readers = {r}
    Format = "J"
    Versions = {0, 1, 2}
    Lifetimes <- MCLifetimes
    LongSessions = TRUE
    ValueCache = FALSE
    MaxClock = 15
SPECIFICATION Spec
INVARIANT NeverExpiresEarly
CHECK_DEADLOCK FALSE
