SPECIFICATION FairSpec
CONSTANTS
    p1 = p1  p2 = p2
    a1 = a1  a2 = a2
    r1 = r1  r2 = r2  r3 = r3
    k1 = k1
    None = None
    Pids = {p1, p2}
    Auths = {a1}
    Requests = {r1, r2}
    Redeemers = {}
    Keys = {k1}
    KeyOf <- NoKeys
    LivePids = {p1}
    SlowPids = {p1}
    SellerPids = {p2}
    MaxAttempts = 2
    HonestFacilitator = TRUE
    StubFaults = FALSE
PROPERTIES OnlyWriteBackReopens BookingResolves
CHECK_DEADLOCK FALSE
