SPECIFICATION Spec
CONSTANTS
    p1 = p1  p2 = p2
    a1 = a1  a2 = a2
    r1 = r1  r2 = r2  r3 = r3
    k1 = k1
    None = None
    Pids = {p1, p2}
    Auths = {a1, a2}
    Requests = {r1, r2, r3}
    Redeemers = {}
    Keys = {k1}
    KeyOf <- NoKeys
    LivePids = {}
    SlowPids = {}
    SellerPids = {}
    MaxAttempts = 1
    HonestFacilitator = TRUE
    StubFaults = FALSE
SYMMETRY FullSymmetry
INVARIANTS TypeOK SettleOnce AlarmCovers FailedIsUnpaid OneExecutor
PROPERTIES KeepsPromise
CHECK_DEADLOCK FALSE
