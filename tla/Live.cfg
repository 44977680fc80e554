SPECIFICATION Spec
CONSTANTS
    p1 = p1  p2 = p2
    a1 = a1  a2 = a2
    r1 = r1  r2 = r2  r3 = r3
    k1 = k1
    None = None
    Pids = {p1, p2}
    Auths = {a1, a2}
    Requests = {r1, r2}
    Redeemers = {}
    Keys = {k1}
    KeyOf <- OneKey
    LivePids = {p1, p2}
    SlowPids = {p1, p2}
    SellerPids = {}
    MaxAttempts = 2
    HonestFacilitator = FALSE
    StubFaults = TRUE
SYMMETRY FullSymmetry
INVARIANTS OneBookingPerKey PaidBeforeExecution
CHECK_DEADLOCK FALSE
