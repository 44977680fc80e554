SPECIFICATION RedemptionSpec
CONSTANTS
    p1 = p1  a1 = a1
    r1 = r1  r2 = r2
    d1 = d1  d2 = d2  d3 = d3
    None = None
    Pids = {p1}
    Auths = {a1}
    Requests = {r1}
    Redeemers = {d1, d2, d3}
    Keys = {}
    KeyOf <- NoKeys
    LivePids = {}
    SlowPids = {}
    SellerPids = {}
    MaxAttempts = 1
    HonestFacilitator = TRUE
    StubFaults = TRUE
SYMMETRY RedeemerSymmetry
INVARIANTS DeliveredOnce OwedCreditExists
CHECK_DEADLOCK FALSE
