SPECIFICATION MCSpec
CONSTANTS
    o1 = o1  o2 = o2  x1 = x1  r1 = r1  w1 = w1  w2 = w2  c1 = c1  c2 = c2
    Orders = {o1, o2}
    Checkouts = {c1, c2}
    CreditsOf <- TwoCredits
    Total <- TwoParts
    Tags = {x1, r1, other}
    NoOrder = NoOrder
    NoCheckout = NoCheckout
    Callers = {x1, r1}
    AmountOf <- OneAndTwo
    MaxUses = 3
    MaxAmount = 2
    DailyLimit = 3
    Unread = Unread
    Permits = {x1, r1}
    RailPermits = {r1}
    Workers = {w1, w2}
    Units = 1
    Elsewhere = other
    NoPermit = NoPermit
SYMMETRY WorkerSymmetry
INVARIANTS OneSideEffect OutcomesTruthful MandateCovers LedgerSound
CHECK_DEADLOCK FALSE
