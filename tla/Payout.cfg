SPECIFICATION FairSpec
CONSTANTS
    s1 = s1
    s2 = s2
    Sales = {s1, s2}
    Own = {s2}
    PriceOf <- TwoPrices
    Bps = 300
    Fixed = 1
    Minimum = 0
    MaxAttempts = 2
INVARIANTS
    PaidOnce
    SellerBooks
PROPERTIES
    PayoutResolves
CHECK_DEADLOCK FALSE
