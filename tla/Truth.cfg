SPECIFICATION MCSpec
CONSTANTS
    r1 = r1  r2 = r2  p1 = p1  p2 = p2
    b1 = b1  b2 = b2  b3 = b3  c1 = c1  c2 = c2  c3 = c3  l1 = l1
    nonce1 = nonce1  nonce2 = nonce2  credit1 = credit1  credit2 = credit2  lemon1 = lemon1
    None = None
    Requests = {r1, r2}
    Intents = {b1, b2, b3, c1, c2, c3, l1}
    Ids = {nonce1, nonce2, credit1, credit2, lemon1}
    IdOf <- JobOf
    KeyOf <- KeysUsed
    RailOf <- Rails
    Payments = {p1, p2}
    Orders = {b3, l1}
    Amounts = {1, 2}
    MaxBalance = 2
    LemonCredits = 1
    HotSize = 1
    MaxEdition = 1
SYMMETRY RequestSymmetry
INVARIANTS OneSettleAttempt OneChargePerKey CreditConserved DeliveredPaidBody AbandonedUnpaid
CHECK_DEADLOCK FALSE
