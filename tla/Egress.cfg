SPECIFICATION MCSpec
CONSTANTS
    w1 = w1
    w2 = w2
    q1 = q1
    q2 = q2
    q3 = q3
    q4 = q4
    ka = ka
    kb = kb
    kc = kc
    o1 = o1
    c1 = c1
    other = other
    Agents = {w1, w2}
    Asks = {q1, q2, q3, q4}
    KeyOf <- MCKeyOf
    MaxCalls = 3
    MaxTotal = 2
    PerAttempt = 1
    NoAsk = NoAsk
    Elsewhere = other
    Orders = {o1}
    Checkouts = {c1}
    CreditsOf <- MCCredits
    Total <- MCTotal
    Tags = {ka, kb, kc, other}
    NoOrder = NoOrder
    NoCheckout = NoCheckout
    proof = proof  railKey = railKey  u1 = u1  u2 = u2  u3 = u3  p1 = p1  p2 = p2  p3 = p3
    Authorities = {proof, railKey}
    Memoised = {proof}
    Users = {u1, u2, u3}
    Pairs = {p1, p2, p3}
    NoPair = NoPair
    NoAuthority = NoAuthority
    Pending = Pending
    first = first  second = second  both = both  foreign = foreign  large = large  home = home
    e1 = e1  e2 = e2  few = few  many = many  t1 = t1  t2 = t2
    Reports = {first, second, both, foreign, large}
    KeysOf <- MCKeysOf
    ContentOf <- MCContentOf
    TenantOf <- MCTenantOf
    TokensOf <- MCTokensOf
    Partial = {few}
    Clients = {w1, w2}
    Sources = {home}
    MonthOf <- MCMonthOf
    RateLimit = 2
    MaxCount = 4
    MaxPosts = 4
    MaxMinute = 1
    NoEvent = NoEvent
    NoReport = NoReport
SYMMETRY EgressSymmetry
INVARIANTS
    ExecutedOnce
    BilledTruthfully
    BudgetHolds
    WithdrawalHolds
    KeysStand
    CountedOnce
CHECK_DEADLOCK FALSE
