SPECIFICATION MCSpec
CONSTANTS
    o1 = o1  o2 = o2  b1 = b1  feed = feed  batch = batch  blue = blue  green = green  r1 = r1  r2 = r2
    q1 = q1  q2 = q2  a1 = a1  a2 = a2  i1 = i1  i2 = i2
    u1 = u1  u2 = u2  u3 = u3  None = None
    Ops = {o1, o2}
    Payers = {b1}
    PayerOf <- OneWallet
    PriceOf <- TwoPrices
    Capabilities = {feed}
    Services = {batch}
    CapabilityOf <- OneOfEach
    MaxSync = 2
    Serial = {o2}
    Isolates = {blue, green}
    EnvOf <- TwoDeployments
    Rails = {u1, u2, u3}
    Fallbacks = {u2}
    Requests = {r1, r2}
    Quotes = {q1, q2}
    Auths = {a1, a2}
    Inputs = {i1, i2}
    MaxSafe = 200000
    MaxNow = 2
    QuoteFor = 2
    KeptSeen = 4
    SeenFor = 3
    MaxRails = 2
    TripAfter = 3
    OpenFor = 2
    WindowFor = 1
    PauseFor = 3
    ReadyFor = 1
INVARIANTS BooksAgree QuoteKept
PROPERTIES EventuallyRecorded CircuitsKept
CHECK_DEADLOCK FALSE
