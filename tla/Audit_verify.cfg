\* Stored receipts as the endpoints return them.
SPECIFICATION Spec
CONSTANTS
    c1 = c1  c2 = c2  h1 = h1  h2 = h2
    NoHash = NoHash  Timer = Timer  Hook = Hook
    EventTypes <- AllTypes
    Accepted <- VoucherAccepted
    Transient <- Ticks
    RECENT = 1
    MaxEmits = 0
    MaxStops = 0
    MaxUnheard = 0
    MAX_SEEN = 2
    MaxConnects = 0
    MAX_PENDING = 1
    ATTEST_WINDOW = 0
    Calls <- TwoCalls
    Attesters <- OneCall
    Hashes <- TwoHashes
    MaxIssued = 2
    MaxNow = 1
    MaxFlights = 2
    MaxAsked = 2
    MaxEnds = 0
    MaxLostAnswers = 0
INVARIANTS StoredReceiptsVerify
CHECK_DEADLOCK FALSE
