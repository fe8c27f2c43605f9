\* Two attestations of a receipt in progress at once.
SPECIFICATION FairSpec
CONSTANTS
    c1 = c1  c2 = c2  h1 = h1  h2 = h2
    NoHash = NoHash  Timer = Timer  Hook = Hook
    EventTypes <- AllTypes
    Accepted <- VoucherAccepted
    Transient <- Ticks
    RECENT = 1
    MaxEmits = 0
    MaxStops = 0
    MaxUnheard = 0
    MAX_SEEN = 2
    MaxConnects = 0
    MAX_PENDING = 1
    ATTEST_WINDOW = 0
    Calls <- TwoCalls
    Attesters <- TwoCalls
    Hashes <- TwoHashes
    MaxIssued = 1
    MaxNow = 1
    MaxFlights = 2
    MaxAsked = 2
    MaxEnds = 0
    MaxLostAnswers = 0
PROPERTIES AttestedOnce
CHECK_DEADLOCK FALSE
