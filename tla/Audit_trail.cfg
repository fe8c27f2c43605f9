\* The audit module with failing and unheard writes, stops and restarts.
SPECIFICATION FairSpec
CONSTANTS
    c1 = c1  c2 = c2  h1 = h1  h2 = h2
    NoHash = NoHash  Timer = Timer  Hook = Hook
    EventTypes <- AllTypes
    Accepted <- VoucherAccepted
    Transient <- Ticks
    RECENT = 1
    MaxEmits = 3
    MaxStops = 1
    MaxUnheard = 1
    MAX_SEEN = 2
    MaxConnects = 2
    MAX_PENDING = 1
    ATTEST_WINDOW = 0
    Calls <- TwoCalls
    Attesters <- OneCall
    Hashes <- OneHash
    MaxIssued = 2
    MaxNow = 1
    MaxFlights = 2
    MaxAsked = 2
    MaxEnds = 1
    MaxLostAnswers = 1
INVARIANTS LedgerIsWhole ShownOnce
PROPERTIES WrittenForGood
CHECK_DEADLOCK FALSE
