\* Two calls and a stream with one seller; six operations on three paying accounts;
\* a console over three events; the playground; an owner who changes one of
\* two accounts twice, or creates one.
SPECIFICATION Spec
CONSTANTS
    c1 = c1  c2 = c2  s1 = s1  i1 = i1  i2 = i2  f1 = f1  k1 = k1  w1 = w1  w2 = w2  a1 = a1  a2 = a2
    None = None  Nothing = Nothing
    Calls <- TwoCalls
    StreamCalls <- OneStream
    Price = 2
    Seconds = 2
    DEPOSIT = 5
    SessionCalls = 2
    Budget = 10
    Lossy = TRUE
    Invocations <- TwoInvocations
    Proofs <- OneProof
    Freezes <- OneFreeze
    ClaimCalls <- OneClaim
    WalletOps <- TwoWalletOps
    OwnerOps <- OneOwnerOp
    Attempts = 2
    TxLife = 2
    AuthLife = 3
    MaxOthers = 1
    MaxNow = 3
    Unreliable = TRUE
    RECENT = 2
    Addresses <- TwoAddresses
    Deposits <- TwoDeposits
    MaxLog = 3
    MaxReloads = 1
    MaxClears = 1
    MaxAsked = 1
    PerTxCap = 4
    DailyCap = 8
    Request = 1
    Slice = 2
    SliceTokens = 2
    PAGE_DEPOSIT = 4
    BIG_DEPOSIT = 5
    Counts <- OneOrMany
    TextTokens = 5
    MaxLines = 2
    MaxId = 8
    o1 = o1  o2 = o2  b1 = b1  b2 = b2  n1 = n1
    Wallets <- TwoWallets
    NoWallet = NoWallet
    MaxTurns = 1
    Owned <- TwoAccounts
    Fresh <- OneNew
    OwnerOf = o1
    Caps <- TwoCaps
    Nothing0 = Nothing0
    DAY = 1
    MaxLedger = 1
    MaxSaves = 2
    MaxForeign = 1
    MaxPolls = 2
    Addrs <- TwoWallets
    Nowhere = Nowhere
    MaxVisits = 2
    MaxElsewhere = 1
    MaxLoads = 1
    BoardEvents <- LiveEvents
    Viewed <- TwoAddresses
    NoTx = NoTx
    MAX_ROWS = 3
    MAX_REJECTIONS = 2
    MAX_CLAIMS = 2
    MAX_LOGS = 2
    MAX_TICKS = 1
    MAX_STREAMS = 1
    MaxBatch = 2
    MaxTold = 3
    MaxRuns = 2
    MaxPages = 3
INVARIANTS CallsAddUp ReportedIsTrue ShownIsTrue
PROPERTIES PlaygroundIsTheProduct OwnerIsObeyed PagesShowWhatIs
CHECK_DEADLOCK FALSE
