\* One line of credit over rounding, trades, profits, losses and changing prices; and six
\* ticks of what the backend reads of a chain that changes twice.
SPECIFICATION PartsSpec
CONSTANTS
    acct = acct  channelContract = channelContract  inv = inv  ben = ben  market = market  router = router  factory = factory
    key1 = key1  usdc = usdc  xlm = xlm  NoOne = NoOne  Pool = Pool  Admin = Admin  NoPrice = NoPrice
    Accounts <- Borrowers
    Others <- OtherHolders
    Controllers <- ThePool
    Payers <- TheMarket
    Assets <- Tokens
    AgentKeys <- OneKey
    Policies <- Trading
    Authorisations <- Trades
    pairOf <- OnePair
    InitialBalance <- AtFirst
    LEDGERS_PER_DAY = 1
    Amounts <- Units
    MaxLedger = 1
    Investors <- Both
    Beneficiaries <- TheBeneficiary
    OraclePrices <- OrNone
    PairPrices <- Half
    SourceChoices <- Settings
    Limits <- TwoUnits
    MaxShares = 4
    r1 = r1  r2 = r2
    Readers <- TwoReaders
    REFRESH = 2
    STALE = 3
    CACHE = 2
    LEARN = 1
    COOLDOWN = 4
    Latency = 1
    MaxClock = 6
    MaxWorld = 2
    Unknown = Unknown
    liq_threshold_bps = 9000
    profit_share_bps = 5000
INVARIANTS BooksBalance LinesAreControlled ReadingsAreFresh
PROPERTIES SharePriceHolds CreditStaysInside
CHECK_DEADLOCK FALSE
