\* One account over two days: caps, swaps, policies, hand-over; and an order book whose pair
\* is traded with.
SPECIFICATION PartsSpec
CONSTANTS
    acct = acct  seller = seller  channelContract = channelContract  router = router
    factory = factory  pair = pair  lender = lender
    usdc = usdc  xlm = xlm  key1 = key1  key2 = key2  NoOne = NoOne
    Accounts <- OneAccount
    Others <- OtherHolders
    Controllers <- TheLender
    Payers <- ThePair
    Assets <- Tokens
    AgentKeys <- BothKeys
    Policies <- ThreePolicies
    Authorisations <- Trees
    pairOf <- OnePair
    InitialBalance <- AtFirst
    LEDGERS_PER_DAY = 2
    Amounts <- OneUnit
    Orders = {0, 1, 3}
    MaxLedger = 2
    SCALE = 10
    FEE_NUM = 9
    FEE_DEN = 10
    LEVELS = 3
    STEP_BPS = 1000
    StartUsdc = 20
    StartXlm = 30
    SwapAmounts = {4, 9}
    MaxReserve = 50
 
PROPERTIES DayCapHolds HandOverIsFinal OutflowIsAllowed BookIsFair
CHECK_DEADLOCK FALSE
