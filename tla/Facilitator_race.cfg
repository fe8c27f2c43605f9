\* Failing RPC calls, manual claims and changes by others, no database; a seller's report of
\* three payments; three reports of agents and two runs; two of three requests to sellers.
SPECIFICATION BackendSpec
CONSTANTS
    buyer = buyer  seller = seller  pool = pool
    usdc = usdc  key1 = key1  here = here
    Parties <- TwoParties
    Self = pool
    Assets <- OneAsset
    Keys <- OneKey
    Deployments <- OneDeployment
    Here = here
    Amounts <- DepositOne
    Cumulatives <- Totals
    Expiries <- Expiry4
    CloseGrace = 0
    MaxU32 = 9
    Supply = 2
    MaxId = 1
    MaxLedger = 3
    payTo = seller
    usdcContractId = usdc
    Prices <- OnePrice
    voucherExpirySafetyLedgers = 1
    claimExpiryMarginLedgers = 1
    claimThreshold = 2
    manualClaimMin = 1
    rateLimitPerMinute = 0
    PageLimit = 9
    Freezable <- Nobody
    RpcReliable = FALSE
    Timely = FALSE
    MaxFlushes = 0
    MaxManual = 1
    MaxCrashes = 0
    MaxEvents = 2
    p1 = p1  p2 = p2  t1 = t1  t2 = t2  t3 = t3
    q1 = q1  q2 = q2  q3 = q3
    Nothing = Nothing  NoCode = NoCode  NoPayTo = NoPayTo
    Sellers <- TwoSellers
    Reporter = p1
    MaxPayments = 3
    MaxClaims = 2
    MaxAgain = 1
    MaxFailures = 1
    Txs <- ThreeTxs
    Alien <- OneAlien
    SwapReports <- OneSwap
    Reports <- ThreeReports
    POLL_ATTEMPTS = 2
    MAX_REPORTED = 1
    MaxRuns = 2
    MaxRestarts = 1
    Requests <- ThreeRequests
    Demo <- OneDemo
    Sliced <- OneToken
    UnitPrice = 1
    SliceUnits = 2
    ChannelDeposit = 3
    MaxPieces = 1
    MaxLost = 1
INVARIANTS AcceptedIsClaimable  PublishedOnce  PaidAsOffered
 
CHECK_DEADLOCK FALSE
