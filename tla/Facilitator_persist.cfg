\* Postgres, crashes, shutdowns, and a claim by hand.
SPECIFICATION Spec
CONSTANTS
    buyer = buyer  seller = seller  pool = pool
    usdc = usdc  key1 = key1  here = here
    Parties <- TwoParties
    Self = pool
    Assets <- OneAsset
    Keys <- OneKey
    Deployments <- OneDeployment
    Here = here
    Amounts <- DepositTwo
    Cumulatives <- Totals
    Expiries <- Expiry3
    CloseGrace = 0
    MaxU32 = 9
    Supply = 2
    MaxId = 1
    MaxLedger = 1
    payTo = seller
    usdcContractId = usdc
    Prices <- OnePrice
    voucherExpirySafetyLedgers = 1
    claimExpiryMarginLedgers = 1
    claimThreshold = 9
    manualClaimMin = 1
    rateLimitPerMinute = 0
    PageLimit = 9
    Freezable <- Nobody
    RpcReliable = TRUE
    Timely = FALSE
    MaxFlushes = 1
    MaxManual = 1
    MaxCrashes = 2
    MaxEvents = 2
INVARIANTS AcceptedIsKept
PROPERTIES RowsMoveForward
CHECK_DEADLOCK FALSE
