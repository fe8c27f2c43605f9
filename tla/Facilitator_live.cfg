\* Fair scheduling.
SPECIFICATION FairSpec
CONSTANTS
    buyer = buyer  seller = seller  pool = pool
    usdc = usdc  key1 = key1  here = here
    Parties <- TwoParties
    Self = pool
    Assets <- OneAsset
    Keys <- OneKey
    Deployments <- OneDeployment
    Here = here
    Amounts <- DepositTwo
    Cumulatives <- Totals
    Expiries <- Expiry3
    CloseGrace = 0
    MaxU32 = 9
    Supply = 2
    MaxId = 1
    MaxLedger = 2
    payTo = seller
    usdcContractId = usdc
    Prices <- OnePrice
    voucherExpirySafetyLedgers = 1
    claimExpiryMarginLedgers = 1
    claimThreshold = 9
    manualClaimMin = 1
    rateLimitPerMinute = 1
    PageLimit = 9
    Freezable <- Nobody
    RpcReliable = FALSE
    Timely = FALSE
    MaxFlushes = 0
    MaxManual = 0
    MaxCrashes = 0
    MaxEvents = 2
PROPERTIES AcceptedEventuallyPaid
CHECK_DEADLOCK FALSE
