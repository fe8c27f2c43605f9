\* Polls and ticks keep pace, no RPC call fails.
SPECIFICATION Spec
CONSTANTS
    buyer = buyer  seller = seller  pool = pool
    usdc = usdc  key1 = key1  here = here
    Parties <- TwoParties
    Self = pool
    Assets <- OneAsset
    Keys <- OneKey
    Deployments <- OneDeployment
    Here = here
    Amounts <- DepositTwo
    Cumulatives <- Totals
    Expiries <- Expiry4
    CloseGrace = 1
    MaxU32 = 9
    Supply = 2
    MaxId = 1
    MaxLedger = 6
    payTo = seller
    usdcContractId = usdc
    Prices <- OnePrice
    voucherExpirySafetyLedgers = 1
    claimExpiryMarginLedgers = 1
    claimThreshold = 2
    manualClaimMin = 1
    rateLimitPerMinute = 0
    PageLimit = 9
    Freezable <- TheBuyer
    RpcReliable = TRUE
    Timely = TRUE
    MaxFlushes = 0
    MaxManual = 0
    MaxCrashes = 0
    MaxEvents = 3
INVARIANTS PayerCloseLosesNothing
CHECK_DEADLOCK FALSE
