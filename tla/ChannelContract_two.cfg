\* Two channels of two parties who share one voucher key; one of the expiries saturates with the grace.
SPECIFICATION FairSpec
CONSTANTS
    buyer = buyer  seller = seller  pool = pool
    usdc = usdc  key1 = key1  here = here
    Parties <- TwoParties
    Self = pool
    Assets <- OneAsset
    Keys <- OneKey
    Deployments <- OneDeployment
    Here = here
    Amounts <- SmallAmounts
    Cumulatives <- SmallTotals
    Expiries <- EdgeExpiries
    CloseGrace = 1
    MaxU32 = 5
    Supply = 2
    MaxId = 2
    MaxLedger = 4
INVARIANTS Solvency ClaimsAreBacked
PROPERTIES EventsTellTheState ImplementsEscrow SettledIsFinal PayerRecovers
CHECK_DEADLOCK FALSE
