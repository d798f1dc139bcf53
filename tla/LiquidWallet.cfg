SPECIFICATION Spec
CONSTANTS
    sa = sa
    sb = sb
    Sessions = {sa, sb}
    None = None
    PaymentAsset = "depix"
    FeeAsset = "lbtc"
    LiquidityAmount = 2
    MaxHeight = 6
    MaxRestarts = 1
    Amount <- MCAmount
    Fee <- MCFee
    Lock <- MCLock
INVARIANTS
    PersistedIsValid
    HtlcPaysOneSide
PROPERTIES
    PaidIsClaimedUnlessRaced
CHECK_DEADLOCK FALSE
