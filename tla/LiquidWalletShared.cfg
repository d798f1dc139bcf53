SPECIFICATION Spec
CONSTANTS
    sa = sa
    sb = sb
    Sessions = {sa, sb}
    None = None
    PaymentAsset = "depix"
    FeeAsset = "lbtc"
    LiquidityAmount = 2
    MaxHeight = 6
    MaxRestarts = 1
    Amount <- MCAmount
    Fee <- MCFee
    Lock <- MCLock
PROPERTY PaidIsClaimedUnlessLate
CHECK_DEADLOCK FALSE
