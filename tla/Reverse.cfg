SPECIFICATION ReverseFairSpec
CONSTANTS
    p1 = p1
    f1 = f1
    Runners = {p1}
    FundingTxs = {f1}
    NoTx = NoTx
    MakerReleases = FALSE
    TornWrites = FALSE
    Lock = 8
    RequiredDelta = 2
    HoldDelta = 4
    MinHeadroom = 1
    BlockRatio = 2
    ClaimMargin = 4
    Paced = TRUE
    MaxMined = 10
    MaxHeight = 12
    MaxTip = 4
    MaxFaults = 1
INVARIANTS
    ReverseTypeOK
    HoldCoversFunding
    SettleNeedsClaim
    RefundNeedsDrop
    HoldOutlivesLock
PROPERTIES
    ClaimIsPaid
    FundedIsDecided
CHECK_DEADLOCK FALSE
