SPECIFICATION FairSpec
CONSTANTS
    p1 = p1
    f1 = f1
    Runners = {p1}
    FundingTxs = {f1}
    NoTx = NoTx
    MakerReleases = FALSE
    TornWrites = FALSE
    Lock = 4
    RequiredDelta = 2
    HoldDelta = 2
    MinHeadroom = 1
    MaxMined = 4
    MaxHeight = 5
    MaxTip = 2
    MaxFaults = 0
PROPERTIES
    PaidIsClaimed
CHECK_DEADLOCK FALSE
