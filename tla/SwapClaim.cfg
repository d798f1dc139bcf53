SPECIFICATION FairSpec
CONSTANTS
    p1 = p1
    f1 = f1
    Runners = {p1}
    FundingTxs = {f1}
    NoTx = NoTx
    MakerReleases = FALSE
    TornWrites = FALSE
    Lock = 6
    RequiredDelta = 2
    HoldDelta = 2
    MinHeadroom = 1
    MaxMined = 2
    MaxHeight = 4
    MaxTip = 2
    MaxFaults = 2
INVARIANTS
    NoSecondPayment
PROPERTIES
    HoldIsKept
    RevealedIsClaimed
    RevealedIsSettled
CHECK_DEADLOCK FALSE
