SPECIFICATION Spec
CONSTANTS
    p1 = p1
    p2 = p2
    f1 = f1
    f2 = f2
    Runners = {p1, p2}
    FundingTxs = {f1, f2}
    NoTx = NoTx
    MakerReleases = TRUE
    TornWrites = TRUE
    Lock = 4
    RequiredDelta = 2
    HoldDelta = 2
    MinHeadroom = 1
    MaxMined = 4
    MaxHeight = 5
    MaxTip = 2
    MaxFaults = 1
INVARIANTS
    TypeOK
    FundedOnce
    WriteAhead
    ClaimNeedsPayment
    RefundNeedsFailure
    BooksAgree
PROPERTIES
    ImplementsAtomicSwap
SYMMETRY MCSymmetry
CHECK_DEADLOCK FALSE
