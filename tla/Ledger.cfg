SPECIFICATION Spec
CONSTANTS
    m1 = m1
    m2 = m2
    L = L
    D = D
    NoAsset = NoAsset
    NoSwap = NoSwap
    Solvers = {m1, m2}
    Swaps = {s1, s2}
    LocalSwaps = {s1}
    Clients = {c1, c2}
    MaxU64 = 4
    MaxClock = 1
    Requests <- MCRequests
    Inventories <- MCInventories
    Sum <- MCSum
INVARIANTS
    TypeOK
    Backed
    Solvent
    AlwaysBookable
    SingleOwner
PROPERTIES
    Conserved
    OwnedStaysLocked
    OutcomesDisjoint
SYMMETRY MCSymmetry
CHECK_DEADLOCK FALSE
