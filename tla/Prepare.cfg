SPECIFICATION Spec
CONSTANTS
    p1 = p1
    p2 = p2
    h1 = h1
    h2 = h2
    h3 = h3
    k1 = k1
    k2 = k2
    Procs = {p1, p2}
    Hashes = {h1, h2, h3}
    Keys = {k1, k2}
    None = None
    Partial = Partial
    Session = "session"
    AssetHash = "depix"
    Maker = "maker"
    MaxU64 = 5000
    Tip = 1
    LiquidSeconds = 1
    BitcoinSeconds = 2
    Lifetime = 3
    Validity = 2
    MaxHeight = 1
    MaxFaults = 1
    Arguments <- MCArguments
    Bolt11 <- MCBolt11
INVARIANTS
    TypeOK
    SecretIsDurable
    ValidEndToEnd
PROPERTIES
    PrepareCompletes
