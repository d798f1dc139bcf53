SPECIFICATION Spec
CONSTANTS
    ma = ma
    mb = mb
    sf = sf
    H = H
    Fixture = Fixture
    AssetHash = Fixture
    None = None
    NoAsset = NoAsset
    NoSwap = NoSwap
    Makers = {ma, mb}
    Sessions = {sf}
    MaxU64 = 5000
    MaxClock = 1
    MaxBacklog = 1
    Validity = 1
    Configs <- MCConfigs
    Peers <- MCPeers
    Intent <- MCIntent
    Bolt11 <- MCBolt11
    Sum <- MCSum
INVARIANTS
    TypeOK
    OwnedIsBound
    OneRowPerSession
PROPERTIES
    BookedInTime
    StoreIsLedger
    CommandsEnd
CHECK_DEADLOCK FALSE
