CONSTANTS
    TreeWorlds <- MCTreeWorlds
    Lists <- MCLists
    Bad = Bad
    Base = 4
    nMaxNumSize = 2
    MaxSmall = 1
    MaxOps = 7
    MaxStack = 8
    LOCKTIME_THRESHOLD = 10
    Signs <- MCSigns
    StrictDER <- MCStrictDER
    LowS <- MCLowS
    DefinedHashtype <- MCDefinedHashtype
    CanonicalKeys <- MCCanonicalKeys
    Redeem <- MCRedeem
    ScriptWorlds <- MCScriptWorlds
    ByteBits = 2
    WordBits = 4
    TruncBits = 2
    HashWorlds <- MCHashWorlds
    Width = 16
    powLimit = 16000
    nPowAveragingWindow = 3
    nPowMaxAdjustDown = 32
    nPowMaxAdjustUp = 16
    nPowTargetSpacing = 3
    nMedianTimeSpan = 3
    DenseLocator = 2
    MaxFuture = 30
    HeaderWorlds <- MCHeaderWorlds
    PoolWorlds <- MCPoolWorlds
    MAX_BLOCK_SIGOPS = 6
    MAX_BLOCK_SIZE = 9
    HeaderSize = 1
    CoinbaseSigOps = 1
    Kilo = 2
    FreeThreshold = 3
    minRelayTxFee = 2
    Subsidy = 5
    Threads = {t1, t2}
    MaxBlocks = 3
    MaxTips = 3
    MaxUpdates = 3
    Off = Off
SPECIFICATION Spec
\* Trees fill up, scripts and blocks are finished, and miners may be stopped.
CHECK_DEADLOCK FALSE
INVARIANTS
    TreesProve
    ScriptsMeanWhatTheySay
    
    

    
