CONSTANTS
    Keys = {1, 2, 3}
    kNumLevels = 3
    kMaxMemCompactLevel = 2
    kL0_StopWritesTrigger = 3
    TableWorlds <- MCTableWorlds
    Parent <- MCParent
    MAX_BLOCKFILE_SIZE = 2
    MIN_BLOCKS_TO_KEEP = 1
    checkblocks = 1
    MaxFile = 3
    FileWorlds <- MCFileWorlds
    Txids = {t1, t2}
    Coins = {c1, c2}
    Pruned = Pruned
    Blocks = {b1, b2}
    NullHash = NullHash
    NoView = NoView
    Missing = Missing
    IterWorlds <- MCIterWorlds
    UserKeys <- MCUserKeys
    Digits = 3
    ListKeys = {1, 2, 3}
    kMaxHeight = 2
    Junk = Junk
    CacheKeys = {0, 1, 2, 3}
    CacheThreads = {1, 2}
    CacheWorlds <- MCCacheWorlds
    MaxHandles = 6
    None = None
SPECIFICATION StorageSpec
INVARIANTS
    FlagsTellTheTruth
    
    
    ReadersAreSafe
    RestartSucceeds
PROPERTIES
    ImplementsCoinsView
    ReindexFindsEverything
\* Nothing more need be written, and a node that is down may stay down.
CHECK_DEADLOCK FALSE
