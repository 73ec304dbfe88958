CONSTANTS
    pa = pa
    pb = pb
    Peers = {pa, pb}
    NoPeer = NoPeer
    Blocks = {1, 2, 3, 4, 5, 6}
    NoBlock = NoBlock
    BlockWorlds <- MCBlockWorlds
    BLOCK_DOWNLOAD_WINDOW = 1
    MAX_BLOCKS_IN_TRANSIT_PER_PEER = 2
    MAX_HEADERS_RESULTS = 2
    Txs = {1, 2, 3}
    Worlds <- MCTxWorlds
    nMaxOrphanTx = 2
    Services = {1, 2, 3, 4}
    Host <- MCHost
    Sources = {1, 2}
    NewBuckets = {0, 1}
    TriedBuckets = {0}
    Positions = {0, 1}
    NewBucket <- MCNewBucket
    TriedBucket <- MCTriedBucket
    NewPosition <- MCNewPosition
    TriedPosition <- MCTriedPosition
    ADDRMAN_NEW_BUCKETS_PER_ADDRESS = 2
    ADDRMAN_GETADDR_MAX_PCT = 50
    MaxId = 4
    Nodes = {n1, n2, n3}
    NoNode = NoNode
    MAX_OUTBOUND_CONNECTIONS = 1
    nMaxInbound = 1
    Ends = {pa, pb}
    Errands <- MCErrands
    AnswerSize = 2
    Window = 3
    SendBufferSize = 3
    ReceiveFloodSize = 1
    Off = Off
SPECIFICATION NetSpec
\* A world comes to its end when everything there was to fetch has been fetched.
CHECK_DEADLOCK FALSE
INVARIANTS
    BookkeepingExact
    
    TablesConsistent
    
    AnswersInOrder
PROPERTIES
    OrphansResolved
    
    
