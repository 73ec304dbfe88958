CONSTANTS
    Genesis = "g"
    Tx <- Txs
    Block <- Blocks
    BlockHeight <- HeightOf
    NoteCommitments <- Commits
    COINBASE_MATURITY = 2
    InitialSubsidy = 8
    SubsidyHalvingInterval = 3
    Networks <- TwoNetworks
    Refusable = {"t1", "j1", "t3", "s3", "s4"}
    TreeBlocks <- ForkBlocks
    Parent <- ForkParent
    Addr <- ForkAddr
    Threads = {t1, t2}
    MinBlocksToKeep = 2
    Worlds <- ForkedWorlds
    NoBlock = NoBlock
    Off = Off
SPECIFICATION ConsensusSpec
\* Blocks need not arrive.
CHECK_DEADLOCK FALSE
INVARIANTS
    StateMatchesChain
    SupplyIsBounded
    PoolMapsExact
    PoolIsMinable
PROPERTIES
    PoolKeeps
    ActivationReturns
