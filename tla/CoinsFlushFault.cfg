CONSTANTS
    Txids = {t1, t2}
    Coins = {c1, c2}
    Pruned = Pruned
    Blocks = {b1, b2}
    NullHash = NullHash
    NoView = NoView
    Missing = Missing
SPECIFICATION FaultSpec
INVARIANT BestBlockNamesTheState
