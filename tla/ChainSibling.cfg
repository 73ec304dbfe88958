CONSTANTS
    Genesis = g
    a1 = a1
    a2 = a2
    b1 = b1
    b2 = b2
    b3 = b3
    c2 = c2
    Blocks <- TreeBlocks
    Parent <- TreeParent
    Addr <- TreeAddr
    Threads = {t1}
    MinBlocksToKeep = 2
    Worlds <- SiblingWorld
    NoBlock = NoBlock
SPECIFICATION Spec
\* Blocks need not arrive, and nobody has to call an RPC.
CHECK_DEADLOCK FALSE
INVARIANT FailedMaskHasCause
