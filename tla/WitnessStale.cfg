CONSTANTS
    Worlds <- ForkAndRestart
    Notes <- NotesOf
    Mine <- Ours
    WITNESS_CACHE_SIZE = 3
    Holders = {"m", "p"}
    nKeyPool = 1
    MaxKeys = 4
    Encrypts = TRUE
    MayChange = {FALSE, TRUE}
    Payments <- SomePayments
    dustThreshold = 2
    ZC_NUM_JS_INPUTS = 2
    ZC_NUM_JS_OUTPUTS = 2
    Off = Off
SPECIFICATION WitnessSpec
CHECK_DEADLOCK FALSE
INVARIANTS
    ReconnectingKeepsWitnesses
