CONSTANTS
    Worlds <- Sound
    Notes <- NotesOf
    Mine <- Ours
    WITNESS_CACHE_SIZE = 3
    Holders = {"m", "p"}
    nKeyPool = 1
    MaxKeys = 4
    Encrypts = TRUE
    MayChange = {FALSE, TRUE}
    Payments <- SomePayments
    dustThreshold = 2
    ZC_NUM_JS_INPUTS = 2
    ZC_NUM_JS_OUTPUTS = 2
    Off = Off
SPECIFICATION WalletSpec
\* A payment ends, and nobody has to use the wallet.
CHECK_DEADLOCK FALSE
INVARIANTS
    WitnessesMatchChain
    KeysAreSafe
    
    PaymentIsExact
