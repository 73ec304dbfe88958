----------------------------- MODULE WalletKeys -----------------------------
(* The keys of the wallet, and how long an encrypted wallet stays          *)
(* unlocked: two state machines that share no variable.                    *)
(*                                                                         *)
(* The first is the keys (wallet/wallet.cpp, wallet/crypter.cpp,           *)
(* wallet/walletdb.cpp, wallet/db.cpp): the key pool and the CReserveKey   *)
(* objects that borrow from it, encryption of the wallet, and what         *)
(* wallet.dat holds after a crash.                                         *)
(*                                                                         *)
(* cs_wallet makes the operations atomic towards each other, with two      *)
(* exceptions the module keeps: LockWallet, which the timer thread runs    *)
(* without that lock, and a crash, which falls between any two writes.  So *)
(* an operation that writes several records is several steps, and `op`     *)
(* says which operation holds the lock.                                    *)
EXTENDS Naturals, FiniteSets, FiniteSetsExt, Functions

CONSTANTS
    Holders,        \* the threads that own a CReserveKey (miners, payments)
    nKeyPool,       \* the option -keypool
    MaxKeys,        \* bound: how many keys are ever generated
    Encrypts        \* whether encryptwallet is called

Keys == 1..MaxKeys  \* keys are numbered in the order they are generated
None == [nIndex |-> 0, key |-> 0]   \* a CReserveKey without a key (nIndex == -1)
Idle == [name |-> "none", who |-> "none"]

\* With -keypool=0 the pool can be empty while a thread holds a key, and TopUpKeyPool starts at
\* index 1 again: it may overwrite the record of the key that is held.
KeysAssumption == nKeyPool \in Nat \ {0}

VARIABLES
    wallet,     \* [fUseCrypto, locked, keys, setKeyPool]: CCryptoKeyStore and CWallet in memory
    disk,       \* wallet.dat as the program reads it: [key, ckey, pool], sets of keys and
                \* the function from pool indexes to keys
    images,     \* what wallet.dat may be after a crash: the states since the last checkpoint
    held,       \* held[h]: the CReserveKey of thread h
    used,       \* the keys that were given out for good
    change,     \* the keys that z_sendmany paid change to
    made,       \* how many keys were generated
    op,         \* the operation that holds cs_wallet
    up          \* "up", "stopping" (StartShutdown was called) or "down"

vars == <<wallet, disk, images, held, used, change, made, op, up>>

-----------------------------------------------------------------------------
(* wallet.dat.  A write is committed to the log without a sync             *)
(* (DB_TXN_WRITE_NOSYNC); closing a CWalletDB makes a checkpoint, which    *)
(* puts everything before it on the disk.                                  *)

EmptyFile == [key |-> {}, ckey |-> {}, pool |-> <<>>]

ErasePool(d, I) == [d EXCEPT !.pool = Restrict(@, DOMAIN @ \ I)]
WritePool(d, n, k) == [d EXCEPT !.pool = [i \in DOMAIN @ \cup {n} |-> IF i = n THEN k ELSE @[i]]]

\* A form of AddKeyPubKey that writes the plain key whether the wallet is encrypted or not.
WritePlainKey(d, k) == [d EXCEPT !.key = @ \cup {k}]

\* WriteKey and WriteCryptedKey, for a key added while the wallet is or is not encrypted.
WriteKey(d, k) ==
    IF wallet.fUseCrypto THEN [d EXCEPT !.ckey = @ \cup {k}] ELSE [d EXCEPT !.key = @ \cup {k}]

\* LoadWallet: plain and encrypted keys in one file are DB_CORRUPT (SetCrypted fails).
Loadable(d) == d.key = {} \/ d.ckey = {}

LoadWallet(d) ==
    [fUseCrypto |-> d.ckey # {}, locked |-> d.ckey # {}, keys |-> d.key \cup d.ckey,
     setKeyPool |-> DOMAIN d.pool]

IsLocked == wallet.fUseCrypto /\ wallet.locked

Running == up = "up"
Free == op = Idle

-----------------------------------------------------------------------------
(* The key pool.                                                           *)

\* One turn of the loops of TopUpKeyPool and NewKeyPool: GenerateNewKey, whose own CWalletDB
\* makes a checkpoint when it is closed, then WritePool.
AddToPool(n) ==
    LET k == made + 1
        withKey == WriteKey(disk, k)
    IN  /\ made < MaxKeys
        /\ made' = k
        /\ wallet' = [wallet EXCEPT !.keys = @ \cup {k}, !.setKeyPool = @ \cup {n}]
        /\ disk' = WritePool(withKey, n, k)
        /\ images' = {withKey, disk'}

\* The index after the last one of the pool.
NextIndex == IF wallet.setKeyPool = {} THEN 1 ELSE Max(wallet.setKeyPool) + 1

PoolIsFull == Cardinality(wallet.setKeyPool) >= nKeyPool + 1

TopUpKeyPool ==
    /\ op.name \in {"reserve", "refill"}
    /\ ~IsLocked /\ ~PoolIsFull
    /\ AddToPool(NextIndex)
    /\ UNCHANGED <<held, used, change, op, up>>

\* The timer locked the wallet in the middle of TopUpKeyPool: AddKeyPubKey fails, GenerateNewKey
\* throws and the operation ends without a key.
TopUpFails ==
    /\ op.name \in {"reserve", "refill"}
    /\ IsLocked /\ ~PoolIsFull
    /\ op' = Idle
    /\ images' = {disk}
    /\ UNCHANGED <<wallet, disk, held, used, change, made, up>>

\* keypoolrefill, and walletpassphrase once the passphrase was right.
Refill ==
    /\ Running /\ Free /\ ~IsLocked
    /\ op' = [name |-> "refill", who |-> "none"]
    /\ UNCHANGED <<wallet, disk, images, held, used, change, made, up>>

Unlock ==
    /\ Running /\ Free /\ IsLocked
    /\ wallet' = [wallet EXCEPT !.locked = FALSE]
    /\ op' = [name |-> "refill", who |-> "none"]
    /\ UNCHANGED <<disk, images, held, used, change, made, up>>

RefillDone ==
    /\ op.name = "refill" /\ PoolIsFull
    /\ op' = Idle
    /\ images' = {disk}
    /\ UNCHANGED <<wallet, disk, held, used, change, made, up>>

\* GetReservedKey of a thread without a key, and GetKeyFromPool for getnewaddress: top the pool
\* up unless the wallet is locked, then take the oldest key.
ReserveKeyFromKeyPool(h) ==
    /\ Running /\ Free
    /\ h \in Holders => held[h] = None
    /\ h = "z_sendmany" => ~IsLocked    \* EnsureWalletIsUnlocked
    /\ IsLocked => wallet.setKeyPool # {}
    /\ op' = [name |-> IF IsLocked THEN "take" ELSE "reserve", who |-> h]
    /\ UNCHANGED <<wallet, disk, images, held, used, change, made, up>>

\* ReadPool finds the record of index n, and the key store has its key.
HasRecord(n) == n \in DOMAIN disk.pool /\ disk.pool[n] \in wallet.keys

TakeOldest ==
    /\ op.name = "take" \/ (op.name = "reserve" /\ PoolIsFull)
    /\ op.who # "z_sendmany"
    /\ LET n == Min(wallet.setKeyPool)
           h == op.who
       IN  /\ wallet' = [wallet EXCEPT !.setKeyPool = @ \ {n}]
           /\ op' = Idle
           /\ \/ \* "read failed": an exception; a CReserveKey has stored the index by then
                 /\ ~HasRecord(n)
                 /\ held' = IF h \in Holders THEN [held EXCEPT ![h] = [nIndex |-> n, key |-> 0]]
                            ELSE held
                 /\ UNCHANGED <<disk, used>>
              \/ /\ HasRecord(n) /\ h \in Holders
                 /\ held' = [held EXCEPT ![h] = [nIndex |-> n, key |-> disk.pool[n]]]
                 /\ UNCHANGED <<disk, used>>
              \/ \* GetKeyFromPool keeps the key at once
                 /\ HasRecord(n) /\ h \notin Holders
                 /\ used' = used \cup {disk.pool[n]}
                 /\ disk' = ErasePool(disk, {n})
                 /\ UNCHANGED held
    /\ images' = {disk'}
    /\ UNCHANGED <<change, made, up>>

\* add_taddr_change_output_to_tx of z_sendmany: the oldest key is reserved, an output pays to it,
\* and the destructor of the CReserveKey, which was never told to keep the key, returns it.
ChangeOutput ==
    /\ op.name = "reserve" /\ PoolIsFull /\ op.who = "z_sendmany"
    /\ LET n == Min(wallet.setKeyPool)
       IN  change' = IF HasRecord(n) THEN change \cup {disk.pool[n]} ELSE change
    /\ op' = Idle
    /\ images' = {disk}
    /\ UNCHANGED <<wallet, disk, held, used, made, up>>

\* A form of KeepKey that leaves the record of the key in wallet.dat.
KeepKeyInPool(h) ==
    /\ Running /\ held[h].key # 0
    /\ used' = used \cup {held[h].key}
    /\ held' = [held EXCEPT ![h] = None]
    /\ UNCHANGED <<wallet, disk, images, change, made, op, up>>

\* CReserveKey::KeepKey, when a block was found or a payment is committed.  It takes no lock.
KeepKey(h) ==
    /\ Running /\ held[h].key # 0
    /\ disk' = ErasePool(disk, {held[h].nIndex})
    /\ images' = {disk'}
    /\ used' = used \cup {held[h].key}
    /\ held' = [held EXCEPT ![h] = None]
    /\ UNCHANGED <<wallet, change, made, op, up>>

\* CReserveKey::ReturnKey, also from its destructor when the thread ends.
ReturnKey(h) ==
    /\ up # "down" /\ Free /\ held[h] # None
    /\ wallet' = [wallet EXCEPT !.setKeyPool = @ \cup {held[h].nIndex}]
    /\ held' = [held EXCEPT ![h] = None]
    /\ UNCHANGED <<disk, images, used, change, made, op, up>>

-----------------------------------------------------------------------------
(* Encryption.                                                             *)

\* walletlock, and LockWallet on the timer thread, which does not wait for cs_wallet.
Lock ==
    /\ Running /\ wallet.fUseCrypto /\ ~wallet.locked
    /\ op.name \notin {"encrypt", "renew"}   \* there is no timer before the wallet is encrypted
    /\ wallet' = [wallet EXCEPT !.locked = TRUE]
    /\ UNCHANGED <<disk, images, held, used, change, made, op, up>>

\* EncryptWallet up to the commit: the keys in memory are encrypted, the records wait in a
\* transaction.
EncryptKeys ==
    /\ Encrypts /\ Running /\ Free /\ ~wallet.fUseCrypto /\ wallet.keys # {}
    /\ wallet' = [wallet EXCEPT !.fUseCrypto = TRUE, !.locked = TRUE]
    /\ op' = [name |-> "encrypt", who |-> "none"]
    /\ UNCHANGED <<disk, images, held, used, change, made, up>>

\* The records of the transaction: every key as a ckey, and its plain record erased.
Encrypted(d) == [d EXCEPT !.ckey = wallet.keys, !.key = {}]

\* TxnCommit and the checkpoint that follows; Lock, Unlock; then NewKeyPool erases the records of
\* the indexes in the pool, in order and without a checkpoint.
TxnCommit ==
    /\ op.name = "encrypt"
    /\ LET d == Encrypted(disk)
       IN  /\ disk' = ErasePool(d, wallet.setKeyPool)
           /\ images' = {ErasePool(d, {i \in wallet.setKeyPool : i < n})
                            : n \in wallet.setKeyPool \cup {NextIndex}}
    /\ wallet' = [wallet EXCEPT !.locked = FALSE, !.setKeyPool = {}]
    /\ op' = [op EXCEPT !.name = "renew"]
    /\ UNCHANGED <<held, used, change, made, up>>

\* NewKeyPool: new keys at the indexes 1 to nKeyPool.
NewKeyPool ==
    /\ op.name = "renew" /\ Cardinality(wallet.setKeyPool) < nKeyPool
    /\ AddToPool(Cardinality(wallet.setKeyPool) + 1)
    /\ UNCHANGED <<held, used, change, op, up>>

\* The wallet is locked and rewritten, and encryptwallet stops the server.
EncryptDone ==
    /\ op.name = "renew" /\ Cardinality(wallet.setKeyPool) >= nKeyPool
    /\ wallet' = [wallet EXCEPT !.locked = TRUE]
    /\ op' = Idle
    /\ images' = {disk}
    /\ up' = "stopping"
    /\ UNCHANGED <<disk, held, used, change, made>>

-----------------------------------------------------------------------------
\* The program ends: by itself once the threads have ended, or at any moment.
Stop ==
    /\ up = "stopping" /\ Free /\ \A h \in Holders : held[h] = None
    /\ up' = "down"
    /\ images' = {disk}
    /\ UNCHANGED <<wallet, disk, held, used, change, made, op>>

Crash ==
    /\ up # "down"
    /\ up' = "down"
    /\ \E d \in images : disk' = d /\ images' = {d}
    /\ held' = [h \in Holders |-> None]
    /\ op' = Idle
    /\ UNCHANGED <<wallet, used, change, made>>

Restart ==
    /\ up = "down" /\ Loadable(disk)
    /\ up' = "up"
    /\ wallet' = LoadWallet(disk)
    /\ UNCHANGED <<disk, images, held, used, change, made, op>>

Init ==
    /\ wallet = LoadWallet(EmptyFile)
    /\ disk = EmptyFile /\ images = {EmptyFile}
    /\ held = [h \in Holders |-> None]
    /\ used = {} /\ change = {} /\ made = 0 /\ op = Idle
    /\ up = "up"

Next ==
    \/ TopUpKeyPool \/ TopUpFails \/ Refill \/ Unlock \/ RefillDone
    \/ \E h \in Holders \cup {"rpc", "z_sendmany"} : ReserveKeyFromKeyPool(h)
    \/ TakeOldest \/ ChangeOutput
    \/ \E h \in Holders : KeepKey(h) \/ ReturnKey(h)
    \/ Lock \/ EncryptKeys \/ TxnCommit \/ NewKeyPool \/ EncryptDone
    \/ Stop \/ Crash \/ Restart

Spec == Init /\ [][Next]_vars

-----------------------------------------------------------------------------
\* The key pool of an unencrypted wallet offers only fresh keys: the record of every index in
\* setKeyPool exists and holds a key of the key store that was not given out and that no
\* CReserveKey holds, and no two CReserveKeys hold the same key (KeepKey: "Take key pair from
\* key pool so it won't be used again"), whatever threads reserve, keep and return keys and
\* wherever a crash falls.
PoolKeysAreFresh ==
    up = "up" /\ ~wallet.fUseCrypto =>
        /\ \A i \in wallet.setKeyPool :
            HasRecord(i) /\ disk.pool[i] \notin used \cup {held[h].key : h \in Holders}
        /\ \A h \in Holders : held[h].key \notin used
        /\ \A g, h \in Holders : held[g].key = held[h].key => g = h \/ held[g] = None

\* A crash at any moment loses no key that was given out or is held by a thread, and leaves a
\* wallet.dat that loads: its keys are all plain or all encrypted (EncryptWallet: "die and let
\* the user reload the unencrypted wallet").
GivenKeysSurvive ==
    \A d \in images :
        /\ Loadable(d)
        /\ used \cup {held[h].key : h \in Holders} \subseteq d.key \cup d.ckey \cup {0}

\* The key pool offers only keys that nobody has, and a crash loses no key that was given out.
KeysAreSafe == PoolKeysAreFresh /\ GivenKeysSurvive

\* "Returns a new LitecoinZ address for receiving payments" (getnewaddress), and CommitTransaction
\* takes the key of a change output "from key pool so it won't be used again": a key that is
\* given out was not the change address of an earlier payment.
AddressesAreNew == used \cap change = {}

-----------------------------------------------------------------------------
(* Unlocking an encrypted wallet for a time (wallet/rpcwallet.cpp:         *)
(* walletpassphrase, walletlock, walletpassphrasechange; rpc/server.cpp:   *)
(* RPCRunLater; httprpc.cpp: HTTPRPCTimer).  Two threads: a worker of the  *)
(* HTTP server that runs the commands, one at a time since each holds      *)
(* cs_wallet to its end, and the event thread that runs LockWallet when    *)
(* the time is up.  LockWallet takes cs_nWalletUnlockTime, not cs_wallet.  *)

CONSTANT
    MayChange   \* the choices of whether walletpassphrasechange is called

UnlockAssumption == MayChange \subseteq BOOLEAN

VARIABLES
    changes,    \* whether it is, in this behaviour
    locked,     \* vMasterKey is empty
    pc,         \* where the worker is; "idle" between commands
    fWasLocked, \* the local variable of ChangeWalletPassphrase
    mutex,      \* who keeps cs_nWalletUnlockTime: "none" or "rpc"
    timer       \* deadlineTimers["lockwallet"]: "none", "pending", "running" (its callback
                \* runs) or "over"

unlockVars == <<changes, locked, pc, fWasLocked, mutex, timer>>

-----------------------------------------------------------------------------
(* walletpassphrase.                                                       *)

\* Unlock with the right passphrase; with a wrong one the command changes nothing.
WalletPassphrase ==
    /\ pc = "idle"
    /\ locked' = FALSE
    /\ pc' = "unlocked"
    /\ UNCHANGED <<changes, fWasLocked, mutex, timer>>

\* After UpdateNullifierNoteMap and TopUpKeyPool: LOCK(cs_nWalletUnlockTime).
LockUnlockTime ==
    /\ pc = "unlocked" /\ mutex = "none"
    /\ mutex' = "rpc"
    /\ pc' = "settimer"
    /\ UNCHANGED <<changes, locked, fWasLocked, timer>>

\* A form of RPCRunLater that does not erase the old timer first: insert keeps what is there.
RPCRunLaterInserts ==
    /\ pc = "settimer"
    /\ timer' = IF timer = "none" THEN "pending" ELSE timer
    /\ mutex' = "none"
    /\ pc' = "idle"
    /\ UNCHANGED <<changes, locked, fWasLocked>>

\* RPCRunLater: the old timer is erased, and to free its event waits for a callback that the
\* event thread is running; then a new timer is inserted and the command returns.
RPCRunLater ==
    /\ pc = "settimer" /\ timer # "running"
    /\ timer' = "pending"
    /\ mutex' = "none"
    /\ pc' = "idle"
    /\ UNCHANGED <<changes, locked, fWasLocked>>

-----------------------------------------------------------------------------
\* walletlock: the timer stays.
WalletLock ==
    /\ pc = "idle" /\ mutex = "none"
    /\ locked' = TRUE
    /\ UNCHANGED <<changes, pc, fWasLocked, mutex, timer>>

\* ChangeWalletPassphrase: whether the wallet is locked, asked before Lock() ...
ChangePassphrase ==
    /\ changes /\ pc = "idle"
    /\ fWasLocked' = locked
    /\ pc' = "change"
    /\ UNCHANGED <<changes, locked, mutex, timer>>

ChangeLock ==
    /\ pc = "change"
    /\ locked' = TRUE
    /\ pc' = "derive"
    /\ UNCHANGED <<changes, fWasLocked, mutex, timer>>

\* ... then, some hundred milliseconds later, Unlock with the old passphrase ...
ChangeUnlock ==
    /\ pc = "derive"
    /\ locked' = FALSE
    /\ pc' = "relock"
    /\ UNCHANGED <<changes, fWasLocked, mutex, timer>>

\* ... and Lock() again if the wallet was locked.
ChangeDone ==
    /\ pc = "relock"
    /\ locked' = (fWasLocked \/ locked)
    /\ pc' = "idle"
    /\ UNCHANGED <<changes, fWasLocked, mutex, timer>>

-----------------------------------------------------------------------------
(* The event thread.                                                       *)

TimeIsUp ==
    /\ timer = "pending"
    /\ timer' = "running"
    /\ UNCHANGED <<changes, locked, pc, fWasLocked, mutex>>

LockWallet ==
    /\ timer = "running" /\ mutex = "none"
    /\ locked' = TRUE
    /\ timer' = "over"
    /\ UNCHANGED <<changes, pc, fWasLocked, mutex>>

UnlockInit ==
    /\ changes \in MayChange
    /\ locked = TRUE /\ pc = "idle" /\ fWasLocked = FALSE
    /\ mutex = "none" /\ timer = "none"

Worker ==
    \/ LockUnlockTime \/ RPCRunLater \/ ChangeLock \/ ChangeUnlock \/ ChangeDone

UnlockNext ==
    \/ WalletPassphrase \/ WalletLock \/ ChangePassphrase
    \/ Worker \/ TimeIsUp \/ LockWallet

\* The worker goes on with a command it has begun, time passes, and the event thread runs what
\* is due.
UnlockFairness == WF_unlockVars(Worker) /\ WF_unlockVars(TimeIsUp) /\ WF_unlockVars(LockWallet)

UnlockSpec == UnlockInit /\ [][UnlockNext]_unlockVars /\ UnlockFairness

-----------------------------------------------------------------------------
\* Between commands an unlocked wallet has a timer that will lock it: walletpassphrase "stores
\* the wallet decryption key in memory for 'timeout' seconds", however often it is repeated,
\* walletlock comes in between, and the timer goes off; so long as the passphrase is not changed.
UnlockedIsTimed ==
    pc = "idle" /\ ~locked /\ ~changes => timer \in {"pending", "running"}

\* The same when the passphrase is changed too.
KeyIsKeptForATime == pc = "idle" /\ ~locked => timer \in {"pending", "running"}

\* walletpassphrase, also "while the wallet is already unlocked will set a new unlock time that
\* overrides the old one".
NewUnlockTimeOverrides == (pc = "unlocked") ~> (pc = "idle" /\ timer = "pending")
=============================================================================
