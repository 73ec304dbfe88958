---------------------------- MODULE WalletProofs ----------------------------
(***************************************************************************)
(* The safety properties of the two machines of WalletKeys: the keys, for  *)
(* any number of threads and keys and any size of the key pool but zero,   *)
(* and the time an encrypted wallet stays unlocked.                        *)
(***************************************************************************)
EXTENDS WalletKeys, FiniteSetTheorems, WellFoundedInduction, TLAPS

-----------------------------------------------------------------------------
(* The invariant of the keys.                                              *)

(* The pool of a file that is not encrypted: different keys that are not in u, and a last index. *)
PlainPool(d, u) ==
    /\ IsFiniteSet(DOMAIN d.pool) /\ DOMAIN d.pool \subseteq Nat \ {0}
    /\ \A i \in DOMAIN d.pool : d.pool[i] \in d.key /\ d.pool[i] \notin u
    /\ \A i, j \in DOMAIN d.pool : d.pool[i] = d.pool[j] => i = j
    /\ DOMAIN d.pool = {} \/ \E m \in DOMAIN d.pool : \A i \in DOMAIN d.pool : i <= m

(* A file d after m keys were made, with the keys u given out and the keys g held by threads. *)
FileOK(d, m, u, g) ==
    /\ d = [key |-> d.key, ckey |-> d.ckey, pool |-> d.pool]
    /\ d.key \cup d.ckey \subseteq 1 .. m
    /\ d.key = {} \/ d.ckey = {}
    /\ u \subseteq d.key \cup d.ckey
    /\ \A h \in Holders : g[h].key \in (d.key \cup d.ckey) \cup {0}
    /\ d.ckey = {} => PlainPool(d, u)

(* What wallet.dat is, and what a crash may leave of it. *)
FileInv ==
    /\ FileOK(disk, made, used, held)
    /\ \A d \in images : FileOK(d, made, used, held)

(* Until the encrypted keys are on the disk every index is in the pool, held by one thread, or gone; and  *)
(* the last one is in the pool, so that TopUpKeyPool goes on after all of them.                           *)
PoolInv ==
    /\ wallet.setKeyPool \subseteq DOMAIN disk.pool
    /\ DOMAIN disk.pool = {} \/ \E m \in wallet.setKeyPool : \A i \in DOMAIN disk.pool : i <= m
    /\ \A h \in Holders : held[h] # None =>
            /\ held[h].nIndex \in DOMAIN disk.pool \ wallet.setKeyPool
            /\ held[h].key = disk.pool[held[h].nIndex]
    /\ \A g, h \in Holders : held[g].nIndex = held[h].nIndex => g = h \/ held[g] = None

(* The key store has the keys of the file, and is encrypted once EncryptKeys has begun. *)
MemoryInv ==
    /\ wallet.keys = disk.key \cup disk.ckey
    /\ wallet.fUseCrypto <=> disk.ckey # {} \/ op.name = "encrypt"
    /\ op.name = "encrypt" => disk.ckey = {} /\ wallet.keys # {}
    /\ op.name \in {"take", "renew"} => disk.ckey # {}
    /\ disk.ckey = {} => PoolInv

ShapeInv ==
    /\ wallet = [fUseCrypto |-> wallet.fUseCrypto, locked |-> wallet.locked, keys |-> wallet.keys,
                 setKeyPool |-> wallet.setKeyPool]
    /\ wallet.fUseCrypto \in BOOLEAN
    /\ held = [h \in Holders |-> held[h]]
    /\ op = [name |-> op.name, who |-> op.who]
    /\ made \in Nat
    /\ up \in {"up", "stopping", "down"}
    /\ up = "down" => op = Idle /\ \A h \in Holders : held[h] = None

KeysInv ==
    /\ ShapeInv
    /\ FileInv
    /\ up # "down" => MemoryInv

-----------------------------------------------------------------------------
(* The operators. *)

(* The largest and the smallest element of a set are elements of it and bound it. *)
LEMMA MaxOf ==
    ASSUME NEW S, S \subseteq Nat, NEW m \in S, \A i \in S : i <= m
    PROVE  Max(S) = m
<1>1. m \in S /\ \A y \in S : m >= y
    OBVIOUS
<1>2. \A x \in S : (\A y \in S : x >= y) => x = m
    <2> SUFFICES ASSUME NEW x \in S, \A y \in S : x >= y PROVE x = m
        OBVIOUS
    <2>1. x >= m /\ x <= m /\ x \in Nat /\ m \in Nat
        OBVIOUS
    <2> QED BY <2>1
<1>3. Max(S) \in S /\ \A y \in S : Max(S) >= y
    BY Zenon, <1>1 DEF Max
<1> QED BY Zenon, <1>2, <1>3

LEMMA MinOf ==
    ASSUME NEW S, S \subseteq Nat, S # {}
    PROVE  Min(S) \in S /\ \A i \in S : Min(S) <= i
<1> DEFINE R == OpToRel(<, Nat)
<1>1. PICK x \in S : \A y \in S : ~(<<y, x>> \in R)
    <2> HIDE DEF R
    <2> QED BY Zenon, NatLessThanWellFounded, WFMin DEF R
<1>2. \A y \in S : x <= y
    <2> SUFFICES ASSUME NEW y \in S PROVE x <= y
        OBVIOUS
    <2>1. x \in Nat /\ y \in Nat
        OBVIOUS
    <2>2. ~(y < x)
        BY Zenon, <1>1, <2>1 DEF OpToRel
    <2> QED BY <2>1, <2>2
<1>3. \E z \in S : \A y \in S : z <= y
    BY <1>2
<1> QED BY Zenon, <1>3 DEF Min

(* The oldest index of a full pool is not its last one: there are at least two. *)
LEMMA TwoInFullPool ==
    ASSUME KeysAssumption, wallet.setKeyPool \subseteq Nat, IsFiniteSet(wallet.setKeyPool), PoolIsFull,
           NEW n \in wallet.setKeyPool
    PROVE  \E m \in wallet.setKeyPool : m # n
<1> SUFFICES ASSUME \A m \in wallet.setKeyPool : m = n PROVE FALSE
    OBVIOUS
<1>1. wallet.setKeyPool = {n}
    OBVIOUS
<1>2. Cardinality(wallet.setKeyPool) = 1
    BY <1>1, FS_Singleton
<1> QED BY <1>2 DEF PoolIsFull, KeysAssumption

(* The records of the pool once some are erased or one is written. *)
LEMMA Erased ==
    ASSUME NEW d, d = [key |-> d.key, ckey |-> d.ckey, pool |-> d.pool], NEW I
    PROVE  LET e == ErasePool(d, I)
           IN  /\ e = [key |-> d.key, ckey |-> d.ckey, pool |-> e.pool]
               /\ DOMAIN e.pool = DOMAIN d.pool \ I
               /\ \A i \in DOMAIN d.pool \ I : e.pool[i] = d.pool[i]
BY DEF ErasePool, Restrict

LEMMA Written ==
    ASSUME NEW d, d = [key |-> d.key, ckey |-> d.ckey, pool |-> d.pool], NEW n, NEW k
    PROVE  LET e == WritePool(d, n, k)
           IN  /\ e = [key |-> d.key, ckey |-> d.ckey, pool |-> e.pool]
               /\ DOMAIN e.pool = DOMAIN d.pool \cup {n}
               /\ e.pool[n] = k
               /\ \A i \in DOMAIN d.pool : i # n => e.pool[i] = d.pool[i]
BY DEF WritePool

-----------------------------------------------------------------------------
(* What the operations do to a file. *)

(* A thread gives a key up, or gets one of the file. *)
LEMMA HeldChanges ==
    ASSUME NEW d, NEW m, NEW u, NEW g, NEW f, FileOK(d, m, u, g),
           \A h \in Holders : f[h].key \in (d.key \cup d.ckey) \cup {0}
    PROVE  FileOK(d, m, u, f)
BY DEF FileOK

(* A new key is written, plain or encrypted as the others are. *)
LEMMA KeyAdded ==
    ASSUME NEW m \in Nat, NEW d, NEW u, NEW g, FileOK(d, m, u, g), NEW e,
           \/ d.ckey = {} /\ e = [d EXCEPT !.key = @ \cup {m + 1}]
           \/ d.ckey # {} /\ e = [d EXCEPT !.ckey = @ \cup {m + 1}]
    PROVE  FileOK(e, m + 1, u, g)
<1>1. CASE d.ckey = {} /\ e = [d EXCEPT !.key = @ \cup {m + 1}]
    <2>1. e = [key |-> d.key \cup {m + 1}, ckey |-> {}, pool |-> d.pool]
        BY Zenon, <1>1 DEF FileOK
    <2>2. e.key = d.key \cup {m + 1} /\ e.ckey = {} /\ e.pool = d.pool
        BY <2>1
    <2>3. PlainPool(e, u)
        BY <1>1, <2>2 DEF FileOK, PlainPool
    <2>4. e.key \cup e.ckey \subseteq 1 .. m + 1
        BY <1>1, <2>2 DEF FileOK
    <2> QED BY <1>1, <2>1, <2>2, <2>3, <2>4 DEF FileOK
<1>2. CASE d.ckey # {} /\ e = [d EXCEPT !.ckey = @ \cup {m + 1}]
    <2>1. d.key = {}
        BY <1>2 DEF FileOK
    <2>2. e = [key |-> {}, ckey |-> d.ckey \cup {m + 1}, pool |-> d.pool]
        BY Zenon, <1>2, <2>1 DEF FileOK
    <2>3. e.key = {} /\ e.ckey = d.ckey \cup {m + 1} /\ e.pool = d.pool
        BY <2>2
    <2>4. e.key \cup e.ckey \subseteq 1 .. m + 1
        BY <1>2, <2>1, <2>3 DEF FileOK
    <2>5. e.ckey # {} /\ u \subseteq e.key \cup e.ckey
        BY <1>2, <2>1, <2>3 DEF FileOK
    <2> QED BY Zenon, <1>2, <2>1, <2>2, <2>3, <2>4, <2>5 DEF FileOK
<1> QED BY <1>1, <1>2

(* A record for a key that is not in the pool goes after all others. *)
LEMMA RecordWritten ==
    ASSUME NEW d, NEW m, NEW u, NEW g, FileOK(d, m, u, g), NEW n, NEW k,
           d.ckey = {} =>
               /\ n \in Nat \ {0} /\ \A i \in DOMAIN d.pool : i < n
               /\ k \in d.key \ u /\ \A i \in DOMAIN d.pool : d.pool[i] # k
    PROVE  FileOK(WritePool(d, n, k), m, u, g)
<1> DEFINE e == WritePool(d, n, k)
<1>1. /\ e = [key |-> d.key, ckey |-> d.ckey, pool |-> e.pool]
      /\ DOMAIN e.pool = DOMAIN d.pool \cup {n}
      /\ e.pool[n] = k
      /\ \A i \in DOMAIN d.pool : i # n => e.pool[i] = d.pool[i]
    BY Written DEF FileOK
<1> HIDE DEF e
<1>2. e.key = d.key /\ e.ckey = d.ckey
    BY <1>1
<1>3. ASSUME d.ckey = {} PROVE PlainPool(e, u)
    <2>1. PlainPool(d, u)
        BY <1>3 DEF FileOK
    <2>2. IsFiniteSet(DOMAIN e.pool)
        BY <1>1, <2>1, FS_AddElement DEF PlainPool
    <2>3. \A i \in DOMAIN d.pool : i # n /\ i \in Nat /\ n \in Nat
        BY <1>3, <2>1 DEF PlainPool
    <2>4. /\ DOMAIN e.pool \subseteq Nat \ {0}
          /\ \A i \in DOMAIN e.pool : e.pool[i] \in e.key /\ e.pool[i] \notin u
          /\ \A i, j \in DOMAIN e.pool : e.pool[i] = e.pool[j] => i = j
        BY <1>1, <1>2, <1>3, <2>1, <2>3 DEF PlainPool
    <2>5. n \in DOMAIN e.pool /\ \A i \in DOMAIN e.pool : i <= n
        BY <1>1, <1>3, <2>3
    <2> QED BY <2>2, <2>4, <2>5 DEF PlainPool
<1>4. FileOK(e, m, u, g)
    BY <1>1, <1>2, <1>3 DEF FileOK
<1> QED BY <1>4 DEF e

(* The record of a key that is given out is erased, and it is not the last one. *)
LEMMA RecordErased ==
    ASSUME NEW d, NEW m, NEW u, NEW g, FileOK(d, m, u, g), NEW n, NEW k \in d.key \cup d.ckey,
           d.ckey = {} =>
               /\ n \in DOMAIN d.pool /\ d.pool[n] = k
               /\ \E l \in DOMAIN d.pool \ {n} : \A i \in DOMAIN d.pool : i <= l
    PROVE  FileOK(ErasePool(d, {n}), m, u \cup {k}, g)
<1> DEFINE e == ErasePool(d, {n})
<1>1. /\ e = [key |-> d.key, ckey |-> d.ckey, pool |-> e.pool]
      /\ DOMAIN e.pool = DOMAIN d.pool \ {n}
      /\ \A i \in DOMAIN d.pool \ {n} : e.pool[i] = d.pool[i]
    BY Erased DEF FileOK
<1> HIDE DEF e
<1>2. e.key = d.key /\ e.ckey = d.ckey
    BY <1>1
<1>3. ASSUME d.ckey = {} PROVE PlainPool(e, u \cup {k})
    <2>1. PlainPool(d, u)
        BY <1>3 DEF FileOK
    <2>2. IsFiniteSet(DOMAIN e.pool)
        BY <1>1, <2>1, FS_RemoveElement DEF PlainPool
    <2>3. /\ DOMAIN e.pool \subseteq Nat \ {0}
          /\ \A i \in DOMAIN e.pool : e.pool[i] \in e.key /\ e.pool[i] \notin u \cup {k}
          /\ \A i, j \in DOMAIN e.pool : e.pool[i] = e.pool[j] => i = j
        BY <1>1, <1>2, <1>3, <2>1 DEF PlainPool
    <2>4. \E l \in DOMAIN e.pool : \A i \in DOMAIN e.pool : i <= l
        BY <1>1, <1>3
    <2> QED BY <2>2, <2>3, <2>4 DEF PlainPool
<1>4. FileOK(e, m, u \cup {k}, g)
    BY <1>1, <1>2, <1>3 DEF FileOK
<1> QED BY <1>4 DEF e

LEMMA RecordsEncrypted ==
    ASSUME NEW d, d = [key |-> d.key, ckey |-> d.ckey, pool |-> d.pool], NEW K
    PROVE  [d EXCEPT !.ckey = K, !.key = {}] = [key |-> {}, ckey |-> K, pool |-> d.pool]
<1>1. DOMAIN d = {"key", "ckey", "pool"}
    OBVIOUS
<1> DEFINE c == [d EXCEPT !.ckey = K]
<1>2. c = [key |-> d.key, ckey |-> K, pool |-> d.pool]
    OBVIOUS
<1>3. c.key = d.key /\ c.ckey = K /\ c.pool = d.pool
    BY <1>2
<1> HIDE DEF c
<1>4. [c EXCEPT !.key = {}] = [key |-> {}, ckey |-> K, pool |-> d.pool]
    BY <1>2, <1>3
<1>5. [d EXCEPT !.ckey = K, !.key = {}] = [c EXCEPT !.key = {}]
    BY DEF c
<1> QED BY <1>4, <1>5

(* All keys are encrypted, and some records of the pool erased. *)
LEMMA AllEncrypted ==
    ASSUME NEW d, NEW m, NEW u, NEW g, FileOK(d, m, u, g), NEW K, K = d.key \cup d.ckey, K # {}, NEW I
    PROVE  FileOK(ErasePool([d EXCEPT !.ckey = K, !.key = {}], I), m, u, g)
<1>0. d = [key |-> d.key, ckey |-> d.ckey, pool |-> d.pool]
    BY Zenon DEF FileOK
<1> DEFINE c == [d EXCEPT !.ckey = K, !.key = {}]
           e == ErasePool(c, I)
<1>1. c = [key |-> {}, ckey |-> K, pool |-> d.pool]
    BY Zenon, <1>0, RecordsEncrypted
<1> HIDE DEF c
<1>2. c.key = {} /\ c.ckey = K /\ c = [key |-> c.key, ckey |-> c.ckey, pool |-> c.pool]
    BY <1>1
<1>3. e = [key |-> c.key, ckey |-> c.ckey, pool |-> e.pool]
    BY Zenon, <1>2, Erased
<1> HIDE DEF e
<1>4. e.key = {} /\ e.ckey = K
    BY <1>2, <1>3
<1>5. FileOK(e, m, u, g)
    BY <1>2, <1>3, <1>4 DEF FileOK
<1> QED BY <1>5 DEF e, c

-----------------------------------------------------------------------------
(* Every step keeps the invariant. *)

LEMMA FileSame ==
    ASSUME FileInv, UNCHANGED <<disk, held, used, made>>, images' = images \/ images' = {disk}
    PROVE  FileInv'
BY DEF FileInv

(* The steps that write no record: only wallet.locked and what holds the lock change. *)
LEMMA LockSteps ==
    ASSUME KeysInv, TopUpFails \/ Refill \/ Unlock \/ RefillDone \/ ChangeOutput \/ Lock
    PROVE  KeysInv'
<1>1. /\ UNCHANGED <<disk, held, used, made, up>>
      /\ images' = images \/ images' = {disk}
      /\ wallet' = wallet \/ wallet' = [wallet EXCEPT !.locked = TRUE] \/ wallet' = [wallet EXCEPT !.locked = FALSE]
      /\ op' = op \/ op' = Idle \/ op' = [name |-> "refill", who |-> "none"]
      /\ op.name # "encrypt" \/ op' = op
    <2>1. CASE TopUpFails \/ RefillDone \/ ChangeOutput
        BY <2>1 DEF TopUpFails, RefillDone, ChangeOutput
    <2>2. CASE Refill \/ Unlock
        BY <2>2 DEF Refill, Unlock, Free, Idle
    <2>3. CASE Lock
        BY <2>3 DEF Lock
    <2> QED BY <2>1, <2>2, <2>3
<1>2. /\ wallet'.fUseCrypto = wallet.fUseCrypto /\ wallet'.keys = wallet.keys
      /\ wallet'.setKeyPool = wallet.setKeyPool
      /\ wallet' = [fUseCrypto |-> wallet'.fUseCrypto, locked |-> wallet'.locked, keys |-> wallet'.keys,
                    setKeyPool |-> wallet'.setKeyPool]
    BY <1>1 DEF KeysInv, ShapeInv
<1>3. FileInv'
    BY <1>1, FileSame DEF KeysInv
<1>4. up # "down" \/ op' = op
    BY <1>1 DEF KeysInv, ShapeInv, TopUpFails, Refill, Unlock, RefillDone, ChangeOutput, Lock, Idle, Running
<1>5. ShapeInv'
    BY <1>1, <1>2, <1>4 DEF KeysInv, ShapeInv, Idle
<1>6. ASSUME up # "down" PROVE MemoryInv'
    <2>1. op'.name = op.name \/ (op.name # "encrypt" /\ op'.name \in {"none", "refill"})
        BY <1>1 DEF Idle
    <2> QED BY <1>1, <1>2, <1>6, <2>1 DEF KeysInv, MemoryInv, PoolInv
<1> QED BY <1>1, <1>3, <1>5, <1>6 DEF KeysInv

LEMMA ReserveStep ==
    ASSUME KeysInv, NEW h, ReserveKeyFromKeyPool(h)
    PROVE  KeysInv'
<1> USE DEF ReserveKeyFromKeyPool
<1>1. FileInv'
    BY FileSame DEF KeysInv
<1>2. ShapeInv'
    BY DEF KeysInv, ShapeInv, Running
<1>3. up # "down" /\ MemoryInv
    BY DEF KeysInv, Running
<1>4. MemoryInv'
    <2>1. op.name = "none"
        BY DEF Free, Idle
    <2>2. (op'.name = "take" /\ IsLocked) \/ op'.name = "reserve"
        OBVIOUS
    <2>3. op'.name = "take" => disk.ckey # {}
        BY <1>3, <2>1, <2>2 DEF MemoryInv, IsLocked
    <2> QED BY <1>3, <2>1, <2>2, <2>3 DEF MemoryInv, PoolInv
<1> QED BY <1>1, <1>2, <1>4 DEF KeysInv

LEMMA EncryptStep ==
    ASSUME KeysInv, EncryptKeys
    PROVE  KeysInv'
<1> USE DEF EncryptKeys
<1>1. FileInv'
    BY FileSame DEF KeysInv
<1>2. /\ wallet' = [fUseCrypto |-> TRUE, locked |-> TRUE, keys |-> wallet.keys, setKeyPool |-> wallet.setKeyPool]
      /\ wallet'.fUseCrypto = TRUE /\ wallet'.keys = wallet.keys /\ wallet'.setKeyPool = wallet.setKeyPool
    BY Zenon DEF KeysInv, ShapeInv
<1>3. ShapeInv'
    BY Zenon, <1>2 DEF KeysInv, ShapeInv, Running
<1>4. up # "down" /\ MemoryInv
    BY DEF KeysInv, Running
<1>5. MemoryInv'
    <2>1. op'.name = "encrypt"
        OBVIOUS
    <2>2. disk.ckey = {}
        BY <1>4 DEF MemoryInv
    <2> QED BY <1>2, <1>4, <2>1, <2>2 DEF MemoryInv, PoolInv
<1> QED BY <1>1, <1>3, <1>5 DEF KeysInv

LEMMA CommitStep ==
    ASSUME KeysInv, TxnCommit
    PROVE  KeysInv'
<1> USE DEF TxnCommit
<1>1. /\ wallet' = [fUseCrypto |-> wallet.fUseCrypto, locked |-> FALSE, keys |-> wallet.keys, setKeyPool |-> {}]
      /\ wallet'.fUseCrypto = wallet.fUseCrypto /\ wallet'.keys = wallet.keys
    BY Zenon DEF KeysInv, ShapeInv
<1>2. op' = [name |-> "renew", who |-> op.who] /\ op'.name = "renew" /\ op'.who = op.who
    BY DEF KeysInv, ShapeInv
<1>3. up # "down" /\ MemoryInv
    BY DEF KeysInv, ShapeInv, Idle
<1>4. /\ wallet.keys = disk.key \cup disk.ckey /\ wallet.keys # {} /\ disk.ckey = {}
      /\ wallet.fUseCrypto
    BY <1>3 DEF MemoryInv
<1>5. \A I : FileOK(ErasePool(Encrypted(disk), I), made, used, held)
    BY Zenon, <1>4, AllEncrypted DEF KeysInv, FileInv, Encrypted
<1>6. FileInv'
    BY Zenon, <1>5 DEF FileInv
<1>7. ShapeInv'
    BY Zenon, <1>1, <1>2, <1>3 DEF KeysInv, ShapeInv
<1>8. MemoryInv'
    <2> DEFINE c == Encrypted(disk)
    <2>1. c = [key |-> {}, ckey |-> wallet.keys, pool |-> disk.pool]
        BY Zenon, RecordsEncrypted DEF KeysInv, FileInv, FileOK, Encrypted
    <2>2. c.key = {} /\ c.ckey = wallet.keys /\ c.pool = disk.pool
        BY <2>1
    <2>4. disk' = ErasePool(c, wallet.setKeyPool)
        OBVIOUS
    <2> HIDE DEF c
    <2>5. c = [key |-> c.key, ckey |-> c.ckey, pool |-> c.pool]
        BY <2>1, <2>2
    <2>6. disk' = [key |-> c.key, ckey |-> c.ckey, pool |-> disk'.pool]
        BY <2>4, <2>5, Erased
    <2>3. disk'.key = {} /\ disk'.ckey = wallet.keys
        BY <2>2, <2>6
    <2>7. wallet'.keys = disk'.key \cup disk'.ckey /\ disk'.ckey # {}
        BY <1>1, <1>4, <2>3
    <2> HIDE DEF TxnCommit
    <2> QED BY <1>1, <1>2, <1>4, <2>7 DEF MemoryInv
<1> QED BY <1>6, <1>7, <1>8 DEF KeysInv

LEMMA DoneStep ==
    ASSUME KeysInv, EncryptDone
    PROVE  KeysInv'
<1> USE DEF EncryptDone
<1>1. FileInv'
    BY FileSame DEF KeysInv
<1>2. /\ wallet' = [fUseCrypto |-> wallet.fUseCrypto, locked |-> TRUE, keys |-> wallet.keys,
                    setKeyPool |-> wallet.setKeyPool]
      /\ wallet'.fUseCrypto = wallet.fUseCrypto /\ wallet'.keys = wallet.keys
      /\ wallet'.setKeyPool = wallet.setKeyPool
    BY Zenon DEF KeysInv, ShapeInv
<1>3. up # "down" /\ MemoryInv
    BY DEF KeysInv, ShapeInv, Idle
<1>4. ShapeInv'
    BY Zenon, <1>2 DEF KeysInv, ShapeInv, Idle
<1>5. MemoryInv'
    <2>1. op'.name = "none"
        BY DEF Idle
    <2> QED BY <1>2, <1>3, <2>1 DEF MemoryInv, PoolInv
<1> QED BY <1>1, <1>4, <1>5 DEF KeysInv

(* A new key goes into the pool, after all others as long as the wallet is plain. *)
LEMMA AddStep ==
    ASSUME KeysInv, NEW n, AddToPool(n), UNCHANGED <<held, used, op, up>>, up # "down", op.name # "encrypt",
           disk.ckey = {} => n = NextIndex
    PROVE  KeysInv'
<1> DEFINE k == made + 1
           d == WriteKey(disk, k)
<1>0. /\ made' = k /\ disk' = WritePool(d, n, k) /\ images' = {d, disk'}
      /\ wallet' = [wallet EXCEPT !.keys = @ \cup {k}, !.setKeyPool = @ \cup {n}]
    BY DEF AddToPool
<1>1. /\ wallet' = [fUseCrypto |-> wallet.fUseCrypto, locked |-> wallet.locked, keys |-> wallet.keys \cup {k},
                    setKeyPool |-> wallet.setKeyPool \cup {n}]
      /\ wallet'.fUseCrypto = wallet.fUseCrypto /\ wallet'.keys = wallet.keys \cup {k}
      /\ wallet'.setKeyPool = wallet.setKeyPool \cup {n}
    BY Zenon, <1>0 DEF KeysInv, ShapeInv
<1>2. made \in Nat /\ k \in Nat /\ k \notin 1 .. made
    BY DEF KeysInv, ShapeInv
<1>3. MemoryInv /\ FileOK(disk, made, used, held)
    BY DEF KeysInv, FileInv
<1>4. wallet.fUseCrypto <=> disk.ckey # {}
    BY <1>3 DEF MemoryInv
<1>5. /\ disk.ckey = {} => d = [key |-> disk.key \cup {k}, ckey |-> {}, pool |-> disk.pool]
      /\ disk.ckey # {} => d = [key |-> disk.key, ckey |-> disk.ckey \cup {k}, pool |-> disk.pool]
    BY Zenon, <1>3, <1>4 DEF WriteKey, FileOK
<1>6. d.pool = disk.pool /\ d.key \cup d.ckey = (disk.key \cup disk.ckey) \cup {k} /\ (d.ckey = {} <=> disk.ckey = {})
      /\ (disk.ckey = {} => d.key = disk.key \cup {k})
    BY <1>5
<1>7. FileOK(d, k, used, held)
    BY <1>2, <1>3, <1>4, KeyAdded DEF WriteKey
<1>8. ASSUME disk.ckey = {}
      PROVE  /\ n \in Nat \ {0} /\ \A i \in DOMAIN disk.pool : i < n
             /\ k \in d.key \ used /\ \A i \in DOMAIN disk.pool : disk.pool[i] # k
    <2>1. PlainPool(disk, used) /\ PoolInv /\ used \cup disk.key \subseteq 1 .. made
        BY <1>3, <1>8 DEF FileOK, MemoryInv
    <2>2. k \in d.key \ used /\ \A i \in DOMAIN disk.pool : disk.pool[i] # k
        BY <1>2, <1>6, <1>8, <2>1 DEF PlainPool
    <2>3. CASE wallet.setKeyPool = {}
        BY <1>8, <2>1, <2>2, <2>3 DEF NextIndex, PoolInv
    <2>4. CASE wallet.setKeyPool # {}
        <3>1. PICK m \in wallet.setKeyPool : \A i \in DOMAIN disk.pool : i <= m
            BY <2>1, <2>4 DEF PoolInv
        <3>2. wallet.setKeyPool \subseteq DOMAIN disk.pool /\ DOMAIN disk.pool \subseteq Nat
            BY <2>1 DEF PoolInv, PlainPool
        <3>3. Max(wallet.setKeyPool) = m
            BY <3>1, <3>2, MaxOf
        <3> QED BY <1>8, <2>2, <2>4, <3>1, <3>2, <3>3 DEF NextIndex
    <2> QED BY <2>3, <2>4
<1>9. FileOK(disk', k, used, held)
    BY <1>0, <1>6, <1>7, <1>8, RecordWritten
<1>10. FileInv'
    BY <1>0, <1>7, <1>9 DEF FileInv
<1>11. ShapeInv'
    BY Zenon, <1>0, <1>1, <1>2 DEF KeysInv, ShapeInv
<1>12. MemoryInv'
    <2>1. /\ disk' = [key |-> d.key, ckey |-> d.ckey, pool |-> disk'.pool]
          /\ DOMAIN disk'.pool = DOMAIN disk.pool \cup {n}
          /\ disk'.pool[n] = k
          /\ \A i \in DOMAIN disk.pool : i # n => disk'.pool[i] = disk.pool[i]
        BY <1>0, <1>6, <1>7, Written DEF FileOK
    <2>2. disk'.key = d.key /\ disk'.ckey = d.ckey
        BY <2>1
    <2>3. ASSUME disk.ckey = {} PROVE PoolInv'
        <3>1. PoolInv /\ DOMAIN disk.pool \subseteq Nat
            BY <1>3, <2>3 DEF MemoryInv, FileOK, PlainPool
        <3>2. \A i \in DOMAIN disk.pool : i < n /\ i # n
            BY <1>8, <2>3, <3>1
        <3>3. n \in wallet'.setKeyPool /\ \A i \in DOMAIN disk'.pool : i <= n
            BY <1>1, <1>8, <2>1, <2>3, <3>1
        <3> QED BY <1>1, <2>1, <3>1, <3>2, <3>3 DEF PoolInv
    <2> QED BY <1>1, <1>3, <1>6, <2>2, <2>3 DEF MemoryInv
<1> QED BY <1>10, <1>11, <1>12 DEF KeysInv

LEMMA AddSteps ==
    ASSUME KeysInv, TopUpKeyPool \/ NewKeyPool
    PROVE  KeysInv'
<1>1. up # "down" /\ op.name # "encrypt"
    BY DEF KeysInv, ShapeInv, Idle, TopUpKeyPool, NewKeyPool
<1>2. CASE TopUpKeyPool
    BY <1>1, <1>2, AddStep DEF TopUpKeyPool
<1>3. CASE NewKeyPool
    <2>1. disk.ckey # {}
        BY <1>1, <1>3 DEF KeysInv, MemoryInv, NewKeyPool
    <2> QED BY <1>1, <1>3, <2>1, AddStep DEF NewKeyPool
<1> QED BY <1>2, <1>3

(* The oldest key of a plain pool has a record, and another index is the last one. *)
LEMMA OldestKey ==
    ASSUME KeysInv, KeysAssumption, op.name = "take" \/ (op.name = "reserve" /\ PoolIsFull), disk.ckey = {}
    PROVE  LET n == Min(wallet.setKeyPool)
           IN  /\ n \in wallet.setKeyPool /\ n \in DOMAIN disk.pool /\ HasRecord(n)
               /\ \E m \in wallet.setKeyPool \ {n} : \A i \in DOMAIN disk.pool : i <= m
<1> DEFINE n == Min(wallet.setKeyPool)
<1>1. up # "down" /\ MemoryInv
    BY DEF KeysInv, ShapeInv, Idle
<1>2. PoolInv /\ PlainPool(disk, used) /\ PoolIsFull
    BY <1>1 DEF MemoryInv, KeysInv, FileInv, FileOK
<1>3. wallet.setKeyPool \subseteq Nat /\ IsFiniteSet(wallet.setKeyPool)
    BY <1>2, FS_Subset DEF PoolInv, PlainPool
<1>4. wallet.setKeyPool # {}
    <2> SUFFICES ASSUME wallet.setKeyPool = {} PROVE FALSE
        OBVIOUS
    <2>1. Cardinality(wallet.setKeyPool) = 0
        BY FS_EmptySet
    <2> QED BY <1>2, <2>1 DEF PoolIsFull, KeysAssumption
<1>5. n \in wallet.setKeyPool /\ \A i \in wallet.setKeyPool : n <= i
    BY <1>3, <1>4, MinOf
<1>6. HasRecord(n)
    BY <1>1, <1>2, <1>5 DEF HasRecord, PoolInv, PlainPool, MemoryInv
<1>7. PICK m \in wallet.setKeyPool : \A i \in DOMAIN disk.pool : i <= m
    BY <1>2, <1>5 DEF PoolInv
<1>8. PICK l \in wallet.setKeyPool : l # n
    BY <1>2, <1>3, <1>5, TwoInFullPool
<1>9. m # n
    <2>1. l <= m /\ n <= l /\ l \in Nat /\ n \in Nat /\ m \in Nat
        BY <1>2, <1>3, <1>5, <1>7, <1>8 DEF PoolInv
    <2> QED BY <1>8, <2>1
<1> QED BY <1>2, <1>5, <1>6, <1>7, <1>9 DEF PoolInv

(* The oldest key leaves the pool: to a thread that may return it, or for good. *)
LEMMA TakeStep ==
    ASSUME KeysInv, KeysAssumption, TakeOldest
    PROVE  KeysInv'
<1> DEFINE n == Min(wallet.setKeyPool)
           h == op.who
           k == disk.pool[n]
<1>1. /\ op.name = "take" \/ (op.name = "reserve" /\ PoolIsFull)
      /\ wallet' = [wallet EXCEPT !.setKeyPool = @ \ {n}]
      /\ op' = Idle /\ images' = {disk'} /\ UNCHANGED <<made, up>>
    BY DEF TakeOldest
<1>2. \/ ~HasRecord(n) /\ h \in Holders /\ held' = [held EXCEPT ![h] = [nIndex |-> n, key |-> 0]]
          /\ UNCHANGED <<disk, used>>
      \/ ~HasRecord(n) /\ UNCHANGED <<held, disk, used>>
      \/ HasRecord(n) /\ h \in Holders /\ held' = [held EXCEPT ![h] = [nIndex |-> n, key |-> k]]
          /\ UNCHANGED <<disk, used>>
      \/ HasRecord(n) /\ h \notin Holders /\ used' = used \cup {k} /\ disk' = ErasePool(disk, {n})
          /\ UNCHANGED held
    BY DEF TakeOldest
<1>3. up # "down" /\ MemoryInv /\ FileOK(disk, made, used, held)
    BY <1>1 DEF KeysInv, ShapeInv, FileInv, Idle
<1>4. /\ wallet' = [fUseCrypto |-> wallet.fUseCrypto, locked |-> wallet.locked, keys |-> wallet.keys,
                    setKeyPool |-> wallet.setKeyPool \ {n}]
      /\ wallet'.fUseCrypto = wallet.fUseCrypto /\ wallet'.keys = wallet.keys
      /\ wallet'.setKeyPool = wallet.setKeyPool \ {n}
    BY <1>1 DEF KeysInv, ShapeInv
<1>5. disk.ckey = {} =>
          /\ n \in wallet.setKeyPool /\ n \in DOMAIN disk.pool /\ HasRecord(n)
          /\ \E m \in wallet.setKeyPool \ {n} : \A i \in DOMAIN disk.pool : i <= m
    BY <1>1, OldestKey
<1>6. HasRecord(n) => k \in disk.key \cup disk.ckey
    BY <1>3 DEF HasRecord, MemoryInv
<1> HIDE DEF n
<1>7. held' = [g \in Holders |-> held'[g]]
    BY <1>2 DEF KeysInv, ShapeInv
<1>8. ShapeInv'
    BY Zenon, <1>1, <1>3, <1>4, <1>7 DEF KeysInv, ShapeInv, Idle
<1>9. op'.name = "none"
    BY <1>1 DEF Idle
<1>10. CASE ~HasRecord(n) /\ UNCHANGED <<held, disk, used>>
    <2>1. FileInv'
        BY <1>1, <1>10, <1>3 DEF FileInv
    <2>2. MemoryInv'
        BY <1>1, <1>3, <1>4, <1>5, <1>9, <1>10 DEF MemoryInv
    <2> QED BY <1>8, <2>1, <2>2 DEF KeysInv
<1>11. ASSUME h \in Holders, UNCHANGED <<disk, used>>, NEW x, x \in (disk.key \cup disk.ckey) \cup {0},
              held' = [held EXCEPT ![h] = [nIndex |-> n, key |-> x]],
              HasRecord(n) => x = k
       PROVE  KeysInv'
    <2>1. /\ held'[h] = [nIndex |-> n, key |-> x] /\ held'[h].key = x /\ held'[h].nIndex = n
          /\ \A g \in Holders : g # h => held'[g] = held[g]
        BY <1>11 DEF KeysInv, ShapeInv
    <2>2. \A g \in Holders : held'[g].key \in (disk.key \cup disk.ckey) \cup {0}
        BY <1>3, <1>11, <2>1 DEF FileOK
    <2>3. FileOK(disk, made, used, held')
        BY <1>3, <2>2, HeldChanges
    <2>4. FileInv'
        BY <1>1, <1>11, <2>3 DEF FileInv
    <2>5. ASSUME disk.ckey = {} PROVE PoolInv'
        <3>1. PoolInv
            BY <1>3, <2>5 DEF MemoryInv
        <3>2. x = k
            BY <1>5, <1>11, <2>5
        <3>3. /\ wallet'.setKeyPool \subseteq DOMAIN disk.pool
              /\ DOMAIN disk.pool = {} \/ \E m \in wallet'.setKeyPool : \A i \in DOMAIN disk.pool : i <= m
            BY SMTT(60), <1>4, <1>5, <2>5, <3>1 DEF PoolInv
        <3>4. \A g \in Holders : held'[g] # None =>
                  /\ held'[g].nIndex \in DOMAIN disk.pool \ wallet'.setKeyPool
                  /\ held'[g].key = disk.pool[held'[g].nIndex]
            BY <1>4, <1>5, <2>1, <2>5, <3>1, <3>2 DEF PoolInv
        <3>5. \A f, g \in Holders : held'[f].nIndex = held'[g].nIndex => f = g \/ held'[f] = None
            <4> SUFFICES ASSUME NEW f \in Holders, NEW g \in Holders, held'[f].nIndex = held'[g].nIndex,
                                f # g, held'[f] # None
                         PROVE FALSE
                OBVIOUS
            <4>1. \A i \in DOMAIN disk.pool : i # 0
                BY <1>3, <2>5 DEF FileOK, PlainPool
            <4>2. CASE f # h /\ g # h
                BY <2>1, <3>1, <4>2 DEF PoolInv
            <4>3. CASE f = h
                <5>1. held[g].nIndex = n /\ n # 0
                    BY <1>5, <2>1, <2>5, <4>1, <4>3
                <5>2. held[g] # None
                    BY <5>1 DEF None
                <5> QED BY <1>5, <2>5, <3>1, <5>1, <5>2 DEF PoolInv
            <4>4. CASE g = h
                <5>1. held[f].nIndex = n /\ held[f] # None
                    BY <2>1, <4>4
                <5> QED BY <1>5, <2>5, <3>1, <5>1 DEF PoolInv
            <4> QED BY <4>2, <4>3, <4>4
        <3> QED BY <1>11, <3>3, <3>4, <3>5 DEF PoolInv
    <2>6. MemoryInv'
        BY SMTT(60), <1>1, <1>3, <1>4, <1>9, <1>11, <2>5 DEF MemoryInv
    <2> QED BY <1>8, <2>4, <2>6 DEF KeysInv
<1>12. CASE HasRecord(n) /\ used' = used \cup {k} /\ disk' = ErasePool(disk, {n}) /\ UNCHANGED held
    <2>1. disk.ckey = {} => /\ n \in DOMAIN disk.pool /\ disk.pool[n] = k
                            /\ \E l \in DOMAIN disk.pool \ {n} : \A i \in DOMAIN disk.pool : i <= l
        BY <1>3, <1>5 DEF MemoryInv, PoolInv
    <2>2. FileOK(disk', made, used', held)
        BY Zenon, <1>3, <1>6, <1>12, <2>1, RecordErased
    <2>3. FileInv'
        BY <1>1, <1>12, <2>2 DEF FileInv
    <2>4. /\ disk' = [key |-> disk.key, ckey |-> disk.ckey, pool |-> disk'.pool]
          /\ DOMAIN disk'.pool = DOMAIN disk.pool \ {n}
          /\ \A i \in DOMAIN disk.pool \ {n} : disk'.pool[i] = disk.pool[i]
        BY <1>3, <1>12, Erased DEF FileOK
    <2>5. disk'.key = disk.key /\ disk'.ckey = disk.ckey
        BY <2>4
    <2>6. ASSUME disk.ckey = {} PROVE PoolInv'
        <3>1. PoolInv
            BY <1>3, <2>6 DEF MemoryInv
        <3> QED BY Zenon, <1>4, <1>5, <1>12, <2>4, <2>6, <3>1 DEF PoolInv
    <2>7. MemoryInv'
        BY <1>1, <1>3, <1>4, <1>9, <2>5, <2>6 DEF MemoryInv
    <2> QED BY <1>8, <2>3, <2>7 DEF KeysInv
<1> QED BY <1>2, <1>6, <1>10, <1>11, <1>12

(* A thread keeps the key it holds. *)
LEMMA KeepStep ==
    ASSUME KeysInv, NEW h \in Holders, KeepKey(h)
    PROVE  KeysInv'
<1> USE DEF KeepKey
<1>1. up # "down" /\ MemoryInv /\ FileOK(disk, made, used, held)
    BY DEF KeysInv, FileInv, Running
<1>2. held'[h] = None /\ held' = [g \in Holders |-> held'[g]] /\ \A g \in Holders : g # h => held'[g] = held[g]
    BY DEF KeysInv, ShapeInv
<1>3. held[h] # None /\ held[h].key \in disk.key \cup disk.ckey
    BY SMTT(60), <1>1 DEF None, FileOK
<1>4. ASSUME disk.ckey = {}
      PROVE  /\ PoolInv
             /\ held[h].nIndex \in DOMAIN disk.pool \ wallet.setKeyPool
             /\ disk.pool[held[h].nIndex] = held[h].key
             /\ \E l \in wallet.setKeyPool : \A i \in DOMAIN disk.pool : i <= l
    BY SMTT(60), <1>1, <1>3, <1>4 DEF MemoryInv, PoolInv
<1>5. disk.ckey = {} => \E l \in DOMAIN disk.pool \ {held[h].nIndex} : \A i \in DOMAIN disk.pool : i <= l
    BY <1>4 DEF PoolInv
<1>6. FileOK(disk', made, used', held)
    BY Zenon, <1>1, <1>3, <1>4, <1>5, RecordErased
<1>7. /\ disk' = [key |-> disk.key, ckey |-> disk.ckey, pool |-> disk'.pool]
      /\ DOMAIN disk'.pool = DOMAIN disk.pool \ {held[h].nIndex}
      /\ \A i \in DOMAIN disk.pool \ {held[h].nIndex} : disk'.pool[i] = disk.pool[i]
    <2> DEFINE n == held[h].nIndex
    <2>1. disk' = ErasePool(disk, {n}) /\ disk = [key |-> disk.key, ckey |-> disk.ckey, pool |-> disk.pool]
        BY <1>1 DEF FileOK
    <2> HIDE DEF n, KeepKey
    <2>2. /\ disk' = [key |-> disk.key, ckey |-> disk.ckey, pool |-> disk'.pool]
          /\ DOMAIN disk'.pool = DOMAIN disk.pool \ {n}
          /\ \A i \in DOMAIN disk.pool \ {n} : disk'.pool[i] = disk.pool[i]
        BY <2>1, Erased
    <2> QED BY <2>2 DEF n
<1>8. disk'.key = disk.key /\ disk'.ckey = disk.ckey
    BY <1>7
<1>9. FileInv'
    <2>1. \A g \in Holders : held'[g].key \in (disk'.key \cup disk'.ckey) \cup {0}
        BY Zenon, <1>2, <1>6 DEF FileOK, None
    <2>2. FileOK(disk', made, used', held')
        BY Zenon, <1>6, <2>1, HeldChanges
    <2> QED BY <2>2 DEF FileInv
<1>10. ShapeInv'
    BY <1>1, <1>2 DEF KeysInv, ShapeInv
<1>11. ASSUME disk.ckey = {} PROVE PoolInv'
    <2>1. /\ wallet.setKeyPool \subseteq DOMAIN disk'.pool
          /\ \E m \in wallet.setKeyPool : \A i \in DOMAIN disk'.pool : i <= m
        BY Zenon, <1>4, <1>7, <1>11 DEF PoolInv
    <2>2. \A g \in Holders : held'[g] # None =>
              /\ held'[g].nIndex \in DOMAIN disk'.pool \ wallet.setKeyPool
              /\ held'[g].key = disk'.pool[held'[g].nIndex]
        <3> SUFFICES ASSUME NEW g \in Holders, held'[g] # None
                     PROVE  /\ held'[g].nIndex \in DOMAIN disk'.pool \ wallet.setKeyPool
                            /\ held'[g].key = disk'.pool[held'[g].nIndex]
            BY Zenon
        <3>1. g # h /\ held'[g] = held[g] /\ held[g] # None
            BY Zenon, <1>2
        <3>2. /\ held[g].nIndex \in DOMAIN disk.pool \ wallet.setKeyPool
              /\ held[g].key = disk.pool[held[g].nIndex]
              /\ held[g].nIndex # held[h].nIndex
            BY Zenon, <1>4, <1>11, <3>1 DEF PoolInv
        <3> QED BY Zenon, <1>7, <3>1, <3>2
    <2>3. \A f, g \in Holders : held'[f].nIndex = held'[g].nIndex => f = g \/ held'[f] = None
        <3> SUFFICES ASSUME NEW f \in Holders, NEW g \in Holders, held'[f].nIndex = held'[g].nIndex,
                            f # g, held'[f] # None
                     PROVE FALSE
            OBVIOUS
        <3>1. CASE g # h
            BY SMTT(60), <1>2, <1>4, <1>11, <3>1 DEF PoolInv
        <3>2. CASE g = h
            <4>1. held'[f].nIndex = 0 /\ f # h /\ held[f].nIndex = 0 /\ held[f] # None
                BY <1>2, <3>2 DEF None
            <4>2. 0 \notin DOMAIN disk.pool
                BY <1>1, <1>11 DEF FileOK, PlainPool
            <4> QED BY <1>4, <1>11, <4>1, <4>2 DEF PoolInv
        <3> QED BY <3>1, <3>2
    <2> QED BY Zenon, <2>1, <2>2, <2>3 DEF PoolInv
<1>12. MemoryInv'
    BY Zenon, <1>1, <1>8, <1>11 DEF MemoryInv
<1> QED BY <1>9, <1>10, <1>12 DEF KeysInv

(* A thread returns the key it holds. *)
LEMMA ReturnStep ==
    ASSUME KeysInv, NEW h \in Holders, ReturnKey(h)
    PROVE  KeysInv'
<1> USE DEF ReturnKey
<1>1. up # "down" /\ MemoryInv /\ FileInv
    BY DEF KeysInv
<1>2. held'[h] = None /\ held' = [g \in Holders |-> held'[g]] /\ \A g \in Holders : g # h => held'[g] = held[g]
    BY DEF KeysInv, ShapeInv
<1>3. /\ wallet' = [fUseCrypto |-> wallet.fUseCrypto, locked |-> wallet.locked, keys |-> wallet.keys,
                    setKeyPool |-> wallet.setKeyPool \cup {held[h].nIndex}]
      /\ wallet'.fUseCrypto = wallet.fUseCrypto /\ wallet'.keys = wallet.keys
      /\ wallet'.setKeyPool = wallet.setKeyPool \cup {held[h].nIndex}
    BY DEF KeysInv, ShapeInv
<1>4. \A d : FileOK(d, made, used, held) => FileOK(d, made, used, held')
    <2> SUFFICES ASSUME NEW d, FileOK(d, made, used, held) PROVE FileOK(d, made, used, held')
        BY Zenon
    <2>1. \A g \in Holders : held'[g].key \in (d.key \cup d.ckey) \cup {0}
        BY <1>2 DEF FileOK, None
    <2> QED BY Zenon, <2>1, HeldChanges
<1>5. FileInv'
    BY Zenon, <1>1, <1>4 DEF FileInv
<1>6. ShapeInv'
    <2>1. wallet.fUseCrypto \in BOOLEAN /\ op = [name |-> op.name, who |-> op.who] /\ made \in Nat
          /\ up \in {"up", "stopping", "down"}
        BY Zenon DEF KeysInv, ShapeInv
    <2>2. UNCHANGED <<op, made, up>>
        OBVIOUS
    <2> QED BY Zenon, <1>1, <1>2, <1>3, <2>1, <2>2 DEF ShapeInv
<1>7. ASSUME disk.ckey = {} PROVE PoolInv'
    <2>1. PoolInv /\ 0 \notin DOMAIN disk.pool
        BY <1>1, <1>7 DEF MemoryInv, FileInv, FileOK, PlainPool
    <2>2. held[h].nIndex \in DOMAIN disk.pool /\ held[h] # None
        BY <2>1 DEF PoolInv
    <2>3. /\ wallet'.setKeyPool \subseteq DOMAIN disk.pool
          /\ DOMAIN disk.pool = {} \/ \E m \in wallet'.setKeyPool : \A i \in DOMAIN disk.pool : i <= m
        BY <1>3, <2>1, <2>2 DEF PoolInv
    <2>4. \A g \in Holders : held'[g] # None => g # h /\ held[g] # None /\ held'[g] = held[g]
        BY <1>2
    <2>5. \A g \in Holders : held'[g] # None =>
              /\ held'[g].nIndex \in DOMAIN disk.pool \ wallet'.setKeyPool
              /\ held'[g].key = disk.pool[held'[g].nIndex]
        BY <1>3, <2>1, <2>4 DEF PoolInv
    <2>6. \A f, g \in Holders : held'[f].nIndex = held'[g].nIndex => f = g \/ held'[f] = None
        <3> SUFFICES ASSUME NEW f \in Holders, NEW g \in Holders, held'[f].nIndex = held'[g].nIndex,
                            f # g, held'[f] # None
                     PROVE FALSE
            OBVIOUS
        <3>1. held'[f] = held[f] /\ held[f] # None /\ held[f].nIndex \in DOMAIN disk.pool
            BY <2>1, <2>4 DEF PoolInv
        <3>2. CASE g # h
            BY <1>2, <2>1, <3>1, <3>2 DEF PoolInv
        <3>3. CASE g = h
            BY <1>2, <2>1, <3>1, <3>3 DEF None
        <3> QED BY <3>2, <3>3
    <2> QED BY <2>3, <2>5, <2>6 DEF PoolInv
<1>8. MemoryInv'
    BY <1>1, <1>3, <1>7 DEF MemoryInv
<1> QED BY <1>5, <1>6, <1>8 DEF KeysInv

(* The program ends and starts again. *)
LEMMA StopStep ==
    ASSUME KeysInv, Stop
    PROVE  KeysInv'
<1> USE DEF Stop
<1>1. FileInv'
    BY FileSame DEF KeysInv
<1>2. ShapeInv'
    BY DEF KeysInv, ShapeInv, Free
<1> QED BY <1>1, <1>2 DEF KeysInv

LEMMA CrashStep ==
    ASSUME KeysInv, Crash
    PROVE  KeysInv'
<1> USE DEF Crash
<1>1. PICK d \in images : disk' = d /\ images' = {d}
    OBVIOUS
<1>2. FileOK(d, made, used, held)
    BY DEF KeysInv, FileInv
<1>3. \A h \in Holders : held'[h] = None /\ held'[h].key = 0
    BY DEF None
<1>4. FileOK(d, made, used, held')
    BY <1>2, <1>3, HeldChanges
<1>5. FileInv'
    BY <1>1, <1>4 DEF FileInv
<1>6. ShapeInv'
    BY <1>3 DEF KeysInv, ShapeInv, Idle
<1> QED BY <1>5, <1>6 DEF KeysInv

LEMMA RestartStep ==
    ASSUME KeysInv, Restart
    PROVE  KeysInv'
<1> USE DEF Restart
<1>1. FileInv'
    BY FileSame DEF KeysInv
<1>2. op.name = "none" /\ \A h \in Holders : held[h] = None
    BY DEF KeysInv, ShapeInv, Idle
<1>3. /\ wallet'.fUseCrypto = (disk.ckey # {}) /\ wallet'.keys = disk.key \cup disk.ckey
      /\ wallet'.setKeyPool = DOMAIN disk.pool
      /\ wallet' = [fUseCrypto |-> wallet'.fUseCrypto, locked |-> wallet'.locked, keys |-> wallet'.keys,
                    setKeyPool |-> wallet'.setKeyPool]
    BY DEF LoadWallet
<1>4. wallet'.fUseCrypto \in BOOLEAN
    BY <1>3
<1>5. ShapeInv'
    BY <1>3, <1>4 DEF KeysInv, ShapeInv
<1>6. ASSUME disk.ckey = {} PROVE PoolInv'
    <2>1. PlainPool(disk, used)
        BY <1>6 DEF KeysInv, FileInv, FileOK
    <2>2. \A f, g \in Holders : held'[f].nIndex = held'[g].nIndex => f = g \/ held'[f] = None
        BY <1>2
    <2> QED BY <1>2, <1>3, <2>1, <2>2 DEF PlainPool, PoolInv
<1>7. MemoryInv'
    BY Zenon, <1>2, <1>3, <1>6 DEF MemoryInv
<1> QED BY <1>1, <1>5, <1>7 DEF KeysInv

LEMMA KeysInitially ==
    ASSUME Init
    PROVE  KeysInv
<1> USE DEF Init
<1>1. /\ disk = [key |-> {}, ckey |-> {}, pool |-> <<>>] /\ disk.key = {} /\ disk.ckey = {}
      /\ disk.pool = <<>> /\ DOMAIN disk.pool = {} /\ images = {disk}
    BY DEF EmptyFile
<1>2. wallet = [fUseCrypto |-> {} # {}, locked |-> {} # {}, keys |-> {}, setKeyPool |-> {}]
    BY <1>1 DEF LoadWallet, EmptyFile
<1>3. wallet.fUseCrypto = FALSE /\ wallet.keys = {} /\ wallet.setKeyPool = {} /\ wallet.fUseCrypto \in BOOLEAN
    <2>1. wallet.keys = {} /\ wallet.setKeyPool = {} /\ wallet.fUseCrypto = ({} # {})
        BY <1>2
    <2>2. ({} # {}) = FALSE
        OBVIOUS
    <2>3. wallet.fUseCrypto = FALSE
        BY Zenon, <2>1, <2>2
    <2> QED BY Zenon, <2>1, <2>3
<1>4. \A h \in Holders : held[h] = None /\ held[h].key = 0
    BY DEF None
<1>5. PlainPool(disk, used)
    BY <1>1, FS_EmptySet DEF PlainPool
<1>6. FileOK(disk, made, used, held)
    BY <1>1, <1>4, <1>5 DEF FileOK
<1>7. FileInv
    BY <1>1, <1>6 DEF FileInv
<1>8. ShapeInv
    BY SMTT(60), <1>2, <1>3, <1>4 DEF ShapeInv, Idle
<1>9. PoolInv
    BY SMTT(60), <1>1, <1>3, <1>4 DEF PoolInv
<1>10. MemoryInv
    BY <1>1, <1>3, <1>9 DEF MemoryInv, Idle
<1> QED BY <1>7, <1>8, <1>10 DEF KeysInv

LEMMA KeysStep ==
    ASSUME KeysAssumption, KeysInv, [Next]_vars
    PROVE  KeysInv'
<1>1. CASE TopUpFails \/ Refill \/ Unlock \/ RefillDone \/ ChangeOutput \/ Lock
    BY <1>1, LockSteps
<1>2. CASE TopUpKeyPool \/ NewKeyPool
    BY <1>2, AddSteps
<1>3. ASSUME NEW h \in Holders \cup {"rpc", "z_sendmany"}, ReserveKeyFromKeyPool(h) PROVE KeysInv'
    BY <1>3, ReserveStep
<1>4. CASE TakeOldest
    BY <1>4, TakeStep
<1>5. ASSUME NEW h \in Holders, KeepKey(h) \/ ReturnKey(h) PROVE KeysInv'
    BY <1>5, KeepStep, ReturnStep
<1>6. CASE EncryptKeys
    BY <1>6, EncryptStep
<1>7. CASE TxnCommit
    BY <1>7, CommitStep
<1>8. CASE EncryptDone
    BY <1>8, DoneStep
<1>9. CASE Stop \/ Crash \/ Restart
    BY SMTT(60), <1>9, StopStep, CrashStep, RestartStep
<1>10. CASE UNCHANGED vars
    BY <1>10 DEF vars, KeysInv, ShapeInv, FileInv, MemoryInv, PoolInv
<1> QED BY SMTT(60), <1>1, <1>2, <1>3, <1>4, <1>5, <1>6, <1>7, <1>8, <1>9, <1>10 DEF Next

LEMMA KeysInvIsSafe ==
    ASSUME KeysInv
    PROVE  KeysAreSafe
<1>1. GivenKeysSurvive
    <2> SUFFICES ASSUME NEW d \in images
                 PROVE  /\ Loadable(d)
                        /\ used \cup {held[h].key : h \in Holders} \subseteq d.key \cup d.ckey \cup {0}
        BY DEF GivenKeysSurvive
    <2>1. FileOK(d, made, used, held)
        BY DEF KeysInv, FileInv
    <2> QED BY <2>1 DEF FileOK, Loadable
<1>2. PoolKeysAreFresh
    <2> SUFFICES ASSUME up = "up", ~wallet.fUseCrypto
                 PROVE  /\ \A i \in wallet.setKeyPool :
                            HasRecord(i) /\ disk.pool[i] \notin used \cup {held[h].key : h \in Holders}
                        /\ \A h \in Holders : held[h].key \notin used
                        /\ \A g, h \in Holders : held[g].key = held[h].key => g = h \/ held[g] = None
        BY DEF PoolKeysAreFresh
    <2>1. MemoryInv /\ FileOK(disk, made, used, held) /\ made \in Nat
        BY DEF KeysInv, FileInv, ShapeInv
    <2>2. disk.ckey = {} /\ PoolInv /\ PlainPool(disk, used)
        BY <2>1 DEF MemoryInv, FileOK
    <2>3. 0 \notin disk.key /\ 0 \notin used
        BY SMTT(60), <2>1, <2>2 DEF FileOK
    <2>4. \A i \in wallet.setKeyPool : i \in DOMAIN disk.pool /\ HasRecord(i) /\ disk.pool[i] \notin used
        BY SMTT(60), <2>1, <2>2 DEF PoolInv, PlainPool, HasRecord, MemoryInv
    <2>5. ASSUME NEW h \in Holders
          PROVE  /\ held[h] = None => held[h].key = 0
                 /\ held[h] # None => /\ held[h].nIndex \in DOMAIN disk.pool \ wallet.setKeyPool
                                      /\ held[h].key = disk.pool[held[h].nIndex]
        BY <2>2 DEF None, PoolInv
    <2>6. ASSUME NEW i \in wallet.setKeyPool, NEW h \in Holders PROVE disk.pool[i] # held[h].key
        <3>1. i \in DOMAIN disk.pool /\ disk.pool[i] \in disk.key
            BY SMTT(60), <2>2, <2>4 DEF PlainPool
        <3> QED BY <2>2, <2>3, <2>5, <3>1 DEF PlainPool
    <2>7. ASSUME NEW h \in Holders PROVE held[h].key \notin used
        BY <2>2, <2>3, <2>5 DEF PlainPool
    <2>8. ASSUME NEW g \in Holders, NEW h \in Holders, held[g].key = held[h].key, held[g] # None PROVE g = h
        <3>1. held[h] # None
            BY SMTT(60), <2>2, <2>3, <2>5, <2>8 DEF PlainPool
        <3>2. held[g].nIndex = held[h].nIndex
            BY <2>2, <2>5, <2>8, <3>1 DEF PlainPool
        <3> QED BY <2>2, <2>8, <3>2 DEF PoolInv
    <2> QED BY SMTT(60), <2>4, <2>6, <2>7, <2>8
<1> QED BY <1>1, <1>2 DEF KeysAreSafe

(* The key pool of a plain wallet offers only keys that nobody has and gives no key to two threads, and a *)
(* crash at any moment leaves a wallet.dat that loads and has every key that was given out or is held     *)
(* (CWallet::TopUpKeyPool, ReserveKeyFromKeyPool, KeepKey, ReturnKey, EncryptWallet, NewKeyPool).         *)
THEOREM GivenOutKeysAreSafe ==
    ASSUME KeysAssumption
    PROVE  Spec => []KeysAreSafe
<1>1. Init => KeysInv
    BY KeysInitially
<1>2. KeysInv /\ [Next]_vars => KeysInv'
    BY KeysStep
<1>3. KeysInv => KeysAreSafe
    BY KeysInvIsSafe
<1> QED BY <1>1, <1>2, <1>3, PTL DEF Spec

-----------------------------------------------------------------------------
(* The time the wallet stays unlocked. *)

(* cs_nWalletUnlockTime is held exactly while RPCRunLater runs; the passphrase is only changed when it may be. *)
UnlockInv ==
    /\ changes \in BOOLEAN /\ locked \in BOOLEAN
    /\ pc \in {"idle", "unlocked", "settimer", "change", "derive", "relock"}
    /\ mutex = "rpc" <=> pc = "settimer"
    /\ ~changes => pc \notin {"change", "derive", "relock"}
    /\ UnlockedIsTimed

(* Between commands an unlocked wallet has a timer that will lock it, unless the passphrase is changed    *)
(* (walletpassphrase, walletlock, RPCRunLater, LockWallet).                                               *)
THEOREM UnlockedWalletsAreTimed ==
    ASSUME UnlockAssumption
    PROVE  UnlockSpec => []UnlockedIsTimed
<1>1. UnlockInit => UnlockInv
    BY SMTT(60) DEF UnlockInit, UnlockInv, UnlockAssumption, UnlockedIsTimed
<1>2. UnlockInv /\ [UnlockNext]_unlockVars => UnlockInv'
    <2> SUFFICES ASSUME UnlockInv, [UnlockNext]_unlockVars PROVE UnlockInv'
        OBVIOUS
    <2> USE DEF UnlockInv, UnlockedIsTimed
    <2>1. CASE WalletPassphrase
        BY Zenon, <2>1 DEF WalletPassphrase
    <2>2. CASE WalletLock
        BY <2>2 DEF WalletLock
    <2>3. CASE ChangePassphrase
        BY <2>3 DEF ChangePassphrase
    <2>4. CASE LockUnlockTime
        BY <2>4 DEF LockUnlockTime
    <2>5. CASE RPCRunLater
        BY <2>5 DEF RPCRunLater
    <2>6. CASE ChangeLock \/ ChangeUnlock
        BY Zenon, <2>6 DEF ChangeLock, ChangeUnlock
    <2>7. CASE ChangeDone
        BY <2>7 DEF ChangeDone
    <2>8. CASE TimeIsUp
        BY <2>8 DEF TimeIsUp
    <2>9. CASE LockWallet
        BY <2>9 DEF LockWallet
    <2>10. CASE UNCHANGED unlockVars
        BY <2>10 DEF unlockVars
    <2> QED BY <2>1, <2>2, <2>3, <2>4, <2>5, <2>6, <2>7, <2>8, <2>9, <2>10 DEF UnlockNext, Worker
<1>3. UnlockInv => UnlockedIsTimed
    BY DEF UnlockInv
<1> QED BY <1>1, <1>2, <1>3, PTL DEF UnlockSpec

=============================================================================
