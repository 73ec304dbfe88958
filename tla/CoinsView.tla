----------------------------- MODULE CoinsView -----------------------------
(***************************************************************************)
(* What the layered coins views promise: three flat maps from txids to     *)
(* coins.  `disk' survives a crash, `chain' is the state at the active tip *)
(* (what a read through pcoinsTip returns) and `scratch' is the view a     *)
(* block is being connected to or disconnected from.  No cache, no flag    *)
(* and no sentinel appears here.                                           *)
(***************************************************************************)

CONSTANTS
    Txids,      \* transaction ids
    Coins,      \* the unpruned values a CCoins can have
    Pruned,     \* a CCoins with no unspent output left (or none at all)
    Blocks,     \* block hashes
    NullHash,   \* the all-zero hash: no best block
    NoView      \* there is no scratch view

VARIABLES disk, chain, scratch

absVars == <<disk, chain, scratch>>

CoinsMap == [Txids -> Coins \cup {Pruned}]

\* A coins map together with the block it is the state after.
Snapshot == [coins : CoinsMap, best : Blocks \cup {NullHash}]

AbsTypeOK ==
    /\ disk \in Snapshot
    /\ chain \in Snapshot
    /\ scratch \in CoinsMap \cup {NoView}

Empty == [coins |-> [t \in Txids |-> Pruned], best |-> NullHash]

AbsInit ==
    /\ disk = Empty
    /\ chain = Empty
    /\ scratch = NoView

Open ==
    /\ scratch = NoView
    /\ scratch' = chain.coins
    /\ UNCHANGED <<disk, chain>>

Update(t, c) ==
    /\ scratch # NoView
    /\ scratch' = [scratch EXCEPT ![t] = c]
    /\ UNCHANGED <<disk, chain>>

\* The scratch view becomes the state after block b, all of it at once.
Commit(b) ==
    /\ scratch # NoView
    /\ chain' = [coins |-> scratch, best |-> b]
    /\ scratch' = NoView
    /\ UNCHANGED disk

Abandon ==
    /\ scratch' = NoView
    /\ UNCHANGED <<disk, chain>>

Persist ==
    /\ disk' = chain
    /\ UNCHANGED <<chain, scratch>>

CrashBack ==
    /\ chain' = disk
    /\ scratch' = NoView
    /\ UNCHANGED disk

AbsNext ==
    \/ Open
    \/ \E t \in Txids, c \in Coins \cup {Pruned} : Update(t, c)
    \/ \E b \in Blocks : Commit(b)
    \/ Abandon
    \/ Persist
    \/ CrashBack

AbsSpec == AbsInit /\ [][AbsNext]_absVars
=============================================================================
