----------------------------- MODULE CoinsCache -----------------------------
(***************************************************************************)
(* The transparent half of the layered coins views of coins.cpp: the       *)
(* chainstate database (CCoinsViewDB), the cache over it that is the state *)
(* at the active tip (pcoinsTip) and the scratch CCoinsViewCache that      *)
(* ConnectTip and DisconnectTip stack on top.  An entry of a cache carries *)
(* DIRTY and FRESH flags; the database drops pruned coins.                 *)
(*                                                                         *)
(* Every action runs under cs_main, so it is one step.  A CCoins is        *)
(* abstracted to a value of Coins or to Pruned: CCoins::Cleanup, which the *)
(* destructor of CCoinsModifier runs, empties vout exactly when no output  *)
(* is left, so "vout is empty" (HaveCoins) and IsPruned() agree on every   *)
(* entry the cache keeps.                                                  *)
(***************************************************************************)
EXTENDS FiniteSets

CONSTANTS
    Txids, Coins, Pruned, Blocks, NullHash, NoView,
    Missing     \* the key is not in the map; a GetCoins that returned false

ASSUME CoinsDistinct ==
    /\ Pruned \notin Coins
    /\ Missing \notin Coins \cup {Pruned}
    /\ NullHash \notin Blocks
    /\ NoView \notin [Txids -> Coins \cup {Pruned}]
    /\ Missing \notin [coins : Coins \cup {Pruned}, flags : SUBSET {"DIRTY", "FRESH"}]

VARIABLES
    dbCoins,    \* CCoinsViewDB: the DB_COINS records, Pruned where there is none
    dbBest,     \* CCoinsViewDB: DB_BEST_BLOCK, NullHash where there is none
    tipCoins,   \* pcoinsTip->cacheCoins
    tipBest,    \* pcoinsTip->hashBlock, NullHash until read or written
    viewCoins,  \* cacheCoins of the scratch view
    viewBest,   \* hashBlock of the scratch view
    viewOpen    \* whether a scratch view exists

dbVars   == <<dbCoins, dbBest>>
tipVars  == <<tipCoins, tipBest>>
viewVars == <<viewCoins, viewBest, viewOpen>>
vars     == <<dbVars, tipVars, viewVars>>

Values     == Coins \cup {Pruned}
CacheEntry == [coins : Values, flags : SUBSET {"DIRTY", "FRESH"}]
Cache      == [Txids -> CacheEntry \cup {Missing}]

EmptyCache == [t \in Txids |-> Missing]

-----------------------------------------------------------------------------
(* Reads.  A read through a cache pulls the entry into it.                 *)

\* What base->GetCoins(t) returns when base is the database.
DbGetCoins(t) == IF dbCoins[t] = Pruned THEN Missing ELSE dbCoins[t]

\* The cache after FetchCoins(t), where base->GetCoins(t) returns `got'.
FetchCoins(cache, t, got) ==
    IF cache[t] # Missing \/ got = Missing
      THEN cache
      ELSE [cache EXCEPT ![t] =
              [coins |-> got, flags |-> IF got = Pruned THEN {"FRESH"} ELSE {}]]

\* What GetCoins(t) returns from a cache FetchCoins(t) has run on.
GetCoins(cache, t) == IF cache[t] = Missing THEN Missing ELSE cache[t].coins

TipFetched(t) == FetchCoins(tipCoins, t, DbGetCoins(t))

\* GetBestBlock: a null hashBlock means "not read yet".
TipBestBlock == IF tipBest = NullHash THEN dbBest ELSE tipBest

-----------------------------------------------------------------------------
(* Writes.                                                                 *)

\* The entry ModifyCoins(t) hands out, where base->GetCoins(t) returns `got'.
ModifiedEntry(cache, t, got) ==
    IF cache[t] # Missing
      THEN cache[t]
      ELSE IF got \in {Missing, Pruned}
             THEN [coins |-> Pruned, flags |-> {"FRESH"}]
             ELSE [coins |-> got, flags |-> {}]

\* What the destructor of CCoinsModifier leaves of an entry set to c.
ModifierDone(e, c) ==
    IF "FRESH" \in e.flags /\ c = Pruned
      THEN Missing
      ELSE [coins |-> c, flags |-> e.flags \cup {"DIRTY"}]

\* Mutant: a spent coin is forgotten although the grandparent has it.
MergeEntryDropsPruned(p, e) ==
    IF e = Missing \/ (e # Missing /\ "DIRTY" \notin e.flags) THEN p
    ELSE IF e.coins = Pruned
      THEN Missing
      ELSE [coins |-> e.coins,
            flags |-> IF p = Missing THEN {"DIRTY", "FRESH"} ELSE p.flags \cup {"DIRTY"}]

\* CCoinsViewCache::BatchWrite on one key: parent entry p, child entry e.
MergeEntry(p, e) ==
    IF e = Missing \/ (e # Missing /\ "DIRTY" \notin e.flags) THEN p
    ELSE IF p = Missing
      THEN IF e.coins = Pruned
             THEN Missing
             ELSE [coins |-> e.coins, flags |-> {"DIRTY", "FRESH"}]
      ELSE IF "FRESH" \in p.flags /\ e.coins = Pruned
             THEN Missing
             ELSE [coins |-> e.coins, flags |-> p.flags \cup {"DIRTY"}]

\* CCoinsViewDB::BatchWrite on one key: stored coins c, cache entry e.
StoreEntry(c, e) == IF e # Missing /\ "DIRTY" \in e.flags THEN e.coins ELSE c

-----------------------------------------------------------------------------
Init ==
    /\ dbCoins = [t \in Txids |-> Pruned]
    /\ dbBest = NullHash
    /\ tipCoins = EmptyCache
    /\ tipBest = NullHash
    /\ viewCoins = EmptyCache
    /\ viewBest = NullHash
    /\ viewOpen = FALSE

\* A scratch view on pcoinsTip; ConnectBlock and DisconnectBlock begin by
\* comparing view.GetBestBlock() with the block, which caches it in both.
OpenView ==
    /\ ~viewOpen
    /\ viewOpen' = TRUE
    /\ viewCoins' = EmptyCache
    /\ viewBest' = TipBestBlock
    /\ tipBest' = TipBestBlock
    /\ UNCHANGED <<dbVars, tipCoins>>

\* view.AccessCoins(t), as HaveInputs does for every input.
AccessCoins(t) ==
    /\ viewOpen
    /\ viewCoins[t] = Missing
    /\ tipCoins' = TipFetched(t)
    /\ viewCoins' = FetchCoins(viewCoins, t, GetCoins(TipFetched(t), t))
    /\ UNCHANGED <<dbVars, tipBest, viewBest, viewOpen>>

\* pcoinsTip->AccessCoins(t), as RPC calls and CTxMemPool do under cs_main.
TipAccessCoins(t) ==
    /\ ~viewOpen
    /\ tipCoins' = TipFetched(t)
    /\ UNCHANGED <<dbVars, tipBest, viewVars>>

\* One ModifyCoins(t) on the scratch view, the change of the coins to c, and
\* the end of the modifier (UpdateCoins, ApplyTxInUndo, DisconnectBlock).
ModifyCoins(t, c) ==
    LET tip == IF viewCoins[t] = Missing THEN TipFetched(t) ELSE tipCoins
        e   == ModifiedEntry(viewCoins, t, GetCoins(tip, t))
    IN  /\ viewOpen
        /\ tipCoins' = tip
        /\ viewCoins' = [viewCoins EXCEPT ![t] = ModifierDone(e, c)]
        /\ UNCHANGED <<dbVars, tipBest, viewBest, viewOpen>>

\* view.SetBestBlock(b), then view.Flush() into pcoinsTip.  BatchWrite takes
\* over the child's hashBlock whatever it is.
FlushView(b) ==
    /\ viewOpen
    /\ tipCoins' = [t \in Txids |-> MergeEntry(tipCoins[t], viewCoins[t])]
    /\ tipBest' = b
    /\ viewCoins' = EmptyCache
    /\ viewBest' = NullHash
    /\ viewOpen' = FALSE
    /\ UNCHANGED dbVars

\* The block failed, or the view was for TestBlockValidity or the miner: the
\* view is destroyed without a Flush.
DropView ==
    /\ viewOpen
    /\ viewCoins' = EmptyCache
    /\ viewBest' = NullHash
    /\ viewOpen' = FALSE
    /\ UNCHANGED <<dbVars, tipVars>>

\* Mutant: the flush keeps the entries and clears DIRTY, but not FRESH.
FlushTipKeepsFresh ==
    /\ ~viewOpen
    /\ dbCoins' = [t \in Txids |-> StoreEntry(dbCoins[t], tipCoins[t])]
    /\ dbBest' = IF tipBest = NullHash THEN dbBest ELSE tipBest
    /\ tipCoins' = [t \in Txids |-> IF tipCoins[t] = Missing THEN Missing
                                    ELSE [tipCoins[t] EXCEPT !.flags = @ \ {"DIRTY"}]]
    /\ UNCHANGED <<tipBest, viewVars>>

\* pcoinsTip->Flush() in FlushStateToDisk: one LevelDB batch.  ConnectTip,
\* DisconnectTip and AcceptToMemoryPool only call it once their view is gone.
FlushTip ==
    /\ ~viewOpen
    /\ dbCoins' = [t \in Txids |-> StoreEntry(dbCoins[t], tipCoins[t])]
    /\ dbBest' = IF tipBest = NullHash THEN dbBest ELSE tipBest
    /\ tipCoins' = EmptyCache
    /\ UNCHANGED <<tipBest, viewVars>>

\* The process dies and starts again: the caches are rebuilt empty.
Crash ==
    /\ tipCoins' = EmptyCache
    /\ tipBest' = NullHash
    /\ viewCoins' = EmptyCache
    /\ viewBest' = NullHash
    /\ viewOpen' = FALSE
    /\ UNCHANGED dbVars

Next ==
    \/ OpenView
    \/ \E t \in Txids : AccessCoins(t) \/ TipAccessCoins(t)
    \/ \E t \in Txids, c \in Values : ModifyCoins(t, c)
    \/ \E b \in Blocks : FlushView(b)
    \/ DropView
    \/ FlushTip
    \/ Crash

Spec == Init /\ [][Next]_vars

-----------------------------------------------------------------------------
(* What a read returns at each layer, and the abstract state that is.      *)

TipLookup(t)  == IF tipCoins[t] = Missing THEN dbCoins[t] ELSE tipCoins[t].coins
ViewLookup(t) == IF viewCoins[t] = Missing THEN TipLookup(t) ELSE viewCoins[t].coins

absDisk    == [coins |-> dbCoins, best |-> dbBest]
absChain   == [coins |-> [t \in Txids |-> TipLookup(t)], best |-> TipBestBlock]
absScratch == IF viewOpen THEN [t \in Txids |-> ViewLookup(t)] ELSE NoView

Flat == INSTANCE CoinsView
            WITH disk <- absDisk, chain <- absChain, scratch <- absScratch

-----------------------------------------------------------------------------
(* Properties.                                                             *)

\* Every map holds entries of its kind, and hashes are hashes.
TypeOK ==
    /\ dbCoins \in [Txids -> Values]
    /\ dbBest \in Blocks \cup {NullHash}
    /\ tipCoins \in Cache
    /\ tipBest \in Blocks \cup {NullHash}
    /\ viewCoins \in Cache
    /\ viewBest \in Blocks \cup {NullHash}
    /\ viewOpen \in BOOLEAN

(* The assertion inside CCoinsViewCache::BatchWrite: a changed, unpruned   *)
(* coin the scratch view would push down to a pcoinsTip that has no entry  *)
(* for it is FRESH.  It fails if pcoinsTip loses an entry under a view.    *)
FreshAtBatchWrite ==
    \A t \in Txids :
        viewCoins[t] # Missing /\ tipCoins[t] = Missing
            /\ "DIRTY" \in viewCoins[t].flags /\ viewCoins[t].coins # Pruned
        => "FRESH" \in viewCoins[t].flags

(* The comments on the two flags (struct CCoinsCacheEntry): a FRESH entry's *)
(* parent has no unpruned coins for the key, and an entry that is not DIRTY *)
(* agrees with its parent.  Both layers, whatever was read or flushed.      *)
FlagsTellTheTruth ==
    \A t \in Txids :
        /\ tipCoins[t] # Missing =>
             /\ "FRESH" \in tipCoins[t].flags => dbCoins[t] = Pruned
             /\ "DIRTY" \notin tipCoins[t].flags => tipCoins[t].coins = dbCoins[t]
        /\ viewCoins[t] # Missing =>
             /\ "FRESH" \in viewCoins[t].flags => TipLookup(t) = Pruned
             /\ "DIRTY" \notin viewCoins[t].flags => viewCoins[t].coins = TipLookup(t)

(* The caches, flags and sentinels are invisible: every step is a step of  *)
(* the flat maps of CoinsView.  Reads change nothing, a Flush moves the    *)
(* whole view down at once, and a crash falls back to the last snapshot.   *)
ImplementsCoinsView == Flat!AbsSpec
=============================================================================
