-------------------------- MODULE CoinsCacheProofs --------------------------
(***************************************************************************)
(* CoinsCache keeps the promise of its flags and implements CoinsView, for *)
(* any set of txids, coin values and blocks.                               *)
(***************************************************************************)
EXTENDS CoinsCache, TLAPS

(* Whatever the scratch view read or changed, pcoinsTip has an entry for it *)
(* too, or neither it nor the database has coins for the key.               *)
ViewBackedByTip ==
    \A t \in Txids :
        viewCoins[t] # Missing /\ tipCoins[t] = Missing
            => "FRESH" \in viewCoins[t].flags

IInv ==
    /\ TypeOK
    /\ FlagsTellTheTruth
    /\ ViewBackedByTip
    /\ ~viewOpen => viewCoins = EmptyCache

-----------------------------------------------------------------------------
(* FetchCoins on pcoinsTip does not change what a read returns.            *)
LEMMA TipFetchedLookup ==
    ASSUME TypeOK, NEW t \in Txids, NEW u \in Txids
    PROVE  /\ TipFetched(t) \in Cache
           /\ TipFetched(t)[u] = IF u = t /\ tipCoins[t] = Missing /\ dbCoins[t] # Pruned
                                   THEN [coins |-> dbCoins[t], flags |-> {}]
                                   ELSE tipCoins[u]
  BY Zenon, CoinsDistinct DEF TypeOK, TipFetched, FetchCoins, DbGetCoins, Cache, CacheEntry, Values

(* What GetCoins returns from pcoinsTip after the fetch is what pcoinsTip  *)
(* or the database held before it.                                         *)
LEMMA TipFetchedReads ==
    ASSUME TypeOK, FlagsTellTheTruth, NEW t \in Txids, tipCoins' = TipFetched(t),
           UNCHANGED dbVars
    PROVE  /\ tipCoins' \in Cache
           /\ \A u \in Txids : TipLookup(u)' = TipLookup(u)
           /\ \A u \in Txids : tipCoins'[u] = Missing => tipCoins[u] = Missing
           /\ \A u \in Txids : tipCoins'[u] # Missing =>
                /\ "FRESH" \in tipCoins'[u].flags => dbCoins[u] = Pruned
                /\ "DIRTY" \notin tipCoins'[u].flags => tipCoins'[u].coins = dbCoins[u]
           /\ GetCoins(tipCoins', t) = IF tipCoins'[t] = Missing THEN Missing ELSE TipLookup(t)
           /\ tipCoins'[t] = Missing => TipLookup(t) = Pruned
  <1>1. \A u \in Txids :
          tipCoins'[u] = IF u = t /\ tipCoins[t] = Missing /\ dbCoins[t] # Pruned
                           THEN [coins |-> dbCoins[t], flags |-> {}]
                           ELSE tipCoins[u]
    BY TipFetchedLookup
  <1>2. tipCoins' \in Cache
    BY Zenon, TipFetchedLookup
  <1>3. dbCoins \in [Txids -> Values] /\ dbCoins' = dbCoins
    BY DEF TypeOK, dbVars
  <1>4. \A u \in Txids : dbCoins[u] # Missing
    BY <1>3, CoinsDistinct DEF Values
  <1>5. \A u \in Txids : [coins |-> dbCoins[u], flags |-> {}] # Missing
    BY <1>3, CoinsDistinct DEF Values
  <1> QED
    BY <1>1, <1>2, <1>3, <1>4, <1>5
    DEF TipLookup, GetCoins, FlagsTellTheTruth

(* Empty caches over an empty database.                                    *)
LEMMA InitInvariant == Init => IInv
  BY Zenon, CoinsDistinct
  DEF Init, IInv, TypeOK, FlagsTellTheTruth, ViewBackedByTip, EmptyCache, Cache, Values

-----------------------------------------------------------------------------
(* One lemma per action that touches the caches.                           *)

(* A read through the scratch view leaves both caches with true flags.     *)
LEMMA AccessCoinsInvariant ==
    ASSUME IInv, NEW t \in Txids, AccessCoins(t)
    PROVE  IInv'
  <1>1. tipCoins' = TipFetched(t) /\ UNCHANGED dbVars
    BY DEF AccessCoins
  <1>2. TypeOK /\ FlagsTellTheTruth
    BY DEF IInv
  <1>3. /\ tipCoins' \in Cache
        /\ \A u \in Txids : TipLookup(u)' = TipLookup(u)
        /\ \A u \in Txids : tipCoins'[u] = Missing => tipCoins[u] = Missing
        /\ \A u \in Txids : tipCoins'[u] # Missing =>
             /\ "FRESH" \in tipCoins'[u].flags => dbCoins[u] = Pruned
             /\ "DIRTY" \notin tipCoins'[u].flags => tipCoins'[u].coins = dbCoins[u]
        /\ GetCoins(tipCoins', t) = IF tipCoins'[t] = Missing THEN Missing ELSE TipLookup(t)
    BY <1>1, <1>2, TipFetchedReads
  <1>4. \A u \in Txids : TipLookup(u) \in Values
    BY <1>2 DEF TypeOK, TipLookup, Cache, CacheEntry
  <1>5. viewCoins' = FetchCoins(viewCoins, t, GetCoins(tipCoins', t))
    BY <1>1 DEF AccessCoins
  <1>6. viewCoins' = IF tipCoins'[t] = Missing
                       THEN viewCoins
                       ELSE [viewCoins EXCEPT ![t] =
                               [coins |-> TipLookup(t),
                                flags |-> IF TipLookup(t) = Pruned THEN {"FRESH"} ELSE {}]]
    <2>1. TipLookup(t) # Missing
      BY <1>4, CoinsDistinct DEF Values
    <2>2. viewCoins[t] = Missing
      BY DEF AccessCoins
    <2> QED
      BY Zenon, <1>3, <1>5, <2>1, <2>2 DEF FetchCoins
  <1>7. viewCoins' \in Cache
    BY <1>2, <1>4, <1>6 DEF TypeOK, Cache, CacheEntry
  <1>8. TypeOK'
    BY <1>1, <1>2, <1>3, <1>7 DEF TypeOK, AccessCoins, dbVars
  <1>9. FlagsTellTheTruth'
    <2> SUFFICES ASSUME NEW u \in Txids, viewCoins'[u] # Missing
                 PROVE  /\ "FRESH" \in viewCoins'[u].flags => TipLookup(u) = Pruned
                        /\ "DIRTY" \notin viewCoins'[u].flags => viewCoins'[u].coins = TipLookup(u)
      BY <1>1, <1>3 DEF FlagsTellTheTruth, dbVars
    <2> QED
      BY <1>2, <1>6 DEF FlagsTellTheTruth, TypeOK, Cache
  <1>10. ViewBackedByTip'
    BY <1>2, <1>3, <1>6 DEF IInv, ViewBackedByTip, TypeOK, Cache
  <1> QED
    BY <1>8, <1>9, <1>10 DEF IInv, AccessCoins

(* ModifyCoins and the destructor of its modifier keep the flags true.     *)
LEMMA ModifyCoinsInvariant ==
    ASSUME IInv, NEW t \in Txids, NEW c \in Values, ModifyCoins(t, c)
    PROVE  /\ IInv'
           /\ \A u \in Txids : TipLookup(u)' = TipLookup(u)
           /\ \A u \in Txids : ViewLookup(u)' = IF u = t THEN c ELSE ViewLookup(u)
  <1> DEFINE tip == IF viewCoins[t] = Missing THEN TipFetched(t) ELSE tipCoins
             e   == ModifiedEntry(viewCoins, t, GetCoins(tip, t))
  <1>1. TypeOK /\ FlagsTellTheTruth /\ ViewBackedByTip /\ UNCHANGED dbVars
    BY DEF IInv, ModifyCoins
  <1>2. /\ tipCoins' = tip
        /\ viewCoins' = [viewCoins EXCEPT ![t] = ModifierDone(e, c)]
        /\ UNCHANGED <<tipBest, viewBest, viewOpen>> /\ viewOpen
    BY DEF ModifyCoins
  <1>3. /\ tipCoins' \in Cache
        /\ \A u \in Txids : TipLookup(u)' = TipLookup(u)
        /\ \A u \in Txids : tipCoins'[u] = Missing => tipCoins[u] = Missing
        /\ \A u \in Txids : tipCoins'[u] # Missing =>
             /\ "FRESH" \in tipCoins'[u].flags => dbCoins[u] = Pruned
             /\ "DIRTY" \notin tipCoins'[u].flags => tipCoins'[u].coins = dbCoins[u]
    <2>1. CASE viewCoins[t] = Missing
      <3>1. tipCoins' = TipFetched(t)
        BY <1>2, <2>1
      <3> QED
        BY ONLY <1>1, <3>1, TipFetchedReads
    <2>2. CASE viewCoins[t] # Missing
      <3>1. tipCoins' = tipCoins
        BY <1>2, <2>2
      <3> QED
        BY <1>1, <3>1 DEF TypeOK, FlagsTellTheTruth, TipLookup, dbVars
    <2> QED
      BY <2>1, <2>2
  <1>4. \A u \in Txids : TipLookup(u) \in Values
    BY <1>1 DEF TypeOK, TipLookup, Cache, CacheEntry
  <1>5. /\ e \in CacheEntry
        /\ "FRESH" \in e.flags => TipLookup(t) = Pruned
        /\ tipCoins'[t] = Missing => "FRESH" \in e.flags
    <2>1. CASE viewCoins[t] = Missing
      <3>1. tipCoins' = TipFetched(t)
        BY <1>2, <2>1
      <3>2. /\ GetCoins(tipCoins', t) = IF tipCoins'[t] = Missing THEN Missing ELSE TipLookup(t)
            /\ tipCoins'[t] = Missing => TipLookup(t) = Pruned
        BY ONLY <1>1, <3>1, TipFetchedReads
      <3>3. e = IF tipCoins'[t] = Missing \/ TipLookup(t) = Pruned
                  THEN [coins |-> Pruned, flags |-> {"FRESH"}]
                  ELSE [coins |-> TipLookup(t), flags |-> {}]
        <4>1. TipLookup(t) # Missing
          BY <1>4, CoinsDistinct DEF Values
        <4> QED
          BY <1>2, <2>1, <3>2, <4>1 DEF ModifiedEntry
      <3> HIDE DEF e
      <3> QED
        BY <1>4, <3>2, <3>3 DEF CacheEntry, Values
    <2>2. CASE viewCoins[t] # Missing
      <3>1. e = viewCoins[t] /\ tipCoins' = tipCoins
        BY <1>2, <2>2 DEF ModifiedEntry
      <3> HIDE DEF e
      <3> QED
        BY <1>1, <2>2, <3>1 DEF TypeOK, Cache, FlagsTellTheTruth, ViewBackedByTip
    <2> QED
      BY <2>1, <2>2
  <1> HIDE DEF tip, e
  <1>6. ModifierDone(e, c) = Missing \/ ModifierDone(e, c) \in CacheEntry
    BY <1>5 DEF ModifierDone, CacheEntry
  <1>7. \A u \in Txids : viewCoins'[u] = IF u = t THEN ModifierDone(e, c) ELSE viewCoins[u]
    BY <1>1, <1>2 DEF TypeOK, Cache
  <1>8. TypeOK'
    BY Zenon, <1>1, <1>2, <1>3, <1>6 DEF TypeOK, Cache, dbVars
  <1>9. /\ ModifierDone(e, c) = Missing => c = Pruned /\ TipLookup(t) = Pruned
        /\ ModifierDone(e, c) # Missing => 
             /\ ModifierDone(e, c) = [coins |-> c, flags |-> e.flags \cup {"DIRTY"}]
             /\ "DIRTY" \in ModifierDone(e, c).flags
             /\ "FRESH" \in ModifierDone(e, c).flags <=> "FRESH" \in e.flags
    <2>1. [coins |-> c, flags |-> e.flags \cup {"DIRTY"}] # Missing
      BY <1>5, CoinsDistinct DEF CacheEntry, Values
    <2> QED
      BY <1>5, <2>1 DEF ModifierDone
  <1>10. FlagsTellTheTruth'
    <2> SUFFICES ASSUME NEW u \in Txids, viewCoins'[u] # Missing
                 PROVE  /\ "FRESH" \in viewCoins'[u].flags => TipLookup(u) = Pruned
                        /\ "DIRTY" \notin viewCoins'[u].flags => viewCoins'[u].coins = TipLookup(u)
      BY <1>1, <1>3 DEF FlagsTellTheTruth, dbVars
    <2> QED
      BY <1>1, <1>5, <1>7, <1>9 DEF FlagsTellTheTruth
  <1>11. ViewBackedByTip'
    BY <1>1, <1>3, <1>5, <1>7, <1>9 DEF ViewBackedByTip
  <1>12. \A u \in Txids : ViewLookup(u)' = IF u = t THEN c ELSE ViewLookup(u)
    BY <1>3, <1>7, <1>9 DEF ViewLookup
  <1> QED
    BY <1>2, <1>3, <1>8, <1>10, <1>11, <1>12 DEF IInv

(* A Flush of the scratch view makes pcoinsTip return what the view did.   *)
LEMMA FlushViewInvariant ==
    ASSUME IInv, NEW b \in Blocks, FlushView(b)
    PROVE  /\ IInv'
           /\ \A t \in Txids : TipLookup(t)' = ViewLookup(t)
  <1>1. TypeOK /\ FlagsTellTheTruth /\ ViewBackedByTip /\ UNCHANGED dbVars
    BY DEF IInv, FlushView
  <1>2. \A t \in Txids : tipCoins'[t] = MergeEntry(tipCoins[t], viewCoins[t])
    BY DEF FlushView
  <1>3. ASSUME NEW t \in Txids
        PROVE  /\ tipCoins'[t] \in CacheEntry \cup {Missing}
               /\ tipCoins'[t] # Missing =>
                    /\ "FRESH" \in tipCoins'[t].flags => dbCoins[t] = Pruned
                    /\ "DIRTY" \notin tipCoins'[t].flags => tipCoins'[t].coins = dbCoins[t]
               /\ TipLookup(t)' = ViewLookup(t)
    <2> DEFINE p == tipCoins[t]
               e == viewCoins[t]
    <2>1. /\ p \in CacheEntry \cup {Missing} /\ e \in CacheEntry \cup {Missing}
          /\ dbCoins[t] \in Values /\ dbCoins' = dbCoins
      BY <1>1 DEF TypeOK, Cache, dbVars
    <2>2. CASE e = Missing \/ (e # Missing /\ "DIRTY" \notin e.flags)
      <3>1. tipCoins'[t] = p
        BY Zenon, <1>2, <2>2 DEF MergeEntry
      <3> QED
        BY <1>1, <2>1, <2>2, <3>1 DEF FlagsTellTheTruth, TipLookup, ViewLookup
    <2>3. CASE e # Missing /\ "DIRTY" \in e.flags /\ p = Missing
      <3>1. "FRESH" \in e.flags /\ dbCoins[t] = Pruned
        BY <1>1, <2>3 DEF ViewBackedByTip, FlagsTellTheTruth, TipLookup
      <3>2. tipCoins'[t] = IF e.coins = Pruned
                             THEN Missing
                             ELSE [coins |-> e.coins, flags |-> {"DIRTY", "FRESH"}]
        BY Zenon, <1>2, <2>3 DEF MergeEntry
      <3>3. [coins |-> e.coins, flags |-> {"DIRTY", "FRESH"}] \in CacheEntry
        BY <2>1, <2>3 DEF CacheEntry
      <3>4. [coins |-> e.coins, flags |-> {"DIRTY", "FRESH"}] # Missing
        BY <3>3, CoinsDistinct DEF CacheEntry, Values
      <3> QED
        BY <2>1, <2>3, <3>1, <3>2, <3>3, <3>4 DEF TipLookup, ViewLookup
    <2>4. CASE e # Missing /\ "DIRTY" \in e.flags /\ p # Missing
      <3>1. tipCoins'[t] = IF "FRESH" \in p.flags /\ e.coins = Pruned
                             THEN Missing
                             ELSE [coins |-> e.coins, flags |-> p.flags \cup {"DIRTY"}]
        BY Zenon, <1>2, <2>4 DEF MergeEntry
      <3>2. [coins |-> e.coins, flags |-> p.flags \cup {"DIRTY"}] \in CacheEntry
        BY <2>1, <2>4 DEF CacheEntry
      <3>3. [coins |-> e.coins, flags |-> p.flags \cup {"DIRTY"}] # Missing
        BY <3>2, CoinsDistinct DEF CacheEntry, Values
      <3>4. "FRESH" \in p.flags => dbCoins[t] = Pruned
        BY <1>1, <2>4 DEF FlagsTellTheTruth
      <3> QED
        BY <2>1, <2>4, <3>1, <3>2, <3>3, <3>4 DEF TipLookup, ViewLookup
    <2> QED
      BY <2>2, <2>3, <2>4
  <1>4. TypeOK'
    BY Zenon, <1>1, <1>3 DEF TypeOK, Cache, EmptyCache, FlushView, dbVars
  <1>5. FlagsTellTheTruth' /\ ViewBackedByTip'
    BY <1>1, <1>3 DEF FlagsTellTheTruth, ViewBackedByTip, EmptyCache, FlushView, dbVars
  <1> QED
    BY <1>3, <1>4, <1>5 DEF IInv, FlushView

(* A Flush of pcoinsTip makes the database hold what pcoinsTip returned.   *)
LEMMA FlushTipInvariant ==
    ASSUME IInv, FlushTip
    PROVE  /\ IInv'
           /\ \A t \in Txids : dbCoins'[t] = TipLookup(t) /\ TipLookup(t)' = TipLookup(t)
           /\ dbBest' = TipBestBlock
           /\ TipBestBlock' = TipBestBlock
  <1>1. TypeOK /\ FlagsTellTheTruth /\ viewCoins = EmptyCache
    BY DEF IInv, FlushTip
  <1>2. \A t \in Txids : dbCoins'[t] = TipLookup(t)
    BY <1>1 DEF FlushTip, StoreEntry, TipLookup, FlagsTellTheTruth
  <1>3. tipCoins' = EmptyCache /\ viewCoins' = EmptyCache
    BY <1>1 DEF FlushTip, viewVars
  <1>4. \A t \in Txids : TipLookup(t)' = TipLookup(t)
    BY <1>2, <1>3 DEF TipLookup, EmptyCache
  <1>5. \A t \in Txids : TipLookup(t) \in Values
    BY <1>1 DEF TypeOK, TipLookup, Cache, CacheEntry
  <1>6. dbCoins' \in [Txids -> Values]
    BY <1>2, <1>5 DEF FlushTip
  <1>7. dbBest' = TipBestBlock /\ TipBestBlock' = TipBestBlock
    BY DEF FlushTip, TipBestBlock
  <1>8. TypeOK'
    BY <1>1, <1>3, <1>6 DEF TypeOK, FlushTip, Cache, EmptyCache, viewVars
  <1> QED
    BY <1>2, <1>3, <1>4, <1>7, <1>8
    DEF IInv, FlagsTellTheTruth, ViewBackedByTip, EmptyCache

(* Every step, a crash included, preserves the inductive invariant.        *)
LEMMA NextInvariant == IInv /\ [Next]_vars => IInv'
  <1> SUFFICES ASSUME IInv, [Next]_vars PROVE IInv'
    OBVIOUS
  <1>1. CASE OpenView
    BY <1>1 DEF IInv, OpenView, TypeOK, FlagsTellTheTruth, ViewBackedByTip, TipLookup,
                EmptyCache, Cache, TipBestBlock, dbVars
  <1>2. ASSUME NEW t \in Txids, AccessCoins(t) PROVE IInv'
    BY <1>2, AccessCoinsInvariant
  <1>3. ASSUME NEW t \in Txids, TipAccessCoins(t) PROVE IInv'
    <2>1. TypeOK /\ FlagsTellTheTruth /\ viewCoins = EmptyCache /\ UNCHANGED dbVars
      BY <1>3 DEF IInv, TipAccessCoins
    <2>2. /\ tipCoins' \in Cache
          /\ \A u \in Txids : tipCoins'[u] # Missing =>
               /\ "FRESH" \in tipCoins'[u].flags => dbCoins[u] = Pruned
               /\ "DIRTY" \notin tipCoins'[u].flags => tipCoins'[u].coins = dbCoins[u]
      BY <1>3, <2>1, TipFetchedReads DEF TipAccessCoins
    <2> QED
      BY <1>3, <2>1, <2>2 DEF IInv, TipAccessCoins, TypeOK, FlagsTellTheTruth,
                              ViewBackedByTip, EmptyCache, dbVars, viewVars
  <1>4. ASSUME NEW t \in Txids, NEW c \in Values, ModifyCoins(t, c) PROVE IInv'
    BY <1>4, ModifyCoinsInvariant
  <1>5. ASSUME NEW b \in Blocks, FlushView(b) PROVE IInv'
    BY <1>5, FlushViewInvariant
  <1>6. CASE DropView
    BY Zenon, <1>6 DEF IInv, DropView, TypeOK, FlagsTellTheTruth, ViewBackedByTip,
                EmptyCache, Cache, dbVars, tipVars
  <1>7. CASE FlushTip
    BY <1>7, FlushTipInvariant
  <1>8. CASE Crash
    BY Zenon, <1>8 DEF IInv, Crash, TypeOK, FlagsTellTheTruth, ViewBackedByTip,
                EmptyCache, Cache, dbVars
  <1>9. CASE UNCHANGED vars
    BY <1>9 DEF IInv, vars, dbVars, tipVars, viewVars, TypeOK, FlagsTellTheTruth,
                ViewBackedByTip, TipLookup
  <1> QED
    BY <1>1, <1>2, <1>3, <1>4, <1>5, <1>6, <1>7, <1>8, <1>9 DEF Next

(* The inductive invariant holds in every reachable state.                 *)
THEOREM Invariance == Spec => []IInv
  BY InitInvariant, NextInvariant, PTL DEF Spec

(* Type correctness of the three layers.                                   *)
THEOREM TypeCorrect == Spec => []TypeOK
  BY Invariance, PTL DEF IInv

(* DIRTY and FRESH mean what struct CCoinsCacheEntry says they mean.       *)
THEOREM FlagsCorrect == Spec => []FlagsTellTheTruth
  BY Invariance, PTL DEF IInv

(* The assertion in CCoinsViewCache::BatchWrite never fails.               *)
THEOREM BatchWriteAssertHolds == Spec => []FreshAtBatchWrite
  <1>1. IInv => FreshAtBatchWrite
    BY DEF IInv, ViewBackedByTip, FreshAtBatchWrite
  <1> QED
    BY <1>1, Invariance, PTL

-----------------------------------------------------------------------------
(* The refinement: each step is a step of the flat maps or a stutter.      *)

(* Empty caches read as empty maps.                                        *)
LEMMA InitRefines == Init => Flat!AbsInit
  BY DEF Init, Flat!AbsInit, Flat!Empty, absDisk, absChain, absScratch, TipLookup,
         TipBestBlock, EmptyCache

(* Reads leave all three abstract maps alone.                              *)
LEMMA ReadsRefine ==
    ASSUME IInv, NEW t \in Txids, AccessCoins(t) \/ TipAccessCoins(t)
    PROVE  UNCHANGED <<absDisk, absChain, absScratch>>
  <1>1. TypeOK /\ FlagsTellTheTruth /\ UNCHANGED <<dbVars, tipBest, viewOpen>>
        /\ tipCoins' = TipFetched(t)
    BY DEF IInv, AccessCoins, TipAccessCoins, viewVars
  <1>2. /\ \A u \in Txids : TipLookup(u)' = TipLookup(u)
        /\ GetCoins(tipCoins', t) = IF tipCoins'[t] = Missing THEN Missing ELSE TipLookup(t)
    BY <1>1, TipFetchedReads
  <1>3. UNCHANGED absDisk
    BY <1>1 DEF absDisk, dbVars
  <1>4. UNCHANGED absChain
    BY <1>1, <1>2 DEF absChain, TipBestBlock, dbVars
  <1>5. \A u \in Txids : ViewLookup(u)' = ViewLookup(u)
    <2>1. CASE TipAccessCoins(t)
      BY <1>2, <2>1 DEF ViewLookup, TipAccessCoins, viewVars
    <2>2. CASE AccessCoins(t)
      <3>1. TipLookup(t) \in Values /\ TipLookup(t) # Missing
        BY <1>1, CoinsDistinct DEF TypeOK, TipLookup, Cache, CacheEntry, Values
      <3>2. viewCoins[t] = Missing /\ viewCoins' = FetchCoins(viewCoins, t, GetCoins(tipCoins', t))
        BY <1>1, <2>2 DEF AccessCoins
      <3>3. viewCoins' = viewCoins \/
            viewCoins' = [viewCoins EXCEPT ![t] =
                            [coins |-> TipLookup(t),
                             flags |-> IF TipLookup(t) = Pruned THEN {"FRESH"} ELSE {}]]
        BY Zenon, <1>2, <3>1, <3>2 DEF FetchCoins
      <3>4. [coins |-> TipLookup(t), flags |-> IF TipLookup(t) = Pruned THEN {"FRESH"} ELSE {}] # Missing
        BY <3>1, CoinsDistinct DEF Values
      <3>5. \A u \in Txids : \/ viewCoins'[u] = viewCoins[u]
                             \/ /\ u = t /\ viewCoins'[u] # Missing
                                /\ viewCoins'[u].coins = TipLookup(u)
        BY <1>1, <3>3, <3>4 DEF TypeOK, Cache
      <3> QED
        BY <1>2, <3>2, <3>5 DEF ViewLookup
    <2> QED
      BY <2>1, <2>2
  <1> QED
    BY <1>1, <1>3, <1>4, <1>5 DEF absScratch

(* A ModifyCoins is an update of the scratch map, a Flush moves a whole    *)
(* map down, and everything else opens, drops or leaves the maps alone.    *)
LEMMA NextRefines ==
    ASSUME IInv, [Next]_vars
    PROVE  [Flat!AbsNext]_(Flat!absVars)
  <1>0. /\ TypeOK
        /\ [t \in Txids |-> ViewLookup(t)] \in [Txids -> Values]
    BY DEF IInv, TypeOK, TipLookup, ViewLookup, Cache, CacheEntry
  <1>s. viewOpen => absScratch # NoView
    BY <1>0, CoinsDistinct DEF absScratch, Values
  <1>1. CASE OpenView
    <2>1. \A t \in Txids : TipLookup(t)' = TipLookup(t)
      BY <1>1 DEF OpenView, TipLookup, dbVars
    <2>2. \A t \in Txids : ViewLookup(t)' = TipLookup(t)
      BY <1>1, <2>1 DEF OpenView, ViewLookup, EmptyCache
    <2>3. UNCHANGED absDisk
      BY <1>1 DEF OpenView, absDisk, dbVars
    <2>4. UNCHANGED absChain
      BY <1>1, <2>1 DEF OpenView, absChain, TipBestBlock, dbVars
    <2>5. absScratch = NoView /\ absScratch' = absChain.coins
      BY <1>1, <2>2 DEF OpenView, absScratch, absChain
    <2>6. Flat!Open
      BY <2>3, <2>4, <2>5 DEF Flat!Open
    <2> QED
      BY <2>6 DEF Flat!AbsNext
  <1>2. ASSUME NEW t \in Txids, AccessCoins(t) \/ TipAccessCoins(t)
        PROVE  UNCHANGED Flat!absVars
    BY <1>2, ReadsRefine DEF Flat!absVars
  <1>3. ASSUME NEW t \in Txids, NEW c \in Values, ModifyCoins(t, c)
        PROVE  Flat!AbsNext
    <2>1. /\ \A u \in Txids : TipLookup(u)' = TipLookup(u)
          /\ \A u \in Txids : ViewLookup(u)' = IF u = t THEN c ELSE ViewLookup(u)
      BY <1>3, ModifyCoinsInvariant
    <2>2. UNCHANGED absDisk
      BY <1>3 DEF ModifyCoins, absDisk, dbVars
    <2>3. UNCHANGED absChain
      BY <1>3, <2>1 DEF ModifyCoins, absChain, TipBestBlock, dbVars
    <2>4. absScratch' = [absScratch EXCEPT ![t] = c] /\ absScratch # NoView
      BY Zenon, <1>3, <1>s, <2>1 DEF ModifyCoins, absScratch
    <2>5. Flat!Update(t, c)
      BY <2>2, <2>3, <2>4 DEF Flat!Update
    <2> QED
      BY <2>5 DEF Flat!AbsNext, Values
  <1>4. ASSUME NEW b \in Blocks, FlushView(b) PROVE Flat!AbsNext
    <2>1. \A t \in Txids : TipLookup(t)' = ViewLookup(t)
      BY <1>4, FlushViewInvariant
    <2>2. UNCHANGED absDisk
      BY <1>4 DEF FlushView, absDisk, dbVars
    <2>3. absScratch # NoView /\ absScratch' = NoView
      BY <1>4, <1>s DEF FlushView, absScratch
    <2>4. TipBestBlock' = b
      BY <1>4, CoinsDistinct DEF FlushView, TipBestBlock
    <2>5. absChain' = [coins |-> absScratch, best |-> b]
      BY <1>4, <2>1, <2>4 DEF FlushView, absChain, absScratch
    <2>6. Flat!Commit(b)
      BY <2>2, <2>3, <2>5 DEF Flat!Commit
    <2> QED
      BY <2>6 DEF Flat!AbsNext
  <1>5. CASE DropView
    <2>1. UNCHANGED <<absDisk, absChain>> /\ absScratch' = NoView
      BY <1>5 DEF DropView, absDisk, absChain, absScratch, TipLookup, TipBestBlock,
                  dbVars, tipVars
    <2> QED
      BY <2>1 DEF Flat!Abandon, Flat!AbsNext
  <1>6. CASE FlushTip
    <2>1. /\ \A t \in Txids : dbCoins'[t] = TipLookup(t) /\ TipLookup(t)' = TipLookup(t)
          /\ dbBest' = TipBestBlock /\ TipBestBlock' = TipBestBlock
      BY <1>6, FlushTipInvariant
    <2>2. dbCoins' = [t \in Txids |-> TipLookup(t)]
      BY <1>6, <2>1 DEF FlushTip
    <2>3. absDisk' = absChain /\ UNCHANGED absChain
      BY <2>1, <2>2 DEF absDisk, absChain
    <2>4. UNCHANGED absScratch
      BY <1>6 DEF FlushTip, absScratch, viewVars
    <2> QED
      BY <2>3, <2>4 DEF Flat!Persist, Flat!AbsNext
  <1>7. CASE Crash
    <2>1. \A t \in Txids : TipLookup(t)' = dbCoins[t]
      BY <1>7 DEF Crash, TipLookup, EmptyCache, dbVars
    <2>2. dbCoins = [t \in Txids |-> dbCoins[t]]
      BY <1>0 DEF TypeOK
    <2>3. absChain' = absDisk /\ UNCHANGED absDisk /\ absScratch' = NoView
      BY <1>7, <2>1, <2>2 DEF Crash, absChain, absDisk, absScratch, TipBestBlock, dbVars
    <2> QED
      BY <2>3 DEF Flat!CrashBack, Flat!AbsNext
  <1>8. CASE UNCHANGED vars
    BY <1>8 DEF vars, dbVars, tipVars, viewVars, Flat!absVars, absDisk, absChain, absScratch,
                TipLookup, ViewLookup, TipBestBlock
  <1> QED
    BY <1>1, <1>2, <1>3, <1>4, <1>5, <1>6, <1>7, <1>8 DEF Next

(* The layered caches implement the flat maps of CoinsView: no read,       *)
(* write, Flush, abandoned view or crash can be told from theirs.          *)
THEOREM Refinement == Spec => ImplementsCoinsView
  BY InitRefines, NextRefines, Invariance, PTL DEF Spec, ImplementsCoinsView, Flat!AbsSpec

=============================================================================
