----------------------------- MODULE MCStorage ------------------------------
(***************************************************************************)
(* The databases, their caches and the block files side by side, for one   *)
(* model checking run: CoinsCache, LevelDB, its iterators, the skip list   *)
(* of its memtable, its table cache, and BlockFiles.  sel, chosen at the   *)
(* start, says which one a behaviour is about.  The variables of the       *)
(* others are None, and those of CoinsCache stay as they are at first.     *)
(***************************************************************************)
EXTENDS CoinsCache, Naturals, Sequences, SequencesExt

CONSTANTS
    Keys, kNumLevels, kMaxMemCompactLevel, kL0_StopWritesTrigger, TableWorlds,
    Parent, MAX_BLOCKFILE_SIZE, MIN_BLOCKS_TO_KEEP, checkblocks, MaxFile, FileWorlds,
    IterWorlds, UserKeys, Digits,
    ListKeys, kMaxHeight, Junk,
    CacheKeys, CacheThreads, CacheWorlds, MaxHandles,
    None

VARIABLES
    sel, world,
    logs, tables, manifests, CURRENT, opened, files, next_file_number, last_sequence, log_number,
    manifest_file_number, mem, imm, logfile_number, pending_outputs, bg_error, edit, writer, memc, comp, iters,
    written, promised,
    phase, index, info, nLastBlockFile, setDirtyBlockIndex, setDirtyFileInfo, fCheckForPruning, tip, flush, import,
    blk, rev, volatile, db, coins,
    base, memtable, dbiter, at,
    next_, max_height_, inserter, reader, node, linked, before,
    config, handle, lru, list_, elems_, usage_, thread

Level == INSTANCE LevelDB WITH Worlds <- TableWorlds
Block == INSTANCE BlockFiles WITH Worlds <- FileWorlds
Iter  == INSTANCE DBIterator WITH Null <- None
List  == INSTANCE SkipList WITH NULL <- None, writer <- inserter
LRU   == INSTANCE LRUCache

tableVars == <<logs, tables, manifests, CURRENT, opened, files, next_file_number, last_sequence, log_number,
    manifest_file_number, mem, imm, logfile_number, pending_outputs, bg_error, edit, writer, memc, comp, iters,
    written, promised>>
blockVars == <<phase, index, info, nLastBlockFile, setDirtyBlockIndex, setDirtyFileInfo, fCheckForPruning, tip,
    flush, import, blk, rev, volatile, db, coins>>
iterVars  == <<base, memtable, dbiter, at>>
listVars  == <<next_, max_height_, inserter, reader, node, linked, before>>
lruVars   == <<config, handle, lru, list_, elems_, usage_, thread>>
storageVars == <<sel, world, tableVars, blockVars, iterVars, listVars, lruVars, vars>>

LevelOff ==
    /\ logs = None /\ tables = None /\ manifests = None /\ CURRENT = None /\ opened = None /\ files = None
    /\ next_file_number = None /\ last_sequence = None /\ log_number = None /\ manifest_file_number = None
    /\ mem = None /\ imm = None /\ logfile_number = None /\ pending_outputs = None /\ bg_error = None /\ edit = None
    /\ writer = None /\ memc = None /\ comp = None /\ iters = None /\ written = None /\ promised = None
BlockOff ==
    /\ phase = None /\ index = None /\ info = None /\ nLastBlockFile = None /\ setDirtyBlockIndex = None
    /\ setDirtyFileInfo = None /\ fCheckForPruning = None /\ tip = None /\ flush = None /\ import = None
    /\ blk = None /\ rev = None /\ volatile = None /\ db = None /\ coins = None
IterOff == base = None /\ memtable = None /\ dbiter = None /\ at = None
ListOff ==
    /\ next_ = None /\ max_height_ = None /\ inserter = None /\ reader = None /\ node = None /\ linked = None
    /\ before = None
LRUOff ==
    /\ config = None /\ handle = None /\ lru = None /\ list_ = None /\ elems_ = None /\ usage_ = None /\ thread = None

StorageInit ==
    /\ Init
    /\ \/ sel = "coins"  /\ world = None /\ LevelOff /\ BlockOff /\ IterOff /\ ListOff /\ LRUOff
       \/ sel = "tables" /\ Level!Init /\ BlockOff /\ IterOff /\ ListOff /\ LRUOff
       \/ sel = "blocks" /\ Block!Init /\ LevelOff /\ IterOff /\ ListOff /\ LRUOff
       \/ sel = "iter"   /\ world = None /\ Iter!Init /\ LevelOff /\ BlockOff /\ ListOff /\ LRUOff
       \/ sel = "list"   /\ world = None /\ List!Init /\ LevelOff /\ BlockOff /\ IterOff /\ LRUOff
       \/ sel = "lru"    /\ world = None /\ LRU!Init /\ LevelOff /\ BlockOff /\ IterOff /\ ListOff

StorageNext ==
    \/ sel = "coins"  /\ Next /\ UNCHANGED <<sel, world, tableVars, blockVars, iterVars, listVars, lruVars>>
    \/ sel = "tables" /\ Level!Next /\ UNCHANGED <<sel, blockVars, iterVars, listVars, lruVars, vars>>
    \/ sel = "blocks" /\ Block!Next /\ UNCHANGED <<sel, tableVars, iterVars, listVars, lruVars, vars>>
    \/ sel = "iter"   /\ Iter!Next /\ UNCHANGED <<sel, world, tableVars, blockVars, listVars, lruVars, vars>>
    \/ sel = "list"   /\ List!Next /\ UNCHANGED <<sel, world, tableVars, blockVars, iterVars, lruVars, vars>>
    \/ sel = "lru"    /\ LRU!Next /\ UNCHANGED <<sel, world, tableVars, blockVars, iterVars, listVars, vars>>

StorageSpec == StorageInit /\ [][StorageNext]_storageVars

-----------------------------------------------------------------------------
(* The properties are those of the modules.                                *)

\* A reader gets what the newest write says, and an iterator what was there when it was made; in whatever
\* directions it is moved, it is a cursor in that.
ReadsSeeTheNewest ==
    /\ sel = "tables" => Level!ReadsSeeTheNewest /\ Level!IteratorsAreStable
    /\ sel = "iter" => Iter!IteratorIsCursor
\* A crash loses no write that was synced and no file that is needed.
SyncedWritesSurvive == sel = "tables" => Level!SyncedWritesSurvive /\ Level!NothingNeededIsDeleted
\* Threads that read the memtable without a lock pass over nothing and follow no link that is not set, and
\* the table that a thread reads from is not freed under it, however it is replaced or evicted.
ReadersAreSafe ==
    /\ sel = "list" => List!ReadersSeeTheList
    /\ sel = "lru" => LRU!CacheCountsExact
\* The index names the places of the blocks and of their undo data, and at every moment a
\* restart would load.
RestartSucceeds == sel = "blocks" => Block!IndexPointsAtItsBlock /\ Block!RestartSucceeds
\* A reindex finds every block that can be found.
ReindexFindsEverything == [][sel = "blocks" => Block!FindsEverything]_storageVars

-----------------------------------------------------------------------------
(* Values for the constants of Storage.                                    *)

-----------------------------------------------------------------------------
(* LevelDB: scripts of batches on three keys.                              *)

Put(k) == [key |-> k, del |-> FALSE]
Del(k) == [key |-> k, del |-> TRUE]
Lazy(b) == [batch |-> b, sync |-> FALSE]
Sync(b) == [batch |-> b, sync |-> TRUE]
TableWorld(todo, buffer, faults, crashes, iterators) ==
    [todo |-> todo, write_buffer_size |-> buffer, faults |-> faults, crashes |-> crashes, iterators |-> iterators]

\* Overwrites and deletions through all levels under an iterator; logs of one and of two
\* records that a crash cuts; a fault, then a crash; two crashes.
MCTableWorlds ==
    {TableWorld(<<Lazy(<<Put(1), Put(3)>>), Lazy(<<Put(2)>>), Lazy(<<Del(1)>>)>>, 0, 0, 0, 0),
     TableWorld(<<Lazy(<<Put(1)>>), Lazy(<<Del(1)>>), Lazy(<<Put(1)>>)>>, 0, 0, 0, 1),
     TableWorld(<<Lazy(<<Put(1), Put(2)>>), Sync(<<Del(1)>>), Lazy(<<Put(2)>>)>>, 0, 0, 1, 0),
     TableWorld(<<Lazy(<<Put(1)>>), Sync(<<Del(1)>>), Lazy(<<Put(2)>>), Lazy(<<Put(1)>>)>>, 1, 0, 1, 0),
     TableWorld(<<Lazy(<<Put(1)>>), Sync(<<Put(1)>>), Lazy(<<Del(1)>>)>>, 0, 1, 1, 0),
     TableWorld(<<Lazy(<<Put(1)>>), Sync(<<Del(1)>>)>>, 0, 0, 2, 0)}

-----------------------------------------------------------------------------
(* BlockFiles: a chain of three blocks and a chain of two beside it.       *)

MCParent == [b \in 1..5 |-> CASE b = 1 -> 0 [] b = 2 -> 1 [] b = 3 -> 2 [] b = 4 -> 0 [] b = 5 -> 4]
FileWorld(blocks, prune, crashes, reindex) ==
    [blocks |-> blocks, prune |-> prune, crashes |-> crashes, reindex |-> reindex, watch |-> FALSE]
MCFileWorlds ==
    {FileWorld(0..3, FALSE, 1, TRUE), FileWorld({0, 1, 4, 5}, FALSE, 1, FALSE), FileWorld(0..3, TRUE, 1, TRUE)}

-----------------------------------------------------------------------------
(* DBIterator: six entries, versions and a deletion of one key among them, *)
(* spread over the memtable and two tables in all ways that leave no table *)
(* empty, blocks of two entries, and two writes under the iterator.        *)

Key(u, seq, del) == Append(u, Digits + 1 + 2 * seq + (IF del THEN 0 ELSE 1))
First6 == Key(<<0, 1>>, 1, FALSE)
Last6  == Key(<<2>>, 4, FALSE)
InOrder ==
    <<First6, Key(<<1>>, 6, FALSE), Key(<<1>>, 5, TRUE), Key(<<1>>, 2, FALSE), Key(<<1, 2>>, 3, FALSE), Last6>>
Entries == Range(InOrder)
InBlocks(S) ==
    LET q == SelectSeq(InOrder, LAMBDA k : k \in S)
    IN [i \in 1..((Len(q) + 1) \div 2) |-> SubSeq(q, 2 * i - 1, IF 2 * i > Len(q) THEN Len(q) ELSE 2 * i)]
Places == {f \in [Entries -> 1..3] : f[First6] = 2 /\ f[Last6] = 3 /\ f[Key(<<1>>, 6, FALSE)] \in {1, 2}
                                   /\ f[Key(<<1, 2>>, 3, FALSE)] \in {1, 3}}
MCIterWorlds ==
    {[mem |-> {k \in Entries : f[k] = 1}, interval |-> 2, snapshot |-> 5,
      tables |-> [t \in 1..2 |-> InBlocks({k \in Entries : f[k] = t + 1})],
      adds |-> {Key(<<1>>, 7, TRUE), Key(<<1, 3>>, 8, FALSE)}] : f \in Places}
MCUserKeys == {<<0>>, <<1>>, <<1, 2>>, <<2>>}

-----------------------------------------------------------------------------
(* LRUCache: room for three tables, and for fewer than are of their size.  *)

MCCacheWorlds ==
    {[capacity |-> 3, length |-> 2, charge |-> [k \in CacheKeys |-> 1]],
     [capacity |-> 2, length |-> 1, charge |-> [k \in CacheKeys |-> IF k = 0 THEN 2 ELSE 1]]}
=============================================================================
