----------------------------- MODULE BlockFiles -----------------------------
(***************************************************************************)
(* Where blocks are kept (main.cpp, txdb.cpp, init.cpp): the blk and rev   *)
(* files, the index of blocks in memory and in the block tree database,    *)
(* the chainstate's best block, FlushStateToDisk and its order of writes,  *)
(* pruning, a crash at any point, loading and verifying at the next start, *)
(* and rebuilding the index from the blk files.                            *)
(*                                                                         *)
(* A block takes one place in a blk file and its undo data one in the rev  *)
(* file of the same number; place 1 is the first.  A write to a file can   *)
(* be lost with the machine until FileCommit.  Blocks are valid; which of  *)
(* them arrive, in which order, and when the caches are full is free.      *)
(***************************************************************************)
EXTENDS Naturals, FiniteSets, SequencesExt, FiniteSetsExt

CONSTANTS
    Parent,              \* block -> its parent; the genesis block 0 is not in the domain
    MAX_BLOCKFILE_SIZE,  \* places in a file
    MIN_BLOCKS_TO_KEEP, checkblocks, MaxFile,
    Worlds,              \* [blocks, prune, crashes, reindex, watch]: the blocks there are, fPruneMode, how many
                         \* crashes, whether the user may rebuild, and whether volatile is recorded
    None

AllBlocks == {0} \cup DOMAIN Parent
Files  == 0..MaxFile

VARIABLES
    world,
    phase,      \* "up", "importing" (ThreadImport with fReindex), "down"
    index,      \* mapBlockIndex: block -> [known, tx, file, pos, undo]
    info,       \* vinfoBlockFile: file -> [nSize, nUndoSize, nHeightLast]
    nLastBlockFile, setDirtyBlockIndex, setDirtyFileInfo,
    fCheckForPruning,
    tip,        \* the block of chainActive and of pcoinsTip
    flush,      \* FlushStateToDisk: [pc, full, prune]
    import,     \* LoadExternalBlockFile: [file, pos, unknown]
    \* On disk.
    blk, rev,   \* file -> sequence of what its places hold, or None
    volatile,   \* places that were written and not committed: <<"blk" or "rev", file, pos>>
    db,         \* the block tree database: [index, info, last, reindex, pruned]
    coins       \* the best block of the chainstate database

vars == <<world, phase, index, info, nLastBlockFile, setDirtyBlockIndex, setDirtyFileInfo, fCheckForPruning,
          tip, flush, import, blk, rev, volatile, db, coins>>
memVars == <<index, info, nLastBlockFile, setDirtyBlockIndex, setDirtyFileInfo, fCheckForPruning>>

NoEntry  == [known |-> FALSE, tx |-> FALSE, file |-> None, pos |-> 0, undo |-> None]
NoInfo   == [nSize |-> 0, nUndoSize |-> 0, nHeightLast |-> 0]
NoFlush  == [pc |-> "idle", full |-> FALSE, prune |-> {}]
NoImport == [file |-> 0, pos |-> 1, unknown |-> {}]

HaveData(ix, b) == ix[b].file # None
Height[b \in AllBlocks] == IF b = 0 THEN 0 ELSE Height[Parent[b]] + 1
Ancestors[b \in AllBlocks] == IF b = 0 THEN {0} ELSE Ancestors[Parent[b]] \cup {b}
ActiveChain == IF tip = None THEN {} ELSE Ancestors[tip]
Work(b) == IF b = None THEN 0 ELSE Height[b] + 1

-----------------------------------------------------------------------------
(* Files.                                                                  *)

Put(s, pos, b) == [i \in 1..Max({pos, IF s = None THEN 0 ELSE Len(s)}) |-> IF i = pos THEN b ELSE s[i]]
ReadAt(files, f, pos) == IF files[f] = None THEN None ELSE IF pos \in DOMAIN files[f] THEN files[f][pos] ELSE None
ReadBlockFromDisk(ix, b) == ix[b].file # None /\ ReadAt(blk, ix[b].file, ix[b].pos) = b
UndoReadFromDisk(ix, b) == ix[b].undo # None /\ ReadAt(rev, ix[b].file, ix[b].undo) = b

Written(kind, f, pos) == IF world.watch THEN {<<kind, f, pos>>} ELSE {}

\* FileCommit of the last block file and of its undo file.
Committed(f) == {p \in volatile : p[2] # f}

\* FlushBlockFile(true) also cuts off what was allocated in advance.
Truncated(files, f, n) == [files EXCEPT ![f] = IF @ = None THEN None ELSE SubSeq(@, 1, Min({n, Len(@)}))]

\* AddBlock and nSize for a block at a known place, or for one that is appended.
AddBlock(i, b, size) == [i EXCEPT !.nSize = size, !.nHeightLast = Max({@, Height[b]})]

FindBlockPos == CHOOSE f \in Files : /\ f >= nLastBlockFile /\ info[f].nSize < MAX_BLOCKFILE_SIZE
                                     /\ \A g \in nLastBlockFile..(f - 1) : info[g].nSize >= MAX_BLOCKFILE_SIZE
RoomLeft == \E f \in Files : f >= nLastBlockFile /\ info[f].nSize < MAX_BLOCKFILE_SIZE

\* ReceivedBlockTransactions.
Received(ix, b, f, pos) == [ix EXCEPT ![b] = [@ EXCEPT !.known = TRUE, !.tx = TRUE, !.file = f, !.pos = pos, !.undo = None]]

\* AcceptBlock: the block goes to the end of the last file, or of the first later one with
\* room, and in prune mode the new space calls for pruning.  Pruned blocks of the active
\* chain are never asked for again.  AcceptBlock(0) is InitBlockIndex.
AcceptBlock(b) ==
    /\ phase = "up" /\ flush.pc = "idle" /\ b \in world.blocks /\ ~HaveData(index, b)
    /\ b \notin ActiveChain
    /\ (b # 0 => index[Parent[b]].known) /\ RoomLeft
    /\ LET f   == FindBlockPos
           pos == info[f].nSize + 1
           old == nLastBlockFile
       IN /\ blk' = [Truncated(blk, old, IF f # old THEN info[old].nSize ELSE MAX_BLOCKFILE_SIZE)
                        EXCEPT ![f] = Put(@, pos, b)]
          /\ rev' = Truncated(rev, old, IF f # old THEN info[old].nUndoSize ELSE MAX_BLOCKFILE_SIZE)
          /\ volatile' = (IF f # old THEN Committed(old) ELSE volatile) \cup Written("blk", f, pos)
          /\ info' = [info EXCEPT ![f] = AddBlock(@, b, pos)]
          /\ nLastBlockFile' = f
          /\ setDirtyFileInfo' = setDirtyFileInfo \cup {f}
          /\ index' = Received(index, b, f, pos)
          /\ setDirtyBlockIndex' = setDirtyBlockIndex \cup {b}
    /\ fCheckForPruning' = (fCheckForPruning \/ world.prune)
    /\ UNCHANGED <<world, phase, tip, flush, import, db, coins>>

\* AcceptBlockHeader of a block whose data comes later.
AcceptBlockHeader(b) ==
    /\ phase = "up" /\ flush.pc = "idle" /\ b \in world.blocks \ {0} /\ ~index[b].known /\ index[Parent[b]].known
    /\ index' = [index EXCEPT ![b].known = TRUE]
    /\ setDirtyBlockIndex' = setDirtyBlockIndex \cup {b}
    /\ UNCHANGED <<world, phase, info, nLastBlockFile, setDirtyFileInfo, fCheckForPruning, tip, flush, import, blk, rev, volatile, db, coins>>

\* A block whose chain from the tip's on is all there, with more work than the tip.
Better(b) == /\ Work(b) > Work(tip)
             /\ \A a \in Ancestors[b] \ ActiveChain : HaveData(index, a)

\* ConnectBlock writes the undo data next to the block, in the file of the same number.
ConnectTip(b) ==
    /\ phase # "down" /\ flush.pc = "idle"
    /\ IF b = 0 THEN tip = None ELSE tip # None /\ Parent[b] = tip
    /\ \E best \in AllBlocks : Better(best) /\ b \in Ancestors[best]
    /\ ReadBlockFromDisk(index, b)
    /\ tip' = b
    /\ IF b = 0 \/ index[b].undo # None
       THEN UNCHANGED <<index, info, setDirtyBlockIndex, setDirtyFileInfo, rev, volatile, fCheckForPruning>>
       ELSE LET f   == index[b].file
                pos == info[f].nUndoSize + 1
            IN /\ rev' = [rev EXCEPT ![f] = Put(@, pos, b)]
               /\ volatile' = volatile \cup Written("rev", f, pos)
               /\ info' = [info EXCEPT ![f].nUndoSize = pos]
               /\ index' = [index EXCEPT ![b].undo = pos]
               /\ setDirtyBlockIndex' = setDirtyBlockIndex \cup {b}
               /\ setDirtyFileInfo' = setDirtyFileInfo \cup {f}
               /\ fCheckForPruning' = (fCheckForPruning \/ world.prune)
    /\ UNCHANGED <<world, phase, nLastBlockFile, flush, import, blk, db, coins>>

\* On the way to a better chain: DisconnectBlock reads the block and its undo data.
DisconnectTip ==
    /\ phase # "down" /\ flush.pc = "idle" /\ tip # None /\ tip # 0
    /\ \E best \in AllBlocks : Better(best) /\ tip \notin Ancestors[best]
    /\ ReadBlockFromDisk(index, tip) /\ UndoReadFromDisk(index, tip)
    /\ tip' = Parent[tip]
    /\ UNCHANGED <<world, phase, memVars, flush, import, blk, rev, volatile, db, coins>>

-----------------------------------------------------------------------------
(* Pruning and FlushStateToDisk.                                           *)

\* Files FindFilesToPrune may choose: in order, until the target is met, those with no
\* block near the tip.
Prunable ==
    {f \in Files : f < nLastBlockFile /\ info[f].nSize > 0 /\ info[f].nHeightLast + MIN_BLOCKS_TO_KEEP <= Height[tip]}

FilesToPrune == {{g \in Prunable : g <= f} : f \in Prunable} \cup {{}}

\* A full flush that forgets the index.
FlushCoinsFirst(mode) ==
    /\ phase # "down" /\ flush.pc = "idle" /\ tip # None
    /\ \E prune \in IF world.prune /\ fCheckForPruning /\ phase = "up" THEN FilesToPrune ELSE {{}} :
          LET gone == {b \in AllBlocks : index[b].file \in prune}
          IN /\ index' = [b \in AllBlocks |-> IF b \in gone THEN [index[b] EXCEPT !.file = None, !.pos = 0, !.undo = None] ELSE index[b]]
             /\ info' = [f \in Files |-> IF f \in prune THEN NoInfo ELSE info[f]]
             /\ setDirtyBlockIndex' = setDirtyBlockIndex \cup gone
             /\ setDirtyFileInfo' = setDirtyFileInfo \cup prune
             /\ db' = [db EXCEPT !.pruned = @ \/ prune # {}]
             /\ fCheckForPruning' = (fCheckForPruning /\ ~(world.prune /\ phase = "up"))
             /\ flush' = IF prune = {} /\ mode = "none" THEN NoFlush
                         ELSE [pc |-> IF mode = "full" THEN "coins" ELSE "index", full |-> mode = "full" \/ prune # {}, prune |-> prune]
    /\ UNCHANGED <<world, phase, nLastBlockFile, tip, import, blk, rev, volatile, coins>>

\* FlushStateToDisk up to the first write.  Whether the cache is too big or it is time to
\* write is free: mode is "full", "write" (the index only) or "none".  Files to prune make it
\* a full flush.
FlushStateToDisk(mode) ==
    /\ phase # "down" /\ flush.pc = "idle" /\ tip # None
    /\ \E prune \in IF world.prune /\ fCheckForPruning /\ phase = "up" THEN FilesToPrune ELSE {{}} :
          LET gone == {b \in AllBlocks : index[b].file \in prune}
          IN /\ index' = [b \in AllBlocks |-> IF b \in gone THEN [index[b] EXCEPT !.file = None, !.pos = 0, !.undo = None] ELSE index[b]]
             /\ info' = [f \in Files |-> IF f \in prune THEN NoInfo ELSE info[f]]
             /\ setDirtyBlockIndex' = setDirtyBlockIndex \cup gone
             /\ setDirtyFileInfo' = setDirtyFileInfo \cup prune
             /\ db' = [db EXCEPT !.pruned = @ \/ prune # {}]
             /\ fCheckForPruning' = (fCheckForPruning /\ ~(world.prune /\ phase = "up"))
             /\ flush' = IF prune = {} /\ mode = "none" THEN NoFlush
                         ELSE [pc |-> "index", full |-> mode = "full" \/ prune # {}, prune |-> prune]
    /\ UNCHANGED <<world, phase, nLastBlockFile, tip, import, blk, rev, volatile, coins>>

\* FlushBlockFile, then everything dirty in one synced batch.
WriteBatchSync ==
    /\ flush.pc = "index"
    /\ volatile' = Committed(nLastBlockFile)
    /\ db' = [db EXCEPT !.index = [b \in AllBlocks |-> IF b \in setDirtyBlockIndex THEN index[b] ELSE @[b]],
                        !.info  = [f \in Files |-> IF f \in setDirtyFileInfo THEN info[f] ELSE @[f]],
                        !.last  = nLastBlockFile]
    /\ setDirtyBlockIndex' = {} /\ setDirtyFileInfo' = {}
    /\ flush' = IF flush.prune # {} THEN [flush EXCEPT !.pc = "unlink"]
                ELSE IF flush.full THEN [flush EXCEPT !.pc = "coins"] ELSE NoFlush
    /\ UNCHANGED <<world, phase, index, info, nLastBlockFile, fCheckForPruning, tip, import, blk, rev, coins>>

UnlinkPrunedFiles ==
    /\ flush.pc = "unlink"
    /\ LET f == Min(flush.prune)
       IN /\ blk' = [blk EXCEPT ![f] = None]
          /\ rev' = [rev EXCEPT ![f] = None]
          /\ volatile' = Committed(f)
          /\ flush' = [flush EXCEPT !.prune = @ \ {f}, !.pc = IF flush.prune = {f} THEN "coins" ELSE @]
    /\ UNCHANGED <<world, phase, memVars, tip, import, db, coins>>

\* pcoinsTip->Flush.
FlushCoins ==
    /\ flush.pc = "coins"
    /\ coins' = tip
    /\ flush' = NoFlush
    /\ UNCHANGED <<world, phase, memVars, tip, import, blk, rev, volatile, db>>

-----------------------------------------------------------------------------
(* Crash, start, and -reindex.                                             *)

Crash ==
    /\ phase # "down" /\ world.crashes > 0
    /\ world' = [world EXCEPT !.crashes = @ - 1]
    /\ phase' = "down"
    /\ index' = [b \in AllBlocks |-> NoEntry] /\ info' = [f \in Files |-> NoInfo]
    /\ nLastBlockFile' = 0 /\ setDirtyBlockIndex' = {} /\ setDirtyFileInfo' = {} /\ fCheckForPruning' = FALSE
    /\ tip' = None /\ flush' = NoFlush /\ import' = NoImport
    /\ UNCHANGED <<blk, rev, volatile, db, coins>>

\* LoadBlockIndexDB: every file that the index names is there.
LoadBlockIndexDB == \A b \in AllBlocks : HaveData(db.index, b) => blk[db.index[b].file] # None

\* The blocks that VerifyDB reads, back from the best block: their data, their undo data if
\* the index knows of any, and undoing them must work.
Verified == IF coins = None THEN {} ELSE {a \in Ancestors[coins] \ {0} : Height[a] >= Height[coins] - checkblocks}
VerifyDB == \A a \in Verified : ReadBlockFromDisk(db.index, a) /\ UndoReadFromDisk(db.index, a)

\* The files LoadBlockIndexDB reads the information of: up to the last, and on while there is any.
KnownFiles == {f \in Files : f <= db.last \/ \A g \in (db.last + 1)..f : db.info[g] # NoInfo}

\* AppInit2: load, verify, prune and go on with an interrupted import.
Start ==
    /\ phase = "down" /\ LoadBlockIndexDB /\ VerifyDB
    /\ index' = db.index /\ nLastBlockFile' = db.last
    /\ info' = [f \in Files |-> IF f \in KnownFiles THEN db.info[f] ELSE NoInfo]
    /\ tip' = coins
    /\ fCheckForPruning' = (world.prune /\ ~db.reindex)
    /\ phase' = IF db.reindex THEN "importing" ELSE "up"
    /\ UNCHANGED <<world, setDirtyBlockIndex, setDirtyFileInfo, flush, import, blk, rev, volatile, db, coins>>

\* CleanupBlockRevFiles: in prune mode only the blk files before the first gap are of use.
Contiguous == {f \in Files : \A g \in 0..f : blk[g] # None}

\* Start with -reindex: both databases are wiped.
Reindex ==
    /\ phase = "down" /\ world.reindex
    /\ world' = [world EXCEPT !.reindex = FALSE]
    /\ db' = [index |-> [b \in AllBlocks |-> NoEntry], info |-> [f \in Files |-> NoInfo], last |-> 0, reindex |-> TRUE, pruned |-> FALSE]
    /\ coins' = None
    /\ IF world.prune
       THEN /\ blk' = [f \in Files |-> IF f \in Contiguous THEN blk[f] ELSE None]
            /\ rev' = [f \in Files |-> None]
       ELSE UNCHANGED <<blk, rev>>
    /\ index' = db'.index /\ info' = db'.info /\ nLastBlockFile' = 0
    /\ fCheckForPruning' = FALSE /\ tip' = None
    /\ phase' = "importing"
    /\ UNCHANGED <<setDirtyBlockIndex, setDirtyFileInfo, flush, import, volatile>>

\* ProcessNewBlock for a block that is already in a file: s is [index, info, last, dirty, files,
\* volatile]; leaving a file commits it, and does not cut it.
Process(s, b, f, pos) ==
    IF HaveData(s.index, b) THEN s
    ELSE [index |-> Received(s.index, b, f, pos),
          info  |-> [s.info EXCEPT ![f] = AddBlock(@, b, Max({pos, @.nSize}))],
          last  |-> f, dirty |-> s.dirty \cup {b}, files |-> s.files \cup {f},
          volatile |-> IF f # s.last THEN {p \in s.volatile : p[2] # s.last} ELSE s.volatile]

ChildrenOnly(unknown, b) == {u \in unknown : Parent[u[1]] = b}

\* The blocks found earlier whose parent is now known, with theirs in turn.
Successors(unknown, b) ==
    LET reach[n \in 0..Cardinality(AllBlocks)] ==
            IF n = 0 THEN {b}
            ELSE reach[n - 1] \cup {u[1] : u \in {v \in unknown : Parent[v[1]] \in reach[n - 1]}}
    IN {u \in unknown : Parent[u[1]] \in reach[Cardinality(AllBlocks)]}

ByHeight(S) == SetToSortSeq(S, LAMBDA u, v : <<Height[u[1]], u[2], u[3]>> # <<Height[v[1]], v[2], v[3]>>
                                             /\ \/ Height[u[1]] < Height[v[1]]
                                                \/ Height[u[1]] = Height[v[1]] /\ (u[2] < v[2] \/ (u[2] = v[2] /\ u[3] < v[3])))

\* LoadExternalBlockFile: the next place of the file.
LoadExternalBlockFile ==
    /\ phase = "importing" /\ flush.pc = "idle" /\ blk[import.file] # None
    /\ \A b \in AllBlocks : ~Better(b)
    /\ IF import.pos \notin DOMAIN blk[import.file]
       THEN /\ import' = [import EXCEPT !.file = @ + 1, !.pos = 1]
            /\ UNCHANGED <<index, info, nLastBlockFile, setDirtyBlockIndex, setDirtyFileInfo, volatile>>
       ELSE LET b == blk[import.file][import.pos]
                s == [index |-> index, info |-> info, last |-> nLastBlockFile, dirty |-> setDirtyBlockIndex, files |-> setDirtyFileInfo,
                      volatile |-> volatile]
            IN IF b # 0 /\ ~index[Parent[b]].known
               THEN /\ import' = [import EXCEPT !.pos = @ + 1, !.unknown = @ \cup {<<b, import.file, import.pos>>}]
                    /\ UNCHANGED <<index, info, nLastBlockFile, setDirtyBlockIndex, setDirtyFileInfo, volatile>>
               ELSE LET next == Successors(import.unknown, b)
                        t    == FoldLeft(LAMBDA a, u : Process(a, u[1], u[2], u[3]),
                                         Process(s, b, import.file, import.pos), ByHeight(next))
                    IN /\ index' = t.index /\ info' = t.info /\ nLastBlockFile' = t.last
                       /\ setDirtyBlockIndex' = t.dirty /\ setDirtyFileInfo' = t.files
                       /\ volatile' = t.volatile
                       /\ import' = [import EXCEPT !.pos = @ + 1, !.unknown = @ \ next]
    /\ UNCHANGED <<world, phase, fCheckForPruning, tip, flush, blk, rev, db, coins>>

\* ThreadImport: no file left.  InitBlockIndex then finds the genesis block, or adds it.
FinishImport ==
    /\ phase = "importing" /\ flush.pc = "idle" /\ blk[import.file] = None
    /\ \A b \in AllBlocks : ~Better(b)
    /\ db' = [db EXCEPT !.reindex = FALSE]
    /\ phase' = "up"
    /\ import' = NoImport
    /\ UNCHANGED <<world, memVars, tip, flush, blk, rev, volatile, coins>>

\* InitBlockIndex: an empty database gets the genesis block, connected and flushed.
Init ==
    /\ world \in Worlds
    /\ phase = "up"
    /\ index = [b \in AllBlocks |-> IF b = 0 THEN [known |-> TRUE, tx |-> TRUE, file |-> 0, pos |-> 1, undo |-> None] ELSE NoEntry]
    /\ info = [f \in Files |-> IF f = 0 THEN [nSize |-> 1, nUndoSize |-> 0, nHeightLast |-> 0] ELSE NoInfo]
    /\ nLastBlockFile = 0 /\ setDirtyBlockIndex = {} /\ setDirtyFileInfo = {} /\ fCheckForPruning = FALSE
    /\ tip = 0 /\ flush = NoFlush /\ import = NoImport
    /\ blk = [f \in Files |-> IF f = 0 THEN <<0>> ELSE None]
    /\ rev = [f \in Files |-> None]
    /\ volatile = {}
    /\ db = [index |-> index, info |-> info, last |-> 0, reindex |-> FALSE, pruned |-> FALSE]
    /\ coins = 0

Next ==
    \/ \E b \in AllBlocks : AcceptBlock(b) \/ AcceptBlockHeader(b) \/ ConnectTip(b)
    \/ DisconnectTip
    \/ \E mode \in {"none", "write", "full"} : FlushStateToDisk(mode)
    \/ WriteBatchSync \/ UnlinkPrunedFiles \/ FlushCoins
    \/ Crash \/ Start \/ Reindex \/ LoadExternalBlockFile \/ FinishImport

Spec == Init /\ [][Next]_vars

-----------------------------------------------------------------------------
(* Properties.                                                             *)

Points(ix) == \A b \in AllBlocks : /\ HaveData(ix, b) => ReadBlockFromDisk(ix, b)
                                /\ ix[b].undo # None => UndoReadFromDisk(ix, b)

\* Whatever the index says of a block's place, in memory and in the database, that place
\* holds that block and its undo data: no block is written over another, and a database
\* that is older than the files still fits them.  Between the index write and the unlinking
\* of pruned files no entry points into them any more.
IndexPointsAtItsBlock == Points(index) /\ Points(db.index)

\* At every moment a restart would load.  What VerifyDB can miss is only a block that was
\* pruned: pruning unlinks files before it writes the chainstate.
RestartSucceeds ==
    /\ LoadBlockIndexDB
    /\ coins # None => db.index[coins].known
    /\ \A a \in Verified : (ReadBlockFromDisk(db.index, a) /\ UndoReadFromDisk(db.index, a))
                              \/ (db.pruned /\ ~HaveData(db.index, a))

\* FlushStateToDisk: "First make sure all block and undo data is flushed to disk."  What the
\* synced index names has been committed.
IndexedIsOnDisk ==
    \A b \in AllBlocks : HaveData(db.index, b) =>
        /\ <<"blk", db.index[b].file, db.index[b].pos>> \notin volatile
        /\ db.index[b].undo # None => <<"rev", db.index[b].file, db.index[b].undo>> \notin volatile

\* init.cpp expects VerifyDB to run out of blocks only with -checkblocks above
\* MIN_BLOCKS_TO_KEEP: after a completed flush, what it would read has not been pruned.
VerifiableAfterPruning ==
    phase = "up" /\ flush.pc = "idle" /\ coins = tip /\ checkblocks <= MIN_BLOCKS_TO_KEEP
        => \A a \in Verified : HaveData(db.index, a)

\* When an import ends, every block of the files up to the first gap whose ancestors are
\* there as well is in the index again, however the files are ordered and interrupted.
Importable == {b \in AllBlocks : \A a \in Ancestors[b] : \E f \in Contiguous : a \in Range(blk[f])}
FindsEverything == FinishImport => \A b \in Importable : HaveData(index', b)
ReindexFindsEverything == [][FindsEverything]_vars

=============================================================================
