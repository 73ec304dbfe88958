------------------------------ MODULE LevelDB ------------------------------
(***************************************************************************)
(* LevelDB (leveldb/db), the store under the chainstate and the block      *)
(* tree: the write-ahead log, the memtables, tables in levels, background  *)
(* compaction, the MANIFEST, deletion of obsolete files, and recovery      *)
(* after the process or the machine has died.                              *)
(*                                                                         *)
(* An internal key is [key, seq, del]: a user key, the sequence number of  *)
(* the write, and whether it deletes.  The value is not modelled: its      *)
(* sequence number names it.  A table is the set of its entries.  Bytes    *)
(* (of files, of the overlap with the grandparents, of outputs) and seek   *)
(* counts only decide when and where to compact, so those decisions are    *)
(* free.  The program takes no snapshots and never calls CompactRange, so  *)
(* neither is modelled, and a compaction's smallest snapshot is the last   *)
(* sequence number.  A step that holds the mutex is one action; sections   *)
(* that release it, and writes that a crash can separate, are steps of     *)
(* their own.  The Write here is the one at the front of the queue: module *)
(* LevelDBWriters has the queue.                                           *)
(***************************************************************************)
EXTENDS Naturals, FiniteSets, SequencesExt, FiniteSetsExt

CONSTANTS
    Keys,               \* user keys, as numbers in the order of the comparator
    kNumLevels, kMaxMemCompactLevel, kL0_StopWritesTrigger,
    Worlds,             \* [todo |-> the writes to come, write_buffer_size |-> in entries,
                        \*  and how many faults, crashes and iterators there may be]
    None

VARIABLES
    \* Files.
    logs,       \* number -> [recs |-> sequence of batches with their sequence number, synced |-> how many are on disk for sure]
    tables,     \* number -> set of entries
    manifests,  \* number -> [synced |-> the version it describes for sure, tail |-> edits that are not synced]
    CURRENT,    \* the manifest that CURRENT names
    \* VersionSet and DBImpl.
    opened,     \* "open", "down", or how far DB::Open has come: "recovered", "described"
    files,      \* current_->files_: level -> set of table numbers
    next_file_number, last_sequence, log_number, manifest_file_number,
    mem, imm, logfile_number,
    pending_outputs, bg_error,
    edit,       \* the VersionEdit that is being logged, or None
    writer,     \* the writer at the front of the queue
    memc,       \* CompactMemTable's progress
    comp,       \* the Compaction in progress, or None
    iters,      \* iterators: [files, base, want]
    \* Observation.
    written,    \* the writes in effect: [log, seq, batch]
    promised,   \* those whose Write returned OK with sync set
    world       \* the writes that are still to come, and the faults and crashes left

fileVars   == <<logs, tables, manifests, CURRENT>>
setVars    == <<files, next_file_number, last_sequence, log_number, manifest_file_number>>
memVars    == <<mem, imm, logfile_number>>
threadVars == <<pending_outputs, bg_error, edit, writer, memc, comp, iters>>
ghostVars  == <<written, promised, world>>
vars       == <<fileVars, setVars, memVars, threadVars, ghostVars, opened>>

Levels     == 0..(kNumLevels - 1)
NoFiles    == [l \in Levels |-> {}]
NoVersion  == [files |-> NoFiles, log |-> None, next |-> None, last |-> None]
IdleWriter == [pc |-> "idle", batch |-> <<>>, sync |-> FALSE]
IdleMemc   == [pc |-> "idle", number |-> 0]

-----------------------------------------------------------------------------
(* Internal keys: by user key, then the newest first.                      *)

IKeyLess(a, b) == a.key < b.key \/ (a.key = b.key /\ a.seq > b.seq)
Smallest(t) == CHOOSE e \in t : \A o \in t \ {e} : IKeyLess(e, o)
Largest(t)  == CHOOSE e \in t : \A o \in t \ {e} : IKeyLess(o, e)

\* An operation of the environment fails.
Fault == world.faults > 0 /\ world' = [world EXCEPT !.faults = @ - 1]

InsertInto(first, batch) ==
    {[key |-> batch[i].key, seq |-> first + i - 1, del |-> batch[i].del] : i \in DOMAIN batch}

\* The first entry at or after the lookup key (k, s), if it is one of k: the newest one that
\* a reader at sequence number s may see.
Seek(t, k, s) ==
    LET visible == {e \in t : e.key = k /\ e.seq <= s}
    IN IF visible = {} THEN None ELSE Smallest(visible)

Answer(e) == IF e = None THEN None ELSE IF e.del THEN None ELSE e.seq

-----------------------------------------------------------------------------
(* A Version: reading it, and the overlaps that decide where tables go.    *)

InRange(n, k) == Smallest(tables[n]).key <= k /\ k <= Largest(tables[n]).key
NewestFirst(S) == SetToSortSeq(S, >)

\* FindFile: of the sorted files of a level, the first whose largest key is not before (k, s).
FindFile(S, k, s) ==
    LET after == {n \in S : ~IKeyLess(Largest(tables[n]), [key |-> k, seq |-> s])}
    IN IF after = {} THEN None
       ELSE CHOOSE n \in after : \A m \in after \ {n} : IKeyLess(Largest(tables[n]), Largest(tables[m]))

LevelGet(v, l, k, s) ==
    IF l = 0
    THEN LET found == SelectSeq(NewestFirst({n \in v[0] : InRange(n, k)}),
                                LAMBDA n : Seek(tables[n], k, s) # None)
         IN IF found = <<>> THEN None ELSE Seek(tables[Head(found)], k, s)
    ELSE LET n == FindFile(v[l], k, s)
         IN IF n = None THEN None
            ELSE IF k < Smallest(tables[n]).key THEN None ELSE Seek(tables[n], k, s)

VersionGet(v, k, s) ==
    LET found == {l \in Levels : LevelGet(v, l, k, s) # None}
    IN IF found = {} THEN None ELSE LevelGet(v, Min(found), k, s)

\* DBImpl::Get at the sequence number s.
Get(k, s) ==
    LET m == Seek(mem, k, s)
        i == IF imm = None THEN None ELSE Seek(imm, k, s)
    IN Answer(IF m # None THEN m ELSE IF i # None THEN i ELSE VersionGet(files, k, s))

\* Files of a level whose user keys meet the range of the tables in S.
Overlapping(l, S) ==
    LET lo == Min({Smallest(tables[n]).key : n \in S})
        hi == Max({Largest(tables[n]).key : n \in S})
    IN {m \in files[l] : Smallest(tables[m]).key <= hi /\ Largest(tables[m]).key >= lo}

\* At level 0 a file that extends the range restarts the search.
GetOverlappingInputs(l, S) ==
    LET wider[i \in 0..Cardinality(files[0])] ==
            IF i = 0 THEN Overlapping(l, S) ELSE Overlapping(l, wider[i - 1] \cup S)
    IN IF l = 0 THEN wider[Cardinality(files[0])] ELSE Overlapping(l, S)

OverlapInLevel(l, t) ==
    \E n \in files[l] : /\ Smallest(tables[n]).key <= Largest(t).key
                        /\ Largest(tables[n]).key >= Smallest(t).key

\* The levels that PickLevelForMemTableOutput may choose for the table t; how many bytes of
\* the grandparents overlap may stop it at any of them.
PickLevelForMemTableOutput(t) ==
    {l \in 0..kMaxMemCompactLevel : l = 0 \/ \A j \in 0..l : ~OverlapInLevel(j, t)}

-----------------------------------------------------------------------------
(* The MANIFEST and obsolete files.                                        *)

Apply(v, e) == [l \in Levels |-> {n \in v[l] : <<l, n>> \notin e.del} \cup {n \in DOMAIN e.level : e.level[n] = l}]
Replay(m) == FoldLeft(LAMBDA s, e : [files |-> Apply(s.files, e), log |-> e.log, next |-> e.next, last |-> e.last],
                      m.synced, m.tail)
Edit(add, del, log, next) == [level |-> add, del |-> del, log |-> log, next |-> next, last |-> last_sequence]

FilesOf(v) == UNION {v[l] : l \in Levels}

\* The tables of the current version v and of those that iterators and a compaction refer to.
LiveFiles(v, c) ==
    FilesOf(v) \cup UNION {FilesOf(it.files) : it \in iters}
        \cup (IF c = None THEN {} ELSE FilesOf(c.input_version))

\* DeleteObsoleteFiles keeps the tables that are live or being written, and the logs and
\* MANIFESTs from the current numbers on.  After a background error nothing is deleted: it
\* is not known which version the MANIFEST describes.
Keep(f, S) == [n \in DOMAIN f \cap S |-> f[n]]

DeleteObsoleteFiles(tabs, live, log, mans) ==
    IF bg_error THEN tables' = tabs /\ manifests' = mans /\ UNCHANGED logs
    ELSE /\ tables' = Keep(tabs, live)
         /\ logs' = Keep(logs, {n \in DOMAIN logs : n >= log})
         /\ manifests' = Keep(mans, {n \in DOMAIN mans : n >= manifest_file_number})

-----------------------------------------------------------------------------
(* Write.                                                                  *)

Room == Cardinality(mem) <= world.write_buffer_size

\* MakeRoomForWrite switches to a new log and memtable when the memtable is full, and waits
\* while the old one is being compacted or level 0 has too many files.
Switch ==
    /\ ~Room /\ imm = None /\ Cardinality(files[0]) < kL0_StopWritesTrigger
    /\ logfile_number' = next_file_number
    /\ next_file_number' = next_file_number + 1
    /\ logs' = [n \in DOMAIN logs \cup {next_file_number} |-> IF n = next_file_number THEN [recs |-> <<>>, synced |-> 0] ELSE logs[n]]
    /\ imm' = mem
    /\ mem' = {}

\* The writer at the front of the queue, up to the point where it releases the mutex.
Write ==
    /\ opened = "open" /\ writer.pc = "idle" /\ ~bg_error
    /\ world.todo # <<>>
    /\ \/ Room /\ UNCHANGED <<logs, next_file_number, mem, imm, logfile_number>>
       \/ Switch
    /\ writer' = [pc |-> "log", batch |-> Head(world.todo).batch, sync |-> Head(world.todo).sync]
    /\ world' = [world EXCEPT !.todo = Tail(@)]
    /\ UNCHANGED <<tables, manifests, CURRENT, files, last_sequence, log_number, manifest_file_number>>
    /\ UNCHANGED <<pending_outputs, bg_error, edit, memc, comp, iters, written, promised, opened>>

AddRecordOnly ==
    /\ opened = "open" /\ writer.pc = "log"
    /\ logs' = [logs EXCEPT ![logfile_number].recs =
                    Append(@, [seq |-> last_sequence + 1, batch |-> writer.batch])]
    /\ writer' = [writer EXCEPT !.pc = "insert"]
    /\ UNCHANGED <<tables, manifests, CURRENT, setVars, memVars, pending_outputs, bg_error, edit, memc, comp, iters, ghostVars, opened>>

\* log_->AddRecord.
AddRecord ==
    /\ opened = "open" /\ writer.pc = "log"
    /\ logs' = [logs EXCEPT ![logfile_number].recs =
                    Append(@, [seq |-> last_sequence + 1, batch |-> writer.batch])]
    /\ writer' = [writer EXCEPT !.pc = IF writer.sync THEN "sync" ELSE "insert"]
    /\ UNCHANGED <<tables, manifests, CURRENT, setVars, memVars, pending_outputs, bg_error, edit, memc, comp, iters, ghostVars, opened>>

\* logfile_->Sync.  When it fails the log is in an unknown state and no write is accepted any more.
SyncLog ==
    /\ opened = "open" /\ writer.pc = "sync"
    /\ \/ /\ logs' = [logs EXCEPT ![logfile_number].synced = Len(logs[logfile_number].recs)]
          /\ writer' = [writer EXCEPT !.pc = "insert"]
          /\ UNCHANGED <<bg_error, world, last_sequence>>
       \/ /\ Fault
          /\ bg_error' = TRUE
          /\ last_sequence' = last_sequence + Len(writer.batch)
          /\ writer' = IdleWriter
          /\ UNCHANGED logs
    /\ UNCHANGED <<tables, manifests, CURRENT, files, next_file_number, log_number, manifest_file_number, memVars>>
    /\ UNCHANGED <<pending_outputs, edit, memc, comp, iters, written, promised, opened>>

\* InsertInto the memtable, then, with the mutex again, SetLastSequence and the reply.
InsertAndReply ==
    /\ opened = "open" /\ writer.pc = "insert"
    /\ mem' = mem \cup InsertInto(last_sequence + 1, writer.batch)
    /\ LET w == [log |-> logfile_number, seq |-> last_sequence + 1, batch |-> writer.batch]
       IN /\ written' = written \cup {w}
          /\ promised' = IF writer.sync THEN promised \cup {w} ELSE promised
    /\ last_sequence' = last_sequence + Len(writer.batch)
    /\ writer' = IdleWriter
    /\ UNCHANGED <<fileVars, files, next_file_number, log_number, manifest_file_number, imm, logfile_number>>
    /\ UNCHANGED <<pending_outputs, bg_error, edit, memc, comp, iters, world, opened>>

-----------------------------------------------------------------------------
(* CompactMemTable, in a background call or in the middle of a compaction. *)

BackgroundIdle == edit = None /\ memc.pc = "idle"

\* WriteLevel0Table takes a number and protects it, then releases the mutex.
CompactMemTable ==
    /\ opened = "open" /\ imm # None /\ ~bg_error /\ BackgroundIdle
    /\ comp # None => comp.pc \in {"work", "install"}
    /\ memc' = [pc |-> "build", number |-> next_file_number]
    /\ pending_outputs' = pending_outputs \cup {next_file_number}
    /\ next_file_number' = next_file_number + 1
    /\ UNCHANGED <<fileVars, files, last_sequence, log_number, manifest_file_number, memVars>>
    /\ UNCHANGED <<bg_error, edit, writer, comp, iters, ghostVars, opened>>

\* BuildTable, and with the mutex again the level and the edit.  Earlier logs are not needed
\* once the edit is logged.  A table that could not be written is a background error.
BuildTable ==
    /\ opened = "open" /\ memc.pc = "build"
    /\ pending_outputs' = pending_outputs \ {memc.number}
    /\ \/ /\ tables' = [n \in DOMAIN tables \cup {memc.number} |-> IF n = memc.number THEN imm ELSE tables[n]]
          /\ \E l \in PickLevelForMemTableOutput(imm) :
                edit' = Edit([n \in {memc.number} |-> l], {}, logfile_number, next_file_number)
          /\ memc' = [memc EXCEPT !.pc = "log"]
          /\ UNCHANGED <<bg_error, world>>
       \/ /\ Fault
          /\ bg_error' = TRUE
          /\ memc' = IdleMemc
          /\ UNCHANGED <<tables, edit>>
    /\ UNCHANGED <<logs, manifests, CURRENT, setVars, memVars, writer, comp, iters, written, promised, opened>>

-----------------------------------------------------------------------------
(* Compaction.                                                             *)

Grow(l, in0, in1) ==
    LET wider == GetOverlappingInputs(l, in0 \cup in1)
    IN IF in1 # {} /\ wider # in0 /\ Overlapping(l + 1, wider) = in1 THEN {in0, wider} ELSE {in0}

\* PickCompaction: from a level that is too big, or a file that was sought too often.
\* Whether the inputs grow depends on their size.
PickCompaction(l, f) ==
    LET first == IF l = 0 THEN GetOverlappingInputs(0, {f}) ELSE {f}
        in1   == Overlapping(l + 1, first)
    IN {[in0 |-> in0, in1 |-> in1] : in0 \in Grow(l, first, in1)}

\* A single file with nothing below it is usually moved down without being rewritten.
BackgroundCompaction(l, f) ==
    /\ opened = "open" /\ imm = None /\ ~bg_error /\ BackgroundIdle /\ comp = None
    /\ \E c \in PickCompaction(l, f), trivial \in BOOLEAN :
          /\ trivial => Cardinality(c.in0) = 1 /\ c.in1 = {}
          /\ comp' = [pc |-> IF trivial THEN "log" ELSE "work", level |-> l, in0 |-> c.in0, in1 |-> c.in1,
                      outputs |-> {}, trivial |-> trivial,
                      input_version |-> files, smallest_snapshot |-> last_sequence]
          /\ edit' = IF trivial THEN Edit([n \in {f} |-> l + 1], {<<l, f>>}, log_number, next_file_number)
                     ELSE None
    /\ UNCHANGED <<fileVars, setVars, memVars, pending_outputs, bg_error, writer, memc, iters, ghostVars, opened>>

IsBaseLevelForKey(k) ==
    \A l \in (comp.level + 2)..(kNumLevels - 1) : \A n \in comp.input_version[l] : ~InRange(n, k)

DropAnyDeletion(e, input) ==
    \/ \E o \in input : o.key = e.key /\ o.seq > e.seq /\ o.seq <= comp.smallest_snapshot
    \/ e.del /\ e.seq <= comp.smallest_snapshot

\* An entry is dropped when a newer one of its key is old enough for every snapshot, or when
\* it deletes and no deeper level has the key.
Drop(e, input) ==
    \/ \E o \in input : o.key = e.key /\ o.seq > e.seq /\ o.seq <= comp.smallest_snapshot
    \/ e.del /\ e.seq <= comp.smallest_snapshot /\ IsBaseLevelForKey(e.key)

\* The merged input without what is dropped, cut into one or two output files.
Outputs ==
    LET input == UNION {tables[n] : n \in comp.in0 \cup comp.in1}
        kept  == {e \in input : ~Drop(e, input)}
    IN IF kept = {} THEN {{}}
       ELSE {{kept}} \cup {{{e \in kept : IKeyLess(e, c)}, {e \in kept : ~IKeyLess(e, c)}} : c \in kept \ {Smallest(kept)}}

\* DoCompactionWork writes the outputs without the mutex; a memtable that fills up
\* meanwhile is compacted first.  A table that could not be written is a background error.
DoCompactionWork ==
    /\ opened = "open" /\ comp # None /\ BackgroundIdle /\ comp.pc = "work"
    /\ \/ \E outs \in Outputs :
             LET nums  == next_file_number..(next_file_number + Cardinality(outs) - 1)
                 order == SetToSortSeq(outs, LAMBDA a, b : IKeyLess(Smallest(a), Smallest(b)))
             IN /\ tables' = [n \in DOMAIN tables \cup nums |->
                                 IF n \in nums THEN order[n - next_file_number + 1] ELSE tables[n]]
                /\ next_file_number' = next_file_number + Cardinality(outs)
                /\ pending_outputs' = pending_outputs \cup nums
                /\ comp' = [comp EXCEPT !.pc = "install", !.outputs = nums]
                /\ UNCHANGED <<bg_error, world>>
       \/ /\ Fault
          /\ bg_error' = TRUE
          /\ comp' = None
          /\ UNCHANGED <<tables, next_file_number, pending_outputs>>
    /\ UNCHANGED <<logs, manifests, CURRENT, files, last_sequence, log_number, manifest_file_number, memVars>>
    /\ UNCHANGED <<edit, writer, memc, iters, written, promised, opened>>

InstallCompactionResults ==
    /\ opened = "open" /\ comp # None /\ BackgroundIdle /\ comp.pc = "install"
    /\ edit' = Edit([n \in comp.outputs |-> comp.level + 1],
                    ({comp.level} \X comp.in0) \cup ({comp.level + 1} \X comp.in1), log_number, next_file_number)
    /\ comp' = [comp EXCEPT !.pc = "log"]
    /\ UNCHANGED <<fileVars, setVars, memVars, pending_outputs, bg_error, writer, memc, iters, ghostVars, opened>>

-----------------------------------------------------------------------------
(* LogAndApply.                                                            *)

Logged == manifests[manifest_file_number].tail # <<>> /\ Last(manifests[manifest_file_number].tail) = edit

\* The record is appended to the MANIFEST without the mutex.
LogEdit ==
    /\ opened = "open" /\ edit # None /\ ~Logged
    /\ manifests' = [manifests EXCEPT ![manifest_file_number].tail = Append(@, edit)]
    /\ UNCHANGED <<logs, tables, CURRENT, setVars, memVars, threadVars, ghostVars, opened>>

\* The MANIFEST is synced and, with the mutex again, the version installed.  A memtable
\* that has become a table and the inputs of a compaction are obsolete then.
Synced(m) == [manifests EXCEPT ![m] = [synced |-> Replay(manifests[m]), tail |-> <<>>]]

ApplyEdit ==
    /\ opened = "open" /\ edit # None /\ Logged
    /\ LET mine == memc.pc = "log"
           v    == Apply(files, edit)
           left == IF mine THEN comp ELSE None
           pend == IF mine THEN pending_outputs ELSE pending_outputs \ comp.outputs
       IN /\ files' = v
          /\ log_number' = edit.log
          /\ pending_outputs' = pend
          /\ imm' = IF mine THEN None ELSE imm
          /\ memc' = IdleMemc
          /\ comp' = left
          /\ edit' = None
          /\ IF ~mine /\ comp.trivial
             THEN manifests' = Synced(manifest_file_number) /\ UNCHANGED <<tables, logs>>
             ELSE DeleteObsoleteFiles(tables, LiveFiles(v, left) \cup pend, edit.log, Synced(manifest_file_number))
    /\ UNCHANGED <<CURRENT, next_file_number, last_sequence, manifest_file_number, mem, logfile_number>>
    /\ UNCHANGED <<bg_error, writer, iters, ghostVars, opened>>

\* The MANIFEST could not be written or synced: the record may be there all the same.
LogEditFails ==
    /\ opened = "open" /\ edit # None /\ Fault
    /\ bg_error' = TRUE
    /\ edit' = None /\ memc' = IdleMemc
    /\ comp' = IF memc.pc = "log" THEN comp ELSE None
    /\ pending_outputs' = IF memc.pc = "log" THEN pending_outputs ELSE pending_outputs \ comp.outputs
    /\ UNCHANGED <<fileVars, setVars, memVars, writer, iters, written, promised, opened>>

-----------------------------------------------------------------------------
(* What a reader should see, and iterators.                                *)

EntriesOf(ws) == UNION {InsertInto(w.seq, w.batch) : w \in ws}
Reference(k) == Answer(Seek(EntriesOf(written), k, last_sequence))

\* NewIterator takes references on the memtables and the version.
NewIterator ==
    /\ opened = "open" /\ Cardinality(iters) < world.iterators
    /\ iters' = iters \cup {[files |-> files,
                             base |-> {e \in mem \cup (IF imm = None THEN {} ELSE imm) : e.seq <= last_sequence},
                             want |-> [k \in Keys |-> Reference(k)]]}
    /\ UNCHANGED <<fileVars, setVars, memVars, pending_outputs, bg_error, edit, writer, memc, comp, ghostVars, opened>>

\* The merged entries of its memtables and files, of each key the newest.
IteratorGet(it, k) == Answer(Seek(it.base \cup UNION {tables[n] : n \in FilesOf(it.files)}, k, last_sequence))

CleanupIteratorState ==
    /\ \E it \in iters : iters' = iters \ {it}
    /\ UNCHANGED <<fileVars, setVars, memVars, pending_outputs, bg_error, edit, writer, memc, comp, ghostVars, opened>>

-----------------------------------------------------------------------------
(* Crashes, and DB::Open.                                                  *)

\* A log may end in a record that was not written whole: its reader stops before it.
Unsynced == {n \in DOMAIN logs : logs[n].synced < Len(logs[n].recs)}
Cut(f, n) == [recs |-> SubSeq(f.recs, 1, n), synced |-> n]

\* The process dies and memory is gone.  If the machine goes down with it, every log and
\* MANIFEST may also lose records that were not synced.  From then on the writes in effect
\* are those in the logs that are left, and those whose log the MANIFEST no longer needs.
Crash ==
    /\ opened # "down" /\ world.crashes > 0
    /\ world' = [world EXCEPT !.crashes = @ - 1]
    /\ opened' = "down"
    /\ \E keep \in [Unsynced -> 0..last_sequence + 1], lost \in 0..2 :
          /\ \A n \in Unsynced : keep[n] \in logs[n].synced..Len(logs[n].recs)
          /\ logs' = [n \in DOMAIN logs |-> Cut(logs[n], IF n \in Unsynced THEN keep[n] ELSE Len(logs[n].recs))]
          /\ manifests' = [n \in DOMAIN manifests |->
                [manifests[n] EXCEPT !.tail = SubSeq(@, 1, Max({0, Len(@) - lost}))]]
          /\ LET left   == Replay(manifests'[CURRENT])
                 logged == UNION {{[log |-> n, seq |-> r.seq, batch |-> r.batch] : r \in Range(logs'[n].recs)} :
                                  n \in {i \in DOMAIN logs : i >= left.log}}
                 stored == UNION {tables[n] : n \in FilesOf(left.files)}
             IN written' = logged \cup {w \in written : w.log < left.log \/ InsertInto(w.seq, w.batch) \subseteq stored}
    /\ files' = NoFiles /\ mem' = {} /\ imm' = None /\ edit' = None
    /\ next_file_number' = 2 /\ last_sequence' = 0 /\ log_number' = 0
    /\ manifest_file_number' = 0 /\ logfile_number' = 0
    /\ pending_outputs' = {} /\ bg_error' = FALSE
    /\ writer' = IdleWriter /\ memc' = IdleMemc /\ comp' = None /\ iters' = {}
    /\ UNCHANGED <<tables, CURRENT, promised>>

\* RecoverLogFile: every whole record goes to a memtable, which is written as a table of level 0
\* when it is full and at the end of the log.  r is [next, new, mem].
Level0Table(r) ==
    [next |-> r.next + 1, mem |-> {},
     new |-> [n \in DOMAIN r.new \cup {r.next} |-> IF n = r.next THEN r.mem ELSE r.new[n]]]
RecoverRecord(r, rec) ==
    LET m == [r EXCEPT !.mem = @ \cup InsertInto(rec.seq, rec.batch)]
    IN IF Cardinality(m.mem) > world.write_buffer_size THEN Level0Table(m) ELSE m
RecoverLogFile(r, n) ==
    LET m == FoldLeft(RecoverRecord, r, logs[n].recs)
        e == IF m.mem = {} THEN m ELSE Level0Table(m)
    IN [e EXCEPT !.next = IF @ <= n THEN n + 1 ELSE @]

LogsToRecover(log) == {n \in DOMAIN logs : n >= log}

\* The first record of a new MANIFEST: all files.
WriteSnapshot(v) ==
    [level |-> [n \in FilesOf(v) |-> CHOOSE l \in Levels : n \in v[l]], del |-> {},
     log |-> None, next |-> None, last |-> None]

\* The edits of the MANIFEST, then the logs it still needs, oldest first; then a new log and
\* a new MANIFEST that starts with the whole version.
Recover ==
    /\ opened = "down"
    /\ LET meta  == Replay(manifests[CURRENT])
           v     == meta.files
           todo  == SetToSortSeq(LogsToRecover(meta.log), <)
           r     == FoldLeft(RecoverLogFile, [next |-> meta.next + 1, new |-> <<>>, mem |-> {}], todo)
           seen  == {rec.seq + Len(rec.batch) - 1 : rec \in UNION {Range(logs[n].recs) : n \in Range(todo)}}
           last  == Max(seen \cup {meta.last})
           tabs  == [n \in DOMAIN tables \cup DOMAIN r.new |-> IF n \in DOMAIN r.new THEN r.new[n] ELSE tables[n]]
           e     == [level |-> [n \in DOMAIN r.new |-> 0], del |-> {}, log |-> r.next, next |-> r.next + 1, last |-> last]
       IN /\ tables' = tabs
          /\ logs' = [n \in DOMAIN logs \cup {r.next} |-> IF n = r.next THEN [recs |-> <<>>, synced |-> 0] ELSE logs[n]]
          /\ manifests' = [n \in DOMAIN manifests \cup {meta.next} |->
                              IF n = meta.next THEN [synced |-> NoVersion, tail |-> <<WriteSnapshot(v), e>>] ELSE manifests[n]]
          /\ manifest_file_number' = meta.next
          /\ logfile_number' = r.next /\ log_number' = r.next
          /\ next_file_number' = r.next + 1
          /\ last_sequence' = last
          /\ files' = Apply(v, e)
          /\ FilesOf(v) \subseteq DOMAIN tables
    /\ opened' = "recovered"
    /\ UNCHANGED <<CURRENT, mem, imm, threadVars, ghostVars>>

\* LogAndApply syncs the new MANIFEST before CURRENT is renamed to name it.
SetCurrentFile ==
    /\ opened = "recovered"
    /\ manifests' = Synced(manifest_file_number)
    /\ CURRENT' = manifest_file_number
    /\ opened' = "described"
    /\ UNCHANGED <<logs, tables, setVars, memVars, threadVars, ghostVars>>

FinishOpen ==
    /\ opened = "described"
    /\ DeleteObsoleteFiles(tables, LiveFiles(files, None), log_number, manifests)
    /\ opened' = "open"
    /\ UNCHANGED <<CURRENT, setVars, memVars, threadVars, ghostVars>>

\* A database that DB::Open has just created: NewDB's MANIFEST 1 is gone.
Init ==
    /\ manifests = [n \in {2} |-> [synced |-> [files |-> NoFiles, log |-> 3, next |-> 4, last |-> 0], tail |-> <<>>]]
    /\ CURRENT = 2
    /\ logs = [n \in {3} |-> [recs |-> <<>>, synced |-> 0]]
    /\ tables = <<>>
    /\ opened = "open" /\ files = NoFiles
    /\ next_file_number = 4 /\ last_sequence = 0 /\ log_number = 3 /\ manifest_file_number = 2
    /\ mem = {} /\ imm = None /\ logfile_number = 3
    /\ pending_outputs = {} /\ bg_error = FALSE /\ edit = None
    /\ writer = IdleWriter /\ memc = IdleMemc /\ comp = None /\ iters = {}
    /\ written = {} /\ promised = {} /\ world \in Worlds

Next ==
    \/ Write \/ AddRecord \/ SyncLog \/ InsertAndReply
    \/ CompactMemTable \/ BuildTable
    \/ \E l \in 0..(kNumLevels - 2) : \E f \in files[l] : BackgroundCompaction(l, f)
    \/ DoCompactionWork \/ InstallCompactionResults
    \/ LogEdit \/ ApplyEdit \/ LogEditFails
    \/ NewIterator \/ CleanupIteratorState
    \/ Crash \/ Recover \/ SetCurrentFile \/ FinishOpen

Spec == Init /\ [][Next]_vars

-----------------------------------------------------------------------------
(* Properties.                                                             *)

\* The files of a level below level 0 do not overlap: the check for which Builder::SaveTo aborts.
LevelsAreDisjoint ==
    \A l \in Levels \ {0} : \A m, n \in files[l] :
        m # n => \/ IKeyLess(Largest(tables[m]), Smallest(tables[n]))
                 \/ IKeyLess(Largest(tables[n]), Smallest(tables[m]))

\* A reader gets, for every key, what the newest write in effect says: no compaction, move
\* or recovery uncovers an older value, revives a deleted key, loses one, or breaks the
\* order of a level that lookups rely on.
ReadsSeeTheNewest ==
    opened = "open" => LevelsAreDisjoint /\ \A k \in Keys : Get(k, last_sequence) = Reference(k)

\* An iterator sees the state at its creation until it is released, whatever is compacted
\* and deleted meanwhile.
IteratorsAreStable ==
    \A it \in iters :
        /\ FilesOf(it.files) \subseteq DOMAIN tables
        /\ \A k \in Keys : IteratorGet(it, k) = it.want[k]

\* A write that returned OK with sync set is in effect whatever dies after it.
SyncedWritesSurvive == promised \subseteq written

\* Were the process to die now, DB::Open would find every file the MANIFEST names, and the
\* log of every write that is not in a table yet.
NothingNeededIsDeleted ==
    /\ CURRENT \in DOMAIN manifests
    /\ LET m == manifests[CURRENT]
       IN FilesOf(m.synced.files) \cup FilesOf(Replay(m).files) \subseteq DOMAIN tables
    /\ opened = "open" => FilesOf(files) \cup pending_outputs \subseteq DOMAIN tables \cup {memc.number}

=============================================================================
