--------------------------- MODULE LevelDBWriters ---------------------------
(***************************************************************************)
(* DBImpl::Write seen from its threads (leveldb/db/db_impl.cc): the queue  *)
(* of writers, the leader that logs a group of batches without the mutex,  *)
(* the waits of MakeRoomForWrite for the background thread, background     *)
(* errors, and the destructor.  A section under mutex_ is one action.  What*)
(* is in the batches, the tables and the logs is LevelDB's matter: here a  *)
(* batch is <<thread, number>>, a memtable the number of its batches and   *)
(* level 0 the number of its files.                                        *)
(***************************************************************************)
EXTENDS Naturals, FiniteSets, SequencesExt

CONSTANTS
    Callers, Sync,      \* the threads that write, and those with options.sync
    Calls,              \* how often each writes
    write_buffer_size,  \* in batches
    kL0_CompactionTrigger, kL0_StopWritesTrigger,
    Faults              \* whether writing and syncing files may fail

VARIABLES
    writers,        \* writers_
    at,             \* "out", "cv" (asleep on its own condition), "front" (at the mutex, to
                    \* look whether it is done or first), "room", "bg_cv", "log", "relock"
    n,              \* which write a thread is at
    done,           \* w.done and w.status: "no", "ok", "error"
    group,          \* the batches of the leader
    status, syncError,
    mem, imm, level0,
    scheduled,      \* bg_compaction_scheduled_
    background,     \* "idle", "flush", "compact"
    bg_error,
    shutting_down,  \* "no", "waiting", "deleted"
    logged,         \* the records of the current log
    synced,         \* the batches whose record is synced
    applied,        \* history: the batches inserted, in order
    answers         \* history: <<batch, status>>

vars == <<writers, at, n, done, group, status, syncError, mem, imm, level0, scheduled, background, bg_error, shutting_down,
          logged, synced, applied, answers>>

Batch(t) == <<t, n[t]>>

Init ==
    /\ writers = <<>> /\ at = [t \in Callers |-> "out"] /\ n = [t \in Callers |-> 0]
    /\ done = [t \in Callers |-> "no"]
    /\ group = <<>> /\ status = "ok" /\ syncError = FALSE
    /\ mem = 0 /\ imm = FALSE /\ level0 = 0
    /\ scheduled = FALSE /\ background = "idle" /\ bg_error = FALSE /\ shutting_down = "no"
    /\ logged = <<>> /\ synced = {} /\ applied = <<>> /\ answers = {}

SignalAll(f) == [t \in Callers |-> IF f[t] = "bg_cv" THEN "room" ELSE f[t]]

\* MaybeScheduleCompaction, in a state with these values.
MaybeSchedule(sched, im, l0, err) ==
    sched \/ (shutting_down = "no" /\ ~err /\ (im \/ l0 >= kL0_CompactionTrigger))

-----------------------------------------------------------------------------
(* Write.                                                                  *)

Write(t) ==
    /\ at[t] = "out" /\ n[t] < Calls /\ shutting_down = "no"
    /\ n' = [n EXCEPT ![t] = @ + 1]
    /\ done' = [done EXCEPT ![t] = "no"]
    /\ writers' = Append(writers, t)
    /\ at' = [at EXCEPT ![t] = IF writers = <<>> THEN "room" ELSE "cv"]
    /\ UNCHANGED <<group, status, syncError, mem, imm, level0, scheduled, background, bg_error, shutting_down, logged, synced, applied, answers>>

\* The wait returns, for whatever reason.
Awake(t) ==
    /\ at[t] = "front"
    /\ \/ /\ done[t] # "no"
          /\ at' = [at EXCEPT ![t] = "out"]
          /\ answers' = answers \cup {<<Batch(t), done[t]>>}
       \/ /\ done[t] = "no"
          /\ at' = [at EXCEPT ![t] = IF Head(writers) = t THEN "room" ELSE "cv"]
          /\ UNCHANGED answers
    /\ UNCHANGED <<writers, n, done, group, status, syncError, mem, imm, level0, scheduled, background, bg_error, shutting_down, logged, synced, applied>>

SpuriousWakeup(t) ==
    /\ at[t] \in {"cv", "bg_cv"}
    /\ at' = [at EXCEPT ![t] = IF @ = "cv" THEN "front" ELSE "room"]
    /\ UNCHANGED <<writers, n, done, group, status, syncError, mem, imm, level0, scheduled, background, bg_error, shutting_down, logged, synced, applied, answers>>

AnyPrefix(q) == {SubSeq(q, 1, k) : k \in 1..Len(q)}

\* BuildBatchGroup: the leader and writers behind it, as far as the size allows, up to the
\* first that wants a sync which the leader does not do.
BuildBatchGroup(q) == {g \in AnyPrefix(q) : Head(q) \in Sync \/ \A i \in 2..Len(g) : g[i] \notin Sync}

\* One turn of the loop of MakeRoomForWrite.
MakeRoomForWrite(t) ==
    /\ at[t] = "room"
    /\ \/ /\ bg_error                              \* Yield previous error
          /\ at' = [at EXCEPT ![t] = "relock"] /\ status' = "error" /\ group' = <<t>>
          /\ UNCHANGED <<mem, imm, scheduled, logged>>
       \/ /\ ~bg_error /\ mem < write_buffer_size  \* There is room
          /\ group' \in BuildBatchGroup(writers)
          /\ at' = [at EXCEPT ![t] = "log"]
          /\ UNCHANGED <<status, mem, imm, scheduled, logged>>
       \/ /\ ~bg_error /\ mem >= write_buffer_size /\ (imm \/ level0 >= kL0_StopWritesTrigger)
          /\ at' = [at EXCEPT ![t] = "bg_cv"]
          /\ UNCHANGED <<status, group, mem, imm, scheduled, logged>>
       \/ /\ ~bg_error /\ mem >= write_buffer_size /\ ~imm /\ level0 < kL0_StopWritesTrigger
          /\ \/ /\ imm' = TRUE /\ mem' = 0 /\ logged' = <<>>
                /\ scheduled' = MaybeSchedule(scheduled, TRUE, level0, FALSE)
                /\ UNCHANGED <<at, status, group>>
             \/ /\ Faults                          \* no new log file
                /\ at' = [at EXCEPT ![t] = "relock"] /\ status' = "error" /\ group' = <<t>>
                /\ UNCHANGED <<mem, imm, scheduled, logged>>
    /\ UNCHANGED <<writers, n, done, syncError, level0, background, bg_error, shutting_down, synced, applied, answers>>

Batches(g) == [i \in DOMAIN g |-> Batch(g[i])]

\* Without the mutex: AddRecord, Sync if the leader asks for it, and InsertInto.
Log(t) ==
    /\ at[t] = "log"
    /\ at' = [at EXCEPT ![t] = "relock"]
    /\ \/ /\ logged' = logged \o Batches(group)
          /\ mem' = mem + Len(group) /\ applied' = applied \o Batches(group)
          /\ status' = "ok" /\ syncError' = FALSE
          /\ synced' = IF t \in Sync THEN synced \cup ToSet(logged') ELSE synced
       \/ /\ Faults                                \* AddRecord fails
          /\ status' = "error" /\ syncError' = FALSE
          /\ UNCHANGED <<logged, mem, applied, synced>>
       \/ /\ Faults /\ t \in Sync                  \* Sync fails
          /\ status' = "error" /\ syncError' = TRUE
          /\ logged' = logged \o Batches(group)
          /\ UNCHANGED <<mem, applied, synced>>
    /\ UNCHANGED <<writers, n, done, group, imm, level0, scheduled, background, bg_error, shutting_down, answers>>

RelockForgetsHead(t) ==
    /\ at[t] = "relock"
    /\ writers' = SubSeq(writers, Len(group) + 1, Len(writers))
    /\ done' = [u \in Callers |-> IF u \in ToSet(group) \ {t} THEN status ELSE done[u]]
    /\ bg_error' = (bg_error \/ syncError)
    /\ at' = [u \in Callers |-> IF u = t THEN "out"
                                ELSE IF at[u] = "cv" /\ u \in ToSet(group) THEN "front"
                                ELSE IF at[u] = "bg_cv" /\ syncError THEN "room" ELSE at[u]]
    /\ answers' = answers \cup {<<Batch(t), status>>}
    /\ group' = <<>> /\ status' = "ok" /\ syncError' = FALSE
    /\ UNCHANGED <<n, mem, imm, level0, scheduled, background, shutting_down, logged, synced, applied>>

\* The leader has the mutex again: a failed sync is a background error, the group is done,
\* the next writer is told that it is first, and the call returns.
Relock(t) ==
    /\ at[t] = "relock"
    /\ writers' = SubSeq(writers, Len(group) + 1, Len(writers))
    /\ done' = [u \in Callers |-> IF u \in ToSet(group) \ {t} THEN status ELSE done[u]]
    /\ bg_error' = (bg_error \/ syncError)
    /\ LET signalled == ToSet(group) \cup (IF writers' = <<>> THEN {} ELSE {Head(writers')})
       IN at' = [u \in Callers |-> IF u = t THEN "out"
                                   ELSE IF at[u] = "cv" /\ u \in signalled THEN "front"
                                   ELSE IF at[u] = "bg_cv" /\ syncError THEN "room" ELSE at[u]]
    /\ answers' = answers \cup {<<Batch(t), status>>}
    /\ group' = <<>> /\ status' = "ok" /\ syncError' = FALSE
    /\ UNCHANGED <<n, mem, imm, level0, scheduled, background, shutting_down, logged, synced, applied>>

-----------------------------------------------------------------------------
(* The background thread.                                                  *)

\* BackgroundCall after the work, with the values the work left.
Settle(im, l0, err) ==
    /\ imm' = im /\ level0' = l0 /\ bg_error' = err
    /\ background' = "idle"
    /\ scheduled' = MaybeSchedule(FALSE, im, l0, err)
    /\ at' = SignalAll(at)

BackgroundCall ==
    /\ scheduled /\ background = "idle"
    /\ IF shutting_down # "no" \/ bg_error
       THEN Settle(imm, level0, bg_error)
       ELSE /\ background' = IF imm THEN "flush" ELSE "compact"
            /\ UNCHANGED <<at, imm, level0, scheduled, bg_error>>
    /\ UNCHANGED <<writers, n, done, group, status, syncError, mem, shutting_down, logged, synced, applied, answers>>

\* CompactMemTable, with the table written outside the mutex.
CompactMemTable ==
    /\ background = "flush"
    /\ \/ shutting_down = "no" /\ Settle(FALSE, level0 + 1, bg_error)
       \/ (Faults \/ shutting_down # "no") /\ Settle(imm, level0, TRUE)
    /\ UNCHANGED <<writers, n, done, group, status, syncError, mem, shutting_down, logged, synced, applied, answers>>

\* DoCompactionWork looks for a full memtable between two keys.
CompactMemTableFirst ==
    /\ background = "compact" /\ imm
    /\ \/ shutting_down = "no" /\ imm' = FALSE /\ level0' = level0 + 1 /\ UNCHANGED bg_error
       \/ (Faults \/ shutting_down # "no") /\ bg_error' = TRUE /\ UNCHANGED <<imm, level0>>
    /\ at' = SignalAll(at)
    /\ UNCHANGED <<writers, n, done, group, status, syncError, mem, scheduled, background, shutting_down, logged, synced, applied, answers>>

FinishCompaction ==
    /\ background = "compact"
    /\ \/ shutting_down = "no" /\ Settle(imm, 0, bg_error)
       \/ (Faults \/ shutting_down # "no") /\ Settle(imm, level0, TRUE)
    /\ UNCHANGED <<writers, n, done, group, status, syncError, mem, shutting_down, logged, synced, applied, answers>>

\* ~DBImpl: nobody writes any more.
Delete ==
    /\ shutting_down = "no" /\ \A t \in Callers : at[t] = "out"
    /\ shutting_down' = "waiting"
    /\ UNCHANGED <<writers, at, n, done, group, status, syncError, mem, imm, level0, scheduled, background, bg_error, logged, synced, applied, answers>>
Deleted ==
    /\ shutting_down = "waiting" /\ ~scheduled
    /\ shutting_down' = "deleted"
    /\ UNCHANGED <<writers, at, n, done, group, status, syncError, mem, imm, level0, scheduled, background, bg_error, logged, synced, applied, answers>>

Step(t)    == Awake(t) \/ MakeRoomForWrite(t) \/ Log(t) \/ Relock(t)
Background == BackgroundCall \/ CompactMemTable \/ FinishCompaction

Next ==
    \/ \E t \in Callers : Write(t) \/ Step(t) \/ SpuriousWakeup(t)
    \/ Background \/ CompactMemTableFirst \/ Delete \/ Deleted

\* The threads run and the background thread does its work.
Fairness == WF_vars(Background) /\ WF_vars(Deleted) /\ \A t \in Callers : WF_vars(Step(t))
Spec == Init /\ [][Next]_vars /\ Fairness

-----------------------------------------------------------------------------
\* A write that is answered with success was applied once and, if it asked for it, is in the
\* synced part of its log, although another thread did the work; one that is answered with an
\* error was not applied.  The batches of one log are applied in the order of its records.
AnswersAreTrue ==
    /\ \A a \in answers : /\ a[2] = "ok" => a[1] \in ToSet(applied) /\ (a[1][1] \in Sync => a[1] \in synced)
                          /\ a[2] = "error" => a[1] \notin ToSet(applied)
    /\ IsInjective(applied)
    /\ mem > 0 => LET tail == SubSeq(applied, Len(applied) - mem + 1, Len(applied))
                  IN tail = SelectSeq(logged, LAMBDA b : b \in ToSet(applied))

\* Every write returns and so does the destructor: no writer sleeps through the signal that
\* makes it first, and none waits for a background thread that has nothing to do.
WritesReturn ==
    /\ \A t \in Callers : (at[t] # "out") ~> (at[t] = "out")
    /\ (shutting_down = "waiting") ~> (shutting_down = "deleted")
=============================================================================
