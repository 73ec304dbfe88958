------------------------------ MODULE MCQueues ------------------------------
(***************************************************************************)
(* The thread queues of the program side by side, for one model checking   *)
(* run: AsyncRPCQueue, WorkQueue, Scheduler and LevelDBWriters.  They share *)
(* no state and do not interact; sel, chosen at the start, says which one  *)
(* a behaviour is about.  The variables of WorkQueue stay as they are at   *)
(* first in the behaviours of the others, and those of the others are Off. *)
(***************************************************************************)
EXTENDS WorkQueue, Naturals, FiniteSets, Sequences

CONSTANTS Ops, NoOp, AsyncEndings,
          Servants, Tasks, DueTimes, Repeating, MaxTime, SchedulerEndings,
          Callers, Sync, Calls, write_buffer_size, kL0_CompactionTrigger, kL0_StopWritesTrigger, Faults,
          Off

ASSUME QueuesAssumption == WorkQueueAssumption

VARIABLES
    sel, at, scheduled, thread,
    operation_id_queue, operation_map, state, closed, finish, current, ender, toCancel, victim,
    client, outcome, runs, accepted, replies,
    now, taskQueue, deadline, task, stopRequested, stopWhenEmpty, ran,
    writers, n, done, group, status, syncError, mem, imm, level0, background, bg_error,
    shutting_down, logged, synced, applied, answers

Async   == INSTANCE AsyncRPCQueue WITH Endings <- AsyncEndings, pc <- thread
Tasking == INSTANCE Scheduler WITH Endings <- SchedulerEndings
Writing == INSTANCE LevelDBWriters

asyncVars == <<thread, operation_id_queue, operation_map, state, closed, finish, current, ender, toCancel, victim,
    client, outcome, runs, accepted, replies>>
taskVars  == <<now, taskQueue, deadline, task, stopRequested, stopWhenEmpty, ran>>
writeVars == <<writers, n, done, group, status, syncError, mem, imm, level0, background, bg_error,
    shutting_down, logged, synced, applied, answers>>
allVars   == <<sel, at, scheduled, vars, asyncVars, taskVars, writeVars>>

AsyncOff ==
    /\ operation_id_queue = Off /\ operation_map = Off /\ state = Off /\ closed = Off
    /\ finish = Off /\ current = Off /\ ender = Off /\ toCancel = Off
    /\ victim = Off /\ client = Off /\ outcome = Off /\ runs = Off
    /\ accepted = Off /\ replies = Off /\ thread = Off
TaskOff ==
    /\ now = Off /\ taskQueue = Off /\ deadline = Off /\ task = Off
    /\ stopRequested = Off /\ stopWhenEmpty = Off /\ ran = Off
WriteOff ==
    /\ writers = Off /\ n = Off /\ done = Off /\ group = Off
    /\ status = Off /\ syncError = Off /\ mem = Off /\ imm = Off
    /\ level0 = Off /\ background = Off /\ bg_error = Off /\ shutting_down = Off
    /\ logged = Off /\ synced = Off /\ applied = Off /\ answers = Off

QueuesInit ==
    /\ Init
    /\ \/ sel = "async" /\ Async!Init   /\ TaskOff  /\ WriteOff /\ at = Off /\ scheduled = Off
       \/ sel = "http"  /\ AsyncOff     /\ TaskOff  /\ WriteOff /\ at = Off /\ scheduled = Off
       \/ sel = "task"  /\ Tasking!Init /\ AsyncOff /\ WriteOff
       \/ sel = "write" /\ Writing!Init /\ AsyncOff /\ TaskOff

AsyncOnly == UNCHANGED <<sel, at, scheduled, vars, taskVars, writeVars>>
HttpOnly  == UNCHANGED <<sel, at, scheduled, asyncVars, taskVars, writeVars>>
TaskOnly  == UNCHANGED <<sel, vars, asyncVars, writeVars>>
WriteOnly == UNCHANGED <<sel, vars, asyncVars, taskVars>>

QueuesNext ==
    \/ sel = "async" /\ Async!Next /\ AsyncOnly
    \/ sel = "http"  /\ Next /\ HttpOnly
    \/ sel = "task"  /\ Tasking!Next /\ TaskOnly
    \/ sel = "write" /\ Writing!Next /\ WriteOnly

\* A thread of the pool takes a step, and so does what has to go on besides: the thread that
\* ends a queue, the clock, LevelDB's background thread.
ThreadStep(w) ==
    \/ sel = "async" /\ Async!Work(w) /\ AsyncOnly
    \/ sel = "http"  /\ Work(w) /\ HttpOnly
    \/ sel = "task"  /\ w \in Servants /\ Tasking!Serve(w) /\ TaskOnly
    \/ sel = "write" /\ w \in Callers /\ Writing!Step(w) /\ WriteOnly

OtherStep ==
    \/ sel = "async" /\ Async!Ending /\ AsyncOnly
    \/ sel = "http"  /\ Stop /\ HttpOnly
    \/ sel = "task"  /\ Tasking!Tick /\ TaskOnly
    \/ sel = "write" /\ (Writing!Background \/ Writing!Deleted) /\ WriteOnly

EventStep == sel = "http" /\ Enqueue /\ HttpOnly

\* sel never changes, so this is the fairness of each queue's own specification.
QueuesFairness == WF_allVars(OtherStep) /\ WF_allVars(EventStep) /\ \A w \in Workers : WF_allVars(ThreadStep(w))

QueuesSpec == QueuesInit /\ [][QueuesNext]_allVars /\ QueuesFairness

-----------------------------------------------------------------------------
(* The properties are those of the modules; EveryRequestInOnePlace is that *)
(* of WorkQueue.                                                           *)

\* closeAndWait and finishAndWait return only when every operation is settled, and
\* z_getoperationresult reports what the operations did, each once.  What DBImpl::Write answers
\* is what happened to the batch, in a group or alone.  CScheduler runs no task before it is due.
AnswersAreTrue ==
    /\ sel = "task" => Tasking!NeverEarly
    /\ sel = "async" => Async!SettledOnReturn /\ Async!RepliesAreTrue
    /\ sel = "write" => Writing!AnswersAreTrue

\* An operation is queued or running, a request not answered, a task not run, a write not
\* returned.
Owed(x) ==
    \/ sel = "async" /\ x \in accepted /\ ~Async!IsFinal(state[x])
    \/ sel = "http"  /\ x \in Requests /\ fate[x] = "open"
    \/ sel = "task"  /\ x \in Tasks /\ Tasking!Pending(x) /\ ~stopRequested
                     /\ \A t \in Servants : at[t] \notin {"left", "interrupted"}
    \/ sel = "write" /\ x \in Callers /\ at[x] # "out"

\* Somebody ends a queue and waits for its threads.
Stopping ==
    \/ sel = "async" /\ ender \notin {"out", "back"}
    \/ sel = "http"  /\ stopper \notin {"out", "deleted"}
    \/ sel = "task"  /\ stopRequested /\ \E t \in Servants : at[t] \notin {"left", "interrupted"}
    \/ sel = "write" /\ shutting_down = "waiting"

\* Every operation that z_sendmany or z_shieldcoinbase queues gets a final status, every HTTP
\* request an answer, every task of the scheduler runs unless its threads end before, and
\* every DBImpl::Write returns: no notification is lost and nobody waits for a thread that
\* has nothing to do.
EverybodyIsServed == \A x \in Requests \cup Callers : Owed(x) ~> ~Owed(x)

\* closeAndWait, finishAndWait, StopHTTPServer, CScheduler::stop and ~DBImpl get every thread
\* out and return.
StopReturns == Stopping ~> ~Stopping

-----------------------------------------------------------------------------
(* Two workers for each queue; the scheduler has the program's one thread. *)

CONSTANT x1
MCDueTimes == [f \in Tasks |-> IF f = x1 THEN 1 ELSE 2]
=============================================================================
