----------------------------- MODULE Scheduler -----------------------------
(***************************************************************************)
(* CScheduler (scheduler.cpp): a queue of tasks ordered by time, threads   *)
(* in serviceQueue, and the ways to stop them.  A section under            *)
(* newTaskMutex is one action.  A task is the set of times it is scheduled *)
(* for; one that repeats is scheduled again by the thread that ran it.     *)
(***************************************************************************)
EXTENDS Naturals, FiniteSets, FiniteSetsExt

CONSTANTS
    Servants,       \* the threads in serviceQueue; the program has one
    Tasks,
    DueTimes,       \* task -> when it is scheduled for
    Repeating,      \* the tasks of scheduleEvery, one unit apart
    MaxTime,        \* bound on the clock
    Endings         \* which of "stop", "drain" and "interrupt" may happen

VARIABLES
    now,
    taskQueue,      \* of <<time, task>>
    at,             \* a thread: "top" of a loop, "wait", "timed", "again" (woken from the
                    \* timed wait), "run", "left", "interrupted"
    deadline,       \* of a thread's timed wait
    task,           \* what a thread runs
    stopRequested, stopWhenEmpty,
    scheduled,      \* history: the tasks scheduled from outside
    ran             \* history: <<due, task, when>> of what was run

vars == <<now, taskQueue, at, deadline, task, stopRequested, stopWhenEmpty, scheduled, ran>>

NoTask == <<0, "none">>

Init ==
    /\ now = 0 /\ taskQueue = {}
    /\ at = [t \in Servants |-> "top"]
    /\ deadline = [t \in Servants |-> 0] /\ task = [t \in Servants |-> NoTask]
    /\ stopRequested = FALSE /\ stopWhenEmpty = FALSE
    /\ scheduled = {} /\ ran = {}

shouldStop == stopRequested \/ (stopWhenEmpty /\ taskQueue = {})
First == CHOOSE e \in taskQueue : \A d \in taskQueue : e[1] <= d[1]
Waiting == {t \in Servants : at[t] \in {"wait", "timed"}}
Woken(f, W) == [t \in Servants |-> IF t \in W THEN (IF f[t] = "wait" THEN "top" ELSE "again") ELSE f[t]]

NotifyOne(f) == IF Waiting = {} THEN at' = f ELSE \E t \in Waiting : at' = Woken(f, {t})

schedule(f) ==
    /\ f \notin scheduled
    /\ scheduled' = scheduled \cup {f}
    /\ taskQueue' = taskQueue \cup {<<DueTimes[f], f>>}
    /\ NotifyOne(at)
    /\ UNCHANGED <<now, deadline, task, stopRequested, stopWhenEmpty, ran>>

\* The head of the loops of serviceQueue: leave, wait for a task, or for the first one's time.
Top(t) ==
    /\ at[t] = "top"
    /\ \/ /\ shouldStop
          /\ at' = [at EXCEPT ![t] = "left"] /\ UNCHANGED deadline
       \/ /\ ~shouldStop /\ taskQueue = {}
          /\ at' = [at EXCEPT ![t] = "wait"] /\ UNCHANGED deadline
       \/ /\ ~shouldStop /\ taskQueue # {}
          /\ at' = [at EXCEPT ![t] = "timed"] /\ deadline' = [deadline EXCEPT ![t] = First[1]]
    /\ UNCHANGED <<now, taskQueue, task, stopRequested, stopWhenEmpty, scheduled, ran>>

\* The first task is taken off the queue and run without the mutex.
TakeFirst(t) ==
    /\ IF shouldStop \/ taskQueue = {}
       THEN at' = [at EXCEPT ![t] = "top"] /\ UNCHANGED <<taskQueue, task, ran>>
       ELSE /\ task' = [task EXCEPT ![t] = First] /\ taskQueue' = taskQueue \ {First}
            /\ ran' = ran \cup {<<First[1], First[2], now>>}
            /\ at' = [at EXCEPT ![t] = "run"]

\* A notification is taken for the end of the wait.
AgainAsTimeout(t) ==
    /\ at[t] = "again"
    /\ TakeFirst(t)
    /\ UNCHANGED <<now, deadline, stopRequested, stopWhenEmpty, scheduled>>

\* Woken from the timed wait by a notification.
Again(t) ==
    /\ at[t] = "again"
    /\ IF shouldStop \/ taskQueue = {}
       THEN at' = [at EXCEPT ![t] = "top"] /\ UNCHANGED deadline
       ELSE at' = [at EXCEPT ![t] = "timed"] /\ deadline' = [deadline EXCEPT ![t] = First[1]]
    /\ UNCHANGED <<now, taskQueue, task, stopRequested, stopWhenEmpty, scheduled, ran>>

Timeout(t) ==
    /\ at[t] = "timed" /\ now >= deadline[t]
    /\ TakeFirst(t)
    /\ UNCHANGED <<now, deadline, stopRequested, stopWhenEmpty, scheduled>>

\* The task returns; Repeat has scheduled itself again, counting from now.
Return(t) ==
    /\ at[t] = "run"
    /\ IF task[t][2] \in Repeating /\ now < MaxTime
       THEN taskQueue' = taskQueue \cup {<<now + 1, task[t][2]>>} /\ NotifyOne([at EXCEPT ![t] = "top"])
       ELSE at' = [at EXCEPT ![t] = "top"] /\ UNCHANGED taskQueue
    /\ task' = [task EXCEPT ![t] = NoTask]
    /\ UNCHANGED <<now, deadline, stopRequested, stopWhenEmpty, scheduled, ran>>

\* A timed wait whose time has come ends with a timeout.
SpuriousWakeup(t) ==
    /\ at[t] = "wait" \/ (at[t] = "timed" /\ now < deadline[t])
    /\ at' = Woken(at, {t})
    /\ UNCHANGED <<now, taskQueue, deadline, task, stopRequested, stopWhenEmpty, scheduled, ran>>

Tick ==
    /\ now < MaxTime /\ now' = now + 1
    /\ UNCHANGED <<taskQueue, at, deadline, task, stopRequested, stopWhenEmpty, scheduled, ran>>

stop(drain) ==
    /\ (IF drain THEN "drain" ELSE "stop") \in Endings /\ ~stopRequested /\ ~stopWhenEmpty
    /\ IF drain THEN stopWhenEmpty' = TRUE /\ UNCHANGED stopRequested
                ELSE stopRequested' = TRUE /\ UNCHANGED stopWhenEmpty
    /\ at' = Woken(at, Waiting)
    /\ UNCHANGED <<now, taskQueue, deadline, task, scheduled, ran>>

\* thread_group::interrupt_all: the wait, or an interruption point of the task, throws.
Interrupt(t) ==
    /\ "interrupt" \in Endings /\ at[t] \in {"wait", "timed", "run"}
    /\ at' = [at EXCEPT ![t] = "interrupted"]
    /\ UNCHANGED <<now, taskQueue, deadline, task, stopRequested, stopWhenEmpty, scheduled, ran>>

Serve(t) == Top(t) \/ Again(t) \/ Timeout(t) \/ Return(t)

Next ==
    \/ \E f \in Tasks : schedule(f)
    \/ \E t \in Servants : Serve(t) \/ SpuriousWakeup(t) \/ Interrupt(t)
    \/ Tick \/ \E drain \in BOOLEAN : stop(drain)

\* Time goes on, a timed wait ends, and threads that can run do.
Fairness == WF_vars(Tick) /\ \A t \in Servants : WF_vars(Serve(t))
Spec == Init /\ [][Next]_vars /\ Fairness

-----------------------------------------------------------------------------
\* "Call func at/after time t": no task is run before it is due.
NeverEarly == \A r \in ran : r[3] >= r[1]

\* A task is run unless the threads are stopped or interrupted before, and stop() gets every
\* thread out: no notification is lost.  (Draining ends only if no task repeats.)
Pending(f) == f \in scheduled /\ ~\E r \in ran : r[2] = f
ScheduledRuns ==
    /\ \A f \in Tasks : Pending(f) ~> (~Pending(f) \/ stopRequested \/ \E t \in Servants : at[t] \in {"left", "interrupted"})
    /\ stopRequested ~> (\A t \in Servants : at[t] \in {"left", "interrupted"})
=============================================================================
