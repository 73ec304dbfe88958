----------------------------- MODULE CheckQueue -----------------------------
(***************************************************************************)
(* CCheckQueue (checkqueue.h): the pool of threads that verify the scripts *)
(* of a block.  The master (ConnectBlock, under cs_main) adds checks and   *)
(* then joins the pool until all of them are done; the workers sleep in    *)
(* between.  Every section under the queue's mutex is one action, a        *)
(* condition variable wakes threads that must take the mutex again, and    *)
(* boost may interrupt a sleeping worker for good.                         *)
(*                                                                         *)
(* A check is a name with a verdict; which checks a thread takes off the   *)
(* stack does not matter to any property and is left open.  fQuit is never *)
(* set by the code and is left out.                                        *)
(***************************************************************************)
EXTENDS Integers, FiniteSets

CONSTANTS
    Workers,
    Master,
    Checks,     \* the checks a block can have
    BatchSize   \* nBatchSize

ASSUME CheckQueueAssumption ==
    /\ Master \notin Workers
    /\ IsFiniteSet(Workers) /\ IsFiniteSet(Checks)
    /\ BatchSize \in Nat \ {0}

Threads == Workers \cup {Master}

VARIABLES
    queue,      \* the checks nobody has taken yet
    nIdle, nTotal, fAllOk, nTodo,
    pc,         \* where each thread is: "start" before its first lock, "waiting" on
                \* its condition, "woken" and after the mutex, "working" on a batch,
                \* "gone" once interrupted; the master is "out" or "adding" as well
    vChecks,    \* each thread's batch
    fOk,        \* each thread's fOk when it left the mutex
    verdict,    \* what each check returns
    added,      \* history: the checks of this block
    done,       \* history: the checks accounted for
    result      \* what Wait returned last

counters == <<nIdle, nTotal, fAllOk, nTodo>>
local    == <<pc, vChecks, fOk>>
vars     == <<queue, counters, local, verdict, added, done, result>>

Init ==
    /\ queue = {}
    /\ nIdle = 0 /\ nTotal = 0 /\ fAllOk = TRUE /\ nTodo = 0
    /\ pc = [t \in Threads |-> IF t = Master THEN "out" ELSE "start"]
    /\ vChecks = [t \in Threads |-> {}]
    /\ fOk = [t \in Threads |-> TRUE]
    /\ verdict \in [Checks -> BOOLEAN]
    /\ added = {} /\ done = {}
    /\ result = TRUE

IsIdle == nTotal = nIdle /\ nTodo = 0 /\ fAllOk

-----------------------------------------------------------------------------
(* The master.                                                             *)

\* A CCheckQueueControl for the next block.
Control ==
    /\ pc[Master] = "out"
    /\ pc' = [pc EXCEPT ![Master] = "adding"]
    /\ verdict' \in [Checks -> BOOLEAN]
    /\ added' = {} /\ done' = {}
    /\ UNCHANGED <<queue, counters, vChecks, fOk, result>>

Asleep == {w \in Workers : pc[w] = "waiting"}

\* The sets of sleeping workers that n new checks may wake: notify_one, notify_all.
Notified(n) ==
    IF n > 1 THEN {Asleep}
    ELSE IF n = 1 /\ Asleep # {} THEN {{w} : w \in Asleep} ELSE {{}}

Add(S) ==
    /\ pc[Master] = "adding"
    /\ S \subseteq Checks \ added
    /\ queue' = queue \cup S
    /\ nTodo' = nTodo + Cardinality(S)
    /\ added' = added \cup S
    /\ \E woken \in Notified(Cardinality(S)) :
          pc' = [t \in Threads |-> IF t \in woken THEN "woken" ELSE pc[t]]
    /\ UNCHANGED <<nIdle, nTotal, fAllOk, vChecks, fOk, verdict, done, result>>

-----------------------------------------------------------------------------
(* Loop.  A section under the mutex begins by entering Loop, by waking up  *)
(* or by settling the last batch; it ends in one of three ways.            *)

\* The number of checks a thread takes.
Batch(total, idle) ==
    LET share == Cardinality(queue) \div (total + idle + 1)
    IN  IF share < 1 THEN 1 ELSE IF share > BatchSize THEN BatchSize ELSE share

\* Mutant: the master leaves once the queue is empty.
ReturnEarly(t, pcs, idle, total, ok, todo) ==
    /\ queue = {} /\ t = Master
    /\ result' = ok /\ fAllOk' = TRUE
    /\ nIdle' = idle /\ nTotal' = total - 1 /\ nTodo' = todo
    /\ pc' = [pcs EXCEPT ![t] = "out"]
    /\ vChecks' = [vChecks EXCEPT ![t] = {}]
    /\ UNCHANGED <<queue, fOk>>

Return(t, pcs, idle, total, ok, todo) ==
    /\ queue = {} /\ t = Master /\ todo = 0
    /\ result' = ok
    /\ fAllOk' = TRUE
    /\ nIdle' = idle /\ nTotal' = total - 1 /\ nTodo' = todo
    /\ pc' = [pcs EXCEPT ![t] = "out"]
    /\ vChecks' = [vChecks EXCEPT ![t] = {}]
    /\ UNCHANGED <<queue, fOk>>

Sleep(t, pcs, idle, total, ok, todo) ==
    /\ queue = {} /\ ~(t = Master /\ todo = 0)
    /\ nIdle' = idle + 1 /\ nTotal' = total /\ fAllOk' = ok /\ nTodo' = todo
    /\ pc' = [pcs EXCEPT ![t] = "waiting"]
    /\ vChecks' = [vChecks EXCEPT ![t] = {}]
    /\ UNCHANGED <<queue, fOk, result>>

Take(t, pcs, idle, total, ok, todo) ==
    /\ queue # {}
    /\ \E S \in SUBSET queue :
          /\ Cardinality(S) = Batch(total, idle)
          /\ queue' = queue \ S
          /\ vChecks' = [vChecks EXCEPT ![t] = S]
    /\ fOk' = [fOk EXCEPT ![t] = ok]
    /\ nIdle' = idle /\ nTotal' = total /\ fAllOk' = ok /\ nTodo' = todo
    /\ pc' = [pcs EXCEPT ![t] = "working"]
    /\ UNCHANGED result

Section(t, pcs, idle, total, ok, todo) ==
    /\ \/ Return(t, pcs, idle, total, ok, todo)
       \/ Sleep(t, pcs, idle, total, ok, todo)
       \/ Take(t, pcs, idle, total, ok, todo)
    /\ UNCHANGED <<verdict, added>>

\* A worker's first lock, or the master's Wait().
Enter(t) ==
    /\ pc[t] = IF t = Master THEN "adding" ELSE "start"
    /\ Section(t, pc, nIdle, nTotal + 1, fAllOk, nTodo)
    /\ UNCHANGED done

Wake(t) ==
    /\ pc[t] = "woken"
    /\ Section(t, pc, nIdle - 1, nTotal, fAllOk, nTodo)
    /\ UNCHANGED done

\* Mutant: the master is not told.
NotifyNobody(t, todo) == pc

\* The thread that brings nTodo to zero wakes the master if it sleeps.
NotifyMaster(t, todo) ==
    IF todo = 0 /\ t # Master /\ pc[Master] = "waiting"
      THEN [pc EXCEPT ![Master] = "woken"] ELSE pc

\* Mutant: the batch is taken off nTodo one check short.
FinishShort(t) ==
    LET ok   == fOk[t] /\ \A c \in vChecks[t] : verdict[c]
        todo == nTodo - Cardinality(vChecks[t]) + 1
    IN  /\ pc[t] = "working"
        /\ Section(t, NotifyMaster(t, todo), nIdle, nTotal, fAllOk /\ ok, todo)
        /\ done' = done \cup vChecks[t]

\* The batch is executed, up to the first check that fails, and settled.
Finish(t) ==
    LET ok   == fOk[t] /\ \A c \in vChecks[t] : verdict[c]
        todo == nTodo - Cardinality(vChecks[t])
    IN  /\ pc[t] = "working"
        /\ Section(t, NotifyMaster(t, todo), nIdle, nTotal, fAllOk /\ ok, todo)
        /\ done' = done \cup vChecks[t]

\* condition_variable::wait may return without a notification.
SpuriousWakeup(t) ==
    /\ pc[t] = "waiting"
    /\ pc' = [pc EXCEPT ![t] = "woken"]
    /\ UNCHANGED <<queue, counters, vChecks, fOk, verdict, added, done, result>>

\* threadGroup.interrupt_all(): the wait throws and the worker leaves Loop
\* without touching nIdle and nTotal.
Interrupt(w) ==
    /\ pc[w] \in {"waiting", "woken"}
    /\ pc' = [pc EXCEPT ![w] = "gone"]
    /\ UNCHANGED <<queue, counters, vChecks, fOk, verdict, added, done, result>>

-----------------------------------------------------------------------------
LoopStep(t) == Enter(t) \/ Wake(t) \/ Finish(t)

Next ==
    \/ Control
    \/ \E S \in SUBSET Checks : Add(S)
    \/ \E t \in Threads : LoopStep(t) \/ SpuriousWakeup(t)
    \/ \E w \in Workers : Interrupt(w)

\* The master runs, and a worker that holds a batch gets to the end of it;
\* nothing makes a worker start or wake up.
Fairness ==
    /\ WF_vars(Wake(Master) \/ Finish(Master))
    /\ \A w \in Workers : WF_vars(Finish(w))

Spec == Init /\ [][Next]_vars /\ Fairness

-----------------------------------------------------------------------------
(* Properties.                                                             *)

\* The counters stay natural numbers (nTodo is unsigned) and the program
\* counters and batches have their types.
TypeOK ==
    /\ queue \subseteq Checks /\ added \subseteq Checks /\ done \subseteq Checks
    /\ nIdle \in Nat /\ nTotal \in Nat /\ nTodo \in Nat
    /\ fAllOk \in BOOLEAN /\ result \in BOOLEAN
    /\ pc \in [Threads -> {"start", "out", "adding", "waiting", "woken", "working", "gone"}]
    /\ vChecks \in [Threads -> SUBSET Checks]
    /\ fOk \in [Threads -> BOOLEAN]
    /\ verdict \in [Checks -> BOOLEAN]

\* Every check the master added is queued, in exactly one thread's batch, or
\* settled, and nTodo counts those that are not settled ("This includes
\* elements that are no longer queued, but still in the worker's own batches").
NoCheckLost ==
    /\ nTodo = Cardinality(added \ done)
    /\ added \ done = queue \cup UNION {vChecks[t] : t \in Threads}
    /\ \A t \in Threads : vChecks[t] \cap queue = {}
    /\ \A t, u \in Threads : t # u => vChecks[t] \cap vChecks[u] = {}

\* Wait returns true exactly if every check of the block passed, whichever
\* threads ran them and whatever failed before: a block with a bad script is
\* never taken, and a failure does not leak into the next block.
WaitIsExact == pc[Master] = "out" => (result <=> \A c \in added : verdict[c])

\* The assertion of CCheckQueueControl: between two blocks the queue is idle,
\* also while workers start up or have been interrupted.
IdleBetweenBlocks == pc[Master] = "out" => IsIdle

\* Wait returns, even if no worker ever helps or wakes up.
WaitReturns == pc[Master] \in {"waiting", "woken", "working"} ~> pc[Master] = "out"
=============================================================================
