----------------------------- MODULE WorkQueue -----------------------------
(***************************************************************************)
(* The HTTP server's work queue (httpserver.cpp): the event thread accepts *)
(* requests and queues them, detached worker threads serve them, and the   *)
(* main thread interrupts the server, waits for the workers and deletes    *)
(* the queue.  A section under the queue's mutex is one action.            *)
(*                                                                         *)
(* A request is a name; what its handler does is left out, except that it  *)
(* replies.  A request that is dropped with the queue is answered as well: *)
(* the destructor of HTTPRequest sends an error if nothing was sent.       *)
(***************************************************************************)
EXTENDS Naturals, FiniteSets, Sequences, Functions

CONSTANTS
    Requests, NoRequest,
    Workers,
    maxDepth,
    Prompt      \* TRUE: the server is stopped only when every worker has begun to run, and
                \* deleted only when the event thread is not inside http_request_cb

WorkQueueAssumption == IsFiniteSet(Workers) /\ NoRequest \notin Requests

VARIABLES
    queue, running, numThreads,
    pc,         \* a worker: "created", "top" of its loop, "section" (after the mutex),
                \* "asleep", "busy", "leaving", "gone"
    item,       \* the request a worker serves
    dispatch,   \* the request in http_request_cb, or NoRequest
    rejecting,  \* the event thread's callback is http_reject_request_cb
    stopper,    \* the main thread: "out", "interrupting", "interrupted", "waiting" (asleep
                \* in WaitExit), "deleted"
    fate        \* of each request: "none", "open", or how it was answered

vars == <<queue, running, numThreads, pc, item, dispatch, rejecting, stopper, fate>>

Init ==
    /\ queue = <<>> /\ running = TRUE /\ numThreads = 0
    /\ pc = [w \in Workers |-> "created"] /\ item = [w \in Workers |-> NoRequest]
    /\ dispatch = NoRequest /\ rejecting = FALSE
    /\ stopper = "out"
    /\ fate = [r \in Requests |-> "none"]

Alive == stopper # "deleted"
Asleep == {w \in Workers : pc[w] = "asleep"}
Woken(f, W) == [w \in Workers |-> IF w \in W THEN "section" ELSE f[w]]

-----------------------------------------------------------------------------
(* The event thread.                                                       *)

http_request_cb(r) ==
    /\ dispatch = NoRequest /\ fate[r] = "none"
    /\ \/ /\ rejecting
          /\ fate' = [fate EXCEPT ![r] = "unavailable"]
          /\ UNCHANGED dispatch
       \/ /\ ~rejecting
          /\ fate' = [fate EXCEPT ![r] = "open"]
          /\ dispatch' = r
    /\ UNCHANGED <<queue, running, numThreads, pc, item, rejecting, stopper>>

\* notify_one wakes one thread that waits on cond: a worker, or the main thread in WaitExit.
NotifyOne ==
    \/ Asleep = {} /\ stopper # "waiting" /\ UNCHANGED <<pc, stopper>>
    \/ \E w \in Asleep : pc' = Woken(pc, {w}) /\ UNCHANGED stopper
    \/ stopper = "waiting" /\ stopper' = "interrupted" /\ UNCHANGED pc

Enqueue ==
    /\ dispatch # NoRequest /\ Alive
    /\ dispatch' = NoRequest
    /\ \/ /\ Len(queue) >= maxDepth
          /\ fate' = [fate EXCEPT ![dispatch] = "depth exceeded"]
          /\ UNCHANGED <<queue, pc, stopper>>
       \/ /\ Len(queue) < maxDepth
          /\ queue' = Append(queue, dispatch)
          /\ NotifyOne
          /\ UNCHANGED fate
    /\ UNCHANGED <<running, numThreads, item, rejecting>>

-----------------------------------------------------------------------------
(* Run: a worker.                                                          *)

Start(w) ==
    /\ pc[w] = "created" /\ Alive
    /\ numThreads' = numThreads + 1
    /\ pc' = [pc EXCEPT ![w] = "top"]
    /\ UNCHANGED <<queue, running, item, dispatch, rejecting, stopper, fate>>

\* The loop's condition, read without the mutex: once Interrupt has written running the read
\* may return either value.
Loop(w) ==
    /\ pc[w] = "top"
    /\ \/ pc' = [pc EXCEPT ![w] = "section"]
       \/ ~running /\ pc' = [pc EXCEPT ![w] = "leaving"]
    /\ UNCHANGED <<queue, running, numThreads, item, dispatch, rejecting, stopper, fate>>

Section(w) ==
    /\ pc[w] = "section"
    /\ \/ /\ running /\ queue = <<>>
          /\ pc' = [pc EXCEPT ![w] = "asleep"]
          /\ UNCHANGED <<queue, item>>
       \/ /\ ~running
          /\ pc' = [pc EXCEPT ![w] = "leaving"]
          /\ UNCHANGED <<queue, item>>
       \/ /\ running /\ queue # <<>>
          /\ item' = [item EXCEPT ![w] = Head(queue)]
          /\ queue' = Tail(queue)
          /\ pc' = [pc EXCEPT ![w] = "busy"]
    /\ UNCHANGED <<running, numThreads, dispatch, rejecting, stopper, fate>>

SpuriousWakeup(w) ==
    /\ pc[w] = "asleep"
    /\ pc' = Woken(pc, {w})
    /\ UNCHANGED <<queue, running, numThreads, item, dispatch, rejecting, stopper, fate>>

ServeKeeps(w) ==
    /\ pc[w] = "busy"
    /\ fate' = [fate EXCEPT ![item[w]] = "served"]
    /\ pc' = [pc EXCEPT ![w] = "top"]
    /\ UNCHANGED <<queue, running, numThreads, item, dispatch, rejecting, stopper>>

Serve(w) ==
    /\ pc[w] = "busy"
    /\ fate' = [fate EXCEPT ![item[w]] = "served"]
    /\ item' = [item EXCEPT ![w] = NoRequest]
    /\ pc' = [pc EXCEPT ![w] = "top"]
    /\ UNCHANGED <<queue, running, numThreads, dispatch, rejecting, stopper>>

NotifyWorkers(f) ==
    /\ pc' = Woken(f, Asleep)
    /\ UNCHANGED stopper

NotifyAll(f) ==
    /\ pc' = Woken(f, Asleep)
    /\ stopper' = IF stopper = "waiting" THEN "interrupted" ELSE stopper

\* ~ThreadCounter
Leave(w) ==
    /\ pc[w] = "leaving"
    /\ numThreads' = numThreads - 1
    /\ NotifyAll([pc EXCEPT ![w] = "gone"])
    /\ UNCHANGED <<queue, running, item, dispatch, rejecting, fate>>

-----------------------------------------------------------------------------
(* The main thread.                                                        *)

InterruptHTTPServer ==
    /\ stopper = "out"
    /\ Prompt => \A w \in Workers : pc[w] # "created"
    /\ rejecting' = TRUE
    /\ stopper' = "interrupting"
    /\ UNCHANGED <<queue, running, numThreads, pc, item, dispatch, fate>>

Interrupt ==
    /\ stopper = "interrupting"
    /\ running' = FALSE
    /\ pc' = Woken(pc, Asleep)
    /\ stopper' = "interrupted"
    /\ UNCHANGED <<queue, numThreads, item, dispatch, rejecting, fate>>

\* WaitExit sleeps, or returns and StopHTTPServer deletes the queue with what is in it.
WaitExit ==
    /\ stopper = "interrupted"
    /\ \/ /\ numThreads > 0
          /\ stopper' = "waiting"
          /\ UNCHANGED <<queue, fate>>
       \/ /\ numThreads = 0
          /\ Prompt => dispatch = NoRequest
          /\ stopper' = "deleted"
          /\ queue' = <<>>
          /\ fate' = [r \in Requests |-> IF r \in Range(queue) THEN "unhandled" ELSE fate[r]]
    /\ UNCHANGED <<running, numThreads, pc, item, dispatch, rejecting>>

Work(w) == Start(w) \/ Loop(w) \/ Section(w) \/ Serve(w) \/ Leave(w)
Stop    == Interrupt \/ WaitExit

Next ==
    \/ \E r \in Requests : http_request_cb(r)
    \/ Enqueue
    \/ \E w \in Workers : Work(w) \/ SpuriousWakeup(w)
    \/ InterruptHTTPServer \/ Stop

\* Threads that can run do, handlers return, and a shutdown that has begun goes on; no
\* request has to come and the server need not be stopped.
Spec ==
    /\ Init /\ [][Next]_vars
    /\ WF_vars(Enqueue) /\ WF_vars(Stop)
    /\ \A w \in Workers : WF_vars(Work(w))

-----------------------------------------------------------------------------
\* Every variable keeps its shape, the queue keeps its bound, and numThreads counts the
\* workers inside Run.
TypeOK ==
    /\ queue \in Seq(Requests) /\ Len(queue) <= maxDepth
    /\ running \in BOOLEAN /\ rejecting \in BOOLEAN
    /\ pc \in [Workers -> {"created", "top", "section", "asleep", "busy", "leaving", "gone"}]
    /\ item \in [Workers -> Requests \cup {NoRequest}]
    /\ dispatch \in Requests \cup {NoRequest}
    /\ stopper \in {"out", "interrupting", "interrupted", "waiting", "deleted"}
    /\ fate \in [Requests -> {"none", "open", "served", "unavailable", "depth exceeded", "unhandled"}]
    /\ numThreads = Cardinality({w \in Workers : pc[w] \notin {"created", "gone"}})

\* The destructor's precondition: when the queue is deleted the worker threads have all
\* stopped, and the event thread is not about to use it either.
DeletedUnused ==
    stopper = "deleted" => dispatch = NoRequest /\ \A w \in Workers : pc[w] = "gone"

\* A request that http_request_cb accepts is in one place until it is answered, and
\* answered once: nothing is served twice, and nothing is dropped that was served.
InOnePlace ==
    \A r \in Requests :
        Cardinality({w \in Workers : item[w] = r}) + Cardinality({i \in DOMAIN queue : queue[i] = r})
            + (IF dispatch = r THEN 1 ELSE 0) = IF fate[r] = "open" THEN 1 ELSE 0

EveryRequestInOnePlace == InOnePlace /\ (Prompt => DeletedUnused)

\* Every request gets an answer, whether the server goes on or is stopped under it.
EveryRequestAnswered == \A r \in Requests : (fate[r] = "open") ~> (fate[r] # "open")

\* StopHTTPServer gets past WaitExit: the last worker's notification reaches it, although
\* requests that are queued late wake one thread only.
StopHTTPServerReturns == (stopper # "out") ~> (stopper = "deleted")
=============================================================================
