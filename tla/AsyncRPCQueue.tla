---------------------------- MODULE AsyncRPCQueue ----------------------------
(***************************************************************************)
(* The queue of long-running RPC operations (asyncrpcqueue.cpp,            *)
(* asyncrpcoperation.cpp): z_sendmany and z_shieldcoinbase add operations, *)
(* worker threads run them, z_getoperationresult collects the finished     *)
(* ones, and one thread ends the queue by closing it (StopRPC, the         *)
(* destructor) or by finishing it.                                         *)
(*                                                                         *)
(* A section under the queue's mutex is one action, except the loop of     *)
(* cancelAllOperations: it holds the mutex but races with the workers that *)
(* are outside it, because an operation's state_ is a separate atomic.     *)
(***************************************************************************)
EXTENDS Naturals, FiniteSets, SequencesExt

CONSTANTS
    Ops,
    NoOp,       \* a null shared_ptr
    Workers,
    Endings     \* which of "close" and "finish" the ending thread may call

VARIABLES
    operation_id_queue,
    operation_map,      \* the operations in the map
    state,              \* state_ of each operation
    closed, finish,     \* closed_, finish_
    pc,                 \* a worker: "section" (after the mutex), "asleep", "check",
                        \* "start", "body", "end", "gone"
    current,            \* the operation a worker took
    ender,              \* the ending thread: "out", "cancel" (to take the mutex),
                        \* "loop" and "set" (holding it), "notify", "join", "back"
    toCancel,           \* the operations cancelAllOperations has still to visit
    victim,             \* the one cancel() found READY and is about to set
    client,             \* z_getoperationresult: [at, ids, op, status, value]
    outcome,            \* what the body of an operation left: "none", "result", "error"
    runs,               \* history: how often the body of an operation ran
    accepted,           \* history: the operations the queue took
    replies             \* history: what z_getoperationresult reported

queueVars == <<operation_id_queue, operation_map, accepted>>
flags     == <<closed, finish>>
workVars  == <<pc, current, outcome, runs>>
endVars   == <<ender, toCancel, victim>>
vars      == <<queueVars, state, flags, workVars, endVars, client, replies>>

Idle == [at |-> "idle", ids |-> {}, op |-> NoOp, status |-> "READY", value |-> "none"]

Init ==
    /\ operation_id_queue = <<>> /\ operation_map = {} /\ accepted = {}
    /\ state = [o \in Ops |-> "READY"]
    /\ closed = FALSE /\ finish = FALSE
    /\ pc = [w \in Workers |-> "section"]
    /\ current = [w \in Workers |-> NoOp]
    /\ outcome = [o \in Ops |-> "none"] /\ runs = [o \in Ops |-> 0]
    /\ ender = "out" /\ toCancel = {} /\ victim = NoOp
    /\ client = Idle /\ replies = {}

Unlocked == ender \notin {"loop", "set"}
IsFinal(s) == s \in {"CANCELLED", "FAILED", "SUCCESS"}

-----------------------------------------------------------------------------
(* Adding operations.                                                      *)

Asleep == {w \in Workers : pc[w] = "asleep"}

NotifyOne ==
    \/ Asleep = {} /\ UNCHANGED pc
    \/ \E w \in Asleep : pc' = [pc EXCEPT ![w] = "section"]

NotifyAll == pc' = [w \in Workers |-> IF pc[w] = "asleep" THEN "section" ELSE pc[w]]

addOperation(o) ==
    /\ Unlocked /\ o \notin accepted
    /\ ~closed /\ ~finish
    /\ operation_map' = operation_map \cup {o}
    /\ operation_id_queue' = Append(operation_id_queue, o)
    /\ accepted' = accepted \cup {o}
    /\ NotifyOne
    /\ UNCHANGED <<state, flags, current, outcome, runs, endVars, client, replies>>

-----------------------------------------------------------------------------
(* run(): a worker.                                                        *)

Sleep(w) ==
    /\ operation_id_queue = <<>> /\ ~closed /\ ~finish
    /\ pc' = [pc EXCEPT ![w] = "asleep"]
    /\ UNCHANGED <<queueVars, current>>

Leave(w) ==
    /\ closed \/ (finish /\ operation_id_queue = <<>>)
    /\ operation_id_queue' = <<>>
    /\ pc' = [pc EXCEPT ![w] = "gone"]
    /\ UNCHANGED <<operation_map, accepted, current>>

TakeFront(w) ==
    /\ operation_id_queue # <<>> /\ ~closed
    /\ operation_id_queue' = Tail(operation_id_queue)
    /\ LET key == Head(operation_id_queue) IN
          IF key \in operation_map
          THEN /\ current' = [current EXCEPT ![w] = key]
               /\ pc' = [pc EXCEPT ![w] = "check"]
          ELSE UNCHANGED <<current, pc>>
    /\ UNCHANGED <<operation_map, accepted>>

Section(w) ==
    /\ pc[w] = "section" /\ Unlocked
    /\ Sleep(w) \/ Leave(w) \/ TakeFront(w)
    /\ UNCHANGED <<state, flags, outcome, runs, endVars, client, replies>>

SpuriousWakeup(w) ==
    /\ pc[w] = "asleep"
    /\ pc' = [pc EXCEPT ![w] = "section"]
    /\ UNCHANGED <<queueVars, state, flags, current, outcome, runs, endVars, client, replies>>

\* The isCancelled() of run() and the one at the head of main(): two reads with nothing
\* in between, so one.
Check(w) ==
    /\ pc[w] = "check"
    /\ \/ /\ state[current[w]] = "CANCELLED"
          /\ pc' = [pc EXCEPT ![w] = "section"]
          /\ current' = [current EXCEPT ![w] = NoOp]
       \/ /\ state[current[w]] # "CANCELLED"
          /\ pc' = [pc EXCEPT ![w] = "start"]
          /\ UNCHANGED current
    /\ UNCHANGED <<queueVars, state, flags, outcome, runs, endVars, client, replies>>

Start(w) ==
    /\ pc[w] = "start"
    /\ state' = [state EXCEPT ![current[w]] = "EXECUTING"]
    /\ pc' = [pc EXCEPT ![w] = "body"]
    /\ UNCHANGED <<queueVars, flags, current, outcome, runs, endVars, client, replies>>

Body(w) ==
    /\ pc[w] = "body"
    /\ \E v \in {"result", "error"} : outcome' = [outcome EXCEPT ![current[w]] = v]
    /\ runs' = [runs EXCEPT ![current[w]] = @ + 1]
    /\ pc' = [pc EXCEPT ![w] = "end"]
    /\ UNCHANGED <<queueVars, state, flags, current, endVars, client, replies>>

Verdict(v) == IF v = "result" THEN "SUCCESS" ELSE "FAILED"

End(w) ==
    /\ pc[w] = "end"
    /\ state' = [state EXCEPT ![current[w]] = Verdict(outcome[current[w]])]
    /\ current' = [current EXCEPT ![w] = NoOp]
    /\ pc' = [pc EXCEPT ![w] = "section"]
    /\ UNCHANGED <<queueVars, flags, outcome, runs, endVars, client, replies>>

-----------------------------------------------------------------------------
(* The thread that ends the queue.                                         *)

close ==
    /\ ender = "out" /\ "close" \in Endings
    /\ closed' = TRUE
    /\ ender' = "cancel"
    /\ UNCHANGED <<queueVars, state, finish, workVars, toCancel, victim, client, replies>>

cancelAllOperations ==
    /\ ender = "cancel"
    /\ toCancel' = operation_map
    /\ ender' = "loop"
    /\ UNCHANGED <<queueVars, state, flags, workVars, victim, client, replies>>

\* cancel(): isReady() ...
CancelTest(o) ==
    /\ ender = "loop" /\ o \in toCancel
    /\ toCancel' = toCancel \ {o}
    /\ IF state[o] = "READY" THEN ender' = "set" /\ victim' = o
                            ELSE UNCHANGED <<ender, victim>>
    /\ UNCHANGED <<queueVars, state, flags, workVars, client, replies>>

\* ... and then set_state(CANCELLED), whatever the state has become.
CancelSet ==
    /\ ender = "set"
    /\ state' = [state EXCEPT ![victim] = "CANCELLED"]
    /\ ender' = "loop" /\ victim' = NoOp
    /\ UNCHANGED <<queueVars, flags, workVars, toCancel, client, replies>>

CancelDone ==
    /\ ender = "loop" /\ toCancel = {}
    /\ NotifyAll
    /\ ender' = "notify"
    /\ UNCHANGED <<queueVars, state, flags, current, outcome, runs, toCancel, victim, client, replies>>

Finish ==
    /\ ender = "out" /\ "finish" \in Endings
    /\ finish' = TRUE
    /\ ender' = "notify"
    /\ UNCHANGED <<queueVars, state, closed, workVars, toCancel, victim, client, replies>>

wait_for_worker_threads ==
    /\ ender = "notify"
    /\ NotifyAll
    /\ ender' = "join"
    /\ UNCHANGED <<queueVars, state, flags, current, outcome, runs, toCancel, victim, client, replies>>

Join ==
    /\ ender = "join" /\ \A w \in Workers : pc[w] = "gone"
    /\ ender' = "back"
    /\ UNCHANGED <<queueVars, state, flags, workVars, toCancel, victim, client, replies>>

-----------------------------------------------------------------------------
(* z_getoperationresult.  It holds cs_main and cs_wallet, so one call at a *)
(* time; each queue operation in it takes the queue's mutex separately.    *)

\* The next turn of the loop; what the last one read is gone.
NextId == [Idle EXCEPT !.at = "loop", !.ids = client.ids]

getAllOperationIds ==
    /\ client.at = "idle" /\ Unlocked /\ operation_map # {}
    /\ client' = [client EXCEPT !.at = "loop", !.ids = operation_map]
    /\ UNCHANGED <<queueVars, state, flags, workVars, endVars, replies>>

\* getOperationForId, and the state_ that getStatus reads first.
GetStatus(o) ==
    /\ client.at = "loop" /\ o \in client.ids /\ Unlocked
    /\ client' = IF o \in operation_map
                 THEN [client EXCEPT !.ids = @ \ {o}, !.at = "value", !.op = o, !.status = state[o]]
                 ELSE [client EXCEPT !.ids = @ \ {o}]
    /\ UNCHANGED <<queueVars, state, flags, workVars, endVars, replies>>

\* getError and getResult read state_ again.
GetValue ==
    /\ client.at = "value"
    /\ client' = IF IsFinal(client.status)
                 THEN [client EXCEPT !.at = "pop",
                          !.value = IF state[client.op] \in {"FAILED", "SUCCESS"} THEN outcome[client.op] ELSE "none"]
                 ELSE NextId
    /\ UNCHANGED <<queueVars, state, flags, workVars, endVars, replies>>

popOperationForId ==
    /\ client.at = "pop" /\ Unlocked
    /\ operation_map' = operation_map \ {client.op}
    /\ replies' = replies \cup {[op |-> client.op, status |-> client.status, value |-> client.value]}
    /\ client' = NextId
    /\ UNCHANGED <<operation_id_queue, accepted, state, flags, workVars, endVars>>

Reply ==
    /\ client.at = "loop" /\ client.ids = {}
    /\ client' = Idle
    /\ UNCHANGED <<queueVars, state, flags, workVars, endVars, replies>>

-----------------------------------------------------------------------------
Work(w)  == Section(w) \/ Check(w) \/ Start(w) \/ Body(w) \/ End(w)
Cancel   == cancelAllOperations \/ (\E o \in Ops : CancelTest(o)) \/ CancelSet \/ CancelDone
Ending   == Cancel \/ wait_for_worker_threads \/ Join
z_getoperationresult ==
    \/ getAllOperationIds \/ GetValue \/ popOperationForId \/ Reply
    \/ \E o \in Ops : GetStatus(o)

Next ==
    \/ \E o \in Ops : addOperation(o)
    \/ \E w \in Workers : Work(w) \/ SpuriousWakeup(w)
    \/ close \/ Finish \/ Ending
    \/ z_getoperationresult

\* A worker thread keeps being scheduled and the body of an operation returns; the ending
\* thread, once it has begun, goes on.  Nothing obliges anybody to end the queue, to add
\* an operation or to ask for a result.
Spec == Init /\ [][Next]_vars /\ (\A w \in Workers : WF_vars(Work(w))) /\ WF_vars(Ending)

-----------------------------------------------------------------------------
OperationStatus == {"READY", "EXECUTING", "CANCELLED", "FAILED", "SUCCESS"}
Outcomes == {"none", "result", "error"}

\* Every variable keeps its shape, and a worker outside the mutex with an operation in its
\* hands has a real one: the shared_ptr that run() dereferences is never null.
TypeOK ==
    /\ operation_id_queue \in Seq(Ops) /\ IsInjective(operation_id_queue)
    /\ operation_map \subseteq accepted /\ accepted \subseteq Ops
    /\ state \in [Ops -> OperationStatus]
    /\ closed \in BOOLEAN /\ finish \in BOOLEAN
    /\ pc \in [Workers -> {"section", "asleep", "check", "start", "body", "end", "gone"}]
    /\ \A w \in Workers : IF pc[w] \in {"check", "start", "body", "end"}
                           THEN current[w] \in accepted ELSE current[w] = NoOp
    /\ outcome \in [Ops -> Outcomes] /\ runs \in [Ops -> 0..1]
    /\ ender \in {"out", "cancel", "loop", "set", "notify", "join", "back"}
    /\ toCancel \subseteq Ops /\ victim \in Ops \cup {NoOp}
    /\ client \in [at : {"idle", "loop", "value", "pop"}, ids : SUBSET Ops, op : Ops \cup {NoOp},
                   status : OperationStatus, value : Outcomes]

\* closeAndWait and finishAndWait return only when nothing is left to happen: the queue is
\* empty, every operation still in the map has a final status, and after finishing each
\* accepted operation has run.
SettledOnReturn ==
    ender = "back" =>
        /\ operation_id_queue = <<>>
        /\ \A o \in operation_map : IsFinal(state[o])
        /\ finish => \A o \in accepted : runs[o] = 1 /\ state[o] = Verdict(outcome[o])

\* z_getoperationresult reports success or failure only of an operation that has run, with
\* the verdict its body reached, and forgets nothing it has not reported: an accepted
\* operation is in the map or was reported, once.
RepliesAreTrue ==
    /\ \A r \in replies : r.status # "CANCELLED" =>
          /\ runs[r.op] = 1 /\ r.status = IF outcome[r.op] = "result" THEN "SUCCESS" ELSE "FAILED"
          /\ r.value \in {"none", outcome[r.op]}
    /\ accepted = operation_map \cup {r.op : r \in replies}
    /\ \A r, q \in replies : r.op = q.op => r = q

\* Whoever ends the queue gets back from closeAndWait or finishAndWait: no worker sleeps
\* through the notification, although the flags are stored without the mutex.
EndReturns == (ender # "out") ~> (ender = "back")

\* Every operation the queue takes gets a final status, whether the queue is ended or not:
\* no wake-up of addOperation is lost.
EveryOperationSettles == \A o \in Ops : (o \in accepted) ~> IsFinal(state[o])

\* After closing, the operations that ran are the ones that report it and the cancelled
\* ones did nothing (the counts that the test of closeAndWait compares).
CancelledDidNotRun ==
    ender = "back" => \A o \in operation_map : state[o] = "CANCELLED" <=> runs[o] = 0
=============================================================================
