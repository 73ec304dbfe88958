------------------------------ MODULE LongPoll ------------------------------
(***************************************************************************)
(* getblocktemplate with its long polling and the template it keeps        *)
(* between calls (rpc/mining.cpp), beside a chain whose tip moves.         *)
(*                                                                         *)
(* A tip is its number.  GetTransactionsUpdated counts what else changes a *)
(* template.  Whether five seconds have gone by, whether CreateNewBlock    *)
(* succeeds and when a wait times out are choices.                         *)
(***************************************************************************)
EXTENDS Naturals

CONSTANTS
    Pollers,        \* RPC threads that serve getblocktemplate
    MaxTips,        \* bound on the tips
    MaxUpdates,     \* bound on the changes of the memory pool
    Null

VARIABLES
    tip,            \* chainActive.Tip()
    nUpdated,       \* mempool.GetTransactionsUpdated()
    cached,         \* the statics of getblocktemplate: [pindexPrev, nUpdatedLast, prev]
    poll,           \* poller -> its state
    fRPCRunning

pollVars == <<tip, nUpdated, cached, poll, fRPCRunning>>

Init ==
    /\ tip = 1 /\ nUpdated = 0
    /\ cached = [pindexPrev |-> Null, nUpdatedLast |-> 0, prev |-> Null]
    /\ poll = [p \in Pollers |-> [pc |-> "idle", watched |-> Null, nUpdatedLast |-> 0, answer |-> Null]]
    /\ fRPCRunning = TRUE

\* notify_all wakes the pollers that sleep.
Woken == [p \in Pollers |-> IF poll[p].pc = "sleep" THEN [poll[p] EXCEPT !.pc = "check"] ELSE poll[p]]

UpdateTip ==
    /\ tip < MaxTips
    /\ tip' = tip + 1
    /\ nUpdated' = nUpdated + 1
    /\ poll' = Woken
    /\ UNCHANGED <<cached, fRPCRunning>>

\* A transaction enters the memory pool.
TxArrives ==
    /\ nUpdated < MaxUpdates
    /\ nUpdated' = nUpdated + 1
    /\ UNCHANGED <<tip, cached, poll, fRPCRunning>>

Polled(p, changes) == poll' = [poll EXCEPT ![p] = changes]
Chain == <<tip, nUpdated>>

\* A call, with the longpollid of an earlier template or without one.
Call(p) ==
    /\ poll[p].pc = "idle" /\ fRPCRunning
    /\ \/ Polled(p, [poll[p] EXCEPT !.pc = "fresh", !.answer = Null])
       \/ poll[p].watched # Null /\ Polled(p, [poll[p] EXCEPT !.pc = "check", !.answer = Null])
    /\ UNCHANGED <<Chain, cached, fRPCRunning>>

\* The condition of the loop; the notification is not sent under csBestBlock, so it may come now.
CheckTip(p) ==
    /\ poll[p].pc = "check"
    /\ Polled(p, [poll[p] EXCEPT !.pc = IF tip = poll[p].watched /\ fRPCRunning THEN "checked" ELSE "build"])
    /\ UNCHANGED <<Chain, cached, fRPCRunning>>

Sleep(p) ==
    /\ poll[p].pc = "checked"
    /\ Polled(p, [poll[p] EXCEPT !.pc = "sleep"])
    /\ UNCHANGED <<Chain, cached, fRPCRunning>>

\* Mutant: a wait without a time limit.
WaitForGood(p) ==
    /\ poll[p].pc = "sleep" /\ nUpdated # poll[p].nUpdatedLast /\ tip = poll[p].watched
    /\ Polled(p, [poll[p] EXCEPT !.pc = "build"])
    /\ UNCHANGED <<Chain, cached, fRPCRunning>>

\* timed_wait returns false.
Timeout(p) ==
    /\ poll[p].pc = "sleep"
    /\ Polled(p, [poll[p] EXCEPT !.pc = IF nUpdated # poll[p].nUpdatedLast THEN "build" ELSE "check"])
    /\ UNCHANGED <<Chain, cached, fRPCRunning>>

\* A new template: pindexPrev is cleared first and set once CreateNewBlockWithKey succeeded.
Build(c, ok) ==
    [pindexPrev |-> IF ok THEN tip ELSE Null, nUpdatedLast |-> nUpdated, prev |-> IF ok THEN tip ELSE Null]

\* A call that has waited ends with an error when the server stops.
Goes(p) == fRPCRunning \/ poll[p].pc = "fresh"

\* The rest of the call, under cs_main: the block that was kept, or a new one.
Answer(p) ==
    /\ poll[p].pc \in {"build", "fresh"}
    /\ \E c \in (IF cached.pindexPrev = tip /\ cached.nUpdatedLast = nUpdated THEN {cached} ELSE {Build(cached, TRUE), Build(cached, FALSE)})
                \cup (IF cached.pindexPrev = tip THEN {cached} ELSE {}) :
          /\ cached' = IF Goes(p) THEN c ELSE cached
          /\ Polled(p, IF Goes(p) /\ c.pindexPrev # Null
                       THEN [poll[p] EXCEPT !.pc = "idle", !.answer = c.prev, !.watched = tip, !.nUpdatedLast = c.nUpdatedLast]
                       ELSE [poll[p] EXCEPT !.pc = "idle"])
    /\ UNCHANGED <<Chain, fRPCRunning>>

PollStep(p) == CheckTip(p) \/ Sleep(p) \/ Timeout(p) \/ Answer(p)

\* OnRPCStopped.
StopRPC ==
    /\ fRPCRunning
    /\ fRPCRunning' = FALSE
    /\ poll' = Woken
    /\ UNCHANGED <<Chain, cached>>

-----------------------------------------------------------------------------
Next ==
    \/ UpdateTip \/ TxArrives \/ StopRPC
    \/ \E p \in Pollers : Call(p) \/ PollStep(p)

\* The RPC threads run, and timed_wait times out.
Spec ==
    /\ Init /\ [][Next]_pollVars
    /\ \A p \in Pollers : WF_pollVars(PollStep(p))

-----------------------------------------------------------------------------
(* Properties.                                                             *)

\* What getblocktemplate keeps between calls is the block made over pindexPrev, and what it answers
\* extended the tip of that moment: a failed attempt leaves nothing that could be handed out.
TemplatesAreCurrent ==
    /\ cached.pindexPrev # Null => cached.prev = cached.pindexPrev
    /\ \A p \in Pollers : poll[p].answer # Null => poll[p].answer = poll[p].watched

\* A poller whose block is no longer the tip is answered, although the notification may come between its
\* look at the tip and its wait.
PollersAreAnswered == \A p \in Pollers : (poll[p].pc # "idle" /\ poll[p].watched # tip) ~> poll[p].pc = "idle"
=============================================================================
