------------------------------- MODULE Mining -------------------------------
(***************************************************************************)
(* The internal miner (BitcoinMiner and GenerateBitcoins, miner.cpp),      *)
(* beside a chain whose tip other blocks move.                             *)
(*                                                                         *)
(* A block is its height: other blocks extend the tip.  Moving the tip and *)
(* the NotifyBlockTip signal that tells of it are two steps, as cs_main is *)
(* released between them.                                                  *)
(* What the solver finds is a choice, and so are the reasons to rebuild a  *)
(* block that depend on the clock, the nonce or the memory pool.           *)
(***************************************************************************)
EXTENDS Naturals, FiniteSets

CONSTANTS
    Miners,         \* miner threads, each started once
    MaxBlocks       \* bound on the blocks

VARIABLES
    tip,            \* chainActive.Tip()
    signals,        \* tips whose NotifyBlockTip is still to be sent
    peers,          \* whether vNodes is not empty
    m,              \* miner thread -> its state
    cancelSolver    \* miner thread -> flag

miningVars == <<tip, signals, peers, m, cancelSolver>>
chainVars  == <<tip, signals>>

NewMiner == [pc |-> "idle", pindexPrev |-> 0, prev |-> 0, nHeight |-> 0, stop |-> FALSE]

Init ==
    /\ tip = 1 /\ signals = {} /\ peers \in BOOLEAN
    /\ m = [t \in Miners |-> NewMiner]
    /\ cancelSolver = [t \in Miners |-> FALSE]

-----------------------------------------------------------------------------
(* The chain around the miners.                                            *)

\* A block of a peer becomes the tip.
OtherBlock ==
    /\ tip < MaxBlocks
    /\ tip' = tip + 1
    /\ signals' = signals \cup {tip + 1}
    /\ UNCHANGED <<peers, m, cancelSolver>>

\* uiInterface.NotifyBlockTip: the slot of every miner that is connected.
Cancelling == [t \in Miners |-> IF m[t].pc \in {"idle", "done"} THEN cancelSolver[t] ELSE TRUE]
NotifyBlockTip(b) ==
    /\ b \in signals
    /\ signals' = signals \ {b}
    /\ cancelSolver' = Cancelling
    /\ UNCHANGED <<tip, peers, m>>

PeersChange ==
    /\ peers' = ~peers
    /\ UNCHANGED <<chainVars, m, cancelSolver>>

-----------------------------------------------------------------------------
(* A miner thread.                                                         *)

Moved(t, changes) == m' = [m EXCEPT ![t] = changes]
Ends(t) == Moved(t, [NewMiner EXCEPT !.pc = "done"])
Rebuilds(t) == Moved(t, [NewMiner EXCEPT !.pc = "wait", !.stop = m[t].stop])

\* GenerateBitcoins: the threads that run are interrupted, and with fGenerate a new one is started.
GenerateBitcoins(S) ==
    /\ \A t \in S : m[t].pc = "idle"
    /\ m' = [t \in Miners |-> IF t \in S THEN [m[t] EXCEPT !.pc = "wait"]
                              ELSE IF m[t].pc \in {"idle", "done"} THEN m[t] ELSE [m[t] EXCEPT !.stop = TRUE]]
    /\ UNCHANGED <<chainVars, cancelSolver, peers>>

\* Busy-wait for the network to come online, where MilliSleep is an interruption point; then
\* pindexPrev = chainActive.Tip(), without cs_main.
WaitForPeers(t) ==
    /\ m[t].pc = "wait"
    /\ IF m[t].stop /\ ~peers THEN Ends(t)
       ELSE peers /\ Moved(t, [m[t] EXCEPT !.pc = "create", !.pindexPrev = tip])
    /\ UNCHANGED <<chainVars, cancelSolver, peers>>

\* CreateNewBlockWithKey: no key is left or the template fails its own test, or it extends the tip.
CreateNewBlock(t) ==
    /\ m[t].pc = "create"
    /\ Ends(t) \/ Moved(t, [m[t] EXCEPT !.pc = "extra", !.prev = tip])
    /\ UNCHANGED <<chainVars, cancelSolver, peers>>

\* Mutant: the flag is cleared before the solver starts.
IncrementExtraNonceFreshFlag(t) ==
    /\ m[t].pc = "extra"
    /\ Moved(t, [m[t] EXCEPT !.pc = "solve", !.nHeight = m[t].pindexPrev + 1])
    /\ cancelSolver' = [cancelSolver EXCEPT ![t] = FALSE]
    /\ UNCHANGED <<chainVars, peers>>

\* The coinbase holds the height over pindexPrev, which need not be the block that the template extends.
IncrementExtraNonce(t) ==
    /\ m[t].pc = "extra"
    /\ Moved(t, [m[t] EXCEPT !.pc = "solve", !.nHeight = m[t].pindexPrev + 1])
    /\ UNCHANGED <<chainVars, cancelSolver, peers>>

\* The solver ends: it found nothing, it saw the flag, or a solution meets the
\* target, and ProcessBlockFound looks whether the block is stale.
Solve(t) ==
    /\ m[t].pc = "solve"
    /\ \/ Moved(t, [m[t] EXCEPT !.pc = "check"])
       \/ cancelSolver[t] /\ Moved(t, [m[t] EXCEPT !.pc = "caught"])
       \/ IF m[t].prev = tip THEN Moved(t, [m[t] EXCEPT !.pc = "submit"]) ELSE Rebuilds(t)
    /\ UNCHANGED <<chainVars, cancelSolver, peers>>

\* The handler of EhSolverCancelledException.
Caught(t) ==
    /\ m[t].pc = "caught"
    /\ cancelSolver' = [cancelSolver EXCEPT ![t] = FALSE]
    /\ Moved(t, [m[t] EXCEPT !.pc = "check"])
    /\ UNCHANGED <<chainVars, peers>>

\* ProcessNewBlock: the height in the coinbase must be right; a block that extends the tip becomes
\* the tip, and its signal is sent before the call returns.  ActivateBestChain is an interruption point.
SubmitBlock(t) ==
    /\ m[t].pc = "submit"
    /\ IF m[t].nHeight # m[t].prev + 1
       THEN Rebuilds(t) /\ UNCHANGED chainVars
       ELSE IF m[t].stop
       THEN Ends(t) /\ UNCHANGED chainVars
       ELSE IF m[t].prev = tip /\ tip < MaxBlocks
       THEN /\ tip' = m[t].nHeight
            /\ Moved(t, [m[t] EXCEPT !.pc = "signal"])
            /\ UNCHANGED signals
       ELSE Moved(t, [m[t] EXCEPT !.pc = "reset"]) /\ UNCHANGED chainVars
    /\ UNCHANGED <<cancelSolver, peers>>

SignalOwn(t) ==
    /\ m[t].pc = "signal"
    /\ cancelSolver' = Cancelling
    /\ Moved(t, [m[t] EXCEPT !.pc = "reset"])
    /\ UNCHANGED <<chainVars, peers>>

\* Ignore chain updates caused by us; a block was found, so another one is made.
ResetFlag(t) ==
    /\ m[t].pc = "reset"
    /\ cancelSolver' = [cancelSolver EXCEPT ![t] = FALSE]
    /\ Rebuilds(t)
    /\ UNCHANGED <<chainVars, peers>>

\* The interruption point, and whether the block needs to be rebuilt: no peers, a worn out nonce, old
\* transactions, another tip.  Otherwise the next nonce is tried.
CheckForRebuild(t) ==
    /\ m[t].pc = "check"
    /\ IF m[t].stop THEN Ends(t)
       ELSE \/ peers /\ m[t].pindexPrev = tip /\ Moved(t, [m[t] EXCEPT !.pc = "solve"])
            \/ Rebuilds(t)
    /\ UNCHANGED <<chainVars, cancelSolver, peers>>

MinerStep(t) ==
    WaitForPeers(t) \/ CreateNewBlock(t) \/ IncrementExtraNonce(t) \/ Solve(t) \/ Caught(t) \/ SubmitBlock(t)
        \/ SignalOwn(t) \/ ResetFlag(t) \/ CheckForRebuild(t)

-----------------------------------------------------------------------------
Next ==
    \/ OtherBlock
    \/ \E b \in signals : NotifyBlockTip(b)
    \/ PeersChange
    \/ \E S \in SUBSET Miners : Cardinality(S) <= 1 /\ GenerateBitcoins(S)
    \/ \E t \in Miners : MinerStep(t)

\* The threads run, and a signal is sent by the thread that moved the tip.
Spec ==
    /\ Init /\ [][Next]_miningVars
    /\ \A t \in Miners : WF_miningVars(MinerStep(t))
    /\ WF_miningVars(\E b \in signals : NotifyBlockTip(b))

-----------------------------------------------------------------------------
(* Properties.                                                             *)

\* A solver that works over a block that is no longer the tip is told: its flag is up, or the signal
\* that raises it is still to come.  The flag is cleared in two places of the thread, and each may swallow
\* the news of a tip the thread has not seen.
StaleWorkIsCancelled ==
    \A t \in Miners : m[t].pc = "solve" /\ m[t].prev # tip =>
        cancelSolver[t] \/ signals # {} \/ \E u \in Miners : m[u].pc = "signal"

\* Once no more blocks come the miners work on the tip.
MinersFollowTip == <>[](\A t \in Miners : m[t].pc = "solve" => m[t].prev = tip)

\* An interrupted miner ends: a thread that has ended is as new.
MinersStop == \A t \in Miners : m[t].stop ~> ~m[t].stop
=============================================================================
