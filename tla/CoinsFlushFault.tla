-------------------------- MODULE CoinsFlushFault --------------------------
(***************************************************************************)
(* CoinsCache with a database write that fails.  CCoinsViewDB::BatchWrite  *)
(* empties the maps of pcoinsTip while it fills the batch; if LevelDB then *)
(* refuses the batch, WriteBatch throws, FlushStateToDisk catches it and   *)
(* AbortNode asks for a shutdown, and Shutdown() calls FlushStateToDisk    *)
(* once more before it deletes pcoinsTip.                                  *)
(***************************************************************************)
EXTENDS CoinsCache

VARIABLES
    aborting,   \* AbortNode was called: fRequestShutdown
    committed   \* history: the snapshots the tip has been at

faultVars == <<vars, aborting, committed>>

FaultInit ==
    /\ Init
    /\ aborting = FALSE
    /\ committed = {absChain}

\* The node at work; a block that is connected or disconnected is a snapshot.
Working ==
    /\ ~aborting
    /\ Next
    /\ committed' = committed \cup {absChain'}
    /\ UNCHANGED aborting

\* pcoinsTip->Flush() throws: the entries are gone, hashBlock is not.
FlushTipFails ==
    /\ ~viewOpen /\ ~aborting
    /\ tipCoins' = EmptyCache
    /\ aborting' = TRUE
    /\ UNCHANGED <<dbVars, tipBest, viewVars, committed>>

\* FlushStateToDisk in Shutdown(); this time LevelDB takes the batch.
ShutdownFlush ==
    /\ aborting
    /\ FlushTip
    /\ UNCHANGED <<aborting, committed>>

\* The process ends and is started again.
Restart ==
    /\ aborting
    /\ Crash
    /\ aborting' = FALSE
    /\ UNCHANGED committed

FaultNext == Working \/ FlushTipFails \/ ShutdownFlush \/ Restart

FaultSpec == FaultInit /\ [][FaultNext]_faultVars

(* GetBestBlock of the chainstate database is "the block hash whose state  *)
(* this CCoinsView currently represents" (coins.h): the coins on disk and  *)
(* the best block on disk belong to one snapshot of the chain.             *)
BestBlockNamesTheState == absDisk \in committed
=============================================================================
