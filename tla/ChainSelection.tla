--------------------------- MODULE ChainSelection ---------------------------
(***************************************************************************)
(* The block index and the choice of the active chain (main.cpp): headers  *)
(* and blocks that arrive in any order, setBlockIndexCandidates and        *)
(* mapBlocksUnlinked, ActivateBestChain, which several threads run and     *)
(* which gives up cs_main between its steps, and the RPCs invalidateblock  *)
(* and reconsiderblock.                                                    *)
(*                                                                         *)
(* A step that runs under cs_main is one action.  The block tree is a      *)
(* constant; what a block is worth to ConnectBlock (`verdict') is fixed in *)
(* the initial state and unknown to the node until it tries.  Pruning, I/O *)
(* errors (AbortNode) and the bookkeeping that only feeds warnings         *)
(* (pindexBestInvalid, pindexBestHeader) are left out.                     *)
(***************************************************************************)
EXTENDS Naturals, FiniteSets, FiniteSetsExt

CONSTANTS
    Genesis,
    Blocks,          \* all other blocks
    Parent,          \* [Blocks -> Blocks \cup {Genesis}], the pprev pointers
    Addr,            \* [Blocks \cup {Genesis} -> Nat], the order of the CBlockIndex pointers
    Threads,         \* threads that may call ProcessNewBlock or the RPCs
    MinBlocksToKeep, \* MIN_BLOCKS_TO_KEEP
    Worlds,          \* what may happen around the node, see World
    NoBlock          \* a NULL CBlockIndex*

AllBlocks == Blocks \cup {Genesis}

\* The blocks that are mined, the ones among them that may be bad and the verdicts these may
\* get besides "ok", and the blocks that invalidateblock and reconsiderblock are called on.
World == [mined : SUBSET Blocks, mayFail : SUBSET Blocks,
          verdicts : SUBSET {"invalid", "context", "corrupt"},
          invalidated : SUBSET Blocks, reconsidered : SUBSET Blocks]

ASSUME ChainAssumption ==
    /\ Genesis \notin Blocks /\ NoBlock \notin AllBlocks
    /\ Parent \in [Blocks -> AllBlocks]
    \* pprev has no cycle: of any blocks one is the lowest
    /\ \A S \in SUBSET Blocks : S # {} => \E b \in S : Parent[b] \notin S
    /\ Addr \in [AllBlocks -> Nat]
    /\ \A a, b \in AllBlocks : Addr[a] = Addr[b] => a = b
    /\ Worlds \subseteq World
    /\ MinBlocksToKeep \in Nat

VARIABLES
    world,        \* which of the Worlds this is
    verdict,      \* what checking the block says: "ok"; ConnectBlock says "invalid";
                  \* ContextualCheckBlock fails ("context"); ConnectBlock finds the
                  \* stored data "corrupt", which is no verdict on the block
    index,        \* mapBlockIndex: the blocks whose header was accepted
    haveData,     \* BLOCK_HAVE_DATA, nTx > 0, BLOCK_VALID_TRANSACTIONS
    connected,    \* BLOCK_HAVE_UNDO and BLOCK_VALID_SCRIPTS
    failedValid,  \* BLOCK_FAILED_VALID
    failedChild,  \* BLOCK_FAILED_CHILD
    linked,       \* nChainTx # 0
    seqId,        \* nSequenceId
    candidates,   \* setBlockIndexCandidates
    unlinked,     \* the second components of mapBlocksUnlinked, keyed by pprev
    tip,          \* chainActive.Tip()
    pc,           \* where each thread is in ActivateBestChain
    pblock,       \* the block a thread passed to ActivateBestChain, in memory
    mostWork      \* each thread's pindexMostWork

indexVars  == <<index, haveData, connected, failedValid, failedChild, linked, seqId, unlinked>>
threadVars == <<pc, pblock, mostWork>>
vars       == <<world, verdict, indexVars, candidates, tip, threadVars>>

-----------------------------------------------------------------------------
(* The tree.                                                               *)

\* A block and everything below it.
Ancestors[b \in AllBlocks] ==
    IF b = Genesis THEN {Genesis} ELSE {b} \cup Ancestors[Parent[b]]

Height(b) == Cardinality(Ancestors[b]) - 1

\* Every block proves the same work, so nChainWork counts the blocks.
ChainWork(b) == Height(b) + 1

IsAncestor(a, b) == a \in Ancestors[b]

ActiveChain == Ancestors[tip]

\* chainActive.FindFork(b)
FindFork(b) == CHOOSE a \in Ancestors[b] \cap ActiveChain :
                  \A x \in Ancestors[b] \cap ActiveChain : Height(x) <= Height(a)

\* CBlockIndexWorkComparator: a sorts before (is worse than) b.
Worse(a, b, seq) ==
    \/ ChainWork(a) < ChainWork(b)
    \/ /\ ChainWork(a) = ChainWork(b)
       /\ \/ seq[a] > seq[b]
          \/ seq[a] = seq[b] /\ Addr[a] > Addr[b]

Failed == failedValid \cup failedChild

-----------------------------------------------------------------------------
Init ==
    /\ world \in Worlds
    /\ verdict \in {v \in [AllBlocks -> {"ok"} \cup world.verdicts] :
                        \A b \in AllBlocks \ world.mayFail : v[b] = "ok"}
    /\ index = {Genesis}
    /\ haveData = {Genesis}
    /\ connected = {Genesis}
    /\ failedValid = {}
    /\ failedChild = {}
    /\ linked = {Genesis}
    /\ seqId = [b \in AllBlocks |-> IF b = Genesis THEN 1 ELSE 0]
    /\ candidates = {Genesis}
    /\ unlinked = {}
    /\ tip = Genesis
    /\ pc = [t \in Threads |-> "idle"]
    /\ pblock = [t \in Threads |-> NoBlock]
    /\ mostWork = [t \in Threads |-> NoBlock]

-----------------------------------------------------------------------------
(* Headers and blocks arrive.                                              *)

\* AcceptBlockHeader returns true: a known header that is not failed, or a
\* new one whose parent is known and not failed.
HeaderAccepted(b) ==
    IF b \in index THEN b \notin Failed
                   ELSE Parent[b] \in index \ Failed

\* A "headers" message.
AcceptBlockHeader(b) ==
    /\ b \notin index
    /\ HeaderAccepted(b)
    /\ index' = index \cup {b}
    /\ UNCHANGED <<world, verdict, haveData, connected, failedValid, failedChild, linked, seqId,
                   unlinked, candidates, tip, threadVars>>

\* AcceptBlock stores the data: not already there and, if nobody asked for
\* it, enough work and not too far ahead of the tip.
Wanted(b, requested) ==
    /\ b \notin haveData
    /\ ~requested => /\ ChainWork(b) > ChainWork(tip)
                     /\ Height(b) <= Height(tip) + MinBlocksToKeep

\* Mutant: the descendants that were waiting are forgotten.
NewlyLinkedAlone(b) == {b}

\* What ReceivedBlockTransactions(b) links: b, and the blocks that hang off
\* it in mapBlocksUnlinked.
NewlyLinked(b) ==
    {x \in AllBlocks : /\ b \in Ancestors[x]
                       /\ \A y \in Ancestors[x] \ Ancestors[b] : y \in unlinked}

\* The sequence ids the queue hands out, in order of height (the order among
\* blocks of the same height is left open).
SequenceIds(new) ==
    LET first == Max({seqId[b] : b \in AllBlocks}) + 1
    IN  {s \in [new -> first .. first + Cardinality(new) - 1] :
            \A x, y \in new : /\ s[x] = s[y] => x = y
                              /\ Height(x) < Height(y) => s[x] < s[y]}

ReceivedBlockTransactions(b) ==
    /\ haveData' = haveData \cup {b}
    /\ IF Parent[b] \in linked
         THEN \E s \in SequenceIds(NewlyLinked(b)) :
                LET new == NewlyLinked(b)
                    seq == [x \in AllBlocks |-> IF x \in new THEN s[x] ELSE seqId[x]]
                IN  /\ linked' = linked \cup new
                    /\ seqId' = seq
                    /\ candidates' = candidates \cup {x \in new : ~Worse(x, tip, seq)}
                    /\ unlinked' = unlinked \ new
         ELSE /\ unlinked' = IF Parent[b] \notin Failed THEN unlinked \cup {b} ELSE unlinked
              /\ UNCHANGED <<linked, seqId, candidates>>

\* The thread calls ActivateBestChain(state, b) next.
Activate(t, b) ==
    /\ pc' = [pc EXCEPT ![t] = "activate"]
    /\ pblock' = [pblock EXCEPT ![t] = b]

\* ActivateBestChain returns.
Return(t) ==
    /\ pc' = [pc EXCEPT ![t] = "idle"]
    /\ pblock' = [pblock EXCEPT ![t] = NoBlock]
    /\ mostWork' = [mostWork EXCEPT ![t] = NoBlock]

\* ProcessNewBlock up to the point where it gives up cs_main.  Whatever
\* AcceptBlock does with a block it takes, ActivateBestChain comes next.
ProcessNewBlock(t, b, requested) ==
    /\ pc[t] = "idle"
    /\ HeaderAccepted(b)
    /\ index' = index \cup {b}
    /\ \/ /\ ~Wanted(b, requested)
          /\ UNCHANGED <<haveData, failedValid, linked, seqId, unlinked, candidates>>
          /\ Activate(t, b)
       \/ /\ Wanted(b, requested) /\ verdict[b] = "context"
          /\ failedValid' = failedValid \cup {b}
          /\ UNCHANGED <<haveData, linked, seqId, unlinked, candidates, pc, pblock>>
       \/ /\ Wanted(b, requested) /\ verdict[b] # "context"
          /\ ReceivedBlockTransactions(b)
          /\ UNCHANGED failedValid
          /\ Activate(t, b)
    /\ UNCHANGED <<world, verdict, connected, failedChild, tip, mostWork>>

-----------------------------------------------------------------------------
(* ActivateBestChain.                                                      *)

\* The blocks between the active chain and b.
PathTo(b) == Ancestors[b] \ ActiveChain

\* Mutant: only the candidate itself is looked at.
UsableShallow(b) == b \notin Failed

\* No block between the active chain and b is known to be bad.
Usable(b) == PathTo(b) \cap Failed = {}

Best(S) == CHOOSE b \in S : \A x \in S \ {b} : Worse(x, b, seqId)

\* FindMostWorkChain
MostWorkChain ==
    LET usable == {b \in candidates : Usable(b)}
    IN  IF usable = {} THEN NoBlock ELSE Best(usable)

\* The candidates FindMostWorkChain comes across and finds unusable.
Rejected ==
    LET found == MostWorkChain
    IN  {b \in candidates : ~Usable(b) /\ (found # NoBlock => Worse(found, b, seqId))}

\* From a rejected candidate down to its nearest failed ancestor: that one
\* leaves the candidate set, the ones above it are marked as well.
AboveFailure(b) ==
    {x \in PathTo(b) : \E f \in PathTo(b) \cap Failed :
        f # x /\ IsAncestor(f, x) /\ \A g \in PathTo(b) \cap Failed : IsAncestor(g, f)}
NearestFailure(b) ==
    {f \in PathTo(b) \cap Failed : \A g \in PathTo(b) \cap Failed : IsAncestor(g, f)}

FailedByMostWork == UNION {AboveFailure(b) : b \in Rejected}
ErasedByMostWork == UNION {AboveFailure(b) \cup NearestFailure(b) : b \in Rejected}

\* What ConnectBlock says of x on the way to b: the stored copy may be
\* damaged, the copy in memory is used only for b itself.
ConnectVerdict(t, x, b) ==
    IF verdict[x] = "corrupt" /\ x = b /\ pblock[t] = b THEN "ok" ELSE verdict[x]

\* The blocks ActivateBestChainStep tries, in order of height, going to b: it
\* stops at the first that does not connect, or once the tip has more work
\* than the old one.
Tried(t, b) ==
    {x \in PathTo(b) : \A y \in PathTo(b) : y # x /\ IsAncestor(y, x) =>
        ConnectVerdict(t, y, b) = "ok" /\ ChainWork(y) <= ChainWork(tip)}

\* Mutant: a block that does not connect is not marked.
FoundInvalidForgets(t, b) == {}

\* InvalidBlockFound: the block that broke a rule (a damaged copy did not).
FoundInvalid(t, b) == {x \in Tried(t, b) : ConnectVerdict(t, x, b) = "invalid"}

\* Mutant: the tip itself is deleted too.
PruneTip(S, newTip) == {x \in S : Worse(newTip, x, seqId)}

PruneBlockIndexCandidates(S, newTip) == {x \in S : ~Worse(x, newTip, seqId)}

Connected(t, b) == {x \in Tried(t, b) : ConnectVerdict(t, x, b) = "ok"}

\* FindMostWorkChain finds nothing better than the tip: ActivateBestChain
\* returns.
ActivateNothing(t) ==
    /\ pc[t] = "activate"
    /\ MostWorkChain \in {NoBlock, tip}
    /\ failedChild' = failedChild \cup FailedByMostWork
    /\ candidates' = candidates \ ErasedByMostWork
    /\ Return(t)
    /\ UNCHANGED <<world, verdict, index, haveData, connected, failedValid, linked, seqId, unlinked, tip>>

\* One round of the loop under cs_main: FindMostWorkChain, then
\* ActivateBestChainStep (disconnect to the fork, connect, prune the
\* candidates after each connected block, mark a block that is invalid).
ActivateBestChainStep(t) ==
    \E target \in AllBlocks \ {tip} :
        LET good == Connected(t, target)
            left == candidates \ ErasedByMostWork
        IN  /\ pc[t] = "activate"
            /\ target = MostWorkChain
            /\ tip' = IF good = {} THEN FindFork(target)
                      ELSE CHOOSE x \in good : \A y \in good : Height(y) <= Height(x)
            /\ connected' = connected \cup good
            /\ failedChild' = failedChild \cup FailedByMostWork
            /\ failedValid' = failedValid \cup FoundInvalid(t, target)
            /\ candidates' = (IF good = {} THEN left ELSE PruneBlockIndexCandidates(left, tip'))
                               \ FoundInvalid(t, target)
            /\ pc' = [pc EXCEPT ![t] = "test"]
            /\ mostWork' = [mostWork EXCEPT ![t] = target]
            /\ UNCHANGED <<world, verdict, index, haveData, linked, seqId, unlinked, pblock>>

\* Mutant: one step is taken to be enough.
ActivateBestChainOnce(t) ==
    /\ pc[t] = "test"
    /\ Return(t)
    /\ UNCHANGED <<world, verdict, indexVars, candidates, tip>>

\* while (pindexMostWork != chainActive.Tip()): read without cs_main.
ActivateBestChainTest(t) ==
    /\ pc[t] = "test"
    /\ IF mostWork[t] = tip
         THEN Return(t)
         ELSE /\ pc' = [pc EXCEPT ![t] = "activate"]
              /\ mostWork' = [mostWork EXCEPT ![t] = NoBlock]
              /\ UNCHANGED pblock
    /\ UNCHANGED <<world, verdict, indexVars, candidates, tip>>

-----------------------------------------------------------------------------
(* The RPCs.                                                               *)

\* Mark the block itself as invalid.
MarkedInvalid(b) == failedValid \cup {b}

InvalidateBlock(t, b) ==
    LET gone   == IF b \in ActiveChain THEN {x \in ActiveChain : b \in Ancestors[x]} ELSE {}
        newTip == IF b \in ActiveChain THEN Parent[b] ELSE tip
        failed == MarkedInvalid(b) \cup failedChild \cup gone
    IN  /\ pc[t] = "idle" /\ b \in index
        /\ failedValid' = MarkedInvalid(b)
        /\ failedChild' = failedChild \cup gone
        /\ tip' = newTip
        /\ candidates' = (candidates \ ({b} \cup gone))
                           \cup {x \in linked \ failed : ~Worse(x, newTip, seqId)}
        /\ Activate(t, NoBlock)
        /\ UNCHANGED <<world, verdict, index, haveData, connected, linked, seqId, unlinked, mostWork>>

ReconsiderBlock(t, b) ==
    LET cleared == {x \in index : b \in Ancestors[x] /\ (x \in Failed \/ x \notin haveData)}
    IN  /\ pc[t] = "idle" /\ b \in index
        /\ failedValid' = failedValid \ (cleared \cup Ancestors[b])
        /\ failedChild' = failedChild \ (cleared \cup Ancestors[b])
        /\ candidates' = candidates \cup {x \in cleared \cap linked : Worse(tip, x, seqId)}
        /\ Activate(t, NoBlock)
        /\ UNCHANGED <<world, verdict, index, haveData, connected, linked, seqId, unlinked, tip, mostWork>>

-----------------------------------------------------------------------------
ThreadStep(t) ==
    \/ ActivateNothing(t)
    \/ ActivateBestChainStep(t)
    \/ ActivateBestChainTest(t)

Arrival ==
    \/ \E b \in world.mined : AcceptBlockHeader(b)
    \/ \E t \in Threads, b \in world.mined, r \in BOOLEAN : ProcessNewBlock(t, b, r)

Rpc ==
    \/ \E t \in Threads, b \in world.invalidated : InvalidateBlock(t, b)
    \/ \E t \in Threads, b \in world.reconsidered : ReconsiderBlock(t, b)

Next == Arrival \/ Rpc \/ \E t \in Threads : ThreadStep(t)

\* A thread inside ActivateBestChain is not stopped; nothing else must happen.
Fairness == \A t \in Threads : WF_vars(ThreadStep(t))

Spec == Init /\ [][Next]_vars /\ Fairness

-----------------------------------------------------------------------------
(* Properties.  CheckBlockIndex (-checkblockindex) asserts most of them.   *)

\* Every variable keeps its type; in particular there always is a tip.
TypeOK ==
    /\ world \in Worlds
    /\ verdict \in [AllBlocks -> {"ok", "invalid", "context", "corrupt"}]
    /\ index \subseteq AllBlocks /\ haveData \subseteq AllBlocks /\ connected \subseteq AllBlocks
    /\ failedValid \subseteq AllBlocks /\ failedChild \subseteq AllBlocks /\ linked \subseteq AllBlocks
    /\ candidates \subseteq AllBlocks /\ unlinked \subseteq AllBlocks
    /\ seqId \in [AllBlocks -> Nat]
    /\ tip \in AllBlocks
    /\ pc \in [Threads -> {"idle", "activate", "test"}]
    /\ pblock \in [Threads -> AllBlocks \cup {NoBlock}]
    /\ mostWork \in [Threads -> AllBlocks \cup {NoBlock}]

\* No thread is inside ActivateBestChain.
Quiescent == \A t \in Threads : pc[t] = "idle"

HasInvalidAncestor(b) == Ancestors[b] \cap failedValid # {}

\* reconsiderblock is not called: it breaks some of the rules below.
NoReconsider == world.reconsidered = {}

\* In whatever order headers and data arrive, nChainTx is set only for blocks whose data
\* and whose ancestors' data are there, mapBlocksUnlinked holds only blocks that wait for
\* an ancestor's data, and every block with data that no invalid ancestor rules out is
\* accounted for by one of the two.
DataAccountedFor ==
    /\ \A b \in linked : Ancestors[b] \subseteq haveData
    /\ unlinked \subseteq haveData \ linked
    /\ NoReconsider => \A b \in haveData : ~HasInvalidAncestor(b) =>
                          b \in IF Ancestors[b] \subseteq haveData THEN linked ELSE unlinked

\* A candidate has all its data and is no worse than the tip: a stale entry
\* would send FindMostWorkChain back to a worse chain.
CandidatesSound == \A b \in candidates : b \in linked /\ ~Worse(b, tip, seqId)

\* Once every ActivateBestChain has returned, the tip and whatever is better
\* are candidates, also after reorganizations that failed half way.
CandidatesComplete ==
    Quiescent /\ NoReconsider =>
        \A b \in linked : ~Worse(b, tip, seqId) /\ ~HasInvalidAncestor(b) => b \in candidates

\* setBlockIndexCandidates is exact, and rests on data that is accounted for.
CandidatesExact == DataAccountedFor /\ CandidatesSound /\ CandidatesComplete

\* A failure flag always has a cause: "The failed mask cannot be set for blocks
\* without invalid parents."
FailedMaskHasCause == \A b \in Failed : HasInvalidAncestor(b)

\* The active chain has block data and undo data down to genesis, none of it
\* breaks a rule, and none of it is marked as failed: no order of arrivals,
\* reorganizations and invalidateblock calls leaves a bad block in it.
ActiveChainSound ==
    \A b \in ActiveChain :
        /\ b \in haveData /\ b \in connected /\ b \notin Failed
        /\ verdict[b] \notin {"invalid", "context"}

\* "The result is either failure or an activated best chain": when every
\* ActivateBestChain has returned no block that could be the tip is better.
TipIsBest ==
    Quiescent /\ NoReconsider =>
        \A b \in linked : Ancestors[b] \cap Failed = {} => ~Worse(tip, b, seqId)

\* Every call of ActivateBestChain returns, although each of its steps may
\* meet an invalid block and other threads move the tip in between.
ActivationReturns == \A t \in Threads : pc[t] = "activate" ~> pc[t] = "idle"
=============================================================================
