---------------------------- MODULE BlockAssembly ----------------------------
(***************************************************************************)
(* CreateNewBlock (miner.cpp): the choice of the transactions of the       *)
(* memory pool that go into a new block.                                   *)
(*                                                                         *)
(* One step takes the best transaction off the priority queue; among equal *)
(* ones the heap's order is a choice.  The memory pool, the coins and the  *)
(* options are the world.  A transaction is                                *)
(*   [vin |-> set of <<txid, n>>, js |-> value that JoinSplits bring in,   *)
(*    vout |-> values, size, sigops, p2sh |-> sigops of its redeem scripts,*)
(*    feeDelta, prioDelta |-> PrioritiseTransaction, final, valid].        *)
(***************************************************************************)
EXTENDS Integers, FiniteSets, FiniteSetsExt, SequencesExt

CONSTANTS
    PoolWorlds,         \* [pool, coins, nBlockMaxSize, nBlockPrioritySize, nBlockMinSize]
    MAX_BLOCK_SIGOPS, MAX_BLOCK_SIZE,
    HeaderSize,         \* what the block is said to hold before its first transaction
    CoinbaseSigOps,
    Kilo,               \* a fee rate is per this many bytes
    FreeThreshold,      \* AllowFree
    minRelayTxFee,
    Subsidy

VARIABLES
    pw,                 \* the world
    vecPriority,        \* transactions that may be taken
    setDependsOn,       \* COrphan: transaction -> parents that are not in the block
    vtx,                \* the block, without its coinbase
    nBlockSize, nBlockSigOps, nFees,
    fSortedByFee,
    coinbase            \* the value of the coinbase, or -1 while the block is made

assemblyVars == <<pw, vecPriority, setDependsOn, vtx, nBlockSize, nBlockSigOps, nFees, fSortedByFee, coinbase>>

Txs == DOMAIN pw.pool
Tx(t) == pw.pool[t]
Min2(a, b) == IF a < b THEN a ELSE b

\* The options, limited.
BlockMaxSize == Max({HeaderSize, Min2(MAX_BLOCK_SIZE - HeaderSize, pw.nBlockMaxSize)})
PrioritySize == Min2(BlockMaxSize, pw.nBlockPrioritySize)
MinSize      == Min2(BlockMaxSize, pw.nBlockMinSize)

-----------------------------------------------------------------------------
(* What the pool's transactions are worth.                                 *)

InChain(o) == o \in DOMAIN pw.coins
ValueOf(o) == IF InChain(o) THEN pw.coins[o].nValue ELSE Tx(o[1]).vout[o[2]]
TotalIn(t) == MapThenSumSet(ValueOf, Tx(t).vin) + Tx(t).js
ValueOut(t) == FoldLeft(LAMBDA a, b : a + b, 0, Tx(t).vout)
Aged(o) == IF InChain(o) THEN pw.coins[o].nValue * pw.coins[o].nConf ELSE 0
dPriority(t) == MapThenSumSet(Aged, Tx(t).vin) \div Tx(t).size + Tx(t).prioDelta
FeeRate(t) == ((TotalIn(t) + Tx(t).feeDelta - ValueOut(t)) * Kilo) \div Tx(t).size
Parents(t) == {o[1] : o \in {o \in Tx(t).vin : ~InChain(o)}}

\* TxPriorityCompare.
Less(byFee, a, b) ==
    IF byFee THEN FeeRate(a) < FeeRate(b) \/ (FeeRate(a) = FeeRate(b) /\ dPriority(a) < dPriority(b))
    ELSE dPriority(a) < dPriority(b) \/ (dPriority(a) = dPriority(b) /\ FeeRate(a) < FeeRate(b))

Init ==
    /\ pw \in PoolWorlds
    /\ vecPriority = {t \in Txs : Tx(t).final /\ Parents(t) = {}}
    /\ setDependsOn = [t \in {u \in Txs : Tx(u).final /\ Parents(u) # {}} |-> Parents(t)]
    /\ vtx = <<>> /\ nBlockSize = HeaderSize /\ nBlockSigOps = CoinbaseSigOps /\ nFees = 0
    /\ fSortedByFee = (PrioritySize <= 0)
    /\ coinbase = -1

-----------------------------------------------------------------------------
(* Collecting transactions.                                                *)

FitsSize(t) == nBlockSize + Tx(t).size < BlockMaxSize
IsFree(t) == Tx(t).prioDelta <= 0 /\ Tx(t).feeDelta <= 0 /\ FeeRate(t) < minRelayTxFee

FitsSigOps(t) ==
    /\ nBlockSigOps + Tx(t).sigops < MAX_BLOCK_SIGOPS
    /\ nBlockSigOps + Tx(t).sigops + Tx(t).p2sh < MAX_BLOCK_SIGOPS

\* view.HaveInputs: coins of the chain, or of transactions that are in the block.
HaveInputs(t) ==
    \A o \in Tx(t).vin :
        /\ InChain(o) \/ o[1] \in Range(vtx)
        /\ \A u \in Range(vtx) : o \notin Tx(u).vin

\* Mutant: a parent that is in the block is not struck off.
ReleasedByOnly(t) == {u \in DOMAIN setDependsOn : Parents(u) = {t}}

\* The dependers of t that waited for it alone.
Released(t) == {u \in DOMAIN setDependsOn : setDependsOn[u] = {t}}

\* The queue is sorted by fee from the first transaction on that reaches the size set aside for
\* priority or has too little of it.
SortsByFee(t) == fSortedByFee \/ nBlockSize + Tx(t).size >= PrioritySize \/ dPriority(t) <= FreeThreshold

TakeNext ==
    /\ coinbase = -1
    /\ \E t \in vecPriority :
          /\ \A u \in vecPriority : ~Less(fSortedByFee, t, u)
          /\ LET fits   == /\ FitsSize(t)
                           /\ nBlockSigOps + Tx(t).sigops < MAX_BLOCK_SIGOPS
                           /\ ~(fSortedByFee /\ IsFree(t) /\ nBlockSize + Tx(t).size >= MinSize)
                 added  == fits /\ HaveInputs(t) /\ FitsSigOps(t) /\ Tx(t).valid
             IN  /\ fSortedByFee' = IF fits THEN SortsByFee(t) ELSE fSortedByFee
                 /\ vecPriority' = (vecPriority \ {t}) \cup IF added THEN Released(t) ELSE {}
                 /\ setDependsOn' = IF added THEN [u \in DOMAIN setDependsOn |-> setDependsOn[u] \ {t}] ELSE setDependsOn
                 /\ vtx' = IF added THEN Append(vtx, t) ELSE vtx
                 /\ nBlockSize' = IF added THEN nBlockSize + Tx(t).size ELSE nBlockSize
                 /\ nBlockSigOps' = IF added THEN nBlockSigOps + Tx(t).sigops + Tx(t).p2sh ELSE nBlockSigOps
                 /\ nFees' = IF added THEN nFees + TotalIn(t) - ValueOut(t) ELSE nFees
    /\ UNCHANGED <<pw, coinbase>>

\* The coinbase takes the subsidy and the fees.
CreateCoinbase ==
    /\ coinbase = -1 /\ vecPriority = {}
    /\ coinbase' = Subsidy + nFees
    /\ UNCHANGED <<pw, vecPriority, setDependsOn, vtx, nBlockSize, nBlockSigOps, nFees, fSortedByFee>>

Next == TakeNext \/ CreateCoinbase

Spec == Init /\ [][Next]_assemblyVars

-----------------------------------------------------------------------------
(* Properties.                                                             *)

Before(t, u) == \E i, j \in DOMAIN vtx : i < j /\ vtx[i] = t /\ vtx[j] = u
SumOver(f(_)) == MapThenSumSet(f, Range(vtx))

\* TestBlockValidity holds for what was made, so that CreateNewBlock never throws: parents come before
\* their children, nothing is there or spent twice, every transaction is final and valid, the block
\* is within the limits of the consensus rules, and the coinbase claims exactly what is due.
TemplateIsValid ==
    coinbase # -1 =>
        /\ Cardinality(Range(vtx)) = Len(vtx)
        /\ \A t \in Range(vtx) : Tx(t).final /\ Tx(t).valid /\ \A p \in Parents(t) : Before(p, t)
        /\ \A t, u \in Range(vtx) : t # u => Tx(t).vin \cap Tx(u).vin = {}
        /\ HeaderSize + SumOver(LAMBDA t : Tx(t).size) <= MAX_BLOCK_SIZE
        /\ CoinbaseSigOps + SumOver(LAMBDA t : Tx(t).sigops + Tx(t).p2sh) <= MAX_BLOCK_SIGOPS
        /\ coinbase = Subsidy + SumOver(LAMBDA t : TotalIn(t) - ValueOut(t))

\* A transaction is left out for a reason that still holds when the block is done: it waits for
\* another one that was left out, it does not fit into the room that is left, or it pays too little for
\* a block of this size.  A transaction that waited is looked at again when the last of its parents
\* goes in, whichever that is.
LeftOutForAReason ==
    coinbase # -1 => \A t \in Txs \ Range(vtx) :
        \/ ~Tx(t).final \/ ~Tx(t).valid
        \/ Parents(t) \ Range(vtx) # {}
        \/ ~FitsSize(t) \/ ~(nBlockSigOps + Tx(t).sigops + Tx(t).p2sh < MAX_BLOCK_SIGOPS)
        \/ (IsFree(t) /\ nBlockSize + Tx(t).size >= MinSize)
=============================================================================
