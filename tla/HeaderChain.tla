---------------------------- MODULE HeaderChain ----------------------------
(***************************************************************************)
(* The tree of block headers and the chain in it (chain.cpp, chain.h), the *)
(* work a header must prove (pow.cpp, arith_uint256.cpp) and the checks    *)
(* that admit a header (main.cpp).                                         *)
(*                                                                         *)
(* A block is its place in the sequence index, 1 the genesis block.  A     *)
(* target has Width bits (256), a byte ByteBits (8); a compact target is   *)
(* [nSize, nWord] with the sign bit apart.  CheckEquihashSolution and the  *)
(* comparison of the hash with the target are what a miner searches for:   *)
(* here every header has been mined.                                       *)
(***************************************************************************)
EXTENDS Integers, Sequences, FiniteSets, FiniteSetsExt, SequencesExt

CONSTANTS
    Width, ByteBits, powLimit,
    nPowAveragingWindow, nPowMaxAdjustDown, nPowMaxAdjustUp, nPowTargetSpacing,
    nMedianTimeSpan,    \* 11
    DenseLocator,       \* 10
    MaxFuture,          \* two hours
    HeaderWorlds,       \* [steps |-> how far the time of a block may be from its parent's,
                        \*  spread |-> how old a parent may be, n |-> blocks, checkpoint |-> a height, or 0,
                        \*  tips |-> whether the chain moves to any block]
    Null

VARIABLES
    hw,         \* the world chosen
    index,      \* mapBlockIndex: [pprev, nHeight, nTime, nBits, nChainWork, pskip]
    bestHeader, \* pindexBestHeader
    vChain      \* chainActive

vars == <<hw, index, bestHeader, vChain>>

-----------------------------------------------------------------------------
(* Targets.                                                                *)

Byte     == 2 ^ ByteBits
SignWord == Byte ^ 3 \div 2        \* 0x00800000
bits(n)  == IF n = 0 THEN 0 ELSE CHOOSE b \in 1..(Width + 1) : 2 ^ (b - 1) <= n /\ n < 2 ^ b

GetCompact(n) ==
    LET nSize == (bits(n) + ByteBits - 1) \div ByteBits
        word  == IF nSize <= 3 THEN n * Byte ^ (3 - nSize) ELSE n \div Byte ^ (nSize - 3)
    IN IF word >= SignWord THEN [nSize |-> nSize + 1, nWord |-> word \div Byte, fNegative |-> FALSE]
       ELSE [nSize |-> nSize, nWord |-> word, fNegative |-> FALSE]

SetCompact(c) ==
    IF c.nSize <= 3 THEN c.nWord \div Byte ^ (3 - c.nSize) ELSE (c.nWord * Byte ^ (c.nSize - 3)) % 2 ^ Width
Negative(c) == SetCompact(c) # 0 /\ c.fNegative
Overflow(c) ==
    LET top == Width \div ByteBits
    IN c.nWord # 0 /\ (\/ c.nSize > top + 2
                       \/ c.nWord >= Byte /\ c.nSize > top + 1
                       \/ c.nWord >= Byte ^ 2 /\ c.nSize > top)

AveragingWindowTimespan == nPowAveragingWindow * nPowTargetSpacing
MinActualTimespan == (AveragingWindowTimespan * (100 - nPowMaxAdjustUp)) \div 100
MaxActualTimespan == (AveragingWindowTimespan * (100 + nPowMaxAdjustDown)) \div 100

\* Division that rounds towards zero.
Div(a, b) == IF a < 0 THEN -((-a) \div b) ELSE a \div b

Bounded(t) == IF t < MinActualTimespan THEN MinActualTimespan ELSE IF t > MaxActualTimespan THEN MaxActualTimespan ELSE t

CalculateNextWorkRequired(bnAvg, nLastBlockTime, nFirstBlockTime) ==
    LET damped == AveragingWindowTimespan + Div(nLastBlockTime - nFirstBlockTime - AveragingWindowTimespan, 4)
        bnNew  == ((bnAvg \div AveragingWindowTimespan) * Bounded(damped)) % 2 ^ Width
    IN GetCompact(IF bnNew > powLimit THEN powLimit ELSE bnNew)

GetBlockProof(c) ==
    LET bnTarget == SetCompact(c)
    IN IF Negative(c) \/ Overflow(c) \/ bnTarget = 0 THEN 0
       ELSE ((2 ^ Width - 1 - bnTarget) \div (bnTarget + 1)) + 1

\* The range check of CheckProofOfWork.
InRange(c) == ~Negative(c) /\ SetCompact(c) # 0 /\ ~Overflow(c) /\ SetCompact(c) <= powLimit

-----------------------------------------------------------------------------
(* The tree.                                                               *)

\* n & (n - 1)
InvertLowestOne(n) ==
    IF n = 0 THEN 0 ELSE n - Max({k \in {2 ^ i : i \in 0..bits(n)} : n % k = 0})

GetSkipHeight(height) ==
    IF height < 2 THEN 0
    ELSE IF height % 2 = 1 THEN InvertLowestOne(InvertLowestOne(height - 1)) + 1
    ELSE InvertLowestOne(height)

\* Whether pskip is followed: only if pprev->pskip isn't better than pskip->pprev.
FollowsSkip(skip, skipPrev, height) ==
    skip = height \/ (skip > height /\ ~(skipPrev < skip - 2 /\ skipPrev >= height))

RECURSIVE Walk(_, _, _)
Walk(b, heightWalk, height) ==
    IF heightWalk <= height THEN b
    ELSE LET skip == GetSkipHeight(heightWalk)
         IN IF index[b].pskip # Null /\ FollowsSkip(skip, GetSkipHeight(heightWalk - 1), height)
            THEN Walk(index[b].pskip, skip, height)
            ELSE Walk(index[b].pprev, heightWalk - 1, height)

GetAncestor(b, height) ==
    IF height > index[b].nHeight \/ height < 0 THEN Null ELSE Walk(b, index[b].nHeight, height)

\* The last n blocks up to b, b first: fewer if the genesis block comes sooner.
RECURSIVE Recent(_, _)
Recent(b, n) == IF n = 0 \/ b = Null THEN <<>> ELSE <<b>> \o Recent(index[b].pprev, n - 1)

GetMedianTimePast(b) ==
    LET blocks == Recent(b, nMedianTimeSpan)
        times  == SortSeq([i \in DOMAIN blocks |-> index[blocks[i]].nTime], <)
    IN times[(Len(times) \div 2) + 1]

GetNextWorkRequired(b) ==
    LET window == Recent(b, nPowAveragingWindow)
        first  == index[window[Len(window)]].pprev
        bnTot  == FoldLeft(LAMBDA t, x : (t + SetCompact(index[x].nBits)) % 2 ^ Width, 0, window)
    IN IF first = Null THEN GetCompact(powLimit)
       ELSE CalculateNextWorkRequired(bnTot \div nPowAveragingWindow, GetMedianTimePast(b), GetMedianTimePast(first))

-----------------------------------------------------------------------------
(* The chain.                                                              *)

Tip         == vChain[Len(vChain)]
InChain(b) == index[b].nHeight < Len(vChain) /\ vChain[index[b].nHeight + 1] = b

\* Mutant: the walk down stops at the first height that was filled before.
RECURSIVE FilledShort(_, _, _)
FilledShort(chain, old, b) ==
    IF b = Null \/ index[b].nHeight < old THEN chain
    ELSE FilledShort([chain EXCEPT ![index[b].nHeight + 1] = b], old, index[b].pprev)
SetTipShort(b) ==
    LET n == index[b].nHeight + 1
    IN FilledShort([h \in 1..n |-> IF h <= Len(vChain) THEN vChain[h] ELSE Null], Len(vChain), b)

\* The entries below b are set until one is found that is right already.
RECURSIVE Filled(_, _)
Filled(chain, b) ==
    IF b = Null \/ chain[index[b].nHeight + 1] = b THEN chain
    ELSE Filled([chain EXCEPT ![index[b].nHeight + 1] = b], index[b].pprev)
SetTip(b) ==
    LET n == index[b].nHeight + 1
    IN Filled([h \in 1..n |-> IF h <= Len(vChain) THEN vChain[h] ELSE Null], b)

RECURSIVE LocatorFrom(_, _, _)
LocatorFrom(b, nStep, vHave) ==
    LET have == Append(vHave, b)
        h    == Max({index[b].nHeight - nStep, 0})
    IN IF index[b].nHeight = 0 THEN have
       ELSE LocatorFrom(IF InChain(b) THEN vChain[h + 1] ELSE GetAncestor(b, h),
                        IF Len(have) > DenseLocator THEN nStep * 2 ELSE nStep, have)
GetLocator(b) == LocatorFrom(b, 1, <<>>)

FindForkInGlobalIndex(locator) ==
    LET on == {i \in DOMAIN locator : InChain(locator[i])}
    IN IF on = {} THEN vChain[1] ELSE locator[Min(on)]

RECURSIVE Down(_)
Down(b) == IF b = Null \/ InChain(b) THEN b ELSE Down(index[b].pprev)
FindFork(b) == Down(IF index[b].nHeight > Len(vChain) - 1 THEN GetAncestor(b, Len(vChain) - 1) ELSE b)

-----------------------------------------------------------------------------
GenesisHeader ==
    [pprev |-> Null, nHeight |-> 0, nTime |-> 0, nBits |-> GetCompact(powLimit),
     nChainWork |-> GetBlockProof(GetCompact(powLimit)), pskip |-> Null]

Init ==
    /\ hw \in HeaderWorlds
    /\ index = <<GenesisHeader>>
    /\ bestHeader = 1
    /\ vChain = <<1>>

\* ContextualCheckBlockHeader and the time check of CheckBlockHeader.
Admissible(b, nTime) ==
    /\ nTime > GetMedianTimePast(b)
    /\ nTime <= Max({index[i].nTime : i \in DOMAIN index}) + MaxFuture
    /\ index[b].nHeight + 1 >= hw.checkpoint

\* AcceptBlockHeader: a header over b, with the work that is required of it; AddToBlockIndex.
AcceptBlockHeader(b, nTime) ==
    LET nBits  == GetNextWorkRequired(b)
        height == index[b].nHeight + 1
        new    == [pprev |-> b, nHeight |-> height, nTime |-> nTime, nBits |-> nBits,
                   nChainWork |-> index[b].nChainWork + GetBlockProof(nBits),
                   pskip |-> GetAncestor(b, GetSkipHeight(height))]
    IN /\ Admissible(b, nTime)
       /\ InRange(nBits)
       /\ index' = Append(index, new)
       /\ bestHeader' = IF index[bestHeader].nChainWork < new.nChainWork THEN Len(index) + 1 ELSE bestHeader
       /\ UNCHANGED <<hw, vChain>>

\* UpdateTip: the chain may end at any block it had reason to prefer.
UpdateTip(b) ==
    /\ vChain' = SetTip(b)
    /\ UNCHANGED <<hw, index, bestHeader>>

Next ==
    \/ /\ Len(index) < hw.n
       /\ \E b \in DOMAIN index, d \in hw.steps :
             b + hw.spread > Len(index) /\ AcceptBlockHeader(b, index[b].nTime + d)
    \/ hw.tips /\ Len(index) = hw.n /\ \E b \in DOMAIN index : UpdateTip(b)
Spec == Init /\ [][Next]_vars

-----------------------------------------------------------------------------
(* Properties.                                                             *)

RECURSIVE Up(_, _)
Up(b, n) == IF n = 0 THEN b ELSE Up(index[b].pprev, n - 1)
AncestorAt(b, h) == Up(b, index[b].nHeight - h)

\* The skip pointers lead to the ancestors they stand for: GetAncestor finds the block that walking up
\* would find, the chain holds the ancestors of its tip after any change of tip, FindFork finds the last
\* block in common, and a locator the chain's owner reads names a common ancestor no more than twice as
\* far back as that one.
AncestorsAreFound ==
    /\ \A b \in DOMAIN index : \A h \in 0..index[b].nHeight : GetAncestor(b, h) = AncestorAt(b, h)
    /\ \A h \in 0..(Len(vChain) - 1) : vChain[h + 1] = AncestorAt(Tip, h)
    /\ \A b \in DOMAIN index :
          LET common == Max({h \in 0..Min({index[b].nHeight, index[Tip].nHeight}) : AncestorAt(b, h) = AncestorAt(Tip, h)})
              found  == FindForkInGlobalIndex(GetLocator(b))
              back   == index[b].nHeight - common
          IN /\ FindFork(b) = AncestorAt(b, common)
             /\ index[found].nHeight <= common /\ found = AncestorAt(b, index[found].nHeight)
             /\ index[b].nHeight - index[found].nHeight <= 2 * back + 1

\* The work required next can always be proved: the target is positive, within the limit and no
\* sign or overflow is read into it.  It leaves the average of the window by no more than the limits, but
\* for what rounding and the compact form cut off.  So a longer chain has more work, and the best header has most.
RequiredWorkIsSound ==
    /\ \A b \in DOMAIN index :
          LET target == SetCompact(index[b].nBits)
              window == Recent(index[b].pprev, nPowAveragingWindow)
              total  == FoldLeft(LAMBDA t, x : t + SetCompact(index[x].nBits), 0, window)
              avg    == total \div nPowAveragingWindow
          IN /\ InRange(GetNextWorkRequired(b))
             /\ index[b].pprev # Null => index[b].nChainWork > index[index[b].pprev].nChainWork
             /\ index[b].nChainWork <= index[bestHeader].nChainWork
             /\ index[b].nHeight > nPowAveragingWindow =>
                   /\ target * 100 <= avg * (100 + nPowMaxAdjustDown)
                   /\ \/ target = SetCompact(GetCompact(powLimit))
                      \/ (target + (target \div (Byte * 2)) + AveragingWindowTimespan + 1) * 100 >= avg * (100 - nPowMaxAdjustUp) - 100

\* The median time of a chain never goes back, however the times of its blocks are set.
MedianTimeAdvances ==
    \A b \in DOMAIN index : index[b].pprev # Null => GetMedianTimePast(b) >= GetMedianTimePast(index[b].pprev)
=============================================================================
