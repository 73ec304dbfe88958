------------------------ MODULE ChainSelectionProofs ------------------------
(***************************************************************************)
(* The choice of the active chain is right for any block tree, any number  *)
(* of threads and any verdicts.                                            *)
(***************************************************************************)
EXTENDS ChainSelection, FiniteSetTheorems, WellFoundedInduction, TLAPS

-----------------------------------------------------------------------------
(* The tree.                                                               *)

(* pprev from a block leads where it led from its parent.  The function exists: a block's ancestors *)
(* are what is in every set that has the block and the parent of each of its blocks.                *)
LEMMA AncestorsExpand ==
    \A b \in AllBlocks : Ancestors[b] = IF b = Genesis THEN {Genesis} ELSE {b} \cup Ancestors[Parent[b]]
<1> DEFINE Closed(S) == \A y \in S : y \in Blocks => Parent[y] \in S
           f == [b \in AllBlocks |-> {x \in AllBlocks : \A S \in SUBSET AllBlocks : Closed(S) /\ b \in S => x \in S}]
           Def(g) == [b \in AllBlocks |-> IF b = Genesis THEN {Genesis} ELSE {b} \cup g[Parent[b]]]
<1>1. f = Def(f)
  <2>1. ASSUME NEW b \in AllBlocks PROVE f[b] = Def(f)[b]
    <3>1. CASE b = Genesis
      <4>1. Closed({Genesis}) /\ {Genesis} \in SUBSET AllBlocks
        BY ChainAssumption DEF AllBlocks
      <4> QED BY Zenon, <3>1, <4>1 DEF AllBlocks
    <3>2. CASE b # Genesis
      <4>1. b \in Blocks /\ Parent[b] \in AllBlocks
        BY <3>2, ChainAssumption DEF AllBlocks
      <4>2. f[b] \subseteq {b} \cup f[Parent[b]]
        <5> SUFFICES ASSUME NEW x \in f[b], x # b PROVE x \in f[Parent[b]]
          OBVIOUS
        <5> SUFFICES ASSUME NEW S \in SUBSET AllBlocks, Closed(S), Parent[b] \in S PROVE x \in S
          BY <4>1
        <5>1. Closed(S \cup {b}) /\ S \cup {b} \in SUBSET AllBlocks
          BY <4>1 DEF AllBlocks
        <5> QED BY Zenon, <5>1
      <4>3. b \in f[b] /\ f[Parent[b]] \subseteq f[b]
        BY <4>1
      <4> QED BY <3>2, <4>2, <4>3
    <3> QED BY SMTT(60), <3>1, <3>2
  <2> QED BY <2>1
<1>2. Ancestors = CHOOSE g : g = Def(g)
  BY DEF Ancestors
<1>3. Ancestors = Def(Ancestors)
  <2> HIDE DEF f
  <2> QED BY Zenon, <1>1, <1>2
<1> QED BY <1>3

(* Genesis has nothing below it ... *)
LEMMA AncestorsOfGenesis == Ancestors[Genesis] = {Genesis}
  BY Zenon, AncestorsExpand DEF AllBlocks

(* ... and every other block has its parent and what is below that. *)
LEMMA AncestorsOfBlock ==
    ASSUME NEW b \in Blocks
    PROVE  Parent[b] \in AllBlocks /\ b \in AllBlocks /\ b # Genesis /\ Ancestors[b] = {b} \cup Ancestors[Parent[b]]
<1>1. Parent[b] \in AllBlocks /\ b \in AllBlocks /\ b # Genesis
  BY ChainAssumption DEF AllBlocks
<1> QED BY Zenon, <1>1, AncestorsExpand

(* Induction over the tree: no set of blocks is without a lowest one. *)
LEMMA Lowest ==
    ASSUME NEW S, S \subseteq Blocks, S # {}
    PROVE  \E b \in S : Parent[b] \in AllBlocks \ S
  BY ChainAssumption

(* A chain is finite, has its block and goes down to genesis. *)
LEMMA AncestorsType ==
    \A b \in AllBlocks : /\ Ancestors[b] \subseteq AllBlocks /\ IsFiniteSet(Ancestors[b])
                         /\ b \in Ancestors[b] /\ Genesis \in Ancestors[b]
<1> DEFINE Good(b) == /\ Ancestors[b] \subseteq AllBlocks /\ IsFiniteSet(Ancestors[b])
                      /\ b \in Ancestors[b] /\ Genesis \in Ancestors[b]
           S == {b \in Blocks : ~Good(b)}
<1>1. Good(Genesis)
  BY Zenon, AncestorsOfGenesis, FS_Singleton DEF AllBlocks
<1>2. S = {}
  <2> SUFFICES ASSUME S # {} PROVE FALSE
    OBVIOUS
  <2>1. PICK b \in S : Parent[b] \in AllBlocks \ S
    BY Zenon, Lowest
  <2>2. Good(Parent[b])
    BY <1>1, <2>1 DEF AllBlocks
  <2>3. Ancestors[b] = {b} \cup Ancestors[Parent[b]] /\ b \in AllBlocks
    BY AncestorsOfBlock
  <2>4. IsFiniteSet(Ancestors[b])
    BY <2>2, <2>3, FS_AddElement
  <2> QED BY <2>2, <2>3, <2>4
<1> QED BY <1>1, <1>2 DEF AllBlocks

(* What is below an ancestor is below the block. *)
LEMMA AncestorsTransitive ==
    ASSUME NEW b \in AllBlocks, NEW a \in Ancestors[b]
    PROVE  Ancestors[a] \subseteq Ancestors[b]
<1> DEFINE Good(c) == \A x \in Ancestors[c] : Ancestors[x] \subseteq Ancestors[c]
           S == {c \in Blocks : ~Good(c)}
<1>1. Good(Genesis)
  BY AncestorsOfGenesis
<1>2. S = {}
  <2> SUFFICES ASSUME S # {} PROVE FALSE
    OBVIOUS
  <2>1. PICK c \in S : Parent[c] \in AllBlocks \ S
    BY Zenon, Lowest
  <2>2. Good(Parent[c])
    BY <1>1, <2>1 DEF AllBlocks
  <2>3. Ancestors[c] = {c} \cup Ancestors[Parent[c]]
    BY AncestorsOfBlock
  <2> QED BY <2>2, <2>3
<1> QED BY <1>1, <1>2 DEF AllBlocks

(* No block is below its own parent. *)
LEMMA NotAboveParent ==
    ASSUME NEW b \in Blocks
    PROVE  b \notin Ancestors[Parent[b]]
<1> DEFINE S == {c \in Blocks : c \in Ancestors[Parent[c]]}
<1> SUFFICES ASSUME S # {} PROVE FALSE
  OBVIOUS
<1>1. PICK c \in S : Parent[c] \in AllBlocks \ S
  BY Zenon, Lowest
<1>2. c \in AllBlocks /\ c # Genesis /\ Ancestors[c] = {c} \cup Ancestors[Parent[c]]
  BY AncestorsOfBlock
<1>3. Parent[c] \in Blocks
  BY <1>1, <1>2, AncestorsOfGenesis DEF AllBlocks
<1>4. Parent[Parent[c]] \in AllBlocks /\ Ancestors[Parent[c]] = {Parent[c]} \cup Ancestors[Parent[Parent[c]]]
  BY <1>3, AncestorsOfBlock
<1>5. Parent[c] \notin Ancestors[Parent[Parent[c]]]
  BY <1>1, <1>3
<1>6. Parent[c] \in Ancestors[c]
  BY <1>2, <1>3, AncestorsType DEF AllBlocks
<1>7. CASE c = Parent[c]
  BY <1>1, <1>3, <1>4, <1>5, <1>7
<1>8. CASE c # Parent[c]
  BY <1>1, <1>4, <1>5, <1>6, <1>8, AncestorsTransitive
<1> QED BY <1>7, <1>8

(* Of two blocks only one can be below the other. *)
LEMMA AncestorsAntisymmetric ==
    ASSUME NEW b \in AllBlocks, NEW a \in Ancestors[b], b \in Ancestors[a]
    PROVE  a = b
<1> SUFFICES ASSUME a # b PROVE FALSE
  OBVIOUS
<1>1. b \in Blocks
  BY AncestorsOfGenesis DEF AllBlocks
<1>2. a \in Ancestors[Parent[b]] /\ Parent[b] \in AllBlocks
  BY <1>1, AncestorsOfBlock
<1>3. b \in Ancestors[Parent[b]]
  BY <1>2, AncestorsTransitive
<1> QED BY <1>1, <1>3, NotAboveParent

(* A chain has no forks. *)
LEMMA AncestorsLinear ==
    ASSUME NEW b \in AllBlocks, NEW x \in Ancestors[b], NEW y \in Ancestors[b]
    PROVE  x \in Ancestors[y] \/ y \in Ancestors[x]
<1> DEFINE Good(c) == \A u, v \in Ancestors[c] : u \in Ancestors[v] \/ v \in Ancestors[u]
           S == {c \in Blocks : ~Good(c)}
<1>1. Good(Genesis)
  BY AncestorsOfGenesis
<1>2. S = {}
  <2> SUFFICES ASSUME S # {} PROVE FALSE
    OBVIOUS
  <2>1. PICK c \in S : Parent[c] \in AllBlocks \ S
    BY Zenon, Lowest
  <2>2. Good(Parent[c])
    BY <1>1, <2>1 DEF AllBlocks
  <2>3. Ancestors[c] = {c} \cup Ancestors[Parent[c]]
    BY AncestorsOfBlock
  <2> QED BY <2>2, <2>3
<1> QED BY <1>1, <1>2 DEF AllBlocks

(* Heights and nChainWork are numbers. *)
LEMMA HeightType == \A b \in AllBlocks : Height(b) \in Nat /\ ChainWork(b) \in Nat
<1> SUFFICES ASSUME NEW b \in AllBlocks PROVE Height(b) \in Nat /\ ChainWork(b) \in Nat
  OBVIOUS
<1>1. IsFiniteSet(Ancestors[b]) /\ Ancestors[b] # {}
  BY AncestorsType
<1>2. Cardinality(Ancestors[b]) \in Nat /\ Cardinality(Ancestors[b]) # 0
  BY <1>1, FS_CardinalityType, FS_EmptySet
<1> QED BY <1>2 DEF Height, ChainWork

(* A block below another has less work. *)
LEMMA LowerWork ==
    ASSUME NEW b \in AllBlocks, NEW a \in Ancestors[b], a # b
    PROVE  Height(a) < Height(b) /\ ChainWork(a) < ChainWork(b)
<1>1. a \in AllBlocks /\ b \notin Ancestors[a] /\ Ancestors[a] \subseteq Ancestors[b] /\ b \in Ancestors[b]
  BY AncestorsType, AncestorsTransitive, AncestorsAntisymmetric
<1>2. IsFiniteSet(Ancestors[b]) /\ IsFiniteSet(Ancestors[a])
  BY <1>1, AncestorsType
<1>3. IsFiniteSet(Ancestors[b] \ {b}) /\ Cardinality(Ancestors[b] \ {b}) = Cardinality(Ancestors[b]) - 1
  BY <1>1, <1>2, FS_RemoveElement
<1>4. Cardinality(Ancestors[a]) <= Cardinality(Ancestors[b] \ {b})
  BY <1>1, <1>3, FS_Subset
<1>5. Cardinality(Ancestors[a]) \in Nat /\ Cardinality(Ancestors[b]) \in Nat
  BY <1>2, FS_CardinalityType
<1>6. Cardinality(Ancestors[a]) < Cardinality(Ancestors[b])
  BY <1>3, <1>4, <1>5
<1> QED BY <1>5, <1>6 DEF Height, ChainWork

-----------------------------------------------------------------------------
(* CBlockIndexWorkComparator is a strict total order.                      *)

(* CBlockIndexWorkComparator is a strict total order: the set it sorts behaves. *)
LEMMA WorseOrder ==
    ASSUME NEW seq \in [AllBlocks -> Nat]
    PROVE  /\ \A a \in AllBlocks : ~Worse(a, a, seq)
           /\ \A a, b, c \in AllBlocks : Worse(a, b, seq) /\ Worse(b, c, seq) => Worse(a, c, seq)
           /\ \A a, b \in AllBlocks : a = b \/ Worse(a, b, seq) \/ Worse(b, a, seq)
<1>1. \A a \in AllBlocks : ChainWork(a) \in Nat /\ seq[a] \in Nat /\ Addr[a] \in Nat
  BY HeightType, ChainAssumption
<1>2. \A a, b \in AllBlocks : Addr[a] = Addr[b] => a = b
  BY ChainAssumption
<1>3. \A a \in AllBlocks : ~Worse(a, a, seq)
  BY <1>1 DEF Worse
<1>4. \A a, b, c \in AllBlocks : Worse(a, b, seq) /\ Worse(b, c, seq) => Worse(a, c, seq)
  BY <1>1 DEF Worse
<1>5. \A a, b \in AllBlocks : a = b \/ Worse(a, b, seq) \/ Worse(b, a, seq)
  BY <1>1, <1>2 DEF Worse
<1> QED BY <1>3, <1>4, <1>5

(* A set of naturals has a least element. *)
LEMMA LeastNat == ASSUME NEW T, T \subseteq Nat, T # {} PROVE \E x \in T : \A y \in T : x <= y
<1> DEFINE R == OpToRel(<, Nat)
<1>1. IsWellFoundedOn(R, Nat)
  BY Zenon, NatLessThanWellFounded
<1>2. \A x, y \in Nat : <<y, x>> \in R <=> y < x
  BY DEF OpToRel
<1> HIDE DEF R
<1>3. PICK x \in T : \A y \in T : ~ (<<y, x>> \in R)
  BY Zenon, <1>1, WFMin
<1>4. x \in Nat
  BY <1>3
<1>5. \A y \in T : x <= y
  <2> TAKE y \in T
  <2>1. y \in Nat /\ ~(y < x)
    BY Zenon, <1>2, <1>3, <1>4
  <2> QED BY <1>4, <2>1
<1> QED BY <1>3, <1>5

(* FindMostWorkChain finds a best one: of finitely many blocks one is better than all the others. *)
LEMMA BestExists ==
    ASSUME NEW seq \in [AllBlocks -> Nat], NEW S, S \subseteq AllBlocks, IsFiniteSet(S), S # {}
    PROVE  \E b \in S : \A x \in S \ {b} : Worse(x, b, seq)
<1> DEFINE HasBest(Q) == \E b \in Q : \A x \in Q \ {b} : Worse(x, b, seq)
           Bad == {Q \in SUBSET AllBlocks : IsFiniteSet(Q) /\ Q # {} /\ ~HasBest(Q)}
           Sizes == {Cardinality(Q) : Q \in Bad}
<1> SUFFICES ASSUME Bad # {} PROVE FALSE
  OBVIOUS
<1>1. Sizes \subseteq Nat /\ Sizes # {}
  BY FS_CardinalityType
<1>2. PICK n \in Sizes : \A m \in Sizes : n <= m
  <2> HIDE DEF Sizes
  <2> QED BY Zenon, <1>1, LeastNat
<1>3. PICK Q \in Bad : Cardinality(Q) = n
  OBVIOUS
<1>4. PICK x \in Q : TRUE
  OBVIOUS
<1>5. IsFiniteSet(Q \ {x}) /\ Cardinality(Q \ {x}) = n - 1 /\ n \in Nat
  BY Zenon, <1>1, <1>3, <1>4, FS_RemoveElement
<1>6. Q \ {x} \notin Bad
  <2> SUFFICES ASSUME Q \ {x} \in Bad PROVE FALSE
    OBVIOUS
  <2> HIDE DEF Bad
  <2>1. n - 1 \in Sizes
    BY <1>5
  <2> HIDE DEF Sizes
  <2> QED BY <1>2, <1>5, <2>1
<1>7. CASE Q \ {x} = {}
  <2>1. HasBest(Q)
    BY <1>4, <1>7
  <2> QED BY <2>1, <1>3
<1>8. CASE Q \ {x} # {}
  <2>1. PICK b \in Q \ {x} : \A y \in (Q \ {x}) \ {b} : Worse(y, b, seq)
    <3>1. Q \ {x} \in SUBSET AllBlocks
      BY <1>3
    <3> HIDE DEF HasBest
    <3>2. HasBest(Q \ {x})
      BY <1>5, <1>6, <1>8, <3>1
    <3> QED BY <3>2 DEF HasBest
  <2>2. x \in AllBlocks /\ b \in AllBlocks /\ Q \subseteq AllBlocks
    BY <1>3, <1>4, <2>1
  <2>3. CASE Worse(x, b, seq)
    <3>1. HasBest(Q)
      BY <2>1, <2>3
    <3> QED BY <3>1, <1>3
  <2>4. CASE Worse(b, x, seq)
    <3>1. \A y \in Q \ {x} : Worse(y, x, seq)
      BY <2>1, <2>2, <2>4, WorseOrder
    <3>2. HasBest(Q)
      BY <1>4, <3>1
    <3> QED BY <3>2, <1>3
  <2> QED BY <2>1, <2>2, <2>3, <2>4, WorseOrder
<1> QED BY <1>7, <1>8

(* Of naturals with a bound one is the greatest. *)
LEMMA MaxNat ==
    ASSUME NEW S, S \subseteq Nat, S # {}, NEW n \in Nat, \A x \in S : x <= n
    PROVE  Max(S) \in S /\ \A x \in S : x <= Max(S)
<1> DEFINE Bounds == {k \in Nat : \A x \in S : x <= k}
<1>1. PICK m \in Bounds : \A k \in Bounds : m <= k
  BY Zenon, LeastNat
<1>2. m \in S
  <2> SUFFICES ASSUME m \notin S PROVE FALSE
    OBVIOUS
  <2>1. PICK x \in S : TRUE
    BY Zenon
  <2>2. \A y \in S : y <= m - 1
    BY <1>1
  <2>3. m - 1 \in Nat
    BY <1>1, <2>1, <2>2
  <2>4. m - 1 \in Bounds
    BY <2>2, <2>3
  <2> QED BY <1>1, <2>4
<1> QED BY Zenon, <1>1, <1>2 DEF Max

-----------------------------------------------------------------------------
(* The inductive invariant.                                                *)

(* nChainTx is set only where all data is there, and mapBlocksUnlinked holds other blocks. *)
LinkedInv ==
    /\ IsFiniteSet(linked) /\ IsFiniteSet(unlinked)
    /\ \E n \in Nat : \A b \in AllBlocks : seqId[b] <= n
    /\ \A b \in linked : Ancestors[b] \subseteq haveData \cap linked
    /\ unlinked \subseteq haveData \ linked

(* Blocks that were connected once passed every check. *)
ConnectedInv ==
    /\ connected \subseteq haveData
    /\ \A b \in connected : verdict[b] \notin {"invalid", "context"}
    /\ tip \in linked

(* c and all below it were connected once and none is known to be bad: it can become the tip for certain. *)
Sturdy(c) == Ancestors[c] \subseteq connected /\ Ancestors[c] \cap Failed = {}

(* While ActivateBestChain is between two steps the tip may be at a fork, lower than blocks that are no    *)
(* longer candidates; but then a sturdy candidate is better than they are.                                 *)
Covered(b) ==
    \/ b \in candidates
    \/ Worse(b, tip, seqId)
    \/ \E c \in candidates : Sturdy(c) /\ Worse(b, c, seqId)

CoverInv ==
    NoReconsider =>
        /\ FailedMaskHasCause
        /\ \A b \in haveData : ~HasInvalidAncestor(b) => b \in IF Ancestors[b] \subseteq haveData THEN linked ELSE unlinked
        /\ \A b \in linked : ~HasInvalidAncestor(b) => Covered(b)

(* There is a candidate that is better than the tip and not known to be bad ... *)
Better == \E b \in candidates : Ancestors[b] \cap Failed = {} /\ Worse(tip, b, seqId)

(* ... only while some thread will look for it. *)
Active(t) == pc[t] = "activate" \/ (pc[t] = "test" /\ mostWork[t] # tip)
ActiveInv == Better => \E t \in Threads : Active(t)

BaseInv == TypeOK /\ LinkedInv /\ ConnectedInv /\ CandidatesSound /\ ActiveChainSound
ChainInv == BaseInv /\ CoverInv /\ ActiveInv

-----------------------------------------------------------------------------
(* Facts about a state.                                                    *)

(* The active chain has data down to genesis and nothing in it is marked. *)
LEMMA ActiveChainFacts ==
    ASSUME BaseInv
    PROVE  /\ tip \in AllBlocks /\ ActiveChain \subseteq AllBlocks /\ tip \in ActiveChain /\ Genesis \in ActiveChain
           /\ ActiveChain \subseteq haveData \cap linked
           /\ ActiveChain \cap Failed = {} /\ ActiveChain \subseteq connected
           /\ \A b \in ActiveChain : Ancestors[b] \subseteq ActiveChain
<1>1. tip \in AllBlocks
  BY DEF BaseInv, TypeOK
<1> QED
  BY <1>1, AncestorsType, AncestorsTransitive DEF BaseInv, ConnectedInv, LinkedInv, ActiveChainSound, ActiveChain

(* FindMostWorkChain looks only as far as the active chain; that is as good as looking down to genesis. *)
LEMMA UsableMeans ==
    ASSUME BaseInv, NEW b
    PROVE  Usable(b) <=> Ancestors[b] \cap Failed = {}
  BY ActiveChainFacts DEF Usable, PathTo

(* The candidates are finitely many linked blocks, none worse than the tip. *)
LEMMA CandidatesType ==
    ASSUME BaseInv
    PROVE  /\ candidates \subseteq linked /\ linked \subseteq AllBlocks /\ IsFiniteSet(candidates)
           /\ seqId \in [AllBlocks -> Nat] /\ candidates \subseteq AllBlocks
           /\ \A b \in candidates : ~Worse(b, tip, seqId)
  BY FS_Subset DEF BaseInv, LinkedInv, CandidatesSound, TypeOK

(* FindMostWorkChain finds the best candidate that is not known to be bad. *)
LEMMA MostWorkMeans ==
    ASSUME BaseInv
    PROVE  /\ MostWorkChain = NoBlock => \A b \in candidates : Ancestors[b] \cap Failed # {}
           /\ MostWorkChain # NoBlock =>
                /\ MostWorkChain \in candidates /\ Ancestors[MostWorkChain] \cap Failed = {}
                /\ \A b \in candidates : Ancestors[b] \cap Failed = {} => b = MostWorkChain \/ Worse(b, MostWorkChain, seqId)
<1> DEFINE usable == {b \in candidates : Usable(b)}
<1>1. usable = {b \in candidates : Ancestors[b] \cap Failed = {}}
  BY UsableMeans
<1>2. CASE usable = {}
  <2>1. MostWorkChain = NoBlock
    BY <1>2 DEF MostWorkChain
  <2> QED BY <1>1, <1>2, <2>1
<1>3. CASE usable # {}
  <2>1. MostWorkChain = Best(usable)
    BY <1>3 DEF MostWorkChain
  <2>2. usable \subseteq AllBlocks /\ IsFiniteSet(usable)
    BY CandidatesType, FS_Subset
  <2> HIDE DEF usable
  <2>3. \E b \in usable : \A x \in usable \ {b} : Worse(x, b, seqId)
    BY <1>3, <2>2, BestExists, CandidatesType
  <2>4. Best(usable) \in usable /\ \A x \in usable \ {Best(usable)} : Worse(x, Best(usable), seqId)
    BY <2>3 DEF Best
  <2>5. MostWorkChain # NoBlock
    BY <2>1, <2>2, <2>4, ChainAssumption
  <2> QED BY <1>1, <2>1, <2>4, <2>5
<1> QED BY <1>2, <1>3

(* What FindMostWorkChain marks or erases has a block below it that is known to be bad; what it marks is *)
(* not in the active chain.                                                                               *)
LEMMA MarkedMeans ==
    ASSUME BaseInv
    PROVE  /\ FailedByMostWork \subseteq AllBlocks \ ActiveChain
           /\ \A x \in FailedByMostWork \cup ErasedByMostWork : x \in AllBlocks /\ Ancestors[x] \cap Failed # {}
<1>1. ASSUME NEW b \in candidates, NEW x \in AboveFailure(b) \cup NearestFailure(b)
      PROVE  x \in AllBlocks \ ActiveChain /\ Ancestors[x] \cap Failed # {}
  <2>1. Ancestors[b] \subseteq AllBlocks
    BY CandidatesType, AncestorsType
  <2>2. CASE x \in AboveFailure(b)
    BY <2>1, <2>2 DEF AboveFailure, PathTo, IsAncestor
  <2>3. CASE x \in NearestFailure(b)
    BY <2>1, <2>3, AncestorsType DEF NearestFailure, PathTo
  <2> QED BY <2>2, <2>3
<1>2. Rejected \subseteq candidates
  BY DEF Rejected
<1> QED BY <1>1, <1>2 DEF FailedByMostWork, ErasedByMostWork

(* Nothing above a block that is known to be bad is free of bad blocks, so marking changes nothing for others. *)
LEMMA StillClean ==
    ASSUME NEW x \in AllBlocks, Ancestors[x] \cap Failed = {}, NEW M, \A y \in M : Ancestors[y] \cap Failed # {}
    PROVE  Ancestors[x] \cap M = {}
  BY AncestorsTransitive

-----------------------------------------------------------------------------
(* Headers and blocks arrive.                                              *)

(* A step that leaves the index, the candidates and the tip alone. *)
LEMMA SameChain ==
    ASSUME BaseInv, CoverInv, TypeOK',
           UNCHANGED <<world, verdict, haveData, connected, failedValid, failedChild, linked, seqId, unlinked,
                       candidates, tip>>
    PROVE  BaseInv' /\ CoverInv' /\ (Better' => Better)
<1>1. Failed' = Failed /\ ActiveChain' = ActiveChain /\ NoReconsider' = NoReconsider
  BY DEF Failed, ActiveChain, NoReconsider
<1>2. \A b : HasInvalidAncestor(b)' = HasInvalidAncestor(b) /\ Sturdy(b)' = Sturdy(b)
  BY <1>1 DEF HasInvalidAncestor, Sturdy
<1>3. \A b : Covered(b)' = Covered(b)
  BY <1>2 DEF Covered
<1>4. BaseInv'
  BY <1>1 DEF BaseInv, LinkedInv, ConnectedInv, CandidatesSound, ActiveChainSound
<1>5. CoverInv'
  BY <1>1, <1>2, <1>3 DEF CoverInv, FailedMaskHasCause
<1> QED BY <1>1, <1>4, <1>5 DEF Better

(* ContextualCheckBlock fails: the block, which has no data, is marked. *)
LEMMA ContextFails ==
    ASSUME BaseInv, CoverInv, TypeOK', NEW b \in AllBlocks \ haveData, failedValid' = failedValid \cup {b},
           UNCHANGED <<world, verdict, haveData, connected, failedChild, linked, seqId, unlinked, candidates, tip>>
    PROVE  BaseInv' /\ CoverInv' /\ (Better' => Better)
<1>1. Failed' = Failed \cup {b} /\ ActiveChain' = ActiveChain /\ NoReconsider' = NoReconsider
  BY DEF Failed, ActiveChain, NoReconsider
<1>2. BaseInv'
  BY <1>1, ActiveChainFacts DEF BaseInv, LinkedInv, ConnectedInv, CandidatesSound, ActiveChainSound
<1>3. \A x : Sturdy(x) => Sturdy(x)'
  BY <1>1 DEF Sturdy, BaseInv, ConnectedInv
<1>4. \A x : Covered(x) => Covered(x)'
  BY <1>3 DEF Covered
<1>5. \A x : HasInvalidAncestor(x) => HasInvalidAncestor(x)'
  BY DEF HasInvalidAncestor
<1>6. HasInvalidAncestor(b)'
  BY AncestorsType DEF HasInvalidAncestor
<1>7. CoverInv'
  BY <1>1, <1>4, <1>5, <1>6 DEF CoverInv, FailedMaskHasCause
<1> QED BY <1>1, <1>2, <1>7 DEF Better

(* What a block that arrives links: itself and blocks that waited, all of whose data is now there. *)
LEMMA NewlyLinkedMeans ==
    ASSUME BaseInv, NEW b \in Blocks, b \notin haveData, Parent[b] \in linked
    PROVE  /\ b \in NewlyLinked(b) /\ NewlyLinked(b) \subseteq unlinked \cup {b}
           /\ NewlyLinked(b) \cap linked = {} /\ IsFiniteSet(NewlyLinked(b))
           /\ \A x \in NewlyLinked(b) :
                    /\ Ancestors[x] \subseteq haveData \cup {b}
                    /\ Ancestors[x] \subseteq linked \cup NewlyLinked(b)
<1>1. /\ b \in AllBlocks /\ Parent[b] \in AllBlocks /\ b \in Ancestors[b] /\ Ancestors[b] = {b} \cup Ancestors[Parent[b]]
      /\ Ancestors[Parent[b]] \subseteq haveData \cap linked
  BY AncestorsOfBlock, AncestorsType DEF BaseInv, LinkedInv
<1>2. b \notin linked
  BY <1>1 DEF BaseInv, LinkedInv
<1>3. b \in NewlyLinked(b)
  BY <1>1 DEF NewlyLinked
<1>4. ASSUME NEW x \in NewlyLinked(b)
      PROVE  x \in unlinked \cup {b}
  <2>1. x \in AllBlocks /\ b \in Ancestors[x] /\ x \in Ancestors[x] /\ (x \notin Ancestors[b] => x \in unlinked)
    BY AncestorsType DEF NewlyLinked
  <2>2. x \in Ancestors[b] => x = b
    BY <1>1, <2>1, AncestorsAntisymmetric
  <2> QED BY <2>1, <2>2
<1>5. unlinked \subseteq haveData \ linked /\ IsFiniteSet(unlinked)
  BY DEF BaseInv, LinkedInv
<1>6. IsFiniteSet(NewlyLinked(b))
  <2>1. IsFiniteSet(unlinked \cup {b})
    BY <1>5, FS_AddElement
  <2> QED BY <1>4, <2>1, FS_Subset
<1>7. ASSUME NEW x \in NewlyLinked(b), NEW y \in Ancestors[x], y \notin Ancestors[b]
      PROVE  y \in NewlyLinked(b)
  <2>1. x \in AllBlocks /\ b \in Ancestors[x] /\ Ancestors[x] \ Ancestors[b] \subseteq unlinked
    BY <1>7 DEF NewlyLinked
  <2>2. y \in AllBlocks /\ Ancestors[y] \subseteq Ancestors[x]
    BY <2>1, AncestorsType, AncestorsTransitive
  <2>3. b \in Ancestors[y]
    BY <1>7, <2>1, AncestorsLinear
  <2> QED BY <2>1, <2>2, <2>3 DEF NewlyLinked
<1>8. ASSUME NEW x \in NewlyLinked(b), NEW y \in Ancestors[x]
      PROVE  y \in haveData \cup {b} /\ y \in linked \cup NewlyLinked(b)
  <2>1. CASE y \in Ancestors[b]
    BY <1>1, <1>3, <2>1
  <2>2. CASE y \notin Ancestors[b]
    BY <1>4, <1>5, <1>7, <2>2
  <2> QED BY <2>1, <2>2
<1> QED BY <1>2, <1>3, <1>4, <1>5, <1>6, <1>8

(* The new sequence ids are numbers, and there is still a greatest. *)
LEMMA SequenceIdsMeans ==
    ASSUME BaseInv, NEW new, new \subseteq AllBlocks, IsFiniteSet(new), NEW s \in SequenceIds(new)
    PROVE  LET seq == [x \in AllBlocks |-> IF x \in new THEN s[x] ELSE seqId[x]]
           IN  seq \in [AllBlocks -> Nat] /\ \E n \in Nat : \A b \in AllBlocks : seq[b] <= n
<1> DEFINE ids == {seqId[b] : b \in AllBlocks}
           first == Max(ids) + 1
           last == first + Cardinality(new) - 1
<1>1. PICK n \in Nat : \A b \in AllBlocks : seqId[b] <= n
  BY DEF BaseInv, LinkedInv
<1>2. ids \subseteq Nat /\ ids # {} /\ \A x \in ids : x <= n
  BY <1>1 DEF BaseInv, TypeOK, AllBlocks
<1>3. Max(ids) \in Nat
  <2> HIDE DEF ids
  <2> QED BY Zenon, <1>2, MaxNat
<1>4. s \in [new -> first .. last]
  BY DEF SequenceIds
<1>5. Cardinality(new) \in Nat
  BY FS_CardinalityType
<1> HIDE DEF ids
<1>6. first \in Nat /\ last \in Int /\ \A x \in new : s[x] \in Nat /\ s[x] <= last
  BY <1>3, <1>4, <1>5
<1>7. \E m \in Nat : m >= n /\ m >= last
  BY <1>6
<1> HIDE DEF first, last
<1>8. PICK m \in Nat : m >= n /\ m >= last
  BY <1>7
<1>9. \A b \in AllBlocks : seqId[b] \in Nat
  BY DEF BaseInv, TypeOK
<1>10. \A b \in AllBlocks : (IF b \in new THEN s[b] ELSE seqId[b]) \in Nat /\ (IF b \in new THEN s[b] ELSE seqId[b]) <= m
  BY <1>1, <1>6, <1>8, <1>9
<1> QED BY <1>8, <1>10

(* ReceivedBlockTransactions while an ancestor's data is missing: the block waits in mapBlocksUnlinked. *)
LEMMA ReceivedWaits ==
    ASSUME BaseInv, CoverInv, NEW b \in Blocks, b \notin haveData, Parent[b] \notin linked,
           ReceivedBlockTransactions(b), TypeOK', UNCHANGED <<world, verdict, connected, failedValid, failedChild, tip>>
    PROVE  BaseInv' /\ CoverInv'
<1>1. /\ haveData' = haveData \cup {b} /\ UNCHANGED <<linked, seqId, candidates>>
      /\ unlinked' \subseteq unlinked \cup {b} /\ unlinked \subseteq unlinked'
      /\ Parent[b] \notin Failed => b \in unlinked'
  BY DEF ReceivedBlockTransactions
<1>2. /\ b \in AllBlocks /\ Parent[b] \in AllBlocks /\ b \in Ancestors[b] /\ Ancestors[b] = {b} \cup Ancestors[Parent[b]]
      /\ Parent[b] \in Ancestors[Parent[b]] /\ b \notin Ancestors[Parent[b]]
  BY AncestorsOfBlock, AncestorsType, NotAboveParent
<1>3. b \notin linked
  BY <1>2 DEF BaseInv, LinkedInv
<1>4. Failed' = Failed /\ ActiveChain' = ActiveChain /\ NoReconsider' = NoReconsider
  BY DEF Failed, ActiveChain, NoReconsider
<1>5. LinkedInv'
  <2>1. IsFiniteSet(unlinked \cup {b})
    BY FS_AddElement DEF BaseInv, LinkedInv
  <2>2. IsFiniteSet(unlinked')
    BY <1>1, <2>1, FS_Subset
  <2> QED BY <1>1, <1>3, <2>2 DEF BaseInv, LinkedInv
<1>6. BaseInv'
  BY <1>1, <1>4, <1>5 DEF BaseInv, ConnectedInv, CandidatesSound, ActiveChainSound
<1>7. \A x : HasInvalidAncestor(x)' = HasInvalidAncestor(x) /\ Sturdy(x)' = Sturdy(x)
  BY <1>4 DEF HasInvalidAncestor, Sturdy
<1>8. \A x : Covered(x)' = Covered(x)
  BY <1>1, <1>7 DEF Covered
<1>9. ASSUME NoReconsider
      PROVE  Ancestors[Parent[b]] \subseteq haveData => HasInvalidAncestor(Parent[b])
  BY <1>2, <1>9 DEF CoverInv
<1>10. ASSUME NoReconsider, NEW x \in haveData', ~HasInvalidAncestor(x)
       PROVE  x \in IF Ancestors[x] \subseteq haveData' THEN linked' ELSE unlinked'
  <2>1. haveData \subseteq AllBlocks
    BY DEF BaseInv, TypeOK
  <2>2. CASE b \in Ancestors[x]
    <3>1. x \in AllBlocks
      BY <1>1, <1>2, <2>1
    <3>2. Ancestors[b] \subseteq Ancestors[x]
      BY <2>2, <3>1, AncestorsTransitive
    <3>3. Ancestors[Parent[b]] \subseteq Ancestors[x] /\ ~HasInvalidAncestor(Parent[b])
      BY <1>2, <1>10, <3>2 DEF HasInvalidAncestor
    <3>4. ~(Ancestors[x] \subseteq haveData')
      BY <1>1, <1>2, <1>9, <1>10, <3>3
    <3>5. CASE x = b
      <4>1. Parent[b] \notin Failed
        BY <1>10, <3>3 DEF CoverInv, FailedMaskHasCause
      <4> QED BY <1>1, <3>4, <3>5, <4>1
    <3>6. CASE x # b
      <4>1. x \in haveData /\ ~(Ancestors[x] \subseteq haveData)
        BY <1>1, <2>2, <3>6
      <4>2. x \in unlinked
        BY <1>10, <4>1 DEF CoverInv
      <4> QED BY <1>1, <3>4, <4>2
    <3> QED BY <3>5, <3>6
  <2>3. CASE b \notin Ancestors[x]
    <3>1. x \in haveData
      BY <1>1, <1>2, <2>3
    <3>2. x \in IF Ancestors[x] \subseteq haveData THEN linked ELSE unlinked
      BY <1>10, <3>1 DEF CoverInv
    <3> QED BY <1>1, <2>3, <3>2
  <2> QED BY <2>2, <2>3
<1>11. CoverInv'
  BY <1>1, <1>4, <1>7, <1>8, <1>10 DEF CoverInv, FailedMaskHasCause
<1> QED BY <1>6, <1>11

(* The parent was linked: so are the block and those that waited for it. *)
LEMMA ReceivedLinks ==
    ASSUME BaseInv, CoverInv, NEW b \in Blocks, b \notin haveData, Parent[b] \in linked,
           ReceivedBlockTransactions(b), UNCHANGED <<world, verdict, connected, failedValid, failedChild, tip>>,
           seqId' \in [AllBlocks -> Nat] => TypeOK'
    PROVE  BaseInv' /\ CoverInv'
<1> DEFINE new == NewlyLinked(b)
<1>1. /\ b \in new /\ new \subseteq unlinked \cup {b} /\ new \cap linked = {} /\ IsFiniteSet(new)
      /\ \A x \in new : Ancestors[x] \subseteq haveData \cup {b} /\ Ancestors[x] \subseteq linked \cup new
  BY NewlyLinkedMeans
<1>2. /\ b \in AllBlocks /\ Parent[b] \in AllBlocks /\ b \in Ancestors[b] /\ Ancestors[b] = {b} \cup Ancestors[Parent[b]]
      /\ Ancestors[Parent[b]] \subseteq haveData
  BY SMTT(60), AncestorsOfBlock, AncestorsType DEF BaseInv, LinkedInv
<1>3. PICK s \in SequenceIds(new) :
          /\ linked' = linked \cup new /\ unlinked' = unlinked \ new
          /\ seqId' = [x \in AllBlocks |-> IF x \in new THEN s[x] ELSE seqId[x]]
          /\ candidates' = candidates \cup {x \in new : ~Worse(x, tip, [z \in AllBlocks |-> IF z \in new THEN s[z] ELSE seqId[z]])}
  BY DEF ReceivedBlockTransactions
<1>4. haveData' = haveData \cup {b}
  BY DEF ReceivedBlockTransactions
<1>5. new \subseteq AllBlocks
  BY SMTT(60) DEF NewlyLinked
<1>6. seqId' \in [AllBlocks -> Nat] /\ \E n \in Nat : \A x \in AllBlocks : seqId'[x] <= n
  BY SMTT(60), <1>1, <1>3, <1>5, SequenceIdsMeans
<1>7. candidates' = candidates \cup {x \in new : ~Worse(x, tip, seqId')}
  BY SMTT(60), <1>3
<1>8. \A x, y \in AllBlocks \ new : Worse(x, y, seqId') <=> Worse(x, y, seqId)
  BY SMTT(60), <1>3 DEF Worse
<1> HIDE DEF new
<1>9. Failed' = Failed /\ ActiveChain' = ActiveChain /\ NoReconsider' = NoReconsider
  BY DEF Failed, ActiveChain, NoReconsider
<1>10. LinkedInv'
  <2>1. IsFiniteSet(linked') /\ IsFiniteSet(unlinked')
    BY Zenon, <1>1, <1>3, FS_Union, FS_Subset DEF BaseInv, LinkedInv
  <2>2. unlinked' \subseteq haveData' \ linked'
    BY SMTT(60), <1>3, <1>4 DEF BaseInv, LinkedInv
  <2>3. \A x \in linked' : Ancestors[x] \subseteq haveData' \cap linked'
    BY SMTT(60), <1>1, <1>3, <1>4 DEF BaseInv, LinkedInv
  <2> QED BY <1>6, <2>1, <2>2, <2>3 DEF LinkedInv
<1>11. linked \subseteq AllBlocks \ new /\ tip \in AllBlocks \ new /\ candidates \subseteq linked
  BY <1>1, CandidatesType DEF BaseInv, ConnectedInv
<1>12. CandidatesSound'
  <2>1. ASSUME NEW x \in candidates' PROVE x \in linked' /\ ~Worse(x, tip', seqId')
    <3>1. CASE x \in candidates
      BY SMTT(60), <1>3, <1>8, <1>11, <3>1, CandidatesType
    <3>2. CASE x \notin candidates
      BY SMTT(60), <1>3, <1>7, <3>2
    <3> QED BY SMTT(60), <3>1, <3>2
  <2> QED BY <2>1 DEF CandidatesSound
<1>13. BaseInv'
  BY SMTT(60), <1>3, <1>4, <1>6, <1>9, <1>10, <1>12 DEF BaseInv, ConnectedInv, ActiveChainSound
<1>14. \A x : HasInvalidAncestor(x)' = HasInvalidAncestor(x) /\ Sturdy(x)' = Sturdy(x)
  BY <1>9 DEF HasInvalidAncestor, Sturdy
<1>15. ASSUME NoReconsider, NEW x \in haveData', ~HasInvalidAncestor(x)
       PROVE  x \in IF Ancestors[x] \subseteq haveData' THEN linked' ELSE unlinked'
  <2>1. x \in AllBlocks /\ x \in Ancestors[x]
    BY SMTT(60), <1>2, <1>4, AncestorsType DEF BaseInv, TypeOK
  <2>2. \A y \in haveData : ~HasInvalidAncestor(y) => y \in IF Ancestors[y] \subseteq haveData THEN linked ELSE unlinked
    BY SMTT(60), <1>15 DEF CoverInv
  <2>3. CASE ~(Ancestors[x] \subseteq haveData')
    <3>1. x \in haveData /\ x \notin new /\ ~(Ancestors[x] \subseteq haveData)
      BY SMTT(60), <1>1, <1>2, <1>4, <1>15, <2>3
    <3> QED BY SMTT(60), <1>3, <1>15, <2>2, <2>3, <3>1
  <2>4. CASE Ancestors[x] \subseteq haveData' /\ b \notin Ancestors[x]
    BY SMTT(60), <1>3, <1>4, <1>15, <2>1, <2>2, <2>4
  <2>5. CASE Ancestors[x] \subseteq haveData' /\ b \in Ancestors[x]
    <3>1. ASSUME NEW y \in Ancestors[x] \ Ancestors[b] PROVE y \in unlinked
      <4>1. y \in AllBlocks /\ Ancestors[y] \subseteq Ancestors[x]
        BY <2>1, AncestorsType, AncestorsTransitive
      <4>2. b \in Ancestors[y]
        BY SMTT(60), <2>1, <2>5, <3>1, AncestorsLinear
      <4>3. y \in haveData /\ ~HasInvalidAncestor(y)
        BY SMTT(60), <1>2, <1>4, <1>15, <2>5, <3>1, <4>1 DEF HasInvalidAncestor
      <4> QED BY <2>2, <4>2, <4>3
    <3>2. x \in new
      BY SMTT(60), <2>1, <2>5, <3>1 DEF new, NewlyLinked
    <3> QED BY SMTT(60), <1>3, <2>5, <3>2
  <2> QED BY SMTT(60), <2>3, <2>4, <2>5
<1>16. ASSUME NoReconsider, NEW x \in linked', ~HasInvalidAncestor(x)
       PROVE  Covered(x)'
  <2>1. CASE x \in new
    BY <1>7, <2>1 DEF Covered
  <2>2. CASE x \in linked
    <3>1. Covered(x)
      BY <1>16, <2>2 DEF CoverInv
    <3>2. \A c \in candidates : Worse(x, c, seqId') <=> Worse(x, c, seqId)
      BY <1>8, <1>11, <2>2
    <3>3. Worse(x, tip, seqId') <=> Worse(x, tip, seqId)
      BY SMTT(60), <1>8, <1>11, <2>2
    <3> QED BY SMTT(60), <1>7, <1>14, <3>1, <3>2, <3>3 DEF Covered
  <2> QED BY <1>3, <2>1, <2>2
<1>17. CoverInv'
  BY <1>9, <1>14, <1>15, <1>16 DEF CoverInv, FailedMaskHasCause
<1> QED BY <1>13, <1>17

-----------------------------------------------------------------------------
(* ActivateBestChain.                                                      *)

(* Finitely many blocks have a highest one: what FindFork and a step choose exists. *)
LEMMA HighestExists ==
    ASSUME NEW S, S \subseteq AllBlocks, IsFiniteSet(S), S # {}
    PROVE  \E a \in S : \A x \in S : Height(x) <= Height(a)
<1> DEFINE seq == [b \in AllBlocks |-> 0]
<1>1. seq \in [AllBlocks -> Nat]
  OBVIOUS
<1> HIDE DEF seq
<1>2. PICK a \in S : \A x \in S \ {a} : Worse(x, a, seq)
  BY <1>1, BestExists
<1>3. \A x \in S : Height(x) <= Height(a)
  <2>1. \A x \in S : Height(x) \in Nat
    BY HeightType
  <2> QED BY <1>2, <2>1 DEF Worse, ChainWork
<1> QED BY <1>3

(* What FindMostWorkChain marks and erases leaves every sturdy block and every block without an invalid one *)
(* below it alone.                                                                                          *)
LEMMA MarkingIsHarmless ==
    ASSUME BaseInv, CoverInv
    PROVE  /\ \A c \in AllBlocks : Sturdy(c) => c \notin ErasedByMostWork /\ Ancestors[c] \cap FailedByMostWork = {}
           /\ NoReconsider => \A x \in FailedByMostWork \cup ErasedByMostWork : HasInvalidAncestor(x)
<1>1. \A x \in FailedByMostWork \cup ErasedByMostWork : x \in AllBlocks /\ Ancestors[x] \cap Failed # {}
  BY MarkedMeans
<1>2. \A c \in AllBlocks : Sturdy(c) => c \notin ErasedByMostWork /\ Ancestors[c] \cap FailedByMostWork = {}
  BY <1>1, StillClean DEF Sturdy
<1>3. ASSUME NoReconsider, NEW x \in FailedByMostWork \cup ErasedByMostWork
      PROVE  HasInvalidAncestor(x)
  <2>1. PICK f \in Ancestors[x] : f \in Failed
    BY <1>1
  <2>2. HasInvalidAncestor(f)
    BY <1>3, <2>1 DEF CoverInv, FailedMaskHasCause
  <2>3. Ancestors[f] \subseteq Ancestors[x]
    BY <1>1, AncestorsTransitive
  <2> QED BY <2>2, <2>3 DEF HasInvalidAncestor
<1> QED BY <1>2, <1>3

(* FindMostWorkChain finds nothing better than the tip: then there is nothing better. *)
LEMMA NothingFound ==
    ASSUME BaseInv, CoverInv, NEW t \in Threads, ActivateNothing(t)
    PROVE  BaseInv' /\ CoverInv' /\ ~Better'
<1> DEFINE M == FailedByMostWork
           E == ErasedByMostWork
<1>1. /\ failedChild' = failedChild \cup M /\ candidates' = candidates \ E
      /\ UNCHANGED <<world, verdict, index, haveData, connected, failedValid, linked, seqId, unlinked, tip>>
      /\ MostWorkChain \in {NoBlock, tip} /\ Return(t)
  BY DEF ActivateNothing
<1>2. M \subseteq AllBlocks \ ActiveChain
  BY MarkedMeans
<1>3. /\ \A c \in AllBlocks : Sturdy(c) => c \notin E /\ Ancestors[c] \cap M = {}
      /\ NoReconsider => \A x \in M \cup E : HasInvalidAncestor(x)
  BY MarkingIsHarmless
<1> HIDE DEF M, E
<1>4. TypeOK'
  BY SMTT(60), <1>1, <1>2 DEF BaseInv, TypeOK, Return
<1>5. Failed' = Failed \cup M /\ ActiveChain' = ActiveChain /\ NoReconsider' = NoReconsider
  BY <1>1 DEF Failed, ActiveChain, NoReconsider
<1>6. BaseInv'
  BY <1>1, <1>2, <1>4, <1>5 DEF BaseInv, LinkedInv, ConnectedInv, CandidatesSound, ActiveChainSound
<1>7. \A x : HasInvalidAncestor(x)' = HasInvalidAncestor(x)
  BY <1>1 DEF HasInvalidAncestor
<1>8. \A c \in AllBlocks : Sturdy(c) => Sturdy(c)'
  BY SMTT(60), <1>1, <1>3, <1>5 DEF Sturdy
<1>9. ASSUME NoReconsider, NEW x \in linked, ~HasInvalidAncestor(x) PROVE Covered(x)'
  <2>1. Covered(x)
    BY SMTT(60), <1>9 DEF CoverInv
  <2>2. \A c \in candidates : Sturdy(c) => c \in candidates' /\ Sturdy(c)'
    BY <1>1, <1>3, <1>8, CandidatesType
  <2> QED BY SMTT(60), <1>1, <1>3, <1>9, <2>1, <2>2 DEF Covered
<1>10. CoverInv'
  BY Zenon, <1>1, <1>3, <1>5, <1>7, <1>9 DEF CoverInv, FailedMaskHasCause
<1>11. ASSUME NEW b \in candidates', Ancestors[b] \cap Failed' = {} PROVE ~Worse(tip, b, seqId)
  <2>1. b \in candidates /\ Ancestors[b] \cap Failed = {}
    BY ZenonT(60), <1>1, <1>5, <1>11
  <2>2. MostWorkChain # NoBlock /\ (b = MostWorkChain \/ Worse(b, MostWorkChain, seqId))
    BY <2>1, MostWorkMeans
  <2>3. b = tip \/ Worse(b, tip, seqId)
    BY SMTT(60), <1>1, <2>2
  <2>4. b \in AllBlocks /\ tip \in AllBlocks /\ seqId \in [AllBlocks -> Nat]
    BY SMTT(60), <2>1, CandidatesType, ActiveChainFacts
  <2> QED BY SMTT(60), <2>3, <2>4, WorseOrder
<1>12. ~Better'
  BY SMTT(60), <1>1, <1>11 DEF Better
<1> QED BY <1>6, <1>10, <1>12

(* Where ActivateBestChainStep leaves the tip: every block it connected is below it. *)
LEMMA StepTip ==
    ASSUME BaseInv, NEW t \in Threads, NEW target \in AllBlocks, target = MostWorkChain,
           NEW newTip, newTip = (IF Connected(t, target) = {} THEN FindFork(target)
                                 ELSE CHOOSE x \in Connected(t, target) : \A y \in Connected(t, target) : Height(y) <= Height(x))
    PROVE  /\ newTip \in linked
           /\ Ancestors[newTip] \subseteq ActiveChain \cup Connected(t, target)
           /\ Connected(t, target) = {} => newTip \in ActiveChain
<1> DEFINE good == Connected(t, target)
<1>1. target \in linked /\ Ancestors[target] \subseteq linked \cap AllBlocks /\ IsFiniteSet(Ancestors[target])
      /\ Genesis \in Ancestors[target]
  BY MostWorkMeans, CandidatesType, AncestorsType, ChainAssumption DEF BaseInv, LinkedInv
<1>2. CASE good = {}
  <2> DEFINE S == Ancestors[target] \cap ActiveChain
  <2>1. IsFiniteSet(S) /\ S # {} /\ S \subseteq AllBlocks
    BY Zenon, <1>1, FS_Subset, ActiveChainFacts
  <2>2. \E a \in S : \A x \in S : Height(x) <= Height(a)
    BY Zenon, <2>1, HighestExists
  <2>3. newTip \in S
    BY <1>2, <2>2 DEF FindFork
  <2> QED BY Zenon, <1>1, <2>3, ActiveChainFacts
<1>3. CASE good # {}
  <2>1. good \subseteq PathTo(target)
    BY SMTT(60) DEF Connected, Tried
  <2>2. good \subseteq Ancestors[target] /\ IsFiniteSet(good) /\ good \subseteq AllBlocks
    BY SMTT(60), <1>1, <2>1, FS_Subset DEF PathTo
  <2>3. \E a \in good : \A x \in good : Height(x) <= Height(a)
    BY <1>3, <2>2, HighestExists
  <2>4. newTip \in good
    BY SMTT(60), <1>3, <2>3
  <2>5. newTip \in Ancestors[target] /\ newTip \in AllBlocks /\ newTip \in Tried(t, target)
    BY SMTT(60), <2>2, <2>4 DEF Connected
  <2>6. ASSUME NEW y \in Ancestors[newTip], y \notin ActiveChain, y # newTip
        PROVE  y \in good
    <3>1. y \in AllBlocks /\ y \in PathTo(target)
      BY SMTT(60), <2>5, <2>6, AncestorsType, AncestorsTransitive DEF PathTo
    <3>2. ConnectVerdict(t, y, target) = "ok"
      BY SMTT(60), <2>5, <2>6, <3>1 DEF Tried, IsAncestor
    <3>3. ASSUME NEW z \in PathTo(target), z # y, IsAncestor(z, y)
          PROVE  ConnectVerdict(t, z, target) = "ok" /\ ChainWork(z) <= ChainWork(tip)
      <4>1. z \in Ancestors[newTip]
        BY <2>5, <2>6, <3>3, AncestorsTransitive DEF IsAncestor
      <4>2. z # newTip
        BY Zenon, <2>5, <2>6, <3>1, <3>3, AncestorsAntisymmetric DEF IsAncestor
      <4> QED BY SMTT(60), <2>5, <3>3, <4>1, <4>2 DEF Tried, IsAncestor
    <3>4. y \in Tried(t, target)
      BY <3>1, <3>3 DEF Tried
    <3> QED BY SMTT(60), <3>2, <3>4 DEF Connected
  <2> QED BY Zenon, <1>1, <1>3, <2>4, <2>5, <2>6
<1> QED BY SMTT(60), <1>2, <1>3

(* The tip is a sturdy block, and some sturdy candidate is at least as good. *)
LEMMA SturdyCandidate ==
    ASSUME BaseInv, CoverInv, NoReconsider
    PROVE  \E c \in candidates : Sturdy(c) /\ (c = tip \/ Worse(tip, c, seqId))
<1>1. Sturdy(tip) /\ ~HasInvalidAncestor(tip) /\ tip \in linked /\ tip \in AllBlocks
  BY ActiveChainFacts DEF Sturdy, ActiveChain, HasInvalidAncestor, Failed
<1>2. Covered(tip)
  BY <1>1 DEF CoverInv
<1>3. ~Worse(tip, tip, seqId)
  BY <1>1, WorseOrder, CandidatesType
<1> QED BY <1>1, <1>2, <1>3 DEF Covered

(* One ActivateBestChainStep: what it disconnects stays covered by a sturdy candidate, and while there is *)
(* something better than the new tip the thread goes round again.                                         *)
LEMMA StepTaken ==
    ASSUME BaseInv, CoverInv, NEW t \in Threads, ActivateBestChainStep(t)
    PROVE  BaseInv' /\ CoverInv' /\ (Better' => mostWork'[t] # tip' /\ pc'[t] = "test")
<1>1. PICK target \in AllBlocks \ {tip} :
          /\ target = MostWorkChain
          /\ tip' = (IF Connected(t, target) = {} THEN FindFork(target)
                     ELSE CHOOSE x \in Connected(t, target) : \A y \in Connected(t, target) : Height(y) <= Height(x))
          /\ connected' = connected \cup Connected(t, target)
          /\ failedChild' = failedChild \cup FailedByMostWork
          /\ failedValid' = failedValid \cup FoundInvalid(t, target)
          /\ candidates' = (IF Connected(t, target) = {} THEN candidates \ ErasedByMostWork
                                ELSE PruneBlockIndexCandidates(candidates \ ErasedByMostWork, tip'))
                               \ FoundInvalid(t, target)
          /\ pc' = [pc EXCEPT ![t] = "test"]
          /\ mostWork' = [mostWork EXCEPT ![t] = target]
          /\ UNCHANGED <<world, verdict, index, haveData, linked, seqId, unlinked, pblock>>
  BY Zenon DEF ActivateBestChainStep
<1> DEFINE good == Connected(t, target)
           M == FailedByMostWork
           E == ErasedByMostWork
           FI == FoundInvalid(t, target)
<1>2. tip' \in linked /\ Ancestors[tip'] \subseteq ActiveChain \cup good /\ (good = {} => tip' \in ActiveChain)
  BY SMTT(60), ZenonT(60), <1>1, StepTip
<1>3. /\ target \in candidates /\ Ancestors[target] \cap Failed = {}
      /\ \A b \in candidates : Ancestors[b] \cap Failed = {} => b = target \/ Worse(b, target, seqId)
  BY <1>1, MostWorkMeans, ChainAssumption
<1>4. target \in linked /\ Ancestors[target] \subseteq haveData \cap linked /\ Ancestors[target] \subseteq AllBlocks
  BY <1>3, CandidatesType, AncestorsType DEF BaseInv, LinkedInv
<1>5. /\ good \subseteq Ancestors[target] \ ActiveChain /\ FI \subseteq Ancestors[target] \ ActiveChain
      /\ good \cap FI = {} /\ (\A x \in good : verdict[x] \notin {"invalid", "context"}) /\ \A x \in FI : verdict[x] = "invalid"
  BY Zenon DEF Connected, Tried, PathTo, FoundInvalid, ConnectVerdict
<1>6. /\ M \subseteq AllBlocks \ ActiveChain
      /\ \A x \in M \cup E : Ancestors[x] \cap Failed # {}
  BY MarkedMeans
<1>7. /\ \A c \in AllBlocks : Sturdy(c) => c \notin E /\ Ancestors[c] \cap M = {}
      /\ NoReconsider => \A x \in M \cup E : HasInvalidAncestor(x)
  BY MarkingIsHarmless
<1>8. Ancestors[target] \cap M = {}
  BY Zenon, <1>3, <1>6, StillClean
<1>9. /\ connected' = connected \cup good /\ Failed' = Failed \cup M \cup FI /\ failedValid' = failedValid \cup FI
      /\ candidates' \subseteq (candidates \ E) \ FI
      /\ good # {} => candidates' = {x \in (candidates \ E) \ FI : ~Worse(x, tip', seqId)}
      /\ good = {} => candidates' = (candidates \ E) \ FI
  BY SMTT(60), <1>1 DEF PruneBlockIndexCandidates, Failed
<1>10. NoReconsider' = NoReconsider
  BY SMTT(60), <1>1 DEF NoReconsider
<1>11. TypeOK'
  <2>1. failedChild' \subseteq AllBlocks /\ failedValid' \subseteq AllBlocks /\ connected' \subseteq AllBlocks
        /\ candidates' \subseteq AllBlocks /\ tip' \in AllBlocks
    BY Zenon, <1>1, <1>2, <1>4, <1>5, <1>6, <1>9 DEF BaseInv, TypeOK
  <2>2. pc' = [pc EXCEPT ![t] = "test"] /\ mostWork' = [mostWork EXCEPT ![t] = target]
        /\ UNCHANGED <<world, verdict, index, haveData, linked, seqId, unlinked, pblock>>
    BY <1>1
  <2> QED BY <2>1, <2>2 DEF BaseInv, TypeOK
<1> HIDE DEF good, M, E, FI
<1>12. ActiveChainSound'
  <2>1. ASSUME NEW b \in Ancestors[tip'] 
        PROVE  b \in haveData /\ b \in connected' /\ b \notin Failed' /\ verdict[b] \notin {"invalid", "context"}
    <3>1. CASE b \in ActiveChain
      BY Zenon, <1>5, <1>6, <1>9, <3>1, ActiveChainFacts DEF BaseInv, ActiveChainSound
    <3>2. CASE b \in good
      BY Zenon, <1>3, <1>4, <1>5, <1>8, <1>9, <3>2
    <3> QED BY <1>2, <3>1, <3>2
  <2> QED BY Zenon, <1>1, <2>1 DEF ActiveChainSound, ActiveChain
<1>13. ConnectedInv'
  BY Zenon, <1>1, <1>2, <1>4, <1>5, <1>9 DEF BaseInv, ConnectedInv
<1>14. linked \subseteq AllBlocks /\ candidates \subseteq linked /\ tip \in AllBlocks /\ tip' \in AllBlocks
       /\ seqId \in [AllBlocks -> Nat]
  BY <1>2, CandidatesType, ActiveChainFacts
<1>15. CandidatesSound'
  <2>1. ASSUME NEW x \in candidates' PROVE x \in linked /\ ~Worse(x, tip', seqId)
    <3>1. x \in candidates /\ x \in linked /\ x \in AllBlocks /\ ~Worse(x, tip, seqId)
      BY <1>9, <1>14, CandidatesType
    <3>2. CASE good # {}
      BY <1>9, <3>1, <3>2
    <3>3. CASE good = {}
      <4>1. tip' = tip \/ Worse(tip', tip, seqId)
        BY SMTT(60), <1>2, <1>14, <3>3, LowerWork DEF ActiveChain, Worse
      <4> QED BY SMTT(60), <1>14, <3>1, <4>1, WorseOrder
    <3> QED BY <3>2, <3>3
  <2> QED BY Zenon, <1>1, <2>1 DEF CandidatesSound
<1>16. BaseInv'
  BY SMTT(60), <1>1, <1>11, <1>12, <1>13, <1>15 DEF BaseInv, LinkedInv
<1>17. \A x : HasInvalidAncestor(x) => HasInvalidAncestor(x)'
  BY SMTT(60), <1>9 DEF HasInvalidAncestor
<1>18. \A c \in AllBlocks : Sturdy(c) => Sturdy(c)' /\ c \notin E /\ c \notin FI
  <2>1. FI \cap connected = {}
    BY <1>5 DEF BaseInv, ConnectedInv
  <2> QED BY SMTT(60), <1>7, <1>9, <2>1, AncestorsType DEF Sturdy
<1>19. ASSUME NoReconsider, NEW x \in linked, ~HasInvalidAncestor(x)'
       PROVE  Covered(x)'
  <2>1. ~HasInvalidAncestor(x) /\ Covered(x) /\ x \in AllBlocks
    BY <1>14, <1>17, <1>19 DEF CoverInv
  <2>2. ASSUME NEW c \in candidates, Sturdy(c), Worse(x, c, seqId) PROVE Covered(x)'
    <3>1. c \in AllBlocks /\ Sturdy(c)' /\ c \in (candidates \ E) \ FI
      BY <1>14, <1>18, <2>2
    <3>2. c \in candidates' \/ Worse(c, tip', seqId)
      BY <1>9, <3>1
    <3>3. CASE c \in candidates'
      BY Zenon, <1>1, <2>2, <3>1, <3>3 DEF Covered
    <3>4. CASE Worse(c, tip', seqId)
      <4>1. Worse(x, tip', seqId)
        BY <1>14, <2>1, <2>2, <3>1, <3>4, WorseOrder
      <4> QED BY <1>1, <4>1 DEF Covered
    <3> QED BY <3>2, <3>3, <3>4
  <2>3. CASE x \in candidates
    <3>1. x \notin FI
      <4>1. x \in Ancestors[x]
        BY <2>1, AncestorsType
      <4> QED BY SMTT(60), <1>9, <1>19, <4>1 DEF HasInvalidAncestor
    <3>2. x \in (candidates \ E) \ FI
      BY <1>7, <1>19, <2>1, <2>3, <3>1
    <3>3. x \in candidates' \/ Worse(x, tip', seqId)
      BY <1>9, <3>2
    <3> QED BY SMTT(60), <1>1, <3>3 DEF Covered
  <2>4. CASE Worse(x, tip, seqId)
    <3>1. PICK c \in candidates : Sturdy(c) /\ (c = tip \/ Worse(tip, c, seqId))
      BY <1>19, SturdyCandidate
    <3>2. Worse(x, c, seqId)
      BY <1>14, <2>1, <2>4, <3>1, WorseOrder
    <3> QED BY <2>2, <3>1, <3>2
  <2> QED BY <2>1, <2>2, <2>3, <2>4 DEF Covered
<1>20. ASSUME NoReconsider PROVE FailedMaskHasCause'
  <2>1. ASSUME NEW x \in Failed' PROVE HasInvalidAncestor(x)'
    <3>1. CASE x \in Failed
      BY <1>17, <1>20, <3>1 DEF CoverInv, FailedMaskHasCause
    <3>2. CASE x \in M
      BY SMTT(60), <1>7, <1>17, <1>20, <3>2
    <3>3. CASE x \in FI
      BY <1>4, <1>5, <1>9, <3>3, AncestorsType DEF HasInvalidAncestor
    <3> QED BY SMTT(60), <1>9, <3>1, <3>2, <3>3
  <2> QED BY <2>1 DEF FailedMaskHasCause
<1>21. CoverInv'
  BY Zenon, <1>1, <1>10, <1>17, <1>19, <1>20 DEF CoverInv
<1>22. ASSUME Better' PROVE mostWork'[t] # tip' /\ pc'[t] = "test"
  <2>1. PICK b \in candidates' : Ancestors[b] \cap Failed' = {} /\ Worse(tip', b, seqId)
    BY Zenon, <1>1, <1>22 DEF Better
  <2>2. b \in AllBlocks /\ (b = target \/ Worse(b, target, seqId))
    BY Zenon, <1>3, <1>9, <1>14, <2>1
  <2>3. tip' # target
    BY Zenon, <1>14, <2>1, <2>2, WorseOrder
  <2> QED BY <1>1, <2>3 DEF BaseInv, TypeOK
<1> QED BY <1>16, <1>21, <1>22

-----------------------------------------------------------------------------
(* The RPCs.                                                               *)

(* invalidateblock. *)
LEMMA Invalidated ==
    ASSUME BaseInv, CoverInv, NEW t \in Threads, NEW b \in Blocks, InvalidateBlock(t, b)
    PROVE  BaseInv' /\ CoverInv' /\ pc'[t] = "activate"
<1> DEFINE gone == IF b \in ActiveChain THEN {x \in ActiveChain : b \in Ancestors[x]} ELSE {}
           newTip == IF b \in ActiveChain THEN Parent[b] ELSE tip
<1>1. /\ failedValid' = failedValid \cup {b} /\ failedChild' = failedChild \cup gone /\ tip' = newTip
      /\ candidates' = (candidates \ ({b} \cup gone))
                         \cup {x \in linked \ (((failedValid \cup {b}) \cup failedChild) \cup gone) : ~Worse(x, newTip, seqId)}
      /\ pc' = [pc EXCEPT ![t] = "activate"] /\ pblock' = [pblock EXCEPT ![t] = NoBlock]
      /\ UNCHANGED <<world, verdict, index, haveData, connected, linked, seqId, unlinked, mostWork>>
  BY Zenon DEF InvalidateBlock, MarkedInvalid, Activate
<1>2. /\ b \in AllBlocks /\ Parent[b] \in AllBlocks /\ b \in Ancestors[b] /\ Ancestors[b] = {b} \cup Ancestors[Parent[b]]
      /\ Parent[b] \in Ancestors[Parent[b]] /\ b \notin Ancestors[Parent[b]]
  BY AncestorsOfBlock, AncestorsType, NotAboveParent
<1>3. newTip \in ActiveChain /\ Ancestors[newTip] \subseteq ActiveChain /\ newTip \in AllBlocks
  BY <1>2, ActiveChainFacts
<1>4. gone \subseteq ActiveChain /\ \A x \in gone : b \in Ancestors[x]
  OBVIOUS
<1>5. b \notin Ancestors[newTip]
  BY <1>2, <1>3
<1>6. gone \cap Ancestors[newTip] = {}
  BY SMTT(60), <1>3, <1>4, <1>5, AncestorsTransitive
<1>7. newTip = tip \/ Worse(newTip, tip, seqId)
  BY SMTT(60), <1>3, ActiveChainFacts, LowerWork DEF ActiveChain, Worse
<1> HIDE DEF gone, newTip
<1>8. /\ Failed' = (Failed \cup {b}) \cup gone /\ NoReconsider' = NoReconsider
      /\ candidates' = (candidates \ ({b} \cup gone)) \cup {x \in linked \ Failed' : ~Worse(x, tip', seqId)}
  BY <1>1 DEF Failed, NoReconsider
<1>9. TypeOK'
  <2>1. failedChild' \subseteq AllBlocks /\ failedValid' \subseteq AllBlocks /\ candidates' \subseteq AllBlocks /\ tip' \in AllBlocks
    BY Zenon, <1>1, <1>2, <1>3, <1>4, <1>8, ActiveChainFacts DEF BaseInv, TypeOK
  <2>2. NoBlock \in AllBlocks \cup {NoBlock}
    OBVIOUS
  <2> QED BY <1>1, <2>1, <2>2 DEF BaseInv, TypeOK
<1>10. ActiveChainSound'
  <2>1. ASSUME NEW x \in Ancestors[tip']
        PROVE  x \in haveData /\ x \in connected /\ x \notin Failed' /\ verdict[x] \notin {"invalid", "context"}
    BY <1>1, <1>3, <1>5, <1>6, <1>8 DEF BaseInv, ActiveChainSound
  <2> QED BY Zenon, <1>1, <2>1 DEF ActiveChainSound, ActiveChain
<1>11. linked \subseteq AllBlocks /\ candidates \subseteq linked /\ tip \in AllBlocks /\ tip' \in AllBlocks
       /\ seqId \in [AllBlocks -> Nat]
  BY Zenon, <1>1, <1>3, CandidatesType, ActiveChainFacts
<1>12. CandidatesSound'
  <2>1. ASSUME NEW x \in candidates' PROVE x \in linked /\ ~Worse(x, tip', seqId)
    <3>1. CASE x \in candidates
      <4>1. x \in linked /\ x \in AllBlocks /\ ~Worse(x, tip, seqId)
        BY <1>11, <3>1, CandidatesType
      <4> QED BY <1>1, <1>7, <1>11, <4>1, WorseOrder
    <3>2. CASE x \notin candidates
      BY <1>8, <3>2
    <3> QED BY <3>1, <3>2
  <2> QED BY <1>1, <2>1 DEF CandidatesSound
<1>13. BaseInv'
  <2>1. ConnectedInv'
    BY Zenon, <1>1, <1>3, ActiveChainFacts DEF BaseInv, ConnectedInv
  <2> QED BY Zenon, <1>1, <1>9, <1>10, <1>12, <2>1 DEF BaseInv, LinkedInv
<1>14. \A x : HasInvalidAncestor(x) => HasInvalidAncestor(x)'
  BY Zenon, <1>1 DEF HasInvalidAncestor
<1>15. ASSUME NoReconsider, NEW x \in Failed' PROVE HasInvalidAncestor(x)'
  <2>1. CASE x \in Failed
    BY <1>14, <1>15, <2>1 DEF CoverInv, FailedMaskHasCause
  <2>2. CASE x \in {b} \cup gone
    BY Zenon, <1>1, <1>2, <1>4, <2>2 DEF HasInvalidAncestor
  <2> QED BY <1>8, <2>1, <2>2
<1>16. ASSUME NoReconsider, NEW x \in linked, ~HasInvalidAncestor(x)' PROVE Covered(x)'
  <2>1. x \notin Failed'
    BY <1>15, <1>16
  <2>2. x \in candidates' \/ Worse(x, tip', seqId)
    BY <1>8, <2>1
  <2> QED BY <1>1, <2>2 DEF Covered
<1>17. CoverInv'
  BY Zenon, <1>1, <1>8, <1>14, <1>15, <1>16 DEF CoverInv, FailedMaskHasCause
<1>18. pc'[t] = "activate"
  BY <1>1 DEF BaseInv, TypeOK
<1> QED BY <1>13, <1>17, <1>18

(* reconsiderblock. *)
LEMMA Reconsidered ==
    ASSUME BaseInv, NEW t \in Threads, NEW b \in world.reconsidered, ReconsiderBlock(t, b)
    PROVE  BaseInv' /\ CoverInv' /\ pc'[t] = "activate"
<1> DEFINE cleared == {x \in index : b \in Ancestors[x] /\ (x \in Failed \/ x \notin haveData)}
<1>1. /\ failedValid' \subseteq failedValid /\ failedChild' \subseteq failedChild
      /\ candidates' = candidates \cup {x \in cleared \cap linked : Worse(tip, x, seqId)}
      /\ pc' = [pc EXCEPT ![t] = "activate"] /\ pblock' = [pblock EXCEPT ![t] = NoBlock]
      /\ UNCHANGED <<world, verdict, index, haveData, connected, linked, seqId, unlinked, tip, mostWork>>
  BY Zenon DEF ReconsiderBlock, Activate
<1> HIDE DEF cleared
<1>2. TypeOK'
  <2>1. failedChild' \subseteq AllBlocks /\ failedValid' \subseteq AllBlocks /\ candidates' \subseteq AllBlocks
    BY <1>1 DEF BaseInv, TypeOK
  <2>2. NoBlock \in AllBlocks \cup {NoBlock}
    BY SMTT(60)
  <2> QED BY Zenon, <1>1, <2>1, <2>2 DEF BaseInv, TypeOK
<1>3. linked \subseteq AllBlocks /\ tip \in AllBlocks /\ seqId \in [AllBlocks -> Nat]
  BY CandidatesType, ActiveChainFacts
<1>4. CandidatesSound'
  <2>1. ASSUME NEW x \in candidates' PROVE x \in linked /\ ~Worse(x, tip, seqId)
    <3>1. CASE x \in candidates
      BY <3>1, CandidatesType
    <3>2. CASE x \notin candidates
      BY <1>1, <1>3, <3>2, WorseOrder
    <3> QED BY <3>1, <3>2
  <2> QED BY Zenon, <1>1, <2>1 DEF CandidatesSound
<1>5. ActiveChainSound'
  BY Zenon, <1>1 DEF BaseInv, ActiveChainSound, ActiveChain, Failed
<1>6. BaseInv'
  BY Zenon, <1>1, <1>2, <1>4, <1>5 DEF BaseInv, LinkedInv, ConnectedInv
<1>7. CoverInv'
  BY <1>1 DEF CoverInv, NoReconsider
<1> QED BY Zenon, <1>1, <1>6, <1>7 DEF BaseInv, TypeOK

-----------------------------------------------------------------------------
(* The specification.                                                      *)

(* The invariant holds with the genesis block alone ... *)
LEMMA ChainInit ==
    ASSUME Init PROVE ChainInv
<1>1. TypeOK
  BY ChainAssumption DEF Init, TypeOK, AllBlocks, World
<1>2. Ancestors[Genesis] = {Genesis} /\ Genesis \in AllBlocks
  BY Zenon, AncestorsOfGenesis DEF AllBlocks
<1>3. seqId \in [AllBlocks -> Nat] /\ \A b \in AllBlocks : seqId[b] <= 1
  BY DEF Init
<1>4. ~Worse(Genesis, Genesis, seqId)
  BY Zenon, <1>2, <1>3, WorseOrder
<1>5. LinkedInv
  <2>1. IsFiniteSet({Genesis}) /\ IsFiniteSet({})
    BY Zenon, FS_Singleton, FS_EmptySet
  <2> QED BY <1>2, <1>3, <2>1 DEF Init, LinkedInv
<1>6. verdict[Genesis] = "ok"
  <2>1. world \in World
    BY ChainAssumption DEF Init
  <2>2. Genesis \notin world.mayFail
    BY <2>1, ChainAssumption DEF World
  <2> QED BY Zenon, <1>2, <2>2 DEF Init
<1>7. BaseInv
  BY SMTT(60), <1>1, <1>2, <1>4, <1>5, <1>6 DEF Init, BaseInv, ConnectedInv, CandidatesSound, ActiveChainSound, ActiveChain, Failed
<1>8. CoverInv
  BY <1>2 DEF Init, CoverInv, FailedMaskHasCause, Failed, Covered
<1>9. ActiveInv
  BY Zenon, <1>4 DEF Init, ActiveInv, Better
<1> QED BY SMTT(60), <1>7, <1>8, <1>9 DEF ChainInv

(* ... ProcessNewBlock keeps it ... *)
LEMMA Arrived ==
    ASSUME ChainInv, NEW t \in Threads, NEW b \in Blocks, NEW r \in BOOLEAN, ProcessNewBlock(t, b, r)
    PROVE  ChainInv'
<1>1. /\ index' = index \cup {b} /\ UNCHANGED <<world, verdict, connected, failedChild, tip, mostWork>>
      /\ index' \subseteq AllBlocks /\ b \in AllBlocks
  BY DEF ProcessNewBlock, ChainInv, BaseInv, TypeOK, AllBlocks
<1>2. CASE Activate(t, b) /\ UNCHANGED <<haveData, failedValid, linked, seqId, unlinked, candidates>>
  <2>1. TypeOK' /\ pc'[t] = "activate"
    BY <1>1, <1>2 DEF ChainInv, BaseInv, TypeOK, Activate
  <2>2. BaseInv' /\ CoverInv'
    BY SMTT(60), <1>1, <1>2, <2>1, SameChain DEF ChainInv
  <2> QED BY Zenon, <2>1, <2>2 DEF ChainInv, ActiveInv, Active
<1>3. CASE /\ b \notin haveData /\ failedValid' = failedValid \cup {b}
           /\ UNCHANGED <<haveData, linked, seqId, unlinked, candidates, pc, pblock>>
  <2>1. TypeOK'
    BY <1>1, <1>3 DEF ChainInv, BaseInv, TypeOK
  <2>2. BaseInv' /\ CoverInv' /\ (Better' => Better)
    BY <1>1, <1>3, <2>1, ContextFails DEF ChainInv
  <2> QED BY <1>1, <1>3, <2>2 DEF ChainInv, ActiveInv, Active
<1>4. CASE b \notin haveData /\ ReceivedBlockTransactions(b) /\ UNCHANGED failedValid /\ Activate(t, b)
  <2>1. /\ haveData' \subseteq AllBlocks /\ linked' \subseteq AllBlocks /\ unlinked' \subseteq AllBlocks
        /\ candidates' \subseteq AllBlocks
    BY Zenon, <1>1, <1>4 DEF ReceivedBlockTransactions, NewlyLinked, ChainInv, BaseInv, TypeOK
  <2>2. /\ pc' \in [Threads -> {"idle", "activate", "test"}] /\ pblock' \in [Threads -> AllBlocks \cup {NoBlock}]
        /\ pc'[t] = "activate"
    BY <1>1, <1>4 DEF Activate, ChainInv, BaseInv, TypeOK
  <2>3. seqId' \in [AllBlocks -> Nat] => TypeOK'
    BY <1>1, <1>4, <2>1, <2>2 DEF ChainInv, BaseInv, TypeOK
  <2>4. CASE Parent[b] \in linked
    <3>1. BaseInv' /\ CoverInv'
      BY <1>1, <1>4, <2>3, <2>4, ReceivedLinks DEF ChainInv
    <3> QED BY Zenon, <2>2, <3>1 DEF ChainInv, ActiveInv, Active
  <2>5. CASE Parent[b] \notin linked
    <3>1. seqId' = seqId
      BY Zenon, <1>4, <2>5 DEF ReceivedBlockTransactions
    <3>2. TypeOK'
      BY <2>3, <3>1 DEF ChainInv, BaseInv, TypeOK
    <3>3. BaseInv' /\ CoverInv'
      BY <1>1, <1>4, <2>5, <3>2, ReceivedWaits DEF ChainInv
    <3> QED BY Zenon, <2>2, <3>3 DEF ChainInv, ActiveInv, Active
  <2> QED BY <2>4, <2>5
<1> QED BY SMTT(60), <1>2, <1>3, <1>4 DEF ProcessNewBlock, Wanted

(* ... so does a header ... *)
LEMMA HeaderArrived ==
    ASSUME ChainInv, NEW b \in Blocks, AcceptBlockHeader(b)
    PROVE  ChainInv'
<1>1. TypeOK'
  BY DEF AcceptBlockHeader, threadVars, ChainInv, BaseInv, TypeOK, AllBlocks
<1>2. BaseInv' /\ CoverInv' /\ (Better' => Better)
  BY <1>1, SameChain DEF ChainInv, AcceptBlockHeader
<1> QED BY Zenon, <1>2 DEF ChainInv, ActiveInv, Active, AcceptBlockHeader, threadVars

(* ... so does the test of the loop, which returns only when its target is still the tip ... *)
LEMMA TestMade ==
    ASSUME ChainInv, NEW t \in Threads, ActivateBestChainTest(t)
    PROVE  ChainInv'
<1>1. UNCHANGED <<world, verdict, indexVars, candidates, tip>>
  BY SMTT(60) DEF ActivateBestChainTest
<1>2. TypeOK'
  BY <1>1 DEF ActivateBestChainTest, Return, indexVars, ChainInv, BaseInv, TypeOK
<1>3. BaseInv' /\ CoverInv' /\ (Better' => Better)
  BY <1>1, <1>2, SameChain DEF ChainInv, indexVars
<1>4. ASSUME NEW u \in Threads, Active(u) PROVE Active(u)'
  <2>1. pc \in [Threads -> {"idle", "activate", "test"}] /\ mostWork \in [Threads -> AllBlocks \cup {NoBlock}] /\ tip' = tip
    BY <1>1 DEF ChainInv, BaseInv, TypeOK
  <2>2. CASE u = t
    BY <1>4, <2>1, <2>2 DEF Active, ActivateBestChainTest
  <2>3. CASE u # t
    <3>1. pc'[u] = pc[u] /\ mostWork'[u] = mostWork[u]
      BY <2>1, <2>3 DEF ActivateBestChainTest, Return
    <3> QED BY <1>4, <2>1, <3>1 DEF Active
  <2> QED BY <2>2, <2>3
<1> QED BY <1>3, <1>4 DEF ChainInv, ActiveInv

(* ... and so does every step. *)
LEMMA ChainNext ==
    ASSUME ChainInv, [Next]_vars PROVE ChainInv'
<1>1. world.mined \subseteq Blocks /\ world.invalidated \subseteq Blocks
  BY ChainAssumption DEF ChainInv, BaseInv, TypeOK, World
<1>2. ASSUME NEW b \in world.mined, AcceptBlockHeader(b) PROVE ChainInv'
  BY Zenon, <1>1, <1>2, HeaderArrived
<1>3. ASSUME NEW t \in Threads, NEW b \in world.mined, NEW r \in BOOLEAN, ProcessNewBlock(t, b, r) PROVE ChainInv'
  BY Zenon, <1>1, <1>3, Arrived
<1>4. ASSUME NEW t \in Threads, NEW b \in world.invalidated, InvalidateBlock(t, b) PROVE ChainInv'
  BY <1>1, <1>4, Invalidated DEF ChainInv, ActiveInv, Active
<1>5. ASSUME NEW t \in Threads, NEW b \in world.reconsidered, ReconsiderBlock(t, b) PROVE ChainInv'
  BY <1>5, Reconsidered DEF ChainInv, ActiveInv, Active
<1>6. ASSUME NEW t \in Threads, ActivateNothing(t) PROVE ChainInv'
  BY <1>6, NothingFound DEF ChainInv, ActiveInv
<1>7. ASSUME NEW t \in Threads, ActivateBestChainStep(t) PROVE ChainInv'
  BY <1>7, StepTaken DEF ChainInv, ActiveInv, Active
<1>8. ASSUME NEW t \in Threads, ActivateBestChainTest(t) PROVE ChainInv'
  BY <1>8, TestMade
<1>9. CASE UNCHANGED vars
  <2>1. TypeOK'
    BY <1>9 DEF ChainInv, BaseInv, TypeOK, vars, indexVars, threadVars
  <2>2. BaseInv' /\ CoverInv' /\ (Better' => Better)
    BY <1>9, <2>1, SameChain DEF ChainInv, vars, indexVars
  <2> QED BY <1>9, <2>2 DEF ChainInv, ActiveInv, Active, vars, threadVars
<1> QED BY Zenon, <1>2, <1>3, <1>4, <1>5, <1>6, <1>7, <1>8, <1>9 DEF Next, Arrival, Rpc, ThreadStep

(* With no thread in ActivateBestChain nothing better than the tip is left among the candidates. *)
LEMMA NothingBetter ==
    ASSUME ChainInv, Quiescent, NoReconsider, NEW b \in linked, ~HasInvalidAncestor(b), ~Worse(b, tip, seqId)
    PROVE  b \in candidates /\ (Ancestors[b] \cap Failed = {} => ~Worse(tip, b, seqId))
<1>1. ~Better
  BY DEF ChainInv, ActiveInv, Active, Quiescent
<1>2. BaseInv /\ Covered(b)
  BY DEF ChainInv, CoverInv
<1>3. linked \subseteq AllBlocks /\ candidates \subseteq AllBlocks /\ tip \in AllBlocks /\ seqId \in [AllBlocks -> Nat]
  BY Zenon, <1>2, CandidatesType, ActiveChainFacts
<1>4. b = tip \/ Worse(tip, b, seqId)
  BY <1>3, WorseOrder
<1>5. ASSUME NEW c \in candidates, Sturdy(c), Worse(b, c, seqId) PROVE FALSE
  <2>1. Worse(tip, c, seqId)
    BY <1>3, <1>4, <1>5, WorseOrder
  <2> QED BY Zenon, <1>1, <1>5, <2>1 DEF Better, Sturdy
<1>6. b \in candidates
  BY <1>2, <1>5 DEF Covered
<1> QED BY <1>1, <1>6 DEF Better

(* So it always holds. *)
LEMMA ChainAlways == Spec => []ChainInv
<1>1. Init => ChainInv
  BY ChainInit
<1>2. ChainInv /\ [Next]_vars => ChainInv'
  BY ChainNext
<1> QED BY <1>1, <1>2, PTL DEF Spec

(* The active chain holds only blocks with data and undo data that passed every check and are not marked   *)
(* as failed, in every order of arrivals, steps of several threads in ActivateBestChain, invalidateblock   *)
(* and reconsiderblock.                                                                                    *)
THEOREM TheActiveChainIsSound == Spec => []ActiveChainSound
<1>1. ChainInv => ActiveChainSound
  BY DEF ChainInv, BaseInv
<1> QED BY <1>1, ChainAlways, PTL

(* setBlockIndexCandidates holds only linked blocks that are not worse than the tip, and once every        *)
(* ActivateBestChain has returned it holds all of them that have no invalid block below them; every block  *)
(* with data is linked or waits in mapBlocksUnlinked.                                                      *)
THEOREM CandidatesAreExact == Spec => []CandidatesExact
<1>1. ChainInv => DataAccountedFor
  BY DEF ChainInv, BaseInv, LinkedInv, CoverInv, DataAccountedFor
<1>2. ChainInv => CandidatesSound
  BY DEF ChainInv, BaseInv
<1>3. ChainInv => CandidatesComplete
  BY NothingBetter DEF CandidatesComplete
<1> QED BY <1>1, <1>2, <1>3, ChainAlways, PTL DEF CandidatesExact

(* When every ActivateBestChain has returned, no linked block that is free of failed blocks is better than *)
(* the tip, although steps that failed half way left the tip at a fork and other threads moved it.         *)
THEOREM TheTipIsBest == Spec => []TipIsBest
<1>1. ASSUME ChainInv, Quiescent, NoReconsider, NEW b \in linked, Ancestors[b] \cap Failed = {}
      PROVE  ~Worse(tip, b, seqId)
  <2>1. ~HasInvalidAncestor(b)
    BY <1>1 DEF HasInvalidAncestor, Failed
  <2>2. linked \subseteq AllBlocks /\ tip \in AllBlocks /\ seqId \in [AllBlocks -> Nat]
    BY <1>1, CandidatesType, ActiveChainFacts DEF ChainInv
  <2>3. CASE Worse(b, tip, seqId)
    BY SMTT(60), <2>2, <2>3, WorseOrder
  <2>4. CASE ~Worse(b, tip, seqId)
    BY <1>1, <2>1, <2>4, NothingBetter
  <2> QED BY <2>3, <2>4
<1>2. ChainInv => TipIsBest
  BY <1>1 DEF TipIsBest
<1> QED BY <1>2, ChainAlways, PTL
=============================================================================
