---------------------------- MODULE MCConsensus -----------------------------
(***************************************************************************)
(* The chain state and the memory pool (Mempool, extended here), and the   *)
(* choice of the active chain (ChainSelection) under fairness, side by     *)
(* side for one model checking run.  sel, chosen at the start, says which  *)
(* one a behaviour is about.  The variables of Mempool stay as they are at *)
(* first in the behaviours of ChainSelection, whose own are Off otherwise. *)
(***************************************************************************)
EXTENDS Mempool

CONSTANTS TreeBlocks, Parent, Addr, Threads, MinBlocksToKeep, Worlds, NoBlock, Off

ASSUME ConsensusAssumption == LedgerAssumption /\ Refusable \subseteq TxIds

VARIABLES
    sel,
    world, verdict, index, haveData, connected, failedValid, failedChild, linked, seqId, candidates, unlinked, tip,
    pc, pblock, mostWork

Choice == INSTANCE ChainSelection WITH Blocks <- TreeBlocks

choiceVars == <<world, verdict, index, haveData, connected, failedValid, failedChild, linked, seqId, candidates,
    unlinked, tip, pc, pblock, mostWork>>
consensusVars == <<sel, vars, choiceVars>>

ChoiceOff ==
    /\ world = Off /\ verdict = Off /\ index = Off /\ haveData = Off /\ connected = Off /\ failedValid = Off
    /\ failedChild = Off /\ linked = Off /\ seqId = Off /\ candidates = Off /\ unlinked = Off /\ tip = Off
    /\ pc = Off /\ pblock = Off /\ mostWork = Off
LedgerOff == Init /\ network = CHOOSE w \in Networks : TRUE

ConsensusInit ==
    \/ sel = "ledger" /\ Init /\ ChoiceOff
    \/ sel = "choice" /\ Choice!Init /\ LedgerOff

ConsensusNext ==
    \/ sel = "ledger" /\ Next /\ UNCHANGED <<sel, choiceVars>>
    \/ sel = "choice" /\ Choice!Next /\ UNCHANGED <<sel, vars>>

\* sel never changes, so this is the fairness of ChainSelection.
ThreadStep(t) == sel = "choice" /\ Choice!ThreadStep(t) /\ UNCHANGED <<sel, vars>>

ConsensusSpec ==
    ConsensusInit /\ [][ConsensusNext]_consensusVars /\ \A t \in Threads : WF_consensusVars(ThreadStep(t))

-----------------------------------------------------------------------------
(* The properties are those of the modules: StateMatchesChain and          *)
(* SupplyIsBounded of Ledger, PoolMapsExact and PoolIsMinable of Mempool.  *)

\* No transaction leaves the pool without need.
PoolKeeps == [][KeepsAll]_consensusVars
\* Every call of ActivateBestChain returns.
ActivationReturns == \A t \in Threads : (sel = "choice" /\ pc[t] = "activate") ~> (sel = "choice" => pc[t] = "idle")

-----------------------------------------------------------------------------
(***************************************************************************)
(* Two branches over two common blocks, with transactions that conflict    *)
(* between the branches: t2 and t3 spend the same output, j2 and j3 the    *)
(* same nullifier, j2 needs the anchor that j1 makes, t5 spends a coinbase *)
(* of one branch, t4 an output of j2.  x3 spends an output twice and w5 a  *)
(* nullifier, y2 pays its miner too much, z3 spends a coinbase too early:  *)
(* none of these may connect.  s1 to s5 are t1, t2, t3, j2 and t5 by way   *)
(* of the shielded pool, f3 to i5 the branches that have them.             *)
(***************************************************************************)

Out1(a)    == [n \in {0} |-> a]
Out2(a, b) == [n \in {0, 1} |-> IF n = 0 THEN a ELSE b]
Coin(t, i) == [hash |-> t, n |-> i]
Coinbase(vout) == [coinbase |-> TRUE, vin |-> <<>>, vout |-> vout, vjoinsplit |-> <<>>]
Transfer(vin, vout, js) == [coinbase |-> FALSE, vin |-> vin, vout |-> vout, vjoinsplit |-> js]
JS(anchor, nf, cm, old, new) ==
    [anchor |-> anchor, nullifiers |-> {nf}, commitments |-> <<cm>>, vpub_old |-> old, vpub_new |-> new]

Txs ==
    [c1 |-> Coinbase(Out2(4, 4)), c2 |-> Coinbase(Out1(8)), c3 |-> Coinbase(Out1(4)),
     d3 |-> Coinbase(Out1(5)),    c4 |-> Coinbase(Out1(4)), e4 |-> Coinbase(Out1(4)),
     c5 |-> Coinbase(Out1(4)),    y2 |-> Coinbase(Out1(9)),
     t1 |-> Transfer(<<Coin("c1", 0)>>, Out2(1, 2), <<>>),
     t2 |-> Transfer(<<Coin("t1", 0), Coin("t1", 1)>>, Out1(3), <<>>),
     t3 |-> Transfer(<<Coin("t1", 0)>>, Out1(1), <<>>),
     t4 |-> Transfer(<<Coin("j2", 0)>>, Out1(1), <<>>),
     t5 |-> Transfer(<<Coin("c3", 0)>>, Out1(4), <<>>),
     t6 |-> Transfer(<<Coin("c2", 0)>>, Out1(8), <<>>),
     j1 |-> Transfer(<<Coin("c1", 1)>>, <<>>, <<JS(<<>>, "n1", "k1", 3, 0)>>),
     j2 |-> Transfer(<<>>, Out1(2), <<JS(<<"k1">>, "n2", "k2", 0, 2)>>),
     j3 |-> Transfer(<<>>, <<>>, <<JS(<<>>, "n2", "k3", 0, 1), JS(<<"k3">>, "n3", "k4", 1, 0)>>),
     s1 |-> Transfer(<<Coin("c1", 0)>>, <<>>, <<JS(<<>>, "n4", "k5", 4, 0)>>),
     s2 |-> Transfer(<<>>, Out1(2), <<JS(<<"k5">>, "n5", "k6", 0, 2)>>),
     s3 |-> Transfer(<<>>, Out1(3), <<JS(<<"k5", "k1">>, "n5", "k7", 0, 3)>>),
     s4 |-> Transfer(<<>>, Out1(2), <<JS(<<"k5", "k1">>, "n2", "k2", 0, 2)>>),
     s5 |-> Transfer(<<Coin("c3", 0)>>, <<>>, <<JS(<<>>, "n6", "k8", 4, 0)>>),
     t7 |-> Transfer(<<Coin("s4", 0)>>, Out1(1), <<>>)]

On(prev, vtx) == [prev |-> prev, vtx |-> vtx]

Blocks ==
    [a1 |-> On("g", <<"c1">>),  a2 |-> On("a1", <<"c2">>),
     a3 |-> On("a2", <<"c3", "t1", "t2">>),  a4 |-> On("a3", <<"c4", "j1">>),
     b3 |-> On("a2", <<"d3", "t1", "j1">>),  b4 |-> On("b3", <<"c4", "t3", "j2">>),
     e4 |-> On("b3", <<"e4", "j3">>),
     w5 |-> On("b4", <<"c5", "j3">>),
     x3 |-> On("a2", <<"d3", "t1", "t2", "t3">>),
     y2 |-> On("a1", <<"y2">>),
     z3 |-> On("a2", <<"d3", "t6">>),
     f3 |-> On("a2", <<"c3", "s1">>),        f4 |-> On("f3", <<"c4", "s2", "j1">>),
     h3 |-> On("a2", <<"d3", "s1", "j1">>),  h4 |-> On("h3", <<"c4", "s3", "s4">>),
     i4 |-> On("h3", <<"e4", "j3">>),        i5 |-> On("h4", <<"c5", "j3">>)]

HeightOf == [a1 |-> 1, a2 |-> 2, y2 |-> 2, a3 |-> 3, b3 |-> 3, x3 |-> 3, z3 |-> 3, f3 |-> 3, h3 |-> 3,
             a4 |-> 4, b4 |-> 4, e4 |-> 4, f4 |-> 4, h4 |-> 4, i4 |-> 4, w5 |-> 5, i5 |-> 5, g |-> 0]
Commits == {"k1", "k2", "k3", "k4", "k5", "k6", "k7", "k8"}

\* In the first network a coinbase may be spent like any other output, in the second into
\* the shielded pool only (as on the main network), and most of what is seen there depends
\* on anchors that a reorganisation removes.
TwoNetworks ==
    {[fCoinbaseMustBeProtected |-> FALSE,
      seen  |-> {"t1", "t2", "t3", "t4", "t5", "t6", "j1", "j2", "j3"},
      mined |-> {"a1", "a2", "a3", "a4", "b3", "b4", "e4", "w5", "x3", "y2", "z3"}],
     [fCoinbaseMustBeProtected |-> TRUE,
      seen  |-> {"s1", "s2", "s3", "s4", "s5", "t6", "t7", "j1", "j3"},
      mined |-> {"a1", "a2", "f3", "f4", "h3", "h4", "i4", "i5", "y2", "z3"}]}

-----------------------------------------------------------------------------
(* ChainSelection: a block with two children on one side of a fork, bad    *)
(* blocks on both.                                                         *)

ForkBlocks == {"a1", "a2", "b1", "c2"}
ForkParent == [b \in ForkBlocks |-> IF b \in {"a2", "c2"} THEN "a1" ELSE Genesis]
ForkAddr == [b \in ForkBlocks \cup {Genesis} |->
               CASE b = "a1" -> 1 [] b = "a2" -> 2 [] b = "b1" -> 3 [] b = "c2" -> 4 [] OTHER -> 5]
Forked == [mined |-> ForkBlocks, mayFail |-> {"a2", "b1"}, verdicts |-> {"invalid"},
           invalidated |-> {}, reconsidered |-> {}]
ForkedWorlds == {Forked}
=============================================================================
