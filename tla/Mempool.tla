------------------------------ MODULE Mempool -------------------------------
(***************************************************************************)
(* The memory pool (txmempool.cpp) together with the chain state it must   *)
(* agree with: AcceptToMemoryPool, and the whole of ConnectTip and         *)
(* DisconnectTip, each of which is one action under cs_main.               *)
(*                                                                         *)
(* Left out: fees and priorities (policy may refuse a transaction of       *)
(* Refusable, at any time), lock times, mapDeltas and the fee estimator.   *)
(***************************************************************************)
EXTENDS Ledger, FiniteSetsExt

CONSTANT Refusable  \* the transactions that policy may refuse

VARIABLE pool   \* [mapTx, mapNextTx, mapNullifiers]

vars == <<ledgerVars, pool>>

-----------------------------------------------------------------------------
(* CTxMemPool.                                                             *)

addUnchecked(p, t) ==
    [mapTx         |-> p.mapTx \cup {t},
     mapNextTx     |-> [o \in DOMAIN p.mapNextTx \cup Inputs(t) |->
                           IF o \in Inputs(t) THEN t ELSE p.mapNextTx[o]],
     mapNullifiers |-> [n \in DOMAIN p.mapNullifiers \cup Nullifiers(t) |->
                           IF n \in Nullifiers(t) THEN t ELSE p.mapNullifiers[n]]]

\* Mutant: mapNullifiers is forgotten.
EraseKeepsNullifiers(p, gone) ==
    LET spent == UNION {Inputs(t) : t \in gone}
    IN  [p EXCEPT !.mapTx = @ \ gone,
                  !.mapNextTx = [o \in DOMAIN @ \ spent |-> @[o]]]

\* The loop of remove over the transactions of gone, all of them in the pool.
Erase(p, gone) ==
    LET spent == UNION {Inputs(t) : t \in gone}
        nfs   == UNION {Nullifiers(t) : t \in gone}
    IN  [mapTx         |-> p.mapTx \ gone,
         mapNextTx     |-> [o \in DOMAIN p.mapNextTx \ spent |-> p.mapNextTx[o]],
         mapNullifiers |-> [n \in DOMAIN p.mapNullifiers \ nfs |-> p.mapNullifiers[n]]]

Children(p, t) ==
    {p.mapNextTx[o] : o \in {o \in DOMAIN p.mapNextTx : o.hash = t /\ o.n \in DOMAIN Tx[t].vout}}

\* What the queue of remove collects from `roots': the smallest set of pool
\* transactions that has the roots and, with a transaction, its children.
Descendants(p, roots) ==
    LET Closed(S) == \A t \in S : Children(p, t) \cap p.mapTx \subseteq S
    IN  {t \in p.mapTx : \A S \in SUBSET p.mapTx :
                            (roots \cap p.mapTx \subseteq S /\ Closed(S)) => t \in S}

removeRecursive(p, t) ==
    Erase(p, Descendants(p, IF t \in p.mapTx THEN {t} ELSE Children(p, t)))

\* Mutant: the height is one too high.
removeCoinbaseSpendsLate(p, v, h) ==
    Erase(p, Descendants(p, {t \in p.mapTx : \E o \in Inputs(t) :
        /\ o.hash \notin p.mapTx
        /\ v.coins[o.hash].fCoinBase /\ h + 1 - v.coins[o.hash].nHeight < COINBASE_MATURITY}))

removeCoinbaseSpends(p, v, h) ==
    LET Immature(o) == /\ o.hash \notin p.mapTx
                       /\ LET c == v.coins[o.hash]
                          IN  IsPruned(c) \/ (c.fCoinBase /\ h - c.nHeight < COINBASE_MATURITY)
    IN  Erase(p, Descendants(p, {t \in p.mapTx : \E o \in Inputs(t) : Immature(o)}))

removeWithAnchor(p, rt) ==
    Erase(p, Descendants(p, {t \in p.mapTx : \E js \in Range(Tx[t].vjoinsplit) : js.anchor = rt}))

removeConflicts(p, t) ==
    LET bySpend     == {p.mapNextTx[o] : o \in Inputs(t) \cap DOMAIN p.mapNextTx}
        byNullifier == {p.mapNullifiers[n] : n \in Nullifiers(t) \cap DOMAIN p.mapNullifiers}
    IN  Erase(p, Descendants(p, (bySpend \cup byNullifier) \ {t}))

\* Mutant: a confirmed transaction takes its descendants with it.
removeForBlockRecursive(p, vtx) ==
    LET after[i \in 0 .. Len(vtx)] ==
            IF i = 0 THEN p ELSE removeConflicts(removeRecursive(after[i - 1], vtx[i]), vtx[i])
    IN  after[Len(vtx)]

removeForBlock(p, vtx) ==
    LET after[i \in 0 .. Len(vtx)] ==
            IF i = 0 THEN p
            ELSE removeConflicts(Erase(after[i - 1], {vtx[i]} \cap after[i - 1].mapTx), vtx[i])
    IN  after[Len(vtx)]

-----------------------------------------------------------------------------
(* AcceptToMemoryPool.                                                     *)

\* CCoinsViewMemPool: the outputs of the pool's transactions, spent or not, over
\* the chain state.  They have no height (MEMPOOL_HEIGHT) and no coinbase flag.
CoinsViewMemPool(v, p) ==
    [v EXCEPT !.coins = [t \in TxIds |-> IF t \in p.mapTx THEN FromTx(t, 0) ELSE @[t]],
              !.nullifiers = @ \cup DOMAIN p.mapNullifiers]

\* Everything AcceptToMemoryPool asks of t but policy, for a block of height h.
Acceptable(v, p, t, h) ==
    /\ ~Tx[t].coinbase
    /\ t \notin p.mapTx
    /\ Inputs(t) \cap DOMAIN p.mapNextTx = {}
    /\ Nullifiers(t) \cap DOMAIN p.mapNullifiers = {}
    /\ IsPruned(v.coins[t])
    /\ CheckTxInputs(CoinsViewMemPool(v, p), t, h)

AcceptToMemoryPool(t) ==
    /\ Acceptable(view, pool, t, Len(chain))
    /\ pool' = addUnchecked(pool, t)
    /\ UNCHANGED ledgerVars

-----------------------------------------------------------------------------
(* The tip moves.                                                          *)

ConnectTip(b) ==
    /\ ConnectOnTip(b)
    /\ pool' = removeForBlock(pool, Block[b].vtx)

\* The transactions of the disconnected block come back in block order; one that
\* is not accepted takes its descendants out of the pool.
Resurrect(p, v, vtx, h, refused) ==
    LET Return(q, t) == IF Acceptable(v, q, t, h) /\ t \notin refused
                        THEN addUnchecked(q, t) ELSE removeRecursive(q, t)
        after[i \in 0 .. Len(vtx)] == IF i = 0 THEN p ELSE Return(after[i - 1], vtx[i])
    IN  after[Len(vtx)]

DisconnectTip ==
    /\ DisconnectTheTip
    /\ \E refused \in SUBSET (Refusable \cap Range(Block[Tip].vtx)) :
          LET h     == Len(chain) - 1
              after == TipUndone.view
              back  == Resurrect(pool, after, Block[Tip].vtx, h, refused)
              kept  == IF view.best # after.best THEN removeWithAnchor(back, view.best) ELSE back
          IN  pool' = removeCoinbaseSpends(kept, after, h)

Init ==
    /\ LedgerInit
    /\ pool = [mapTx |-> {}, mapNextTx |-> <<>>, mapNullifiers |-> <<>>]

Next ==
    \/ \E t \in network.seen : AcceptToMemoryPool(t)
    \/ \E b \in network.mined : ConnectTip(b)
    \/ DisconnectTip

Spec == Init /\ [][Next]_vars

-----------------------------------------------------------------------------
(* Properties.                                                             *)

TypeOK == LedgerTypeOK /\ pool.mapTx \subseteq TxIds

\* The map m names, for everything that the transactions of T use, the one that uses it.
NamesUser(m, T, Uses(_)) ==
    DOMAIN m = UNION {Uses(t) : t \in T} /\ \A t \in T : \A x \in Uses(t) : m[x] = t

\* mapNextTx and mapNullifiers say exactly which pool transaction spends what,
\* and so no two of them spend the same output or nullifier (the assertions of
\* CTxMemPool::check on the two maps).
PoolMapsExact ==
    NamesUser(pool.mapNextTx, pool.mapTx, Inputs) /\ NamesUser(pool.mapNullifiers, pool.mapTx, Nullifiers)

\* One more transaction of the pool goes into a block after the tip, if one can.
MineOne(acc) ==
    LET ready == {t \in acc.left : CheckTxInputs(acc.view, t, Len(chain))}
    IN  IF ready = {} THEN acc
        ELSE LET t == CHOOSE t \in ready : TRUE
             IN  [left |-> acc.left \ {t}, view |-> UpdateCoins(acc.view, t, Len(chain)).view]

\* In some order, all the transactions of the pool can be in the next block: they
\* pass the checks of ConnectBlock at the height after the tip and overwrite no
\* transaction.  Reorganisations do not leave one behind whose inputs, anchor or
\* coinbase maturity are gone (CTxMemPool::check, CreateNewBlock).
PoolIsMinable ==
    /\ \A t \in pool.mapTx : IsPruned(view.coins[t])
    /\ FoldSet(LAMBDA t, acc : MineOne(acc), [left |-> pool.mapTx, view |-> view], pool.mapTx).left = {}

\* A transaction that was in the pool or in the active chain and is in neither
\* after a step is a coinbase, or policy may refuse it, or it is not acceptable
\* any more: ConnectTip and DisconnectTip evict no transaction without need.
KeepsAll ==
    \A t \in (pool.mapTx \cup Confirmed) \ (pool'.mapTx \cup Confirmed') :
        t \in Refusable \/ ~Acceptable(view', pool', t, Len(chain'))
NothingLost == [][KeepsAll]_vars
=============================================================================
