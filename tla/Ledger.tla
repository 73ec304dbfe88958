------------------------------- MODULE Ledger -------------------------------
(***************************************************************************)
(* What connecting and disconnecting a block does to the chain state       *)
(* (main.cpp: ConnectBlock, UpdateCoins, DisconnectBlock, ApplyTxInUndo):  *)
(* the unspent outputs, the nullifiers, the anchors of the note commitment *)
(* tree, and the undo data a block leaves on disk.                         *)
(*                                                                         *)
(* The transactions and the blocks that exist are constants.  A view is    *)
(* what pcoinsTip answers (module CoinsCache shows that its caching is not *)
(* visible).  Scripts, signatures and JoinSplit proofs are taken to be     *)
(* valid.  A note commitment tree is the sequence of its commitments, and  *)
(* its root is that sequence: distinct trees have distinct roots.  Amounts *)
(* are in range (MoneyRange).  Outputs that cannot be spent, which         *)
(* ClearUnspendable drops, are not listed.                                 *)
(***************************************************************************)
EXTENDS Integers, Sequences, Functions

CONSTANTS
    Genesis,
    Tx,         \* [ids -> [coinbase, vin, vout, vjoinsplit]]
    Block,      \* [ids without Genesis -> [prev, vtx]]
    BlockHeight, \* nHeight of the blocks, Genesis included
    NoteCommitments,
    COINBASE_MATURITY,
    InitialSubsidy,             \* 50 * COIN
    SubsidyHalvingInterval,     \* nSubsidyHalvingInterval
    Networks                    \* where the node may be, see Network

TxIds    == DOMAIN Tx
BlockIds == DOMAIN Block

\* The chain parameter that matters here, and the transactions and blocks that turn up.
Network == [fCoinbaseMustBeProtected : BOOLEAN, seen : SUBSET TxIds, mined : SUBSET BlockIds]

\* The sequences of F, one after the other.
Concatenation(F) ==
    LET upTo[k \in 0 .. Len(F)] == IF k = 0 THEN <<>> ELSE upTo[k - 1] \o F[k] IN upTo[Len(F)]

Inputs(t)       == Range(Tx[t].vin)
Nullifiers(t)   == UNION {js.nullifiers : js \in Range(Tx[t].vjoinsplit)}
Commitments(t)  == Concatenation([i \in DOMAIN Tx[t].vjoinsplit |-> Tx[t].vjoinsplit[i].commitments])
VpubOld(t)      == SumFunction([i \in DOMAIN Tx[t].vjoinsplit |-> Tx[t].vjoinsplit[i].vpub_old])
VpubNew(t)      == SumFunction([i \in DOMAIN Tx[t].vjoinsplit |-> Tx[t].vjoinsplit[i].vpub_new])

\* What CheckTransaction and CheckBlock require of a transaction and of a block
\* on their own: no input and no nullifier twice, something is spent, the coinbase
\* first.  A coinbase begins with the height of its block (ContextualCheckBlock).
LedgerAssumption ==
    /\ Genesis \notin BlockIds /\ BlockHeight[Genesis] = 0
    /\ \A b \in BlockIds :
          /\ Block[b].prev \in BlockIds \cup {Genesis}
          /\ BlockHeight[b] \in Nat /\ BlockHeight[b] = BlockHeight[Block[b].prev] + 1
          /\ Block[b].vtx # <<>> /\ Block[b].vtx \in Seq(TxIds)
          /\ \A i \in DOMAIN Block[b].vtx : Tx[Block[b].vtx[i]].coinbase <=> i = 1
    /\ \A b, c \in BlockIds : Block[b].vtx[1] = Block[c].vtx[1] => BlockHeight[b] = BlockHeight[c]
    /\ \A t \in TxIds :
          /\ Tx[t].coinbase \in BOOLEAN
          /\ Tx[t].vin \in Seq([hash : TxIds, n : Nat])
          /\ DOMAIN Tx[t].vout \subseteq Nat /\ Tx[t].vout \in [DOMAIN Tx[t].vout -> Nat]
          /\ \A i, j \in DOMAIN Tx[t].vin : Tx[t].vin[i] = Tx[t].vin[j] => i = j
          /\ Tx[t].vjoinsplit \in Seq(Range(Tx[t].vjoinsplit))
          /\ \A i \in DOMAIN Tx[t].vjoinsplit :
                /\ Tx[t].vjoinsplit[i].nullifiers # {}
                /\ Tx[t].vjoinsplit[i].commitments \in Seq(NoteCommitments)
          /\ \A i, j \in DOMAIN Tx[t].vjoinsplit :
                i # j => Tx[t].vjoinsplit[i].nullifiers \cap Tx[t].vjoinsplit[j].nullifiers = {}
          /\ IF Tx[t].coinbase THEN Tx[t].vin = <<>> /\ Tx[t].vjoinsplit = <<>>
             ELSE Tx[t].vin # <<>> \/ Tx[t].vjoinsplit # <<>>
    /\ COINBASE_MATURITY \in Nat /\ InitialSubsidy \in Nat
    /\ SubsidyHalvingInterval \in Nat \ {0} /\ Networks \subseteq Network

VARIABLES
    network,
    chain,  \* chainActive, from Genesis to the tip
    view,   \* pcoinsTip: [coins, nullifiers, anchors, best]
    undo    \* the undo data on disk, for the blocks that have it

ledgerVars == <<network, chain, view, undo>>

Tip == chain[Len(chain)]

-----------------------------------------------------------------------------
(* The unspent outputs of a transaction (CCoins).                          *)

Pruned == [vout |-> <<>>, nHeight |-> 0, fCoinBase |-> FALSE]

IsAvailable(coins, out) == out.n \in DOMAIN coins[out.hash].vout
IsPruned(c) == DOMAIN c.vout = {}

FromTx(t, h) ==
    IF DOMAIN Tx[t].vout = {} THEN Pruned
    ELSE [vout |-> Tx[t].vout, nHeight |-> h, fCoinBase |-> Tx[t].coinbase]

\* CCoins::Spend: only the spent output goes; without outputs the entry is pruned.
Spend(c, n) ==
    LET left == DOMAIN c.vout \ {n}
    IN  IF left = {} THEN Pruned ELSE [c EXCEPT !.vout = [m \in left |-> c.vout[m]]]

-----------------------------------------------------------------------------
(* Anchors and nullifiers.                                                 *)

GetAnchorAt(v, rt) == rt = <<>> \/ rt \in v.anchors

PushAnchor(v, rt) ==
    IF v.best = rt THEN v ELSE [v EXCEPT !.anchors = @ \cup {rt}, !.best = rt]

PopAnchor(v, newrt) ==
    IF v.best = newrt THEN v ELSE [v EXCEPT !.anchors = @ \ {v.best}, !.best = newrt]

\* A JoinSplit may also use the root that an earlier one of its transaction makes.
HaveJoinSplitRequirements(v, t) ==
    LET js == Tx[t].vjoinsplit
        Intermediate(i) == {js[j].anchor \o js[j].commitments : j \in 1 .. i - 1}
    IN  /\ Nullifiers(t) \cap v.nullifiers = {}
        /\ \A i \in DOMAIN js : js[i].anchor \in Intermediate(i) \/ GetAnchorAt(v, js[i].anchor)

-----------------------------------------------------------------------------
(* Checking and applying a transaction.                                    *)

GetBlockSubsidy(h) ==
    LET halvings == h \div SubsidyHalvingInterval
    IN  IF halvings >= 64 THEN 0 ELSE InitialSubsidy \div 2^halvings

HaveInputs(v, t) == \A out \in Inputs(t) : IsAvailable(v.coins, out)

GetValueOut(t) == SumFunction(Tx[t].vout) + VpubOld(t)
GetValueIn(v, t) ==
    SumFunction([i \in DOMAIN Tx[t].vin |-> v.coins[Tx[t].vin[i].hash].vout[Tx[t].vin[i].n]])
      + VpubNew(t)

CheckTxInputs(v, t, spendHeight) ==
    /\ HaveInputs(v, t)
    /\ HaveJoinSplitRequirements(v, t)
    /\ \A out \in Inputs(t) :
          LET c == v.coins[out.hash]
          IN  c.fCoinBase =>
                 /\ spendHeight - c.nHeight >= COINBASE_MATURITY
                 /\ network.fCoinbaseMustBeProtected => DOMAIN Tx[t].vout = {}
    /\ GetValueIn(v, t) >= GetValueOut(t)

\* Spending one input: the undo entry has the height and the coinbase flag
\* only when it takes the last output of the transaction.
SpendInput(acc, out) ==
    LET c    == acc.coins[out.hash]
        left == Spend(c, out.n)
    IN  [coins |-> [acc.coins EXCEPT ![out.hash] = left],
         vprevout |-> Append(acc.vprevout,
             [txout     |-> c.vout[out.n],
              nHeight   |-> IF IsPruned(left) THEN c.nHeight ELSE 0,
              fCoinBase |-> IsPruned(left) /\ c.fCoinBase])]

\* The loop over the inputs: what it has after the first j of them.
SpendInputs(coins, vin) ==
    LET after[j \in 0 .. Len(vin)] ==
            IF j = 0 THEN [coins |-> coins, vprevout |-> <<>>] ELSE SpendInput(after[j - 1], vin[j])
    IN  after

UpdateCoins(v, t, h) ==
    LET spent == SpendInputs(v.coins, Tx[t].vin)[Len(Tx[t].vin)]
    IN  [view |-> [v EXCEPT !.coins = [spent.coins EXCEPT ![t] = FromTx(t, h)],
                            !.nullifiers = @ \cup Nullifiers(t)],
         vprevout |-> spent.vprevout]

-----------------------------------------------------------------------------
(* Connecting and disconnecting a block.                                   *)

\* One iteration of ConnectBlock's loop; ok is false after the early returns.
ConnectTx(acc, t, h) ==
    IF ~acc.ok \/ (~Tx[t].coinbase /\ ~CheckTxInputs(acc.view, t, h))
    THEN [acc EXCEPT !.ok = FALSE]
    ELSE LET up == UpdateCoins(acc.view, t, h)
         IN  [ok      |-> TRUE,
              view    |-> up.view,
              vtxundo |-> Append(acc.vtxundo, up.vprevout),
              tree    |-> acc.tree \o Commitments(t),
              fees    |-> IF Tx[t].coinbase THEN acc.fees
                          ELSE acc.fees + GetValueIn(acc.view, t) - GetValueOut(t)]

NoOverwrite(v, b) == \A t \in Range(Block[b].vtx) : IsPruned(v.coins[t])

\* The loop over the transactions: what it has after the first i of them.
ConnectTxs(v, b, h) ==
    LET after[i \in 0 .. Len(Block[b].vtx)] ==
            IF i = 0
            THEN [ok |-> NoOverwrite(v, b), view |-> v, vtxundo |-> <<>>, tree |-> v.best, fees |-> 0]
            ELSE ConnectTx(after[i - 1], Block[b].vtx[i], h)
    IN  after

\* Mutant: no limit on what the coinbase pays.
ConnectBlockUnlimited(v, b, h) ==
    LET all == ConnectTxs(v, b, h)[Len(Block[b].vtx)]
    IN  [ok   |-> all.ok,
         view |-> PushAnchor(all.view, all.tree),
         undo |-> [vtxundo |-> all.vtxundo, old_tree_root |-> v.best]]

ConnectBlock(v, b, h) ==
    LET all == ConnectTxs(v, b, h)[Len(Block[b].vtx)]
    IN  [ok   |-> all.ok /\ GetValueOut(Block[b].vtx[1]) <= all.fees + GetBlockSubsidy(h),
         view |-> PushAnchor(all.view, all.tree),
         undo |-> [vtxundo |-> all.vtxundo, old_tree_root |-> v.best]]

\* Mutant: the coinbase flag is not restored.
ApplyTxInUndoNoFlag(acc, out, u) ==
    LET c    == acc.coins[out.hash]
        base == IF u.nHeight # 0 THEN [Pruned EXCEPT !.nHeight = u.nHeight] ELSE c
        vout == [n \in DOMAIN base.vout \cup {out.n} |->
                    IF n = out.n THEN u.txout ELSE base.vout[n]]
    IN  [coins |-> [acc.coins EXCEPT ![out.hash] = [base EXCEPT !.vout = vout]], clean |-> acc.clean]

ApplyTxInUndo(acc, out, u) ==
    LET c    == acc.coins[out.hash]
        base == IF u.nHeight # 0
                THEN [vout |-> <<>>, nHeight |-> u.nHeight, fCoinBase |-> u.fCoinBase]
                ELSE c
        vout == [n \in DOMAIN base.vout \cup {out.n} |->
                    IF n = out.n THEN u.txout ELSE base.vout[n]]
    IN  [coins |-> [acc.coins EXCEPT ![out.hash] = [base EXCEPT !.vout = vout]],
         clean |-> /\ acc.clean
                   /\ IsPruned(c) <=> u.nHeight # 0
                   /\ ~IsAvailable(acc.coins, out) \/ u.nHeight # 0]

\* The inputs are restored from the last to the first: what there is when the first j
\* are still spent.
RestoreInputs(acc, vin, vprevout) ==
    LET before[j \in 0 .. Len(vin)] ==
            IF j = Len(vin) THEN acc ELSE ApplyTxInUndo(before[j + 1], vin[j + 1], vprevout[j + 1])
    IN  before

\* One iteration of DisconnectBlock's loop, for the transaction t.
DisconnectTx(acc, t, h, vprevout) ==
    LET matches  == acc.coins[t] = FromTx(t, h)
        cleared  == [coins |-> [acc.coins EXCEPT ![t] = Pruned], clean |-> acc.clean /\ matches]
        restored == RestoreInputs(cleared, Tx[t].vin, vprevout)[0]
    IN  [coins      |-> restored.coins,
         clean      |-> restored.clean,
         nullifiers |-> acc.nullifiers \ Nullifiers(t)]

\* The loop, from the last transaction to the first: what there is when the first i are
\* still connected.
DisconnectTxs(v, b, h, u) ==
    LET before[i \in 0 .. Len(Block[b].vtx)] ==
            IF i = Len(Block[b].vtx)
            THEN [coins |-> v.coins, clean |-> TRUE, nullifiers |-> v.nullifiers]
            ELSE DisconnectTx(before[i + 1], Block[b].vtx[i + 1], h, u.vtxundo[i + 1])
    IN  before

DisconnectBlock(v, b, h, u) ==
    LET all == DisconnectTxs(v, b, h, u)[0]
    IN  [clean |-> all.clean,
         view  |-> PopAnchor([v EXCEPT !.coins = all.coins, !.nullifiers = all.nullifiers],
                             u.old_tree_root)]

-----------------------------------------------------------------------------
(* The active chain: a block is connected on the tip (its undo data is     *)
(* written only the first time), or the tip is disconnected.               *)

LedgerInit ==
    /\ network \in Networks
    /\ chain = <<Genesis>>
    /\ view = [coins |-> [t \in TxIds |-> Pruned], nullifiers |-> {}, anchors |-> {}, best |-> <<>>]
    /\ undo = <<>>

WriteUndo(b, u) == [c \in DOMAIN undo \cup {b} |-> IF c \in DOMAIN undo THEN undo[c] ELSE u]

ConnectOnTip(b) ==
    LET r == ConnectBlock(view, b, Len(chain))
    IN  /\ Block[b].prev = Tip
        /\ r.ok
        /\ view' = r.view
        /\ undo' = WriteUndo(b, r.undo)
        /\ chain' = Append(chain, b)
        /\ UNCHANGED network

\* DisconnectBlock on the tip and its undo data.
TipUndone == DisconnectBlock(view, Tip, Len(chain) - 1, undo[Tip])

DisconnectTheTip ==
    /\ Len(chain) > 1
    /\ Tip \in DOMAIN undo
    /\ TipUndone.clean
    /\ view' = TipUndone.view
    /\ chain' = SubSeq(chain, 1, Len(chain) - 1)
    /\ UNCHANGED <<network, undo>>

-----------------------------------------------------------------------------
(* What the chain state must say of the active chain.                      *)

Heights == 1 .. Len(chain) - 1
VtxAt(h) == Block[chain[h + 1]].vtx
ConfirmedAt(t, h) == t \in Range(VtxAt(h))
Confirmed == UNION {Range(VtxAt(h)) : h \in Heights}
Spenders(out) == {t \in Confirmed : out \in Inputs(t)}

\* The commitments of a block, and the tree of those of the blocks up to height h.
BlockCommitments(b) == Concatenation([i \in DOMAIN Block[b].vtx |-> Commitments(Block[b].vtx[i])])
TreeAt(h) == Concatenation([k \in 1 .. h |-> BlockCommitments(chain[k + 1])])

LedgerTypeOK ==
    /\ Len(chain) >= 1 /\ chain[1] = Genesis
    /\ \A h \in Heights : chain[h + 1] \in BlockIds /\ Block[chain[h + 1]].prev = chain[h]
    /\ DOMAIN view.coins = TxIds /\ DOMAIN undo \subseteq BlockIds
    /\ view.best \in view.anchors \cup {<<>>}

\* The unspent outputs are those the blocks of the active chain create and do
\* not spend, with the height and the coinbase flag of the block that has them,
\* after any number of ConnectBlock and DisconnectBlock with whatever undo data
\* was written first.
CoinsMatchChain ==
    \A t \in TxIds :
        LET left == {n \in DOMAIN Tx[t].vout : t \in Confirmed /\ Spenders([hash |-> t, n |-> n]) = {}}
            c == view.coins[t]
        IN  /\ DOMAIN c.vout = left
            /\ \A n \in left : c.vout[n] = Tx[t].vout[n]
            /\ left # {} => /\ c.fCoinBase = Tx[t].coinbase
                            /\ ConfirmedAt(t, c.nHeight)

\* The spent nullifiers, the usable anchors and the best anchor are those of the
\* active chain: PopAnchor and SetNullifier(nf, false) take back exactly what the
\* disconnected block had added.
ShieldedMatchesChain ==
    /\ view.nullifiers = UNION {Nullifiers(t) : t \in Confirmed}
    /\ view.best = TreeAt(Len(chain) - 1)
    /\ view.anchors = {TreeAt(h) : h \in Heights} \ {<<>>}

\* No output and no nullifier is spent by two transactions of the active chain.
NoDoubleSpend ==
    \A t, u \in Confirmed : t # u => Inputs(t) \cap Inputs(u) = {} /\ Nullifiers(t) \cap Nullifiers(u) = {}

\* The undo data of the tip always applies cleanly, so DisconnectTip never
\* fails: ApplyTxInUndo and the output comparison of DisconnectBlock report
\* nothing, also for undo data written before a reorganisation.
UndoIsClean ==
    Len(chain) > 1 => Tip \in DOMAIN undo /\ TipUndone.clean

\* The chain state is that of the active chain, in which nothing is spent twice, and the
\* undo data of its tip applies.
StateMatchesChain == CoinsMatchChain /\ ShieldedMatchesChain /\ NoDoubleSpend /\ UndoIsClean

\* What is unspent and what is shielded is at most what the subsidies issued.
SupplyIsBounded ==
    LET Unspent  == SumFunction([t \in TxIds |-> SumFunction(view.coins[t].vout)])
        Shielded == SumFunction([t \in Confirmed |->
                              VpubOld(t) - VpubNew(t)])
        Issued   == SumFunction([h \in Heights |-> GetBlockSubsidy(h)])
    IN  Unspent + Shielded <= Issued

=============================================================================
