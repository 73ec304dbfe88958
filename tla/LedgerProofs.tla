---------------------------- MODULE LedgerProofs ----------------------------
(***************************************************************************)
(* The chain state is a function of the active chain (StateMatchesChain),  *)
(* and the maps of the memory pool are exact (PoolMapsExact), for any      *)
(* transactions, blocks and reorganisations.                               *)
(***************************************************************************)
EXTENDS Mempool, BlockProofs

-----------------------------------------------------------------------------
(* A chain of blocks, from Genesis.                                        *)

Top(ch) == Len(ch) - 1
BlockAt(ch, k) == ch[k + 1]
TxsUpTo(ch, k) == UNION {TxsIn(BlockAt(ch, j)) : j \in 1 .. k}
TreesOf(ch) == [k \in 1 .. Top(ch) |-> BlockCommitments(BlockAt(ch, k))]
TreeUpTo(ch, k) == Flat(TreesOf(ch), k)
AnchorsUpTo(ch, k) == {TreeUpTo(ch, j) : j \in 1 .. k} \ {<<>>}
TxsOf(ch) == TxsUpTo(ch, Top(ch))

IsPath(ch) ==
    /\ ch \in Seq(BlockIds \cup {Genesis}) /\ Len(ch) >= 1 /\ ch[1] = Genesis
    /\ \A k \in 1 .. Top(ch) :
          BlockAt(ch, k) \in BlockIds /\ Block[BlockAt(ch, k)].prev = ch[k] /\ BlockHeight[BlockAt(ch, k)] = k
FitsChain(ch) ==
    /\ \A k \in 0 .. Top(ch) : Closed(TxsUpTo(ch, k))
    /\ \A k \in 1 .. Top(ch) : Fits(TxsUpTo(ch, k - 1), BlockAt(ch, k))
GoodChain(ch) == IsPath(ch) /\ FitsChain(ch)
HeightsFit(H, ch) == \A k \in 1 .. Top(ch) : \A t \in TxsIn(BlockAt(ch, k)) : H[t] = k

(* The undo data of its last block. *)
UndoOfTop(ch, H) ==
    [vtxundo       |-> UndoBlock(TxsUpTo(ch, Top(ch) - 1), BlockAt(ch, Top(ch)), H),
     old_tree_root |-> TreeUpTo(ch, Top(ch) - 1)]

LEMMA TopIsNat ==
    ASSUME NEW ch, IsPath(ch)
    PROVE  Top(ch) \in Nat /\ Len(ch) = Top(ch) + 1 /\ DOMAIN ch = 1 .. Top(ch) + 1
<1>1. Len(ch) \in Nat /\ Len(ch) >= 1 /\ DOMAIN ch = 1 .. Len(ch)
    BY SeqFacts DEF IsPath
<1>2. \A n \in Nat : n >= 1 => n - 1 \in Nat /\ n = (n - 1) + 1
    OBVIOUS
<1> QED BY Zenon, <1>1, <1>2 DEF Top

(* The transactions block by block. *)
LEMMA TxsStep ==
    ASSUME NEW ch, NEW k \in Nat \ {0}
    PROVE  TxsUpTo(ch, k) = TxsUpTo(ch, k - 1) \cup TxsIn(BlockAt(ch, k))
<1>1. \A j : j \in 1 .. k <=> j \in 1 .. k - 1 \/ j = k
    OBVIOUS
<1> QED BY <1>1 DEF TxsUpTo

(* The tree block by block. *)
LEMMA TreeStep ==
    ASSUME LedgerAssumption, NEW ch, IsPath(ch)
    PROVE  /\ TreeUpTo(ch, 0) = <<>>
           /\ \A k \in 0 .. Top(ch) : TreeUpTo(ch, k) \in Seq(NoteCommitments)
           /\ \A k \in 1 .. Top(ch) : /\ TreeUpTo(ch, k) = TreeUpTo(ch, k - 1) \o BlockCommitments(BlockAt(ch, k))
                                      /\ BlockCommitments(BlockAt(ch, k)) \in Seq(NoteCommitments)
<1> DEFINE n == Top(ch)
           F == TreesOf(ch)
<1>1. n \in Nat
    BY TopIsNat
<1>2. ASSUME NEW k \in 1 .. n
      PROVE  F[k] = BlockCommitments(BlockAt(ch, k)) /\ BlockCommitments(BlockAt(ch, k)) \in Seq(NoteCommitments)
    <2>1. F[k] = BlockCommitments(BlockAt(ch, k))
        BY DEF TreesOf
    <2>2. BlockAt(ch, k) \in BlockIds
        BY DEF IsPath
    <2>3. BlockCommitments(BlockAt(ch, k)) \in Seq(NoteCommitments)
        BY Zenon, <2>2, BlockFlat
    <2> QED BY Zenon, <2>1, <2>3
<1> HIDE DEF n, F
<1>3. \A k \in 1 .. n : F[k] \in Seq(NoteCommitments)
    BY Zenon, <1>2
<1>4. /\ Flat(F, 0) = <<>>
      /\ \A k \in 0 .. n : Flat(F, k) \in Seq(NoteCommitments)
      /\ \A k \in 1 .. n : Flat(F, k) = Flat(F, k - 1) \o F[k]
    BY Zenon, <1>1, <1>3, FlatFacts
<1> QED BY Zenon, <1>2, <1>4 DEF TreeUpTo, F, n

(* A block has one chain. *)
LEMMA PathUnique ==
    ASSUME LedgerAssumption, NEW c, NEW d, IsPath(c), IsPath(d), Top(c) >= 1, Top(d) >= 1,
           BlockAt(c, Top(c)) = BlockAt(d, Top(d))
    PROVE  c = d
<1> DEFINE n == Top(c)
           f == [j \in 0 .. n |-> c[j + 1]]
           g == [j \in 0 .. n |-> d[j + 1]]
<1>1. /\ Top(c) \in Nat /\ Len(c) = Top(c) + 1
      /\ Top(d) \in Nat /\ Len(d) = Top(d) + 1
    BY TopIsNat
<1>2. Top(d) = n
    <2>1. Top(c) \in 1 .. Top(c) /\ Top(d) \in 1 .. Top(d)
        BY <1>1
    <2>2. BlockHeight[BlockAt(c, Top(c))] = Top(c) /\ BlockHeight[BlockAt(d, Top(d))] = Top(d)
        BY Zenon, <2>1 DEF IsPath
    <2> QED BY Zenon, <2>2
<1>3. f[n] = g[n]
    BY <1>1, <1>2 DEF BlockAt
<1>4. ASSUME NEW j \in 0 .. n - 1, f[j + 1] = g[j + 1] PROVE f[j] = g[j]
    <2> DEFINE k == j + 1
    <2>1. k \in 1 .. n /\ k \in 0 .. n /\ j \in 0 .. n
        BY <1>1
    <2>2. f[k] = BlockAt(c, k) /\ g[k] = BlockAt(d, k) /\ f[j] = c[k] /\ g[j] = d[k]
        BY <2>1 DEF BlockAt
    <2> HIDE DEF k, f, g
    <2>3. Block[BlockAt(c, k)].prev = c[k] /\ Block[BlockAt(d, k)].prev = d[k]
        BY Zenon, <1>2, <2>1 DEF IsPath
    <2>4. f[k] = g[k]
        BY <1>4 DEF k
    <2> QED BY Zenon, <2>2, <2>3, <2>4
<1>5. \A j \in 0 .. n : f[j] = g[j]
    <2> HIDE DEF f, g, n
    <2>1. n \in Nat
        BY <1>1 DEF n
    <2> QED BY <1>3, <1>4, <2>1, SameDown
<1>6. ASSUME NEW i \in 1 .. Len(c) PROVE c[i] = d[i]
    <2>1. i - 1 \in 0 .. n /\ (i - 1) + 1 = i
        BY <1>1
    <2>2. f[i - 1] = c[i] /\ g[i - 1] = d[i]
        BY <2>1
    <2> HIDE DEF f, g
    <2> QED BY Zenon, <1>5, <2>1, <2>2
<1>7. c \in Seq(BlockIds \cup {Genesis}) /\ d \in Seq(BlockIds \cup {Genesis}) /\ Len(c) = Len(d)
    BY <1>1, <1>2 DEF IsPath
<1> QED BY <1>6, <1>7, SeqsEqual

(* Two chains that begin with the same m blocks. *)
LEMMA SamePrefix ==
    ASSUME NEW c, NEW d, IsPath(c), IsPath(d), NEW m \in Nat, m <= Top(c), m <= Top(d),
           \A k \in 1 .. m : BlockAt(c, k) = BlockAt(d, k), NEW k \in 0 .. m
    PROVE  /\ TxsUpTo(c, k) = TxsUpTo(d, k)
           /\ TreeUpTo(c, k) = TreeUpTo(d, k)
           /\ AnchorsUpTo(c, k) = AnchorsUpTo(d, k)
<1>1. \A j \in 1 .. k : BlockAt(c, j) = BlockAt(d, j)
    OBVIOUS
<1>2. TxsUpTo(c, k) = TxsUpTo(d, k)
    <2>1. {TxsIn(BlockAt(c, j)) : j \in 1 .. k} = {TxsIn(BlockAt(d, j)) : j \in 1 .. k}
        BY Zenon, <1>1
    <2> QED BY Zenon, <2>1 DEF TxsUpTo
<1>3. Top(c) \in Nat /\ Top(d) \in Nat
    BY TopIsNat
<1>4. ASSUME NEW j \in 0 .. m PROVE TreeUpTo(c, j) = TreeUpTo(d, j)
    <2>1. ASSUME NEW i \in 1 .. j PROVE TreesOf(c)[i] = TreesOf(d)[i]
        <3>1. i \in 1 .. m /\ i \in 1 .. Top(c) /\ i \in 1 .. Top(d)
            BY <1>3
        <3>2. TreesOf(c)[i] = BlockCommitments(BlockAt(c, i)) /\ TreesOf(d)[i] = BlockCommitments(BlockAt(d, i))
            BY <3>1 DEF TreesOf
        <3> QED BY Zenon, <3>1, <3>2
    <2>2. [i \in 1 .. j |-> TreesOf(c)[i]] = [i \in 1 .. j |-> TreesOf(d)[i]]
        BY Zenon, <2>1
    <2> QED BY Zenon, <2>2 DEF TreeUpTo, Flat
<1>5. AnchorsUpTo(c, k) = AnchorsUpTo(d, k)
    <2>1. \A j \in 1 .. k : j \in 0 .. m
        OBVIOUS
    <2>2. {TreeUpTo(c, j) : j \in 1 .. k} = {TreeUpTo(d, j) : j \in 1 .. k}
        BY Zenon, <1>4, <2>1
    <2> QED BY Zenon, <2>2 DEF AnchorsUpTo
<1> QED BY Zenon, <1>2, <1>4, <1>5

(* A block more, and a block less. *)
Front(ch) == SubSeq(ch, 1, Len(ch) - 1)

LEMMA Extend ==
    ASSUME LedgerAssumption, NEW ch, IsPath(ch), NEW b \in BlockIds, Block[b].prev = ch[Len(ch)]
    PROVE  /\ IsPath(Append(ch, b)) /\ Top(Append(ch, b)) = Top(ch) + 1 /\ BlockHeight[b] = Top(ch) + 1
           /\ BlockAt(Append(ch, b), Top(ch) + 1) = b
           /\ \A k \in 1 .. Top(ch) : BlockAt(Append(ch, b), k) = BlockAt(ch, k)
<1> DEFINE e == Append(ch, b)
           n == Top(ch)
           X == BlockIds \cup {Genesis}
<1>1. n \in Nat /\ Len(ch) = n + 1
    BY TopIsNat
<1>2. ch \in Seq(X) /\ b \in X
    BY DEF IsPath
<1>3. e \in Seq(X) /\ Len(e) = Len(ch) + 1 /\ (\A i \in 1 .. Len(ch) : e[i] = ch[i]) /\ e[Len(ch) + 1] = b
    <2> HIDE DEF X
    <2> QED BY <1>2, AppendFacts
<1> HIDE DEF e, X
<1>4. Top(e) = n + 1 /\ Len(e) >= 1
    BY <1>1, <1>3 DEF Top
<1>5. BlockHeight[b] = n + 1
    <2>1. BlockHeight[b] = BlockHeight[Block[b].prev] + 1
        BY DEF LedgerAssumption
    <2>2. CASE n = 0
        <3>1. ch[Len(ch)] = Genesis
            BY <1>1, <2>2 DEF IsPath
        <3> QED BY <2>1, <2>2, <3>1 DEF LedgerAssumption
    <2>3. CASE n # 0
        <3>1. n \in 1 .. n /\ ch[Len(ch)] = BlockAt(ch, n)
            BY <1>1, <2>3 DEF BlockAt
        <3>2. BlockHeight[BlockAt(ch, n)] = n
            BY Zenon, <3>1 DEF IsPath
        <3> QED BY <2>1, <3>1, <3>2
    <2> QED BY <2>2, <2>3
<1>6. BlockAt(e, n + 1) = b
    BY <1>1, <1>3 DEF BlockAt
<1>7. ASSUME NEW k \in 1 .. n PROVE BlockAt(e, k) = BlockAt(ch, k) /\ e[k] = ch[k]
    <2>1. k + 1 \in 1 .. Len(ch) /\ k \in 1 .. Len(ch)
        BY <1>1
    <2> QED BY Zenon, <1>3, <2>1 DEF BlockAt
<1>8. e[1] = Genesis /\ e[n + 1] = ch[Len(ch)]
    <2>1. 1 \in 1 .. Len(ch) /\ n + 1 \in 1 .. Len(ch) /\ n + 1 = Len(ch) /\ ch[1] = Genesis
        BY <1>1 DEF IsPath
    <2> QED BY Zenon, <1>3, <2>1
<1>9. ASSUME NEW k \in 1 .. Top(e)
      PROVE  BlockAt(e, k) \in BlockIds /\ Block[BlockAt(e, k)].prev = e[k] /\ BlockHeight[BlockAt(e, k)] = k
    <2>1. CASE k = n + 1
        BY Zenon, <1>5, <1>6, <1>8, <2>1
    <2>2. CASE k # n + 1
        <3>1. k \in 1 .. n
            BY <1>1, <1>4, <2>2
        <3>2. BlockAt(ch, k) \in BlockIds /\ Block[BlockAt(ch, k)].prev = ch[k] /\ BlockHeight[BlockAt(ch, k)] = k
            BY Zenon, <3>1 DEF IsPath
        <3> QED BY Zenon, <1>7, <3>1, <3>2
    <2> QED BY <2>1, <2>2
<1>10. IsPath(e)
    BY Zenon, <1>3, <1>4, <1>8, <1>9 DEF IsPath, X
<1> QED BY Zenon, <1>4, <1>5, <1>6, <1>7, <1>10 DEF e, n

LEMMA Shorten ==
    ASSUME LedgerAssumption, NEW ch, IsPath(ch), Top(ch) >= 1
    PROVE  /\ IsPath(Front(ch)) /\ Top(Front(ch)) = Top(ch) - 1
           /\ \A k \in 1 .. Top(ch) - 1 : BlockAt(Front(ch), k) = BlockAt(ch, k)
<1> DEFINE e == Front(ch)
           n == Top(ch)
           X == BlockIds \cup {Genesis}
<1>1. n \in Nat \ {0} /\ Len(ch) = n + 1 /\ n - 1 \in Nat
    BY TopIsNat
<1>2. ch \in Seq(X)
    BY DEF IsPath
<1>3. e \in Seq(X) /\ Len(e) = n /\ \A i \in 1 .. n : e[i] = ch[i]
    <2> HIDE DEF X, n
    <2>1. e = SubSeq(ch, 1, n)
        BY <1>1 DEF Front
    <2>2. n \in 0 .. Len(ch) /\ 1 \in 1 .. Len(ch) + 1
        BY <1>1
    <2> HIDE DEF e
    <2> QED BY <1>1, <1>2, <2>1, <2>2, FrontFacts
<1> HIDE DEF e, X
<1>4. Top(e) = n - 1 /\ Len(e) >= 1
    BY <1>1, <1>3 DEF Top
<1>5. ASSUME NEW k \in 1 .. n - 1 PROVE BlockAt(e, k) = BlockAt(ch, k) /\ e[k] = ch[k] /\ k \in 1 .. n
    <2>1. k + 1 \in 1 .. n /\ k \in 1 .. n
        BY <1>1
    <2> QED BY Zenon, <1>3, <2>1 DEF BlockAt
<1>6. e[1] = Genesis
    <2>1. 1 \in 1 .. n /\ ch[1] = Genesis
        BY <1>1 DEF IsPath
    <2> QED BY Zenon, <1>3, <2>1
<1>7. ASSUME NEW k \in 1 .. Top(e)
      PROVE  BlockAt(e, k) \in BlockIds /\ Block[BlockAt(e, k)].prev = e[k] /\ BlockHeight[BlockAt(e, k)] = k
    <2>1. k \in 1 .. n - 1
        BY <1>4
    <2>2. BlockAt(ch, k) \in BlockIds /\ Block[BlockAt(ch, k)].prev = ch[k] /\ BlockHeight[BlockAt(ch, k)] = k
        BY Zenon, <1>5, <2>1 DEF IsPath
    <2> QED BY Zenon, <1>5, <2>1, <2>2
<1>8. IsPath(e)
    BY Zenon, <1>3, <1>4, <1>6, <1>7 DEF IsPath, X
<1> QED BY Zenon, <1>4, <1>5, <1>8 DEF e, n

-----------------------------------------------------------------------------
(* The heights of the transactions, and what depends on them.              *)

LEMMA HeightOfTx ==
    ASSUME NEW ch, NEW H, HeightsFit(H, ch), IsPath(ch), NEW t \in TxsOf(ch)
    PROVE  \E k \in 1 .. Top(ch) : t \in TxsIn(BlockAt(ch, k)) /\ H[t] = k
<1>1. PICK k \in 1 .. Top(ch) : t \in TxsIn(BlockAt(ch, k))
    BY DEF TxsOf, TxsUpTo
<1> QED BY <1>1 DEF HeightsFit

LEMMA TxsOfAll ==
    ASSUME NEW ch, IsPath(ch), NEW k \in 0 .. Top(ch)
    PROVE  TxsUpTo(ch, k) \subseteq TxsOf(ch)
<1>1. Top(ch) \in Nat
    BY TopIsNat
<1>2. \A j \in 1 .. k : j \in 1 .. Top(ch)
    BY <1>1
<1> QED BY Zenon, <1>2 DEF TxsOf, TxsUpTo

LEMMA CoinsSame ==
    ASSUME NEW C, NEW S, NEW H, NEW G, \A t \in C : H[t] = G[t]
    PROVE  CoinsOf(C, S, H) = CoinsOf(C, S, G)
<1>1. ASSUME NEW t PROVE Entry(t, C, S, H) = Entry(t, C, S, G)
    <2>1. CASE t \in C
        <3>1. H[t] = G[t]
            BY <2>1
        <3> QED BY Zenon, <3>1 DEF Entry
    <2>2. CASE t \notin C
        <3>1. Left(t, C, S) = {}
            BY <2>2 DEF Left
        <3> QED BY Zenon, <3>1 DEF Entry
    <2> QED BY <2>1, <2>2
<1> QED BY Zenon, <1>1 DEF CoinsOf

LEMMA UndoTxSame ==
    ASSUME LedgerAssumption, NEW t \in TxIds, NEW C, NEW S, Spendable(t, C, S), NEW H, NEW G, \A u \in C : H[u] = G[u]
    PROVE  UndoTx(t, C, S, H) = UndoTx(t, C, S, G)
<1>1. ASSUME NEW k \in 1 .. NIns(t)
      PROVE  UndoOf(In(t, k), C, SpentTo(t, k - 1, S), H) = UndoOf(In(t, k), C, SpentTo(t, k - 1, S), G)
    <2>1. In(t, k) \in Inputs(t)
        BY VinsFacts
    <2>2. Hash(In(t, k)) \in C
        BY Zenon, <2>1 DEF Spendable, Left
    <2>3. H[Hash(In(t, k))] = G[Hash(In(t, k))]
        BY <2>2
    <2> QED BY Zenon, <2>3 DEF UndoOf
<1> QED BY Zenon, <1>1 DEF UndoTx

LEMMA CAtWithin ==
    ASSUME LedgerAssumption, NEW C, NEW b \in BlockIds, NEW i \in 0 .. NTxs(b)
    PROVE  C \subseteq CAt(C, b, i) /\ CAt(C, b, i) \subseteq C \cup TxsIn(b)
<1>1. NTxs(b) \in Nat /\ \A k \in 1 .. NTxs(b) : At(b, k) \in TxsIn(b)
    BY BlockFacts
<1>2. \A k \in 1 .. i : k \in 1 .. NTxs(b)
    BY <1>1
<1> QED BY <1>1, <1>2 DEF CAt

LEMMA UndoSame ==
    ASSUME LedgerAssumption, NEW C, NEW b \in BlockIds, Fits(C, b), NEW H, NEW G, \A t \in C \cup TxsIn(b) : H[t] = G[t]
    PROVE  UndoBlock(C, b, H) = UndoBlock(C, b, G)
<1>1. ASSUME NEW k \in 1 .. NTxs(b) PROVE UndoAt(C, b, k, H) = UndoAt(C, b, k, G)
    <2> DEFINE D == CAt(C, b, k - 1)
               t == At(b, k)
    <2>1. t \in TxIds /\ k - 1 \in 0 .. NTxs(b)
        BY BlockFacts
    <2>2. FitsTx(D, t)
        BY DEF Fits, FitsTo
    <2>3. D \subseteq C \cup TxsIn(b)
        BY <2>1, CAtWithin
    <2> HIDE DEF D, t
    <2>4. \A u \in D : H[u] = G[u]
        BY Zenon, <2>3
    <2>5. Spendable(t, D, SpentBy(D))
        BY <2>2 DEF FitsTx
    <2>6. UndoTx(t, D, SpentBy(D), H) = UndoTx(t, D, SpentBy(D), G)
        BY <2>1, <2>4, <2>5, UndoTxSame
    <2> QED BY Zenon, <2>6 DEF UndoAt, D, t
<1> QED BY Zenon, <1>1 DEF UndoBlock

(* The transactions of a block that fits are new. *)
LEMMA FitsAreNew ==
    ASSUME LedgerAssumption, NEW C, NEW b \in BlockIds, Fits(C, b), NEW t \in TxsIn(b)
    PROVE  t \notin C
<1>1. PICK k \in 1 .. NTxs(b) : t = At(b, k)
    BY BlockFacts
<1>2. k - 1 \in 0 .. NTxs(b)
    BY BlockFacts
<1>3. C \subseteq CAt(C, b, k - 1)
    BY <1>2, CAtWithin
<1>4. At(b, k) \notin CAt(C, b, k - 1)
    BY DEF Fits, FitsTo, FitsTx
<1> QED BY <1>1, <1>3, <1>4

(* So is the coinbase of the next block. *)
LEMMA FreshCoinbase ==
    ASSUME LedgerAssumption, NEW ch, IsPath(ch), NEW b \in BlockIds, BlockHeight[b] = Top(ch) + 1
    PROVE  At(b, 1) \notin TxsOf(ch)
<1> SUFFICES ASSUME At(b, 1) \in TxsOf(ch) PROVE FALSE
    OBVIOUS
<1>1. PICK k \in 1 .. Top(ch) : At(b, 1) \in TxsIn(BlockAt(ch, k))
    BY DEF TxsOf, TxsUpTo
<1> DEFINE c == BlockAt(ch, k)
<1>2. c \in BlockIds /\ BlockHeight[c] = k
    BY Zenon DEF IsPath
<1> HIDE DEF c
<1>3. At(b, 1) \in TxsIn(c)
    BY <1>1 DEF c
<1>4. PICK i \in 1 .. NTxs(c) : At(b, 1) = At(c, i)
    BY <1>2, <1>3, BlockFacts
<1>5. Tx[At(b, 1)].coinbase
    <2>1. 1 \in 1 .. NTxs(b)
        BY BlockFacts
    <2> QED BY <2>1, BlockFacts
<1>6. i = 1
    BY SMTT(60), <1>2, <1>4, <1>5, BlockFacts
<1>7. BlockHeight[b] = BlockHeight[c]
    BY SMTT(60), <1>2, <1>4, <1>6 DEF LedgerAssumption, At
<1>8. Top(ch) \in Nat
    BY TopIsNat
<1> QED BY <1>2, <1>7, <1>8

-----------------------------------------------------------------------------
(* The anchors.                                                            *)

LEMMA TreesGrow ==
    ASSUME LedgerAssumption, NEW ch, IsPath(ch), NEW k \in 0 .. Top(ch), NEW n \in 0 .. Top(ch), k <= n
    PROVE  Len(TreeUpTo(ch, k)) <= Len(TreeUpTo(ch, n))
<1> DEFINE L(m) == Len(TreeUpTo(ch, m))
           P == {m \in 0 .. Top(ch) : m < k \/ L(k) <= L(m)}
<1>1. Top(ch) \in Nat
    BY TopIsNat
<1>2. ASSUME NEW m \in 0 .. Top(ch) PROVE L(m) \in Nat
    BY TreeStep, SeqFacts
<1>3. ASSUME NEW m \in 1 .. Top(ch) PROVE L(m - 1) <= L(m)
    <2> DEFINE s == TreeUpTo(ch, m - 1)
               x == BlockCommitments(BlockAt(ch, m))
    <2>1. s \in Seq(NoteCommitments) /\ x \in Seq(NoteCommitments) /\ TreeUpTo(ch, m) = s \o x
        <3>1. m - 1 \in 0 .. Top(ch)
            BY <1>1
        <3> QED BY Zenon, <3>1, TreeStep
    <2> HIDE DEF s, x
    <2>2. Len(s \o x) = Len(s) + Len(x) /\ Len(s) \in Nat /\ Len(x) \in Nat
        BY <2>1, ConcatFacts, SeqFacts
    <2>3. Len(s) <= Len(s \o x)
        BY <2>2
    <2> QED BY Zenon, <2>1, <2>3 DEF s
<1> HIDE DEF L
<1>4. 0 \in P
    BY <1>1, <1>2
<1>5. ASSUME NEW m \in 1 .. Top(ch), m - 1 \in P PROVE m \in P
    <2>1. L(m - 1) <= L(m) /\ L(m) \in Nat /\ L(m - 1) \in Nat /\ L(k) \in Nat
        BY <1>1, <1>2, <1>3
    <2>2. CASE m = k
        BY <2>1, <2>2
    <2>3. CASE m < k
        BY <2>3
    <2>4. CASE m > k
        BY <1>5, <2>1, <2>4
    <2> QED BY <2>2, <2>3, <2>4
<1>6. \A m \in 0 .. Top(ch) : m \in P
    <2> HIDE DEF P
    <2> QED BY <1>1, <1>4, <1>5, HoldsUp
<1>7. L(k) <= L(n)
    BY <1>6
<1> QED BY <1>7 DEF L

LEMMA AnchorsStep ==
    ASSUME LedgerAssumption, NEW ch, IsPath(ch), NEW n \in 1 .. Top(ch)
    PROVE  IF TreeUpTo(ch, n) = TreeUpTo(ch, n - 1)
           THEN AnchorsUpTo(ch, n) = AnchorsUpTo(ch, n - 1)
           ELSE /\ AnchorsUpTo(ch, n) = AnchorsUpTo(ch, n - 1) \cup {TreeUpTo(ch, n)}
                /\ TreeUpTo(ch, n) \notin AnchorsUpTo(ch, n - 1)
<1> DEFINE rt == TreeUpTo(ch, n)
           old == TreeUpTo(ch, n - 1)
           x == BlockCommitments(BlockAt(ch, n))
<1>1. Top(ch) \in Nat /\ n - 1 \in 0 .. Top(ch) /\ n \in 0 .. Top(ch)
    BY TopIsNat
<1>2. AnchorsUpTo(ch, n) = AnchorsUpTo(ch, n - 1) \cup ({rt} \ {<<>>})
    <2>1. \A j : j \in 1 .. n <=> j \in 1 .. n - 1 \/ j = n
        OBVIOUS
    <2> HIDE DEF rt
    <2>2. {TreeUpTo(ch, j) : j \in 1 .. n} = {TreeUpTo(ch, j) : j \in 1 .. n - 1} \cup {rt}
        BY Zenon, <2>1 DEF rt
    <2> QED BY <2>2 DEF AnchorsUpTo
<1>3. ASSUME rt = old PROVE AnchorsUpTo(ch, n) = AnchorsUpTo(ch, n - 1)
    <2>1. CASE n = 1
        <3>1. rt = <<>>
            BY <1>3, <2>1, TreeStep
        <3> HIDE DEF rt
        <3> QED BY <1>2, <3>1
    <2>2. CASE n # 1
        <3>1. n - 1 \in 1 .. n - 1
            BY <2>2
        <3>2. rt \in {TreeUpTo(ch, j) : j \in 1 .. n - 1}
            BY Zenon, <1>3, <3>1
        <3> HIDE DEF rt
        <3> QED BY <1>2, <3>2 DEF AnchorsUpTo
    <2> QED BY <2>1, <2>2
<1>4. ASSUME rt # old
      PROVE  AnchorsUpTo(ch, n) = AnchorsUpTo(ch, n - 1) \cup {rt} /\ rt \notin AnchorsUpTo(ch, n - 1)
    <2>1. rt = old \o x /\ old \in Seq(NoteCommitments) /\ x \in Seq(NoteCommitments)
        BY Zenon, <1>1, TreeStep
    <2> HIDE DEF rt, old, x
    <2>2. x # <<>>
        BY <1>4, <2>1, ConcatFacts
    <2>3. Len(x) \in Nat \ {0} /\ Len(old) \in Nat
        BY <2>1, <2>2, SeqFacts
    <2>4. Len(rt) = Len(old) + Len(x)
        BY <2>1, ConcatFacts
    <2>5. Len(rt) > Len(old) /\ Len(rt) > 0
        BY <2>3, <2>4
    <2>6. rt # <<>>
        <3>1. Len(<<>>) = 0
            OBVIOUS
        <3> QED BY <2>5, <3>1
    <2>7. ASSUME NEW j \in 1 .. n - 1 PROVE TreeUpTo(ch, j) # rt
        <3>1. j \in 0 .. Top(ch) /\ j <= n - 1
            BY <1>1
        <3>2. Len(TreeUpTo(ch, j)) <= Len(old)
            BY <1>1, <3>1, TreesGrow DEF old
        <3>3. Len(TreeUpTo(ch, j)) \in Nat
            BY <3>1, TreeStep, SeqFacts
        <3> QED BY <2>3, <2>5, <3>2, <3>3
    <2>8. rt \notin AnchorsUpTo(ch, n - 1)
        BY Zenon, <2>7 DEF AnchorsUpTo
    <2>9. {rt} \ {<<>>} = {rt}
        BY <2>6
    <2> QED BY Zenon, <1>2, <2>8, <2>9
<1> QED BY Zenon, <1>3, <1>4

(* PushAnchor and PopAnchor move between the anchors of a chain and those one block less. *)
LEMMA PushPop ==
    ASSUME LedgerAssumption, NEW ch, IsPath(ch), NEW n \in 1 .. Top(ch), NEW c, NEW m
    PROVE  /\ PushAnchor(View(c, m, AnchorsUpTo(ch, n - 1), TreeUpTo(ch, n - 1)), TreeUpTo(ch, n))
                = View(c, m, AnchorsUpTo(ch, n), TreeUpTo(ch, n))
           /\ PopAnchor(View(c, m, AnchorsUpTo(ch, n), TreeUpTo(ch, n)), TreeUpTo(ch, n - 1))
                = View(c, m, AnchorsUpTo(ch, n - 1), TreeUpTo(ch, n - 1))
<1> DEFINE rt == TreeUpTo(ch, n)
           old == TreeUpTo(ch, n - 1)
           A == AnchorsUpTo(ch, n - 1)
           E == AnchorsUpTo(ch, n)
           v == View(c, m, A, old)
           w == View(c, m, E, rt)
<1>1. IF rt = old THEN E = A ELSE E = A \cup {rt} /\ rt \notin A
    BY Zenon, AnchorsStep
<1>2. v.anchors = A /\ v.best = old /\ w.anchors = E /\ w.best = rt
    BY DEF View
<1> HIDE DEF A, E, rt, old
<1>3. SetAnchors(v, A \cup {rt}, rt) = View(c, m, A \cup {rt}, rt)
    BY ViewFields
<1>4. SetAnchors(w, E \ {rt}, old) = View(c, m, E \ {rt}, old)
    BY ViewFields
<1>5. rt # old => A \cup {rt} = E /\ E \ {rt} = A
    BY <1>1
<1>6. rt = old => v = w
    BY Zenon, <1>1
<1> HIDE DEF v, w
<1>7. PushAnchor(v, rt) = IF rt = old THEN v ELSE SetAnchors(v, A \cup {rt}, rt)
    BY Zenon, <1>2 DEF PushAnchor, SetAnchors
<1>8. PopAnchor(w, old) = IF rt = old THEN w ELSE SetAnchors(w, E \ {rt}, old)
    BY Zenon, <1>2 DEF PopAnchor, SetAnchors
<1>9. PushAnchor(v, rt) = w
    <2>1. CASE rt = old
        BY Zenon, <1>6, <1>7, <2>1
    <2>2. CASE rt # old
        BY Zenon, <1>3, <1>5, <1>7, <2>2 DEF w
    <2> QED BY <2>1, <2>2
<1>10. PopAnchor(w, old) = v
    <2>1. CASE rt = old
        BY Zenon, <1>6, <1>8, <2>1
    <2>2. CASE rt # old
        BY Zenon, <1>4, <1>5, <1>8, <2>2 DEF v
    <2> QED BY <2>1, <2>2
<1> QED BY Zenon, <1>9, <1>10 DEF v, w, A, E, rt, old

-----------------------------------------------------------------------------
(* Connecting and disconnecting on a chain.                                *)

ChainView(ch, H) == ViewOf(TxsOf(ch), H, AnchorsUpTo(ch, Top(ch)), TreeUpTo(ch, Top(ch)))

LEMMA ConnectGood ==
    ASSUME LedgerAssumption, NEW ch, GoodChain(ch), NEW H, HeightsFit(H, ch),
           NEW b \in BlockIds, Block[b].prev = ch[Len(ch)], ConnectBlock(ChainView(ch, H), b, Len(ch)).ok
    PROVE  \E G : /\ GoodChain(Append(ch, b)) /\ HeightsFit(G, Append(ch, b))
                  /\ ConnectBlock(ChainView(ch, H), b, Len(ch)).view = ChainView(Append(ch, b), G)
                  /\ ConnectBlock(ChainView(ch, H), b, Len(ch)).undo = UndoOfTop(Append(ch, b), G)
<1> DEFINE e == Append(ch, b)
           n == Top(ch)
           h == n + 1
           C == TxsOf(ch)
           A == AnchorsUpTo(ch, n)
           B == TreeUpTo(ch, n)
           G == [t \in TxIds |-> IF t \in C THEN H[t] ELSE h]
           r == ConnectBlock(ViewOf(C, G, A, B), b, h)
<1>1. IsPath(ch) /\ FitsChain(ch)
    BY DEF GoodChain
<1>2. n \in Nat /\ Len(ch) = h /\ h \in Nat \ {0} /\ n \in 0 .. n
    BY <1>1, TopIsNat
<1>3. /\ IsPath(e) /\ Top(e) = h /\ BlockHeight[b] = h /\ BlockAt(e, h) = b
      /\ \A k \in 1 .. n : BlockAt(e, k) = BlockAt(ch, k)
    BY <1>1, Extend
<1> HIDE DEF e
<1>4. ASSUME NEW k \in 0 .. n
      PROVE  TxsUpTo(e, k) = TxsUpTo(ch, k) /\ TreeUpTo(e, k) = TreeUpTo(ch, k) /\ AnchorsUpTo(e, k) = AnchorsUpTo(ch, k)
    <2>1. n <= Top(ch) /\ n <= Top(e)
        BY <1>2, <1>3
    <2> HIDE DEF h
    <2> QED BY <1>1, <1>2, <1>3, <2>1, SamePrefix
<1>5. Closed(C) /\ C \subseteq TxIds
    <2>1. Closed(C)
        BY <1>1, <1>2 DEF FitsChain, TxsOf
    <2> QED BY <2>1 DEF Closed
<1>6. B \in Seq(NoteCommitments) /\ TreeUpTo(e, h) = B \o BlockCommitments(b)
    <2>1. h \in 1 .. Top(e) /\ h - 1 = n
        BY <1>2, <1>3
    <2>2. TreeUpTo(e, h) = TreeUpTo(e, h - 1) \o BlockCommitments(BlockAt(e, h))
        BY Zenon, <1>3, <2>1, TreeStep
    <2>3. B \in Seq(NoteCommitments)
        BY Zenon, <1>1, <1>2, TreeStep
    <2> HIDE DEF h
    <2>4. TreeUpTo(e, n) = B
        BY Zenon, <1>2, <1>4
    <2> QED BY Zenon, <1>3, <2>1, <2>2, <2>3, <2>4
<1>7. At(b, 1) \notin C
    BY <1>1, <1>3, FreshCoinbase
<1>8. (\A t \in C : H[t] = G[t]) /\ (\A t \in TxIds \ C : G[t] = h)
    <2> HIDE DEF C, h
    <2> QED BY <1>5
<1> HIDE DEF G
<1>9. ViewOf(C, G, A, B) = ChainView(ch, H)
    <2>1. CoinsOf(C, SpentBy(C), H) = CoinsOf(C, SpentBy(C), G)
        <3> HIDE DEF C
        <3> QED BY <1>8, CoinsSame
    <2> QED BY Zenon, <2>1 DEF ChainView, ViewOf
<1>10. r = ConnectBlock(ChainView(ch, H), b, Len(ch))
    BY Zenon, <1>2, <1>9
<1>11. /\ Fits(C, b)
       /\ r.view = PushAnchor(ViewOf(C \cup TxsIn(b), G, A, B), B \o BlockCommitments(b))
       /\ r.undo = [vtxundo |-> UndoBlock(C, b, G), old_tree_root |-> B]
    <2>1. r.ok
        BY Zenon, <1>10
    <2> HIDE DEF C, h, A, B
    <2>2. BeforeBlock(b, h, C, G, B)
        BY Zenon, <1>5, <1>6, <1>7, <1>8 DEF BeforeBlock
    <2>3. AfterBlock(r, b, C, G, A, B)
        BY <2>1, <2>2, ConnectBlockForm
    <2> QED BY Zenon, <2>3 DEF AfterBlock
<1> HIDE DEF r
<1>12. TxsUpTo(e, h) = C \cup TxsIn(b) /\ TxsUpTo(e, n) = C
    <2>1. TxsUpTo(e, h) = TxsUpTo(e, h - 1) \cup TxsIn(BlockAt(e, h)) /\ h - 1 = n
        BY <1>2, TxsStep
    <2>2. TxsUpTo(e, n) = C
        BY Zenon, <1>2, <1>4 DEF TxsOf
    <2> HIDE DEF h
    <2> QED BY Zenon, <1>3, <2>1, <2>2
<1>13. FitsChain(e)
    <2>1. ASSUME NEW k \in 0 .. Top(e) PROVE Closed(TxsUpTo(e, k))
        <3>1. CASE k = h
            <4>1. NTxs(b) \in 0 .. NTxs(b) /\ FitsTo(C, b, NTxs(b))
                BY <1>11, BlockFacts DEF Fits
            <4>2. \A i \in 0 .. NTxs(b) : Closed(CAt(C, b, i))
                BY <1>5, <4>1, ClosedAt
            <4>3. CAt(C, b, NTxs(b)) = C \cup TxsIn(b)
                BY Zenon, CAtEnds
            <4> HIDE DEF h
            <4> QED BY Zenon, <1>12, <3>1, <4>1, <4>2, <4>3
        <3>2. CASE k # h
            <4>1. k \in 0 .. n
                BY <1>2, <1>3, <3>2
            <4>2. Closed(TxsUpTo(ch, k))
                BY Zenon, <1>1, <4>1 DEF FitsChain
            <4> QED BY Zenon, <1>4, <4>1, <4>2
        <3> QED BY <3>1, <3>2
    <2>2. ASSUME NEW k \in 1 .. Top(e) PROVE Fits(TxsUpTo(e, k - 1), BlockAt(e, k))
        <3>1. CASE k = h
            <4>1. k - 1 = n
                BY <1>2, <3>1
            <4> HIDE DEF h
            <4> QED BY Zenon, <1>3, <1>11, <1>12, <3>1, <4>1
        <3>2. CASE k # h
            <4>1. k \in 1 .. n /\ k - 1 \in 0 .. n
                BY <1>2, <1>3, <3>2
            <4>2. Fits(TxsUpTo(ch, k - 1), BlockAt(ch, k))
                BY Zenon, <1>1, <4>1 DEF FitsChain
            <4> QED BY Zenon, <1>3, <1>4, <4>1, <4>2
        <3> QED BY <3>1, <3>2
    <2> QED BY Zenon, <2>1, <2>2 DEF FitsChain
<1>14. HeightsFit(G, e)
    <2> SUFFICES ASSUME NEW k \in 1 .. Top(e), NEW t \in TxsIn(BlockAt(e, k)) PROVE G[t] = k
        BY Zenon DEF HeightsFit
    <2>1. CASE k = h
        <3>1. t \in TxsIn(b)
            BY Zenon, <1>3, <2>1
        <3>2. t \notin C
            BY <1>11, <3>1, FitsAreNew
        <3>3. t \in TxIds
            BY <3>1, BlockFacts
        <3> QED BY <1>8, <2>1, <3>2, <3>3
    <2>2. CASE k # h
        <3>1. k \in 1 .. n
            BY <1>2, <1>3, <2>2
        <3>2. t \in TxsIn(BlockAt(ch, k))
            BY Zenon, <1>3, <3>1
        <3>3. t \in C
            BY <3>1, <3>2 DEF TxsOf, TxsUpTo
        <3>4. H[t] = k
            BY Zenon, <3>1, <3>2 DEF HeightsFit
        <3> QED BY Zenon, <1>8, <3>3, <3>4
    <2> QED BY <2>1, <2>2
<1>15. r.view = ChainView(e, G)
    <2> DEFINE D == C \cup TxsIn(b)
               c == CoinsOf(D, SpentBy(D), G)
               m == NullifiersOf(D)
    <2>1. h \in 1 .. Top(e) /\ h - 1 = n
        BY <1>2, <1>3
    <2>2. PushAnchor(View(c, m, AnchorsUpTo(e, h - 1), TreeUpTo(e, h - 1)), TreeUpTo(e, h))
            = View(c, m, AnchorsUpTo(e, h), TreeUpTo(e, h))
        <3> HIDE DEF c, m, h
        <3> QED BY <1>3, <2>1, PushPop
    <2> HIDE DEF h
    <2>3. AnchorsUpTo(e, h - 1) = A /\ TreeUpTo(e, h - 1) = B
        BY Zenon, <1>2, <1>4, <2>1
    <2>4. r.view = View(c, m, AnchorsUpTo(e, h), TreeUpTo(e, h))
        BY Zenon, <1>6, <1>11, <2>2, <2>3 DEF ViewOf
    <2>5. TxsOf(e) = D
        BY Zenon, <1>3, <1>12 DEF TxsOf
    <2> QED BY Zenon, <1>3, <2>4, <2>5 DEF ChainView, ViewOf
<1>16. r.undo = UndoOfTop(e, G)
    <2>1. Top(e) - 1 = n
        BY <1>2, <1>3
    <2> HIDE DEF h
    <2>2. TreeUpTo(e, n) = B
        BY Zenon, <1>2, <1>4
    <2> QED BY Zenon, <1>3, <1>11, <1>12, <2>1, <2>2 DEF UndoOfTop
<1>17. GoodChain(e)
    BY <1>3, <1>13 DEF GoodChain
<1> QED BY Zenon, <1>10, <1>14, <1>15, <1>16, <1>17 DEF e

LEMMA DisconnectGood ==
    ASSUME LedgerAssumption, NEW ch, GoodChain(ch), Top(ch) >= 1, NEW H, HeightsFit(H, ch), NEW G, HeightsFit(G, ch)
    PROVE  LET d == DisconnectBlock(ChainView(ch, H), BlockAt(ch, Top(ch)), Top(ch), UndoOfTop(ch, G))
           IN  /\ d.clean = TRUE /\ d.view = ChainView(Front(ch), H)
               /\ GoodChain(Front(ch)) /\ HeightsFit(H, Front(ch))
<1> DEFINE e == Front(ch)
           n == Top(ch)
           b == BlockAt(ch, n)
           C == TxsUpTo(ch, n - 1)
           A == AnchorsUpTo(ch, n)
           B == TreeUpTo(ch, n)
           R == TreeUpTo(ch, n - 1)
           d == DisconnectBlock(ChainView(ch, H), b, n, UndoOfTop(ch, G))
<1>1. IsPath(ch) /\ FitsChain(ch)
    BY DEF GoodChain
<1>2. n \in Nat \ {0} /\ n - 1 \in Nat /\ n \in 1 .. n /\ n - 1 \in 0 .. n /\ n - 1 \in 0 .. n - 1 /\ n - 1 <= n
    BY <1>1, TopIsNat
<1>3. IsPath(e) /\ Top(e) = n - 1 /\ \A k \in 1 .. n - 1 : BlockAt(e, k) = BlockAt(ch, k)
    BY <1>1, Shorten
<1> HIDE DEF e
<1>4. ASSUME NEW k \in 0 .. n - 1
      PROVE  TxsUpTo(e, k) = TxsUpTo(ch, k) /\ TreeUpTo(e, k) = TreeUpTo(ch, k) /\ AnchorsUpTo(e, k) = AnchorsUpTo(ch, k)
    <2>1. n - 1 <= Top(ch) /\ n - 1 <= Top(e)
        BY <1>2, <1>3
    <2> QED BY <1>1, <1>2, <1>3, <2>1, SamePrefix
<1>5. b \in BlockIds /\ Closed(C) /\ Fits(C, b)
    BY Zenon, <1>1, <1>2 DEF IsPath, FitsChain
<1>6. TxsOf(ch) = C \cup TxsIn(b)
    BY Zenon, <1>2, TxsStep DEF TxsOf
<1>7. ASSUME NEW t \in TxsOf(ch) PROVE H[t] = G[t] /\ H[t] \in Nat \ {0}
    <2>1. PICK k \in 1 .. Top(ch) : t \in TxsIn(BlockAt(ch, k)) /\ H[t] = k
        BY <1>1, HeightOfTx
    <2>2. G[t] = k
        BY Zenon, <2>1 DEF HeightsFit
    <2> QED BY <2>1, <2>2
<1>8. \A t \in TxsIn(b) : H[t] = n
    BY Zenon, <1>2 DEF HeightsFit
<1> HIDE DEF b, C
<1>9. UndoBlock(C, b, H) = UndoBlock(C, b, G)
    <2>1. \A t \in C \cup TxsIn(b) : H[t] = G[t]
        BY Zenon, <1>6, <1>7
    <2> QED BY <1>5, <2>1, UndoSame
<1>10. ChainView(ch, H) = ViewOf(C \cup TxsIn(b), H, A, B)
    BY Zenon, <1>6 DEF ChainView
<1>11. UndoOfTop(ch, G) = UndoData(b, C, H, R)
    BY Zenon, <1>9 DEF UndoOfTop, UndoData, C, b
<1>12. d.clean = TRUE /\ d.view = PopAnchor(ViewOf(C, H, A, B), R)
    <2> DEFINE x == DisconnectBlock(ViewOf(C \cup TxsIn(b), H, A, B), b, n, UndoData(b, C, H, R))
    <2>1. \A t \in C : H[t] \in Nat \ {0}
        <3>1. \A t \in C : t \in TxsOf(ch)
            BY <1>6
        <3> QED BY Zenon, <1>7, <3>1
    <2> HIDE DEF n, A, B, R
    <2>2. Connected(b, n, C, H)
        BY Zenon, <1>5, <1>8, <2>1 DEF Connected
    <2>3. Undone(x, PopAnchor(ViewOf(C, H, A, B), R))
        BY <1>2, <1>5, <2>2, DisconnectBlockForm
    <2>4. x = d
        BY Zenon, <1>10, <1>11
    <2> HIDE DEF x, d
    <2> QED BY Zenon, <2>3, <2>4 DEF Undone
<1>13. PopAnchor(ViewOf(C, H, A, B), R) = ViewOf(C, H, AnchorsUpTo(ch, n - 1), R)
    <2> DEFINE c == CoinsOf(C, SpentBy(C), H)
               m == NullifiersOf(C)
    <2>1. PopAnchor(View(c, m, A, B), R) = View(c, m, AnchorsUpTo(ch, n - 1), R)
        <3> HIDE DEF c, m
        <3> QED BY <1>1, <1>2, PushPop
    <2> QED BY Zenon, <2>1 DEF ViewOf
<1>14. ChainView(e, H) = ViewOf(C, H, AnchorsUpTo(ch, n - 1), R)
    <2>1. TxsUpTo(e, n - 1) = C /\ TreeUpTo(e, n - 1) = R /\ AnchorsUpTo(e, n - 1) = AnchorsUpTo(ch, n - 1)
        BY Zenon, <1>2, <1>4 DEF C
    <2> QED BY Zenon, <1>3, <2>1 DEF ChainView, TxsOf
<1>15. GoodChain(e)
    <2>1. ASSUME NEW k \in 0 .. Top(e) PROVE Closed(TxsUpTo(e, k))
        <3>1. k \in 0 .. n - 1 /\ k \in 0 .. n
            BY <1>2, <1>3
        <3>2. Closed(TxsUpTo(ch, k))
            BY Zenon, <1>1, <3>1 DEF FitsChain
        <3> QED BY Zenon, <1>4, <3>1, <3>2
    <2>2. ASSUME NEW k \in 1 .. Top(e) PROVE Fits(TxsUpTo(e, k - 1), BlockAt(e, k))
        <3>1. k \in 1 .. n - 1 /\ k - 1 \in 0 .. n - 1 /\ k \in 1 .. n
            BY <1>2, <1>3
        <3>2. Fits(TxsUpTo(ch, k - 1), BlockAt(ch, k))
            BY Zenon, <1>1, <3>1 DEF FitsChain
        <3> QED BY Zenon, <1>3, <1>4, <3>1, <3>2
    <2> QED BY Zenon, <1>3, <2>1, <2>2 DEF GoodChain, FitsChain
<1>16. HeightsFit(H, e)
    <2> SUFFICES ASSUME NEW k \in 1 .. Top(e), NEW t \in TxsIn(BlockAt(e, k)) PROVE H[t] = k
        BY Zenon DEF HeightsFit
    <2>1. k \in 1 .. n - 1 /\ k \in 1 .. n
        BY <1>2, <1>3
    <2>2. t \in TxsIn(BlockAt(ch, k))
        BY Zenon, <1>3, <2>1
    <2> QED BY Zenon, <2>1, <2>2 DEF HeightsFit
<1> QED BY Zenon, <1>12, <1>13, <1>14, <1>15, <1>16 DEF e, b

-----------------------------------------------------------------------------
(* The invariant: the chain state and every undo record are what the chain *)
(* they were made on makes them.                                           *)

MadeOn(b, u, ch, H) ==
    GoodChain(ch) /\ HeightsFit(H, ch) /\ Top(ch) >= 1 /\ BlockAt(ch, Top(ch)) = b /\ u = UndoOfTop(ch, H)
ViewInv == \E H : HeightsFit(H, chain) /\ view = ChainView(chain, H)
UndoInv ==
    /\ \A b \in DOMAIN undo : \E ch, H : MadeOn(b, undo[b], ch, H)
    /\ \A k \in 1 .. Top(chain) : BlockAt(chain, k) \in DOMAIN undo
LedgerInv == GoodChain(chain) /\ ViewInv /\ UndoInv /\ network \in Networks

(* Whatever it was made on, the undo data of a block on the chain is that of this chain. *)
LEMMA TipUndo ==
    ASSUME LedgerAssumption, LedgerInv, Top(chain) >= 1
    PROVE  /\ Tip = BlockAt(chain, Top(chain)) /\ Tip \in DOMAIN undo
           /\ \E G : HeightsFit(G, chain) /\ undo[Tip] = UndoOfTop(chain, G)
<1> DEFINE n == Top(chain)
<1>1. GoodChain(chain) /\ IsPath(chain) /\ UndoInv
    BY DEF LedgerInv, GoodChain
<1>2. n \in 1 .. n /\ Len(chain) = n + 1
    BY <1>1, TopIsNat
<1>3. Tip = BlockAt(chain, n)
    BY <1>2 DEF Tip, BlockAt
<1>4. Tip \in DOMAIN undo
    BY Zenon, <1>1, <1>2, <1>3 DEF UndoInv
<1>5. PICK ch, G : MadeOn(Tip, undo[Tip], ch, G)
    BY Zenon, <1>1, <1>4 DEF UndoInv
<1>6. ch = chain
    <2>1. IsPath(ch) /\ Top(ch) >= 1 /\ BlockAt(ch, Top(ch)) = BlockAt(chain, n)
        BY Zenon, <1>3, <1>5 DEF MadeOn, GoodChain
    <2> QED BY <1>1, <2>1, PathUnique
<1>7. HeightsFit(G, chain) /\ undo[Tip] = UndoOfTop(chain, G)
    BY Zenon, <1>5, <1>6 DEF MadeOn
<1> QED BY Zenon, <1>3, <1>4, <1>7

(* DisconnectBlock on the tip is clean and goes back to the chain before it. *)
LEMMA TipUndoneForm ==
    ASSUME LedgerAssumption, LedgerInv, Top(chain) >= 1, NEW H, HeightsFit(H, chain), view = ChainView(chain, H)
    PROVE  /\ TipUndone.clean = TRUE /\ TipUndone.view = ChainView(Front(chain), H)
           /\ GoodChain(Front(chain)) /\ HeightsFit(H, Front(chain))
<1> DEFINE n == Top(chain)
           d(G) == DisconnectBlock(ChainView(chain, H), BlockAt(chain, n), n, UndoOfTop(chain, G))
<1>1. PICK G : HeightsFit(G, chain) /\ undo[Tip] = UndoOfTop(chain, G)
    BY TipUndo
<1>2. GoodChain(chain) /\ Tip = BlockAt(chain, n) /\ Len(chain) - 1 = n
    BY TipUndo DEF LedgerInv, Top
<1>3. TipUndone = d(G)
    BY Zenon, <1>1, <1>2 DEF TipUndone
<1>4. /\ d(G).clean = TRUE /\ d(G).view = ChainView(Front(chain), H)
      /\ GoodChain(Front(chain)) /\ HeightsFit(H, Front(chain))
    BY Zenon, <1>1, <1>2, DisconnectGood
<1> HIDE DEF d
<1> QED BY Zenon, <1>3, <1>4

LEMMA LedgerInitInv ==
    ASSUME LedgerAssumption, LedgerInit
    PROVE  LedgerInv
<1>1. chain = <<Genesis>> /\ undo = <<>> /\ network \in Networks
      /\ view = [coins |-> [t \in TxIds |-> Pruned], nullifiers |-> {}, anchors |-> {}, best |-> <<>>]
    BY DEF LedgerInit
<1>2. Len(chain) = 1 /\ chain \in Seq(BlockIds \cup {Genesis}) /\ chain[1] = Genesis /\ Top(chain) = 0
    BY <1>1 DEF Top
<1>3. IsPath(chain)
    BY <1>2 DEF IsPath
<1>4. \A k : k \in 0 .. 0 => k = 0
    OBVIOUS
<1>5. TxsUpTo(chain, 0) = {} /\ SpentBy({}) = {} /\ NullifiersOf({}) = {}
    BY DEF TxsUpTo, SpentBy, NullifiersOf
<1>6. Closed({})
    BY <1>5 DEF Closed, Disjoint
<1>7. GoodChain(chain)
    <2>1. \A k \in 0 .. Top(chain) : Closed(TxsUpTo(chain, k))
        BY Zenon, <1>2, <1>4, <1>5, <1>6
    <2>2. \A k \in 1 .. Top(chain) : Fits(TxsUpTo(chain, k - 1), BlockAt(chain, k))
        BY <1>2
    <2> QED BY Zenon, <1>3, <2>1, <2>2 DEF GoodChain, FitsChain
<1>8. ASSUME NEW H PROVE HeightsFit(H, chain) /\ view = ChainView(chain, H)
    <2>1. HeightsFit(H, chain)
        BY <1>2 DEF HeightsFit
    <2>2. TxsOf(chain) = {} /\ TreeUpTo(chain, 0) = <<>> /\ AnchorsUpTo(chain, 0) = {}
        <3>1. TxsOf(chain) = {}
            BY Zenon, <1>2, <1>5 DEF TxsOf
        <3>2. TreeUpTo(chain, 0) = <<>>
            BY <1>3, TreeStep
        <3>3. AnchorsUpTo(chain, 0) = {}
            BY DEF AnchorsUpTo
        <3> QED BY Zenon, <3>1, <3>2, <3>3
    <2>3. CoinsOf({}, {}, H) = [t \in TxIds |-> Pruned]
        <3>1. ASSUME NEW t PROVE Entry(t, {}, {}, H) = Pruned
            BY DEF Entry, Left
        <3> QED BY Zenon, <3>1 DEF CoinsOf
    <2>4. ChainView(chain, H) = View([t \in TxIds |-> Pruned], {}, {}, <<>>)
        BY Zenon, <1>2, <1>5, <2>2, <2>3 DEF ChainView, ViewOf
    <2> QED BY Zenon, <1>1, <2>1, <2>4 DEF View
<1>9. UndoInv
    BY <1>1, <1>2 DEF UndoInv
<1> QED BY Zenon, <1>1, <1>7, <1>8, <1>9 DEF LedgerInv, ViewInv

LEMMA ConnectKeepsInv ==
    ASSUME LedgerAssumption, LedgerInv, NEW b \in BlockIds, ConnectOnTip(b)
    PROVE  LedgerInv'
<1> DEFINE e == Append(chain, b)
           r == ConnectBlock(view, b, Len(chain))
<1>1. GoodChain(chain) /\ IsPath(chain) /\ UndoInv /\ network \in Networks
    BY DEF LedgerInv, GoodChain
<1>2. PICK H : HeightsFit(H, chain) /\ view = ChainView(chain, H)
    BY DEF LedgerInv, ViewInv
<1>3. /\ Block[b].prev = chain[Len(chain)] /\ r.ok
      /\ view' = r.view /\ undo' = WriteUndo(b, r.undo) /\ chain' = e /\ network' = network
    BY Zenon DEF ConnectOnTip, Tip
<1>4. r = ConnectBlock(ChainView(chain, H), b, Len(chain))
    BY Zenon, <1>2
<1>5. PICK G : GoodChain(e) /\ HeightsFit(G, e) /\ r.view = ChainView(e, G) /\ r.undo = UndoOfTop(e, G)
    <2>1. ConnectBlock(ChainView(chain, H), b, Len(chain)).ok
        BY Zenon, <1>3, <1>4
    <2>2. \E G : /\ GoodChain(e) /\ HeightsFit(G, e)
                 /\ ConnectBlock(ChainView(chain, H), b, Len(chain)).view = ChainView(e, G)
                 /\ ConnectBlock(ChainView(chain, H), b, Len(chain)).undo = UndoOfTop(e, G)
        BY SMTT(60), <1>1, <1>2, <1>3, <2>1, ConnectGood
    <2> QED BY Zenon, <1>4, <2>2
<1>6. /\ Top(e) = Top(chain) + 1 /\ BlockAt(e, Top(chain) + 1) = b /\ Top(chain) \in Nat
      /\ \A k \in 1 .. Top(chain) : BlockAt(e, k) = BlockAt(chain, k)
    BY <1>1, <1>3, Extend, TopIsNat
<1> HIDE DEF e, r
<1>7. GoodChain(chain') /\ ViewInv'
    BY Zenon, <1>3, <1>5 DEF ViewInv
<1>8. /\ DOMAIN undo' = DOMAIN undo \cup {b}
      /\ \A c \in DOMAIN undo : undo'[c] = undo[c]
      /\ b \notin DOMAIN undo => undo'[b] = r.undo
    BY <1>3 DEF WriteUndo
<1>9. MadeOn(b, r.undo, e, G)
    <2>1. Top(e) >= 1 /\ BlockAt(e, Top(e)) = b
        BY <1>6
    <2> QED BY Zenon, <1>5, <2>1 DEF MadeOn
<1>10. ASSUME NEW c \in DOMAIN undo' PROVE \E ch, F : MadeOn(c, undo'[c], ch, F)
    <2>1. CASE c \in DOMAIN undo
        BY Zenon, <1>1, <1>8, <2>1 DEF UndoInv
    <2>2. CASE c \notin DOMAIN undo
        <3>1. c = b
            BY <1>8, <2>2
        <3> QED BY Zenon, <1>8, <1>9, <2>2, <3>1
    <2> QED BY <2>1, <2>2
<1>11. ASSUME NEW k \in 1 .. Top(e) PROVE BlockAt(e, k) \in DOMAIN undo'
    <2>1. CASE k = Top(chain) + 1
        BY <1>6, <1>8, <2>1
    <2>2. CASE k # Top(chain) + 1
        <3>1. k \in 1 .. Top(chain)
            BY <1>6, <2>2
        <3>2. BlockAt(chain, k) \in DOMAIN undo
            BY Zenon, <1>1, <3>1 DEF UndoInv
        <3> QED BY <1>6, <1>8, <3>1, <3>2
    <2> QED BY <2>1, <2>2
<1>12. UndoInv'
    BY Zenon, <1>3, <1>10, <1>11 DEF UndoInv
<1> QED BY Zenon, <1>1, <1>3, <1>7, <1>12 DEF LedgerInv

LEMMA DisconnectKeepsInv ==
    ASSUME LedgerAssumption, LedgerInv, DisconnectTheTip
    PROVE  LedgerInv'
<1> DEFINE e == Front(chain)
<1>1. GoodChain(chain) /\ IsPath(chain) /\ UndoInv /\ network \in Networks
    BY DEF LedgerInv, GoodChain
<1>2. PICK H : HeightsFit(H, chain) /\ view = ChainView(chain, H)
    BY DEF LedgerInv, ViewInv
<1>3. Len(chain) > 1 /\ view' = TipUndone.view /\ chain' = e /\ network' = network /\ undo' = undo
    BY Zenon DEF DisconnectTheTip, Front
<1>4. Top(chain) >= 1 /\ Top(chain) \in Nat
    BY <1>1, <1>3, TopIsNat
<1>5. TipUndone.view = ChainView(e, H) /\ GoodChain(e) /\ HeightsFit(H, e)
    BY Zenon, <1>2, <1>4, TipUndoneForm
<1>6. Top(e) = Top(chain) - 1 /\ \A k \in 1 .. Top(chain) - 1 : BlockAt(e, k) = BlockAt(chain, k)
    BY <1>1, <1>4, Shorten
<1> HIDE DEF e
<1>7. GoodChain(chain') /\ ViewInv'
    BY Zenon, <1>3, <1>5 DEF ViewInv
<1>8. ASSUME NEW k \in 1 .. Top(e) PROVE BlockAt(e, k) \in DOMAIN undo
    <2>1. k \in 1 .. Top(chain) - 1 /\ k \in 1 .. Top(chain)
        BY <1>4, <1>6
    <2> QED BY Zenon, <1>1, <1>6, <2>1 DEF UndoInv
<1>9. UndoInv'
    BY Zenon, <1>1, <1>3, <1>8 DEF UndoInv
<1> QED BY Zenon, <1>1, <1>3, <1>7, <1>9 DEF LedgerInv

-----------------------------------------------------------------------------
(* What the invariant says of the chain state.                             *)

LEMMA ConfirmedForm ==
    ASSUME LedgerInv
    PROVE  /\ Confirmed = TxsOf(chain) /\ Closed(TxsOf(chain)) /\ IsPath(chain)
           /\ Heights = 1 .. Top(chain) /\ Len(chain) - 1 = Top(chain)
           /\ \A k, t : ConfirmedAt(t, k) <=> t \in TxsIn(BlockAt(chain, k))
           /\ \A out : Spenders(out) = {t \in TxsOf(chain) : out \in Inputs(t)}
<1>1. GoodChain(chain) /\ IsPath(chain)
    BY DEF LedgerInv, GoodChain
<1>2. Top(chain) \in 0 .. Top(chain)
    BY <1>1, TopIsNat
<1>3. Closed(TxsOf(chain))
    BY Zenon, <1>1, <1>2 DEF GoodChain, FitsChain, TxsOf
<1>4. Heights = 1 .. Top(chain) /\ Len(chain) - 1 = Top(chain)
    BY Zenon DEF Heights, Top
<1>5. Confirmed = TxsOf(chain)
    BY Zenon, <1>4 DEF Confirmed, TxsOf, TxsUpTo, TxsIn, BlockAt, VtxAt
<1>6. \A k, t : ConfirmedAt(t, k) <=> t \in TxsIn(BlockAt(chain, k))
    BY Zenon DEF ConfirmedAt, VtxAt, TxsIn, BlockAt
<1>7. \A out : Spenders(out) = {t \in TxsOf(chain) : out \in Inputs(t)}
    BY Zenon, <1>5 DEF Spenders, Inputs
<1> QED BY Zenon, <1>1, <1>3, <1>4, <1>5, <1>6, <1>7

LEMMA InvCoins ==
    ASSUME LedgerAssumption, LedgerInv
    PROVE  CoinsMatchChain
<1> DEFINE C == TxsOf(chain)
<1>1. PICK H : HeightsFit(H, chain) /\ view = ChainView(chain, H)
    BY DEF LedgerInv, ViewInv
<1>2. view.coins = CoinsOf(C, SpentBy(C), H)
    BY <1>1 DEF ChainView, ViewOf, View
<1>3. SUFFICES ASSUME NEW t \in TxIds
               PROVE  LET left == {n \in DOMAIN Tx[t].vout : t \in Confirmed /\ Spenders([hash |-> t, n |-> n]) = {}}
                          c == view.coins[t]
                      IN  /\ DOMAIN c.vout = left
                          /\ \A n \in left : c.vout[n] = Tx[t].vout[n]
                          /\ left # {} => c.fCoinBase = Tx[t].coinbase /\ ConfirmedAt(t, c.nHeight)
    BY Zenon DEF CoinsMatchChain
<1> DEFINE left == {n \in DOMAIN Tx[t].vout : t \in Confirmed /\ Spenders([hash |-> t, n |-> n]) = {}}
           c == view.coins[t]
<1>4. c = Entry(t, C, SpentBy(C), H)
    BY <1>2, CoinsAt
<1>5. ASSUME NEW out PROVE Spenders(out) = {} <=> out \notin SpentBy(C)
    <2>1. Spenders(out) = {u \in C : out \in Inputs(u)}
        BY Zenon, ConfirmedForm
    <2> QED BY Zenon, <2>1 DEF SpentBy
<1>6. left = Left(t, C, SpentBy(C))
    BY Zenon, <1>5, ConfirmedForm DEF Left
<1>7. left # {} => t \in C
    BY Zenon, <1>6 DEF Left
<1>8. t \in C => ConfirmedAt(t, H[t])
    <2>1. ASSUME t \in C PROVE \E k \in 1 .. Top(chain) : t \in TxsIn(BlockAt(chain, k)) /\ H[t] = k
        BY <1>1, <2>1, HeightOfTx, ConfirmedForm
    <2> QED BY Zenon, <2>1, ConfirmedForm
<1> HIDE DEF C, left, c
<1>9. /\ DOMAIN c.vout = left
      /\ left # {} => c.nHeight = H[t] /\ c.fCoinBase = Tx[t].coinbase /\ c.vout = [n \in left |-> Tx[t].vout[n]]
    <2> DEFINE S == SpentBy(C)
    <2> HIDE DEF S
    <2>1. /\ DOMAIN Entry(t, C, S, H).vout = Left(t, C, S)
          /\ Left(t, C, S) # {} =>
                /\ Entry(t, C, S, H).nHeight = H[t] /\ Entry(t, C, S, H).fCoinBase = Tx[t].coinbase
                /\ Entry(t, C, S, H).vout = [n \in Left(t, C, S) |-> Tx[t].vout[n]]
        BY EntryFields
    <2>2. c = Entry(t, C, S, H) /\ left = Left(t, C, S)
        BY Zenon, <1>4, <1>6 DEF S
    <2> QED BY Zenon, <2>1, <2>2
<1>10. \A n \in left : c.vout[n] = Tx[t].vout[n]
    <2>1. left # {} => \A n \in left : c.vout[n] = Tx[t].vout[n]
        BY Zenon, <1>9
    <2> QED BY Zenon, <2>1
<1>11. left # {} => c.fCoinBase = Tx[t].coinbase /\ ConfirmedAt(t, c.nHeight)
    BY Zenon, <1>7, <1>8, <1>9
<1> QED BY Zenon, <1>9, <1>10, <1>11 DEF left, c

LEMMA InvShielded ==
    ASSUME LedgerAssumption, LedgerInv
    PROVE  ShieldedMatchesChain
<1> DEFINE n == Top(chain)
<1>1. PICK H : HeightsFit(H, chain) /\ view = ChainView(chain, H)
    BY DEF LedgerInv, ViewInv
<1>2. /\ view.nullifiers = NullifiersOf(TxsOf(chain))
      /\ view.anchors = AnchorsUpTo(chain, n)
      /\ view.best = TreeUpTo(chain, n)
    BY <1>1 DEF ChainView, ViewOf, View
<1>3. n \in Nat
    BY ConfirmedForm, TopIsNat
<1>4. ASSUME NEW h \in 0 .. n PROVE TreeAt(h) = TreeUpTo(chain, h)
    <2>1. ASSUME NEW k \in 1 .. h PROVE TreesOf(chain)[k] = BlockCommitments(chain[k + 1])
        <3>1. k \in 1 .. Top(chain)
            BY <1>3
        <3> QED BY Zenon, <3>1 DEF TreesOf, BlockAt
    <2>2. [k \in 1 .. h |-> TreesOf(chain)[k]] = [k \in 1 .. h |-> BlockCommitments(chain[k + 1])]
        BY Zenon, <2>1
    <2> QED BY Zenon, <2>2 DEF TreeAt, TreeUpTo, Flat
<1>5. n \in 0 .. n /\ \A h \in 1 .. n : h \in 0 .. n
    BY <1>3
<1>6. Heights = 1 .. n /\ Len(chain) - 1 = n /\ Confirmed = TxsOf(chain)
    BY Zenon, ConfirmedForm
<1> HIDE DEF n
<1>7. {TreeAt(h) : h \in 1 .. n} = {TreeUpTo(chain, h) : h \in 1 .. n}
    BY Zenon, <1>4, <1>5
<1>8. view.anchors = {TreeAt(h) : h \in Heights} \ {<<>>}
    BY Zenon, <1>2, <1>6, <1>7 DEF AnchorsUpTo
<1>9. view.best = TreeAt(Len(chain) - 1)
    BY Zenon, <1>2, <1>4, <1>5, <1>6
<1>10. view.nullifiers = UNION {Nullifiers(t) : t \in Confirmed}
    BY Zenon, <1>2, <1>6 DEF NullifiersOf
<1> QED BY Zenon, <1>8, <1>9, <1>10 DEF ShieldedMatchesChain

LEMMA InvSpends ==
    ASSUME LedgerInv
    PROVE  NoDoubleSpend
<1>1. Confirmed = TxsOf(chain) /\ Disjoint(TxsOf(chain))
    BY Zenon, ConfirmedForm DEF Closed
<1> QED BY Zenon, <1>1 DEF NoDoubleSpend, Disjoint

LEMMA InvUndo ==
    ASSUME LedgerAssumption, LedgerInv
    PROVE  UndoIsClean
<1>1. PICK H : HeightsFit(H, chain) /\ view = ChainView(chain, H)
    BY DEF LedgerInv, ViewInv
<1>2. SUFFICES ASSUME Len(chain) > 1 PROVE Tip \in DOMAIN undo /\ TipUndone.clean
    BY Zenon DEF UndoIsClean
<1>3. Top(chain) >= 1
    BY <1>2, ConfirmedForm, TopIsNat
<1>4. Tip \in DOMAIN undo
    BY <1>3, TipUndo
<1>5. TipUndone.clean = TRUE
    BY Zenon, <1>1, <1>3, TipUndoneForm
<1> QED BY Zenon, <1>4, <1>5

-----------------------------------------------------------------------------
(* The chain state is right.                                               *)

LEMMA StepKeepsInv ==
    ASSUME LedgerAssumption
    PROVE  LedgerInv /\ [Next]_vars => LedgerInv'
<1> SUFFICES ASSUME LedgerInv, [Next]_vars PROVE LedgerInv'
    OBVIOUS
<1>1. ASSUME UNCHANGED ledgerVars PROVE LedgerInv'
    <2>1. chain' = chain /\ view' = view /\ undo' = undo /\ network' = network
        BY <1>1 DEF ledgerVars
    <2> QED BY Zenon, <2>1 DEF LedgerInv, ViewInv, UndoInv
<1>2. ASSUME NEW t, AcceptToMemoryPool(t) PROVE LedgerInv'
    BY Zenon, <1>1, <1>2 DEF AcceptToMemoryPool
<1>3. ASSUME NEW b \in network.mined, ConnectTip(b) PROVE LedgerInv'
    <2>1. network \in Network
        BY DEF LedgerInv, LedgerAssumption
    <2>2. b \in BlockIds
        BY <2>1 DEF Network
    <2>3. ConnectOnTip(b)
        BY Zenon, <1>3 DEF ConnectTip
    <2> QED BY Zenon, <2>2, <2>3, ConnectKeepsInv
<1>4. ASSUME DisconnectTip PROVE LedgerInv'
    <2>1. DisconnectTheTip
        BY Zenon, <1>4 DEF DisconnectTip
    <2> QED BY Zenon, <2>1, DisconnectKeepsInv
<1>5. CASE UNCHANGED vars
    BY <1>1, <1>5 DEF vars
<1> QED BY Zenon, <1>2, <1>3, <1>4, <1>5 DEF Next

\* In every state that AcceptToMemoryPool, ConnectTip and DisconnectTip reach, the unspent
\* outputs, nullifiers and anchors of pcoinsTip are those of the active chain, nothing in it
\* is spent twice, and DisconnectBlock applies the undo data of the tip cleanly.
THEOREM ChainStateIsRight ==
    ASSUME LedgerAssumption
    PROVE  Spec => []StateMatchesChain
<1>1. Init => LedgerInv
    BY LedgerInitInv DEF Init
<1>2. LedgerInv /\ [Next]_vars => LedgerInv'
    BY StepKeepsInv
<1>3. LedgerInv => StateMatchesChain
    BY Zenon, InvCoins, InvShielded, InvSpends, InvUndo DEF StateMatchesChain
<1> QED BY <1>1, <1>2, <1>3, PTL DEF Spec

-----------------------------------------------------------------------------
(* Disconnecting is the inverse of connecting.                             *)

LEMMA SameChainView ==
    ASSUME NEW ch, IsPath(ch), NEW H, HeightsFit(H, ch), NEW G, HeightsFit(G, ch)
    PROVE  ChainView(ch, H) = ChainView(ch, G)
<1>1. ASSUME NEW t \in TxsOf(ch) PROVE H[t] = G[t]
    <2>1. PICK k \in 1 .. Top(ch) : t \in TxsIn(BlockAt(ch, k))
        BY DEF TxsOf, TxsUpTo
    <2> QED BY Zenon, <2>1 DEF HeightsFit
<1> DEFINE C == TxsOf(ch)
           S == SpentBy(C)
<1> HIDE DEF C, S
<1>2. CoinsOf(C, S, H) = CoinsOf(C, S, G)
    <2>1. \A t \in C : H[t] = G[t]
        BY Zenon, <1>1 DEF C
    <2> QED BY <2>1, CoinsSame
<1> QED BY Zenon, <1>2 DEF ChainView, ViewOf, C, S

\* DisconnectBlock gives back the chain state the tip was connected to.
TipGoesBack ==
    \A H : HeightsFit(H, chain) /\ view = ChainView(chain, H) =>
              TipUndone.clean = TRUE /\ TipUndone.view = ChainView(Front(chain), H)

LEMMA InvTipGoesBack ==
    ASSUME LedgerAssumption
    PROVE  LedgerInv /\ Top(chain) >= 1 => TipGoesBack
<1> SUFFICES ASSUME LedgerInv, Top(chain) >= 1,
                    NEW H, HeightsFit(H, chain), view = ChainView(chain, H)
             PROVE  TipUndone.clean = TRUE /\ TipUndone.view = ChainView(Front(chain), H)
    BY Zenon DEF TipGoesBack
<1> QED BY TipUndoneForm

LEMMA ConnectedGoesBack ==
    ASSUME LedgerAssumption, LedgerInv, LedgerInv', Top(chain') >= 1 => TipGoesBack',
           NEW b \in BlockIds, ConnectOnTip(b)
    PROVE  (TipUndone.clean)' /\ (TipUndone.view)' = view
<1> DEFINE e == Append(chain, b)
<1>1. IsPath(chain)
    BY DEF LedgerInv, GoodChain
<1>2. PICK H : HeightsFit(H, chain) /\ view = ChainView(chain, H)
    BY DEF LedgerInv, ViewInv
<1>3. chain' = e /\ Block[b].prev = chain[Len(chain)]
    BY Zenon DEF ConnectOnTip, Tip
<1>4. PICK G : HeightsFit(G, chain') /\ view' = ChainView(chain', G)
    BY DEF LedgerInv, ViewInv
<1>5. Top(e) = Top(chain) + 1 /\ \A k \in 1 .. Top(chain) : BlockAt(e, k) = BlockAt(chain, k)
    BY <1>1, <1>3, Extend
<1>6. Top(chain) \in Nat
    BY <1>1, TopIsNat
<1>7. Front(e) = chain
    <2> DEFINE X == BlockIds \cup {Genesis}
    <2>1. chain \in Seq(X) /\ b \in X
        BY <1>1 DEF IsPath
    <2> HIDE DEF X
    <2>2. /\ e \in Seq(X) /\ Len(e) = Len(chain) + 1 /\ Len(chain) \in Nat
          /\ \A i \in 1 .. Len(chain) : e[i] = chain[i]
        BY <2>1, AppendFacts, SeqFacts
    <2> HIDE DEF e
    <2>3. Front(e) = SubSeq(e, 1, Len(chain)) /\ Len(chain) \in 0 .. Len(e)
        BY <2>2 DEF Front
    <2>4. /\ SubSeq(e, 1, Len(chain)) \in Seq(X) /\ Len(SubSeq(e, 1, Len(chain))) = Len(chain)
          /\ \A i \in 1 .. Len(chain) : SubSeq(e, 1, Len(chain))[i] = e[i]
        BY <2>2, <2>3, FrontFacts
    <2> QED BY <2>1, <2>2, <2>3, <2>4, SeqsEqual
<1> HIDE DEF e
<1>8. HeightsFit(G, chain)
    <2>1. \A k \in 1 .. Top(chain) : k \in 1 .. Top(e)
        BY <1>5, <1>6
    <2> QED BY Zenon, <1>3, <1>4, <1>5, <2>1 DEF HeightsFit
<1>9. Top(chain') >= 1
    BY <1>3, <1>5, <1>6
<1>10. (TipUndone.clean)' = TRUE /\ (TipUndone.view)' = ChainView(Front(chain'), G)
    BY Zenon, <1>4, <1>9 DEF TipGoesBack
<1>11. ChainView(chain, H) = ChainView(chain, G)
    BY <1>1, <1>2, <1>8, SameChainView
<1> QED BY Zenon, <1>2, <1>3, <1>7, <1>10, <1>11

\* Whenever ConnectTip has connected a block, DisconnectBlock with the undo data on disk
\* would succeed and restore exactly the chain state from before, also when that undo data
\* was written in an earlier connection of the block.
THEOREM DisconnectUndoesConnect ==
    ASSUME LedgerAssumption
    PROVE  Spec => [][\A b \in BlockIds : ConnectOnTip(b) => (TipUndone.clean)' /\ (TipUndone.view)' = view]_vars
<1> DEFINE Back == \A b \in BlockIds : ConnectOnTip(b) => (TipUndone.clean)' /\ (TipUndone.view)' = view
<1>1. Init => LedgerInv
    BY LedgerInitInv DEF Init
<1>2. LedgerInv /\ [Next]_vars => LedgerInv'
    BY StepKeepsInv
<1>3. LedgerInv /\ Top(chain) >= 1 => TipGoesBack
    BY InvTipGoesBack
<1>4. LedgerInv /\ LedgerInv' /\ (LedgerInv' /\ Top(chain') >= 1 => TipGoesBack') => Back
    BY Zenon, ConnectedGoesBack
<1>5. LedgerInv /\ LedgerInv' /\ (LedgerInv /\ Top(chain) >= 1 => TipGoesBack)' => [Back]_vars
    BY Zenon, <1>4
<1> QED BY <1>1, <1>2, <1>3, <1>5, PTL DEF Spec

-----------------------------------------------------------------------------
(* The two maps of the memory pool.                                        *)

MapsExact(p) ==
    /\ DOMAIN p.mapNextTx = UNION {Inputs(t) : t \in p.mapTx}
    /\ \A t \in p.mapTx : \A o \in Inputs(t) : p.mapNextTx[o] = t
    /\ DOMAIN p.mapNullifiers = UNION {Nullifiers(t) : t \in p.mapTx}
    /\ \A t \in p.mapTx : \A n \in Nullifiers(t) : p.mapNullifiers[n] = t

(* Erasing transactions takes exactly what they use. *)
LEMMA EraseKeepsMaps ==
    ASSUME NEW p, MapsExact(p), NEW gone, gone \subseteq p.mapTx
    PROVE  MapsExact(Erase(p, gone))
<1> DEFINE e == Erase(p, gone)
<1>1. /\ e.mapTx = p.mapTx \ gone
      /\ e.mapNextTx = [o \in DOMAIN p.mapNextTx \ UNION {Inputs(t) : t \in gone} |-> p.mapNextTx[o]]
      /\ e.mapNullifiers = [n \in DOMAIN p.mapNullifiers \ UNION {Nullifiers(t) : t \in gone} |-> p.mapNullifiers[n]]
    BY Zenon DEF Erase
<1> HIDE DEF e
<1>2. DOMAIN e.mapNextTx = UNION {Inputs(t) : t \in e.mapTx}
    BY <1>1 DEF MapsExact
<1>3. \A t \in e.mapTx : \A o \in Inputs(t) : e.mapNextTx[o] = t
    BY <1>1, <1>2 DEF MapsExact
<1>4. DOMAIN e.mapNullifiers = UNION {Nullifiers(t) : t \in e.mapTx}
    BY <1>1 DEF MapsExact
<1>5. \A t \in e.mapTx : \A n \in Nullifiers(t) : e.mapNullifiers[n] = t
    BY <1>1, <1>4 DEF MapsExact
<1> QED BY Zenon, <1>2, <1>3, <1>4, <1>5 DEF MapsExact, e

(* A transaction that uses nothing a transaction of the pool uses may be added. *)
LEMMA AddKeepsMaps ==
    ASSUME NEW p, MapsExact(p), NEW t,
           Inputs(t) \cap DOMAIN p.mapNextTx = {}, Nullifiers(t) \cap DOMAIN p.mapNullifiers = {}
    PROVE  MapsExact(addUnchecked(p, t))
<1> DEFINE e == addUnchecked(p, t)
<1>1. /\ e.mapTx = p.mapTx \cup {t}
      /\ e.mapNextTx = [o \in DOMAIN p.mapNextTx \cup Inputs(t) |-> IF o \in Inputs(t) THEN t ELSE p.mapNextTx[o]]
      /\ e.mapNullifiers = [n \in DOMAIN p.mapNullifiers \cup Nullifiers(t) |->
                               IF n \in Nullifiers(t) THEN t ELSE p.mapNullifiers[n]]
    BY Zenon DEF addUnchecked
<1> HIDE DEF e
<1>2. DOMAIN e.mapNextTx = UNION {Inputs(u) : u \in e.mapTx}
    BY <1>1 DEF MapsExact
<1>3. \A u \in e.mapTx : \A o \in Inputs(u) : e.mapNextTx[o] = u
    BY <1>1, <1>2 DEF MapsExact
<1>4. DOMAIN e.mapNullifiers = UNION {Nullifiers(u) : u \in e.mapTx}
    BY <1>1 DEF MapsExact
<1>5. \A u \in e.mapTx : \A n \in Nullifiers(u) : e.mapNullifiers[n] = u
    BY <1>1, <1>4 DEF MapsExact
<1> QED BY Zenon, <1>2, <1>3, <1>4, <1>5 DEF MapsExact, e

(* Every removal is an erasure of transactions of the pool. *)
LEMMA RemovalsKeepMaps ==
    ASSUME NEW p, MapsExact(p)
    PROVE  /\ \A t : MapsExact(removeRecursive(p, t)) /\ MapsExact(removeConflicts(p, t))
           /\ \A rt : MapsExact(removeWithAnchor(p, rt))
           /\ \A v, h : MapsExact(removeCoinbaseSpends(p, v, h))
<1>1. \A roots : Descendants(p, roots) \subseteq p.mapTx
    BY Zenon DEF Descendants
<1>2. \A roots : MapsExact(Erase(p, Descendants(p, roots)))
    BY <1>1, EraseKeepsMaps
<1> QED BY Zenon, <1>2 DEF removeRecursive, removeConflicts, removeWithAnchor, removeCoinbaseSpends

(* The loops of ConnectTip and DisconnectTip over the transactions of a block: one step of each. *)
StepOf(c, q, t) ==
    IF c.removes THEN removeConflicts(Erase(q, {t} \cap q.mapTx), t)
    ELSE IF Acceptable(c.view, q, t, c.height) /\ t \notin c.refused THEN addUnchecked(q, t) ELSE removeRecursive(q, t)
PoolRun(g, c, p, vtx, n) == g = [i \in 0 .. n |-> IF i = 0 THEN p ELSE StepOf(c, g[i - 1], vtx[i])]

LEMMA PoolRunExists ==
    ASSUME NEW c, NEW p, NEW vtx, NEW n \in Nat
    PROVE  \E g : PoolRun(g, c, p, vtx, n)
<1> DEFINE T == {m \in Nat : ~\E g : PoolRun(g, c, p, vtx, m)}
<1> SUFFICES ASSUME T # {} PROVE FALSE
    OBVIOUS
<1>1. PICK m \in T : \A i \in T : m <= i
    <2>1. T \subseteq Nat
        OBVIOUS
    <2> HIDE DEF T
    <2> QED BY Zenon, <2>1, LeastNat
<1>2. m # 0
    <2>1. PoolRun([i \in 0 .. 0 |-> p], c, p, vtx, 0)
        BY DEF PoolRun
    <2> QED BY <1>1, <2>1
<1>3. m - 1 \in Nat /\ m - 1 \notin T
    BY <1>1, <1>2
<1>4. PICK g : PoolRun(g, c, p, vtx, m - 1)
    BY <1>3
<1> DEFINE e == [i \in 0 .. m |-> IF i < m THEN g[i] ELSE StepOf(c, g[i - 1], vtx[i])]
<1>5. ASSUME NEW i \in 0 .. m PROVE e[i] = IF i = 0 THEN p ELSE StepOf(c, e[i - 1], vtx[i])
    <2>1. CASE i = m
        <3>1. e[i - 1] = g[i - 1]
            BY <1>3, <2>1
        <3>2. e[i] = StepOf(c, g[i - 1], vtx[i]) /\ i # 0
            <4>1. m \in 0 .. m /\ ~(m < m)
                BY <1>1
            <4> QED BY Zenon, <1>2, <2>1, <4>1
        <3> HIDE DEF e
        <3> QED BY Zenon, <3>1, <3>2
    <2>2. CASE i < m
        <3>1. e[i] = g[i] /\ (i # 0 => e[i - 1] = g[i - 1])
            BY <2>2
        <3>2. g[i] = IF i = 0 THEN p ELSE StepOf(c, g[i - 1], vtx[i])
            <4>1. i \in 0 .. m - 1
                BY <1>3, <2>2
            <4> QED BY Zenon, <1>4, <4>1 DEF PoolRun
        <3> HIDE DEF e
        <3> QED BY <3>1, <3>2
    <2> QED BY <1>1, <2>1, <2>2
<1>6. PoolRun(e, c, p, vtx, m)
    <2>1. e = [i \in 0 .. m |-> e[i]]
        OBVIOUS
    <2> HIDE DEF e
    <2> QED BY Zenon, <1>5, <2>1 DEF PoolRun
<1> QED BY <1>1, <1>6

(* Every step of the loops keeps the maps exact. *)
LEMMA StepKeepsMaps ==
    ASSUME NEW c, NEW q, MapsExact(q), NEW t
    PROVE  MapsExact(StepOf(c, q, t))
<1> DEFINE e == Erase(q, {t} \cap q.mapTx)
<1>1. MapsExact(e)
    BY EraseKeepsMaps
<1> HIDE DEF e
<1>2. MapsExact(removeConflicts(e, t))
    BY <1>1, RemovalsKeepMaps
<1>3. MapsExact(removeRecursive(q, t))
    BY RemovalsKeepMaps
<1>4. Acceptable(c.view, q, t, c.height) => MapsExact(addUnchecked(q, t))
    <2> SUFFICES ASSUME Acceptable(c.view, q, t, c.height) PROVE MapsExact(addUnchecked(q, t))
        OBVIOUS
    <2>1. Inputs(t) \cap DOMAIN q.mapNextTx = {} /\ Nullifiers(t) \cap DOMAIN q.mapNullifiers = {}
        BY Zenon DEF Acceptable
    <2> QED BY <2>1, AddKeepsMaps
<1> QED BY Zenon, <1>2, <1>3, <1>4 DEF StepOf, e

LEMMA RunKeepsMaps ==
    ASSUME NEW c, NEW p, MapsExact(p), NEW vtx, NEW n \in Nat, NEW g, PoolRun(g, c, p, vtx, n)
    PROVE  MapsExact(g[n])
<1> DEFINE P == {j \in 0 .. n : MapsExact(g[j])}
<1>1. \A i \in 0 .. n : g[i] = IF i = 0 THEN p ELSE StepOf(c, g[i - 1], vtx[i])
    BY Zenon DEF PoolRun
<1>2. 0 \in P
    BY <1>1
<1>3. ASSUME NEW j \in 1 .. n, j - 1 \in P PROVE j \in P
    <2>1. j \in 0 .. n /\ j # 0
        OBVIOUS
    <2>2. MapsExact(g[j - 1]) /\ g[j] = StepOf(c, g[j - 1], vtx[j])
        BY Zenon, <1>1, <1>3, <2>1
    <2> QED BY <2>1, <2>2, StepKeepsMaps
<1> HIDE DEF P
<1>4. \A j \in 0 .. n : j \in P
    BY <1>2, <1>3, HoldsUp
<1> QED BY <1>4 DEF P

LEMMA LoopsKeepMaps ==
    ASSUME NEW p, MapsExact(p), NEW vtx, Len(vtx) \in Nat, NEW v, NEW h, NEW refused
    PROVE  MapsExact(removeForBlock(p, vtx)) /\ MapsExact(Resurrect(p, v, vtx, h, refused))
<1> DEFINE n == Len(vtx)
           c == [removes |-> TRUE]
           d == [removes |-> FALSE, view |-> v, height |-> h, refused |-> refused]
<1>1. MapsExact(removeForBlock(p, vtx))
    <2> DEFINE Run(f) == f = [i \in 0 .. n |-> IF i = 0 THEN p
                             ELSE removeConflicts(Erase(f[i - 1], {vtx[i]} \cap f[i - 1].mapTx), vtx[i])]
               e == CHOOSE f : Run(f)
    <2>1. \A q, t : StepOf(c, q, t) = removeConflicts(Erase(q, {t} \cap q.mapTx), t)
        BY Zenon DEF StepOf
    <2> HIDE DEF c
    <2>2. \A f : Run(f) <=> PoolRun(f, c, p, vtx, n)
        BY Zenon, <2>1 DEF PoolRun
    <2>3. \E f : Run(f)
        BY Zenon, <2>2, PoolRunExists
    <2>4. Run(e)
        BY Zenon, <2>3
    <2>5. removeForBlock(p, vtx) = e[n]
        BY Zenon DEF removeForBlock
    <2> HIDE DEF e, n, Run
    <2>6. MapsExact(e[n])
        BY <2>2, <2>4, RunKeepsMaps DEF n
    <2> QED BY Zenon, <2>5, <2>6
<1>2. MapsExact(Resurrect(p, v, vtx, h, refused))
    <2> DEFINE Return(q, t) == IF Acceptable(v, q, t, h) /\ t \notin refused
                               THEN addUnchecked(q, t) ELSE removeRecursive(q, t)
               Run(f) == f = [i \in 0 .. n |-> IF i = 0 THEN p ELSE Return(f[i - 1], vtx[i])]
               e == CHOOSE f : Run(f)
    <2>1. \A q, t : StepOf(d, q, t) = Return(q, t)
        BY Zenon DEF StepOf
    <2> HIDE DEF d
    <2>2. \A f : Run(f) <=> PoolRun(f, d, p, vtx, n)
        <3> HIDE DEF Return
        <3> QED BY Zenon, <2>1 DEF PoolRun
    <2>3. \E f : Run(f)
        BY Zenon, <2>2, PoolRunExists
    <2>4. Run(e)
        BY Zenon, <2>3
    <2>5. Resurrect(p, v, vtx, h, refused) = e[n]
        BY Zenon DEF Resurrect
    <2> HIDE DEF e, n, Run
    <2>6. MapsExact(e[n])
        BY <2>2, <2>4, RunKeepsMaps DEF n
    <2> QED BY Zenon, <2>5, <2>6
<1> QED BY <1>1, <1>2

LEMMA NextKeepsMaps ==
    ASSUME LedgerAssumption, LedgerInv, MapsExact(pool), [Next]_vars
    PROVE  MapsExact(pool')
<1>0. \A b \in BlockIds : Len(Block[b].vtx) \in Nat
    BY SeqFacts DEF LedgerAssumption
<1>1. ASSUME NEW t, AcceptToMemoryPool(t) PROVE MapsExact(pool')
    <2>1. /\ pool' = addUnchecked(pool, t)
          /\ Inputs(t) \cap DOMAIN pool.mapNextTx = {} /\ Nullifiers(t) \cap DOMAIN pool.mapNullifiers = {}
        BY Zenon, <1>1 DEF AcceptToMemoryPool, Acceptable
    <2> QED BY <2>1, AddKeepsMaps
<1>2. ASSUME NEW b \in network.mined, ConnectTip(b) PROVE MapsExact(pool')
    <2>1. b \in BlockIds
        BY DEF LedgerInv, LedgerAssumption, Network
    <2>2. pool' = removeForBlock(pool, Block[b].vtx) /\ Len(Block[b].vtx) \in Nat
        BY Zenon, <1>0, <1>2, <2>1 DEF ConnectTip
    <2> QED BY <2>2, LoopsKeepMaps
<1>3. ASSUME DisconnectTip PROVE MapsExact(pool')
    <2> DEFINE h == Len(chain) - 1
               after == TipUndone.view
               back(r) == Resurrect(pool, after, Block[Tip].vtx, h, r)
               kept(r) == IF view.best # after.best THEN removeWithAnchor(back(r), view.best) ELSE back(r)
    <2>1. PICK r : pool' = removeCoinbaseSpends(kept(r), after, h)
        BY Zenon, <1>3 DEF DisconnectTip
    <2>2. Len(Block[Tip].vtx) \in Nat
        <3>1. Len(chain) > 1
            BY Zenon, <1>3 DEF DisconnectTip, DisconnectTheTip
        <3>2. Top(chain) \in Nat /\ Len(chain) = Top(chain) + 1 /\ IsPath(chain)
            BY TopIsNat DEF LedgerInv, GoodChain
        <3>3. Top(chain) \in 1 .. Top(chain) /\ Tip = BlockAt(chain, Top(chain))
            BY <3>1, <3>2 DEF Tip, BlockAt
        <3> QED BY Zenon, <1>0, <3>2, <3>3 DEF IsPath
    <2> HIDE DEF h, after
    <2>3. MapsExact(back(r))
        BY <2>2, LoopsKeepMaps
    <2> HIDE DEF back
    <2>4. MapsExact(kept(r))
        BY Zenon, <2>3, RemovalsKeepMaps
    <2> HIDE DEF kept
    <2> QED BY <2>1, <2>4, RemovalsKeepMaps
<1>4. ASSUME UNCHANGED vars PROVE MapsExact(pool')
    BY <1>4 DEF vars
<1> QED BY Zenon, <1>1, <1>2, <1>3, <1>4 DEF Next

\* In the memory pool, mapNextTx and mapNullifiers say exactly which transaction spends what, so no
\* two of its transactions spend the same output or nullifier: addUnchecked and the removals of
\* ConnectTip and DisconnectTip keep the maps, whatever blocks come and go.
THEOREM PoolMapsAreExact ==
    ASSUME LedgerAssumption
    PROVE  Spec => []PoolMapsExact
<1> DEFINE Inv == LedgerInv /\ MapsExact(pool)
<1>1. Init => Inv
    <2>1. Init => LedgerInv
        BY LedgerInitInv DEF Init
    <2>2. Init => MapsExact(pool)
        BY DEF Init, MapsExact
    <2> QED BY <2>1, <2>2
<1>2. Inv /\ [Next]_vars => Inv'
    BY StepKeepsInv, NextKeepsMaps
<1>3. Inv => PoolMapsExact
    BY DEF MapsExact, PoolMapsExact, NamesUser
<1> QED BY <1>1, <1>2, <1>3, PTL DEF Spec

=============================================================================
