---------------------------- MODULE BlockProofs -----------------------------
(***************************************************************************)
(* What ConnectBlock and DisconnectBlock do to a chain state that is right *)
(* for the transactions so far (ViewOf), for any block: the loops of       *)
(* module Ledger in closed form.                                           *)
(***************************************************************************)
EXTENDS Ledger, WellFoundedInduction, TLAPS

-----------------------------------------------------------------------------
(* Numbers and loops.                                                      *)

LEMMA LeastNat ==
    ASSUME NEW T, T \subseteq Nat, T # {}
    PROVE  \E x \in T : \A y \in T : x <= y
<1> DEFINE R == OpToRel(<, Nat)
<1>1. IsWellFoundedOn(R, Nat)
    BY Zenon, NatLessThanWellFounded
<1>2. PICK x \in T : \A y \in T : ~(<<y, x>> \in R)
    BY Zenon, <1>1, WFMin
<1>3. \A y \in T : ~(y < x)
    BY Zenon, <1>2 DEF OpToRel
<1> QED BY <1>3

(* Two loops that begin alike and take the same steps are alike. *)
LEMMA SameUp ==
    ASSUME NEW n \in Nat, NEW f, NEW g, f[0] = g[0],
           \A j \in 1 .. n : f[j - 1] = g[j - 1] => f[j] = g[j]
    PROVE  \A j \in 0 .. n : f[j] = g[j]
<1> DEFINE T == {j \in 0 .. n : f[j] # g[j]}
<1> SUFFICES ASSUME T # {} PROVE FALSE
    OBVIOUS
<1>1. PICK j \in T : \A i \in T : j <= i
    <2>1. T \subseteq Nat
        OBVIOUS
    <2> HIDE DEF T
    <2> QED BY Zenon, <2>1, LeastNat
<1>2. j \in 1 .. n /\ j - 1 \notin T
    BY <1>1
<1> QED BY <1>2

LEMMA SameDown ==
    ASSUME NEW n \in Nat, NEW f, NEW g, f[n] = g[n],
           \A j \in 0 .. n - 1 : f[j + 1] = g[j + 1] => f[j] = g[j]
    PROVE  \A j \in 0 .. n : f[j] = g[j]
<1> DEFINE T == {i \in 0 .. n : f[n - i] # g[n - i]}
<1>1. ASSUME T # {} PROVE FALSE
    <2>1. PICK i \in T : \A k \in T : i <= k
        <3>1. T \subseteq Nat
            OBVIOUS
        <3> HIDE DEF T
        <3> QED BY Zenon, <1>1, <3>1, LeastNat
    <2>2. i # 0
        BY <2>1
    <2>3. i - 1 \in 0 .. n /\ i - 1 \notin T /\ n - i \in 0 .. n - 1 /\ (n - i) + 1 = n - (i - 1)
        BY <2>1, <2>2
    <2> QED BY <2>1, <2>3
<1>2. ASSUME NEW j \in 0 .. n PROVE f[j] = g[j]
    <2>1. n - j \in 0 .. n /\ n - (n - j) = j
        OBVIOUS
    <2>2. n - j \notin T
        BY <1>1
    <2> QED BY <2>1, <2>2
<1> QED BY <1>2

(* What holds at first and is kept by every step holds. *)
LEMMA HoldsUp ==
    ASSUME NEW n \in Nat, NEW P, 0 \in P, \A j \in 1 .. n : j - 1 \in P => j \in P
    PROVE  \A j \in 0 .. n : j \in P
<1> DEFINE T == {j \in 0 .. n : j \notin P}
<1> SUFFICES ASSUME T # {} PROVE FALSE
    OBVIOUS
<1>1. PICK j \in T : \A i \in T : j <= i
    <2>1. T \subseteq Nat
        OBVIOUS
    <2> HIDE DEF T
    <2> QED BY Zenon, <2>1, LeastNat
<1>2. j \in 1 .. n /\ j - 1 \notin T
    BY <1>1
<1> QED BY <1>2

(* Appending to a sequence that is given as a function. *)
LEMMA AppendForm ==
    ASSUME NEW n \in Nat, NEW f, f = [i \in 1 .. n + 1 |-> f[i]]
    PROVE  Append([i \in 1 .. n |-> f[i]], f[n + 1]) = f
<1> DEFINE T == {f[i] : i \in 1 .. n + 1}
           s == [i \in 1 .. n |-> f[i]]
<1>1. s \in Seq(T) /\ Len(s) = n
    <2>1. n \in Nat /\ DOMAIN s = 1 .. n /\ s = [i \in 1 .. n |-> s[i]] /\ \A i \in 1 .. n : s[i] \in T
        OBVIOUS
    <2> HIDE DEF s, T
    <2>2. s \in [1 .. n -> T]
        BY <2>1
    <2> QED BY <2>1, <2>2
<1>2. f[n + 1] \in T
    OBVIOUS
<1> HIDE DEF T
<1>3. Append(s, f[n + 1]) = [i \in 1 .. n + 1 |-> IF i = n + 1 THEN f[n + 1] ELSE s[i]]
    BY <1>1, <1>2
<1> QED BY <1>3

-----------------------------------------------------------------------------
(* Sequences.                                                              *)

LEMMA SeqFacts ==
    ASSUME NEW S, NEW s \in Seq(S)
    PROVE  Len(s) \in Nat /\ DOMAIN s = 1 .. Len(s) /\ (s = <<>> <=> Len(s) = 0)
OBVIOUS

LEMMA SeqsEqual ==
    ASSUME NEW S, NEW s \in Seq(S), NEW t \in Seq(S), Len(s) = Len(t), \A i \in 1 .. Len(s) : s[i] = t[i]
    PROVE  s = t
OBVIOUS

LEMMA ConcatFacts ==
    ASSUME NEW S, NEW s \in Seq(S), NEW t \in Seq(S)
    PROVE  s \o t \in Seq(S) /\ Len(s \o t) = Len(s) + Len(t) /\ s \o <<>> = s
OBVIOUS

LEMMA ConcatAssoc ==
    ASSUME NEW S, NEW s \in Seq(S), NEW t \in Seq(S), NEW u \in Seq(S)
    PROVE  (s \o t) \o u = s \o (t \o u)
OBVIOUS

LEMMA AppendFacts ==
    ASSUME NEW S, NEW s \in Seq(S), NEW e \in S
    PROVE  /\ Append(s, e) \in Seq(S) /\ Len(Append(s, e)) = Len(s) + 1
           /\ (\A i \in 1 .. Len(s) : Append(s, e)[i] = s[i]) /\ Append(s, e)[Len(s) + 1] = e
OBVIOUS

LEMMA FrontFacts ==
    ASSUME NEW S, NEW s \in Seq(S), NEW n \in 0 .. Len(s)
    PROVE  /\ SubSeq(s, 1, n) \in Seq(S) /\ Len(SubSeq(s, 1, n)) = n
           /\ \A i \in 1 .. n : SubSeq(s, 1, n)[i] = s[i]
<1>1. SubSeq(s, 1, n) = [i \in 1 .. n |-> s[i]]
    OBVIOUS
<1>2. \A i \in 1 .. n : s[i] \in S
    OBVIOUS
<1> QED BY <1>1, <1>2

-----------------------------------------------------------------------------
(* Concatenation, one sequence after the other.                            *)

Flat(F, n) == Concatenation([i \in 1 .. n |-> F[i]])
FlatRun(g, F, n) == g = [i \in 0 .. n |-> IF i = 0 THEN <<>> ELSE g[i - 1] \o F[i]]

LEMMA FlatRunExists ==
    ASSUME NEW F, NEW n \in Nat
    PROVE  \E g : FlatRun(g, F, n)
<1> DEFINE T == {m \in Nat : ~\E g : FlatRun(g, F, m)}
<1> SUFFICES ASSUME T # {} PROVE FALSE
    OBVIOUS
<1>1. PICK m \in T : \A i \in T : m <= i
    <2>1. T \subseteq Nat
        OBVIOUS
    <2> HIDE DEF T
    <2> QED BY Zenon, <2>1, LeastNat
<1>2. m # 0
    <2>1. FlatRun([i \in 0 .. 0 |-> <<>>], F, 0)
        BY DEF FlatRun
    <2> QED BY <1>1, <2>1
<1>3. m - 1 \in Nat /\ m - 1 \notin T
    BY <1>1, <1>2
<1>4. PICK g : FlatRun(g, F, m - 1)
    BY <1>3
<1> DEFINE e == [i \in 0 .. m |-> IF i < m THEN g[i] ELSE g[i - 1] \o F[i]]
<1>5. ASSUME NEW i \in 0 .. m PROVE e[i] = IF i = 0 THEN <<>> ELSE e[i - 1] \o F[i]
    <2>1. CASE i = m
        <3>1. e[i - 1] = g[i - 1]
            BY <1>3, <2>1
        <3>2. e[i] = g[i - 1] \o F[i] /\ i # 0
            <4>1. m \in 0 .. m /\ ~(m < m)
                BY <1>1
            <4> QED BY Zenon, <1>2, <2>1, <4>1
        <3> HIDE DEF e
        <3> QED BY Zenon, <3>1, <3>2
    <2>2. CASE i < m
        <3>1. e[i] = g[i] /\ (i # 0 => e[i - 1] = g[i - 1])
            BY <2>2
        <3>2. g[i] = IF i = 0 THEN <<>> ELSE g[i - 1] \o F[i]
            <4>1. i \in 0 .. m - 1
                BY <1>3, <2>2
            <4> QED BY Zenon, <1>4, <4>1 DEF FlatRun
        <3> HIDE DEF e
        <3> QED BY <3>1, <3>2
    <2> QED BY <1>1, <2>1, <2>2
<1>6. FlatRun(e, F, m)
    <2>1. e = [i \in 0 .. m |-> e[i]]
        OBVIOUS
    <2> HIDE DEF e
    <2> QED BY Zenon, <1>5, <2>1 DEF FlatRun
<1> QED BY <1>1, <1>6

LEMMA FlatIsRun ==
    ASSUME NEW F, NEW n \in Nat, NEW m \in 0 .. n, NEW g, FlatRun(g, F, n)
    PROVE  Flat(F, m) = g[m]
<1> DEFINE s == [i \in 1 .. m |-> F[i]]
           Run(f) == f = [i \in 0 .. Len(s) |-> IF i = 0 THEN <<>> ELSE f[i - 1] \o s[i]]
<1>1. Len(s) = m /\ \A i \in 1 .. m : s[i] = F[i]
    OBVIOUS
<1>2. PICK f : FlatRun(f, F, m)
    BY FlatRunExists
<1> HIDE DEF s
<1>3. Run(f)
    <2>1. f = [i \in 0 .. m |-> f[i]]
        BY <1>2 DEF FlatRun
    <2>2. ASSUME NEW i \in 0 .. m PROVE f[i] = IF i = 0 THEN <<>> ELSE f[i - 1] \o s[i]
        <3>1. f[i] = IF i = 0 THEN <<>> ELSE f[i - 1] \o F[i]
            BY Zenon, <1>2 DEF FlatRun
        <3>2. i # 0 => s[i] = F[i]
            BY <1>1
        <3> QED BY Zenon, <3>1, <3>2
    <2> QED BY Zenon, <1>1, <2>1, <2>2
<1> DEFINE e == CHOOSE f_1 : Run(f_1)
<1>4. Run(e)
    BY Zenon, <1>3
<1>5. Flat(F, m) = e[Len(s)]
    BY Zenon DEF Flat, Concatenation, s
<1> HIDE DEF e
<1>6. /\ e[0] = g[0]
      /\ \A i \in 1 .. m : e[i - 1] = g[i - 1] => e[i] = g[i]
    <2>1. \A i \in 0 .. m : e[i] = IF i = 0 THEN <<>> ELSE e[i - 1] \o s[i]
        BY <1>1, <1>4
    <2>2. \A i \in 0 .. n : g[i] = IF i = 0 THEN <<>> ELSE g[i - 1] \o F[i]
        BY Zenon DEF FlatRun
    <2>3. \A i \in 1 .. m : i \in 0 .. m /\ i \in 0 .. n /\ i # 0
        OBVIOUS
    <2> QED BY <1>1, <2>1, <2>2, <2>3
<1>7. \A i \in 0 .. m : e[i] = g[i]
    BY <1>6, SameUp
<1> QED BY <1>1, <1>5, <1>7

LEMMA FlatFacts ==
    ASSUME NEW F, NEW X, NEW n \in Nat, \A i \in 1 .. n : F[i] \in Seq(X)
    PROVE  /\ Flat(F, 0) = <<>>
           /\ \A m \in 0 .. n : Flat(F, m) \in Seq(X)
           /\ \A m \in 1 .. n : Flat(F, m) = Flat(F, m - 1) \o F[m]
<1>2. PICK g : FlatRun(g, F, n)
    BY Zenon, FlatRunExists
<1>3. \A m \in 0 .. n : Flat(F, m) = g[m]
    BY <1>2, FlatIsRun
<1>4. \A m \in 0 .. n : g[m] = IF m = 0 THEN <<>> ELSE g[m - 1] \o F[m]
    BY Zenon, <1>2 DEF FlatRun
<1>1. Flat(F, 0) = <<>>
    BY <1>3, <1>4
<1>5. ASSUME NEW m \in 1 .. n PROVE Flat(F, m) = Flat(F, m - 1) \o F[m]
    <2>1. m \in 0 .. n /\ m - 1 \in 0 .. n /\ m # 0
        OBVIOUS
    <2> QED BY Zenon, <1>3, <1>4, <2>1
<1>6. \A m \in 0 .. n : Flat(F, m) \in Seq(X)
    <2> DEFINE P == {m \in 0 .. n : Flat(F, m) \in Seq(X)}
    <2>1. 0 \in P
        <3>1. <<>> \in Seq(X) /\ 0 \in 0 .. n
            OBVIOUS
        <3>2. Flat(F, 0) \in Seq(X)
            BY Zenon, <1>1, <3>1
        <3> QED BY <3>1, <3>2
    <2>2. ASSUME NEW m \in 1 .. n, m - 1 \in P PROVE m \in P
        <3>1. Flat(F, m - 1) \in Seq(X) /\ F[m] \in Seq(X)
            BY <2>2
        <3>2. Flat(F, m - 1) \o F[m] \in Seq(X)
            BY <3>1, ConcatFacts
        <3>3. Flat(F, m) \in Seq(X)
            BY Zenon, <1>5, <3>2
        <3> QED BY <3>3
    <2> HIDE DEF P
    <2>3. \A m \in 0 .. n : m \in P
        BY Zenon, <2>1, <2>2, HoldsUp
    <2> QED BY <2>3 DEF P
<1> QED BY Zenon, <1>1, <1>5, <1>6

-----------------------------------------------------------------------------
(* The unspent outputs when the transactions of C exist, the outputs of S  *)
(* are spent, and H is the height of each transaction.                     *)

Outs == [hash : TxIds, n : Nat]
Hash(out) == out.hash
Index(out) == out.n
Left(t, C, S) == {n \in DOMAIN Tx[t].vout : t \in C /\ [hash |-> t, n |-> n] \notin S}
Entry(t, C, S, H) ==
    IF Left(t, C, S) = {} THEN Pruned
    ELSE [vout |-> [n \in Left(t, C, S) |-> Tx[t].vout[n]], nHeight |-> H[t], fCoinBase |-> Tx[t].coinbase]
CoinsOf(C, S, H) == [t \in TxIds |-> Entry(t, C, S, H)]

(* What an entry says. *)
LEMMA EntryFields ==
    ASSUME NEW t, NEW C, NEW S, NEW H
    PROVE  /\ DOMAIN Entry(t, C, S, H).vout = Left(t, C, S)
           /\ IsPruned(Entry(t, C, S, H)) <=> Left(t, C, S) = {}
           /\ Left(t, C, S) # {} =>
                 /\ Entry(t, C, S, H).nHeight = H[t] /\ Entry(t, C, S, H).fCoinBase = Tx[t].coinbase
                 /\ Entry(t, C, S, H).vout = [n \in Left(t, C, S) |-> Tx[t].vout[n]]
<1>1. CASE Left(t, C, S) = {}
    BY <1>1 DEF Entry, Pruned, IsPruned
<1>2. CASE Left(t, C, S) # {}
    BY <1>2 DEF Entry, IsPruned
<1> QED BY <1>1, <1>2

LEMMA Available ==
    ASSUME NEW C, NEW S, NEW H, NEW out \in Outs
    PROVE  IsAvailable(CoinsOf(C, S, H), out) <=> Index(out) \in Left(Hash(out), C, S)
<1>1. Hash(out) \in TxIds
    BY DEF Outs, Hash
<1>2. CoinsOf(C, S, H)[Hash(out)] = Entry(Hash(out), C, S, H)
    BY <1>1 DEF CoinsOf
<1>3. DOMAIN Entry(Hash(out), C, S, H).vout = Left(Hash(out), C, S)
    BY Zenon, EntryFields
<1> QED BY <1>2, <1>3 DEF IsAvailable, Hash, Index

Plus(S, out) == S \cup {out}

(* Spending an output takes it from what is left of its transaction. *)
LEMMA LeftSpent ==
    ASSUME NEW C, NEW S, NEW out \in Outs
    PROVE  Left(Hash(out), C, Plus(S, out)) = Left(Hash(out), C, S) \ {Index(out)}
<1>1. \A n : [hash |-> Hash(out), n |-> n] = out <=> n = Index(out)
    BY DEF Outs, Hash, Index
<1> QED BY <1>1 DEF Left, Plus

LEMMA LeftOther ==
    ASSUME NEW C, NEW S, NEW out \in Outs, NEW t, t # Hash(out)
    PROVE  Left(t, C, Plus(S, out)) = Left(t, C, S)
<1>1. \A n : [hash |-> t, n |-> n] # out
    BY DEF Outs, Hash
<1> QED BY <1>1 DEF Left, Plus

UndoOf(out, C, S, H) ==
    LET last == Left(Hash(out), C, Plus(S, out)) = {}
    IN  [txout |-> Tx[Hash(out)].vout[Index(out)], nHeight |-> IF last THEN H[Hash(out)] ELSE 0,
         fCoinBase |-> last /\ Tx[Hash(out)].coinbase]

LEMMA SpendEntry ==
    ASSUME NEW C, NEW S, NEW H, NEW out \in Outs, Index(out) \in Left(Hash(out), C, S)
    PROVE  Spend(Entry(Hash(out), C, S, H), Index(out)) = Entry(Hash(out), C, Plus(S, out), H)
<1> DEFINE t == Hash(out)
           L == Left(t, C, S)
           M == Left(t, C, Plus(S, out))
           c == Entry(t, C, S, H)
<1>1. M = L \ {Index(out)}
    BY LeftSpent
<1>2. L # {}
    OBVIOUS
<1>3. c = [vout |-> [n \in L |-> Tx[t].vout[n]], nHeight |-> H[t], fCoinBase |-> Tx[t].coinbase]
    BY <1>2 DEF Entry
<1>4. Entry(t, C, Plus(S, out), H)
        = IF M = {} THEN Pruned
          ELSE [vout |-> [n \in M |-> Tx[t].vout[n]], nHeight |-> H[t], fCoinBase |-> Tx[t].coinbase]
    BY DEF Entry
<1>5. Spend(c, Index(out)) = LET left == DOMAIN c.vout \ {Index(out)}
                        IN  IF left = {} THEN Pruned ELSE [c EXCEPT !.vout = [m \in left |-> c.vout[m]]]
    BY DEF Spend
<1> HIDE DEF L, M, c, t
<1>6. DOMAIN c.vout \ {Index(out)} = M
    BY <1>1, <1>3
<1>7. [m \in M |-> c.vout[m]] = [m \in M |-> Tx[t].vout[m]]
    BY <1>1, <1>3
<1>8. [c EXCEPT !.vout = [m \in M |-> Tx[t].vout[m]]]
        = [vout |-> [n \in M |-> Tx[t].vout[n]], nHeight |-> H[t], fCoinBase |-> Tx[t].coinbase]
    BY <1>3
<1>9. Spend(c, Index(out)) = IF M = {} THEN Pruned ELSE [c EXCEPT !.vout = [m \in M |-> Tx[t].vout[m]]]
    BY <1>5, <1>6, <1>7
<1> QED BY <1>4, <1>8, <1>9 DEF t, c

LEMMA OutFields ==
    ASSUME NEW out \in Outs
    PROVE  Hash(out) \in TxIds /\ Index(out) \in Nat /\ out.hash = Hash(out) /\ out.n = Index(out)
BY DEF Outs, Hash, Index

LEMMA CoinsAt ==
    ASSUME NEW C, NEW S, NEW H, NEW t \in TxIds
    PROVE  CoinsOf(C, S, H)[t] = Entry(t, C, S, H)
BY DEF CoinsOf

(* Only the entry of its transaction changes when an output is spent. *)
LEMMA CoinsSpent ==
    ASSUME NEW C, NEW S, NEW H, NEW out \in Outs
    PROVE  /\ [CoinsOf(C, S, H) EXCEPT ![Hash(out)] = Entry(Hash(out), C, Plus(S, out), H)] = CoinsOf(C, Plus(S, out), H)
           /\ [CoinsOf(C, Plus(S, out), H) EXCEPT ![Hash(out)] = Entry(Hash(out), C, S, H)] = CoinsOf(C, S, H)
<1>1. \A t : t # Hash(out) => Entry(t, C, Plus(S, out), H) = Entry(t, C, S, H)
    <2> TAKE t
    <2> HAVE t # Hash(out)
    <2>1. Left(t, C, Plus(S, out)) = Left(t, C, S)
        BY LeftOther
    <2> QED BY <2>1 DEF Entry
<1>2. Hash(out) \in TxIds
    BY OutFields
<1> QED BY Zenon, <1>1, <1>2 DEF CoinsOf

(* SpendInput on the unspent outputs of C and S. *)
LEMMA SpendOne ==
    ASSUME NEW C, NEW S, NEW H, NEW out \in Outs, Index(out) \in Left(Hash(out), C, S), NEW s
    PROVE  SpendInput([coins |-> CoinsOf(C, S, H), vprevout |-> s], out)
             = [coins |-> CoinsOf(C, Plus(S, out), H), vprevout |-> Append(s, UndoOf(out, C, S, H))]
<1> DEFINE t == Hash(out)
           c == Entry(t, C, S, H)
           e == Entry(t, C, Plus(S, out), H)
           u == [txout |-> c.vout[Index(out)], nHeight |-> IF IsPruned(e) THEN c.nHeight ELSE 0,
                 fCoinBase |-> IsPruned(e) /\ c.fCoinBase]
<1>1. Spend(c, Index(out)) = e
    BY SpendEntry
<1>2. [CoinsOf(C, S, H) EXCEPT ![t] = e] = CoinsOf(C, Plus(S, out), H)
    BY CoinsSpent
<1>3. CoinsOf(C, S, H)[t] = c /\ out.hash = t /\ out.n = Index(out)
    BY CoinsAt, OutFields
<1>4. u = UndoOf(out, C, S, H)
    <2>1. c.vout[Index(out)] = Tx[t].vout[Index(out)] /\ c.nHeight = H[t] /\ c.fCoinBase = Tx[t].coinbase
        <3>1. Left(t, C, S) # {}
            OBVIOUS
        <3>2. /\ c.nHeight = H[t] /\ c.fCoinBase = Tx[t].coinbase
              /\ c.vout = [n \in Left(t, C, S) |-> Tx[t].vout[n]]
            BY <3>1, EntryFields
        <3> QED BY <3>2
    <2>2. IsPruned(e) <=> Left(t, C, Plus(S, out)) = {}
        BY Zenon, EntryFields
    <2> HIDE DEF c, e, t
    <2>3. UndoOf(out, C, S, H)
            = [txout |-> Tx[t].vout[Index(out)], nHeight |-> IF Left(t, C, Plus(S, out)) = {} THEN H[t] ELSE 0,
               fCoinBase |-> Left(t, C, Plus(S, out)) = {} /\ Tx[t].coinbase]
        BY DEF UndoOf, t
    <2> HIDE DEF IsPruned
    <2> QED BY <2>1, <2>2, <2>3
<1>5. SpendInput([coins |-> CoinsOf(C, S, H), vprevout |-> s], out)
        = [coins |-> [CoinsOf(C, S, H) EXCEPT ![t] = Spend(c, Index(out))],
           vprevout |-> Append(s, [txout |-> c.vout[Index(out)],
                                   nHeight |-> IF IsPruned(Spend(c, Index(out))) THEN c.nHeight ELSE 0,
                                   fCoinBase |-> IsPruned(Spend(c, Index(out))) /\ c.fCoinBase])]
    <2> DEFINE K == CoinsOf(C, S, H)
    <2>1. K[out.hash] = c /\ out.hash = t /\ out.n = Index(out)
        BY <1>3
    <2> HIDE DEF c, t, K
    <2> QED BY Zenon, <2>1 DEF SpendInput, K
<1> QED BY Zenon, <1>1, <1>2, <1>4, <1>5

(* ApplyTxInUndo takes it back, and finds nothing wrong. *)
LEMMA RestoreOne ==
    ASSUME NEW C, NEW S, NEW H, NEW out \in Outs, Index(out) \in Left(Hash(out), C, S),
           H[Hash(out)] \in Nat \ {0}, Tx[Hash(out)].coinbase \in BOOLEAN
    PROVE  ApplyTxInUndo([coins |-> CoinsOf(C, Plus(S, out), H), clean |-> TRUE], out, UndoOf(out, C, S, H))
             = [coins |-> CoinsOf(C, S, H), clean |-> TRUE]
<1> DEFINE t == Hash(out)
           i == Index(out)
           L == Left(t, C, S)
           M == Left(t, C, Plus(S, out))
           u == UndoOf(out, C, S, H)
           c == Entry(t, C, Plus(S, out), H)
           e == Entry(t, C, S, H)
           K == CoinsOf(C, Plus(S, out), H)
           base == IF u.nHeight # 0
                   THEN [vout |-> <<>>, nHeight |-> u.nHeight, fCoinBase |-> u.fCoinBase] ELSE c
           vout == [n \in DOMAIN base.vout \cup {i} |-> IF n = i THEN u.txout ELSE base.vout[n]]
           full == [vout |-> [n \in L |-> Tx[t].vout[n]], nHeight |-> H[t], fCoinBase |-> Tx[t].coinbase]
<1>1. M = L \ {i} /\ i \in L
    BY LeftSpent
<1>2. K[t] = c /\ out.hash = t /\ out.n = i /\ t \in TxIds
    BY CoinsAt, OutFields
<1>3. /\ u.txout = Tx[t].vout[i]
      /\ u.nHeight # 0 <=> M = {}
      /\ M = {} => u.nHeight = H[t] /\ u.fCoinBase = Tx[t].coinbase
    <2> HIDE DEF M
    <2>1. u = [txout |-> Tx[t].vout[i], nHeight |-> IF M = {} THEN H[t] ELSE 0,
               fCoinBase |-> M = {} /\ Tx[t].coinbase]
        BY DEF UndoOf, M
    <2>2. u.txout = Tx[t].vout[i] /\ (u.nHeight # 0 <=> M = {}) /\ (M = {} => u.nHeight = H[t])
        <3> HIDE DEF u, t, i
        <3> QED BY <2>1 DEF t
    <2>3. M = {} => u.fCoinBase = Tx[t].coinbase
        <3>1. u.fCoinBase = (M = {} /\ Tx[t].coinbase)
            BY <2>1
        <3> QED BY <3>1
    <2> QED BY <2>2, <2>3
<1>4. e = full
    BY <1>1 DEF Entry
<1>5. M # {} => c = [vout |-> [n \in M |-> Tx[t].vout[n]], nHeight |-> H[t], fCoinBase |-> Tx[t].coinbase]
    BY DEF Entry
<1>6. (IsPruned(c) <=> M = {}) /\ ~IsAvailable(K, out)
    <2>1. i \notin M
        BY <1>1
    <2>2. IsAvailable(K, out) <=> i \in M
        BY Available
    <2>3. IsPruned(c) <=> M = {}
        BY Zenon, EntryFields
    <2> QED BY <2>1, <2>2, <2>3
<1>7. [K EXCEPT ![t] = e] = CoinsOf(C, S, H)
    BY CoinsSpent
<1>8. ApplyTxInUndo([coins |-> K, clean |-> TRUE], out, u)
        = [coins |-> [K EXCEPT ![t] = [base EXCEPT !.vout = vout]],
           clean |-> TRUE /\ (IsPruned(c) <=> u.nHeight # 0) /\ (~IsAvailable(K, out) \/ u.nHeight # 0)]
    <2> HIDE DEF c, t, i, K, u
    <2> QED BY Zenon, <1>2 DEF ApplyTxInUndo
<1> HIDE DEF u, c, e, L, M, t, i, K
<1>9. [base EXCEPT !.vout = vout] = full
    <2>1. CASE M = {}
        <3>1. base = [vout |-> <<>>, nHeight |-> H[t], fCoinBase |-> Tx[t].coinbase]
            BY <1>3, <2>1
        <3>2. L = {i} /\ DOMAIN base.vout = {}
            BY <1>1, <2>1, <3>1
        <3>3. vout = [n \in L |-> Tx[t].vout[n]]
            BY <1>3, <3>2
        <3> HIDE DEF vout, base
        <3> QED BY <3>1, <3>3
    <2>2. CASE M # {}
        <3>1. base = [vout |-> [n \in M |-> Tx[t].vout[n]], nHeight |-> H[t], fCoinBase |-> Tx[t].coinbase]
            <4>1. u.nHeight = 0 /\ base = c
                BY <1>3, <2>2
            <4> QED BY Zenon, <1>5, <2>2, <4>1
        <3>2. DOMAIN base.vout \cup {i} = L /\ \A n \in M : base.vout[n] = Tx[t].vout[n]
            <4> HIDE DEF base
            <4> QED BY <1>1, <3>1
        <3>3. vout = [n \in L |-> Tx[t].vout[n]]
            <4> HIDE DEF base
            <4> QED BY <1>1, <1>3, <3>2
        <3> HIDE DEF vout, base
        <3> QED BY <3>1, <3>3
    <2> QED BY <2>1, <2>2
<1>10. (TRUE /\ (IsPruned(c) <=> u.nHeight # 0) /\ (~IsAvailable(K, out) \/ u.nHeight # 0)) = TRUE
    BY <1>3, <1>6
<1> HIDE DEF base, vout, full
<1>11. ApplyTxInUndo([coins |-> K, clean |-> TRUE], out, u) = [coins |-> [K EXCEPT ![t] = e], clean |-> TRUE]
    BY Zenon, <1>4, <1>8, <1>9, <1>10
<1> QED BY Zenon, <1>7, <1>11 DEF K, u

-----------------------------------------------------------------------------
(* One transaction.                                                        *)

(* Its inputs, the first j of them, and the undo entries of all of them. *)
NIns(t)  == Len(Tx[t].vin)
In(t, k) == Tx[t].vin[k]
VinsTo(t, j) == {In(t, k) : k \in 1 .. j}
SpentTo(t, j, S) == S \cup VinsTo(t, j)
UndoTx(t, C, S, H) == [k \in 1 .. NIns(t) |-> UndoOf(In(t, k), C, SpentTo(t, k - 1, S), H)]

LEMMA VinsFacts ==
    ASSUME LedgerAssumption, NEW t \in TxIds
    PROVE  /\ NIns(t) \in Nat /\ DOMAIN Tx[t].vin = 1 .. NIns(t)
           /\ \A j \in 1 .. NIns(t) : In(t, j) \in Outs /\ In(t, j) \in Inputs(t)
           /\ \A j, k \in 1 .. NIns(t) : In(t, j) = In(t, k) => j = k
<1>1. Tx[t].vin \in Seq(Outs) /\ \A i, j \in DOMAIN Tx[t].vin : Tx[t].vin[i] = Tx[t].vin[j] => i = j
    BY Zenon DEF LedgerAssumption, Outs
<1> QED BY <1>1 DEF Inputs, Range, NIns, In

(* The inputs one by one. *)
LEMMA VinsStep ==
    ASSUME LedgerAssumption, NEW t \in TxIds, NEW S
    PROVE  /\ SpentTo(t, 0, S) = S
           /\ SpentTo(t, NIns(t), S) = S \cup Inputs(t)
           /\ \A j \in 1 .. NIns(t) :
                 /\ SpentTo(t, j, S) = Plus(SpentTo(t, j - 1, S), In(t, j))
                 /\ In(t, j) \notin VinsTo(t, j - 1)
<1>1. /\ NIns(t) \in Nat /\ DOMAIN Tx[t].vin = 1 .. NIns(t)
      /\ \A j, k \in 1 .. NIns(t) : In(t, j) = In(t, k) => j = k
    BY VinsFacts
<1>2. \A j : VinsTo(t, j) = {In(t, k) : k \in 1 .. j}
    BY DEF VinsTo, In
<1>3. Inputs(t) = {In(t, k) : k \in 1 .. NIns(t)}
    BY <1>1 DEF Inputs, Range, In
<1>4. ASSUME NEW j \in 1 .. NIns(t)
      PROVE  VinsTo(t, j) = VinsTo(t, j - 1) \cup {In(t, j)} /\ In(t, j) \notin VinsTo(t, j - 1)
    BY <1>1, <1>2
<1>5. VinsTo(t, 0) = {} /\ VinsTo(t, NIns(t)) = Inputs(t)
    BY <1>2, <1>3
<1>6. ASSUME NEW j \in 1 .. NIns(t) PROVE SpentTo(t, j, S) = Plus(SpentTo(t, j - 1, S), In(t, j))
    BY <1>4 DEF Plus, SpentTo
<1>7. SpentTo(t, 0, S) = S /\ SpentTo(t, NIns(t), S) = S \cup Inputs(t)
    BY <1>5 DEF SpentTo
<1> QED BY <1>4, <1>6, <1>7

(* All the inputs of t can be spent when the transactions of C exist and S is spent. *)
Spendable(t, C, S) == \A out \in Inputs(t) : Index(out) \in Left(Hash(out), C, S)

(* What is left of a transaction has an output as long as that is not spent. *)
LEMMA StillLeft ==
    ASSUME NEW C, NEW S, NEW R, NEW out \in Outs, Index(out) \in Left(Hash(out), C, S), out \notin R
    PROVE  Index(out) \in Left(Hash(out), C, S \cup R)
BY DEF Left, Outs, Hash, Index

LEMMA LeftWhenReached ==
    ASSUME LedgerAssumption, NEW t \in TxIds, NEW C, NEW S, Spendable(t, C, S), NEW j \in 1 .. NIns(t)
    PROVE  /\ In(t, j) \in Outs
           /\ Index(In(t, j)) \in Left(Hash(In(t, j)), C, SpentTo(t, j - 1, S))
<1>1. In(t, j) \in Outs /\ In(t, j) \in Inputs(t)
    BY VinsFacts
<1>2. In(t, j) \notin VinsTo(t, j - 1)
    BY VinsStep
<1> QED BY <1>1, <1>2, StillLeft DEF Spendable, SpentTo

(* The loop of UpdateCoins over the inputs. *)
LEMMA SpendInputsForm ==
    ASSUME LedgerAssumption, NEW t \in TxIds, NEW C, NEW S, NEW H, Spendable(t, C, S)
    PROVE  SpendInputs(CoinsOf(C, S, H), Tx[t].vin)[NIns(t)]
             = [coins |-> CoinsOf(C, S \cup Inputs(t), H), vprevout |-> UndoTx(t, C, S, H)]
<1> DEFINE n == NIns(t)
           U == UndoTx(t, C, S, H)
           g == [j \in 0 .. n |-> [coins |-> CoinsOf(C, SpentTo(t, j, S), H), vprevout |-> [k \in 1 .. j |-> U[k]]]]
           first == [coins |-> CoinsOf(C, S, H), vprevout |-> <<>>]
           f == SpendInputs(CoinsOf(C, S, H), Tx[t].vin)
<1>1. n \in Nat
    BY VinsFacts
<1>2. SpentTo(t, 0, S) = S /\ SpentTo(t, n, S) = S \cup Inputs(t)
    BY VinsStep
<1>3. g[0] = first
    <2>1. [k \in 1 .. 0 |-> U[k]] = <<>>
        OBVIOUS
    <2> QED BY <1>1, <1>2, <2>1
<1>4. ASSUME NEW j \in 1 .. n PROVE g[j] = SpendInput(g[j - 1], In(t, j))
    <2>1. In(t, j) \in Outs /\ Index(In(t, j)) \in Left(Hash(In(t, j)), C, SpentTo(t, j - 1, S))
        BY LeftWhenReached
    <2>2. SpentTo(t, j, S) = Plus(SpentTo(t, j - 1, S), In(t, j))
        BY VinsStep
    <2>3. U[j] = UndoOf(In(t, j), C, SpentTo(t, j - 1, S), H)
        BY DEF UndoTx
    <2>4. j - 1 \in 0 .. n /\ j \in 0 .. n /\ j - 1 \in Nat /\ (j - 1) + 1 = j
        BY <1>1
    <2> HIDE DEF U, n
    <2>5. Append([k \in 1 .. j - 1 |-> U[k]], U[j]) = [k \in 1 .. j |-> U[k]]
        <3> DEFINE h == [k \in 1 .. j |-> U[k]]
                   m == j - 1
        <3>1. m \in Nat /\ m + 1 = j /\ h = [k \in 1 .. m + 1 |-> h[k]]
            BY <2>4
        <3>2. [k \in 1 .. m |-> h[k]] = [k \in 1 .. m |-> U[k]] /\ h[m + 1] = U[j]
            BY <2>4
        <3> HIDE DEF h, m
        <3>3. Append([k \in 1 .. m |-> h[k]], h[m + 1]) = h
            BY <3>1, AppendForm
        <3> QED BY <3>2, <3>3 DEF h, m
    <2>6. SpendInput([coins |-> CoinsOf(C, SpentTo(t, j - 1, S), H), vprevout |-> [k \in 1 .. j - 1 |-> U[k]]], In(t, j))
            = [coins |-> CoinsOf(C, Plus(SpentTo(t, j - 1, S), In(t, j)), H),
               vprevout |-> Append([k \in 1 .. j - 1 |-> U[k]], UndoOf(In(t, j), C, SpentTo(t, j - 1, S), H))]
        BY Zenon, <2>1, SpendOne
    <2>7. /\ g[j - 1] = [coins |-> CoinsOf(C, SpentTo(t, j - 1, S), H), vprevout |-> [k \in 1 .. j - 1 |-> U[k]]]
          /\ g[j] = [coins |-> CoinsOf(C, SpentTo(t, j, S), H), vprevout |-> [k \in 1 .. j |-> U[k]]]
        BY <2>4
    <2> HIDE DEF g
    <2> QED BY <2>2, <2>3, <2>5, <2>6, <2>7
<1>5. g = [j \in 0 .. n |-> IF j = 0 THEN first ELSE SpendInput(g[j - 1], In(t, j))]
    <2>1. g = [j \in 0 .. n |-> g[j]]
        OBVIOUS
    <2> HIDE DEF g, first, n
    <2>2. ASSUME NEW j \in 0 .. n PROVE g[j] = IF j = 0 THEN first ELSE SpendInput(g[j - 1], In(t, j))
        <3>1. j = 0 \/ j \in 1 .. n
            BY <1>1
        <3> QED BY <1>1, <1>3, <1>4, <3>1
    <2> QED BY Zenon, <2>1, <2>2
<1>6. f = [j \in 0 .. n |-> IF j = 0 THEN first ELSE SpendInput(f[j - 1], In(t, j))]
    <2> HIDE DEF g
    <2> QED BY Zenon, <1>5 DEF SpendInputs, In, NIns
<1>7. f[n] = g[n]
    <2> HIDE DEF g, f, n, first
    <2>1. f[0] = first /\ \A j \in 1 .. n : f[j] = SpendInput(f[j - 1], In(t, j))
        BY <1>1, <1>6
    <2>2. \A j \in 1 .. n : f[j - 1] = g[j - 1] => f[j] = g[j]
        BY <1>4, <2>1
    <2>3. \A j \in 0 .. n : f[j] = g[j]
        BY SMTT(60), <1>1, <1>3, <2>1, <2>2, SameUp
    <2> QED BY <1>1, <2>3
<1>8. g[n] = [coins |-> CoinsOf(C, SpentTo(t, n, S), H), vprevout |-> [k \in 1 .. n |-> U[k]]]
    BY <1>1
<1>9. U = [k \in 1 .. n |-> U[k]]
    BY DEF UndoTx
<1> HIDE DEF f, g, U, n
<1> QED BY Zenon, <1>2, <1>7, <1>8, <1>9 DEF f, U, n

(* The loop of DisconnectBlock over the inputs takes it back. *)
LEMMA RestoreInputsForm ==
    ASSUME LedgerAssumption, NEW t \in TxIds, NEW C, NEW S, NEW H, Spendable(t, C, S),
           \A out \in Inputs(t) : H[Hash(out)] \in Nat \ {0}
    PROVE  RestoreInputs([coins |-> CoinsOf(C, S \cup Inputs(t), H), clean |-> TRUE], Tx[t].vin, UndoTx(t, C, S, H))[0]
             = [coins |-> CoinsOf(C, S, H), clean |-> TRUE]
<1> DEFINE n == NIns(t)
           U == UndoTx(t, C, S, H)
           g == [j \in 0 .. n |-> [coins |-> CoinsOf(C, SpentTo(t, j, S), H), clean |-> TRUE]]
           last == [coins |-> CoinsOf(C, S \cup Inputs(t), H), clean |-> TRUE]
           f == RestoreInputs(last, Tx[t].vin, U)
<1>1. n \in Nat
    BY VinsFacts
<1>2. SpentTo(t, 0, S) = S /\ SpentTo(t, n, S) = S \cup Inputs(t)
    BY VinsStep
<1>3. g[n] = last
    <2>1. g[n] = [coins |-> CoinsOf(C, SpentTo(t, n, S), H), clean |-> TRUE]
        BY <1>1
    <2> QED BY Zenon, <1>2, <2>1
<1>4. ASSUME NEW i \in 0 .. n - 1 PROVE g[i] = ApplyTxInUndo(g[i + 1], In(t, i + 1), U[i + 1])
    <2> DEFINE j == i + 1
    <2>1. j \in 1 .. n /\ j \in 0 .. n /\ i \in 0 .. n /\ j - 1 = i
        BY <1>1
    <2> HIDE DEF j
    <2>2. In(t, j) \in Outs /\ In(t, j) \in Inputs(t) /\ Index(In(t, j)) \in Left(Hash(In(t, j)), C, SpentTo(t, j - 1, S))
        BY <2>1, LeftWhenReached, VinsFacts
    <2>3. SpentTo(t, j, S) = Plus(SpentTo(t, j - 1, S), In(t, j))
        BY <2>1, VinsStep
    <2>4. U[j] = UndoOf(In(t, j), C, SpentTo(t, j - 1, S), H)
        BY <2>1 DEF UndoTx
    <2>5. H[Hash(In(t, j))] \in Nat \ {0} /\ Tx[Hash(In(t, j))].coinbase \in BOOLEAN
        <3>1. Hash(In(t, j)) \in TxIds
            BY <2>2, OutFields
        <3> QED BY <2>2, <3>1 DEF LedgerAssumption
    <2>6. ApplyTxInUndo([coins |-> CoinsOf(C, Plus(SpentTo(t, j - 1, S), In(t, j)), H), clean |-> TRUE], In(t, j),
                        UndoOf(In(t, j), C, SpentTo(t, j - 1, S), H))
            = [coins |-> CoinsOf(C, SpentTo(t, j - 1, S), H), clean |-> TRUE]
        BY <2>2, <2>5, RestoreOne
    <2>7. /\ g[i] = [coins |-> CoinsOf(C, SpentTo(t, j - 1, S), H), clean |-> TRUE]
          /\ g[j] = [coins |-> CoinsOf(C, SpentTo(t, j, S), H), clean |-> TRUE]
        BY <2>1
    <2> HIDE DEF g, U
    <2>8. g[i] = ApplyTxInUndo(g[j], In(t, j), U[j])
        BY <2>3, <2>4, <2>6, <2>7
    <2> QED BY <2>8 DEF j
<1>5. g = [j \in 0 .. n |-> IF j = n THEN last ELSE ApplyTxInUndo(g[j + 1], In(t, j + 1), U[j + 1])]
    <2>1. g = [j \in 0 .. n |-> g[j]]
        OBVIOUS
    <2> HIDE DEF g, last, n, U
    <2>2. ASSUME NEW j \in 0 .. n PROVE g[j] = IF j = n THEN last ELSE ApplyTxInUndo(g[j + 1], In(t, j + 1), U[j + 1])
        <3>1. j = n \/ j \in 0 .. n - 1
            BY <1>1
        <3> QED BY <1>1, <1>3, <1>4, <3>1
    <2> QED BY Zenon, <2>1, <2>2
<1>6. f = [j \in 0 .. n |-> IF j = n THEN last ELSE ApplyTxInUndo(f[j + 1], In(t, j + 1), U[j + 1])]
    <2> HIDE DEF g, U, last
    <2> QED BY Zenon, <1>5 DEF RestoreInputs, In, NIns
<1>7. f[0] = g[0]
    <2> HIDE DEF g, f, n, last
    <2>1. f[n] = last /\ \A j \in 0 .. n - 1 : f[j] = ApplyTxInUndo(f[j + 1], In(t, j + 1), U[j + 1])
        BY <1>1, <1>6
    <2>2. \A j \in 0 .. n - 1 : f[j + 1] = g[j + 1] => f[j] = g[j]
        BY <1>4, <2>1
    <2>3. \A j \in 0 .. n : f[j] = g[j]
        BY <1>1, <1>3, <2>1, <2>2, SameDown
    <2> QED BY <1>1, <2>3
<1>8. g[0] = [coins |-> CoinsOf(C, SpentTo(t, 0, S), H), clean |-> TRUE]
    BY <1>1
<1> HIDE DEF f, g, U, n
<1> QED BY Zenon, <1>2, <1>7, <1>8 DEF f, U, n

(* No output of t is in S. *)
Untouched(t, S) == \A n : [hash |-> t, n |-> n] \notin S

LEMMA VoutIsFunction ==
    ASSUME LedgerAssumption, NEW t \in TxIds
    PROVE  Tx[t].vout = [n \in DOMAIN Tx[t].vout |-> Tx[t].vout[n]]
<1>1. Tx[t].vout \in [DOMAIN Tx[t].vout -> Nat]
    BY DEF LedgerAssumption
<1> QED BY <1>1

(* FromTx adds t, and clearing its entry takes it away. *)
LEMMA Created ==
    ASSUME LedgerAssumption, NEW t \in TxIds, NEW C, NEW S, NEW H, Untouched(t, S)
    PROVE  /\ CoinsOf(Plus(C, t), S, H)[t] = FromTx(t, H[t])
           /\ [CoinsOf(C, S, H) EXCEPT ![t] = FromTx(t, H[t])] = CoinsOf(Plus(C, t), S, H)
           /\ t \notin C => [CoinsOf(Plus(C, t), S, H) EXCEPT ![t] = Pruned] = CoinsOf(C, S, H)
<1>1. Left(t, Plus(C, t), S) = DOMAIN Tx[t].vout
    BY DEF Left, Plus, Untouched
<1>2. Entry(t, Plus(C, t), S, H) = FromTx(t, H[t])
    <2>1. Tx[t].vout = [n \in DOMAIN Tx[t].vout |-> Tx[t].vout[n]]
        BY VoutIsFunction
    <2> QED BY Zenon, <1>1, <2>1 DEF Entry, FromTx
<1>3. \A u : u # t => Entry(u, Plus(C, t), S, H) = Entry(u, C, S, H)
    <2> TAKE u
    <2> HAVE u # t
    <2>1. Left(u, Plus(C, t), S) = Left(u, C, S)
        BY DEF Left, Plus
    <2> QED BY <2>1 DEF Entry
<1>4. t \notin C => Entry(t, C, S, H) = Pruned
    <2>1. t \notin C => Left(t, C, S) = {}
        BY DEF Left
    <2> QED BY <2>1 DEF Entry
<1> QED BY Zenon, <1>2, <1>3, <1>4 DEF CoinsOf

-----------------------------------------------------------------------------
(* The chain state after the transactions of C.                            *)

SpentBy(C)      == UNION {Inputs(t) : t \in C}
NullifiersOf(C) == UNION {Nullifiers(t) : t \in C}
View(c, m, a, b) == [coins |-> c, nullifiers |-> m, anchors |-> a, best |-> b]
SetSpent(v, x, y) == [v EXCEPT !.coins = x, !.nullifiers = y]
SetAnchors(v, x, y) == [v EXCEPT !.anchors = x, !.best = y]
ViewOf(C, H, A, B) == View(CoinsOf(C, SpentBy(C), H), NullifiersOf(C), A, B)
PartOf(C, H) == [coins |-> CoinsOf(C, SpentBy(C), H), clean |-> TRUE, nullifiers |-> NullifiersOf(C)]

(* What is spent was created, and is spent once; and t can come after the transactions of C. *)
Disjoint(C) == \A t, u \in C : t # u => Inputs(t) \cap Inputs(u) = {} /\ Nullifiers(t) \cap Nullifiers(u) = {}
Closed(C) ==
    /\ C \subseteq TxIds
    /\ \A out \in SpentBy(C) : out \in Outs /\ Hash(out) \in C
    /\ Disjoint(C)
FitsTx(C, t) ==
    t \notin C /\ Spendable(t, C, SpentBy(C)) /\ Nullifiers(t) \cap NullifiersOf(C) = {}

LEMMA OneMore ==
    ASSUME NEW C, NEW t
    PROVE  SpentBy(Plus(C, t)) = SpentBy(C) \cup Inputs(t) /\ NullifiersOf(Plus(C, t)) = NullifiersOf(C) \cup Nullifiers(t)
BY DEF SpentBy, NullifiersOf, Plus

LEMMA InputsAreOuts ==
    ASSUME LedgerAssumption, NEW t \in TxIds
    PROVE  \A out \in Inputs(t) : out \in Outs
<1>1. Tx[t].vin \in Seq(Outs)
    BY Zenon DEF LedgerAssumption, Outs
<1> QED BY <1>1 DEF Inputs, Range

LEMMA ClosedMore ==
    ASSUME LedgerAssumption, NEW C, NEW t \in TxIds, Closed(C), FitsTx(C, t)
    PROVE  Closed(Plus(C, t)) /\ Untouched(t, SpentBy(C) \cup Inputs(t))
<1>1. ASSUME NEW out \in Inputs(t) PROVE out \in Outs /\ Hash(out) \in C
    BY Zenon, InputsAreOuts DEF FitsTx, Spendable, Left
<1>2. \A out \in SpentBy(C) \cup Inputs(t) : out \in Outs /\ Hash(out) \in C
    BY <1>1 DEF Closed
<1>3. SpentBy(Plus(C, t)) = SpentBy(C) \cup Inputs(t)
    BY OneMore
<1>4. Closed(Plus(C, t))
    <2>1. \A out \in SpentBy(Plus(C, t)) : out \in Outs /\ Hash(out) \in Plus(C, t)
        BY <1>2, <1>3 DEF Plus
    <2>2. \A u \in C : Inputs(t) \cap Inputs(u) = {} /\ Nullifiers(t) \cap Nullifiers(u) = {}
        <3> SUFFICES ASSUME NEW u \in C
                     PROVE  Inputs(t) \cap Inputs(u) = {} /\ Nullifiers(t) \cap Nullifiers(u) = {}
            OBVIOUS
        <3>1. ASSUME NEW out \in Inputs(t), out \in Inputs(u) PROVE FALSE
            <4>1. out \in SpentBy(C) /\ out \in Outs /\ Index(out) \in Left(Hash(out), C, SpentBy(C))
                BY <3>1, InputsAreOuts DEF SpentBy, FitsTx, Spendable
            <4>2. [hash |-> Hash(out), n |-> Index(out)] = out
                BY <4>1 DEF Outs, Hash, Index
            <4> QED BY <4>1, <4>2 DEF Left
        <3>2. Nullifiers(u) \subseteq NullifiersOf(C)
            BY DEF NullifiersOf
        <3> QED BY <3>1, <3>2 DEF FitsTx
    <2>3. Disjoint(Plus(C, t))
        BY <2>2 DEF Closed, Disjoint, Plus
    <2> QED BY <2>1, <2>3 DEF Closed, Plus
<1>5. Untouched(t, SpentBy(C) \cup Inputs(t))
    BY <1>2 DEF Untouched, FitsTx, Hash
<1> QED BY <1>4, <1>5

(* Changing two fields of a view. *)
LEMMA ViewFields ==
    ASSUME NEW c, NEW m, NEW a, NEW b, NEW x, NEW y
    PROVE  /\ SetSpent(View(c, m, a, b), x, y) = View(x, y, a, b)
           /\ SetAnchors(View(c, m, a, b), x, y) = View(c, m, x, y)
<1> DEFINE v == [coins |-> c, nullifiers |-> m, anchors |-> a, best |-> b]
<1>1. [v EXCEPT !.coins = x] = [coins |-> x, nullifiers |-> m, anchors |-> a, best |-> b]
    OBVIOUS
<1>2. [[coins |-> x, nullifiers |-> m, anchors |-> a, best |-> b] EXCEPT !.nullifiers = y]
        = [coins |-> x, nullifiers |-> y, anchors |-> a, best |-> b]
    OBVIOUS
<1>3. [v EXCEPT !.anchors = x] = [coins |-> c, nullifiers |-> m, anchors |-> x, best |-> b]
    OBVIOUS
<1>4. [[coins |-> c, nullifiers |-> m, anchors |-> x, best |-> b] EXCEPT !.best = y]
        = [coins |-> c, nullifiers |-> m, anchors |-> x, best |-> y]
    OBVIOUS
<1> HIDE DEF v
<1>5. /\ [v EXCEPT !.coins = x, !.nullifiers = y] = [[v EXCEPT !.coins = x] EXCEPT !.nullifiers = y]
      /\ [v EXCEPT !.anchors = x, !.best = y] = [[v EXCEPT !.anchors = x] EXCEPT !.best = y]
    OBVIOUS
<1> QED BY Zenon, <1>1, <1>2, <1>3, <1>4, <1>5 DEF v, View, SetSpent, SetAnchors

(* UpdateCoins adds a transaction that fits. *)
LEMMA UpdateCoinsForm ==
    ASSUME LedgerAssumption, NEW C, NEW H, NEW A, NEW B, NEW t \in TxIds, Closed(C), FitsTx(C, t)
    PROVE  UpdateCoins(ViewOf(C, H, A, B), t, H[t])
             = [view |-> ViewOf(Plus(C, t), H, A, B), vprevout |-> UndoTx(t, C, SpentBy(C), H)]
<1> DEFINE S == SpentBy(C)
           v == ViewOf(C, H, A, B)
           spent == SpendInputs(v.coins, Tx[t].vin)[Len(Tx[t].vin)]
<1>1. spent = [coins |-> CoinsOf(C, S \cup Inputs(t), H), vprevout |-> UndoTx(t, C, S, H)]
    <2>1. v.coins = CoinsOf(C, S, H)
        BY DEF ViewOf, View
    <2>2. Spendable(t, C, S)
        BY DEF FitsTx
    <2> HIDE DEF v, S
    <2>3. SpendInputs(CoinsOf(C, S, H), Tx[t].vin)[Len(Tx[t].vin)]
            = [coins |-> CoinsOf(C, S \cup Inputs(t), H), vprevout |-> UndoTx(t, C, S, H)]
        BY Zenon, <2>2, SpendInputsForm DEF NIns
    <2> QED BY Zenon, <2>1, <2>3
<1>2. [CoinsOf(C, S \cup Inputs(t), H) EXCEPT ![t] = FromTx(t, H[t])] = CoinsOf(Plus(C, t), S \cup Inputs(t), H)
    BY ClosedMore, Created
<1>3. S \cup Inputs(t) = SpentBy(Plus(C, t)) /\ NullifiersOf(Plus(C, t)) = NullifiersOf(C) \cup Nullifiers(t)
    BY OneMore
<1>4. UpdateCoins(v, t, H[t])
        = [view |-> [v EXCEPT !.coins = [spent.coins EXCEPT ![t] = FromTx(t, H[t])],
                              !.nullifiers = @ \cup Nullifiers(t)],
           vprevout |-> spent.vprevout]
    BY Zenon DEF UpdateCoins
<1> HIDE DEF spent, S
<1>5. spent.coins = CoinsOf(C, S \cup Inputs(t), H) /\ spent.vprevout = UndoTx(t, C, S, H)
    BY <1>1
<1>6. [spent.coins EXCEPT ![t] = FromTx(t, H[t])] = CoinsOf(Plus(C, t), SpentBy(Plus(C, t)), H)
    BY Zenon, <1>2, <1>3, <1>5
<1>7. v.nullifiers = NullifiersOf(C)
    BY DEF ViewOf, View
<1>8. v.nullifiers \cup Nullifiers(t) = NullifiersOf(Plus(C, t))
    BY Zenon, <1>3, <1>7
<1>9. [v EXCEPT !.coins = [spent.coins EXCEPT ![t] = FromTx(t, H[t])], !.nullifiers = @ \cup Nullifiers(t)]
        = ViewOf(Plus(C, t), H, A, B)
    <2> DEFINE K == [spent.coins EXCEPT ![t] = FromTx(t, H[t])]
               N == v.nullifiers \cup Nullifiers(t)
    <2>1. K = CoinsOf(Plus(C, t), SpentBy(Plus(C, t)), H) /\ N = NullifiersOf(Plus(C, t))
        BY Zenon, <1>6, <1>8
    <2> HIDE DEF K, N
    <2>2. SetSpent(v, K, N) = View(K, N, A, B)
        BY ViewFields DEF ViewOf
    <2>3. SetSpent(v, K, N) = ViewOf(Plus(C, t), H, A, B)
        BY Zenon, <2>1, <2>2 DEF ViewOf
    <2> HIDE DEF v
    <2> QED BY Zenon, <2>3 DEF K, N, SetSpent
<1> HIDE DEF v
<1> QED BY Zenon, <1>4, <1>5, <1>9 DEF v, S

(* DisconnectBlock's iteration for a transaction takes it back. *)
LEMMA DisconnectTxForm ==
    ASSUME LedgerAssumption, NEW C, NEW H, NEW t \in TxIds, Closed(C), FitsTx(C, t), \A u \in C : H[u] \in Nat \ {0}
    PROVE  DisconnectTx(PartOf(Plus(C, t), H), t, H[t], UndoTx(t, C, SpentBy(C), H)) = PartOf(C, H)
<1> DEFINE S == SpentBy(C)
           R == S \cup Inputs(t)
           U == UndoTx(t, C, S, H)
           acc == PartOf(Plus(C, t), H)
           cleared == [coins |-> CoinsOf(C, R, H), clean |-> TRUE]
<1>1. R = SpentBy(Plus(C, t)) /\ NullifiersOf(Plus(C, t)) = NullifiersOf(C) \cup Nullifiers(t)
    BY OneMore
<1>2. acc.clean = TRUE /\ acc.nullifiers = NullifiersOf(Plus(C, t)) /\ acc.coins = CoinsOf(Plus(C, t), SpentBy(Plus(C, t)), H)
    BY DEF PartOf
<1>3. /\ CoinsOf(Plus(C, t), R, H)[t] = FromTx(t, H[t])
      /\ [CoinsOf(Plus(C, t), R, H) EXCEPT ![t] = Pruned] = CoinsOf(C, R, H)
    <2>1. Untouched(t, R) /\ t \notin C
        BY ClosedMore DEF FitsTx
    <2> HIDE DEF R
    <2> QED BY <2>1, Created
<1>4. RestoreInputs(cleared, Tx[t].vin, U)[0] = [coins |-> CoinsOf(C, S, H), clean |-> TRUE]
    <2>1. Spendable(t, C, S)
        BY DEF FitsTx
    <2>2. ASSUME NEW out \in Inputs(t) PROVE H[Hash(out)] \in Nat \ {0}
        BY Zenon, <2>1 DEF Spendable, Left
    <2> HIDE DEF S
    <2> QED BY <2>1, <2>2, RestoreInputsForm
<1>5. acc.nullifiers \ Nullifiers(t) = NullifiersOf(C)
    <2>1. acc.nullifiers = NullifiersOf(C) \cup Nullifiers(t)
        BY Zenon, <1>1, <1>2
    <2>2. Nullifiers(t) \cap NullifiersOf(C) = {}
        BY DEF FitsTx
    <2> HIDE DEF acc
    <2> QED BY <2>1, <2>2
<1> HIDE DEF R, S, U, acc
<1>6. acc.coins[t] = FromTx(t, H[t]) /\ [acc.coins EXCEPT ![t] = Pruned] = CoinsOf(C, R, H)
    BY Zenon, <1>1, <1>2, <1>3
<1>7. (acc.clean /\ acc.coins[t] = FromTx(t, H[t])) = TRUE
    BY <1>2, <1>6
<1>8. [coins |-> [acc.coins EXCEPT ![t] = Pruned], clean |-> acc.clean /\ acc.coins[t] = FromTx(t, H[t])] = cleared
    BY Zenon, <1>6, <1>7
<1> HIDE DEF cleared
<1> DEFINE restored == RestoreInputs(cleared, Tx[t].vin, U)[0]
<1>9. DisconnectTx(acc, t, H[t], U)
        = [coins |-> restored.coins, clean |-> restored.clean, nullifiers |-> acc.nullifiers \ Nullifiers(t)]
    BY Zenon, <1>8 DEF DisconnectTx
<1>10. restored.coins = CoinsOf(C, S, H) /\ restored.clean = TRUE
    BY <1>4
<1> HIDE DEF restored
<1> QED BY Zenon, <1>5, <1>9, <1>10 DEF acc, U, S, PartOf

-----------------------------------------------------------------------------
(* One block, on the transactions of C.                                    *)

NTxs(b)   == Len(Block[b].vtx)
At(b, i)  == Block[b].vtx[i]
TxsIn(b)  == Range(Block[b].vtx)
CAt(C, b, i) == C \cup {At(b, k) : k \in 1 .. i}
FitsTo(C, b, i) == \A k \in 1 .. i : FitsTx(CAt(C, b, k - 1), At(b, k))
Fits(C, b) == FitsTo(C, b, NTxs(b))
UndoAt(C, b, k, H) == UndoTx(At(b, k), CAt(C, b, k - 1), SpentBy(CAt(C, b, k - 1)), H)
UndoBlock(C, b, H) == [k \in 1 .. NTxs(b) |-> UndoAt(C, b, k, H)]

LEMMA BlockFacts ==
    ASSUME LedgerAssumption, NEW b \in BlockIds
    PROVE  /\ NTxs(b) \in Nat \ {0} /\ DOMAIN Block[b].vtx = 1 .. NTxs(b)
           /\ \A i \in 1 .. NTxs(b) : /\ At(b, i) \in TxIds /\ At(b, i) \in TxsIn(b)
                                      /\ Tx[At(b, i)].coinbase <=> i = 1
           /\ \A t \in TxsIn(b) : \E i \in 1 .. NTxs(b) : t = At(b, i)
<1>1. Block[b].vtx \in Seq(TxIds) /\ Block[b].vtx # <<>>
    BY DEF LedgerAssumption
<1>2. \A i \in DOMAIN Block[b].vtx : Tx[Block[b].vtx[i]].coinbase <=> i = 1
    BY DEF LedgerAssumption
<1> DEFINE s == Block[b].vtx
<1>3. Len(s) \in Nat \ {0} /\ DOMAIN s = 1 .. Len(s) /\ \A i \in 1 .. Len(s) : s[i] \in TxIds
    <2> HIDE DEF s
    <2>1. s \in Seq(TxIds) /\ s # <<>>
        BY <1>1 DEF s
    <2> QED BY <2>1
<1>4. \A i \in 1 .. NTxs(b) : Tx[At(b, i)].coinbase <=> i = 1
    BY Zenon, <1>2, <1>3 DEF NTxs, At
<1>5. /\ \A i \in 1 .. NTxs(b) : At(b, i) \in TxIds /\ At(b, i) \in TxsIn(b)
      /\ \A t \in TxsIn(b) : \E i \in 1 .. NTxs(b) : t = At(b, i)
    BY Zenon, <1>3 DEF NTxs, At, TxsIn, Range
<1> QED BY Zenon, <1>3, <1>4, <1>5 DEF NTxs

LEMMA CAtEnds ==
    ASSUME LedgerAssumption, NEW C, NEW b \in BlockIds
    PROVE  CAt(C, b, 0) = C /\ CAt(C, b, NTxs(b)) = C \cup TxsIn(b)
BY BlockFacts DEF CAt

LEMMA CAtStep ==
    ASSUME LedgerAssumption, NEW C, NEW b \in BlockIds, NEW i \in 1 .. NTxs(b)
    PROVE  CAt(C, b, i) = Plus(CAt(C, b, i - 1), At(b, i)) /\ At(b, i) \in TxIds
<1>1. NTxs(b) \in Nat /\ At(b, i) \in TxIds
    BY BlockFacts
<1>2. \A k : k \in 1 .. i <=> k \in 1 .. i - 1 \/ k = i
    BY <1>1
<1> QED BY <1>1, <1>2 DEF CAt, Plus

(* What was created before is created when t is. *)
LEMMA ClosedAt ==
    ASSUME LedgerAssumption, NEW C, NEW b \in BlockIds, Closed(C), NEW i \in 0 .. NTxs(b), FitsTo(C, b, i)
    PROVE  \A k \in 0 .. i : Closed(CAt(C, b, k))
<1> DEFINE P == {k \in 0 .. i : Closed(CAt(C, b, k))}
<1>1. NTxs(b) \in Nat /\ i \in Nat
    BY BlockFacts
<1>2. 0 \in P
    <2>1. CAt(C, b, 0) = C
        BY CAtEnds
    <2>2. Closed(CAt(C, b, 0))
        BY Zenon, <2>1
    <2> QED BY <1>1, <2>2
<1>3. ASSUME NEW k \in 1 .. i, k - 1 \in P PROVE k \in P
    <2>1. k \in 1 .. NTxs(b)
        BY <1>1
    <2>2. At(b, k) \in TxIds /\ CAt(C, b, k) = Plus(CAt(C, b, k - 1), At(b, k))
        BY Zenon, <2>1, CAtStep
    <2>3. Closed(CAt(C, b, k - 1)) /\ FitsTx(CAt(C, b, k - 1), At(b, k))
        BY <1>3 DEF FitsTo
    <2>4. Closed(Plus(CAt(C, b, k - 1), At(b, k)))
        BY Zenon, <2>2, <2>3, ClosedMore
    <2>5. Closed(CAt(C, b, k))
        BY Zenon, <2>2, <2>4
    <2> QED BY <1>1, <2>5
<1> HIDE DEF P
<1>4. \A k \in 0 .. i : k \in P
    BY <1>1, <1>2, <1>3, HoldsUp
<1> QED BY <1>4 DEF P

LEMMA SeqIsEmpty ==
    ASSUME NEW X, NEW s \in Seq(X)
    PROVE  s = <<>> <=> DOMAIN s = {}
<1>1. Len(s) \in Nat /\ DOMAIN s = 1 .. Len(s)
    BY SeqFacts
<1>2. s = <<>> <=> Len(s) = 0
    BY SeqFacts
<1>3. \A n \in Nat : n = 0 <=> 1 .. n = {}
    OBVIOUS
<1> QED BY Zenon, <1>1, <1>2, <1>3

(* A transaction spends something, unless it is a coinbase. *)
LEMMA Spends ==
    ASSUME LedgerAssumption, NEW t \in TxIds
    PROVE  IF Tx[t].coinbase THEN Inputs(t) = {} /\ Nullifiers(t) = {} ELSE Inputs(t) # {} \/ Nullifiers(t) # {}
<1>1. IF Tx[t].coinbase THEN Tx[t].vin = <<>> /\ Tx[t].vjoinsplit = <<>>
      ELSE Tx[t].vin # <<>> \/ Tx[t].vjoinsplit # <<>>
    BY DEF LedgerAssumption
<1>2. Tx[t].vin = <<>> <=> Inputs(t) = {}
    <2> DEFINE s == Tx[t].vin
    <2>1. s \in Seq(Outs)
        BY Zenon DEF LedgerAssumption, Outs
    <2> HIDE DEF s
    <2>2. s = <<>> <=> DOMAIN s = {}
        BY <2>1, SeqIsEmpty
    <2> QED BY Zenon, <2>2 DEF s, Inputs, Range
<1>3. Tx[t].vjoinsplit = <<>> => Nullifiers(t) = {}
    BY DEF Nullifiers, Range
<1>4. ASSUME Tx[t].vjoinsplit # <<>> PROVE Nullifiers(t) # {}
    <2> DEFINE s == Tx[t].vjoinsplit
    <2>1. s \in Seq(Range(s)) /\ \A i \in DOMAIN s : s[i].nullifiers # {}
        BY DEF LedgerAssumption
    <2>2. PICK i \in DOMAIN s : TRUE
        <3> HIDE DEF s
        <3>1. s # <<>>
            BY <1>4 DEF s
        <3> QED BY <2>1, <3>1, SeqIsEmpty
    <2>3. s[i].nullifiers # {} /\ s[i] \in Range(s)
        BY <2>1, <2>2 DEF Range
    <2> HIDE DEF s
    <2> QED BY <2>3 DEF s, Nullifiers
<1> QED BY SMTT(60), <1>1, <1>2, <1>3, <1>4

(* A transaction that passes the checks of ConnectBlock fits. *)
LEMMA CheckedFits ==
    ASSUME LedgerAssumption, NEW D, NEW H, NEW A, NEW B, NEW t \in TxIds, NEW h, ~Tx[t].coinbase,
           CheckTxInputs(ViewOf(D, H, A, B), t, h)
    PROVE  FitsTx(D, t)
<1> DEFINE v == ViewOf(D, H, A, B)
           S == SpentBy(D)
<1>1. v.coins = CoinsOf(D, S, H) /\ v.nullifiers = NullifiersOf(D)
    BY DEF ViewOf, View
<1>2. (\A out \in Inputs(t) : IsAvailable(v.coins, out)) /\ Nullifiers(t) \cap v.nullifiers = {}
    BY Zenon DEF CheckTxInputs, HaveInputs, HaveJoinSplitRequirements, Inputs
<1> HIDE DEF v, S
<1>3. Spendable(t, D, S)
    <2> SUFFICES ASSUME NEW out \in Inputs(t) PROVE Index(out) \in Left(Hash(out), D, S)
        BY DEF Spendable
    <2>1. out \in Outs
        BY InputsAreOuts
    <2>2. IsAvailable(CoinsOf(D, S, H), out)
        BY Zenon, <1>1, <1>2
    <2> QED BY <2>1, <2>2, Available
<1>4. Nullifiers(t) \cap NullifiersOf(D) = {}
    BY Zenon, <1>1, <1>2
<1>5. ASSUME t \in D PROVE FALSE
    <2>1. Inputs(t) \subseteq S /\ Nullifiers(t) \subseteq NullifiersOf(D)
        BY <1>5 DEF S, SpentBy, NullifiersOf
    <2>2. ASSUME NEW out \in Inputs(t) PROVE FALSE
        <3>1. out \in Outs /\ Index(out) \in Left(Hash(out), D, S)
            BY <1>3, InputsAreOuts DEF Spendable
        <3>2. [hash |-> Hash(out), n |-> Index(out)] = out
            BY <3>1 DEF Outs, Hash, Index
        <3> QED BY <2>1, <3>1, <3>2 DEF Left
    <2>3. Nullifiers(t) = {}
        BY <1>4, <2>1
    <2> QED BY <2>2, <2>3, Spends
<1> QED BY <1>3, <1>4, <1>5 DEF FitsTx, S

(* One iteration of ConnectBlock that does not return early. *)
BeforeTx(acc, t, h, D, H, A, B) ==
    /\ Closed(D) /\ (Tx[t].coinbase => t \notin D)
    /\ \A u \in TxIds \ D : H[u] = h
    /\ "ok" \in DOMAIN acc
    /\ acc.ok => acc.view = ViewOf(D, H, A, B)
AfterTx(acc, t, h, D, H, A, B) ==
    /\ FitsTx(D, t)
    /\ ConnectTx(acc, t, h).view = ViewOf(Plus(D, t), H, A, B)
    /\ ConnectTx(acc, t, h).vtxundo = Append(acc.vtxundo, UndoTx(t, D, SpentBy(D), H))
    /\ ConnectTx(acc, t, h).tree = acc.tree \o Commitments(t)

LEMMA ConnectTxForm ==
    ASSUME LedgerAssumption, NEW D, NEW H, NEW A, NEW B, NEW t \in TxIds, NEW h, NEW acc,
           BeforeTx(acc, t, h, D, H, A, B), ConnectTx(acc, t, h).ok
    PROVE  AfterTx(acc, t, h, D, H, A, B)
<1>0. /\ Closed(D) /\ (Tx[t].coinbase => t \notin D)
      /\ \A u \in TxIds \ D : H[u] = h
      /\ "ok" \in DOMAIN acc
      /\ acc.ok => acc.view = ViewOf(D, H, A, B)
    BY DEF BeforeTx
<1> DEFINE up == UpdateCoins(acc.view, t, h)
           early == ~acc.ok \/ (~Tx[t].coinbase /\ ~CheckTxInputs(acc.view, t, h))
           fees == IF Tx[t].coinbase THEN acc.fees ELSE acc.fees + GetValueIn(acc.view, t) - GetValueOut(t)
<1>1. ConnectTx(acc, t, h)
        = IF early THEN [acc EXCEPT !.ok = FALSE]
          ELSE [ok |-> TRUE, view |-> up.view, vtxundo |-> Append(acc.vtxundo, up.vprevout),
                tree |-> acc.tree \o Commitments(t), fees |-> fees]
    BY Zenon DEF ConnectTx
<1>2. ~early
    <2>1. [acc EXCEPT !.ok = FALSE].ok = FALSE
        BY <1>0
    <2> HIDE DEF early
    <2> QED BY Zenon, <1>1, <2>1
<1>3. acc.ok /\ acc.view = ViewOf(D, H, A, B) /\ (~Tx[t].coinbase => CheckTxInputs(acc.view, t, h))
    BY <1>0, <1>2
<1>4. FitsTx(D, t)
    <2>1. CASE Tx[t].coinbase
        BY <1>0, <2>1, Spends DEF FitsTx, Spendable
    <2>2. CASE ~Tx[t].coinbase
        <3>1. CheckTxInputs(ViewOf(D, H, A, B), t, h)
            BY Zenon, <1>3, <2>2
        <3> QED BY <2>2, <3>1, CheckedFits
    <2> QED BY <2>1, <2>2
<1>5. H[t] = h
    BY <1>0, <1>4 DEF FitsTx
<1>6. up = [view |-> ViewOf(Plus(D, t), H, A, B), vprevout |-> UndoTx(t, D, SpentBy(D), H)]
    <2>1. UpdateCoins(ViewOf(D, H, A, B), t, H[t])
            = [view |-> ViewOf(Plus(D, t), H, A, B), vprevout |-> UndoTx(t, D, SpentBy(D), H)]
        BY <1>0, <1>4, UpdateCoinsForm
    <2> QED BY Zenon, <1>3, <1>5, <2>1
<1> HIDE DEF up, early, fees
<1>7. up.view = ViewOf(Plus(D, t), H, A, B) /\ up.vprevout = UndoTx(t, D, SpentBy(D), H)
    BY <1>6
<1> DEFINE r == ConnectTx(acc, t, h)
<1>8. r = [ok |-> TRUE, view |-> up.view, vtxundo |-> Append(acc.vtxundo, up.vprevout),
           tree |-> acc.tree \o Commitments(t), fees |-> fees]
    BY Zenon, <1>1, <1>2
<1> HIDE DEF r
<1>9. r.view = up.view /\ r.vtxundo = Append(acc.vtxundo, up.vprevout) /\ r.tree = acc.tree \o Commitments(t)
    BY <1>8
<1> QED BY Zenon, <1>3, <1>4, <1>7, <1>9 DEF r, AfterTx

LEMMA ConnectTxGoesOn ==
    ASSUME NEW acc, NEW t, NEW h, "ok" \in DOMAIN acc
    PROVE  "ok" \in DOMAIN ConnectTx(acc, t, h) /\ (ConnectTx(acc, t, h).ok => acc.ok)
<1> DEFINE up == UpdateCoins(acc.view, t, h)
           early == ~acc.ok \/ (~Tx[t].coinbase /\ ~CheckTxInputs(acc.view, t, h))
           fees == IF Tx[t].coinbase THEN acc.fees ELSE acc.fees + GetValueIn(acc.view, t) - GetValueOut(t)
           undone == Append(acc.vtxundo, up.vprevout)
           tree == acc.tree \o Commitments(t)
           x == up.view
<1>1. ConnectTx(acc, t, h) = IF early THEN [acc EXCEPT !.ok = FALSE]
                             ELSE [ok |-> TRUE, view |-> x, vtxundo |-> undone, tree |-> tree, fees |-> fees]
    BY Zenon DEF ConnectTx
<1>2. ~early => acc.ok
    OBVIOUS
<1> HIDE DEF early, up, fees, undone, tree, x
<1> QED BY <1>1, <1>2

(* The commitments of a block, transaction by transaction. *)
CommitmentsOf(b) == [i \in 1 .. NTxs(b) |-> Commitments(At(b, i))]

LEMMA CommitmentsType ==
    ASSUME LedgerAssumption, NEW t \in TxIds
    PROVE  Commitments(t) \in Seq(NoteCommitments)
<1> DEFINE s == Tx[t].vjoinsplit
           F == [i \in DOMAIN s |-> s[i].commitments]
           n == Len(s)
<1>1. s \in Seq(Range(s)) /\ \A i \in DOMAIN s : s[i].commitments \in Seq(NoteCommitments)
    BY DEF LedgerAssumption
<1>2. n \in Nat /\ DOMAIN s = 1 .. n
    BY <1>1, SeqFacts
<1>3. F = [i \in 1 .. n |-> F[i]]
    BY <1>2
<1>4. \A i \in 1 .. n : F[i] \in Seq(NoteCommitments)
    BY <1>1, <1>2
<1>5. Commitments(t) = Concatenation(F)
    BY Zenon DEF Commitments
<1> HIDE DEF F, n, s
<1>6. Flat(F, n) \in Seq(NoteCommitments)
    <2>1. \A m \in 0 .. n : Flat(F, m) \in Seq(NoteCommitments)
        BY Zenon, <1>2, <1>4, FlatFacts
    <2> QED BY <1>2, <2>1
<1> QED BY Zenon, <1>3, <1>5, <1>6 DEF Flat

LEMMA BlockFlat ==
    ASSUME LedgerAssumption, NEW b \in BlockIds
    PROVE  /\ BlockCommitments(b) = Flat(CommitmentsOf(b), NTxs(b)) /\ Flat(CommitmentsOf(b), 0) = <<>>
           /\ BlockCommitments(b) \in Seq(NoteCommitments)
           /\ \A i \in 0 .. NTxs(b) : Flat(CommitmentsOf(b), i) \in Seq(NoteCommitments)
           /\ \A i \in 1 .. NTxs(b) :
                 Flat(CommitmentsOf(b), i) = Flat(CommitmentsOf(b), i - 1) \o Commitments(At(b, i))
<1> DEFINE n == NTxs(b)
           F == CommitmentsOf(b)
<1>1. n \in Nat /\ DOMAIN Block[b].vtx = 1 .. n
    BY BlockFacts
<1>2. ASSUME NEW i \in 1 .. n PROVE F[i] = Commitments(At(b, i)) /\ F[i] \in Seq(NoteCommitments)
    <2>1. F[i] = Commitments(At(b, i)) /\ At(b, i) \in TxIds
        BY BlockFacts DEF CommitmentsOf
    <2> HIDE DEF F
    <2>2. Commitments(At(b, i)) \in Seq(NoteCommitments)
        BY <2>1, CommitmentsType
    <2> QED BY Zenon, <2>1, <2>2
<1>3. F = [i \in 1 .. n |-> F[i]]
    BY DEF CommitmentsOf
<1>4. BlockCommitments(b) = Concatenation(F)
    BY Zenon, <1>1 DEF BlockCommitments, CommitmentsOf, At
<1> HIDE DEF F, n
<1>5. /\ Flat(F, 0) = <<>>
      /\ \A i \in 0 .. n : Flat(F, i) \in Seq(NoteCommitments)
      /\ \A i \in 1 .. n : Flat(F, i) = Flat(F, i - 1) \o F[i]
    BY Zenon, <1>1, <1>2, FlatFacts
<1>6. BlockCommitments(b) = Flat(F, n)
    BY Zenon, <1>3, <1>4 DEF Flat
<1>7. BlockCommitments(b) \in Seq(NoteCommitments)
    BY <1>1, <1>5, <1>6
<1>8. \A i \in 1 .. n : Flat(F, i) = Flat(F, i - 1) \o Commitments(At(b, i))
    BY Zenon, <1>2, <1>5
<1> QED BY Zenon, <1>5, <1>6, <1>7, <1>8 DEF F, n

(* ConnectBlock's loop: that it has results at all, *)
ConnectFirst(v, b) == [ok |-> NoOverwrite(v, b), view |-> v, vtxundo |-> <<>>, tree |-> v.best, fees |-> 0]
ConnectRun(g, v, b, h, n) ==
    g = [i \in 0 .. n |-> IF i = 0 THEN ConnectFirst(v, b) ELSE ConnectTx(g[i - 1], At(b, i), h)]

LEMMA ConnectRunExists ==
    ASSUME NEW v, NEW b, NEW h, NEW n \in Nat
    PROVE  \E g : ConnectRun(g, v, b, h, n)
<1> DEFINE T == {m \in Nat : ~\E g : ConnectRun(g, v, b, h, m)}
<1> SUFFICES ASSUME T # {} PROVE FALSE
    OBVIOUS
<1>1. PICK m \in T : \A i \in T : m <= i
    <2>1. T \subseteq Nat
        OBVIOUS
    <2> HIDE DEF T
    <2> QED BY Zenon, <2>1, LeastNat
<1>2. m # 0
    <2> DEFINE e == [i \in 0 .. 0 |-> ConnectFirst(v, b)]
    <2>1. e = [i \in 0 .. 0 |-> IF i = 0 THEN ConnectFirst(v, b) ELSE ConnectTx(e[i - 1], At(b, i), h)]
        OBVIOUS
    <2> HIDE DEF e
    <2> QED BY Zenon, <1>1, <2>1 DEF ConnectRun
<1>3. m - 1 \in Nat /\ m - 1 \notin T
    BY <1>1, <1>2
<1>4. PICK g : ConnectRun(g, v, b, h, m - 1)
    BY <1>3
<1> DEFINE e == [i \in 0 .. m |-> IF i < m THEN g[i] ELSE ConnectTx(g[i - 1], At(b, i), h)]
<1>5. ASSUME NEW i \in 0 .. m PROVE e[i] = IF i = 0 THEN ConnectFirst(v, b) ELSE ConnectTx(e[i - 1], At(b, i), h)
    <2>1. CASE i = m
        <3>1. e[i - 1] = g[i - 1] /\ e[i] = ConnectTx(g[i - 1], At(b, i), h) /\ i # 0
            BY <1>2, <1>3, <2>1
        <3> HIDE DEF e
        <3> QED BY <3>1
    <2>2. CASE i < m
        <3>1. e[i] = g[i] /\ (i # 0 => e[i - 1] = g[i - 1])
            BY <2>2
        <3>2. g[i] = IF i = 0 THEN ConnectFirst(v, b) ELSE ConnectTx(g[i - 1], At(b, i), h)
            <4>1. i \in 0 .. m - 1
                BY <1>3, <2>2
            <4> QED BY <1>4, <4>1 DEF ConnectRun
        <3> HIDE DEF e
        <3> QED BY <3>1, <3>2
    <2> QED BY <1>1, <2>1, <2>2
<1>6. ConnectRun(e, v, b, h, m)
    <2>1. e = [i \in 0 .. m |-> e[i]]
        OBVIOUS
    <2> HIDE DEF e
    <2> QED BY Zenon, <1>5, <2>1 DEF ConnectRun
<1> QED BY <1>1, <1>6

LEMMA ConnectTxsSteps ==
    ASSUME LedgerAssumption, NEW v, NEW b \in BlockIds, NEW h
    PROVE  /\ ConnectTxs(v, b, h)[0] = ConnectFirst(v, b)
           /\ \A i \in 1 .. NTxs(b) : ConnectTxs(v, b, h)[i] = ConnectTx(ConnectTxs(v, b, h)[i - 1], At(b, i), h)
<1> DEFINE n == NTxs(b)
           f == ConnectTxs(v, b, h)
<1>1. n \in Nat
    BY BlockFacts
<1>2. PICK g : ConnectRun(g, v, b, h, n)
    BY <1>1, ConnectRunExists
<1>3. f = [i \in 0 .. n |-> IF i = 0 THEN ConnectFirst(v, b) ELSE ConnectTx(f[i - 1], At(b, i), h)]
    BY Zenon, <1>2 DEF ConnectTxs, ConnectRun, ConnectFirst, At, NTxs
<1> HIDE DEF f, n
<1>4. f[0] = ConnectFirst(v, b) /\ \A i \in 1 .. n : f[i] = ConnectTx(f[i - 1], At(b, i), h)
    BY <1>1, <1>3
<1> QED BY <1>4 DEF f, n

(* and what it has after i transactions, when it has not returned. *)
ConnectedTo(acc, C, b, i, H, A, B) ==
    /\ "ok" \in DOMAIN acc
    /\ acc.ok => /\ FitsTo(C, b, i)
                 /\ acc.view = ViewOf(CAt(C, b, i), H, A, B)
                 /\ acc.vtxundo = [k \in 1 .. i |-> UndoAt(C, b, k, H)]
                 /\ acc.tree = B \o Flat(CommitmentsOf(b), i)

LEMMA ConnectedStep ==
    ASSUME LedgerAssumption, NEW C, NEW b \in BlockIds, NEW H, NEW A, NEW B \in Seq(NoteCommitments), NEW h, Closed(C),
           \A u \in TxIds \ C : H[u] = h, At(b, 1) \notin C,
           NEW i \in 1 .. NTxs(b), NEW acc, ConnectedTo(acc, C, b, i - 1, H, A, B)
    PROVE  ConnectedTo(ConnectTx(acc, At(b, i), h), C, b, i, H, A, B)
<1> DEFINE t == At(b, i)
           D == CAt(C, b, i - 1)
           r == ConnectTx(acc, t, h)
<1>1. "ok" \in DOMAIN acc /\ "ok" \in DOMAIN r /\ (r.ok => acc.ok)
    BY ConnectTxGoesOn DEF ConnectedTo
<1> SUFFICES ASSUME r.ok
             PROVE  /\ FitsTo(C, b, i)
                    /\ r.view = ViewOf(CAt(C, b, i), H, A, B)
                    /\ r.vtxundo = [k \in 1 .. i |-> UndoAt(C, b, k, H)]
                    /\ r.tree = B \o Flat(CommitmentsOf(b), i)
    BY Zenon, <1>1 DEF ConnectedTo
<1>2. /\ FitsTo(C, b, i - 1)
      /\ acc.view = ViewOf(D, H, A, B)
      /\ acc.vtxundo = [k \in 1 .. i - 1 |-> UndoAt(C, b, k, H)]
      /\ acc.tree = B \o Flat(CommitmentsOf(b), i - 1)
    BY SMTT(60), <1>1 DEF ConnectedTo
<1>3. NTxs(b) \in Nat /\ i - 1 \in 0 .. NTxs(b) /\ i - 1 \in 0 .. i - 1 /\ i - 1 \in Nat
    BY SMTT(60), BlockFacts
<1>4. Closed(D)
    BY <1>2, <1>3, ClosedAt
<1>5. t \in TxIds /\ CAt(C, b, i) = Plus(D, t) /\ (Tx[t].coinbase <=> i = 1)
    <2>1. t \in TxIds /\ CAt(C, b, i) = Plus(D, t)
        BY Zenon, CAtStep
    <2>2. Tx[t].coinbase <=> i = 1
        BY BlockFacts
    <2> QED BY Zenon, <2>1, <2>2
<1>6. Tx[t].coinbase => t \notin D
    <2>1. CAt(C, b, 0) = C
        BY CAtEnds
    <2> SUFFICES ASSUME Tx[t].coinbase PROVE t \notin D
        BY SMTT(60)
    <2>2. i = 1 /\ i - 1 = 0
        BY <1>5
    <2> QED BY Zenon, <2>1, <2>2
<1>7. \A u \in TxIds \ D : H[u] = h
    BY DEF CAt
<1> HIDE DEF t, D
<1>8. /\ FitsTx(D, t)
      /\ r.view = ViewOf(Plus(D, t), H, A, B)
      /\ r.vtxundo = Append(acc.vtxundo, UndoTx(t, D, SpentBy(D), H))
      /\ r.tree = acc.tree \o Commitments(t)
    <2>1. BeforeTx(acc, t, h, D, H, A, B)
        BY Zenon, <1>1, <1>2, <1>4, <1>6, <1>7 DEF BeforeTx
    <2>2. AfterTx(acc, t, h, D, H, A, B)
        BY <1>5, <2>1, ConnectTxForm
    <2> QED BY Zenon, <2>2 DEF AfterTx
<1> HIDE DEF r
<1>9. FitsTo(C, b, i)
    <2>1. \A k \in 1 .. i : k \in 1 .. i - 1 \/ k = i
        OBVIOUS
    <2> QED BY Zenon, <1>2, <1>8, <2>1 DEF FitsTo, D, t
<1>10. r.view = ViewOf(CAt(C, b, i), H, A, B)
    BY Zenon, <1>5, <1>8
<1>11. r.vtxundo = [k \in 1 .. i |-> UndoAt(C, b, k, H)]
    <2> DEFINE U == [k \in 1 .. i |-> UndoAt(C, b, k, H)]
               m == i - 1
    <2>1. m \in Nat /\ U = [k \in 1 .. m + 1 |-> U[k]] /\ U[m + 1] = UndoAt(C, b, i, H)
        BY <1>3
    <2>2. [k \in 1 .. i - 1 |-> UndoAt(C, b, k, H)] = [k \in 1 .. m |-> U[k]]
        BY <1>3
    <2> HIDE DEF U, m
    <2>3. Append([k \in 1 .. m |-> U[k]], U[m + 1]) = U
        BY <2>1, AppendForm
    <2>4. UndoTx(t, D, SpentBy(D), H) = UndoAt(C, b, i, H)
        BY Zenon DEF UndoAt, t, D
    <2>5. r.vtxundo = U
        BY Zenon, <1>2, <1>8, <2>1, <2>2, <2>3, <2>4
    <2> QED BY <2>5 DEF U
<1>12. r.tree = B \o Flat(CommitmentsOf(b), i)
    <2>1. /\ Flat(CommitmentsOf(b), i) = Flat(CommitmentsOf(b), i - 1) \o Commitments(t)
          /\ Flat(CommitmentsOf(b), i - 1) \in Seq(NoteCommitments)
        BY SMTT(60), <1>3, BlockFlat DEF t
    <2>2. Commitments(t) \in Seq(NoteCommitments)
        BY <1>5, CommitmentsType
    <2>3. (B \o Flat(CommitmentsOf(b), i - 1)) \o Commitments(t) = B \o (Flat(CommitmentsOf(b), i - 1) \o Commitments(t))
        <3> DEFINE x == Flat(CommitmentsOf(b), i - 1)
                   y == Commitments(t)
        <3>1. x \in Seq(NoteCommitments) /\ y \in Seq(NoteCommitments) /\ B \in Seq(NoteCommitments)
            BY Zenon, <2>1, <2>2
        <3> HIDE DEF x, y
        <3>2. (B \o x) \o y = B \o (x \o y)
            BY SMTT(60), <3>1, ConcatAssoc
        <3> QED BY Zenon, <3>2 DEF x, y
    <2> QED BY Zenon, <1>2, <1>8, <2>1, <2>3
<1> QED BY Zenon, <1>9, <1>10, <1>11, <1>12

(* A block that connects fits, and leaves the transactions before it and its own. *)
BeforeBlock(b, h, C, H, B) ==
    Closed(C) /\ At(b, 1) \notin C /\ B \in Seq(NoteCommitments) /\ \A u \in TxIds \ C : H[u] = h
AfterBlock(r, b, C, H, A, B) ==
    /\ Fits(C, b)
    /\ r.view = PushAnchor(ViewOf(C \cup TxsIn(b), H, A, B), B \o BlockCommitments(b))
    /\ r.undo = [vtxundo |-> UndoBlock(C, b, H), old_tree_root |-> B]

LEMMA ConnectBlockForm ==
    ASSUME LedgerAssumption, NEW C, NEW b \in BlockIds, NEW H, NEW A, NEW B, NEW h,
           BeforeBlock(b, h, C, H, B), ConnectBlock(ViewOf(C, H, A, B), b, h).ok
    PROVE  AfterBlock(ConnectBlock(ViewOf(C, H, A, B), b, h), b, C, H, A, B)
<1> DEFINE v == ViewOf(C, H, A, B)
           n == NTxs(b)
           f == ConnectTxs(v, b, h)
           r == ConnectBlock(v, b, h)
           P == {i \in 0 .. n : ConnectedTo(f[i], C, b, i, H, A, B)}
<1>1. n \in Nat /\ v.best = B
    BY BlockFacts DEF ViewOf, View
<1>2. Closed(C) /\ At(b, 1) \notin C /\ B \in Seq(NoteCommitments) /\ \A u \in TxIds \ C : H[u] = h
    BY DEF BeforeBlock
<1>3. f[0] = ConnectFirst(v, b) /\ \A i \in 1 .. n : f[i] = ConnectTx(f[i - 1], At(b, i), h)
    BY ConnectTxsSteps
<1>4. 0 \in P
    <2>1. f[0] = ConnectFirst(v, b)
        BY <1>3
    <2>2. CAt(C, b, 0) = C /\ Flat(CommitmentsOf(b), 0) = <<>> /\ B \o <<>> = B
        BY <1>2, CAtEnds, BlockFlat, ConcatFacts
    <2> HIDE DEF v, f
    <2>3. /\ "ok" \in DOMAIN f[0] /\ f[0].view = v /\ f[0].vtxundo = <<>> /\ f[0].tree = B
        <3>1. /\ "ok" \in DOMAIN ConnectFirst(v, b) /\ ConnectFirst(v, b).view = v
              /\ ConnectFirst(v, b).vtxundo = <<>> /\ ConnectFirst(v, b).tree = v.best
            BY Zenon DEF ConnectFirst
        <3> QED BY Zenon, <1>1, <2>1, <3>1
    <2>4. FitsTo(C, b, 0)
        BY DEF FitsTo
    <2>5. <<>> = [k \in 1 .. 0 |-> UndoAt(C, b, k, H)]
        OBVIOUS
    <2>6. v = ViewOf(CAt(C, b, 0), H, A, B) /\ B = B \o Flat(CommitmentsOf(b), 0)
        BY Zenon, <2>2 DEF v
    <2>7. ConnectedTo(f[0], C, b, 0, H, A, B)
        BY Zenon, <2>3, <2>4, <2>5, <2>6 DEF ConnectedTo
    <2> QED BY <1>1, <2>7
<1>5. ASSUME NEW i \in 1 .. n, i - 1 \in P PROVE i \in P
    <2>1. f[i] = ConnectTx(f[i - 1], At(b, i), h)
        BY Zenon, <1>3
    <2>2. ConnectedTo(f[i - 1], C, b, i - 1, H, A, B)
        BY <1>5
    <2> HIDE DEF f
    <2>3. ConnectedTo(ConnectTx(f[i - 1], At(b, i), h), C, b, i, H, A, B)
        BY <1>2, <2>2, ConnectedStep
    <2>4. ConnectedTo(f[i], C, b, i, H, A, B)
        BY Zenon, <2>1, <2>3
    <2> QED BY <1>1, <2>4
<1>6. ConnectedTo(f[n], C, b, n, H, A, B)
    <2>1. \A i \in 0 .. n : i \in P
        <3> HIDE DEF P, n
        <3> QED BY <1>1, <1>4, <1>5, HoldsUp
    <2> QED BY <1>1, <2>1
<1>7. r = [ok   |-> f[n].ok /\ GetValueOut(Block[b].vtx[1]) <= f[n].fees + GetBlockSubsidy(h),
           view |-> PushAnchor(f[n].view, f[n].tree),
           undo |-> [vtxundo |-> f[n].vtxundo, old_tree_root |-> v.best]]
    BY Zenon DEF ConnectBlock, NTxs
<1> DEFINE low == GetValueOut(Block[b].vtx[1]) <= f[n].fees + GetBlockSubsidy(h)
<1> HIDE DEF f, n, r, v, low
<1>8. /\ r.ok => f[n].ok
      /\ r.view = PushAnchor(f[n].view, f[n].tree)
      /\ r.undo = [vtxundo |-> f[n].vtxundo, old_tree_root |-> v.best]
    <2>1. r = [ok |-> f[n].ok /\ low, view |-> PushAnchor(f[n].view, f[n].tree),
               undo |-> [vtxundo |-> f[n].vtxundo, old_tree_root |-> v.best]]
        BY Zenon, <1>7 DEF low
    <2>2. r.ok = (f[n].ok /\ low)
        BY <2>1
    <2>3. /\ r.view = PushAnchor(f[n].view, f[n].tree)
          /\ r.undo = [vtxundo |-> f[n].vtxundo, old_tree_root |-> v.best]
        BY SMTT(60), <2>1
    <2> QED BY Zenon, <2>2, <2>3
<1>9. f[n].ok
    BY <1>8 DEF r, v
<1>10. /\ FitsTo(C, b, n)
      /\ f[n].view = ViewOf(CAt(C, b, n), H, A, B)
      /\ f[n].vtxundo = [k \in 1 .. n |-> UndoAt(C, b, k, H)]
      /\ f[n].tree = B \o Flat(CommitmentsOf(b), n)
    BY Zenon, <1>6, <1>9 DEF ConnectedTo
<1>11. CAt(C, b, n) = C \cup TxsIn(b) /\ BlockCommitments(b) = Flat(CommitmentsOf(b), n)
    <2>1. CAt(C, b, NTxs(b)) = C \cup TxsIn(b)
        BY Zenon, CAtEnds
    <2>2. BlockCommitments(b) = Flat(CommitmentsOf(b), NTxs(b))
        BY Zenon, BlockFlat
    <2> QED BY Zenon, <2>1, <2>2 DEF n
<1>12. r.view = PushAnchor(ViewOf(C \cup TxsIn(b), H, A, B), B \o BlockCommitments(b))
    BY Zenon, <1>8, <1>10, <1>11
<1>13. r.undo = [vtxundo |-> UndoBlock(C, b, H), old_tree_root |-> B]
    BY Zenon, <1>1, <1>8, <1>10 DEF UndoBlock, n
<1> QED BY Zenon, <1>10, <1>12, <1>13 DEF Fits, AfterBlock, r, v, n

(* DisconnectBlock's loop, with the undo data that ConnectBlock made. *)
LEMMA DisconnectTxsForm ==
    ASSUME LedgerAssumption, NEW C, NEW b \in BlockIds, NEW H, NEW h \in Nat \ {0}, Closed(C), Fits(C, b),
           \A t \in C : H[t] \in Nat \ {0}, \A t \in TxsIn(b) : H[t] = h,
           NEW v, v.coins = CoinsOf(C \cup TxsIn(b), SpentBy(C \cup TxsIn(b)), H), v.nullifiers = NullifiersOf(C \cup TxsIn(b)),
           NEW u, u.vtxundo = UndoBlock(C, b, H)
    PROVE  DisconnectTxs(v, b, h, u)[0] = PartOf(C, H)
<1> DEFINE n == NTxs(b)
           g == [i \in 0 .. n |-> PartOf(CAt(C, b, i), H)]
           last == [coins |-> v.coins, clean |-> TRUE, nullifiers |-> v.nullifiers]
           f == DisconnectTxs(v, b, h, u)
           U == u.vtxundo
<1>1. n \in Nat
    BY BlockFacts
<1>2. CAt(C, b, 0) = C /\ CAt(C, b, n) = C \cup TxsIn(b)
    BY Zenon, CAtEnds
<1>3. g[n] = last
    <2>1. g[n] = PartOf(CAt(C, b, n), H)
        BY <1>1
    <2>2. PartOf(C \cup TxsIn(b), H) = last
        BY Zenon DEF PartOf
    <2> HIDE DEF g, last, n
    <2> QED BY Zenon, <1>2, <2>1, <2>2
<1>4. ASSUME NEW i \in 0 .. n - 1 PROVE g[i] = DisconnectTx(g[i + 1], At(b, i + 1), h, U[i + 1])
    <2> DEFINE j == i + 1
               D == CAt(C, b, i)
               t == At(b, j)
    <2>1. j \in 1 .. n /\ j \in 0 .. n /\ i \in 0 .. n /\ j - 1 = i
        BY <1>1
    <2>2. g[i] = PartOf(D, H) /\ g[j] = PartOf(CAt(C, b, j), H)
        BY <2>1
    <2> HIDE DEF j, D, g
    <2>3. t \in TxIds /\ CAt(C, b, j) = Plus(D, t)
        <3>1. CAt(C, b, j) = Plus(CAt(C, b, j - 1), At(b, j)) /\ At(b, j) \in TxIds
            BY Zenon, <2>1, CAtStep
        <3> QED BY Zenon, <2>1, <3>1 DEF D
    <2>4. FitsTx(D, t)
        <3>1. FitsTx(CAt(C, b, j - 1), At(b, j))
            BY <2>1 DEF Fits, FitsTo
        <3> QED BY Zenon, <2>1, <3>1 DEF D
    <2>5. Closed(D)
        <3>1. n \in 0 .. NTxs(b) /\ FitsTo(C, b, n)
            BY SMTT(60), <1>1 DEF Fits
        <3>2. \A k \in 0 .. n : Closed(CAt(C, b, k))
            BY SMTT(60), <3>1, ClosedAt
        <3> QED BY Zenon, <2>1, <3>2 DEF D
    <2>6. H[t] = h
        <3>1. t \in TxsIn(b)
            BY SMTT(60), <2>1, BlockFacts
        <3> QED BY SMTT(60), <3>1
    <2>7. ASSUME NEW w \in D PROVE H[w] \in Nat \ {0}
        <3>1. w \in C \/ w \in TxsIn(b)
            <4>1. \A k \in 1 .. i : At(b, k) \in TxsIn(b)
                <5>1. \A k \in 1 .. i : k \in 1 .. NTxs(b)
                    BY SMTT(60), <1>1
                <5>2. \A k \in 1 .. NTxs(b) : At(b, k) \in TxsIn(b)
                    BY BlockFacts
                <5> QED BY Zenon, <5>1, <5>2
            <4> QED BY <4>1 DEF D, CAt
        <3> QED BY SMTT(60), <3>1
    <2>8. DisconnectTx(PartOf(Plus(D, t), H), t, H[t], UndoTx(t, D, SpentBy(D), H)) = PartOf(D, H)
        <3> HIDE DEF t
        <3> QED BY Zenon, <2>3, <2>4, <2>5, <2>7, DisconnectTxForm
    <2>9. U[j] = UndoTx(t, D, SpentBy(D), H)
        <3>1. U[j] = UndoAt(C, b, j, H)
            BY <2>1 DEF UndoBlock
        <3> QED BY Zenon, <2>1, <3>1 DEF UndoAt, D
    <2>10. g[i] = DisconnectTx(g[j], t, h, U[j])
        <3> HIDE DEF U, t
        <3> QED BY Zenon, <2>2, <2>3, <2>6, <2>8, <2>9
    <2> QED BY <2>10 DEF j
<1>5. g = [j \in 0 .. n |-> IF j = n THEN last ELSE DisconnectTx(g[j + 1], At(b, j + 1), h, U[j + 1])]
    <2>1. g = [j \in 0 .. n |-> g[j]]
        BY SMTT(60)
    <2> HIDE DEF g, last, n, U
    <2>2. ASSUME NEW j \in 0 .. n PROVE g[j] = IF j = n THEN last ELSE DisconnectTx(g[j + 1], At(b, j + 1), h, U[j + 1])
        <3>1. j = n \/ j \in 0 .. n - 1
            BY <1>1
        <3> QED BY SMTT(60), <1>1, <1>3, <1>4, <3>1
    <2> QED BY Zenon, <2>1, <2>2
<1>6. f = [j \in 0 .. n |-> IF j = n THEN last ELSE DisconnectTx(f[j + 1], At(b, j + 1), h, U[j + 1])]
    <2> HIDE DEF g
    <2> QED BY Zenon, <1>5 DEF DisconnectTxs, At, NTxs
<1>7. f[0] = g[0]
    <2> HIDE DEF g, f, n, last, U
    <2>1. f[n] = last /\ \A j \in 0 .. n - 1 : f[j] = DisconnectTx(f[j + 1], At(b, j + 1), h, U[j + 1])
        BY SMTT(60), <1>1, <1>6
    <2>2. \A j \in 0 .. n - 1 : f[j + 1] = g[j + 1] => f[j] = g[j]
        BY SMTT(60), <1>4, <2>1
    <2>3. \A j \in 0 .. n : f[j] = g[j]
        BY SMTT(60), <1>1, <1>3, <2>1, <2>2, SameDown
    <2> QED BY SMTT(60), <1>1, <2>3
<1>8. g[0] = PartOf(CAt(C, b, 0), H)
    BY <1>1
<1> HIDE DEF f, g
<1> QED BY Zenon, <1>2, <1>7, <1>8 DEF f

Connected(b, h, C, H) ==
    Closed(C) /\ Fits(C, b) /\ (\A t \in C : H[t] \in Nat \ {0}) /\ (\A t \in TxsIn(b) : H[t] = h)
Undone(d, v) == d.clean = TRUE /\ d.view = v
UndoData(b, C, H, R) == [vtxundo |-> UndoBlock(C, b, H), old_tree_root |-> R]

LEMMA DisconnectBlockForm ==
    ASSUME LedgerAssumption, NEW C, NEW b \in BlockIds, NEW H, NEW h \in Nat \ {0}, Connected(b, h, C, H),
           NEW A, NEW B, NEW R
    PROVE  Undone(DisconnectBlock(ViewOf(C \cup TxsIn(b), H, A, B), b, h, UndoData(b, C, H, R)),
                  PopAnchor(ViewOf(C, H, A, B), R))
<1> DEFINE D == C \cup TxsIn(b)
           v == ViewOf(D, H, A, B)
           U == UndoBlock(C, b, H)
           u == [vtxundo |-> U, old_tree_root |-> R]
           d == DisconnectBlock(v, b, h, u)
           all == DisconnectTxs(v, b, h, u)[0]
<1>1. v.coins = CoinsOf(D, SpentBy(D), H) /\ v.nullifiers = NullifiersOf(D) /\ u.vtxundo = U /\ u.old_tree_root = R
    BY DEF ViewOf, View
<1>2. d = [clean |-> all.clean,
           view |-> PopAnchor([v EXCEPT !.coins = all.coins, !.nullifiers = all.nullifiers], u.old_tree_root)]
    BY Zenon DEF DisconnectBlock
<1>3. SetSpent(v, all.coins, all.nullifiers) = View(all.coins, all.nullifiers, A, B)
    BY SMTT(60), ViewFields DEF ViewOf
<1> HIDE DEF v, u, d
<1>4. all = PartOf(C, H)
    BY <1>1, DisconnectTxsForm DEF Connected
<1> HIDE DEF all
<1>5. all.clean = TRUE /\ all.coins = CoinsOf(C, SpentBy(C), H) /\ all.nullifiers = NullifiersOf(C)
    BY <1>4 DEF PartOf
<1>6. SetSpent(v, all.coins, all.nullifiers) = ViewOf(C, H, A, B)
    BY Zenon, <1>3, <1>5 DEF ViewOf
<1>7. d = [clean |-> all.clean, view |-> PopAnchor(SetSpent(v, all.coins, all.nullifiers), u.old_tree_root)]
    BY Zenon, <1>2 DEF SetSpent
<1>8. d = [clean |-> TRUE, view |-> PopAnchor(ViewOf(C, H, A, B), R)]
    BY Zenon, <1>1, <1>5, <1>6, <1>7
<1>9. d.clean = TRUE /\ d.view = PopAnchor(ViewOf(C, H, A, B), R)
    BY <1>8
<1> QED BY Zenon, <1>9 DEF d, v, u, Undone, UndoData

=============================================================================
