------------------------------ MODULE Equihash ------------------------------
(***************************************************************************)
(* The proof of work (crypto/equihash.cpp): the two solvers, the check of  *)
(* a solution and the packing of its indices.                              *)
(*                                                                         *)
(* A hash is a sequence of K + 1 digits of CollisionBitLength bits, as     *)
(* ExpandArray lays it out; a row holds what is left of the exclusive or   *)
(* of its hashes, and its indices.  Which hash an index has is chosen as   *)
(* it is generated.  A byte has ByteBits bits (8), the accumulator of the  *)
(* packing WordBits (32), and a truncated index TruncBits (8).             *)
(* Cancelling a solver is left to the miner.                               *)
(***************************************************************************)
EXTENDS Integers, Sequences, FiniteSets, FiniteSetsExt, SequencesExt

CONSTANTS
    ByteBits, WordBits, TruncBits,
    HashWorlds          \* [K, CollisionBitLength, choices |-> index -> the hashes it may have]

VARIABLES
    eh,     \* the world chosen
    H       \* the hashes of the indices so far, index 0 first

vars == <<eh, H>>

K         == eh.K
BitLen    == eh.CollisionBitLength
init_size == 2 ^ (BitLen + 1)
Indices   == 0..(init_size - 1)

\* Exclusive or of two digits.
RECURSIVE Xor(_, _)
Xor(a, b) == IF a = 0 THEN b ELSE IF b = 0 THEN a
             ELSE ((a + b) % 2) + 2 * Xor(a \div 2, b \div 2)

-----------------------------------------------------------------------------
(* Packing: elements of bit_len bits into bytes and back.                  *)

CompressArray(in, bit_len) ==
    LET word == 2 ^ WordBits
        out(s, i) ==
            LET read == s.bits < ByteBits
                val  == IF read THEN (s.val * 2 ^ bit_len + in[s.j]) % word ELSE s.val
                bits == (IF read THEN s.bits + bit_len ELSE s.bits) - ByteBits
            IN [val |-> val, bits |-> bits, j |-> IF read THEN s.j + 1 ELSE s.j,
                out |-> Append(s.out, (val \div 2 ^ bits) % 2 ^ ByteBits)]
    IN FoldLeft(out, [val |-> 0, bits |-> 0, j |-> 1, out |-> <<>>], [i \in 1..((bit_len * Len(in)) \div ByteBits) |-> i]).out

ExpandArray(in, bit_len) ==
    LET take(s, byte) ==
            LET val  == (s.val * 2 ^ ByteBits + byte) % 2 ^ WordBits
                full == s.bits + ByteBits >= bit_len
                bits == s.bits + ByteBits - (IF full THEN bit_len ELSE 0)
            IN [val |-> val, bits |-> bits,
                out |-> IF full THEN Append(s.out, (val \div 2 ^ bits) % 2 ^ bit_len) ELSE s.out]
    IN FoldLeft(take, [val |-> 0, bits |-> 0, out |-> <<>>], in).out

GetMinimalFromIndices(indices) == CompressArray(indices, BitLen + 1)
GetIndicesFromMinimal(minimal) == ExpandArray(minimal, BitLen + 1)
SolutionWidth == (2 ^ K * (BitLen + 1)) \div ByteBits

TruncateIndex(i)      == i \div 2 ^ (BitLen + 1 - TruncBits)
UntruncateIndex(t, r) == t * 2 ^ (BitLen + 1 - TruncBits) + r
recreate_size         == UntruncateIndex(1, 0)

-----------------------------------------------------------------------------
(* Rows.                                                                   *)

Row(i)          == [hash |-> H[i + 1], ind |-> <<i>>]
TruncatedRow(i) == [hash |-> H[i + 1], ind |-> <<TruncateIndex(i)>>]

\* memcmp(a, b) < 0 of two sequences of the same length.
Before(a, b) ==
    \E i \in DOMAIN a : a[i] < b[i] /\ \A j \in 1..(i - 1) : a[j] = b[j]

HasCollision(a, b, l) == \A i \in 1..l : a.hash[i] = b.hash[i]
IsZero(a)             == \A i \in DOMAIN a.hash : a.hash[i] = 0
DistinctIndices(a, b) == \A i \in DOMAIN a.ind, j \in DOMAIN b.ind : a.ind[i] # b.ind[j]

\* Mutant: the indices are kept in the order of the rows.
CombinedAsFound(a, b, trim) ==
    [hash |-> [i \in 1..(Len(a.hash) - trim) |-> Xor(a.hash[i + trim], b.hash[i + trim])],
     ind  |-> a.ind \o b.ind]

\* The row made of two: trim digits fewer, the smaller indices first.
Combined(a, b, trim) ==
    [hash |-> [i \in 1..(Len(a.hash) - trim) |-> Xor(a.hash[i + trim], b.hash[i + trim])],
     ind  |-> IF Before(a.ind, b.ind) THEN a.ind \o b.ind ELSE b.ind \o a.ind]

\* std::sort by the first len digits; rows that agree in them may come in any order.
Sorted(X, len) == SortSeq(X, LAMBDA a, b : Before(SubSeq(a.hash, 1, len), SubSeq(b.hash, 1, len)))

\* How many rows from the i-th collide with it.
RunLength(X, i, len) ==
    Max({j \in 1..(Len(X) + 1 - i) : \A m \in 1..(j - 1) : HasCollision(X[i], X[i + m], len)})

\* The pairs of a run of j rows from the i-th, in the order of the two loops.
Pairs(i, j) ==
    FlattenSeq([l \in 1..(j - 1) |-> [m \in 1..(j - l) |-> <<i + l - 1, i + l + m - 1>>]])

IsProbablyDuplicate(ind) ==
    LET pair(s, z) ==
            LET ys == {y \in (z + 1)..Len(ind) : y \notin s.checked /\ ind[y] = ind[z]}
            IN IF z \in s.checked \/ ys = {} THEN s
               ELSE [checked |-> s.checked \cup {Min(ys)}, count |-> s.count + 2]
    IN FoldLeft(pair, [checked |-> {}, count |-> 0], [i \in DOMAIN ind |-> i]).count = Len(ind)

\* What is put into Xc for a colliding pair of rows: in each solver, and in CollideBranches.
BasicPair(a, b) == IF DistinctIndices(a, b) THEN <<Combined(a, b, 1)>> ELSE <<>>
TruncatedPair(a, b) ==
    LET c == Combined(a, b, 1)
    IN IF IsZero(c) /\ IsProbablyDuplicate(c.ind) THEN <<>> ELSE <<c>>

\* Steps 2d and 2e: move rows from the back of Xc to the table's free places below end.
Store(t, end) ==
    LET n == Min({Len(t.Xc), end - t.posFree})
        k == Len(t.Xc)
    IN [t EXCEPT !.X = [p \in DOMAIN t.X |-> IF p \in (t.posFree + 1)..(t.posFree + n) THEN t.Xc[k + 1 - (p - t.posFree)] ELSE @[p]],
                 !.posFree = @ + n,
                 !.Xc = SubSeq(@, 1, k - n)]

\* Steps 2b to 2d over the runs of the table from the i-th row on.
RECURSIVE Collide(_, _, _)
Collide(t, i, how) ==
    IF i >= Len(t.X) THEN t
    ELSE LET j     == RunLength(t.X, i, 1)
             found == FlattenSeq([p \in 1..((j * (j - 1)) \div 2) |->
                         LET q == Pairs(i, j)[p]
                         IN CASE how.kind = "full"      -> BasicPair(t.X[q[1]], t.X[q[2]])
                              [] how.kind = "truncated" -> TruncatedPair(t.X[q[1]], t.X[q[2]])
                              [] how.kind = "branches"  ->
                                   LET a == t.X[q[1]]
                                       b == t.X[q[2]]
                                       valid(x, tr) == TruncateIndex(x.ind[1]) = tr
                                   IN IF (valid(a, how.lt) /\ valid(b, how.rt)) \/ (valid(b, how.lt) /\ valid(a, how.rt))
                                      THEN BasicPair(a, b) ELSE <<>>])
         IN Collide(Store([t EXCEPT !.Xc = @ \o found], i + j - 1), i + j, how)

\* One round: the table is filled in place, and then cut or grown to fit.
Round(X, how) ==
    LET t == Collide([X |-> X, posFree |-> 0, Xc |-> <<>>], 1, how)
        u == Store(t, Len(t.X))
    IN SubSeq(u.X, 1, u.posFree) \o u.Xc

\* k+1) The pairs that collide on everything that is left.
RECURSIVE FinalPairs(_, _)
FinalPairs(X, i) ==
    IF i >= Len(X) THEN <<>>
    ELSE LET j == RunLength(X, i, Len(X[1].hash))
         IN [p \in DOMAIN Pairs(i, j) |-> <<X[Pairs(i, j)[p][1]], X[Pairs(i, j)[p][2]]>>] \o FinalPairs(X, i + j)

RECURSIVE Rounds(_, _, _)
Rounds(X, r, how) == IF r >= K \/ X = <<>> THEN X ELSE Rounds(Round(Sorted(X, 1), how), r + 1, how)

FirstList == [i \in 1..init_size |-> Row(i - 1)]
TruncatedList == [i \in 1..init_size |-> TruncatedRow(i - 1)]
FinalPairsOf(X) == IF Len(X) > 1 THEN FinalPairs(Sorted(X, Len(X[1].hash)), 1) ELSE <<>>

-----------------------------------------------------------------------------
(* The solvers: the solutions handed to validBlock when it accepts none.   *)

BasicSolve ==
    LET pairs == FinalPairsOf(Rounds(FirstList, 1, [kind |-> "full"]))
    IN {GetMinimalFromIndices(Combined(pairs[p][1], pairs[p][2], 0).ind) :
           p \in {q \in DOMAIN pairs : DistinctIndices(pairs[q][1], pairs[q][2])}}

PartialSolutions ==
    LET pairs == FinalPairsOf(Rounds(TruncatedList, 1, [kind |-> "truncated"]))
        solns == {Combined(pairs[p][1], pairs[p][2], 0).ind : p \in DOMAIN pairs}
    IN {s \in solns : ~IsProbablyDuplicate(s)}

\* The rows an index that was truncated to tr may stand for.
Recreated(tr) == [j \in 1..recreate_size |-> Row(UntruncateIndex(tr, j - 1))]

\* The rows of the subtree over the truncated indices ind, <<>> once one of its lists is empty.  X[r] is
\* merged after ic, and both subtrees are known by their first index.
RECURSIVE Recreate(_)
Recreate(ind) ==
    IF Len(ind) = 1 THEN Recreated(ind[1])
    ELSE LET half == Len(ind) \div 2
             xr   == Recreate(SubSeq(ind, 1, half))
             ic   == Recreate(SubSeq(ind, half + 1, Len(ind)))
         IN IF xr = <<>> \/ ic = <<>> THEN <<>>
            ELSE Round(Sorted(ic \o xr, Len(xr[1].hash)),
                       [kind |-> "branches", lt |-> ind[1], rt |-> ind[half + 1]])

OptimisedSolve ==
    UNION {{GetMinimalFromIndices(row.ind) : row \in Range(Recreate(s))} : s \in PartialSolutions}

-----------------------------------------------------------------------------
(* The check of a solution.                                                *)

RECURSIVE Collapse(_)
Collapse(X) ==
    IF Len(X) = 1 THEN IsZero(X[1])
    ELSE /\ \A i \in 1..(Len(X) \div 2) :
              LET a == X[2 * i - 1]
                  b == X[2 * i]
              IN HasCollision(a, b, 1) /\ ~Before(b.ind, a.ind) /\ DistinctIndices(a, b)
         /\ Collapse([i \in 1..(Len(X) \div 2) |-> Combined(X[2 * i - 1], X[2 * i], 1)])

IsValidSolution(soln) ==
    /\ Len(soln) = SolutionWidth
    /\ LET ind == GetIndicesFromMinimal(soln)
       IN Collapse([i \in DOMAIN ind |-> Row(ind[i])])

-----------------------------------------------------------------------------
Init == eh \in HashWorlds /\ H = <<>>

\* GenerateHash and the layout of its output: the next index gets its hash.
GenerateHash ==
    /\ Len(H) < init_size
    /\ \E h \in eh.choices[Len(H)] : H' = Append(H, h)
    /\ UNCHANGED eh

Next == GenerateHash
Spec == Init /\ [][Next]_vars

-----------------------------------------------------------------------------
(* What a solution is.                                                     *)

RECURSIVE XorAll(_, _)
XorAll(S, d) == IF S = {} THEN 0 ELSE LET i == Min(S) IN Xor(H[i + 1][d], XorAll(S \ {i}, d))

\* A tree of 2^level indices: the two halves are trees, share no index and are in order, and the
\* first level digits of the hashes cancel.
RECURSIVE Trees(_)
Trees(level) ==
    IF level = 0 THEN {<<i>> : i \in Indices}
    ELSE LET halves == Trees(level - 1)
         IN {t[1] \o t[2] : t \in {p \in halves \X halves :
             /\ p[1][1] < p[2][1]
             /\ Range(p[1]) \cap Range(p[2]) = {}
             /\ XorAll(Range(p[1]) \cup Range(p[2]), level) = 0}}

Solutions == {t \in Trees(K) : XorAll(Range(t), K + 1) = 0}

\* The subtrees of a solution above its leaves, itself included.
Subtrees(t) ==
    UNION {{SubSeq(t, (i - 1) * 2 ^ l + 1, i * 2 ^ l) : i \in 1..(2 ^ (K - l))} : l \in 1..K}
PairsUp(s) == IsProbablyDuplicate([i \in DOMAIN s |-> TruncateIndex(s[i])])

-----------------------------------------------------------------------------
(* Properties.                                                             *)

\* The basic solver finds every solution and nothing else, although each round builds the next table in
\* the place of the one it is reading; the optimised one, which forgets most of every index and finds it
\* again, misses a solution only when the truncated indices of one of its subtrees pair up.
SolversFindTheSolutions ==
    Len(H) = init_size =>
        LET solns == Solutions
            kept  == {t \in solns : \A s \in Subtrees(t) : ~PairsUp(s)}
        IN /\ BasicSolve = {GetMinimalFromIndices(t) : t \in solns}
           /\ {GetMinimalFromIndices(t) : t \in kept} \subseteq OptimisedSolve

\* A solution passes the check when its indices form such a tree, and no other sequence of indices does;
\* packing the indices loses none of them.
ChecksAcceptTheSolutions ==
    Len(H) = init_size =>
        LET near  == {p \in Indices \X Indices : H[p[1] + 1][1] = H[p[2] + 1][1]}
            solns == Solutions
        IN K = 2 => \A p, q \in near :
              LET t    == p \o q
                  soln == GetMinimalFromIndices(t)
              IN GetIndicesFromMinimal(soln) = t /\ IsValidSolution(soln) = (t \in solns)
=============================================================================
