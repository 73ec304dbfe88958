---------------------------- MODULE BlockMerkle -----------------------------
(***************************************************************************)
(* The merkle trees of a block's transactions (primitives/block.cpp) and   *)
(* the partial trees that prove some of them to a client with a filter     *)
(* (merkleblock.cpp).  An odd level is completed by repeating its last     *)
(* hash, so different lists of transactions can have the same root; the    *)
(* mutated flag is to catch that.                                          *)
(*                                                                         *)
(* Hash is symbolic and has no collisions; a transaction is its id.        *)
(***************************************************************************)
EXTENDS Integers, Sequences, SequencesExt, FiniteSetsExt

CONSTANTS
    Lists,      \* the lists of transactions to build blocks from
    Bad         \* uint256(): what ExtractMatches returns for a bad tree

VARIABLES
    vtx,        \* the block's transactions
    message,    \* the partial tree on its way: [n, bits, hashes], or Bad
    proved      \* what the client has: [root, matches, wanted]

vars == <<vtx, message, proved>>

Txid(t)    == <<t>>
Hash(a, b) == <<a, b>>
Half(n)    == (n + 1) \div 2

-----------------------------------------------------------------------------
(* CBlock.  The levels of vMerkleTree, the leaves first.                   *)

NextLevel(level) ==
    [i \in 1..Half(Len(level)) |-> Hash(level[2 * i - 1], level[Min({2 * i, Len(level)})])]

RECURSIVE LevelsFrom(_)
LevelsFrom(level) == IF Len(level) <= 1 THEN <<level>> ELSE <<level>> \o LevelsFrom(NextLevel(level))

vMerkleTree(list) == LevelsFrom([i \in DOMAIN list |-> Txid(list[i])])
BuildMerkleTree(list) == Last(vMerkleTree(list))[1]

\* Mutant: only the transactions are compared, not the inner levels.
fMutatedLeaves(list) ==
    LET n == Len(list) IN n > 1 /\ n % 2 = 0 /\ list[n - 1] = list[n]

\* Two identical hashes at the end of a level that is even.
fMutated(list) ==
    \E level \in Range(vMerkleTree(list)) :
        LET n == Len(level) IN n > 1 /\ n % 2 = 0 /\ level[n - 1] = level[n]

\* Positions are numbered from 0; nIndex^1 is the sibling's.
Sibling(n) == IF n % 2 = 0 THEN n + 1 ELSE n - 1

RECURSIVE BranchFrom(_, _)
BranchFrom(levels, nIndex) ==
    IF Len(levels) <= 1 THEN <<>>
    ELSE <<Head(levels)[Min({Sibling(nIndex), Len(Head(levels)) - 1}) + 1]>> \o BranchFrom(Tail(levels), nIndex \div 2)

GetMerkleBranch(list, nIndex) == BranchFrom(vMerkleTree(list), nIndex)

RECURSIVE CheckMerkleBranch(_, _, _)
CheckMerkleBranch(hash, branch, nIndex) ==
    IF branch = <<>> THEN hash
    ELSE CheckMerkleBranch(IF nIndex % 2 = 1 THEN Hash(Head(branch), hash) ELSE Hash(hash, Head(branch)),
                           Tail(branch), nIndex \div 2)

-----------------------------------------------------------------------------
(* CPartialMerkleTree.                                                     *)

RECURSIVE Pow2(_)
Pow2(n) == IF n = 0 THEN 1 ELSE 2 * Pow2(n - 1)

CalcTreeWidth(n, height) == (n + Pow2(height) - 1) \div Pow2(height)
TreeHeight(n) == Min({h \in 0..n : CalcTreeWidth(n, h) <= 1})

RECURSIVE CalcHash(_, _, _)
CalcHash(list, height, pos) ==
    IF height = 0 THEN Txid(list[pos + 1])
    ELSE LET left == CalcHash(list, height - 1, pos * 2)
         IN Hash(left, IF pos * 2 + 1 < CalcTreeWidth(Len(list), height - 1)
                       THEN CalcHash(list, height - 1, pos * 2 + 1) ELSE left)

\* t is [bits, hashes]; match is the set of positions that match.
RECURSIVE TraverseAndBuild(_, _, _, _, _)
TraverseAndBuild(t, list, match, height, pos) ==
    LET parent == \E p \in match : pos * Pow2(height) <= p /\ p < (pos + 1) * Pow2(height)
        marked == [t EXCEPT !.bits = Append(@, parent)]
    IN IF height = 0 \/ ~parent
       THEN [marked EXCEPT !.hashes = Append(@, CalcHash(list, height, pos))]
       ELSE LET l == TraverseAndBuild(marked, list, match, height - 1, pos * 2)
            IN IF pos * 2 + 1 < CalcTreeWidth(Len(list), height - 1)
               THEN TraverseAndBuild(l, list, match, height - 1, pos * 2 + 1) ELSE l

\* Serialised, the bits fill whole bytes.
Padded(bits) == bits \o [i \in 1..((8 - (Len(bits) % 8)) % 8) |-> FALSE]

\* x is [nBits, nHash, match, bad, hash]: what has been used, found, and the hash of this node.
RECURSIVE TraverseAndExtract(_, _, _, _)
TraverseAndExtract(t, x, height, pos) ==
    IF x.nBits >= Len(t.bits) THEN [x EXCEPT !.bad = TRUE, !.hash = Bad]
    ELSE LET parent == t.bits[x.nBits + 1]
             y      == [x EXCEPT !.nBits = @ + 1]
         IN IF height = 0 \/ ~parent
            THEN IF y.nHash >= Len(t.hashes) THEN [y EXCEPT !.bad = TRUE, !.hash = Bad]
                 ELSE LET hash == t.hashes[y.nHash + 1]
                      IN [y EXCEPT !.nHash = @ + 1, !.hash = hash,
                                   !.match = IF height = 0 /\ parent THEN Append(@, hash) ELSE @]
            ELSE LET l == TraverseAndExtract(t, y, height - 1, pos * 2)
                     r == IF pos * 2 + 1 < CalcTreeWidth(t.n, height - 1)
                          THEN LET right == TraverseAndExtract(t, l, height - 1, pos * 2 + 1)
                               IN [right EXCEPT !.bad = @ \/ right.hash = l.hash]
                          ELSE l
                 IN [r EXCEPT !.hash = Hash(l.hash, r.hash)]

Bytes(n) == (n + 7) \div 8

ExtractMatches(t) ==
    LET x == TraverseAndExtract(t, [nBits |-> 0, nHash |-> 0, match |-> <<>>, bad |-> FALSE, hash |-> Bad],
                                TreeHeight(t.n), 0)
    IN IF \/ t.n = 0
          \/ Len(t.hashes) > t.n
          \/ Len(t.bits) < Len(t.hashes)
          \/ x.bad
          \/ Bytes(x.nBits) # Bytes(Len(t.bits))
          \/ x.nHash # Len(t.hashes)
       THEN Bad
       ELSE [root |-> x.hash, match |-> x.match]

-----------------------------------------------------------------------------
(* Behaviour: a node answers a filtered request, the client checks it.     *)

Init ==
    /\ vtx \in Lists
    /\ message = Bad
    /\ proved = Bad

\* CMerkleBlock(block, filter) and its serialisation.
SendMerkleBlock(match) ==
    /\ message = Bad
    /\ LET t == TraverseAndBuild([bits |-> <<>>, hashes |-> <<>>], vtx, match, TreeHeight(Len(vtx)), 0)
       IN message' = [n |-> Len(vtx), bits |-> Padded(t.bits), hashes |-> t.hashes, wanted |-> match]
    /\ UNCHANGED <<vtx, proved>>

ReceiveMerkleBlock ==
    /\ message # Bad
    /\ proved = Bad
    /\ proved' = [result |-> ExtractMatches(message), wanted |-> message.wanted]
    /\ UNCHANGED <<vtx, message>>

Next == (\E match \in SUBSET (0..(Len(vtx) - 1)) : SendMerkleBlock(match)) \/ ReceiveMerkleBlock

Spec == Init /\ [][Next]_vars

-----------------------------------------------------------------------------
(* Properties.                                                             *)

Unique(list) == \A i, j \in DOMAIN list : list[i] = list[j] => i = j

\* The branch of every transaction leads to the root, which is the one the partial tree uses;
\* and of two lists with the same root at least one is flagged as mutated.
RootsBindTransactions ==
    /\ CalcHash(vtx, TreeHeight(Len(vtx)), 0) = BuildMerkleTree(vtx)
    /\ \A i \in 0..(Len(vtx) - 1) :
          CheckMerkleBranch(Txid(vtx[i + 1]), GetMerkleBranch(vtx, i), i) = BuildMerkleTree(vtx)
    /\ message = Bad /\ ~fMutated(vtx) =>
          \A other \in Lists \ {vtx} : BuildMerkleTree(other) = BuildMerkleTree(vtx) => fMutated(other)

\* A client extracts from the partial tree of a block without repeated transactions the
\* block's root and exactly the transactions that matched, in their order.
PartialTreesProve ==
    proved # Bad /\ Unique(vtx) =>
        /\ proved.result # Bad
        /\ proved.result.root = BuildMerkleTree(vtx)
        /\ proved.result.match = [i \in 1..Len(SetToSortSeq(proved.wanted, <)) |->
                                     Txid(vtx[SetToSortSeq(proved.wanted, <)[i] + 1])]

=============================================================================
