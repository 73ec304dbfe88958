--------------------------- MODULE CommitmentTree ---------------------------
(***************************************************************************)
(* The note commitment tree and the witnesses into it                      *)
(* (zcash/IncrementalMerkleTree).  A tree of 2^Depth leaves is kept as its *)
(* frontier: the last one or two leaves and the collapsed left subtrees    *)
(* above them.  A witness is a copy of the tree made right after its leaf, *)
(* and collects the subtrees to the right as they fill up, the one that is *)
(* filling being a tree of its own, the cursor.  The wallet writes its     *)
(* witnesses to disk and reads them back at any time.                      *)
(*                                                                         *)
(* combine is symbolic and has no collisions: a hash is a term.            *)
(***************************************************************************)
EXTENDS Integers, Sequences, SequencesExt

CONSTANTS
    TreeWorlds,     \* [depth |-> Depth, witnesses |-> how many may be made, reloads |-> how many times one is read back]
    None

VARIABLES
    limits,     \* the world chosen
    tree,       \* [left, right, parents]
    witnesses,  \* the witnesses: [tree, filled, cursor, cursor_depth, pos]; pos is where its leaf is
    count       \* observation: the number of leaves

vars == <<limits, tree, witnesses, count>>

Depth         == limits.depth
Leaf(i)       == <<i>>
combine(a, b) == <<a, b>>

\* EmptyMerkleRoots
empty_root(d) ==
    LET E[i \in 0..d] == IF i = 0 THEN Leaf(0) ELSE combine(E[i - 1], E[i - 1]) IN E[d]

EmptyTree == [left |-> None, right |-> None, parents |-> <<>>]

-----------------------------------------------------------------------------
(* IncrementalMerkleTree.                                                  *)

is_complete(t, depth) ==
    /\ t.left # None /\ t.right # None
    /\ Len(t.parents) = depth - 1
    /\ \A i \in DOMAIN t.parents : t.parents[i] # None

\* The carry of append: full parents are combined and emptied, the first free place takes it.
RECURSIVE Carry(_, _, _)
Carry(parents, i, combined) ==
    IF i > Len(parents) THEN Append(parents, combined)
    ELSE IF parents[i] # None
         THEN Carry([parents EXCEPT ![i] = None], i + 1, combine(parents[i], combined))
         ELSE [parents EXCEPT ![i] = combined]

append(t, obj) ==
    IF t.left = None THEN [t EXCEPT !.left = obj]
    ELSE IF t.right = None THEN [t EXCEPT !.right = obj]
    ELSE [left |-> obj, right |-> None, parents |-> Carry(t.parents, 1, combine(t.left, t.right))]

last(t) == IF t.right # None THEN t.right ELSE t.left

RECURSIVE Pow2(_)
Pow2(n) == IF n = 0 THEN 1 ELSE 2 * Pow2(n - 1)

size(t) ==
    LET Bit(x) == IF x = None THEN 0 ELSE 1
    IN FoldLeft(+, Bit(t.left) + Bit(t.right), [i \in DOMAIN t.parents |-> Pow2(i) * Bit(t.parents[i])])

\* Mutant: the places already filled are not skipped.
next_depthFirst(t, skip) ==
    LET free == SelectSeq([i \in 1..(Len(t.parents) + 2) |-> i],
                          LAMBDA i : \/ i = 1 /\ t.left = None
                                     \/ i = 2 /\ t.right = None
                                     \/ i > 2 /\ t.parents[i - 2] = None)
    IN IF free # <<>>
       THEN IF Head(free) <= 2 THEN 0 ELSE Head(free) - 2
       ELSE Len(t.parents) + 1 + skip

\* The depth of the next unfilled subtree after skip of them have been filled.
next_depth(t, skip) ==
    LET free == SelectSeq([i \in 1..(Len(t.parents) + 2) |-> i],
                          LAMBDA i : \/ i = 1 /\ t.left = None
                                     \/ i = 2 /\ t.right = None
                                     \/ i > 2 /\ t.parents[i - 2] = None)
    IN IF skip < Len(free)
       THEN IF free[skip + 1] <= 2 THEN 0 ELSE free[skip + 1] - 2
       ELSE Len(t.parents) + 1 + (skip - Len(free))

\* root and path walk up the tree with a PathFiller, which gives the filler hashes while there
\* are some and empty roots afterwards.  w is [node, filler].
Filler(filler, d) == IF filler # <<>> THEN Head(filler) ELSE empty_root(d)
Rest(filler)      == IF filler # <<>> THEN Tail(filler) ELSE filler

UncleAt(t, d) == IF d <= Len(t.parents) THEN t.parents[d] ELSE None

RECURSIVE RootFrom(_, _, _, _, _)
RootFrom(t, d, depth, node, filler) ==
    IF d >= depth /\ d > Len(t.parents) THEN node
    ELSE IF UncleAt(t, d) # None
         THEN RootFrom(t, d + 1, depth, combine(UncleAt(t, d), node), filler)
         ELSE RootFrom(t, d + 1, depth, combine(node, Filler(filler, d)), Rest(filler))

root(t, depth, filler) ==
    LET f1 == IF t.left = None THEN Rest(filler) ELSE filler
        l  == IF t.left = None THEN Filler(filler, 0) ELSE t.left
        r  == IF t.right = None THEN Filler(f1, 0) ELSE t.right
        f2 == IF t.right = None THEN Rest(f1) ELSE f1
    IN RootFrom(t, 1, depth, combine(l, r), f2)

\* The path from the leaf up: [index |-> whether the node is a right child, hash |-> its sibling].
RECURSIVE PathFrom(_, _, _)
PathFrom(t, d, filler) ==
    IF d >= Depth THEN <<>>
    ELSE IF UncleAt(t, d) # None
         THEN <<[index |-> TRUE, hash |-> UncleAt(t, d)]>> \o PathFrom(t, d + 1, filler)
         ELSE <<[index |-> FALSE, hash |-> Filler(filler, d)]>> \o PathFrom(t, d + 1, Rest(filler))

path(t, filler) ==
    IF t.right # None
    THEN <<[index |-> TRUE, hash |-> t.left]>> \o PathFrom(t, 1, filler)
    ELSE <<[index |-> FALSE, hash |-> Filler(filler, 0)]>> \o PathFrom(t, 1, Rest(filler))

wfcheck(t) ==
    /\ Len(t.parents) < Depth
    /\ t.parents # <<>> => Last(t.parents) # None
    /\ t.left = None => t.right = None /\ t.parents = <<>>

-----------------------------------------------------------------------------
(* IncrementalWitness.                                                     *)

witness(t) == [tree |-> t, filled |-> <<>>, cursor |-> None, cursor_depth |-> 0, pos |-> count]

partial_path(w) ==
    IF w.cursor = None THEN w.filled ELSE Append(w.filled, root(w.cursor, w.cursor_depth, <<>>))

\* A witness that throws is left as it is: its cursor_depth tells.
WitnessAppend(w, obj) ==
    IF w.cursor # None
    THEN LET c == append(w.cursor, obj)
         IN IF is_complete(c, w.cursor_depth)
            THEN [w EXCEPT !.filled = Append(@, root(c, w.cursor_depth, <<>>)), !.cursor = None]
            ELSE [w EXCEPT !.cursor = c]
    ELSE LET d == next_depth(w.tree, Len(w.filled))
         IN IF d >= Depth THEN [w EXCEPT !.cursor_depth = d]
            ELSE IF d = 0 THEN [w EXCEPT !.cursor_depth = 0, !.filled = Append(@, obj)]
            ELSE [w EXCEPT !.cursor_depth = d, !.cursor = append(EmptyTree, obj)]

-----------------------------------------------------------------------------
(* Behaviour: as blocks are connected, their commitments go into the tree  *)
(* and into every witness; a note of the wallet gets a witness right after *)
(* its commitment.                                                         *)

Init ==
    /\ limits \in TreeWorlds
    /\ tree = EmptyTree
    /\ witnesses = <<>>
    /\ count = 0

AppendLeaf ==
    /\ ~is_complete(tree, Depth)
    /\ count' = count + 1
    /\ tree' = append(tree, Leaf(count + 1))
    /\ witnesses' = [i \in DOMAIN witnesses |-> WitnessAppend(witnesses[i], Leaf(count + 1))]
    /\ UNCHANGED limits

MakeWitness ==
    /\ count > 0
    /\ Len(witnesses) < limits.witnesses
    /\ \A i \in DOMAIN witnesses : witnesses[i].pos # count
    /\ witnesses' = Append(witnesses, witness(tree))
    /\ UNCHANGED <<limits, tree, count>>

\* The witness is written to the wallet's file and read back: cursor_depth is not written.
Reload(i) ==
    /\ limits.reloads > 0
    /\ limits' = [limits EXCEPT !.reloads = @ - 1]
    /\ witnesses' = [witnesses EXCEPT ![i].cursor_depth = next_depth(witnesses[i].tree, Len(witnesses[i].filled))]
    /\ UNCHANGED <<tree, count>>

Next == AppendLeaf \/ MakeWitness \/ \E i \in DOMAIN witnesses : Reload(i)

Spec == Init /\ [][Next]_vars

-----------------------------------------------------------------------------
(* Properties.                                                             *)

\* The tree of 2^Depth leaves that the frontier stands for, level by level.
FullTree ==
    LET L[d \in 0..Depth] ==
            IF d = 0 THEN [i \in 1..Pow2(Depth) |-> IF i <= count THEN Leaf(i) ELSE Leaf(0)]
            ELSE [i \in 1..Pow2(Depth - d) |-> combine(L[d - 1][2 * i - 1], L[d - 1][2 * i])]
    IN L

Authenticated(leaf, p) ==
    FoldLeft(LAMBDA node, s : IF s.index THEN combine(s.hash, node) ELSE combine(node, s.hash), leaf, p)

Position(p) == FoldLeft(+, 0, [d \in DOMAIN p |-> IF p[d].index THEN Pow2(d - 1) ELSE 0])

\* The frontier gives the root and the size of the full tree; every witness, however many leaves
\* came after it and whenever it was written out and read back, still has its own leaf, the
\* root of the whole tree, and a path of Depth hashes that leads from its leaf, at its
\* position, to that root; and both pass the checks of their deserialisation.
WitnessesAuthenticate ==
    LET full == FullTree[Depth][1]
    IN /\ root(tree, Depth, <<>>) = full
       /\ size(tree) = count
       /\ wfcheck(tree)
       /\ \A i \in DOMAIN witnesses :
             LET w == witnesses[i]
                 p == path(w.tree, partial_path(w))
             IN /\ last(w.tree) = Leaf(w.pos)
                /\ root(w.tree, Depth, partial_path(w)) = full
                /\ Len(p) = Depth
                /\ Authenticated(Leaf(w.pos), p) = full
                /\ Position(p) = w.pos - 1
                /\ wfcheck(w.tree)
                /\ w.cursor # None => wfcheck(w.cursor)

=============================================================================
