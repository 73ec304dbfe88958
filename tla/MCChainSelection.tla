------------------------- MODULE MCChainSelection -------------------------
(***************************************************************************)
(* A small block tree for TLC: on one side a block with two children, on   *)
(* the other a branch of three blocks.                                     *)
(***************************************************************************)
EXTENDS ChainSelection, TLC

CONSTANTS a1, a2, b1, b2, b3, c2

TreeBlocks == {a1, a2, b1, b2, b3, c2}
TreeParent == [b \in TreeBlocks |-> CASE b \in {a2, c2} -> a1 [] b = b2 -> b1 [] b = b3 -> b2
                                      [] OTHER -> Genesis]
TreeAddr   == [b \in TreeBlocks \cup {Genesis} |->
                 CASE b = a1 -> 1 [] b = a2 -> 2 [] b = b1 -> 3 [] b = b2 -> 4 [] b = b3 -> 5
                   [] b = c2 -> 6 [] OTHER -> 7]

\* Two blocks race with three, and some of them turn out to be bad.
Race == [mined |-> {a1, a2, b1, b2, b3}, mayFail |-> {a2, b1, b3}, verdicts |-> {"invalid", "context"},
         invalidated |-> {}, reconsidered |-> {}]

\* The same race while invalidateblock hits both branches.
Invalidating == [Race EXCEPT !.mayFail = {b3}, !.verdicts = {"invalid"}, !.invalidated = {a1, b2}]

\* invalidateblock and reconsiderblock on a block, its child and its child's sibling.
Reconsidering == [mined |-> {a1, a2, c2, b1}, mayFail |-> {}, verdicts |-> {},
                  invalidated |-> {a1, a2}, reconsidered |-> {a1, a2, c2}]

\* A block whose copy on disk may be damaged.
Damaged == [mined |-> {a1, a2, c2, b1}, mayFail |-> {a2}, verdicts |-> {"corrupt"},
            invalidated |-> {}, reconsidered |-> {}]

\* reconsiderblock on one child of an invalidated block.
Sibling == [Reconsidering EXCEPT !.invalidated = {a1}, !.reconsidered = {c2}]

AllWorlds    == {Race, Invalidating, Reconsidering, Damaged}
SiblingWorld == {Sibling}

\* The threads do the same.
ThreadSymmetry == Permutations(Threads)
=============================================================================
