------------------------------ MODULE SkipList ------------------------------
(***************************************************************************)
(* The skip list of LevelDB's memtable (leveldb/db/skiplist.h).  Inserts   *)
(* are serialised by the caller; readers take no lock at all and may walk  *)
(* the list while a node is being linked in, one level after the other.    *)
(* Every load and every store of a link is a step.                         *)
(*                                                                         *)
(* The links are published with release stores and read with acquire       *)
(* loads, and there is one writer: what a reader sees is what was stored   *)
(* up to some moment, so loads see the present state.  max_height_ is      *)
(* stored and loaded without a barrier: a reader may see it late, so a     *)
(* search starts from any height up to it.  A new node comes from the      *)
(* arena uninitialised: its links are Junk until they are set.             *)
(***************************************************************************)
EXTENDS Integers, FiniteSetsExt, FiniteSets

CONSTANTS
    ListKeys,   \* the keys that may be inserted, numbers greater than 0
    kMaxHeight,
    NULL, Junk

VARIABLES
    next_,      \* node -> level -> node: the links; head_ is 0 and a node is its key
    max_height_,
    writer,     \* Insert's progress
    reader,     \* a search's progress
    node,       \* the node an iterator is at, or NULL
    linked,     \* observation: the keys whose Insert has returned
    before      \* observation: what linked was when the reader's search began

vars == <<next_, max_height_, writer, reader, node, linked, before>>

head_    == 0
AllNodes == ListKeys \cup {head_}
Heights  == 1..kMaxHeight
Levels   == 0..(kMaxHeight - 1)
Idle     == [pc |-> "idle", key |-> 0, height |-> 0, level |-> 0]
AtRest   == [op |-> "none", done |-> TRUE, key |-> 0, x |-> head_, level |-> 0]

\* The node in front of key on a level, as FindGreaterOrEqual leaves it in prev for Insert: the
\* writer is the only one to change the list, so its own search is one step.
Prev(key, level) ==
    LET On[n \in AllNodes] ==
            LET m == next_[n][level] IN IF m \notin {NULL, Junk} /\ m < key THEN On[m] ELSE n
    IN On[head_]

-----------------------------------------------------------------------------
(* Insert.                                                                 *)

Init ==
    /\ next_ = [n \in AllNodes |-> [l \in Levels |-> IF n = head_ THEN NULL ELSE Junk]]
    /\ max_height_ = 1
    /\ writer = Idle
    /\ reader = AtRest
    /\ node = NULL
    /\ linked = {}
    /\ before = {}

\* Mutant: a node is published before its own links are set.
InsertPublishing(key, height) ==
    /\ writer = Idle
    /\ key \notin linked
    /\ max_height_' = Max({max_height_, height})
    /\ writer' = [pc |-> "publish", key |-> key, height |-> height, level |-> 0]
    /\ UNCHANGED <<next_, reader, node, linked, before>>

\* The height is random.  max_height_ is raised before the node is linked.
Insert(key, height) ==
    /\ writer = Idle
    /\ key \notin linked
    /\ max_height_' = Max({max_height_, height})
    /\ writer' = [pc |-> "init", key |-> key, height |-> height, level |-> 0]
    /\ UNCHANGED <<next_, reader, node, linked, before>>

\* x->NoBarrier_SetNext(i, prev[i]->NoBarrier_Next(i))
InitLink ==
    /\ writer.pc = "init"
    /\ next_' = [next_ EXCEPT ![writer.key][writer.level] = next_[Prev(writer.key, writer.level)][writer.level]]
    /\ writer' = [writer EXCEPT !.pc = "publish"]
    /\ UNCHANGED <<max_height_, reader, node, linked, before>>

Linked(w) ==
    IF w.level + 1 < w.height
    THEN writer' = [w EXCEPT !.pc = "init", !.level = @ + 1] /\ UNCHANGED linked
    ELSE writer' = Idle /\ linked' = linked \cup {w.key}

\* prev[i]->SetNext(i, x), a release store.
Publish ==
    /\ writer.pc = "publish"
    /\ next_' = [next_ EXCEPT ![Prev(writer.key, writer.level)][writer.level] = writer.key]
    /\ Linked(writer)
    /\ UNCHANGED <<max_height_, reader, node, before>>

-----------------------------------------------------------------------------
(* Readers.                                                                *)

Start(op, key) ==
    /\ reader = AtRest
    /\ \E h \in 1..max_height_ :
           reader' = [op |-> op, done |-> FALSE, key |-> key, x |-> head_, level |-> h - 1]
    /\ before' = linked
    /\ UNCHANGED <<next_, max_height_, writer, node, linked>>

\* Iterator::Seek, and Contains; Iterator::Prev; Iterator::SeekToLast.
Seek(key)  == Start("FindGreaterOrEqual", key)
PrevOf     == node # NULL /\ Start("FindLessThan", node)
SeekToLast == Start("FindLast", 0)

\* Whether the search goes on along the list, from the link it has just loaded.
KeepSearching(next) == next \notin {NULL, Junk} /\ (reader.op = "FindLast" \/ next < reader.key)

Found(next) ==
    IF next = Junk \/ reader.op = "FindGreaterOrEqual" THEN next
    ELSE IF reader.x = head_ THEN NULL ELSE reader.x

\* x->Next(level), and what follows from it: on along the list, down a level, or the end.
Load ==
    /\ ~reader.done
    /\ LET next == next_[reader.x][reader.level]
       IN \/ /\ KeepSearching(next)
             /\ reader' = [reader EXCEPT !.x = next]
             /\ UNCHANGED node
          \/ /\ ~KeepSearching(next)
             /\ reader.level > 0 /\ next # Junk
             /\ reader' = [reader EXCEPT !.level = @ - 1]
             /\ UNCHANGED node
          \/ /\ ~KeepSearching(next)
             /\ reader.level = 0 \/ next = Junk
             /\ node' = Found(next)
             /\ reader' = [reader EXCEPT !.done = TRUE]
    /\ UNCHANGED <<next_, max_height_, writer, linked, before>>

\* Iterator::Next and SeekToFirst: one load on the lowest level.
NextOf(x) ==
    /\ reader = AtRest
    /\ x = head_ \/ x = node
    /\ node' = next_[x][0]
    /\ reader' = [op |-> "Next", done |-> TRUE, key |-> x, x |-> x, level |-> 0]
    /\ before' = linked
    /\ UNCHANGED <<next_, max_height_, writer, linked>>

\* The caller has the node and may search again.
Return ==
    /\ reader.done /\ reader # AtRest
    /\ reader' = AtRest
    /\ before' = {}
    /\ UNCHANGED <<next_, max_height_, writer, node, linked>>

Next ==
    \/ \E k \in ListKeys, h \in Heights : Insert(k, h)
    \/ InitLink \/ Publish
    \/ \E k \in ListKeys : Seek(k)
    \/ PrevOf \/ SeekToLast \/ Load \/ Return
    \/ \E x \in AllNodes : NextOf(x)

Spec == Init /\ [][Next]_vars

-----------------------------------------------------------------------------
(* Properties.                                                             *)

\* The keys a search with this answer has passed over.
PassedOver(k) ==
    \/ reader.op = "FindGreaterOrEqual" /\ k >= reader.key /\ (node = NULL \/ k < node)
    \/ reader.op = "FindLessThan" /\ k < reader.key /\ (node = NULL \/ k > node)
    \/ reader.op = "FindLast" /\ (node = NULL \/ k > node)
    \/ reader.op = "Next" /\ k > reader.key /\ (node = NULL \/ k < node)

\* A reader without a lock never follows a link that is not set, ends on the side of the key it
\* was to end on, and passes over no key whose Insert had returned before the search began.
ReadersSeeTheList ==
    /\ node # Junk
    /\ reader.done /\ reader # AtRest =>
          /\ \A k \in before : ~PassedOver(k)
          /\ node # NULL =>
                /\ reader.op = "FindGreaterOrEqual" => node >= reader.key
                /\ reader.op = "FindLessThan" => node < reader.key
                /\ reader.op = "Next" => node > reader.key

=============================================================================
