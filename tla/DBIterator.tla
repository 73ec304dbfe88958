---------------------------- MODULE DBIterator -----------------------------
(***************************************************************************)
(* LevelDB's iterators (leveldb/table, leveldb/db/db_iter.cc): what the    *)
(* program walks when it loads the block index or counts the coins.  A     *)
(* DBIter hides old versions and deletions of a MergingIterator, which     *)
(* merges the memtable's iterator with one TwoLevelIterator per table;     *)
(* that one walks the blocks which the table's index block names, and a    *)
(* Block::Iter decodes the prefix-compressed entries of one block.  Each   *)
(* layer keeps its own direction or restart point, the memtable grows      *)
(* while the iterator stands in it, and the whole must behave like a       *)
(* cursor in the sorted map that the snapshot shows.                       *)
(*                                                                         *)
(* A user key is a sequence of digits; an internal key appends its tag,    *)
(* one number, no digit, for the eight bytes of PackSequenceAndType.       *)
(* The value of an entry is not modelled: its tag names it.  An offset in  *)
(* a block is the number of the entry, so restarts_ is the length plus 1.  *)
(* Blocks are intact: the corruption branches are there because the code's *)
(* checks are, and the property says that they are never taken.            *)
(***************************************************************************)
EXTENDS Integers, Sequences, FiniteSetsExt, SequencesExt

CONSTANTS
    IterWorlds, \* [mem |-> internal keys in the memtable, tables |-> for each table the sequence of its blocks,
                \*  interval |-> block_restart_interval, snapshot |-> sequence_, adds |-> keys that may be written later]
    UserKeys,   \* the user keys a Seek may look for
    Digits,     \* the greatest digit: 0xff
    Null

VARIABLES
    base,       \* the world chosen, its tables built
    memtable,   \* the set of internal keys in the memtable
    dbiter,     \* the DBIter
    at          \* observation: the user key that the cursor of a sorted map would be at, or Null

vars == <<base, memtable, dbiter, at>>

-----------------------------------------------------------------------------
(* Keys and the two comparators (util/comparator.cc, db/dbformat.cc).      *)

TagBase     == Digits + 1
UserKey(ik) == SubSeq(ik, 1, Len(ik) - 1)
Pack(seq, del) == TagBase + 2 * seq + (IF del THEN 0 ELSE 1)
Tag(ik) == LET x == ik[Len(ik)] - TagBase IN [seq |-> x \div 2, del |-> x % 2 = 0]
CommonPrefix(a, b) == Max({n \in 0..Min({Len(a), Len(b)}) : SubSeq(a, 1, n) = SubSeq(b, 1, n)})

UserLess(a, b) ==
    LET n == CommonPrefix(a, b)
    IN n < Len(b) /\ (n = Len(a) \/ (n < Len(a) /\ a[n + 1] < b[n + 1]))

\* InternalKeyComparator::Compare(a, b) < 0
ILess(a, b) == UserLess(UserKey(a), UserKey(b)) \/ (UserKey(a) = UserKey(b) /\ Tag(a).seq > Tag(b).seq)
Smallest(S) == CHOOSE k \in S : \A o \in S \ {k} : ILess(k, o)
Largest(S)  == CHOOSE k \in S : \A o \in S \ {k} : ILess(o, k)

kMaxSequenceNumber == 99
SeekTag(s) == Pack(s, FALSE)

ShortestSeparator(start, limit) ==
    LET d == CommonPrefix(start, limit)
    IN IF d < Min({Len(start), Len(limit)}) /\ start[d + 1] < Digits /\ start[d + 1] + 1 < limit[d + 1]
       THEN Append(SubSeq(start, 1, d), start[d + 1] + 1)
       ELSE start

ShortSuccessor(key) ==
    LET can == {i \in DOMAIN key : key[i] # Digits}
    IN IF can = {} THEN key ELSE Append(SubSeq(key, 1, Min(can) - 1), key[Min(can)] + 1)

\* InternalKeyComparator takes the shortened user key if it is shorter and greater, and then
\* with the greatest tag, which sorts before every entry of that user key.
Shortened(ik, tmp) ==
    IF Len(tmp) < Len(UserKey(ik)) /\ UserLess(UserKey(ik), tmp)
    THEN Append(tmp, SeekTag(kMaxSequenceNumber))
    ELSE ik

FindShortestSeparator(start, limit) == Shortened(start, ShortestSeparator(UserKey(start), UserKey(limit)))
FindShortSuccessor(ik) == Shortened(ik, ShortSuccessor(UserKey(ik)))

-----------------------------------------------------------------------------
(* Building a table (table/block_builder.cc, table/table_builder.cc).      *)

\* BlockBuilder::Add
AddEntry(block, ik, value, interval) ==
    LET restart == block.counter >= interval
        shared  == IF restart THEN 0 ELSE CommonPrefix(block.last, ik)
    IN [data     |-> Append(block.data, [shared |-> shared, delta |-> SubSeq(ik, shared + 1, Len(ik)), value |-> value]),
        restarts |-> IF restart THEN Append(block.restarts, Len(block.data) + 1) ELSE block.restarts,
        counter  |-> IF restart THEN 1 ELSE block.counter + 1,
        last     |-> ik]

EmptyBlock == [data |-> <<>>, restarts |-> <<1>>, counter |-> 0, last |-> <<>>]

BuildBlock(keys, interval) ==
    FoldLeft(LAMBDA b, k : AddEntry(b, k, Null, interval), EmptyBlock, keys)

\* TableBuilder: the index has for every block a key that is at or after its last one and
\* before the next block's first, and it restarts at every entry.
BuildTable(blocks, interval) ==
    LET IndexKey(i) == IF i < Len(blocks)
                       THEN FindShortestSeparator(Last(blocks[i]), blocks[i + 1][1])
                       ELSE FindShortSuccessor(Last(blocks[i]))
    IN [blocks |-> [i \in DOMAIN blocks |-> BuildBlock(blocks[i], interval)],
        index  |-> FoldLeft(LAMBDA b, i : AddEntry(b, IndexKey(i), i, 1), EmptyBlock, [i \in DOMAIN blocks |-> i])]

-----------------------------------------------------------------------------
(* Block::Iter (table/block.cc): current_, restart_index_, key_, and the   *)
(* offset past the current entry.                                          *)

NewBlockIter(b) == [cur |-> Len(b.data) + 1, ri |-> Len(b.restarts) + 1, key |-> <<>>, next |-> 1]

BlockEnd(b, i)   == [i EXCEPT !.cur = Len(b.data) + 1, !.ri = Len(b.restarts) + 1]
BlockValid(b, i) == i.cur <= Len(b.data)
Corruption(b)    == [cur |-> Len(b.data) + 1, ri |-> Len(b.restarts) + 1, key |-> "corrupt", next |-> 1]

ParseNextKey(b, i) ==
    IF i.next > Len(b.data) THEN BlockEnd(b, i)
    ELSE LET e == b.data[i.next]
         IN IF Len(i.key) < e.shared THEN Corruption(b)
            ELSE [cur  |-> i.next,
                  next |-> i.next + 1,
                  key  |-> SubSeq(i.key, 1, e.shared) \o e.delta,
                  ri   |-> Max({i.ri} \cup {r \in i.ri..Len(b.restarts) : b.restarts[r] < i.next})]

SeekToRestartPoint(b, i, r) == [i EXCEPT !.key = <<>>, !.ri = r, !.next = b.restarts[r]]

\* ParseNextKey as long as there is an entry and the one reached ends before offset.
RECURSIVE ParseUpTo(_, _, _)
ParseUpTo(b, i, offset) ==
    LET p == ParseNextKey(b, i)
    IN IF BlockValid(b, p) /\ p.next < offset THEN ParseUpTo(b, p, offset) ELSE p

BlockSeekToFirst(b, i) == ParseNextKey(b, SeekToRestartPoint(b, i, 1))
BlockSeekToLast(b, i)  == ParseUpTo(b, SeekToRestartPoint(b, i, Len(b.restarts)), Len(b.data) + 1)

BlockPrev(b, i) ==
    LET before == {r \in 1..i.ri : b.restarts[r] < i.cur}
    IN IF before = {} THEN BlockEnd(b, i)
       ELSE ParseUpTo(b, SeekToRestartPoint(b, i, Max(before)), i.cur)

\* Binary search for the last restart point with a key before the target.
RECURSIVE SearchRestart(_, _, _, _)
SearchRestart(b, target, left, right) ==
    IF left >= right THEN left
    ELSE LET mid == (left + right + 1) \div 2
         IN IF ILess(b.data[b.restarts[mid]].delta, target)
            THEN SearchRestart(b, target, mid, right)
            ELSE SearchRestart(b, target, left, mid - 1)

RECURSIVE ParseToTarget(_, _, _)
ParseToTarget(b, i, target) ==
    LET p == ParseNextKey(b, i)
    IN IF BlockValid(b, p) /\ ILess(p.key, target) THEN ParseToTarget(b, p, target) ELSE p

BlockSeek(b, i, target) ==
    ParseToTarget(b, SeekToRestartPoint(b, i, SearchRestart(b, target, 1, Len(b.restarts))), target)

-----------------------------------------------------------------------------
(* TwoLevelIterator (table/two_level_iterator.cc) over a table: index_iter_*)
(* data_iter_ (or Null) and the handle of the block it is in.              *)

NewTableIter(t) == [index |-> NewBlockIter(t.index), data |-> Null, handle |-> 0]

IndexValid(t, x) == BlockValid(t.index, x.index)
TableValid(t, x) == x.data # Null /\ BlockValid(t.blocks[x.handle], x.data)

InitDataBlock(t, x) ==
    IF ~IndexValid(t, x) THEN [x EXCEPT !.data = Null]
    ELSE LET h == t.index.data[x.index.cur].value
         IN IF x.data # Null /\ h = x.handle THEN x
            ELSE [x EXCEPT !.handle = h, !.data = NewBlockIter(t.blocks[h])]

DataSeekToFirst(t, x)   == IF x.data = Null THEN x ELSE [x EXCEPT !.data = BlockSeekToFirst(t.blocks[x.handle], @)]
DataSeekToLast(t, x)    == IF x.data = Null THEN x ELSE [x EXCEPT !.data = BlockSeekToLast(t.blocks[x.handle], @)]
DataSeek(t, x, target)  == IF x.data = Null THEN x ELSE [x EXCEPT !.data = BlockSeek(t.blocks[x.handle], @, target)]

RECURSIVE SkipEmptyDataBlocksForward(_, _)
SkipEmptyDataBlocksForward(t, x) ==
    IF TableValid(t, x) THEN x
    ELSE IF ~IndexValid(t, x) THEN [x EXCEPT !.data = Null]
    ELSE SkipEmptyDataBlocksForward(t,
            DataSeekToFirst(t, InitDataBlock(t, [x EXCEPT !.index = ParseNextKey(t.index, @)])))

RECURSIVE SkipEmptyDataBlocksBackward(_, _)
SkipEmptyDataBlocksBackward(t, x) ==
    IF TableValid(t, x) THEN x
    ELSE IF ~IndexValid(t, x) THEN [x EXCEPT !.data = Null]
    ELSE SkipEmptyDataBlocksBackward(t,
            DataSeekToLast(t, InitDataBlock(t, [x EXCEPT !.index = BlockPrev(t.index, @)])))

TableSeek(t, x, target) ==
    SkipEmptyDataBlocksForward(t,
        DataSeek(t, InitDataBlock(t, [x EXCEPT !.index = BlockSeek(t.index, @, target)]), target))
TableSeekToFirst(t, x) ==
    SkipEmptyDataBlocksForward(t,
        DataSeekToFirst(t, InitDataBlock(t, [x EXCEPT !.index = BlockSeekToFirst(t.index, @)])))
TableSeekToLast(t, x) ==
    SkipEmptyDataBlocksBackward(t,
        DataSeekToLast(t, InitDataBlock(t, [x EXCEPT !.index = BlockSeekToLast(t.index, @)])))
TableNext(t, x) == SkipEmptyDataBlocksForward(t, [x EXCEPT !.data = ParseNextKey(t.blocks[x.handle], @)])
TablePrev(t, x) == SkipEmptyDataBlocksBackward(t, [x EXCEPT !.data = BlockPrev(t.blocks[x.handle], @)])

-----------------------------------------------------------------------------
(* The children of the MergingIterator: the memtable's iterator, which is  *)
(* a key in the skip list or Null, and the tables'.                        *)

Table(c) == base.tables[c - 1]

ChildValid(c, x) == IF c = 1 THEN x # Null ELSE TableValid(Table(c), x)
ChildKey(c, x)   == IF c = 1 THEN x ELSE x.data.key

MemFirst(S) == IF S = {} THEN Null ELSE Smallest(S)
MemLast(S)  == IF S = {} THEN Null ELSE Largest(S)

ChildSeekToFirst(c, x) == IF c = 1 THEN MemFirst(memtable) ELSE TableSeekToFirst(Table(c), x)
ChildSeekToLast(c, x)  == IF c = 1 THEN MemLast(memtable) ELSE TableSeekToLast(Table(c), x)
ChildSeek(c, x, target) ==
    IF c = 1 THEN MemFirst({k \in memtable : ~ILess(k, target)}) ELSE TableSeek(Table(c), x, target)
ChildNext(c, x) == IF c = 1 THEN MemFirst({k \in memtable : ILess(x, k)}) ELSE TableNext(Table(c), x)
ChildPrev(c, x) == IF c = 1 THEN MemLast({k \in memtable : ILess(k, x)}) ELSE TablePrev(Table(c), x)

-----------------------------------------------------------------------------
(* MergingIterator (table/merger.cc): the children, current_ (0 for NULL)  *)
(* and direction_.                                                         *)

ValidOf(ch)     == {c \in DOMAIN ch : ChildValid(c, ch[c])}
KeyAt(ch, c)    == ChildKey(c, ch[c])
MergeValid(m)   == m.cur # 0
MergeKey(m)     == KeyAt(m.ch, m.cur)

FindSmallest(ch) ==
    LET V == ValidOf(ch)
    IN IF V = {} THEN 0
       ELSE Min({c \in V : \A d \in V : ~ILess(KeyAt(ch, d), KeyAt(ch, c))})

FindLargest(ch) ==
    LET V == ValidOf(ch)
    IN IF V = {} THEN 0
       ELSE Max({c \in V : \A d \in V : ~ILess(KeyAt(ch, c), KeyAt(ch, d))})

Forwards(ch)  == [ch |-> ch, cur |-> FindSmallest(ch), dir |-> "forward"]
Backwards(ch) == [ch |-> ch, cur |-> FindLargest(ch), dir |-> "reverse"]

MergeSeekToFirst(m)  == Forwards([c \in DOMAIN m.ch |-> ChildSeekToFirst(c, m.ch[c])])
MergeSeekToLast(m)   == Backwards([c \in DOMAIN m.ch |-> ChildSeekToLast(c, m.ch[c])])
MergeSeek(m, target) == Forwards([c \in DOMAIN m.ch |-> ChildSeek(c, m.ch[c], target)])

\* A child moved after, or before, the current key when the direction changes.
MovedAfter(c, x, key) ==
    LET s == ChildSeek(c, x, key)
    IN IF ChildValid(c, s) /\ ChildKey(c, s) = key THEN ChildNext(c, s) ELSE s
MovedBefore(c, x, key) ==
    LET s == ChildSeek(c, x, key)
    IN IF ChildValid(c, s) THEN ChildPrev(c, s) ELSE ChildSeekToLast(c, s)

MergeNext(m) ==
    Forwards([c \in DOMAIN m.ch |->
        IF c = m.cur THEN ChildNext(c, m.ch[c])
        ELSE IF m.dir # "forward" THEN MovedAfter(c, m.ch[c], MergeKey(m)) ELSE m.ch[c]])

MergePrev(m) ==
    Backwards([c \in DOMAIN m.ch |->
        IF c = m.cur THEN ChildPrev(c, m.ch[c])
        ELSE IF m.dir # "reverse" THEN MovedBefore(c, m.ch[c], MergeKey(m)) ELSE m.ch[c]])

-----------------------------------------------------------------------------
(* DBIter (db/db_iter.cc): iter_, direction_, valid_, saved_key_ and       *)
(* saved_value_ (the tag that names it).                                   *)

Invalid(d) == [d EXCEPT !.valid = FALSE, !.key = <<>>]
Cleared(d) == [d EXCEPT !.valid = FALSE, !.key = <<>>, !.value = Null]
Visible(ik) == Tag(ik).seq <= base.snapshot

\* The loop of FindNextUserEntry; d.key is *skip.
RECURSIVE FindNextUserEntry(_, _)
FindNextUserEntry(d, skipping) ==
    IF ~MergeValid(d.iter) THEN Invalid(d)
    ELSE LET ik == MergeKey(d.iter)
             on == [d EXCEPT !.iter = MergeNext(@)]
         IN IF ~Visible(ik) THEN FindNextUserEntry(on, skipping)
            ELSE IF Tag(ik).del THEN FindNextUserEntry([on EXCEPT !.key = UserKey(ik)], TRUE)
            ELSE IF skipping /\ ~UserLess(d.key, UserKey(ik)) THEN FindNextUserEntry(on, skipping)
            ELSE [d EXCEPT !.valid = TRUE, !.key = <<>>]

\* The loop of FindPrevUserEntry; deleted is value_type = kTypeDeletion.
RECURSIVE FindPrevUserEntry(_, _)
FindPrevUserEntry(d, deleted) ==
    LET ik == MergeKey(d.iter)
        on == [d EXCEPT !.iter = MergePrev(@)]
    IN IF ~MergeValid(d.iter) \/ (Visible(ik) /\ ~deleted /\ UserLess(UserKey(ik), d.key))
       THEN IF deleted THEN [Cleared(d) EXCEPT !.dir = "forward"] ELSE [d EXCEPT !.valid = TRUE]
       ELSE IF ~Visible(ik) THEN FindPrevUserEntry(on, deleted)
       ELSE IF Tag(ik).del THEN FindPrevUserEntry([on EXCEPT !.key = <<>>, !.value = Null], TRUE)
       ELSE FindPrevUserEntry([on EXCEPT !.key = UserKey(ik), !.value = Tag(ik)], FALSE)

DBKey(d)   == IF d.dir = "forward" THEN UserKey(MergeKey(d.iter)) ELSE d.key
DBValue(d) == IF d.dir = "forward" THEN Tag(MergeKey(d.iter)) ELSE d.value

DBNext(d) ==
    IF d.dir = "reverse"
    THEN LET m == IF MergeValid(d.iter) THEN MergeNext(d.iter) ELSE MergeSeekToFirst(d.iter)
             f == [d EXCEPT !.dir = "forward", !.iter = m]
         IN IF ~MergeValid(m) THEN Invalid(f) ELSE FindNextUserEntry(f, TRUE)
    ELSE FindNextUserEntry([d EXCEPT !.key = DBKey(d)], TRUE)

\* Scan backwards until the user key is before that of d.key.
RECURSIVE BackBefore(_)
BackBefore(d) ==
    LET b == [d EXCEPT !.iter = MergePrev(@)]
    IN IF ~MergeValid(b.iter) THEN Cleared(b)
       ELSE IF UserLess(UserKey(MergeKey(b.iter)), d.key) THEN [b EXCEPT !.dir = "reverse"]
       ELSE BackBefore(b)

DBPrev(d) ==
    IF d.dir = "forward"
    THEN LET b == BackBefore([d EXCEPT !.key = DBKey(d)])
         IN IF b.valid THEN FindPrevUserEntry(b, TRUE) ELSE b
    ELSE FindPrevUserEntry(d, TRUE)

DBSeek(d, target) ==
    LET ik == Append(target, SeekTag(base.snapshot))
        f  == [d EXCEPT !.dir = "forward", !.value = Null, !.key = ik, !.iter = MergeSeek(@, ik)]
    IN IF MergeValid(f.iter) THEN FindNextUserEntry(f, FALSE) ELSE [f EXCEPT !.valid = FALSE]

DBSeekToFirst(d) ==
    LET f == [d EXCEPT !.dir = "forward", !.value = Null, !.iter = MergeSeekToFirst(@)]
    IN IF MergeValid(f.iter) THEN FindNextUserEntry(f, FALSE) ELSE [f EXCEPT !.valid = FALSE]

DBSeekToLast(d) ==
    FindPrevUserEntry([d EXCEPT !.dir = "reverse", !.value = Null, !.iter = MergeSeekToLast(@)], TRUE)

-----------------------------------------------------------------------------
(* The sorted map that the snapshot shows: the newest visible version of a *)
(* user key, if it is not a deletion.                                      *)

AllKeys == memtable \cup UNION {Range(block) : block \in UNION {Range(table) : table \in Range(base.raw)}}
Newest(u) ==
    LET versions == {k \in AllKeys : UserKey(k) = u /\ Visible(k)}
    IN IF versions = {} THEN Null ELSE Tag(Smallest(versions))
Shown == {u \in {UserKey(k) : k \in AllKeys} : Newest(u) # Null /\ ~Newest(u).del}

FirstOf(S) == IF S = {} THEN Null ELSE CHOOSE u \in S : \A o \in S \ {u} : UserLess(u, o)
LastOf(S)  == IF S = {} THEN Null ELSE CHOOSE u \in S : \A o \in S \ {u} : UserLess(o, u)

-----------------------------------------------------------------------------
(* Behaviour.                                                              *)

\* DBImpl::NewIterator: the snapshot is the last sequence number, or an older one.
Init ==
    \E w \in IterWorlds :
        /\ base = [tables   |-> [t \in DOMAIN w.tables |-> BuildTable(w.tables[t], w.interval)],
                   raw      |-> w.tables,
                   snapshot |-> w.snapshot,
                   adds     |-> w.adds]
        /\ memtable = w.mem
        /\ dbiter = [iter  |-> [ch  |-> <<Null>> \o [t \in DOMAIN w.tables |-> NewTableIter(BuildTable(w.tables[t], w.interval))],
                                cur |-> 0, dir |-> "forward"],
                     dir |-> "forward", valid |-> FALSE, key |-> <<>>, value |-> Null]
        /\ at = Null

SeekToFirst ==
    /\ dbiter' = DBSeekToFirst(dbiter)
    /\ at' = FirstOf(Shown)
    /\ UNCHANGED <<base, memtable>>

SeekToLast ==
    /\ dbiter' = DBSeekToLast(dbiter)
    /\ at' = LastOf(Shown)
    /\ UNCHANGED <<base, memtable>>

Seek(target) ==
    /\ dbiter' = DBSeek(dbiter, target)
    /\ at' = FirstOf({u \in Shown : ~UserLess(u, target)})
    /\ UNCHANGED <<base, memtable>>

Next_ ==
    /\ dbiter.valid
    /\ dbiter' = DBNext(dbiter)
    /\ at' = FirstOf({u \in Shown : UserLess(at, u)})
    /\ UNCHANGED <<base, memtable>>

Prev ==
    /\ dbiter.valid
    /\ dbiter' = DBPrev(dbiter)
    /\ at' = LastOf({u \in Shown : UserLess(u, at)})
    /\ UNCHANGED <<base, memtable>>

\* A write goes into the memtable that the iterator stands in, with a newer sequence number.
Add(ik) ==
    /\ ik \in base.adds
    /\ base' = [base EXCEPT !.adds = {k \in @ : Tag(k).seq > Tag(ik).seq}]
    /\ memtable' = memtable \cup {ik}
    /\ UNCHANGED <<dbiter, at>>

Next ==
    \/ SeekToFirst \/ SeekToLast \/ Next_ \/ Prev
    \/ \E target \in UserKeys : Seek(target)
    \/ \E ik \in base.adds : Add(ik)

Spec == Init /\ [][Next]_vars

\* The iterator is a cursor in the map of the snapshot: it is valid where that cursor is, at the
\* same user key, with that key's newest visible value, whatever moves were made before, in
\* whichever directions, and whatever has been written since it was made.
IteratorIsCursor ==
    /\ dbiter.valid = (at # Null)
    /\ dbiter.valid => DBKey(dbiter) = at /\ DBValue(dbiter) = Newest(at)

=============================================================================
