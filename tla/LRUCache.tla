------------------------------ MODULE LRUCache ------------------------------
(***************************************************************************)
(* A shard of LevelDB's cache (leveldb/util/cache.cc) and the way the      *)
(* table cache uses it (db/table_cache.cc): threads look a table up, open  *)
(* it and insert it if it is not there, read from it without the mutex,    *)
(* and release it, while other threads replace, evict or erase the entry.  *)
(*                                                                         *)
(* Keys are numbers, and a key's hash is the key.  A handle is the memory  *)
(* of an entry: it is in DOMAIN handle until it is freed.                  *)
(***************************************************************************)
EXTENDS Integers, FiniteSets, FiniteSetsExt, SequencesExt

CONSTANTS
    CacheKeys,
    CacheThreads,
    CacheWorlds,    \* [capacity |-> capacity_, length |-> the least number of buckets, charge |-> of an entry]
    MaxHandles      \* bound: as many entries as may exist at a time

VARIABLES
    config,     \* the world chosen
    handle,     \* handle -> [key, refs]
    lru,        \* the LRU list, oldest first
    list_,      \* the buckets: sequences of handles
    elems_, usage_,
    thread      \* what each thread is doing: [pc, key, h]

vars == <<config, handle, lru, list_, elems_, usage_, thread>>

Ids      == 1..MaxHandles
Charge(k) == config.charge[k]
Resting  == [pc |-> "idle", key |-> 0, h |-> 0]

-----------------------------------------------------------------------------
(* HandleTable.  c is [handle, lru, list, elems, usage].                   *)

Cache == [handle |-> handle, lru |-> lru, list |-> list_, elems |-> elems_, usage |-> usage_]
Become(c) ==
    /\ handle' = c.handle
    /\ lru' = c.lru
    /\ list_' = c.list
    /\ elems_' = c.elems
    /\ usage_' = c.usage

Bucket(list, k) == (k % Len(list)) + 1

\* FindPointer: the place in its bucket of the entry of the key, or the place after the last.
FindPointer(c, k) ==
    LET b == c.list[Bucket(c.list, k)]
    IN Min({i \in DOMAIN b : c.handle[b[i]].key = k} \cup {Len(b) + 1})

TableLookup(c, k) ==
    LET b == c.list[Bucket(c.list, k)]
        i == FindPointer(c, k)
    IN IF i > Len(b) THEN 0 ELSE b[i]

RECURSIVE DoubledUntil(_, _)
DoubledUntil(n, elems) == IF n < elems THEN DoubledUntil(2 * n, elems) ELSE n

\* Every entry is pushed in front of its new bucket.
Resize(c) ==
    LET n == DoubledUntil(config.length, c.elems)
        Push(list, h) == [list EXCEPT ![Bucket(list, c.handle[h].key)] = <<h>> \o @]
    IN [c EXCEPT !.list = FoldLeft(Push, [i \in 1..n |-> <<>>], FlattenSeq(c.list))]

TableInsert(c, h) ==
    LET k   == c.handle[h].key
        i   == FindPointer(c, k)
        at  == Bucket(c.list, k)
        new == i > Len(c.list[at])
        ins == [c EXCEPT !.list[at] = IF new THEN Append(@, h) ELSE ReplaceAt(@, i, h),
                         !.elems = IF new THEN @ + 1 ELSE @]
    IN IF new /\ ins.elems > Len(ins.list) THEN Resize(ins) ELSE ins

TableRemove(c, k) ==
    IF TableLookup(c, k) = 0 THEN c
    ELSE [c EXCEPT !.list[Bucket(c.list, k)] = RemoveAt(@, FindPointer(c, k)), !.elems = @ - 1]

-----------------------------------------------------------------------------
(* LRUCache.                                                               *)

Unref(c, h) ==
    IF c.handle[h].refs > 1 THEN [c EXCEPT !.handle[h].refs = @ - 1]
    ELSE [c EXCEPT !.usage = @ - Charge(c.handle[h].key),
                   !.handle = [x \in DOMAIN c.handle \ {h} |-> c.handle[x]]]

LRU_Remove(c, h) == [c EXCEPT !.lru = SelectSeq(@, LAMBDA x : x # h)]
LRU_Append(c, h) == [c EXCEPT !.lru = Append(@, h)]

\* The oldest entry is evicted until the usage is within the capacity or nothing is left.
RECURSIVE Shrink(_)
Shrink(c) ==
    IF c.usage > config.capacity /\ c.lru # <<>>
    THEN LET old == Head(c.lru) IN Shrink(Unref(TableRemove(LRU_Remove(c, old), c.handle[old].key), old))
    ELSE c

Inserted(c, k, h) ==
    LET e   == LRU_Append([c EXCEPT !.handle = [x \in DOMAIN c.handle \cup {h} |->
                                                   IF x = h THEN [key |-> k, refs |-> 2] ELSE c.handle[x]],
                                    !.usage = @ + Charge(k)], h)
        old == TableLookup(c, k)
        ins == TableInsert(e, h)
    IN Shrink(IF old = 0 THEN ins ELSE Unref(LRU_Remove(ins, old), old))

-----------------------------------------------------------------------------
(* Threads.  A call of the cache holds its mutex: it is one step.          *)

Init ==
    /\ config \in CacheWorlds
    /\ handle = [h \in {} |-> 0]
    /\ lru = <<>>
    /\ list_ = [i \in 1..config.length |-> <<>>]
    /\ elems_ = 0
    /\ usage_ = 0
    /\ thread = [t \in CacheThreads |-> Resting]

\* TableCache::FindTable: the lookup.
Lookup(t, k) ==
    /\ thread[t] = Resting
    /\ LET e == TableLookup(Cache, k)
       IN IF e # 0
          THEN /\ Become(LRU_Append(LRU_Remove([Cache EXCEPT !.handle[e].refs = @ + 1], e), e))
               /\ thread' = [thread EXCEPT ![t] = [pc |-> "using", key |-> k, h |-> e]]
          ELSE /\ Become(Cache)
               /\ thread' = [thread EXCEPT ![t] = [pc |-> "opening", key |-> k, h |-> 0]]
    /\ UNCHANGED config

\* The table was opened, meanwhile others may have inserted it too: the newer entry replaces it.
Insert(t) ==
    /\ thread[t].pc = "opening"
    /\ \E h \in Ids \ DOMAIN handle :
          /\ h = Min(Ids \ DOMAIN handle)
          /\ Become(Inserted(Cache, thread[t].key, h))
          /\ thread' = [thread EXCEPT ![t].pc = "using", ![t].h = h]
    /\ UNCHANGED config

\* It could not be opened: the error is not cached.
OpenFails(t) ==
    /\ thread[t].pc = "opening"
    /\ thread' = [thread EXCEPT ![t] = Resting]
    /\ UNCHANGED <<config, handle, lru, list_, elems_, usage_>>

Release(t) ==
    /\ thread[t].pc = "using"
    /\ Become(Unref(Cache, thread[t].h))
    /\ thread' = [thread EXCEPT ![t] = Resting]
    /\ UNCHANGED config

\* TableCache::Evict
Erase(k) ==
    /\ LET e == TableLookup(Cache, k)
       IN e # 0 /\ Become(Unref(LRU_Remove(TableRemove(Cache, k), e), e))
    /\ UNCHANGED <<config, thread>>

Next ==
    \/ \E t \in CacheThreads, k \in CacheKeys : Lookup(t, k)
    \/ \E t \in CacheThreads : Insert(t) \/ OpenFails(t) \/ Release(t)
    \/ \E k \in CacheKeys : Erase(k)

Spec == Init /\ [][Next]_vars

-----------------------------------------------------------------------------
(* Properties.                                                             *)

Users(h) == {t \in CacheThreads : thread[t].pc = "using" /\ thread[t].h = h}

\* An entry that a thread uses is not freed and is still the entry of the key it asked for; the
\* references, the usage and the number of elements are what they count; an entry is in the
\* hash table, in the bucket of its key, exactly while it is in the LRU list; and the cache is
\* over its capacity only with entries that are all in use.
CacheCountsExact ==
    /\ \A t \in CacheThreads :
          thread[t].pc = "using" => thread[t].h \in DOMAIN handle /\ handle[thread[t].h].key = thread[t].key
    /\ \A h \in DOMAIN handle :
          handle[h].refs = Cardinality(Users(h)) + (IF h \in Range(lru) THEN 1 ELSE 0)
    /\ usage_ = MapThenSumSet(LAMBDA h : Charge(handle[h].key), DOMAIN handle)
    /\ elems_ = Len(lru) /\ Len(FlattenSeq(list_)) = elems_
    /\ \A h \in Range(lru) : h \in DOMAIN handle /\ h \in Range(list_[Bucket(list_, handle[h].key)])
    /\ usage_ > config.capacity => lru = <<>>

=============================================================================
