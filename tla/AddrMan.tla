------------------------------- MODULE AddrMan -------------------------------
(***************************************************************************)
(* CAddrMan (addrman.h, addrman.cpp): the addresses of possible peers, in   *)
(* "new" and "tried" buckets, and peers.dat, from which they are read       *)
(* again after a restart.                                                   *)
(*                                                                         *)
(* Every operation holds CAddrMan::cs, so each is one step.  The hashes     *)
(* that choose buckets and positions are constants.  Times are left out:    *)
(* whether an entry is terrible, and whether an addr message has news about *)
(* one, may come out either way, and so may the draws of RandomInt.         *)
(***************************************************************************)
EXTENDS Naturals, Sequences, FiniteSets, SequencesExt, FiniteSetsExt

CONSTANTS
    Services,               \* addresses with a port
    Host,                   \* the CNetAddr of a service, the key of mapAddr
    Sources,                \* groups of peers that tell us of addresses
    NewBuckets, TriedBuckets, Positions,
    NewBucket,              \* GetNewBucket, by service and source
    TriedBucket,            \* GetTriedBucket, by service
    NewPosition,            \* GetBucketPosition of a service in a new bucket
    TriedPosition,          \* ... and in a tried one
    ADDRMAN_NEW_BUCKETS_PER_ADDRESS, ADDRMAN_GETADDR_MAX_PCT,
    MaxId                   \* bound on nIdCount

VARIABLE addrman

addrVars == <<addrman>>

Ids == 0..(MaxId - 1)
NoId == MaxId               \* -1 in the tables, and an id mapInfo has no entry for
Hosts == {Host[a] : a \in Services}
NewSlots == NewBuckets \X Positions
TriedSlots == TriedBuckets \X Positions

NewSlot(a, bucket) == <<bucket, NewPosition[a, bucket]>>
TriedSlot(a) == <<TriedBucket[a], TriedPosition[a, TriedBucket[a]]>>

Clear ==
    [mapInfo |-> [i \in {} |-> 0], mapAddr |-> [h \in Hosts |-> NoId], vRandom |-> <<>>,
     vvNew |-> [s \in NewSlots |-> NoId], vvTried |-> [s \in TriedSlots |-> NoId],
     nNew |-> 0, nTried |-> 0, nIdCount |-> 0,
     asserted |-> TRUE]     \* every assert so far held

Assert1(m, condition) == [m EXCEPT !.asserted = @ /\ condition]

----------------------------------------------------------------------------
(* Entries.  vRandom is numbered from 1, nRandomPos from 0. *)

Create(m, a, source) ==
    [m EXCEPT
        !.mapInfo = (m.nIdCount :> [service |-> a, source |-> source, success |-> FALSE, fInTried |-> FALSE,
                                    nRefCount |-> 0, nRandomPos |-> Len(m.vRandom)]) @@ @,
        !.mapAddr[Host[a]] = m.nIdCount,
        !.vRandom = Append(@, m.nIdCount),
        !.nIdCount = @ + 1]

SwapRandom(m, i, j) ==
    LET a == m.vRandom[i + 1]
        b == m.vRandom[j + 1]
    IN  IF i = j THEN m
        ELSE [Assert1(m, {a, b} \subseteq DOMAIN m.mapInfo) EXCEPT
                !.mapInfo[a].nRandomPos = j, !.mapInfo[b].nRandomPos = i,
                !.vRandom[i + 1] = b, !.vRandom[j + 1] = a]

Without(f, i) == [k \in DOMAIN f \ {i} |-> f[k]]

Delete(m, id) ==
    LET info == m.mapInfo[id]
        swapped == SwapRandom(Assert1(m, ~info.fInTried /\ info.nRefCount = 0), info.nRandomPos, Len(m.vRandom) - 1)
    IN  [swapped EXCEPT
            !.vRandom = Front(@),
            !.mapAddr[Host[info.service]] = NoId,
            !.mapInfo = Without(@, id),
            !.nNew = @ - 1]

ClearNew(m, slot) ==
    LET id == m.vvNew[slot]
        cleared == [Assert1(m, m.mapInfo[id].nRefCount > 0) EXCEPT
                        !.mapInfo[id].nRefCount = @ - 1, !.vvNew[slot] = NoId]
    IN  CASE id = NoId -> m
          [] id # NoId /\ cleared.mapInfo[id].nRefCount = 0 -> Delete(cleared, id)
          [] OTHER -> cleared

\* Mutant: the entry leaves only one of its new buckets.
MakeTriedOneBucket(m, id) ==
    LET a == m.mapInfo[id].service
        at == {CHOOSE s \in NewSlots : s = NewSlot(a, s[1]) /\ m.vvNew[s] = id}
        out == [m EXCEPT !.vvNew = [s \in NewSlots |-> IF s \in at THEN NoId ELSE @[s]],
                         !.mapInfo[id].nRefCount = @ - Cardinality(at),
                         !.nNew = @ - 1]
        k == TriedSlot(a)
        old == out.vvTried[k]
        info == out.mapInfo[old]
        u == NewSlot(info.service, NewBucket[info.service, info.source])
        removed == ClearNew([out EXCEPT !.mapInfo[old].fInTried = FALSE, !.vvTried[k] = NoId, !.nTried = @ - 1], u)
        evicted == [removed EXCEPT !.mapInfo[old].nRefCount = 1, !.vvNew[u] = old, !.nNew = @ + 1]
        room == IF old = NoId THEN out ELSE evicted
    IN  [room EXCEPT !.vvTried[k] = id, !.nTried = @ + 1, !.mapInfo[id].fInTried = TRUE]

\* The entry leaves the new buckets for its place among the tried ones; what is there goes back.
MakeTried(m, id) ==
    LET a == m.mapInfo[id].service
        at == {s \in NewSlots : s = NewSlot(a, s[1]) /\ m.vvNew[s] = id}
        out == [m EXCEPT !.vvNew = [s \in NewSlots |-> IF s \in at THEN NoId ELSE @[s]],
                         !.mapInfo[id].nRefCount = @ - Cardinality(at),
                         !.nNew = @ - 1]
        k == TriedSlot(a)
        old == out.vvTried[k]
        info == out.mapInfo[old]
        u == NewSlot(info.service, NewBucket[info.service, info.source])
        removed == ClearNew([out EXCEPT !.mapInfo[old].fInTried = FALSE, !.vvTried[k] = NoId, !.nTried = @ - 1], u)
        evicted == [removed EXCEPT !.mapInfo[old].nRefCount = 1, !.vvNew[u] = old, !.nNew = @ + 1]
        room == IF old = NoId THEN out ELSE evicted
    IN  [Assert1(room, out.mapInfo[id].nRefCount = 0) EXCEPT
            !.vvTried[k] = id, !.nTried = @ + 1, !.mapInfo[id].fInTried = TRUE]

----------------------------------------------------------------------------
(* Operations *)

\* The entry gets a place in the bucket its source chooses, or loses its last chance of one.
Place(m, id, source, terrible) ==
    LET info == m.mapInfo[id]
        slot == NewSlot(info.service, NewBucket[info.service, source])
        there == m.vvNew[slot]
        fInsert == there = NoId \/ terrible \/ (m.mapInfo[there].nRefCount > 1 /\ info.nRefCount = 0)
    IN  CASE there = id -> m
          [] there # id /\ fInsert ->
                [ClearNew(m, slot) EXCEPT !.mapInfo[id].nRefCount = @ + 1, !.vvNew[slot] = id]
          [] OTHER -> IF info.nRefCount = 0 THEN Delete(m, id) ELSE m

Add_(a, source, terrible) ==
    LET id == addrman.mapAddr[Host[a]]
        created == [Create(addrman, a, source) EXCEPT !.nNew = @ + 1]
    IN  /\ \/ /\ id # NoId      \* there is news about it, and the draws let it have another reference
              /\ ~addrman.mapInfo[id].fInTried
              /\ addrman.mapInfo[id].nRefCount # ADDRMAN_NEW_BUCKETS_PER_ADDRESS
              /\ addrman' = Place(addrman, id, source, terrible)
           \/ /\ id = NoId
              /\ addrman.nIdCount < MaxId
              /\ addrman' = Place(created, addrman.nIdCount, source, terrible)
    
Good_(a) ==
    LET id == addrman.mapAddr[Host[a]]
        m == [addrman EXCEPT !.mapInfo[id].success = TRUE]
        found == \E b \in NewBuckets : m.vvNew[NewSlot(a, b)] = id
    IN  /\ id # NoId
        /\ addrman.mapInfo[id].service = a
        /\ addrman' = IF m.mapInfo[id].fInTried \/ ~found THEN m ELSE MakeTried(m, id)
    
\* The swaps of GetAddr_ leave vRandom in any order.
GetAddr_ ==
    /\ (ADDRMAN_GETADDR_MAX_PCT * Len(addrman.vRandom)) \div 100 > 0
    /\ \E order \in SetToSeqs(ToSet(addrman.vRandom)) :
        addrman' = [addrman EXCEPT
            !.vRandom = order,
            !.mapInfo = [i \in DOMAIN @ |-> [@[i] EXCEPT !.nRandomPos = (CHOOSE n \in 1..Len(order) : order[n] = i) - 1]]]

----------------------------------------------------------------------------
(* peers.dat *)

Saved(info) == [service |-> info.service, source |-> info.source, success |-> info.success]

Serialize(m) ==
    LET ids == SetToSortSeq(DOMAIN m.mapInfo, <)
        new == SelectSeq(ids, LAMBDA i : m.mapInfo[i].nRefCount # 0)
        tried == SelectSeq(ids, LAMBDA i : m.mapInfo[i].fInTried)
        Index(i) == (CHOOSE n \in 1..Len(new) : new[n] = i) - 1
    IN  [new |-> [n \in 1..Len(new) |-> Saved(m.mapInfo[new[n]])],
         tried |-> [n \in 1..Len(tried) |-> Saved(m.mapInfo[tried[n]])],
         buckets |-> [b \in NewBuckets |->
            {Index(m.vvNew[s]) : s \in {t \in NewSlots : t[1] = b /\ m.vvNew[t] # NoId}}]]

\* One entry is read: of the new table, or of the tried table, if its place there is free.
ReadEntry(m, entry, fInTried) ==
    LET id == m.nIdCount
        created == Create(m, entry.service, entry.source)
        kept == [created EXCEPT !.mapInfo[id].success = entry.success, !.mapInfo[id].fInTried = fInTried]
        slot == TriedSlot(entry.service)
    IN  CASE ~fInTried -> [kept EXCEPT !.nNew = @ + 1]
          [] fInTried /\ m.vvTried[slot] = NoId -> [kept EXCEPT !.vvTried[slot] = id, !.nTried = @ + 1]
          [] OTHER -> m

ReadPosition(m, bucket, id) ==
    LET slot == NewSlot(m.mapInfo[id].service, bucket)
    IN  IF id < m.nNew /\ m.vvNew[slot] = NoId /\ m.mapInfo[id].nRefCount < ADDRMAN_NEW_BUCKETS_PER_ADDRESS
        THEN [m EXCEPT !.mapInfo[id].nRefCount = @ + 1, !.vvNew[slot] = id] ELSE m

Unserialize(file) ==
    LET new == FoldLeft(LAMBDA m, e : ReadEntry(m, e, FALSE), Clear, file.new)
        tried == FoldLeft(LAMBDA m, e : ReadEntry(m, e, TRUE), new, file.tried)
        positions == UNION {{<<b, i>> : i \in file.buckets[b]} : b \in NewBuckets}
        placed == FoldLeft(LAMBDA m, x : ReadPosition(m, x[1], x[2]), tried, SetToSeq(positions))
        lost == {i \in DOMAIN placed.mapInfo : ~placed.mapInfo[i].fInTried /\ placed.mapInfo[i].nRefCount = 0}
    IN  FoldLeft(Delete, placed, SetToSortSeq(lost, <))

\* DumpAddresses, then a restart.  That the file may be older than the last change gives no other
\* state: a restart from an older file is one that came earlier.
Restart == addrman' = Unserialize(Serialize(addrman))

Init == addrman = Clear

Next ==
    \/ \E a \in Services, source \in Sources, terrible \in BOOLEAN : Add_(a, source, terrible)
    \/ \E a \in Services : Good_(a)
    \/ GetAddr_
    \/ Restart

Spec == Init /\ [][Next]_addrVars

----------------------------------------------------------------------------
(* What Check_ (compiled in with DEBUG_ADDRMAN) asks of the tables holds after every operation: the *)
(* maps, the random order, the buckets and the counters describe the same entries, each where its   *)
(* hash puts it, and no assert has failed on the way.                                                *)
Check_(m) ==
    LET info == m.mapInfo
        tried == {i \in DOMAIN info : info[i].fInTried}
        new == DOMAIN info \ tried
    IN  /\ m.asserted
        /\ Len(m.vRandom) = m.nTried + m.nNew
        /\ \A i \in tried : info[i].success /\ info[i].nRefCount = 0
        /\ \A i \in new : info[i].nRefCount \in 1..ADDRMAN_NEW_BUCKETS_PER_ADDRESS
        /\ \A i \in DOMAIN info :
            /\ m.mapAddr[Host[info[i].service]] = i
            /\ info[i].nRandomPos \in 0..(Len(m.vRandom) - 1)
            /\ m.vRandom[info[i].nRandomPos + 1] = i
        /\ m.nTried = Cardinality(tried) /\ m.nNew = Cardinality(new)
        /\ \A s \in TriedSlots : m.vvTried[s] # NoId => m.vvTried[s] \in tried /\ s = TriedSlot(info[m.vvTried[s]].service)
        /\ \A i \in tried : \E s \in TriedSlots : m.vvTried[s] = i
        /\ \A s \in NewSlots : m.vvNew[s] # NoId => m.vvNew[s] \in new /\ s = NewSlot(info[m.vvNew[s]].service, s[1])
        /\ \A i \in new : info[i].nRefCount = Cardinality({s \in NewSlots : m.vvNew[s] = i})

TablesConsistent == Check_(addrman)

\* What there is to know about the entries, but for their numbers and the random order.
Contents(m) ==
    {<<m.mapInfo[i].service, m.mapInfo[i].source, m.mapInfo[i].success, m.mapInfo[i].fInTried,
       {s \in NewSlots : m.vvNew[s] = i}>> : i \in DOMAIN m.mapInfo}

(* Reading peers.dat gives the tables that were written, whatever was added, tried, evicted or   *)
(* deleted before: no address, bucket or reference is lost, though only part of them is written. *)
ReloadIsExact == Contents(Unserialize(Serialize(addrman))) = Contents(addrman)
=============================================================================
