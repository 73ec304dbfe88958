------------------------------ MODULE NetProofs ------------------------------
(***************************************************************************)
(* The safety properties of two peer-to-peer parts, for any number of      *)
(* peers, transactions and connections: those of Network.                  *)
(***************************************************************************)
EXTENDS Network, Integers, FiniteSetTheorems, WellFoundedInduction, TLAPS

(* A set of naturals has a least element. *)
LEMMA LeastNat == ASSUME NEW T, T \subseteq Nat, T # {} PROVE \E x \in T : \A y \in T : x <= y
<1> DEFINE R == OpToRel(<, Nat)
<1>1. IsWellFoundedOn(R, Nat)
  BY NatLessThanWellFounded
<1>2. \A x, y \in Nat : <<y, x>> \in R <=> y < x
  BY DEF OpToRel
<1> HIDE DEF R
<1>3. PICK x \in T : \A y \in T : ~ (<<y, x>> \in R)
  BY Zenon, <1>1, WFMin
<1>4. x \in Nat
  BY <1>3
<1>5. \A y \in T : x <= y
  <2> TAKE y \in T
  <2>1. y \in Nat /\ ~(y < x)
    BY Zenon, <1>2, <1>3, <1>4
  <2> QED BY <1>4, <2>1
<1> QED BY <1>3, <1>5


(* Min(S) is in S. *)
LEMMA MinIn == ASSUME NEW T, T \subseteq Nat, T # {} PROVE Min(T) \in T
  BY Zenon, LeastNat DEF Min

-----------------------------------------------------------------------------
(* The transactions that come in.                                          *)


OrphanTypeOK ==
    /\ orphans \subseteq Txs /\ IsFiniteSet(orphans) /\ DOMAIN fromPeer = Txs /\ fromPeer = [t \in Txs |-> fromPeer[t]]
    /\ DOMAIN byPrev = Txs
    /\ byPrev = [t \in Txs |-> byPrev[t]]

OrphanInv == OrphanTypeOK /\ OrphansExact

(* LimitOrphanTxSize takes out as many as there are too many. *)
LEMMA LimitKept ==
    ASSUME NEW all, NEW gone \in SUBSET all, IsFiniteSet(all), nMaxOrphanTx \in Nat,
           Cardinality(gone) = IF Cardinality(all) > nMaxOrphanTx THEN Cardinality(all) - nMaxOrphanTx ELSE 0
    PROVE  IsFiniteSet(all \ gone) /\ Cardinality(all \ gone) <= nMaxOrphanTx
<1>1. all \cap gone = gone
  OBVIOUS
<1>2. IsFiniteSet(all \ gone) /\ Cardinality(all \ gone) = Cardinality(all) - Cardinality(gone)
  BY <1>1, FS_Difference
<1> QED BY <1>2, FS_CardinalityType

(* AddOrphanTx and the LimitOrphanTxSize that follows it keep the maps of the orphans in agreement. *)
LEMMA AddOrphanTxInv ==
    ASSUME RelayAssumption, OrphanInv, NEW p \in connected, NEW t \in Txs, AddOrphanTx(p, t),
           UNCHANGED <<world, connected>>
    PROVE  OrphanInv'
<1> DEFINE added == [u \in Txs |-> IF u \in Parents(t) THEN byPrev[u] \cup {t} ELSE byPrev[u]]
           all == orphans \cup {t}
<1>1. PICK gone \in SUBSET all :
            /\ Cardinality(gone) = IF Cardinality(all) > nMaxOrphanTx THEN Cardinality(all) - nMaxOrphanTx ELSE 0
            /\ orphans' = all \ gone
            /\ fromPeer' = [fromPeer EXCEPT ![t] = p]
            /\ byPrev' = Erased(added, gone)
  BY DEF AddOrphanTx
<1>2. IsFiniteSet(all)
  BY FS_AddElement DEF OrphanInv, OrphanTypeOK
<1>3. IsFiniteSet(orphans') /\ Cardinality(orphans') <= nMaxOrphanTx
  <2> HIDE DEF all
  <2> QED BY <1>1, <1>2, LimitKept DEF RelayAssumption
<1>4. \A u \in Txs : added[u] = {o \in all : u \in Parents(o)}
  BY DEF OrphanInv, OrphansExact
<1>5. \A o : Parents(o)' = Parents(o)
  BY DEF Parents
<1>6. \A u \in Txs : byPrev'[u] = {o \in orphans' : u \in Parents(o)}
  <2> HIDE DEF all, added
  <2>1. \A u \in Txs : Erased(added, gone)[u] = {o \in all \ gone : u \in Parents(o)}
    BY <1>4 DEF Erased
  <2> QED BY <1>1, <2>1
<1>7. \A o \in orphans' : fromPeer'[o] \in connected'
  BY <1>1 DEF OrphanInv, OrphanTypeOK, OrphansExact
<1>8. OrphanTypeOK'
  BY <1>1, <1>3 DEF OrphanInv, OrphanTypeOK, Erased
<1> QED BY <1>3, <1>5, <1>6, <1>7, <1>8 DEF OrphanInv, OrphansExact

(* So does EraseOrphanTx, for one orphan or for all those of a peer. *)
LEMMA EraseInv ==
    ASSUME RelayAssumption, OrphanInv, NEW gone, UNCHANGED <<world, fromPeer>>,
           orphans' = orphans \ gone, byPrev' = Erased(byPrev, gone),
           \A o \in orphans \ gone : fromPeer[o] \in connected'
    PROVE  OrphanInv'
<1>1. \A o : Parents(o)' = Parents(o)
  BY DEF Parents
<1>2. IsFiniteSet(orphans) /\ orphans' \subseteq orphans
  BY DEF OrphanInv, OrphanTypeOK
<1>3. IsFiniteSet(orphans') /\ Cardinality(orphans') <= Cardinality(orphans)
      /\ Cardinality(orphans') \in Nat /\ Cardinality(orphans) \in Nat
  BY <1>2, FS_Subset, FS_CardinalityType
<1>4. Cardinality(orphans') <= nMaxOrphanTx
  BY <1>3 DEF OrphanInv, OrphansExact, RelayAssumption
<1>5. \A u \in Txs : byPrev'[u] = {o \in orphans' : u \in Parents(o)}
  <2>1. \A u \in Txs : byPrev[u] = {o \in orphans : u \in Parents(o)}
    BY DEF OrphanInv, OrphansExact
  <2>2. \A u \in Txs : Erased(byPrev, gone)[u] = {o \in orphans \ gone : u \in Parents(o)}
    BY <2>1 DEF Erased
  <2> QED BY <2>2
<1>6. OrphanTypeOK'
  BY <1>3 DEF OrphanInv, OrphanTypeOK, Erased
<1> QED BY <1>1, <1>4, <1>5, <1>6 DEF OrphanInv, OrphansExact

(* Every step keeps the maps in agreement and within -maxorphantx. *)
LEMMA OrphanNext ==
    ASSUME RelayAssumption, OrphanInv, [Next]_(relayVars)
    PROVE  OrphanInv'
<1>1. ASSUME UNCHANGED <<world, orphans, fromPeer, byPrev, connected>>
      PROVE  OrphanInv'
  BY <1>1 DEF OrphanInv, OrphanTypeOK, OrphansExact, Parents
<1>2. ASSUME NEW p \in Peers, NEW t \in Txs, Inv(p, t) \/ SendGetData(p, t)
      PROVE  OrphanInv'
  BY <1>1, <1>2 DEF Inv, SendGetData
<1>3. ASSUME NEW p \in Peers, NEW t \in Txs, Tx(p, t)
      PROVE  OrphanInv'
  <2>1. p \in connected /\ UNCHANGED <<world, connected>> /\ (AddOrphanTx(p, t) \/ UNCHANGED <<orphans, fromPeer, byPrev>>)
    BY <1>3 DEF Tx
  <2> QED BY <1>1, <2>1, AddOrphanTxInv
<1>4. ASSUME NEW t \in Txs, Confirm(t) \/ Submit(t)
      PROVE  OrphanInv'
  BY <1>1, <1>4 DEF Confirm, Submit
<1>5. ASSUME NEW p \in Peers, FinalizeNode(p)
      PROVE  OrphanInv'
  <2> DEFINE gone == {t \in orphans : fromPeer[t] = p}
  <2>1. /\ UNCHANGED <<world, fromPeer>> /\ connected' = connected \ {p}
        /\ orphans' = orphans \ gone /\ byPrev' = Erased(byPrev, gone)
    BY <1>5 DEF FinalizeNode
  <2>2. \A o \in orphans \ gone : fromPeer[o] \in connected'
    BY SMTT(60), <2>1 DEF OrphanInv, OrphansExact
  <2> HIDE DEF gone
  <2> QED BY <2>1, <2>2, EraseInv
<1>6. CASE ResolveOrphan
  BY Zenon, <1>1, <1>6 DEF ResolveOrphan
<1>7. CASE ResolveNext
  <2>1. CASE UNCHANGED <<orphans, byPrev>>
    BY <1>1, <1>7, <2>1 DEF ResolveNext
  <2>2. CASE orphans' = orphans \ resolving.vEraseQueue /\ byPrev' = Erased(byPrev, resolving.vEraseQueue)
    <3>1. UNCHANGED <<world, fromPeer, connected>>
      BY <1>7 DEF ResolveNext
    <3>2. \A o \in orphans \ resolving.vEraseQueue : fromPeer[o] \in connected'
      BY <3>1 DEF OrphanInv, OrphansExact
    <3> QED BY <2>2, <3>1, <3>2, EraseInv
  <2> QED BY <1>7, <2>1, <2>2 DEF ResolveNext
<1>8. CASE UNCHANGED relayVars
  BY <1>1, <1>8 DEF relayVars
<1> QED BY <1>2, <1>3, <1>4, <1>5, <1>6, <1>7, <1>8 DEF Next

(* mapOrphanTransactions and mapOrphanTransactionsByPrev agree, no more orphans are kept than -maxorphantx *)
(* allows, and none of a peer that is gone, for any number of peers and transactions.                      *)
THEOREM OrphansAreKept ==
    ASSUME RelayAssumption
    PROVE  Spec => []OrphansExact
<1>1. Init => OrphanInv
  BY FS_EmptySet DEF Init, RelayAssumption, OrphanInv, OrphanTypeOK, OrphansExact
<1>2. OrphanInv => OrphansExact
  BY DEF OrphanInv, OrphansExact
<1> QED BY <1>1, <1>2, OrphanNext, PTL DEF Spec

-----------------------------------------------------------------------------
(* The tx handler's loop over the orphans. *)

Known == mempool \cup chain
Queued == {resolving.queue[i] : i \in 1 .. Len(resolving.queue)}

(* o spends an output of a transaction of the queue that the loop has not finished with. *)
Ahead(o) ==
    \E i \in 1 .. Len(resolving.queue) :
        /\ resolving.queue[i] \in Parents(o)
        /\ i > resolving.next \/ (i = resolving.next /\ o \notin resolving.seen)

LoopTypeOK ==
    /\ world \in Worlds /\ connected \subseteq Peers
    /\ resolving \in [queue : Seq(Txs), next : Nat \ {0}, seen : SUBSET Txs, vEraseQueue : SUBSET Txs,
                      setMisbehaving : SUBSET Peers]
    /\ Idle \/ resolving.next <= Len(resolving.queue)

(* The inputs of what is accepted are there. *)
InputsKnown ==
    /\ \A t \in mempool : Parents(t) \subseteq Known
    /\ \A t \in chain : Parents(t) \subseteq chain

(* The queue is what was accepted since the message came, so nothing else that is accepted spends it; *)
(* and what is to be erased is in the queue if it was accepted.                                       *)
QueueInv ==
    /\ Queued \subseteq mempool
    /\ \A t \in Known \ Queued : Parents(t) \cap Queued = {}
    /\ resolving.vEraseQueue \cap mempool \subseteq Queued

(* An orphan that could be accepted is still to be looked at. *)
NoneMissed ==
    \A o \in orphans \ resolving.vEraseQueue :
        /\ Parents(o) \cap Queued # {}
        /\ Parents(o) \subseteq Known
        /\ fromPeer[o] \notin resolving.setMisbehaving
        => Ahead(o)

LoopInv == LoopTypeOK /\ InputsKnown /\ QueueInv /\ NoneMissed

(* When the loop does not run, the queue is empty. *)
LEMMA IdleQueue ==
    ASSUME Idle
    PROVE  Queued = {} /\ resolving.vEraseQueue = {} /\ resolving.queue = <<>>
  BY DEF Idle, NotResolving, Queued

(* Every step keeps the queue empty while the loop does not run. *)
LEMMA IdleQueueNext ==
    ASSUME Idle'
    PROVE  Queued' = {} /\ resolving.vEraseQueue' = {}
  BY DEF Idle, NotResolving, Queued

(* What the answers of AcceptToMemoryPool say. *)
LEMMA AcceptMeans ==
    ASSUME RelayAssumption, world \in Worlds, NEW t \in Txs
    PROVE  LET result == AcceptToMemoryPool(t) IN
           /\ result \in {"have", "missing", "ok", "refused", "bad"}
           /\ result = "have" <=> t \in Known
           /\ result = "missing" <=> t \notin Known /\ ~(Parents(t) \subseteq Known)
  BY DEF RelayAssumption, AcceptToMemoryPool, Known

(* Nothing that is accepted spends what is not. *)
LEMMA NotSpentYet ==
    ASSUME InputsKnown, NEW t, t \notin Known
    PROVE  \A u \in Known : t \notin Parents(u)
  BY DEF InputsKnown, Known

(* A "tx" message starts the loop with what it brought, or leaves everything as it was resolved. *)
LEMMA TxLoop ==
    ASSUME RelayAssumption, OrphanInv, LoopInv, NEW p \in Peers, NEW t \in Txs, Tx(p, t)
    PROVE  LoopInv'
<1>1. Idle /\ UNCHANGED <<world, chain, connected>>
  BY DEF Tx
<1>2. \A o : Parents(o)' = Parents(o)
  BY <1>1 DEF Parents
<1>3. CASE UNCHANGED <<mempool, resolving>>
  <2>1. Idle' 
    BY <1>1, <1>3 DEF Idle, NotResolving
  <2>2. Queued' = {} /\ resolving'.vEraseQueue = {}
    BY <2>1, IdleQueueNext
  <2> QED BY <1>1, <1>2, <1>3, <2>1, <2>2 DEF LoopInv, LoopTypeOK, InputsKnown, QueueInv, NoneMissed, Known
<1>4. CASE /\ AcceptToMemoryPool(t) = "ok" /\ mempool' = mempool \cup {t}
           /\ resolving' = [NotResolving EXCEPT !.queue = <<t>>] /\ UNCHANGED orphans
  <2>1. /\ resolving'.queue = <<t>> /\ resolving'.next = 1 /\ resolving'.seen = {} /\ resolving'.vEraseQueue = {}
        /\ resolving'.setMisbehaving = {}
        /\ resolving' = [queue |-> <<t>>, next |-> 1, seen |-> {}, vEraseQueue |-> {}, setMisbehaving |-> {}]
    BY ZenonT(60), <1>4 DEF NotResolving
  <2>2. Queued' = {t} /\ t \notin Known /\ Parents(t) \subseteq Known /\ Known' = Known \cup {t}
    BY <1>1, <1>4, <2>1, AcceptMeans DEF Queued, LoopInv, LoopTypeOK, Known
  <2>3. LoopTypeOK'
    BY <1>1, <2>1 DEF LoopInv, LoopTypeOK
  <2>4. InputsKnown'
    BY <1>1, <1>2, <1>4, <2>2 DEF LoopInv, InputsKnown
  <2>5. QueueInv'
    BY <1>2, <1>4, <2>1, <2>2, NotSpentYet DEF LoopInv, QueueInv
  <2>6. NoneMissed'
    <3> SUFFICES ASSUME NEW o, t \in Parents(o)' PROVE Ahead(o)'
      BY <2>2 DEF NoneMissed
    <3> QED BY <2>1 DEF Ahead
  <2> QED BY <2>3, <2>4, <2>5, <2>6 DEF LoopInv
<1> QED BY <1>3, <1>4 DEF Tx

(* One turn of the inner loop. *)
LEMMA ResolveOrphanLoop ==
    ASSUME RelayAssumption, OrphanInv, LoopInv, ResolveOrphan
    PROVE  LoopInv'
<1> DEFINE waiting == byPrev[resolving.queue[resolving.next]] \ resolving.seen
           t == Min(waiting)
           result == AcceptToMemoryPool(t)
           skip == fromPeer[t] \in resolving.setMisbehaving
           taken == ~skip /\ result = "ok"
<1>1. /\ resolving.next <= Len(resolving.queue) /\ waiting # {}
      /\ mempool' = IF taken THEN mempool \cup {t} ELSE mempool
      /\ resolving' = [resolving EXCEPT
                !.seen = @ \cup {t},
                !.queue = IF taken THEN Append(@, t) ELSE @,
                !.vEraseQueue = IF ~skip /\ result # "missing" THEN @ \cup {t} ELSE @,
                !.setMisbehaving = IF ~skip /\ result = "bad" THEN @ \cup {fromPeer[t]} ELSE @]
      /\ UNCHANGED <<world, chain, orphans, fromPeer, byPrev, connected>>
  BY ZenonT(60) DEF ResolveOrphan
<1>2. /\ resolving.next \in 1 .. Len(resolving.queue) /\ resolving.queue \in Seq(Txs)
      /\ resolving.queue[resolving.next] \in Txs
  <2>1. resolving.next <= Len(resolving.queue)
    BY <1>1
  <2>2. resolving.queue \in Seq(Txs) /\ resolving.next \in Nat \ {0}
    BY DEF LoopInv, LoopTypeOK
  <2> QED BY SMTT(60), <2>1, <2>2
<1>3. t \in waiting
  <2>1. waiting \subseteq Nat
    BY <1>2 DEF OrphanInv, OrphanTypeOK, OrphansExact, RelayAssumption
  <2> HIDE DEF waiting
  <2> QED BY <1>1, <2>1, MinIn
<1>4. /\ t \in orphans /\ t \in Txs /\ resolving.queue[resolving.next] \in Parents(t) /\ fromPeer[t] \in Peers
      /\ Parents(t) \cap Queued # {}
  <2> HIDE DEF t
  <2>1. t \in byPrev[resolving.queue[resolving.next]]
    BY <1>3
  <2>2. t \in orphans /\ resolving.queue[resolving.next] \in Parents(t)
    BY <1>2, <2>1 DEF OrphanInv, OrphansExact
  <2>3. t \in Txs /\ fromPeer[t] \in Peers
    BY <2>2 DEF OrphanInv, OrphanTypeOK, OrphansExact, LoopInv, LoopTypeOK
  <2>4. resolving.queue[resolving.next] \in Queued
    BY <1>2 DEF Queued
  <2> QED BY <2>2, <2>3, <2>4
<1> HIDE DEF waiting, t
<1>5. /\ result \in {"have", "missing", "ok", "refused", "bad"}
      /\ result = "have" <=> t \in Known
      /\ result = "missing" <=> t \notin Known /\ ~(Parents(t) \subseteq Known)
  BY <1>4, AcceptMeans DEF LoopInv, LoopTypeOK
<1> HIDE DEF result, skip
<1>6. /\ resolving'.seen = resolving.seen \cup {t} /\ resolving'.next = resolving.next
      /\ resolving'.queue = IF taken THEN Append(resolving.queue, t) ELSE resolving.queue
      /\ resolving'.vEraseQueue = IF ~skip /\ result # "missing" THEN resolving.vEraseQueue \cup {t} ELSE resolving.vEraseQueue
      /\ resolving'.setMisbehaving =
              IF ~skip /\ result = "bad" THEN resolving.setMisbehaving \cup {fromPeer[t]} ELSE resolving.setMisbehaving
  BY <1>1 DEF LoopInv, LoopTypeOK
<1>7. LoopTypeOK'
  <2>1. resolving'.next <= Len(resolving'.queue)
    BY <1>2, <1>6
  <2>2. resolving' \in [queue : Seq(Txs), next : Nat \ {0}, seen : SUBSET Txs, vEraseQueue : SUBSET Txs,
                      setMisbehaving : SUBSET Peers]
    <3>1. resolving' = [queue |-> resolving'.queue, next |-> resolving'.next, seen |-> resolving'.seen,
                        vEraseQueue |-> resolving'.vEraseQueue, setMisbehaving |-> resolving'.setMisbehaving]
      BY Zenon, <1>1 DEF LoopInv, LoopTypeOK
    <3>2. resolving'.queue \in Seq(Txs) /\ resolving'.next \in Nat \ {0}
      BY <1>2, <1>4, <1>6
    <3>3. /\ resolving'.seen \subseteq Txs /\ resolving'.vEraseQueue \subseteq Txs
          /\ resolving'.setMisbehaving \subseteq Peers
      BY <1>4, <1>6 DEF LoopInv, LoopTypeOK
    <3> QED BY <3>1, <3>2, <3>3
  <2> QED BY <1>1, <2>1, <2>2 DEF LoopInv, LoopTypeOK
<1>8. \A o : Parents(o)' = Parents(o)
  BY <1>1 DEF Parents
<1>9. CASE taken
  <2>1. t \notin Known /\ Parents(t) \subseteq Known /\ Known' = Known \cup {t} /\ mempool' = mempool \cup {t}
    BY <1>1, <1>5, <1>9 DEF Known
  <2>2. /\ Len(resolving'.queue) = Len(resolving.queue) + 1
        /\ \A i \in 1 .. Len(resolving.queue) : resolving'.queue[i] = resolving.queue[i]
        /\ resolving'.queue[Len(resolving.queue) + 1] = t
    BY <1>2, <1>4, <1>6, <1>9
  <2>3. Queued' = Queued \cup {t}
    <3> DEFINE n == Len(resolving.queue)
               q == resolving.queue
               r == resolving'.queue
    <3>1. n \in Nat /\ Len(r) = n + 1 /\ r[n + 1] = t /\ \A i \in 1 .. n : r[i] = q[i]
      BY <1>2, <2>2
    <3>2. Queued = {q[i] : i \in 1 .. n} /\ Queued' = {r[i] : i \in 1 .. Len(r)}
      BY DEF Queued
    <3> HIDE DEF n, q, r
    <3>3. {r[i] : i \in 1 .. (n + 1)} = {r[i] : i \in 1 .. n} \cup {r[n + 1]}
      BY <3>1
    <3>4. {r[i] : i \in 1 .. n} = {q[i] : i \in 1 .. n}
      BY <3>1
    <3> QED BY <3>1, <3>2, <3>3, <3>4
  <2>4. InputsKnown'
    BY <1>1, <1>8, <2>1 DEF LoopInv, InputsKnown
  <2>5. QueueInv'
    BY <1>6, <1>8, <1>9, <2>1, <2>3, NotSpentYet DEF LoopInv, QueueInv
  <2>6. NoneMissed'
    <3> SUFFICES ASSUME NEW o \in orphans, o \notin resolving'.vEraseQueue, Parents(o) \cap Queued' # {},
                        Parents(o) \subseteq Known', fromPeer[o] \notin resolving'.setMisbehaving
                 PROVE  Ahead(o)'
      BY <1>1, <1>8 DEF NoneMissed
    <3>1. CASE t \in Parents(o)
      BY <1>2, <1>6, <1>8, <2>2, <3>1 DEF Ahead
    <3>2. CASE t \notin Parents(o)
      <4>1. o # t
        BY <1>5, <1>6, <1>9
      <4>2. Ahead(o)
        BY <1>6, <1>9, <2>1, <2>3, <3>2 DEF LoopInv, NoneMissed
      <4> QED BY <1>2, <1>6, <1>8, <2>2, <4>1, <4>2 DEF Ahead
    <3> QED BY <3>1, <3>2
  <2> QED BY <1>7, <2>4, <2>5, <2>6 DEF LoopInv
<1>10. CASE ~taken
  <2>1. mempool' = mempool /\ Known' = Known /\ resolving'.queue = resolving.queue /\ Queued' = Queued
    BY <1>1, <1>6, <1>10 DEF Known, Queued
  <2>2. InputsKnown'
    BY <1>1, <1>8, <2>1 DEF LoopInv, InputsKnown
  <2>3. QueueInv'
    BY <1>4, <1>5, <1>6, <1>8, <1>10, <2>1 DEF LoopInv, QueueInv, Known
  <2>4. NoneMissed'
    <3> SUFFICES ASSUME NEW o \in orphans, o \notin resolving'.vEraseQueue, Parents(o) \cap Queued # {},
                        Parents(o) \subseteq Known, fromPeer[o] \notin resolving'.setMisbehaving
                 PROVE  Ahead(o)'
      BY <1>1, <1>8, <2>1 DEF NoneMissed
    <3>1. o # t
      BY <1>5, <1>6 DEF skip
    <3>2. Ahead(o)
      BY <1>6 DEF LoopInv, NoneMissed
    <3> QED BY <1>6, <1>8, <2>1, <3>1, <3>2 DEF Ahead
  <2> QED BY <1>7, <2>2, <2>3, <2>4 DEF LoopInv
<1> QED BY <1>9, <1>10

(* The outer loop goes on, or ends. *)
LEMMA ResolveNextLoop ==
    ASSUME RelayAssumption, OrphanInv, LoopInv, ResolveNext
    PROVE  LoopInv' /\ ResolvedInFull
<1>1. /\ ~Idle /\ UNCHANGED <<world, mempool, chain, fromPeer, connected>>
      /\ resolving.next <= Len(resolving.queue) => byPrev[resolving.queue[resolving.next]] \subseteq resolving.seen
  BY DEF ResolveNext
<1>2. resolving.next \in 1 .. Len(resolving.queue) /\ resolving.queue \in Seq(Txs)
  BY <1>1 DEF LoopInv, LoopTypeOK
<1>3. \A o : Parents(o)' = Parents(o)
  BY <1>1 DEF Parents
<1>4. \A o \in orphans : Ahead(o) => \E i \in 1 .. Len(resolving.queue) :
            resolving.queue[i] \in Parents(o) /\ i > resolving.next
  <2> SUFFICES ASSUME NEW o \in orphans, resolving.queue[resolving.next] \in Parents(o)
               PROVE  o \in resolving.seen
    BY <1>2 DEF Ahead
  <2>1. o \in byPrev[resolving.queue[resolving.next]]
    BY <1>2 DEF OrphanInv, OrphansExact
  <2> QED BY <1>1, <1>2, <2>1
<1>5. CASE resolving.next < Len(resolving.queue)
  <2>1. resolving' = [resolving EXCEPT !.next = @ + 1, !.seen = {}] /\ UNCHANGED <<orphans, byPrev>>
    BY <1>5 DEF ResolveNext
  <2>2. /\ resolving'.queue = resolving.queue /\ resolving'.next = resolving.next + 1 /\ resolving'.seen = {}
        /\ resolving'.vEraseQueue = resolving.vEraseQueue /\ resolving'.setMisbehaving = resolving.setMisbehaving
    BY <2>1 DEF LoopInv, LoopTypeOK
  <2>3. LoopTypeOK'
    <3>1. resolving' = [queue |-> resolving.queue, next |-> resolving.next + 1, seen |-> {},
                        vEraseQueue |-> resolving.vEraseQueue, setMisbehaving |-> resolving.setMisbehaving]
      BY Zenon, <2>1 DEF LoopInv, LoopTypeOK
    <3>2. resolving'.next <= Len(resolving'.queue)
      BY <1>2, <1>5, <2>2
    <3> QED BY <1>1, <1>2, <3>1, <3>2 DEF LoopInv, LoopTypeOK
  <2>4. Queued' = Queued /\ Known' = Known
    BY <1>1, <2>2 DEF Queued, Known
  <2>5. InputsKnown' /\ QueueInv'
    BY <1>1, <1>3, <2>2, <2>4 DEF LoopInv, InputsKnown, QueueInv
  <2>6. NoneMissed'
    <3> SUFFICES ASSUME NEW o \in orphans, o \notin resolving.vEraseQueue, Parents(o) \cap Queued # {},
                        Parents(o) \subseteq Known, fromPeer[o] \notin resolving.setMisbehaving
                 PROVE  Ahead(o)'
      BY <1>1, <1>3, <2>1, <2>2, <2>4 DEF NoneMissed
    <3>1. PICK i \in 1 .. Len(resolving.queue) : resolving.queue[i] \in Parents(o) /\ i > resolving.next
      BY <1>4 DEF LoopInv, NoneMissed
    <3>2. i > resolving.next + 1 \/ i = resolving.next + 1
      BY <1>2, <3>1
    <3> QED BY <1>3, <2>2, <3>1, <3>2 DEF Ahead
  <2>7. ~Idle'
    BY <1>2, <2>2 DEF Idle, NotResolving
  <2> QED BY <2>3, <2>5, <2>6, <2>7 DEF LoopInv, ResolvedInFull
<1>6. CASE ~(resolving.next < Len(resolving.queue))
  <2>1. resolving' = NotResolving /\ orphans' = orphans \ resolving.vEraseQueue
    BY <1>6 DEF ResolveNext
  <2>2. Idle'
    BY <2>1 DEF Idle, NotResolving
  <2>3. Queued' = {} /\ resolving'.vEraseQueue = {}
    BY <2>2, IdleQueueNext
  <2>4. LoopTypeOK'
    BY SMTT(60), <1>1, <2>1, <2>2 DEF LoopInv, LoopTypeOK, NotResolving
  <2>5. InputsKnown' /\ QueueInv' /\ NoneMissed'
    BY <1>1, <1>3, <2>3 DEF LoopInv, InputsKnown, QueueInv, NoneMissed, Known
  <2>6. ResolvedInFull
    <3> SUFFICES ASSUME NEW o \in orphans, o \notin resolving.vEraseQueue,
                        Parents(o) \cap mempool \cap (Range(resolving.queue) \cup resolving.vEraseQueue) # {},
                        Parents(o) \subseteq Known, fromPeer[o] \notin resolving.setMisbehaving
                 PROVE  FALSE
      BY <1>1, <1>3, <2>1 DEF ResolvedInFull, Known
    <3>1. Range(resolving.queue) = Queued
      BY <1>2 DEF Range, Queued
    <3>2. Parents(o) \cap Queued # {}
      BY <3>1 DEF LoopInv, QueueInv
    <3>3. Ahead(o)
      BY <3>2 DEF LoopInv, NoneMissed
    <3>4. PICK i \in 1 .. Len(resolving.queue) : i > resolving.next
      BY SMTT(60), <1>4, <3>3
    <3> QED BY SMTT(60), <1>2, <1>6, <3>4
  <2> QED BY <2>4, <2>5, <2>6 DEF LoopInv
<1> QED BY <1>5, <1>6

(* The rest of the program, while the loop does not run. *)
LEMMA OthersLoop ==
    ASSUME RelayAssumption, OrphanInv, LoopInv, Idle, UNCHANGED <<world, resolving>>, connected' \subseteq Peers,
           InputsKnown'
    PROVE  LoopInv'
<1>1. Idle' 
  BY DEF Idle, NotResolving
<1>2. Queued' = {} /\ resolving'.vEraseQueue = {}
  BY <1>1, IdleQueueNext
<1> QED BY SMTT(60), <1>1, <1>2 DEF LoopInv, LoopTypeOK, QueueInv, NoneMissed

(* Every step keeps what the loop relies on. *)
LEMMA LoopNext ==
    ASSUME RelayAssumption, OrphanInv, LoopInv, [Next]_(relayVars)
    PROVE  LoopInv' /\ [ResolvedInFull]_(relayVars)
<1>1. ASSUME Idle PROVE ResolvedInFull
  BY <1>1 DEF ResolvedInFull
<1>2. ASSUME UNCHANGED world PROVE \A o : Parents(o)' = Parents(o)
  BY <1>2 DEF Parents
<1>3. ASSUME NEW p \in Peers, NEW t \in Txs, Inv(p, t) \/ SendGetData(p, t)
      PROVE  LoopInv' /\ ResolvedInFull
  <2>1. Idle /\ UNCHANGED <<world, resolving, connected, mempool, chain>>
    BY <1>3 DEF Inv, SendGetData
  <2>2. InputsKnown' /\ connected' \subseteq Peers
    BY <1>2, <2>1 DEF LoopInv, InputsKnown, Known, LoopTypeOK
  <2> QED BY <1>1, <2>1, <2>2, OthersLoop
<1>4. ASSUME NEW p \in Peers, NEW t \in Txs, Tx(p, t)
      PROVE  LoopInv' /\ ResolvedInFull
  <2>1. Idle
    BY <1>4 DEF Tx
  <2> QED BY <1>1, <1>4, <2>1, TxLoop
<1>5. ASSUME NEW t \in Txs, Confirm(t)
      PROVE  LoopInv' /\ ResolvedInFull
  <2>1. /\ Idle /\ UNCHANGED <<world, resolving, connected>> /\ mempool' = mempool \ {t} /\ chain' = chain \cup {t}
        /\ Parents(t) \subseteq chain
    BY <1>5 DEF Confirm
  <2>2. InputsKnown' /\ connected' \subseteq Peers
    BY <1>2, <2>1 DEF LoopInv, InputsKnown, Known, LoopTypeOK
  <2> QED BY <1>1, <2>1, <2>2, OthersLoop
<1>6. ASSUME NEW t \in Txs, Submit(t)
      PROVE  LoopInv' /\ ResolvedInFull
  <2>1. /\ Idle /\ UNCHANGED <<world, resolving, connected, chain>> /\ mempool' = mempool \cup {t}
        /\ AcceptToMemoryPool(t) = "ok"
    BY <1>6 DEF Submit
  <2>2. Parents(t) \subseteq Known
    BY <2>1, AcceptMeans DEF LoopInv, LoopTypeOK
  <2>3. InputsKnown' /\ connected' \subseteq Peers
    BY <1>2, <2>1, <2>2 DEF LoopInv, InputsKnown, Known, LoopTypeOK
  <2> QED BY <1>1, <2>1, <2>3, OthersLoop
<1>7. ASSUME NEW p \in Peers, FinalizeNode(p)
      PROVE  LoopInv' /\ ResolvedInFull
  <2>1. Idle /\ UNCHANGED <<world, resolving, mempool, chain>> /\ connected' = connected \ {p}
    BY <1>7 DEF FinalizeNode
  <2>2. InputsKnown' /\ connected' \subseteq Peers
    BY <1>2, <2>1 DEF LoopInv, InputsKnown, Known, LoopTypeOK
  <2> QED BY <1>1, <2>1, <2>2, OthersLoop
<1>8. CASE ResolveOrphan
  <2>1. LoopInv'
    BY <1>8, ResolveOrphanLoop
  <2>2. ~Idle'
    <3>1. resolving.next <= Len(resolving.queue)
      BY ZenonT(60), <1>8 DEF ResolveOrphan
    <3>2. \E t : resolving'.queue \in {resolving.queue, Append(resolving.queue, t)}
      BY Zenon, <1>8 DEF ResolveOrphan, LoopInv, LoopTypeOK
    <3>3. resolving.queue # <<>> /\ resolving.queue \in Seq(Txs)
      BY <3>1 DEF LoopInv, LoopTypeOK
    <3>4. resolving'.queue # <<>>
      BY <3>2, <3>3
    <3> QED BY SMTT(60), <3>4 DEF Idle, NotResolving
  <2> QED BY <2>1, <2>2 DEF ResolvedInFull
<1>9. CASE ResolveNext
  BY SMTT(60), <1>9, ResolveNextLoop
<1>10. CASE UNCHANGED relayVars
  <2>1. UNCHANGED <<world, mempool, chain, resolving, orphans, fromPeer, connected>>
    BY SMTT(60), <1>10 DEF relayVars
  <2>2. Known' = Known /\ Queued' = Queued /\ \A o : Parents(o)' = Parents(o)
    BY <2>1, <1>2 DEF Known, Queued
  <2>3. \A o : Ahead(o)' = Ahead(o)
    BY <2>1, <2>2 DEF Ahead
  <2>4. LoopTypeOK'
    BY <2>1 DEF LoopInv, LoopTypeOK, Idle, NotResolving
  <2> QED BY <1>10, <2>1, <2>2, <2>3, <2>4 DEF LoopInv, InputsKnown, QueueInv, NoneMissed
<1> QED BY SMTT(60), <1>3, <1>4, <1>5, <1>6, <1>7, <1>8, <1>9, <1>10 DEF Next


(* When the tx handler's loop over the orphans ends, no orphan is left whose inputs are all there and that *)
(* AcceptToMemoryPool would take, however long the chains of orphans are that one transaction sets free. *)
THEOREM NoOrphanIsMissed ==
    ASSUME RelayAssumption
    PROVE  Spec => OrphansResolved
<1>1. Init => OrphanInv
  BY FS_EmptySet DEF Init, RelayAssumption, OrphanInv, OrphanTypeOK, OrphansExact
<1>2. Init => LoopInv
  <2> SUFFICES ASSUME Init PROVE LoopInv
    BY SMTT(60)
  <2>1. Idle
    BY Zenon DEF Init, Idle, NotResolving
  <2> QED BY <2>1, IdleQueue DEF Init, NotResolving, LoopInv, LoopTypeOK, InputsKnown, QueueInv, NoneMissed, Known
<1> QED BY <1>1, <1>2, OrphanNext, LoopNext, PTL DEF Spec, OrphansResolved

-----------------------------------------------------------------------------
(* The connections.                                                        *)

ConnTypeOK ==
    /\ vNodes \subseteq Nodes /\ vNodesDisconnected \subseteq Nodes /\ deleted \subseteq Nodes
    /\ IsFiniteSet(vNodes) /\ IsFiniteSet(grantOutbound)
    /\ nRefCount \in [Nodes -> Int]
    /\ semOutbound \in Nat
    /\ opener \in {"idle", "granted", "connected", "moved"}
    /\ opening \in Nodes \cup {NoNode}

(* A connection is in at most one list, and a thread's copy holds none that is deleted.  *)
ConnPlaces ==
    /\ vNodes \cap vNodesDisconnected = {} /\ vNodes \cap deleted = {} /\ vNodesDisconnected \cap deleted = {}
    /\ socketCopy \cup handlerCopy \subseteq vNodes \cup vNodesDisconnected
    /\ fInbound \cup fNetworkNode \cup fDisconnect \subseteq Made
    /\ grantOutbound \subseteq vNodes \cup vNodesDisconnected

(* The node that ThreadOpenConnections is making has not been marked yet, so removing it from vNodes *)
(* takes no reference from it.                                                                       *)
ConnOpening ==
    /\ opener \in {"idle", "granted"} <=> opening = NoNode
    /\ opening # NoNode => opening \in (vNodes \cup vNodesDisconnected) \ (fInbound \cup fNetworkNode)
    /\ opener = "connected" => opening \notin grantOutbound

Count(b) == IF b THEN 1 ELSE 0

(* Every holder of a node has its reference: the list, or who is making it, and each copy. *)
RefsCovered ==
    \A n \in Nodes :
        nRefCount[n] >= Count(n \in vNodes \cup {opening}) + Count(n \in socketCopy) + Count(n \in handlerCopy)

(* No grant is lost or made up, and each outbound connection that is not ending has one. *)
GrantsExact ==
    /\ semOutbound + Cardinality(grantOutbound) + Count(opener \in {"granted", "connected"}) = MAX_OUTBOUND_CONNECTIONS
    /\ vNodes \ (fInbound \cup fDisconnect) \subseteq
          grantOutbound \cup (IF opener = "connected" THEN {opening} ELSE {})
    /\ Cardinality((vNodes \cap fInbound) \ fDisconnect) <= nMaxInbound

ConnInv == ConnTypeOK /\ ConnPlaces /\ ConnOpening /\ RefsCovered /\ GrantsExact

(* At the start there is no node and every grant is free. *)
LEMMA ConnInitInv ==
    ASSUME ConnectionsAssumption, ConnInit
    PROVE  ConnInv
  BY FS_EmptySet
  DEF ConnectionsAssumption, ConnInit, ConnInv, ConnTypeOK, ConnPlaces, ConnOpening, RefsCovered, GrantsExact, Count, Made

(* What ThreadOpenConnections does. *)
LEMMA OpenerInv ==
    ASSUME ConnectionsAssumption, ConnInv,
           AcquireGrant \/ ConnectFails \/ ConnectNode \/ MoveGrant \/ SetNetworkNode
    PROVE  ConnInv'
<1> USE DEF ConnectionsAssumption, ConnInv, Count
<1>1. CASE AcquireGrant
  BY SMTT(60), <1>1, FS_CardinalityType DEF AcquireGrant, nodeVars, socketVars, handlerVars, ConnTypeOK, ConnPlaces, ConnOpening, RefsCovered, GrantsExact, Made
<1>2. CASE ConnectFails
  BY <1>2, FS_CardinalityType DEF ConnectFails, nodeVars, socketVars, handlerVars, ConnTypeOK, ConnPlaces, ConnOpening, RefsCovered, GrantsExact, Made
<1>3. CASE ConnectNode
  <2>1. PICK n \in Nodes \ Made : vNodes' = vNodes \cup {n} /\ AddRef({n}) /\ opening' = n
    BY <1>3 DEF ConnectNode
  <2>2. opener = "granted" /\ opening = NoNode /\ opener' = "connected"
    BY <1>3 DEF ConnectNode, ConnOpening
  <2>3. UNCHANGED <<vNodesDisconnected, deleted, fInbound, fNetworkNode, fDisconnect, grantOutbound, semOutbound,
                    socketCopy, handlerCopy>>
    BY <1>3 DEF ConnectNode, socketVars, handlerVars
  <2>4. ConnTypeOK'
    BY <2>1, <2>2, <2>3, FS_AddElement DEF ConnTypeOK, AddRef
  <2>5. ConnPlaces'
    BY <2>1, <2>3 DEF ConnPlaces, Made
  <2>6. ConnOpening'
    BY <2>1, <2>2, <2>3 DEF ConnOpening, ConnPlaces, Made
  <2>7. RefsCovered'
    BY <2>1, <2>2, <2>3 DEF RefsCovered, AddRef, ConnTypeOK
  <2>8. GrantsExact'
    <3>1. (vNodes' \cap fInbound') \ fDisconnect' = (vNodes \cap fInbound) \ fDisconnect
      BY SMTT(60), <2>1, <2>3 DEF ConnPlaces
    <3> QED BY <2>1, <2>2, <2>3, <3>1 DEF GrantsExact
  <2> QED BY <2>4, <2>5, <2>6, <2>7, <2>8
<1>4. CASE MoveGrant
  <2>1. /\ opener = "connected" /\ opener' = "moved" /\ grantOutbound' = grantOutbound \cup {opening}
        /\ UNCHANGED <<vNodes, vNodesDisconnected, deleted, fInbound, fNetworkNode, fDisconnect, nRefCount, semOutbound,
                       opening, socketCopy, handlerCopy>>
    BY <1>4 DEF MoveGrant, nodeVars, socketVars, handlerVars
  <2>2. Cardinality(grantOutbound') = Cardinality(grantOutbound) + 1 /\ IsFiniteSet(grantOutbound')
        /\ Cardinality(grantOutbound) \in Nat
    BY <2>1, FS_AddElement, FS_CardinalityType DEF ConnTypeOK, ConnOpening
  <2>3. GrantsExact'
    BY SMTT(60), <2>1, <2>2 DEF GrantsExact, ConnTypeOK
  <2> QED
    BY <2>1, <2>2, <2>3 DEF ConnTypeOK, ConnPlaces, ConnOpening, RefsCovered, Made
<1>5. CASE SetNetworkNode
  BY <1>5 DEF SetNetworkNode, socketVars, handlerVars, ConnTypeOK, ConnPlaces, ConnOpening, RefsCovered,
              GrantsExact, Made
<1> QED BY SMTT(60), <1>1, <1>2, <1>3, <1>4, <1>5

(* Giving up a set of grants: they return to the semaphore, one each. *)
LEMMA GrantsReturned ==
    ASSUME NEW S, NEW T, IsFiniteSet(S)
    PROVE  /\ IsFiniteSet(S \ T)
           /\ Cardinality(S \ T) + Cardinality(S \cap T) = Cardinality(S)
           /\ Cardinality(S \cap T) \in Nat /\ Cardinality(S \ T) \in Nat
<1>1. IsFiniteSet(S \ T) /\ IsFiniteSet(S \cap T)
  BY FS_Difference, FS_Intersection
<1>2. Cardinality(S \ T) = Cardinality(S) - Cardinality(S \cap T)
  BY Zenon, FS_Difference
<1> QED BY <1>1, <1>2, FS_CardinalityType

(* Removing nodes from vNodes; only those that lose no other holder's reference are released. *)
LEMMA RemoveNodesInv ==
    ASSUME ConnectionsAssumption, ConnInv, RemoveNodes
    PROVE  ConnInv'
<1> DEFINE gone == {n \in vNodes : n \in fDisconnect \/ nRefCount[n] = 0}
<1>1. /\ vNodes' = vNodes \ gone /\ vNodesDisconnected' = vNodesDisconnected \cup gone
      /\ grantOutbound' = grantOutbound \ gone
      /\ semOutbound' = semOutbound + Cardinality(grantOutbound \cap gone)
      /\ fDisconnect' = fDisconnect \cup gone
      /\ nRefCount' = [n \in Nodes |-> IF n \in gone \cap (fNetworkNode \cup fInbound) THEN nRefCount[n] - 1 ELSE nRefCount[n]]
      /\ UNCHANGED <<deleted, fInbound, fNetworkNode, opener, opening, socketCopy, handlerCopy>>
  BY DEF RemoveNodes, Release, openVars, handlerVars
<1>2. gone \subseteq vNodes
  BY SMTT(60)
<1> HIDE DEF gone
<1>3. /\ IsFiniteSet(grantOutbound')
      /\ Cardinality(grantOutbound') + Cardinality(grantOutbound \cap gone) = Cardinality(grantOutbound)
      /\ Cardinality(grantOutbound \cap gone) \in Nat /\ Cardinality(grantOutbound') \in Nat
  BY ZenonT(60), <1>1, GrantsReturned DEF ConnInv, ConnTypeOK
<1>4. ConnTypeOK'
  BY <1>1, <1>2, <1>3, FS_Subset DEF ConnInv, ConnTypeOK
<1>5. ConnPlaces'
  BY <1>1, <1>2 DEF ConnInv, ConnPlaces, Made
<1>6. ConnOpening'
  BY SMTT(60), <1>1, <1>2 DEF ConnInv, ConnOpening
<1>7. RefsCovered'
  <2> SUFFICES ASSUME NEW n \in Nodes
               PROVE  (nRefCount[n] >= Count(n \in vNodes \cup {opening}) + Count(n \in socketCopy) + Count(n \in handlerCopy))'
    BY SMTT(60) DEF RefsCovered
  <2>1. n \in gone \cap (fNetworkNode \cup fInbound) => n # opening /\ n \notin vNodes' /\ n \in vNodes
    BY SMTT(60), <1>1, <1>2 DEF ConnInv, ConnOpening, ConnTypeOK, ConnectionsAssumption
  <2> QED
    BY SMTT(60), <1>1, <1>2, <2>1 DEF ConnInv, RefsCovered, Count, ConnTypeOK
<1>8. GrantsExact'
  <2>1. /\ semOutbound \in Nat /\ Cardinality(grantOutbound) \in Nat
        /\ semOutbound' + Cardinality(grantOutbound') = semOutbound + Cardinality(grantOutbound)
    BY SMTT(60), <1>1, <1>3, FS_CardinalityType DEF ConnInv, ConnTypeOK
  <2>2. (vNodes' \cap fInbound') \ fDisconnect' \subseteq (vNodes \cap fInbound) \ fDisconnect
    BY <1>1
  <2>3. IsFiniteSet((vNodes \cap fInbound) \ fDisconnect)
    BY FS_Subset DEF ConnInv, ConnTypeOK
  <2>4. Cardinality((vNodes' \cap fInbound') \ fDisconnect') <= Cardinality((vNodes \cap fInbound) \ fDisconnect)
        /\ Cardinality((vNodes' \cap fInbound') \ fDisconnect') \in Nat /\ Cardinality((vNodes \cap fInbound) \ fDisconnect) \in Nat
    BY SMTT(60), <2>2, <2>3, FS_Subset, FS_CardinalityType
  <2>5. vNodes' \ (fInbound' \cup fDisconnect') \subseteq grantOutbound' \cup (IF opener' = "connected" THEN {opening'} ELSE {})
    BY SMTT(60), <1>1 DEF ConnInv, GrantsExact
  <2>6. semOutbound' + Cardinality(grantOutbound') + Count(opener' \in {"granted", "connected"}) = MAX_OUTBOUND_CONNECTIONS
    BY SMTT(60), <1>1, <2>1 DEF ConnInv, GrantsExact, Count
  <2>7. Cardinality((vNodes' \cap fInbound') \ fDisconnect') <= nMaxInbound
    BY <2>4 DEF ConnInv, GrantsExact, ConnectionsAssumption
  <2> QED BY SMTT(60), <2>5, <2>6, <2>7 DEF GrantsExact
<1> QED BY SMTT(60), <1>4, <1>5, <1>6, <1>7, <1>8 DEF ConnInv

(* A node is deleted only when its count is zero: nobody holds it. *)
LEMMA DeleteNodesInv ==
    ASSUME ConnectionsAssumption, ConnInv, DeleteNodes
    PROVE  ConnInv'
<1> DEFINE gone == {n \in vNodesDisconnected : nRefCount[n] = 0}
<1>1. /\ vNodesDisconnected' = vNodesDisconnected \ gone /\ deleted' = deleted \cup gone
      /\ grantOutbound' = grantOutbound \ gone
      /\ semOutbound' = semOutbound + Cardinality(grantOutbound \cap gone)
      /\ UNCHANGED <<vNodes, fInbound, fNetworkNode, fDisconnect, nRefCount, opener, opening, socketCopy, handlerCopy>>
  BY DEF DeleteNodes, openVars, handlerVars
<1>2. gone \subseteq vNodesDisconnected
  OBVIOUS
<1>3. \A n \in gone : n \notin socketCopy \cup handlerCopy \cup {opening}
  BY SMTT(60) DEF ConnInv, RefsCovered, Count, ConnTypeOK
<1> HIDE DEF gone
<1>4. /\ IsFiniteSet(grantOutbound')
      /\ Cardinality(grantOutbound') + Cardinality(grantOutbound \cap gone) = Cardinality(grantOutbound)
      /\ Cardinality(grantOutbound \cap gone) \in Nat /\ Cardinality(grantOutbound') \in Nat
  BY ZenonT(60), <1>1, GrantsReturned DEF ConnInv, ConnTypeOK
<1>5. ConnTypeOK'
  BY <1>1, <1>2, <1>4 DEF ConnInv, ConnTypeOK
<1>6. ConnPlaces'
  BY SMTT(60), <1>1, <1>2, <1>3 DEF ConnInv, ConnPlaces, Made
<1>7. ConnOpening' /\ RefsCovered'
  BY <1>1, <1>2, <1>3 DEF ConnInv, ConnOpening, RefsCovered
<1>8. GrantsExact'
  <2>1. semOutbound' + Cardinality(grantOutbound') = semOutbound + Cardinality(grantOutbound)
    BY <1>1, <1>4, FS_CardinalityType DEF ConnInv, ConnTypeOK
  <2>2. vNodes \cap gone = {}
    BY <1>2 DEF ConnInv, ConnPlaces
  <2> QED BY SMTT(60), <1>1, <2>1, <2>2 DEF ConnInv, GrantsExact
<1> QED BY SMTT(60), <1>5, <1>6, <1>7, <1>8 DEF ConnInv

(* A connection comes in; the limit is kept by ending another. *)
LEMMA AcceptConnectionInv ==
    ASSUME ConnectionsAssumption, ConnInv, AcceptConnection
    PROVE  ConnInv'
<1> DEFINE kept == (vNodes \cap fInbound) \ fDisconnect
<1>1. PICK n \in Nodes \ Made, evicted \in SUBSET kept :
        /\ Cardinality(evicted) = IF Cardinality(vNodes \cap fInbound) >= nMaxInbound THEN 1 ELSE 0
        /\ vNodes' = vNodes \cup {n} /\ fInbound' = fInbound \cup {n} /\ fDisconnect' = fDisconnect \cup evicted
        /\ nRefCount' = [m \in Nodes |-> IF m \in {n} THEN nRefCount[m] + 1 ELSE nRefCount[m]]
  BY Zenon DEF AcceptConnection, AddRef
<1>2. UNCHANGED <<vNodesDisconnected, deleted, fNetworkNode, grantOutbound, semOutbound, opener, opening, socketCopy, handlerCopy>>
  BY DEF AcceptConnection, openVars, handlerVars
<1>3. n \notin vNodes \cup vNodesDisconnected \cup deleted \cup fInbound \cup fDisconnect \cup fNetworkNode \cup {opening}
  BY <1>1 DEF ConnInv, ConnPlaces, ConnOpening, Made, ConnectionsAssumption
<1>4. ConnTypeOK'
  BY SMTT(60), <1>1, <1>2, FS_AddElement DEF ConnInv, ConnTypeOK
<1>5. ConnPlaces'
  BY SMTT(60), <1>1, <1>2, <1>3 DEF ConnInv, ConnPlaces, Made
<1>6. ConnOpening'
  BY SMTT(60), <1>1, <1>2, <1>3 DEF ConnInv, ConnOpening
<1>7. RefsCovered'
  BY SMTT(60), <1>1, <1>2, <1>3 DEF ConnInv, RefsCovered, Count, ConnTypeOK
<1>8. GrantsExact'
  <2>1. (vNodes' \cap fInbound') \ fDisconnect' = (kept \ evicted) \cup {n}
    BY <1>1, <1>3
  <2>2. IsFiniteSet(kept) /\ IsFiniteSet(vNodes \cap fInbound) /\ kept \subseteq vNodes \cap fInbound
    BY FS_Subset DEF ConnInv, ConnTypeOK
  <2>3. Cardinality(kept) <= Cardinality(vNodes \cap fInbound)
    BY <2>2, FS_Subset
  <2>4. IsFiniteSet(kept \ evicted) /\ Cardinality(kept \ evicted) = Cardinality(kept) - Cardinality(evicted)
    <3>1. kept \cap evicted = evicted
      BY <1>1
    <3> QED BY Zenon, <2>2, <3>1, FS_Difference
  <2>5. Cardinality((kept \ evicted) \cup {n}) = Cardinality(kept \ evicted) + 1
    BY Zenon, <1>3, <2>4, FS_AddElement
  <2>6. Cardinality(kept) \in Nat /\ Cardinality(vNodes \cap fInbound) \in Nat /\ nMaxInbound \in Nat
    BY <2>2, FS_CardinalityType DEF ConnectionsAssumption
  <2>7. Cardinality(kept) <= nMaxInbound
    BY DEF ConnInv, GrantsExact
  <2> HIDE DEF kept
  <2>8. Cardinality((vNodes' \cap fInbound') \ fDisconnect') <= nMaxInbound
    <3>1. Cardinality((vNodes' \cap fInbound') \ fDisconnect') = Cardinality(kept) - Cardinality(evicted) + 1
      BY <2>1, <2>4, <2>5
    <3>2. Cardinality(evicted) = IF Cardinality(vNodes \cap fInbound) >= nMaxInbound THEN 1 ELSE 0
      BY <1>1
    <3> QED BY SMTT(60), <2>3, <2>6, <2>7, <3>1, <3>2
  <2>9. vNodes' \ (fInbound' \cup fDisconnect') \subseteq vNodes \ (fInbound \cup fDisconnect)
    BY <1>1
  <2> QED BY SMTT(60), <1>2, <2>8, <2>9 DEF ConnInv, GrantsExact
<1> QED BY SMTT(60), <1>4, <1>5, <1>6, <1>7, <1>8 DEF ConnInv

(* The two threads that go over copies of vNodes: a copy takes a reference of each node and gives it back. *)
LEMMA CopiesInv ==
    ASSUME ConnectionsAssumption, ConnInv,
           CopyForSockets \/ SocketsDone \/ CopyForMessages \/ MessagesDone
    PROVE  ConnInv'
<1>1. UNCHANGED <<vNodes, vNodesDisconnected, deleted, fInbound, fNetworkNode, fDisconnect, grantOutbound, semOutbound,
                  opener, opening>>
  BY SMTT(60) DEF CopyForSockets, SocketsDone, CopyForMessages, MessagesDone, openVars
<1>2. /\ socketCopy' \in {socketCopy, vNodes, {}} /\ handlerCopy' \in {handlerCopy, vNodes, {}}
      /\ nRefCount' \in [Nodes -> Int]
  BY SMTT(60) DEF CopyForSockets, SocketsDone, CopyForMessages, MessagesDone, socketVars,
         handlerVars, AddRef, Release, ConnInv, ConnTypeOK
<1>3. ConnTypeOK' /\ ConnPlaces' /\ ConnOpening' /\ GrantsExact'
  BY SMTT(60), <1>1, <1>2 DEF ConnInv, ConnTypeOK, ConnPlaces, ConnOpening, GrantsExact, Made
<1>4. RefsCovered'
  BY <1>1 DEF CopyForSockets, SocketsDone, CopyForMessages, MessagesDone, socketVars,
              handlerVars, AddRef, Release, ConnInv, ConnTypeOK, RefsCovered, Count
<1> QED BY SMTT(60), <1>3, <1>4 DEF ConnInv

(* Either thread may end a connection of its copy. *)
LEMMA ClosesInv ==
    ASSUME ConnectionsAssumption, ConnInv, SocketCloses \/ HandlerCloses
    PROVE  ConnInv'
<1>1. PICK n \in socketCopy \cup handlerCopy : fDisconnect' = fDisconnect \cup {n}
  BY DEF SocketCloses, HandlerCloses
<1>2. UNCHANGED <<vNodes, vNodesDisconnected, deleted, fInbound, fNetworkNode, nRefCount, grantOutbound, semOutbound,
                  opener, opening, socketCopy, handlerCopy>>
  BY SMTT(60) DEF SocketCloses, HandlerCloses, openVars, socketVars, handlerVars
<1>3. ConnTypeOK' /\ ConnPlaces' /\ ConnOpening' /\ RefsCovered'
  BY <1>1, <1>2 DEF ConnInv, ConnTypeOK, ConnPlaces, ConnOpening, RefsCovered, Made
<1>4. GrantsExact'
  <2> DEFINE kept == (vNodes \cap fInbound) \ fDisconnect
  <2>1. kept' \subseteq kept
    BY <1>1, <1>2
  <2>2. IsFiniteSet(kept)
    BY FS_Subset DEF ConnInv, ConnTypeOK
  <2>3. Cardinality(kept') <= Cardinality(kept) /\ Cardinality(kept) \in Nat /\ Cardinality(kept') \in Nat
    BY <2>1, <2>2, FS_Subset, FS_CardinalityType
  <2>4. Cardinality(kept) <= nMaxInbound
    BY DEF ConnInv, GrantsExact
  <2>5. Cardinality(kept') <= nMaxInbound
    <3> HIDE DEF kept
    <3> QED BY <2>3, <2>4 DEF ConnectionsAssumption
  <2> QED BY <1>1, <1>2, <2>5 DEF ConnInv, GrantsExact
<1> QED BY <1>3, <1>4 DEF ConnInv

(* What holds in every state. *)
LEMMA ConnInvHolds ==
    ASSUME ConnectionsAssumption
    PROVE  ConnSpec => []ConnInv
<1>1. ConnInit => ConnInv
  BY ConnInitInv
<1>2. ConnInv /\ [ConnNext]_(connVars) => ConnInv'
  <2>1. CASE UNCHANGED connVars
    BY <2>1 DEF connVars, ConnInv, ConnTypeOK, ConnPlaces, ConnOpening, RefsCovered, GrantsExact, Made
  <2> QED BY SMTT(60), <2>1, OpenerInv, RemoveNodesInv, DeleteNodesInv, AcceptConnectionInv, CopiesInv, ClosesInv DEF ConnNext
<1> QED BY <1>1, <1>2, PTL DEF ConnSpec

(* The count of references is safe: DeleteNodes never deletes a node that a thread's copy, vNodes or the *)
(* opener still has, and at no moment are there more connections than the limits allow.                 *)
THEOREM ConnectionsAreSafe ==
    ASSUME ConnectionsAssumption
    PROVE  ConnSpec => []DeletedNodesUnused
<1>1. ConnInv => DeletedNodesUnused
  <2> SUFFICES ASSUME ConnInv PROVE DeletedNodesUnused
    OBVIOUS
  <2>1. CopiesAreAlive
    BY DEF ConnInv, ConnPlaces, ConnOpening, ConnTypeOK, CopiesAreAlive, ConnectionsAssumption
  <2> DEFINE out == vNodes \ (fInbound \cup fDisconnect)
             held == grantOutbound \cup (IF opener = "connected" THEN {opening} ELSE {})
  <2>2. IsFiniteSet(held) /\ Cardinality(held) = Cardinality(grantOutbound) + Count(opener = "connected")
    <3>1. CASE opener = "connected"
      <4>1. held = grantOutbound \cup {opening} /\ opening \notin grantOutbound /\ IsFiniteSet(grantOutbound)
        BY <3>1 DEF ConnInv, ConnTypeOK, ConnOpening
      <4> QED BY <3>1, <4>1, FS_AddElement DEF Count
    <3>2. CASE opener # "connected"
      <4>1. held = grantOutbound /\ IsFiniteSet(grantOutbound)
        BY <3>2 DEF ConnInv, ConnTypeOK
      <4> QED BY <3>2, <4>1, FS_CardinalityType DEF Count
    <3> QED BY <3>1, <3>2
  <2>3. Cardinality(held) <= MAX_OUTBOUND_CONNECTIONS
    BY <2>2, FS_CardinalityType DEF ConnInv, GrantsExact, ConnTypeOK, Count, ConnectionsAssumption
  <2>4. out \subseteq held
    BY DEF ConnInv, GrantsExact
  <2>5. Cardinality(out) <= Cardinality(held) /\ Cardinality(out) \in Nat /\ Cardinality(held) \in Nat
    BY <2>2, <2>4, FS_Subset, FS_CardinalityType
  <2>6. Cardinality(out) <= MAX_OUTBOUND_CONNECTIONS
    <3> HIDE DEF out, held
    <3> QED BY <2>3, <2>5 DEF ConnectionsAssumption
  <2>7. ConnectionLimits
    BY <2>6 DEF ConnectionLimits, ConnInv, GrantsExact
  <2> QED BY <2>1, <2>7 DEF DeletedNodesUnused
<1> QED BY <1>1, ConnInvHolds, PTL
=============================================================================
