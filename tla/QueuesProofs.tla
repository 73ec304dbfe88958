---------------------------- MODULE QueuesProofs ----------------------------
(***************************************************************************)
(* The safety properties of the thread queues, for any number of threads   *)
(* and requests.                                                           *)
(***************************************************************************)
EXTENDS WorkQueue, FiniteSetTheorems, SequenceTheorems, TLAPS

-----------------------------------------------------------------------------
(* WorkQueue: the invariant.                                               *)

(* Request r is with the event thread (d), in the queue (q) or with a worker (it). *)
Held(r, q, it, d) == r = d \/ (\E i \in DOMAIN q : q[i] = r) \/ (\E w \in Workers : it[w] = r)

(* No request is in two of these places. *)
Apart(q, it, d) ==
    /\ \A i \in DOMAIN q : q[i] # d
    /\ \A i, j \in DOMAIN q : q[i] = q[j] => i = j
    /\ \A w \in Workers : it[w] # NoRequest => it[w] # d
    /\ \A w \in Workers : \A i \in DOMAIN q : it[w] # q[i]
    /\ \A v, w \in Workers : it[v] = it[w] => v = w \/ it[v] = NoRequest

States == {"created", "top", "section", "asleep", "busy", "leaving", "gone"}
Fates  == {"none", "open", "served", "unavailable", "depth exceeded", "unhandled"}

PlaceTypes ==
    /\ queue \in Seq(Requests)
    /\ pc \in [Workers -> States]
    /\ item \in [Workers -> Requests \cup {NoRequest}]
    /\ dispatch \in Requests \cup {NoRequest}
    /\ fate \in [Requests -> Fates]

(* The requests that are open are those that somebody has. *)
PlacesInv ==
    /\ \A w \in Workers : pc[w] = "busy" <=> item[w] # NoRequest
    /\ Apart(queue, item, dispatch)
    /\ \A r \in Requests : fate[r] = "open" <=> Held(r, queue, item, dispatch)

(* The workers inside Run. *)
Inside == {w \in Workers : pc[w] \notin {"created", "gone"}}

(* numThreads counts them, and when the server is stopped no request is accepted and no worker begins. *)
ExitInv ==
    /\ numThreads = Cardinality(Inside)
    /\ stopper # "out" => rejecting
    /\ Prompt /\ stopper # "out" => \A w \in Workers : pc[w] # "created"
    /\ Prompt => DeletedUnused

WorkQueueInv == PlaceTypes /\ PlacesInv /\ ExitInv

-----------------------------------------------------------------------------
(* Requests move from one place to another.                                *)

LEMMA InSeq ==
    ASSUME NEW S, NEW s \in Seq(S)
    PROVE  Len(s) \in Nat /\ DOMAIN s = 1 .. Len(s) /\ \A i \in DOMAIN s : s[i] \in S
BY LenProperties, ElementOfSeq

LEMMA Queued ==
    ASSUME WorkQueueAssumption, NEW q \in Seq(Requests), NEW it \in [Workers -> Requests \cup {NoRequest}],
           NEW d \in Requests, Apart(q, it, d)
    PROVE  /\ Append(q, d) \in Seq(Requests)
           /\ Apart(Append(q, d), it, NoRequest)
           /\ \A r \in Requests : Held(r, Append(q, d), it, NoRequest) <=> Held(r, q, it, d)
<1> DEFINE a == Append(q, d)
           l == Len(q) + 1
<1>1. a \in Seq(Requests) /\ Len(a) = l /\ a[l] = d /\ \A i \in 1 .. Len(q) : a[i] = q[i]
    BY AppendProperties
<1>2. Len(q) \in Nat /\ DOMAIN q = 1 .. Len(q) /\ DOMAIN a = 1 .. l /\ \A i \in DOMAIN a : a[i] \in Requests
    BY <1>1, InSeq
<1> HIDE DEF a
<1>3. /\ \A i \in DOMAIN q : i \in DOMAIN a /\ a[i] = q[i] /\ i # l
      /\ l \in DOMAIN a
      /\ \A i \in DOMAIN a : i \in DOMAIN q \/ i = l
    BY <1>1, <1>2
<1> HIDE DEF l
<1>4. d # NoRequest /\ NoRequest \notin Requests
    BY DEF WorkQueueAssumption
<1>5. Apart(a, it, NoRequest)
    <2>1. \A i \in DOMAIN a : a[i] # NoRequest
        BY <1>2, <1>4
    <2>2. \A i, j \in DOMAIN a : a[i] = a[j] => i = j
        BY <1>1, <1>3 DEF Apart
    <2>3. \A w \in Workers : \A i \in DOMAIN a : it[w] # a[i]
        BY <1>1, <1>3, <1>4 DEF Apart
    <2> QED BY <2>1, <2>2, <2>3 DEF Apart
<1>6. ASSUME NEW r \in Requests PROVE Held(r, a, it, NoRequest) <=> Held(r, q, it, d)
    <2>1. (\E i \in DOMAIN a : a[i] = r) <=> (r = d \/ \E i \in DOMAIN q : q[i] = r)
        BY <1>1, <1>3
    <2> QED BY <1>4, <2>1 DEF Held
<1> QED BY <1>1, <1>5, <1>6 DEF a

LEMMA Taken ==
    ASSUME WorkQueueAssumption, NEW q \in Seq(Requests), q # <<>>,
           NEW it \in [Workers -> Requests \cup {NoRequest}],
           NEW d, Apart(q, it, d), NEW w \in Workers, it[w] = NoRequest
    PROVE  LET s == [it EXCEPT ![w] = Head(q)]
           IN  /\ Tail(q) \in Seq(Requests) /\ Head(q) \in Requests
               /\ Apart(Tail(q), s, d)
               /\ \A r \in Requests : Held(r, Tail(q), s, d) <=> Held(r, q, it, d)
<1> DEFINE t == Tail(q)
           h == Head(q)
           s == [it EXCEPT ![w] = h]
<1>1. /\ h \in Requests /\ t \in Seq(Requests) /\ Len(t) = Len(q) - 1
      /\ \A i \in 1 .. Len(t) : t[i] = q[i + 1]
    BY HeadTailProperties
<1>2. /\ Len(q) \in Nat \ {0} /\ DOMAIN q = 1 .. Len(q) /\ DOMAIN t = 1 .. Len(t)
      /\ \A i \in DOMAIN t : t[i] \in Requests
    BY <1>1, InSeq, EmptySeq
<1>3. h = q[1]
    BY <1>2
<1>4. s[w] = h /\ \A v \in Workers : v # w => s[v] = it[v]
    OBVIOUS
<1> HIDE DEF t, h, s
<1>5. \A i \in DOMAIN t : i + 1 \in DOMAIN q /\ t[i] = q[i + 1] /\ i + 1 # 1 /\ i \in Nat
    BY <1>1, <1>2
<1>6. \A i \in DOMAIN q : i # 1 => i - 1 \in DOMAIN t /\ t[i - 1] = q[i]
    BY <1>1, <1>2
<1>7. 1 \in DOMAIN q
    BY <1>2
<1>8. h # NoRequest
    BY <1>1 DEF WorkQueueAssumption
<1>9. Apart(t, s, d)
    <2>1. \A i \in DOMAIN t : t[i] # d
        BY <1>5 DEF Apart
    <2>2. ASSUME NEW i \in DOMAIN t, NEW j \in DOMAIN t, t[i] = t[j] PROVE i = j
        <3>1. i + 1 = j + 1
            BY <1>5, <2>2 DEF Apart
        <3> QED BY <1>5, <3>1
    <2>3. \A v \in Workers : s[v] # NoRequest => s[v] # d
        BY <1>3, <1>4, <1>7 DEF Apart
    <2>4. ASSUME NEW v \in Workers, NEW i \in DOMAIN t PROVE s[v] # t[i]
        <3>1. CASE v = w
            <4>1. t[i] = q[i + 1] /\ i + 1 \in DOMAIN q /\ i + 1 # 1
                BY <1>5
            <4>2. q[i + 1] # q[1]
                BY <1>7, <4>1 DEF Apart
            <4> QED BY <1>3, <1>4, <3>1, <4>1, <4>2
        <3>2. CASE v # w
            BY <1>4, <1>5, <3>2 DEF Apart
        <3> QED BY <3>1, <3>2
    <2>5. ASSUME NEW u \in Workers, NEW v \in Workers, s[u] = s[v], u # v PROVE s[u] = NoRequest
        <3>1. CASE u = w \/ v = w
            BY <1>3, <1>4, <1>7, <2>5, <3>1 DEF Apart
        <3>2. CASE u # w /\ v # w
            BY <1>4, <2>5, <3>2 DEF Apart
        <3> QED BY <3>1, <3>2
    <2> QED BY <2>1, <2>2, <2>3, <2>4, <2>5 DEF Apart
<1>10. ASSUME NEW r \in Requests PROVE Held(r, t, s, d) <=> Held(r, q, it, d)
    <2>1. r # NoRequest
        BY DEF WorkQueueAssumption
    <2>2. (\E i \in DOMAIN q : q[i] = r) <=> (h = r \/ \E i \in DOMAIN t : t[i] = r)
        BY <1>3, <1>5, <1>6, <1>7
    <2>3. (\E v \in Workers : s[v] = r) <=> (h = r \/ \E v \in Workers : it[v] = r)
        BY <1>4, <2>1
    <2> QED BY <2>2, <2>3 DEF Held
<1> QED BY Zenon, <1>1, <1>9, <1>10 DEF t, h, s

LEMMA Answered ==
    ASSUME WorkQueueAssumption, NEW q, NEW it \in [Workers -> Requests \cup {NoRequest}],
           NEW d, Apart(q, it, d), NEW w \in Workers, it[w] # NoRequest,
           \A i \in DOMAIN q : q[i] # NoRequest, NEW s, s = [it EXCEPT ![w] = NoRequest]
    PROVE  /\ Apart(q, s, d)
           /\ \A r \in Requests : Held(r, q, s, d) <=> Held(r, q, it, d) /\ r # it[w]
<1>1. s[w] = NoRequest /\ \A v \in Workers : v # w => s[v] = it[v]
    OBVIOUS
<1>2. Apart(q, s, d)
    <2>1. \A v \in Workers : s[v] # NoRequest => s[v] # d
        BY <1>1 DEF Apart
    <2>2. \A v \in Workers : \A i \in DOMAIN q : s[v] # q[i]
        BY <1>1 DEF Apart
    <2>3. \A u, v \in Workers : s[u] = s[v] => u = v \/ s[u] = NoRequest
        BY <1>1 DEF Apart
    <2> QED BY <2>1, <2>2, <2>3 DEF Apart
<1>3. ASSUME NEW r \in Requests PROVE Held(r, q, s, d) <=> Held(r, q, it, d) /\ r # it[w]
    <2>1. r # NoRequest
        BY DEF WorkQueueAssumption
    <2>2. (\E v \in Workers : s[v] = r) <=> (r # it[w] /\ \E v \in Workers : it[v] = r)
        BY <1>1, <2>1 DEF Apart
    <2>3. r = it[w] => r # d /\ \A i \in DOMAIN q : q[i] # r
        BY <2>1 DEF Apart
    <2> QED BY <2>2, <2>3 DEF Held
<1> QED BY Zenon, <1>2, <1>3

-----------------------------------------------------------------------------
(* WorkQueue: every step keeps the invariant.                              *)

(* Waking threads that are asleep changes nothing else. *)
LEMMA WokenThreads ==
    ASSUME NEW f \in [Workers -> States], NEW W, \A w \in W : f[w] = "asleep"
    PROVE  /\ Woken(f, W) \in [Workers -> States]
           /\ \A w \in Workers : Woken(f, W)[w] = "busy" <=> f[w] = "busy"
           /\ \A w \in Workers : Woken(f, W)[w] = "created" <=> f[w] = "created"
           /\ \A w \in Workers : Woken(f, W)[w] = "gone" <=> f[w] = "gone"
BY DEF Woken, States

(* Steps that only move threads: nobody takes a request, and nobody enters or leaves Run. *)
LEMMA ThreadsMove ==
    ASSUME WorkQueueInv, UNCHANGED <<queue, item, dispatch, fate, numThreads>>,
           pc' \in [Workers -> States],
           \A w \in Workers : pc'[w] = "busy" <=> pc[w] = "busy",
           \A w \in Workers : pc'[w] = "created" <=> pc[w] = "created",
           \A w \in Workers : pc'[w] = "gone" <=> pc[w] = "gone",
           rejecting' = rejecting \/ rejecting' = TRUE,
           \/ stopper' = stopper
           \/ /\ stopper' # "deleted"
              /\ \/ stopper # "out"
                 \/ rejecting' = TRUE /\ (Prompt => \A w \in Workers : pc[w] # "created")
    PROVE  WorkQueueInv'
<1>1. PlaceTypes'
    BY DEF WorkQueueInv, PlaceTypes
<1>2. PlacesInv'
    BY DEF WorkQueueInv, PlacesInv
<1>3. Inside' = Inside
    BY DEF Inside
<1>4. ExitInv'
    BY <1>3 DEF WorkQueueInv, ExitInv, DeletedUnused
<1> QED BY <1>1, <1>2, <1>4 DEF WorkQueueInv

LEMMA RequestStep ==
    ASSUME WorkQueueInv, WorkQueueAssumption, NEW r \in Requests, http_request_cb(r)
    PROVE  WorkQueueInv'
<1>1. /\ dispatch = NoRequest /\ fate[r] = "none"
      /\ \/ rejecting /\ fate' = [fate EXCEPT ![r] = "unavailable"] /\ dispatch' = dispatch
         \/ ~rejecting /\ fate' = [fate EXCEPT ![r] = "open"] /\ dispatch' = r
      /\ UNCHANGED <<queue, running, numThreads, pc, item, rejecting, stopper>>
    BY DEF http_request_cb
<1>2. PlaceTypes /\ PlacesInv /\ ExitInv
    BY DEF WorkQueueInv
<1>3. PlaceTypes'
    BY <1>1, <1>2 DEF PlaceTypes, Fates
<1>4. \A s \in Requests : s # r => fate'[s] = fate[s]
    BY <1>1, <1>2 DEF PlaceTypes
<1>5. r # NoRequest /\ ~Held(r, queue, item, dispatch)
    BY <1>1, <1>2 DEF PlacesInv, WorkQueueAssumption
<1>6. PlacesInv'
    <2>1. CASE fate' = [fate EXCEPT ![r] = "unavailable"] /\ dispatch' = dispatch
        <3>1. fate'[r] # "open"
            BY <1>2, <2>1 DEF PlaceTypes
        <3> QED BY <1>1, <1>2, <1>4, <1>5, <2>1, <3>1 DEF PlacesInv
    <2>2. CASE fate' = [fate EXCEPT ![r] = "open"] /\ dispatch' = r
        <3>1. fate'[r] = "open"
            BY <1>2, <2>2 DEF PlaceTypes
        <3>2. Apart(queue, item, r)
            BY <1>2, <1>5 DEF PlacesInv, Apart, Held
        <3>3. \A s \in Requests : Held(s, queue, item, r) <=> s = r \/ Held(s, queue, item, dispatch)
            BY <1>1 DEF Held, WorkQueueAssumption
        <3> QED BY <1>1, <1>2, <1>4, <2>2, <3>1, <3>2, <3>3 DEF PlacesInv
    <2> QED BY <1>1, <2>1, <2>2
<1>7. ExitInv'
    <2>1. Inside' = Inside
        BY <1>1 DEF Inside
    <2>2. stopper # "out" => dispatch' = dispatch
        BY <1>1, <1>2 DEF ExitInv
    <2> QED BY <1>1, <1>2, <2>1, <2>2 DEF ExitInv, DeletedUnused
<1> QED BY <1>3, <1>6, <1>7 DEF WorkQueueInv

(* The request of the event thread is queued, or refused when the queue is full. *)
LEMMA EnqueueStep ==
    ASSUME WorkQueueInv, WorkQueueAssumption, Enqueue
    PROVE  WorkQueueInv'
<1> DEFINE d == dispatch
<1>1. /\ d # NoRequest /\ stopper # "deleted" /\ dispatch' = NoRequest
      /\ \/ fate' = [fate EXCEPT ![d] = "depth exceeded"] /\ UNCHANGED <<queue, pc, stopper>>
         \/ queue' = Append(queue, d) /\ NotifyOne /\ UNCHANGED fate
      /\ UNCHANGED <<running, numThreads, item, rejecting>>
    BY DEF Enqueue, Alive
<1>2. PlaceTypes /\ PlacesInv /\ ExitInv /\ d \in Requests
    BY <1>1 DEF WorkQueueInv, PlaceTypes
<1>3. CASE fate' = [fate EXCEPT ![d] = "depth exceeded"] /\ UNCHANGED <<queue, pc, stopper>>
    <2>1. fate'[d] # "open" /\ \A q \in Requests : q # d => fate'[q] = fate[q]
        BY <1>2, <1>3 DEF PlaceTypes
    <2>2. PlaceTypes'
        BY <1>1, <1>2, <1>3 DEF PlaceTypes, Fates
    <2>3. \A i \in DOMAIN queue : queue[i] # NoRequest
        BY <1>2, InSeq DEF PlaceTypes, WorkQueueAssumption
    <2>4. Apart(queue, item, NoRequest)
        BY <1>2, <2>3 DEF PlacesInv, Apart
    <2>5. \A r \in Requests : Held(r, queue, item, NoRequest) <=> Held(r, queue, item, d) /\ r # d
        <3> SUFFICES ASSUME NEW r \in Requests
                     PROVE  Held(r, queue, item, NoRequest) <=> Held(r, queue, item, d) /\ r # d
            OBVIOUS
        <3>1. r # NoRequest /\ Apart(queue, item, d)
            BY <1>2 DEF PlacesInv, WorkQueueAssumption
        <3>2. CASE r = d
            BY <1>1, <3>1, <3>2 DEF Apart, Held
        <3>3. CASE r # d
            BY <3>1, <3>3 DEF Held
        <3> QED BY <3>2, <3>3
    <2>6. PlacesInv'
        BY <1>1, <1>2, <1>3, <2>1, <2>4, <2>5 DEF PlacesInv
    <2>7. Inside' = Inside
        BY <1>3 DEF Inside
    <2>8. ExitInv'
        BY <1>1, <1>2, <1>3, <2>7 DEF ExitInv, DeletedUnused
    <2> QED BY <2>2, <2>6, <2>8 DEF WorkQueueInv
<1>4. CASE queue' = Append(queue, d) /\ NotifyOne /\ UNCHANGED fate
    <2>1. pc' = pc \/ \E w \in Asleep : pc' = Woken(pc, {w})
        BY Zenon, <1>4 DEF NotifyOne
    <2>2. /\ pc' \in [Workers -> States]
          /\ \A w \in Workers : pc'[w] = "busy" <=> pc[w] = "busy"
          /\ \A w \in Workers : pc'[w] = "created" <=> pc[w] = "created"
          /\ \A w \in Workers : pc'[w] = "gone" <=> pc[w] = "gone"
        <3>1. CASE pc' = pc
            BY <1>2, <3>1 DEF PlaceTypes
        <3>2. ASSUME NEW v \in Asleep, pc' = Woken(pc, {v}) PROVE <2>2!:
            <4>1. \A u \in {v} : pc[u] = "asleep"
                BY DEF Asleep
            <4> QED BY <1>2, <3>2, <4>1, WokenThreads DEF PlaceTypes
        <3> QED BY Zenon, <2>1, <3>1, <3>2
    <2>3. stopper' = stopper \/ (stopper # "out" /\ stopper' = "interrupted")
        BY Zenon, <1>4 DEF NotifyOne
    <2>4. /\ queue' \in Seq(Requests) /\ Apart(queue', item, NoRequest)
          /\ \A r \in Requests : Held(r, queue', item, NoRequest) <=> Held(r, queue, item, d)
        BY <1>2, <1>4, Queued DEF PlaceTypes, PlacesInv
    <2>5. PlaceTypes'
        BY <1>1, <1>2, <1>4, <2>2, <2>4 DEF PlaceTypes
    <2>6. PlacesInv'
        BY <1>1, <1>2, <1>4, <2>2, <2>4 DEF PlacesInv
    <2>7. Inside' = Inside
        BY <2>2 DEF Inside
    <2>8. ExitInv'
        BY <1>1, <1>2, <2>2, <2>3, <2>7 DEF ExitInv, DeletedUnused
    <2> QED BY <2>5, <2>6, <2>8 DEF WorkQueueInv
<1> QED BY <1>1, <1>3, <1>4

(* A worker begins to run. *)
LEMMA StartStep ==
    ASSUME WorkQueueInv, WorkQueueAssumption, NEW w \in Workers, Start(w)
    PROVE  WorkQueueInv'
<1>1. /\ pc[w] = "created" /\ stopper # "deleted" /\ numThreads' = numThreads + 1
      /\ pc' = [pc EXCEPT ![w] = "top"]
      /\ UNCHANGED <<queue, item, dispatch, rejecting, stopper, fate>>
    BY DEF Start, Alive
<1>2. PlaceTypes /\ PlacesInv /\ ExitInv
    BY DEF WorkQueueInv
<1>3. pc' \in [Workers -> States] /\ pc'[w] = "top" /\ \A v \in Workers : v # w => pc'[v] = pc[v]
    BY <1>1, <1>2 DEF PlaceTypes, States
<1>4. PlaceTypes'
    BY <1>1, <1>2, <1>3 DEF PlaceTypes
<1>5. PlacesInv'
    BY <1>1, <1>2, <1>3 DEF PlacesInv
<1>6. Inside' = Inside \cup {w} /\ w \notin Inside
    BY <1>1, <1>3 DEF Inside
<1>7. IsFiniteSet(Inside)
    BY FS_Subset DEF Inside, WorkQueueAssumption
<1>8. Cardinality(Inside') = Cardinality(Inside) + 1
    BY SMTT(60), <1>6, <1>7, FS_AddElement
<1>9. ExitInv'
    BY <1>1, <1>2, <1>3, <1>8 DEF ExitInv, DeletedUnused
<1> QED BY <1>4, <1>5, <1>9 DEF WorkQueueInv

(* A worker leaves Run and notifies everybody. *)
LEMMA LeaveStep ==
    ASSUME WorkQueueInv, WorkQueueAssumption, NEW w \in Workers, Leave(w)
    PROVE  WorkQueueInv'
<1> DEFINE f == [pc EXCEPT ![w] = "gone"]
<1>1. /\ pc[w] = "leaving" /\ numThreads' = numThreads - 1
      /\ pc' = Woken(f, Asleep)
      /\ stopper' = IF stopper = "waiting" THEN "interrupted" ELSE stopper
      /\ UNCHANGED <<queue, item, dispatch, rejecting, fate>>
    BY DEF Leave, NotifyAll
<1>2. PlaceTypes /\ PlacesInv /\ ExitInv
    BY DEF WorkQueueInv
<1>3. f \in [Workers -> States] /\ f[w] = "gone" /\ \A v \in Workers : v # w => f[v] = pc[v]
    BY <1>1, <1>2 DEF PlaceTypes, States
<1> HIDE DEF f
<1>4. \A v \in Asleep : f[v] = "asleep"
    BY <1>1, <1>3 DEF Asleep
<1>5. /\ pc' \in [Workers -> States]
      /\ \A v \in Workers : pc'[v] = "busy" <=> f[v] = "busy"
      /\ \A v \in Workers : pc'[v] = "created" <=> f[v] = "created"
      /\ \A v \in Workers : pc'[v] = "gone" <=> f[v] = "gone"
    BY <1>1, <1>3, <1>4, WokenThreads
<1>6. PlaceTypes'
    BY <1>1, <1>2, <1>5 DEF PlaceTypes
<1>7. PlacesInv'
    BY <1>1, <1>2, <1>3, <1>5 DEF PlacesInv
<1>8. Inside' = Inside \ {w} /\ w \in Inside
    BY <1>1, <1>3, <1>5 DEF Inside
<1>9. IsFiniteSet(Inside)
    BY FS_Subset DEF Inside, WorkQueueAssumption
<1>10. Cardinality(Inside') = Cardinality(Inside) - 1
    BY <1>8, <1>9, FS_RemoveElement
<1>11. stopper # "deleted" \/ ~Prompt
    BY <1>1, <1>2 DEF ExitInv, DeletedUnused
<1>12. ExitInv'
    BY <1>1, <1>2, <1>3, <1>5, <1>10, <1>11 DEF ExitInv, DeletedUnused
<1> QED BY <1>6, <1>7, <1>12 DEF WorkQueueInv

(* A worker goes round its loop, sleeps, leaves, or takes the first request of the queue. *)
LEMMA SectionStep ==
    ASSUME WorkQueueInv, WorkQueueAssumption, NEW w \in Workers, Loop(w) \/ Section(w)
    PROVE  WorkQueueInv'
<1>1. PlaceTypes /\ PlacesInv /\ ExitInv
    BY DEF WorkQueueInv
<1>2. CASE /\ pc[w] \in {"top", "section"} /\ \E s \in {"section", "asleep", "leaving"} : pc' = [pc EXCEPT ![w] = s]
           /\ UNCHANGED <<queue, item, dispatch, fate, numThreads, rejecting, stopper>>
    <2>1. PICK s \in {"section", "asleep", "leaving"} : pc' = [pc EXCEPT ![w] = s]
        BY Zenon, <1>2
    <2>2. pc' \in [Workers -> States] /\ pc'[w] = s /\ \A v \in Workers : v # w => pc'[v] = pc[v]
        BY <1>1, <2>1 DEF PlaceTypes, States
    <2>3. /\ \A v \in Workers : pc'[v] = "busy" <=> pc[v] = "busy"
          /\ \A v \in Workers : pc'[v] = "created" <=> pc[v] = "created"
          /\ \A v \in Workers : pc'[v] = "gone" <=> pc[v] = "gone"
        BY <1>2, <2>2
    <2> QED BY <1>2, <2>2, <2>3, ThreadsMove
<1>3. CASE /\ pc[w] = "section" /\ queue # <<>>
           /\ item' = [item EXCEPT ![w] = Head(queue)] /\ queue' = Tail(queue)
           /\ pc' = [pc EXCEPT ![w] = "busy"]
           /\ UNCHANGED <<numThreads, dispatch, rejecting, stopper, fate>>
    <2>1. pc' \in [Workers -> States] /\ pc'[w] = "busy" /\ \A v \in Workers : v # w => pc'[v] = pc[v]
        BY <1>1, <1>3 DEF PlaceTypes, States
    <2>2. item[w] = NoRequest
        BY <1>1, <1>3 DEF PlacesInv
    <2>3. /\ queue' \in Seq(Requests) /\ Head(queue) \in Requests
          /\ Apart(queue', item', dispatch)
          /\ \A r \in Requests : Held(r, queue', item', dispatch) <=> Held(r, queue, item, dispatch)
        BY Zenon, <1>1, <1>3, <2>2, Taken DEF PlaceTypes, PlacesInv
    <2>4. /\ item' \in [Workers -> Requests \cup {NoRequest}] /\ item'[w] # NoRequest
          /\ \A v \in Workers : v # w => item'[v] = item[v]
        BY <1>1, <1>3, <2>3 DEF PlaceTypes, WorkQueueAssumption
    <2>5. PlaceTypes'
        BY <1>1, <1>3, <2>1, <2>3, <2>4 DEF PlaceTypes
    <2>6. PlacesInv'
        BY Zenon, <1>1, <1>3, <2>1, <2>3, <2>4 DEF PlacesInv
    <2>7. Inside' = Inside
        BY <1>3, <2>1 DEF Inside
    <2>8. ExitInv'
        BY <1>1, <1>3, <2>1, <2>7 DEF ExitInv, DeletedUnused
    <2> QED BY <2>5, <2>6, <2>8 DEF WorkQueueInv
<1>4. CASE Loop(w)
    BY <1>2, <1>4 DEF Loop
<1>5. CASE Section(w)
    BY <1>2, <1>3, <1>5 DEF Section
<1> QED BY <1>4, <1>5

(* A worker answers the request it has. *)
LEMMA ServeStep ==
    ASSUME WorkQueueInv, WorkQueueAssumption, NEW w \in Workers, Serve(w)
    PROVE  WorkQueueInv'
<1>1. /\ pc[w] = "busy"
      /\ fate' = [fate EXCEPT ![item[w]] = "served"]
      /\ item' = [item EXCEPT ![w] = NoRequest]
      /\ pc' = [pc EXCEPT ![w] = "top"]
      /\ UNCHANGED <<queue, running, numThreads, dispatch, rejecting, stopper>>
    BY DEF Serve
<1>2. PlaceTypes /\ PlacesInv /\ ExitInv
    BY DEF WorkQueueInv
<1>3. item[w] # NoRequest /\ item[w] \in Requests
    BY <1>1, <1>2 DEF PlacesInv, PlaceTypes
<1>4. pc' \in [Workers -> States] /\ pc'[w] = "top" /\ \A v \in Workers : v # w => pc'[v] = pc[v]
    BY <1>1, <1>2 DEF PlaceTypes, States
<1>5. /\ item' \in [Workers -> Requests \cup {NoRequest}] /\ item'[w] = NoRequest
      /\ \A v \in Workers : v # w => item'[v] = item[v]
    BY <1>1, <1>2 DEF PlaceTypes
<1>6. fate'[item[w]] # "open" /\ fate' \in [Requests -> Fates] /\ \A r \in Requests : r # item[w] => fate'[r] = fate[r]
    BY <1>1, <1>2, <1>3 DEF PlaceTypes, Fates
<1>7. \A i \in DOMAIN queue : queue[i] # NoRequest
    BY <1>2, InSeq DEF PlaceTypes, WorkQueueAssumption
<1>8. /\ Apart(queue, item', dispatch)
      /\ \A r \in Requests : Held(r, queue, item', dispatch) <=> Held(r, queue, item, dispatch) /\ r # item[w]
    <2>1. item \in [Workers -> Requests \cup {NoRequest}] /\ Apart(queue, item, dispatch)
        BY <1>2 DEF PlaceTypes, PlacesInv
    <2>2. item' = [item EXCEPT ![w] = NoRequest]
        BY <1>1
    <2> QED BY Zenon, <1>3, <1>7, <2>1, <2>2, Answered
<1>9. PlaceTypes'
    BY <1>1, <1>2, <1>4, <1>5, <1>6 DEF PlaceTypes
<1>10. PlacesInv'
    BY Zenon, <1>1, <1>2, <1>4, <1>5, <1>6, <1>8 DEF PlacesInv
<1>11. Inside' = Inside
    BY <1>1, <1>4 DEF Inside
<1>12. ExitInv'
    BY <1>1, <1>2, <1>4, <1>11 DEF ExitInv, DeletedUnused
<1> QED BY <1>9, <1>10, <1>12 DEF WorkQueueInv

(* The main thread, and wake-ups. *)
LEMMA StopSteps ==
    ASSUME WorkQueueInv, InterruptHTTPServer \/ Interrupt \/ (\E w \in Workers : SpuriousWakeup(w))
    PROVE  WorkQueueInv'
<1>1. pc \in [Workers -> States] /\ ExitInv
    BY DEF WorkQueueInv, PlaceTypes
<1>2. CASE InterruptHTTPServer
    <2>1. /\ pc' \in [Workers -> States]
          /\ \A w \in Workers : pc'[w] = "busy" <=> pc[w] = "busy"
          /\ \A w \in Workers : pc'[w] = "created" <=> pc[w] = "created"
          /\ \A w \in Workers : pc'[w] = "gone" <=> pc[w] = "gone"
        BY <1>1, <1>2 DEF InterruptHTTPServer
    <2>2. /\ UNCHANGED <<queue, item, dispatch, fate, numThreads>>
          /\ rejecting' = TRUE /\ stopper' # "deleted" /\ (Prompt => \A w \in Workers : pc[w] # "created")
        BY <1>2 DEF InterruptHTTPServer
    <2> QED BY <2>1, <2>2, ThreadsMove
<1>3. CASE Interrupt
    <2>1. \A w \in Asleep : pc[w] = "asleep"
        BY DEF Asleep
    <2>2. /\ pc' \in [Workers -> States]
          /\ \A w \in Workers : pc'[w] = "busy" <=> pc[w] = "busy"
          /\ \A w \in Workers : pc'[w] = "created" <=> pc[w] = "created"
          /\ \A w \in Workers : pc'[w] = "gone" <=> pc[w] = "gone"
        BY <1>1, <1>3, <2>1, WokenThreads DEF Interrupt
    <2>3. /\ UNCHANGED <<queue, item, dispatch, fate, numThreads>> /\ rejecting' = rejecting
          /\ stopper' # "deleted" /\ stopper # "out"
        BY <1>3 DEF Interrupt
    <2> QED BY Zenon, <2>2, <2>3, ThreadsMove
<1>4. ASSUME NEW w \in Workers, SpuriousWakeup(w) PROVE WorkQueueInv'
    <2>1. \A v \in {w} : pc[v] = "asleep"
        BY <1>4 DEF SpuriousWakeup
    <2>2. /\ pc' \in [Workers -> States]
          /\ \A v \in Workers : pc'[v] = "busy" <=> pc[v] = "busy"
          /\ \A v \in Workers : pc'[v] = "created" <=> pc[v] = "created"
          /\ \A v \in Workers : pc'[v] = "gone" <=> pc[v] = "gone"
        BY <1>1, <1>4, <2>1, WokenThreads DEF SpuriousWakeup
    <2>3. UNCHANGED <<queue, item, dispatch, fate, numThreads, rejecting, stopper>>
        BY <1>4 DEF SpuriousWakeup
    <2> QED BY <2>2, <2>3, ThreadsMove
<1> QED BY <1>2, <1>3, <1>4

(* WaitExit returns only when nobody is inside Run, and the requests in the queue are dropped. *)
LEMMA WaitExitStep ==
    ASSUME WorkQueueInv, WorkQueueAssumption, WaitExit
    PROVE  WorkQueueInv'
<1>1. PlaceTypes /\ PlacesInv /\ ExitInv
    BY DEF WorkQueueInv
<1>2. CASE stopper' = "waiting" /\ UNCHANGED <<queue, fate>>
    <2>1. /\ pc' \in [Workers -> States]
          /\ \A w \in Workers : pc'[w] = "busy" <=> pc[w] = "busy"
          /\ \A w \in Workers : pc'[w] = "created" <=> pc[w] = "created"
          /\ \A w \in Workers : pc'[w] = "gone" <=> pc[w] = "gone"
        BY <1>1 DEF WaitExit, PlaceTypes
    <2>2. /\ UNCHANGED <<queue, item, dispatch, fate, numThreads>> /\ rejecting' = rejecting
          /\ stopper' # "deleted" /\ stopper # "out"
        BY <1>2 DEF WaitExit
    <2> QED BY Zenon, <2>1, <2>2, ThreadsMove
<1>3. CASE /\ numThreads = 0 /\ (Prompt => dispatch = NoRequest) /\ stopper' = "deleted"
           /\ queue' = <<>>
           /\ fate' = [r \in Requests |-> IF r \in Range(queue) THEN "unhandled" ELSE fate[r]]
    <2>0. stopper = "interrupted" /\ UNCHANGED <<running, numThreads, pc, item, dispatch, rejecting>>
        BY DEF WaitExit
    <2>1. queue' \in Seq(Requests) /\ DOMAIN queue' = {}
        BY <1>3
    <2>2. /\ fate' \in [Requests -> Fates]
          /\ \A r \in Requests : fate'[r] = "open" <=> fate[r] = "open" /\ r \notin Range(queue)
        BY <1>1, <1>3 DEF PlaceTypes, Fates
    <2>3. PlaceTypes'
        BY <1>1, <2>0, <2>1, <2>2 DEF PlaceTypes
    <2>4. \A r \in Requests : r \in Range(queue) <=> \E i \in DOMAIN queue : queue[i] = r
        BY DEF Range
    <2>5. Apart(queue', item, dispatch)
        BY <1>1, <2>1 DEF PlacesInv, Apart
    <2>6. ASSUME NEW r \in Requests PROVE Held(r, queue', item, dispatch) <=> Held(r, queue, item, dispatch) /\ r \notin Range(queue)
        BY <1>1, <2>1, <2>4 DEF PlacesInv, Apart, Held
    <2>7. PlacesInv'
        BY <1>1, <2>0, <2>2, <2>5, <2>6 DEF PlacesInv
    <2>8. Inside' = Inside /\ Inside = {}
        <3>1. IsFiniteSet(Inside)
            BY FS_Subset DEF Inside, WorkQueueAssumption
        <3>2. Cardinality(Inside) = 0
            BY <1>1, <1>3 DEF ExitInv
        <3> QED BY <2>0, <3>1, <3>2, FS_EmptySet DEF Inside
    <2>9. Prompt => \A w \in Workers : pc[w] = "gone"
        BY <1>1, <2>0, <2>8 DEF ExitInv, Inside
    <2>10. ExitInv'
        BY Zenon, <1>1, <1>3, <2>0, <2>8, <2>9 DEF ExitInv, DeletedUnused
    <2> QED BY <2>3, <2>7, <2>10 DEF WorkQueueInv
<1> QED BY <1>2, <1>3 DEF WaitExit

LEMMA WorkQueueInductive ==
    ASSUME WorkQueueInv, WorkQueueAssumption, [Next]_vars
    PROVE  WorkQueueInv'
<1>1. ASSUME NEW r \in Requests, http_request_cb(r) PROVE WorkQueueInv'
    BY <1>1, RequestStep
<1>2. CASE Enqueue
    BY <1>2, EnqueueStep
<1>3. ASSUME NEW w \in Workers, Work(w) PROVE WorkQueueInv'
    BY <1>3, StartStep, SectionStep, ServeStep, LeaveStep DEF Work
<1>4. CASE InterruptHTTPServer \/ Interrupt \/ \E w \in Workers : SpuriousWakeup(w)
    BY <1>4, StopSteps
<1>5. CASE WaitExit
    BY <1>5, WaitExitStep
<1>6. CASE UNCHANGED vars
    <2>1. Inside' = Inside
        BY <1>6 DEF vars, Inside
    <2> QED BY <1>6, <2>1 DEF vars, WorkQueueInv, PlaceTypes, PlacesInv, ExitInv, DeletedUnused
<1> QED BY <1>1, <1>2, <1>3, <1>4, <1>5, <1>6 DEF Next, Stop

LEMMA WorkQueueBegins ==
    ASSUME Init, WorkQueueAssumption
    PROVE  WorkQueueInv
<1>1. PlaceTypes
    BY DEF Init, PlaceTypes, States, Fates
<1>2. PlacesInv
    BY DEF Init, PlacesInv, Apart, Held, WorkQueueAssumption
<1>3. Inside = {}
    BY DEF Init, Inside
<1>4. Cardinality(Inside) = 0
    BY <1>3, FS_EmptySet
<1>5. ExitInv
    BY <1>4 DEF Init, ExitInv, DeletedUnused
<1> QED BY <1>1, <1>2, <1>5 DEF WorkQueueInv

(* A set with at most one member. *)
LEMMA OneOrNone ==
    ASSUME NEW S, \A x, y \in S : x = y
    PROVE  Cardinality(S) = IF S = {} THEN 0 ELSE 1
<1>1. CASE S = {}
    BY <1>1, FS_EmptySet
<1>2. CASE S # {}
    <2>1. PICK x \in S : S = {x}
        BY <1>2
    <2> QED BY <1>2, <2>1, FS_Singleton
<1> QED BY <1>1, <1>2

LEMMA CountedOnce ==
    ASSUME WorkQueueInv, WorkQueueAssumption
    PROVE  InOnePlace
<1> SUFFICES ASSUME NEW r \in Requests
             PROVE  Cardinality({w \in Workers : item[w] = r}) + Cardinality({i \in DOMAIN queue : queue[i] = r})
                        + (IF dispatch = r THEN 1 ELSE 0) = IF fate[r] = "open" THEN 1 ELSE 0
    BY DEF InOnePlace
<1> DEFINE A == {w \in Workers : item[w] = r}
           B == {i \in DOMAIN queue : queue[i] = r}
<1>1. Apart(queue, item, dispatch) /\ (fate[r] = "open" <=> Held(r, queue, item, dispatch)) /\ r # NoRequest
    BY DEF WorkQueueInv, PlacesInv, WorkQueueAssumption
<1>2. \A x, y \in A : x = y
    BY <1>1 DEF Apart
<1>3. \A x, y \in B : x = y
    BY <1>1 DEF Apart
<1>4. Cardinality(A) = IF A = {} THEN 0 ELSE 1
    BY <1>2, OneOrNone
<1>5. Cardinality(B) = IF B = {} THEN 0 ELSE 1
    BY <1>3, OneOrNone
<1>6. fate[r] = "open" <=> dispatch = r \/ A # {} \/ B # {}
    BY <1>1 DEF Held
<1>7. A = {} \/ (B = {} /\ dispatch # r)
    BY <1>1 DEF Apart
<1>8. B = {} \/ dispatch # r
    BY <1>1 DEF Apart
<1> HIDE DEF A, B
<1>9. Cardinality(A) + Cardinality(B) + (IF dispatch = r THEN 1 ELSE 0) = IF fate[r] = "open" THEN 1 ELSE 0
    BY <1>4, <1>5, <1>6, <1>7, <1>8
<1> QED BY <1>9 DEF A, B

-----------------------------------------------------------------------------
(* Each request that http_request_cb accepts is in one place, with the     *)
(* event thread, in the queue or with a worker, until it is answered, and  *)
(* is then nowhere: none is lost, none is answered twice, whatever the     *)
(* number of workers, the depth of the queue and the moment of a shutdown. *)
(* And when WaitExit has returned and the queue is deleted, no worker and  *)
(* no callback is still to use it, provided that the threads had entered   *)
(* Run and the event thread had left Enqueue (Prompt).                     *)
THEOREM RequestsAreInOnePlace ==
    ASSUME WorkQueueAssumption
    PROVE  Spec => []EveryRequestInOnePlace
<1>1. Init => WorkQueueInv
    BY WorkQueueBegins
<1>2. WorkQueueInv /\ [Next]_vars => WorkQueueInv'
    BY WorkQueueInductive
<1>3. WorkQueueInv => EveryRequestInOnePlace
    BY CountedOnce DEF EveryRequestInOnePlace, WorkQueueInv, ExitInv
<1> QED BY <1>1, <1>2, <1>3, PTL DEF Spec

=============================================================================
