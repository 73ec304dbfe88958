-------------------------- MODULE CheckQueueProofs --------------------------
(***************************************************************************)
(* CheckQueue loses no check, Wait returns the conjunction of the checks   *)
(* and the queue is idle between blocks, for any finite pool of workers,   *)
(* any finite set of checks and any batch size.                            *)
(***************************************************************************)
EXTENDS CheckQueue, FiniteSetTheorems, TLAPS

Pcs == {"start", "out", "adding", "waiting", "woken", "working", "gone"}

\* The threads counted in nIdle and in nTotal, but for those in X.
IdleSet(pcs, X) == {u \in Threads \ X : pcs[u] \in {"waiting", "woken", "gone"}}
PoolSet(pcs, X) == {u \in Threads \ X : pcs[u] \in {"waiting", "woken", "gone", "working"}}

SomeBad == \E c \in added : ~verdict[c]

\* The bookkeeping outside thread t, where dn are the settled checks, pcs the
\* program counters and ok, todo, idle, total the values of fAllOk, nTodo,
\* nIdle and nTotal without t.
Books(X, pcs, idle, total, ok, todo, dn) ==
    /\ pcs \in [Threads -> Pcs]
    /\ dn \subseteq added
    /\ ok \in BOOLEAN
    /\ todo = Cardinality(added \ dn)
    /\ added \ dn = queue \cup UNION {vChecks[u] : u \in Threads \ X}
    /\ \A u \in Threads \ X : vChecks[u] \cap queue = {}
    /\ \A u, v \in Threads \ X : u # v => vChecks[u] \cap vChecks[v] = {}
    /\ \A u \in Threads \ X : pcs[u] = "working" <=> vChecks[u] # {}
    /\ \A u \in Threads \ X : pcs[u] = "working" /\ ~fOk[u] => SomeBad
    /\ ~ok => SomeBad
    /\ idle = Cardinality(IdleSet(pcs, X))
    /\ total = Cardinality(PoolSet(pcs, X))
    /\ \A u \in Workers : pcs[u] \notin {"out", "adding"}
    /\ pcs[Master] \notin {"start", "gone"}

Types ==
    /\ queue \subseteq Checks /\ added \subseteq Checks
    /\ vChecks \in [Threads -> SUBSET Checks]
    /\ fOk \in [Threads -> BOOLEAN]
    /\ verdict \in [Checks -> BOOLEAN]
    /\ result \in BOOLEAN

IInv ==
    /\ Types
    /\ Books({}, pc, nIdle, nTotal, fAllOk, nTodo, done)
    /\ IF pc[Master] = "out"
         THEN added = done /\ fAllOk /\ (result <=> ~SomeBad)
         ELSE (\E c \in done : ~verdict[c]) => ~fAllOk

\* Thread t holds the mutex and has settled its last batch.
Mid(t, pcs, idle, total, ok, todo, dn) ==
    /\ Types
    /\ Books({t}, pcs, idle, total - 1, ok, todo, dn)
    /\ total \in Int
    /\ t = Master => pcs[Master] # "out"
    /\ IF pcs[Master] = "out"
         THEN added = dn /\ ok /\ (result <=> ~SomeBad)
         ELSE (\E c \in dn : ~verdict[c]) => ~ok

-----------------------------------------------------------------------------
(* The sets of threads are finite, so they can be counted.                 *)
LEMMA ThreadsFinite == IsFiniteSet(Threads)
  BY CheckQueueAssumption, FS_AddElement DEF Threads

(* Moving one thread in or out of the counted sets changes nIdle and       *)
(* nTotal by one.                                                          *)
LEMMA CountThread ==
    ASSUME NEW t \in Threads, NEW pcs \in [Threads -> Pcs], NEW pcs2 \in [Threads -> Pcs],
           \A u \in Threads \ {t} : pcs2[u] = pcs[u]
    PROVE  /\ Cardinality(IdleSet(pcs2, {})) =
                Cardinality(IdleSet(pcs, {t}))
                  + (IF pcs2[t] \in {"waiting", "woken", "gone"} THEN 1 ELSE 0)
           /\ Cardinality(PoolSet(pcs2, {})) =
                Cardinality(PoolSet(pcs, {t}))
                  + (IF pcs2[t] \in {"waiting", "woken", "gone", "working"} THEN 1 ELSE 0)
           /\ Cardinality(IdleSet(pcs, {t})) \in Nat
           /\ Cardinality(PoolSet(pcs, {t})) \in Nat
<1>1. IsFiniteSet(IdleSet(pcs, {t})) /\ IsFiniteSet(PoolSet(pcs, {t}))
  <2>1. IdleSet(pcs, {t}) \in SUBSET Threads /\ PoolSet(pcs, {t}) \in SUBSET Threads
    BY DEF IdleSet, PoolSet
  <2>2. QED
    BY Zenon, <2>1, ThreadsFinite, FS_Subset
<1>2. t \notin IdleSet(pcs, {t}) /\ t \notin PoolSet(pcs, {t})
  BY DEF IdleSet, PoolSet
<1>3. IdleSet(pcs2, {}) = IF pcs2[t] \in {"waiting", "woken", "gone"}
                            THEN IdleSet(pcs, {t}) \cup {t} ELSE IdleSet(pcs, {t})
  BY DEF IdleSet
<1>4. PoolSet(pcs2, {}) = IF pcs2[t] \in {"waiting", "woken", "gone", "working"}
                            THEN PoolSet(pcs, {t}) \cup {t} ELSE PoolSet(pcs, {t})
  BY DEF PoolSet
<1>5. Cardinality(IdleSet(pcs, {t}) \cup {t}) = Cardinality(IdleSet(pcs, {t})) + 1
  BY Zenon, <1>1, <1>2, FS_AddElement
<1>6. Cardinality(PoolSet(pcs, {t}) \cup {t}) = Cardinality(PoolSet(pcs, {t})) + 1
  BY Zenon, <1>1, <1>2, FS_AddElement
<1>7. Cardinality(IdleSet(pcs, {t})) \in Nat /\ Cardinality(PoolSet(pcs, {t})) \in Nat
  BY <1>1, FS_CardinalityType
<1>8. Cardinality(IdleSet(pcs2, {})) =
        Cardinality(IdleSet(pcs, {t}))
          + (IF pcs2[t] \in {"waiting", "woken", "gone"} THEN 1 ELSE 0)
  <2>1. CASE pcs2[t] \in {"waiting", "woken", "gone"}
    BY <2>1, <1>3, <1>5
  <2>2. CASE pcs2[t] \notin {"waiting", "woken", "gone"}
    BY <2>2, <1>3, <1>7
  <2>3. QED
    BY <2>1, <2>2
<1>9. Cardinality(PoolSet(pcs2, {})) =
        Cardinality(PoolSet(pcs, {t}))
          + (IF pcs2[t] \in {"waiting", "woken", "gone", "working"} THEN 1 ELSE 0)
  <2>1. CASE pcs2[t] \in {"waiting", "woken", "gone", "working"}
    BY <2>1, <1>4, <1>6
  <2>2. CASE pcs2[t] \notin {"waiting", "woken", "gone", "working"}
    BY <2>2, <1>4, <1>7
  <2>3. QED
    BY <2>1, <2>2
<1>10. QED
  BY <1>7, <1>8, <1>9

(* A section under the mutex that ends in sleep keeps the books.           *)
LEMMA SleepInvariant ==
    ASSUME NEW t \in Threads, NEW pcs, NEW idle, NEW total, NEW ok, NEW todo, NEW dn,
           Mid(t, pcs, idle, total, ok, todo, dn),
           Sleep(t, pcs, idle, total, ok, todo), UNCHANGED <<verdict, added>>, done' = dn
    PROVE  IInv'
<1> USE DEF Mid, Books, Types
<1>1. pc' \in [Threads -> Pcs] /\ pc'[t] = "waiting" /\ \A u \in Threads \ {t} : pc'[u] = pcs[u]
  BY DEF Sleep, Pcs
<1>2. vChecks' \in [Threads -> SUBSET Checks] /\ vChecks'[t] = {}
        /\ \A u \in Threads \ {t} : vChecks'[u] = vChecks[u]
  BY DEF Sleep
<1>3. nIdle' = Cardinality(IdleSet(pc', {})) /\ nTotal' = Cardinality(PoolSet(pc', {}))
  <2>1. pcs \in [Threads -> Pcs] /\ idle = Cardinality(IdleSet(pcs, {t}))
          /\ total - 1 = Cardinality(PoolSet(pcs, {t})) /\ total \in Int
    OBVIOUS
  <2>2. /\ Cardinality(IdleSet(pc', {})) = Cardinality(IdleSet(pcs, {t})) + 1
        /\ Cardinality(PoolSet(pc', {})) = Cardinality(PoolSet(pcs, {t})) + 1
    BY <1>1, <2>1, CountThread
  <2>3. QED
    BY <2>1, <2>2 DEF Sleep
<1>4. added' \ done' = queue' \cup UNION {vChecks'[u] : u \in Threads \ {}}
  BY <1>2 DEF Sleep
<1>5. SomeBad' = SomeBad
  BY DEF SomeBad
<1>6. Types'
  BY <1>2 DEF Sleep
<1>7. Books({}, pc, nIdle, nTotal, fAllOk, nTodo, done)'
  BY <1>1, <1>2, <1>3, <1>4, <1>5 DEF Sleep, Threads
<1>8. pc'[Master] = "out" => t # Master /\ pcs[Master] = "out"
  BY <1>1 DEF Threads
<1>9. QED
  BY <1>1, <1>5, <1>6, <1>7, <1>8 DEF Sleep, IInv, Threads

(* Wait returns only when every check is settled, with their conjunction.  *)
LEMMA ReturnInvariant ==
    ASSUME NEW t \in Threads, NEW pcs, NEW idle, NEW total, NEW ok, NEW todo, NEW dn,
           Mid(t, pcs, idle, total, ok, todo, dn),
           Return(t, pcs, idle, total, ok, todo), UNCHANGED <<verdict, added>>, done' = dn
    PROVE  IInv'
<1> USE DEF Mid, Books, Types
<1>1. t = Master /\ pc' \in [Threads -> Pcs] /\ pc'[t] = "out"
        /\ \A u \in Threads \ {t} : pc'[u] = pcs[u]
  BY DEF Return, Pcs
<1>2. vChecks' \in [Threads -> SUBSET Checks] /\ vChecks'[t] = {}
        /\ \A u \in Threads \ {t} : vChecks'[u] = vChecks[u]
  BY DEF Return
<1>3. nIdle' = Cardinality(IdleSet(pc', {})) /\ nTotal' = Cardinality(PoolSet(pc', {}))
  <2>1. pcs \in [Threads -> Pcs] /\ idle = Cardinality(IdleSet(pcs, {t}))
          /\ total - 1 = Cardinality(PoolSet(pcs, {t})) /\ total \in Int
    OBVIOUS
  <2>2. /\ Cardinality(IdleSet(pc', {})) = Cardinality(IdleSet(pcs, {t}))
        /\ Cardinality(PoolSet(pc', {})) = Cardinality(PoolSet(pcs, {t}))
    BY <1>1, <2>1, CountThread
  <2>3. QED
    BY <2>1, <2>2 DEF Return
<1>4. added' \ done' = queue' \cup UNION {vChecks'[u] : u \in Threads \ {}}
  BY <1>2 DEF Return
<1>5. SomeBad' = SomeBad
  BY DEF SomeBad
<1>6. added = dn
  <2>1. IsFiniteSet(added \ dn)
    BY CheckQueueAssumption, FS_Subset
  <2>2. added \ dn = {}
    BY Zenon, <2>1, FS_EmptySet DEF Return
  <2>3. QED
    BY <2>2
<1>7. Types'
  BY <1>2 DEF Return
<1>8. pcs[Master] # "out"
  BY <1>1
<1>9. ok <=> ~SomeBad
  BY <1>6, <1>8 DEF SomeBad
<1>10. Books({}, pc, nIdle, nTotal, fAllOk, nTodo, done)'
  <2>1. \A u, v \in Threads \ {} : u # v => vChecks'[u] \cap vChecks'[v] = {}
    BY <1>2
  <2>2. \A u \in Threads \ {} : vChecks'[u] \cap queue' = {}
    BY <1>2 DEF Return
  <2>3. \A u \in Threads \ {} : pc'[u] = "working" <=> vChecks'[u] # {}
    BY <1>1, <1>2
  <2>4. \A u \in Threads \ {} : pc'[u] = "working" /\ ~fOk'[u] => SomeBad'
    BY <1>1, <1>5 DEF Return
  <2>5. (\A u \in Workers : pc'[u] \notin {"out", "adding"}) /\ pc'[Master] \notin {"start", "gone"}
    BY <1>1, CheckQueueAssumption DEF Threads
  <2>6. fAllOk' /\ nTodo' = Cardinality(added' \ done') /\ done' \subseteq added'
    BY DEF Return
  <2>7. QED
    BY <1>1, <1>3, <1>4, <2>1, <2>2, <2>3, <2>4, <2>5, <2>6 DEF Return
<1>11. QED
  BY <1>1, <1>5, <1>6, <1>7, <1>9, <1>10 DEF Return, IInv, Threads

(* A thread that takes a batch off the queue keeps the books.              *)
LEMMA TakeInvariant ==
    ASSUME NEW t \in Threads, NEW pcs, NEW idle, NEW total, NEW ok, NEW todo, NEW dn,
           Mid(t, pcs, idle, total, ok, todo, dn),
           Take(t, pcs, idle, total, ok, todo), UNCHANGED <<verdict, added>>, done' = dn
    PROVE  IInv'
<1> USE DEF Mid, Books, Types
<1>0. PICK S \in SUBSET queue :
          /\ Cardinality(S) = Batch(total, idle)
          /\ queue' = queue \ S
          /\ vChecks' = [vChecks EXCEPT ![t] = S]
  BY Zenon DEF Take
<1>1. pc' \in [Threads -> Pcs] /\ pc'[t] = "working" /\ \A u \in Threads \ {t} : pc'[u] = pcs[u]
  BY DEF Take, Pcs
<1>2. vChecks' \in [Threads -> SUBSET Checks] /\ vChecks'[t] = S
        /\ \A u \in Threads \ {t} : vChecks'[u] = vChecks[u]
  BY <1>0
<1>3. nIdle' = Cardinality(IdleSet(pc', {})) /\ nTotal' = Cardinality(PoolSet(pc', {}))
  <2>1. pcs \in [Threads -> Pcs] /\ idle = Cardinality(IdleSet(pcs, {t}))
          /\ total - 1 = Cardinality(PoolSet(pcs, {t})) /\ total \in Int
    OBVIOUS
  <2>2. /\ Cardinality(IdleSet(pc', {})) = Cardinality(IdleSet(pcs, {t}))
        /\ Cardinality(PoolSet(pc', {})) = Cardinality(PoolSet(pcs, {t})) + 1
    BY <1>1, <2>1, CountThread
  <2>3. QED
    BY <2>1, <2>2 DEF Take
<1>4. added' \ done' = queue' \cup UNION {vChecks'[u] : u \in Threads \ {}}
  BY <1>0, <1>2
<1>5. SomeBad' = SomeBad
  BY DEF SomeBad
<1>6. S # {}
  <2>1. Batch(total, idle) # 0
    BY CheckQueueAssumption DEF Batch
  <2>2. QED
    BY Zenon, <1>0, <2>1, FS_EmptySet
<1>7. Types'
  BY <1>0, <1>2 DEF Take
<1>8. pcs[Master] # "out"
  BY <1>0, <1>6
<1>9. fOk' \in [Threads -> BOOLEAN] /\ fOk'[t] = ok /\ \A u \in Threads \ {t} : fOk'[u] = fOk[u]
  BY DEF Take
<1>10. Books({}, pc, nIdle, nTotal, fAllOk, nTodo, done)'
  <2>1. \A u, v \in Threads \ {} : u # v => vChecks'[u] \cap vChecks'[v] = {}
    BY <1>0, <1>2
  <2>2. \A u \in Threads \ {} : vChecks'[u] \cap queue' = {}
    BY <1>0, <1>2
  <2>3. \A u \in Threads \ {} : pc'[u] = "working" <=> vChecks'[u] # {}
    BY <1>1, <1>2, <1>6
  <2>4. \A u \in Threads \ {} : pc'[u] = "working" /\ ~fOk'[u] => SomeBad'
    BY <1>1, <1>5, <1>9
  <2>5. (\A u \in Workers : pc'[u] \notin {"out", "adding"}) /\ pc'[Master] \notin {"start", "gone"}
    BY <1>1 DEF Threads
  <2>6. QED
    BY <1>1, <1>3, <1>4, <1>5, <2>1, <2>2, <2>3, <2>4, <2>5 DEF Take
<1>11. pc'[Master] # "out"
  BY <1>1, <1>8 DEF Threads
<1>12. QED
  BY <1>7, <1>8, <1>10, <1>11 DEF Take, IInv

(* Every section under the mutex keeps the books, however it ends.         *)
LEMMA SectionInvariant ==
    ASSUME NEW t \in Threads, NEW pcs, NEW idle, NEW total, NEW ok, NEW todo, NEW dn,
           Mid(t, pcs, idle, total, ok, todo, dn),
           Section(t, pcs, idle, total, ok, todo), done' = dn
    PROVE  IInv'
  BY SleepInvariant, ReturnInvariant, TakeInvariant DEF Section

-----------------------------------------------------------------------------
(* A thread that enters Loop has not been counted yet.                     *)
LEMMA EnterMid ==
    ASSUME IInv, NEW t \in Threads, pc[t] = IF t = Master THEN "adding" ELSE "start"
    PROVE  Mid(t, pc, nIdle, nTotal + 1, fAllOk, nTodo, done)
<1> USE DEF IInv, Books, Types
<1>1. pc[t] \in {"adding", "start"}
  OBVIOUS
<1>2. /\ nIdle = Cardinality(IdleSet(pc, {t})) /\ nIdle \in Nat
      /\ nTotal = Cardinality(PoolSet(pc, {t})) /\ nTotal \in Nat
  <2>1. /\ Cardinality(IdleSet(pc, {})) = Cardinality(IdleSet(pc, {t})) + 0
        /\ Cardinality(PoolSet(pc, {})) = Cardinality(PoolSet(pc, {t})) + 0
        /\ Cardinality(IdleSet(pc, {t})) \in Nat /\ Cardinality(PoolSet(pc, {t})) \in Nat
    BY Zenon, <1>1, CountThread
  <2>2. nIdle = Cardinality(IdleSet(pc, {})) /\ nTotal = Cardinality(PoolSet(pc, {}))
    OBVIOUS
  <2>3. QED
    BY <2>1, <2>2
<1>3. vChecks[t] = {}
  BY <1>1
<1>4. added \ done = queue \cup UNION {vChecks[u] : u \in Threads \ {t}}
  BY <1>3
<1>5. Books({t}, pc, nIdle, (nTotal + 1) - 1, fAllOk, nTodo, done)
  <2>1. (nTotal + 1) - 1 = nTotal
    BY <1>2
  <2>2. QED
    BY <1>2, <1>4, <2>1
<1>6. QED
  BY <1>1, <1>2, <1>5 DEF Mid

(* A thread that wakes up leaves the idle ones.                            *)
LEMMA WakeMid ==
    ASSUME IInv, NEW t \in Threads, pc[t] = "woken"
    PROVE  Mid(t, pc, nIdle - 1, nTotal, fAllOk, nTodo, done)
<1> USE DEF IInv, Books, Types
<1>1. /\ Cardinality(IdleSet(pc, {t})) \in Nat /\ nIdle = Cardinality(IdleSet(pc, {t})) + 1
      /\ Cardinality(PoolSet(pc, {t})) \in Nat /\ nTotal = Cardinality(PoolSet(pc, {t})) + 1
  <2>1. /\ Cardinality(IdleSet(pc, {})) = Cardinality(IdleSet(pc, {t})) + 1
        /\ Cardinality(PoolSet(pc, {})) = Cardinality(PoolSet(pc, {t})) + 1
        /\ Cardinality(IdleSet(pc, {t})) \in Nat /\ Cardinality(PoolSet(pc, {t})) \in Nat
    BY Zenon, CountThread
  <2>2. QED
    BY <2>1
<1>2. nIdle - 1 = Cardinality(IdleSet(pc, {t})) /\ nTotal - 1 = Cardinality(PoolSet(pc, {t}))
        /\ nTotal \in Int
  BY <1>1
<1>3. vChecks[t] = {}
  OBVIOUS
<1>4. added \ done = queue \cup UNION {vChecks[u] : u \in Threads \ {t}}
  BY <1>3
<1>5. Books({t}, pc, nIdle - 1, nTotal - 1, fAllOk, nTodo, done)
  BY <1>2, <1>4
<1>6. QED
  BY <1>2, <1>5 DEF Mid

(* Settling a batch takes exactly its checks off nTodo; waking the master  *)
(* leaves it among the idle.                                               *)
LEMMA FinishMid ==
    ASSUME IInv, NEW t \in Threads, pc[t] = "working",
           NEW ok, ok = (fOk[t] /\ \A c \in vChecks[t] : verdict[c]),
           NEW todo, todo = nTodo - Cardinality(vChecks[t])
    PROVE  Mid(t, NotifyMaster(t, todo), nIdle, nTotal, fAllOk /\ ok, todo, done \cup vChecks[t])
<1> USE DEF IInv, Books, Types
<1> DEFINE dn  == done \cup vChecks[t]
           pcs == NotifyMaster(t, todo)
<1>1. /\ nIdle = Cardinality(IdleSet(pc, {t}))
      /\ nTotal - 1 = Cardinality(PoolSet(pc, {t})) /\ nTotal \in Int
  <2>1. /\ Cardinality(IdleSet(pc, {})) = Cardinality(IdleSet(pc, {t})) + 0
        /\ Cardinality(PoolSet(pc, {})) = Cardinality(PoolSet(pc, {t})) + 1
        /\ Cardinality(IdleSet(pc, {t})) \in Nat /\ Cardinality(PoolSet(pc, {t})) \in Nat
    BY CountThread
  <2>2. nIdle = Cardinality(IdleSet(pc, {})) /\ nTotal = Cardinality(PoolSet(pc, {}))
    OBVIOUS
  <2>3. QED
    BY <2>1, <2>2
<1>2. pcs \in [Threads -> Pcs] /\ \A u \in Threads : \/ pcs[u] = pc[u]
                                                     \/ u = Master /\ pc[u] = "waiting" /\ pcs[u] = "woken"
  BY DEF NotifyMaster, Pcs, Threads
<1>3. IdleSet(pcs, {t}) = IdleSet(pc, {t}) /\ PoolSet(pcs, {t}) = PoolSet(pc, {t})
  BY Zenon, <1>2 DEF IdleSet, PoolSet
<1>4. vChecks[t] \subseteq added \ done /\ vChecks[t] # {}
  OBVIOUS
<1>5. added \ dn = queue \cup UNION {vChecks[u] : u \in Threads \ {t}}
  BY <1>4
<1>6. todo = Cardinality(added \ dn)
  <2>1. IsFiniteSet(added \ done)
    BY CheckQueueAssumption, FS_Subset
  <2>2. added \ dn = (added \ done) \ vChecks[t] /\ (added \ done) \cap vChecks[t] = vChecks[t]
    BY <1>4
  <2>3. Cardinality((added \ done) \ vChecks[t])
          = Cardinality(added \ done) - Cardinality((added \ done) \cap vChecks[t])
    BY Zenon, <2>1, FS_Difference
  <2>4. QED
    BY Zenon, <2>2, <2>3
<1>7. pc[Master] # "out" /\ pcs[Master] # "out"
  BY Zenon, <1>2, <1>4 DEF Threads
<1>8. ~(fAllOk /\ ok) => SomeBad
  BY <1>4 DEF SomeBad
<1>9. (\E c \in dn : ~verdict[c]) => ~(fAllOk /\ ok)
  BY <1>7
<1>10. Books({t}, pcs, nIdle, nTotal - 1, fAllOk /\ ok, todo, dn)
  <2>1. \A u \in Threads \ {t} : pcs[u] = "working" <=> pc[u] = "working"
    BY Zenon, <1>2
  <2>2. \A u \in Threads \ {t} : /\ vChecks[u] \cap queue = {}
                                 /\ pcs[u] = "working" <=> vChecks[u] # {}
                                 /\ pcs[u] = "working" /\ ~fOk[u] => SomeBad
    BY Zenon, <2>1
  <2>3. (\A u \in Workers : pcs[u] \notin {"out", "adding"}) /\ pcs[Master] \notin {"start", "gone"}
    BY <1>2 DEF Threads
  <2>4. dn \subseteq added /\ \A u, v \in Threads \ {t} : u # v => vChecks[u] \cap vChecks[v] = {}
    BY SMTT(60), <1>4
  <2> HIDE DEF dn, pcs
  <2>5. QED
    BY <1>1, <1>2, <1>3, <1>5, <1>6, <1>8, <2>2, <2>3, <2>4
<1> HIDE DEF dn, pcs
<1>11. Mid(t, pcs, nIdle, nTotal, fAllOk /\ ok, todo, dn)
  BY <1>1, <1>7, <1>9, <1>10 DEF Mid
<1>12. QED
  BY <1>11 DEF dn, pcs

-----------------------------------------------------------------------------
(* No thread is counted before it has taken the mutex once.                *)
LEMMA InitInvariant == Init => IInv
<1> SUFFICES ASSUME Init PROVE IInv
  OBVIOUS
<1> USE DEF Init
<1>1. pc \in [Threads -> Pcs] /\ pc[Master] = "out" /\ \A u \in Workers : pc[u] = "start"
  BY CheckQueueAssumption DEF Threads, Pcs
<1>2. IdleSet(pc, {}) = {} /\ PoolSet(pc, {}) = {}
  BY DEF IdleSet, PoolSet
<1>3. Cardinality(IdleSet(pc, {})) = 0 /\ Cardinality(PoolSet(pc, {})) = 0
        /\ Cardinality(added \ done) = 0
  BY <1>2, FS_EmptySet
<1>4. \A u \in Threads : pc[u] # "working" /\ vChecks[u] = {}
  BY <1>1
<1>5. added \ done = queue \cup UNION {vChecks[u] : u \in Threads \ {}}
  BY <1>4
<1>6. Books({}, pc, nIdle, nTotal, fAllOk, nTodo, done)
  BY <1>1, <1>3, <1>4, <1>5 DEF Books
<1>7. QED
  BY Zenon, <1>1, <1>6 DEF IInv, Types, SomeBad

(* A notification, a spurious wakeup and an interruption leave a thread    *)
(* among the idle ones: the code touches the counters only in Loop.        *)
LEMMA StillIdle ==
    ASSUME NEW pcs \in [Threads -> Pcs], NEW pcs2 \in [Threads -> Pcs],
           \A u \in Threads : \/ pcs2[u] = pcs[u]
                              \/ /\ pcs[u] \in {"waiting", "woken"}
                                 /\ pcs2[u] = "woken" \/ (u # Master /\ pcs2[u] = "gone")
    PROVE  /\ IdleSet(pcs2, {}) = IdleSet(pcs, {}) /\ PoolSet(pcs2, {}) = PoolSet(pcs, {})
           /\ \A u \in Threads : /\ pcs2[u] = "working" <=> pcs[u] = "working"
                                 /\ pcs2[u] = "out" <=> pcs[u] = "out"
                                 /\ pcs2[u] = "adding" <=> pcs[u] = "adding"
                                 /\ pcs2[u] = "start" <=> pcs[u] = "start"
           /\ pcs2[Master] = "gone" => pcs[Master] = "gone"
<1>1. IdleSet(pcs2, {}) = IdleSet(pcs, {})
  BY DEF IdleSet
<1>2. PoolSet(pcs2, {}) = PoolSet(pcs, {})
  BY SMTT(60) DEF PoolSet
<1>3. QED
  BY <1>1, <1>2 DEF Threads

(* SpuriousWakeup and Interrupt.                                           *)
LEMMA WakeupInvariant ==
    ASSUME IInv, NEW t \in Threads, SpuriousWakeup(t) \/ (t \in Workers /\ Interrupt(t))
    PROVE  IInv'
<1> USE DEF IInv, Books, Types
<1>1. /\ pc' \in [Threads -> Pcs]
      /\ \A u \in Threads : \/ pc'[u] = pc[u]
                            \/ /\ pc[u] \in {"waiting", "woken"}
                               /\ pc'[u] = "woken" \/ (u # Master /\ pc'[u] = "gone")
  BY CheckQueueAssumption DEF SpuriousWakeup, Interrupt, Pcs
<1>2. /\ IdleSet(pc', {}) = IdleSet(pc, {}) /\ PoolSet(pc', {}) = PoolSet(pc, {})
      /\ \A u \in Threads : /\ pc'[u] = "working" <=> pc[u] = "working"
                            /\ pc'[u] = "out" <=> pc[u] = "out"
                            /\ pc'[u] = "adding" <=> pc[u] = "adding"
                            /\ pc'[u] = "start" <=> pc[u] = "start"
      /\ pc'[Master] = "gone" => pc[Master] = "gone"
  BY <1>1, StillIdle
<1>3. UNCHANGED <<queue, nIdle, nTotal, fAllOk, nTodo, vChecks, fOk, verdict, added, done, result>>
  BY DEF SpuriousWakeup, Interrupt, counters
<1>4. SomeBad' = SomeBad
  BY SMTT(60), <1>3 DEF SomeBad
<1>5. Books({}, pc, nIdle, nTotal, fAllOk, nTodo, done)'
  BY SMTT(60), <1>1, <1>2, <1>3, <1>4 DEF Threads
<1>6. QED
  BY <1>2, <1>3, <1>4, <1>5 DEF Threads

(* A new CCheckQueueControl finds nothing left of the last block.          *)
LEMMA ControlInvariant == IInv /\ Control => IInv'
<1> SUFFICES ASSUME IInv, Control PROVE IInv'
  OBVIOUS
<1> USE DEF IInv, Books, Types, Control, counters
<1>1. pc' \in [Threads -> Pcs] /\ pc'[Master] = "adding" /\ \A u \in Workers : pc'[u] = pc[u]
  BY CheckQueueAssumption DEF Pcs, Threads
<1>2. IdleSet(pc', {}) = IdleSet(pc, {}) /\ PoolSet(pc', {}) = PoolSet(pc, {})
  BY <1>1 DEF IdleSet, PoolSet, Threads
<1>3. added = done /\ added' \ done' = added \ done /\ fAllOk
  OBVIOUS
<1>4. \A u \in Threads : vChecks[u] = {} /\ pc[u] # "working" /\ pc'[u] # "working"
  BY SMTT(60), <1>1, <1>3 DEF Threads
<1>5. Books({}, pc, nIdle, nTotal, fAllOk, nTodo, done)'
  <2>1. \A u \in Workers : pc'[u] \notin {"out", "adding"}
    BY <1>1
  <2>2. \A u \in Threads \ {} : vChecks'[u] = {}
    BY <1>4
  <2>3. nTodo' = Cardinality(added' \ done')
          /\ added' \ done' = queue' \cup UNION {vChecks'[u] : u \in Threads \ {}}
    <3>1. nTodo' = nTodo /\ queue' = queue /\ vChecks' = vChecks
      OBVIOUS
    <3>2. nTodo = Cardinality(added \ done)
            /\ added \ done = queue \cup UNION {vChecks[u] : u \in Threads \ {}}
      OBVIOUS
    <3> HIDE DEF Control, IInv, Types, Books
    <3>3. QED
      BY Zenon, <1>3, <3>1, <3>2
  <2>4. done' \subseteq added' /\ fAllOk'
    BY <1>3
  <2>5. nIdle' = Cardinality(IdleSet(pc', {})) /\ nTotal' = Cardinality(PoolSet(pc', {}))
    BY <1>2
  <2>6. \A u \in Threads \ {} : pc'[u] # "working"
    BY <1>4
  <2> HIDE DEF Control, IInv, Types
  <2>7. QED
    BY <1>1, <2>1, <2>2, <2>3, <2>4, <2>5, <2>6
<1>6. QED
  BY <1>1, <1>5

(* Add counts every check it queues once.                                  *)
LEMMA AddInvariant ==
    ASSUME IInv, NEW S \in SUBSET Checks, Add(S)
    PROVE  IInv'
<1> USE DEF IInv, Books, Types
<1>1. PICK woken \in Notified(Cardinality(S)) :
          pc' = [t \in Threads |-> IF t \in woken THEN "woken" ELSE pc[t]]
  BY DEF Add
<1>2. woken \subseteq {w \in Workers : pc[w] = "waiting"}
  BY DEF Notified, Asleep
<1>3. /\ pc' \in [Threads -> Pcs]
      /\ \A u \in Threads : \/ pc'[u] = pc[u]
                            \/ /\ pc[u] \in {"waiting", "woken"}
                               /\ pc'[u] = "woken" \/ (u # Master /\ pc'[u] = "gone")
  <2>1. \A u \in Threads : pc'[u] = IF u \in woken THEN "woken" ELSE pc[u]
    BY <1>1
  <2>2. \A u \in woken : pc[u] = "waiting"
    BY <1>2
  <2>3. pc' \in [Threads -> Pcs]
    BY <1>1 DEF Pcs
  <2>4. QED
    BY <2>1, <2>2, <2>3
<1>4. /\ IdleSet(pc', {}) = IdleSet(pc, {}) /\ PoolSet(pc', {}) = PoolSet(pc, {})
      /\ \A u \in Threads : /\ pc'[u] = "working" <=> pc[u] = "working"
                            /\ pc'[u] = "out" <=> pc[u] = "out"
                            /\ pc'[u] = "adding" <=> pc[u] = "adding"
                            /\ pc'[u] = "start" <=> pc[u] = "start"
      /\ pc'[Master] = "gone" => pc[Master] = "gone"
  BY <1>3, StillIdle
<1>5. /\ UNCHANGED <<nIdle, nTotal, fAllOk, vChecks, fOk, verdict, done, result>>
      /\ queue' = queue \cup S /\ added' = added \cup S
      /\ nTodo' = nTodo + Cardinality(S) /\ S \cap added = {}
      /\ pc[Master] = "adding"
  BY DEF Add
<1>6. SomeBad => SomeBad'
  BY <1>5 DEF SomeBad
<1>7. added' \ done' = (added \ done) \cup S /\ (added \ done) \cap S = {}
  BY <1>5
<1>8. nTodo' = Cardinality(added' \ done')
  <2>1. IsFiniteSet(added \ done) /\ IsFiniteSet(S)
    BY CheckQueueAssumption, FS_Subset
  <2>2. Cardinality((added \ done) \cup S)
          = Cardinality(added \ done) + Cardinality(S) - Cardinality((added \ done) \cap S)
    BY <2>1, FS_Union
  <2>3. Cardinality((added \ done) \cap S) = 0
    BY SMTT(60), <1>7, FS_EmptySet
  <2>4. Cardinality(added \ done) \in Nat /\ Cardinality(S) \in Nat
    BY <2>1, FS_CardinalityType
  <2>5. nTodo = Cardinality(added \ done)
    OBVIOUS
  <2> HIDE DEF IInv, Books, Types
  <2>6. Cardinality((added \ done) \cup S) = nTodo + Cardinality(S)
    BY <2>2, <2>3, <2>4, <2>5
  <2>7. QED
    BY <1>5, <1>7, <2>6
<1>9. added' \ done' = queue' \cup UNION {vChecks'[u] : u \in Threads \ {}}
  BY <1>5, <1>7
<1>10. \A u \in Threads \ {} : vChecks'[u] \cap queue' = {}
  BY <1>5
<1>11. Types'
  BY SMTT(60), <1>5
<1>12. Books({}, pc, nIdle, nTotal, fAllOk, nTodo, done)'
  <2>1. \A u \in Threads \ {} : /\ pc'[u] = "working" <=> vChecks'[u] # {}
                                /\ pc'[u] = "working" /\ ~fOk'[u] => SomeBad'
    BY <1>4, <1>5, <1>6
  <2>2. (\A u \in Workers : pc'[u] \notin {"out", "adding"}) /\ pc'[Master] \notin {"start", "gone"}
    BY <1>4 DEF Threads
  <2>3. nIdle' = Cardinality(IdleSet(pc', {})) /\ nTotal' = Cardinality(PoolSet(pc', {}))
    BY <1>4, <1>5
  <2>4. done' \subseteq added' /\ fAllOk' \in BOOLEAN /\ (~fAllOk' => SomeBad')
          /\ \A u, v \in Threads \ {} : u # v => vChecks'[u] \cap vChecks'[v] = {}
    BY <1>5, <1>6
  <2> HIDE DEF IInv, Types
  <2>5. QED
    BY SMTT(60), <1>3, <1>8, <1>9, <1>10, <2>1, <2>2, <2>3, <2>4
<1>13. pc'[Master] # "out"
  BY <1>4, <1>5 DEF Threads
<1>14. (\E c \in done' : ~verdict'[c]) => ~fAllOk'
  BY <1>5
<1> HIDE DEF Books, Types
<1>15. QED
  BY <1>11, <1>12, <1>13, <1>14

(* Every step keeps the books.                                             *)
LEMMA NextInvariant == IInv /\ [Next]_vars => IInv'
<1> SUFFICES ASSUME IInv, [Next]_vars PROVE IInv'
  OBVIOUS
<1>1. CASE Control
  BY <1>1, ControlInvariant
<1>2. ASSUME NEW S \in SUBSET Checks, Add(S) PROVE IInv'
  BY <1>2, AddInvariant
<1>3. ASSUME NEW t \in Threads, Enter(t) PROVE IInv'
  <2>1. Mid(t, pc, nIdle, nTotal + 1, fAllOk, nTodo, done)
    BY <1>3, EnterMid DEF Enter
  <2>2. Section(t, pc, nIdle, nTotal + 1, fAllOk, nTodo) /\ done' = done
    BY <1>3 DEF Enter
  <2>3. QED
    BY <2>1, <2>2, SectionInvariant
<1>4. ASSUME NEW t \in Threads, Wake(t) PROVE IInv'
  <2>1. Mid(t, pc, nIdle - 1, nTotal, fAllOk, nTodo, done)
    BY <1>4, WakeMid DEF Wake
  <2>2. Section(t, pc, nIdle - 1, nTotal, fAllOk, nTodo) /\ done' = done
    BY <1>4 DEF Wake
  <2>3. QED
    BY <2>1, <2>2, SectionInvariant
<1>5. ASSUME NEW t \in Threads, Finish(t) PROVE IInv'
  <2> DEFINE ok   == fOk[t] /\ \A c \in vChecks[t] : verdict[c]
             todo == nTodo - Cardinality(vChecks[t])
  <2>1. pc[t] = "working"
    BY <1>5 DEF Finish
  <2>2. Mid(t, NotifyMaster(t, todo), nIdle, nTotal, fAllOk /\ ok, todo, done \cup vChecks[t])
    BY Zenon, <2>1, FinishMid
  <2>3. Section(t, NotifyMaster(t, todo), nIdle, nTotal, fAllOk /\ ok, todo)
          /\ done' = done \cup vChecks[t]
    BY <1>5 DEF Finish
  <2> HIDE DEF ok, todo
  <2>4. QED
    BY <2>2, <2>3, SectionInvariant
<1>6. ASSUME NEW t \in Threads, SpuriousWakeup(t) PROVE IInv'
  <2>1. SpuriousWakeup(t) \/ (t \in Workers /\ Interrupt(t))
    BY <1>6
  <2>2. QED
    BY <2>1, WakeupInvariant
<1>7. ASSUME NEW w \in Workers, Interrupt(w) PROVE IInv'
  BY <1>7, WakeupInvariant DEF Threads
<1>8. CASE UNCHANGED vars
  BY <1>8 DEF vars, counters, local, IInv, Books, Types, SomeBad, IdleSet, PoolSet
<1>9. QED
  BY <1>1, <1>2, <1>3, <1>4, <1>5, <1>6, <1>7, <1>8 DEF Next, LoopStep

-----------------------------------------------------------------------------
(* The bookkeeping of Loop and Add is right in every reachable state.      *)
THEOREM Invariance == Spec => []IInv
<1>1. Init => IInv
  BY InitInvariant
<1>2. IInv /\ [Next]_vars => IInv'
  BY NextInvariant
<1>3. QED
  BY <1>1, <1>2, PTL DEF Spec

(* The counters nTodo, nIdle and nTotal never wrap around.                 *)
THEOREM TypeCorrect == Spec => []TypeOK
<1>1. IInv => TypeOK
  <2> SUFFICES ASSUME IInv PROVE TypeOK
    OBVIOUS
  <2> USE DEF IInv, Books, Types
  <2>1. IsFiniteSet(IdleSet(pc, {})) /\ IsFiniteSet(PoolSet(pc, {})) /\ IsFiniteSet(added \ done)
    <3>1. IdleSet(pc, {}) \subseteq Threads /\ PoolSet(pc, {}) \subseteq Threads
      BY DEF IdleSet, PoolSet
    <3>2. QED
      BY <3>1, ThreadsFinite, CheckQueueAssumption, FS_Subset
  <2>2. nIdle \in Nat /\ nTotal \in Nat /\ nTodo \in Nat
    BY <2>1, FS_CardinalityType
  <2>3. QED
    BY <2>2 DEF TypeOK, Pcs
<1>2. QED
  BY <1>1, Invariance, PTL

(* No check is lost or run twice, whichever threads take them.             *)
THEOREM ChecksAreKept == Spec => []NoCheckLost
<1>1. IInv => NoCheckLost
  BY DEF IInv, Books, NoCheckLost
<1>2. QED
  BY <1>1, Invariance, PTL

(* Wait returns the conjunction of the block's checks: ConnectBlock never  *)
(* takes a block with a failing script, nor refuses one for another's.     *)
THEOREM WaitCorrect == Spec => []WaitIsExact
<1>1. IInv => WaitIsExact
  BY DEF IInv, SomeBad, WaitIsExact
<1>2. QED
  BY <1>1, Invariance, PTL

(* The assertion of CCheckQueueControl never fires.                        *)
THEOREM IdleCorrect == Spec => []IdleBetweenBlocks
<1>1. IInv => IdleBetweenBlocks
  <2> SUFFICES ASSUME IInv, pc[Master] = "out" PROVE IsIdle
    BY DEF IdleBetweenBlocks
  <2> USE DEF IInv, Books
  <2>1. added = done /\ fAllOk
    OBVIOUS
  <2>2. \A u \in Threads : pc[u] # "working"
    BY <2>1
  <2>3. IdleSet(pc, {}) = PoolSet(pc, {})
    BY <2>2 DEF IdleSet, PoolSet
  <2>4. nTotal = nIdle
    BY <2>3
  <2>5. added \ done = {}
    BY <2>1
  <2>6. nTodo = 0
    BY <2>5, FS_EmptySet
  <2>7. QED
    BY <2>1, <2>4, <2>6 DEF IsIdle
<1>2. QED
  BY <1>1, Invariance, PTL
=============================================================================
