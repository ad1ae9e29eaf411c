-------------------------- MODULE CheckQueueProofs --------------------------
(***************************************************************************)
(* QueueInv is an inductive invariant of CheckQueue, for any number of      *)
(* workers, checks and interrupts and any batch size.                       *)
(*                                                                          *)
(* Every critical section ends in Continue, entered with the counters that  *)
(* its first lines have computed.  Ready states what those values satisfy;  *)
(* one set of lemmas shows that Continue turns Ready into QueueInv', and    *)
(* another that Enter, CleanUp and Wake establish Ready.                    *)
(***************************************************************************)
EXTENDS CheckQueue, FiniteSetTheorems, TLAPS

-----------------------------------------------------------------------------
(* Finite sets                                                              *)

LEMMA CardinalityDifference ==
    ASSUME NEW S, IsFiniteSet(S), NEW T \in SUBSET S
    PROVE  /\ Cardinality(S \ T) \in Nat
           /\ Cardinality(S) \in Nat /\ Cardinality(T) \in Nat
           /\ Cardinality(S \ T) = Cardinality(S) - Cardinality(T)
<1>1. IsFiniteSet(T) /\ IsFiniteSet(S \ T)
  BY FS_Subset
<1>2. (S \ T) \cup T = S /\ (S \ T) \cap T = {}
  OBVIOUS
<1>3. Cardinality((S \ T) \cup T) = Cardinality(S \ T) + Cardinality(T) - Cardinality((S \ T) \cap T)
  BY <1>1, FS_Union
<1>4. Cardinality({}) = 0
  BY FS_EmptySet
<1>5. Cardinality(S) \in Nat /\ Cardinality(T) \in Nat /\ Cardinality(S \ T) \in Nat
  BY <1>1, FS_CardinalityType
<1>6. Cardinality(S) = Cardinality(S \ T) + Cardinality(T)
  BY <1>2, <1>3, <1>4, <1>5
<1> QED
  BY <1>5, <1>6

LEMMA CardinalityDisjoint ==
    ASSUME NEW S, IsFiniteSet(S), NEW T, IsFiniteSet(T), S \cap T = {}
    PROVE  Cardinality(S \cup T) = Cardinality(S) + Cardinality(T)
<1>1. Cardinality(S \cap T) = 0
  BY FS_EmptySet
<1>2. Cardinality(S) \in Nat /\ Cardinality(T) \in Nat
  BY FS_CardinalityType
<1>3. Cardinality(S \cup T) = Cardinality(S) + Cardinality(T) - Cardinality(S \cap T)
  BY FS_Union
<1> QED
  BY <1>1, <1>2, <1>3

LEMMA PendingMember ==
    ASSUME NEW queued, NEW batches, NEW c
    PROVE  c \in Pending(queued, batches) <=>
               c \in queued \/ \E t \in Threads : c \in batches[t]
BY DEF Pending

LEMMA PendingFinite ==
    ASSUME NEW queued \in SUBSET Checks, NEW batches \in [Threads -> SUBSET Checks]
    PROVE  /\ Pending(queued, batches) \subseteq Checks
           /\ IsFiniteSet(Pending(queued, batches))
           /\ Cardinality(Pending(queued, batches)) \in Nat
           /\ Cardinality(Pending(queued, batches)) = 0 <=> Pending(queued, batches) = {}
<1>1. Pending(queued, batches) \subseteq Checks
  BY PendingMember
<1>2. IsFiniteSet(Pending(queued, batches))
  BY <1>1, FS_Subset, QueueAssumption
<1> QED
  BY <1>1, <1>2, FS_CardinalityType, FS_EmptySet

LEMMA ThreadsFinite ==
    ASSUME NEW S \in SUBSET Threads
    PROVE  IsFiniteSet(S) /\ Cardinality(S) \in Nat
<1>1. IsFiniteSet(Threads)
  BY FS_AddElement, QueueAssumption DEF Threads
<1> QED
  BY <1>1, FS_Subset, FS_CardinalityType

-----------------------------------------------------------------------------
(* Boolean helpers                                                          *)

LEMMA FoldedResult ==
    ASSUME NEW a \in BOOLEAN, NEW b \in BOOLEAN
    PROVE  /\ Folded(a, b) \in BOOLEAN
           /\ Folded(a, b) = FALSE <=> a = FALSE \/ b = FALSE
BY Zenon DEF Folded

LEMMA RanResult ==
    ASSUME NEW a \in BOOLEAN, NEW batch
    PROVE  /\ Ran(a, batch) \in BOOLEAN
           /\ Ran(a, batch) = FALSE <=> a = FALSE \/ ~(batch \subseteq Good)
<1>1. CASE batch \subseteq Good
  BY <1>1, Zenon DEF Ran
<1>2. CASE ~(batch \subseteq Good)
  BY <1>2, Zenon DEF Ran
<1> QED
  BY <1>1, <1>2

LEMMA BatchNotEmpty ==
    ASSUME NEW q \in Nat, NEW total \in Nat, NEW idle \in Nat
    PROVE  nNow(q, total, idle) \in Nat /\ nNow(q, total, idle) >= 1
<1>1. q \div (total + idle + 1) \in Int
  OBVIOUS
<1> QED
  BY <1>1, QueueAssumption DEF nNow

-----------------------------------------------------------------------------
(* The values with which a critical section reaches Continue: those of      *)
(* QueueInv, except that t has no batch, is not idle and is counted in      *)
(* total.                                                                   *)

Others(t) == Threads \ {t}

IdleBut(t, where)   == {u \in Others(t) : where[u] \in {"waiting", "woken"}}
InLoopBut(t, where) ==
    {u \in Others(t) : where[u] \in {"waiting", "woken", "executing", "executed"}}

IdleAt(where)   == {u \in Threads : where[u] \in {"waiting", "woken"}}
InLoopAt(where) == {u \in Threads : where[u] \in {"waiting", "woken", "executing", "executed"}}

Rest(t) == [vChecks EXCEPT ![t] = {}]

ReadyCounts(t, todo, total, idle, where) ==
    /\ todo \in Nat /\ total \in Nat /\ idle \in Nat
    /\ where \in [Threads -> Place]
    /\ todo = Cardinality(Pending(queue, Rest(t)))
    /\ idle >= Cardinality(IdleBut(t, where))
    /\ total >= Cardinality(InLoopBut(t, where)) + 1

ReadyBatches(t, where) ==
    \A u \in Others(t) :
        /\ vChecks[u] \cap queue = {}
        /\ \A v \in Others(t) \ {u} : vChecks[u] \cap vChecks[v] = {}
        /\ vChecks[u] # {} <=> where[u] \in {"executing", "executed"}

ReadySession(t, todo, ok, where) ==
    /\ ok \in BOOLEAN
    /\ session # "terminated"
    /\ Pending(queue, Rest(t)) \subseteq added
    /\ t = Master => session \in {"waiting", "destroying"}
    /\ t # Master =>
        /\ where[Master] # "dead"
        /\ where[Master] = "out" <=> session \notin {"waiting", "destroying"}
        /\ where[Master] = "waiting" =>
            queue = {} /\ \E w \in Workers \ {t} : vChecks[w] # {}
    /\ session \in {"none", "done"} =>
        Pending(queue, Rest(t)) = {} /\ todo = 0 /\ ok = TRUE
    /\ VerdictExact

ReadyFailures(t, ok, where) ==
    /\ ok = FALSE => ~(added \subseteq Good)
    /\ \A u \in Others(t) : vChecks[u] # {} /\ fOk[u] = FALSE => ~(added \subseteq Good)
    /\ session \in {"adding", "waiting", "destroying"} /\ ok = TRUE =>
        \A c \in added \ Good :
            \/ c \in queue
            \/ \E u \in Others(t) : c \in vChecks[u] /\ (where[u] = "executed" => fOk[u] = FALSE)

Ready(t, todo, ok, total, idle, where) ==
    /\ TypeOK
    /\ ReadyCounts(t, todo, total, idle, where)
    /\ ReadyBatches(t, where)
    /\ ReadySession(t, todo, ok, where)
    /\ ReadyFailures(t, ok, where)

LEMMA RestMember ==
    ASSUME TypeOK, NEW t \in Threads, NEW c
    PROVE  /\ Rest(t) \in [Threads -> SUBSET Checks]
           /\ Rest(t)[t] = {} /\ \A u \in Others(t) : Rest(t)[u] = vChecks[u]
           /\ c \in Pending(queue, Rest(t)) <=>
                  c \in queue \/ \E u \in Others(t) : c \in vChecks[u]
<1>1. /\ Rest(t) \in [Threads -> SUBSET Checks]
      /\ Rest(t)[t] = {} /\ \A u \in Others(t) : Rest(t)[u] = vChecks[u]
  BY DEF Rest, Others, TypeOK
<1> QED
  BY <1>1, PendingMember DEF Others

\* The pool counters after t has moved to a place in or out of Loop.
LEMMA CountersMoved ==
    ASSUME NEW t \in Threads, NEW where \in [Threads -> Place], NEW p \in Place,
           NEW after, after = [where EXCEPT ![t] = p],
           NEW idle \in Nat, idle >= Cardinality(IdleBut(t, where)),
           NEW total \in Nat, total >= Cardinality(InLoopBut(t, where)) + 1
    PROVE  /\ total >= Cardinality(InLoopAt(after))
           /\ p \in {"out", "enter", "dead"} => total - 1 >= Cardinality(InLoopAt(after))
           /\ idle + 1 >= Cardinality(IdleAt(after))
           /\ p \notin {"waiting", "woken"} => idle >= Cardinality(IdleAt(after))
<1> DEFINE ids == IdleAt(after)
           ins == InLoopAt(after)
<1>1. /\ IsFiniteSet(IdleBut(t, where)) /\ Cardinality(IdleBut(t, where)) \in Nat
      /\ IsFiniteSet(InLoopBut(t, where)) /\ Cardinality(InLoopBut(t, where)) \in Nat
  BY ThreadsFinite DEF IdleBut, InLoopBut, Others
<1>2. t \notin IdleBut(t, where) /\ t \notin InLoopBut(t, where)
  BY DEF IdleBut, InLoopBut, Others
<1>3. ids = IF p \in {"waiting", "woken"} THEN IdleBut(t, where) \cup {t} ELSE IdleBut(t, where)
  BY DEF IdleAt, IdleBut, Others
<1>4. ins = IF p \in {"waiting", "woken", "executing", "executed"}
            THEN InLoopBut(t, where) \cup {t} ELSE InLoopBut(t, where)
  BY DEF InLoopAt, InLoopBut, Others
<1>5. /\ Cardinality(IdleBut(t, where) \cup {t}) = Cardinality(IdleBut(t, where)) + 1
      /\ Cardinality(InLoopBut(t, where) \cup {t}) = Cardinality(InLoopBut(t, where)) + 1
  BY <1>1, <1>2, FS_AddElement
<1> HIDE DEF ids, ins
<1>6. total >= Cardinality(ins) /\ (p \in {"out", "enter", "dead"} => total - 1 >= Cardinality(ins))
  BY <1>1, <1>4, <1>5
<1>7. idle + 1 >= Cardinality(ids) /\ (p \notin {"waiting", "woken"} => idle >= Cardinality(ids))
  BY <1>1, <1>3, <1>5
<1> QED
  BY <1>6, <1>7 DEF ids, ins

-----------------------------------------------------------------------------
(* The three ways a critical section ends                                   *)

LEMMA MasterReturnsSound ==
    ASSUME NEW t \in Threads, NEW todo, NEW ok, NEW total, NEW idle, NEW where,
           Ready(t, todo, ok, total, idle, where),
           MasterReturns(t, todo, ok, total, idle, where),
           UNCHANGED <<interrupted, nInterrupts, added>>
    PROVE  QueueInv'
<1> USE DEF Ready
<1>0. /\ queue = {} /\ t = Master /\ todo = 0 /\ nTotal' = total - 1
      /\ fAllOk' = TRUE /\ pc' = [where EXCEPT ![t] = "out"]
      /\ vChecks' = Rest(t)
      /\ fOk' = [fOk EXCEPT ![t] = TRUE]
      /\ nTodo' = todo /\ nIdle' = idle /\ queue' = queue
      /\ interrupted' = interrupted /\ nInterrupts' = nInterrupts /\ added' = added
  BY DEF MasterReturns, ResetOk, Rest
<1>1. \/ session = "waiting" /\ session' = "done" /\ verdict' = ok
      \/ session = "destroying" /\ session' = "none" /\ verdict' = verdict
  BY DEF MasterReturns
<1>2. Pending(queue, Rest(t)) = {}
  BY <1>0, RestMember, PendingFinite DEF ReadyCounts, TypeOK
<1>3. Outstanding' = {}
  BY <1>0, <1>2 DEF Outstanding
<1>4. \A u \in Threads : vChecks'[u] = {}
  BY <1>2, <1>0, PendingMember
<1>5. total - 1 \in Nat
  <2>1. Cardinality(InLoopBut(t, where)) \in Nat
    BY ThreadsFinite DEF InLoopBut, Others
  <2> QED
    BY <2>1 DEF ReadyCounts
<1>6. TypeOK'
  BY <1>0, <1>1, <1>5, RestMember DEF TypeOK, ReadyCounts, ReadySession, Place, Session
<1>7. TodoExact'
  BY <1>0, <1>3, <1>4, FS_EmptySet DEF TodoExact
<1>8. PoolCounted'
  <2>1. "out" \in Place
    BY DEF Place
  <2>2. idle >= Cardinality(IdleAt(pc')) /\ total - 1 >= Cardinality(InLoopAt(pc'))
    BY <2>1, <1>0, CountersMoved DEF ReadyCounts
  <2> QED
    BY <2>2, <1>0 DEF PoolCounted, Idle, InLoop, IdleAt, InLoopAt
<1>9. PlacesSound'
  <2>1. \A u \in Threads \ {t} : pc'[u] \notin {"executing", "executed"}
    BY <1>0, <1>4, RestMember DEF ReadyBatches, ReadyCounts, Others
  <2>2. pc'[t] = "out"
    BY <1>0 DEF ReadyCounts
  <2> QED
    BY <2>1, <2>2, <1>0, <1>1, <1>3, <1>4 DEF PlacesSound
<1>10. FailuresTracked'
  BY <1>0, <1>1, <1>4 DEF FailuresTracked
<1>11. SessionsIsolated'
  BY <1>0, <1>3 DEF SessionsIsolated
<1>12. NoLostWakeup'
  BY <1>0 DEF NoLostWakeup, ReadyCounts
<1>13. VerdictExact'
  <2>1. ok = TRUE => added \subseteq Good
    BY <1>0, <1>2, <1>1, RestMember DEF ReadyFailures
  <2>2. ok \in BOOLEAN /\ (ok = FALSE => ~(added \subseteq Good))
    BY DEF ReadyFailures, ReadySession
  <2> QED
    BY <2>1, <2>2, <1>0, <1>1 DEF VerdictExact
<1> QED
  BY <1>6, <1>7, <1>8, <1>9, <1>10, <1>11, <1>12, <1>13 DEF QueueInv

LEMMA WaitsForWorkSound ==
    ASSUME NEW t \in Threads, NEW todo, NEW ok, NEW total, NEW idle, NEW where,
           Ready(t, todo, ok, total, idle, where),
           WaitsForWork(t, todo, ok, total, idle, where),
           UNCHANGED <<interrupted, nInterrupts, added>>
    PROVE  QueueInv'
<1> USE DEF Ready
<1>0. /\ queue = {} /\ ~(t = Master /\ todo = 0)
      /\ nTotal' = total /\ nIdle' = idle + 1 /\ fAllOk' = ok
      /\ pc' = [where EXCEPT ![t] = "waiting"]
      /\ vChecks' = Rest(t)
      /\ fOk' = [fOk EXCEPT ![t] = TRUE]
      /\ nTodo' = todo /\ queue' = queue /\ session' = session /\ verdict' = verdict
      /\ interrupted' = interrupted /\ nInterrupts' = nInterrupts /\ added' = added
  BY DEF WaitsForWork, Rest
<1>1. Outstanding' = Pending(queue, Rest(t))
  BY <1>0 DEF Outstanding
<1>2. /\ vChecks'[t] = {} /\ \A u \in Others(t) : vChecks'[u] = vChecks[u]
      /\ vChecks' \in [Threads -> SUBSET Checks]
  BY <1>0, RestMember
<1>3. pc'[t] = "waiting" /\ \A u \in Others(t) : pc'[u] = where[u]
  BY <1>0 DEF ReadyCounts, Others
<1>4. TypeOK'
  <2>1. fOk' \in [Threads -> BOOLEAN] /\ pc' \in [Threads -> Place]
    BY <1>0 DEF TypeOK, ReadyCounts, Place
  <2>2. fAllOk' \in BOOLEAN /\ verdict' \in BOOLEAN
    <3>1. fAllOk' = ok /\ verdict' = verdict
      BY <1>0
    <3> QED
      BY <3>1, Zenon DEF TypeOK, ReadySession
  <2>3. /\ nTodo' \in Nat /\ nIdle' \in Nat /\ nTotal' \in Nat /\ nInterrupts' \in Nat
        /\ queue' \subseteq Checks /\ added' \subseteq Checks
        /\ interrupted' \subseteq Threads /\ session' \in Session
    <3>1. queue' = queue /\ added' = added /\ session' = session /\ interrupted' = interrupted
      BY <1>0
    <3>2. nTodo' = todo /\ nIdle' = idle + 1 /\ nTotal' = total /\ nInterrupts' = nInterrupts
      BY <1>0
    <3> QED
      BY <3>1, <3>2 DEF TypeOK, ReadyCounts
  <2> QED
    BY <2>1, <2>2, <2>3, <1>2 DEF TypeOK
<1>5. TodoExact'
  <2>0. queue' = {}
    BY <1>0
  <2>1. \A u \in Threads : vChecks'[u] \cap queue' = {}
    BY <2>0
  <2>2. \A u \in Threads : \A v \in Threads \ {u} : vChecks'[u] \cap vChecks'[v] = {}
    BY <1>2 DEF ReadyBatches, Others
  <2> QED
    BY <2>1, <2>2, <1>0, <1>1 DEF TodoExact, ReadyCounts
<1>6. PoolCounted'
  <2>1. "waiting" \in Place
    BY DEF Place
  <2>2. idle + 1 >= Cardinality(IdleAt(pc')) /\ total >= Cardinality(InLoopAt(pc'))
    BY <2>1, <1>0, CountersMoved DEF ReadyCounts
  <2> QED
    BY <2>2, <1>0 DEF PoolCounted, Idle, InLoop, IdleAt, InLoopAt
<1>7. PlacesSound'
  <2>1. \A u \in Threads : vChecks'[u] # {} <=> pc'[u] \in {"executing", "executed"}
    BY <1>2, <1>3 DEF ReadyBatches, Others
  <2>2. Master \in Threads
    BY DEF Threads
  <2> QED
    BY <2>1, <2>2, <1>0, <1>1, <1>3 DEF PlacesSound, ReadySession, Others
<1>8. FailuresTracked'
  <2>1. \A u \in Others(t) : fOk'[u] = fOk[u]
    BY <1>0 DEF Others, TypeOK
  <2> QED
    BY <2>1, <1>0, <1>2, <1>3 DEF FailuresTracked, ReadyFailures, Others
<1>9. SessionsIsolated'
  BY <1>0, <1>1 DEF SessionsIsolated, ReadySession
<1>10. NoLostWakeup'
  <2>1. CASE t = Master
    <3>1. PICK c : c \in Pending(queue, Rest(t))
      BY <2>1, <1>0, RestMember, PendingFinite DEF ReadyCounts, TypeOK
    <3>2. PICK u \in Others(t) : c \in vChecks[u]
      BY <3>1, <1>0, RestMember
    <3> QED
      BY <3>2, <2>1, <1>0, <1>2 DEF NoLostWakeup, Others, Threads
  <2>2. CASE t # Master
    BY <2>2, <1>0, <1>2, <1>3 DEF NoLostWakeup, ReadySession, Others, Threads
  <2> QED
    BY <2>1, <2>2
<1>11. VerdictExact'
  BY <1>0 DEF VerdictExact, ReadySession
<1> QED
  BY <1>4, <1>5, <1>6, <1>7, <1>8, <1>9, <1>10, <1>11 DEF QueueInv

LEMMA TakesBatchSound ==
    ASSUME NEW t \in Threads, NEW todo, NEW ok, NEW total, NEW idle, NEW where,
           Ready(t, todo, ok, total, idle, where),
           TakesBatch(t, todo, ok, total, idle, where),
           UNCHANGED <<interrupted, nInterrupts, added>>
    PROVE  QueueInv'
<1> USE DEF Ready
<1>1. PICK batch \in SUBSET queue :
        /\ queue # {}
        /\ Cardinality(batch) = nNow(Cardinality(queue), total, idle)
        /\ queue' = queue \ batch
        /\ vChecks' = [vChecks EXCEPT ![t] = batch]
        /\ fOk' = [fOk EXCEPT ![t] = ok]
        /\ pc' = [where EXCEPT ![t] = "executing"]
        /\ nTodo' = todo /\ nIdle' = idle /\ nTotal' = total /\ fAllOk' = ok
        /\ session' = session /\ verdict' = verdict
        /\ interrupted' = interrupted /\ nInterrupts' = nInterrupts /\ added' = added
  BY DEF TakesBatch
<1>2. batch # {}
  <2>1. IsFiniteSet(queue) /\ Cardinality(queue) \in Nat
    BY FS_Subset, FS_CardinalityType, QueueAssumption DEF TypeOK
  <2>2. Cardinality(batch) >= 1
    BY <2>1, <1>1, BatchNotEmpty DEF ReadyCounts
  <2> QED
    BY <2>2, FS_EmptySet
<1>3. /\ vChecks'[t] = batch /\ \A u \in Others(t) : vChecks'[u] = vChecks[u]
      /\ vChecks' \in [Threads -> SUBSET Checks]
  BY <1>1 DEF TypeOK, Others
<1>4. Outstanding' = Pending(queue, Rest(t))
  <2>1. ASSUME NEW c
        PROVE  c \in Pending(queue', vChecks') <=> c \in Pending(queue, Rest(t))
    <3>1. c \in Pending(queue', vChecks') <=>
              c \in queue' \/ \E u \in Threads : c \in vChecks'[u]
      BY PendingMember
    <3>2. c \in Pending(queue, Rest(t)) <=>
              c \in queue \/ \E u \in Others(t) : c \in vChecks[u]
      BY RestMember
    <3> QED
      BY <3>1, <3>2, <1>1, <1>3 DEF Others
  <2> QED
    BY <2>1 DEF Outstanding
<1>5. pc'[t] = "executing" /\ \A u \in Others(t) : pc'[u] = where[u]
  BY <1>1 DEF ReadyCounts, Others
<1>6. fOk'[t] = ok /\ \A u \in Others(t) : fOk'[u] = fOk[u]
  BY <1>1 DEF TypeOK, Others
<1>7. TypeOK'
  BY <1>1, <1>3 DEF TypeOK, ReadyCounts, ReadySession, Place
<1>8. TodoExact'
  <2>1. \A u \in Threads : vChecks'[u] \cap queue' = {}
    BY <1>1, <1>3 DEF ReadyBatches, Others
  <2>2. \A u \in Threads : \A v \in Threads \ {u} : vChecks'[u] \cap vChecks'[v] = {}
    BY <1>1, <1>3 DEF ReadyBatches, Others
  <2> QED
    BY <2>1, <2>2, <1>1, <1>4 DEF TodoExact, ReadyCounts
<1>9. PoolCounted'
  <2>1. "executing" \in Place
    BY DEF Place
  <2>2. idle >= Cardinality(IdleAt(pc')) /\ total >= Cardinality(InLoopAt(pc'))
    BY <2>1, <1>1, CountersMoved DEF ReadyCounts
  <2> QED
    BY <2>2, <1>1 DEF PoolCounted, Idle, InLoop, IdleAt, InLoopAt
<1>10. PlacesSound'
  <2>1. \A u \in Threads : vChecks'[u] # {} <=> pc'[u] \in {"executing", "executed"}
    BY <1>2, <1>3, <1>5 DEF ReadyBatches, Others
  <2>2. Master \in Threads
    BY DEF Threads
  <2> QED
    BY <2>1, <2>2, <1>1, <1>4, <1>5 DEF PlacesSound, ReadySession, Others
<1>11. FailuresTracked'
  BY <1>1, <1>3, <1>5, <1>6 DEF FailuresTracked, ReadyFailures, Others
<1>12. SessionsIsolated'
  BY <1>1, <1>4 DEF SessionsIsolated, ReadySession
<1>13. NoLostWakeup'
  BY <1>1, <1>3, <1>5 DEF NoLostWakeup, ReadySession, Others, Threads
<1>14. VerdictExact'
  BY <1>1 DEF VerdictExact, ReadySession
<1> QED
  BY <1>7, <1>8, <1>9, <1>10, <1>11, <1>12, <1>13, <1>14 DEF QueueInv

LEMMA ContinueSound ==
    ASSUME NEW t \in Threads, NEW todo, NEW ok, NEW total, NEW idle, NEW where,
           Ready(t, todo, ok, total, idle, where),
           Continue(t, todo, ok, total, idle, where)
    PROVE  QueueInv'
BY MasterReturnsSound, WaitsForWorkSound, TakesBatchSound DEF Continue

-----------------------------------------------------------------------------
(* The critical sections up to Continue                                     *)

\* A thread that has no batch enters Continue with the queue's own counters.
LEMMA ReadyWithoutBatch ==
    ASSUME QueueInv, session # "terminated",
           NEW t \in Threads, vChecks[t] = {}, pc[t] # "out",
           NEW total \in Nat, total >= Cardinality(InLoopBut(t, pc)) + 1,
           NEW idle \in Nat, idle >= Cardinality(IdleBut(t, pc))
    PROVE  Ready(t, nTodo, fAllOk, total, idle, pc)
<1> USE DEF QueueInv
<1>1. Rest(t) = vChecks
  BY DEF Rest, TypeOK
<1>2. Outstanding = Pending(queue, Rest(t))
  BY <1>1 DEF Outstanding
<1>3. ReadyCounts(t, nTodo, total, idle, pc)
  BY <1>2 DEF ReadyCounts, TypeOK, TodoExact
<1>4. ReadyBatches(t, pc)
  BY DEF ReadyBatches, TodoExact, PlacesSound, Others
<1>5. ReadySession(t, nTodo, fAllOk, pc)
  <2>1. t = Master => session \in {"waiting", "destroying"}
    BY DEF PlacesSound
  <2>2. pc[Master] = "waiting" => queue = {} /\ \E w \in Workers \ {t} : vChecks[w] # {}
    BY DEF NoLostWakeup
  <2>3. /\ pc[Master] # "dead"
        /\ pc[Master] = "out" <=> session \notin {"waiting", "destroying"}
        /\ Pending(queue, Rest(t)) \subseteq added
    BY <1>2 DEF PlacesSound
  <2>4. session \in {"none", "done"} =>
            Pending(queue, Rest(t)) = {} /\ nTodo = 0 /\ fAllOk = TRUE
    BY <1>2 DEF SessionsIsolated
  <2>5. fAllOk \in BOOLEAN
    BY DEF TypeOK
  <2> QED
    BY <2>1, <2>2, <2>3, <2>4, <2>5 DEF ReadySession
<1>6. ReadyFailures(t, fAllOk, pc)
  BY DEF ReadyFailures, FailuresTracked, Others
<1> QED
  BY <1>3, <1>4, <1>5, <1>6 DEF Ready

\* Leaving t out of the counts.
LEMMA CountsWithout ==
    ASSUME TypeOK, NEW t \in Threads
    PROVE  /\ Cardinality(IdleBut(t, pc)) \in Nat /\ Cardinality(InLoopBut(t, pc)) \in Nat
           /\ pc[t] \in {"waiting", "woken"} =>
                  Cardinality(Idle) = Cardinality(IdleBut(t, pc)) + 1
           /\ pc[t] \notin {"waiting", "woken"} => Idle = IdleBut(t, pc)
           /\ pc[t] \in {"waiting", "woken", "executing", "executed"} =>
                  Cardinality(InLoop) = Cardinality(InLoopBut(t, pc)) + 1
           /\ pc[t] \notin {"waiting", "woken", "executing", "executed"} => InLoop = InLoopBut(t, pc)
<1>1. /\ IsFiniteSet(IdleBut(t, pc)) /\ Cardinality(IdleBut(t, pc)) \in Nat
      /\ IsFiniteSet(InLoopBut(t, pc)) /\ Cardinality(InLoopBut(t, pc)) \in Nat
  BY ThreadsFinite DEF IdleBut, InLoopBut, Others
<1>2. t \notin IdleBut(t, pc) /\ t \notin InLoopBut(t, pc)
  BY DEF IdleBut, InLoopBut, Others
<1>3. /\ Cardinality(IdleBut(t, pc) \cup {t}) = Cardinality(IdleBut(t, pc)) + 1
      /\ Cardinality(InLoopBut(t, pc) \cup {t}) = Cardinality(InLoopBut(t, pc)) + 1
  BY <1>1, <1>2, FS_AddElement
<1>4. Idle = IF pc[t] \in {"waiting", "woken"} THEN IdleBut(t, pc) \cup {t} ELSE IdleBut(t, pc)
  BY DEF Idle, IdleBut, Others
<1>5. InLoop = IF pc[t] \in {"waiting", "woken", "executing", "executed"}
               THEN InLoopBut(t, pc) \cup {t} ELSE InLoopBut(t, pc)
  BY DEF InLoop, InLoopBut, Others
<1> QED
  BY <1>1, <1>3, <1>4, <1>5

LEMMA EnterSound ==
    ASSUME QueueInv, session # "terminated", NEW t \in Threads, Enter(t)
    PROVE  QueueInv'
<1>1. pc[t] = "enter" /\ Continue(t, nTodo, fAllOk, nTotal + 1, nIdle, pc)
  BY DEF Enter
<1>2. vChecks[t] = {}
  BY <1>1 DEF QueueInv, PlacesSound
<1>3. /\ nTotal + 1 \in Nat /\ nTotal + 1 >= Cardinality(InLoopBut(t, pc)) + 1
      /\ nIdle \in Nat /\ nIdle >= Cardinality(IdleBut(t, pc))
  BY <1>1, CountsWithout DEF QueueInv, TypeOK, PoolCounted
<1>4. Ready(t, nTodo, fAllOk, nTotal + 1, nIdle, pc)
  BY <1>1, <1>2, <1>3, ReadyWithoutBatch
<1> QED
  BY <1>1, <1>4, ContinueSound

LEMMA WakeSound ==
    ASSUME QueueInv, session # "terminated", NEW t \in Threads, Wake(t)
    PROVE  QueueInv'
<1>1. pc[t] = "woken" /\ Continue(t, nTodo, fAllOk, nTotal, nIdle - 1, pc)
  BY DEF Wake
<1>2. vChecks[t] = {}
  BY <1>1 DEF QueueInv, PlacesSound
<1>3. /\ nTotal \in Nat /\ nTotal >= Cardinality(InLoopBut(t, pc)) + 1
      /\ nIdle - 1 \in Nat /\ nIdle - 1 >= Cardinality(IdleBut(t, pc))
  BY <1>1, CountsWithout DEF QueueInv, TypeOK, PoolCounted
<1>4. Ready(t, nTodo, fAllOk, nTotal, nIdle - 1, pc)
  BY <1>1, <1>2, <1>3, ReadyWithoutBatch
<1> QED
  BY <1>1, <1>4, ContinueSound

LEMMA CleanUpSound ==
    ASSUME QueueInv, session # "terminated", NEW t \in Threads, CleanUp(t)
    PROVE  QueueInv'
<1> DEFINE todo  == nTodo - Cardinality(vChecks[t])
           ok    == Folded(fAllOk, fOk[t])
           where == Notified(t, todo)
<1>1. pc[t] = "executed" /\ Continue(t, todo, ok, nTotal, nIdle, where)
  BY DEF CleanUp
<1>2. Master \in Threads /\ pc \in [Threads -> Place] /\ "woken" \in Place
  BY DEF QueueInv, TypeOK, Threads, Place
<1>3. \/ where = pc
      \/ /\ t # Master /\ pc[Master] = "waiting"
         /\ where = [pc EXCEPT ![Master] = "woken"]
  BY DEF Notified
<1>4. t # Master /\ todo = 0 => where[Master] # "waiting"
  BY <1>2 DEF Notified
<1> HIDE DEF where
<1>5. /\ where \in [Threads -> Place]
      /\ \A u \in Threads : where[u] = pc[u] \/ (u = Master /\ u # t /\ pc[u] = "waiting" /\ where[u] = "woken")
  BY <1>2, <1>3
<1>6. /\ IdleBut(t, where) = IdleBut(t, pc)
      /\ InLoopBut(t, where) = InLoopBut(t, pc)
  BY <1>5 DEF IdleBut, InLoopBut, Others
<1>7. vChecks[t] # {} /\ vChecks[t] \subseteq Outstanding
  BY <1>1, PendingMember DEF QueueInv, PlacesSound, Outstanding
<1>8. Pending(queue, Rest(t)) = Outstanding \ vChecks[t]
  <2>1. ASSUME NEW c
        PROVE  c \in Pending(queue, Rest(t)) <=> c \in Outstanding /\ c \notin vChecks[t]
    <3>1. c \in Outstanding <=> c \in queue \/ \E u \in Threads : c \in vChecks[u]
      BY PendingMember DEF Outstanding
    <3>2. c \in Pending(queue, Rest(t)) <=>
              c \in queue \/ \E u \in Others(t) : c \in vChecks[u]
      BY RestMember DEF QueueInv
    <3> QED
      BY <3>1, <3>2 DEF QueueInv, TodoExact, Others
  <2> QED
    BY <2>1
<1>9. /\ todo \in Nat /\ todo = Cardinality(Pending(queue, Rest(t)))
      /\ todo = 0 <=> Pending(queue, Rest(t)) = {}
  <2>1. IsFiniteSet(Outstanding)
    BY PendingFinite DEF QueueInv, TypeOK, Outstanding
  <2>2. /\ todo \in Nat /\ todo = Cardinality(Pending(queue, Rest(t)))
    BY <2>1, <1>7, <1>8, CardinalityDifference DEF QueueInv, TodoExact
  <2> QED
    BY <2>2, RestMember, PendingFinite DEF QueueInv, TypeOK
<1> HIDE DEF todo
<1>10. ReadyCounts(t, todo, nTotal, nIdle, where)
  <2>1. /\ nTotal \in Nat /\ nTotal >= Cardinality(InLoopBut(t, pc)) + 1
        /\ nIdle \in Nat /\ nIdle >= Cardinality(IdleBut(t, pc))
    BY <1>1, CountsWithout DEF QueueInv, TypeOK, PoolCounted
  <2> QED
    BY <2>1, <1>5, <1>6, <1>9 DEF ReadyCounts
<1>11. ReadyBatches(t, where)
  BY <1>5 DEF ReadyBatches, QueueInv, TodoExact, PlacesSound, Others
<1>12. fAllOk \in BOOLEAN /\ fOk[t] \in BOOLEAN
  BY DEF QueueInv, TypeOK
<1>13. ok \in BOOLEAN /\ (ok = FALSE <=> fAllOk = FALSE \/ fOk[t] = FALSE)
  BY <1>12, FoldedResult
<1> HIDE DEF ok
<1>14. session \notin {"none", "done"}
  BY <1>7 DEF QueueInv, SessionsIsolated
<1>15. ReadySession(t, todo, ok, where)
  <2>1. Pending(queue, Rest(t)) \subseteq added
    BY <1>8 DEF QueueInv, PlacesSound
  <2>2. t = Master => session \in {"waiting", "destroying"}
    BY <1>1 DEF QueueInv, PlacesSound
  <2>3. /\ where[Master] # "dead"
        /\ where[Master] = "out" <=> session \notin {"waiting", "destroying"}
    BY <1>2, <1>5 DEF QueueInv, PlacesSound
  <2>4. ASSUME t # Master, where[Master] = "waiting"
        PROVE  queue = {} /\ \E w \in Workers \ {t} : vChecks[w] # {}
    <3>1. pc[Master] = "waiting" /\ queue = {} /\ vChecks[Master] = {}
      BY <2>4, <1>2, <1>5 DEF QueueInv, NoLostWakeup, PlacesSound
    <3>2. PICK c : c \in Pending(queue, Rest(t))
      BY <2>4, <1>4, <1>9
    <3>3. PICK u \in Others(t) : c \in vChecks[u]
      BY <3>1, <3>2, RestMember DEF QueueInv
    <3> QED
      BY <3>1, <3>3 DEF Others, Threads
  <2> QED
    BY <2>1, <2>2, <2>3, <2>4, <1>13, <1>14 DEF ReadySession, QueueInv
<1>16. ReadyFailures(t, ok, where)
  <2>1. ok = FALSE => ~(added \subseteq Good)
    BY <1>7, <1>13 DEF QueueInv, FailuresTracked
  <2>2. \A u \in Others(t) : vChecks[u] # {} /\ fOk[u] = FALSE => ~(added \subseteq Good)
    BY DEF QueueInv, FailuresTracked, Others
  <2>3. ASSUME session \in {"adding", "waiting", "destroying"}, ok = TRUE,
               NEW c \in added \ Good
        PROVE  \/ c \in queue
               \/ \E u \in Others(t) : c \in vChecks[u] /\ (where[u] = "executed" => fOk[u] = FALSE)
    <3>1. fAllOk = TRUE /\ fOk[t] = TRUE
      BY <2>3, <1>12, <1>13
    <3>2. \/ c \in queue
          \/ \E u \in Threads : c \in vChecks[u] /\ (pc[u] = "executed" => fOk[u] = FALSE)
      BY <2>3, <3>1 DEF QueueInv, FailuresTracked
    <3> QED
      BY <3>1, <3>2, <1>1, <1>5 DEF Others
  <2> QED
    BY <2>1, <2>2, <2>3 DEF ReadyFailures
<1>17. Ready(t, todo, ok, nTotal, nIdle, where)
  BY <1>10, <1>11, <1>15, <1>16 DEF Ready, QueueInv
<1> QED
  BY <1>1, <1>17, ContinueSound

-----------------------------------------------------------------------------
(* The other steps                                                          *)

LEMMA ExecuteSound ==
    ASSUME QueueInv, session # "terminated", NEW t \in Threads, Execute(t)
    PROVE  QueueInv'
<1>1. /\ pc[t] = "executing" /\ pc' = [pc EXCEPT ![t] = "executed"]
      /\ fOk' = [fOk EXCEPT ![t] = Ran(fOk[t], vChecks[t])]
      /\ queue' = queue /\ nTodo' = nTodo /\ nIdle' = nIdle /\ nTotal' = nTotal
      /\ fAllOk' = fAllOk /\ vChecks' = vChecks /\ interrupted' = interrupted
      /\ nInterrupts' = nInterrupts /\ session' = session /\ added' = added /\ verdict' = verdict
  BY DEF Execute, queueVars
<1>2. /\ Ran(fOk[t], vChecks[t]) \in BOOLEAN
      /\ Ran(fOk[t], vChecks[t]) = FALSE <=> fOk[t] = FALSE \/ ~(vChecks[t] \subseteq Good)
  <2>1. fOk[t] \in BOOLEAN
    BY DEF QueueInv, TypeOK
  <2> QED
    BY <2>1, RanResult
<1>3. /\ fOk'[t] = Ran(fOk[t], vChecks[t]) /\ \A u \in Others(t) : fOk'[u] = fOk[u]
      /\ fOk' \in [Threads -> BOOLEAN]
  BY <1>1, <1>2 DEF QueueInv, TypeOK, Others
<1>4. /\ pc'[t] = "executed" /\ \A u \in Others(t) : pc'[u] = pc[u]
      /\ pc' \in [Threads -> Place]
  BY <1>1 DEF QueueInv, TypeOK, Others, Place
<1>5. Outstanding' = Outstanding
  BY <1>1 DEF Outstanding
<1>6. TypeOK'
  BY <1>1, <1>3, <1>4 DEF QueueInv, TypeOK
<1>7. TodoExact'
  BY <1>1, <1>5 DEF QueueInv, TodoExact
<1>8. PoolCounted'
  <2>1. Idle' = Idle /\ InLoop' = InLoop
    BY <1>1, <1>4 DEF Idle, InLoop, Others
  <2> QED
    BY <2>1, <1>1 DEF QueueInv, PoolCounted
<1>9. t # Master => pc'[Master] = pc[Master]
  BY <1>4 DEF Others, Threads
<1>10. PlacesSound'
  <2>1. \A u \in Threads : vChecks'[u] # {} <=> pc'[u] \in {"executing", "executed"}
    BY <1>1, <1>4 DEF QueueInv, PlacesSound, Others
  <2>2. /\ pc'[Master] # "dead"
        /\ pc'[Master] = "out" <=> pc[Master] = "out"
    BY <1>1, <1>4, <1>9 DEF QueueInv, PlacesSound
  <2> QED
    BY <2>1, <2>2, <1>1, <1>5 DEF QueueInv, PlacesSound
<1>11. FailuresTracked'
  <2>1. vChecks[t] \subseteq added
    BY PendingMember DEF QueueInv, PlacesSound, Outstanding
  <2>2. fAllOk' = FALSE => ~(added' \subseteq Good)
    BY <1>1 DEF QueueInv, FailuresTracked
  <2>3. ASSUME NEW u \in Threads, vChecks'[u] # {}, fOk'[u] = FALSE
        PROVE  ~(added' \subseteq Good)
    BY <2>1, <2>3, <1>1, <1>2, <1>3 DEF QueueInv, FailuresTracked, Others
  <2>4. ASSUME session' \in {"adding", "waiting", "destroying"}, fAllOk' = TRUE,
               NEW c \in added' \ Good
        PROVE  \/ c \in queue'
               \/ \E u \in Threads : c \in vChecks'[u] /\ (pc'[u] = "executed" => fOk'[u] = FALSE)
    <3>1. \/ c \in queue
          \/ \E u \in Threads : c \in vChecks[u] /\ (pc[u] = "executed" => fOk[u] = FALSE)
      BY <2>4, <1>1 DEF QueueInv, FailuresTracked
    <3> QED
      BY <2>4, <3>1, <1>1, <1>2, <1>3, <1>4 DEF Others
  <2> QED
    BY <2>2, <2>3, <2>4 DEF FailuresTracked
<1>12. SessionsIsolated'
  BY <1>1, <1>5 DEF QueueInv, SessionsIsolated
<1>13. NoLostWakeup'
  BY <1>1, <1>4, <1>9 DEF QueueInv, NoLostWakeup
<1>14. VerdictExact'
  BY <1>1 DEF QueueInv, VerdictExact
<1> QED
  BY <1>6, <1>7, <1>8, <1>10, <1>11, <1>12, <1>13, <1>14 DEF QueueInv

\* Threads that leave Idle or InLoop, or move within them, keep PoolCounted.
LEMMA PoolCountedKept ==
    ASSUME PoolCounted, nIdle' = nIdle, nTotal' = nTotal, TypeOK,
           \A t \in Threads :
               /\ pc'[t] \in {"waiting", "woken"} => pc[t] \in {"waiting", "woken"}
               /\ pc'[t] \in {"waiting", "woken", "executing", "executed"} =>
                      pc[t] \in {"waiting", "woken", "executing", "executed"}
    PROVE  PoolCounted'
<1>1. Idle' \subseteq Idle /\ InLoop' \subseteq InLoop
  BY DEF Idle, InLoop
<1>2. /\ IsFiniteSet(Idle) /\ Cardinality(Idle) \in Nat
      /\ IsFiniteSet(InLoop) /\ Cardinality(InLoop) \in Nat
      /\ Cardinality(Idle') \in Nat /\ Cardinality(InLoop') \in Nat
  BY ThreadsFinite DEF Idle, InLoop
<1>3. Cardinality(Idle') <= Cardinality(Idle) /\ Cardinality(InLoop') <= Cardinality(InLoop)
  BY <1>1, <1>2, FS_Subset
<1>4. nIdle >= Cardinality(Idle) /\ nTotal >= Cardinality(InLoop) /\ nIdle \in Nat /\ nTotal \in Nat
  BY DEF PoolCounted, TypeOK
<1> QED
  BY <1>2, <1>3, <1>4 DEF PoolCounted

\* Steps that move threads that hold no batch, and perhaps the session, and
\* leave the queue and the batches alone.
LEMMA MoveSound ==
    ASSUME QueueInv,
           UNCHANGED <<queueVars, vChecks, fOk, added, verdict>>,
           nInterrupts' \in Nat, interrupted' \subseteq Threads,
           pc' \in [Threads -> Place], session' \in Session,
           \A t \in Threads : pc'[t] = pc[t] \/
               /\ pc[t] \in {"out", "enter", "waiting", "woken"}
               /\ pc'[t] \in {"out", "enter", "dead"} \/ (pc[t] = "waiting" /\ pc'[t] = "woken"),
           pc'[Master] # "dead",
           pc'[Master] = "out" <=> session' \notin {"waiting", "destroying"},
           \/ session' = session
           \/ session' \in {"waiting", "destroying", "terminated"}
              /\ session \in {"adding", "waiting", "destroying"}
    PROVE  QueueInv'
<1>1. /\ queue' = queue /\ nTodo' = nTodo /\ nIdle' = nIdle /\ nTotal' = nTotal
      /\ fAllOk' = fAllOk /\ vChecks' = vChecks /\ fOk' = fOk
      /\ added' = added /\ verdict' = verdict
  BY DEF queueVars
<1>2. Outstanding' = Outstanding
  BY <1>1 DEF Outstanding
<1>3. TypeOK'
  BY <1>1 DEF QueueInv, TypeOK
<1>4. TodoExact'
  BY <1>1, <1>2 DEF QueueInv, TodoExact
<1>5. PoolCounted'
  BY <1>1, PoolCountedKept DEF QueueInv
<1>6. PlacesSound'
  <2>1. \A t \in Threads : vChecks'[t] # {} <=> pc'[t] \in {"executing", "executed"}
    BY <1>1 DEF QueueInv, PlacesSound
  <2>2. session' # "terminated" => Outstanding' \subseteq added'
    BY <1>1, <1>2 DEF QueueInv, PlacesSound
  <2> QED
    BY <2>1, <2>2 DEF PlacesSound
<1>7. FailuresTracked'
  <2>1. \A t \in Threads : pc'[t] = "executed" => pc[t] = "executed"
    OBVIOUS
  <2>2. /\ fAllOk' = FALSE => ~(added' \subseteq Good)
        /\ \A t \in Threads : vChecks'[t] # {} /\ fOk'[t] = FALSE => ~(added' \subseteq Good)
    BY <1>1 DEF QueueInv, FailuresTracked
  <2>3. ASSUME session' \in {"adding", "waiting", "destroying"}, fAllOk' = TRUE,
               NEW c \in added' \ Good
        PROVE  \/ c \in queue'
               \/ \E t \in Threads : c \in vChecks'[t] /\ (pc'[t] = "executed" => fOk'[t] = FALSE)
    <3>1. session \in {"adding", "waiting", "destroying"}
      BY <2>3
    <3> QED
      BY <2>1, <2>3, <3>1, <1>1 DEF QueueInv, FailuresTracked
  <2> QED
    BY <2>2, <2>3 DEF FailuresTracked
<1>8. SessionsIsolated'
  BY <1>1, <1>2 DEF QueueInv, SessionsIsolated
<1>9. NoLostWakeup'
  BY <1>1 DEF QueueInv, NoLostWakeup, Threads
<1>10. VerdictExact'
  BY <1>1 DEF QueueInv, VerdictExact
<1> QED
  BY <1>3, <1>4, <1>5, <1>6, <1>7, <1>8, <1>9, <1>10 DEF QueueInv

LEMMA SpuriousWakeSound ==
    ASSUME QueueInv, NEW t \in Threads, SpuriousWake(t)
    PROVE  QueueInv'
<1>1. /\ pc[t] = "waiting" /\ pc' = [pc EXCEPT ![t] = "woken"]
      /\ session' = session /\ interrupted' = interrupted /\ nInterrupts' = nInterrupts
      /\ UNCHANGED <<queueVars, vChecks, fOk, added, verdict>>
  BY DEF SpuriousWake
<1>2. /\ nInterrupts' \in Nat /\ interrupted' \subseteq Threads /\ session' \in Session
      /\ pc' \in [Threads -> Place]
  BY <1>1 DEF QueueInv, TypeOK, Place
<1>3. /\ pc'[Master] # "dead"
      /\ pc'[Master] = "out" <=> session' \notin {"waiting", "destroying"}
  BY <1>1 DEF QueueInv, TypeOK, PlacesSound, Threads
<1>4. \A u \in Threads : pc'[u] = pc[u] \/ (pc[u] = "waiting" /\ pc'[u] = "woken")
  BY <1>1 DEF QueueInv, TypeOK
<1> QED
  BY <1>1, <1>2, <1>3, <1>4, MoveSound

LEMMA WaitSound ==
    ASSUME QueueInv, NEW how \in {"waiting", "destroying"}, Wait(how)
    PROVE  QueueInv'
<1>1. /\ session = "adding" /\ session' = how /\ pc' = [pc EXCEPT ![Master] = "enter"]
      /\ interrupted' = interrupted /\ nInterrupts' = nInterrupts
      /\ UNCHANGED <<queueVars, vChecks, fOk, added, verdict>>
  BY DEF Wait
<1>2. /\ nInterrupts' \in Nat /\ interrupted' \subseteq Threads /\ session' \in Session
      /\ pc' \in [Threads -> Place]
  BY <1>1 DEF QueueInv, TypeOK, Place, Session
<1>3. pc[Master] = "out" /\ pc'[Master] = "enter"
  BY <1>1 DEF QueueInv, TypeOK, PlacesSound, Threads
<1>4. \A u \in Threads : pc'[u] = pc[u] \/ (pc[u] = "out" /\ pc'[u] = "enter")
  BY <1>1, <1>3 DEF QueueInv, TypeOK
<1> QED
  BY <1>1, <1>2, <1>3, <1>4, MoveSound

LEMMA ThrowSound ==
    ASSUME QueueInv, NEW t \in Threads, Throw(t)
    PROVE  QueueInv'
<1>1. /\ session # "terminated" /\ pc[t] \in {"waiting", "woken"}
      /\ interrupted' = interrupted \ {t} /\ nInterrupts' = nInterrupts
      /\ pc' = [pc EXCEPT ![t] = IF t # Master THEN "dead"
                                 ELSE IF session = "destroying" THEN "out" ELSE "enter"]
      /\ session' = IF t # Master THEN session
                    ELSE IF session = "destroying" THEN "terminated" ELSE "destroying"
      /\ UNCHANGED <<queueVars, vChecks, fOk, added, verdict>>
  BY DEF Throw
<1>2. /\ nInterrupts' \in Nat /\ interrupted' \subseteq Threads /\ session' \in Session
      /\ pc' \in [Threads -> Place]
  BY <1>1 DEF QueueInv, TypeOK, Place, Session
<1>3. t = Master => session \in {"waiting", "destroying"}
  BY <1>1 DEF QueueInv, PlacesSound
<1>4. Master \in Threads /\ pc \in [Threads -> Place]
  BY DEF QueueInv, TypeOK, Threads
<1>5. /\ pc'[Master] # "dead"
      /\ pc'[Master] = "out" <=> session' \notin {"waiting", "destroying"}
  BY <1>1, <1>3, <1>4 DEF QueueInv, PlacesSound
<1>6. \A u \in Threads : pc'[u] = pc[u] \/
          (pc[u] \in {"waiting", "woken"} /\ pc'[u] \in {"out", "enter", "dead"})
  BY <1>1, <1>4
<1>7. \/ session' = session
      \/ session' \in {"waiting", "destroying", "terminated"}
         /\ session \in {"adding", "waiting", "destroying"}
  BY <1>1, <1>3
<1> QED
  BY <1>1, <1>2, <1>5, <1>6, <1>7, MoveSound

LEMMA InterruptSound ==
    ASSUME QueueInv, NEW threads \in {{Master}, Workers, Threads}, Interrupt(threads)
    PROVE  QueueInv'
<1>1. /\ session' = session /\ pc' = pc
      /\ interrupted' = interrupted \cup threads /\ nInterrupts' = nInterrupts + 1
      /\ UNCHANGED <<queueVars, vChecks, fOk, added, verdict>>
  BY DEF Interrupt, loopVars
<1>2. /\ nInterrupts' \in Nat /\ interrupted' \subseteq Threads /\ session' \in Session
      /\ pc' \in [Threads -> Place]
  BY <1>1 DEF QueueInv, TypeOK, Threads
<1>3. /\ pc'[Master] # "dead"
      /\ pc'[Master] = "out" <=> session' \notin {"waiting", "destroying"}
  BY <1>1 DEF QueueInv, PlacesSound
<1> QED
  BY <1>1, <1>2, <1>3, MoveSound

\* The control object comes and goes while nothing is outstanding.
LEMMA ControlLeaveSound ==
    ASSUME QueueInv, Control \/ Leave
    PROVE  QueueInv'
<1>1. /\ queue' = queue /\ nTodo' = nTodo /\ nIdle' = nIdle /\ nTotal' = nTotal
      /\ fAllOk' = fAllOk /\ vChecks' = vChecks /\ fOk' = fOk /\ pc' = pc
      /\ added' = {} /\ interrupted' \subseteq interrupted /\ nInterrupts' = nInterrupts
  BY DEF Control, Leave, queueVars, loopVars
<1>2. /\ session \in {"none", "done"} /\ session' \in {"adding", "none"}
      /\ verdict' \in {verdict, TRUE}
  BY DEF Control, Leave
<1>3. Outstanding = {} /\ nTodo = 0 /\ fAllOk = TRUE
  BY <1>2 DEF QueueInv, SessionsIsolated
<1>4. Outstanding' = {}
  BY <1>1, <1>3 DEF Outstanding
<1>5. TypeOK'
  <2>1. verdict' \in BOOLEAN
    BY <1>2 DEF QueueInv, TypeOK
  <2>2. session' \in Session
    BY <1>2 DEF Session
  <2> QED
    BY <2>1, <2>2, <1>1 DEF QueueInv, TypeOK
<1>6. TodoExact'
  BY <1>1, <1>3, <1>4 DEF QueueInv, TodoExact
<1>7. PoolCounted'
  BY <1>1, PoolCountedKept DEF QueueInv
<1>8. PlacesSound'
  BY <1>1, <1>2, <1>4 DEF QueueInv, PlacesSound
<1>9. \A t \in Threads : vChecks'[t] = {}
  BY <1>1, <1>3, PendingMember DEF Outstanding
<1>10. FailuresTracked'
  BY <1>1, <1>3, <1>9 DEF FailuresTracked
<1>11. SessionsIsolated'
  BY <1>1, <1>3, <1>4 DEF SessionsIsolated
<1>12. NoLostWakeup'
  BY <1>1 DEF QueueInv, NoLostWakeup
<1>13. VerdictExact'
  BY <1>2 DEF VerdictExact
<1> QED
  BY <1>5, <1>6, <1>7, <1>8, <1>10, <1>11, <1>12, <1>13 DEF QueueInv

LEMMA AddSound ==
    ASSUME QueueInv, NEW new \in SUBSET Checks, Add(new)
    PROVE  QueueInv'
<1>1. /\ session = "adding" /\ new \subseteq Checks \ added
      /\ queue' = queue \cup new /\ added' = added \cup new
      /\ nTodo' = nTodo + Cardinality(new)
      /\ nIdle' = nIdle /\ nTotal' = nTotal /\ fAllOk' = fAllOk /\ vChecks' = vChecks
      /\ fOk' = fOk /\ interrupted' = interrupted /\ nInterrupts' = nInterrupts
      /\ session' = session /\ verdict' = verdict
  BY DEF Add
<1>2. PICK woken \in Woken(Cardinality(new)) :
          pc' = [t \in Threads |-> IF t \in woken THEN "woken" ELSE pc[t]]
  BY DEF Add
<1>3. woken \subseteq {w \in Workers : pc[w] = "waiting"}
  BY DEF Woken
<1>4. /\ pc' \in [Threads -> Place]
      /\ \A t \in Threads : pc'[t] = pc[t] \/ (t # Master /\ pc[t] = "waiting" /\ pc'[t] = "woken")
      /\ pc'[Master] = pc[Master]
  <2>1. Master \notin woken
    BY <1>3, QueueAssumption
  <2>2. pc \in [Threads -> Place] /\ "woken" \in Place /\ Master \in Threads
    BY DEF QueueInv, TypeOK, Place, Threads
  <2> QED
    BY <2>1, <2>2, <1>2, <1>3
<1>5. pc[Master] = "out"
  BY <1>1 DEF QueueInv, PlacesSound
<1>6. Outstanding \subseteq added
  BY <1>1 DEF QueueInv, PlacesSound
<1>7. Outstanding' = Outstanding \cup new
  <2>1. ASSUME NEW c
        PROVE  c \in Pending(queue', vChecks') <=> c \in Pending(queue, vChecks) \/ c \in new
    <3>1. c \in Pending(queue', vChecks') <=>
              c \in queue' \/ \E t \in Threads : c \in vChecks'[t]
      BY PendingMember
    <3>2. c \in Pending(queue, vChecks) <=>
              c \in queue \/ \E t \in Threads : c \in vChecks[t]
      BY PendingMember
    <3> QED
      BY <3>1, <3>2, <1>1
  <2> QED
    BY <2>1 DEF Outstanding
<1>8. /\ IsFiniteSet(Outstanding) /\ IsFiniteSet(new) /\ Cardinality(new) \in Nat
      /\ Outstanding \cap new = {}
  <2>1. IsFiniteSet(new)
    BY FS_Subset, QueueAssumption
  <2>2. IsFiniteSet(Outstanding)
    BY PendingFinite DEF QueueInv, TypeOK, Outstanding
  <2> QED
    BY <2>1, <2>2, <1>1, <1>6, FS_CardinalityType
<1>9. TypeOK'
  <2>1. nTodo' \in Nat
    BY <1>1, <1>8 DEF QueueInv, TypeOK
  <2> QED
    BY <2>1, <1>1, <1>4 DEF QueueInv, TypeOK
<1>10. TodoExact'
  <2>1. nTodo' = Cardinality(Outstanding')
    BY <1>1, <1>7, <1>8, CardinalityDisjoint DEF QueueInv, TodoExact
  <2>2. \A t \in Threads : vChecks'[t] \cap queue' = {}
    <3>1. \A t \in Threads : vChecks[t] \subseteq Outstanding
      BY PendingMember DEF Outstanding
    <3> QED
      BY <3>1, <1>1, <1>8 DEF QueueInv, TodoExact
  <2>3. \A t \in Threads : \A u \in Threads \ {t} : vChecks'[t] \cap vChecks'[u] = {}
    BY <1>1 DEF QueueInv, TodoExact
  <2> QED
    BY <2>1, <2>2, <2>3 DEF TodoExact
<1>11. PoolCounted'
  BY <1>1, <1>4, PoolCountedKept DEF QueueInv
<1>12. PlacesSound'
  <2>1. \A t \in Threads : vChecks'[t] # {} <=> pc'[t] \in {"executing", "executed"}
    BY <1>1, <1>4 DEF QueueInv, PlacesSound
  <2>2. Outstanding' \subseteq added'
    BY <1>1, <1>6, <1>7
  <2> QED
    BY <2>1, <2>2, <1>1, <1>4, <1>5 DEF PlacesSound
<1>13. FailuresTracked'
  <2>1. /\ fAllOk' = FALSE => ~(added' \subseteq Good)
        /\ \A t \in Threads : vChecks'[t] # {} /\ fOk'[t] = FALSE => ~(added' \subseteq Good)
    BY <1>1 DEF QueueInv, FailuresTracked
  <2>2. ASSUME fAllOk' = TRUE, NEW c \in added' \ Good
        PROVE  \/ c \in queue'
               \/ \E t \in Threads : c \in vChecks'[t] /\ (pc'[t] = "executed" => fOk'[t] = FALSE)
    <3>1. CASE c \in new
      BY <3>1, <1>1
    <3>2. CASE c \in added
      BY <3>2, <2>2, <1>1, <1>4 DEF QueueInv, FailuresTracked
    <3> QED
      BY <3>1, <3>2, <2>2, <1>1
  <2> QED
    BY <2>1, <2>2 DEF FailuresTracked
<1>14. SessionsIsolated'
  BY <1>1 DEF SessionsIsolated
<1>15. NoLostWakeup'
  BY <1>4, <1>5 DEF NoLostWakeup
<1>16. VerdictExact'
  BY <1>1 DEF VerdictExact
<1> QED
  BY <1>9, <1>10, <1>11, <1>12, <1>13, <1>14, <1>15, <1>16 DEF QueueInv

-----------------------------------------------------------------------------
(* Theorems                                                                 *)

LEMMA InitSound ==
    ASSUME Init
    PROVE  QueueInv
<1>1. /\ queue = {} /\ nTodo = 0 /\ nIdle = 0 /\ nTotal = 0 /\ fAllOk = TRUE
      /\ vChecks = [t \in Threads |-> {}]
      /\ pc = [t \in Threads |-> IF t = Master THEN "out" ELSE "enter"]
      /\ session = "none" /\ added = {}
  BY DEF Init
<1>2. Master \in Threads
  BY DEF Threads
<1>3. Outstanding = {}
  BY <1>1, PendingMember DEF Outstanding
<1>4. TypeOK
  BY <1>1 DEF Init, TypeOK, Place, Session
<1>5. TodoExact
  BY <1>1, <1>3, FS_EmptySet DEF TodoExact
<1>6. PoolCounted
  <2>1. Idle = {} /\ InLoop = {}
    BY <1>1 DEF Idle, InLoop
  <2> QED
    BY <2>1, <1>1, FS_EmptySet DEF PoolCounted
<1>7. PlacesSound
  BY <1>1, <1>2, <1>3 DEF PlacesSound
<1>8. FailuresTracked
  BY <1>1 DEF FailuresTracked
<1>9. SessionsIsolated /\ NoLostWakeup /\ VerdictExact
  BY <1>1, <1>2, <1>3 DEF SessionsIsolated, NoLostWakeup, VerdictExact
<1> QED
  BY <1>4, <1>5, <1>6, <1>7, <1>8, <1>9 DEF QueueInv

LEMMA StutterSound ==
    ASSUME QueueInv, UNCHANGED vars
    PROVE  QueueInv'
<1>1. /\ session' = session /\ pc' = pc
      /\ interrupted' = interrupted /\ nInterrupts' = nInterrupts
      /\ UNCHANGED <<queueVars, vChecks, fOk, added, verdict>>
  BY DEF vars, loopVars, queueVars
<1>2. /\ nInterrupts' \in Nat /\ interrupted' \subseteq Threads /\ session' \in Session
      /\ pc' \in [Threads -> Place]
  BY <1>1 DEF QueueInv, TypeOK
<1>3. /\ pc'[Master] # "dead"
      /\ pc'[Master] = "out" <=> session' \notin {"waiting", "destroying"}
  BY <1>1 DEF QueueInv, PlacesSound
<1> QED
  BY <1>1, <1>2, <1>3, MoveSound

\* The counters of CCheckQueue, the batches of its threads and the master's
\* control object are always consistent, whatever the interleaving.
THEOREM QueueInvariant == Spec => []QueueInv
<1>1. Init => QueueInv
  BY InitSound
<1>2. QueueInv /\ [Next]_vars => QueueInv'
  <2> SUFFICES ASSUME QueueInv, [Next]_vars PROVE QueueInv'
    OBVIOUS
  <2>1. ASSUME NEW t \in Threads, Step(t) PROVE QueueInv'
    <3>1. session # "terminated" /\ (Enter(t) \/ Execute(t) \/ CleanUp(t) \/ Wake(t))
      BY <2>1 DEF Step
    <3> QED
      BY <3>1, EnterSound, ExecuteSound, CleanUpSound, WakeSound
  <2>2. ASSUME NEW t \in Threads, Throw(t) PROVE QueueInv'
    BY <2>2, ThrowSound
  <2>3. ASSUME NEW t \in Threads, SpuriousWake(t) PROVE QueueInv'
    BY <2>3, SpuriousWakeSound
  <2>4. ASSUME Control \/ Leave PROVE QueueInv'
    BY <2>4, ControlLeaveSound
  <2>5. ASSUME NEW new \in SUBSET Checks, Add(new) PROVE QueueInv'
    BY <2>5, AddSound
  <2>6. ASSUME NEW how \in {"waiting", "destroying"}, Wait(how) PROVE QueueInv'
    BY <2>6, WaitSound
  <2>7. ASSUME NEW threads \in {{Master}, Workers, Threads}, Interrupt(threads) PROVE QueueInv'
    BY <2>7, InterruptSound
  <2>8. ASSUME UNCHANGED vars PROVE QueueInv'
    BY <2>8, StutterSound
  <2> QED
    BY <2>1, <2>2, <2>3, <2>4, <2>5, <2>6, <2>7, <2>8 DEF Next
<1> QED
  BY <1>1, <1>2, PTL DEF Spec

\* ConnectBlock accepts the scripts of a block exactly when all of them pass.
THEOREM VerdictAlwaysExact == Spec => []VerdictExact
<1>1. QueueInv => VerdictExact
  BY DEF QueueInv
<1> QED
  BY <1>1, QueueInvariant, PTL

\* No check, and no failure, of one block is left for the next.
THEOREM SessionsAlwaysIsolated == Spec => []SessionsIsolated
<1>1. QueueInv => SessionsIsolated
  BY DEF QueueInv
<1> QED
  BY <1>1, QueueInvariant, PTL

\* A sleeping master always has a worker left that will wake it.
THEOREM MasterNeverStranded == Spec => []NoLostWakeup
<1>1. QueueInv => NoLostWakeup
  BY DEF QueueInv
<1> QED
  BY <1>1, QueueInvariant, PTL

=============================================================================
