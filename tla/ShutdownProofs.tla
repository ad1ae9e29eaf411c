--------------------------- MODULE ShutdownProofs ---------------------------
(***************************************************************************)
(* What Shutdown() relies on, for any number of requests, HTTP workers and  *)
(* operation workers and any depth of the work queue: nothing accepted by   *)
(* the queue of operations is left behind, the work queue outlives the      *)
(* workers that were counted, every request is answered but for one that    *)
(* was put into the deleted queue, and nobody uses the coins views or the   *)
(* wallet when they go.                                                     *)
(*                                                                          *)
(* The inductive invariant has one part per component, over that            *)
(* component's variables only, and a third part for the order in which the  *)
(* main thread stops them.  A step of one component leaves the other's part *)
(* alone.                                                                   *)
(***************************************************************************)
EXTENDS Shutdown, FiniteSetTheorems, TLAPS

-----------------------------------------------------------------------------
(* The inductive invariant.                                                 *)

AsyncTypes ==
    /\ opState \in [Op -> {"none", "READY", "EXECUTING"} \cup Finished]
    /\ opMap \in SUBSET Op /\ opQueue \in Seq(Op)
    /\ closed \in BOOLEAN
    /\ workerPc \in [AsyncWorker -> {"run", "waiting", "exited", "taken", "main", "working"}]
    /\ workerOp \in [AsyncWorker -> Op \cup {NoOp}]
    /\ stopPc \in {"serving", "closed", "cancelling", "notify", "joining", "joined"}
    /\ toCancel \in SUBSET Op /\ readySeen \in Op \cup {NoOp}
    /\ seen \in [op : Op \cup {NoOp}, state : {"none", "READY", "EXECUTING"} \cup Finished]

\* A worker holds an operation exactly from taking it to the end of its main().
HeldWhileAtWork ==
    \A w \in AsyncWorker : workerOp[w] \in Op <=> workerPc[w] \in {"taken", "main", "working"}

\* Who is to give an unfinished operation of the map its outcome: the worker
\* that executes it; once the sweep of cancelAllOperations has passed it, only
\* that worker.
UnfinishedHasOwner ==
    /\ \A o \in opMap : opState[o] # "none"
    /\ \A o \in Op : opState[o] = "EXECUTING" =>
           \E w \in AsyncWorker : workerPc[w] = "working" /\ workerOp[w] = o
    /\ stopPc = "cancelling" =>
           \A o \in opMap : opState[o] = "READY" => o \in toCancel \/ o = readySeen
    /\ stopPc \in {"notify", "joining", "joined"} => \A o \in opMap : opState[o] # "READY"

ClosedForGood ==
    /\ closed <=> stopPc # "serving"
    /\ \A w \in AsyncWorker : workerPc[w] = "exited" => closed /\ opQueue = <<>>
    /\ stopPc = "joined" => \A w \in AsyncWorker : workerPc[w] = "exited"
    /\ readySeen # NoOp => stopPc = "cancelling"

AsyncInv == AsyncTypes /\ HeldWhileAtWork /\ UnfinishedHasOwner /\ ClosedForGood

HttpTypes ==
    /\ reqState \in [Req -> {"none", "dispatch", "queued", "busy", "replied", "sent", "lost", "dropped"}]
    /\ gencb \in {"request", "reject"}
    /\ evPc \in {"loop", "dispatch", "stray", "ended"} /\ evReq \in Req \cup {NoReq}
    /\ replies \in SUBSET Req /\ workQueue \in Seq(Req)
    /\ running \in BOOLEAN /\ numThreads \in Nat /\ queueGone \in BOOLEAN
    /\ hwPc \in [HttpWorker -> {"starting", "run", "busy", "late", "exited"}]
    /\ hwReq \in [HttpWorker -> Req \cup {NoReq}]
    /\ httpPc \in {"serving", "rejecting", "interrupted", "waitexit", "delete", "exit", "wait",
                   "broken", "freed"}
    /\ loopExit \in BOOLEAN

InRun == {"run", "busy", "late"}
Inside == {h \in HttpWorker : hwPc[h] \in InRun}

Gone == {"exit", "wait", "broken", "freed"}

\* How far the thread that stops the server is, in terms of what it has set.
Stages ==
    /\ gencb = "reject" <=> httpPc # "serving"
    /\ running <=> httpPc \in {"serving", "rejecting"}
    /\ queueGone <=> httpPc \in Gone
    /\ loopExit <=> httpPc \in Gone \ {"exit"}
    /\ httpPc = "freed" => evPc = "ended"

\* As long as there is a queue, numThreads counts the workers inside Run(), and once
\* WaitExit has read zero only late ones are.
WorkersCounted ==
    /\ ~queueGone => numThreads = Cardinality(Inside)
    /\ httpPc \in Gone \cup {"delete"} => \A h \in HttpWorker : hwPc[h] \notin {"run", "busy"}

\* Every request is with the thread, the queue or the event that its state says.
RequestsAccounted ==
    /\ evPc = "dispatch" => evReq \in Req
    /\ \A h \in HttpWorker : hwPc[h] = "busy" => hwReq[h] \in Req
    /\ \A r \in Req :
           /\ reqState[r] = "dispatch" => evPc \in {"dispatch", "stray"} /\ evReq = r
           /\ reqState[r] = "queued" => r \in ToSet(workQueue)
           /\ reqState[r] = "busy" => \E h \in HttpWorker : hwPc[h] = "busy" /\ hwReq[h] = r
           /\ reqState[r] = "replied" => r \in replies
    /\ evPc = "ended" => loopExit /\ replies = {}

\* The event thread takes nothing from the queue once it is deleted, and puts no more
\* into it than the request it has in its hands.
AfterDeletion ==
    /\ queueGone => workQueue = <<>>
    /\ \A r \in Req : reqState[r] = "dropped" => queueGone /\ evPc # "dispatch"
    /\ \A r, s \in Req : reqState[r] = "dropped" /\ reqState[s] = "dropped" => r = s

HttpInv == HttpTypes /\ Stages /\ WorkersCounted /\ RequestsAccounted /\ AfterDeletion

\* The order of Shutdown(): operations, HTTP server, coins views and wallet.
StopOrder ==
    /\ mainPc \in {"run", "interrupted", "stopping", "done"}
    /\ httpPc \in Gone \cup {"waitexit", "delete"} => stopPc = "joined"
    /\ mainPc = "done" => httpPc = "freed"

ShutdownInv == AsyncInv /\ HttpInv /\ StopOrder

-----------------------------------------------------------------------------
(* The queue of operations.                                                 *)

LEMMA AsyncStart == AsyncInit => AsyncInv
<1> SUFFICES ASSUME AsyncInit PROVE AsyncInv
  OBVIOUS
<1>1. AsyncTypes
  <2>1. seen \in [op : Op \cup {NoOp}, state : {"none", "READY", "EXECUTING"} \cup Finished]
    BY DEF AsyncInit, NothingSeen
  <2>2. opState \in [Op -> {"none", "READY", "EXECUTING"} \cup Finished] /\ opQueue \in Seq(Op)
    BY DEF AsyncInit
  <2>3. /\ workerPc \in [AsyncWorker -> {"run", "waiting", "exited", "taken", "main", "working"}]
        /\ workerOp \in [AsyncWorker -> Op \cup {NoOp}]
    BY DEF AsyncInit
  <2> QED
    BY <2>1, <2>2, <2>3 DEF AsyncInit, AsyncTypes
<1>2. HeldWhileAtWork /\ UnfinishedHasOwner /\ ClosedForGood
  BY AsyncAssumption DEF AsyncInit, HeldWhileAtWork, UnfinishedHasOwner, ClosedForGood
<1> QED
  BY <1>1, <1>2 DEF AsyncInv

LEMMA AsyncStutter == AsyncInv /\ UNCHANGED asyncVars => AsyncInv'
BY DEF AsyncInv, AsyncTypes, HeldWhileAtWork, UnfinishedHasOwner, ClosedForGood, asyncVars

\* Waking workers changes nothing but their waiting.
LEMMA Woken ==
    ASSUME AsyncInv, workerPc' = WokenAll \/ workerPc' \in WokenOne
    PROVE  /\ workerPc' \in [AsyncWorker -> {"run", "waiting", "exited", "taken", "main", "working"}]
           /\ \A w \in AsyncWorker :
                  \/ workerPc'[w] = workerPc[w]
                  \/ workerPc[w] = "waiting" /\ workerPc'[w] = "run"
BY DEF AsyncInv, AsyncTypes, WokenAll, WokenOne

LEMMA AddOperationKeeps ==
    ASSUME AsyncInv, NEW o \in Op, AddOperation(o)
    PROVE  AsyncInv'
<1> USE DEF AsyncInv, AddOperation
<1>1. CASE Refuses
  <2>1. AsyncTypes'
    BY <1>1 DEF AsyncTypes
  <2>2. HeldWhileAtWork'
    BY <1>1 DEF AsyncTypes, HeldWhileAtWork
  <2>3. UnfinishedHasOwner'
    BY <1>1 DEF AsyncTypes, UnfinishedHasOwner
  <2>4. ClosedForGood'
    BY <1>1 DEF AsyncTypes, ClosedForGood
  <2> QED
    BY <2>1, <2>2, <2>3, <2>4
<1>2. CASE ~Refuses
  <2>1. workerPc' \in WokenOne
    BY <1>2
  <2>2. AsyncTypes'
    <3>1. opQueue' \in Seq(Op)
      <4>1. opQueue \in Seq(Op) /\ opQueue' = Append(opQueue, o)
        BY <1>2 DEF AsyncTypes
      <4> HIDE DEF AsyncInv, AddOperation
      <4> QED
        BY <4>1
    <3>2. opState' \in [Op -> {"none", "READY", "EXECUTING"} \cup Finished] /\ opMap' \in SUBSET Op
      BY <1>2 DEF AsyncTypes
    <3> QED
      BY <2>1, <3>1, <3>2, Woken DEF AsyncTypes
  <2>3. HeldWhileAtWork'
    BY <1>2, <2>1, Woken DEF AsyncTypes, HeldWhileAtWork
  <2>4. stopPc = "serving" /\ ~closed
    BY <1>2 DEF Refuses, ClosedForGood
  <2>5. UnfinishedHasOwner'
    <3>1. \A p \in Op : opState'[p] = "EXECUTING" => opState[p] = "EXECUTING"
      BY DEF AsyncTypes
    <3>2. \A w \in AsyncWorker : workerPc[w] = "working" => workerPc'[w] = "working"
      BY <2>1, Woken
    <3>3. \A p \in opMap' : opState'[p] # "none"
      BY <1>2 DEF AsyncTypes, UnfinishedHasOwner
    <3> QED
      BY <2>4, <3>1, <3>2, <3>3 DEF UnfinishedHasOwner
  <2>6. ClosedForGood'
    <3>1. \A w \in AsyncWorker : workerPc'[w] # "exited"
      BY <2>1, <2>4, Woken DEF ClosedForGood
    <3> QED
      BY <2>4, <3>1 DEF ClosedForGood
  <2> QED
    BY <2>2, <2>3, <2>5, <2>6
<1> QED
  BY <1>1, <1>2

LEMMA LookupsKeep ==
    ASSUME AsyncInv,
           (\E o \in Op : GetStatus(o)) \/ (\E fRemove \in BOOLEAN : PopFinished(fRemove))
    PROVE  AsyncInv'
<1>1. /\ UNCHANGED <<opState, opQueue, closed, workerPc, workerOp, stopPc, toCancel, readySeen>>
      /\ opMap' \subseteq opMap
  BY DEF GetStatus, PopFinished
<1>2. seen' \in [op : Op \cup {NoOp}, state : {"none", "READY", "EXECUTING"} \cup Finished]
  BY DEF GetStatus, PopFinished, NothingSeen, AsyncInv, AsyncTypes
<1>3. AsyncTypes'
  BY <1>1, <1>2 DEF AsyncInv, AsyncTypes
<1>4. HeldWhileAtWork' /\ UnfinishedHasOwner' /\ ClosedForGood'
  BY <1>1 DEF AsyncInv, HeldWhileAtWork, UnfinishedHasOwner, ClosedForGood
<1> QED
  BY <1>3, <1>4 DEF AsyncInv

LEMMA AsyncWorkKeeps ==
    ASSUME AsyncInv, NEW w \in AsyncWorker, AsyncWork(w)
    PROVE  AsyncInv'
<1> USE DEF AsyncInv
<1>1. CASE RunWait(w)
  <2>1. AsyncTypes'
    BY <1>1 DEF RunWait, AsyncTypes
  <2>2. HeldWhileAtWork' /\ UnfinishedHasOwner' /\ ClosedForGood'
    BY <1>1 DEF RunWait, AsyncTypes, HeldWhileAtWork, UnfinishedHasOwner, ClosedForGood
  <2> QED
    BY <2>1, <2>2
<1>2. CASE RunExit(w)
  <2>1. AsyncTypes'
    BY <1>2 DEF RunExit, Drained, AsyncTypes
  <2>2. HeldWhileAtWork' /\ UnfinishedHasOwner'
    BY <1>2 DEF RunExit, AsyncTypes, HeldWhileAtWork, UnfinishedHasOwner
  <2>3. ClosedForGood'
    BY <1>2 DEF RunExit, Drained, AsyncTypes, ClosedForGood
  <2> QED
    BY <2>1, <2>2, <2>3
<1>3. CASE RunTake(w)
  <2>0. Head(opQueue) \in Op /\ Tail(opQueue) \in Seq(Op)
    BY <1>3 DEF RunTake, AsyncTypes
  <2>1. AsyncTypes'
    BY <1>3, <2>0 DEF RunTake, AsyncTypes
  <2>2. HeldWhileAtWork'
    BY <1>3, <2>0 DEF RunTake, AsyncTypes, HeldWhileAtWork
  <2>3. UnfinishedHasOwner'
    BY <1>3, <2>0 DEF RunTake, AsyncTypes, UnfinishedHasOwner
  <2>4. ClosedForGood'
    BY <1>3, <2>0 DEF RunTake, AsyncTypes, ClosedForGood
  <2> QED
    BY <2>1, <2>2, <2>3, <2>4
<1>4. CASE RunCheck(w)
  <2>1. AsyncTypes'
    BY <1>4 DEF RunCheck, AsyncTypes
  <2>2. HeldWhileAtWork'
    BY <1>4, AsyncAssumption DEF RunCheck, AsyncTypes, HeldWhileAtWork
  <2>3. UnfinishedHasOwner' /\ ClosedForGood'
    BY <1>4 DEF RunCheck, AsyncTypes, UnfinishedHasOwner, ClosedForGood
  <2> QED
    BY <2>1, <2>2, <2>3
<1>5. CASE MainStart(w)
  <2>0. workerOp[w] \in Op
    BY <1>5 DEF MainStart, HeldWhileAtWork
  <2>1. AsyncTypes'
    BY <1>5 DEF MainStart, AsyncTypes
  <2>2. HeldWhileAtWork' /\ ClosedForGood'
    BY <1>5 DEF MainStart, AsyncTypes, HeldWhileAtWork, ClosedForGood
  <2>3. UnfinishedHasOwner'
    BY <1>5, <2>0 DEF MainStart, AsyncTypes, UnfinishedHasOwner
  <2> QED
    BY <2>1, <2>2, <2>3
<1>6. CASE MainEnd(w)
  <2>0. workerOp[w] \in Op
    BY <1>6 DEF MainEnd, HeldWhileAtWork
  <2>1. AsyncTypes'
    <3>1. opState' \in [Op -> {"none", "READY", "EXECUTING"} \cup Finished]
      BY <1>6 DEF MainEnd, AsyncTypes, Finished
    <3>2. workerOp' \in [AsyncWorker -> Op \cup {NoOp}]
      BY <1>6 DEF MainEnd, AsyncTypes
    <3>3. workerPc' \in [AsyncWorker -> {"run", "waiting", "exited", "taken", "main", "working"}]
      BY <1>6 DEF MainEnd, AsyncTypes
    <3> QED
      BY <1>6, <3>1, <3>2, <3>3 DEF MainEnd, AsyncTypes
  <2>2. HeldWhileAtWork' /\ ClosedForGood'
    BY <1>6, AsyncAssumption DEF MainEnd, AsyncTypes, HeldWhileAtWork, ClosedForGood
  <2>3. UnfinishedHasOwner'
    BY <1>6, <2>0 DEF MainEnd, AsyncTypes, UnfinishedHasOwner
  <2> QED
    BY <2>1, <2>2, <2>3
<1> QED
  BY <1>1, <1>2, <1>3, <1>4, <1>5, <1>6 DEF AsyncWork

LEMMA StopAsyncKeeps ==
    ASSUME AsyncInv, Close \/ StopStep
    PROVE  AsyncInv'
<1> USE DEF AsyncInv
<1>1. CASE Close
  BY <1>1 DEF Close, AsyncTypes, HeldWhileAtWork, UnfinishedHasOwner, ClosedForGood
<1>2. CASE CancelAllOperations
  BY <1>2 DEF CancelAllOperations, AsyncTypes, HeldWhileAtWork, UnfinishedHasOwner, ClosedForGood
<1>3. ASSUME NEW o \in Op, CancelRead(o) PROVE AsyncInv'
  <2>1. AsyncTypes'
    BY <1>3 DEF CancelRead, AsyncTypes
  <2>2. HeldWhileAtWork'
    BY <1>3 DEF CancelRead, HeldWhileAtWork
  <2>4. UnfinishedHasOwner'
    BY <1>3, AsyncAssumption DEF CancelRead, AsyncTypes, UnfinishedHasOwner
  <2>3. ClosedForGood'
    BY <1>3 DEF CancelRead, AsyncTypes, ClosedForGood
  <2> QED
    BY <2>1, <2>2, <2>3, <2>4
<1>4. CASE CancelWrite
  <2>1. AsyncTypes'
    BY <1>4 DEF CancelWrite, AsyncTypes, Finished
  <2>2. HeldWhileAtWork' /\ ClosedForGood'
    BY <1>4 DEF CancelWrite, AsyncTypes, HeldWhileAtWork, ClosedForGood
  <2>3. UnfinishedHasOwner'
    BY <1>4 DEF CancelWrite, AsyncTypes, UnfinishedHasOwner
  <2> QED
    BY <2>1, <2>2, <2>3
<1>5. CASE NotifyAll
  <2>0. workerPc' = WokenAll
    BY <1>5 DEF NotifyAll
  <2>1. AsyncTypes'
    BY <1>5, <2>0, Woken DEF NotifyAll, AsyncTypes
  <2>2. HeldWhileAtWork'
    BY <1>5, <2>0, Woken DEF NotifyAll, AsyncTypes, HeldWhileAtWork
  <2>3. UnfinishedHasOwner'
    BY <1>5, <2>0, Woken, AsyncAssumption DEF NotifyAll, AsyncTypes, UnfinishedHasOwner
  <2>4. ClosedForGood'
    BY <1>5, <2>0, Woken DEF NotifyAll, AsyncTypes, ClosedForGood
  <2> QED
    BY <2>1, <2>2, <2>3, <2>4
<1>6. CASE Join
  BY <1>6 DEF Join, AsyncTypes, HeldWhileAtWork, UnfinishedHasOwner, ClosedForGood
<1> QED
  BY <1>1, <1>2, <1>3, <1>4, <1>5, <1>6 DEF StopStep

-----------------------------------------------------------------------------
(* The HTTP server.                                                         *)

LEMMA HttpStart == HttpInit => HttpInv
<1> SUFFICES ASSUME HttpInit PROVE HttpInv
  OBVIOUS
<1>1. HttpTypes
  <2>1. reqState \in [Req -> {"none", "dispatch", "queued", "busy", "replied", "sent", "lost", "dropped"}]
    BY DEF HttpInit
  <2>2. /\ hwPc \in [HttpWorker -> {"starting", "run", "busy", "late", "exited"}]
        /\ hwReq \in [HttpWorker -> Req \cup {NoReq}]
    BY DEF HttpInit
  <2>3. workQueue \in Seq(Req)
    BY DEF HttpInit
  <2> QED
    BY <2>1, <2>2, <2>3 DEF HttpInit, HttpTypes
<1>2. Stages /\ RequestsAccounted /\ AfterDeletion
  BY DEF HttpInit, Stages, Gone, RequestsAccounted, AfterDeletion
<1>3. WorkersCounted
  <2>1. Inside = {}
    BY DEF HttpInit, Inside, InRun
  <2> QED
    BY <2>1, FS_EmptySet DEF HttpInit, WorkersCounted, Gone
<1> QED
  BY <1>1, <1>2, <1>3 DEF HttpInv

LEMMA HttpStutter == HttpInv /\ UNCHANGED httpVars => HttpInv'
BY DEF HttpInv, HttpTypes, Stages, WorkersCounted, Inside, RequestsAccounted, AfterDeletion, httpVars

\* Inside is finite, whatever the workers do.
LEMMA InsideFinite ==
    /\ IsFiniteSet(Inside) /\ Cardinality(Inside) \in Nat
    /\ Cardinality(Inside) = 0 <=> Inside = {}
<1>1. IsFiniteSet(Inside)
  BY FS_Subset, HttpAssumption DEF Inside
<1> QED
  BY <1>1, FS_CardinalityType, FS_EmptySet

LEMMA AppendedSet ==
    ASSUME NEW q \in Seq(Req), NEW r \in Req
    PROVE  ToSet(Append(q, r)) = ToSet(q) \cup {r}
<1>1. DOMAIN Append(q, r) = DOMAIN q \cup {Len(q) + 1}
  OBVIOUS
<1>2. Append(q, r)[Len(q) + 1] = r /\ \A i \in DOMAIN q : Append(q, r)[i] = q[i]
  OBVIOUS
<1> QED
  BY <1>1, <1>2 DEF ToSet

LEMMA TakenSet ==
    ASSUME NEW q \in Seq(Req), q # <<>>
    PROVE  /\ Head(q) \in Req /\ Tail(q) \in Seq(Req)
           /\ \A r \in ToSet(q) : r = Head(q) \/ r \in ToSet(Tail(q))
<1>1. Head(q) \in Req /\ Tail(q) \in Seq(Req)
  OBVIOUS
<1>2. ASSUME NEW r \in ToSet(q), r # Head(q) PROVE r \in ToSet(Tail(q))
  <2>1. PICK i \in DOMAIN q : q[i] = r
    BY DEF ToSet
  <2>2. i \in 1..Len(q) /\ i # 1
    BY <2>1, <1>2
  <2>3. i - 1 \in 1..Len(Tail(q)) /\ Tail(q)[i - 1] = r
    BY <2>1, <2>2
  <2>4. i - 1 \in DOMAIN Tail(q)
    BY <2>3, <1>1
  <2> QED
    BY <2>3, <2>4 DEF ToSet
<1> QED
  BY <1>1, <1>2

LEMMA EventsKeep ==
    ASSUME HttpInv, EventStep
    PROVE  HttpInv'
<1> USE DEF HttpInv
<1>1. ASSUME NEW r \in Req, RequestArrives(r) PROVE HttpInv'
  <2>1. HttpTypes'
    BY <1>1 DEF RequestArrives, HttpTypes
  <2>2. Stages' /\ AfterDeletion'
    BY <1>1 DEF RequestArrives, HttpTypes, Stages, Gone, AfterDeletion
  <2>3. WorkersCounted'
    BY <1>1 DEF RequestArrives, WorkersCounted, Inside
  <2>4. RequestsAccounted'
    <3>1. CASE reqState' = [reqState EXCEPT ![r] = "sent"] /\ UNCHANGED <<evPc, evReq, replies>>
      BY <1>1, <3>1 DEF RequestArrives, HttpTypes, RequestsAccounted
    <3>2. CASE evPc' = "dispatch" /\ evReq' = r /\ reqState' = [reqState EXCEPT ![r] = "dispatch"]
      BY <1>1, <3>2 DEF RequestArrives, HttpTypes, RequestsAccounted
    <3>3. CASE /\ reqState' = [reqState EXCEPT ![r] = "replied"] /\ replies' = replies \cup {r}
               /\ UNCHANGED <<evPc, evReq>>
      BY <1>1, <3>3 DEF RequestArrives, HttpTypes, RequestsAccounted
    <3> QED
      BY <1>1, <3>1, <3>2, <3>3 DEF RequestArrives
  <2> QED
    BY <2>1, <2>2, <2>3, <2>4
<1>2. CASE Enqueue
  <2>0. evReq \in Req
    BY <1>2 DEF Enqueue, RequestsAccounted
  <2>1. CASE Full
    <3>1. HttpTypes'
      BY <1>2, <2>0, <2>1 DEF Enqueue, HttpTypes
    <3>2. Stages' /\ AfterDeletion'
      BY <1>2, <2>1 DEF Enqueue, HttpTypes, Stages, Gone, AfterDeletion
    <3>3. WorkersCounted'
      BY <1>2 DEF Enqueue, WorkersCounted, Inside
    <3>4. RequestsAccounted'
      BY <1>2, <2>0, <2>1 DEF Enqueue, HttpTypes, RequestsAccounted
    <3> QED
      BY <3>1, <3>2, <3>3, <3>4
  <2>2. CASE ~Full
    <3>0. workQueue' = Append(workQueue, evReq) /\ workQueue' \in Seq(Req)
      <4>1. workQueue' = Append(workQueue, evReq)
        BY <1>2, <2>2 DEF Enqueue
      <4> QED
        BY <4>1, <2>0 DEF HttpTypes
    <3>1. HttpTypes'
      BY <1>2, <2>0, <2>2, <3>0 DEF Enqueue, HttpTypes
    <3>2. Stages' /\ AfterDeletion'
      BY <1>2, <2>2 DEF Enqueue, HttpTypes, Stages, Gone, AfterDeletion
    <3>3. WorkersCounted'
      BY <1>2 DEF Enqueue, WorkersCounted, Inside
    <3>4. RequestsAccounted'
      <4>1. ToSet(workQueue') = ToSet(workQueue) \cup {evReq}
        BY <2>0, <3>0, AppendedSet DEF HttpTypes
      <4> QED
        BY <1>2, <2>0, <2>2, <4>1 DEF Enqueue, HttpTypes, RequestsAccounted
    <3> QED
      BY <3>1, <3>2, <3>3, <3>4
  <2> QED
    BY <2>1, <2>2
<1>3. ASSUME NEW r \in Req, SendReply(r) PROVE HttpInv'
  <2>1. HttpTypes'
    BY <1>3 DEF SendReply, HttpTypes
  <2>2. Stages' /\ AfterDeletion'
    BY <1>3 DEF SendReply, HttpTypes, Stages, Gone, AfterDeletion
  <2>3. WorkersCounted'
    BY <1>3 DEF SendReply, WorkersCounted, Inside
  <2>4. RequestsAccounted'
    BY <1>3 DEF SendReply, HttpTypes, RequestsAccounted
  <2> QED
    BY <2>1, <2>2, <2>3, <2>4
<1>4. CASE EnqueueDeleted
  <2>0. evReq \in Req /\ evPc # "ended"
    BY <1>4 DEF EnqueueDeleted, RequestsAccounted
  <2>1. HttpTypes'
    BY <1>4, <2>0 DEF EnqueueDeleted, HttpTypes
  <2>2. Stages' /\ WorkersCounted'
    BY <1>4 DEF EnqueueDeleted, HttpTypes, Stages, Gone, WorkersCounted, Inside
  <2>3. RequestsAccounted'
    BY <1>4, <2>0 DEF EnqueueDeleted, HttpTypes, RequestsAccounted
  <2>4. AfterDeletion'
    <3>1. \A r \in Req : reqState[r] # "dropped"
      BY <1>4 DEF EnqueueDeleted, AfterDeletion
    <3> QED
      BY <1>4, <2>0, <3>1 DEF EnqueueDeleted, HttpTypes, AfterDeletion
  <2> QED
    BY <2>1, <2>2, <2>3, <2>4
<1>5. CASE LoopEnds
  <2>1. HttpTypes' /\ Stages' /\ AfterDeletion'
    BY <1>5 DEF LoopEnds, HttpTypes, Stages, Gone, AfterDeletion
  <2>2. WorkersCounted'
    BY <1>5 DEF LoopEnds, WorkersCounted, Inside
  <2>3. RequestsAccounted'
    BY <1>5 DEF LoopEnds, HttpTypes, RequestsAccounted
  <2> QED
    BY <2>1, <2>2, <2>3
<1> QED
  BY <1>1, <1>2, <1>3, <1>4, <1>5 DEF EventStep

\* A worker that enters or leaves Run() changes the count by one.
LEMMA CountedStep ==
    ASSUME HttpInv, NEW h \in HttpWorker, NEW p \in {"starting", "run", "busy", "late", "exited"},
           hwPc' = [hwPc EXCEPT ![h] = p]
    PROVE  /\ hwPc[h] \in InRun /\ p \in InRun =>
                  Cardinality(Inside') = Cardinality(Inside)
           /\ hwPc[h] \notin InRun /\ p \in InRun =>
                  Cardinality(Inside') = Cardinality(Inside) + 1
           /\ hwPc[h] \in InRun /\ p \notin InRun =>
                  Cardinality(Inside') = Cardinality(Inside) - 1
<1>1. IsFiniteSet(Inside)
  BY InsideFinite
<1>2. ASSUME hwPc[h] \in InRun, p \in InRun PROVE Inside' = Inside
  BY <1>2 DEF HttpInv, HttpTypes, Inside
<1>3. ASSUME hwPc[h] \notin InRun, p \in InRun
      PROVE  Inside' = Inside \cup {h} /\ h \notin Inside
  BY <1>3 DEF HttpInv, HttpTypes, Inside
<1>4. ASSUME hwPc[h] \in InRun, p \notin InRun
      PROVE  Inside' = Inside \ {h} /\ h \in Inside
  BY <1>4 DEF HttpInv, HttpTypes, Inside
<1>5. hwPc[h] \notin InRun /\ p \in InRun =>
          Cardinality(Inside') = Cardinality(Inside) + 1
  BY <1>1, <1>3, FS_AddElement
<1>6. hwPc[h] \in InRun /\ p \notin InRun =>
          Cardinality(Inside') = Cardinality(Inside) - 1
  BY <1>1, <1>4, FS_RemoveElement
<1> QED
  BY <1>2, <1>5, <1>6

LEMMA WorkerKeeps ==
    ASSUME HttpInv, NEW h \in HttpWorker,
           \/ WorkerEnters(h) \/ WorkerWaits(h) \/ WorkerTakes(h) \/ WorkerExits(h)
           \/ WorkerReplies(h) \/ StrayLeaves(h)
    PROVE  HttpInv'
<1> USE DEF HttpInv
<1>1. CASE WorkerEnters(h)
  <2>1. HttpTypes'
    BY <1>1 DEF WorkerEnters, HttpTypes
  <2>2. Stages'
    BY <1>1 DEF WorkerEnters, Stages
  <2>3. AfterDeletion'
    BY <1>1 DEF WorkerEnters, HttpTypes, AfterDeletion
  <2>4. WorkersCounted'
    <3>1. Cardinality(Inside') = Cardinality(Inside) + 1
      BY <1>1, CountedStep DEF WorkerEnters, InRun
    <3> QED
      BY <1>1, <3>1 DEF WorkerEnters, WaitExitOver, HttpTypes, WorkersCounted, Gone
  <2>5. RequestsAccounted'
    BY <1>1 DEF WorkerEnters, HttpTypes, RequestsAccounted
  <2> QED
    BY <2>1, <2>2, <2>3, <2>4, <2>5
<1>2. CASE WorkerWaits(h)
  BY <1>2 DEF WorkerWaits, HttpTypes, Stages, WorkersCounted, Inside, RequestsAccounted, AfterDeletion
<1>3. CASE WorkerTakes(h)
  <2>0. /\ Head(workQueue) \in Req /\ Tail(workQueue) \in Seq(Req)
        /\ \A r \in ToSet(workQueue) : r = Head(workQueue) \/ r \in ToSet(Tail(workQueue))
    BY <1>3, TakenSet DEF WorkerTakes, HttpTypes
  <2>1. HttpTypes'
    BY <1>3, <2>0 DEF WorkerTakes, HttpTypes
  <2>2. Stages'
    BY <1>3 DEF WorkerTakes, Stages
  <2>3. httpPc \in {"serving", "rejecting"}
    BY <1>3 DEF WorkerTakes, Stages
  <2>4. WorkersCounted'
    <3>1. Cardinality(Inside') = Cardinality(Inside)
      BY <1>3, CountedStep DEF WorkerTakes, InRun
    <3> QED
      BY <1>3, <2>3, <3>1 DEF WorkerTakes, HttpTypes, WorkersCounted, Gone
  <2>5. AfterDeletion'
    BY <1>3, <2>3 DEF WorkerTakes, HttpTypes, AfterDeletion, Stages, Gone
  <2>6. RequestsAccounted'
    BY <1>3, <2>0 DEF WorkerTakes, HttpTypes, RequestsAccounted
  <2> QED
    BY <2>1, <2>2, <2>4, <2>5, <2>6
<1>4. CASE WorkerExits(h)
  <2>0. /\ Cardinality(Inside') = Cardinality(Inside) - 1 /\ Cardinality(Inside) # 0
        /\ ~queueGone
    <3>1. h \in Inside
      BY <1>4 DEF WorkerExits, Inside, InRun
    <3>2. ~queueGone
      BY <1>4 DEF WorkerExits, WorkersCounted, Stages
    <3> QED
      BY <1>4, <3>1, <3>2, CountedStep, InsideFinite DEF WorkerExits, Inside, InRun
  <2>1. HttpTypes'
    BY <1>4, <2>0, InsideFinite DEF WorkerExits, HttpTypes, WorkersCounted
  <2>2. Stages' /\ AfterDeletion'
    BY <1>4 DEF WorkerExits, HttpTypes, Stages, AfterDeletion
  <2>3. WorkersCounted'
    BY <1>4, <2>0 DEF WorkerExits, HttpTypes, WorkersCounted
  <2>4. RequestsAccounted'
    BY <1>4 DEF WorkerExits, HttpTypes, RequestsAccounted
  <2> QED
    BY <2>1, <2>2, <2>3, <2>4
<1>5. CASE WorkerReplies(h)
  <2>0. hwReq[h] \in Req
    BY <1>5 DEF WorkerReplies, RequestsAccounted
  <2>1. HttpTypes'
    BY <1>5, <2>0 DEF WorkerReplies, HttpTypes
  <2>2. Stages'
    BY <1>5 DEF WorkerReplies, Stages
  <2>3. WorkersCounted'
    <3>1. Cardinality(Inside') = Cardinality(Inside)
      BY <1>5, CountedStep DEF WorkerReplies, InRun
    <3> QED
      BY <1>5, <3>1 DEF WorkerReplies, HttpTypes, WorkersCounted
  <2>4. httpPc \notin Gone \cup {"delete"}
    BY <1>5 DEF WorkerReplies, WorkersCounted
  <2>5. AfterDeletion'
    BY <1>5, <2>4 DEF WorkerReplies, HttpTypes, AfterDeletion, Stages
  <2>6. evPc # "ended"
    BY <2>4 DEF RequestsAccounted, Stages
  <2>7. RequestsAccounted'
    BY <1>5, <2>0, <2>6 DEF WorkerReplies, HttpTypes, RequestsAccounted
  <2> QED
    BY <2>1, <2>2, <2>3, <2>5, <2>7
<1>6. CASE StrayLeaves(h)
  BY <1>6 DEF StrayLeaves, HttpTypes, Stages, WorkersCounted, RequestsAccounted, AfterDeletion
<1> QED
  BY <1>1, <1>2, <1>3, <1>4, <1>5, <1>6

LEMMA InterruptKeeps ==
    ASSUME HttpInv, Reject \/ Interrupt
    PROVE  HttpInv'
<1> USE DEF HttpInv
<1>1. CASE Reject
  <2>1. HttpTypes' /\ Stages'
    BY <1>1 DEF Reject, HttpTypes, Stages, Gone
  <2>2. AfterDeletion'
    BY <1>1 DEF Reject, AfterDeletion, Stages, Gone
  <2>3. WorkersCounted' /\ RequestsAccounted'
    BY <1>1 DEF Reject, WorkersCounted, RequestsAccounted, Inside, Gone
  <2> QED
    BY <2>1, <2>2, <2>3
<1>2. CASE Interrupt
  <2>1. HttpTypes' /\ Stages'
    BY <1>2 DEF Interrupt, HttpTypes, Stages, Gone
  <2>2. AfterDeletion'
    BY <1>2 DEF Interrupt, AfterDeletion, Stages, Gone
  <2>3. WorkersCounted' /\ RequestsAccounted'
    BY <1>2 DEF Interrupt, WorkersCounted, RequestsAccounted, Inside, Gone
  <2> QED
    BY <2>1, <2>2, <2>3
<1> QED
  BY <1>1, <1>2

LEMMA StopHTTPKeeps ==
    ASSUME HttpInv, WaitExit \/ DeleteQueue \/ LoopExit \/ LoopBreak \/ FreeHTTP
    PROVE  HttpInv'
<1> USE DEF HttpInv
<1>1. CASE WaitExit
  <2>1. HttpTypes' /\ Stages' /\ RequestsAccounted'
    BY <1>1 DEF WaitExit, HttpTypes, Stages, RequestsAccounted, Gone
  <2>2. ~WorkersInside => Inside = {}
    BY <1>1, InsideFinite DEF WaitExit, WorkersInside, WorkersCounted, Stages, Gone
  <2>3. WorkersCounted' /\ AfterDeletion'
    BY <1>1, <2>2 DEF WaitExit, HttpTypes, Stages, WorkersCounted, AfterDeletion, Inside, InRun, Gone
  <2> QED
    BY <2>1, <2>3
<1>2. CASE DeleteQueue
  <2>0. Unhandled(workQueue) = ToSet(workQueue) /\ ToSet(workQueue) \subseteq Req
    BY DEF Unhandled, HttpTypes, ToSet
  <2>1. HttpTypes'
    BY <1>2, <2>0 DEF DeleteQueue, HttpTypes
  <2>2. Stages' /\ AfterDeletion'
    BY <1>2 DEF DeleteQueue, HttpTypes, Stages, AfterDeletion, Gone
  <2>3. WorkersCounted'
    BY <1>2 DEF DeleteQueue, WorkersCounted, Inside, Gone
  <2>4. evPc # "ended"
    BY <1>2 DEF DeleteQueue, RequestsAccounted, Stages, Gone
  <2>5. RequestsAccounted'
    BY <1>2, <2>0, <2>4 DEF DeleteQueue, HttpTypes, RequestsAccounted
  <2> QED
    BY <2>1, <2>2, <2>3, <2>5
<1>3. CASE LoopExit
  <2>1. HttpTypes' /\ Stages' /\ AfterDeletion'
    BY <1>3 DEF LoopExit, HttpTypes, Stages, AfterDeletion, Gone
  <2>2. WorkersCounted' /\ RequestsAccounted'
    BY <1>3 DEF LoopExit, WorkersCounted, RequestsAccounted, Inside, Gone
  <2> QED
    BY <2>1, <2>2
<1>4. CASE LoopBreak
  <2>1. HttpTypes' /\ Stages' /\ AfterDeletion'
    BY <1>4 DEF LoopBreak, HttpTypes, Stages, AfterDeletion, Gone
  <2>2. WorkersCounted'
    BY <1>4 DEF LoopBreak, WorkersCounted, Inside, Gone
  <2>3. RequestsAccounted'
    BY <1>4 DEF LoopBreak, HttpTypes, Stages, Gone, RequestsAccounted
  <2> QED
    BY <2>1, <2>2, <2>3
<1>5. CASE FreeHTTP
  <2>1. HttpTypes' /\ Stages' /\ AfterDeletion'
    BY <1>5 DEF FreeHTTP, HttpTypes, Stages, AfterDeletion, Gone
  <2>2. WorkersCounted' /\ RequestsAccounted'
    BY <1>5 DEF FreeHTTP, WorkersCounted, RequestsAccounted, Inside, Gone
  <2> QED
    BY <2>1, <2>2
<1> QED
  BY <1>1, <1>2, <1>3, <1>4, <1>5

-----------------------------------------------------------------------------
(* The composition.                                                         *)

LEMMA StopOrderStutter ==
    StopOrder /\ UNCHANGED <<mainPc, httpPc, stopPc>> => StopOrder'
BY DEF StopOrder

LEMMA HttpWorkKeeps ==
    ASSUME ShutdownInv, NEW h \in HttpWorker, HttpWork(h)
    PROVE  ShutdownInv'
<1> USE DEF ShutdownInv
<1>1. CASE /\ WorkerEnters(h) \/ WorkerWaits(h) \/ WorkerTakes(h) \/ WorkerExits(h)
           /\ UNCHANGED <<asyncVars, ownVars>>
  <2>1. UNCHANGED asyncVars /\ UNCHANGED <<mainPc, httpPc, stopPc>>
    BY <1>1 DEF WorkerEnters, WorkerWaits, WorkerTakes, WorkerExits, asyncVars, ownVars
  <2> QED
    BY <1>1, <2>1, WorkerKeeps, AsyncStutter, StopOrderStutter
<1>2. CASE RpcRejected(h) \/ RpcPoll(h)
  <2>1. UNCHANGED httpVars /\ UNCHANGED asyncVars /\ UNCHANGED mainPc
    BY <1>2 DEF RpcRejected, RpcPoll
  <2>2. UNCHANGED <<mainPc, httpPc, stopPc>>
    BY <2>1 DEF httpVars, asyncVars
  <2> QED
    BY <2>1, <2>2, HttpStutter, AsyncStutter, StopOrderStutter
<1>3. CASE RpcSend(h)
  <2>1. hwReq[h] \in Op
    BY <1>3, ShutdownAssumption DEF RpcSend, Executes, HttpInv, RequestsAccounted
  <2>2. UNCHANGED httpVars /\ UNCHANGED mainPc /\ AddOperation(hwReq[h])
    BY <1>3 DEF RpcSend
  <2>3. UNCHANGED <<mainPc, httpPc, stopPc>>
    BY <2>2 DEF httpVars, AddOperation
  <2> QED
    BY <2>1, <2>2, <2>3, HttpStutter, AddOperationKeeps, StopOrderStutter
<1>4. CASE RpcLook(h) \/ RpcPop(h)
  <2>1. /\ UNCHANGED httpVars /\ UNCHANGED mainPc
        /\ (\E o \in Op : GetStatus(o)) \/ (\E fRemove \in BOOLEAN : PopFinished(fRemove))
    BY <1>4 DEF RpcLook, RpcPop
  <2>2. UNCHANGED <<mainPc, httpPc, stopPc>>
    BY <2>1 DEF httpVars, GetStatus, PopFinished
  <2> QED
    BY <2>1, <2>2, HttpStutter, LookupsKeep, StopOrderStutter
<1>5. CASE RpcReply(h)
  <2>1. WorkerReplies(h) /\ UNCHANGED asyncVars /\ UNCHANGED mainPc
    BY <1>5 DEF RpcReply
  <2>2. UNCHANGED <<mainPc, httpPc, stopPc>>
    BY <2>1 DEF WorkerReplies, asyncVars
  <2> QED
    BY <2>1, <2>2, WorkerKeeps, AsyncStutter, StopOrderStutter
<1> QED
  BY <1>1, <1>2, <1>3, <1>4, <1>5 DEF HttpWork

LEMMA MainStopKeeps ==
    ASSUME ShutdownInv, MainStop
    PROVE  ShutdownInv'
<1> USE DEF ShutdownInv
<1>1. CASE MainInterruptHTTP
  <2>1. (Reject \/ Interrupt) /\ UNCHANGED asyncVars /\ UNCHANGED <<mainPc, stopPc>>
    BY <1>1 DEF MainInterruptHTTP, asyncVars, ownVars
  <2>2. StopOrder'
    BY <2>1 DEF Reject, Interrupt, StopOrder, Gone
  <2> QED
    BY <2>1, <2>2, InterruptKeeps, AsyncStutter
<1>2. CASE InterruptRPC \/ Stopped
  <2>1. UNCHANGED httpVars /\ UNCHANGED asyncVars
    BY <1>2 DEF InterruptRPC, Stopped
  <2>2. StopOrder'
    BY <1>2, <2>1 DEF InterruptRPC, Stopped, StopOrder, httpVars, asyncVars
  <2> QED
    BY <2>1, <2>2, HttpStutter, AsyncStutter
<1>3. CASE MainStopAsync
  <2>1. (Close \/ StopStep) /\ UNCHANGED httpVars /\ UNCHANGED <<mainPc, httpPc>>
    BY <1>3 DEF MainStopAsync, ownVars, httpVars
  <2>2. stopPc # "joined"
    BY <2>1, AsyncAssumption DEF Close, StopStep, CancelAllOperations, CancelRead, CancelWrite,
        NotifyAll, Join, AsyncInv, ClosedForGood
  <2>3. StopOrder'
    BY <2>1, <2>2 DEF StopOrder
  <2> QED
    BY <2>1, <2>3, HttpStutter, StopAsyncKeeps
<1>4. CASE MainStopHTTP
  <2>1. /\ WaitExit \/ DeleteQueue \/ LoopExit \/ LoopBreak \/ FreeHTTP
        /\ UNCHANGED asyncVars /\ UNCHANGED <<mainPc, stopPc>>
        /\ mainPc = "stopping" /\ stopPc = "joined"
    BY <1>4 DEF MainStopHTTP, AsyncStopped, asyncVars, ownVars
  <2>2. StopOrder'
    BY <2>1 DEF StopOrder
  <2> QED
    BY <2>1, <2>2, StopHTTPKeeps, AsyncStutter
<1>5. CASE DeleteAll
  <2>1. UNCHANGED httpVars /\ UNCHANGED asyncVars
    BY <1>5 DEF DeleteAll
  <2>2. StopOrder'
    BY <1>5, <2>1 DEF DeleteAll, ServersStopped, StopOrder, httpVars, asyncVars
  <2> QED
    BY <2>1, <2>2, HttpStutter, AsyncStutter
<1> QED
  BY <1>1, <1>2, <1>3, <1>4, <1>5 DEF MainStop

LEMMA ShutdownInvStep ==
    ShutdownInv /\ [Next]_vars => ShutdownInv'
<1> SUFFICES ASSUME ShutdownInv, [Next]_vars PROVE ShutdownInv'
  OBVIOUS
<1>1. CASE Events
  <2>1. EventStep /\ UNCHANGED asyncVars /\ UNCHANGED <<mainPc, stopPc>>
    BY <1>1 DEF Events, asyncVars, ownVars
  <2>2. UNCHANGED httpPc
    BY <2>1 DEF EventStep, RequestArrives, Enqueue, EnqueueDeleted, SendReply, LoopEnds
  <2> QED
    BY <2>1, <2>2, EventsKeep, AsyncStutter, StopOrderStutter DEF ShutdownInv
<1>2. ASSUME NEW h \in HttpWorker, HttpWork(h) \/ Strays(h) PROVE ShutdownInv'
  <2>1. CASE Strays(h)
    <3>1. StrayLeaves(h) /\ UNCHANGED asyncVars /\ UNCHANGED <<mainPc, httpPc, stopPc>>
      BY <2>1 DEF Strays, StrayLeaves, asyncVars, ownVars
    <3> QED
      BY <3>1, WorkerKeeps, AsyncStutter, StopOrderStutter DEF ShutdownInv
  <2> QED
    BY <1>2, <2>1, HttpWorkKeeps
<1>3. ASSUME NEW w \in AsyncWorker, AsyncThread(w) PROVE ShutdownInv'
  <2>1. AsyncWork(w) /\ UNCHANGED httpVars /\ UNCHANGED mainPc
    BY <1>3 DEF AsyncThread, ownVars
  <2>2. UNCHANGED <<mainPc, httpPc, stopPc>>
    BY <2>1 DEF httpVars, AsyncWork, RunWait, RunExit, RunTake, RunCheck, MainStart, MainEnd
  <2> QED
    BY <2>1, <2>2, HttpStutter, AsyncWorkKeeps, StopOrderStutter DEF ShutdownInv
<1>4. CASE MainStop
  BY <1>4, MainStopKeeps
<1>5. CASE UNCHANGED vars
  <2>1. UNCHANGED httpVars /\ UNCHANGED asyncVars /\ UNCHANGED <<mainPc, httpPc, stopPc>>
    BY <1>5 DEF vars, httpVars, asyncVars
  <2> QED
    BY <2>1, HttpStutter, AsyncStutter, StopOrderStutter DEF ShutdownInv
<1> QED
  BY <1>1, <1>2, <1>3, <1>4, <1>5 DEF Next, Ended

\* The invariant the four theorems below rest on: a node can be anywhere in its
\* service and its shutdown, and still every operation and every request is with
\* somebody who will deal with it.
THEOREM ShutdownInvariant == Spec => []ShutdownInv
<1>1. Init => ShutdownInv
  <2> SUFFICES ASSUME Init PROVE ShutdownInv
    OBVIOUS
  <2>1. AsyncInv /\ HttpInv
    BY AsyncStart, HttpStart DEF Init
  <2>2. StopOrder
    BY DEF Init, HttpInit, StopOrder, Gone
  <2> QED
    BY <2>1, <2>2 DEF ShutdownInv
<1>2. ShutdownInv /\ [Next]_vars => ShutdownInv'
  BY ShutdownInvStep
<1> QED
  BY <1>1, <1>2, PTL DEF Spec

\* closeAndWait of the queue of operations returns only when every operation of
\* the map has an outcome, whichever workers were between taking one and main().
THEOREM AcceptedOperationsEnd == Spec => []NothingLeftBehind
<1>1. ShutdownInv => NothingLeftBehind
  <2> SUFFICES ASSUME ShutdownInv, stopPc = "joined"
               PROVE  /\ opQueue = <<>>
                      /\ \A o \in opMap : opState[o] \in Finished
                      /\ \A w \in AsyncWorker : workerOp[w] = NoOp
    BY DEF NothingLeftBehind
  <2> USE DEF ShutdownInv, AsyncInv
  <2>1. \A w \in AsyncWorker : workerPc[w] = "exited"
    BY DEF ClosedForGood
  <2>2. opQueue = <<>>
    BY <2>1, AsyncAssumption DEF ClosedForGood
  <2>3. \A w \in AsyncWorker : workerOp[w] = NoOp
    BY <2>1 DEF HeldWhileAtWork, AsyncTypes
  <2>4. \A o \in opMap : opState[o] \in Finished
    BY <2>1 DEF UnfinishedHasOwner, AsyncTypes
  <2> QED
    BY <2>2, <2>3, <2>4
<1> QED
  BY <1>1, ShutdownInvariant, PTL

\* delete workQueue in StopHTTPServer runs after every worker that had entered Run() when
\* WaitExit returned has left it, whichever of them was waiting, executing or about to
\* decrement the counter.
THEOREM DeletedQueueUnused == Spec => []QueueOutlivesWorkers
<1>1. ShutdownInv => QueueOutlivesWorkers
  BY DEF ShutdownInv, HttpInv, HttpTypes, Stages, WorkersCounted, QueueOutlivesWorkers
<1> QED
  BY <1>1, ShutdownInvariant, PTL

\* Every request taken in has its reply when the server is freed, unless
\* event_base_loopbreak discarded it, but for at most one that the event thread
\* put into the queue after its deletion.
THEOREM RequestsAnswered == Spec => []EveryRequestAnswered
<1>1. ShutdownInv => EveryRequestAnswered
  <2> SUFFICES ASSUME ShutdownInv, httpPc = "freed"
               PROVE  \A r \in Req : reqState[r] \in {"none", "sent", "lost", "dropped"}
    BY DEF EveryRequestAnswered, ShutdownInv, HttpInv, AfterDeletion
  <2> USE DEF ShutdownInv, HttpInv
  <2>1. evPc = "ended" /\ replies = {} /\ workQueue = <<>>
    BY DEF Stages, RequestsAccounted, AfterDeletion, Gone
  <2>2. ToSet(workQueue) = {}
    BY <2>1 DEF ToSet
  <2>3. \A h \in HttpWorker : hwPc[h] # "busy"
    BY DEF WorkersCounted, Gone
  <2> QED
    BY <2>1, <2>2, <2>3 DEF RequestsAccounted, HttpTypes
<1> QED
  BY <1>1, ShutdownInvariant, PTL

\* Shutdown() deletes pcoinsTip, what is below it and pwalletMain only when no
\* HTTP worker executes an RPC and no operation is in or before its main().
THEOREM DeletedObjectsUnused == Spec => []NobodyUsesDeleted
<1>1. ShutdownInv => NobodyUsesDeleted
  BY DEF ShutdownInv, HttpInv, AsyncInv, WorkersCounted, ClosedForGood, StopOrder, Gone,
      NobodyUsesDeleted
<1> QED
  BY <1>1, ShutdownInvariant, PTL

=============================================================================
