--------------------------- MODULE AsyncRPCQueue ---------------------------
(***************************************************************************)
(* The queue of asynchronous RPC operations (src/asyncrpcqueue.cpp,         *)
(* src/asyncrpcoperation.cpp): z_sendmany and its kin create an operation   *)
(* and add it, a worker thread runs it later, z_getoperationstatus and      *)
(* z_getoperationresult look at it, and StopRPC closes the queue, cancels   *)
(* what has not started and joins the workers.                              *)
(*                                                                          *)
(* lock_ protects the map and the queue, but not the state of an operation, *)
(* which is an atomic of its own: cancel() reads it and then writes it, and *)
(* a worker may run between the two.  Critical sections of lock_ are atomic *)
(* steps, except cancelAllOperations, which holds it for many.              *)
(***************************************************************************)
EXTENDS Integers, Sequences, FiniteSets, SequencesExt

CONSTANTS
    Op,           \* AsyncRPCOperation objects
    AsyncWorker,  \* threads started by addWorker; StartRPC starts one
    NoOp

ASSUME AsyncAssumption == NoOp \notin Op /\ AsyncWorker # {}

VARIABLES
    opState,        \* AsyncRPCOperation::state_; "none" before it is constructed
    opMap,          \* keys of operation_map_
    opQueue,        \* operation_id_queue_
    closed,         \* closed_; only tests call finish(), so finish_ stays false
    workerPc,       \* where a worker is in run()
    workerOp,       \* its local variable operation
    stopPc,         \* where the thread in closeAndWait is
    toCancel,       \* what cancelAllOperations has still to visit
    readySeen,      \* the operation its cancel() has found READY
    seen            \* what a z_getoperation... call has read: operation and state

asyncVars == <<opState, opMap, opQueue, closed, workerPc, workerOp, stopPc, toCancel,
               readySeen, seen>>

NothingSeen == [op |-> NoOp, state |-> "none"]
Finished == {"SUCCESS", "FAILED", "CANCELLED"}

AsyncInit ==
    /\ opState = [o \in Op |-> "none"]
    /\ opMap = {} /\ opQueue = <<>>
    /\ closed = FALSE
    /\ workerPc = [w \in AsyncWorker |-> "run"]
    /\ workerOp = [w \in AsyncWorker |-> NoOp]
    /\ stopPc = "serving"
    /\ toCancel = {} /\ readySeen = NoOp
    /\ seen = NothingSeen

LockFree == stopPc # "cancelling"

-----------------------------------------------------------------------------
(* RPC threads.                                                             *)

WokenAll == [w \in AsyncWorker |-> IF workerPc[w] = "waiting" THEN "run" ELSE workerPc[w]]

\* notify_one: at most one of the waiting workers.
WokenOne ==
    {[workerPc EXCEPT ![w] = "run"] : w \in {v \in AsyncWorker : workerPc[v] = "waiting"}}
    \cup {p \in {workerPc} : \A w \in AsyncWorker : workerPc[w] # "waiting"}

Refuses == closed

\* addOperation on a new operation.  A closed queue drops it, and
\* the caller, who is given the operation's id all the same, is not told.
AddOperation(o) ==
    /\ LockFree /\ opState[o] = "none"
    /\ opState' = [opState EXCEPT ![o] = "READY"]
    /\ IF Refuses
       THEN UNCHANGED <<opMap, opQueue, workerPc>>
       ELSE /\ opMap' = opMap \cup {o}
            /\ opQueue' = Append(opQueue, o)
            /\ workerPc' \in WokenOne
    /\ UNCHANGED <<closed, workerOp, stopPc, toCancel, readySeen, seen>>

\* getOperationForId and getStatus of z_getoperationstatus_IMPL.  It holds
\* cs_main, so that one call is under way at a time.
GetStatus(o) ==
    /\ LockFree /\ seen = NothingSeen
    /\ o \in opMap
    /\ seen' = [op |-> o, state |-> opState[o]]
    /\ UNCHANGED <<opState, opMap, opQueue, closed, workerPc, workerOp, stopPc, toCancel,
                   readySeen>>

\* The rest of the loop's body: a finished operation is given out, and
\* popOperationForId removes it, if it was asked for its result.
PopFinished(fRemove) ==
    /\ LockFree /\ seen # NothingSeen
    /\ IF fRemove /\ seen.state \in Finished
       THEN opMap' = opMap \ {seen.op}
       ELSE UNCHANGED opMap
    /\ seen' = NothingSeen
    /\ UNCHANGED <<opState, opQueue, closed, workerPc, workerOp, stopPc, toCancel,
                   readySeen>>

-----------------------------------------------------------------------------
(* Workers: AsyncRPCQueue::run and main() of the operations.                *)

\* A mutant of Drained: the worker that exits leaves the queue to others.
DrainedNot(q) == q

\* A closing worker throws the queue away.
Drained(q) == <<>>

RunWait(w) ==
    /\ LockFree /\ workerPc[w] = "run"
    /\ opQueue = <<>> /\ ~closed
    /\ workerPc' = [workerPc EXCEPT ![w] = "waiting"]
    /\ UNCHANGED <<opState, opMap, opQueue, closed, workerOp, stopPc, toCancel, readySeen,
                   seen>>

RunExit(w) ==
    /\ LockFree /\ workerPc[w] = "run"
    /\ closed
    /\ opQueue' = Drained(opQueue)
    /\ workerPc' = [workerPc EXCEPT ![w] = "exited"]
    /\ UNCHANGED <<opState, opMap, closed, workerOp, stopPc, toCancel, readySeen, seen>>

\* Pop an id; the operation may have been removed from the map meanwhile.
RunTake(w) ==
    /\ LockFree /\ workerPc[w] = "run"
    /\ opQueue # <<>> /\ ~closed
    /\ opQueue' = Tail(opQueue)
    /\ IF Head(opQueue) \in opMap
       THEN /\ workerPc' = [workerPc EXCEPT ![w] = "taken"]
            /\ workerOp' = [workerOp EXCEPT ![w] = Head(opQueue)]
       ELSE UNCHANGED <<workerPc, workerOp>>
    /\ UNCHANGED <<opState, opMap, closed, stopPc, toCancel, readySeen, seen>>

\* isCancelled(), in run() and again at the top of main().
RunCheck(w) ==
    /\ workerPc[w] = "taken"
    /\ IF opState[workerOp[w]] = "CANCELLED"
       THEN /\ workerPc' = [workerPc EXCEPT ![w] = "run"]
            /\ workerOp' = [workerOp EXCEPT ![w] = NoOp]
       ELSE /\ workerPc' = [workerPc EXCEPT ![w] = "main"]
            /\ UNCHANGED workerOp
    /\ UNCHANGED <<opState, opMap, opQueue, closed, stopPc, toCancel, readySeen, seen>>

\* set_state(EXECUTING).
MainStart(w) ==
    /\ workerPc[w] = "main"
    /\ workerPc' = [workerPc EXCEPT ![w] = "working"]
    /\ opState' = [opState EXCEPT ![workerOp[w]] = "EXECUTING"]
    /\ UNCHANGED <<opMap, opQueue, closed, workerOp, stopPc, toCancel, readySeen, seen>>

\* set_state(SUCCESS) or set_state(FAILED): main() always ends in one of them,
\* exceptions are caught.
MainEnd(w) ==
    /\ workerPc[w] = "working"
    /\ \E s \in {"SUCCESS", "FAILED"} : opState' = [opState EXCEPT ![workerOp[w]] = s]
    /\ workerPc' = [workerPc EXCEPT ![w] = "run"]
    /\ workerOp' = [workerOp EXCEPT ![w] = NoOp]
    /\ UNCHANGED <<opMap, opQueue, closed, stopPc, toCancel, readySeen, seen>>

-----------------------------------------------------------------------------
(* The thread that stops the queue.                                         *)

\* close() stores closed_ without taking lock_.
Close ==
    /\ stopPc = "serving"
    /\ closed' = TRUE /\ stopPc' = "closed"
    /\ UNCHANGED <<opState, opMap, opQueue, workerPc, workerOp, toCancel, readySeen, seen>>

CancelAllOperations ==
    /\ stopPc = "closed"
    /\ stopPc' = "cancelling" /\ toCancel' = opMap
    /\ UNCHANGED <<opState, opMap, opQueue, closed, workerPc, workerOp, readySeen, seen>>

\* cancel(): isReady(), then set_state(CANCELLED).
CancelRead(o) ==
    /\ stopPc = "cancelling" /\ readySeen = NoOp
    /\ o \in toCancel
    /\ toCancel' = toCancel \ {o}
    /\ readySeen' = IF opState[o] = "READY" THEN o ELSE NoOp
    /\ UNCHANGED <<opState, opMap, opQueue, closed, workerPc, workerOp, stopPc, seen>>

CancelWrite ==
    /\ readySeen # NoOp
    /\ opState' = [opState EXCEPT ![readySeen] = "CANCELLED"]
    /\ readySeen' = NoOp
    /\ UNCHANGED <<opMap, opQueue, closed, workerPc, workerOp, stopPc, toCancel, seen>>

\* notify_all at the end of cancelAllOperations, and the one at the start of
\* wait_for_worker_threads.
NotifyAll ==
    /\ \/ stopPc = "cancelling" /\ toCancel = {} /\ readySeen = NoOp /\ stopPc' = "notify"
       \/ stopPc = "notify" /\ stopPc' = "joining"
    /\ workerPc' = WokenAll
    /\ UNCHANGED <<opState, opMap, opQueue, closed, workerOp, toCancel, readySeen, seen>>

Join ==
    /\ stopPc = "joining"
    /\ \A w \in AsyncWorker : workerPc[w] = "exited"
    /\ stopPc' = "joined"
    /\ UNCHANGED <<opState, opMap, opQueue, closed, workerPc, workerOp, toCancel, readySeen,
                   seen>>

AsyncWork(w) ==
    RunWait(w) \/ RunExit(w) \/ RunTake(w) \/ RunCheck(w) \/ MainStart(w) \/ MainEnd(w)

\* closeAndWait() after its first store.
StopStep == CancelAllOperations \/ (\E o \in Op : CancelRead(o)) \/ CancelWrite \/ NotifyAll \/ Join

-----------------------------------------------------------------------------
(* Properties.                                                              *)

\* When closeAndWait returns, nothing that was accepted is
\* still on its way: every operation in the map has an outcome, and the queue is
\* empty.  A worker that is waiting, or about to, is not forgotten.
NothingLeftBehind ==
    stopPc = "joined" =>
        /\ opQueue = <<>>
        /\ \A o \in opMap : opState[o] \in Finished
        /\ \A w \in AsyncWorker : workerOp[w] = NoOp

=============================================================================
