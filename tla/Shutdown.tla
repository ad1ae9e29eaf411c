------------------------------ MODULE Shutdown ------------------------------
(***************************************************************************)
(* The node's service threads from the first request to the end of          *)
(* Shutdown() (src/init.cpp): the HTTP server with its workers executing     *)
(* RPCs and the queue of asynchronous operations those RPCs feed, both      *)
(* stopped by the main thread while they are busy.                          *)
(*                                                                          *)
(* The order is the code's: Interrupt() rejects new requests, interrupts    *)
(* the HTTP workers and clears fRPCRunning; Shutdown() closes the queue of   *)
(* operations and joins its worker, waits for the HTTP workers, ends the     *)
(* event thread, and at last deletes the coins views and the wallet, which   *)
(* the RPCs and the operations use.                                         *)
(***************************************************************************)
EXTENDS HTTPServer, AsyncRPCQueue

CONSTANT
    Kind        \* what a request asks for: "send", "result" or "longpoll"

ASSUME ShutdownAssumption ==
    /\ Kind \in [Req -> {"send", "result", "longpoll"}]
    /\ Op = {r \in Req : Kind[r] = "send"}

VARIABLES
    mainPc,       \* the main thread between the steps of the components
    fRPCRunning,
    rpcPc         \* how far a worker is with the RPC of its request

vars == <<httpVars, asyncVars, mainPc, fRPCRunning, rpcPc>>
ownVars == <<mainPc, fRPCRunning, rpcPc>>

Init ==
    /\ HttpInit /\ AsyncInit
    /\ mainPc = "run" /\ fRPCRunning = TRUE
    /\ rpcPc = [h \in HttpWorker |-> "idle"]

-----------------------------------------------------------------------------
(* RPCs: what a worker does between taking an item and replying.            *)

Executes(h, kind) == hwPc[h] = "busy" /\ Kind[hwReq[h]] = kind
RpcTo(h, pc) == rpcPc' = [rpcPc EXCEPT ![h] = pc]

\* HTTPReq_JSONRPC and CRPCTable::execute reject the call before it runs.
RpcRejected(h) ==
    /\ hwPc[h] = "busy" /\ rpcPc[h] = "idle"
    /\ RpcTo(h, "answered")
    /\ UNCHANGED <<httpVars, asyncVars, mainPc, fRPCRunning>>

\* z_sendmany and its kin: addOperation, and the reply is the operation's id.
RpcSend(h) ==
    /\ Executes(h, "send") /\ rpcPc[h] = "idle"
    /\ AddOperation(hwReq[h])
    /\ RpcTo(h, "answered")
    /\ UNCHANGED <<httpVars, mainPc, fRPCRunning>>

\* z_getoperationresult and z_getoperationstatus, for one operation.
RpcLook(h) ==
    /\ Executes(h, "result") /\ rpcPc[h] = "idle"
    /\ \E o \in Op : GetStatus(o)
    /\ RpcTo(h, "looked")
    /\ UNCHANGED <<httpVars, mainPc, fRPCRunning>>

RpcPop(h) ==
    /\ rpcPc[h] = "looked"
    /\ \E fRemove \in BOOLEAN : PopFinished(fRemove)
    /\ RpcTo(h, "answered")
    /\ UNCHANGED <<httpVars, mainPc, fRPCRunning>>

\* The condition of getblocktemplate's loop, while the tip stays the same.
LongPolls == fRPCRunning

\* The loop's test, the timed wait, and its end by a notification or after at
\* most a minute.  A new tip or new transactions end the loop as well.
RpcPoll(h) ==
    /\ Executes(h, "longpoll")
    /\ \/ rpcPc[h] = "idle" /\ RpcTo(h, IF LongPolls THEN "tested" ELSE "answered")
       \/ rpcPc[h] = "tested" /\ RpcTo(h, "polling")
       \/ rpcPc[h] = "polling" /\ RpcTo(h, "idle")
       \/ rpcPc[h] = "polling" /\ RpcTo(h, "answered")
    /\ UNCHANGED <<httpVars, asyncVars, mainPc, fRPCRunning>>

RpcReply(h) ==
    /\ rpcPc[h] = "answered"
    /\ WorkerReplies(h)
    /\ RpcTo(h, "idle")
    /\ UNCHANGED <<asyncVars, mainPc, fRPCRunning>>

HttpWork(h) ==
    \/ /\ WorkerEnters(h) \/ WorkerWaits(h) \/ WorkerTakes(h) \/ WorkerExits(h)
       /\ UNCHANGED <<asyncVars, ownVars>>
    \/ RpcRejected(h) \/ RpcSend(h) \/ RpcLook(h) \/ RpcPop(h) \/ RpcPoll(h) \/ RpcReply(h)

\* Nothing makes a worker leave a queue that has been deleted.
Strays(h) == StrayLeaves(h) /\ UNCHANGED <<asyncVars, ownVars>>

-----------------------------------------------------------------------------
(* The main thread: Interrupt() and Shutdown().                             *)

\* InterruptHTTPServer, once a shutdown was requested.
MainInterruptHTTP ==
    /\ Reject \/ Interrupt
    /\ UNCHANGED <<asyncVars, ownVars>>

InterruptRPC ==
    /\ mainPc = "run" /\ httpPc = "interrupted"
    /\ mainPc' = "interrupted" /\ fRPCRunning' = FALSE
    /\ UNCHANGED <<httpVars, asyncVars, rpcPc>>

\* StopRPC: the Stopped signal wakes the longpolls that are waiting by now.
Stopped ==
    /\ mainPc = "interrupted"
    /\ mainPc' = "stopping"
    /\ rpcPc' = [h \in HttpWorker |-> IF rpcPc[h] = "polling" THEN "idle" ELSE rpcPc[h]]
    /\ UNCHANGED <<httpVars, asyncVars, fRPCRunning>>

\* closeAndWait.
MainStopAsync ==
    /\ mainPc = "stopping"
    /\ Close \/ StopStep
    /\ UNCHANGED <<httpVars, ownVars>>

AsyncStopped == stopPc = "joined"

\* StopHTTPServer.
MainStopHTTP ==
    /\ mainPc = "stopping" /\ AsyncStopped
    /\ WaitExit \/ DeleteQueue \/ LoopExit \/ LoopBreak \/ FreeHTTP
    /\ UNCHANGED <<asyncVars, ownVars>>

\* A mutant of ServersStopped: the wallet goes while the HTTP workers run.
ServersStoppedEarly == AsyncStopped

ServersStopped == httpPc = "freed"

\* The rest of Shutdown(): delete pcoinsTip and what is below it, delete pwalletMain.
DeleteAll ==
    /\ mainPc = "stopping" /\ ServersStopped
    /\ mainPc' = "done"
    /\ UNCHANGED <<httpVars, asyncVars, fRPCRunning, rpcPc>>

MainStop ==
    \/ MainInterruptHTTP \/ InterruptRPC \/ Stopped \/ MainStopAsync \/ MainStopHTTP
    \/ DeleteAll

\* The process has ended, or joins an event thread that never returns.
Ended == (mainPc = "done" \/ (httpPc = "wait" /\ evPc = "stray")) /\ UNCHANGED vars

Events == EventStep /\ UNCHANGED <<asyncVars, ownVars>>
AsyncThread(w) == AsyncWork(w) /\ UNCHANGED <<httpVars, ownVars>>

Next ==
    \/ Events
    \/ \E h \in HttpWorker : HttpWork(h) \/ Strays(h)
    \/ \E w \in AsyncWorker : AsyncThread(w)
    \/ MainStop \/ Ended

\* Every thread that can step eventually does.  Clients need not send anything;
\* a shutdown that was asked for is what the main thread is about.
Spec ==
    /\ Init /\ [][Next]_vars
    /\ WF_vars(Events)
    /\ \A h \in HttpWorker : WF_vars(HttpWork(h))
    /\ \A w \in AsyncWorker : WF_vars(AsyncThread(w))
    /\ WF_vars(MainStop)

-----------------------------------------------------------------------------
(* Properties.                                                              *)

\* When Shutdown() deletes the coins views and the wallet, no thread that uses
\* them is left: no worker executes an RPC, and no operation is in its
\* main() or about to enter it.
NobodyUsesDeleted ==
    mainPc = "done" =>
        /\ \A h \in HttpWorker : hwPc[h] # "busy"
        /\ \A w \in AsyncWorker : workerPc[w] \in {"run", "waiting", "exited"}

\* A shutdown completes: neither a worker waiting for work, nor a longpoll, nor
\* an operation nobody looks at, nor the main thread's own wait on the workers'
\* condition variable can keep it from ending.  Only an event thread that is stuck
\* in the deleted queue, and is then joined, can.
ShutdownCompletes == (httpPc = "rejecting") ~> (mainPc = "done" \/ evPc = "stray")

=============================================================================
