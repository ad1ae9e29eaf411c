----------------------------- MODULE HTTPServer -----------------------------
(***************************************************************************)
(* The HTTP server in front of the RPC and REST interfaces                  *)
(* (src/httpserver.cpp): one event thread, which libevent drives, parses    *)
(* requests and sends replies; detached worker threads take requests from a *)
(* bounded WorkQueue and execute them; the thread that shuts the node down  *)
(* interrupts the workers, waits until they have left the queue, deletes it *)
(* and ends the event loop.                                                 *)
(*                                                                          *)
(* The workers and WaitExit share one condition variable.  A reply is never *)
(* sent by a worker: WriteReply hands it to the event thread as an event,   *)
(* and ~HTTPRequest makes one up for a request that got none.               *)
(***************************************************************************)
EXTENDS Integers, Sequences, FiniteSets, SequencesExt

CONSTANTS
    Req,         \* requests a client may send
    HttpWorker,  \* -rpcthreads workers
    maxDepth,    \* -rpcworkqueue
    Main,        \* the thread that shuts down, as a waiter
    NoReq

ASSUME HttpAssumption ==
    /\ maxDepth \in Nat \ {0} /\ IsFiniteSet(HttpWorker)
    /\ Main \notin HttpWorker /\ NoReq \notin Req

VARIABLES
    reqState,    \* where a request is
    gencb,       \* the callback libevent calls: "request" or "reject"
    evPc,        \* the event thread: in its loop, in http_request_cb, ended, or
                 \* stuck in a queue that was deleted
    evReq,       \* the request in http_request_cb
    replies,     \* events made by WriteReply that have not run
    workQueue,   \* the deque of the work queue
    running, numThreads,
    queueGone,   \* the work queue has been deleted
    hwPc, hwReq, \* workers ("late" if Run() began after WaitExit), and the item
                 \* each one executes
    waiters,     \* threads in cond.wait
    httpPc,      \* the thread that stops the server
    loopExit     \* event_base_loopexit has been called

httpVars == <<reqState, gencb, evPc, evReq, replies, workQueue, running, numThreads, queueGone,
              hwPc, hwReq, waiters, httpPc, loopExit>>

HttpInit ==
    /\ reqState = [r \in Req |-> "none"]
    /\ gencb = "request"
    /\ evPc = "loop" /\ evReq = NoReq
    /\ replies = {}
    /\ workQueue = <<>> /\ running = TRUE /\ numThreads = 0 /\ queueGone = FALSE
    /\ hwPc = [h \in HttpWorker |-> "starting"]
    /\ hwReq = [h \in HttpWorker |-> NoReq]
    /\ waiters = {}
    /\ httpPc = "serving" /\ loopExit = FALSE

-----------------------------------------------------------------------------
(* The event thread.                                                        *)

\* http_request_cb up to its Enqueue, or http_reject_request_cb.  A request
\* that ClientAllowed, the method check or the handler table rejects is
\* answered by an event like any other.
RequestArrives(r) ==
    /\ evPc = "loop" /\ reqState[r] = "none" /\ ~loopExit
    /\ \/ /\ gencb = "reject"
          /\ reqState' = [reqState EXCEPT ![r] = "sent"]
          /\ UNCHANGED <<evPc, evReq, replies>>
       \/ /\ gencb = "request"
          /\ evPc' = "dispatch" /\ evReq' = r
          /\ reqState' = [reqState EXCEPT ![r] = "dispatch"]
          /\ UNCHANGED replies
       \/ /\ gencb = "request"
          /\ reqState' = [reqState EXCEPT ![r] = "replied"]
          /\ replies' = replies \cup {r}
          /\ UNCHANGED <<evPc, evReq>>
    /\ UNCHANGED <<gencb, workQueue, running, numThreads, queueGone, hwPc, hwReq, waiters, httpPc,
                   loopExit>>

\* cond.notify_one.
NotifyOne == {waiters \ {t} : t \in waiters} \cup {w \in {waiters} : w = {}}

Full == Len(workQueue) >= maxDepth

\* WorkQueue::Enqueue, and the reply when it refuses.
Enqueue ==
    /\ evPc = "dispatch" /\ ~queueGone
    /\ evPc' = "loop" /\ evReq' = NoReq
    /\ IF Full
       THEN /\ reqState' = [reqState EXCEPT ![evReq] = "replied"]
            /\ replies' = replies \cup {evReq}
            /\ UNCHANGED <<workQueue, waiters>>
       ELSE /\ reqState' = [reqState EXCEPT ![evReq] = "queued"]
            /\ workQueue' = Append(workQueue, evReq)
            /\ waiters' \in NotifyOne
            /\ UNCHANGED replies
    /\ UNCHANGED <<gencb, running, numThreads, queueGone, hwPc, hwReq, httpPc, loopExit>>

\* Enqueue on the queue that StopHTTPServer has deleted under it: what it finds
\* there is undefined.  The mutex may never be got, the queue may seem full, or the
\* item goes into a deque that nobody will look at.
EnqueueDeleted ==
    /\ evPc = "dispatch" /\ queueGone
    /\ \/ /\ evPc' = "stray"
          /\ UNCHANGED <<evReq, reqState, replies>>
       \/ /\ evPc' = "loop" /\ evReq' = NoReq
          /\ reqState' = [reqState EXCEPT ![evReq] = "replied"]
          /\ replies' = replies \cup {evReq}
       \/ /\ evPc' = "loop" /\ evReq' = NoReq
          /\ reqState' = [reqState EXCEPT ![evReq] = "dropped"]
          /\ UNCHANGED replies
    /\ UNCHANGED <<gencb, workQueue, running, numThreads, queueGone, hwPc, hwReq, waiters, httpPc,
                   loopExit>>

\* httpevent_callback_fn: evhttp_send_reply.
SendReply(r) ==
    /\ evPc = "loop" /\ r \in replies
    /\ replies' = replies \ {r}
    /\ reqState' = [reqState EXCEPT ![r] = "sent"]
    /\ UNCHANGED <<gencb, evPc, evReq, workQueue, running, numThreads, queueGone, hwPc, hwReq,
                   waiters, httpPc, loopExit>>

\* event_base_dispatch returns: the events active at event_base_loopexit have run.
LoopEnds ==
    /\ evPc = "loop" /\ loopExit /\ replies = {}
    /\ evPc' = "ended"
    /\ UNCHANGED <<reqState, gencb, evReq, replies, workQueue, running, numThreads, queueGone, hwPc,
                   hwReq, waiters, httpPc, loopExit>>

EventStep ==
    \/ \E r \in Req : RequestArrives(r) \/ SendReply(r)
    \/ Enqueue \/ EnqueueDeleted \/ LoopEnds

-----------------------------------------------------------------------------
(* Workers: WorkQueue::Run.                                                 *)

\* WaitExit has found no worker inside; a detached thread may still begin to run.
WaitExitOver == httpPc \in {"delete", "exit", "wait", "broken", "freed"}

\* The constructor of ThreadCounter, unless the counter is gone.
WorkerEnters(h) ==
    /\ hwPc[h] = "starting"
    /\ hwPc' = [hwPc EXCEPT ![h] = IF WaitExitOver THEN "late" ELSE "run"]
    /\ numThreads' = IF queueGone THEN numThreads ELSE numThreads + 1
    /\ UNCHANGED <<reqState, gencb, evPc, evReq, replies, workQueue, running, queueGone, hwReq,
                   waiters, httpPc, loopExit>>

WorkerWaits(h) ==
    /\ hwPc[h] = "run" /\ h \notin waiters
    /\ running /\ workQueue = <<>>
    /\ waiters' = waiters \cup {h}
    /\ UNCHANGED <<reqState, gencb, evPc, evReq, replies, workQueue, running, numThreads, queueGone,
                   hwPc, hwReq, httpPc, loopExit>>

WorkerTakes(h) ==
    /\ hwPc[h] = "run" /\ h \notin waiters
    /\ running /\ workQueue # <<>>
    /\ workQueue' = Tail(workQueue)
    /\ reqState' = [reqState EXCEPT ![Head(workQueue)] = "busy"]
    /\ hwPc' = [hwPc EXCEPT ![h] = "busy"]
    /\ hwReq' = [hwReq EXCEPT ![h] = Head(workQueue)]
    /\ UNCHANGED <<gencb, evPc, evReq, replies, running, numThreads, queueGone, waiters, httpPc,
                   loopExit>>

\* A mutant of ExitWoken: the destructor of ThreadCounter wakes nobody.
ExitWokenNone == waiters

\* Whom ~ThreadCounter leaves waiting: notify_all.
ExitWoken == {}

\* The loop is left and the destructor of ThreadCounter runs.
WorkerExits(h) ==
    /\ hwPc[h] = "run" \/ (hwPc[h] = "late" /\ ~queueGone)
    /\ h \notin waiters /\ ~running
    /\ hwPc' = [hwPc EXCEPT ![h] = "exited"]
    /\ numThreads' = numThreads - 1
    /\ waiters' = ExitWoken
    /\ UNCHANGED <<reqState, gencb, evPc, evReq, replies, workQueue, running, queueGone, hwReq,
                   httpPc, loopExit>>

\* A worker in a queue that has been deleted may find its way out.
StrayLeaves(h) ==
    /\ hwPc[h] = "late" /\ queueGone
    /\ hwPc' = [hwPc EXCEPT ![h] = "exited"]
    /\ UNCHANGED <<reqState, gencb, evPc, evReq, replies, workQueue, running, numThreads, queueGone,
                   hwReq, waiters, httpPc, loopExit>>

\* WriteReply by the handler, or by ~HTTPRequest, and the end of the item.
WorkerReplies(h) ==
    /\ hwPc[h] = "busy"
    /\ reqState' = [reqState EXCEPT ![hwReq[h]] = "replied"]
    /\ replies' = replies \cup {hwReq[h]}
    /\ hwPc' = [hwPc EXCEPT ![h] = "run"]
    /\ hwReq' = [hwReq EXCEPT ![h] = NoReq]
    /\ UNCHANGED <<gencb, evPc, evReq, workQueue, running, numThreads, queueGone, waiters, httpPc,
                   loopExit>>

-----------------------------------------------------------------------------
(* InterruptHTTPServer and StopHTTPServer.                                  *)

Reject ==
    /\ httpPc = "serving"
    /\ httpPc' = "rejecting" /\ gencb' = "reject"
    /\ UNCHANGED <<reqState, evPc, evReq, replies, workQueue, running, numThreads, queueGone, hwPc,
                   hwReq, waiters, loopExit>>

Interrupt ==
    /\ httpPc = "rejecting"
    /\ httpPc' = "interrupted" /\ running' = FALSE /\ waiters' = {}
    /\ UNCHANGED <<reqState, gencb, evPc, evReq, replies, workQueue, numThreads, queueGone, hwPc,
                   hwReq, loopExit>>

\* A mutant of WorkersInside: WaitExit leaves one worker behind.
WorkersInsideMost == numThreads > 1

WorkersInside == numThreads > 0

\* WaitExit: the test of its loop, from the start or after a wakeup.
WaitExit ==
    /\ httpPc \in {"interrupted", "waitexit"} /\ Main \notin waiters
    /\ IF WorkersInside
       THEN httpPc' = "waitexit" /\ waiters' = waiters \cup {Main}
       ELSE httpPc' = "delete" /\ UNCHANGED waiters
    /\ UNCHANGED <<reqState, gencb, evPc, evReq, replies, workQueue, running, numThreads, queueGone,
                   hwPc, hwReq, loopExit>>

\* A mutant of Unhandled: deleting an item does not answer its request.
UnhandledNone(q) == {}

\* The requests of deleted items: ~HTTPRequest replies to each.
Unhandled(q) == ToSet(q)

\* delete workQueue, wherever the event thread is.  The pointer is not cleared.
DeleteQueue ==
    /\ httpPc = "delete"
    /\ httpPc' = "exit" /\ queueGone' = TRUE
    /\ workQueue' = <<>>
    /\ replies' = replies \cup Unhandled(workQueue)
    /\ reqState' = [r \in Req |-> IF r \in Unhandled(workQueue) THEN "replied" ELSE reqState[r]]
    /\ UNCHANGED <<gencb, evPc, evReq, running, numThreads, hwPc, hwReq, waiters, loopExit>>

LoopExit ==
    /\ httpPc = "exit"
    /\ httpPc' = "wait" /\ loopExit' = TRUE
    /\ UNCHANGED <<reqState, gencb, evPc, evReq, replies, workQueue, running, numThreads, queueGone,
                   hwPc, hwReq, waiters>>

\* Two seconds are over: event_base_loopbreak, and what was not sent is lost.
LoopBreak ==
    /\ httpPc = "wait" /\ evPc = "loop"
    /\ httpPc' = "broken" /\ evPc' = "ended"
    /\ replies' = {}
    /\ reqState' = [r \in Req |-> IF r \in replies THEN "lost" ELSE reqState[r]]
    /\ UNCHANGED <<gencb, evReq, workQueue, running, numThreads, queueGone, hwPc, hwReq, waiters,
                   loopExit>>

\* join, evhttp_free and event_base_free.
FreeHTTP ==
    /\ httpPc \in {"wait", "broken"} /\ evPc = "ended"
    /\ httpPc' = "freed"
    /\ UNCHANGED <<reqState, gencb, evPc, evReq, replies, workQueue, running, numThreads, queueGone,
                   hwPc, hwReq, waiters, loopExit>>

-----------------------------------------------------------------------------
(* Properties.                                                              *)

\* The work queue outlives the workers that WaitExit can know of: when it is deleted
\* each of them has left Run(), or had not begun it when WaitExit returned.  (Those,
\* and the event thread in http_request_cb, are not waited for: the destructor's
\* precondition at httpserver.cpp:101, that all worker threads have stopped, is met
\* only if they happen to be in time.)
QueueOutlivesWorkers ==
    queueGone => \A h \in HttpWorker : hwPc[h] \in {"starting", "late", "exited"}

\* Every request that was taken in is answered when the server is gone, unless
\* the event loop had to be broken: neither the refusal of a full queue, nor the
\* interruption of the workers, nor the deletion of queued items loses one.  At most
\* one is dropped: the one the event thread put into the deleted queue.
EveryRequestAnswered ==
    httpPc = "freed" =>
        /\ \A r \in Req : reqState[r] \in {"none", "sent", "lost", "dropped"}
        /\ \A r, s \in Req : reqState[r] = "dropped" /\ reqState[s] = "dropped" => r = s

=============================================================================
