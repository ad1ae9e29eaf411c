----------------------------- MODULE CheckQueue -----------------------------
(***************************************************************************)
(* CCheckQueue and CCheckQueueControl (src/checkqueue.h), as ConnectBlock   *)
(* uses them for the script checks of a block (src/main.cpp): the master    *)
(* adds checks while it walks the block, then joins the worker threads in   *)
(* Loop until every check is done, and gets one verdict for all of them.    *)
(*                                                                          *)
(* One step is one critical section of the queue's mutex, or what a thread  *)
(* does between two of them.  The queue is a set: whichever checks a thread *)
(* takes covers the stack of the code, whose comment says that the order    *)
(* does not matter.  fQuit is never set, and is left out.  Every            *)
(* ConnectBlock holds cs_main, so there is one master at a time.            *)
(*                                                                          *)
(* boost threads may be interrupted: by threadGroup.interrupt_all() at      *)
(* shutdown, and a miner that connects its own block by setgenerate.  An    *)
(* interrupted thread throws when it waits; the master's stack then unwinds *)
(* through ~CCheckQueueControl, which waits for the checks once more.       *)
(***************************************************************************)
EXTENDS Integers, FiniteSets

CONSTANTS
    Workers,       \* the threads that run ThreadScriptCheck
    Master,        \* the thread in ConnectBlock
    Checks,        \* CScriptCheck objects
    Good,          \* the ones whose operator() returns true
    nBatchSize,
    MaxInterrupts  \* bound on the interrupts of one run

ASSUME QueueAssumption ==
    /\ Master \notin Workers
    /\ IsFiniteSet(Workers)
    /\ IsFiniteSet(Checks)
    /\ Good \subseteq Checks
    /\ nBatchSize \in Nat \ {0}
    /\ MaxInterrupts \in Nat

Threads == Workers \cup {Master}

VARIABLES
    queue, nTodo, nIdle, nTotal, fAllOk,  \* members of CCheckQueue
    pc,           \* where a thread is in Loop
    vChecks,      \* the batch of a thread, kept until it is accounted for (nNow of them)
    fOk,          \* the thread's local result; TRUE while it has no batch
    interrupted,  \* threads with a pending interrupt
    nInterrupts,
    session,      \* the life of the master's CCheckQueueControl
    added,        \* checks passed to Add since it was constructed
    verdict       \* what its Wait returned

queueVars == <<queue, nTodo, nIdle, nTotal, fAllOk>>
loopVars  == <<pc, vChecks, fOk>>
vars      == <<queueVars, loopVars, interrupted, nInterrupts, session, added, verdict>>

\* "out": not in Loop; "enter": about to lock for the first time; "waiting" on
\* its condition variable; "woken": notified; "executing" its batch; "executed":
\* about to lock again; "dead": ended by an interrupt.
Place == {"out", "enter", "waiting", "woken", "executing", "executed", "dead"}

\* "none": no control object; "adding": ConnectBlock walks the block; "waiting":
\* in Wait; "destroying": in the Wait of the destructor; "done": Wait returned;
\* "terminated": an exception left the destructor, which ends the process.
Session == {"none", "adding", "waiting", "destroying", "done", "terminated"}

Init ==
    /\ queue = {} /\ nTodo = 0 /\ nIdle = 0 /\ nTotal = 0 /\ fAllOk = TRUE
    /\ pc = [t \in Threads |-> IF t = Master THEN "out" ELSE "enter"]
    /\ vChecks = [t \in Threads |-> {}]
    /\ fOk = [t \in Threads |-> TRUE]
    /\ interrupted = {} /\ nInterrupts = 0
    /\ session = "none" /\ added = {} /\ verdict = TRUE

-----------------------------------------------------------------------------
(* Loop                                                                     *)

\* Mutant: a batch may be empty.
nNowAny(q, total, idle) ==
    LET share == q \div (total + idle + 1)
    IN  IF share > nBatchSize THEN nBatchSize ELSE share

\* How many of q queued checks a thread takes at once.
nNow(q, total, idle) ==
    LET share == q \div (total + idle + 1)
    IN  IF share < 1 THEN 1 ELSE IF share > nBatchSize THEN nBatchSize ELSE share

\* Mutant: the last batch decides.
FoldedLast(ok, threadOk) == threadOk

\* The result after a thread's batch is accounted for.
Folded(ok, threadOk) == ok /\ threadOk

\* Mutant: the thread that leaves one check wakes the master.
NotifiedEarly(t, todo) ==
    IF t # Master /\ todo = 1 /\ pc[Master] = "waiting"
    THEN [pc EXCEPT ![Master] = "woken"]
    ELSE pc

\* A thread that finished the last check wakes the master.
Notified(t, todo) ==
    IF t # Master /\ todo = 0 /\ pc[Master] = "waiting"
    THEN [pc EXCEPT ![Master] = "woken"]
    ELSE pc

\* Mutant: the result of one block is the initial one of the next.
ResetOkNever(ok) == ok

\* Wait returns, leaving the queue ready for the next block.
ResetOk(ok) == TRUE

MasterReturns(t, todo, ok, total, idle, where) ==
    /\ queue = {} /\ t = Master /\ todo = 0
    /\ nTotal' = total - 1
    /\ fAllOk' = ResetOk(ok)
    /\ pc' = [where EXCEPT ![t] = "out"]
    /\ vChecks' = [vChecks EXCEPT ![t] = {}]
    /\ fOk' = [fOk EXCEPT ![t] = TRUE]
    /\ \/ session = "waiting" /\ session' = "done" /\ verdict' = ok
       \/ session = "destroying" /\ session' = "none" /\ UNCHANGED verdict
    /\ nTodo' = todo /\ nIdle' = idle
    /\ UNCHANGED queue

WaitsForWork(t, todo, ok, total, idle, where) ==
    /\ queue = {} /\ ~(t = Master /\ todo = 0)
    /\ nIdle' = idle + 1
    /\ pc' = [where EXCEPT ![t] = "waiting"]
    /\ vChecks' = [vChecks EXCEPT ![t] = {}]
    /\ fOk' = [fOk EXCEPT ![t] = TRUE]
    /\ nTodo' = todo /\ nTotal' = total /\ fAllOk' = ok
    /\ UNCHANGED <<queue, session, verdict>>

TakesBatch(t, todo, ok, total, idle, where) ==
    \E batch \in SUBSET queue :
        /\ queue # {}
        /\ Cardinality(batch) = nNow(Cardinality(queue), total, idle)
        /\ queue' = queue \ batch
        /\ vChecks' = [vChecks EXCEPT ![t] = batch]
        /\ fOk' = [fOk EXCEPT ![t] = ok]
        /\ pc' = [where EXCEPT ![t] = "executing"]
        /\ nTodo' = todo /\ nIdle' = idle /\ nTotal' = total /\ fAllOk' = ok
        /\ UNCHANGED <<session, verdict>>

\* The rest of a critical section, from "logically, the do loop starts here".
Continue(t, todo, ok, total, idle, where) ==
    /\ \/ MasterReturns(t, todo, ok, total, idle, where)
       \/ WaitsForWork(t, todo, ok, total, idle, where)
       \/ TakesBatch(t, todo, ok, total, idle, where)
    /\ UNCHANGED <<interrupted, nInterrupts, added>>

Enter(t) ==
    /\ pc[t] = "enter"
    /\ Continue(t, nTodo, fAllOk, nTotal + 1, nIdle, pc)

\* A thread stops running its batch at the first check that fails.
Ran(ok, batch) == ok /\ batch \subseteq Good

Execute(t) ==
    /\ pc[t] = "executing"
    /\ fOk' = [fOk EXCEPT ![t] = Ran(fOk[t], vChecks[t])]
    /\ pc' = [pc EXCEPT ![t] = "executed"]
    /\ UNCHANGED <<queueVars, vChecks, interrupted, nInterrupts, session, added, verdict>>

CleanUp(t) ==
    /\ pc[t] = "executed"
    /\ LET todo == nTodo - Cardinality(vChecks[t])
       IN  Continue(t, todo, Folded(fAllOk, fOk[t]), nTotal, nIdle, Notified(t, todo))

Wake(t) ==
    /\ pc[t] = "woken" /\ t \notin interrupted
    /\ Continue(t, nTodo, fAllOk, nTotal, nIdle - 1, pc)

\* A condition variable may wake a thread that nobody notified.
SpuriousWake(t) ==
    /\ pc[t] = "waiting"
    /\ pc' = [pc EXCEPT ![t] = "woken"]
    /\ UNCHANGED <<queueVars, vChecks, fOk, interrupted, nInterrupts, session, added, verdict>>

-----------------------------------------------------------------------------
(* The master in ConnectBlock                                               *)

\* The next block may be connected by another thread than the last one.
Control ==
    /\ session = "none"
    /\ session' = "adding" /\ added' = {}
    /\ interrupted' \in {interrupted, interrupted \ {Master}}
    /\ UNCHANGED <<queueVars, loopVars, nInterrupts, verdict>>

\* Who Add wakes: any one waiting worker for one check, all of them for several.
Woken(n) ==
    LET idle == {w \in Workers : pc[w] = "waiting"}
    IN  CASE n = 0 -> {{}}
          [] n = 1 -> IF idle = {} THEN {{}} ELSE {{w} : w \in idle}
          [] OTHER -> {idle}

Add(new) ==
    /\ session = "adding"
    /\ new \subseteq Checks \ added
    /\ queue' = queue \cup new
    /\ added' = added \cup new
    /\ nTodo' = nTodo + Cardinality(new)
    /\ \E woken \in Woken(Cardinality(new)) :
           pc' = [t \in Threads |-> IF t \in woken THEN "woken" ELSE pc[t]]
    /\ UNCHANGED <<nIdle, nTotal, fAllOk, vChecks, fOk, interrupted, nInterrupts, session, verdict>>

\* ConnectBlock calls Wait, or it returns early and the destructor does.
Wait(how) ==
    /\ session = "adding"
    /\ session' = how
    /\ pc' = [pc EXCEPT ![Master] = "enter"]
    /\ UNCHANGED <<queueVars, vChecks, fOk, interrupted, nInterrupts, added, verdict>>

Leave ==
    /\ session = "done"
    /\ session' = "none" /\ added' = {} /\ verdict' = TRUE
    /\ UNCHANGED <<queueVars, loopVars, interrupted, nInterrupts>>

-----------------------------------------------------------------------------
(* Interrupts                                                               *)

\* setgenerate interrupts a miner; a shutdown interrupts the workers, with the
\* master when it belongs to the same thread group.
Interrupt(threads) ==
    /\ session # "terminated"
    /\ nInterrupts < MaxInterrupts
    /\ nInterrupts' = nInterrupts + 1
    /\ interrupted' = interrupted \cup threads
    /\ UNCHANGED <<queueVars, loopVars, session, added, verdict>>

\* cond.wait throws, and nIdle and nTotal stay as they are.  ThreadScriptCheck
\* ends.  ConnectBlock is left through the destructor; if the destructor was
\* waiting already, the exception leaves it and std::terminate is called.
Throw(t) ==
    /\ session # "terminated"
    /\ pc[t] \in {"waiting", "woken"} /\ t \in interrupted
    /\ interrupted' = interrupted \ {t}
    /\ pc' = [pc EXCEPT ![t] = IF t # Master THEN "dead"
                               ELSE IF session = "destroying" THEN "out" ELSE "enter"]
    /\ session' = IF t # Master THEN session
                  ELSE IF session = "destroying" THEN "terminated" ELSE "destroying"
    /\ UNCHANGED <<queueVars, vChecks, fOk, nInterrupts, added, verdict>>

Step(t) ==
    /\ session # "terminated"
    /\ Enter(t) \/ Execute(t) \/ CleanUp(t) \/ Wake(t)

Next ==
    \/ \E t \in Threads : Step(t) \/ Throw(t)
    \/ \E t \in Threads : session # "terminated" /\ SpuriousWake(t)
    \/ Control
    \/ \E new \in SUBSET Checks : Add(new)
    \/ \E how \in {"waiting", "destroying"} : Wait(how)
    \/ Leave
    \/ \E threads \in {{Master}, Workers, Threads} : Interrupt(threads)
    \/ session = "terminated" /\ UNCHANGED vars

Spec == Init /\ [][Next]_vars

\* The scheduler lets every thread that can run do so in the end.  Nothing
\* obliges ConnectBlock to go on, or a condition variable to wake spuriously.
FairSpec == Spec /\ \A t \in Threads : WF_vars(Step(t) \/ Throw(t))

-----------------------------------------------------------------------------
(* Properties                                                               *)

\* Checks that are queued or in some thread's batch.
Pending(queued, batches) == queued \cup UNION {batches[t] : t \in Threads}
Outstanding == Pending(queue, vChecks)

\* Threads between nIdle++ and nIdle--, and threads counted in nTotal.
Idle   == {t \in Threads : pc[t] \in {"waiting", "woken"}}
InLoop == {t \in Threads : pc[t] \in {"waiting", "woken", "executing", "executed"}}

TypeOK ==
    /\ queue \subseteq Checks /\ added \subseteq Checks
    /\ nTodo \in Nat /\ nIdle \in Nat /\ nTotal \in Nat /\ nInterrupts \in Nat
    /\ fAllOk \in BOOLEAN /\ verdict \in BOOLEAN
    /\ pc \in [Threads -> Place]
    /\ vChecks \in [Threads -> SUBSET Checks]
    /\ fOk \in [Threads -> BOOLEAN]
    /\ interrupted \subseteq Threads
    /\ session \in Session

\* Every check that is not done yet is in exactly one place, and nTodo counts
\* them: subtracting a batch never wraps the unsigned counter around.
TodoExact ==
    /\ nTodo = Cardinality(Outstanding)
    /\ \A t \in Threads :
        /\ vChecks[t] \cap queue = {}
        /\ \A u \in Threads \ {t} : vChecks[t] \cap vChecks[u] = {}

\* The batch size divides by nTotal + nIdle + 1.  Interrupts only leave these
\* counters too large, so the divisor stays positive and batches get smaller.
PoolCounted == nIdle >= Cardinality(Idle) /\ nTotal >= Cardinality(InLoop)

\* Where the threads can be.
PlacesSound ==
    /\ \A t \in Threads : vChecks[t] # {} <=> pc[t] \in {"executing", "executed"}
    /\ pc[Master] # "dead"
    /\ pc[Master] = "out" <=> session \notin {"waiting", "destroying"}
    /\ session # "terminated" => Outstanding \subseteq added

\* A failure is recorded only if a check of this block fails, and a failing
\* check is recorded, or some thread will still do so.
FailuresTracked ==
    /\ fAllOk = FALSE => ~(added \subseteq Good)
    /\ \A t \in Threads : vChecks[t] # {} /\ fOk[t] = FALSE => ~(added \subseteq Good)
    /\ session \in {"adding", "waiting", "destroying"} /\ fAllOk = TRUE =>
        \A c \in added \ Good :
            \/ c \in queue
            \/ \E t \in Threads : c \in vChecks[t] /\ (pc[t] = "executed" => fOk[t] = FALSE)

\* ConnectBlock's Wait returns true exactly when every script check it added
\* passes, whichever threads ran them and whatever was interrupted before.
VerdictExact == session = "done" => (verdict = TRUE <=> added \subseteq Good)

\* When the control object is gone no check of its block is left in the queue
\* or in a worker, and a failure does not leak into the next block.
SessionsIsolated ==
    session \in {"none", "done"} => Outstanding = {} /\ nTodo = 0 /\ fAllOk = TRUE

\* The master sleeps only while a worker holds a batch, and that worker will
\* wake it: the last wake-up is never lost.
NoLostWakeup ==
    pc[Master] = "waiting" => queue = {} /\ \E w \in Workers : vChecks[w] # {}

\* The inductive invariant.
QueueInv ==
    /\ TypeOK
    /\ TodoExact
    /\ PoolCounted
    /\ PlacesSound
    /\ FailuresTracked
    /\ SessionsIsolated
    /\ NoLostWakeup
    /\ VerdictExact

\* ConnectBlock's Wait, or the one of the destructor, comes back.
WaitReturns ==
    session \in {"waiting", "destroying"} ~> session \in {"none", "done", "terminated"}

=============================================================================
