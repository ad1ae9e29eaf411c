----------------------------- MODULE ChainState -----------------------------
(***************************************************************************)
(* Block acceptance and best-chain selection (src/main.cpp): what           *)
(* mapBlockIndex, setBlockIndexCandidates, mapBlocksUnlinked and            *)
(* chainActive hold in memory, and the handlers that change them.           *)
(*                                                                          *)
(* Several threads call these handlers: the message handler (BLOCK and      *)
(* HEADERS messages), the importer, the miner and every RPC worker          *)
(* (submitblock, generate, invalidateblock, reconsiderblock).  None of them *)
(* holds cs_main when it calls ProcessNewBlock or ActivateBestChain:        *)
(* ActivateBestChain takes the lock anew in every iteration of its loop and *)
(* keeps pindexMostWork in a local variable across iterations, so another   *)
(* thread may run between any two of them.                                  *)
(*                                                                          *)
(* Block data is never pruned here (-prune is off by default), so           *)
(* BLOCK_HAVE_DATA and nTx > 0 coincide.  Disk errors are left out.         *)
(***************************************************************************)
EXTENDS BlockTree

CONSTANTS
    Thread,          \* threads that call into main.cpp
    NoThread,        \* cs_main is free
    BadBlock,        \* blocks that CheckBlock accepts and ContextualCheckBlock rejects
    BadConnect,      \* blocks that ConnectBlock rejects
    Invalidatable,   \* blocks the operator may give to invalidateblock
    Reconsiderable,  \* blocks the operator may give to reconsiderblock
    MaxReorg,        \* MAX_REORG_LENGTH
    MinBlocksToKeep  \* MIN_BLOCKS_TO_KEEP

ASSUME ChainStateAssumption ==
    /\ NoThread \notin Thread
    /\ BadBlock \subseteq Block \ {Genesis}
    /\ BadConnect \subseteq Block \ {Genesis}
    /\ Invalidatable \subseteq Block \ {Genesis}
    /\ Reconsiderable \subseteq Block
    /\ MaxReorg \in Nat \ {0}
    /\ MinBlocksToKeep \in Nat

VARIABLES
    status,            \* CBlockIndex::nStatus of every block, 0 when not in mapBlockIndex
    chainTx,           \* blocks with nChainTx # 0
    nSequenceId,       \* CBlockIndex::nSequenceId
    nBlockSequenceId,  \* the next sequence id to hand out
    tip,               \* chainActive.Tip()
    candidates,        \* setBlockIndexCandidates
    unlinked,          \* second components of mapBlocksUnlinked; the key is pprev
    dirty,             \* setDirtyBlockIndex
    csMain,            \* the thread that holds cs_main across steps, or NoThread
    pc,                \* where each thread is
    pindexMostWork,    \* ActivateBestChain's local variable, per thread
    pindexOldTip,      \* ActivateBestChainStep's local variable
    pindexInvalid,     \* InvalidateBlock's argument
    shutdown           \* StartShutdown() has been called

index   == <<status, chainTx, nSequenceId, nBlockSequenceId, unlinked, dirty>>
threads == <<csMain, pc, pindexMostWork, pindexOldTip, pindexInvalid>>
chainVars == <<index, tip, candidates, threads, shutdown>>

-----------------------------------------------------------------------------
(* BlockStatus and the accessors of CBlockIndex (src/chain.h).             *)

VALID_TREE         == 2
VALID_TRANSACTIONS == 3
VALID_SCRIPTS      == 5

BlockStatus == [valid  : {0, VALID_TREE, VALID_TRANSACTIONS, VALID_SCRIPTS},
                failed : SUBSET {"VALID", "CHILD"},
                data   : BOOLEAN,
                undo   : BOOLEAN]

UnknownStatus == [valid |-> 0, failed |-> {}, data |-> FALSE, undo |-> FALSE]

\* CBlockIndex::IsValid and RaiseValidity, on a status word.
StatusIsValid(s, nUpTo) == s.failed = {} /\ s.valid >= nUpTo

RaiseValidity(s, nUpTo) ==
    IF s.failed = {} /\ s.valid < nUpTo THEN [s EXCEPT !.valid = nUpTo] ELSE s

SetFailed(s, flag) == [s EXCEPT !.failed = @ \cup {flag}]

InIndex == {b \in Block : status[b].valid >= VALID_TREE}     \* mapBlockIndex
Failed(b) == status[b].failed # {}                           \* BLOCK_FAILED_MASK
IsValid(b, nUpTo) == StatusIsValid(status[b], nUpTo)
ChainActive == Ancestors[tip]

TypeOK ==
    /\ status \in [Block -> BlockStatus]
    /\ chainTx \in SUBSET Block
    /\ nSequenceId \in [Block -> Nat]
    /\ nBlockSequenceId \in Nat
    /\ tip \in Block
    /\ candidates \in SUBSET Block
    /\ unlinked \in SUBSET Block
    /\ dirty \in SUBSET Block
    /\ csMain \in Thread \cup {NoThread}
    /\ pc \in [Thread -> {"idle", "activate", "find", "check", "step", "invalidate"}]
    /\ pindexMostWork \in [Thread -> Block \cup {NoBlock}]
    /\ pindexOldTip \in Block \cup {NoBlock}
    /\ pindexInvalid \in Block \cup {NoBlock}
    /\ shutdown \in BOOLEAN

\* InitBlockIndex has stored, activated and flushed the genesis block.
Init ==
    /\ status = [b \in Block |->
                    IF b = Genesis
                    THEN [UnknownStatus EXCEPT !.valid = VALID_TRANSACTIONS, !.data = TRUE]
                    ELSE UnknownStatus]
    /\ chainTx = {Genesis}
    /\ nSequenceId = [b \in Block |-> IF b = Genesis THEN 1 ELSE 0]
    /\ nBlockSequenceId = 2
    /\ tip = Genesis
    /\ candidates = {Genesis}
    /\ unlinked = {}
    /\ dirty = {}
    /\ csMain = NoThread
    /\ pc = [t \in Thread |-> "idle"]
    /\ pindexMostWork = [t \in Thread |-> NoBlock]
    /\ pindexOldTip = NoBlock
    /\ pindexInvalid = NoBlock
    /\ shutdown = FALSE

-----------------------------------------------------------------------------
(* Receiving headers and blocks.                                            *)

\* AcceptBlockHeader returns false: a known block marked failed, or a new one
\* whose parent is unknown or marked failed.
HeaderRejected(b) ==
    IF b \in InIndex THEN Failed(b)
                     ELSE pprev[b] \notin InIndex \/ Failed(pprev[b])

\* AddToBlockIndex: the index with b's header in it.
AddToBlockIndex(b) ==
    [status EXCEPT ![b] = IF b \in InIndex THEN @ ELSE RaiseValidity(@, VALID_TREE)]

\* A header of a HEADERS message.
AcceptBlockHeader(b) ==
    /\ csMain = NoThread
    /\ b \notin InIndex
    /\ ~HeaderRejected(b)
    /\ status' = AddToBlockIndex(b)
    /\ dirty' = dirty \cup {b}
    /\ UNCHANGED <<chainTx, nSequenceId, nBlockSequenceId, unlinked, tip, candidates,
                   threads, shutdown>>

\* AcceptBlock goes on to check and store the block.
BlockWanted(b, fRequested) ==
    /\ ~status[b].data
    /\ \/ fRequested
       \/ /\ nChainWork[b] > nChainWork[tip]
          /\ nHeight[b] <= nHeight[tip] + MinBlocksToKeep

\* ProcessNewBlock when AcceptBlock has nothing to store: only the header is
\* new, and ActivateBestChain runs all the same.
BlockIgnored(t, b, fRequested) ==
    /\ csMain = NoThread /\ pc[t] = "idle"
    /\ ~HeaderRejected(b)
    /\ ~BlockWanted(b, fRequested)
    /\ status' = AddToBlockIndex(b)
    /\ dirty' = IF b \in InIndex THEN dirty ELSE dirty \cup {b}
    /\ pc' = [pc EXCEPT ![t] = "activate"]
    /\ UNCHANGED <<chainTx, nSequenceId, nBlockSequenceId, unlinked, tip, candidates,
                   csMain, pindexMostWork, pindexOldTip, pindexInvalid, shutdown>>

\* ProcessNewBlock when ContextualCheckBlock rejects the block.
BlockRefused(t, b, fRequested) ==
    /\ csMain = NoThread /\ pc[t] = "idle"
    /\ ~HeaderRejected(b)
    /\ BlockWanted(b, fRequested)
    /\ b \in BadBlock
    /\ status' = [AddToBlockIndex(b) EXCEPT ![b] = SetFailed(@, "VALID")]
    /\ dirty' = dirty \cup {b}
    /\ UNCHANGED <<chainTx, nSequenceId, nBlockSequenceId, unlinked, tip, candidates,
                   threads, shutdown>>

\* The blocks ReceivedBlockTransactions' queue visits once b's data is there:
\* b, and whatever hangs from it through mapBlocksUnlinked.
Linked(b) ==
    IF pprev[b] \in chainTx
    THEN {x \in unlinked \cup {b} :
            b \in Ancestors[x] /\ Ancestors[x] \ Ancestors[b] \subseteq unlinked}
    ELSE {}

\* The sequence ids the queue may hand to S: breadth first, so never a higher
\* block before a lower one (the order among blocks of one height is the order
\* they entered the multimap, which the model leaves open).
QueueOrders(S) ==
    {ids \in [S -> nBlockSequenceId .. nBlockSequenceId + Cardinality(S) - 1] :
        \A x, y \in S : x # y => /\ ids[x] # ids[y]
                                 /\ nHeight[x] < nHeight[y] => ids[x] < ids[y]}

\* mapBlocksUnlinked afterwards: the linked blocks leave it, and b enters it if
\* it could not be linked and its parent is not marked failed.
NewUnlinked(b, linked) ==
    IF linked = {} /\ IsValid(pprev[b], VALID_TREE)
    THEN unlinked \cup {b} ELSE unlinked \ linked

\* ReceivedBlockTransactions: b's data is on disk; link what can be linked.
ReceivedBlockTransactions(b) ==
    LET linked == Linked(b)
    IN  /\ chainTx' = chainTx \cup linked
        /\ \E ids \in QueueOrders(linked) :
              nSequenceId' = [x \in Block |-> IF x \in linked THEN ids[x] ELSE nSequenceId[x]]
        /\ nBlockSequenceId' = nBlockSequenceId + Cardinality(linked)
        /\ candidates' = candidates \cup {x \in linked : ~WorkLess(nSequenceId', x, tip)}
        /\ unlinked' = NewUnlinked(b, linked)

\* ProcessNewBlock when AcceptBlock stores the block.
BlockStored(t, b, fRequested) ==
    /\ csMain = NoThread /\ pc[t] = "idle"
    /\ ~HeaderRejected(b)
    /\ BlockWanted(b, fRequested)
    /\ b \notin BadBlock
    /\ status' = [AddToBlockIndex(b) EXCEPT
                    ![b] = RaiseValidity([@ EXCEPT !.data = TRUE], VALID_TRANSACTIONS)]
    /\ dirty' = dirty \cup {b}
    /\ ReceivedBlockTransactions(b)
    /\ pc' = [pc EXCEPT ![t] = "activate"]
    /\ UNCHANGED <<tip, csMain, pindexMostWork, pindexOldTip, pindexInvalid, shutdown>>

-----------------------------------------------------------------------------
(* ActivateBestChain.                                                       *)

\* ActivateBestChain returns: the thread forgets its locals.
Return(t) ==
    /\ csMain' = NoThread
    /\ pc' = [pc EXCEPT ![t] = "idle"]
    /\ pindexMostWork' = [pindexMostWork EXCEPT ![t] = NoBlock]
    /\ pindexOldTip' = NoBlock
    /\ UNCHANGED pindexInvalid

\* A mutant of EndIteration: no loop, one step is all there is.
EndIterationOnce(t, newTip) == newTip \in Block /\ Return(t)

\* The end of an iteration: release cs_main, leave the loop if the new tip is
\* the target.
EndIteration(t, newTip) ==
    IF newTip = pindexMostWork[t]
    THEN Return(t)
    ELSE /\ csMain' = NoThread
         /\ pc' = [pc EXCEPT ![t] = "activate"]
         /\ pindexOldTip' = NoBlock
         /\ UNCHANGED <<pindexMostWork, pindexInvalid>>

\* Top of the loop: take cs_main; the cached pindexMostWork is kept if there is one.
TakeLock(t) ==
    /\ csMain = NoThread /\ pc[t] = "activate"
    /\ csMain' = t
    /\ pc' = [pc EXCEPT ![t] = IF pindexMostWork[t] = NoBlock THEN "find" ELSE "check"]
    /\ UNCHANGED <<index, tip, candidates, pindexMostWork, pindexOldTip, pindexInvalid, shutdown>>

\* The blocks FindMostWorkChain walks over, from a candidate down to the active chain.
PathTo(b) == Ancestors[b] \ ChainActive

\* The turn of FindMostWorkChain's loop that ends it: a candidate without a
\* failed block on the way.  (The early return for an empty set of candidates is
\* never taken, which CandidatesNonEmpty below states.)
FindMostWorkChain(t) ==
    /\ csMain = t /\ pc[t] = "find"
    /\ \E pindexNew \in candidates :
          /\ IsBest(nSequenceId, candidates, pindexNew)
          /\ \A x \in PathTo(pindexNew) : ~Failed(x)
          /\ pindexMostWork' = [pindexMostWork EXCEPT ![t] = pindexNew]
    /\ pc' = [pc EXCEPT ![t] = "check"]
    /\ UNCHANGED <<index, tip, candidates, csMain, pindexOldTip, pindexInvalid, shutdown>>

\* A turn that meets a failed block, pindexTest: everything above it becomes
\* FAILED_CHILD (without entering setDirtyBlockIndex), and it and they stop
\* being candidates.
DropFailedCandidate(t) ==
    /\ csMain = t /\ pc[t] = "find"
    /\ \E pindexNew \in candidates : \E pindexTest \in PathTo(pindexNew) :
          LET above == {x \in PathTo(pindexNew) : nHeight[x] > nHeight[pindexTest]}
          IN  /\ IsBest(nSequenceId, candidates, pindexNew)
              /\ IsHighest({x \in PathTo(pindexNew) : Failed(x)}, pindexTest)
              /\ status' = [b \in Block |->
                               IF b \in above THEN SetFailed(status[b], "CHILD") ELSE status[b]]
              /\ candidates' = candidates \ (above \cup {pindexTest})
    /\ UNCHANGED <<chainTx, nSequenceId, nBlockSequenceId, unlinked, dirty, tip, threads, shutdown>>

\* A mutant of ReorgLength that forgets the fork point.
ReorgLengthByHeight(t) == nHeight[tip] - nHeight[pindexMostWork[t]]

\* The number of blocks ActivateBestChainStep would disconnect.
ReorgLength(t) == nHeight[tip] - nHeight[FindFork(tip, pindexMostWork[t])]

\* Nothing to do: the target is the tip already.
AlreadyThere(t) ==
    /\ csMain = t /\ pc[t] = "check"
    /\ pindexMostWork[t] = tip
    /\ Return(t)
    /\ UNCHANGED <<index, tip, candidates, shutdown>>

\* ActivateBestChainStep refuses a reorganisation that is too long.
ReorgTooLong(t) ==
    /\ csMain = t /\ pc[t] = "check"
    /\ ReorgLength(t) > MaxReorg
    /\ shutdown' = TRUE
    /\ Return(t)
    /\ UNCHANGED <<index, tip, candidates>>

BeginStep(t) ==
    /\ csMain = t /\ pc[t] = "check"
    /\ pindexMostWork[t] # tip
    /\ ReorgLength(t) <= MaxReorg
    /\ pc' = [pc EXCEPT ![t] = "step"]
    /\ pindexOldTip' = tip
    /\ UNCHANGED <<index, tip, candidates, csMain, pindexMostWork, pindexInvalid, shutdown>>

\* The first loop of ActivateBestChainStep.  A stale target may be an ancestor
\* of the tip: then reaching it ends the step.
StepDisconnectTip(t) ==
    /\ csMain = t /\ pc[t] = "step"
    /\ tip \notin Ancestors[pindexMostWork[t]]
    /\ tip' = pprev[tip]
    /\ IF pprev[tip] = pindexMostWork[t] THEN Return(t) ELSE UNCHANGED threads
    /\ UNCHANGED <<index, candidates, shutdown>>

\* The next block ActivateBestChainStep connects.
IsNext(t, b) == b \in Ancestors[pindexMostWork[t]] /\ pprev[b] = tip

\* A mutant of WipeTarget that keeps it.
WipeTargetNever(t) == pindexMostWork' = [pindexMostWork EXCEPT ![t] = @]

\* "Wipe cache, we may need another branch now."
WipeTarget(t) == pindexMostWork' = [pindexMostWork EXCEPT ![t] = NoBlock]

\* ConnectTip when ConnectBlock rejects the block: InvalidBlockFound, and
\* ActivateBestChain forgets its target.
StepConnectInvalid(t, b) ==
    /\ csMain = t /\ pc[t] = "step"
    /\ IsNext(t, b)
    /\ b \in BadConnect
    /\ status' = [status EXCEPT ![b] = SetFailed(@, "VALID")]
    /\ dirty' = dirty \cup {b}
    /\ candidates' = candidates \ {b}
    /\ csMain' = NoThread
    /\ pc' = [pc EXCEPT ![t] = "activate"]
    /\ WipeTarget(t)
    /\ pindexOldTip' = NoBlock
    /\ UNCHANGED <<chainTx, nSequenceId, nBlockSequenceId, unlinked, tip, pindexInvalid, shutdown>>

\* PruneBlockIndexCandidates with newTip as chainActive.Tip().
PruneBlockIndexCandidates(newTip) ==
    {c \in candidates : ~WorkLess(nSequenceId, c, newTip)}

\* A mutant of ConnectedStatus that writes no undo data.
ConnectedStatusNoUndo(s) == RaiseValidity(s, VALID_SCRIPTS)

\* ConnectBlock writes undo data and raises the validity (RaiseValidity does
\* nothing for a block marked failed).
ConnectedStatus(s) == RaiseValidity([s EXCEPT !.undo = TRUE], VALID_SCRIPTS)

\* ConnectTip when the block is good: the tip moves, worse candidates go.  The step ends as soon as the new tip has more
\* work than the old one, or at the target.
StepConnectTip(t, b) ==
    /\ csMain = t /\ pc[t] = "step"
    /\ IsNext(t, b)
    /\ b \notin BadConnect
    /\ status' = [status EXCEPT ![b] = ConnectedStatus(@)]
    /\ dirty' = IF ~status[b].undo \/ ~IsValid(b, VALID_SCRIPTS) THEN dirty \cup {b} ELSE dirty
    /\ tip' = b
    /\ candidates' = PruneBlockIndexCandidates(b)
    /\ IF nChainWork[b] > nChainWork[pindexOldTip] \/ b = pindexMostWork[t]
       THEN EndIteration(t, b)
       ELSE UNCHANGED threads
    /\ UNCHANGED <<chainTx, nSequenceId, nBlockSequenceId, unlinked, shutdown>>

-----------------------------------------------------------------------------
(* The invalidateblock and reconsiderblock RPCs.                            *)

InvalidateBlock(t, b) ==
    /\ csMain = NoThread /\ pc[t] = "idle"
    /\ b \in InIndex \cap Invalidatable
    /\ status' = [status EXCEPT ![b] = SetFailed(@, "VALID")]
    /\ dirty' = dirty \cup {b}
    /\ candidates' = candidates \ {b}
    /\ csMain' = t
    /\ pc' = [pc EXCEPT ![t] = "invalidate"]
    /\ pindexInvalid' = b
    /\ UNCHANGED <<chainTx, nSequenceId, nBlockSequenceId, unlinked, tip,
                   pindexMostWork, pindexOldTip, shutdown>>

\* InvalidateBlock's loop: mark the tip and disconnect it.
InvalidateDisconnectTip(t) ==
    /\ csMain = t /\ pc[t] = "invalidate"
    /\ pindexInvalid \in ChainActive
    /\ status' = [status EXCEPT ![tip] = SetFailed(@, "CHILD")]
    /\ dirty' = dirty \cup {tip}
    /\ candidates' = candidates \ {tip}
    /\ tip' = pprev[tip]
    /\ UNCHANGED <<chainTx, nSequenceId, nBlockSequenceId, unlinked, threads, shutdown>>

\* "The resulting new best tip may not be in setBlockIndexCandidates anymore, so
\* add it again", with everything else that is at least as good.
RestoredCandidates ==
    {x \in chainTx : IsValid(x, VALID_TRANSACTIONS) /\ ~WorkLess(nSequenceId, x, tip)}

\* The rest of InvalidateBlock, and the call of ActivateBestChain after it.
InvalidateFinish(t) ==
    /\ csMain = t /\ pc[t] = "invalidate"
    /\ pindexInvalid \notin ChainActive
    /\ candidates' = candidates \cup RestoredCandidates
    /\ csMain' = NoThread
    /\ pc' = [pc EXCEPT ![t] = "activate"]
    /\ pindexInvalid' = NoBlock
    /\ UNCHANGED <<index, tip, pindexMostWork, pindexOldTip, shutdown>>

\* The descendants of b that are not valid, header-only ones too.
InvalidDescendants(b) ==
    {x \in InIndex : ~IsValid(x, VALID_TRANSACTIONS) /\ b \in Ancestors[x]}

\* Mutants: descendants keep their flags; nothing becomes a candidate again.
ReconsiderClearedNoDescendants(b) == {x \in Ancestors[b] : Failed(x)}
ReconsideredCandidatesNone(b) == {x \in {b} : FALSE}

\* The blocks ReconsiderBlock takes the failed flags from: those descendants,
\* and the failed ancestors.
ReconsiderCleared(b) == InvalidDescendants(b) \cup {x \in Ancestors[b] : Failed(x)}

\* The descendants it makes candidates again.
ReconsideredCandidates(b) ==
    {x \in InvalidDescendants(b) \cap chainTx :
        status[x].valid >= VALID_TRANSACTIONS /\ WorkLess(nSequenceId, tip, x)}

\* reconsiderblock, up to its call of ActivateBestChain.
ReconsiderBlock(t, b) ==
    /\ csMain = NoThread /\ pc[t] = "idle"
    /\ b \in InIndex \cap Reconsiderable
    /\ status' = [x \in Block |-> IF x \in ReconsiderCleared(b)
                                 THEN [status[x] EXCEPT !.failed = {}] ELSE status[x]]
    /\ dirty' = dirty \cup ReconsiderCleared(b)
    /\ candidates' = candidates \cup ReconsideredCandidates(b)
    /\ pc' = [pc EXCEPT ![t] = "activate"]
    /\ UNCHANGED <<chainTx, nSequenceId, nBlockSequenceId, unlinked, tip,
                   csMain, pindexMostWork, pindexOldTip, pindexInvalid, shutdown>>

-----------------------------------------------------------------------------
\* What thread t does while it is inside a handler.
Proceed(t) ==
    \/ TakeLock(t)
    \/ FindMostWorkChain(t)
    \/ DropFailedCandidate(t)
    \/ AlreadyThere(t)
    \/ ReorgTooLong(t)
    \/ BeginStep(t)
    \/ StepDisconnectTip(t)
    \/ \E b \in Block : StepConnectInvalid(t, b) \/ StepConnectTip(t, b)
    \/ InvalidateDisconnectTip(t)
    \/ InvalidateFinish(t)

Next ==
    \/ \E b \in Block : AcceptBlockHeader(b)
    \/ \E t \in Thread, b \in Block, fRequested \in BOOLEAN :
          \/ BlockIgnored(t, b, fRequested)
          \/ BlockRefused(t, b, fRequested)
          \/ BlockStored(t, b, fRequested)
    \/ \E t \in Thread, b \in Block :
          \/ InvalidateBlock(t, b)
          \/ ReconsiderBlock(t, b)
    \/ \E t \in Thread : Proceed(t)

Spec == Init /\ [][Next]_chainVars

\* A thread inside a handler keeps running, and gets cs_main after finitely many
\* attempts: the lock is a mutex the operating system hands out, and every
\* holder releases it.  Nobody is obliged to send blocks.
FairSpec == Spec /\ \A t \in Thread : SF_chainVars(Proceed(t))
-----------------------------------------------------------------------------
(* Properties.  The asserts of CheckBlockIndex (src/main.cpp) that relate   *)
(* several pieces of state, and what the comments around the handlers       *)
(* promise.                                                                 *)

\* nChainTx # 0 only for blocks whose whole ancestry has been received and
\* linked, and nSequenceId # 0 only for those.
LinkedSound ==
    /\ \A b \in chainTx : \A a \in Ancestors[b] : a \in chainTx /\ status[a].data
    /\ \A b \in Block \ chainTx : nSequenceId[b] = 0

\* And it is set for all of them, whatever the order the blocks arrived in.
LinkedComplete ==
    \A b \in Block : (\A a \in Ancestors[b] : status[a].data) => b \in chainTx

\* mapBlocksUnlinked holds only blocks we have whose ancestry has a gap.
UnlinkedSound == \A b \in unlinked : status[b].data /\ b \notin chainTx

\* A candidate is linked and never sorts worse than the tip.
CandidatesSound ==
    \A c \in candidates : c \in chainTx /\ ~WorkLess(nSequenceId, c, tip)

AllIdle == \A t \in Thread : pc[t] = "idle"

\* With nobody at work, every linked block without a failed ancestor that sorts at
\* least as good as the tip is a candidate, the tip too.  (A node that gives up on
\* a reorganisation half-way, because the rest of it is too long, keeps a tip
\* below candidates that are pruned already.)
CandidatesComplete ==
    AllIdle /\ ~shutdown => \A b \in chainTx :
        (\A a \in Ancestors[b] : ~Failed(a)) /\ ~WorkLess(nSequenceId, b, tip)
            => b \in candidates

\* The assert at the end of PruneBlockIndexCandidates, and the reason that
\* FindMostWorkChain never returns NULL.
CandidatesNonEmpty == pindexInvalid = NoBlock => candidates # {}

\* A failed flag is never left on a block without an invalid block at or below it.
FailedJustified ==
    \A b \in Block : Failed(b) => \E a \in Ancestors[b] : "VALID" \in status[a].failed

\* Every block of the active chain but genesis can be disconnected: its data and
\* its undo data exist, so DisconnectTip never fails for want of them.
ActiveChainDisconnectable ==
    \A b \in ChainActive \ {Genesis} : status[b].data /\ status[b].undo

\* "The result is either failure or an activated best chain": when every
\* ActivateBestChain has returned, no linked block without a failed ancestor has
\* more work than the tip, unless the node gave up on a reorganisation that was
\* too long.
BestChainActivated ==
    AllIdle /\ ~shutdown =>
        \A b \in chainTx : (\A a \in Ancestors[b] : ~Failed(a))
                                => nChainWork[b] <= nChainWork[tip]

\* A reorganisation never goes more than MAX_REORG_LENGTH blocks below the tip
\* it started from, whatever other threads did since the target was chosen.
ReorgBounded ==
    [][\A t \in Thread : StepDisconnectTip(t)
            => nHeight[pindexOldTip] - nHeight[tip'] <= MaxReorg]_chainVars

(* The inductive invariant behind the theorems of ChainProofs.              *)

\* A thread past the top of the loop holds cs_main and has a target where it
\* needs one; targets of waiting threads are linked, however stale they are.
ThreadsConsistent ==
    \A t \in Thread :
        /\ pc[t] \in {"find", "check", "step", "invalidate"} => csMain = t
        /\ pc[t] \in {"check", "step"} => pindexMostWork[t] # NoBlock
        /\ pindexMostWork[t] # NoBlock => pindexMostWork[t] \in chainTx
        /\ pc[t] = "invalidate" => pindexInvalid \in Block \ {Genesis}

\* While a step disconnects, it is on the branch of the tip it started from, and
\* the fork it heads for is within the bound.
StepWithinBound ==
    \A t \in Thread : pc[t] = "step" =>
        /\ pindexOldTip \in Block
        /\ nHeight[pindexOldTip] - nHeight[FindFork(pindexOldTip, pindexMostWork[t])] <= MaxReorg
        /\ tip \notin Ancestors[pindexMostWork[t]] => tip \in Ancestors[pindexOldTip]

\* Between any two steps of any threads, the pieces fit together: linked blocks,
\* candidates, targets and the active chain.
ChainInv ==
    /\ TypeOK
    /\ LinkedSound
    /\ UnlinkedSound
    /\ CandidatesSound
    /\ tip \in chainTx
    /\ ActiveChainDisconnectable
    /\ ThreadsConsistent
    /\ StepWithinBound

\* A thread that has entered a handler leaves it, if the operator does not keep
\* invalidating blocks: neither a failing reorganisation nor another thread's
\* blocks keep ActivateBestChain looping for ever.
ActivationTerminates == \A t \in Thread : pc[t] # "idle" ~> pc[t] = "idle"
=============================================================================
