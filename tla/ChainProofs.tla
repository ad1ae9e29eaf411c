----------------------------- MODULE ChainProofs -----------------------------
(***************************************************************************)
(* Theorems about ChainState, for every block tree, every set of threads    *)
(* and every bound, and about ChainDisk, for every place a crash can fall.  *)
(* Every handler of ChainDisk is a step of ChainState, so the invariants    *)
(* of the first part hold while the process is up; what the second part     *)
(* adds is what the disk holds meanwhile, and that a restart rebuilds those *)
(* invariants from it.                                                      *)
(***************************************************************************)
EXTENDS ChainDisk, BlockTreeProofs, FiniteSetTheorems, SequenceTheorems, TLAPS

(***************************************************************************)
(* Status words.                                                            *)
(***************************************************************************)

\* RaiseValidity changes nothing but the validity level, and that to a level.
LEMMA RaiseValidityLemma ==
    ASSUME NEW s \in BlockStatus, NEW n \in {VALID_TREE, VALID_TRANSACTIONS, VALID_SCRIPTS}
    PROVE  /\ RaiseValidity(s, n) \in BlockStatus
           /\ RaiseValidity(s, n).failed = s.failed
           /\ RaiseValidity(s, n).data = s.data
           /\ RaiseValidity(s, n).undo = s.undo
  BY DEF RaiseValidity, BlockStatus, VALID_TREE, VALID_TRANSACTIONS, VALID_SCRIPTS

\* SetFailed adds a failed flag and changes nothing else.
LEMMA SetFailedLemma ==
    ASSUME NEW s \in BlockStatus, NEW f \in {"VALID", "CHILD"}
    PROVE  /\ SetFailed(s, f) \in BlockStatus
           /\ SetFailed(s, f).valid = s.valid
           /\ SetFailed(s, f).data = s.data
           /\ SetFailed(s, f).undo = s.undo
  BY DEF SetFailed, BlockStatus

\* ConnectedStatus sets the undo flag and keeps the data flag.
LEMMA ConnectedStatusLemma ==
    ASSUME NEW s \in BlockStatus
    PROVE  /\ ConnectedStatus(s) \in BlockStatus
           /\ ConnectedStatus(s).data = s.data
           /\ ConnectedStatus(s).undo = TRUE
  <1> DEFINE s1 == [s EXCEPT !.undo = TRUE]
  <1>1. s1 \in BlockStatus /\ s1.data = s.data /\ s1.undo = TRUE
    BY DEF BlockStatus
  <1>2. QED
    BY <1>1, RaiseValidityLemma DEF ConnectedStatus

\* AddToBlockIndex yields an index in which every entry keeps its data, undo and
\* failed flags.
LEMMA AddToBlockIndexLemma ==
    ASSUME TypeOK, NEW b \in Block
    PROVE  /\ AddToBlockIndex(b) \in [Block -> BlockStatus]
           /\ \A x \in Block : /\ AddToBlockIndex(b)[x].data = status[x].data
                               /\ AddToBlockIndex(b)[x].undo = status[x].undo
                               /\ AddToBlockIndex(b)[x].failed = status[x].failed
  BY RaiseValidityLemma DEF AddToBlockIndex, TypeOK

(***************************************************************************)
(* Type correctness.                                                        *)
(***************************************************************************)

\* TypeOK alone is not inductive: pprev[tip] is a block only because a step never
\* disconnects genesis.  So the type is proved as a part of ChainInv; what
\* follows are the facts about the index each action needs.

\* The actions that give no block data, take none away and link nothing preserve
\* LinkedSound and UnlinkedSound.
LEMMA LinksPreserved ==
    ASSUME LinkedSound, UnlinkedSound, TypeOK, TypeOK',
           UNCHANGED <<chainTx, nSequenceId, unlinked>>,
           \A x \in Block : status'[x].data = status[x].data
    PROVE  LinkedSound' /\ UnlinkedSound'
  BY DEF LinkedSound, UnlinkedSound, TypeOK, TreeAssumption

\* The index, the tip and the candidates are untouched: what is left to show is
\* about the threads.
LEMMA SameChain ==
    ASSUME ChainInv, TypeOK', UNCHANGED <<index, tip, candidates>>
    PROVE  LinkedSound' /\ UnlinkedSound' /\ CandidatesSound' /\ tip' \in chainTx'
           /\ ActiveChainDisconnectable'
  BY DEF ChainInv, index, LinkedSound, UnlinkedSound, CandidatesSound, WorkLess,
         ActiveChainDisconnectable, ChainActive

LEMMA TakeLockInv ==
    ASSUME ChainInv, NEW t \in Thread, TakeLock(t)
    PROVE  ChainInv'
  <1> USE ChainStateAssumption DEF ChainInv, TakeLock
  <1>1. TypeOK'
    BY DEF TypeOK, index
  <1>2. ThreadsConsistent'
    BY DEF TypeOK, ThreadsConsistent, index
  <1>3. StepWithinBound'
    BY DEF TypeOK, StepWithinBound, ThreadsConsistent
  <1>4. QED
    BY <1>1, <1>2, <1>3, SameChain

LEMMA FindMostWorkChainInv ==
    ASSUME ChainInv, NEW t \in Thread, FindMostWorkChain(t)
    PROVE  ChainInv'
  <1> USE ChainStateAssumption DEF ChainInv, FindMostWorkChain
  <1>1. TypeOK'
    BY DEF TypeOK, index
  <1>2. ThreadsConsistent'
    BY TreeAssumption DEF TypeOK, ThreadsConsistent, index, CandidatesSound
  <1>3. StepWithinBound'
    BY DEF TypeOK, StepWithinBound, ThreadsConsistent
  <1>4. QED
    BY <1>1, <1>2, <1>3, SameChain

\* ActivateBestChain's ways out with the chain as it was.
LEMMA ReturnInv ==
    ASSUME ChainInv, NEW t \in Thread, csMain = t, Return(t),
           UNCHANGED <<index, tip, candidates>>, shutdown' \in BOOLEAN
    PROVE  ChainInv'
  <1> USE ChainStateAssumption DEF ChainInv, Return
  <1>1. TypeOK'
    BY DEF TypeOK, index
  <1>2. ThreadsConsistent'
    BY DEF TypeOK, ThreadsConsistent, index
  <1>3. StepWithinBound'
    BY DEF TypeOK, StepWithinBound, ThreadsConsistent
  <1>4. QED
    BY <1>1, <1>2, <1>3, SameChain

LEMMA BeginStepInv ==
    ASSUME ChainInv, NEW t \in Thread, BeginStep(t)
    PROVE  ChainInv'
  <1> USE ChainStateAssumption DEF ChainInv, BeginStep
  <1>1. TypeOK'
    BY DEF TypeOK, index
  <1>2. ThreadsConsistent'
    BY DEF TypeOK, ThreadsConsistent, index
  <1>3. StepWithinBound'
    BY TreeFacts DEF TypeOK, StepWithinBound, ThreadsConsistent, ReorgLength
  <1>4. QED
    BY <1>1, <1>2, <1>3, SameChain

\* The same when flags other than data and undo change, and new candidates are
\* linked and at least as good as the tip.
LEMMA SameData ==
    ASSUME ChainInv, TypeOK', UNCHANGED <<chainTx, nSequenceId, unlinked, tip>>,
           \A x \in Block : status'[x].data = status[x].data /\ status'[x].undo = status[x].undo,
           \A c \in candidates' : \/ c \in candidates
                                  \/ c \in chainTx /\ ~WorkLess(nSequenceId, c, tip)
    PROVE  LinkedSound' /\ UnlinkedSound' /\ CandidatesSound' /\ tip' \in chainTx'
           /\ ActiveChainDisconnectable'
  <1> USE DEF ChainInv
  <1>1. LinkedSound' /\ UnlinkedSound'
    BY LinksPreserved
  <1>2. CandidatesSound'
    BY DEF CandidatesSound, WorkLess
  <1>3. ActiveChainDisconnectable'
    BY TreeAssumption DEF ActiveChainDisconnectable, ChainActive, TypeOK
  <1>4. QED
    BY <1>1, <1>2, <1>3

\* A thread enters ActivateBestChain, or nobody moves at all.
LEMMA EnterActivate ==
    ASSUME ChainInv, TypeOK', UNCHANGED <<chainTx, tip, csMain, pindexMostWork, pindexOldTip, pindexInvalid>>,
           NEW t \in Thread, pc' = pc \/ pc' = [pc EXCEPT ![t] = "activate"]
    PROVE  ThreadsConsistent' /\ StepWithinBound'
  BY DEF ChainInv, TypeOK, ThreadsConsistent, StepWithinBound

LEMMA AcceptBlockHeaderInv ==
    ASSUME ChainInv, NEW b \in Block, AcceptBlockHeader(b)
    PROVE  ChainInv'
  <1> USE DEF ChainInv, AcceptBlockHeader, threads
  <1>1. TypeOK'
    BY AddToBlockIndexLemma DEF TypeOK
  <1>2. ThreadsConsistent' /\ StepWithinBound'
    BY DEF ThreadsConsistent, StepWithinBound
  <1>3. QED
    BY <1>1, <1>2, AddToBlockIndexLemma, SameData

LEMMA BlockIgnoredInv ==
    ASSUME ChainInv, NEW t \in Thread, NEW b \in Block, NEW r \in BOOLEAN, BlockIgnored(t, b, r)
    PROVE  ChainInv'
  <1> USE DEF ChainInv, BlockIgnored
  <1>1. TypeOK'
    BY AddToBlockIndexLemma DEF TypeOK
  <1>2. QED
    BY <1>1, EnterActivate, AddToBlockIndexLemma, SameData

LEMMA BlockRefusedInv ==
    ASSUME ChainInv, NEW t \in Thread, NEW b \in Block, NEW r \in BOOLEAN, BlockRefused(t, b, r)
    PROVE  ChainInv'
  <1> USE DEF ChainInv
  <1> DEFINE added == AddToBlockIndex(b)
  <1>1. /\ added \in [Block -> BlockStatus]
        /\ \A x \in Block : added[x].data = status[x].data /\ added[x].undo = status[x].undo
    BY AddToBlockIndexLemma
  <1>2. status' = [added EXCEPT ![b] = SetFailed(added[b], "VALID")]
    BY DEF BlockRefused
  <1> HIDE DEF added
  <1>3. /\ status' \in [Block -> BlockStatus]
        /\ \A x \in Block : status'[x].data = status[x].data /\ status'[x].undo = status[x].undo
    BY <1>1, <1>2, SetFailedLemma
  <1>4. TypeOK'
    BY <1>3 DEF TypeOK, BlockRefused, threads
  <1>5. QED
    BY <1>3, <1>4, EnterActivate, SameData DEF BlockRefused, threads

LEMMA DropFailedCandidateInv ==
    ASSUME ChainInv, NEW t \in Thread, DropFailedCandidate(t)
    PROVE  ChainInv'
  <1> USE DEF ChainInv, DropFailedCandidate, threads
  <1>1. /\ status' \in [Block -> BlockStatus]
        /\ \A x \in Block : status'[x].data = status[x].data /\ status'[x].undo = status[x].undo
    BY SetFailedLemma DEF TypeOK
  <1>2. candidates' \subseteq candidates
    OBVIOUS
  <1>3. TypeOK'
    BY <1>1, <1>2 DEF TypeOK
  <1>4. QED
    BY <1>1, <1>2, <1>3, EnterActivate, SameData

LEMMA StepConnectInvalidInv ==
    ASSUME ChainInv, NEW t \in Thread, NEW b \in Block, StepConnectInvalid(t, b)
    PROVE  ChainInv'
  <1> USE ChainStateAssumption DEF ChainInv, StepConnectInvalid, WipeTarget
  <1>1. /\ status' \in [Block -> BlockStatus]
        /\ \A x \in Block : status'[x].data = status[x].data /\ status'[x].undo = status[x].undo
    BY SetFailedLemma DEF TypeOK
  <1>2. TypeOK'
    BY <1>1 DEF TypeOK
  <1>3. ThreadsConsistent' /\ StepWithinBound'
    BY DEF TypeOK, ThreadsConsistent, StepWithinBound
  <1>4. QED
    BY <1>1, <1>2, <1>3, SameData

LEMMA InvalidateBlockInv ==
    ASSUME ChainInv, NEW t \in Thread, NEW b \in Block, InvalidateBlock(t, b)
    PROVE  ChainInv'
  <1> USE ChainStateAssumption DEF ChainInv, InvalidateBlock
  <1>1. /\ status' \in [Block -> BlockStatus]
        /\ \A x \in Block : status'[x].data = status[x].data /\ status'[x].undo = status[x].undo
    BY SetFailedLemma DEF TypeOK
  <1>2. TypeOK'
    BY <1>1 DEF TypeOK
  <1>3. ThreadsConsistent' /\ StepWithinBound'
    BY DEF TypeOK, ThreadsConsistent, StepWithinBound
  <1>4. QED
    BY <1>1, <1>2, <1>3, SameData

LEMMA InvalidateFinishInv ==
    ASSUME ChainInv, NEW t \in Thread, InvalidateFinish(t)
    PROVE  ChainInv'
  <1> USE ChainStateAssumption DEF ChainInv, InvalidateFinish, RestoredCandidates, index
  <1>1. TypeOK'
    BY DEF TypeOK
  <1>2. ThreadsConsistent' /\ StepWithinBound'
    BY DEF TypeOK, ThreadsConsistent, StepWithinBound
  <1>3. QED
    BY <1>1, <1>2, SameData

\* WorkLess is asymmetric.
LEMMA WorkLessAsymmetric ==
    ASSUME NEW seq \in [Block -> Nat], NEW a \in Block, NEW b \in Block, WorkLess(seq, a, b)
    PROVE  ~WorkLess(seq, b, a)
  BY TreeAssumption DEF WorkLess

LEMMA ReconsiderBlockInv ==
    ASSUME ChainInv, NEW t \in Thread, NEW b \in Block, ReconsiderBlock(t, b)
    PROVE  ChainInv'
  <1> USE DEF ChainInv, ReconsiderBlock
  <1>1. /\ status' \in [Block -> BlockStatus]
        /\ \A x \in Block : status'[x].data = status[x].data /\ status'[x].undo = status[x].undo
    BY DEF TypeOK, BlockStatus
  <1>2. ReconsiderCleared(b) \subseteq Block
    BY TreeAssumption DEF ReconsiderCleared, InvalidDescendants, InIndex
  <1>3. \A c \in ReconsideredCandidates(b) : c \in chainTx /\ ~WorkLess(nSequenceId, c, tip)
    BY WorkLessAsymmetric DEF ReconsideredCandidates, TypeOK
  <1>4. TypeOK'
    BY <1>1, <1>2, <1>3 DEF TypeOK
  <1>5. QED
    BY <1>1, <1>3, <1>4, EnterActivate, SameData

(***************************************************************************)
(* Moving the tip.                                                          *)
(***************************************************************************)

\* The parent of a linked block other than genesis is linked and has less work.
LEMMA ParentLinked ==
    ASSUME TypeOK, LinkedSound, NEW b \in chainTx, b # Genesis
    PROVE  /\ pprev[b] \in chainTx
           /\ pprev[b] \in Block
           /\ nChainWork[pprev[b]] < nChainWork[b]
           /\ Ancestors[pprev[b]] \subseteq Ancestors[b]
  <1>1. b \in Block \ {Genesis}
    BY DEF TypeOK
  <1>2. pprev[b] \in Block /\ nChainWork[pprev[b]] < nChainWork[b]
        /\ Ancestors[b] = Ancestors[pprev[b]] \cup {b}
    BY <1>1, TreeAssumption
  <1>3. pprev[b] \in Ancestors[b]
    BY <1>2, TreeFacts
  <1>4. QED
    BY <1>2, <1>3 DEF LinkedSound

\* Disconnecting the tip keeps the chain and the candidates sound.
LEMMA TipDown ==
    ASSUME ChainInv, TypeOK', UNCHANGED <<chainTx, nSequenceId, unlinked>>,
           tip # Genesis, tip' = pprev[tip], candidates' \subseteq candidates,
           \A x \in Block : status'[x].data = status[x].data /\ status'[x].undo = status[x].undo
    PROVE  LinkedSound' /\ UnlinkedSound' /\ CandidatesSound' /\ tip' \in chainTx'
           /\ ActiveChainDisconnectable'
  <1> USE DEF ChainInv
  <1>1. LinkedSound' /\ UnlinkedSound'
    BY LinksPreserved
  <1>2. tip' \in chainTx' /\ tip' \in Block /\ nChainWork[tip'] < nChainWork[tip]
        /\ Ancestors[tip'] \subseteq Ancestors[tip]
    BY ParentLinked
  <1>3. CandidatesSound'
    <2> SUFFICES ASSUME NEW c \in candidates' PROVE c \in chainTx' /\ ~WorkLess(nSequenceId', c, tip')
      BY DEF CandidatesSound
    <2>1. c \in chainTx /\ c \in Block /\ ~WorkLess(nSequenceId, c, tip)
      BY DEF CandidatesSound, TypeOK
    <2>2. nChainWork[c] >= nChainWork[tip]
      BY <2>1, TreeAssumption DEF WorkLess, TypeOK
    <2>3. QED
      BY <1>2, <2>1, <2>2, TreeAssumption DEF WorkLess, TypeOK
  <1>4. ActiveChainDisconnectable'
    BY <1>2, TreeAssumption DEF ActiveChainDisconnectable, ChainActive, TypeOK
  <1>5. QED
    BY <1>1, <1>2, <1>3, <1>4

\* While a step disconnects, the tip is strictly above the fork, so the parent is
\* not below it.
LEMMA AboveFork ==
    ASSUME ChainInv, NEW t \in Thread, pc[t] = "step", tip \notin Ancestors[pindexMostWork[t]]
    PROVE  /\ tip # Genesis
           /\ pprev[tip] \in Block
           /\ pprev[tip] \in Ancestors[pindexOldTip]
           /\ nHeight[pindexOldTip] - nHeight[pprev[tip]] <= MaxReorg
  <1> USE DEF ChainInv
  <1> DEFINE target == pindexMostWork[t]
             f == FindFork(pindexOldTip, target)
  <1>1. target \in Block /\ pindexOldTip \in Block /\ tip \in Block
    BY DEF TypeOK, ThreadsConsistent, StepWithinBound
  <1>2. IsFork(f, pindexOldTip, target) /\ f \in Block
    BY <1>1, TreeFacts DEF FindFork
  <1>3. tip # Genesis /\ tip \in Ancestors[pindexOldTip]
    BY <1>1, TreeFacts DEF StepWithinBound
  <1>4. pprev[tip] \in Block /\ nHeight[tip] = nHeight[pprev[tip]] + 1
        /\ pprev[tip] \in Ancestors[tip]
    BY <1>1, <1>3, TreeAssumption, TreeFacts
  <1>5. f \in Ancestors[pindexOldTip] /\ f \in Ancestors[target]
    BY <1>2 DEF IsFork
  <1>6. ~(nHeight[tip] <= nHeight[f])
    <2> SUFFICES ASSUME nHeight[tip] <= nHeight[f] PROVE FALSE
      OBVIOUS
    <2>1. tip \in Ancestors[f]
      BY <1>1, <1>3, <1>5, TreeFacts
    <2>2. Ancestors[f] \subseteq Ancestors[target]
      BY <1>1, <1>5, TreeFacts
    <2>3. QED
      BY <2>1, <2>2
  <1>7. nHeight[pprev[tip]] >= nHeight[f]
    BY <1>1, <1>2, <1>4, <1>6, TreeAssumption
  <1>8. nHeight[pindexOldTip] - nHeight[f] <= MaxReorg
    BY DEF StepWithinBound
  <1>9. nHeight[pindexOldTip] - nHeight[pprev[tip]] <= MaxReorg
    BY <1>1, <1>2, <1>4, <1>7, <1>8, TreeAssumption, ChainStateAssumption
  <1>10. pprev[tip] \in Ancestors[pindexOldTip]
    BY <1>1, <1>3, <1>4, TreeFacts
  <1>11. QED
    BY <1>3, <1>4, <1>9, <1>10

LEMMA StepDisconnectTipInv ==
    ASSUME ChainInv, NEW t \in Thread, StepDisconnectTip(t)
    PROVE  ChainInv'
  <1> USE ChainStateAssumption DEF ChainInv, StepDisconnectTip, index, threads, Return
  <1>1. tip # Genesis /\ pprev[tip] \in Block /\ pprev[tip] \in Ancestors[pindexOldTip]
    BY AboveFork
  <1>2. TypeOK'
    BY <1>1 DEF TypeOK
  <1>3. ThreadsConsistent'
    BY DEF ThreadsConsistent, TypeOK
  <1>4. StepWithinBound'
    BY <1>1 DEF StepWithinBound, ThreadsConsistent, TypeOK
  <1>5. QED
    BY <1>1, <1>2, <1>3, <1>4, TipDown

LEMMA InvalidateDisconnectTipInv ==
    ASSUME ChainInv, NEW t \in Thread, InvalidateDisconnectTip(t)
    PROVE  ChainInv'
  <1> USE DEF ChainInv, InvalidateDisconnectTip, threads
  <1>1. tip # Genesis
    BY TreeAssumption DEF ThreadsConsistent, ChainActive
  <1>2. /\ status' \in [Block -> BlockStatus]
        /\ \A x \in Block : status'[x].data = status[x].data /\ status'[x].undo = status[x].undo
    BY SetFailedLemma DEF TypeOK
  <1>3. pprev[tip] \in Block
    BY <1>1, ParentLinked
  <1>4. TypeOK'
    BY <1>2, <1>3 DEF TypeOK
  <1>5. ThreadsConsistent' /\ StepWithinBound'
    BY DEF ThreadsConsistent, StepWithinBound
  <1>6. QED
    BY <1>1, <1>2, <1>4, <1>5, TipDown

LEMMA StepConnectTipInv ==
    ASSUME ChainInv, NEW t \in Thread, NEW b \in Block, StepConnectTip(t, b)
    PROVE  ChainInv'
  <1>0. /\ status' = [status EXCEPT ![b] = ConnectedStatus(status[b])]
        /\ status \in [Block -> BlockStatus]
    BY DEF StepConnectTip, ChainInv, TypeOK
  <1>1. /\ status' \in [Block -> BlockStatus]
        /\ \A x \in Block : status'[x].data = status[x].data
        /\ \A x \in Block \ {b} : status'[x].undo = status[x].undo
        /\ status'[b].undo = TRUE
    BY <1>0, ConnectedStatusLemma
  <1> USE ChainStateAssumption DEF ChainInv, StepConnectTip, threads
  <1>2. candidates' \subseteq candidates /\ \A c \in candidates' : ~WorkLess(nSequenceId, c, b)
    BY DEF PruneBlockIndexCandidates
  <1>3. TypeOK'
    BY <1>1, <1>2 DEF TypeOK, EndIteration, Return
  <1>4. LinkedSound' /\ UnlinkedSound'
    BY <1>1, <1>3, LinksPreserved
  <1>5. CandidatesSound'
    BY <1>2 DEF CandidatesSound, WorkLess
  <1>6. b \in Ancestors[pindexMostWork[t]] /\ pprev[b] = tip /\ pindexMostWork[t] \in chainTx
    BY DEF IsNext, ThreadsConsistent
  <1>7. b \in chainTx
    BY <1>6 DEF LinkedSound
  <1>8. b # Genesis /\ Ancestors[b] = Ancestors[tip] \cup {b}
    BY <1>6, TreeAssumption DEF TypeOK
  <1>9. ActiveChainDisconnectable'
    BY <1>1, <1>7, <1>8, TreeAssumption, TreeFacts
       DEF ActiveChainDisconnectable, ChainActive, LinkedSound, TypeOK
  <1>10. ThreadsConsistent'
    BY DEF ThreadsConsistent, TypeOK, EndIteration, Return
  <1>11. StepWithinBound'
    BY <1>6 DEF StepWithinBound, ThreadsConsistent, TypeOK, EndIteration, Return
  <1>12. QED
    BY <1>3, <1>4, <1>5, <1>7, <1>9, <1>10, <1>11

(***************************************************************************)
(* Receiving a block.                                                       *)
(***************************************************************************)

\* The blocks that get linked were not linked before, have their data (b has it
\* now), and so has everything below them; the set of linked blocks stays closed
\* under parents.
LEMMA LinkedLemma ==
    ASSUME TypeOK, LinkedSound, UnlinkedSound, NEW b \in Block \ {Genesis}, ~status[b].data
    PROVE  /\ Linked(b) \subseteq Block
           /\ Linked(b) \cap chainTx = {}
           /\ Linked(b) = {} \/ b \in Linked(b)
           /\ \A x \in Linked(b) : \A a \in Ancestors[x] :
                 /\ a \in chainTx \cup Linked(b)
                 /\ a = b \/ status[a].data
  <1>1. Linked(b) \subseteq Block
    BY DEF Linked, TypeOK
  <1>2. b \notin chainTx
    BY TreeFacts DEF LinkedSound
  <1>3. Linked(b) \cap chainTx = {}
    BY <1>2 DEF Linked, UnlinkedSound
  <1>4. ASSUME NEW x \in Linked(b), NEW a \in Ancestors[x]
        PROVE  a \in chainTx \cup Linked(b) /\ (a = b \/ status[a].data)
    <2>1. x \in Block /\ a \in Block /\ pprev[b] \in chainTx /\ pprev[b] \in Block
      BY <1>1, TreeAssumption DEF Linked, TypeOK
    <2>2. b \in Ancestors[x] /\ Ancestors[x] \ Ancestors[b] \subseteq unlinked
      BY DEF Linked
    <2>3. Ancestors[b] = Ancestors[pprev[b]] \cup {b}
      BY TreeAssumption
    <2>4. CASE a \in Ancestors[pprev[b]]
      BY <2>1, <2>4 DEF LinkedSound
    <2>5. CASE a = b
      BY <2>1, <2>3, <2>5, TreeFacts DEF Linked
    <2>6. CASE a \notin Ancestors[b]
      <3>1. a \in unlinked
        BY <2>2, <2>6
      <3>2. b \in Ancestors[a]
        <4>1. nHeight[a] \in Nat /\ nHeight[b] \in Nat
          BY <2>1, TreeAssumption
        <4>2. ~(nHeight[a] <= nHeight[b])
          BY <2>1, <2>2, <2>6, TreeFacts
        <4>3. nHeight[b] <= nHeight[a]
          BY <4>1, <4>2
        <4>4. QED
          BY <2>1, <2>2, <4>3, TreeFacts
      <3>3. Ancestors[a] \subseteq Ancestors[x]
        BY <2>1, TreeFacts
      <3>4. a \in Linked(b)
        BY <2>1, <2>2, <3>1, <3>2, <3>3 DEF Linked
      <3>5. QED
        BY <3>1, <3>4 DEF UnlinkedSound
    <2>7. QED
      BY <2>3, <2>4, <2>5, <2>6
  <1>5. Linked(b) = {} \/ b \in Linked(b)
    BY TreeFacts DEF Linked
  <1>6. QED
    BY <1>1, <1>3, <1>4, <1>5

\* nBlockSequenceId advances by a natural number.
LEMMA LinkedCount ==
    ASSUME TypeOK, NEW b \in Block
    PROVE  IsFiniteSet(Linked(b)) /\ Cardinality(Linked(b)) \in Nat
  <1>1. Linked(b) \subseteq Block
    BY DEF Linked, TypeOK
  <1>2. QED
    BY <1>1, TreeAssumption, FS_Subset, FS_CardinalityType

LEMMA BlockStoredInv ==
    ASSUME ChainInv, NEW t \in Thread, NEW b \in Block, NEW r \in BOOLEAN, BlockStored(t, b, r)
    PROVE  ChainInv'
  <1> USE DEF ChainInv
  <1> DEFINE L == Linked(b)
             added == AddToBlockIndex(b)
             old == added[b]
  <1>1. ~status[b].data /\ b # Genesis
    <2>1. ~status[b].data
      BY DEF BlockStored, BlockWanted
    <2>2. status[Genesis].data
      BY TreeAssumption, TreeFacts DEF LinkedSound, TypeOK
    <2>3. QED
      BY <2>1, <2>2
  <1>2. /\ L \subseteq Block /\ L \cap chainTx = {}
        /\ \A x \in L : \A a \in Ancestors[x] : a \in chainTx \cup L /\ (a = b \/ status[a].data)
    BY <1>1, LinkedLemma
  <1>3. Cardinality(L) \in Nat
    BY LinkedCount
  <1>4. /\ added \in [Block -> BlockStatus]
        /\ \A x \in Block : added[x].data = status[x].data /\ added[x].undo = status[x].undo
    BY AddToBlockIndexLemma
  <1>5. status' = [added EXCEPT ![b] = RaiseValidity([old EXCEPT !.data = TRUE], VALID_TRANSACTIONS)]
    BY DEF BlockStored
  <1>6. /\ [old EXCEPT !.data = TRUE] \in BlockStatus
        /\ [old EXCEPT !.data = TRUE].data = TRUE
        /\ [old EXCEPT !.data = TRUE].undo = old.undo
    BY <1>4 DEF BlockStatus
  <1> HIDE DEF added
  <1>7. /\ status' \in [Block -> BlockStatus]
        /\ \A x \in Block : status'[x].undo = status[x].undo
        /\ \A x \in Block \ {b} : status'[x].data = status[x].data
        /\ status'[b].data = TRUE
    <2> DEFINE new == RaiseValidity([old EXCEPT !.data = TRUE], VALID_TRANSACTIONS)
    <2>1. new \in BlockStatus /\ new.data = TRUE /\ new.undo = old.undo
      BY <1>6, RaiseValidityLemma
    <2>2. status' = [added EXCEPT ![b] = new]
      BY <1>5
    <2> HIDE DEF new
    <2>3. /\ status' \in [Block -> BlockStatus] /\ status'[b] = new
          /\ \A x \in Block \ {b} : status'[x] = added[x]
      BY <1>4, <2>1, <2>2
    <2> QED
      BY <1>4, <2>1, <2>3
  <1>8. PICK ids \in QueueOrders(L) :
           nSequenceId' = [x \in Block |-> IF x \in L THEN ids[x] ELSE nSequenceId[x]]
    BY DEF BlockStored, ReceivedBlockTransactions
  <1>9. ids \in [L -> Nat]
    BY <1>3 DEF QueueOrders, TypeOK
  <1>10. /\ chainTx' = chainTx \cup L
         /\ nBlockSequenceId' = nBlockSequenceId + Cardinality(L)
         /\ candidates' = candidates \cup {x \in L : ~WorkLess(nSequenceId', x, tip)}
         /\ unlinked' = NewUnlinked(b, L)
         /\ dirty' = dirty \cup {b}
         /\ pc' = [pc EXCEPT ![t] = "activate"]
         /\ UNCHANGED <<tip, csMain, pindexMostWork, pindexOldTip, pindexInvalid, shutdown>>
    BY DEF BlockStored, ReceivedBlockTransactions
  <1>11. unlinked' \subseteq unlinked \cup {b}
    BY <1>10 DEF NewUnlinked
  <1>12. nSequenceId' \in [Block -> Nat] /\ \A x \in Block \ L : nSequenceId'[x] = nSequenceId[x]
    BY <1>8, <1>9 DEF TypeOK
  <1>13. TypeOK'
    BY <1>2, <1>3, <1>7, <1>10, <1>11, <1>12 DEF TypeOK
  <1>14. LinkedSound'
    BY <1>2, <1>7, <1>10, <1>12, TreeAssumption DEF LinkedSound, TypeOK
  <1>15. UnlinkedSound'
    <2> SUFFICES ASSUME NEW x \in unlinked' PROVE status'[x].data /\ x \notin chainTx'
      BY DEF UnlinkedSound
    <2>1. x \in Block /\ status'[x].data
      BY <1>7, <1>11 DEF UnlinkedSound, TypeOK
    <2>2. x \notin L
      BY <1>10 DEF NewUnlinked
    <2>3. x \notin chainTx
      BY <1>1, <1>11, TreeFacts DEF UnlinkedSound, LinkedSound
    <2>4. QED
      BY <1>10, <2>1, <2>2, <2>3
  <1>16. CandidatesSound'
    <2> SUFFICES ASSUME NEW c \in candidates' PROVE c \in chainTx' /\ ~WorkLess(nSequenceId', c, tip')
      BY DEF CandidatesSound
    <2>1. tip' = tip /\ tip \in Block \ L
      BY <1>2, <1>10 DEF TypeOK
    <2>2. CASE c \in candidates
      <3>1. c \in Block \ L /\ c \in chainTx
        BY <1>2, <2>2 DEF CandidatesSound, TypeOK
      <3>2. ~WorkLess(nSequenceId, c, tip)
        BY <2>2 DEF CandidatesSound
      <3>3. nSequenceId'[c] = nSequenceId[c] /\ nSequenceId'[tip] = nSequenceId[tip]
        BY <1>12, <2>1, <3>1
      <3>4. QED
        BY <1>10, <2>1, <3>1, <3>2, <3>3 DEF WorkLess
    <2>3. CASE c \in L /\ ~WorkLess(nSequenceId', c, tip)
      BY <1>10, <2>1, <2>3
    <2>4. QED
      BY <1>10, <2>2, <2>3
  <1>17. ActiveChainDisconnectable'
    BY <1>7, <1>10, TreeAssumption DEF ActiveChainDisconnectable, ChainActive, TypeOK
  <1>18. ThreadsConsistent' /\ StepWithinBound'
    BY <1>10 DEF ThreadsConsistent, StepWithinBound, TypeOK
  <1>19. QED
    BY <1>10, <1>13, <1>14, <1>15, <1>16, <1>17, <1>18

(***************************************************************************)
(* ChainInv is inductive.                                                   *)
(***************************************************************************)

LEMMA InitInv == Init => ChainInv
  <1> SUFFICES ASSUME Init PROVE ChainInv
    OBVIOUS
  <1> USE TreeAssumption, ChainStateAssumption DEF Init
  <1>1. TypeOK
    BY DEF TypeOK, UnknownStatus, BlockStatus, VALID_TREE, VALID_TRANSACTIONS, VALID_SCRIPTS
  <1>2. LinkedSound /\ UnlinkedSound
    BY DEF LinkedSound, UnlinkedSound, UnknownStatus
  <1>3. CandidatesSound
    BY DEF CandidatesSound, WorkLess
  <1>4. ActiveChainDisconnectable /\ ThreadsConsistent /\ StepWithinBound
    BY DEF ActiveChainDisconnectable, ChainActive, ThreadsConsistent, StepWithinBound
  <1>5. QED
    BY <1>1, <1>2, <1>3, <1>4 DEF ChainInv

LEMMA StutterInv == ChainInv /\ UNCHANGED chainVars => ChainInv'
  BY DEF ChainInv, chainVars, index, threads, TypeOK, LinkedSound, UnlinkedSound, CandidatesSound,
         WorkLess, ActiveChainDisconnectable, ChainActive, ThreadsConsistent, StepWithinBound

LEMMA NextInv == ChainInv /\ [Next]_chainVars => ChainInv'
  <1> SUFFICES ASSUME ChainInv, [Next]_chainVars PROVE ChainInv'
    OBVIOUS
  <1>1. CASE UNCHANGED chainVars
    BY <1>1, StutterInv
  <1>2. ASSUME NEW b \in Block, AcceptBlockHeader(b) PROVE ChainInv'
    BY <1>2, AcceptBlockHeaderInv
  <1>3. ASSUME NEW t \in Thread, NEW b \in Block, NEW r \in BOOLEAN,
               BlockIgnored(t, b, r) \/ BlockRefused(t, b, r) \/ BlockStored(t, b, r)
        PROVE  ChainInv'
    BY <1>3, BlockIgnoredInv, BlockRefusedInv, BlockStoredInv
  <1>4. ASSUME NEW t \in Thread, NEW b \in Block, InvalidateBlock(t, b) \/ ReconsiderBlock(t, b)
        PROVE  ChainInv'
    BY <1>4, InvalidateBlockInv, ReconsiderBlockInv
  <1>5. ASSUME NEW t \in Thread, Proceed(t) PROVE ChainInv'
    <2>1. CASE TakeLock(t)
      BY <2>1, TakeLockInv
    <2>2. CASE FindMostWorkChain(t)
      BY <2>2, FindMostWorkChainInv
    <2>3. CASE DropFailedCandidate(t)
      BY <2>3, DropFailedCandidateInv
    <2>4. CASE AlreadyThere(t)
      BY <2>4, ReturnInv DEF AlreadyThere, ChainInv, TypeOK
    <2>5. CASE ReorgTooLong(t)
      BY <2>5, ReturnInv DEF ReorgTooLong
    <2>6. CASE BeginStep(t)
      BY <2>6, BeginStepInv
    <2>7. CASE StepDisconnectTip(t)
      BY <2>7, StepDisconnectTipInv
    <2>8. CASE \E b \in Block : StepConnectInvalid(t, b) \/ StepConnectTip(t, b)
      BY <2>8, StepConnectInvalidInv, StepConnectTipInv
    <2>9. CASE InvalidateDisconnectTip(t)
      BY <2>9, InvalidateDisconnectTipInv
    <2>10. CASE InvalidateFinish(t)
      BY <2>10, InvalidateFinishInv
    <2>11. QED
      BY <1>5, <2>1, <2>2, <2>3, <2>4, <2>5, <2>6, <2>7, <2>8, <2>9, <2>10 DEF Proceed
  <1>6. QED
    BY <1>1, <1>2, <1>3, <1>4, <1>5 DEF Next

(***************************************************************************)
(* Failed flags.                                                            *)
(***************************************************************************)

\* The operator reconsiders a block that failed by itself, not one that hangs
\* from a failed block.  Otherwise ReconsiderBlock clears the failed ancestors of its
\* argument as well, but neither the flags of other branches above them, so that
\* FailedJustified does not hold, nor does it make these ancestors candidates again
\* (main.cpp:3495-3501), so that CandidatesComplete and BestChainActivated do not.
ReconsidersLowest ==
    \A b \in Reconsiderable :
        (Ancestors[b] \ {b}) \cap (BadBlock \cup BadConnect \cup Invalidatable) = {}

\* Where the flags come from, and which blocks can carry them.
FlagOrigins ==
    \A b \in Block :
        /\ "VALID" \in status[b].failed => b \in BadBlock \cup BadConnect \cup Invalidatable
        /\ Failed(b) => b \in InIndex
        /\ status[b].data => status[b].valid >= VALID_TRANSACTIONS

InvalidatingFlagged ==
    \A t \in Thread : pc[t] = "invalidate" => "VALID" \in status[pindexInvalid].failed

FailureInv == FlagOrigins /\ InvalidatingFlagged /\ FailedJustified

\* The level of a status word is one of four numbers, and raising it does not
\* lower it.
LEMMA Levels ==
    ASSUME NEW s \in BlockStatus
    PROVE  /\ s.valid \in Nat /\ s.failed \in SUBSET {"VALID", "CHILD"}
           /\ s.data \in BOOLEAN /\ s.undo \in BOOLEAN
           /\ RaiseValidity(s, VALID_TREE).valid >= s.valid
           /\ RaiseValidity(s, VALID_TRANSACTIONS).valid >= s.valid
           /\ RaiseValidity(s, VALID_SCRIPTS).valid >= s.valid
           /\ s.failed = {} => /\ RaiseValidity(s, VALID_TREE).valid >= VALID_TREE
                               /\ RaiseValidity(s, VALID_TRANSACTIONS).valid >= VALID_TRANSACTIONS
  BY DEF RaiseValidity, BlockStatus, VALID_TREE, VALID_TRANSACTIONS, VALID_SCRIPTS

LEMMA SetFailedFlag ==
    ASSUME NEW s \in BlockStatus, NEW f \in {"VALID", "CHILD"}
    PROVE  SetFailed(s, f).failed = s.failed \cup {f}
  BY DEF SetFailed, BlockStatus

\* A block stays in the index while its level is not lowered.
LEMMA StaysInIndex ==
    ASSUME TypeOK, TypeOK', \A x \in Block : status'[x].valid >= status[x].valid
    PROVE  \A x \in Block : x \in InIndex => x \in InIndex'
  BY Levels DEF InIndex, TypeOK, VALID_TREE

\* No action that leaves the flags alone and lowers no level can break it.
LEMMA FlagsKept ==
    ASSUME ChainInv, FailureInv, TypeOK',
           \A x \in Block : /\ status'[x].failed = status[x].failed
                            /\ status'[x].valid >= status[x].valid
                            /\ status'[x].data => status'[x].valid >= VALID_TRANSACTIONS,
           \A t \in Thread : pc'[t] = "invalidate" =>
                                 pc[t] = "invalidate" /\ pindexInvalid' = pindexInvalid
    PROVE  FailureInv'
  <1>1. \A x \in Block : Failed(x)' = Failed(x)
    BY DEF Failed
  <1>2. \A x \in Block : x \in InIndex => x \in InIndex'
    BY StaysInIndex DEF ChainInv
  <1>3. FlagOrigins'
    BY <1>1, <1>2 DEF FlagOrigins, FailureInv
  <1>4. InvalidatingFlagged'
    BY TreeAssumption DEF InvalidatingFlagged, FailureInv, ChainInv, ThreadsConsistent
  <1>5. FailedJustified'
    BY <1>1, TreeAssumption DEF FailedJustified, FailureInv
  <1>6. QED
    BY <1>3, <1>4, <1>5 DEF FailureInv

\* A flag is added to the blocks of S, each of which carries FAILED_VALID from now
\* on or hangs from a failed block.
LEMMA FlagsAdded ==
    ASSUME ChainInv, FailureInv, TypeOK', NEW S \in SUBSET Block, NEW f \in {"VALID", "CHILD"},
           \A x \in Block : /\ status'[x].failed = IF x \in S THEN status[x].failed \cup {f}
                                                              ELSE status[x].failed
                            /\ status'[x].valid >= status[x].valid
                            /\ status'[x].data => status'[x].valid >= VALID_TRANSACTIONS,
           \A x \in S : /\ x \in InIndex'
                        /\ f = "VALID" => x \in BadBlock \cup BadConnect \cup Invalidatable
                        /\ f = "CHILD" => \E a \in Ancestors[x] : Failed(a),
           \A t \in Thread : pc'[t] = "invalidate" =>
                                 \/ pc[t] = "invalidate" /\ pindexInvalid' = pindexInvalid
                                 \/ pindexInvalid' \in S /\ f = "VALID"
    PROVE  FailureInv'
  <1>1. \A x \in Block : x \in InIndex => x \in InIndex'
    BY StaysInIndex DEF ChainInv
  <1>2. FlagOrigins'
    <2> SUFFICES ASSUME NEW b \in Block
                 PROVE  /\ "VALID" \in status'[b].failed => b \in BadBlock \cup BadConnect \cup Invalidatable
                        /\ Failed(b)' => b \in InIndex'
                        /\ status'[b].data => status'[b].valid >= VALID_TRANSACTIONS
      BY DEF FlagOrigins
    <2>1. CASE b \in S
      BY <2>1 DEF FlagOrigins, FailureInv
    <2>2. CASE b \notin S
      BY <2>2, <1>1 DEF FlagOrigins, FailureInv, Failed
    <2>3. QED
      BY <2>1, <2>2
  <1>3. \A x \in Block : "VALID" \in status[x].failed => "VALID" \in status'[x].failed
    OBVIOUS
  <1>4. InvalidatingFlagged'
    BY <1>3, TreeAssumption DEF InvalidatingFlagged, FailureInv, ChainInv, ThreadsConsistent
  <1>5. FailedJustified'
    <2> SUFFICES ASSUME NEW b \in Block, Failed(b)'
                 PROVE  \E a \in Ancestors[b] : "VALID" \in status'[a].failed
      BY DEF FailedJustified
    <2>1. \A x \in Block : Failed(x) => \E a \in Ancestors[x] : a \in Block /\ "VALID" \in status[a].failed
      BY TreeAssumption DEF FailedJustified, FailureInv
    <2>2. CASE b \notin S
      BY <2>1, <2>2, <1>3 DEF Failed
    <2>3. CASE b \in S /\ f = "VALID"
      BY <2>3, TreeFacts
    <2>4. CASE b \in S /\ f = "CHILD"
      <3>1. PICK a \in Ancestors[b] : Failed(a)
        BY <2>4
      <3>2. a \in Block /\ Ancestors[a] \subseteq Ancestors[b]
        BY TreeAssumption, TreeFacts
      <3>3. PICK v \in Ancestors[a] : v \in Block /\ "VALID" \in status[v].failed
        BY <2>1, <3>1, <3>2
      <3>4. QED
        BY <1>3, <3>2, <3>3
    <2>5. QED
      BY <2>2, <2>3, <2>4
  <1>6. QED
    BY <1>2, <1>4, <1>5 DEF FailureInv

\* The actions that change no flag.
LEMMA UnflaggedSteps ==
    ASSUME ChainInv, ChainInv', FailureInv, NEW t \in Thread,
           \/ TakeLock(t) \/ FindMostWorkChain(t) \/ AlreadyThere(t) \/ ReorgTooLong(t)
           \/ BeginStep(t) \/ StepDisconnectTip(t) \/ InvalidateFinish(t)
    PROVE  FailureInv'
  <1>1. UNCHANGED status
    BY DEF TakeLock, FindMostWorkChain, AlreadyThere, ReorgTooLong, BeginStep, StepDisconnectTip,
           InvalidateFinish, index
  <1>2. \A u \in Thread : pc'[u] = "invalidate" =>
            pc[u] = "invalidate" /\ pindexInvalid' = pindexInvalid
    <2>1. CASE TakeLock(t) \/ FindMostWorkChain(t) \/ BeginStep(t)
      BY <2>1 DEF TakeLock, FindMostWorkChain, BeginStep, ChainInv, TypeOK
    <2>2. CASE AlreadyThere(t) \/ ReorgTooLong(t)
      BY <2>2 DEF AlreadyThere, ReorgTooLong, Return, ChainInv, TypeOK
    <2>3. CASE StepDisconnectTip(t)
      BY <2>3 DEF StepDisconnectTip, Return, threads, ChainInv, TypeOK
    <2>4. CASE InvalidateFinish(t)
      BY <2>4 DEF InvalidateFinish, ChainInv, TypeOK, ThreadsConsistent
    <2>5. QED
      BY <2>1, <2>2, <2>3, <2>4
  <1>3. \A x \in Block : status[x].valid \in Nat
    BY Levels DEF ChainInv, TypeOK
  <1>4. \A x \in Block : /\ status'[x].failed = status[x].failed
                         /\ status'[x].valid >= status[x].valid
                         /\ status'[x].data => status'[x].valid >= VALID_TRANSACTIONS
    BY <1>1, <1>3 DEF FailureInv, FlagOrigins
  <1>5. TypeOK'
    BY DEF ChainInv
  <1>6. QED
    BY <1>2, <1>4, <1>5, FlagsKept

\* A header that is added was not failed before, and gets its first level.
LEMMA AddedHeader ==
    ASSUME ChainInv, FailureInv, NEW b \in Block, ~HeaderRejected(b)
    PROVE  /\ AddToBlockIndex(b) \in [Block -> BlockStatus]
           /\ AddToBlockIndex(b)[b].failed = {}
           /\ AddToBlockIndex(b)[b].valid >= VALID_TREE
           /\ \A x \in Block : /\ AddToBlockIndex(b)[x].failed = status[x].failed
                               /\ AddToBlockIndex(b)[x].data = status[x].data
                               /\ AddToBlockIndex(b)[x].valid >= status[x].valid
                               /\ status[x].data => AddToBlockIndex(b)[x].valid >= VALID_TRANSACTIONS
  <1>1. /\ AddToBlockIndex(b) \in [Block -> BlockStatus]
        /\ \A x \in Block : /\ AddToBlockIndex(b)[x].failed = status[x].failed
                            /\ AddToBlockIndex(b)[x].data = status[x].data
    BY AddToBlockIndexLemma DEF ChainInv
  <1>2. ~Failed(b)
    BY DEF HeaderRejected, FailureInv, FlagOrigins
  <1>3. \A x \in Block : status[x] \in BlockStatus /\ status[x].valid \in Nat
    BY Levels DEF ChainInv, TypeOK
  <1>4. AddToBlockIndex(b)[b].valid >= VALID_TREE /\ AddToBlockIndex(b)[b].valid >= status[b].valid
    BY <1>2, <1>3, Levels DEF AddToBlockIndex, InIndex, Failed, ChainInv, TypeOK
  <1>5. \A x \in Block \ {b} : AddToBlockIndex(b)[x] = status[x]
    BY DEF AddToBlockIndex, ChainInv, TypeOK
  <1>6. \A x \in Block : AddToBlockIndex(b)[x].valid >= status[x].valid
    BY <1>3, <1>4, <1>5
  <1>7. \A x \in Block : status[x].data => AddToBlockIndex(b)[x].valid >= VALID_TRANSACTIONS
    <2> TAKE x \in Block
    <2> HAVE status[x].data
    <2>1. status[x].valid >= VALID_TRANSACTIONS
      BY DEF FailureInv, FlagOrigins
    <2>2. AddToBlockIndex(b)[x].valid \in Nat
      BY <1>1, Levels
    <2>3. QED
      BY <1>3, <1>6, <2>1, <2>2 DEF VALID_TRANSACTIONS
  <1>8. AddToBlockIndex(b)[b].failed = {}
    BY <1>1, <1>2 DEF Failed
  <1>9. QED
    BY <1>1, <1>4, <1>6, <1>7, <1>8

LEMMA HeaderFailure ==
    ASSUME ChainInv, ChainInv', FailureInv, NEW b \in Block, ~HeaderRejected(b),
           status' = AddToBlockIndex(b), UNCHANGED pindexInvalid,
           NEW t \in Thread, pc' = pc \/ pc' = [pc EXCEPT ![t] = "activate"]
    PROVE  FailureInv'
  <1>1. \A u \in Thread : pc'[u] = "invalidate" => pc[u] = "invalidate"
    BY DEF ChainInv, TypeOK
  <1>2. TypeOK'
    BY DEF ChainInv
  <1>3. QED
    BY <1>1, <1>2, AddedHeader, FlagsKept

LEMMA BlockStoredFailure ==
    ASSUME ChainInv, ChainInv', FailureInv, NEW t \in Thread, NEW b \in Block, NEW r \in BOOLEAN,
           BlockStored(t, b, r)
    PROVE  FailureInv'
  <1> DEFINE added == AddToBlockIndex(b)
             old == added[b]
             stored == [old EXCEPT !.data = TRUE]
  <1>1. ~HeaderRejected(b) /\ status' = [added EXCEPT ![b] = RaiseValidity(stored, VALID_TRANSACTIONS)]
    BY DEF BlockStored
  <1>2. /\ added \in [Block -> BlockStatus] /\ old.failed = {}
        /\ \A x \in Block : /\ added[x].failed = status[x].failed
                            /\ added[x].data = status[x].data
                            /\ added[x].valid >= status[x].valid
                            /\ status[x].data => added[x].valid >= VALID_TRANSACTIONS
    BY <1>1, AddedHeader
  <1>3. stored \in BlockStatus /\ stored.failed = {} /\ stored.valid = old.valid
    BY <1>2 DEF BlockStatus
  <1> DEFINE new == RaiseValidity(stored, VALID_TRANSACTIONS)
  <1>4. new.failed = {} /\ new.valid >= VALID_TRANSACTIONS /\ new.valid >= old.valid /\ new \in BlockStatus
    BY <1>3, Levels, RaiseValidityLemma
  <1>5. new.valid \in Nat /\ old.valid \in Nat /\ status[b].valid \in Nat
    BY <1>2, <1>4, Levels DEF ChainInv, TypeOK
  <1> HIDE DEF new, added
  <1>6. \A x \in Block : /\ status'[x].failed = status[x].failed
                         /\ status'[x].valid >= status[x].valid
                         /\ status'[x].data => status'[x].valid >= VALID_TRANSACTIONS
    <2> TAKE x \in Block
    <2>1. CASE x = b
      <3>1. status'[b] = new
        BY <1>1, <1>2 DEF new
      <3>2. old.valid >= status[b].valid /\ status[b].failed = {}
        BY <1>2
      <3>3. QED
        BY <2>1, <3>1, <3>2, <1>4, <1>5
    <2>2. CASE x # b
      <3>1. status'[x] = added[x]
        BY <1>1, <1>2, <2>2
      <3>2. QED
        BY <3>1, <1>2
    <2>3. QED
      BY <2>1, <2>2
  <1>7. TypeOK'
    BY DEF ChainInv
  <1>8. \A u \in Thread : pc'[u] = "invalidate" =>
            pc[u] = "invalidate" /\ pindexInvalid' = pindexInvalid
    BY DEF BlockStored, ChainInv, TypeOK
  <1>9. QED
    BY <1>6, <1>7, <1>8, FlagsKept

LEMMA StepConnectTipFailure ==
    ASSUME ChainInv, ChainInv', FailureInv, NEW t \in Thread, NEW b \in Block, StepConnectTip(t, b)
    PROVE  FailureInv'
  <1> DEFINE undone == [status[b] EXCEPT !.undo = TRUE]
             new == RaiseValidity(undone, VALID_SCRIPTS)
  <1>1. status' = [status EXCEPT ![b] = new]
    BY DEF StepConnectTip, ConnectedStatus
  <1>2. status \in [Block -> BlockStatus]
    BY DEF ChainInv, TypeOK
  <1>3. /\ undone \in BlockStatus /\ undone.failed = status[b].failed
        /\ undone.valid = status[b].valid /\ undone.data = status[b].data
    BY <1>2 DEF BlockStatus
  <1>4. new \in BlockStatus /\ new.failed = status[b].failed /\ new.valid >= status[b].valid
        /\ new.data = status[b].data
    BY <1>3, Levels, RaiseValidityLemma
  <1> HIDE DEF new
  <1>5. \A x \in Block : status[x].valid \in Nat /\ new.valid \in Nat
    BY <1>2, <1>4, Levels
  <1>6. \A x \in Block : /\ status'[x].failed = status[x].failed
                         /\ status'[x].valid >= status[x].valid
                         /\ status'[x].data = status[x].data
    BY <1>1, <1>2, <1>4, <1>5
  <1>7. \A x \in Block : status'[x].data => status'[x].valid >= VALID_TRANSACTIONS
    <2> TAKE x \in Block
    <2> HAVE status'[x].data
    <2>1. status[x].valid >= VALID_TRANSACTIONS
      BY <1>6 DEF FailureInv, FlagOrigins
    <2>2. status'[x].valid \in Nat
      BY Levels DEF ChainInv, TypeOK
    <2>3. QED
      BY <1>5, <1>6, <2>1, <2>2 DEF VALID_TRANSACTIONS
  <1>8. TypeOK'
    BY DEF ChainInv
  <1>9. \A u \in Thread : pc'[u] = "invalidate" =>
            pc[u] = "invalidate" /\ pindexInvalid' = pindexInvalid
    BY DEF StepConnectTip, EndIteration, Return, threads, ChainInv, TypeOK
  <1>10. QED
    BY <1>6, <1>7, <1>8, <1>9, FlagsKept

\* SetFailed on one block of the index.
LEMMA FlagOne ==
    ASSUME ChainInv, ChainInv', FailureInv, NEW b \in Block, NEW f \in {"VALID", "CHILD"},
           status' = [status EXCEPT ![b] = SetFailed(@, f)], b \in InIndex,
           f = "VALID" => b \in BadBlock \cup BadConnect \cup Invalidatable,
           f = "CHILD" => \E a \in Ancestors[b] : Failed(a),
           \A t \in Thread : pc'[t] = "invalidate" =>
                                 \/ pc[t] = "invalidate" /\ pindexInvalid' = pindexInvalid
                                 \/ pindexInvalid' = b /\ f = "VALID"
    PROVE  FailureInv'
  <1> DEFINE new == SetFailed(status[b], f)
  <1>1. status \in [Block -> BlockStatus] /\ status' = [status EXCEPT ![b] = new]
    BY DEF ChainInv, TypeOK
  <1>2. /\ new \in BlockStatus /\ new.failed = status[b].failed \cup {f}
        /\ new.valid = status[b].valid /\ new.data = status[b].data
    BY <1>1, SetFailedLemma, SetFailedFlag
  <1> HIDE DEF new
  <1>3. \A x \in Block : status[x].valid \in Nat
    BY <1>1, Levels
  <1>4. \A x \in Block : /\ status'[x].failed = IF x \in {b} THEN status[x].failed \cup {f}
                                                            ELSE status[x].failed
                         /\ status'[x].valid = status[x].valid
                         /\ status'[x].data = status[x].data
    BY <1>1, <1>2
  <1>5. \A x \in Block : /\ status'[x].valid >= status[x].valid
                         /\ status'[x].data => status'[x].valid >= VALID_TRANSACTIONS
    <2> TAKE x \in Block
    <2>1. status[x].data => status[x].valid >= VALID_TRANSACTIONS
      BY DEF FailureInv, FlagOrigins
    <2>2. status[x].valid >= status[x].valid
      BY <1>3
    <2>3. QED
      BY <1>4, <2>1, <2>2
  <1>6. b \in InIndex'
    BY <1>4 DEF InIndex
  <1>7. TypeOK'
    BY DEF ChainInv
  <1> DEFINE S == {b}
  <1>8. \A x \in S : /\ x \in InIndex'
                     /\ f = "VALID" => x \in BadBlock \cup BadConnect \cup Invalidatable
                     /\ f = "CHILD" => \E a \in Ancestors[x] : Failed(a)
    BY <1>6
  <1>9. \A t \in Thread : pc'[t] = "invalidate" =>
            \/ pc[t] = "invalidate" /\ pindexInvalid' = pindexInvalid
            \/ pindexInvalid' \in S /\ f = "VALID"
    OBVIOUS
  <1>10. S \in SUBSET Block
    OBVIOUS
  <1>11. \A x \in Block : /\ status'[x].failed = IF x \in S THEN status[x].failed \cup {f}
                                                            ELSE status[x].failed
                          /\ status'[x].valid >= status[x].valid
                          /\ status'[x].data => status'[x].valid >= VALID_TRANSACTIONS
    BY <1>4, <1>5
  <1> HIDE DEF S
  <1>12. QED
    BY <1>7, <1>8, <1>9, <1>10, <1>11, FlagsAdded

LEMMA BlockRefusedFailure ==
    ASSUME ChainInv, ChainInv', FailureInv, NEW t \in Thread, NEW b \in Block, NEW r \in BOOLEAN,
           BlockRefused(t, b, r)
    PROVE  FailureInv'
  <1> DEFINE added == AddToBlockIndex(b)
             new == SetFailed(added[b], "VALID")
  <1>1. ~HeaderRejected(b) /\ status' = [added EXCEPT ![b] = new]
    BY DEF BlockRefused
  <1>2. /\ added \in [Block -> BlockStatus] /\ added[b].valid >= VALID_TREE
        /\ \A x \in Block : /\ added[x].failed = status[x].failed
                            /\ added[x].data = status[x].data
                            /\ added[x].valid >= status[x].valid
                            /\ status[x].data => added[x].valid >= VALID_TRANSACTIONS
    BY <1>1, AddedHeader
  <1>3. /\ new \in BlockStatus /\ new.failed = added[b].failed \cup {"VALID"}
        /\ new.valid = added[b].valid /\ new.data = added[b].data
    BY <1>2, SetFailedLemma, SetFailedFlag
  <1> HIDE DEF new, added
  <1>4. \A x \in Block : /\ status'[x].failed = IF x \in {b} THEN status[x].failed \cup {"VALID"}
                                                            ELSE status[x].failed
                         /\ status'[x].valid = added[x].valid
                         /\ status'[x].data = status[x].data
    BY <1>1, <1>2, <1>3
  <1>5. \A x \in Block : /\ status'[x].valid >= status[x].valid
                         /\ status'[x].data => status'[x].valid >= VALID_TRANSACTIONS
    BY <1>2, <1>4
  <1>6. b \in InIndex'
    BY <1>2, <1>4 DEF InIndex
  <1>7. b \in BadBlock /\ UNCHANGED <<pc, pindexInvalid>>
    BY DEF BlockRefused, threads
  <1>8. TypeOK'
    BY DEF ChainInv
  <1>9. QED
    BY <1>4, <1>5, <1>6, <1>7, <1>8, FlagsAdded

\* A linked block is in the index.
LEMMA LinkedInIndex ==
    ASSUME ChainInv, FailureInv, NEW b \in chainTx
    PROVE  /\ b \in Block /\ status[b].data /\ status[b].valid >= VALID_TRANSACTIONS
           /\ b \in InIndex
  <1>1. b \in Block /\ status[b].data
    BY TreeFacts DEF ChainInv, TypeOK, LinkedSound
  <1>2. status[b].valid >= VALID_TRANSACTIONS /\ status[b].valid \in Nat
    BY <1>1, Levels DEF FailureInv, FlagOrigins, ChainInv, TypeOK
  <1>3. QED
    BY <1>1, <1>2 DEF InIndex, VALID_TRANSACTIONS, VALID_TREE

LEMMA OneFlagFailure ==
    ASSUME ChainInv, ChainInv', FailureInv, NEW t \in Thread, NEW b \in Block,
           StepConnectInvalid(t, b) \/ InvalidateBlock(t, b)
    PROVE  FailureInv'
  <1>1. CASE StepConnectInvalid(t, b)
    <2>1. b \in chainTx
      BY <1>1 DEF StepConnectInvalid, IsNext, ChainInv, ThreadsConsistent, LinkedSound
    <2>2. b \in InIndex /\ b \in BadConnect /\ status' = [status EXCEPT ![b] = SetFailed(@, "VALID")]
      BY <1>1, <2>1, LinkedInIndex DEF StepConnectInvalid
    <2>3. \A u \in Thread : pc'[u] = "invalidate" =>
              pc[u] = "invalidate" /\ pindexInvalid' = pindexInvalid
      BY <1>1 DEF StepConnectInvalid, ChainInv, TypeOK
    <2>4. QED
      BY <2>2, <2>3, FlagOne
  <1>2. CASE InvalidateBlock(t, b)
    <2>1. b \in InIndex /\ b \in Invalidatable /\ status' = [status EXCEPT ![b] = SetFailed(@, "VALID")]
      BY <1>2 DEF InvalidateBlock
    <2>2. pindexInvalid' = b
      BY <1>2 DEF InvalidateBlock
    <2>3. QED
      BY <2>1, <2>2, FlagOne
  <1>3. QED
    BY <1>1, <1>2

LEMMA InvalidateDisconnectTipFailure ==
    ASSUME ChainInv, ChainInv', FailureInv, NEW t \in Thread, InvalidateDisconnectTip(t)
    PROVE  FailureInv'
  <1>1. tip \in Block /\ tip \in InIndex
    BY LinkedInIndex DEF ChainInv, TypeOK
  <1>2. status' = [status EXCEPT ![tip] = SetFailed(@, "CHILD")] /\ UNCHANGED <<pc, pindexInvalid>>
    BY DEF InvalidateDisconnectTip, threads
  <1>3. pindexInvalid \in Ancestors[tip] /\ Failed(pindexInvalid)
    BY DEF InvalidateDisconnectTip, ChainActive, FailureInv, InvalidatingFlagged, Failed
  <1>4. QED
    BY <1>1, <1>2, <1>3, FlagOne

LEMMA DropFailedCandidateFailure ==
    ASSUME ChainInv, ChainInv', FailureInv, NEW t \in Thread, DropFailedCandidate(t)
    PROVE  FailureInv'
  <1>1. PICK pindexNew \in candidates : \E pindexTest \in PathTo(pindexNew) :
          LET above == {x \in PathTo(pindexNew) : nHeight[x] > nHeight[pindexTest]}
          IN  /\ IsHighest({x \in PathTo(pindexNew) : Failed(x)}, pindexTest)
              /\ status' = [b \in Block |->
                               IF b \in above THEN SetFailed(status[b], "CHILD") ELSE status[b]]
    BY DEF DropFailedCandidate
  <1>2. PICK pindexTest \in PathTo(pindexNew) :
          LET above == {x \in PathTo(pindexNew) : nHeight[x] > nHeight[pindexTest]}
          IN  /\ IsHighest({x \in PathTo(pindexNew) : Failed(x)}, pindexTest)
              /\ status' = [b \in Block |->
                               IF b \in above THEN SetFailed(status[b], "CHILD") ELSE status[b]]
    BY <1>1
  <1> DEFINE above == {x \in PathTo(pindexNew) : nHeight[x] > nHeight[pindexTest]}
  <1>3. /\ Failed(pindexTest)
        /\ status' = [b \in Block |->
                         IF b \in above THEN SetFailed(status[b], "CHILD") ELSE status[b]]
    BY <1>2 DEF IsHighest
  <1>4. /\ pindexNew \in Block /\ pindexNew \in chainTx
        /\ pindexTest \in Ancestors[pindexNew] /\ pindexTest \in Block
        /\ above \subseteq Ancestors[pindexNew] /\ above \subseteq Block
    BY <1>2, TreeAssumption DEF PathTo, ChainInv, CandidatesSound, TypeOK
  <1>5. \A x \in above : pindexTest \in Ancestors[x]
    <2> TAKE x \in above
    <2>1. nHeight[x] \in Nat /\ nHeight[pindexTest] \in Nat /\ nHeight[x] > nHeight[pindexTest]
      BY <1>4, TreeAssumption
    <2>2. nHeight[pindexTest] <= nHeight[x]
      BY <2>1
    <2>3. QED
      BY <1>4, <2>2, TreeFacts
  <1>6. \A x \in above : x \in InIndex
    BY <1>4, LinkedInIndex DEF ChainInv, LinkedSound
  <1> HIDE DEF above
  <1>7. \A x \in Block : status[x] \in BlockStatus /\ status[x].valid \in Nat
    BY Levels DEF ChainInv, TypeOK
  <1>8. \A x \in Block : /\ status'[x].failed = IF x \in above THEN status[x].failed \cup {"CHILD"}
                                                              ELSE status[x].failed
                         /\ status'[x].valid = status[x].valid
                         /\ status'[x].data = status[x].data
    BY <1>3, <1>7, SetFailedLemma, SetFailedFlag
  <1>9. \A x \in Block : /\ status'[x].valid >= status[x].valid
                         /\ status'[x].data => status'[x].valid >= VALID_TRANSACTIONS
    <2> TAKE x \in Block
    <2>1. status[x].data => status[x].valid >= VALID_TRANSACTIONS
      BY DEF FailureInv, FlagOrigins
    <2>2. status[x].valid >= status[x].valid
      BY <1>7
    <2>3. QED
      BY <1>8, <2>1, <2>2
  <1>10. \A x \in above : x \in InIndex'
    BY <1>4, <1>6, <1>8 DEF InIndex
  <1>11. TypeOK' /\ UNCHANGED <<pc, pindexInvalid>>
    BY DEF ChainInv, DropFailedCandidate, threads
  <1>12. QED
    BY <1>3, <1>4, <1>5, <1>8, <1>9, <1>10, <1>11, FlagsAdded

\* Two blocks that are ancestors of each other are the same.
LEMMA SameBlock ==
    ASSUME NEW a \in Block, NEW b \in Ancestors[a], a \in Ancestors[b]
    PROVE  a = b
  <1>1. b \in Block /\ nHeight[b] <= nHeight[a] /\ nHeight[a] <= nHeight[b]
    BY TreeAssumption, TreeFacts
  <1>2. nHeight[a] = nHeight[b]
    BY <1>1, TreeAssumption
  <1>3. a = Genesis \/ (pprev[a] \in Block /\ nHeight[a] = nHeight[pprev[a]] + 1
                         /\ nHeight[pprev[a]] \in Nat /\ Ancestors[a] = Ancestors[pprev[a]] \cup {a})
    BY ParentStep
  <1>4. CASE a = Genesis
    BY <1>4, TreeAssumption
  <1>5. CASE a # Genesis /\ b \in Ancestors[pprev[a]]
    <2>1. nHeight[b] <= nHeight[pprev[a]]
      BY <1>3, <1>5, TreeFacts
    <2>2. QED
      BY <1>2, <1>3, <1>5, <2>1
  <1>6. QED
    BY <1>3, <1>4, <1>5

\* A reconsidered block has no failed block below it.
LEMMA NothingFailedBelow ==
    ASSUME ReconsidersLowest, FailureInv, NEW b \in Reconsiderable
    PROVE  \A a \in Ancestors[b] : Failed(a) => a = b
  <1> SUFFICES ASSUME NEW a \in Ancestors[b], Failed(a), a # b PROVE FALSE
    OBVIOUS
  <1>1. b \in Block /\ a \in Block /\ Ancestors[a] \subseteq Ancestors[b]
    BY ChainStateAssumption, TreeAssumption, TreeFacts
  <1>2. PICK v \in Ancestors[a] : "VALID" \in status[v].failed
    BY <1>1 DEF FailureInv, FailedJustified
  <1>3. v \in Block /\ v \in BadBlock \cup BadConnect \cup Invalidatable
    BY <1>1, <1>2, TreeAssumption DEF FailureInv, FlagOrigins
  <1>4. v = b
    BY <1>1, <1>2, <1>3 DEF ReconsidersLowest
  <1>5. QED
    BY <1>1, <1>2, <1>4, SameBlock

LEMMA ReconsiderBlockFailure ==
    ASSUME ReconsidersLowest, ChainInv, ChainInv', FailureInv,
           NEW t \in Thread, NEW b \in Block, ReconsiderBlock(t, b)
    PROVE  FailureInv'
  <1> DEFINE C == ReconsiderCleared(b)
  <1>1. b \in InIndex /\ b \in Reconsiderable
    BY DEF ReconsiderBlock
  <1>2. \A x \in Block : status[x] \in BlockStatus
    BY DEF ChainInv, TypeOK
  <1>3. \A x \in Block : /\ status'[x].failed = IF x \in C THEN {} ELSE status[x].failed
                         /\ status'[x].valid = status[x].valid
                         /\ status'[x].data = status[x].data
    BY <1>2 DEF ReconsiderBlock, BlockStatus
  <1>4. C \subseteq InvalidDescendants(b)
    <2> SUFFICES ASSUME NEW x \in Ancestors[b], Failed(x) PROVE x \in InvalidDescendants(b)
      BY DEF ReconsiderCleared
    <2>1. x = b
      BY <1>1, NothingFailedBelow
    <2>2. QED
      BY <1>1, <2>1, TreeFacts DEF InvalidDescendants, IsValid, StatusIsValid, Failed
  <1>5. FlagOrigins'
    BY <1>3 DEF FailureInv, FlagOrigins, Failed, InIndex
  <1>6. InvalidatingFlagged'
    <2>1. \A u \in Thread : pc[u] # "invalidate"
      BY ChainStateAssumption DEF ReconsiderBlock, ChainInv, ThreadsConsistent
    <2>2. QED
      BY <2>1 DEF ReconsiderBlock, InvalidatingFlagged, ChainInv, TypeOK
  <1>7. FailedJustified'
    <2> SUFFICES ASSUME NEW x \in Block, Failed(x)'
                 PROVE  \E a \in Ancestors[x] : "VALID" \in status'[a].failed
      BY DEF FailedJustified
    <2>1. x \notin C /\ Failed(x)
      BY <1>3 DEF Failed
    <2>2. PICK a \in Ancestors[x] : "VALID" \in status[a].failed
      BY <2>1 DEF FailureInv, FailedJustified
    <2>3. a \in Block /\ Ancestors[a] \subseteq Ancestors[x]
      BY TreeAssumption, TreeFacts
    <2>4. a \notin C
      <3> SUFFICES ASSUME a \in C PROVE FALSE
        OBVIOUS
      <3>1. b \in Ancestors[x]
        BY <1>4, <2>3 DEF InvalidDescendants
      <3>2. x \in InvalidDescendants(b)
        BY <2>1, <3>1 DEF InvalidDescendants, IsValid, StatusIsValid, Failed, FailureInv, FlagOrigins
      <3>3. QED
        BY <2>1, <3>2 DEF ReconsiderCleared
    <2>5. QED
      BY <1>3, <2>2, <2>3, <2>4
  <1>8. QED
    BY <1>5, <1>6, <1>7 DEF FailureInv

LEMMA FailureStep ==
    ASSUME ReconsidersLowest, ChainInv, FailureInv, [Next]_chainVars
    PROVE  FailureInv'
  <1>0. ChainInv'
    BY NextInv
  <1>1. CASE UNCHANGED chainVars
    BY <1>1 DEF chainVars, index, threads, FailureInv, FlagOrigins, InvalidatingFlagged,
                FailedJustified, Failed, InIndex
  <1>2. ASSUME NEW b \in Block, AcceptBlockHeader(b) PROVE FailureInv'
    <2>1. CASE Thread = {}
      BY <1>2, <2>1, <1>0, AddedHeader, FlagsKept DEF AcceptBlockHeader, ChainInv
    <2>2. CASE Thread # {}
      BY <1>2, <2>2, <1>0, HeaderFailure DEF AcceptBlockHeader, threads
    <2>3. QED
      BY <2>1, <2>2
  <1>3. ASSUME NEW t \in Thread, NEW b \in Block, NEW r \in BOOLEAN,
               BlockIgnored(t, b, r) \/ BlockRefused(t, b, r) \/ BlockStored(t, b, r)
        PROVE  FailureInv'
    <2>1. CASE BlockIgnored(t, b, r)
      BY <2>1, <1>0, HeaderFailure DEF BlockIgnored
    <2>2. QED
      BY <1>3, <2>1, <1>0, BlockRefusedFailure, BlockStoredFailure
  <1>4. ASSUME NEW t \in Thread, NEW b \in Block, InvalidateBlock(t, b) \/ ReconsiderBlock(t, b)
        PROVE  FailureInv'
    BY <1>4, <1>0, OneFlagFailure, ReconsiderBlockFailure
  <1>5. ASSUME NEW t \in Thread, Proceed(t) PROVE FailureInv'
    <2>1. CASE \/ TakeLock(t) \/ FindMostWorkChain(t) \/ AlreadyThere(t) \/ ReorgTooLong(t)
               \/ BeginStep(t) \/ StepDisconnectTip(t) \/ InvalidateFinish(t)
      BY <2>1, <1>0, UnflaggedSteps
    <2>2. CASE DropFailedCandidate(t) \/ InvalidateDisconnectTip(t)
      BY <2>2, <1>0, DropFailedCandidateFailure, InvalidateDisconnectTipFailure
    <2>3. CASE \E b \in Block : StepConnectInvalid(t, b) \/ StepConnectTip(t, b)
      BY <2>3, <1>0, OneFlagFailure, StepConnectTipFailure
    <2>4. QED
      BY <1>5, <2>1, <2>2, <2>3 DEF Proceed
  <1>6. QED
    BY <1>1, <1>2, <1>3, <1>4, <1>5 DEF Next

LEMMA FailureInit == Init => FailureInv
  BY ChainStateAssumption
     DEF Init, FailureInv, FlagOrigins, InvalidatingFlagged, FailedJustified, Failed, InIndex,
         UnknownStatus, VALID_TRANSACTIONS, VALID_TREE

(***************************************************************************)
(* One thread: candidates and the best chain.                               *)
(***************************************************************************)

\* b could be the tip: nothing at or below it is failed or would fail.
Good(b) == \A a \in Ancestors[b] : ~Failed(a) /\ a \notin BadConnect

\* No unfailed block that sorts at least as good as r is missing.
Complete(r) ==
    \A x \in chainTx : ~Failed(x) /\ ~WorkLess(nSequenceId, x, r) => x \in candidates

\* No candidate is better than m.
Best(m) == \A c \in candidates : ~WorkLess(nSequenceId, m, c)

\* What a reorganisation leaves to start again from: a good block from which
\* upwards nothing is missing.
Resumable == \E r \in chainTx : Good(r) /\ Complete(r)

\* m is the best candidate or better, with no failed block on the way.
OnBest(m) == (\A a \in Ancestors[m] : ~Failed(a)) /\ Best(m)

\* Between two calls the candidates are complete from the tip upwards, and the
\* tip is the best of them.  In between the tip may be lower, and pruning has
\* removed what is worse than a tip of the meantime; but the chain is Resumable.
ActivationInv ==
    ~shutdown => \A t \in Thread :
        /\ pc[t] # "invalidate" => Good(tip)
        /\ pc[t] = "idle" => Complete(tip) /\ Best(tip)
        /\ pc[t] = "invalidate" => \A x \in ChainActive :
               x \notin BadConnect /\ (Failed(x) => x = pindexInvalid)
        /\ pc[t] \in {"activate", "find", "check", "step"} => Resumable
        /\ pindexMostWork[t] # NoBlock => OnBest(pindexMostWork[t])
        /\ pc[t] \in {"find", "idle", "invalidate"} => pindexMostWork[t] = NoBlock

\* WorkLess is a strict total order.
LEMMA WorkOrder ==
    ASSUME NEW seq \in [Block -> Nat]
    PROVE  /\ \A a \in Block : ~WorkLess(seq, a, a)
           /\ \A a, b \in Block : a # b => WorkLess(seq, a, b) \/ WorkLess(seq, b, a)
           /\ \A a, b, c \in Block : ~WorkLess(seq, a, b) /\ ~WorkLess(seq, b, c)
                                        => ~WorkLess(seq, a, c)
  <1>1. \A a \in Block : nChainWork[a] \in Nat /\ seq[a] \in Nat /\ Address[a] \in Nat
    BY TreeAssumption
  <1>2. \A a \in Block : ~WorkLess(seq, a, a)
    BY <1>1 DEF WorkLess
  <1>3. \A a, b \in Block : Address[a] = Address[b] => a = b
    BY TreeAssumption
  <1>4. \A a, b \in Block : a # b => WorkLess(seq, a, b) \/ WorkLess(seq, b, a)
    BY <1>1, <1>3 DEF WorkLess
  <1>5. \A a, b, c \in Block : ~WorkLess(seq, a, b) /\ ~WorkLess(seq, b, c) => ~WorkLess(seq, a, c)
    BY <1>1 DEF WorkLess
  <1>6. QED
    BY <1>2, <1>4, <1>5

\* A good block from which upwards nothing is missing is a candidate, so nothing is
\* missing above the best candidate either.
LEMMA CompleteAtBest ==
    ASSUME TypeOK, NEW r \in chainTx, Good(r), Complete(r), NEW m \in Block, Best(m)
    PROVE  Complete(m)
  <1>1. r \in Block /\ ~Failed(r)
    BY TreeFacts DEF TypeOK, Good
  <1>2. r \in candidates
    BY <1>1, WorkOrder DEF TypeOK, Complete
  <1>3. ~WorkLess(nSequenceId, m, r)
    BY <1>2 DEF Best
  <1>4. QED
    BY <1>1, <1>3, WorkOrder DEF TypeOK, Complete

\* Facts about an unchanged index carry over.
LEMMA SameFlags ==
    ASSUME TypeOK, \A x \in Block : status'[x].failed = status[x].failed
    PROVE  /\ \A x \in Block : Failed(x)' = Failed(x)
           /\ \A b \in Block : Good(b) => Good(b)'
           /\ \A b \in Block : (\A a \in Ancestors[b] : ~Failed(a)) => \A a \in Ancestors[b] : ~Failed(a)'
  BY TreeAssumption DEF Failed, Good

LEMMA SameOrder ==
    ASSUME UNCHANGED nSequenceId
    PROVE  \A a, b \in Block : WorkLess(nSequenceId, a, b)' = WorkLess(nSequenceId, a, b)
  BY DEF WorkLess

\* Threads move, and headers come: candidates, order and failed flags stay.
LEMMA SamePicture ==
    ASSUME TypeOK, UNCHANGED <<chainTx, nSequenceId, candidates>>,
           \A x \in Block : status'[x].failed = status[x].failed
    PROVE  \A b \in Block : /\ Good(b) => Good(b)'
                            /\ Complete(b) => Complete(b)'
                            /\ Best(b) => Best(b)'
  <1>1. \A x \in Block : Failed(x)' = Failed(x)
    BY SameFlags
  <1>2. \A b \in Block : Good(b) => Good(b)'
    BY SameFlags
  <1>3. \A b \in Block : Complete(b) => Complete(b)'
    BY <1>1 DEF Complete, TypeOK, WorkLess
  <1>4. \A b \in Block : Best(b) => Best(b)'
    BY DEF Best, TypeOK, WorkLess
  <1>5. QED
    BY <1>2, <1>3, <1>4

\* Storing a block and connecting one leave the failed flags alone.
LEMMA BlockStoredFlags ==
    ASSUME ChainInv, NEW t, NEW b \in Block, NEW r, BlockStored(t, b, r)
    PROVE  \A x \in Block : status'[x].failed = status[x].failed
  <1> DEFINE added == AddToBlockIndex(b)
             old == added[b]
             stored == [old EXCEPT !.data = TRUE]
             new == RaiseValidity(stored, VALID_TRANSACTIONS)
  <1>1. status' = [added EXCEPT ![b] = new]
    BY DEF BlockStored
  <1>2. added \in [Block -> BlockStatus] /\ \A x \in Block : added[x].failed = status[x].failed
    BY AddToBlockIndexLemma DEF ChainInv
  <1>3. stored \in BlockStatus /\ stored.failed = old.failed
    BY <1>2 DEF BlockStatus
  <1>4. new.failed = old.failed
    BY <1>3, RaiseValidityLemma
  <1> HIDE DEF new, added
  <1>5. QED
    BY <1>1, <1>2, <1>4

LEMMA StepConnectTipFlags ==
    ASSUME ChainInv, NEW t, NEW b \in Block, StepConnectTip(t, b)
    PROVE  \A x \in Block : status'[x].failed = status[x].failed
  <1> DEFINE undone == [status[b] EXCEPT !.undo = TRUE]
             new == RaiseValidity(undone, VALID_SCRIPTS)
  <1>1. status' = [status EXCEPT ![b] = new] /\ status \in [Block -> BlockStatus]
    BY DEF StepConnectTip, ConnectedStatus, ChainInv, TypeOK
  <1>2. undone \in BlockStatus /\ undone.failed = status[b].failed
    BY <1>1 DEF BlockStatus
  <1>3. new.failed = status[b].failed
    BY <1>2, RaiseValidityLemma
  <1> HIDE DEF new
  <1>4. QED
    BY <1>1, <1>3

\* The steps of the thread that change nothing but its own variables.
LEMMA ThreadStepsActivation ==
    ASSUME NEW t, Thread = {t}, ChainInv, ChainInv', ActivationInv,
           TakeLock(t) \/ FindMostWorkChain(t) \/ AlreadyThere(t) \/ BeginStep(t)
    PROVE  ActivationInv'
  <1> SUFFICES ASSUME ~shutdown' PROVE ActivationInv'
    BY DEF ActivationInv
  <1>1. /\ ~shutdown /\ UNCHANGED <<index, tip, candidates, pindexInvalid, shutdown>>
        /\ pc[t] \in {"activate", "find", "check"} /\ pc'[t] \in {"idle", "find", "check", "step"}
        /\ tip \in Block /\ TypeOK
    BY DEF TakeLock, FindMostWorkChain, AlreadyThere, BeginStep, Return, ChainInv, TypeOK
  <1>2. /\ Good(tip) /\ Resumable
        /\ pindexMostWork[t] # NoBlock => pindexMostWork[t] \in Block /\ OnBest(pindexMostWork[t])
        /\ pc[t] = "find" => pindexMostWork[t] = NoBlock
    BY <1>1 DEF ActivationInv, ChainInv, TypeOK
  <1>3. /\ \A x \in Block : Failed(x)' = Failed(x)
        /\ \A b \in Block : (Good(b) => Good(b)') /\ (Complete(b) => Complete(b)') /\ (Best(b) => Best(b)')
    BY <1>1, SamePicture, SameFlags DEF index
  <1>4. Good(tip)' /\ Resumable'
    BY <1>1, <1>2, <1>3 DEF Resumable, TypeOK, index
  <1>5. \A b \in Block : OnBest(b) => OnBest(b)'
    BY <1>3, TreeAssumption DEF OnBest
  <1>6. CASE TakeLock(t)
    BY <1>1, <1>2, <1>4, <1>5, <1>6 DEF TakeLock, ActivationInv, ChainInv, TypeOK
  <1>7. CASE BeginStep(t)
    BY <1>1, <1>2, <1>4, <1>5, <1>7 DEF BeginStep, ActivationInv, ChainInv, TypeOK
  <1>8. CASE AlreadyThere(t)
    <2>1. pindexMostWork[t] = tip /\ Return(t) /\ pindexMostWork[t] # NoBlock
      BY <1>1, <1>8, TreeAssumption DEF AlreadyThere
    <2>2. Complete(tip) /\ Best(tip)
      BY <1>1, <1>2, <2>1, CompleteAtBest DEF OnBest, Resumable
    <2>3. Complete(tip)' /\ Best(tip)'
      BY <1>1, <1>3, <2>2
    <2>4. QED
      BY <1>1, <1>4, <2>1, <2>3 DEF Return, ActivationInv, ChainInv, TypeOK
  <1>9. CASE FindMostWorkChain(t)
    <2>1. PICK m \in candidates : /\ IsBest(nSequenceId, candidates, m)
                                  /\ \A x \in PathTo(m) : ~Failed(x)
                                  /\ pindexMostWork' = [pindexMostWork EXCEPT ![t] = m]
      BY <1>9 DEF FindMostWorkChain
    <2>2. m \in Block /\ pindexMostWork'[t] = m
      BY <1>1, <2>1 DEF TypeOK
    <2>3. OnBest(m)
      BY <1>2, <2>1 DEF OnBest, Best, IsBest, PathTo, ChainActive, Good
    <2>4. OnBest(m)'
      BY <1>5, <2>2, <2>3
    <2>5. pc'[t] = "check"
      BY <1>1, <1>9 DEF FindMostWorkChain, TypeOK
    <2>6. QED
      BY <1>1, <1>4, <2>2, <2>4, <2>5 DEF ActivationInv
  <1>10. QED
    BY <1>6, <1>7, <1>8, <1>9

\* ReceivedBlockTransactions makes every linked block a candidate that is not
\* worse than the tip.
LEMMA BlockStoredActivation ==
    ASSUME NEW t, Thread = {t}, ChainInv, ChainInv', FailureInv, ActivationInv,
           NEW b \in Block, NEW fRequested \in BOOLEAN, BlockStored(t, b, fRequested),
           \A x \in Block : status'[x].failed = status[x].failed
    PROVE  ActivationInv'
  <1> SUFFICES ASSUME ~shutdown' PROVE ActivationInv'
    BY DEF ActivationInv
  <1> DEFINE L == Linked(b)
  <1>1. /\ ~shutdown /\ pc[t] = "idle" /\ pc'[t] = "activate" /\ UNCHANGED <<tip, pindexMostWork>>
        /\ tip \in Block /\ tip \in chainTx /\ TypeOK /\ ~status[b].data
    BY DEF BlockStored, ChainInv, TypeOK, BlockWanted
  <1>2. Good(tip) /\ Complete(tip) /\ pindexMostWork[t] = NoBlock
    BY <1>1 DEF ActivationInv
  <1>3. PICK ids \in QueueOrders(L) :
           nSequenceId' = [x \in Block |-> IF x \in L THEN ids[x] ELSE nSequenceId[x]]
    BY DEF BlockStored, ReceivedBlockTransactions
  <1>4. /\ chainTx' = chainTx \cup L
        /\ candidates' = candidates \cup {x \in L : ~WorkLess(nSequenceId', x, tip)}
    BY DEF BlockStored, ReceivedBlockTransactions
  <1>5. b # Genesis
    BY <1>1, TreeFacts, TreeAssumption DEF ChainInv, LinkedSound
  <1>6. L \cap chainTx = {}
    BY <1>1, <1>5, LinkedLemma DEF ChainInv
  <1>7. \A x \in chainTx : x \in Block /\ nSequenceId'[x] = nSequenceId[x]
    BY <1>1, <1>3, <1>6 DEF TypeOK
  <1> HIDE DEF L
  <1>8. Good(tip)'
    BY <1>1, <1>2, SameFlags DEF Good
  <1>9. Complete(tip)'
    <2> SUFFICES ASSUME NEW x \in chainTx', ~Failed(x)', ~WorkLess(nSequenceId, x, tip)'
                 PROVE  x \in candidates'
      BY DEF Complete
    <2>1. CASE x \in L
      BY <1>1, <1>4, <2>1 DEF WorkLess
    <2>2. CASE x \in chainTx
      <3>1. ~Failed(x)
        BY <1>7, <2>2, SameFlags, <1>1
      <3>2. ~WorkLess(nSequenceId, x, tip)
        BY <1>1, <1>7, <2>2 DEF WorkLess
      <3>3. QED
        BY <1>2, <1>4, <2>2, <3>1, <3>2 DEF Complete
    <2>3. QED
      BY <1>4, <2>1, <2>2
  <1>10. tip' \in chainTx'
    BY <1>1, <1>4
  <1>11. QED
    BY <1>1, <1>2, <1>8, <1>9, <1>10, TreeAssumption DEF ActivationInv, Resumable

LEMMA HeaderActivation ==
    ASSUME NEW t, Thread = {t}, ChainInv, ChainInv', FailureInv, ActivationInv,
           NEW b \in Block, ~HeaderRejected(b), status' = AddToBlockIndex(b),
           pc' = pc \/ (pc[t] = "idle" /\ pc' = [pc EXCEPT ![t] = "activate"]),
           UNCHANGED <<chainTx, nSequenceId, tip, candidates, pindexMostWork, pindexInvalid, shutdown>>
    PROVE  ActivationInv'
  <1> SUFFICES ASSUME ~shutdown' PROVE ActivationInv'
    BY DEF ActivationInv
  <1>1. /\ ~shutdown /\ tip \in Block /\ tip \in chainTx /\ TypeOK
        /\ pindexMostWork[t] \in Block \cup {NoBlock}
    BY DEF ChainInv, TypeOK
  <1>2. \A x \in Block : status'[x].failed = status[x].failed
    BY AddToBlockIndexLemma DEF ChainInv
  <1>3. /\ \A x \in Block : Failed(x)' = Failed(x)
        /\ \A x \in Block : (Good(x) => Good(x)') /\ (Complete(x) => Complete(x)') /\ (Best(x) => Best(x)')
    BY <1>1, <1>2, SamePicture, SameFlags
  <1>4. \A x \in Block : OnBest(x) => OnBest(x)'
    BY <1>3, TreeAssumption DEF OnBest
  <1>5. Resumable => Resumable'
    BY <1>1, <1>3 DEF Resumable, TypeOK
  <1>6. pc'[t] = pc[t] \/ (pc[t] = "idle" /\ pc'[t] = "activate")
    BY <1>1 DEF TypeOK
  <1>7. pc[t] # "invalidate" => Good(tip)'
    BY <1>1, <1>3 DEF ActivationInv
  <1>8. pc[t] = "idle" => Complete(tip)' /\ Best(tip)' /\ Resumable'
    BY <1>1, <1>3, <1>5 DEF ActivationInv, Resumable
  <1>9. pc[t] = "invalidate" => \A x \in ChainActive' : x \notin BadConnect /\ (Failed(x)' => x = pindexInvalid')
    BY <1>1, <1>3, TreeAssumption DEF ActivationInv, ChainActive
  <1>10. pc[t] \in {"activate", "find", "check", "step"} => Resumable'
    BY <1>1, <1>5 DEF ActivationInv
  <1>11. pindexMostWork[t] # NoBlock => OnBest(pindexMostWork[t])'
    BY <1>1, <1>4 DEF ActivationInv
  <1>12. pc[t] \in {"find", "idle", "invalidate"} => pindexMostWork[t] = NoBlock
    BY <1>1 DEF ActivationInv
  <1>13. QED
    BY <1>6, <1>7, <1>8, <1>9, <1>10, <1>11, <1>12 DEF ActivationInv

\* Blocks of S become failed and leave the candidates with nothing else; none of
\* them is at or below b.
LEMMA FlagsElsewhere ==
    ASSUME ChainInv, NEW S \in SUBSET Block, UNCHANGED <<chainTx, nSequenceId>>,
           \A x \in Block \ S : status'[x].failed = status[x].failed,
           \A x \in S : Failed(x)',
           candidates' \subseteq candidates, candidates \ candidates' \subseteq {x \in Block : Failed(x)'}
    PROVE  /\ \A b \in Block : Good(b) /\ Ancestors[b] \cap S = {} => Good(b)'
           /\ \A b \in Block : Complete(b) => Complete(b)'
           /\ \A b \in Block : Best(b) => Best(b)'
  <1>1. \A x \in Block \ S : Failed(x)' = Failed(x)
    BY DEF Failed
  <1>2. \A b \in Block : Good(b) /\ Ancestors[b] \cap S = {} => Good(b)'
    BY <1>1, TreeAssumption DEF Good
  <1>3. \A b \in Block : Complete(b) => Complete(b)'
    BY <1>1 DEF Complete, WorkLess, ChainInv, TypeOK
  <1>4. \A b \in Block : Best(b) => Best(b)'
    BY DEF Best, WorkLess
  <1>5. QED
    BY <1>2, <1>3, <1>4

LEMMA BlockRefusedActivation ==
    ASSUME NEW t, Thread = {t}, ChainInv, ChainInv', FailureInv, ActivationInv,
           NEW b \in Block, NEW fRequested \in BOOLEAN, BlockRefused(t, b, fRequested)
    PROVE  ActivationInv'
  <1> SUFFICES ASSUME ~shutdown' PROVE ActivationInv'
    BY DEF ActivationInv
  <1>1. /\ ~shutdown /\ pc[t] = "idle" /\ UNCHANGED <<pc, tip, candidates, pindexMostWork, chainTx, nSequenceId>>
        /\ tip \in Block /\ tip \in chainTx /\ ~status[b].data
    BY DEF BlockRefused, ChainInv, TypeOK, BlockWanted, threads
  <1>2. Good(tip) /\ Complete(tip) /\ Best(tip) /\ pindexMostWork[t] = NoBlock
    BY <1>1 DEF ActivationInv
  <1> DEFINE added == AddToBlockIndex(b)
             new == SetFailed(added[b], "VALID")
  <1>3. added \in [Block -> BlockStatus] /\ \A x \in Block : added[x].failed = status[x].failed
    BY AddToBlockIndexLemma DEF ChainInv
  <1>4. status' = [added EXCEPT ![b] = new]
    BY DEF BlockRefused
  <1>5. new.failed = added[b].failed \cup {"VALID"}
    BY <1>3, SetFailedFlag
  <1> HIDE DEF added, new
  <1>6. \A x \in Block \ {b} : status'[x].failed = status[x].failed
    BY <1>3, <1>4
  <1>7. Failed(b)'
    BY <1>3, <1>4, <1>5 DEF Failed
  <1>8. b \notin Ancestors[tip]
    BY <1>1 DEF ChainInv, LinkedSound
  <1>9. Good(tip)' /\ Complete(tip)' /\ Best(tip)'
    <2>1. {b} \in SUBSET Block /\ \A x \in {b} : Failed(x)'
      BY <1>7
    <2>2. Ancestors[tip] \cap {b} = {}
      BY <1>8
    <2>3. \A x \in Block : /\ Good(x) /\ Ancestors[x] \cap {b} = {} => Good(x)'
                           /\ Complete(x) => Complete(x)'
                           /\ Best(x) => Best(x)'
      BY <1>1, <1>6, <2>1, FlagsElsewhere
    <2>4. QED
      BY <1>1, <1>2, <2>2, <2>3
  <1>10. QED
    BY <1>1, <1>2, <1>9 DEF ActivationInv

\* A block that ConnectBlock rejects is not below a good one.
LEMMA StepConnectInvalidActivation ==
    ASSUME NEW t, Thread = {t}, ChainInv, ChainInv', ActivationInv,
           NEW b \in Block, StepConnectInvalid(t, b)
    PROVE  ActivationInv'
  <1> SUFFICES ASSUME ~shutdown' PROVE ActivationInv'
    BY DEF ActivationInv
  <1>1. /\ ~shutdown /\ pc[t] = "step" /\ pc'[t] = "activate" /\ pindexMostWork'[t] = NoBlock
        /\ UNCHANGED <<tip, chainTx, nSequenceId>> /\ candidates' = candidates \ {b}
        /\ tip \in Block /\ b \in BadConnect /\ status' = [status EXCEPT ![b] = SetFailed(@, "VALID")]
    BY DEF StepConnectInvalid, WipeTarget, ChainInv, TypeOK
  <1>2. Good(tip) /\ Resumable
    BY <1>1 DEF ActivationInv
  <1>3. /\ \A x \in Block \ {b} : status'[x].failed = status[x].failed
        /\ \A x \in {b} : Failed(x)'
    BY <1>1, SetFailedFlag DEF ChainInv, TypeOK, Failed
  <1>4. \A x \in Block : Good(x) => Ancestors[x] \cap {b} = {}
    BY <1>1 DEF Good
  <1>5. \A x \in Block : (Good(x) => Good(x)') /\ (Complete(x) => Complete(x)')
    <2>1. {b} \in SUBSET Block /\ candidates \ candidates' \subseteq {x \in Block : Failed(x)'}
      BY <1>1, <1>3
    <2>2. candidates' \subseteq candidates
      BY <1>1
    <2>3. QED
      BY <1>1, <1>3, <1>4, <2>1, <2>2, FlagsElsewhere
  <1>6. Good(tip)' /\ Resumable'
    BY <1>1, <1>2, <1>5 DEF Resumable, ChainInv, TypeOK
  <1>7. QED
    BY <1>1, <1>6 DEF ActivationInv

\* FindMostWorkChain flags only what hangs from a failed block.
LEMMA DropFailedCandidateActivation ==
    ASSUME NEW t, Thread = {t}, ChainInv, ChainInv', ActivationInv, DropFailedCandidate(t)
    PROVE  ActivationInv'
  <1> SUFFICES ASSUME ~shutdown' PROVE ActivationInv'
    BY DEF ActivationInv
  <1>1. /\ ~shutdown /\ pc[t] = "find" /\ UNCHANGED <<pc, tip, pindexMostWork, chainTx, nSequenceId>>
        /\ tip \in Block
    BY DEF DropFailedCandidate, ChainInv, TypeOK, threads
  <1>2. Good(tip) /\ Resumable /\ pindexMostWork[t] = NoBlock
    BY <1>1 DEF ActivationInv
  <1>3. PICK m \in candidates : \E f \in PathTo(m) :
          LET above == {x \in PathTo(m) : nHeight[x] > nHeight[f]}
          IN  /\ IsHighest({x \in PathTo(m) : Failed(x)}, f)
              /\ status' = [b \in Block |->
                               IF b \in above THEN SetFailed(status[b], "CHILD") ELSE status[b]]
              /\ candidates' = candidates \ (above \cup {f})
    BY DEF DropFailedCandidate
  <1>4. PICK f \in PathTo(m) :
          LET above == {x \in PathTo(m) : nHeight[x] > nHeight[f]}
          IN  /\ IsHighest({x \in PathTo(m) : Failed(x)}, f)
              /\ status' = [b \in Block |->
                               IF b \in above THEN SetFailed(status[b], "CHILD") ELSE status[b]]
              /\ candidates' = candidates \ (above \cup {f})
    BY <1>3
  <1> DEFINE above == {x \in PathTo(m) : nHeight[x] > nHeight[f]}
             S == above \cup {f}
  <1>5. /\ Failed(f) /\ candidates' = candidates \ S
        /\ status' = [b \in Block |->
                         IF b \in above THEN SetFailed(status[b], "CHILD") ELSE status[b]]
    BY <1>4 DEF IsHighest
  <1>6. /\ m \in Block /\ f \in Ancestors[m] /\ f \in Block
        /\ above \subseteq Ancestors[m] /\ above \subseteq Block
    BY <1>4, TreeAssumption DEF PathTo, ChainInv, TypeOK
  <1>7. \A x \in S : f \in Ancestors[x] /\ x \in Block
    <2> TAKE x \in S
    <2>1. CASE x = f
      BY <1>6, <2>1, TreeFacts
    <2>2. CASE x \in above
      <3>1. nHeight[x] \in Nat /\ nHeight[f] \in Nat /\ nHeight[x] > nHeight[f]
        BY <1>6, <2>2, TreeAssumption
      <3>2. nHeight[f] <= nHeight[x]
        BY <3>1
      <3>3. QED
        BY <1>6, <2>2, <3>2, TreeFacts
    <2>3. QED
      BY <2>1, <2>2
  <1> HIDE DEF above
  <1>8. \A x \in Block : /\ x \notin above => status'[x].failed = status[x].failed
                         /\ x \in above => status'[x].failed = status[x].failed \cup {"CHILD"}
    BY <1>5, SetFailedFlag DEF ChainInv, TypeOK
  <1>9. /\ \A x \in Block \ S : status'[x].failed = status[x].failed
        /\ \A x \in S : Failed(x)'
    BY <1>5, <1>6, <1>8 DEF Failed
  <1>10. \A x \in Block : Good(x) => Ancestors[x] \cap S = {}
    <2> SUFFICES ASSUME NEW x \in Block, Good(x), NEW y \in Ancestors[x], y \in S PROVE FALSE
      OBVIOUS
    <2>1. f \in Ancestors[x]
      BY <1>7, TreeFacts
    <2>2. QED
      BY <1>5, <2>1 DEF Good
  <1>11. S \in SUBSET Block /\ candidates \ candidates' \subseteq {x \in Block : Failed(x)'}
    BY <1>5, <1>7, <1>9
  <1> HIDE DEF S
  <1>12. \A x \in Block : (Good(x) => Good(x)') /\ (Complete(x) => Complete(x)')
    <2>1. candidates' \subseteq candidates
      BY <1>5
    <2>2. QED
      BY <1>1, <1>9, <1>10, <1>11, <2>1, FlagsElsewhere
  <1>13. Good(tip)' /\ Resumable'
    BY <1>1, <1>2, <1>12 DEF Resumable, ChainInv, TypeOK
  <1>14. QED
    BY <1>1, <1>2, <1>13 DEF ActivationInv

LEMMA StepDisconnectTipActivation ==
    ASSUME NEW t, Thread = {t}, ChainInv, ChainInv', ActivationInv, StepDisconnectTip(t)
    PROVE  ActivationInv'
  <1> SUFFICES ASSUME ~shutdown' PROVE ActivationInv'
    BY DEF ActivationInv
  <1>1. /\ ~shutdown /\ pc[t] = "step" /\ UNCHANGED <<index, candidates>> /\ tip' = pprev[tip]
        /\ tip \in Block /\ tip' \in Block /\ TypeOK /\ tip \in chainTx
    BY DEF StepDisconnectTip, ChainInv, TypeOK
  <1>2. /\ Good(tip) /\ Resumable /\ pindexMostWork[t] # NoBlock
        /\ pindexMostWork[t] \in Block /\ OnBest(pindexMostWork[t])
    BY <1>1, TreeAssumption DEF ActivationInv, ChainInv, TypeOK, ThreadsConsistent
  <1>3. /\ \A x \in Block : Failed(x)' = Failed(x)
        /\ \A b \in Block : (Good(b) => Good(b)') /\ (Complete(b) => Complete(b)') /\ (Best(b) => Best(b)')
    BY <1>1, SamePicture, SameFlags DEF index
  <1>4. tip # Genesis
    BY <1>1, TreeAssumption
  <1>5. Good(pprev[tip])
    BY <1>1, <1>2, <1>4, ParentStep DEF Good
  <1>6. Good(tip)' /\ Resumable'
    BY <1>1, <1>2, <1>3, <1>5 DEF Resumable, TypeOK, index
  <1>7. CASE pprev[tip] = pindexMostWork[t]
    <2>1. Return(t) /\ tip' = pindexMostWork[t]
      BY <1>1, <1>7 DEF StepDisconnectTip
    <2>2. Complete(pindexMostWork[t]) /\ Best(pindexMostWork[t])
      BY <1>1, <1>2, CompleteAtBest DEF OnBest, Resumable
    <2>3. Complete(tip)' /\ Best(tip)'
      <3>1. \A b \in Block : Complete(b) /\ Best(b) /\ tip' = b => Complete(tip)' /\ Best(tip)'
        BY <1>3 DEF Complete, Best
      <3>2. QED
        BY <1>2, <2>1, <2>2, <3>1
    <2>4. QED
      BY <1>1, <1>6, <2>1, <2>3 DEF Return, ActivationInv, ChainInv, TypeOK
  <1>8. CASE pprev[tip] # pindexMostWork[t]
    <2>1. UNCHANGED <<pc, pindexMostWork>>
      BY <1>1, <1>8 DEF StepDisconnectTip, threads
    <2>2. \A b \in Block : OnBest(b) => OnBest(b)'
      BY <1>3, TreeAssumption DEF OnBest
    <2>3. QED
      BY <1>1, <1>2, <1>6, <2>1, <2>2 DEF ActivationInv
  <1>9. QED
    BY <1>7, <1>8

\* Connecting b prunes what is worse than b: nothing is missing from the better of
\* r and b upwards.
LEMMA StepConnectTipActivation ==
    ASSUME NEW t, Thread = {t}, ChainInv, ChainInv', ActivationInv,
           NEW b \in Block, StepConnectTip(t, b),
           \A x \in Block : status'[x].failed = status[x].failed
    PROVE  ActivationInv'
  <1> SUFFICES ASSUME ~shutdown' PROVE ActivationInv'
    BY DEF ActivationInv
  <1>0. PICK m \in Block : m = pindexMostWork[t]
    BY DEF StepConnectTip, ChainInv, TypeOK, ThreadsConsistent
  <1>1. /\ ~shutdown /\ pc[t] = "step" /\ UNCHANGED <<chainTx, nSequenceId>> /\ tip' = b
        /\ candidates' = {c \in candidates : ~WorkLess(nSequenceId, c, b)}
        /\ b \in Ancestors[m] /\ pprev[b] = tip /\ b \notin BadConnect
    BY <1>0 DEF StepConnectTip, IsNext, PruneBlockIndexCandidates
  <1>2. TypeOK /\ nSequenceId \in [Block -> Nat] /\ tip \in Block /\ m \in Block /\ m \in chainTx /\ b \in chainTx
    BY <1>0, <1>1 DEF ChainInv, TypeOK, ThreadsConsistent, LinkedSound
  <1>3. Good(tip) /\ Resumable /\ OnBest(m)
    BY <1>0, <1>1, <1>2, TreeAssumption DEF ActivationInv
  <1>4. \A x \in Block : Failed(x)' = Failed(x)
    BY <1>2, SameFlags
  <1>5. Ancestors[b] = Ancestors[tip] \cup {b}
    BY <1>1, <1>2, TreeAssumption
  <1>6. Good(b)
    BY <1>1, <1>3, <1>5 DEF Good, OnBest
  <1>7. \A x \in Block : Good(x) => Good(x)'
    BY <1>2, SameFlags
  <1>8. Good(tip)'
    <2>1. Good(b)'
      BY <1>6, <1>7
    <2>2. QED
      BY <1>1, <2>1 DEF Good
  <1>9. \A x \in Block : (Best(x) => Best(x)') /\ (OnBest(x) => OnBest(x)')
    BY <1>1, <1>4, TreeAssumption DEF Best, OnBest, WorkLess
  <1>10. PICK r \in chainTx : Good(r) /\ Complete(r)
    BY <1>3 DEF Resumable
  <1>11. r \in Block
    BY <1>2 DEF TypeOK
  <1>12. Resumable'
    <2>1. CASE ~WorkLess(nSequenceId, r, b)
      <3>1. Complete(r)'
        <4> SUFFICES ASSUME NEW x \in chainTx, ~Failed(x)', ~WorkLess(nSequenceId, x, r)
                     PROVE  x \in candidates'
          BY <1>1 DEF Complete, WorkLess
        <4>1. x \in Block /\ x \in candidates
          BY <1>2, <1>4, <1>10 DEF TypeOK, Complete
        <4>2. ~WorkLess(nSequenceId, x, b)
          BY <1>2, <1>11, <2>1, <4>1, WorkOrder
        <4>3. QED
          BY <1>1, <4>1, <4>2
      <3>2. QED
        BY <1>1, <1>7, <1>10, <1>11, <3>1 DEF Resumable
    <2>2. CASE WorkLess(nSequenceId, r, b)
      <3>1. Complete(b)'
        <4> SUFFICES ASSUME NEW x \in chainTx, ~Failed(x)', ~WorkLess(nSequenceId, x, b)
                     PROVE  x \in candidates'
          BY <1>1 DEF Complete, WorkLess
        <4>1. x \in Block /\ ~Failed(x)
          BY <1>2, <1>4 DEF TypeOK
        <4>2. ~WorkLess(nSequenceId, b, r)
          BY <1>2, <1>11, <2>2, WorkLessAsymmetric
        <4>3. ~WorkLess(nSequenceId, x, r)
          BY <1>2, <1>11, <4>1, <4>2, WorkOrder
        <4>4. QED
          BY <1>1, <1>10, <4>1, <4>3 DEF Complete
      <3>2. QED
        BY <1>1, <1>2, <1>6, <1>7, <3>1 DEF Resumable
    <2>3. QED
      BY <2>1, <2>2
  <1>13. CASE b = m
    <2>1. Return(t)
      BY <1>0, <1>13 DEF StepConnectTip, EndIteration
    <2>2. Complete(m)
      BY <1>2, <1>3, <1>10, CompleteAtBest DEF OnBest
    <2>3. Complete(tip)'
      <3> SUFFICES ASSUME NEW x \in chainTx, ~Failed(x)', ~WorkLess(nSequenceId, x, b)
                   PROVE  x \in candidates'
        BY <1>1 DEF Complete, WorkLess
      <3>1. x \in Block /\ ~Failed(x)
        BY <1>2, <1>4 DEF TypeOK
      <3>2. QED
        BY <1>1, <1>13, <2>2, <3>1 DEF Complete
    <2>4. Best(tip)'
      <3>1. Best(b)'
        BY <1>2, <1>3, <1>9, <1>13 DEF OnBest
      <3>2. QED
        BY <1>1, <3>1 DEF Best, WorkLess
    <2>5. QED
      BY <1>1, <1>8, <2>1, <2>3, <2>4 DEF Return, ActivationInv, ChainInv, TypeOK
  <1>14. CASE b # m
    <2>1. pc'[t] \in {"activate", "step"} /\ pindexMostWork'[t] = m
      BY <1>0, <1>1, <1>2, <1>14 DEF StepConnectTip, EndIteration, threads, TypeOK
    <2>2. OnBest(m)'
      BY <1>2, <1>3, <1>9
    <2>3. OnBest(pindexMostWork[t])'
      BY <2>1, <2>2 DEF OnBest, Best, WorkLess
    <2>4. QED
      BY <1>8, <1>12, <2>1, <2>3 DEF ActivationInv
  <1>15. QED
    BY <1>13, <1>14

\* invalidateblock: only its argument is failed on the active chain, until the
\* tip is below it and the candidates are restored.
LEMMA InvalidateActivation ==
    ASSUME NEW t, Thread = {t}, ChainInv, ChainInv', FailureInv, ActivationInv,
           \/ \E b \in Block : InvalidateBlock(t, b)
           \/ InvalidateDisconnectTip(t)
           \/ InvalidateFinish(t)
    PROVE  ActivationInv'
  <1> SUFFICES ASSUME ~shutdown' PROVE ActivationInv'
    BY DEF ActivationInv
  <1>0. TypeOK /\ tip \in Block /\ tip \in chainTx /\ \A x \in Block : status[x] \in BlockStatus
    BY DEF ChainInv, TypeOK
  <1>1. ASSUME NEW b \in Block, InvalidateBlock(t, b)
        PROVE  ActivationInv'
    <2>1. /\ ~shutdown /\ pc[t] = "idle" /\ pc'[t] = "invalidate" /\ UNCHANGED <<tip, pindexMostWork>>
          /\ pindexInvalid' = b /\ \A x \in Block \ {b} : status'[x] = status[x]
      BY <1>0, <1>1 DEF InvalidateBlock, TypeOK
    <2>2. Good(tip) /\ pindexMostWork[t] = NoBlock
      BY <2>1 DEF ActivationInv
    <2>3. \A x \in ChainActive' : x \notin BadConnect /\ (Failed(x)' => x = pindexInvalid')
      BY <1>0, <2>1, <2>2, TreeAssumption DEF ChainActive, Good, Failed
    <2>4. QED
      BY <2>1, <2>2, <2>3 DEF ActivationInv
  <1>2. CASE InvalidateDisconnectTip(t)
    <2>1. /\ ~shutdown /\ pc[t] = "invalidate" /\ UNCHANGED <<pc, pindexMostWork, pindexInvalid>>
          /\ tip' = pprev[tip] /\ \A x \in Block \ {tip} : status'[x] = status[x]
      BY <1>0, <1>2 DEF InvalidateDisconnectTip, TypeOK, threads
    <2>2. pindexMostWork[t] = NoBlock /\ \A x \in ChainActive :
              x \notin BadConnect /\ (Failed(x) => x = pindexInvalid)
      BY <2>1 DEF ActivationInv
    <2>3. tip # Genesis
      BY <1>0, <2>1, TreeAssumption DEF ChainInv, TypeOK
    <2>4. Ancestors[pprev[tip]] \subseteq Ancestors[tip] \ {tip} /\ pprev[tip] \in Block
      <3>1. pprev[tip] \in Block /\ nHeight[pprev[tip]] < nHeight[tip]
            /\ nHeight[tip] \in Nat /\ nHeight[pprev[tip]] \in Nat
            /\ Ancestors[tip] = Ancestors[pprev[tip]] \cup {tip}
        BY <1>0, <2>3, ParentStep
      <3>2. tip \in Ancestors[pprev[tip]] => nHeight[tip] <= nHeight[pprev[tip]]
        BY <3>1, TreeFacts
      <3>3. tip \notin Ancestors[pprev[tip]]
        BY <3>1, <3>2
      <3>4. QED
        BY <3>1, <3>3
    <2>5. \A x \in ChainActive' : x \notin BadConnect /\ (Failed(x)' => x = pindexInvalid')
      BY <2>1, <2>2, <2>4, TreeAssumption DEF ChainActive, Failed
    <2>6. QED
      BY <2>1, <2>2, <2>5 DEF ActivationInv
  <1>3. CASE InvalidateFinish(t)
    <2>1. /\ ~shutdown /\ pc[t] = "invalidate" /\ pc'[t] = "activate"
          /\ UNCHANGED <<index, tip, pindexMostWork>> /\ pindexInvalid \notin ChainActive
          /\ candidates' = candidates \cup RestoredCandidates
      BY <1>0, <1>3 DEF InvalidateFinish, TypeOK
    <2>2. pindexMostWork[t] = NoBlock /\ \A x \in ChainActive :
              x \notin BadConnect /\ (Failed(x) => x = pindexInvalid)
      BY <2>1 DEF ActivationInv
    <2>3. Good(tip)
      BY <2>1, <2>2 DEF ChainActive, Good
    <2>4. Good(tip)'
      BY <2>1, <2>3 DEF Good, Failed, index
    <2>5. Complete(tip)'
      <3> SUFFICES ASSUME NEW x \in chainTx, ~Failed(x), ~WorkLess(nSequenceId, x, tip)
                   PROVE  x \in candidates'
        BY <2>1 DEF Complete, WorkLess, Failed, index
      <3>1. status[x].valid >= VALID_TRANSACTIONS
        BY LinkedInIndex
      <3>2. x \in RestoredCandidates
        BY <3>1 DEF RestoredCandidates, IsValid, StatusIsValid, Failed
      <3>3. QED
        BY <2>1, <3>2
    <2>6. QED
      BY <1>0, <2>1, <2>2, <2>4, <2>5 DEF ActivationInv, Resumable, index
  <1>4. QED
    BY <1>1, <1>2, <1>3

\* reconsiderblock makes every block a candidate again that it clears and that is
\* better than the tip.
LEMMA ReconsiderActivation ==
    ASSUME ReconsidersLowest, NEW t, Thread = {t}, ChainInv, ChainInv', FailureInv, ActivationInv,
           NEW b \in Block, ReconsiderBlock(t, b)
    PROVE  ActivationInv'
  <1> SUFFICES ASSUME ~shutdown' PROVE ActivationInv'
    BY DEF ActivationInv
  <1> DEFINE C == ReconsiderCleared(b)
  <1>1. /\ ~shutdown /\ pc[t] = "idle" /\ pc'[t] = "activate"
        /\ UNCHANGED <<tip, chainTx, nSequenceId, pindexMostWork>>
        /\ candidates' = candidates \cup ReconsideredCandidates(b)
        /\ status' = [x \in Block |-> IF x \in ReconsiderCleared(b)
                                      THEN [status[x] EXCEPT !.failed = {}] ELSE status[x]]
        /\ b \in InIndex /\ b \in Reconsiderable
    BY DEF ReconsiderBlock, ChainInv, TypeOK
  <1>2. Good(tip) /\ Complete(tip) /\ pindexMostWork[t] = NoBlock
    BY <1>1 DEF ActivationInv
  <1>3. /\ tip \in Block /\ tip \in chainTx /\ nSequenceId \in [Block -> Nat] /\ chainTx \subseteq Block
        /\ \A x \in Block : status[x] \in BlockStatus
    BY DEF ChainInv, TypeOK
  <1>4. \A x \in Block : status'[x].failed = IF x \in C THEN {} ELSE status[x].failed
    BY <1>1, <1>3 DEF BlockStatus
  <1>5. C \subseteq InvalidDescendants(b)
    <2> SUFFICES ASSUME NEW x \in Ancestors[b], Failed(x) PROVE x \in InvalidDescendants(b)
      BY DEF ReconsiderCleared
    <2>1. x = b
      BY <1>1, NothingFailedBelow
    <2>2. QED
      BY <1>1, <2>1, TreeFacts DEF InvalidDescendants, IsValid, StatusIsValid, Failed
  <1> HIDE DEF C
  <1>6. Good(tip)'
    <2> SUFFICES ASSUME NEW a \in Ancestors[tip] PROVE ~Failed(a)' /\ a \notin BadConnect
      BY <1>1 DEF Good
    <2>1. a \in Block /\ ~Failed(a) /\ a \notin BadConnect
      BY <1>2, <1>3, TreeAssumption DEF Good
    <2>2. QED
      BY <1>4, <2>1 DEF Failed
  <1>7. Complete(tip)'
    <2> SUFFICES ASSUME NEW x \in chainTx, ~Failed(x)', ~WorkLess(nSequenceId, x, tip)
                 PROVE  x \in candidates'
      BY <1>1 DEF Complete, WorkLess
    <2>1. CASE ~Failed(x)
      BY <1>1, <1>2, <2>1 DEF Complete
    <2>2. CASE Failed(x)
      <3>1. x \in C /\ x \in Block
        BY <1>3, <1>4, <2>2 DEF Failed
      <3>2. x # tip
        BY <1>2, <1>3, <2>2, TreeFacts DEF Good
      <3>3. WorkLess(nSequenceId, tip, x)
        BY <1>3, <3>1, <3>2, WorkOrder
      <3>4. status[x].valid >= VALID_TRANSACTIONS
        BY LinkedInIndex
      <3>5. QED
        BY <1>1, <1>5, <3>1, <3>3, <3>4 DEF ReconsideredCandidates
    <2>3. QED
      BY <2>1, <2>2
  <1>8. QED
    BY <1>1, <1>2, <1>3, <1>6, <1>7 DEF ActivationInv, Resumable

LEMMA ActivationInit == Init => ActivationInv
  <1> SUFFICES ASSUME Init PROVE ActivationInv
    OBVIOUS
  <1>1. Good(Genesis) /\ ~Failed(Genesis)
    BY TreeAssumption, ChainStateAssumption DEF Init, Good, Failed, UnknownStatus
  <1>2. Complete(Genesis) /\ Best(Genesis)
    BY TreeAssumption DEF Init, Complete, Best, WorkLess
  <1>3. QED
    BY <1>1, <1>2 DEF Init, ActivationInv

LEMMA ActivationStep ==
    ASSUME ReconsidersLowest, NEW t, Thread = {t}, ChainInv, FailureInv, ActivationInv, [Next]_chainVars
    PROVE  ActivationInv'
  <1>0. ChainInv'
    BY NextInv
  <1>1. CASE UNCHANGED chainVars
    BY <1>1 DEF chainVars, index, threads, ActivationInv, Good, Complete, Best, Resumable, OnBest, WorkLess,
                Failed, ChainActive
  <1>2. ASSUME NEW b \in Block, AcceptBlockHeader(b) PROVE ActivationInv'
    BY <1>0, <1>2, HeaderActivation DEF AcceptBlockHeader, threads
  <1>3. ASSUME NEW b \in Block, NEW r \in BOOLEAN,
               BlockIgnored(t, b, r) \/ BlockRefused(t, b, r) \/ BlockStored(t, b, r)
        PROVE  ActivationInv'
    <2>1. CASE BlockIgnored(t, b, r)
      BY <2>1, <1>0, HeaderActivation DEF BlockIgnored
    <2>2. CASE BlockStored(t, b, r)
      BY <2>2, <1>0, BlockStoredFlags, BlockStoredActivation
    <2>3. QED
      BY <1>3, <2>1, <2>2, <1>0, BlockRefusedActivation
  <1>4. ASSUME NEW b \in Block, InvalidateBlock(t, b) \/ ReconsiderBlock(t, b)
        PROVE  ActivationInv'
    BY <1>4, <1>0, InvalidateActivation, ReconsiderActivation
  <1>5. ASSUME Proceed(t) PROVE ActivationInv'
    <2>1. CASE TakeLock(t) \/ FindMostWorkChain(t) \/ AlreadyThere(t) \/ BeginStep(t)
      BY <2>1, <1>0, ThreadStepsActivation
    <2>2. CASE ReorgTooLong(t)
      BY <2>2 DEF ReorgTooLong, ActivationInv
    <2>3. CASE DropFailedCandidate(t) \/ StepDisconnectTip(t)
      BY <2>3, <1>0, DropFailedCandidateActivation, StepDisconnectTipActivation
    <2>4. ASSUME NEW b \in Block, StepConnectInvalid(t, b) \/ StepConnectTip(t, b)
          PROVE  ActivationInv'
      BY <2>4, <1>0, StepConnectInvalidActivation, StepConnectTipFlags, StepConnectTipActivation
    <2>5. CASE InvalidateDisconnectTip(t) \/ InvalidateFinish(t)
      BY <2>5, <1>0, InvalidateActivation
    <2>6. QED
      BY <1>5, <2>1, <2>2, <2>3, <2>4, <2>5 DEF Proceed
  <1>6. QED
    BY <1>1, <1>2, <1>3, <1>4, <1>5 DEF Next

(***************************************************************************)
(* Everything that can be linked is linked, if the operator invalidates     *)
(* nothing.                                                                 *)
(***************************************************************************)

\* A block we have and cannot link waits in mapBlocksUnlinked, or hangs from a block
\* that ContextualCheckBlock refuses and that we therefore never have; so
\* ReceivedBlockTransactions' queue finds everything that hangs from a new block.
\* Invalidated blocks would break this: see NewUnlinked.
LinkedInv ==
    /\ LinkedComplete
    /\ \A b \in InIndex \ {Genesis} : pprev[b] \in InIndex
    /\ \A b \in Block :
          /\ status[b].data => b \notin BadBlock
          /\ status[b].data /\ b \notin chainTx => b \in unlinked \/ pprev[b] \in BadBlock
          /\ Failed(b) /\ b \notin chainTx => b \in BadBlock
          /\ Failed(b) \/ status[b].data => b \in InIndex

\* No action breaks it that links nothing, flags only linked blocks and blocks
\* refused, and adds only headers whose parent is there.
LEMMA LinkedKept ==
    ASSUME ChainInv, LinkedInv, UNCHANGED <<chainTx, unlinked>>,
           \A x \in Block : /\ status'[x].data = status[x].data
                            /\ Failed(x)' => Failed(x) \/ x \in chainTx \/ x \in BadBlock \cap InIndex'
                            /\ x \in InIndex => x \in InIndex'
                            /\ x \in InIndex' => x \in InIndex \/ pprev[x] \in InIndex
    PROVE  LinkedInv'
  <1>1. LinkedComplete'
    BY TreeAssumption DEF LinkedInv, LinkedComplete
  <1>2. \A b \in InIndex' \ {Genesis} : pprev[b] \in InIndex'
    <2>1. \A b \in InIndex' : b \in Block
      BY DEF InIndex
    <2>2. \A b \in Block \ {Genesis} : pprev[b] \in Block
      BY TreeAssumption
    <2>3. QED
      BY <2>1, <2>2 DEF LinkedInv
  <1>3. \A x \in chainTx : x \in Block /\ status[x].data
    BY TreeFacts DEF ChainInv, TypeOK, LinkedSound
  <1>4. \A x \in Block : Failed(x)' \/ status'[x].data => x \in InIndex'
    BY <1>3 DEF LinkedInv
  <1>5. QED
    BY <1>1, <1>2, <1>4 DEF LinkedInv

LEMMA SameStatusLinked ==
    ASSUME ChainInv, LinkedInv, UNCHANGED <<chainTx, unlinked, status>>
    PROVE  LinkedInv'
  BY DEF LinkedInv, LinkedComplete, InIndex, Failed

\* SetFailed on linked blocks.
LEMMA FlagLinked ==
    ASSUME ChainInv, LinkedInv, UNCHANGED <<chainTx, unlinked>>, NEW S \in SUBSET chainTx,
           NEW f \in {"VALID", "CHILD"},
           status' = [b \in Block |-> IF b \in S THEN SetFailed(status[b], f) ELSE status[b]]
    PROVE  LinkedInv'
  <1>1. \A x \in Block : status[x] \in BlockStatus
    BY DEF ChainInv, TypeOK
  <1>2. \A x \in Block : /\ status'[x].data = status[x].data
                         /\ status'[x].valid = status[x].valid
                         /\ x \notin S => status'[x] = status[x]
    BY <1>1, SetFailedLemma
  <1>3. QED
    BY <1>2, LinkedKept DEF Failed, InIndex

LEMMA HeaderLinked ==
    ASSUME ChainInv, LinkedInv, NEW b \in Block, ~HeaderRejected(b), UNCHANGED <<chainTx, unlinked>>,
           \A x \in Block \ {b} : status'[x] = status[x],
           status'[b].data = status[b].data,
           Failed(b)' => Failed(b) \/ b \in BadBlock \cap InIndex',
           b \in InIndex => b \in InIndex'
    PROVE  LinkedInv'
  <1>1. b \notin InIndex => pprev[b] \in InIndex
    BY DEF HeaderRejected
  <1>2. QED
    BY <1>1, LinkedKept DEF Failed, InIndex

\* AddToBlockIndex touches b's entry only and does not lower its level.
LEMMA AddToBlockIndexOnly ==
    ASSUME ChainInv, NEW b \in Block
    PROVE  /\ \A x \in Block \ {b} : AddToBlockIndex(b)[x] = status[x]
           /\ AddToBlockIndex(b)[b].valid >= status[b].valid
           /\ b \in InIndex => AddToBlockIndex(b)[b] = status[b]
  <1>1. status[b] \in BlockStatus /\ status \in [Block -> BlockStatus]
    BY DEF ChainInv, TypeOK
  <1>2. \A x \in Block \ {b} : AddToBlockIndex(b)[x] = status[x]
    BY <1>1 DEF AddToBlockIndex
  <1>3. CASE b \in InIndex
    BY <1>1, <1>2, <1>3, Levels DEF AddToBlockIndex
  <1>4. CASE b \notin InIndex
    BY <1>1, <1>2, <1>4, Levels DEF AddToBlockIndex
  <1>5. QED
    BY <1>3, <1>4

LEMMA HeadersLinked ==
    ASSUME ChainInv, LinkedInv, NEW b \in Block, ~HeaderRejected(b),
           UNCHANGED <<chainTx, unlinked>>,
           \/ status' = AddToBlockIndex(b)
           \/ b \in BadBlock /\ status' = [AddToBlockIndex(b) EXCEPT ![b] = SetFailed(@, "VALID")]
    PROVE  LinkedInv'
  <1> DEFINE added == AddToBlockIndex(b)
  <1>1. /\ added \in [Block -> BlockStatus]
        /\ added[b].data = status[b].data /\ added[b].failed = status[b].failed
        /\ \A x \in Block \ {b} : added[x] = status[x]
        /\ added[b].valid \in Nat /\ status[b].valid \in Nat /\ added[b].valid >= status[b].valid
    BY AddToBlockIndexLemma, AddToBlockIndexOnly, Levels DEF ChainInv, TypeOK
  <1>2. SetFailed(added[b], "VALID").data = added[b].data /\ SetFailed(added[b], "VALID").valid = added[b].valid
    BY <1>1, SetFailedLemma
  <1> HIDE DEF added
  <1>3. status' = added \/ (b \in BadBlock /\ status' = [added EXCEPT ![b] = SetFailed(added[b], "VALID")])
    BY DEF added
  <1>4. /\ \A x \in Block \ {b} : status'[x] = status[x]
        /\ status'[b].data = status[b].data /\ status'[b].valid = added[b].valid
        /\ b \in BadBlock \/ status'[b].failed = status[b].failed
    BY <1>1, <1>2, <1>3
  <1>5. b \in InIndex'
    <2>1. CASE b \in InIndex
      BY <1>1, <1>4, <2>1 DEF InIndex, VALID_TREE
    <2>2. CASE b \notin InIndex
      <3>1. status[b].failed = {} /\ status[b] \in BlockStatus /\ status \in [Block -> BlockStatus]
        BY <2>2 DEF LinkedInv, Failed, ChainInv, TypeOK
      <3>2. added[b].valid >= VALID_TREE
        BY <2>2, <3>1, Levels DEF added, AddToBlockIndex
      <3>3. QED
        BY <1>4, <3>2 DEF InIndex
    <2>3. QED
      BY <2>1, <2>2
  <1>6. QED
    BY <1>4, <1>5, HeaderLinked DEF Failed

LEMMA StepConnectTipLinked ==
    ASSUME ChainInv, LinkedInv, NEW t \in Thread, NEW b \in Block, StepConnectTip(t, b)
    PROVE  LinkedInv'
  <1> DEFINE undone == [status[b] EXCEPT !.undo = TRUE]
             new == RaiseValidity(undone, VALID_SCRIPTS)
  <1>1. /\ status' = [status EXCEPT ![b] = new] /\ status \in [Block -> BlockStatus]
        /\ UNCHANGED <<chainTx, unlinked>>
    BY DEF StepConnectTip, ConnectedStatus, ChainInv, TypeOK
  <1>2. undone \in BlockStatus /\ undone.failed = status[b].failed /\ undone.data = status[b].data
        /\ undone.valid = status[b].valid
    BY <1>1 DEF BlockStatus
  <1>3. /\ new.failed = status[b].failed /\ new.data = status[b].data
        /\ new.valid >= status[b].valid /\ new.valid \in Nat /\ status[b].valid \in Nat
    BY <1>1, <1>2, RaiseValidityLemma, Levels
  <1>4. b \in chainTx
    BY DEF StepConnectTip, IsNext, ChainInv, ThreadsConsistent, LinkedSound
  <1>5. b \in InIndex
    BY <1>4, TreeFacts DEF ChainInv, LinkedSound, LinkedInv
  <1> HIDE DEF new
  <1>6. \A x \in Block \ {b} : status'[x] = status[x]
    BY <1>1
  <1>7. status'[b] = new
    BY <1>1
  <1>8. b \in InIndex => b \in InIndex'
    BY <1>3, <1>7 DEF InIndex, VALID_TREE
  <1>9. QED
    BY <1>1, <1>3, <1>5, <1>6, <1>7, <1>8, LinkedKept DEF Failed, InIndex

\* Storing b: whatever hangs from b and has all its data is linked with it.
LEMMA BlockStoredLinked ==
    ASSUME ChainInv, LinkedInv, NEW t \in Thread, NEW b \in Block, NEW r \in BOOLEAN,
           BlockStored(t, b, r)
    PROVE  LinkedInv'
  <1> DEFINE L == Linked(b)
             added == AddToBlockIndex(b)
             old == added[b]
             stored == [old EXCEPT !.data = TRUE]
             new == RaiseValidity(stored, VALID_TRANSACTIONS)
  <1>1. /\ ~HeaderRejected(b) /\ ~status[b].data /\ b \notin BadBlock
        /\ status' = [added EXCEPT ![b] = new]
        /\ chainTx' = chainTx \cup L /\ unlinked' = NewUnlinked(b, L)
    BY DEF BlockStored, BlockWanted, ReceivedBlockTransactions
  <1>2. b # Genesis /\ pprev[b] \in Block
    <2>1. status[Genesis].data
      BY TreeFacts DEF ChainInv, LinkedSound, TypeOK
    <2>2. b # Genesis
      BY <1>1, <2>1
    <2>3. QED
      BY <2>2, TreeAssumption
  <1>3. ~Failed(b)
    BY <1>1 DEF HeaderRejected, LinkedInv
  <1>4. /\ added \in [Block -> BlockStatus] /\ old.failed = {} /\ status[b].valid \in Nat
        /\ \A x \in Block \ {b} : added[x] = status[x]
    BY <1>3, AddToBlockIndexLemma, AddToBlockIndexOnly, Levels DEF ChainInv, TypeOK, Failed
  <1>5. stored \in BlockStatus /\ stored.failed = {} /\ stored.data = TRUE
    BY <1>4 DEF BlockStatus
  <1>6. new.failed = {} /\ new.data = TRUE /\ new.valid >= VALID_TRANSACTIONS /\ new.valid \in Nat
    BY <1>5, RaiseValidityLemma, Levels
  <1> HIDE DEF new, added
  <1>7. \A x \in Block \ {b} : status'[x] = status[x]
    BY <1>1, <1>4
  <1>8. status'[b] = new
    BY <1>1, <1>4
  <1>9. /\ L \subseteq Block /\ L \cap chainTx = {} /\ (L = {} \/ b \in L)
        /\ pprev[b] \in chainTx => b \in L
        /\ pprev[b] \notin chainTx => L = {}
    BY <1>1, <1>2, LinkedLemma, TreeFacts DEF ChainInv, Linked
  <1> DEFINE Whole(x) == \A a \in Ancestors[x] : status'[a].data
  <1>10. \A x \in Block : x \in InIndex => x \in InIndex'
    BY <1>6, <1>7, <1>8 DEF InIndex, VALID_TREE, VALID_TRANSACTIONS
  <1>11. b \in InIndex' /\ ~Failed(b)'
    BY <1>6, <1>8 DEF InIndex, VALID_TREE, VALID_TRANSACTIONS, Failed
  <1>12. b \in InIndex \/ pprev[b] \in InIndex
    BY <1>1 DEF HeaderRejected
  <1>13. \A x \in InIndex' \ {Genesis} : pprev[x] \in InIndex'
    <2> TAKE x \in InIndex' \ {Genesis}
    <2>1. x \in Block /\ pprev[x] \in Block
      BY TreeAssumption DEF InIndex
    <2>2. x \in InIndex \/ x = b
      BY <1>7, <2>1 DEF InIndex
    <2>3. pprev[x] \in InIndex
      BY <1>12, <2>1, <2>2 DEF LinkedInv
    <2>4. QED
      BY <1>10, <2>1, <2>3
  <1>14. ASSUME NEW x \in Block, Whole(x) PROVE x \in chainTx'
    <2>1. CASE b \notin Ancestors[x]
      BY <1>1, <1>7, <1>14, <2>1, TreeAssumption DEF LinkedInv, LinkedComplete
    <2>2. CASE b \in Ancestors[x]
      <3>1. Ancestors[x] \subseteq Block /\ Ancestors[b] \subseteq Ancestors[x]
        BY <2>2, TreeAssumption, TreeFacts
      <3>2. /\ Ancestors[b] = Ancestors[pprev[b]] \cup {b}
            /\ nHeight[pprev[b]] < nHeight[b] /\ nHeight[b] \in Nat /\ nHeight[pprev[b]] \in Nat
        BY <1>2, ParentStep
      <3>3. b \in Ancestors[pprev[b]] => nHeight[b] <= nHeight[pprev[b]]
        BY <1>2, TreeFacts
      <3>4. b \notin Ancestors[pprev[b]]
        BY <3>2, <3>3
      <3>5. pprev[b] \in chainTx
        BY <1>2, <1>7, <1>14, <3>1, <3>2, <3>4, TreeAssumption DEF LinkedInv, LinkedComplete
      <3>6. ASSUME NEW y \in Ancestors[x], y \notin Ancestors[b] PROVE y \in unlinked
        <4>1. y \in Block /\ y # b /\ status[y].data
          BY <1>7, <1>14, <3>1, <3>6, TreeFacts
        <4>2. b \in Ancestors[y]
          <5>1. nHeight[y] \in Nat /\ nHeight[b] \in Nat
            BY <4>1, TreeAssumption
          <5>2. ~(nHeight[y] <= nHeight[b])
            BY <2>2, <3>6, TreeFacts
          <5>3. nHeight[b] <= nHeight[y]
            BY <5>1, <5>2
          <5>4. QED
            BY <2>2, <5>3, TreeFacts
        <4>3. y \notin chainTx
          BY <1>1, <4>2 DEF ChainInv, LinkedSound
        <4>4. y # Genesis
          BY <4>2, <1>2, TreeAssumption
        <4>5. pprev[y] \in Block /\ pprev[y] \in Ancestors[x]
          BY <4>1, <4>4, ParentStep, TreeFacts
        <4>6. pprev[y] \notin BadBlock
          BY <1>1, <1>7, <1>14, <4>5 DEF LinkedInv
        <4>7. QED
          BY <4>1, <4>3, <4>6 DEF LinkedInv
      <3>7. x = b \/ x \in unlinked
        <4>1. CASE x \in Ancestors[b]
          <5>1. nHeight[x] <= nHeight[b] /\ nHeight[b] <= nHeight[x] /\ b \in Ancestors[x]
            BY <2>2, <4>1, TreeFacts
          <5>2. QED
            BY <2>2, <4>1, SameBlock
        <4>2. CASE x \notin Ancestors[b]
          BY <3>6, <4>2, TreeFacts
        <4>3. QED
          BY <4>1, <4>2
      <3>8. x \in L
        BY <2>2, <3>5, <3>6, <3>7 DEF Linked
      <3>9. QED
        BY <1>1, <3>8
    <2>3. QED
      BY <2>1, <2>2
  <1>15. LinkedComplete'
    BY <1>14 DEF LinkedComplete
  <1>16. ASSUME NEW x \in Block, status'[x].data, x \notin chainTx'
         PROVE  x \in unlinked' \/ pprev[x] \in BadBlock
    <2>1. CASE x # b
      <3>1. x \in unlinked \/ pprev[x] \in BadBlock
        BY <1>1, <1>7, <1>16, <2>1 DEF LinkedInv
      <3>2. x \notin L
        BY <1>1, <1>16
      <3>3. QED
        BY <1>1, <3>1, <3>2 DEF NewUnlinked
    <2>2. CASE x = b
      <3>1. pprev[b] \notin chainTx /\ L = {}
        BY <1>1, <1>9, <1>16, <2>2
      <3>2. pprev[b] \in InIndex
        BY <1>2, <1>12 DEF LinkedInv
      <3>3. CASE IsValid(pprev[b], VALID_TREE)
        BY <1>1, <2>2, <3>1, <3>3 DEF NewUnlinked
      <3>4. CASE ~IsValid(pprev[b], VALID_TREE)
        <4>1. Failed(pprev[b])
          BY <3>2, <3>4 DEF IsValid, StatusIsValid, Failed, InIndex
        <4>2. QED
          BY <1>2, <2>2, <3>1, <4>1 DEF LinkedInv
      <3>5. QED
        BY <3>3, <3>4
    <2>3. QED
      BY <2>1, <2>2
  <1>17. ASSUME NEW x \in Block
         PROVE  /\ status'[x].data => x \notin BadBlock
                /\ Failed(x)' /\ x \notin chainTx' => x \in BadBlock
                /\ Failed(x)' \/ status'[x].data => x \in InIndex'
    <2>1. CASE x = b
      BY <1>1, <1>11, <2>1
    <2>2. CASE x # b
      BY <1>1, <1>7, <1>10, <2>2 DEF LinkedInv, Failed
    <2>3. QED
      BY <2>1, <2>2
  <1>18. QED
    BY <1>13, <1>15, <1>16, <1>17 DEF LinkedInv

LEMMA LinkedStep ==
    ASSUME Invalidatable = {}, ChainInv, LinkedInv, [Next]_chainVars
    PROVE  LinkedInv'
  <1>1. CASE UNCHANGED chainVars
    BY <1>1, SameStatusLinked DEF chainVars, index
  <1>2. ASSUME NEW b \in Block, AcceptBlockHeader(b) PROVE LinkedInv'
    BY <1>2, HeadersLinked DEF AcceptBlockHeader
  <1>3. ASSUME NEW t \in Thread, NEW b \in Block, NEW r \in BOOLEAN,
               BlockIgnored(t, b, r) \/ BlockRefused(t, b, r) \/ BlockStored(t, b, r)
        PROVE  LinkedInv'
    <2>1. CASE BlockIgnored(t, b, r)
      BY <2>1, HeadersLinked DEF BlockIgnored
    <2>2. CASE BlockRefused(t, b, r)
      BY <2>2, HeadersLinked DEF BlockRefused
    <2>3. QED
      BY <1>3, <2>1, <2>2, BlockStoredLinked
  <1>4. ASSUME NEW t \in Thread, NEW b \in Block, InvalidateBlock(t, b) \/ ReconsiderBlock(t, b)
        PROVE  LinkedInv'
    <2>1. ReconsiderBlock(t, b)
      BY <1>4 DEF InvalidateBlock
    <2>2. \A x \in Block : status[x] \in BlockStatus
      BY DEF ChainInv, TypeOK
    <2>3. \A x \in Block : /\ status'[x].data = status[x].data /\ status'[x].valid = status[x].valid
                           /\ status'[x].failed = {} \/ status'[x] = status[x]
      BY <2>1, <2>2 DEF ReconsiderBlock, BlockStatus
    <2>4. UNCHANGED <<chainTx, unlinked>>
      BY <2>1 DEF ReconsiderBlock
    <2>5. QED
      BY <2>3, <2>4, LinkedKept DEF Failed, InIndex
  <1>5. ASSUME NEW t \in Thread, Proceed(t) PROVE LinkedInv'
    <2>1. CASE \/ TakeLock(t) \/ FindMostWorkChain(t) \/ AlreadyThere(t) \/ ReorgTooLong(t)
               \/ BeginStep(t) \/ StepDisconnectTip(t) \/ InvalidateFinish(t)
      BY <2>1, SameStatusLinked
         DEF TakeLock, FindMostWorkChain, AlreadyThere, ReorgTooLong, BeginStep, StepDisconnectTip,
             InvalidateFinish, index
    <2>2. CASE DropFailedCandidate(t)
      <3>1. PICK m \in candidates : \E S \in SUBSET PathTo(m) :
               status' = [b \in Block |-> IF b \in S THEN SetFailed(status[b], "CHILD") ELSE status[b]]
        BY <2>2 DEF DropFailedCandidate
      <3>2. PICK S \in SUBSET PathTo(m) :
               status' = [b \in Block |-> IF b \in S THEN SetFailed(status[b], "CHILD") ELSE status[b]]
        BY <3>1
      <3>3. S \in SUBSET chainTx /\ UNCHANGED <<chainTx, unlinked>>
        BY <2>2, <3>1 DEF PathTo, ChainInv, CandidatesSound, LinkedSound, DropFailedCandidate
      <3>4. QED
        BY <3>2, <3>3, FlagLinked
    <2>3. CASE InvalidateDisconnectTip(t)
      <3>1. {tip} \in SUBSET chainTx /\ UNCHANGED <<chainTx, unlinked>> /\ status \in [Block -> BlockStatus]
            /\ status' = [status EXCEPT ![tip] = SetFailed(@, "CHILD")]
        BY <2>3 DEF ChainInv, InvalidateDisconnectTip, TypeOK
      <3>2. status' = [b \in Block |-> IF b \in {tip} THEN SetFailed(status[b], "CHILD") ELSE status[b]]
        BY <3>1
      <3>3. QED
        BY <3>1, <3>2, FlagLinked
    <2>4. ASSUME NEW b \in Block, StepConnectInvalid(t, b) PROVE LinkedInv'
      <3>1. {b} \in SUBSET chainTx /\ UNCHANGED <<chainTx, unlinked>> /\ status \in [Block -> BlockStatus]
            /\ status' = [status EXCEPT ![b] = SetFailed(@, "VALID")]
        BY <2>4 DEF ChainInv, StepConnectInvalid, IsNext, ThreadsConsistent, LinkedSound, TypeOK
      <3>2. status' = [x \in Block |-> IF x \in {b} THEN SetFailed(status[x], "VALID") ELSE status[x]]
        BY <3>1
      <3>3. QED
        BY <3>1, <3>2, FlagLinked
    <2>5. ASSUME NEW b \in Block, StepConnectTip(t, b) PROVE LinkedInv'
      BY <2>5, StepConnectTipLinked
    <2>6. QED
      BY <1>5, <2>1, <2>2, <2>3, <2>4, <2>5 DEF Proceed
  <1>6. QED
    BY <1>1, <1>2, <1>3, <1>4, <1>5 DEF Next

LEMMA LinkedInit == Init => LinkedInv
  <1> SUFFICES ASSUME Init PROVE LinkedInv
    OBVIOUS
  <1>1. LinkedComplete
    BY TreeFacts, TreeAssumption DEF Init, LinkedComplete, UnknownStatus
  <1>2. QED
    BY <1>1, TreeAssumption, ChainStateAssumption
       DEF Init, LinkedInv, InIndex, Failed, UnknownStatus, VALID_TREE, VALID_TRANSACTIONS

(***************************************************************************)
(* The theorems.                                                            *)
(***************************************************************************)

\* Whatever threads, peers and the operator do, in whatever order: index,
\* candidates, targets and active chain stay consistent.
THEOREM ChainInvariant == Spec => []ChainInv
  BY InitInv, NextInv, PTL DEF Spec

\* Every variable keeps its type, and the tip is always a block.
THEOREM TypeCorrect == Spec => []TypeOK
  <1>1. ChainInv => TypeOK
    BY DEF ChainInv
  <1>2. QED
    BY <1>1, ChainInvariant, PTL

\* Every block of the active chain has its data and its undo data: DisconnectTip
\* never fails for want of them, also after another thread has moved the tip
\* along a stale target.
THEOREM ActiveChainAlwaysDisconnectable == Spec => []ActiveChainDisconnectable
  <1>1. ChainInv => ActiveChainDisconnectable
    BY DEF ChainInv
  <1>2. QED
    BY <1>1, ChainInvariant, PTL

\* setBlockIndexCandidates only ever holds linked blocks at least as good as the
\* tip.
THEOREM CandidatesAlwaysSound == Spec => []CandidatesSound
  <1>1. ChainInv => CandidatesSound
    BY DEF ChainInv
  <1>2. QED
    BY <1>1, ChainInvariant, PTL

\* No reorganisation goes below the bound, however stale its target is.
THEOREM ReorgAlwaysBounded == Spec => ReorgBounded
  <1> DEFINE A == \A t \in Thread : StepDisconnectTip(t)
                    => nHeight[pindexOldTip] - nHeight[tip'] <= MaxReorg
  <1>1. ASSUME ChainInv, NEW t \in Thread, StepDisconnectTip(t)
        PROVE  nHeight[pindexOldTip] - nHeight[tip'] <= MaxReorg
    BY <1>1, AboveFork DEF StepDisconnectTip
  <1>2. ChainInv /\ [Next]_chainVars => [A]_chainVars
    BY <1>1
  <1>3. QED
    BY <1>2, ChainInvariant, PTL DEF Spec, ReorgBounded

\* No failed flag without a cause: at or below a block marked failed there is one
\* that ContextualCheckBlock, ConnectBlock or the operator rejected and nobody
\* has reconsidered, whichever threads propagate and clear flags in between.
THEOREM FailedAlwaysJustified ==
    ASSUME ReconsidersLowest
    PROVE  Spec => []FailedJustified
  <1>1. Init => ChainInv /\ FailureInv
    BY InitInv, FailureInit
  <1>2. ChainInv /\ FailureInv /\ [Next]_chainVars => ChainInv' /\ FailureInv'
    BY NextInv, FailureStep
  <1>3. FailureInv => FailedJustified
    BY DEF FailureInv
  <1>4. QED
    BY <1>1, <1>2, <1>3, PTL DEF Spec

\* Whatever order headers and blocks arrive in, and whichever of them fail: every
\* block whose ancestry has been received is linked (nChainTx # 0), if the operator
\* invalidates nothing.
THEOREM LinkedAlwaysComplete ==
    ASSUME Invalidatable = {}
    PROVE  Spec => []LinkedComplete
  <1>1. Init => ChainInv /\ LinkedInv
    BY InitInv, LinkedInit
  <1>2. ChainInv /\ LinkedInv /\ [Next]_chainVars => ChainInv' /\ LinkedInv'
    BY NextInv, LinkedStep
  <1>3. LinkedInv => LinkedComplete
    BY DEF LinkedInv
  <1>4. QED
    BY <1>1, <1>2, <1>3, PTL DEF Spec

\* The inductive invariant for one thread.
LEMMA OneThreadInvariant ==
    ASSUME ReconsidersLowest, NEW t, Thread = {t}
    PROVE  Spec => [](ChainInv /\ FailureInv /\ ActivationInv)
  <1>1. Init => ChainInv /\ FailureInv /\ ActivationInv
    BY InitInv, FailureInit, ActivationInit
  <1>2. ChainInv /\ FailureInv /\ ActivationInv /\ [Next]_chainVars
            => (ChainInv /\ FailureInv /\ ActivationInv)'
    BY NextInv, FailureStep, ActivationStep
  <1>3. QED
    BY <1>1, <1>2, PTL DEF Spec

\* With one thread, and while the node has not given up: between two calls no
\* linked block without a failed ancestor that is as good as the tip is missing
\* from setBlockIndexCandidates, whatever was pruned, flagged and invalidated before,
\* and whichever blocks without a failed block below them were reconsidered.
THEOREM CandidatesAlwaysComplete ==
    ASSUME ReconsidersLowest, NEW t, Thread = {t}
    PROVE  Spec => []CandidatesComplete
  <1>1. ChainInv /\ FailureInv /\ ActivationInv => CandidatesComplete
    <2> SUFFICES ASSUME ChainInv, ActivationInv, AllIdle, ~shutdown, NEW b \in chainTx,
                        \A a \in Ancestors[b] : ~Failed(a), ~WorkLess(nSequenceId, b, tip)
                 PROVE  b \in candidates
      BY DEF CandidatesComplete
    <2>1. Complete(tip)
      BY DEF AllIdle, ActivationInv
    <2>2. ~Failed(b)
      BY TreeFacts DEF ChainInv, TypeOK
    <2>3. QED
      BY <2>1, <2>2 DEF Complete
  <1>2. QED
    BY <1>1, OneThreadInvariant, PTL

\* A tip that is the best of a complete set of candidates has the most work.
LEMMA IdleOnBest ==
    ASSUME NEW t, Thread = {t}, ChainInv, ActivationInv
    PROVE  BestChainActivated
  <1> SUFFICES ASSUME AllIdle, ~shutdown, NEW b \in chainTx,
                      \A a \in Ancestors[b] : ~Failed(a), ~(nChainWork[b] <= nChainWork[tip])
               PROVE  FALSE
    BY DEF BestChainActivated
  <1>1. Complete(tip) /\ Best(tip)
    BY DEF AllIdle, ActivationInv
  <1>2. b \in Block /\ ~Failed(b) /\ tip \in Block /\ nChainWork[b] \in Nat /\ nChainWork[tip] \in Nat
    BY TreeFacts, TreeAssumption DEF ChainInv, TypeOK
  <1>3. WorkLess(nSequenceId, tip, b) /\ ~WorkLess(nSequenceId, b, tip)
    BY <1>2 DEF WorkLess
  <1>4. QED
    BY <1>1, <1>2, <1>3 DEF Complete, Best

\* ActivateBestChain keeps its promise: when it has returned and the node has not
\* given up on a reorganisation that was too long, no linked block without a failed
\* ancestor has more work than the tip.  Two hypotheses, both needed.  One thread: with
\* two the run chain_stale_target refutes it.  ReconsidersLowest: after reconsiderblock
\* of a block above a failed one it is false, as the ancestor that main.cpp:3495-3501
\* unmarks is not made a candidate again.
THEOREM BestChainAlwaysActivated ==
    ASSUME ReconsidersLowest, NEW t, Thread = {t}
    PROVE  Spec => []BestChainActivated
  <1>1. ChainInv /\ ActivationInv => BestChainActivated
    BY IdleOnBest
  <1>2. QED
    BY <1>1, OneThreadInvariant, PTL

-----------------------------------------------------------------------------
(***************************************************************************)
(* ChainDisk.                                                               *)
(***************************************************************************)

(***************************************************************************)
(* The inductive invariant.                                                 *)
(***************************************************************************)

\* A status word without FAILED_CHILD.
Core(s) == [s EXCEPT !.failed = @ \cap {"VALID"}]

\* What is left of a flush.
FlushStates ==
    {<<>>, <<"files", "index", "coins">>, <<"index", "coins">>, <<"coins">>,
     <<"files", "index">>, <<"index">>}

DiskTypeOK ==
    /\ nFile \in [Block -> Nat] /\ nLastBlockFile \in Nat
    /\ flush \in FlushStates /\ running \in BOOLEAN
    /\ diskStatus \in [Block -> BlockStatus]
    /\ diskFile \in [Block -> Nat] /\ diskLastFile \in Nat /\ diskTip \in Block

\* What a dead process has: nothing, so a restart starts from these.
Down ==
    /\ flush = <<>> /\ dirty = {} /\ csMain = NoThread /\ shutdown = FALSE
    /\ nSequenceId = [b \in Block |-> 0] /\ nBlockSequenceId = 1
    /\ pc = [t \in Thread |-> "idle"]
    /\ pindexMostWork = [t \in Thread |-> NoBlock]
    /\ pindexOldTip = NoBlock /\ pindexInvalid = NoBlock

\* The disk lags behind the memory: it knows of no data that the memory does not,
\* and an entry that is not dirty differs at most in a FAILED_CHILD the memory has
\* and the disk has not.
DiskBehind ==
    \A b \in Block :
        /\ diskStatus[b].data => status[b].data
        /\ diskStatus[b].undo => status[b].undo
        /\ b \notin dirty => /\ Core(diskStatus[b]) = Core(status[b])
                             /\ diskStatus[b].failed \subseteq status[b].failed
                             /\ diskFile[b] = nFile[b]

\* FlushStateToDisk writes the coins only when the index is on disk, with cs_main
\* held all the time.
DiskInv ==
    /\ DiskTypeOK
    /\ running => ChainInv /\ DiskBehind
    /\ ~running => Down
    /\ flush = <<"coins">> => dirty = {}
    /\ DiskTipRecoverable

\* What the index on disk tells about linking: see LinkedInv.
DiskLinked ==
    /\ \A b \in Block \ {Genesis} :
          diskStatus[b].valid >= VALID_TREE => diskStatus[pprev[b]].valid >= VALID_TREE
    /\ \A b \in Block :
          /\ diskStatus[b].data => b \notin BadBlock
          /\ diskStatus[b].failed # {} /\ b \notin LoadedChainTx => b \in BadBlock
          /\ diskStatus[b].failed # {} \/ diskStatus[b].data => diskStatus[b].valid >= VALID_TREE

RestartLinkedInv == DiskLinked /\ (running => LinkedInv)

\* What it tells about failed blocks: see FailureInv.
DiskFailure ==
    \A b \in Block :
        /\ "VALID" \in diskStatus[b].failed => b \in BadBlock \cup BadConnect \cup Invalidatable
        /\ diskStatus[b].data => diskStatus[b].valid >= VALID_TRANSACTIONS
        /\ diskStatus[b].failed # {} => \E a \in Ancestors[b] : "VALID" \in diskStatus[a].failed

\* No block that ConnectBlock rejects is in the active chain, whichever thread
\* connects blocks to it, nor in the chain the coins database ends in.
NoBadTip == Ancestors[tip] \cap BadConnect = {}
NoBadDiskTip == Ancestors[diskTip] \cap BadConnect = {}

RestartBestInv ==
    /\ DiskFailure
    /\ NoBadDiskTip
    /\ running => FailureInv /\ ActivationInv /\ NoBadTip

(***************************************************************************)
(* Status words and flush sequences.                                        *)
(***************************************************************************)

LEMMA CoreFields ==
    ASSUME NEW s \in BlockStatus
    PROVE  /\ Core(s) \in BlockStatus
           /\ Core(s).valid = s.valid /\ Core(s).data = s.data /\ Core(s).undo = s.undo
           /\ Core(s).failed = s.failed \cap {"VALID"}
  BY DEF Core, BlockStatus

LEMMA CoreEqual ==
    ASSUME NEW r \in BlockStatus, NEW s \in BlockStatus,
           r.valid = s.valid, r.data = s.data, r.undo = s.undo,
           r.failed \cap {"VALID"} = s.failed \cap {"VALID"}
    PROVE  Core(r) = Core(s)
  <1>1. Core(r) = [valid |-> r.valid, failed |-> r.failed \cap {"VALID"}, data |-> r.data, undo |-> r.undo]
    BY DEF Core, BlockStatus
  <1>2. Core(s) = [valid |-> s.valid, failed |-> s.failed \cap {"VALID"}, data |-> s.data, undo |-> s.undo]
    BY DEF Core, BlockStatus
  <1>3. QED
    BY <1>1, <1>2

\* A full flush gets to the coins only through the index.
LEMMA FlushTail ==
    ASSUME NEW f \in FlushStates, f # <<>>
    PROVE  /\ Tail(f) \in FlushStates
           /\ Tail(f) = <<"coins">> => Head(f) = "index"
           /\ Head(f) = "coins" => f = <<"coins">>
  <1>1. CASE f = <<"files", "index", "coins">>
    <2>1. Tail(f) = <<"index", "coins">> /\ Head(f) = "files"
      BY <1>1
    <2>2. Tail(f) # <<"coins">>
      BY <2>1
    <2>3. QED
      BY <2>1, <2>2 DEF FlushStates
  <1>2. CASE f = <<"index", "coins">>
    <2>1. Tail(f) = <<"coins">> /\ Head(f) = "index"
      BY <1>2
    <2>2. QED
      BY <2>1 DEF FlushStates
  <1>3. CASE f = <<"files", "index">>
    <2>1. Tail(f) = <<"index">> /\ Head(f) = "files"
      BY <1>3
    <2>2. Tail(f) # <<"coins">>
      BY <2>1
    <2>3. QED
      BY <2>1, <2>2 DEF FlushStates
  <1>4. CASE f = <<"coins">> \/ f = <<"index">>
    <2>1. f \in Seq({"coins", "index"}) /\ Len(f) = 1
      <3>1. <<"coins">> \in Seq({"coins", "index"}) /\ Len(<<"coins">>) = 1
        OBVIOUS
      <3>2. <<"index">> \in Seq({"coins", "index"}) /\ Len(<<"index">>) = 1
        OBVIOUS
      <3>3. QED
        BY <1>4, <3>1, <3>2
    <2>2. Tail(f) \in Seq({"coins", "index"}) /\ Len(Tail(f)) = 0
      BY <2>1, HeadTailProperties
    <2>3. Tail(f) = <<>>
      BY <2>2, EmptySeq
    <2>4. Tail(f) # <<"coins">>
      BY <2>3
    <2>5. Head(f) = "coins" => f = <<"coins">>
      BY <1>4
    <2>6. QED
      BY <2>3, <2>4, <2>5 DEF FlushStates
  <1>5. QED
    BY <1>1, <1>2, <1>3, <1>4 DEF FlushStates

LEMMA FlushStarts ==
    /\ {<<>>, FullFlush, IndexWrite} \subseteq FlushStates
    /\ \A f \in {<<>>, FullFlush, IndexWrite} : f # <<"coins">>
  BY DEF FlushStates, FullFlush, IndexWrite

(***************************************************************************)
(* The index in memory: flags of data only appear, and what changes is      *)
(* dirty.                                                                   *)
(***************************************************************************)

\* What a step of ChainState may do to the entries.
EntriesTracked ==
    \A x \in Block :
        /\ status[x].data => status'[x].data
        /\ status[x].undo => status'[x].undo
        /\ x \notin dirty' => /\ x \notin dirty
                              /\ Core(status'[x]) = Core(status[x])
                              /\ status[x].failed \subseteq status'[x].failed

LEMMA DirtyEntry ==
    ASSUME TypeOK, TypeOK', NEW b \in Block, dirty \cup {b} \subseteq dirty',
           \A x \in Block \ {b} : status'[x] = status[x],
           status[b].data => status'[b].data, status[b].undo => status'[b].undo
    PROVE  EntriesTracked
  BY DEF EntriesTracked

LEMMA SameEntries ==
    ASSUME UNCHANGED <<status, dirty>>
    PROVE  EntriesTracked
  BY DEF EntriesTracked

LEMMA HeaderTracked ==
    ASSUME ChainInv, TypeOK', NEW b \in Block,
           \/ status' = AddToBlockIndex(b)
           \/ status' = [AddToBlockIndex(b) EXCEPT ![b] = SetFailed(@, "VALID")],
           dirty' = dirty \cup {b}
    PROVE  EntriesTracked
  <1> DEFINE added == AddToBlockIndex(b)
  <1>1. /\ added \in [Block -> BlockStatus]
        /\ added[b].data = status[b].data /\ added[b].undo = status[b].undo
        /\ \A x \in Block \ {b} : added[x] = status[x]
    BY AddToBlockIndexLemma, AddToBlockIndexOnly DEF ChainInv
  <1>2. SetFailed(added[b], "VALID").data = added[b].data /\ SetFailed(added[b], "VALID").undo = added[b].undo
    BY <1>1, SetFailedLemma
  <1>3. status' = added \/ status' = [added EXCEPT ![b] = SetFailed(added[b], "VALID")]
    OBVIOUS
  <1> HIDE DEF added
  <1>4. \A x \in Block \ {b} : status'[x] = status[x]
    BY <1>1, <1>3
  <1>5. status'[b].data = status[b].data /\ status'[b].undo = status[b].undo
    BY <1>1, <1>2, <1>3
  <1>6. QED
    BY <1>4, <1>5, DirtyEntry DEF ChainInv

LEMMA BlockTracked ==
    ASSUME ChainInv, TypeOK', NEW t \in Thread, NEW b \in Block, NEW r \in BOOLEAN,
           BlockIgnored(t, b, r) \/ BlockRefused(t, b, r) \/ BlockStored(t, b, r)
    PROVE  EntriesTracked
  <1>1. CASE BlockRefused(t, b, r)
    BY <1>1, HeaderTracked DEF BlockRefused
  <1>2. CASE BlockIgnored(t, b, r) /\ b \notin InIndex
    BY <1>2, HeaderTracked DEF BlockIgnored
  <1>3. CASE BlockIgnored(t, b, r) /\ b \in InIndex
    <2>1. status' = AddToBlockIndex(b) /\ dirty' = dirty
      BY <1>3 DEF BlockIgnored
    <2>2. \A x \in Block : status'[x] = status[x]
      BY <1>3, <2>1, AddToBlockIndexOnly
    <2>3. QED
      BY <2>1, <2>2 DEF EntriesTracked
  <1>4. CASE BlockStored(t, b, r)
    <2> DEFINE added == AddToBlockIndex(b)
               old == added[b]
               stored == [old EXCEPT !.data = TRUE]
               new == RaiseValidity(stored, VALID_TRANSACTIONS)
    <2>1. status' = [added EXCEPT ![b] = new] /\ dirty' = dirty \cup {b}
      BY <1>4 DEF BlockStored
    <2>2. /\ added \in [Block -> BlockStatus] /\ old.undo = status[b].undo
          /\ \A x \in Block \ {b} : added[x] = status[x]
      BY AddToBlockIndexLemma, AddToBlockIndexOnly DEF ChainInv
    <2>3. stored \in BlockStatus /\ stored.data = TRUE /\ stored.undo = old.undo
      BY <2>2 DEF BlockStatus
    <2>4. new.data = TRUE /\ new.undo = status[b].undo
      BY <2>2, <2>3, RaiseValidityLemma
    <2> HIDE DEF new, added
    <2>5. (\A x \in Block \ {b} : status'[x] = status[x]) /\ status'[b] = new
      BY <2>1, <2>2
    <2>6. QED
      BY <2>1, <2>4, <2>5, DirtyEntry DEF ChainInv
  <1>5. QED
    BY <1>1, <1>2, <1>3, <1>4

\* SetFailed on a block that becomes dirty.
LEMMA FlagTracked ==
    ASSUME ChainInv, TypeOK', NEW b \in Block, NEW f \in {"VALID", "CHILD"},
           status' = [status EXCEPT ![b] = SetFailed(@, f)], dirty' = dirty \cup {b}
    PROVE  EntriesTracked
  <1>1. status \in [Block -> BlockStatus] /\ status' = [status EXCEPT ![b] = SetFailed(status[b], f)]
    BY DEF ChainInv, TypeOK
  <1>2. SetFailed(status[b], f).data = status[b].data /\ SetFailed(status[b], f).undo = status[b].undo
    BY <1>1, SetFailedLemma
  <1>3. QED
    BY <1>1, <1>2, DirtyEntry DEF ChainInv

\* FindMostWorkChain's flags are the ones that do not count.
LEMMA DropTracked ==
    ASSUME ChainInv, TypeOK', NEW t \in Thread, DropFailedCandidate(t)
    PROVE  EntriesTracked
  <1>1. PICK m \in candidates : \E S \in SUBSET PathTo(m) :
           status' = [b \in Block |-> IF b \in S THEN SetFailed(status[b], "CHILD") ELSE status[b]]
    BY DEF DropFailedCandidate
  <1>2. PICK S \in SUBSET PathTo(m) :
           status' = [b \in Block |-> IF b \in S THEN SetFailed(status[b], "CHILD") ELSE status[b]]
    BY <1>1
  <1>3. dirty' = dirty /\ \A x \in Block : status[x] \in BlockStatus /\ status'[x] \in BlockStatus
    BY DEF DropFailedCandidate, ChainInv, TypeOK
  <1>4. \A x \in Block : /\ status'[x].data = status[x].data
                         /\ status'[x].undo = status[x].undo
                         /\ status'[x].valid = status[x].valid
                         /\ status'[x].failed = status[x].failed \cup (IF x \in S THEN {"CHILD"} ELSE {})
    BY <1>2, <1>3, SetFailedLemma, SetFailedFlag
  <1>5. \A x \in Block : Core(status'[x]) = Core(status[x])
    <2> TAKE x \in Block
    <2>1. status'[x].failed \cap {"VALID"} = status[x].failed \cap {"VALID"}
      BY <1>4
    <2>2. QED
      BY <1>3, <1>4, <2>1, CoreEqual
  <1>6. QED
    BY <1>3, <1>4, <1>5 DEF EntriesTracked

\* ConnectBlock dirties the entry unless there is nothing to change in it.
LEMMA ConnectTracked ==
    ASSUME ChainInv, TypeOK', NEW t \in Thread, NEW b \in Block, StepConnectTip(t, b)
    PROVE  EntriesTracked
  <1>1. /\ status \in [Block -> BlockStatus]
        /\ status' = [status EXCEPT ![b] = ConnectedStatus(status[b])]
        /\ dirty' = IF ~status[b].undo \/ ~IsValid(b, VALID_SCRIPTS) THEN dirty \cup {b} ELSE dirty
    BY DEF StepConnectTip, ChainInv, TypeOK
  <1>2. ConnectedStatus(status[b]).data = status[b].data /\ ConnectedStatus(status[b]).undo = TRUE
    BY <1>1, ConnectedStatusLemma
  <1>3. CASE ~status[b].undo \/ ~IsValid(b, VALID_SCRIPTS)
    BY <1>1, <1>2, <1>3, DirtyEntry DEF ChainInv
  <1>4. CASE status[b].undo /\ IsValid(b, VALID_SCRIPTS)
    <2>1. status[b] \in BlockStatus /\ status[b].undo = TRUE
          /\ status[b].failed = {} /\ status[b].valid >= VALID_SCRIPTS
      BY <1>1, <1>4, Levels DEF IsValid, StatusIsValid
    <2>2. [status[b] EXCEPT !.undo = TRUE] = status[b]
      BY <2>1 DEF BlockStatus
    <2>3. ConnectedStatus(status[b]) = status[b]
      BY <2>1, <2>2, Levels DEF ConnectedStatus, RaiseValidity, VALID_SCRIPTS
    <2>4. \A x \in Block : status'[x] = status[x]
      BY <1>1, <2>3
    <2>5. QED
      BY <1>1, <1>4, <2>4 DEF EntriesTracked
  <1>5. QED
    BY <1>3, <1>4

LEMMA ReconsiderTracked ==
    ASSUME ChainInv, TypeOK', NEW t \in Thread, NEW b \in Block, ReconsiderBlock(t, b)
    PROVE  EntriesTracked
  <1>1. \A x \in Block : status[x] \in BlockStatus
    BY DEF ChainInv, TypeOK
  <1>2. \A x \in Block : /\ status'[x].data = status[x].data /\ status'[x].undo = status[x].undo
                         /\ x \notin ReconsiderCleared(b) => status'[x] = status[x]
    BY <1>1 DEF ReconsiderBlock, BlockStatus
  <1>3. dirty' = dirty \cup ReconsiderCleared(b)
    BY DEF ReconsiderBlock
  <1>4. QED
    BY <1>2, <1>3 DEF EntriesTracked

LEMMA NextTracked ==
    ASSUME ChainInv, [Next]_chainVars
    PROVE  EntriesTracked
  <1>0. TypeOK'
    BY NextInv DEF ChainInv
  <1>1. CASE UNCHANGED chainVars
    BY <1>1, SameEntries DEF chainVars, index
  <1>2. ASSUME NEW b \in Block, AcceptBlockHeader(b) PROVE EntriesTracked
    BY <1>0, <1>2, HeaderTracked DEF AcceptBlockHeader
  <1>3. ASSUME NEW t \in Thread, NEW b \in Block, NEW r \in BOOLEAN,
               BlockIgnored(t, b, r) \/ BlockRefused(t, b, r) \/ BlockStored(t, b, r)
        PROVE  EntriesTracked
    BY <1>0, <1>3, BlockTracked
  <1>4. ASSUME NEW t \in Thread, NEW b \in Block, InvalidateBlock(t, b) \/ ReconsiderBlock(t, b)
        PROVE  EntriesTracked
    <2>1. CASE InvalidateBlock(t, b)
      BY <1>0, <2>1, FlagTracked DEF InvalidateBlock
    <2>2. QED
      BY <1>0, <1>4, <2>1, ReconsiderTracked
  <1>5. ASSUME NEW t \in Thread, Proceed(t) PROVE EntriesTracked
    <2>1. CASE \/ TakeLock(t) \/ FindMostWorkChain(t) \/ AlreadyThere(t) \/ ReorgTooLong(t)
               \/ BeginStep(t) \/ StepDisconnectTip(t) \/ InvalidateFinish(t)
      BY <2>1, SameEntries
         DEF TakeLock, FindMostWorkChain, AlreadyThere, ReorgTooLong, BeginStep, StepDisconnectTip,
             InvalidateFinish, index
    <2>2. CASE DropFailedCandidate(t)
      BY <1>0, <2>2, DropTracked
    <2>3. CASE InvalidateDisconnectTip(t)
      BY <1>0, <2>3, FlagTracked DEF InvalidateDisconnectTip, ChainInv, TypeOK
    <2>4. ASSUME NEW b \in Block, StepConnectInvalid(t, b) PROVE EntriesTracked
      BY <1>0, <2>4, FlagTracked DEF StepConnectInvalid
    <2>5. ASSUME NEW b \in Block, StepConnectTip(t, b) PROVE EntriesTracked
      BY <1>0, <2>5, ConnectTracked
    <2>6. QED
      BY <1>5, <2>1, <2>2, <2>3, <2>4, <2>5 DEF Proceed
  <1>6. QED
    BY <1>1, <1>2, <1>3, <1>4, <1>5 DEF Next

(***************************************************************************)
(* DiskInv is inductive.                                                    *)
(***************************************************************************)

\* Every handler, with its effect on the files, is a step of ChainState.
LEMMA HandlerStep ==
    ASSUME \/ MemoryStep
           \/ \E t \in Thread, b \in Block, fRequested \in BOOLEAN : StoreBlock(t, b, fRequested)
           \/ \E t \in Thread, b \in Block : ConnectTip(t, b)
           \/ \E t \in Thread : DisconnectTip(t)
           \/ \E steps \in {FullFlush, IndexWrite} : FlushStateToDisk(steps)
    PROVE  /\ Up /\ [Next]_chainVars /\ UNCHANGED <<diskStatus, diskFile, diskLastFile, diskTip, running>>
           /\ flush' \in {<<>>, FullFlush, IndexWrite}
  <1>1. CASE MemoryStep
    BY <1>1 DEF MemoryStep, Up, Next, Proceed, diskVars, dbVars
  <1>2. ASSUME NEW t \in Thread, NEW b \in Block, NEW r \in BOOLEAN, StoreBlock(t, b, r)
        PROVE  /\ Up /\ [Next]_chainVars /\ UNCHANGED <<dbVars, running>>
               /\ flush' \in {<<>>, FullFlush, IndexWrite}
    BY <1>2 DEF StoreBlock, Up, Next
  <1>3. ASSUME NEW t \in Thread, NEW b \in Block, ConnectTip(t, b)
        PROVE  /\ Up /\ [Next]_chainVars /\ UNCHANGED <<dbVars, running>>
               /\ flush' \in {<<>>, FullFlush, IndexWrite}
    BY <1>3 DEF ConnectTip, FlushIfNeeded, Next, Proceed
  <1>4. ASSUME NEW t \in Thread, DisconnectTip(t)
        PROVE  /\ Up /\ [Next]_chainVars /\ UNCHANGED <<dbVars, running>>
               /\ flush' \in {<<>>, FullFlush, IndexWrite}
    BY <1>4 DEF DisconnectTip, FlushIfNeeded, Next, Proceed
  <1>5. ASSUME NEW steps \in {FullFlush, IndexWrite}, FlushStateToDisk(steps)
        PROVE  /\ Up /\ [Next]_chainVars /\ UNCHANGED <<dbVars, running>>
               /\ flush' \in {<<>>, FullFlush, IndexWrite}
    BY <1>5 DEF FlushStateToDisk
  <1>6. QED
    BY <1>1, <1>2, <1>3, <1>4, <1>5 DEF dbVars

\* Only the block being stored gets a new place in the files.
LEMMA HandlerFiles ==
    ASSUME DiskInv,
           \/ MemoryStep
           \/ \E t \in Thread, b \in Block, fRequested \in BOOLEAN : StoreBlock(t, b, fRequested)
           \/ \E t \in Thread, b \in Block : ConnectTip(t, b)
           \/ \E t \in Thread : DisconnectTip(t)
           \/ \E steps \in {FullFlush, IndexWrite} : FlushStateToDisk(steps)
    PROVE  /\ nFile' \in [Block -> Nat] /\ nLastBlockFile' \in Nat
           /\ \A x \in Block : nFile'[x] = nFile[x] \/ x \in dirty'
  <1>0. nFile \in [Block -> Nat] /\ nLastBlockFile \in Nat
    BY DEF DiskInv, DiskTypeOK
  <1>1. CASE MemoryStep
    BY <1>0, <1>1 DEF MemoryStep, diskVars, fileVars
  <1>2. ASSUME NEW t \in Thread, NEW b \in Block, NEW r \in BOOLEAN, StoreBlock(t, b, r)
        PROVE  /\ nFile' \in [Block -> Nat] /\ nLastBlockFile' \in Nat
               /\ \A x \in Block : nFile'[x] = nFile[x] \/ x \in dirty'
    <2>1. nLastBlockFile' \in Nat /\ nFile' = [nFile EXCEPT ![b] = nLastBlockFile']
      BY <1>0, <1>2 DEF StoreBlock, WriteBlockToDisk
    <2>2. dirty' = dirty \cup {b}
      BY <1>2 DEF StoreBlock, BlockStored
    <2>3. QED
      BY <1>0, <2>1, <2>2
  <1>3. CASE \E t \in Thread, b \in Block : ConnectTip(t, b)
    BY <1>0, <1>3 DEF ConnectTip, UndoWriteToDisk
  <1>4. CASE (\E t \in Thread : DisconnectTip(t)) \/ \E steps \in {FullFlush, IndexWrite} : FlushStateToDisk(steps)
    BY <1>0, <1>4 DEF DisconnectTip, FlushStateToDisk, fileVars
  <1>5. QED
    BY <1>1, <1>2, <1>3, <1>4

LEMMA HandlerDisk ==
    ASSUME DiskInv,
           \/ MemoryStep
           \/ \E t \in Thread, b \in Block, fRequested \in BOOLEAN : StoreBlock(t, b, fRequested)
           \/ \E t \in Thread, b \in Block : ConnectTip(t, b)
           \/ \E t \in Thread : DisconnectTip(t)
           \/ \E steps \in {FullFlush, IndexWrite} : FlushStateToDisk(steps)
    PROVE  DiskInv'
  <1>1. /\ Up /\ [Next]_chainVars /\ UNCHANGED <<diskStatus, diskFile, diskLastFile, diskTip, running>>
        /\ flush' \in {<<>>, FullFlush, IndexWrite}
    BY HandlerStep
  <1>2. /\ nFile' \in [Block -> Nat] /\ nLastBlockFile' \in Nat
        /\ \A x \in Block : nFile'[x] = nFile[x] \/ x \in dirty'
    BY HandlerFiles
  <1>3. running /\ ChainInv /\ DiskBehind /\ DiskTypeOK
    BY <1>1 DEF Up, DiskInv
  <1>4. ChainInv' /\ EntriesTracked
    BY <1>1, <1>3, NextInv, NextTracked
  <1>5. DiskBehind'
    BY <1>1, <1>2, <1>3, <1>4 DEF DiskBehind, EntriesTracked
  <1>6. DiskTypeOK'
    BY <1>1, <1>2, <1>3, FlushStarts DEF DiskTypeOK
  <1>7. DiskTipRecoverable'
    BY <1>1 DEF DiskInv, DiskTipRecoverable
  <1>8. QED
    BY <1>1, <1>3, <1>4, <1>5, <1>6, <1>7, FlushStarts DEF DiskInv

\* No part of ChainInv is about setDirtyBlockIndex but its type.
LEMMA CleanChain ==
    ASSUME ChainInv, dirty' = {},
           UNCHANGED <<status, chainTx, nSequenceId, nBlockSequenceId, unlinked, tip, candidates,
                       threads, shutdown>>
    PROVE  ChainInv'
  BY DEF ChainInv, threads, TypeOK, LinkedSound, UnlinkedSound, CandidatesSound,
         WorkLess, ActiveChainDisconnectable, ChainActive, ThreadsConsistent, StepWithinBound

\* After the batch the disk has what the memory has, but for FAILED_CHILD.
LEMMA FlushIndexCopies ==
    ASSUME DiskInv, FlushIndex
    PROVE  /\ ChainInv /\ running
           /\ diskStatus' \in [Block -> BlockStatus]
           /\ \A x \in Block : /\ Core(diskStatus'[x]) = Core(status[x])
                               /\ diskStatus'[x].failed \subseteq status[x].failed
                               /\ diskStatus'[x].data = status[x].data
                               /\ diskStatus'[x].undo = status[x].undo
                               /\ diskStatus'[x].valid = status[x].valid
                               /\ "VALID" \in status[x].failed => "VALID" \in diskStatus'[x].failed
  <1>1. /\ running /\ ChainInv /\ DiskBehind /\ DiskTypeOK
        /\ diskStatus' = [b \in Block |-> IF b \in dirty THEN status[b] ELSE diskStatus[b]]
    BY DEF FlushIndex, WrittenEntries, DiskInv
  <1>2. \A x \in Block : status[x] \in BlockStatus /\ diskStatus[x] \in BlockStatus
    BY <1>1 DEF ChainInv, TypeOK, DiskTypeOK
  <1>3. diskStatus' \in [Block -> BlockStatus]
    BY <1>1, <1>2
  <1>4. \A x \in Block : /\ Core(diskStatus'[x]) = Core(status[x])
                         /\ diskStatus'[x].failed \subseteq status[x].failed
    BY <1>1 DEF DiskBehind
  <1>5. \A x \in Block : /\ diskStatus'[x].data = status[x].data
                         /\ diskStatus'[x].undo = status[x].undo
                         /\ diskStatus'[x].valid = status[x].valid
                         /\ "VALID" \in status[x].failed => "VALID" \in diskStatus'[x].failed
    <2> TAKE x \in Block
    <2>1. diskStatus'[x] \in BlockStatus /\ status[x] \in BlockStatus /\ Core(diskStatus'[x]) = Core(status[x])
      BY <1>2, <1>3, <1>4
    <2>2. diskStatus'[x].failed \cap {"VALID"} = status[x].failed \cap {"VALID"}
      BY <2>1, CoreFields
    <2>3. QED
      BY <2>1, <2>2, CoreFields
  <1>6. QED
    BY <1>1, <1>3, <1>4, <1>5

LEMMA FlushIndexDisk ==
    ASSUME DiskInv, FlushIndex
    PROVE  DiskInv'
  <1>1. /\ running /\ ChainInv /\ DiskBehind /\ DiskTypeOK
        /\ diskFile' = [b \in Block |-> IF b \in dirty THEN nFile[b] ELSE diskFile[b]]
        /\ diskLastFile' = nLastBlockFile /\ dirty' = {} /\ flush # <<>> /\ flush' = Tail(flush)
        /\ UNCHANGED <<status, chainTx, nSequenceId, nBlockSequenceId, unlinked, tip, candidates,
                       threads, shutdown, fileVars, diskTip, running>>
    BY DEF FlushIndex, WrittenEntries, DiskInv
  <1>2. ChainInv'
    BY <1>1, CleanChain
  <1>3. /\ diskStatus' \in [Block -> BlockStatus]
        /\ \A x \in Block : /\ Core(diskStatus'[x]) = Core(status[x])
                            /\ diskStatus'[x].failed \subseteq status[x].failed
                            /\ diskStatus'[x].data = status[x].data
                            /\ diskStatus'[x].undo = status[x].undo
    BY FlushIndexCopies
  <1>4. DiskBehind'
    BY <1>1, <1>3 DEF DiskBehind, fileVars
  <1>5. DiskTypeOK'
    BY <1>1, <1>3, FlushTail DEF DiskTypeOK, fileVars
  <1>6. DiskTipRecoverable'
    BY <1>1, <1>3, TreeAssumption DEF DiskBehind, DiskTipRecoverable, DiskTypeOK, DiskInv
  <1>7. QED
    BY <1>1, <1>2, <1>4, <1>5, <1>6 DEF DiskInv

LEMMA FlushCoinsDisk ==
    ASSUME DiskInv, FlushCoins
    PROVE  DiskInv'
  <1>1. /\ running /\ ChainInv /\ DiskBehind /\ DiskTypeOK /\ flush # <<>> /\ Head(flush) = "coins"
        /\ diskTip' = tip /\ flush' = Tail(flush)
        /\ UNCHANGED <<chainVars, fileVars, diskStatus, diskFile, diskLastFile, running>>
    BY DEF FlushCoins, DiskInv
  <1>2. flush = <<"coins">> /\ flush' \in FlushStates /\ flush' # <<"coins">>
    BY <1>1, FlushTail DEF DiskTypeOK
  <1>3. dirty = {}
    BY <1>2 DEF DiskInv
  <1>4. ChainInv'
    BY <1>1, StutterInv
  <1>5. tip \in Block /\ diskStatus \in [Block -> BlockStatus] /\ status \in [Block -> BlockStatus]
    BY <1>1 DEF ChainInv, TypeOK, DiskTypeOK
  <1>6. \A x \in Block : diskStatus[x].data = status[x].data /\ diskStatus[x].undo = status[x].undo
    <2> TAKE x \in Block
    <2>1. Core(diskStatus[x]) = Core(status[x]) /\ diskStatus[x] \in BlockStatus /\ status[x] \in BlockStatus
      BY <1>1, <1>3, <1>5 DEF DiskBehind
    <2>2. QED
      BY <2>1, CoreFields
  <1>7. \A b \in Ancestors[tip] : b \in Block /\ status[b].data /\ (b # Genesis => status[b].undo)
    BY <1>1, <1>5, TreeAssumption DEF ChainInv, LinkedSound, ActiveChainDisconnectable, ChainActive
  <1>8. DiskTipRecoverable'
    BY <1>1, <1>6, <1>7 DEF DiskTipRecoverable
  <1>9. DiskBehind'
    BY <1>1 DEF DiskBehind, chainVars, index, fileVars
  <1>10. DiskTypeOK'
    BY <1>1, <1>2, <1>5 DEF DiskTypeOK, fileVars
  <1>11. QED
    BY <1>1, <1>2, <1>4, <1>8, <1>9, <1>10 DEF DiskInv

LEMMA FlushFilesDisk ==
    ASSUME DiskInv, FlushFiles
    PROVE  DiskInv'
  <1>1. /\ running /\ ChainInv /\ DiskBehind /\ DiskTypeOK /\ flush # <<>> /\ Head(flush) = "files"
        /\ flush' = Tail(flush)
        /\ UNCHANGED <<chainVars, nFile, nLastBlockFile, dbVars, running>>
    BY DEF FlushFiles, DiskInv
  <1>2. flush' \in FlushStates /\ flush' # <<"coins">>
    BY <1>1, FlushTail DEF DiskTypeOK
  <1>3. ChainInv'
    BY <1>1, StutterInv
  <1>4. DiskBehind' /\ DiskTypeOK' /\ DiskTipRecoverable'
    BY <1>1, <1>2 DEF DiskInv, DiskBehind, DiskTypeOK, DiskTipRecoverable, chainVars, index, dbVars
  <1>5. QED
    BY <1>1, <1>2, <1>3, <1>4 DEF DiskInv

LEMMA CrashDisk ==
    ASSUME DiskInv, Crash
    PROVE  DiskInv'
  <1>1. Down' /\ ~running' /\ flush' # <<"coins">>
    BY DEF Crash, Down
  <1>2. DiskTypeOK' /\ DiskTipRecoverable'
    BY DEF Crash, DiskInv, DiskTypeOK, DiskTipRecoverable, dbVars, FlushStates
  <1>3. QED
    BY <1>1, <1>2 DEF DiskInv

\* LoadBlockIndexDB rebuilds ChainInv from a chain that can be rolled back.
LEMMA LoadChain ==
    ASSUME DiskInv, NEW t \in Thread, LoadBlockIndexDB(t)
    PROVE  ChainInv'
  <1>1. /\ Down /\ DiskTypeOK /\ DiskTipRecoverable
        /\ status' = diskStatus /\ chainTx' = LoadedChainTx /\ tip' = diskTip
        /\ unlinked' = {b \in Block \ LoadedChainTx : diskStatus[b].data}
        /\ candidates' = LoadedCandidates /\ pc' = [pc EXCEPT ![t] = "activate"]
        /\ UNCHANGED <<nSequenceId, nBlockSequenceId, dirty, csMain, pindexMostWork, pindexOldTip,
                       pindexInvalid, shutdown>>
    BY DEF LoadBlockIndexDB, DiskInv
  <1>2. LoadedChainTx \subseteq Block /\ diskTip \in Block /\ diskStatus \in [Block -> BlockStatus]
    BY <1>1 DEF LoadedChainTx, DiskTypeOK
  <1>3. \A b \in LoadedChainTx : \A a \in Ancestors[b] : a \in LoadedChainTx /\ diskStatus[a].data
    <2> TAKE b \in LoadedChainTx
    <2> TAKE a \in Ancestors[b]
    <2>1. b \in Block /\ a \in Block /\ Ancestors[a] \subseteq Ancestors[b]
      BY <1>2, TreeAssumption, TreeFacts
    <2>2. QED
      BY <2>1 DEF LoadedChainTx
  <1>4. diskTip \in LoadedChainTx
    BY <1>1, <1>2 DEF LoadedChainTx, DiskTipRecoverable
  <1>5. nSequenceId \in [Block -> Nat] /\ \A b \in Block : nSequenceId[b] = 0
    BY <1>1 DEF Down
  <1>6. \A c \in LoadedCandidates : c \in LoadedChainTx /\ ~WorkLess(nSequenceId, c, diskTip)
    BY DEF LoadedCandidates
  <1>7. TypeOK'
    BY <1>1, <1>2, <1>5, <1>6, ChainStateAssumption DEF TypeOK, Down
  <1>8. LinkedSound' /\ UnlinkedSound'
    BY <1>1, <1>3, <1>5 DEF LinkedSound, UnlinkedSound
  <1>9. CandidatesSound'
    BY <1>1, <1>6 DEF CandidatesSound, WorkLess
  <1>10. ActiveChainDisconnectable'
    BY <1>1 DEF ActiveChainDisconnectable, ChainActive, DiskTipRecoverable
  <1>11. ThreadsConsistent' /\ StepWithinBound'
    BY <1>1 DEF Down, ThreadsConsistent, StepWithinBound
  <1>12. QED
    BY <1>1, <1>4, <1>7, <1>8, <1>9, <1>10, <1>11 DEF ChainInv

LEMMA LoadDisk ==
    ASSUME DiskInv, NEW t \in Thread, LoadBlockIndexDB(t)
    PROVE  DiskInv'
  <1>1. /\ Down /\ DiskTypeOK /\ DiskTipRecoverable /\ running'
        /\ status' = diskStatus /\ nFile' = diskFile /\ nLastBlockFile' = diskLastFile
        /\ UNCHANGED <<dirty, flush, dbVars>>
    BY DEF LoadBlockIndexDB, DiskInv
  <1>2. DiskBehind'
    BY <1>1 DEF DiskBehind, dbVars
  <1>3. DiskTypeOK' /\ DiskTipRecoverable' /\ flush' # <<"coins">>
    BY <1>1 DEF DiskTypeOK, DiskTipRecoverable, dbVars, Down
  <1>4. QED
    BY <1>1, <1>2, <1>3, LoadChain DEF DiskInv

LEMMA InitDisk == DiskInit => DiskInv
  <1> SUFFICES ASSUME DiskInit PROVE DiskInv
    OBVIOUS
  <1>1. ChainInv /\ Init
    BY InitInv DEF DiskInit
  <1>2. DiskTypeOK
    BY <1>1, TreeAssumption DEF DiskInit, DiskTypeOK, ChainInv, TypeOK, FlushStates
  <1>3. DiskBehind
    BY DEF DiskInit, DiskBehind
  <1>4. DiskTipRecoverable
    BY <1>1, TreeAssumption DEF DiskInit, Init, DiskTipRecoverable, UnknownStatus
  <1>5. QED
    BY <1>1, <1>2, <1>3, <1>4 DEF DiskInit, DiskInv

LEMMA NextDisk == DiskInv /\ [DiskNext]_vars => DiskInv'
  <1> SUFFICES ASSUME DiskInv, [DiskNext]_vars PROVE DiskInv'
    OBVIOUS
  <1>1. CASE UNCHANGED vars
    <2>1. UNCHANGED <<chainVars, nFile, nLastBlockFile, flush, running, diskStatus, diskFile, diskLastFile, diskTip>>
      BY <1>1 DEF vars, diskVars, fileVars, dbVars
    <2>2. running => ChainInv'
      BY <2>1, StutterInv DEF DiskInv
    <2>3. QED
      BY <2>1, <2>2 DEF DiskInv, DiskTypeOK, DiskBehind, Down, DiskTipRecoverable, chainVars, index, threads
  <1>2. CASE FlushFiles \/ FlushIndex \/ FlushCoins \/ Crash \/ \E t \in Thread : LoadBlockIndexDB(t)
    BY <1>2, FlushFilesDisk, FlushIndexDisk, FlushCoinsDisk, CrashDisk, LoadDisk
  <1>3. QED
    BY <1>1, <1>2, HandlerDisk DEF DiskNext

(***************************************************************************)
(* Linking survives a restart.                                              *)
(***************************************************************************)

\* A step of the running process that leaves the index database alone.
LEMMA DatabaseKept ==
    ASSUME UNCHANGED <<diskStatus, diskTip>>
    PROVE  /\ DiskLinked => DiskLinked'
           /\ DiskFailure => DiskFailure'
           /\ NoBadDiskTip => NoBadDiskTip'
  BY DEF DiskLinked, LoadedChainTx, DiskFailure, NoBadDiskTip

LEMMA FlushIndexLinked ==
    ASSUME DiskInv, RestartLinkedInv, FlushIndex
    PROVE  RestartLinkedInv'
  <1>1. /\ ChainInv /\ running
        /\ \A x \in Block : /\ diskStatus'[x].failed \subseteq status[x].failed
                            /\ diskStatus'[x].data = status[x].data
                            /\ diskStatus'[x].valid = status[x].valid
    BY FlushIndexCopies
  <1>2. LinkedInv
    BY <1>1 DEF RestartLinkedInv
  <1>3. LinkedInv'
    BY <1>2 DEF FlushIndex, LinkedInv, LinkedComplete, InIndex, Failed
  <1>4. \A b \in Block : b \in chainTx => b \in LoadedChainTx'
    BY <1>1, TreeAssumption DEF LoadedChainTx, ChainInv, LinkedSound
  <1>5. \A b \in Block \ {Genesis} :
           diskStatus'[b].valid >= VALID_TREE => diskStatus'[pprev[b]].valid >= VALID_TREE
    BY <1>1, <1>2, TreeAssumption DEF LinkedInv, InIndex
  <1>6. \A b \in Block :
           /\ diskStatus'[b].data => b \notin BadBlock
           /\ diskStatus'[b].failed # {} /\ b \notin LoadedChainTx' => b \in BadBlock
           /\ diskStatus'[b].failed # {} \/ diskStatus'[b].data => diskStatus'[b].valid >= VALID_TREE
    BY <1>1, <1>2, <1>4 DEF LinkedInv, Failed, InIndex
  <1>7. QED
    BY <1>3, <1>5, <1>6 DEF RestartLinkedInv, DiskLinked

LEMMA LoadLinked ==
    ASSUME DiskInv, RestartLinkedInv, NEW t \in Thread, LoadBlockIndexDB(t)
    PROVE  RestartLinkedInv'
  <1>1. /\ status' = diskStatus /\ chainTx' = LoadedChainTx /\ UNCHANGED <<diskStatus, diskTip>>
        /\ unlinked' = {b \in Block \ LoadedChainTx : diskStatus[b].data}
    BY DEF LoadBlockIndexDB, dbVars
  <1>2. DiskLinked
    BY DEF RestartLinkedInv
  <1>3. LinkedComplete'
    BY <1>1 DEF LinkedComplete, LoadedChainTx
  <1>4. \A b \in InIndex' \ {Genesis} : pprev[b] \in InIndex'
    BY <1>1, <1>2, TreeAssumption DEF InIndex, DiskLinked
  <1>5. \A b \in Block :
          /\ status'[b].data => b \notin BadBlock
          /\ status'[b].data /\ b \notin chainTx' => b \in unlinked'
          /\ Failed(b)' /\ b \notin chainTx' => b \in BadBlock
          /\ Failed(b)' \/ status'[b].data => b \in InIndex'
    BY <1>1, <1>2 DEF DiskLinked, Failed, InIndex
  <1>6. LinkedInv'
    BY <1>3, <1>4, <1>5 DEF LinkedInv
  <1>7. QED
    BY <1>1, <1>2, <1>6, DatabaseKept DEF RestartLinkedInv

LEMMA InitLinked == DiskInit => RestartLinkedInv
  <1> SUFFICES ASSUME DiskInit PROVE RestartLinkedInv
    OBVIOUS
  <1>1. LinkedInv /\ diskStatus = status /\ Init
    BY LinkedInit DEF DiskInit
  <1>2. chainTx \subseteq LoadedChainTx
    BY <1>1, InitInv DEF ChainInv, LinkedSound, LoadedChainTx, TypeOK
  <1>3. DiskLinked
    BY <1>1, <1>2, TreeAssumption DEF DiskLinked, LinkedInv, InIndex, Failed
  <1>4. QED
    BY <1>1, <1>3 DEF RestartLinkedInv

LEMMA NextLinked ==
    ASSUME Invalidatable = {}, DiskInv, RestartLinkedInv, [DiskNext]_vars
    PROVE  RestartLinkedInv'
  <1>1. CASE UNCHANGED vars \/ FlushFiles \/ FlushCoins
    <2>1. UNCHANGED <<chainVars, diskStatus, running>>
      BY <1>1 DEF vars, diskVars, dbVars, FlushFiles, FlushCoins
    <2>2. DiskLinked'
      BY <2>1 DEF RestartLinkedInv, DiskLinked, LoadedChainTx
    <2>3. running => LinkedInv'
      BY <2>1, SameStatusLinked DEF RestartLinkedInv, DiskInv, chainVars, index
    <2>4. QED
      BY <2>1, <2>2, <2>3 DEF RestartLinkedInv
  <1>2. CASE Crash
    BY <1>2, DatabaseKept DEF Crash, RestartLinkedInv, dbVars
  <1>3. CASE \/ MemoryStep
             \/ \E t \in Thread, b \in Block, fRequested \in BOOLEAN : StoreBlock(t, b, fRequested)
             \/ \E t \in Thread, b \in Block : ConnectTip(t, b)
             \/ \E t \in Thread : DisconnectTip(t)
             \/ \E steps \in {FullFlush, IndexWrite} : FlushStateToDisk(steps)
    <2>1. running /\ [Next]_chainVars /\ UNCHANGED <<diskStatus, diskTip>>
      BY <1>3, HandlerStep DEF Up
    <2>2. ChainInv /\ LinkedInv
      BY <2>1 DEF DiskInv, RestartLinkedInv
    <2>3. QED
      BY <2>1, <2>2, LinkedStep, DatabaseKept DEF RestartLinkedInv
  <1>4. QED
    BY <1>1, <1>2, <1>3, FlushIndexLinked, LoadLinked DEF DiskNext

(***************************************************************************)
(* The best chain after a restart.                                          *)
(***************************************************************************)

\* Only StepConnectTip extends the active chain, and only by a block that
\* ConnectBlock accepts.
LEMMA NoBadTipStep ==
    ASSUME ChainInv, NoBadTip, [Next]_chainVars
    PROVE  NoBadTip'
  <1>0. tip \in Block /\ tip \in chainTx
    BY DEF ChainInv, TypeOK
  <1>1. CASE UNCHANGED tip
    BY <1>1 DEF NoBadTip
  <1>2. CASE tip' = pprev[tip]
    <2>1. tip' \in Block
      BY NextInv DEF ChainInv, TypeOK
    <2>2. Ancestors[tip'] \subseteq Ancestors[tip]
      BY <1>0, <1>2, <2>1, TreeAssumption
    <2>3. QED
      BY <2>2 DEF NoBadTip
  <1>3. ASSUME NEW t \in Thread, NEW b \in Block, StepConnectTip(t, b) PROVE NoBadTip'
    <2>1. tip' = b /\ b \notin BadConnect /\ pprev[b] = tip
      BY <1>3 DEF StepConnectTip, IsNext
    <2>2. Ancestors[b] = Ancestors[tip] \cup {b}
      BY <1>0, <2>1, TreeAssumption
    <2>3. QED
      BY <2>1, <2>2 DEF NoBadTip
  <1>4. CASE \/ UNCHANGED chainVars
             \/ \E b \in Block : AcceptBlockHeader(b)
             \/ \E t \in Thread, b \in Block, fRequested \in BOOLEAN :
                   BlockIgnored(t, b, fRequested) \/ BlockRefused(t, b, fRequested) \/ BlockStored(t, b, fRequested)
             \/ \E t \in Thread, b \in Block : InvalidateBlock(t, b) \/ ReconsiderBlock(t, b)
    BY <1>1, <1>4 DEF chainVars, AcceptBlockHeader, BlockIgnored, BlockRefused, BlockStored,
                      InvalidateBlock, ReconsiderBlock
  <1>5. ASSUME NEW t \in Thread, Proceed(t) PROVE NoBadTip'
    <2>1. CASE \/ TakeLock(t) \/ FindMostWorkChain(t) \/ DropFailedCandidate(t) \/ AlreadyThere(t)
               \/ ReorgTooLong(t) \/ BeginStep(t) \/ InvalidateFinish(t)
               \/ \E b \in Block : StepConnectInvalid(t, b)
      BY <1>1, <2>1 DEF TakeLock, FindMostWorkChain, DropFailedCandidate, AlreadyThere, ReorgTooLong,
                        BeginStep, InvalidateFinish, StepConnectInvalid
    <2>2. CASE StepDisconnectTip(t) \/ InvalidateDisconnectTip(t)
      BY <1>2, <2>2 DEF StepDisconnectTip, InvalidateDisconnectTip
    <2>3. QED
      BY <1>3, <1>5, <2>1, <2>2 DEF Proceed
  <1>6. QED
    BY <1>4, <1>5 DEF Next

\* FailureInv and ActivationInv do not look at setDirtyBlockIndex.
LEMMA CleanActivation ==
    ASSUME FailureInv, ActivationInv, NoBadTip,
           UNCHANGED <<status, chainTx, nSequenceId, tip, candidates, threads, shutdown>>
    PROVE  FailureInv' /\ ActivationInv' /\ NoBadTip'
  <1>1. FailureInv'
    BY DEF FailureInv, FlagOrigins, InvalidatingFlagged, FailedJustified, Failed, InIndex, threads
  <1>2. ActivationInv'
    BY DEF ActivationInv, Good, Complete, Best, Resumable, OnBest, WorkLess, Failed, ChainActive, threads
  <1>3. QED
    BY <1>1, <1>2 DEF NoBadTip

LEMMA FlushIndexBest ==
    ASSUME DiskInv, RestartBestInv, FlushIndex
    PROVE  RestartBestInv'
  <1>1. /\ ChainInv /\ running
        /\ \A x \in Block : /\ diskStatus'[x].failed \subseteq status[x].failed
                            /\ diskStatus'[x].data = status[x].data
                            /\ diskStatus'[x].valid = status[x].valid
                            /\ "VALID" \in status[x].failed => "VALID" \in diskStatus'[x].failed
    BY FlushIndexCopies
  <1>2. FailureInv /\ ActivationInv /\ NoBadTip /\ NoBadDiskTip
    BY <1>1 DEF RestartBestInv
  <1>3. FailureInv' /\ ActivationInv' /\ NoBadTip'
    BY <1>2, CleanActivation DEF FlushIndex
  <1>4. NoBadDiskTip'
    BY <1>2 DEF NoBadDiskTip, FlushIndex
  <1>5. DiskFailure'
    <2> SUFFICES ASSUME NEW b \in Block
                 PROVE  /\ "VALID" \in diskStatus'[b].failed => b \in BadBlock \cup BadConnect \cup Invalidatable
                        /\ diskStatus'[b].data => diskStatus'[b].valid >= VALID_TRANSACTIONS
                        /\ diskStatus'[b].failed # {} =>
                              \E a \in Ancestors[b] : "VALID" \in diskStatus'[a].failed
      BY DEF DiskFailure
    <2>1. "VALID" \in diskStatus'[b].failed => b \in BadBlock \cup BadConnect \cup Invalidatable
      BY <1>1, <1>2 DEF FailureInv, FlagOrigins
    <2>2. diskStatus'[b].data => diskStatus'[b].valid >= VALID_TRANSACTIONS
      BY <1>1, <1>2 DEF FailureInv, FlagOrigins
    <2>3. diskStatus'[b].failed # {} => \E a \in Ancestors[b] : "VALID" \in diskStatus'[a].failed
      BY <1>1, <1>2, TreeAssumption DEF FailureInv, FailedJustified, Failed
    <2>4. QED
      BY <2>1, <2>2, <2>3
  <1>6. QED
    BY <1>3, <1>4, <1>5 DEF RestartBestInv

\* The chain the coins database ends in is good, and LoadBlockIndexDB misses no
\* candidate as good as its tip: the importer's ActivateBestChain can start.
LEMMA LoadBest ==
    ASSUME Invalidatable = {}, NEW t, Thread = {t}, DiskInv, RestartLinkedInv, RestartBestInv,
           LoadBlockIndexDB(t)
    PROVE  RestartBestInv'
  <1>1. /\ Down /\ DiskTypeOK /\ DiskTipRecoverable /\ DiskLinked /\ DiskFailure /\ NoBadDiskTip
        /\ status' = diskStatus /\ chainTx' = LoadedChainTx /\ tip' = diskTip
        /\ candidates' = LoadedCandidates /\ pc' = [pc EXCEPT ![t] = "activate"]
        /\ UNCHANGED <<nSequenceId, pindexMostWork, shutdown, diskStatus, diskTip>>
    BY DEF LoadBlockIndexDB, DiskInv, RestartLinkedInv, RestartBestInv, dbVars
  <1>2. ChainInv' /\ diskTip \in Block
    BY <1>1, LoadChain DEF DiskTypeOK
  <1>3. FailureInv'
    <2>1. FlagOrigins'
      BY <1>1 DEF FlagOrigins, DiskFailure, DiskLinked, Failed, InIndex
    <2>2. InvalidatingFlagged'
      BY <1>1 DEF InvalidatingFlagged, Down
    <2>3. FailedJustified'
      BY <1>1 DEF FailedJustified, Failed, DiskFailure
    <2>4. QED
      BY <2>1, <2>2, <2>3 DEF FailureInv
  <1>4. NoBadTip'
    BY <1>1 DEF NoBadTip, NoBadDiskTip
  <1>5. \A a \in Ancestors[diskTip] : diskStatus[a].failed = {} /\ a \notin BadConnect
    <2> SUFFICES ASSUME NEW a \in Ancestors[diskTip], diskStatus[a].failed # {} PROVE FALSE
      BY <1>1 DEF NoBadDiskTip
    <2>1. a \in Block /\ Ancestors[a] \subseteq Ancestors[diskTip]
      BY <1>2, TreeAssumption, TreeFacts
    <2>2. PICK v \in Ancestors[a] : "VALID" \in diskStatus[v].failed
      BY <1>1, <2>1 DEF DiskFailure
    <2>3. v \in Block /\ v \in Ancestors[diskTip] /\ diskStatus[v].data
      BY <1>1, <2>1, <2>2, TreeAssumption DEF DiskTipRecoverable
    <2>4. v \in BadBlock \cup BadConnect
      BY <1>1, <2>2, <2>3 DEF DiskFailure
    <2>5. QED
      BY <1>1, <2>3, <2>4 DEF DiskLinked, NoBadDiskTip
  <1>6. Good(tip)'
    BY <1>1, <1>5 DEF Good, Failed
  <1>7. Complete(tip)'
    <2> SUFFICES ASSUME NEW x \in LoadedChainTx, diskStatus[x].failed = {},
                        ~WorkLess(nSequenceId, x, diskTip)
                 PROVE  x \in LoadedCandidates
      BY <1>1 DEF Complete, Failed, WorkLess
    <2>1. x \in Block /\ diskStatus[x].data
      BY TreeFacts DEF LoadedChainTx
    <2>2. diskStatus[x].valid >= VALID_TRANSACTIONS
      BY <1>1, <2>1 DEF DiskFailure
    <2>3. QED
      BY <2>2 DEF LoadedCandidates, StatusIsValid
  <1>8. Resumable'
    BY <1>2, <1>6, <1>7 DEF Resumable, ChainInv
  <1>9. pc'[t] = "activate" /\ pindexMostWork'[t] = NoBlock
    BY <1>1 DEF Down
  <1>10. ActivationInv'
    BY <1>6, <1>8, <1>9 DEF ActivationInv
  <1>11. QED
    BY <1>1, <1>3, <1>4, <1>10, DatabaseKept DEF RestartBestInv

LEMMA InitBest == DiskInit => RestartBestInv
  <1> SUFFICES ASSUME DiskInit PROVE RestartBestInv
    OBVIOUS
  <1>1. FailureInv /\ ActivationInv /\ diskStatus = status /\ tip = Genesis /\ diskTip = Genesis
    BY FailureInit, ActivationInit DEF DiskInit, Init
  <1>2. NoBadTip /\ NoBadDiskTip
    BY <1>1, TreeAssumption, ChainStateAssumption DEF NoBadTip, NoBadDiskTip
  <1>3. DiskFailure
    BY <1>1 DEF DiskFailure, FailureInv, FlagOrigins, FailedJustified, Failed
  <1>4. QED
    BY <1>1, <1>2, <1>3 DEF RestartBestInv

LEMMA NextBest ==
    ASSUME Invalidatable = {}, ReconsidersLowest, NEW t, Thread = {t},
           DiskInv, RestartLinkedInv, RestartBestInv, [DiskNext]_vars
    PROVE  RestartBestInv'
  <1>1. CASE UNCHANGED vars \/ FlushFiles
    <2>1. UNCHANGED <<chainVars, diskStatus, diskTip, running>>
      BY <1>1 DEF vars, diskVars, dbVars, FlushFiles
    <2>2. running => FailureInv' /\ ActivationInv' /\ NoBadTip'
      BY <2>1, CleanActivation DEF RestartBestInv, chainVars, index
    <2>3. QED
      BY <2>1, <2>2, DatabaseKept DEF RestartBestInv
  <1>2. CASE FlushCoins
    <2>1. running /\ UNCHANGED <<chainVars, diskStatus, running>> /\ diskTip' = tip
      BY <1>2 DEF FlushCoins
    <2>2. FailureInv /\ ActivationInv /\ NoBadTip /\ DiskFailure
      BY <2>1 DEF RestartBestInv
    <2>3. FailureInv' /\ ActivationInv' /\ NoBadTip'
      BY <2>1, <2>2, CleanActivation DEF chainVars, index
    <2>4. NoBadDiskTip' /\ DiskFailure'
      BY <2>1, <2>2 DEF NoBadDiskTip, NoBadTip, DiskFailure
    <2>5. QED
      BY <2>3, <2>4 DEF RestartBestInv
  <1>3. CASE Crash
    BY <1>3, DatabaseKept DEF Crash, RestartBestInv, dbVars
  <1>4. CASE \/ MemoryStep
             \/ \E u \in Thread, b \in Block, fRequested \in BOOLEAN : StoreBlock(u, b, fRequested)
             \/ \E u \in Thread, b \in Block : ConnectTip(u, b)
             \/ \E u \in Thread : DisconnectTip(u)
             \/ \E steps \in {FullFlush, IndexWrite} : FlushStateToDisk(steps)
    <2>1. running /\ [Next]_chainVars /\ UNCHANGED <<diskStatus, diskTip>>
      BY <1>4, HandlerStep DEF Up
    <2>2. ChainInv /\ FailureInv /\ ActivationInv /\ NoBadTip
      BY <2>1 DEF DiskInv, RestartBestInv
    <2>3. FailureInv' /\ ActivationInv' /\ NoBadTip'
      BY <2>1, <2>2, FailureStep, ActivationStep, NoBadTipStep
    <2>4. QED
      BY <2>1, <2>3, DatabaseKept DEF RestartBestInv
  <1>5. QED
    BY <1>1, <1>2, <1>3, <1>4, FlushIndexBest, LoadBest DEF DiskNext

(***************************************************************************)
(* The theorems.                                                            *)
(***************************************************************************)

\* Wherever crashes fall between the writes of files, index and coins, and however
\* many there are: memory and disk keep fitting together.
THEOREM DiskInvariant == DiskSpec => []DiskInv
  BY InitDisk, NextDisk, PTL DEF DiskSpec

\* The chain the coins database ends in can always be loaded and rolled back: the
\* index on disk has data and undo data for every block of it.
THEOREM DiskTipAlwaysRecoverable == DiskSpec => []DiskTipRecoverable
  <1>1. DiskInv => DiskTipRecoverable
    BY DEF DiskInv
  <1>2. QED
    BY <1>1, DiskInvariant, PTL

\* No handler forgets to put an entry it changes into setDirtyBlockIndex, but for
\* FindMostWorkChain's FAILED_CHILD.
THEOREM CleanEntriesAlwaysOnDisk == DiskSpec => []CleanEntriesOnDisk
  <1>1. DiskInv => CleanEntriesOnDisk
    BY DEF DiskInv, DiskBehind, CleanEntriesOnDisk, Core
  <1>2. QED
    BY <1>1, DiskInvariant, PTL

\* Across any number of restarts, a block is linked exactly when all its ancestry
\* has been received, if the operator invalidates nothing: LoadBlockIndexDB
\* links what the process before it had linked and written, and what hung from
\* a refused block changes nothing.
THEOREM RestartAlwaysLinked ==
    ASSUME Invalidatable = {}
    PROVE  DiskSpec => []RestartLinked
  <1>1. DiskInit => RestartLinkedInv
    BY InitLinked
  <1>2. DiskInv /\ RestartLinkedInv /\ [DiskNext]_vars => RestartLinkedInv'
    BY NextLinked
  <1>3. DiskInv /\ RestartLinkedInv => RestartLinked
    BY DEF DiskInv, RestartLinkedInv, RestartLinked, ChainInv, LinkedInv
  <1>4. QED
    BY <1>1, <1>2, <1>3, DiskInvariant, PTL DEF DiskSpec

\* Whenever ActivateBestChain has returned, in the first life of the node or after
\* a restart from whatever a crash left on disk: the tip has the most work of all
\* linked blocks without a failed ancestor, and its chain can be disconnected.  For
\* one thread and an operator who invalidates nothing and reconsiders only blocks
\* that have no failed block below them.
THEOREM RestartAlwaysBestChain ==
    ASSUME Invalidatable = {}, ReconsidersLowest, NEW t, Thread = {t}
    PROVE  DiskSpec => []RestartBestChain
  <1>1. DiskInit => RestartLinkedInv /\ RestartBestInv
    BY InitLinked, InitBest
  <1>2. DiskInv /\ RestartLinkedInv /\ RestartBestInv /\ [DiskNext]_vars
            => RestartLinkedInv' /\ RestartBestInv'
    BY NextLinked, NextBest
  <1>3. DiskInv /\ RestartLinkedInv /\ RestartBestInv => RestartBestChain
    BY IdleOnBest DEF DiskInv, RestartBestInv, RestartBestChain, ChainInv
  <1>4. QED
    BY <1>1, <1>2, <1>3, DiskInvariant, PTL DEF DiskSpec
=============================================================================
