------------------------------ MODULE ChainDisk ------------------------------
(***************************************************************************)
(* ChainState together with what it leaves on disk: the blk?????.dat and    *)
(* rev?????.dat files (written without a sync, and committed by             *)
(* FlushBlockFile), the block index database (one synchronous batch) and    *)
(* the coins database, whose best block is the tip after a restart.         *)
(*                                                                          *)
(* The three parts are written one after the other by FlushStateToDisk, so  *)
(* a crash can fall between any two of them.  A restart is LoadBlockIndexDB *)
(* followed by the importer's ActivateBestChain.                            *)
(***************************************************************************)
EXTENDS ChainState, Sequences

CONSTANT PerFile   \* blocks that fit in one blk?????.dat (MAX_BLOCKFILE_SIZE)

ASSUME PerFileAssumption == PerFile \in Nat \ {0}

VARIABLES
    nFile,           \* CBlockIndex::nFile
    nLastBlockFile,  \* the block file being appended to
    flush,           \* what a FlushStateToDisk in progress has still to do
    running,         \* the process is up
    diskStatus,      \* nStatus in the block index database
    diskFile,        \* nFile in the block index database
    diskLastFile,    \* nLastBlockFile in the block index database
    diskTip,         \* the best block of the coins database
    blkSynced,       \* blocks whose bytes in blk?????.dat are committed
    revSynced        \* blocks whose bytes in rev?????.dat are committed

fileVars == <<nFile, nLastBlockFile, blkSynced, revSynced>>
dbVars   == <<diskStatus, diskFile, diskLastFile, diskTip>>
diskVars == <<fileVars, dbVars, flush, running>>
vars     == <<chainVars, diskVars>>

\* fDoFullFlush, and a periodic write of the block index alone.
FullFlush  == <<"files", "index", "coins">>
IndexWrite == <<"files", "index">>

\* InitBlockIndex ends with FlushStateToDisk(FLUSH_STATE_ALWAYS).
DiskInit ==
    /\ Init
    /\ nFile = [b \in Block |-> 0]
    /\ nLastBlockFile = 0
    /\ flush = <<>>
    /\ running = TRUE
    /\ diskStatus = status
    /\ diskFile = nFile
    /\ diskLastFile = 0
    /\ diskTip = Genesis
    /\ blkSynced = {Genesis}
    /\ revSynced = {}

-----------------------------------------------------------------------------
(* Block and undo files.                                                    *)

BlocksIn(file) == {b \in Block : status[b].data /\ nFile[b] = file}

\* FlushBlockFile: commit the block file and the undo file numbered nLastBlockFile.
FlushBlockFile ==
    /\ blkSynced' = blkSynced \cup BlocksIn(nLastBlockFile)
    /\ revSynced' = revSynced \cup {b \in BlocksIn(nLastBlockFile) : status[b].undo}

\* FindBlockPos and WriteBlockToDisk: append b to the last file, or commit that
\* one and start the next when it is full.
WriteBlockToDisk(b) ==
    LET full == Cardinality(BlocksIn(nLastBlockFile)) >= PerFile
        file == IF full THEN nLastBlockFile + 1 ELSE nLastBlockFile
    IN  /\ nFile' = [nFile EXCEPT ![b] = file]
        /\ nLastBlockFile' = file
        /\ blkSynced' = (IF full THEN blkSynced \cup BlocksIn(nLastBlockFile) ELSE blkSynced) \ {b}
        /\ revSynced' = IF full
                        THEN revSynced \cup {x \in BlocksIn(nLastBlockFile) : status[x].undo}
                        ELSE revSynced

\* UndoWriteToDisk: append b's undo data to the undo file of b's block file,
\* unless it has been written before.
UndoWriteToDisk(b) ==
    /\ revSynced' = IF status[b].undo THEN revSynced ELSE revSynced \ {b}
    /\ UNCHANGED <<nFile, nLastBlockFile, blkSynced>>

-----------------------------------------------------------------------------
(* The handlers of ChainState with their effects on the files.              *)

Up == running /\ flush = <<>>

\* The handlers that write no file.
MemoryStep ==
    /\ Up
    /\ \/ \E b \in Block : AcceptBlockHeader(b)
       \/ \E t \in Thread, b \in Block, fRequested \in BOOLEAN :
             BlockIgnored(t, b, fRequested) \/ BlockRefused(t, b, fRequested)
       \/ \E t \in Thread, b \in Block : InvalidateBlock(t, b) \/ ReconsiderBlock(t, b)
       \/ \E t \in Thread :
             \/ TakeLock(t) \/ FindMostWorkChain(t) \/ DropFailedCandidate(t)
             \/ AlreadyThere(t) \/ ReorgTooLong(t) \/ BeginStep(t)
             \/ InvalidateFinish(t) \/ \E b \in Block : StepConnectInvalid(t, b)
    /\ UNCHANGED diskVars

StoreBlock(t, b, fRequested) ==
    /\ Up
    /\ BlockStored(t, b, fRequested)
    /\ WriteBlockToDisk(b)
    /\ UNCHANGED <<dbVars, flush, running>>

FlushIfNeededCoinsFirst == flush' \in {<<>>, <<"coins", "files", "index">>}

\* FlushStateToDisk(FLUSH_STATE_IF_NEEDED) inside ConnectTip and DisconnectTip:
\* a full flush if the coins cache has outgrown its limit, else nothing.
FlushIfNeeded == flush' \in {<<>>, FullFlush}

ConnectTip(t, b) ==
    /\ Up
    /\ StepConnectTip(t, b)
    /\ UndoWriteToDisk(b)
    /\ FlushIfNeeded
    /\ UNCHANGED <<dbVars, running>>

DisconnectTip(t) ==
    /\ Up
    /\ StepDisconnectTip(t) \/ InvalidateDisconnectTip(t)
    /\ FlushIfNeeded
    /\ UNCHANGED <<fileVars, dbVars, running>>

-----------------------------------------------------------------------------
(* FlushStateToDisk, step by step.                                          *)

\* A call with cs_main free: periodic (after a transaction or at the end of
\* ActivateBestChain) or forced (gettxoutsetinfo, shutdown).
FlushStateToDisk(steps) ==
    /\ Up
    /\ csMain = NoThread
    /\ flush' = steps
    /\ UNCHANGED <<chainVars, fileVars, dbVars, running>>

FlushFiles ==
    /\ running /\ flush # <<>> /\ Head(flush) = "files"
    /\ FlushBlockFile
    /\ flush' = Tail(flush)
    /\ UNCHANGED <<chainVars, nFile, nLastBlockFile, dbVars, running>>

\* A mutant of WrittenEntries that skips entries without block data.
WrittenEntriesWithData == {b \in dirty : status[b].data}

\* The entries of the batch.
WrittenEntries == dirty

\* WriteBatchSync: every dirty index entry and the file numbers, atomically.
FlushIndex ==
    /\ running /\ flush # <<>> /\ Head(flush) = "index"
    /\ diskStatus' = [b \in Block |-> IF b \in WrittenEntries THEN status[b] ELSE diskStatus[b]]
    /\ diskFile' = [b \in Block |-> IF b \in WrittenEntries THEN nFile[b] ELSE diskFile[b]]
    /\ diskLastFile' = nLastBlockFile
    /\ dirty' = {}
    /\ flush' = Tail(flush)
    /\ UNCHANGED <<status, chainTx, nSequenceId, nBlockSequenceId, unlinked, tip, candidates,
                   threads, shutdown, fileVars, diskTip, running>>

\* pcoinsTip->Flush().
FlushCoins ==
    /\ running /\ flush # <<>> /\ Head(flush) = "coins"
    /\ diskTip' = tip
    /\ flush' = Tail(flush)
    /\ UNCHANGED <<chainVars, fileVars, diskStatus, diskFile, diskLastFile, running>>

-----------------------------------------------------------------------------
(* Crash and restart.                                                       *)

\* The process dies: what it had in memory is gone.
Crash ==
    /\ running
    /\ running' = FALSE
    /\ flush' = <<>>
    /\ status' = [b \in Block |-> UnknownStatus]
    /\ chainTx' = {}
    /\ nSequenceId' = [b \in Block |-> 0]
    /\ nBlockSequenceId' = 1
    /\ tip' = Genesis
    /\ candidates' = {}
    /\ unlinked' = {}
    /\ dirty' = {}
    /\ csMain' = NoThread
    /\ pc' = [t \in Thread |-> "idle"]
    /\ pindexMostWork' = [t \in Thread |-> NoBlock]
    /\ pindexOldTip' = NoBlock
    /\ pindexInvalid' = NoBlock
    /\ shutdown' = FALSE
    /\ nFile' = [b \in Block |-> 0]
    /\ nLastBlockFile' = 0
    /\ UNCHANGED <<dbVars, blkSynced, revSynced>>

\* A mutant of LoadedChainTx that forgets the parents.
LoadedChainTxAny == {b \in Block : diskStatus[b].data}

\* The blocks LoadBlockIndexDB finds linked to genesis.
LoadedChainTx == {b \in Block : \A a \in Ancestors[b] : diskStatus[a].data}

LoadedCandidatesTipOnly == {diskTip}

\* setBlockIndexCandidates after LoadBlockIndexDB has called PruneBlockIndexCandidates.
LoadedCandidates ==
    {b \in LoadedChainTx : /\ StatusIsValid(diskStatus[b], VALID_TRANSACTIONS)
                           /\ ~WorkLess(nSequenceId, b, diskTip)}

\* LoadBlockIndexDB, then thread t (the importer) enters ActivateBestChain.
LoadBlockIndexDB(t) ==
    /\ ~running
    /\ running' = TRUE
    /\ status' = diskStatus
    /\ nFile' = diskFile
    /\ nLastBlockFile' = diskLastFile
    /\ chainTx' = LoadedChainTx
    /\ unlinked' = {b \in Block \ LoadedChainTx : diskStatus[b].data}
    /\ tip' = diskTip
    /\ candidates' = LoadedCandidates
    /\ pc' = [pc EXCEPT ![t] = "activate"]
    /\ UNCHANGED <<nSequenceId, nBlockSequenceId, dirty, csMain, pindexMostWork, pindexOldTip,
                   pindexInvalid, shutdown, flush, dbVars, blkSynced, revSynced>>

-----------------------------------------------------------------------------
DiskNext ==
    \/ MemoryStep
    \/ \E t \in Thread, b \in Block, fRequested \in BOOLEAN : StoreBlock(t, b, fRequested)
    \/ \E t \in Thread, b \in Block : ConnectTip(t, b)
    \/ \E t \in Thread : DisconnectTip(t)
    \/ \E steps \in {FullFlush, IndexWrite} : FlushStateToDisk(steps)
    \/ FlushFiles \/ FlushIndex \/ FlushCoins
    \/ Crash
    \/ \E t \in Thread : LoadBlockIndexDB(t)

DiskSpec == DiskInit /\ [][DiskNext]_vars

-----------------------------------------------------------------------------
(* Properties.                                                              *)

\* The same for undo data, as FlushStateToDisk's comment "First make sure all
\* block and undo data is flushed to disk" promises.
DiskUndoDurable == \A b \in Block : diskStatus[b].undo => b \in revSynced

\* Whenever the node dies, the chain the coins database ends in can be loaded and
\* rolled back: the index has each of its blocks, with data and with undo data.
DiskTipRecoverable ==
    \A b \in Ancestors[diskTip] : diskStatus[b].data /\ (b # Genesis => diskStatus[b].undo)

\* An entry outside setDirtyBlockIndex agrees with its copy on disk, but for the
\* FAILED_CHILD flags that FindMostWorkChain can always work out again.
CleanEntriesOnDisk ==
    running => \A b \in Block \ dirty :
        /\ [diskStatus[b] EXCEPT !.failed = @ \cap {"VALID"}]
             = [status[b] EXCEPT !.failed = @ \cap {"VALID"}]
        /\ diskFile[b] = nFile[b]

\* LinkedSound and LinkedComplete survive a restart from whatever was on disk.
RestartLinked == running => LinkedSound /\ LinkedComplete

\* PruneBlockIndexCandidates never empties the set, at startup too.
RestartCandidates == running => CandidatesNonEmpty

\* After a restart, ActivateBestChain leads to the best chain that the disk still
\* knows, and every block on it can be disconnected again.
RestartBestChain == running => BestChainActivated /\ ActiveChainDisconnectable
=============================================================================
