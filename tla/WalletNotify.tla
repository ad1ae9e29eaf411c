---------------------------- MODULE WalletNotify ----------------------------
(***************************************************************************)
(* How the wallet follows the chain: ThreadNotifyWallets                    *)
(* (src/validationinterface.cpp) collects, once a second and under cs_main, *)
(* the path from the block it told the wallets last to the tip, and then,   *)
(* without the lock, tells them of every block on it; the wallet keeps its  *)
(* witness caches in step (src/wallet/wallet.cpp) and now and then writes   *)
(* them with the block they belong to; a restart takes up from there        *)
(* (InitLoadWallet, ThreadStartWalletNotifier).                             *)
(*                                                                          *)
(* The chain moves on at any moment, blocks are connected and disconnected   *)
(* between two rounds of the notifier, and wallet and node are written to   *)
(* disk at different times.                                                 *)
(***************************************************************************)
EXTENDS NoteWitness, SequencesExt

CONSTANTS
    Tx,                        \* transactions that may enter the memory pool
    WALLET_NOTIFY_MAX_BLOCKS,
    Starts,                    \* sizes of the witness cache at first, each with bounds: how
                               \* many restarts, and steps that leave a tip of no more work
    AnyRestart                 \* whether every restart is looked at, or only those
                               \* where wallet and chain were written in step

ASSUME NotifyAssumption ==
    /\ WALLET_NOTIFY_MAX_BLOCKS \in Nat \ {0} /\ AnyRestart \in BOOLEAN
    /\ Starts \subseteq [size : 0..WITNESS_CACHE_SIZE, restarts : Nat, lowered : Nat]

NoSequence == -1

VARIABLES
    tip,           \* chainActive.Tip()
    diskTip,       \* the tip as of the last flush of the chain state
    recentlyConflicted,  \* keys of recentlyConflictedTxs
    nConnected,    \* nConnectedSequence
    nNotified,     \* nNotifiedSequence, which regtest keeps
    recentlyAdded, \* CTxMemPool::mapRecentlyAddedTx
    notifyPc,      \* where the notifier is
    lastTip,       \* pindexLastTip
    forkAt,        \* pindexFork
    blockStack,    \* blocks to connect, the next one first
    sequence,      \* chainNotifiedSequence
    notes, nWitnessCacheSize,
    hasNotes,      \* a transaction of the wallet carries note data
    assertFailed,  \* an assertion of the wallet has failed, but for the next one
    exhausted,     \* DecrementNoteWitnesses has found its cache used up
    settled,       \* history: the wallet has been on the active chain with a full
                   \* cache, and since then the tip has never gone down
    disk,          \* wallet.dat: best block, notes and cache size; inStep says that
                   \* SyncTransaction has written no witnesses since SetBestChain
    restarts,      \* how often the node has been restarted
    budget         \* the start, and how many of its restarts and steps are left

chainVars == <<tip, diskTip, recentlyConflicted, nConnected, recentlyAdded>>
notifyVars == <<notifyPc, lastTip, forkAt, blockStack, sequence, nNotified>>
walletVars == <<notes, nWitnessCacheSize, hasNotes, assertFailed, exhausted, disk>>
vars == <<chainVars, notifyVars, walletVars, settled, restarts, budget>>

\* Genesis is the block at which the story begins.  The wallet may be new, have
\* other notes from before, or come from ClearNoteWitnessCache.
Init ==
    /\ tip = Genesis /\ diskTip = Genesis
    /\ recentlyConflicted = {} /\ nConnected = 0 /\ nNotified = 0
    /\ recentlyAdded = {}
    /\ notifyPc = "sleep" /\ lastTip = Genesis /\ forkAt = Genesis
    /\ blockStack = <<>> /\ sequence = NoSequence
    /\ notes = [n \in Note |-> FreshNote]
    /\ budget \in Starts /\ nWitnessCacheSize = budget.size
    /\ hasNotes \in BOOLEAN
    /\ assertFailed = FALSE /\ exhausted = FALSE
    /\ settled = (nWitnessCacheSize = WITNESS_CACHE_SIZE)
    /\ disk = [best |-> Genesis, notes |-> notes, size |-> nWitnessCacheSize,
               inStep |-> TRUE]
    /\ restarts = 0

-----------------------------------------------------------------------------
(* The node.                                                                *)

\* What is written after the last restart is never read.
MayRestart == budget.restarts > 0

\* The tip becomes b.  Only the blocks that ConnectTip adds are counted, and get
\* an entry in recentlyConflictedTxs unless they still have one.
SetTip(b) ==
    /\ tip' = b
    /\ recentlyConflicted' = recentlyConflicted \cup (Ancestors[b] \ Ancestors[tip])
    /\ nConnected' = nConnected + Cardinality(Ancestors[b] \ Ancestors[tip])
    /\ IF nChainWork[b] > nChainWork[tip]
       THEN UNCHANGED budget
       ELSE budget.lowered > 0 /\ budget' = [budget EXCEPT !.lowered = @ - 1]
    /\ settled' = (settled /\ nHeight[b] >= nHeight[tip])
    /\ UNCHANGED <<diskTip, recentlyAdded, notifyVars, walletVars, restarts>>

\* One ActivateBestChainStep that stops at b.  Blocks are disconnected down to the
\* fork and others connected until one has more work than the old tip, the target
\* is reached or the next one fails: b may have less work than the old tip, and may
\* be the fork.  Nothing compares the target with the tip (see ChainState).
ActivateBestChainStep(b) ==
    LET fork == FindFork(tip, b)
    IN  /\ b # tip
        /\ nHeight[tip] - nHeight[fork] <= MAX_REORG_LENGTH
        /\ b # fork => nChainWork[pprev[b]] <= nChainWork[tip]
        /\ SetTip(b)

\* InvalidateBlock disconnects b and what is on it, however many blocks that are.
\* cs_main is released before a chain is activated in its place.
InvalidateBlock(b) ==
    /\ b \in Ancestors[tip] \ {Genesis}
    /\ SetTip(pprev[b])

\* FlushStateToDisk.
FlushChain ==
    /\ diskTip # tip /\ MayRestart
    /\ diskTip' = tip
    /\ UNCHANGED <<tip, recentlyConflicted, nConnected, recentlyAdded, notifyVars, walletVars,
                   settled, restarts, budget>>

\* addUnchecked records a transaction for the notifier.
AddRecent(t) ==
    /\ t \notin recentlyAdded
    /\ recentlyAdded' = recentlyAdded \cup {t}
    /\ UNCHANGED <<tip, diskTip, recentlyConflicted, nConnected, notifyVars, walletVars, settled,
                   restarts, budget>>

-----------------------------------------------------------------------------
(* ThreadNotifyWallets.                                                     *)

\* The block to go to in this round, at most WALLET_NOTIFY_MAX_BLOCKS above the
\* fork, and the blocks on the way, lowest first.
RoundTip(fork) ==
    LET h == nHeight[fork] + WALLET_NOTIFY_MAX_BLOCKS
    IN  IF nHeight[tip] > h THEN GetAncestor(tip, h) ELSE tip

PathFrom(fork, b) ==
    [i \in 1..(nHeight[b] - nHeight[fork]) |-> GetAncestor(b, nHeight[fork] + i)]

\* A mutant of TakenSequence: every round gets a number.
TakenSequenceAlways(path, left) == nConnected

\* A mutant of TakenSequence: a round that has nothing to connect gets no number.
TakenSequenceBusy(path, left) == IF path # <<>> /\ left = {} THEN nConnected ELSE NoSequence

\* chainNotifiedSequence: TakeRecentlyConflicted gives the number once its map
\* is empty, and a round that starts where it ends takes it directly.
TakenSequence(path, left) == IF path = <<>> \/ left = {} THEN nConnected ELSE NoSequence

\* Blocks are disconnected until the wallet is at the fork.
Phase(at, fork) == IF at = fork THEN "connect" ELSE "disconnect"

\* The part of a round under cs_main.
Collect ==
    LET fork == FindFork(lastTip, tip)
        path == PathFrom(fork, RoundTip(fork))
        left == recentlyConflicted \ {path[i] : i \in 1..Len(path)}
    IN  /\ notifyPc = "sleep"
        /\ forkAt' = fork /\ blockStack' = path
        /\ recentlyConflicted' = left
        /\ sequence' = TakenSequence(path, left)
        /\ recentlyAdded' = IF sequence' # NoSequence THEN {} ELSE recentlyAdded
        /\ notifyPc' = Phase(lastTip, fork)
        /\ UNCHANGED <<tip, diskTip, nConnected, lastTip, nNotified, walletVars, settled, restarts,
                       budget>>

\* SyncTransaction writes the wallet transaction it has updated, note data
\* included, whatever the best block on disk.
SyncedNotes(b) == [n \in Note |-> IF b \in MinedIn[n] THEN Synced(notes[n]) ELSE notes[n]]
SyncedDisk(b) ==
    [disk EXCEPT
       !.notes = [n \in Note |-> IF b \in MinedIn[n] THEN Synced(notes[n]) ELSE @[n]],
       !.inStep = @ /\ \A n \in Note : b \in MinedIn[n] => notes[n].witnesses = <<>>]

\* The wallet has note data once it has been told of such a transaction.
KnowsNotes(b) == hasNotes \/ \E n \in Note : b \in MinedIn[n]

\* SyncWithWallets and ChainTip for a block that was disconnected.
NotifyDisconnect ==
    /\ notifyPc = "disconnect"
    /\ LET synced == SyncedNotes(lastTip)
       IN  /\ notes' = [n \in Note |-> DecrementNoteWitness(synced[n], lastTip)]
           /\ nWitnessCacheSize' = Shrunk(nWitnessCacheSize)
           /\ assertFailed' =
                 (assertFailed \/ \E n \in Note :
                                     ~DecrementAsserts(synced[n], lastTip, nWitnessCacheSize))
    /\ hasNotes' = KnowsNotes(lastTip)
    /\ exhausted' = (hasNotes' /\ nWitnessCacheSize' = 0)
    /\ disk' = SyncedDisk(lastTip)
    /\ lastTip' = pprev[lastTip]
    /\ notifyPc' = Phase(lastTip', forkAt)
    /\ UNCHANGED <<chainVars, forkAt, blockStack, sequence, nNotified, settled, restarts, budget>>

\* SetBestChain: notes, cache size and locator are one transaction.
Persisted(b, ns, size) == [best |-> b, notes |-> ns, size |-> size, inStep |-> TRUE]

\* A mutant of Locator: the block written is the tip of the chain, which may be
\* ahead of the block the witnesses were advanced to.
LocatorTip(b) == tip

\* The block ChainTipAdded writes: the one it was called for.
Locator(b) == b

\* SyncWithWallets and ChainTip for a block that was connected.  SetBestChain is
\* called when WITNESS_WRITE_INTERVAL or WITNESS_WRITE_UPDATES has passed.
NotifyConnect ==
    /\ notifyPc = "connect" /\ blockStack # <<>>
    /\ LET b == Head(blockStack)
           synced == SyncedNotes(b)
       IN  /\ notes' = [n \in Note |-> IncrementNoteWitness(n, synced[n], b)]
           /\ nWitnessCacheSize' = Grown(nWitnessCacheSize)
           /\ assertFailed' =
                 (assertFailed \/ \E n \in Note :
                                     ~IncrementAsserts(n, synced[n], b, nWitnessCacheSize))
           /\ \/ disk' = SyncedDisk(b)
              \/ MayRestart /\ disk' = Persisted(Locator(b), notes', nWitnessCacheSize')
           /\ hasNotes' = KnowsNotes(b)
           /\ lastTip' = b
    /\ blockStack' = Tail(blockStack)
    /\ UNCHANGED <<chainVars, notifyPc, forkAt, sequence, nNotified, exhausted, settled, restarts,
                   budget>>

\* The wallet is on the active chain with a full cache.
CaughtUp == nWitnessCacheSize = WITNESS_CACHE_SIZE /\ lastTip \in Ancestors[tip]

\* The drained transactions are told, notes of the wallet among them or not, and
\* the numbers are stored.
RoundEnds ==
    /\ notifyPc = "connect" /\ blockStack = <<>>
    /\ notifyPc' = "sleep"
    /\ hasNotes' \in (IF sequence # NoSequence THEN {hasNotes, TRUE} ELSE {hasNotes})
    /\ nNotified' = IF sequence # NoSequence THEN sequence ELSE nNotified
    /\ sequence' = NoSequence
    /\ settled' = (settled \/ CaughtUp)
    /\ UNCHANGED <<chainVars, lastTip, forkAt, blockStack, notes, nWitnessCacheSize, assertFailed,
                   exhausted, disk, restarts, budget>>

-----------------------------------------------------------------------------
(* Restart: the chain state is what was flushed, the wallet what was written *)

\* FindForkInGlobalIndex for the wallet's locator: its first block that is on the
\* chain, or the tip if that is below the block.
RescanFrom(best) == IF diskTip \in Ancestors[best] THEN diskTip ELSE FindFork(best, diskTip)

\* ScanForWalletTransactions, for one block.
ScanBlock(w, b) ==
    LET synced == [n \in Note |-> IF b \in MinedIn[n] THEN Synced(w.notes[n]) ELSE w.notes[n]]
    IN  [notes |-> [n \in Note |-> IncrementNoteWitness(n, synced[n], b)],
         size |-> Grown(w.size),
         failed |-> w.failed \/ \E n \in Note : ~IncrementAsserts(n, synced[n], b, w.size)]

\* It goes up the chain from a block which it scans as well.
Scanned(w, from) ==
    LET scan[i \in 0..(nHeight[diskTip] - nHeight[from])] ==
            IF i = 0 THEN ScanBlock(w, from)
            ELSE ScanBlock(scan[i - 1], GetAncestor(diskTip, nHeight[from] + i))
    IN  scan[nHeight[diskTip] - nHeight[from]]

\* spentHeight is not written.
Loaded ==
    [notes |-> [n \in Note |-> Synced(disk.notes[n])], size |-> disk.size, failed |-> FALSE]

\* The witnesses on disk are as SetBestChain wrote them, and their block is on the
\* chain on disk.
WrittenInStep == disk.inStep /\ disk.best \in Ancestors[diskTip]

\* A crash or a shutdown at any moment, after an assertion that failed too, the load
\* of the chain state, and InitLoadWallet: a rescan if the tip is not where the wallet
\* has been, after which SetBestChain is called for the tip.
Restart ==
    LET from == RescanFrom(disk.best)
        rescan == from # diskTip
        w == IF rescan THEN Scanned(Loaded, from) ELSE Loaded
    IN  /\ MayRestart /\ budget' = [budget EXCEPT !.restarts = @ - 1]
        /\ restarts' = restarts + 1
        /\ AnyRestart \/ WrittenInStep
        /\ tip' = diskTip /\ UNCHANGED diskTip
        /\ recentlyConflicted' = {} /\ nConnected' = 0 /\ nNotified' = 0
        /\ recentlyAdded' = {}
        /\ notifyPc' = "wait" /\ blockStack' = <<>> /\ sequence' = NoSequence
        /\ notes' = w.notes /\ nWitnessCacheSize' = w.size
        /\ hasNotes' = (hasNotes \/ (rescan /\ \E n \in Note : MinedAt(n, diskTip)))
        /\ assertFailed' = w.failed /\ exhausted' = FALSE /\ settled' = FALSE
        /\ disk' = IF rescan THEN Persisted(diskTip, w.notes, w.size) ELSE disk
        /\ lastTip' = disk'.best /\ forkAt' = disk'.best

\* ThreadStartWalletNotifier: the chain must be back to within MAX_REORG_LENGTH
\* blocks of where the wallet is.
CloseEnough == nHeight[lastTip] - nHeight[FindFork(lastTip, tip)] <= MAX_REORG_LENGTH

StartNotifier ==
    /\ notifyPc = "wait" /\ CloseEnough
    /\ notifyPc' = "sleep"
    /\ UNCHANGED <<chainVars, lastTip, forkAt, blockStack, sequence, nNotified, walletVars, settled,
                   restarts, budget>>

\* A failed assertion ends the process.
Alive == ~assertFailed /\ ~exhausted

Node ==
    /\ Alive
    /\ \/ \E b \in Block : ActivateBestChainStep(b) \/ InvalidateBlock(b)
       \/ FlushChain
       \/ \E t \in Tx : AddRecent(t)

Notify ==
    /\ Alive
    /\ Collect \/ NotifyDisconnect \/ NotifyConnect \/ RoundEnds \/ StartNotifier

Next == Node \/ Notify \/ Restart

\* The notifier's thread keeps running; the node need not do anything.
Spec == Init /\ [][Next]_vars /\ WF_vars(Notify)

-----------------------------------------------------------------------------
(* Properties.                                                              *)

\* Whatever the order of rounds, reorganisations, writes and restarts, the
\* witnesses of a note that is mined on the wallet's branch are those of the
\* block the wallet is at and of the blocks below it: a spend made from them
\* has an anchor of the active chain.
WitnessesCurrent ==
    \A n \in Note : MinedAt(n, lastTip) /\ notes[n].witnesses # <<>> => CacheTrue(n, notes[n], lastTip)

\* As long as the node runs, a note that is mined on the wallet's branch and that
\* the wallet does not take for spent can be spent: it has a witness, however blocks
\* with notes and nullifiers come and go, unless the cache is exhausted.  (Nothing
\* takes spentHeight back when the spend is disconnected, so such a note is not only
\* left out here: wallet.cpp:1133 may throw its witnesses away while it is unspent.
\* After a restart a note may have lost its witness because SyncTransaction wrote it
\* apart from the best block.)
UnspentWitnessed ==
    restarts = 0 /\ ~exhausted =>
        \A n \in Note : MinedAt(n, lastTip) /\ notes[n].spentHeight = -1 => notes[n].witnesses # <<>>

\* Once the wallet has been on the active chain with a full cache, the blocks that
\* rounds disconnect never use it up while the tip does not go down, though several
\* reorganisations of the node may have become one for the wallet, and blocks of an
\* abandoned branch are still to be told.  (A wallet whose cache is not full yet, or
\* an invalidateblock that disconnects more blocks than a reorganisation may, runs
\* into the assertion at wallet.cpp:1481.)
CacheSuffices == settled => ~exhausted

\* No assertion of the wallet fails, also after a restart with wallet and chain in
\* step, however full the cache was at first and however far the tip goes down; the
\* one about an exhausted cache does not fail in a settled wallet.
WalletAsserts == ~assertFailed /\ CacheSuffices

\* ChainIsFullyNotified says that the wallets have been told everything: then they
\* have been told of every block of the active chain, although the tip may have
\* moved away and back, and the path may have been too long for one round.  Blocks
\* above the tip may be left for them to disconnect, as no number counts those.
FullyNotified == nNotified = nConnected => tip \in Ancestors[lastTip]

\* A transaction recorded for the notifier is told to the wallets in the end,
\* though blocks that were connected and disconnected between two rounds leave
\* entries behind that keep a round from draining, unless the notifier waits for
\* a chain that is far behind the wallet, or the process has ended.
RecentlyAddedDrained ==
    \A t \in Tx : (t \in recentlyAdded) ~> (t \notin recentlyAdded \/ notifyPc = "wait" \/ ~Alive)

=============================================================================
