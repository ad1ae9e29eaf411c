# A TLA+ verification of the BitcoinZ node core

This project models the parts of `bitcoinz` (a Zcash-derived full node) that decide which
chain is active, keep the coins of that chain, survive a crash and check scripts in parallel; and
around that core the memory pool, the wallet's note witnesses and how they follow the chain, the
download of blocks from peers, the address manager, and the shutdown of the RPC services. The
models are checked with TLC on small instances. For ten of them (`ChainState`, `ChainDisk`, `CoinsCache`,
`CoinsChain`, `CheckQueue`, `WalletNotify`, `BlockDownload`, `AddrMan`, `Shutdown`, `MempoolChain`) the inductive invariants, and with them most of the safety
properties the runs check, are proved with TLAPS for every instance; so is one refinement.

Paths below are relative to the repository; line numbers of every definition are in
`PROJECT.json` under `map`.

- [1. The system](#1-the-system)
- [2. The modules and how they correspond to the code](#2-the-modules-and-how-they-correspond-to-the-code)
- [3. What the runs check](#3-what-the-runs-check)
- [4. What is proved](#4-what-is-proved)
- [5. Findings](#5-findings)
- [6. Abstractions, and what is not modelled](#6-abstractions-and-what-is-not-modelled)
- [7. Plan](#7-plan)

## 1. The system

### Inventory

| component | state it keeps | operations | what is hard about it | what makes it correct |
|---|---|---|---|---|
| Block index and active chain (`src/main.cpp`, `src/chain.h`) | `mapBlockIndex` with `nStatus`, `nChainTx`, `nSequenceId`; `setBlockIndexCandidates`, `mapBlocksUnlinked`, `chainActive` | AcceptBlockHeader, AcceptBlock / ReceivedBlockTransactions, ActivateBestChain, InvalidateBlock, ReconsiderBlock | blocks arrive in any order; a reorganisation may fail half way; `cs_main` is released between two steps of a loop that keeps a pointer | what CheckBlockIndex asserts; the best valid chain becomes active; activation ends |
| Chain persistence (`src/main.cpp`, `src/txdb.cpp`) | `blk*.dat`, `rev*.dat`, block index database, coins database, `setDirtyBlockIndex` | FindBlockPos, FlushBlockFile, FlushStateToDisk, LoadBlockIndexDB | three stores are written one after the other; a crash may fall in between | the coins tip on disk is always a chain that can be loaded and rolled back |
| Coins database and caches (`src/coins.*`, `src/txdb.cpp`) | `cacheCoins` with DIRTY/FRESH, nullifiers, anchors, best block and anchor, at two cache levels | GetCoins, AccessCoins, ModifyCoins, ModifyNewCoins, SetNullifiers, PushAnchor, PopAnchor, BatchWrite, Flush, Uncache | an optimisation (FRESH) that drops a write when it is wrong | every lookup finds what was written last; all or nothing of a block |
| Connecting and disconnecting (`src/main.cpp`, `src/undo.h`) | a temporary view and the undo data of a block | ConnectBlock, UpdateCoins, DisconnectBlock, ApplyTxInUndo | undo must be an exact inverse, across other branches and restarts | coins at the tip are a function of the chain |
| Script check queue (`src/checkqueue.h`) | `queue`, `nTodo`, `nIdle`, `nTotal`, `fAllOk` | Add, Wait, Loop, the destructor of CCheckQueueControl | two condition variables, spurious wake-ups, interrupts | the verdict is exact, nothing leaks, Wait returns |
| Block download and peer state (`src/main.cpp`) | `mapNodeState`, `mapBlocksInFlight`, `nSyncStarted`, `nPreferredDownload`, `nPeersWithValidatedDownloads` | InitializeNode, FinalizeNode, MarkBlockAsInFlight, MarkBlockAsReceived, FindNextBlocksToDownload, inv, headers, block, SendMessages | timeouts against late answers, peers that leave, state kept in two places | map, lists and counters agree; the best chain is downloaded |
| Orphan transactions (`src/main.cpp`) | `mapOrphanTransactions`, `…ByPrev` | AddOrphanTx, EraseOrphansFor, LimitOrphanTxSize | two maps that must agree, random eviction | the maps agree; the limit holds |
| Memory pool (`src/txmempool.cpp`, `src/mempool_limit.cpp`) | `mapTx`, `mapNextTx`, `mapLinks`, `mapDeltas`, weighted tree, recently evicted | addUnchecked, remove, removeForBlock, removeForReorg, removeWithAnchor, removeExpired, UpdateTransactionsFromBlock, EnsureSizeLimit | parents arrive after children; eviction in the middle of a reorganisation | inputs exist, links and totals are exact, entries fit the next block |
| Wallet notification (`src/validationinterface.cpp`) | last notified tip, recently conflicted and added transactions, sequence numbers | ThreadStartWalletNotifier, ThreadNotifyWallets | collects under `cs_main`, tells without it, while the chain moves | the wallet's chain is a path of the tree and reaches the tip; every transaction is told |
| Wallet (`src/wallet/`) | keys, transactions, note witnesses, best block | witness caches, rescan, coin selection, encryption | caches follow reorganisations and restarts | witnesses belong to the wallet's block |
| Commitment trees (`src/zcash/IncrementalMerkleTree.*`) | left, right, parents | append, root, witness | partial trees and their boundaries | equal to the plain Merkle tree |
| Asynchronous RPC (`src/asyncrpcqueue.cpp`) | operations, queue, workers | addOperation, run, cancel, close, join | shutdown while operations are queued or just taken | every accepted operation has an outcome |
| HTTP and RPC server (`src/httpserver.cpp`, `src/httprpc.cpp`, `src/rpc/`) | work queue, workers, pending replies | dispatch, Run, WriteReply, Interrupt, WaitExit, Stop | two kinds of waiters on one condition variable; detached threads | every request is answered; shutdown ends |
| Scheduler (`src/scheduler.cpp`) | task queue by time | schedule, serviceQueue, stop | waiting for a task another worker takes | nothing runs early or is lost |
| Address manager (`src/addrman.*`) | `mapInfo`, `mapAddr`, `vRandom`, new and tried tables | Add_, Good_, GetAddr_, Serialize, Unserialize | six structures describe one set; eviction cascades | what `Check_` looks for |
| Network connections, other messages | sockets, buffers, bans | | I/O | |
| Proof of work, upgrades, transaction and block rules, scripts, proofs | none | pure functions | arithmetic, cryptography | |
| Mining, fees, RPC commands, vendored code | | | | |

### How the parts interact

```
 peers          importer, miner, RPC workers         operator (RPC)      clients
   | inv, headers, block    | ProcessNewBlock             | invalidateblock    | HTTP
   v                        |                             v                    v
 block download             |                                         HTTP server -> RPCs -> operations
 (BlockDownload)            |                                         (HTTPServer, AsyncRPCQueue, Shutdown)
   |                        v                                                  | use
   |   +----------------------- cs_main -------------------------+             |
   +-->|  block index, candidates, active chain    (ChainState)  |<------------+
       |        | ConnectTip / DisconnectTip                     |
       |        +----------> memory pool   (TxMemPool, MempoolChain)
       |        v                                                |
       |  ConnectBlock / DisconnectBlock           (CoinsChain)  |----> script checks (CheckQueue)
       |        | CCoinsViewCache, undo data                     |      master + -par worker threads
       |        v                                                |
       |  pcoinsTip over the coins database        (CoinsCache)  |
       +---------------------------------------------------------+
            |  FlushStateToDisk   (ChainDisk)         |  once a second
            v                                         v
   blk*.dat, rev*.dat | block index | coins        wallet notifier -> note witnesses -> wallet.dat
      ^ crash, LoadBlockIndexDB                    (WalletNotify, NoteWitness)      ^ restart, rescan
```

`cs_main` protects all chain state, but it is not held for a whole activation:
`ActivateBestChain` takes it anew in each turn of its loop and keeps `pindexMostWork` in a
local variable. That release is the reason why `ChainState` has threads at all. The list of
everything in this code that is hard to reach with a test is `hazards` in `PROJECT.json`, each
at its line and with the properties that cover it, or a note why none does yet.

## 2. The modules and how they correspond to the code

| module | models | extends |
|---|---|---|
| `BlockTree` | the immutable part of `CBlockIndex` and `CBlockIndexWorkComparator` | |
| `ChainState` | block acceptance and best-chain selection in memory, by several threads | `BlockTree` |
| `ChainDisk` | `ChainState` with its files and databases, crashes and restarts | `ChainState` |
| `CoinsView` | **abstract**: three levels of coins state without any cache | |
| `CoinsCache` | `CCoinsViewCache` twice over `CCoinsViewDB`; shown to implement `CoinsView` | |
| `CoinsChain` | ConnectBlock and DisconnectBlock as they drive `CoinsCache` | `CoinsCache` |
| `CheckQueue` | `CCheckQueue`, `CCheckQueueControl`, and the ConnectBlock that uses them | |
| `TxMemPool` | the memory pool as operators on a record: entries, links, totals, removal, repair after a reorganisation | |
| `MempoolChain` | acceptance, eviction, and the steps of ActivateBestChain and InvalidateBlock as far as they touch the pool | `BlockTree`, `TxMemPool` |
| `NoteWitness` | the witness cache of a note as operators | `BlockTree` |
| `WalletNotify` | ThreadNotifyWallets, the wallet's witnesses and its file, restarts, against a moving chain | `NoteWitness` |
| `BlockDownload` | peers, blocks in flight, windows and timeouts | `BlockTree` |
| `AddrMan` | CAddrMan and `peers.dat` | |
| `HTTPServer` | event thread, work queue, workers, and their end | |
| `AsyncRPCQueue` | operations, their workers, and their end | |
| `Shutdown` | both, with the RPCs that connect them, under Interrupt() and Shutdown() | `HTTPServer`, `AsyncRPCQueue` |
| `MCChainState`, `MCChainDisk`, `MCCoinsChain`, `MCCheckQueue`, `MCMempool`, `MCWalletNotify`, `MCBlockDownload`, `MCAddrMan`, `MCShutdown` | the small instances | |
| `BlockTreeProofs`, `ChainProofs`, `CoinsProofs`, `CheckQueueProofs`, `WalletNotifyProofs`, `PeerProofs`, `MempoolProofs`, `ShutdownProofs` | theorems and their inductive invariants | the module they are about (`PeerProofs`: `BlockDownload` and `AddrMan`; `ChainProofs`: `ChainDisk`, and so `ChainState`; `CoinsProofs`: `CoinsChain`, and so `CoinsCache`; `MempoolProofs`: `MempoolChain`, and so `TxMemPool`); `BlockTreeProofs` also where there is a tree of headers |

A few definitions stand beside a mapped one and are not used by the specifications
(`WipeTargetNever` beside `WipeTarget`, `TrimmedShort` beside `Trimmed`, …).
They are plausible mistakes in that piece of code; replacing the definition by one of them
must make a property fail. `mutants` in `PROJECT.json` pairs them with the properties.

### BlockTree

`Block` is every header that can pass the header checks, known or not. `pprev`, `nHeight` and
`nChainWork` are constants because `AddToBlockIndex` sets them once. `Ancestors[b]` is what
the loop `while (p) p = p->pprev` visits. `WorkLess` is the comparator with its three keys: work,
sequence id, address; the address matters because blocks loaded from disk all have sequence id 0.

### ChainState

State is one variable per global of `main.cpp`, plus the local variables that survive a release
of the lock (`pindexMostWork`, per thread) or a step (`pindexOldTip`, `pindexInvalid`).
`status[b]` is `nStatus`, with the validity level, the failure flags, and whether block and
undo data are stored.

A thread's `pc` says where it is: `idle`; `activate`, at the top of ActivateBestChain's
loop without `cs_main`; `find`, in FindMostWorkChain; `check`, with a target; `step`, in
ActivateBestChainStep; `invalidate`, in InvalidateBlock.

| action | code |
|---|---|
| `AcceptBlockHeader`, `AddToBlockIndex` | AcceptBlockHeader, AddToBlockIndex (HEADERS messages) |
| `BlockIgnored`, `BlockRefused`, `BlockStored` | ProcessNewBlock → AcceptBlock: unwanted or with a bad header; refused by ContextualCheckBlock; stored by ReceivedBlockTransactions with everything that waited for it |
| `TakeLock`, `FindMostWorkChain`, `DropFailedCandidate` | the top of the loop, and the two exits of FindMostWorkChain's inner walk |
| `AlreadyThere`, `ReorgTooLong`, `BeginStep` | the three ways ActivateBestChain goes on with its target |
| `StepDisconnectTip`, `StepConnectTip`, `StepConnectInvalid` | ActivateBestChainStep, one block at a time |
| `InvalidateBlock`, `InvalidateDisconnectTip`, `InvalidateFinish`, `ReconsiderBlock` | the two RPC calls |

`EndIteration` is the bottom of the loop: back to `activate` with the target kept, or return when
the tip is the target. `ReorgTooLong` is this fork's own rule: a reorganisation longer than
`MAX_REORG_LENGTH` calls StartShutdown and returns. Handlers that are already running, or are
called before the threads end, still go on; only `BestChainActivated` is not asked for any more.

### ChainDisk

Adds block files of `PerFile` blocks, which of their bytes are committed (`blkSynced`,
`revSynced`), the two databases, and `flush`, what a FlushStateToDisk in progress has still to
do. Between two of its steps only a crash is possible, as the code holds `cs_main`. The flush
that ConnectTip and DisconnectTip request happens or not (FLUSH_STATE_IF_NEEDED depends on the
cache size); a periodic write of files and index alone, and a full flush, may come whenever
`cs_main` is free. `Crash` loses memory and all uncommitted bytes; `LoadBlockIndexDB` rebuilds
the index from the databases and enters the importer's ActivateBestChain.

### CoinsView, CoinsCache, CoinsChain

`CoinsView` is the promise: a database, the tip's view and one open view, each a plain record
of functions; writing changes the open view, `Flush` copies it up, `FlushTip` copies it to
disk, `Crash` copies it back.

`CoinsCache` is the code: two caches of entries `[cached, coins, dirty, fresh]` (coins) and
`[cached, entered, dirty]` (nullifiers, anchors), each filled by reads as a side effect, and
the BatchWrite that merges one into the other. `newTx` carries the one precondition callers
must respect: ModifyNewCoins marks an entry FRESH without reading the parent, and is right only
if the parent has no unspent coins of that transaction, which BIP30 ensures.

`CoinsChain` is the caller. A block is turned into the list of steps UpdateCoins makes
(`BlockSteps`): spend an input, set a nullifier, add the transaction's outputs. Connecting does
them in order and collects undo data; disconnecting does them in reverse and reads it.
`ConnectAbandoned` drops the view at any point, which is what a failing check of any kind, and
fJustCheck, do.

### CheckQueue

One step is one critical section of the queue's mutex, or what a thread does between two of
them. `Continue` is the body of Loop under the lock: return as master, wait, or take a batch of
`nNow` checks. `Enter`, `CleanUp` and `Wake` are the three places the body is reached from.
`Control`, `Add`, `Wait` and `Leave` are CCheckQueueControl and ConnectBlock. `Interrupt` and
`Throw` are boost interruption: the wait throws, the mutex is released, and in the master's
case the destructor waits once more; a second interrupt there ends the process.

### TxMemPool, MempoolChain

A transaction is a set of outpoints it spends; each outpoint has a creator, or none for a coin that
was always there. A nullifier is an outpoint without creator. `TxMemPool` has one operator per function of `txmempool.cpp`, each from pool to pool.
`count` and `fees` are `nCountWithDescendants` and `nModFeesWithDescendants`; count 0 is a dirty entry.

In `MempoolChain` everything happens under `cs_main`, so a step of the chain is split only where
something is random: `StartStep`, then `DisconnectTip`, `Resurrect` and `Disconnected` for each block
taken off, `ConnectTip` for each block put on, `EndStep`. After each acceptance, also one of
`Resurrect`, `EvictRandom` runs until the pool fits (`WithinLimit`). As in the code, DisconnectTip
resurrects a block's transactions while `chainActive` is still at the block and the coins are already
those of its parent (`tip`, `coinsAt`). `EndStep` may come early, for a block that fails to connect.
`Acceptable` has the caller's limit on the fee as a parameter: none for relay, and 1 for `Resurrect`, because DisconnectTip passes `true` for a CAmount
(see section 5). `cutOff` is an auxiliary variable: an entry was evicted while children of it in the pool were not yet linked to it.

### NoteWitness, WalletNotify

A witness is the sequence of blocks it has taken in, from the one the note was mined in, so that a
witness of a wrong branch, with a block missing or twice, differs from the right one. `Witnessed`,
`SpentPruned`, `Copied` and `Advanced` are the templates of IncrementNoteWitnesses in their order, and every assert of
the two functions is in `IncrementAsserts` and `DecrementAsserts`.

`WalletNotify` has the node and the notifier. `ActivateBestChainStep` goes to any block that one step can end on: at
most `MAX_REORG_LENGTH` blocks are disconnected, and others connected until one has more work than the old tip, the target is reached or
the next block fails; so the new tip may have less work than the old one, and may be the fork. `InvalidateBlock`
takes the tip below any block of the chain, without a limit, and releases `cs_main` there. `SetTip` is what both do to the notifier's counters:
only blocks that ConnectTip adds are counted. `FlushChain` and `AddRecent` are the rest of the node. The notifier: `Collect` is the part of a round under `cs_main`; `NotifyDisconnect` and `NotifyConnect`
tell the wallet of one block, without the lock, and write what SyncTransaction and, now and then,
SetBestChain write; `RoundEnds` stores the sequence number. `Restart` is a crash or a stop at any moment,
with the wallet's rescan; `StartNotifier` is ThreadStartWalletNotifier's wait for a chain that is close enough.
The wallet starts with a cache of any size up to the full one, with notes from before or without (`hasNotes`): a new wallet, or one after
ClearNoteWitnessCache, has size 0. An assertion that fails ends the process, which can then only be restarted; `exhausted` is the one
at `wallet.cpp:1481`, `assertFailed` stands for all others. `settled` is a history variable: the wallet has been on the active chain with a full cache, and the
tip has not gone down since.

### BlockDownload

`ns[p]` is the CNodeState of a peer. `SendMessages` is one call for a peer: the start of the header
synchronisation, the two timeouts, and the request of what FindNextBlocksToDownload returns.
`Inv`, `Headers`, `Answer` and `Unsolicited` are messages of the peer; `InitializeNode`, `PeerLeaves` and
`FinalizeNode` its connection; `Overdue` lets a timer run out. The network is `askedHeaders` and
`askedBlocks`: what a peer has been asked and has not answered. A peer in `Silent` need not answer.

### AddrMan

One variable, the manager, and one operator per member function from manager to manager. The
slots are hash functions given as constants. `Good`, `AddKnown`, `AddNew` and `GetAddr` are the calls of the
node; `Restart` is Serialize followed by Unserialize, with bucket positions that can be used or not. The file is the
manager seen through `EntryAt`: the entries with a slot in the new table and then the tried ones, each in the order of their ids. The
three loops of Unserialize (`ReadSlots`, `OwnSlots`, `Pruned`) are recursive functions over the rounds of the loop.

### HTTPServer, AsyncRPCQueue, Shutdown

`HTTPServer`: the event thread (`RequestArrives`, `Enqueue`, `EnqueueDeleted`, `SendReply`, `LoopEnds`), the workers
(`WorkerEnters`, `WorkerWaits`, `WorkerTakes`, `WorkerReplies`, `WorkerExits`, `StrayLeaves`), and the thread that stops it
(`Reject`, `Interrupt`, `WaitExit`, `DeleteQueue`, `LoopExit`, `LoopBreak`, `FreeHTTP`). `waiters` is the set of
threads in `cond.wait`, of both kinds. Nothing but WaitExit holds `DeleteQueue` up, as in the code: a detached worker may begin to run after WaitExit has
returned (it is then `late`), and the event thread may be inside http_request_cb. What these find in a deleted queue is undefined: the event
thread gets stuck (`stray`), is told that the queue is full, or drops the request into a deque nobody looks at (`dropped`); a worker gets stuck or leaves. `AsyncRPCQueue`: a step is a critical section of `lock_`, except
cancelAllOperations, which holds it over many; the state of an operation is not protected by it.
`Shutdown` adds what an RPC does between the two (`RpcSend`, `RpcLook`, `RpcPop`, `RpcPoll`) and the main thread:
Interrupt() with InterruptHTTPServer and InterruptRPC, then StopRPC, which closes the operations,
StopHTTPServer, and the deletion of what all of them use.

## 3. What the runs check

| run | spec | instance | properties | shows |
|---|---|---|---|---|
| `chain_single` | ChainState | 7 blocks, 1 thread; a2 fails ContextualCheckBlock, b2 ConnectBlock; a1, b1 may be invalidated and reconsidered without limit | `FailedJustified`, `CandidatesComplete`, `BestChainActivated` | no failure flag without a reason, no candidate lost, every activation ends on the best chain (the last two until the node decides to shut down) |
| `chain_threads` | ChainState, `FairSpec` | 6 blocks, 2 threads, b2 fails ConnectBlock, MaxReorg 1 | `ChainInv`, `ActiveChainDisconnectable`, `ReorgBounded`, `ActivationTerminates` | what holds however stale a target is, and every activation returns |
| `disk_crash` | ChainDisk | 5 blocks, 2 per file, c1 fails ConnectBlock, crashes anywhere | `DiskTipRecoverable`, `CleanEntriesOnDisk`, `RestartLinked`, `RestartBestChain` | the disk always holds a chain that can be loaded, continued and rolled back |
| `coins_chain` | CoinsChain | 7 blocks, 5 transactions, 1 nullifier, 3 roots | `CoinsInv`, `TipMatchesChain`, `DisconnectClean`, `ImplementsCoinsView` | both caches show exactly the coins of the chain, and implement the uncached view |
| `check_queue` | CheckQueue, `FairSpec` | master, 2 workers, 4 checks of which one fails, batches of 2, 1 interrupt, any number of blocks | `QueueInv`, `VerdictExact`, `SessionsIsolated`, `NoLostWakeup`, `WaitReturns` | the verdict is exact, blocks do not mix, Wait returns |
| `mempool` | MempoolChain | 6 blocks, 7 transactions, a limit of 4 | `InputsAvailableUnlessCut`, `LinksExact`, `DescendantTotals`, `NextBlockValid` | the pool agrees with the chain and with itself after any reorganisation |
| `wallet_notify` | WalletNotify | 7 blocks, 2 notes, MAX_REORG_LENGTH 1; a new wallet or one with a full cache and 1 restart, or a new wallet and 1 tip of no more work | `WitnessesCurrent`, `UnspentWitnessed`, `WalletAsserts`, `FullyNotified`, `RecentlyAddedDrained` | witnesses belong to the wallet's block; no assert fails but that of an exhausted cache in a wallet that is not settled; every block and transaction is told |
| `block_download` | BlockDownload | chain of 4, one peer that answers, one silent, window 1, 2 in transit, 2 faults | `InFlightExact`, `NoStrayRequest`, `CommonBlockLinked`, `ChainDownloaded` | map, lists and counters agree; the chain is downloaded |
| `addrman` | AddrMan | 4 services on 3 addresses, 2 sources, 3 new and 2 tried slots | `AddrmanConsistent`, `TriedNotForgotten` | the six structures agree; tried addresses stay |
| `shutdown` | Shutdown | a z_sendmany, a z_getoperationresult and a long poll; 2 HTTP workers, queue of 1, 1 worker of operations | `QueueOutlivesWorkers`, `EveryRequestAnswered`, `NothingLeftBehind`, `NobodyUsesDeleted`, `ShutdownCompletes` | the queue outlives the workers WaitExit counts; wallet and chain outlive all users; requests (but one at most) and operations end; so does the process, unless the event thread is stuck |
| `chain_stale_target` | ChainState | 6 blocks, 2 threads | `BestChainActivated` | violated: finding 1 |
| `wallet_restart` | WalletNotify | as `wallet_notify`, restarts at any moment | `WitnessesCurrent` | violated: finding 2 |

### Bounds, and why they are enough

- **The tree of the chain runs** (`MCChainState`) is g–a1–a2, g–b1–b2–b3 and b1–c2, one unit of
  work per block. It has equal work on two branches (so the sequence id decides), a branch that
  overtakes another, a fork in a branch, and a block in the middle that fails after its parent
  was connected. Reorganisations of one and of two blocks exist; with MaxReorg 1 the second is
  refused, with 3 (`chain_stale_target`) it is made.
- **Two threads** suffice for a stale target: one keeps it, the other moves the chain.
- **The disk tree** is g–a1–a2 with single blocks b1 and c1 beside it, with two blocks per file,
  so that a block is connected after its file has been left, and files end in the middle of a
  branch. One thread is enough because crashes already fall between any two steps.
- **The coins tree** contains, on purpose, a transaction that occurs on two branches at different
  heights, one spent in the block that creates it, one that creates nothing spendable, one that
  empties its predecessor, the re-creation of an unspent transaction (BIP30) and a double spend.
- **Check queue**: four checks and batches of two make batches of one and two, and several
  batches at once. `MaxInterrupts` is the only artificial bound of that model: one event, which
  may hit any set of threads, as `interrupt_all` does. Two events
  were also run, with two checks (27,057 states); the safety theorems cover any number.
- **Memory pool**: the chain of spends A–B–C–D is mined in part on one branch and in part on the other; G has
  two parents at different depths, E conflicts with B, F commits to another consensus branch, C is immature
  below height 2, D uses an anchor of one branch, and E expires.
  E pays a fee of 2 and is refused when it comes back, the others pay 1, so that both outcomes of `Resurrect` occur. Seven transactions of cost 1 or 2 against a limit of 4
  make evictions happen, also in the middle of a reorganisation. `maxDescendantsToVisit` (100 in the code) is 1, so that entries become
  dirty. `MaxDelta` bounds the fee delta, `EVICTION_MEMORY_ENTRIES` the list of evicted ones.
- **Wallet**: the tree is g–a1–a2 and a1–b2–b3–b4–b5, where a2 has the work of b3. A reorganisation takes one block (`MAX_REORG_LENGTH` = 1), the
  long branch makes rounds of `WALLET_NOTIFY_MAX_BLOCKS` = 2 stop short of the tip, and the cache of 2 witnesses overflows. One note is spent in a2, and stays
  unspent if a2 is disconnected; b5 has a nullifier, so that witnesses of old spends are pruned there; the other note is mined in a2 or again in b3.
  `Starts` pairs a size of the cache with the number of restarts and of steps to a tip of no more work (invalidateblock, a
  reorganisation that fails half-way, a stale target). One of either is enough to break any of the properties by a mistake in
  the code; all combinations would not finish in the time of a run. The theorems have no such bound. `AnyRestart` = FALSE restricts restarts to moments when wallet and
  chain were written in step, as the others lead to finding 2.
- **Block download**: with a window of one block the download stalls behind a block that the silent peer has been
  asked for, and headers come two at a time, so that the index grows in pieces. `MaxFaults` = 2 counts connections of silent
  peers, peers that leave, and blocks nobody asked for.
- **Address manager**: two ports of one address, addresses sharing slots in both tables, so that an eviction from
  tried pushes an entry out of the new table, which may delete it. Ids are reused (a behaviour does not depend on
  their value). `MaxRead` = 0: see the limits in section 5.
- **Shutdown**: a queue of depth one is full with two requests outstanding; with two HTTP workers one can be late while the other is not, and a request can be in http_request_cb when the queue is deleted.
- Nothing else is capped: `nBlockSequenceId` is bounded by the number of blocks, since a block is
  stored once.

No symmetry is used: blocks and threads are distinguished by the tree or by a constant.

### Fairness

- `ChainState!FairSpec` asks strong fairness of each thread's `Proceed`. `cs_main` is a mutex that
  other threads take and release; a thread that waits for it gets it eventually, though it is not
  free all the time, hence strong and not weak. Nobody is obliged to send a block or header. The
  run with two threads has no operator: two threads can be kept looping by an operator that invalidates
  and reconsiders for ever, and the code promises nothing against that.
- `CheckQueue!FairSpec` asks weak fairness of each thread's own steps: a thread that is not
  blocked is scheduled. There is no fairness for spurious wake-ups, for interrupts, or for
  ConnectBlock going on to its Wait.
- `WalletNotify!Spec` asks weak fairness of the notifier's own thread, which loops once a second for as long as the node runs.
  The node need not do anything.
- `BlockDownload!Fairness`: the message thread visits every peer, timers expire, and a peer that is not silent connects, announces
  its tip and answers. For the four actions of a peer weak fairness is written out as `[]<>disabled \/ []<><<A>>_vars`,
  with the predicate that says A would change nothing, because evaluating ENABLED of these actions dominates the run.
- `Shutdown!Spec` asks weak fairness of every thread: the event thread, each worker of either kind, and the main thread. No client
  is obliged to send a request, and no new block comes to end a long poll. A worker in a deleted queue (`StrayLeaves`) is not obliged to leave it.
- The other runs check safety, under the plain specification. Where the cfg says CHECK_DEADLOCK FALSE the system may
  stop: a wallet far ahead of its chain waits until blocks come.

## 4. What is proved

| theorem | statement | hypotheses besides the modules' assumptions |
|---|---|---|
| `TreeFacts` | ancestors are rooted, nested and ordered by height; two blocks have a last common block | none |
| `ChainInvariant`, with parts `TypeCorrect`, `ActiveChainAlwaysDisconnectable`, `CandidatesAlwaysSound` | `Spec => []ChainInv` | none: any tree, threads, failing blocks, bounds |
| `ReorgAlwaysBounded` | `Spec => ReorgBounded`, an action property | none |
| `FailedAlwaysJustified` | `Spec => []FailedJustified` | `ReconsidersLowest` |
| `CandidatesAlwaysComplete`, `BestChainAlwaysActivated` | `Spec => []CandidatesComplete`, `Spec => []BestChainActivated` | `ReconsidersLowest`, one thread |
| `LinkedAlwaysComplete` | `Spec => []LinkedComplete` | nothing is invalidated |
| `DiskInvariant`, with `DiskTipAlwaysRecoverable`, `CleanEntriesAlwaysOnDisk` | `DiskSpec => []DiskInv` | none |
| `RestartAlwaysLinked` | `DiskSpec => []RestartLinked` | nothing is invalidated |
| `RestartAlwaysBestChain` | `DiskSpec => []RestartBestChain` | nothing is invalidated, `ReconsidersLowest`, one thread |
| `CoinsInvariant`, `CoinsViewImplemented` | `Spec => []CoinsInv`, `Spec => ImplementsCoinsView` | none: any transactions, coins, nullifiers, roots |
| `MatchInvariant`, `TipAlwaysMatchesChain`, `DisconnectAlwaysClean` | `ChainSpec => []MatchInv` and parts | none: any block tree, any blocks |
| `ChainUsesCoins`, `ChainImplementsCoinsView` | `ChainSpec => Spec` of `CoinsCache`, `ChainSpec => ImplementsCoinsView` | none |
| `QueueInvariant`, `VerdictAlwaysExact`, `SessionsAlwaysIsolated`, `MasterNeverStranded` | `Spec => []QueueInv` and parts | none: any number of workers, checks, interrupts |
| `RoundInvariant`, `ChainFullyNotified` | `Spec => []RoundInv`, `Spec => []FullyNotified` | none: any tree, notes, moves of the tip, restarts |
| `WitnessesAlwaysCurrent` | `Spec => []WitnessesCurrent` | `~AnyRestart` |
| `MarginInvariant`, `CacheAlwaysSuffices`, `UnspentAlwaysWitnessed` | `Spec => []RunningInv`, `Spec => []CacheSuffices`, `Spec => []UnspentWitnessed` | none: any first size of the cache, any restarts |
| `WalletAssertsHold` | `Spec => []WalletAsserts` | `~AnyRestart` |
| `DownloadInvariant`, `InFlightAlwaysExact`, `NeverStrayRequest`, `CommonBlockAlwaysLinked` | `Spec => []DownloadInv` and parts | none: any peers, tree, windows and shares |
| `ManagerSafe`, `ManagerConsistent` | `AddrSpec => []ManagerInv`, `AddrSpec => []AddrmanConsistent` | `MaxRead = 0`; any addresses, sources, tables and hash functions |
| `TriedStaysKnown` | `AddrSpec => TriedNotForgotten`, an action property | `MaxRead = 0` |
| `MempoolSafe`, `InputsStayAvailable`, `LinksStayExact`, `NextBlockStaysValid` | `Spec => []MempoolInv` and parts | none: any transactions, blocks, limits, evictions |
| `TotalsSafe`, `DescendantTotalsStayExact` | `Spec => []TotalsInv`, `Spec => []DescendantTotals` | none |
| `ShutdownInvariant`, `AcceptedOperationsEnd`, `DeletedObjectsUnused` | `Spec => []ShutdownInv` and parts | none: any requests, operations, workers |
| `DeletedQueueUnused`, `RequestsAnswered` | `Spec => []QueueOutlivesWorkers`, `Spec => []EveryRequestAnswered` | none |

**Assumptions.** The named assumptions of the modules, which say what kind of thing the constants are, evaluated by TLC on
every instance. Three say a little more because a theorem needs it and the code has it: there is at least one worker of operations
(`AsyncAssumption`; StartRPC adds one), the HTTP workers are finitely many (`HttpAssumption`), as are the peers. Addresses and slots
of the new table are finitely many too, which counting them needs (`AddrAssumption`).
`CoinsChain` has two more. `TransactionAssumption`: coins that are not pruned have a height above 0, as the transactions of genesis
are skipped; DisconnectBlock depends on it, since height 0 in the undo data means "not the last output". `AnchorAssumption`: a block leaves the commitment tree
alone or makes it larger, and a root determines the size of its tree (`size`), that is, Merkle roots do not collide; otherwise PopAnchor
could remove an anchor that an earlier block still needs.
The memory pool has two as well. `BlocksAssumption`: the blocks are those ConnectBlock accepts, that is, a transaction spends coins of the chain below or
outputs of earlier transactions of the block, no two spend the same, and none is on the chain already (BIP30). `OrderAssumption`: there is no circle of spends,
as a transaction names what it spends by the hash of an earlier one.
The facts about ancestors and forks were once assumed; `BlockTreeProofs` now proves them.

**Hypotheses.** Each excludes a behaviour of the code that makes the property false, all listed in section 5.
`ReconsidersLowest`: a block that is reconsidered has no block below it that could have failed. Otherwise reconsiderblock leaves
flags on sibling branches, and clears those of the ancestors without making them candidates again (`main.cpp:3495-3501`), so that the node may stay on
a worse chain. One thread: with two, a stale target undoes a better chain (finding 1). Nothing invalidated: a block stored
below an invalidated one stays unlinked. `~AnyRestart`: finding 2.
`MaxRead = 0`: a `peers.dat` that breaks off does so before its first entry, as Clear() leaves the entries read until then in `mapInfo` and
`mapAddr`. The theorems about the wallet and the HTTP server have no other hypotheses; where the code fails, the property itself names
the exception (`settled`, `exhausted`, `spentHeight`, `late`, `dropped`).

**Induction.** The library's induction theorems cannot be instantiated by the installed provers. Where a fact is about
every block of a branch, every element of a list or every turn of a loop, it is proved by least counterexample instead:
a set of natural numbers that is not empty has a least element, by the well-foundedness of < (`LeastNatural`). The same argument shows
that a recursive function over `0..n` exists, which is what the loops of FindNextBlocksToDownload, of the rescan, of the
requests to a peer and of Unserialize are, one over the blocks by height, which is what the state of the coins at a block is, and one over the sets
of transactions by size, which is what a sum of fees is. The walk over the links of the memory pool (`Reached`) is shown to end, by counting, in the least closed set.

**ChainInv.** `TypeOK` alone is not inductive: DisconnectTip moves the tip to `pprev[tip]`, which is
a block only if the tip is not Genesis. That follows because the target is linked and the fork of
tip and target is below the tip, so `ThreadsConsistent` is needed: a thread past the top of the
loop holds `cs_main`, has a target, and targets are linked however stale they are. That linked
blocks have data, that the tip is linked, and that a connected block has undo data give
`ActiveChainDisconnectable`. `StepWithinBound` relates a step in progress to the tip it started
from: the tip is still on that branch until the fork is reached. Together with the length check made when the step begins, under the same lock, this gives
`ReorgBounded`, however old the target is by then.

**Completeness of ChainState.** Three invariants on top of `ChainInv`. `FailureInv`: only blocks that a check refuses or the operator
invalidates carry FAILED_VALID themselves, and a block being invalidated keeps its flag. `ActivationInv`, for one thread: between two calls the candidates are
complete from the tip upwards and the tip is the best of them; during a reorganisation neither holds, as the tip is lower than
candidates that were pruned already. What survives is `Resumable`: there is a valid linked block from which upwards no candidate is
missing. It is the tip from before the step, or any block connected since; FindMostWorkChain then finds the best
chain, and the target kept across the loop is still the best because nobody else is there to change it.
`LinkedInv`: a stored block that is not linked waits in `mapBlocksUnlinked`, or hangs from a block that is refused for ever.

**DiskInv.** While the node runs, `ChainInv` holds and `DiskBehind` says that memory is the disk plus what is dirty: an entry on disk
never claims data or undo that memory does not, and a clean entry agrees with it but for a FAILED_CHILD. While it is down,
the disk alone is described. The key is the order within a flush: once only the coins remain to be written, `setDirtyBlockIndex`
is empty, so the tip about to be written has all its entries, with data and undo, on disk. LoadBlockIndexDB then has to establish
`ChainInv` again from the disk. `RestartLinkedInv` and `RestartBestInv` carry the completeness invariants over a crash: the
flags on disk need a reason on disk, and no block that fails ConnectBlock is below the coins' tip.

**CoinsInv.** `FlagsSound` says at both levels what the flags mean: not DIRTY means equal to the
parent, FRESH means that the parent has nothing. The second half is what makes BatchWrite's
dropping of a FRESH and pruned entry right. To keep it, three things are needed in
`PhaseConsistent`: a transaction in `newTx` has nothing in the parent for as long as the view is
open (otherwise ModifyNewCoins breaks FRESH); the root of the empty tree is always an anchor
(PushAnchor and PopAnchor leave it alone); and a finished view has its best anchor and best block
set, as a null hash flushed up would make `pcoinsTip` show the database's old one. The
refinement then maps each level to what a lookup through it finds; reads, Uncache and the
restoring of clean entries are stuttering, and every write is the abstract one.

**MatchInv.** What is in the database and in `pcoinsTip` is, also while a view is open, the state at some block (`LevelsInv`), and a finished
view is at the block it finished (`DoneInv`). In between, `JobInv` places the view on the *trail* of its block: the states after 0, 1, … of the
block's steps, from the state at the parent to the state at the block. ConnectBlock goes forward on it and DisconnectBlock backward, and the undo data in memory
is what the steps up to that point leave behind. A step back is right because of what ConnectBlock checked before the step forward: the output was there, the nullifier was
not, nothing of the new transaction was (`StepsOk`). DisconnectBlock checks none of this itself, so `UndoInv` carries it: undo data
on disk exists only for a block that passed every check on its own chain, whichever branch was active since. That a transaction
not yet added has nothing in the view is part of `Connecting`; BIP30 gives it for the start, and spending cannot change it. `StateAt`, `After` and
`FlattenSeq` are recursive functions; that they exist and satisfy their equations is proved first.
The steps of the chain are then shown to be steps of `CoinsCache` with arguments of the right kind (`ChainUsesCoins`).

**QueueInv.** `TodoExact`: every outstanding check is in the queue or in exactly one batch, and
`nTodo` counts them. `FailuresTracked`: a failing check of this block is recorded in `fAllOk`, or
some thread still has it. `NoLostWakeup` needs both `PlacesSound` (a batch is held only while
executing or just after) and the fact that the thread bringing `nTodo` to 0 notifies the master.
The proof handles Loop's body once, for the three places it is reached from.

**RoundInv, CacheInv, RunningInv.** `RoundInv` is about the notifier alone: what it still has to tell is the path from the wallet's
block to the target, and `NumbersExact`: as long as no block is connected after a number was taken, the tip can only go down from where it was, so the whole
active chain stays below the block the round leads to. That is what equal numbers can mean at all, and no more: disconnected blocks are not counted.
`CacheInv`: each witness of a note is the one of the wallet's block or of the block so many below it, and there are no more of them than
`nWitnessCacheSize` says (`AssertInv`), which is what all assertions but one ask for; neither depends on how full the cache is or where the tip goes. The restart in step is carried
through the rescan block by block.
`RunningInv` has two independent parts. `MarginInv`, for a settled wallet, is the arithmetic of the cache: it
has one witness more than all blocks that can be taken away from the wallet, which is the distance of its block from the
active chain, that of the fork the round is heading for, and what is left of `WITNESS_CACHE_SIZE` after the blocks it is behind. Several reorganisations of
the node can become one for the wallet, so the bound of a single reorganisation does not give this by itself. A wallet becomes settled at the end of a round that leaves it on the active
chain with a full cache, and a tip that goes down ends it. `FirstRunInv`, until the first restart: a note that is not taken for spent has as many witnesses as the cache has room for,
or as there are blocks since it was mined; with an exhausted cache excepted that is one at least. Pruning does not disturb it, because it takes witnesses only from notes with a `spentHeight`.

**DownloadInv.** `DownOk` ties the three descriptions of the blocks in flight together, for each peer: the list has each block once,
and exactly the blocks that `mapBlocksInFlight` has for this peer; its length and number of validated entries are the two counters; the
global counter is the number of peers with a validated entry. It is a predicate of the record that MarkBlockAsReceived and
MarkBlockAsInFlight transform, so that it goes through their loops by one lemma each. `CommonBlockLinked` needs that the walk of
FindNextBlocksToDownload starts at an ancestor of the last common block, so linked, and moves only to linked blocks.
For the direct fetch, which requests blocks from the lowest to the highest, a block of each rank is shown to exist by
counting the blocks below it.

**ManagerInv.** `AmOk(m, k)` says of a manager that the maps are inverse to each other, that `vRandom` lists every entry once at its `nRandomPos`, that
`nRefCount` counts the slots of an entry and only possible slots are used, that the tried table holds the tried entries, each in its own slot, and
that the counters are right. Inside an operation this is not so, in two ways, and both are made parameters. An entry may
have no slot (`Loose(m)`): one that Create has just made, one that ClearNew is about to delete, one that a restart has read. And MakeTried takes an entry
out of `nNew` before it is tried, so that `nNew` lacks `k` = 1 of them; the entry it evicts is in neither table for a moment and goes back to the new
one by ClearNew, which may delete a third. So ClearNew and Delete are proved for any `k`, and with any other loose entries beside the one at hand. `ManagerInv` is
`AmOk(am, 0)` with nothing loose. That the asserts of Serialize hold is one consequence (without loose entries, having a slot is the same as not being
tried). For Unserialize, `Former` maps the numbers in the file to the ids of before; it is one-to-one, so what did not collide does
not collide now, and every tried entry has a number. The slots of the file belong to addresses whose slots they are, which is why they can be taken over as they
are; and pruning goes through all entries in order and deletes just the loose ones.

**MempoolInv, TotalsInv.** The pool is one record, and every function of `TxMemPool` takes a pool and returns one; so there is one lemma per function, and
the actions only combine them. `PoolPart`: the index and the links are sound, each link is there in both directions and stands for a spend
between entries, and no entry is confirmed. What is not always true is that no link is missing. While a block comes back, its transactions may have children in the
pool that are not linked to them; `LinkedBut` makes just this exception, and `FundedPart` says that every input is an
output of an entry, of a transaction that is still to come back, or a coin. `LoopPart` follows the loop: what has come back never spends from what has not, so a transaction
that is refused takes its spenders with it, and those are outside of the block. An eviction inside the loop can break this, and `cutOff` records exactly that; the parts
`PoolPart`, `ValidPart` and the totals hold even then. `ValidPart` separates what holds at every step (anchors) from what the end of a step restores.
`TotalsInv` is about the links as they are: the totals of an entry are the number and the fees of the entries its links lead to. That the ancestors
UpdateForRemoveFromMempool visits are those that count the removed entry is the fact that a path over parents is a path over
children backwards (`AncestorsMatch`). Removal is right in two cases, with all descendants, or, for removeForBlock, without parents in the pool; that mined transactions
have none left when their turn comes is the order of the block. UpdateTransactionsFromBlock goes through the block from the end: an entry it has not come to counts its descendants inside the
block only (`ReturnPart`: before the loop it has no others), its children in the block are finished, and nothing leads from outside into the block. So what it adds, the descendants outside, is
what was missing, and each is counted once.

**ShutdownInv.** `AsyncInv`: an unfinished operation is in the queue, or in the hands of a worker, and workers end only
when the queue is closed and empty. `HttpInv`: `numThreads` counts the workers inside Run(), each request is accounted for by where it is,
and how far the stopping thread is says what it has set. A worker that enters after WaitExit has returned finds `running` false, so it takes nothing. `AfterDeletion`: the callback is the rejecting one by then, so
the request in the hands of the event thread is the only one that can still be dropped. `StopOrder` connects the two: operations are joined before
WaitExit, so neither RPCs nor operations run when the main thread deletes what both use.

**What the proofs corrected.** Two properties that held on the instances were false in general, and their attempted proofs showed
why: `CandidatesComplete` in a node that gives up on a reorganisation half-way, and the assertion of an exhausted cache after a restart. Both are now
stated with the premise they need, and the behaviour is described in section 5.

**Only model-checked.** All liveness: fairness and ENABLED are outside what the installed provers do, as is what a
recursive definition computes, except along the argument above.

## 5. Findings

1. **A stale target undoes a better chain** (`chain_stale_target`). ActivateBestChain
   (`src/src/main.cpp:3364`) keeps `pindexMostWork` across a release of `cs_main`, and
   ActivateBestChainStep never compares it with the current tip. If another thread activates a
   better branch in between, the loop reorganises back to less work and returns true, although
   the comment at line 3348 says: "The result is either failure or an activated best chain." The
   better chain is selected again at the next call.
2. **A restart on another branch leaves witnesses of the old one** (`wallet_restart`). InitLoadWallet
   (`src/src/wallet/wallet.cpp:4877`) rescans from the fork of the wallet's locator with the chain. Nothing takes the
   witnesses of the abandoned blocks back first; IncrementNoteWitnesses skips blocks that are not above a note's
   `witnessHeight`, and appends the later ones to a witness of the old branch. The comments at lines 594 ("the wallet state will be brought up to date during
   rescanning on startup") and 1981 ("this is safe, as in case of a crash, we rescan the necessary blocks on startup
   through our SetBestChain-mechanism") promise otherwise. Such a note cannot be spent until a rescan rebuilds its witnesses.

### Limits met while modelling

These behaviours of the code are in the models; the passing runs use instances that leave them out, or
properties that exclude them by name. Each can be reproduced by the change in parentheses.

- **A block can stay unlinked after reconsiderblock.** ReceivedBlockTransactions (`main.cpp:3657`) queues a block in
  `mapBlocksUnlinked` only if its parent is valid; one stored while its data-less parent is marked failed has no `nChainTx`
  until a restart. (`LinkedComplete` in `chain_single`.)
- **Undo data of an older file is not committed.** FlushBlockFile commits only the files of `nLastBlockFile`, while the
  comment at `main.cpp:2877` speaks of all block and undo data. (`DiskUndoDurable` in `disk_crash`.)
- **A crash after invalidateblock may leave a node that cannot start.** The failed flags reach the disk with a periodic write that
  leaves the coins at the invalidated tip; then there is no candidate, and the assert at `main.cpp:3210` fails.
  (`RestartCandidates` in `disk_crash` with `Invalidatable = {a1}`.)
- **An eviction in the middle of a reorganisation can leave entries without inputs.** DisconnectTip accepts the transactions of
  a block one by one and links them to their children in the pool only afterwards (`main.cpp:2987-3005`); EnsureSizeLimit, called by the
  acceptance, removes an entry with its linked descendants only. (`InputsAvailable` in `mempool`.)
- **A returning transaction is refused for its fee.** DisconnectTip (`main.cpp:2994`) passes `true` as the last argument of AcceptToMemoryPool, which
  is a CAmount (`main.h:332`): `nAbsurdFee` is 1, and the check at `main.cpp:1508` refuses every transaction that pays more than 1 zatoshi. So the comment at
  `main.cpp:2988`, "Resurrect mempool transactions from the disconnected block.", is true of hardly any; the others are removed, with what spends them. The mempool
  properties hold for refusals of any kind. (In `mempool`, an invariant that a transaction that was mined, and is acceptable without a limit on the fee, is back in the pool.)
- **A spend that is disconnected is remembered.** `spentHeight` (`wallet.cpp:1126-1136`) is not reset when the spending block is disconnected,
  so the witnesses of a note that is unspent again are pruned later. The instance of `wallet_notify` has such a spend, in a2, and
  `UnspentWitnessed` leaves out the notes with a `spentHeight`. (`UnspentWitnessed` with `~SpentAt(n, lastTip)` in place of `notes[n].spentHeight = -1`.)
- **The witness cache can be exhausted** (assert at `wallet.cpp:1481`, and the TODO above it). A new wallet has `nWitnessCacheSize` 0, and one more
  with each block; if it gets a note and then all the blocks it has been told of are disconnected, the assertion fails. So it does for a full cache when invalidateblock disconnects more blocks than
  it has witnesses, and for a restarted wallet, as `nWitnessCacheSize` may have been written while blocks of a reorganisation were taken back, with a
  chain state from before it. Hence `settled` in `CacheSuffices`. (`~exhausted` as invariant of `wallet_notify`.)
- **ChainIsFullyNotified does not count disconnected blocks.** `nConnectedSequence` moves in ConnectTip only (`main.cpp:3097`). After invalidateblock, or a step that ends on
  the fork, the numbers are equal while the wallet has still blocks to take back. `FullyNotified` therefore speaks of the blocks of the
  chain. (`nNotified = nConnected => lastTip = tip` as invariant of `wallet_notify`.)
- **A node that gives up half-way has pruned its candidates.** When the rest of a reorganisation turns out to be longer than
  `MAX_REORG_LENGTH`, ActivateBestChain returns with the tip on a lower block, while PruneBlockIndexCandidates has already
  removed candidates worse than a tip of the meantime. The node is shutting down, and LoadBlockIndexDB rebuilds the set.
  (`CandidatesComplete` without `~shutdown`.)
- **reconsiderblock does not restore ancestors as candidates.** Called for a block above an invalidated one, it clears the flags of the ancestors
  (`main.cpp:3495-3501`), but puts only its argument and what is above that into `setBlockIndexCandidates`. If the argument is a header without data, a good chain below it is
  not activated, until a better block or a restart. (`chain_single` with `BadBlock = {}` and `Reconsiderable = {a2}`: `CandidatesComplete`, `BestChainActivated`.)
- **reconsiderblock leaves flags on other branches.** ReconsiderBlock clears the flags of the failed ancestors of its argument, but
  not the flags that other descendants of these ancestors have. Reconsidering a block above a failed one leaves a sibling branch
  marked failed for no reason, until it is reconsidered too. (A `Reconsiderable` block above an invalidated one,
  `FailedJustified`.)
- **The work queue is deleted without regard to late threads.** `httpserver.cpp:469-476` calls WaitExit and deletes. WaitExit counts the workers inside Run(); a detached worker
  that has not begun, and the event thread in http_request_cb, use the queue afterwards, although `httpserver.cpp:101` states the precondition "worker threads have all stopped". A
  request caught there may never be answered, and the join of the event thread may never return. The properties name both exceptions. (`QueueOutlivesWorkers` without `"starting"` and `"late"`;
  `EveryRequestAnswered` without `"dropped"`; `ShutdownCompletes` without `evPc = "stray"`.)
- **cancel() may overwrite the state of a running operation** (`asyncrpcoperation.cpp:65`): it tests and sets in two steps. The operation
  still ends, in a final state of its own or in CANCELLED.
- **Clear() leaves `mapInfo` and `mapAddr`** (`addrman.h:447`): after a `peers.dat` that breaks off, the manager
  is not the empty one. (`MaxRead = 1`, `AddrmanConsistent`.)
- **Header synchronisation has no timeout.** When the peer it was started with is silent, only the announcement of a
  block by another peer makes the node ask again; and a silent peer that reconnects for ever can take requests for ever
  (`MaxFaults` bounds it).

## 6. Abstractions, and what is not modelled

**Chain.** No pruning (`-prune` is off by default), so BLOCK_HAVE_DATA and `nTx > 0` coincide.
`pindexBestHeader`, `pindexBestInvalid`, fork warnings, the mempool, and UI and wallet callbacks have no
effect on the modelled state. Disk-write errors are left out. A block that fails CheckBlock changes
nothing. invalidateblock of genesis is excluded. Asserts are invariants: that FindMostWorkChain never
returns NULL is `CandidatesNonEmpty`. The order of equal keys in the `mapBlocksUnlinked` multimap is
left open (`QueueOrders`).

**Disk.** A database batch is atomic and synchronous, as `src/txdb.cpp` requests it. VerifyDB and
RewindBlockIndex, which run after a load, are not modelled.

**Coins.** One shielded pool: Sprout and Sapling go through the same templates. The life of a
CCoinsModifier is one step. CCoins are the unspent outputs and the height, and all pruned objects are
equal, as no reader tells them apart. Failing scripts, amounts, proofs and anchors are
`ConnectAbandoned`. Undo data survives a restart, which is `DiskTipRecoverable` of ChainDisk. Of
BatchWrite, the case of a child entry that is not FRESH without a parent entry cannot occur, as
ModifyCoins fills the parent first. The address, spent, timestamp and transaction indices are left out.

**Check queue.** The queue is a set, and any choice of a batch covers the stack. `fQuit` is never set by
any caller. There is one master at a time, since ConnectBlock holds `cs_main`. Interrupts come from
`threadGroup.interrupt_all()` (`src/init.cpp`) and from stopping the miner threads (`src/miner.cpp`); an
interrupted wait leaves `nIdle` and `nTotal` too large, which only makes later batches smaller.

**Memory pool.** Rules that depend on neither chain nor pool hold of every transaction, or of none (`NonStandard`). Ancestor totals
are left out except for the limit; so are the indices for insight, fees and priority for relay, and the heap of
`mempool_limit.cpp`: any entry may be picked. A block's coinbase is left out.

**Wallet.** The node side of `WalletNotify` is `ChainState` seen from outside: all tips with which `cs_main` can be released, whichever target, failure or operator leads there.
A wallet that is restarted keeps `hasNotes`, as transactions are written when they are added. Reading blocks from disk does not fail. Keys, balances, coin selection and encryption are not modelled.

**Block download.** Blocks and headers are valid, peers have fixed chains, and time is what the two timers say. Whitelisted,
one-shot and client peers, misbehaviour scores and the fetch of transactions are left out.

**Address manager.** Times, attempts and the random choices that depend on them are nondeterministic. `cs` makes every operation atomic.

**Services.** libevent is modelled by how `httpserver.cpp` uses it: one thread, events in any order. REST and JSON parsing,
authentication and connection limits are left out. `finish()` of the operations' queue is called by tests only.

**Not modelled**, with the reason, in `components` of `PROJECT.json`. In short: the scheduler, orphan transactions, pruning and
commitment trees could be, and come next; scripts, proofs, proof of work and transaction rules are functions of data that
appear here as sets of failing blocks or refused transactions; sockets, RPC glue, coin selection, fee statistics, mining heuristics and
vendored code (secp256k1, LevelDB, univalue) are left out. Most of the repository's lines are in these parts.

## 7. Plan

Done, in this order, most important behaviour first: `BlockTree` and `ChainState`; `ChainDisk`;
`CoinsView`, `CoinsCache` and `CoinsChain`; `CheckQueue`; the proofs of three of them; then `NoteWitness` and
`WalletNotify`; `TxMemPool` and `MempoolChain`; `HTTPServer`, `AsyncRPCQueue` and `Shutdown`; `BlockDownload`; `AddrMan`; then
the proofs of the tree, the services, the completeness of `ChainState`, `ChainDisk`, `WalletNotify`, `BlockDownload`, `CoinsChain`, the memory pool and the address manager.

Next, to model: the orphan maps; `CScheduler`; pruning in `ChainDisk`, and RewindBlockIndex; IncrementalMerkleTree
against a plain tree; the skip list of `chain.cpp`; the reference counts of CNode.

Runs are kept to one per question; new components share runs where they can.

Next, to prove: the restarts that are not in step, for the asserts that can still hold there.
