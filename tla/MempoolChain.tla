---------------------------- MODULE MempoolChain ----------------------------
(***************************************************************************)
(* The memory pool and the active chain together (src/main.cpp): a          *)
(* transaction is accepted against the coins of the chain and of the pool;  *)
(* a step of ActivateBestChain, or InvalidateBlock, disconnects blocks and   *)
(* brings their transactions back into the pool, connects others, and at    *)
(* its end takes out of the pool what the new tip has made invalid.  At any  *)
(* acceptance the pool may have to evict.                                   *)
(*                                                                          *)
(* All of it runs under cs_main.  A step is split where something random is  *)
(* chosen: after each transaction that comes back there may be evictions.   *)
(***************************************************************************)
EXTENDS BlockTree, TxMemPool

CONSTANTS
    vtx,           \* [Block -> Seq(Tx)]: its transactions, the coinbase left out
    MinHeight,     \* [Tx -> Nat]: lock time, and maturity of the coinbase it spends
    ExpiryHeight,  \* [Tx -> Nat]
    Anchor,        \* [Tx -> Block \cup {NoBlock}]: the block whose note tree it spends from
    UpgradeHeight, \* the first height of the second branch id
    BranchId,      \* [Tx -> {0, 1}]: what its signatures commit to
    NonStandard,   \* transactions a miner may take but the pool refuses
    Cost,          \* [Tx -> Nat]
    costLimit,     \* capacity of weightedTxTree
    EVICTION_MEMORY_ENTRIES,
    TX_EXPIRING_SOON_THRESHOLD,
    Prioritisable, \* transactions that PrioritiseTransaction is tried with
    MaxDelta       \* bound on a fee delta

ASSUME MempoolAssumption ==
    /\ vtx \in [Block -> Seq(Tx)] /\ MinHeight \in [Tx -> Nat] /\ ExpiryHeight \in [Tx -> Nat]
    /\ Anchor \in [Tx -> Block \cup {NoBlock}] /\ BranchId \in [Tx -> {0, 1}]
    /\ Cost \in [Tx -> Nat \ {0}] /\ costLimit \in Nat /\ EVICTION_MEMORY_ENTRIES \in Nat \ {0}
    /\ NonStandard \subseteq Tx /\ Prioritisable \subseteq Tx

VARIABLES
    tip,         \* chainActive.Tip()
    coinsAt,     \* the best block of pcoinsTip
    mp,          \* the pool
    mapDeltas,   \* fee deltas by transaction
    evicted,     \* recentlyEvicted, oldest first
    pc,          \* "idle", or where the step is
    target,      \* the block the step works towards
    disconnected,\* fBlocksDisconnected
    toResurrect, \* transactions of the disconnected block that are still to come
    vHashUpdate, \* those that are back in the pool
    cutOff       \* an entry was evicted, or not let in, before its children in the
                 \* pool were linked to it

vars == <<tip, coinsAt, mp, mapDeltas, evicted, pc, target, disconnected, toResurrect, vHashUpdate,
          cutOff>>

Idle == pc = "idle"

Confirmed(b) == UNION {ToSet(vtx[a]) : a \in Ancestors[b]}

\* The coins of a chain: what exists on it and is not spent on it.
Unspent(o, b) ==
    /\ Creator[o] = NoTx \/ Creator[o] \in Confirmed(b)
    /\ \A t \in Confirmed(b) : o \notin Inputs[t]

\* The blocks are those that ConnectBlock accepts: every input of a transaction is
\* a coin of the chain below or an output of an earlier transaction of the block,
\* no two of them spend the same, and none is on the chain already (BIP 30).
ASSUME BlocksAssumption ==
    /\ vtx[Genesis] = <<>>
    /\ \A b \in Block \ {Genesis} :
          /\ \A i, j \in 1..Len(vtx[b]) : i < j =>
                vtx[b][i] # vtx[b][j] /\ Inputs[vtx[b][i]] \cap Inputs[vtx[b][j]] = {}
          /\ \A i \in 1..Len(vtx[b]) :
                /\ vtx[b][i] \notin Confirmed(pprev[b])
                /\ \A o \in Inputs[vtx[b][i]] :
                      \/ Unspent(o, pprev[b])
                      \/ \E j \in 1..(i - 1) : Creator[o] = vtx[b][j]

BranchAt(h) == IF h >= UpgradeHeight THEN 1 ELSE 0

TotalCost == MapThenSumSet(LAMBDA t : Cost[t], mp.weighted)

Init ==
    /\ tip = Genesis /\ coinsAt = Genesis
    /\ mp = EmptyPool /\ mapDeltas = [t \in Tx |-> 0] /\ evicted = <<>>
    /\ pc = "idle" /\ target = Genesis /\ disconnected = FALSE
    /\ toResurrect = <<>> /\ vHashUpdate = <<>> /\ cutOff = FALSE

-----------------------------------------------------------------------------
(* AcceptToMemoryPool.                                                      *)

\* A mutant of Available: an output of the pool is taken although another
\* transaction of the pool spends it.
AvailableTwice(o) ==
    Creator[o] \in mp.tx \/ Unspent(o, coinsAt)

\* Input o can be spent: it is not spent in the pool, and its output is in the
\* coins of the chain or of the pool.
Available(o) ==
    mp.nextTx[o] = NoTx /\ (Creator[o] \in mp.tx \/ Unspent(o, coinsAt))

\* The checks of AcceptToMemoryPoolWorker.  Rules of consensus and relay that do
\* not depend on chain or pool hold of every transaction outside NonStandard.
Acceptable(t, nAbsurdFee) ==
    LET next == nHeight[tip] + 1
    IN  /\ \A i \in 1..Len(evicted) : evicted[i] # t
        /\ t \notin NonStandard
        /\ next + TX_EXPIRING_SOON_THRESHOLD <= ExpiryHeight[t]
        /\ t \notin mp.tx
        /\ t \notin Confirmed(coinsAt)
        /\ \A o \in Inputs[t] : Available(o)
        /\ Anchor[t] = NoBlock \/ Anchor[t] \in Ancestors[coinsAt]
        /\ nHeight[coinsAt] + 1 >= MinHeight[t]
        /\ nAbsurdFee = 0 \/ Fee[t] <= nAbsurdFee
        /\ WithinLimits(mp, t)
        /\ BranchId[t] = BranchAt(next)

\* A transaction from a peer, with no limit on its fee, or from the wallet or an RPC,
\* which may have one.
AcceptToMemoryPool(t) ==
    /\ Idle /\ Acceptable(t, 0)
    /\ mp' = addUnchecked(mp, t, mapDeltas[t])
    /\ pc' = "limit"
    /\ UNCHANGED <<tip, coinsAt, mapDeltas, evicted, target, disconnected, toResurrect, vHashUpdate,
                   cutOff>>

\* RecentlyEvictedList::add.
Remembered(t) ==
    Append(IF Len(evicted) = EVICTION_MEMORY_ENTRIES THEN Tail(evicted) ELSE evicted, t)

\* Children of t in the pool that are not linked to it.
Unlinked(t) == SpendersOf(mp, t) \ mp.children[t]

Over == TotalCost > costLimit

\* EnsureSizeLimit: maybeDropRandom picks any transaction, in the loop until the
\* rest fits; its linked descendants go with it.
EvictRandom(t) ==
    /\ pc \in {"limit", "limit_resurrected"} /\ Over /\ t \in mp.weighted
    /\ evicted' = Remembered(t)
    /\ mp' = RemoveTx([mp EXCEPT !.weighted = @ \ {t}], t)
    /\ cutOff' = (cutOff \/ \E d \in Recursive(mp, t) : Unlinked(d) # {})
    /\ UNCHANGED <<tip, coinsAt, mapDeltas, pc, target, disconnected, toResurrect, vHashUpdate>>

WithinLimit ==
    /\ pc \in {"limit", "limit_resurrected"} /\ ~Over
    /\ \/ /\ pc = "limit" /\ pc' = "idle"
          /\ UNCHANGED <<toResurrect, vHashUpdate>>
       \/ /\ pc = "limit_resurrected" /\ pc' = "resurrect"
          /\ toResurrect' = Tail(toResurrect)
          /\ vHashUpdate' = IF Head(toResurrect) \in mp.tx
                            THEN Append(vHashUpdate, Head(toResurrect)) ELSE vHashUpdate
    /\ UNCHANGED <<tip, coinsAt, mp, mapDeltas, evicted, target, disconnected, cutOff>>

\* pruneList, once the time of the oldest entry has passed.
ForgetEvicted ==
    /\ Idle /\ evicted # <<>>
    /\ evicted' = Tail(evicted)
    /\ UNCHANGED <<tip, coinsAt, mp, mapDeltas, pc, target, disconnected, toResurrect, vHashUpdate,
                   cutOff>>

\* PrioritiseTransaction adds to a delta that stays until the transaction is mined.
PrioritiseTransaction(t) ==
    /\ Idle /\ mapDeltas[t] < MaxDelta
    /\ mapDeltas' = [mapDeltas EXCEPT ![t] = @ + 1]
    /\ mp' = IF t \in mp.tx THEN Prioritised(mp, t, 1) ELSE mp
    /\ UNCHANGED <<tip, coinsAt, evicted, pc, target, disconnected, toResurrect, vHashUpdate, cutOff>>

-----------------------------------------------------------------------------
(* A step of ActivateBestChain towards a block with more work, or           *)
(* InvalidateBlock, which goes back to a block of the chain.                *)

StartStep(b) ==
    /\ Idle /\ b # tip
    /\ b \in Ancestors[tip] \/ nChainWork[b] > nChainWork[tip]
    /\ target' = b /\ pc' = "step"
    /\ UNCHANGED <<tip, coinsAt, mp, mapDeltas, evicted, disconnected, toResurrect, vHashUpdate, cutOff>>

\* DisconnectTip, up to the loop over the block: the coins are those of the
\* parent, the tip is still the block.
DisconnectTip ==
    /\ pc = "step" /\ tip \notin Ancestors[target]
    /\ coinsAt' = pprev[tip]
    /\ toResurrect' = vtx[tip] /\ vHashUpdate' = <<>>
    /\ pc' = "resurrect"
    /\ UNCHANGED <<tip, mp, mapDeltas, evicted, target, disconnected, cutOff>>

\* The `true' that DisconnectTip passes for nAbsurdFee, as a CAmount.
ResurrectAbsurdFee == 1

\* One transaction of the disconnected block: accepted, or removed with whatever
\* spends it.
Resurrect ==
    LET t == Head(toResurrect)
    IN  /\ pc = "resurrect" /\ toResurrect # <<>>
        /\ \/ /\ Acceptable(t, ResurrectAbsurdFee)
              /\ mp' = addUnchecked(mp, t, mapDeltas[t])
              /\ pc' = "limit_resurrected"
              /\ UNCHANGED toResurrect
           \/ /\ ~Acceptable(t, ResurrectAbsurdFee)
              /\ mp' = RemoveTx(mp, t)
              /\ toResurrect' = Tail(toResurrect)
              /\ UNCHANGED pc
        /\ UNCHANGED <<tip, coinsAt, mapDeltas, evicted, target, disconnected, vHashUpdate, cutOff>>

\* A mutant of AnchoredIn: the anchors are left alone.
AnchoredInNone(b) == {}

\* removeWithAnchor, for the note tree of the disconnected block.
AnchoredIn(b) == {t \in mp.tx : Anchor[t] = b}

\* The rest of DisconnectTip.
Disconnected ==
    /\ pc = "resurrect" /\ toResurrect = <<>>
    /\ mp' = RemoveAll(UpdateTransactionsFromBlock(mp, vHashUpdate), AnchoredIn(tip))
    /\ tip' = pprev[tip] /\ disconnected' = TRUE
    /\ vHashUpdate' = <<>> /\ pc' = "step"
    /\ UNCHANGED <<coinsAt, mapDeltas, evicted, target, toResurrect, cutOff>>

Expired(pool, h) == {t \in pool.tx : h > ExpiryHeight[t]}

\* The block of target's branch above the tip.
NextBlock == CHOOSE b \in Ancestors[target] : pprev[b] = tip

\* ConnectTip: removeForBlock and removeExpired.
ConnectTip ==
    /\ pc = "step" /\ tip \in Ancestors[target] /\ tip # target
    /\ LET b == NextBlock
           pool == RemoveForBlock(mp, vtx[b])
       IN  /\ tip' = b /\ coinsAt' = b
           /\ mp' = RemoveAll(pool, Expired(pool, nHeight[b]))
           /\ mapDeltas' = [t \in Tx |-> IF t \in ToSet(vtx[b]) THEN 0 ELSE mapDeltas[t]]
    /\ UNCHANGED <<evicted, pc, target, disconnected, toResurrect, vHashUpdate, cutOff>>

\* removeForReorg, and removeWithoutBranchId.
Immature(pool) == {t \in pool.tx : nHeight[tip] + 1 < MinHeight[t]}

OtherBranch(pool) == {t \in pool.tx : BranchId[t] # BranchAt(nHeight[tip] + 1)}

\* The end of the step: at the target, or below it when a block on the way is
\* invalid or the tip has more work than the step started with.
EndStep ==
    /\ pc = "step" /\ tip \in Ancestors[target]
    /\ LET pool == IF disconnected THEN RemoveAll(mp, Immature(mp)) ELSE mp
       IN  mp' = RemoveAll(pool, OtherBranch(pool))
    /\ pc' = "idle" /\ disconnected' = FALSE /\ target' = tip
    /\ UNCHANGED <<tip, coinsAt, mapDeltas, evicted, toResurrect, vHashUpdate, cutOff>>

Next ==
    \/ \E t \in Tx : AcceptToMemoryPool(t) \/ EvictRandom(t)
    \/ \E t \in Prioritisable : PrioritiseTransaction(t)
    \/ WithinLimit \/ ForgetEvicted
    \/ \E b \in Block : StartStep(b)
    \/ DisconnectTip \/ Resurrect \/ Disconnected \/ ConnectTip \/ EndStep

Spec == Init /\ [][Next]_vars

-----------------------------------------------------------------------------
(* Properties.                                                              *)

\* What CTxMemPool::check asserts first: every input of an entry is a coin of the
\* active chain or an output of another entry, and no two entries spend the same.
InputsAvailable ==
    Idle => \A t \in mp.tx :
        /\ \A o \in Inputs[t] : Creator[o] \in mp.tx \/ Unspent(o, tip)
        /\ \A u \in mp.tx \ {t} : Inputs[t] \cap Inputs[u] = {}

\* The same, as long as no eviction has fallen between the return of a
\* transaction and UpdateTransactionsFromBlock: through reorganisations,
\* rejected and conflicting transactions, evictions and expiry the pool has no
\* entry without its inputs, nor one that the chain has spent from.
InputsAvailableUnlessCut == ~cutOff => InputsAvailable

\* Links and index agree with the transactions, whatever order entries came,
\* went and came back in, parents after children included.
LinksExact ==
    Idle /\ ~cutOff => \A t \in mp.tx :
        /\ mp.parents[t] = TrueParents(mp, t) /\ mp.children[t] = TrueChildren(mp, t)
        /\ \A o \in Inputs[t] : mp.nextTx[o] = t

\* The totals that mining and eviction order transactions by count every
\* descendant once; those of a dirty entry are its own.
DescendantTotals ==
    Idle /\ ~cutOff => \A t \in mp.tx :
        IF IsDirty(mp, t)
        THEN mp.fees[t] = ModifiedFee(mp, t)
        ELSE /\ mp.count[t] = Cardinality(TrueDescendants(mp, t))
             /\ mp.fees[t] = FeesOf(mp, TrueDescendants(mp, t))

\* Every entry can go into the next block as far as anchors, maturity, lock time
\* and consensus branch are concerned, though a transaction that comes back is
\* checked against the height of the block being disconnected.
NextBlockValid ==
    Idle => \A t \in mp.tx :
        /\ Anchor[t] = NoBlock \/ Anchor[t] \in Ancestors[tip]
        /\ MinHeight[t] <= nHeight[tip] + 1
        /\ BranchId[t] = BranchAt(nHeight[tip] + 1)

=============================================================================
