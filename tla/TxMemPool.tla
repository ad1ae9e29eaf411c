----------------------------- MODULE TxMemPool ------------------------------
(***************************************************************************)
(* The data structure of the memory pool (CTxMemPool, src/txmempool.cpp),   *)
(* one operator per function: its entries, the links between parents and    *)
(* children, what each entry counts for its descendants, the index of spent *)
(* outputs and the set that transactions are evicted from                   *)
(* (src/mempool_limit.cpp).                                                 *)
(*                                                                          *)
(* A nullifier is handled like an output that no transaction of the model   *)
(* creates.  Of the three descendant totals of an entry the number and the  *)
(* fees are kept; sizes are added and taken away at the same places.        *)
(***************************************************************************)
EXTENDS Integers, FiniteSetsExt, SequencesExt

CONSTANTS
    Tx, NoTx,
    OutPoint,      \* transparent outputs and nullifiers
    Creator,       \* [OutPoint -> Tx \cup {NoTx}]: NoTx for one that is long confirmed
    Inputs,        \* [Tx -> SUBSET OutPoint]
    Fee,           \* [Tx -> Nat]
    maxDescendantsToVisit,  \* 100 in UpdateTransactionsFromBlock
    limitAncestorCount, limitDescendantCount

ASSUME PoolAssumption ==
    /\ IsFiniteSet(Tx) /\ NoTx \notin Tx
    /\ Creator \in [OutPoint -> Tx \cup {NoTx}] /\ Inputs \in [Tx -> SUBSET OutPoint]
    /\ Fee \in [Tx -> Nat] /\ maxDescendantsToVisit \in Nat
    /\ limitAncestorCount \in Nat /\ limitDescendantCount \in Nat

\* A transaction names what it spends by the hash of an earlier one, so there is no
\* circle of spends.
ASSUME OrderAssumption ==
    \A T \in SUBSET Tx : T # {} => \E t \in T : \A o \in Inputs[t] : Creator[o] \notin T

\* mapTx, mapLinks, nCountWithDescendants, nModFeesWithDescendants, the entries'
\* own fee deltas, mapNextTx and the contents of weightedTxTree.
EmptyPool ==
    [tx |-> {}, parents |-> [t \in Tx |-> {}], children |-> [t \in Tx |-> {}],
     count |-> [t \in Tx |-> 0], fees |-> [t \in Tx |-> 0], delta |-> [t \in Tx |-> 0],
     nextTx |-> [o \in OutPoint |-> NoTx], weighted |-> {}]

ModifiedFee(mp, t) == Fee[t] + mp.delta[t]

\* What the entries of S pay together.
FeesOf(mp, S) == MapThenSumSet(LAMBDA t : ModifiedFee(mp, t), S)

\* An entry whose descendants were too many to add up: SetDirty.
IsDirty(mp, t) == mp.count[t] = 0

\* Everything that is reached from S over the links.
Reached(links, S) ==
    LET step[n \in 0..Cardinality(Tx)] ==
          IF n = 0 THEN S ELSE step[n - 1] \cup UNION {links[t] : t \in step[n - 1]}
    IN  step[Cardinality(Tx)]

\* CalculateMemPoolAncestors of an entry, over mapLinks, and CalculateDescendants.
LinkedAncestors(mp, t) == Reached(mp.parents, mp.parents[t])
CalculateDescendants(mp, t) == Reached(mp.children, {t})

\* The transactions that spend outputs of t, by mapNextTx.
SpendersOf(mp, t) == {mp.nextTx[o] : o \in {p \in OutPoint : Creator[p] = t}} \ {NoTx}

PoolParents(mp, t) == {Creator[o] : o \in Inputs[t]} \cap mp.tx

\* CalculateMemPoolAncestors of a transaction that is not in the pool yet.
SearchedAncestors(mp, t) == Reached(mp.parents, PoolParents(mp, t))

WithinLimits(mp, t) ==
    /\ Cardinality(SearchedAncestors(mp, t)) + 1 <= limitAncestorCount
    /\ \A a \in SearchedAncestors(mp, t) : mp.count[a] + 1 <= limitDescendantCount

\* update_descendant_state: a dirty entry stays as it is.
Counted(mp, A, n, fee) ==
    [mp EXCEPT !.count = [t \in Tx |-> IF t \in A /\ ~IsDirty(mp, t) THEN @[t] + n ELSE @[t]],
               !.fees = [t \in Tx |-> IF t \in A /\ ~IsDirty(mp, t) THEN @[t] + fee ELSE @[t]]]

\* addUnchecked: the new entry is linked to its parents and counted for its
\* ancestors, and taken to have no children.
addUnchecked(mp, t, delta) ==
    LET added ==
          [mp EXCEPT !.tx = @ \cup {t}, !.weighted = @ \cup {t},
                     !.delta[t] = delta, !.count[t] = 1, !.fees[t] = Fee[t] + delta,
                     !.parents[t] = PoolParents(mp, t),
                     !.children = [p \in Tx |-> IF p \in PoolParents(mp, t) THEN @[p] \cup {t}
                                                                            ELSE @[p]],
                     !.nextTx = [o \in OutPoint |-> IF o \in Inputs[t] THEN t ELSE @[o]]]
    IN  Counted(added, SearchedAncestors(mp, t), 1, Fee[t] + delta)

\* A mutant of Uncounted: only the parents hear of the removal.
UncountedParents(mp, S) ==
    [mp EXCEPT !.count = [t \in Tx |-> IF IsDirty(mp, t) THEN @[t]
                                       ELSE @[t] - Cardinality({s \in S : t \in mp.parents[s]})],
               !.fees = [t \in Tx |-> IF IsDirty(mp, t) THEN @[t]
                                      ELSE @[t] - FeesOf(mp, {s \in S : t \in mp.parents[s]})]]

\* The first loop of UpdateForRemoveFromMempool: every removed entry is taken off
\* the totals of the ancestors that are linked to it.
Uncounted(mp, S) ==
    [mp EXCEPT !.count = [t \in Tx |-> IF IsDirty(mp, t) THEN @[t]
                                       ELSE @[t] - Cardinality({s \in S : t \in LinkedAncestors(mp, s)})],
               !.fees = [t \in Tx |-> IF IsDirty(mp, t) THEN @[t]
                                      ELSE @[t] - FeesOf(mp, {s \in S : t \in LinkedAncestors(mp, s)})]]

\* RemoveStaged, and the loop over weightedTxTree at the end of remove.  The
\* fields of a removed entry are blanked, so that equal pools are equal states.
RemoveStaged(mp, S) ==
    LET left == Uncounted(mp, S)
    IN  [left EXCEPT
           !.tx = @ \ S, !.weighted = @ \ S,
           !.parents = [t \in Tx |-> IF t \in S THEN {} ELSE @[t] \ S],
           !.children = [t \in Tx |-> IF t \in S THEN {} ELSE @[t] \ S],
           !.count = [t \in Tx |-> IF t \in S THEN 0 ELSE @[t]],
           !.fees = [t \in Tx |-> IF t \in S THEN 0 ELSE @[t]],
           !.delta = [t \in Tx |-> IF t \in S THEN 0 ELSE @[t]],
           !.nextTx = [o \in OutPoint |-> IF \E s \in S : o \in Inputs[s] THEN NoTx ELSE @[o]]]

\* remove(..., false).
RemoveAlone(mp, t) == RemoveStaged(mp, {t} \cap mp.tx)

\* A mutant of Recursive: when t is not in the pool nothing is removed.
RecursiveSelf(mp, t) == IF t \in mp.tx THEN CalculateDescendants(mp, t) ELSE {}

\* The entries that remove(..., true) takes: t and its linked descendants, or
\* those of its spenders when t itself is not in the pool.
Recursive(mp, t) ==
    IF t \in mp.tx THEN CalculateDescendants(mp, t)
                   ELSE UNION {CalculateDescendants(mp, c) : c \in SpendersOf(mp, t)}

RemoveTx(mp, t) == RemoveStaged(mp, Recursive(mp, t))

\* remove for each of a set in turn: the sets of entries that go are united.
RemoveAll(mp, S) == RemoveStaged(mp, UNION {Recursive(mp, t) : t \in S})

\* removeConflicts: what spends the inputs of t in its place.
Conflicts(mp, t) == {mp.nextTx[o] : o \in Inputs[t]} \ {NoTx, t}

\* removeForBlock, for one transaction of the block.
RemoveMined(mp, t) ==
    LET mined == RemoveAlone(mp, t)
    IN  RemoveAll(mined, Conflicts(mined, t))

\* removeForBlock.
RemoveForBlock(mp, txs) ==
    LET removed[i \in 0..Len(txs)] ==
          IF i = 0 THEN mp ELSE RemoveMined(removed[i - 1], txs[i])
    IN  removed[Len(txs)]
-----------------------------------------------------------------------------
(* UpdateTransactionsFromBlock.                                             *)

\* What UpdateForDescendants adds to t: its descendants that did not come back
\* with the block, which addUnchecked has already counted.
AddedDescendants(mp, t, block) == Reached(mp.children, mp.children[t]) \ block

TooMany(mp, t, block) ==
    \/ \E d \in Reached(mp.children, mp.children[t]) : IsDirty(mp, d)
    \/ Cardinality(AddedDescendants(mp, t, block) \ mp.children[t]) > maxDescendantsToVisit

\* One round of the loop, for an entry t of the transactions that came back:
\* link the children it finds, then add up its descendants, or give up.
UpdateOne(mp, t, block) ==
    LET new == SpendersOf(mp, t) \ block
        linked == [mp EXCEPT !.children[t] = @ \cup new,
                             !.parents = [c \in Tx |-> IF c \in new THEN @[c] \cup {t} ELSE @[c]]]
        more == AddedDescendants(linked, t, block)
    IN  IF t \notin mp.tx
        THEN mp
        ELSE IF TooMany(linked, t, block)
        THEN [linked EXCEPT !.count[t] = 0, !.fees[t] = ModifiedFee(mp, t)]
        ELSE Counted(linked, {t}, Cardinality(more), FeesOf(linked, more))

\* The loop runs from the last transaction to the first.
UpdateTransactionsFromBlock(mp, hashes) ==
    LET updated[i \in 0..Len(hashes)] ==
          IF i = 0 THEN mp
          ELSE UpdateOne(updated[i - 1], hashes[Len(hashes) + 1 - i], ToSet(hashes))
    IN  updated[Len(hashes)]

\* PrioritiseTransaction for an entry of the pool.
Prioritised(mp, t, n) ==
    Counted([mp EXCEPT !.delta[t] = @ + n, !.fees[t] = @ + n], LinkedAncestors(mp, t), 0, n)

-----------------------------------------------------------------------------
(* What CTxMemPool::check asserts of the structure.                         *)

TrueParents(mp, t) == PoolParents(mp, t)
TrueChildren(mp, t) == {c \in mp.tx : t \in TrueParents(mp, c)}
TrueDescendants(mp, t) == Reached([u \in Tx |-> TrueChildren(mp, u)], {t})
=============================================================================
