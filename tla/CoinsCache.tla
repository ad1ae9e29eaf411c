----------------------------- MODULE CoinsCache -----------------------------
(***************************************************************************)
(* CCoinsViewCache (src/coins.cpp) twice, over CCoinsViewDB (src/txdb.cpp): *)
(* pcoinsTip, which lives as long as the process, and the short-lived view  *)
(* of one ConnectBlock or DisconnectBlock on top of it.                     *)
(*                                                                          *)
(* An entry of a cache may be missing, DIRTY and, for coins, FRESH ("the    *)
(* parent view does not have this entry, or it is pruned"); a FRESH entry   *)
(* that ends up pruned is dropped without telling the parent, so a wrong    *)
(* FRESH flag brings spent coins back.  Best block and best anchor are read *)
(* from the parent on first use, and a flush passes on whatever is there.   *)
(*                                                                          *)
(* All of it runs under cs_main.  A CCoinsModifier is one step: while it    *)
(* lives nothing else may touch the cache (hasModifier).  The Sprout and    *)
(* the Sapling pool are instances of the same templates; one is modelled.   *)
(* Failing database writes are left out.                                    *)
(***************************************************************************)
EXTENDS Naturals

CONSTANTS
    Txid,       \* transaction ids
    CCoins,     \* what a CCoins object can hold
    Pruned,     \* a CCoins with no unspent output; all of these are equal
    Nullifier,
    Root,       \* roots of the commitment tree
    EmptyRoot,  \* SproutMerkleTree::empty_root()
    Block,
    Genesis,
    NullHash    \* uint256()

ASSUME CoinsAssumption ==
    /\ Pruned \in CCoins
    /\ EmptyRoot \in Root
    /\ Genesis \in Block
    /\ NullHash \notin Root
    /\ NullHash \notin Block

VARIABLES
    dbCoins, dbNullifiers, dbAnchors, dbBestAnchor, dbBestBlock,            \* CCoinsViewDB
    tipCoins, tipNullifiers, tipAnchors, tipBestAnchor, tipBestBlock,       \* pcoinsTip
    viewCoins, viewNullifiers, viewAnchors, viewBestAnchor, viewBestBlock,  \* the block's view
    phase,   \* "closed": no block's view; "open": being written; "done": ready for Flush
    newTx    \* transactions of the block being connected that are not added yet

dbVars    == <<dbCoins, dbNullifiers, dbAnchors, dbBestAnchor, dbBestBlock>>
tipVars   == <<tipCoins, tipNullifiers, tipAnchors, tipBestAnchor, tipBestBlock>>
viewVars  == <<viewCoins, viewNullifiers, viewAnchors, viewBestAnchor, viewBestBlock>>
coinsVars == <<dbVars, tipVars, viewVars, phase, newTx>>

-----------------------------------------------------------------------------
(* Cache entries: CCoinsCacheEntry, and CNullifiersCacheEntry and           *)
(* CAnchorsSproutCacheEntry without the tree, which the root determines.    *)

CoinsEntry == [cached : BOOLEAN, coins : CCoins, dirty : BOOLEAN, fresh : BOOLEAN]
MarkEntry  == [cached : BOOLEAN, entered : BOOLEAN, dirty : BOOLEAN]

NoCoins == [cached |-> FALSE, coins |-> Pruned, dirty |-> FALSE, fresh |-> FALSE]
NoMark  == [cached |-> FALSE, entered |-> FALSE, dirty |-> FALSE]

\* What a lookup through a cache finds.
CoinsThrough(cache, base) ==
    [x \in Txid |-> IF cache[x].cached THEN cache[x].coins ELSE base[x]]
MarksThrough(cache, base) ==
    [k \in DOMAIN base |-> IF cache[k].cached THEN cache[k].entered ELSE base[k]]
HashThrough(hash, base) == IF hash = NullHash THEN base ELSE hash

TipCoins       == CoinsThrough(tipCoins, dbCoins)
TipNullifiers  == MarksThrough(tipNullifiers, dbNullifiers)
TipAnchors     == MarksThrough(tipAnchors, dbAnchors)
TipBestAnchor  == HashThrough(tipBestAnchor, dbBestAnchor)
TipBestBlock   == HashThrough(tipBestBlock, dbBestBlock)
ViewCoins      == CoinsThrough(viewCoins, TipCoins)
ViewNullifiers == MarksThrough(viewNullifiers, TipNullifiers)
ViewAnchors    == MarksThrough(viewAnchors, TipAnchors)
ViewBestAnchor == HashThrough(viewBestAnchor, TipBestAnchor)
ViewBestBlock  == HashThrough(viewBestBlock, TipBestBlock)

TypeOK ==
    /\ dbCoins \in [Txid -> CCoins]
    /\ dbNullifiers \in [Nullifier -> BOOLEAN]
    /\ dbAnchors \in [Root -> BOOLEAN]
    /\ dbBestAnchor \in Root
    /\ dbBestBlock \in Block
    /\ tipCoins \in [Txid -> CoinsEntry] /\ viewCoins \in [Txid -> CoinsEntry]
    /\ tipNullifiers \in [Nullifier -> MarkEntry] /\ viewNullifiers \in [Nullifier -> MarkEntry]
    /\ tipAnchors \in [Root -> MarkEntry] /\ viewAnchors \in [Root -> MarkEntry]
    /\ tipBestAnchor \in Root \cup {NullHash} /\ viewBestAnchor \in Root \cup {NullHash}
    /\ tipBestBlock \in Block \cup {NullHash} /\ viewBestBlock \in Block \cup {NullHash}
    /\ phase \in {"closed", "open", "done"}
    /\ newTx \in SUBSET Txid

\* The constructor of CCoinsViewCache, for the block's view.
EmptyView ==
    /\ viewCoins' = [x \in Txid |-> NoCoins]
    /\ viewNullifiers' = [n \in Nullifier |-> NoMark]
    /\ viewAnchors' = [rt \in Root |-> NoMark]
    /\ viewBestAnchor' = NullHash
    /\ viewBestBlock' = NullHash

\* InitBlockIndex has connected genesis, whose transactions are skipped, and
\* flushed; the database reads the empty tree whether it is stored or not.
Init ==
    /\ dbCoins = [x \in Txid |-> Pruned]
    /\ dbNullifiers = [n \in Nullifier |-> FALSE]
    /\ dbAnchors = [rt \in Root |-> rt = EmptyRoot]
    /\ dbBestAnchor = EmptyRoot
    /\ dbBestBlock = Genesis
    /\ tipCoins = [x \in Txid |-> NoCoins] /\ viewCoins = tipCoins
    /\ tipNullifiers = [n \in Nullifier |-> NoMark] /\ viewNullifiers = tipNullifiers
    /\ tipAnchors = [rt \in Root |-> NoMark] /\ viewAnchors = tipAnchors
    /\ tipBestAnchor = NullHash /\ viewBestAnchor = NullHash
    /\ tipBestBlock = Genesis /\ viewBestBlock = NullHash
    /\ phase = "closed"
    /\ newTx = {}

-----------------------------------------------------------------------------
(* Reading.  A read fills the caches on its way.                            *)

\* FetchCoins: the entry made from what the parent returned.
FetchedCoins(cache, x, found, c) ==
    IF cache[x].cached \/ ~found
    THEN cache
    ELSE [cache EXCEPT ![x] = [cached |-> TRUE, coins |-> c, dirty |-> FALSE,
                               fresh |-> c = Pruned]]

\* pcoinsTip after FetchCoins(x); the database has no pruned coins.
TipFetched(x) == FetchedCoins(tipCoins, x, dbCoins[x] # Pruned, dbCoins[x])

\* The same for a nullifier, where "not there" is cached too, and for an anchor,
\* where it is not.
FetchedMark(cache, k, found, entered) ==
    IF cache[k].cached \/ ~found
    THEN cache
    ELSE [cache EXCEPT ![k] = [cached |-> TRUE, entered |-> entered, dirty |-> FALSE]]

TipNullifierFetched(n) == FetchedMark(tipNullifiers, n, TRUE, dbNullifiers[n])
TipAnchorFetched(rt)   == FetchedMark(tipAnchors, rt, dbAnchors[rt], TRUE)

\* pcoinsTip->AccessCoins, by the mempool, the wallet or an RPC.
TipAccessCoins(x) ==
    /\ phase = "closed"
    /\ tipCoins' = TipFetched(x)
    /\ UNCHANGED <<dbVars, tipNullifiers, tipAnchors, tipBestAnchor, tipBestBlock, viewVars,
                   phase, newTx>>

\* pcoinsTip->HaveShieldedRequirements: the nullifier and the anchor of a spend.
TipGetShielded(n, rt) ==
    /\ phase = "closed"
    /\ tipNullifiers' = TipNullifierFetched(n)
    /\ tipAnchors' = TipAnchorFetched(rt)
    /\ UNCHANGED <<dbVars, tipCoins, tipBestAnchor, tipBestBlock, viewVars, phase, newTx>>

\* Uncache drops an entry with no flags, after a transaction was not accepted.
UncacheEntry(e) == IF e.dirty \/ e.fresh THEN e ELSE NoCoins

Uncache(x) ==
    /\ phase = "closed"
    /\ tipCoins' = [tipCoins EXCEPT ![x] = UncacheEntry(@)]
    /\ UNCHANGED <<dbVars, tipNullifiers, tipAnchors, tipBestAnchor, tipBestBlock, viewVars,
                   phase, newTx>>

\* view.AccessCoins: a miss goes to pcoinsTip, and fills its cache as well.
ViewAccessCoins(x) ==
    /\ phase = "open"
    /\ tipCoins' = IF viewCoins[x].cached THEN tipCoins ELSE TipFetched(x)
    /\ viewCoins' = FetchedCoins(viewCoins, x, tipCoins'[x].cached, tipCoins'[x].coins)
    /\ UNCHANGED <<dbVars, tipNullifiers, tipAnchors, tipBestAnchor, tipBestBlock,
                   viewNullifiers, viewAnchors, viewBestAnchor, viewBestBlock, phase, newTx>>

\* view.HaveShieldedRequirements.
ViewGetShielded(n, rt) ==
    /\ phase = "open"
    /\ tipNullifiers' = IF viewNullifiers[n].cached THEN tipNullifiers ELSE TipNullifierFetched(n)
    /\ viewNullifiers' = FetchedMark(viewNullifiers, n, TRUE, TipNullifiers[n])
    /\ tipAnchors' = IF viewAnchors[rt].cached THEN tipAnchors ELSE TipAnchorFetched(rt)
    /\ viewAnchors' = FetchedMark(viewAnchors, rt, TipAnchors[rt], TRUE)
    /\ UNCHANGED <<dbVars, tipCoins, tipBestAnchor, tipBestBlock, viewCoins, viewBestAnchor,
                   viewBestBlock, phase, newTx>>

-----------------------------------------------------------------------------
(* Writing to the block's view.                                             *)

\* A mutant of MayAdd: no BIP30 check.
MayAddAny(txs) == TipCoins \in [Txid -> CCoins] /\ txs \in SUBSET Txid

\* ConnectBlock's check that no transaction overwrites one with unspent outputs
\* (bad-txns-BIP30), made before anything is written.
MayAdd(txs) == \A x \in txs : TipCoins[x] = Pruned

\* CCoinsViewCache view(pcoinsTip), for a block that adds txs (none to disconnect).
Open(txs) ==
    /\ phase = "closed" /\ phase' = "open"
    /\ MayAdd(txs)
    /\ newTx' = txs
    /\ EmptyView
    /\ UNCHANGED <<dbVars, tipVars>>

\* The entry a CCoinsModifier leaves behind.
ModifiedEntry(fresh, c) ==
    IF fresh /\ c = Pruned
    THEN NoCoins
    ELSE [cached |-> TRUE, coins |-> c, dirty |-> TRUE, fresh |-> fresh]

\* ModifyCoins, with a modifier that leaves coins c.
ModifyCoins(x, c) ==
    /\ phase = "open"
    /\ tipCoins' = IF viewCoins[x].cached THEN tipCoins ELSE TipFetched(x)
    /\ LET fresh == IF viewCoins[x].cached THEN viewCoins[x].fresh ELSE TipCoins[x] = Pruned
       IN  viewCoins' = [viewCoins EXCEPT ![x] = ModifiedEntry(fresh, c)]
    /\ UNCHANGED <<dbVars, tipNullifiers, tipAnchors, tipBestAnchor, tipBestBlock,
                   viewNullifiers, viewAnchors, viewBestAnchor, viewBestBlock, phase, newTx>>

\* ModifyNewCoins(x)->FromTx, with c the coins of the new transaction: FRESH
\* without looking at the parent.
ModifyNewCoins(x, c) ==
    /\ phase = "open"
    /\ x \in newTx
    /\ newTx' = newTx \ {x}
    /\ viewCoins' = [viewCoins EXCEPT ![x] = ModifiedEntry(TRUE, c)]
    /\ UNCHANGED <<dbVars, tipVars, viewNullifiers, viewAnchors, viewBestAnchor, viewBestBlock,
                   phase>>

\* SetNullifiers, for one nullifier.
SetNullifier(n, spent) ==
    /\ phase = "open"
    /\ viewNullifiers' = [viewNullifiers EXCEPT ![n] = [cached |-> TRUE, entered |-> spent,
                                                        dirty |-> TRUE]]
    /\ UNCHANGED <<dbVars, tipVars, viewCoins, viewAnchors, viewBestAnchor, viewBestBlock,
                   phase, newTx>>

\* The view's best anchor after PushAnchor or PopAnchor: read from the parent,
\* then replaced if it changes.
NewBestAnchor(rt) == IF rt = ViewBestAnchor THEN ViewBestAnchor ELSE rt

\* PushAnchor(tree) with root rt, SetBestBlock(b).
FinishConnect(rt, b) ==
    /\ phase = "open" /\ phase' = "done"
    /\ tipBestAnchor' = TipBestAnchor
    /\ tipBestBlock' = TipBestBlock
    /\ viewAnchors' = IF rt = ViewBestAnchor
                      THEN viewAnchors
                      ELSE [viewAnchors EXCEPT ![rt] = [cached |-> TRUE, entered |-> TRUE,
                                                        dirty |-> TRUE]]
    /\ viewBestAnchor' = NewBestAnchor(rt)
    /\ viewBestBlock' = b
    /\ UNCHANGED <<dbVars, tipCoins, tipNullifiers, tipAnchors, viewCoins, viewNullifiers, newTx>>

\* PopAnchor(rt), which reads the tree of the anchor it removes (the empty tree is
\* the first of every chain, so it never is that anchor), and SetBestBlock(b).
FinishDisconnect(rt, b) ==
    LET old == ViewBestAnchor
    IN  /\ phase = "open" /\ phase' = "done"
        /\ rt # old => old # EmptyRoot
        /\ tipBestAnchor' = TipBestAnchor
        /\ tipBestBlock' = TipBestBlock
        /\ tipAnchors' = IF rt = old \/ viewAnchors[old].cached
                         THEN tipAnchors ELSE TipAnchorFetched(old)
        /\ viewAnchors' = IF rt = old
                          THEN viewAnchors
                          ELSE [viewAnchors EXCEPT ![old] = [cached |-> TRUE, entered |-> FALSE,
                                                             dirty |-> TRUE]]
        /\ viewBestAnchor' = NewBestAnchor(rt)
        /\ viewBestBlock' = b
        /\ UNCHANGED <<dbVars, tipCoins, tipNullifiers, viewCoins, viewNullifiers, newTx>>

-----------------------------------------------------------------------------
(* Flushing.                                                                *)

\* A mutant of BatchWrittenCoins: a pruned entry is dropped whatever the parent's
\* flags say.
BatchWrittenCoinsDropped(p, c) ==
    IF ~c.dirty THEN p
    ELSE IF c.coins = Pruned THEN NoCoins ELSE [c EXCEPT !.fresh = c.fresh /\ ~p.cached]

\* CCoinsViewCache::BatchWrite: the parent's entry p after the child's entry c.
BatchWrittenCoins(p, c) ==
    CASE ~c.dirty -> p
      [] c.dirty /\ ~p.cached -> IF c.fresh /\ c.coins = Pruned THEN p ELSE c
      [] c.dirty /\ p.cached ->
            IF p.fresh /\ c.coins = Pruned
            THEN NoCoins ELSE [p EXCEPT !.coins = c.coins, !.dirty = TRUE]

\* BatchWriteNullifiers and BatchWriteAnchors.
BatchWrittenMark(p, c) ==
    CASE ~c.dirty -> p
      [] c.dirty /\ ~p.cached -> c
      [] c.dirty /\ p.cached ->
            IF p.entered # c.entered THEN [p EXCEPT !.entered = c.entered, !.dirty = TRUE] ELSE p

\* view.Flush() at the end of ConnectTip or DisconnectTip.
Flush ==
    /\ phase = "done" /\ phase' = "closed"
    /\ tipCoins' = [x \in Txid |-> BatchWrittenCoins(tipCoins[x], viewCoins[x])]
    /\ tipNullifiers' = [n \in Nullifier |-> BatchWrittenMark(tipNullifiers[n], viewNullifiers[n])]
    /\ tipAnchors' = [rt \in Root |-> BatchWrittenMark(tipAnchors[rt], viewAnchors[rt])]
    /\ tipBestAnchor' = viewBestAnchor
    /\ tipBestBlock' = viewBestBlock
    /\ newTx' = {}
    /\ EmptyView
    /\ UNCHANGED dbVars

\* The view goes out of scope without a flush: the block failed, or it was only
\* tested (TestBlockValidity).
Discard ==
    /\ phase # "closed" /\ phase' = "closed"
    /\ newTx' = {}
    /\ EmptyView
    /\ UNCHANGED <<dbVars, tipVars>>

\* CCoinsViewDB::BatchWrite for one transaction: pruned coins are erased.
TipWritten(e, old) == IF e.dirty THEN e.coins ELSE old

\* pcoinsTip->Flush(): one batch; null hashes are not written, the empty root's
\* entry is not stored.
FlushTip ==
    /\ phase = "closed"
    /\ dbCoins' = [x \in Txid |-> TipWritten(tipCoins[x], dbCoins[x])]
    /\ dbNullifiers' = [n \in Nullifier |-> IF tipNullifiers[n].dirty
                                            THEN tipNullifiers[n].entered ELSE dbNullifiers[n]]
    /\ dbAnchors' = [rt \in Root |-> IF tipAnchors[rt].dirty /\ rt # EmptyRoot
                                     THEN tipAnchors[rt].entered ELSE dbAnchors[rt]]
    /\ dbBestAnchor' = TipBestAnchor
    /\ dbBestBlock' = TipBestBlock
    /\ tipCoins' = [x \in Txid |-> NoCoins]
    /\ tipNullifiers' = [n \in Nullifier |-> NoMark]
    /\ tipAnchors' = [rt \in Root |-> NoMark]
    /\ UNCHANGED <<tipBestAnchor, tipBestBlock, viewVars, phase, newTx>>

\* The process dies and starts again with an empty pcoinsTip.
Crash ==
    /\ phase' = "closed"
    /\ newTx' = {}
    /\ tipCoins' = [x \in Txid |-> NoCoins]
    /\ tipNullifiers' = [n \in Nullifier |-> NoMark]
    /\ tipAnchors' = [rt \in Root |-> NoMark]
    /\ tipBestAnchor' = NullHash
    /\ tipBestBlock' = NullHash
    /\ EmptyView
    /\ UNCHANGED dbVars

-----------------------------------------------------------------------------
Next ==
    \/ \E x \in Txid : TipAccessCoins(x) \/ Uncache(x) \/ ViewAccessCoins(x)
    \/ \E n \in Nullifier, rt \in Root : TipGetShielded(n, rt) \/ ViewGetShielded(n, rt)
    \/ \E txs \in SUBSET Txid : Open(txs)
    \/ \E x \in Txid, c \in CCoins : ModifyCoins(x, c) \/ ModifyNewCoins(x, c)
    \/ \E n \in Nullifier, spent \in BOOLEAN : SetNullifier(n, spent)
    \/ \E rt \in Root, b \in Block : FinishConnect(rt, b) \/ FinishDisconnect(rt, b)
    \/ Flush
    \/ Discard
    \/ FlushTip
    \/ Crash

Spec == Init /\ [][Next]_coinsVars

-----------------------------------------------------------------------------
(* Properties.                                                              *)

\* The flags of a cache mean what coins.h says of them, whatever was read, written,
\* flushed or dropped before: an entry without DIRTY equals the parent's, and a
\* FRESH one has nothing in the parent.
CoinsFlagsSound(cache, base) ==
    \A x \in Txid :
        /\ ~cache[x].cached => cache[x] = NoCoins
        /\ ~cache[x].dirty /\ cache[x].cached => cache[x].coins = base[x]
        /\ cache[x].fresh => base[x] = Pruned

MarkFlagsSound(cache, base) ==
    \A k \in DOMAIN base :
        /\ ~cache[k].cached => cache[k] = NoMark
        /\ ~cache[k].dirty /\ cache[k].cached => cache[k].entered = base[k]

\* At both levels, for coins, nullifiers and anchors.
FlagsSound ==
    /\ CoinsFlagsSound(tipCoins, dbCoins) /\ CoinsFlagsSound(viewCoins, TipCoins)
    /\ MarkFlagsSound(tipNullifiers, dbNullifiers)
    /\ MarkFlagsSound(viewNullifiers, TipNullifiers)
    /\ MarkFlagsSound(tipAnchors, dbAnchors)
    /\ MarkFlagsSound(viewAnchors, TipAnchors)

\* Where the view is in the life of a block: nothing is left of a closed one, one
\* that is ready to flush knows its hashes, and what is still to be added has
\* nothing in the parent.
PhaseConsistent ==
    /\ phase = "closed" =>
          /\ viewCoins = [x \in Txid |-> NoCoins]
          /\ viewNullifiers = [n \in Nullifier |-> NoMark]
          /\ viewAnchors = [rt \in Root |-> NoMark]
          /\ viewBestAnchor = NullHash
          /\ viewBestBlock = NullHash
    /\ phase = "done" => viewBestAnchor \in Root /\ viewBestBlock \in Block
    /\ \A x \in newTx : TipCoins[x] = Pruned
    /\ dbAnchors[EmptyRoot]
    /\ tipAnchors[EmptyRoot].cached => tipAnchors[EmptyRoot].entered
    /\ viewAnchors[EmptyRoot].cached => viewAnchors[EmptyRoot].entered

\* The inductive invariant of the proofs.
CoinsInv == TypeOK /\ FlagsSound /\ PhaseConsistent

\* The caches implement CoinsView: every lookup at every level finds what was
\* written last, a flush publishes all of a block or nothing, and a crash leaves
\* the state of the last flush.
Promise == INSTANCE CoinsView WITH
    db <- [coins |-> dbCoins, nullifiers |-> dbNullifiers, anchors |-> dbAnchors,
           bestAnchor |-> dbBestAnchor, bestBlock |-> dbBestBlock],
    tip <- [coins |-> TipCoins, nullifiers |-> TipNullifiers, anchors |-> TipAnchors,
            bestAnchor |-> TipBestAnchor, bestBlock |-> TipBestBlock],
    view <- [coins |-> ViewCoins, nullifiers |-> ViewNullifiers, anchors |-> ViewAnchors,
             bestAnchor |-> ViewBestAnchor, bestBlock |-> ViewBestBlock]

ImplementsCoinsView == Promise!Spec
=============================================================================
