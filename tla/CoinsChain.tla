----------------------------- MODULE CoinsChain -----------------------------
(***************************************************************************)
(* ConnectBlock and DisconnectBlock (src/main.cpp) on top of CoinsCache:    *)
(* what a block does to the coins, the undo data it leaves, and how the     *)
(* undo data takes it back.  Blocks are connected, disconnected, tested and *)
(* abandoned in any order the tree allows, with reads, flushes and crashes  *)
(* in between; chain selection itself is the subject of ChainState.         *)
(*                                                                          *)
(* CCoins keeps what the undo data must restore: the unspent outputs and    *)
(* the height.  Scripts, amounts and proofs are a failure that may happen   *)
(* at any point of ConnectBlock.                                            *)
(***************************************************************************)
EXTENDS CoinsCache, SequencesExt

CONSTANTS
    pprev,    \* CBlockIndex::pprev
    nHeight,  \* CBlockIndex::nHeight
    vtx,      \* CBlock::vtx: sequences of [txid, vin, nullifiers, vout]
    anchor,   \* root of the commitment tree after each block
    size      \* number of commitments in the tree with a given root

\* FromTx, Spend and Cleanup: coins without an unspent output are pruned.
MakeCoins(outs, height) ==
    IF outs = {} THEN Pruned ELSE [outs |-> outs, nHeight |-> height]

Transaction == [txid : Txid, vin : Seq([hash : Txid, n : Nat]), nullifiers : Seq(Nullifier),
                vout : SUBSET Nat]

ASSUME ChainAssumption ==
    /\ nHeight \in [Block -> Nat]
    /\ \A b \in Block \ {Genesis} : pprev[b] \in Block /\ nHeight[b] = nHeight[pprev[b]] + 1

\* CCoins objects have an unspent output and the height of a block above genesis, or
\* are pruned, and there is one for whatever is left of a transaction.
ASSUME TransactionAssumption ==
    /\ vtx \in [Block -> Seq(Transaction)]
    /\ Pruned = [outs |-> {}, nHeight |-> 0]
    /\ \A cc \in CCoins \ {Pruned} : /\ cc = [outs |-> cc.outs, nHeight |-> cc.nHeight]
                                     /\ cc.outs # {} /\ cc.nHeight \in Nat \ {0}
    /\ \A cc \in CCoins : \A outs \in SUBSET cc.outs : MakeCoins(outs, cc.nHeight) \in CCoins
    /\ \A b \in Block \ {Genesis} : \A i \in DOMAIN vtx[b] :
          MakeCoins(vtx[b][i].vout, nHeight[b]) \in CCoins

\* Commitments are only ever appended to the tree, and different trees have
\* different roots.
ASSUME AnchorAssumption ==
    /\ anchor \in [Block -> Root] /\ anchor[Genesis] = EmptyRoot
    /\ size \in [Root -> Nat]
    /\ \A b \in Block \ {Genesis} :
          anchor[b] = anchor[pprev[b]] \/ size[anchor[b]] > size[anchor[pprev[b]]]

VARIABLES
    job,     \* [kind, block, work]: the block being processed and what is left of it
    txundo,  \* undo data collected or used up by the job
    undo     \* CBlockUndo on disk, per block

jobVars == <<job, txundo, undo>>
vars    == <<coinsVars, jobVars>>

Idle == [kind |-> "none", block |-> Genesis, work |-> <<>>]
NoUndo == [written |-> FALSE, vprevout |-> <<>>, oldRoot |-> EmptyRoot]

ChainInit ==
    /\ Init
    /\ job = Idle
    /\ txundo = <<>>
    /\ undo = [b \in Block |-> NoUndo]

\* What UpdateCoins does for one transaction, in order.
TxSteps(tx) ==
    [i \in DOMAIN tx.vin |-> [step |-> "spend", txid |-> tx.vin[i].hash, n |-> tx.vin[i].n]]
    \o [i \in DOMAIN tx.nullifiers |-> [step |-> "nullifier", nf |-> tx.nullifiers[i]]]
    \o <<[step |-> "add", txid |-> tx.txid, vout |-> tx.vout]>>

BlockSteps(b) == FlattenSeq([i \in DOMAIN vtx[b] |-> TxSteps(vtx[b][i])])

Txids(b) == {vtx[b][i].txid : i \in DOMAIN vtx[b]}

Doing(kind, step) ==
    /\ phase = "open"
    /\ job.kind = kind
    /\ job.work # <<>>
    /\ Head(job.work).step = step
    /\ job' = [job EXCEPT !.work = Tail(@)]

-----------------------------------------------------------------------------
(* ConnectBlock.                                                            *)

\* The BIP30 check that starts ConnectBlock is MayAdd, about the transactions that
\* Open receives; what its lookups leave in the caches is a Background read.
StartConnect(b) ==
    /\ b # Genesis /\ pprev[b] = TipBestBlock
    /\ Open(Txids(b))
    /\ job' = [kind |-> "connect", block |-> b, work |-> BlockSteps(b)]
    /\ txundo' = <<>>
    /\ UNCHANGED undo

\* A mutant of UndoHeight: undo data always carries the height.
UndoHeightAlways(old, new) == IF new = old THEN 0 ELSE old.nHeight

\* The height is stored with the last output only.
UndoHeight(old, new) == IF new = Pruned THEN old.nHeight ELSE 0

\* UpdateCoins spends an input; HaveInputs has seen that it is unspent.
ConnectSpend ==
    /\ Doing("connect", "spend")
    /\ LET op  == Head(job.work)
           old == ViewCoins[op.txid]
           new == MakeCoins(old.outs \ {op.n}, old.nHeight)
       IN  /\ op.n \in old.outs
           /\ ModifyCoins(op.txid, new)
           /\ txundo' = Append(txundo, UndoHeight(old, new))
    /\ UNCHANGED undo

\* A mutant of MaySpend that accepts a spent nullifier.
MaySpendAny(n) == ViewNullifiers[n] \in BOOLEAN

\* HaveShieldedRequirements.
MaySpend(n) == ~ViewNullifiers[n]

ConnectNullifier ==
    /\ Doing("connect", "nullifier")
    /\ MaySpend(Head(job.work).nf)
    /\ SetNullifier(Head(job.work).nf, TRUE)
    /\ UNCHANGED <<txundo, undo>>

ConnectAdd ==
    /\ Doing("connect", "add")
    /\ LET op == Head(job.work)
       IN  ModifyNewCoins(op.txid, MakeCoins(op.vout, nHeight[job.block]))
    /\ UNCHANGED <<txundo, undo>>

\* Undo data is written once per block, then the view gets its new best block.
ConnectDone ==
    /\ job.kind = "connect" /\ job.work = <<>>
    /\ FinishConnect(anchor[job.block], job.block)
    /\ undo' = [undo EXCEPT ![job.block] =
                   IF @.written THEN @
                   ELSE [written |-> TRUE, vprevout |-> txundo, oldRoot |-> ViewBestAnchor]]
    /\ UNCHANGED <<job, txundo>>

\* ConnectBlock returns false, or it was called by TestBlockValidity.
ConnectAbandoned ==
    /\ job.kind = "connect" /\ phase = "open"
    /\ Discard
    /\ job' = Idle
    /\ txundo' = <<>>
    /\ UNCHANGED undo

-----------------------------------------------------------------------------
(* DisconnectBlock.                                                         *)

\* Transactions backwards, and for each: its outputs, its nullifiers, its inputs
\* backwards.
UndoSteps(b) == Reverse(BlockSteps(b))

StartDisconnect ==
    /\ TipBestBlock # Genesis
    /\ undo[TipBestBlock].written
    /\ Open({})
    /\ job' = [kind |-> "disconnect", block |-> TipBestBlock, work |-> UndoSteps(TipBestBlock)]
    /\ txundo' = undo[TipBestBlock].vprevout
    /\ UNCHANGED undo

DisconnectAdd ==
    /\ Doing("disconnect", "add")
    /\ ModifyCoins(Head(job.work).txid, Pruned)
    /\ UNCHANGED <<txundo, undo>>

DisconnectNullifier ==
    /\ Doing("disconnect", "nullifier")
    /\ SetNullifier(Head(job.work).nf, FALSE)
    /\ UNCHANGED <<txundo, undo>>

\* ApplyTxInUndo.
DisconnectSpend ==
    /\ Doing("disconnect", "spend")
    /\ LET op     == Head(job.work)
           height == Last(txundo)
           old    == ViewCoins[op.txid]
       IN  ModifyCoins(op.txid, IF height # 0 THEN MakeCoins({op.n}, height)
                                ELSE MakeCoins(old.outs \cup {op.n}, old.nHeight))
    /\ txundo' = Front(txundo)
    /\ UNCHANGED undo

DisconnectDone ==
    /\ job.kind = "disconnect" /\ job.work = <<>>
    /\ FinishDisconnect(undo[job.block].oldRoot, pprev[job.block])
    /\ UNCHANGED jobVars

-----------------------------------------------------------------------------
(* Around the blocks.                                                       *)

\* view.Flush() in ConnectTip and DisconnectTip.
FlushView ==
    /\ Flush
    /\ job' = Idle
    /\ txundo' = <<>>
    /\ UNCHANGED undo

\* Reads, and pcoinsTip->Flush() in FlushStateToDisk.
Background ==
    /\ \/ \E x \in Txid : TipAccessCoins(x) \/ Uncache(x) \/ ViewAccessCoins(x)
       \/ \E n \in Nullifier, rt \in Root : TipGetShielded(n, rt) \/ ViewGetShielded(n, rt)
       \/ FlushTip
    /\ UNCHANGED jobVars

\* Undo data of the blocks below the database's best block is on disk
\* (DiskTipRecoverable in ChainDisk); that of others may be there too.
Restart ==
    /\ Crash
    /\ job' = Idle
    /\ txundo' = <<>>
    /\ UNCHANGED undo

ChainNext ==
    \/ \E b \in Block : StartConnect(b)
    \/ ConnectSpend \/ ConnectNullifier \/ ConnectAdd \/ ConnectDone \/ ConnectAbandoned
    \/ StartDisconnect
    \/ DisconnectAdd \/ DisconnectNullifier \/ DisconnectSpend \/ DisconnectDone
    \/ FlushView
    \/ Background
    \/ Restart

ChainSpec == ChainInit /\ [][ChainNext]_vars

-----------------------------------------------------------------------------
(* Properties.                                                              *)

\* Reference definition: the coins and nullifiers after a chain of blocks, from the
\* blocks alone.
Applied(state, op) ==
    CASE op.step = "spend" ->
            LET old == state.coins[op.txid]
            IN  [state EXCEPT !.coins[op.txid] = MakeCoins(old.outs \ {op.n}, old.nHeight)]
      [] op.step = "nullifier" -> [state EXCEPT !.nullifiers[op.nf] = TRUE]
      [] op.step = "add" -> [state EXCEPT !.coins[op.txid] = MakeCoins(op.vout, state.height)]

\* The state before a list of steps, and after each of them.
After(state, steps) ==
    LET after[i \in 0..Len(steps)] == IF i = 0 THEN state ELSE Applied(after[i - 1], steps[i])
    IN  after

\* What the transactions of block b start from, given the state below it.
Entered(state, b) == [state EXCEPT !.height = nHeight[b], !.anchors = @ \cup {anchor[b]}]

StateAt[b \in Block] ==
    IF b = Genesis
    THEN [coins |-> [x \in Txid |-> Pruned], nullifiers |-> [n \in Nullifier |-> FALSE],
          anchors |-> {EmptyRoot}, height |-> 0]
    ELSE After(Entered(StateAt[pprev[b]], b), BlockSteps(b))[Len(BlockSteps(b))]

Matches(coins, nullifiers, anchors, bestAnchor, bestBlock) ==
    /\ coins = StateAt[bestBlock].coins
    /\ nullifiers = StateAt[bestBlock].nullifiers
    /\ anchors = [rt \in Root |-> rt \in StateAt[bestBlock].anchors]
    /\ bestAnchor = anchor[bestBlock]

\* Between blocks pcoinsTip shows exactly the coins, nullifiers and anchors of the
\* chain that ends in its best block: connecting, disconnecting, abandoning,
\* caching and flushing in any order leave no trace.
TipMatchesChain ==
    phase = "closed" =>
        Matches(TipCoins, TipNullifiers, TipAnchors, TipBestAnchor, TipBestBlock)

\* DisconnectBlock never finds the view at odds with the block or its undo data
\* (DISCONNECT_UNCLEAN, on which DisconnectTip gives up), and the anchor it
\* removes can be read.
DisconnectClean ==
    job.kind = "disconnect" /\ phase = "open" =>
        /\ job.work = <<>> => ViewAnchors[ViewBestAnchor]
        /\ job.work # <<>> =>
            LET op == Head(job.work)
            IN  /\ op.step = "add" =>
                      ViewCoins[op.txid] = MakeCoins(op.vout, nHeight[job.block])
                /\ op.step = "spend" =>
                      /\ Last(txundo) # 0 <=> ViewCoins[op.txid] = Pruned
                      /\ op.n \notin ViewCoins[op.txid].outs
=============================================================================
