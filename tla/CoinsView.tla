----------------------------- MODULE CoinsView ------------------------------
(***************************************************************************)
(* What the stack of CCoinsViews promises (src/coins.h: "Abstract view on   *)
(* the open txout dataset"), without caches, flags or lazily read hashes.   *)
(*                                                                          *)
(* db is the chainstate database, tip is what pcoinsTip shows, and view is  *)
(* what the CCoinsViewCache shows that ConnectTip or DisconnectTip puts on  *)
(* top of it for one block.  A write to a view is seen in it at once and    *)
(* below it only after a flush, which publishes everything or nothing.      *)
(***************************************************************************)
CONSTANTS Txid, CCoins, Pruned, Nullifier, Root, EmptyRoot, Block, Genesis

VARIABLES db, tip, view, phase

viewVars == <<db, tip, view, phase>>

View == [coins      : [Txid -> CCoins],
         nullifiers : [Nullifier -> BOOLEAN],
         anchors    : [Root -> BOOLEAN],
         bestAnchor : Root,
         bestBlock  : Block]

GenesisView == [coins      |-> [x \in Txid |-> Pruned],
                nullifiers |-> [n \in Nullifier |-> FALSE],
                anchors    |-> [rt \in Root |-> rt = EmptyRoot],
                bestAnchor |-> EmptyRoot,
                bestBlock  |-> Genesis]

Init ==
    /\ db = GenesisView
    /\ tip = GenesisView
    /\ view = GenesisView
    /\ phase = "closed"

Open ==
    /\ phase = "closed" /\ phase' = "open"
    /\ UNCHANGED <<db, tip, view>>

WriteCoins(x, c) ==
    /\ phase = "open"
    /\ view' = [view EXCEPT !.coins = [@ EXCEPT ![x] = c]]
    /\ UNCHANGED <<db, tip, phase>>

WriteNullifier(n, spent) ==
    /\ phase = "open"
    /\ view' = [view EXCEPT !.nullifiers = [@ EXCEPT ![n] = spent]]
    /\ UNCHANGED <<db, tip, phase>>

\* The end of a block: one anchor appears or disappears, and the best anchor and
\* the best block move.
Finish(rt, b, moved, entered) ==
    /\ phase = "open" /\ phase' = "done"
    /\ view' = [coins      |-> view.coins,
                nullifiers |-> view.nullifiers,
                anchors    |-> [a \in Root |-> IF a \in moved THEN entered ELSE view.anchors[a]],
                bestAnchor |-> rt,
                bestBlock  |-> b]
    /\ UNCHANGED <<db, tip>>

FinishConnect(rt, b) == Finish(rt, b, {rt} \ {view.bestAnchor}, TRUE)

FinishDisconnect(rt, b) == Finish(rt, b, {view.bestAnchor} \ {rt}, FALSE)

Flush ==
    /\ phase = "done" /\ phase' = "closed"
    /\ tip' = view
    /\ UNCHANGED <<db, view>>

Discard ==
    /\ phase # "closed" /\ phase' = "closed"
    /\ view' = tip
    /\ UNCHANGED <<db, tip>>

FlushTip ==
    /\ phase = "closed"
    /\ db' = tip
    /\ UNCHANGED <<tip, view, phase>>

Crash ==
    /\ phase' = "closed"
    /\ tip' = db
    /\ view' = db
    /\ UNCHANGED db

Next ==
    \/ Open
    \/ \E x \in Txid, c \in CCoins : WriteCoins(x, c)
    \/ \E n \in Nullifier, spent \in BOOLEAN : WriteNullifier(n, spent)
    \/ \E rt \in Root, b \in Block : FinishConnect(rt, b) \/ FinishDisconnect(rt, b)
    \/ Flush
    \/ Discard
    \/ FlushTip
    \/ Crash

Spec == Init /\ [][Next]_viewVars
=============================================================================
