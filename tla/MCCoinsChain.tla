---------------------------- MODULE MCCoinsChain ----------------------------
(***************************************************************************)
(* Blocks for model checking CoinsChain:                                    *)
(*                                                                          *)
(*   g --- a1 --- a2 --- a3                                                 *)
(*            |       \- d3                                                 *)
(*            \- b2 --- b3                                                  *)
(*                                                                          *)
(* a1 creates c with two outputs.  a2 has t, which spends c:0 and a note.   *)
(* b2 has u, which spends c:1 and creates nothing spendable.  b3 has the    *)
(* same t at another height, where it spends the last output of c, and w,   *)
(* which spends t:0 in the same block.  a3 adds c again, d3 has v, which    *)
(* spends c:1 and t's note a second time: both must be refused.             *)
(***************************************************************************)
EXTENDS CoinsChain, TLC

CONSTANTS g, a1, a2, a3, b2, b3, d3, c, t, u, v, w, n1, r0, r2, r3

In(hash, k) == <<[hash |-> hash, n |-> k]>>

Tx(txid, vin, nullifiers, vout) ==
    [txid |-> txid, vin |-> vin, nullifiers |-> nullifiers, vout |-> vout]

TxC == Tx(c, <<>>, <<>>, {0, 1})
TxT == Tx(t, In(c, 0), <<n1>>, {0})
TxU == Tx(u, In(c, 1), <<>>, {})
TxV == Tx(v, In(c, 1), <<n1>>, {})
TxW == Tx(w, In(t, 0), <<>>, {1})

MCpprev == (g :> NullHash) @@ (a1 :> g) @@ (a2 :> a1) @@ (a3 :> a2) @@ (b2 :> a1) @@ (b3 :> b2)
            @@ (d3 :> a2)
MCnHeight == (g :> 0) @@ (a1 :> 1) @@ (a2 :> 2) @@ (a3 :> 3) @@ (b2 :> 2) @@ (b3 :> 3) @@ (d3 :> 3)
MCvtx == (g :> <<>>) @@ (a1 :> <<TxC>>) @@ (a2 :> <<TxT>>) @@ (a3 :> <<TxC>>) @@ (b2 :> <<TxU>>)
            @@ (b3 :> <<TxT, TxW>>) @@ (d3 :> <<TxV>>)
MCanchor == (g :> r0) @@ (a1 :> r0) @@ (a2 :> r2) @@ (a3 :> r2) @@ (b2 :> r0) @@ (b3 :> r3)
            @@ (d3 :> r2)

MCsize == (r0 :> 0) @@ (r2 :> 1) @@ (r3 :> 1)

MCPruned == [outs |-> {}, nHeight |-> 0]
MCCCoins == {MCPruned} \cup [outs : {{0}, {1}, {0, 1}}, nHeight : 1 .. 3]
=============================================================================
