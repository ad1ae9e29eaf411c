----------------------------- MODULE MCMempool ------------------------------
(***************************************************************************)
(* A small instance of MempoolChain.                                        *)
(*                                                                          *)
(*          /- b1 (A, B) --- b2 (C)                                         *)
(*   g ---                                                                  *)
(*          \- c1 (A) --- c2 () --- c3 (E)                                  *)
(*                                                                          *)
(* A <- B <- C <- D is a chain of spends, G spends from A and C, E spends    *)
(* what B spends, and F commits to the branch that starts above c3.  C       *)
(* spends from a coinbase that is immature below height 2, D from the notes  *)
(* of c1, and E expires and pays more than DisconnectTip lets return.        *)
(***************************************************************************)
EXTENDS MempoolChain, TLC

CONSTANTS g, b1, b2, c1, c2, c3, A, B, C, D, E, F, G, x, y, aOut, aOut2, bOut, cOut, cOut2

MCpprev == (g :> NoBlock) @@ (b1 :> g) @@ (b2 :> b1) @@ (c1 :> g) @@ (c2 :> c1) @@ (c3 :> c2)
MCnHeight == (g :> 0) @@ (b1 :> 1) @@ (b2 :> 2) @@ (c1 :> 1) @@ (c2 :> 2) @@ (c3 :> 3)
MCAncestors ==
    (g :> {g}) @@ (b1 :> {g, b1}) @@ (b2 :> {g, b1, b2}) @@ (c1 :> {g, c1}) @@ (c2 :> {g, c1, c2})
      @@ (c3 :> {g, c1, c2, c3})
MCAddress == (g :> 0) @@ (b1 :> 1) @@ (b2 :> 2) @@ (c1 :> 3) @@ (c2 :> 4) @@ (c3 :> 5)

MCvtx == (g :> <<>>) @@ (b1 :> <<A, B>>) @@ (b2 :> <<C>>) @@ (c1 :> <<A>>) @@ (c2 :> <<>>) @@ (c3 :> <<E>>)

MCCreator == (x :> NoTx) @@ (y :> NoTx) @@ (aOut :> A) @@ (aOut2 :> A) @@ (bOut :> B)
              @@ (cOut :> C) @@ (cOut2 :> C)
MCInputs == (A :> {x}) @@ (B :> {aOut}) @@ (C :> {bOut}) @@ (D :> {cOut}) @@ (E :> {aOut}) @@ (F :> {y})
              @@ (G :> {aOut2, cOut2})
MCFee == [t \in Tx |-> IF t = E THEN 2 ELSE 1]
MCMinHeight == [t \in Tx |-> IF t = C THEN 2 ELSE 0]
MCExpiry == [t \in Tx |-> IF t = E THEN 3 ELSE 9]
MCAnchor == [t \in Tx |-> IF t = D THEN c1 ELSE NoBlock]
MCBranchId == [t \in Tx |-> IF t = F THEN 1 ELSE 0]
MCCost == [t \in Tx |-> IF t = D THEN 2 ELSE 1]
=============================================================================
