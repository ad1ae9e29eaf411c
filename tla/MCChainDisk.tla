---------------------------- MODULE MCChainDisk -----------------------------
(***************************************************************************)
(* A small block tree for model checking ChainDisk: a branch of two blocks, *)
(* one block with more work than both, and one with more work still.  The   *)
(* cfg says which of them are in the instance.                              *)
(*                                                                          *)
(*             /- a1 (2) --- a2 (3)                                         *)
(*       g (1) -- b1 (4)                                                    *)
(*             \- c1 (5)                                                    *)
(***************************************************************************)
EXTENDS ChainDisk, TLC

CONSTANTS g, a1, a2, b1, c1

Parent == (g :> NoBlock) @@ (a1 :> g) @@ (a2 :> a1) @@ (b1 :> g) @@ (c1 :> g)
Height == (g :> 0) @@ (a1 :> 1) @@ (a2 :> 2) @@ (b1 :> 1) @@ (c1 :> 1)
Work == (g :> 1) @@ (a1 :> 2) @@ (a2 :> 3) @@ (b1 :> 4) @@ (c1 :> 5)
Branch == (g :> {g}) @@ (a1 :> {g, a1}) @@ (a2 :> {g, a1, a2}) @@ (b1 :> {g, b1})
            @@ (c1 :> {g, c1})

MCpprev == [b \in Block |-> Parent[b]]
MCnHeight == [b \in Block |-> Height[b]]
MCnChainWork == [b \in Block |-> Work[b]]
MCAncestors == [b \in Block |-> Branch[b]]
MCAddress == [b \in Block |-> Work[b]]
=============================================================================
