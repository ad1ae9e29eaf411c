---------------------------- MODULE MCChainState ----------------------------
(***************************************************************************)
(* A small block tree for model checking ChainState.  The cfg says which of *)
(* its blocks are in the instance.                                          *)
(*                                                                          *)
(*         /- a1 --- a2                                                     *)
(*       g                                                                  *)
(*         \- b1 --- b2 --- b3                                              *)
(*               \- c2                                                      *)
(*                                                                          *)
(* Every block adds one unit of work, so branches tie at each height.       *)
(***************************************************************************)
EXTENDS ChainState, TLC

CONSTANTS g, a1, a2, b1, b2, b3, c2

Parent == (g :> NoBlock) @@ (a1 :> g) @@ (a2 :> a1) @@ (b1 :> g) @@ (b2 :> b1) @@ (b3 :> b2)
            @@ (c2 :> b1)
Height == (g :> 0) @@ (a1 :> 1) @@ (a2 :> 2) @@ (b1 :> 1) @@ (b2 :> 2) @@ (b3 :> 3) @@ (c2 :> 2)
Branch == (g :> {g}) @@ (a1 :> {g, a1}) @@ (a2 :> {g, a1, a2}) @@ (b1 :> {g, b1})
            @@ (b2 :> {g, b1, b2}) @@ (b3 :> {g, b1, b2, b3}) @@ (c2 :> {g, b1, c2})
Place == (g :> 0) @@ (a1 :> 1) @@ (a2 :> 2) @@ (b1 :> 3) @@ (b2 :> 4) @@ (b3 :> 5) @@ (c2 :> 6)

MCpprev == [b \in Block |-> Parent[b]]
MCnHeight == [b \in Block |-> Height[b]]
MCnChainWork == [b \in Block |-> Height[b]]
MCAncestors == [b \in Block |-> Branch[b]]
MCAddress == [b \in Block |-> Place[b]]
=============================================================================
