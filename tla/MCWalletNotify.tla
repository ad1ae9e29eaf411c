--------------------------- MODULE MCWalletNotify ---------------------------
(***************************************************************************)
(* A small block tree for WalletNotify.                                     *)
(*                                                                          *)
(*             /- a2                                                        *)
(*   g --- a1                                                               *)
(*             \- b2 --- b3 --- b4 --- b5                                   *)
(*                                                                          *)
(* The first note is mined in a1; the second in a2 or again in b3.          *)
(***************************************************************************)
EXTENDS WalletNotify, TLC

CONSTANTS g, a1, a2, b2, b3, b4, b5, n1, n2

Parent == (g :> NoBlock) @@ (a1 :> g) @@ (a2 :> a1) @@ (b2 :> a1) @@ (b3 :> b2)
            @@ (b4 :> b3) @@ (b5 :> b4)
Height == (g :> 0) @@ (a1 :> 1) @@ (a2 :> 2) @@ (b2 :> 2) @@ (b3 :> 3) @@ (b4 :> 4) @@ (b5 :> 5)
\* a2 is harder than the block beside it.
Work == (g :> 0) @@ (a1 :> 1) @@ (a2 :> 3) @@ (b2 :> 2) @@ (b3 :> 3) @@ (b4 :> 4) @@ (b5 :> 5)
Stem == {g, a1}
Branch == (g :> {g}) @@ (a1 :> Stem) @@ (a2 :> Stem \cup {a2})
            @@ (b2 :> Stem \cup {b2}) @@ (b3 :> Stem \cup {b2, b3}) @@ (b4 :> Stem \cup {b2, b3, b4})
            @@ (b5 :> Stem \cup {b2, b3, b4, b5})
Place == (g :> 0) @@ (a1 :> 1) @@ (a2 :> 2) @@ (b2 :> 3) @@ (b3 :> 4) @@ (b4 :> 5) @@ (b5 :> 6)

MCpprev == [b \in Block |-> Parent[b]]
MCnHeight == [b \in Block |-> Height[b]]
MCnChainWork == [b \in Block |-> Work[b]]
MCAncestors == [b \in Block |-> Branch[b]]
MCAddress == [b \in Block |-> Place[b]]

\* A wallet that is new and one that is not, with one restart; and one that is new,
\* with one tip of no more work.
MCStarts == {[size |-> 0, restarts |-> 1, lowered |-> 0], [size |-> 2, restarts |-> 1, lowered |-> 0],
             [size |-> 0, restarts |-> 0, lowered |-> 1]}

MCMinedIn == [n \in Note |-> (IF n = n1 THEN {a1} ELSE {a2, b3}) \cap Block]
\* The first note is spent in a2 and unspent on the other branch, where b5 has a
\* nullifier of the second.
MCSpentIn == [n \in Note |-> (IF n = n1 THEN {a2} ELSE {b5}) \cap Block]
=============================================================================
