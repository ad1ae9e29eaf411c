-------------------------- MODULE MCBlockDownload ---------------------------
(***************************************************************************)
(* A small instance of BlockDownload: the chain g a1 a2 a3, and a silent   *)
(* peer beside one that answers.                                            *)
(***************************************************************************)
EXTENDS BlockDownload, TLC

CONSTANTS g, a1, a2, a3, honest, mute

MCpprev == (g :> NoBlock) @@ (a1 :> g) @@ (a2 :> a1) @@ (a3 :> a2)
MCnHeight == (g :> 0) @@ (a1 :> 1) @@ (a2 :> 2) @@ (a3 :> 3)
MCAncestors ==
    (g :> {g}) @@ (a1 :> {g, a1}) @@ (a2 :> {g, a1, a2}) @@ (a3 :> {g, a1, a2, a3})
MCAddress == (g :> 0) @@ (a1 :> 1) @@ (a2 :> 2) @@ (a3 :> 3)
MCPeerTip == (honest :> a3) @@ (mute :> a3)
=============================================================================
