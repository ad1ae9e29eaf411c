------------------------------ MODULE BlockTree ------------------------------
(***************************************************************************)
(* The tree of block headers that every other chain module works on: the   *)
(* immutable fields of CBlockIndex (src/chain.h) once a header has been     *)
(* linked to its parent, and the order CBlockIndexWorkComparator puts on    *)
(* index entries (src/main.cpp).                                            *)
(*                                                                          *)
(* pprev, nHeight and nChainWork never change once AddToBlockIndex has set  *)
(* them, so they are CONSTANTS here; Ancestors[b] is the set of blocks the  *)
(* loop "while (p) p = p->pprev" visits from b, b included.                 *)
(***************************************************************************)
EXTENDS Integers, FiniteSets

CONSTANTS
    Block,       \* every block whose header passes CheckBlockHeader and
                 \* ContextualCheckBlockHeader, whether or not we know it yet
    Genesis,     \* the root of the tree
    NoBlock,     \* the null CBlockIndex pointer
    pprev,       \* [Block -> Block \cup {NoBlock}]
    nHeight,     \* [Block -> Nat]
    nChainWork,  \* [Block -> Nat]: cumulative proof of work
    Ancestors,   \* [Block -> SUBSET Block]
    Address      \* [Block -> Nat]: where the index entry lives in memory

(***************************************************************************)
(* The block tree is rooted at Genesis, heights count the steps to it, and  *)
(* every header adds work.                                                  *)
(***************************************************************************)
ASSUME TreeAssumption ==
    /\ IsFiniteSet(Block)
    /\ Genesis \in Block
    /\ NoBlock \notin Block
    /\ pprev \in [Block -> Block \cup {NoBlock}]
    /\ \A b \in Block : pprev[b] = NoBlock <=> b = Genesis
    /\ nHeight \in [Block -> Nat]
    /\ nHeight[Genesis] = 0
    /\ \A b \in Block \ {Genesis} : nHeight[b] = nHeight[pprev[b]] + 1
    /\ nChainWork \in [Block -> Nat]
    /\ \A b \in Block \ {Genesis} : nChainWork[b] > nChainWork[pprev[b]]
    /\ Ancestors \in [Block -> SUBSET Block]
    /\ Ancestors[Genesis] = {Genesis}
    /\ \A b \in Block \ {Genesis} : Ancestors[b] = Ancestors[pprev[b]] \cup {b}
    /\ Address \in [Block -> Nat]
    /\ \A a, b \in Block : Address[a] = Address[b] => a = b

\* The last block two branches share: CChain::FindFork.
IsFork(f, a, b) ==
    /\ f \in Ancestors[a] \cap Ancestors[b]
    /\ \A c \in Ancestors[a] \cap Ancestors[b] : nHeight[c] <= nHeight[f]

FindFork(a, b) == CHOOSE f \in Block : IsFork(f, a, b)

\* CBlockIndexWorkComparator()(a, b): a is a worse tip than b.  Most work wins,
\* then the block received first, then the lower address in memory.
WorkLess(nSequenceId, a, b) ==
    \/ nChainWork[a] < nChainWork[b]
    \/ /\ nChainWork[a] = nChainWork[b]
       /\ nSequenceId[a] > nSequenceId[b]
    \/ /\ nChainWork[a] = nChainWork[b]
       /\ nSequenceId[a] = nSequenceId[b]
       /\ Address[a] > Address[b]

\* *setBlockIndexCandidates.rbegin() is b.
IsBest(nSequenceId, S, b) == b \in S /\ \A c \in S : ~WorkLess(nSequenceId, b, c)

\* b is the highest block of S, a part of one branch.
IsHighest(S, b) == b \in S /\ \A c \in S : nHeight[c] <= nHeight[b]
=============================================================================
