-------------------------- MODULE BlockTreeProofs --------------------------
(***************************************************************************)
(* The facts about the block tree that the other proofs rest on, derived    *)
(* from TreeAssumption alone.  They need an induction on the height.  Its   *)
(* form is the least counterexample: WFMin of the library gives every       *)
(* nonempty set of natural numbers a least element, and so every nonempty   *)
(* set of blocks a lowest one.                                              *)
(***************************************************************************)
EXTENDS BlockTree, NaturalsInduction, WellFoundedInduction, TLAPS

LEMMA LeastNatural ==
    ASSUME NEW T \in SUBSET Nat, T # {}
    PROVE  \E m \in T : \A k \in T : m <= k
<1>1. PICK x \in T : \A y \in T : ~(<<y, x>> \in OpToRel(<, Nat))
  <2>1. IsWellFoundedOn(OpToRel(<, Nat), Nat)
    BY NatLessThanWellFounded
  <2> QED
    BY <2>1, WFMin
<1>2. ASSUME NEW y \in T PROVE x <= y
  <2>1. <<y, x>> \notin OpToRel(<, Nat)
    BY <1>1
  <2>2. ~(y < x)
    BY <2>1 DEF OpToRel
  <2> QED
    BY <2>2
<1> QED
  BY <1>2

LEMMA LowestBlock ==
    ASSUME NEW S \in SUBSET Block, S # {}
    PROVE  \E b \in S : \A c \in S : nHeight[b] <= nHeight[c]
<1> DEFINE T == {nHeight[b] : b \in S}
<1>1. T \in SUBSET Nat /\ T # {}
  BY TreeAssumption
<1>2. PICK m \in T : \A k \in T : m <= k
  BY <1>1, LeastNatural
<1> QED
  BY <1>2

\* What b adds to its parent's ancestors.
LEMMA ParentStep ==
    ASSUME NEW b \in Block, b # Genesis
    PROVE  /\ pprev[b] \in Block
           /\ nHeight[b] = nHeight[pprev[b]] + 1
           /\ nHeight[b] \in Nat /\ nHeight[pprev[b]] \in Nat
           /\ nHeight[pprev[b]] < nHeight[b]
           /\ Ancestors[b] = Ancestors[pprev[b]] \cup {b}
BY TreeAssumption

LEMMA AncestorsAreBlocks ==
    ASSUME NEW b \in Block
    PROVE  /\ Ancestors[b] \subseteq Block
           /\ b \in Ancestors[b]
           /\ nHeight[b] \in Nat
<1>1. CASE b = Genesis
  BY <1>1, TreeAssumption
<1>2. CASE b # Genesis
  BY <1>2, ParentStep, TreeAssumption
<1> QED
  BY <1>1, <1>2

\* Every walk along pprev ends at genesis.
LEMMA RootedAtGenesis ==
    \A b \in Block : Genesis \in Ancestors[b]
<1> DEFINE Bad == {b \in Block : Genesis \notin Ancestors[b]}
<1> SUFFICES ASSUME Bad # {} PROVE FALSE
  OBVIOUS
<1>1. PICK b \in Bad : \A c \in Bad : nHeight[b] <= nHeight[c]
  BY LowestBlock
<1>2. b \in Block /\ b # Genesis
  BY TreeAssumption
<1>3. pprev[b] \in Bad /\ nHeight[pprev[b]] < nHeight[b]
  BY <1>2, ParentStep
<1> QED
  BY <1>1, <1>2, <1>3, ParentStep

\* The walk from an ancestor is a part of the walk, and is not higher.
LEMMA AncestorsNested ==
    \A b \in Block : \A a \in Ancestors[b] :
        Ancestors[a] \subseteq Ancestors[b] /\ nHeight[a] <= nHeight[b]
<1> DEFINE Nested(b) == \A a \in Ancestors[b] :
                            Ancestors[a] \subseteq Ancestors[b] /\ nHeight[a] <= nHeight[b]
           Bad == {b \in Block : ~Nested(b)}
<1> SUFFICES ASSUME Bad # {} PROVE FALSE
  OBVIOUS
<1>1. PICK b \in Bad : \A c \in Bad : nHeight[b] <= nHeight[c]
  BY LowestBlock
<1>2. b \in Block /\ b # Genesis
  BY TreeAssumption
<1>3. pprev[b] \in Block /\ Nested(pprev[b])
  BY <1>1, <1>2, ParentStep
<1>4. Nested(b)
  <2> SUFFICES ASSUME NEW a \in Ancestors[b]
               PROVE  Ancestors[a] \subseteq Ancestors[b] /\ nHeight[a] <= nHeight[b]
    OBVIOUS
  <2>1. CASE a = b
    BY <2>1, <1>2, AncestorsAreBlocks
  <2>2. CASE a \in Ancestors[pprev[b]]
    BY <2>2, <1>2, <1>3, ParentStep, AncestorsAreBlocks
  <2> QED
    BY <1>2, <2>1, <2>2, ParentStep
<1> QED
  BY <1>4

\* Ancestors of one block are a chain: the lower is an ancestor of the higher.
LEMMA AncestorsOrdered ==
    \A b \in Block : \A a, c \in Ancestors[b] :
        nHeight[a] <= nHeight[c] => a \in Ancestors[c]
<1> DEFINE Ordered(b) == \A a, c \in Ancestors[b] :
                             nHeight[a] <= nHeight[c] => a \in Ancestors[c]
           Bad == {b \in Block : ~Ordered(b)}
<1> SUFFICES ASSUME Bad # {} PROVE FALSE
  OBVIOUS
<1>1. PICK b \in Bad : \A c \in Bad : nHeight[b] <= nHeight[c]
  BY LowestBlock
<1>2. b \in Block /\ b # Genesis
  BY TreeAssumption
<1>3. pprev[b] \in Block /\ Ordered(pprev[b])
  BY <1>1, <1>2, ParentStep
<1>4. Ordered(b)
  <2> SUFFICES ASSUME NEW a \in Ancestors[b], NEW c \in Ancestors[b], nHeight[a] <= nHeight[c]
               PROVE  a \in Ancestors[c]
    OBVIOUS
  <2>1. CASE c = b
    BY <2>1
  <2>2. CASE c # b /\ a = b
    <3>1. c \in Ancestors[pprev[b]]
      BY <2>2, <1>2, ParentStep
    <3>2. nHeight[c] <= nHeight[pprev[b]] /\ nHeight[c] \in Nat
      BY <3>1, <1>3, AncestorsNested, AncestorsAreBlocks
    <3> QED
      BY <2>2, <3>2, <1>2, ParentStep
  <2>3. CASE c # b /\ a # b
    <3>1. a \in Ancestors[pprev[b]] /\ c \in Ancestors[pprev[b]]
      BY <2>3, <1>2, ParentStep
    <3> QED
      BY <3>1, <1>3
  <2> QED
    BY <2>1, <2>2, <2>3
<1> QED
  BY <1>4

\* Two branches have a last block in common: the highest of the shared ones, all
\* of which are on one branch.
LEMMA ForkExists ==
    \A a, b \in Block : \E f \in Block : IsFork(f, a, b)
<1> SUFFICES ASSUME NEW a \in Block, NEW b \in Block PROVE \E f \in Block : IsFork(f, a, b)
  OBVIOUS
<1> DEFINE Shared == Ancestors[a] \cap Ancestors[b]
           Depth == {nHeight[a] - nHeight[c] : c \in Shared}
<1>1. Shared \subseteq Block /\ Genesis \in Shared
  BY RootedAtGenesis, AncestorsAreBlocks
<1>2. \A c \in Shared : nHeight[c] \in Nat /\ nHeight[a] \in Nat /\ nHeight[c] <= nHeight[a]
  BY <1>1, AncestorsNested, AncestorsAreBlocks
<1>3. Depth \in SUBSET Nat /\ Depth # {}
  BY <1>1, <1>2
<1>4. PICK m \in Depth : \A k \in Depth : m <= k
  BY <1>3, LeastNatural
<1>5. PICK f \in Shared : m = nHeight[a] - nHeight[f]
  BY <1>4
<1>6. \A c \in Shared : nHeight[c] <= nHeight[f]
  <2> TAKE c \in Shared
  <2>1. nHeight[a] - nHeight[f] <= nHeight[a] - nHeight[c]
    BY <1>4, <1>5
  <2> QED
    BY <1>2, <2>1
<1> QED
  BY <1>1, <1>6 DEF IsFork

\* The block tree as CBlockIndex::GetAncestor, CChain::FindFork and the loops over
\* pprev in main.cpp take it: rooted, nested, ordered along a branch, and with a
\* last common block for any two branches.
THEOREM TreeFacts ==
    /\ \A b \in Block : Genesis \in Ancestors[b] /\ b \in Ancestors[b]
    /\ \A b \in Block : \A a \in Ancestors[b] :
          Ancestors[a] \subseteq Ancestors[b] /\ nHeight[a] <= nHeight[b]
    /\ \A b \in Block : \A a, c \in Ancestors[b] :
          nHeight[a] <= nHeight[c] => a \in Ancestors[c]
    /\ \A a, b \in Block : \E f \in Block : IsFork(f, a, b)
BY RootedAtGenesis, AncestorsAreBlocks, AncestorsNested, AncestorsOrdered, ForkExists

-----------------------------------------------------------------------------
(* The operators built on the tree.                                         *)

\* Two ancestors of one block at one height are the same block.
LEMMA SameHeight ==
    ASSUME NEW a \in Block, NEW c \in Ancestors[a], NEW d \in Ancestors[a],
           nHeight[c] = nHeight[d]
    PROVE  c = d
<1>1. c \in Block /\ d \in Block /\ nHeight[c] \in Nat
  BY AncestorsAreBlocks
<1>2. c \in Ancestors[d] /\ d \in Ancestors[c]
  BY <1>1, AncestorsOrdered
<1>3. CASE c = Genesis
  BY <1>2, <1>3, TreeAssumption
<1>4. CASE c # Genesis /\ c # d
  <2>1. d \in Ancestors[pprev[c]]
    BY <1>1, <1>2, <1>4, ParentStep
  <2>2. nHeight[d] <= nHeight[pprev[c]]
    BY <2>1, <1>1, <1>4, ParentStep, AncestorsNested
  <2> QED
    BY <2>2, <1>1, <1>4, ParentStep
<1> QED
  BY <1>3, <1>4

\* GetAncestor finds something at every height up to the block's own.
LEMMA AncestorAtHeight ==
    \A a \in Block : \A h \in 0..nHeight[a] : \E c \in Ancestors[a] : nHeight[c] = h
<1> DEFINE Full(a) == \A h \in 0..nHeight[a] : \E c \in Ancestors[a] : nHeight[c] = h
           Bad == {a \in Block : ~Full(a)}
<1> SUFFICES ASSUME Bad # {} PROVE FALSE
  OBVIOUS
<1>1. PICK b \in Bad : \A c \in Bad : nHeight[b] <= nHeight[c]
  BY LowestBlock
<1>2. CASE b = Genesis
  <2>1. nHeight[b] = 0 /\ b \in Ancestors[b]
    BY <1>2, TreeAssumption
  <2> QED
    BY <2>1
<1>3. CASE b # Genesis
  <2>1. Full(pprev[b])
    BY <1>1, <1>3, ParentStep
  <2>2. Full(b)
    <3> SUFFICES ASSUME NEW h \in 0..nHeight[b]
                 PROVE  \E c \in Ancestors[b] : nHeight[c] = h
      OBVIOUS
    <3>1. CASE h = nHeight[b]
      BY <3>1, AncestorsAreBlocks
    <3>2. CASE h # nHeight[b]
      <4>1. h \in 0..nHeight[pprev[b]]
        BY <3>2, <1>3, ParentStep
      <4> QED
        BY <4>1, <2>1, <1>3, ParentStep
    <3> QED
      BY <3>1, <3>2
  <2> QED
    BY <2>2
<1> QED
  BY <1>2, <1>3

LEMMA ForkFound ==
    ASSUME NEW a \in Block, NEW b \in Block
    PROVE  FindFork(a, b) \in Block /\ IsFork(FindFork(a, b), a, b)
<1>1. \E f \in Block : IsFork(f, a, b)
  BY ForkExists
<1> QED
  BY <1>1 DEF FindFork
=============================================================================
