------------------------- MODULE WalletNotifyProofs -------------------------
(***************************************************************************)
(* Proofs about WalletNotify.  RoundInv ties the notifier's round to the    *)
(* block tree and to the numbers that ChainIsFullyNotified compares.        *)
(* CacheInv adds the witnesses in memory and on disk and the assertions     *)
(* about them, RunningInv how many blocks the node may still take away from *)
(* a settled wallet, against the size of its cache, and the witnesses of    *)
(* the notes that are not taken for spent.                                  *)
(***************************************************************************)
EXTENDS WalletNotify, BlockTreeProofs, FiniteSetTheorems

-----------------------------------------------------------------------------
(* The round.                                                               *)

\* Where the blocks that are to be connected begin, and the block the wallet is
\* at when the round ends.
Base == IF notifyPc = "disconnect" THEN forkAt ELSE lastTip
Target == IF blockStack = <<>> THEN Base ELSE blockStack[Len(blockStack)]

RoundType ==
    /\ tip \in Block /\ diskTip \in Block /\ lastTip \in Block /\ forkAt \in Block
    /\ Target \in Block /\ disk.best \in Block
    /\ recentlyConflicted \subseteq Block
    /\ nConnected \in Nat /\ nNotified \in Nat /\ sequence \in Int
    /\ restarts \in Nat
    /\ notifyPc \in {"sleep", "wait", "disconnect", "connect"}
    /\ restarts = 0 => notifyPc # "wait"

\* The stack is the path from the base to the target, and nothing waits on it
\* between two rounds.
StackIsPath ==
    /\ Base \in Ancestors[Target]
    /\ blockStack = PathFrom(Base, Target)
    /\ notifyPc \in {"sleep", "wait"} => blockStack = <<>>
    /\ notifyPc = "disconnect" => forkAt \in Ancestors[lastTip] /\ forkAt # lastTip

\* A block of the chain that has lost its entry in recentlyConflictedTxs is on the
\* way to the target, all of them are when the round has taken its number, and none
\* is left to connect when that number has been stored.
NumbersExact ==
    /\ nNotified <= nConnected
    /\ sequence = NoSequence \/ sequence \in 0..nConnected
    /\ Ancestors[tip] \ recentlyConflicted \subseteq Ancestors[Target]
    /\ sequence = nConnected => tip \in Ancestors[Target]
    /\ nNotified = nConnected => blockStack = <<>> /\ tip \in Ancestors[Base]

RoundInv == RoundType /\ StackIsPath /\ NumbersExact

-----------------------------------------------------------------------------
(* The witnesses.                                                           *)

NoteData == [witnesses : Seq(Seq(Block)), witnessHeight : Int, spentHeight : Int]

\* The witnesses of a note when the wallet is at block b: none, or those of b and
\* of the blocks below it.
NoteOk(n, nd, b) ==
    /\ nd \in NoteData
    /\ nd.witnesses = <<>> => nd.witnessHeight = -1
    /\ nd.witnesses # <<>> => Len(nd.witnesses) <= nHeight[b] /\ CacheTrue(n, nd, b)

NotesOk(ns, b) == DOMAIN ns = Note /\ \A n \in Note : NoteOk(n, ns[n], b)

\* No cache holds more than size witnesses.
Fits(ns, size) == \A n \in Note : Len(ns[n].witnesses) <= size

\* What the assertions ask for, in memory and for what is read back from disk.
AssertInv ==
    /\ ~assertFailed
    /\ nWitnessCacheSize \in 0..WITNESS_CACHE_SIZE /\ disk.size \in 0..WITNESS_CACHE_SIZE
    /\ Fits(notes, nWitnessCacheSize)
    /\ disk.inStep => Fits(disk.notes, disk.size)

CacheInv ==
    /\ NotesOk(notes, lastTip)
    /\ disk.notes \in [Note -> NoteData]
    /\ disk.inStep \in BOOLEAN
    /\ disk.inStep => NotesOk(disk.notes, disk.best)
    /\ AssertInv

-----------------------------------------------------------------------------
(* The margin.                                                              *)

\* No reorganisation has taken more than MAX_REORG_LENGTH blocks from b.
Near(b) == \E a \in Ancestors[b] \cap Ancestors[tip] : nHeight[b] - nHeight[a] <= MAX_REORG_LENGTH

\* In a settled wallet the cache has one witness more than the blocks that can be taken
\* away from it: those between its block and the active chain, those the round has set
\* out to disconnect, and those the next reorganisation may disconnect.
MarginInv ==
    /\ nHeight[lastTip] <= nHeight[tip] /\ nHeight[Target] <= nHeight[tip]
    /\ Near(lastTip) /\ Near(Target)
    /\ nWitnessCacheSize \in 1..WITNESS_CACHE_SIZE
    /\ \E a \in Ancestors[lastTip] \cap Ancestors[tip] :
          nWitnessCacheSize >= 1 + nHeight[lastTip] - nHeight[a]
    /\ notifyPc = "disconnect" => nWitnessCacheSize >= 1 + nHeight[lastTip] - nHeight[forkAt]
    /\ nWitnessCacheSize >= WITNESS_CACHE_SIZE - (nHeight[tip] - nHeight[lastTip])

\* A note that is not taken for spent has all the witnesses the cache has room for,
\* and that is one at least.
UnspentInv ==
    \A n \in Note : \A m \in MinedIn[n] \cap Ancestors[lastTip] :
        /\ hasNotes
        /\ ~exhausted =>
              /\ nWitnessCacheSize >= 1
              /\ notes[n].spentHeight = -1 =>
                    \/ Len(notes[n].witnesses) >= nWitnessCacheSize
                    \/ Len(notes[n].witnesses) >= nHeight[lastTip] - nHeight[m] + 1

FirstRunInv ==
    /\ NotesOk(notes, lastTip)
    /\ nWitnessCacheSize \in 0..WITNESS_CACHE_SIZE
    /\ UnspentInv

RunningInv ==
    /\ RoundInv
    /\ settled => MarginInv /\ ~exhausted
    /\ restarts = 0 => FirstRunInv

-----------------------------------------------------------------------------
(* GetAncestor, FindFork and PathFrom.                                      *)

LEMMA GetAncestorIs ==
    ASSUME NEW a \in Block, NEW h \in 0..nHeight[a]
    PROVE  /\ GetAncestor(a, h) \in Ancestors[a]
           /\ GetAncestor(a, h) \in Block
           /\ nHeight[GetAncestor(a, h)] = h
<1>1. \E c \in Ancestors[a] : nHeight[c] = h
  BY AncestorAtHeight
<1>2. GetAncestor(a, h) \in Ancestors[a] /\ nHeight[GetAncestor(a, h)] = h
  BY <1>1 DEF GetAncestor
<1> QED
  BY <1>2, AncestorsAreBlocks

LEMMA GetAncestorOf ==
    ASSUME NEW a \in Block, NEW c \in Ancestors[a]
    PROVE  GetAncestor(a, nHeight[c]) = c
<1>1. nHeight[c] \in 0..nHeight[a]
  BY AncestorsNested, AncestorsAreBlocks
<1> QED
  BY <1>1, GetAncestorIs, SameHeight

\* The way down from a block of the branch is the way down from its tip.
LEMMA GetAncestorBelow ==
    ASSUME NEW a \in Block, NEW c \in Ancestors[a], NEW h \in 0..nHeight[c]
    PROVE  GetAncestor(a, h) = GetAncestor(c, h)
<1>1. c \in Block /\ nHeight[c] \in Nat /\ nHeight[a] \in Nat /\ nHeight[c] <= nHeight[a]
  BY AncestorsNested, AncestorsAreBlocks
<1>2. GetAncestor(c, h) \in Ancestors[c] /\ nHeight[GetAncestor(c, h)] = h
  BY <1>1, GetAncestorIs
<1>3. GetAncestor(c, h) \in Ancestors[a]
  BY <1>2, AncestorsNested
<1> QED
  BY <1>2, <1>3, GetAncestorOf

LEMMA ForkIsFirst ==
    ASSUME NEW a \in Block, NEW b \in Block, a \in Ancestors[b]
    PROVE  FindFork(a, b) = a
<1>1. FindFork(a, b) \in Ancestors[a] /\ nHeight[a] <= nHeight[FindFork(a, b)]
  BY ForkFound, AncestorsAreBlocks DEF IsFork
<1>2. nHeight[FindFork(a, b)] = nHeight[a]
  BY <1>1, AncestorsNested, AncestorsAreBlocks, ForkFound
<1> QED
  BY <1>1, <1>2, SameHeight, AncestorsAreBlocks

\* The path to a block ends in it.
LEMMA PathEnds ==
    ASSUME NEW b \in Block, NEW f \in Ancestors[b]
    PROVE  /\ PathFrom(f, b) \in Seq(Block)
           /\ Len(PathFrom(f, b)) = nHeight[b] - nHeight[f]
           /\ PathFrom(f, b) = <<>> <=> f = b
           /\ f # b => PathFrom(f, b)[Len(PathFrom(f, b))] = b
           /\ \A i \in 1..Len(PathFrom(f, b)) :
                 PathFrom(f, b)[i] \in Ancestors[b] /\ nHeight[PathFrom(f, b)[i]] = nHeight[f] + i
<1> DEFINE k == nHeight[b] - nHeight[f]
           p == PathFrom(f, b)
<1>1. f \in Block /\ nHeight[f] \in Nat /\ nHeight[b] \in Nat /\ k \in Nat
  BY AncestorsAreBlocks, AncestorsNested
<1>2. \A i \in 1..k : /\ GetAncestor(b, nHeight[f] + i) \in Ancestors[b]
                      /\ GetAncestor(b, nHeight[f] + i) \in Block
                      /\ nHeight[GetAncestor(b, nHeight[f] + i)] = nHeight[f] + i
  BY <1>1, GetAncestorIs
<1>3. p = [i \in 1..k |-> GetAncestor(b, nHeight[f] + i)]
  BY DEF PathFrom
<1>4. p \in Seq(Block) /\ Len(p) = k /\ \A i \in 1..k : p[i] = GetAncestor(b, nHeight[f] + i)
  <2> HIDE DEF p
  <2>1. p \in [1..k -> Block]
    BY <1>2, <1>3
  <2>2. p \in Seq(Block)
    BY <2>1, <1>1
  <2>3. DOMAIN p = 1..Len(p) /\ Len(p) \in Nat
    BY <2>2
  <2>4. DOMAIN p = 1..k
    BY <2>1
  <2>5. Len(p) = k
    BY <2>3, <2>4, <1>1
  <2> QED
    BY <2>2, <2>5, <1>3
<1>5. k = 0 <=> f = b
  BY <1>1, SameHeight, AncestorsAreBlocks
<1>6. p = <<>> <=> k = 0
  <2> HIDE DEF p
  <2> QED
    BY <1>4, <1>1
<1>7. f # b => p[k] = b
  <2> SUFFICES ASSUME f # b PROVE p[k] = b
    OBVIOUS
  <2>1. k \in 1..k /\ nHeight[f] + k = nHeight[b]
    BY <1>1, <1>5
  <2> QED
    BY <2>1, <1>4, GetAncestorOf, AncestorsAreBlocks
<1> QED
  <2> HIDE DEF p
  <2>1. p \in Seq(Block) /\ Len(p) = k /\ (p = <<>> <=> f = b) /\ (f # b => p[Len(p)] = b)
    BY <1>4, <1>5, <1>6, <1>7
  <2>2. \A i \in 1..Len(p) : p[i] \in Ancestors[b] /\ nHeight[p[i]] = nHeight[f] + i
    BY <1>2, <1>4
  <2> QED
    BY <2>1, <2>2 DEF p

\* What is left of the path when its first block is taken.
LEMMA PathStep ==
    ASSUME NEW b \in Block, NEW f \in Ancestors[b], f # b
    PROVE  LET c == Head(PathFrom(f, b))
           IN  /\ c \in Block /\ c \in Ancestors[b]
               /\ c # Genesis /\ pprev[c] = f
               /\ Tail(PathFrom(f, b)) = PathFrom(c, b)
<1> DEFINE p == PathFrom(f, b)
           c == Head(p)
           q == PathFrom(c, b)
<1>1. f \in Block /\ nHeight[f] \in Nat /\ nHeight[b] \in Nat /\ nHeight[f] <= nHeight[b]
  BY AncestorsAreBlocks, AncestorsNested
<1>2. p \in Seq(Block) /\ Len(p) = nHeight[b] - nHeight[f] /\ p # <<>>
  BY PathEnds
<1>3. \A i \in 1..Len(p) : p[i] \in Ancestors[b] /\ nHeight[p[i]] = nHeight[f] + i
  BY PathEnds
<1>4. c \in Ancestors[b] /\ c \in Block /\ nHeight[c] = nHeight[f] + 1
  <2> HIDE DEF p
  <2>1. c = p[1] /\ 1 \in 1..Len(p)
    BY <1>2
  <2> QED
    BY <2>1, <1>3, AncestorsAreBlocks
<1>5. c # Genesis
  BY <1>1, <1>4, TreeAssumption
<1>6. pprev[c] = f
  <2>1. pprev[c] \in Ancestors[c]
    BY <1>4, <1>5, ParentStep, AncestorsAreBlocks
  <2>2. pprev[c] \in Ancestors[b]
    BY <2>1, <1>4, AncestorsNested
  <2>3. nHeight[pprev[c]] = nHeight[f]
    BY <1>1, <1>4, <1>5, ParentStep
  <2> QED
    BY <2>2, <2>3, SameHeight
<1>7. Tail(p) = q
  <2>1. q \in Seq(Block) /\ Len(q) = nHeight[b] - nHeight[c]
    BY <1>4, PathEnds
  <2>2. \A i \in 1..Len(q) : q[i] \in Ancestors[b] /\ nHeight[q[i]] = nHeight[c] + i
    BY <1>4, PathEnds
  <2> HIDE DEF p, q, c
  <2>3. Tail(p) \in Seq(Block) /\ Len(Tail(p)) = Len(p) - 1
    BY <1>2
  <2>4. Len(Tail(p)) = Len(q)
    BY <2>1, <2>3, <1>1, <1>2, <1>4
  <2>5. ASSUME NEW i \in 1..Len(q) PROVE Tail(p)[i] = q[i]
    <3>1. Tail(p)[i] = p[i + 1] /\ i + 1 \in 1..Len(p)
      BY <2>3, <2>4, <1>2
    <3>2. p[i + 1] \in Ancestors[b] /\ nHeight[p[i + 1]] = nHeight[f] + (i + 1)
      BY <3>1, <1>3
    <3>3. nHeight[q[i]] = nHeight[p[i + 1]]
      <4>1. i \in Nat
        BY <2>1
      <4>2. nHeight[q[i]] = nHeight[c] + i
        BY <2>2
      <4> QED
        BY <4>1, <4>2, <3>2, <1>1, <1>4
    <3> QED
      BY <3>1, <3>2, <3>3, <2>2, SameHeight
  <2> QED
    BY <2>1, <2>3, <2>4, <2>5
<1> QED
  BY <1>4, <1>5, <1>6, <1>7

\* The block a round goes to is on the active chain, above the fork unless the fork
\* is the tip.
LEMMA RoundTipIs ==
    ASSUME tip \in Block, NEW f \in Ancestors[tip]
    PROVE  /\ RoundTip(f) \in Block /\ RoundTip(f) \in Ancestors[tip]
           /\ f \in Ancestors[RoundTip(f)]
           /\ RoundTip(f) = f => f = tip
<1>1. f \in Block /\ nHeight[f] \in Nat /\ nHeight[tip] \in Nat /\ nHeight[f] <= nHeight[tip]
  BY AncestorsAreBlocks, AncestorsNested
<1> DEFINE h == nHeight[f] + WALLET_NOTIFY_MAX_BLOCKS
<1>2. h \in Nat /\ h > nHeight[f]
  BY <1>1, NotifyAssumption
<1>3. CASE nHeight[tip] > h
  <2>1. RoundTip(f) = GetAncestor(tip, h)
    BY <1>3 DEF RoundTip
  <2>2. h \in 0..nHeight[tip]
    BY <1>1, <1>2, <1>3
  <2>3. GetAncestor(tip, h) \in Ancestors[tip] /\ GetAncestor(tip, h) \in Block
        /\ nHeight[GetAncestor(tip, h)] = h
    BY <2>2, GetAncestorIs
  <2>4. f \in Ancestors[GetAncestor(tip, h)]
    BY <1>1, <1>2, <2>3, AncestorsOrdered
  <2> QED
    BY <2>1, <2>3, <2>4, <1>1, <1>2
<1>4. CASE ~(nHeight[tip] > h)
  BY <1>4, AncestorsAreBlocks DEF RoundTip
<1> QED
  BY <1>3, <1>4

-----------------------------------------------------------------------------
(* RoundInv is inductive.                                                   *)

LEMMA RoundInit == Init => RoundInv
<1> SUFFICES ASSUME Init PROVE RoundInv
  OBVIOUS
<1>1. Genesis \in Block /\ Genesis \in Ancestors[Genesis]
  BY TreeAssumption
<1>2. PathFrom(Genesis, Genesis) = <<>>
  BY <1>1, PathEnds
<1>3. Base = Genesis /\ Target = Genesis
  BY DEF Init, Base, Target
<1> QED
  BY <1>1, <1>2, <1>3 DEF Init, RoundInv, RoundType, StackIsPath, NumbersExact, NoSequence

\* Wherever the tip goes.
LEMMA RoundSetTip ==
    ASSUME RoundInv, NEW b \in Block, SetTip(b)
    PROVE  RoundInv'
<1> USE DEF RoundInv
<1>1. UNCHANGED <<notifyPc, forkAt, lastTip, blockStack, sequence, nNotified, diskTip, disk, restarts>>
  BY DEF SetTip, notifyVars, walletVars
<1>2. Base' = Base /\ Target' = Target
  BY <1>1 DEF Base, Target
<1>3. StackIsPath'
  BY <1>1, <1>2 DEF StackIsPath
<1> DEFINE new == Ancestors[b] \ Ancestors[tip]
<1>4. new \subseteq Block /\ b \in Ancestors[b] /\ tip \in Block /\ Target \in Block /\ Base \in Block
  BY AncestorsAreBlocks DEF RoundType, Base
<1>5. Cardinality(new) \in Nat /\ (Cardinality(new) = 0 => new = {})
  <2>1. IsFiniteSet(new)
    BY <1>4, TreeAssumption, FS_Subset
  <2> QED
    BY <2>1, FS_CardinalityType, FS_EmptySet
<1>6. tip' = b /\ recentlyConflicted' = recentlyConflicted \cup new
      /\ nConnected' = nConnected + Cardinality(new)
  BY DEF SetTip
<1>7. Ancestors[b] \ recentlyConflicted' \subseteq Ancestors[tip] \ recentlyConflicted
  BY <1>6
<1>8. new = {} => b \in Ancestors[tip]
  BY <1>4
<1> HIDE DEF new
<1>9. RoundType'
  BY <1>1, <1>2, <1>4, <1>5, <1>6 DEF RoundType
<1>10. NumbersExact'
  <2>1. nNotified' <= nConnected' /\ (sequence' = NoSequence \/ sequence' \in 0..nConnected')
    BY <1>1, <1>5, <1>6 DEF NumbersExact, RoundType, NoSequence
  <2>2. Ancestors[b] \ recentlyConflicted' \subseteq Ancestors[Target]
    BY <1>7 DEF NumbersExact
  <2>3. CASE Cardinality(new) = 0
    <3>1. b \in Ancestors[tip] /\ nConnected' = nConnected
      BY <2>3, <1>5, <1>6, <1>8 DEF RoundType
    <3>2. \A x \in Block : tip \in Ancestors[x] => b \in Ancestors[x]
      BY <3>1, AncestorsNested
    <3>3. /\ sequence = nConnected => b \in Ancestors[Target]
          /\ nNotified = nConnected => blockStack = <<>> /\ b \in Ancestors[Base]
      BY <3>2, <1>4 DEF NumbersExact
    <3> QED
      BY <3>1, <3>3, <2>1, <2>2, <1>1, <1>2, <1>6 DEF NumbersExact
  <2>4. CASE Cardinality(new) # 0
    <3>1. nConnected' > nConnected /\ nConnected \in Nat /\ nConnected' \in Nat
      BY <2>4, <1>5, <1>6 DEF RoundType
    <3>2. sequence' # nConnected' /\ nNotified' # nConnected'
      BY <3>1, <1>1 DEF NumbersExact, RoundType, NoSequence
    <3> QED
      BY <3>2, <2>1, <2>2, <1>1, <1>2, <1>6 DEF NumbersExact
  <2> QED
    BY <2>3, <2>4
<1> QED
  BY <1>3, <1>9, <1>10

\* The steps of the node that move the tip.
LEMMA TipMoves ==
    ASSUME RoundInv, NEW b \in Block, ActivateBestChainStep(b) \/ InvalidateBlock(b)
    PROVE  \E c \in Block : SetTip(c)
<1>1. CASE ActivateBestChainStep(b)
  BY <1>1 DEF ActivateBestChainStep
<1>2. CASE InvalidateBlock(b)
  <2>1. b # Genesis /\ SetTip(pprev[b])
    BY <1>2 DEF InvalidateBlock
  <2> QED
    BY <2>1, ParentStep
<1> QED
  BY <1>1, <1>2

LEMMA RoundCollect ==
    ASSUME RoundInv, Collect
    PROVE  RoundInv'
<1> USE DEF RoundInv
<1> DEFINE fork == FindFork(lastTip, tip)
           goal == RoundTip(fork)
           path == PathFrom(fork, goal)
           left == recentlyConflicted \ {path[i] : i \in 1..Len(path)}
<1>1. /\ notifyPc = "sleep" /\ forkAt' = fork /\ blockStack' = path
      /\ recentlyConflicted' = left
      /\ sequence' = TakenSequence(path, left)
      /\ notifyPc' = Phase(lastTip, fork)
      /\ UNCHANGED <<tip, diskTip, nConnected, lastTip, nNotified, disk, restarts>>
  BY DEF Collect, walletVars
<1>2. tip \in Block /\ lastTip \in Block /\ nConnected \in Nat
  BY DEF RoundType
<1>3. fork \in Block /\ fork \in Ancestors[lastTip] /\ fork \in Ancestors[tip]
  BY <1>2, ForkFound DEF IsFork
<1>4. goal \in Block /\ goal \in Ancestors[tip] /\ fork \in Ancestors[goal] /\ (goal = fork => fork = tip)
  BY <1>2, <1>3, RoundTipIs
<1>5. /\ path \in Seq(Block) /\ (path = <<>> <=> fork = goal)
      /\ fork # goal => path[Len(path)] = goal
      /\ \A i \in 1..Len(path) : path[i] \in Ancestors[goal]
  BY <1>3, <1>4, PathEnds
<1> HIDE DEF fork, goal, path, left
<1>6. notifyPc' = (IF lastTip = fork THEN "connect" ELSE "disconnect")
  BY <1>1 DEF Phase
<1>7. Base' = fork
  BY <1>1, <1>6 DEF Base
<1>8. Target' = goal
  BY <1>1, <1>5, <1>7 DEF Target
<1>9. fork \in Ancestors[lastTip] /\ \A c \in Ancestors[lastTip] \cap Ancestors[tip] : c \in Ancestors[fork]
  <2>1. \A c \in Ancestors[lastTip] \cap Ancestors[tip] : nHeight[c] <= nHeight[fork]
    BY <1>2, ForkFound DEF IsFork, fork
  <2> QED
    BY <2>1, <1>2, <1>3, AncestorsOrdered
<1>10. Ancestors[tip] \ left \subseteq Ancestors[goal]
  <2> SUFFICES ASSUME NEW c \in Ancestors[tip], c \notin left PROVE c \in Ancestors[goal]
    OBVIOUS
  <2>1. CASE c \in recentlyConflicted
    BY <2>1, <1>5 DEF left
  <2>2. CASE c \notin recentlyConflicted
    <3>1. Target = lastTip
      BY <1>1 DEF StackIsPath, Target, Base
    <3>2. c \in Ancestors[lastTip]
      BY <3>1, <2>2 DEF NumbersExact
    <3>3. c \in Ancestors[fork]
      BY <3>2, <1>9
    <3> QED
      BY <3>3, <1>3, <1>4, AncestorsNested
  <2> QED
    BY <2>1, <2>2
<1>11. nNotified = nConnected => fork = tip /\ path = <<>>
  <2> SUFFICES ASSUME nNotified = nConnected PROVE fork = tip /\ path = <<>>
    OBVIOUS
  <2>1. tip \in Ancestors[lastTip]
    BY <1>1 DEF NumbersExact, Base
  <2>2. tip \in Ancestors[fork]
    BY <2>1, <1>2, <1>9, AncestorsAreBlocks
  <2>3. nHeight[tip] = nHeight[fork]
    BY <2>2, <1>2, <1>3, AncestorsNested, AncestorsAreBlocks
  <2>4. fork = tip
    BY <2>3, <1>2, <1>3, SameHeight, AncestorsAreBlocks
  <2>5. goal = fork
    <3>1. nHeight[goal] = nHeight[fork]
      BY <2>4, <1>2, <1>3, <1>4, AncestorsNested, AncestorsAreBlocks
    <3> QED
      BY <3>1, <1>2, <1>3, <1>4, SameHeight
  <2> QED
    BY <2>4, <2>5, <1>5
<1>12. sequence' # NoSequence => tip \in Ancestors[goal]
  <2> SUFFICES ASSUME sequence' # NoSequence PROVE tip \in Ancestors[goal]
    OBVIOUS
  <2>1. tip \in Ancestors[tip]
    BY <1>2, AncestorsAreBlocks
  <2>2. CASE path = <<>>
    BY <2>1, <2>2, <1>4, <1>5
  <2>3. CASE left = {}
    BY <2>1, <2>3, <1>10
  <2> QED
    BY <2>2, <2>3, <1>1 DEF TakenSequence
<1>13. RoundType'
  <2>1. left \subseteq Block
    BY DEF left, RoundType
  <2>2. sequence' \in Int
    BY <1>1, <1>2 DEF TakenSequence, NoSequence
  <2> QED
    BY <2>1, <2>2, <1>1, <1>3, <1>4, <1>6, <1>8 DEF RoundType
<1>14. StackIsPath'
  <2>1. blockStack' = PathFrom(fork, goal)
    BY <1>1 DEF path
  <2>2. PathFrom(Base, Target)' = PathFrom(Base', Target')
    BY DEF PathFrom
  <2> QED
    BY <2>1, <2>2, <1>1, <1>3, <1>4, <1>6, <1>7, <1>8 DEF StackIsPath
<1>15. NumbersExact'
  <2>1. sequence' = NoSequence \/ sequence' = nConnected
    BY <1>1 DEF TakenSequence
  <2>2. nNotified = nConnected => path = <<>> /\ tip \in Ancestors[fork]
    BY <1>2, <1>11, AncestorsAreBlocks
  <2>3. sequence' = nConnected => tip \in Ancestors[goal]
    BY <1>2, <1>12 DEF NoSequence
  <2> QED
    BY <2>1, <2>2, <2>3, <1>1, <1>2, <1>7, <1>8, <1>10 DEF NumbersExact
<1> QED
  BY <1>13, <1>14, <1>15

LEMMA RoundNotifyDisconnect ==
    ASSUME RoundInv, NotifyDisconnect
    PROVE  /\ RoundInv'
           /\ lastTip # Genesis /\ forkAt \in Ancestors[pprev[lastTip]]
           /\ Target' = Target
<1> USE DEF RoundInv
<1>1. /\ notifyPc = "disconnect" /\ disk' = SyncedDisk(lastTip) /\ lastTip' = pprev[lastTip]
      /\ notifyPc' = Phase(lastTip', forkAt)
      /\ UNCHANGED <<tip, diskTip, recentlyConflicted, nConnected, forkAt, blockStack, sequence,
                     nNotified, restarts>>
  BY DEF NotifyDisconnect, chainVars
<1>2. lastTip \in Block /\ forkAt \in Ancestors[lastTip] /\ forkAt # lastTip
  BY <1>1 DEF RoundType, StackIsPath
<1>3. lastTip # Genesis
  BY <1>2, TreeAssumption
<1>4. lastTip' \in Block /\ forkAt \in Ancestors[lastTip']
  BY <1>1, <1>2, <1>3, ParentStep
<1>5. disk'.best = disk.best
  BY <1>1 DEF SyncedDisk
<1>6. Base' = forkAt /\ Base = forkAt
  BY <1>1 DEF Base, Phase
<1>7. Target' = Target
  BY <1>1, <1>6 DEF Target
<1>8. RoundType'
  BY <1>1, <1>4, <1>5, <1>7 DEF RoundType, Phase
<1>9. StackIsPath'
  BY <1>1, <1>4, <1>6, <1>7 DEF StackIsPath, Phase, PathFrom
<1>10. NumbersExact'
  BY <1>1, <1>6, <1>7 DEF NumbersExact
<1> QED
  BY <1>1, <1>3, <1>4, <1>7, <1>8, <1>9, <1>10

LEMMA RoundNotifyConnect ==
    ASSUME RoundInv, NotifyConnect
    PROVE  /\ RoundInv'
           /\ lastTip' \in Block /\ lastTip' # Genesis /\ pprev[lastTip'] = lastTip
           /\ lastTip' \in Ancestors[Target]
           /\ lastTip' = Head(blockStack)
           /\ Target' = Target
<1> USE DEF RoundInv
<1> DEFINE b == Head(blockStack)
<1>1. /\ notifyPc = "connect" /\ blockStack # <<>> /\ blockStack' = Tail(blockStack)
      /\ lastTip' = b
      /\ UNCHANGED <<tip, diskTip, recentlyConflicted, nConnected, notifyPc, forkAt, sequence,
                     nNotified, restarts>>
  BY DEF NotifyConnect, chainVars
<1>2. Base = lastTip /\ Target \in Block /\ lastTip \in Ancestors[Target]
      /\ blockStack = PathFrom(lastTip, Target)
  BY <1>1 DEF Base, RoundType, StackIsPath
<1>3. lastTip # Target
  BY <1>1, <1>2, PathEnds
<1>4. /\ b \in Block /\ b \in Ancestors[Target] /\ b # Genesis /\ pprev[b] = lastTip
      /\ Tail(blockStack) = PathFrom(b, Target)
  BY <1>2, <1>3, PathStep
<1>5. /\ PathFrom(b, Target) = <<>> <=> b = Target
      /\ b # Target => PathFrom(b, Target)[Len(PathFrom(b, Target))] = Target
  BY <1>2, <1>4, PathEnds
<1>6. Base' = b
  BY <1>1 DEF Base
<1>7. Target' = Target
  <2>1. Target' = IF blockStack' = <<>> THEN b ELSE blockStack'[Len(blockStack')]
    BY <1>6 DEF Target
  <2> QED
    BY <2>1, <1>1, <1>4, <1>5
<1>8. disk'.best \in Block
  <2>1. disk' = SyncedDisk(b) \/ disk' = Persisted(Locator(b), notes', nWitnessCacheSize')
    BY DEF NotifyConnect
  <2>2. SyncedDisk(b).best = disk.best
    BY DEF SyncedDisk
  <2>3. Persisted(Locator(b), notes', nWitnessCacheSize').best = b
    BY DEF Persisted, Locator
  <2> QED
    BY <2>1, <2>2, <2>3, <1>4 DEF RoundType
<1>9. RoundType'
  BY <1>1, <1>4, <1>7, <1>8 DEF RoundType
<1>10. StackIsPath'
  BY <1>1, <1>4, <1>6, <1>7 DEF StackIsPath, PathFrom
<1>11. NumbersExact'
  <2>1. nNotified # nConnected
    BY <1>1 DEF NumbersExact
  <2> QED
    BY <2>1, <1>1, <1>7 DEF NumbersExact
<1> QED
  BY <1>1, <1>4, <1>7, <1>9, <1>10, <1>11

LEMMA RoundRoundEnds ==
    ASSUME RoundInv, RoundEnds
    PROVE  RoundInv'
<1> USE DEF RoundInv
<1>1. /\ notifyPc = "connect" /\ blockStack = <<>> /\ notifyPc' = "sleep"
      /\ nNotified' = (IF sequence # NoSequence THEN sequence ELSE nNotified)
      /\ sequence' = NoSequence
      /\ UNCHANGED <<tip, diskTip, recentlyConflicted, nConnected, lastTip, forkAt, blockStack, disk,
                     restarts>>
  BY DEF RoundEnds, chainVars, walletVars
<1>2. Base = lastTip /\ Base' = lastTip /\ Target = lastTip /\ Target' = lastTip
  BY <1>1 DEF Base, Target
<1>3. sequence # NoSequence => sequence \in 0..nConnected
  BY DEF NumbersExact
<1>4. RoundType'
  BY <1>1, <1>2, <1>3 DEF RoundType, NoSequence
<1>5. StackIsPath'
  BY <1>1, <1>2 DEF StackIsPath, PathFrom
<1>6. NumbersExact'
  BY <1>1, <1>2, <1>3 DEF NumbersExact, RoundType, NoSequence
<1> QED
  BY <1>4, <1>5, <1>6

LEMMA RoundRestart ==
    ASSUME RoundInv, Restart
    PROVE  RoundInv'
<1> USE DEF RoundInv
<1>1. /\ tip' = diskTip /\ diskTip' = diskTip /\ recentlyConflicted' = {}
      /\ nConnected' = 0 /\ nNotified' = 0 /\ sequence' = NoSequence
      /\ notifyPc' = "wait" /\ blockStack' = <<>>
      /\ lastTip' = disk'.best /\ forkAt' = disk'.best
      /\ restarts' = restarts + 1
  BY DEF Restart
<1>2. disk'.best \in Block
  <2>1. \/ disk' = disk
        \/ \E ns, size : disk' = Persisted(diskTip, ns, size)
    BY DEF Restart
  <2> QED
    BY <2>1 DEF Persisted, RoundType
<1>3. Base' = lastTip' /\ Target' = lastTip'
  BY <1>1 DEF Base, Target
<1>4. lastTip' \in Ancestors[lastTip'] /\ PathFrom(lastTip', lastTip') = <<>>
  BY <1>1, <1>2, AncestorsAreBlocks, PathEnds
<1>5. RoundType'
  BY <1>1, <1>2, <1>3 DEF RoundType, NoSequence
<1>6. StackIsPath'
  <2>1. PathFrom(Base, Target)' = PathFrom(Base', Target')
    BY DEF PathFrom
  <2> QED
    BY <2>1, <1>1, <1>3, <1>4 DEF StackIsPath
<1>7. diskTip \in Ancestors[disk'.best]
  <2> DEFINE from == RescanFrom(disk.best)
  <2>1. diskTip \in Block /\ disk.best \in Block
    BY DEF RoundType
  <2>2. CASE from # diskTip
    <3>1. \E ns, size : disk' = Persisted(diskTip, ns, size)
      BY <2>2 DEF Restart
    <3> QED
      BY <3>1, <2>1, AncestorsAreBlocks DEF Persisted
  <2>3. CASE from = diskTip
    <3>1. disk' = disk
      BY <2>3 DEF Restart
    <3>2. diskTip \in Ancestors[disk.best]
      BY <2>1, <2>3, ForkFound DEF RescanFrom, IsFork
    <3> QED
      BY <3>1, <3>2
  <2> QED
    BY <2>2, <2>3
<1>8. NumbersExact'
  <2>1. Ancestors[diskTip] \subseteq Ancestors[lastTip']
    BY <1>1, <1>2, <1>7, AncestorsNested
  <2> QED
    BY <2>1, <1>1, <1>3, <1>7 DEF NumbersExact, NoSequence
<1> QED
  BY <1>5, <1>6, <1>8

\* Steps that change nothing the round depends on.
LEMMA RoundRest ==
    ASSUME RoundInv, FlushChain \/ (\E t \in Tx : AddRecent(t)) \/ StartNotifier \/ UNCHANGED vars
    PROVE  RoundInv'
<1>1. /\ UNCHANGED <<tip, recentlyConflicted, nConnected, nNotified, sequence, lastTip, forkAt,
                     blockStack, disk, restarts>>
      /\ diskTip' \in {diskTip, tip}
      /\ notifyPc' = notifyPc \/ (notifyPc = "wait" /\ notifyPc' = "sleep")
  BY DEF FlushChain, AddRecent, StartNotifier, chainVars, notifyVars, walletVars, vars
<1>2. Base' = Base /\ Target' = Target
  BY <1>1 DEF Base, Target
<1>3. RoundType'
  BY <1>1, <1>2 DEF RoundInv, RoundType
<1>4. StackIsPath'
  BY <1>1, <1>2 DEF RoundInv, StackIsPath, PathFrom
<1>5. NumbersExact'
  BY <1>1, <1>2 DEF RoundInv, NumbersExact
<1> QED
  BY <1>3, <1>4, <1>5 DEF RoundInv

LEMMA RoundNext == RoundInv /\ [Next]_vars => RoundInv'
<1> SUFFICES ASSUME RoundInv, [Next]_vars PROVE RoundInv'
  OBVIOUS
<1> QED
  BY TipMoves, RoundSetTip, RoundCollect, RoundNotifyDisconnect, RoundNotifyConnect, RoundRoundEnds,
     RoundRestart, RoundRest
  DEF Next, Node, Notify

\* The notifier's round follows the block tree, wherever the tip goes meanwhile,
\* invalidateblock and steps that end on a lower block included: the blocks on
\* the stack are the path to its target, and a round that takes a number takes the
\* wallet to a block that has the whole active chain below it, unless a block has been
\* connected since.
THEOREM RoundInvariant == Spec => []RoundInv
BY RoundInit, RoundNext, PTL DEF Spec

\* When nNotifiedSequence has caught up with nConnectedSequence, the wallet has been
\* told of every block of the active chain, whatever rounds were cut short by
\* WALLET_NOTIFY_MAX_BLOCKS, wherever the tip went between and during them, and
\* whenever the node was restarted: only blocks to disconnect can be left.
THEOREM ChainFullyNotified == Spec => []FullyNotified
<1>1. RoundInv => FullyNotified
  <2> SUFFICES ASSUME RoundInv, nNotified = nConnected PROVE tip \in Ancestors[lastTip]
    BY DEF FullyNotified
  <2>1. tip \in Ancestors[Base] /\ lastTip \in Block
    BY DEF RoundInv, RoundType, NumbersExact
  <2>2. Base \in Ancestors[lastTip]
    BY <2>1, AncestorsAreBlocks DEF RoundInv, StackIsPath, Base
  <2> QED
    BY <2>1, <2>2, AncestorsNested
<1> QED
  BY <1>1, RoundInvariant, PTL

-----------------------------------------------------------------------------
(* The templates of IncrementNoteWitnesses and DecrementNoteWitnesses, for   *)
(* one note.                                                                *)

LEMMA MinedOnce ==
    ASSUME NEW n \in Note, NEW b \in Block, NEW m \in MinedIn[n] \cap Ancestors[b]
    PROVE  /\ MinedIn[n] \cap Ancestors[b] = {m}
           /\ (CHOOSE c \in MinedIn[n] \cap Ancestors[b] : TRUE) = m
           /\ m \in Block /\ m # Genesis /\ nHeight[m] \in 1..nHeight[b]
<1> DEFINE S == MinedIn[n] \cap Ancestors[b]
<1>1. S \subseteq Block /\ m \in Block
  BY AncestorsAreBlocks
<1>2. IsFiniteSet(S) /\ Cardinality(S) <= 1
  BY <1>1, TreeAssumption, NoteAssumption, FS_Subset
<1>3. S = {m}
  <2> SUFFICES ASSUME NEW c \in S, c # m PROVE FALSE
    OBVIOUS
  <2>1. IsFiniteSet({c, m}) /\ Cardinality({c, m}) = 2
    <3>1. IsFiniteSet({m}) /\ Cardinality({m}) = 1
      BY FS_Singleton
    <3>2. {c, m} = {m} \cup {c} /\ c \notin {m}
      OBVIOUS
    <3> HIDE DEF S
    <3> QED
      BY <3>1, <3>2, FS_AddElement
  <2>2. Cardinality({c, m}) <= Cardinality(S)
    BY <1>2, FS_Subset
  <2>3. Cardinality(S) \in Nat
    BY <1>2, FS_CardinalityType
  <2> QED
    BY <2>1, <2>2, <2>3, <1>2
<1>4. m # Genesis
  BY NoteAssumption
<1>5. nHeight[m] \in Nat /\ nHeight[b] \in Nat /\ nHeight[m] <= nHeight[b] /\ nHeight[m] # 0
  BY <1>1, <1>4, AncestorsNested, AncestorsAreBlocks, ParentStep
<1> QED
  BY <1>1, <1>3, <1>4, <1>5

LEMMA TrueWitnessIs ==
    ASSUME NEW n \in Note, NEW b \in Block, NEW m \in MinedIn[n] \cap Ancestors[b],
           NEW k \in Nat, k = nHeight[b] - nHeight[m] + 1
    PROVE  TrueWitness(n, b) = [i \in 1..k |-> GetAncestor(b, nHeight[m] + i - 1)]
<1> DEFINE c == CHOOSE c \in MinedIn[n] \cap Ancestors[b] : TRUE
<1>1. TrueWitness(n, b) =
         [i \in 1..(nHeight[b] - nHeight[c] + 1) |-> GetAncestor(b, nHeight[c] + i - 1)]
  BY DEF TrueWitness
<1>2. c = m
  BY MinedOnce
<1> HIDE DEF c
<1> QED
  BY <1>1, <1>2

\* The witness of a note in the block it is mined in.
LEMMA TrueWitnessFirst ==
    ASSUME NEW n \in Note, NEW b \in Block, b \in MinedIn[n]
    PROVE  TrueWitness(n, b) = <<b>>
<1>1. b \in MinedIn[n] \cap Ancestors[b] /\ nHeight[b] \in Nat
  BY AncestorsAreBlocks
<1>2. 1 = nHeight[b] - nHeight[b] + 1 /\ nHeight[b] + 1 - 1 = nHeight[b]
  BY <1>1
<1>3. TrueWitness(n, b) = [i \in 1..1 |-> GetAncestor(b, nHeight[b] + i - 1)]
  BY <1>1, <1>2, TrueWitnessIs
<1>5. GetAncestor(b, nHeight[b] + 1 - 1) = b
  BY <1>1, <1>2, GetAncestorOf
<1>6. \A i \in 1..1 : i = 1
  OBVIOUS
<1>7. TrueWitness(n, b) = [i \in 1..1 |-> b]
  BY <1>3, <1>5, <1>6
<1> QED
  BY <1>7

\* A block without the note adds itself to the witness.
LEMMA TrueWitnessNext ==
    ASSUME NEW n \in Note, NEW b \in Block, b # Genesis, b \notin MinedIn[n],
           MinedAt(n, pprev[b])
    PROVE  /\ MinedAt(n, b)
           /\ TrueWitness(n, b) = Append(TrueWitness(n, pprev[b]), b)
<1> DEFINE p == pprev[b]
<1>1. /\ p \in Block /\ nHeight[b] = nHeight[p] + 1 /\ nHeight[p] \in Nat /\ nHeight[b] \in Nat
      /\ Ancestors[b] = Ancestors[p] \cup {b}
  BY ParentStep
<1>2. PICK m \in MinedIn[n] \cap Ancestors[p] : TRUE
  BY DEF MinedAt
<1>3. nHeight[m] \in 1..nHeight[p]
  BY <1>1, <1>2, MinedOnce
<1>4. m \in MinedIn[n] \cap Ancestors[b]
  BY <1>1, <1>2
<1> DEFINE k == nHeight[p] - nHeight[m] + 1
           v == TrueWitness(n, p)
           w == TrueWitness(n, b)
<1>6. k \in Nat /\ k + 1 \in Nat /\ k + 1 = nHeight[b] - nHeight[m] + 1
  BY <1>1, <1>3
<1>7. v = [i \in 1..k |-> GetAncestor(p, nHeight[m] + i - 1)]
  BY <1>1, <1>2, <1>6, TrueWitnessIs
<1>8. w = [i \in 1..(k + 1) |-> GetAncestor(b, nHeight[m] + i - 1)]
  BY <1>4, <1>6, TrueWitnessIs
<1>9. \A i \in 1..k : GetAncestor(p, nHeight[m] + i - 1) = GetAncestor(b, nHeight[m] + i - 1)
  <2> TAKE i \in 1..k
  <2>1. nHeight[m] + i - 1 \in 0..nHeight[p] /\ p \in Ancestors[b]
    BY <1>1, <1>3, AncestorsAreBlocks
  <2> QED
    BY <2>1, GetAncestorBelow
<1>10. \A i \in 1..k : GetAncestor(p, nHeight[m] + i - 1) \in Block
  <2> TAKE i \in 1..k
  <2>1. nHeight[m] + i - 1 \in 0..nHeight[p]
    BY <1>1, <1>3
  <2> QED
    BY <2>1, <1>1, GetAncestorIs
<1>11. GetAncestor(b, nHeight[m] + (k + 1) - 1) = b
  <2>1. nHeight[m] + (k + 1) - 1 = nHeight[b] /\ b \in Ancestors[b]
    BY <1>1, <1>3, AncestorsAreBlocks
  <2> QED
    BY <2>1, GetAncestorOf
<1>12. v \in Seq(Block) /\ Len(v) = k
  <2> HIDE DEF v, k
  <2>1. v \in [1..k -> Block]
    BY <1>7, <1>10
  <2>2. v \in Seq(Block) /\ DOMAIN v = 1..k
    BY <2>1, <1>6
  <2> QED
    BY <2>2, <1>6
<1>13. w = Append(v, b)
  <2> HIDE DEF v, w, k
  <2>1. /\ Append(v, b) \in Seq(Block) /\ Len(Append(v, b)) = k + 1
        /\ \A i \in 1..(k + 1) : Append(v, b)[i] = IF i \in 1..k THEN v[i] ELSE b
    BY <1>12, <1>6
  <2>2. \A i \in 1..(k + 1) : w[i] = IF i \in 1..k THEN v[i] ELSE b
    <3> TAKE i \in 1..(k + 1)
    <3>1. CASE i \in 1..k
      BY <3>1, <1>6, <1>7, <1>8, <1>9
    <3>2. CASE i \notin 1..k
      <4>1. i = k + 1
        BY <3>2, <1>6
      <4> QED
        BY <4>1, <3>2, <1>6, <1>8, <1>11
    <3> QED
      BY <3>1, <3>2
  <2>3. w \in Seq(Block) /\ Len(w) = k + 1
    <3>1. \A i \in 1..(k + 1) : w[i] \in Block
      BY <2>1, <2>2, <1>12
    <3>2. w \in [1..(k + 1) -> Block]
      BY <3>1, <1>8
    <3> QED
      BY <3>2, <1>6
  <2> QED
    BY <2>1, <2>2, <2>3
<1> QED
  BY <1>4, <1>13 DEF MinedAt

LEMMA CopiedIs ==
    ASSUME NEW ws \in Seq(Seq(Block)), ws # <<>>, NEW b \in Block
    PROVE  LET new == Copied(ws, b)
           IN  /\ new \in Seq(Seq(Block))
               /\ Len(new) = (IF Len(ws) + 1 > WITNESS_CACHE_SIZE THEN WITNESS_CACHE_SIZE
                              ELSE Len(ws) + 1)
               /\ new # <<>>
               /\ new[1] = Append(ws[1], b)
               /\ \A i \in 2..Len(new) : new[i] = ws[i - 1]
<1> DEFINE x == Append(Head(ws), b)
           all == <<x>> \o ws
           k == IF Len(all) > WITNESS_CACHE_SIZE THEN WITNESS_CACHE_SIZE ELSE Len(all)
           new == SubSeq(all, 1, k)
<1>1. WITNESS_CACHE_SIZE \in Nat /\ WITNESS_CACHE_SIZE > 1
  BY NoteAssumption DEF WITNESS_CACHE_SIZE
<1>2. Head(ws) = ws[1] /\ x \in Seq(Block) /\ Len(ws) \in Nat /\ Len(ws) > 0
  OBVIOUS
<1> HIDE DEF x
<1>3. all \in Seq(Seq(Block)) /\ Len(all) = Len(ws) + 1 /\ all[1] = x
      /\ \A i \in 2..Len(all) : all[i] = ws[i - 1]
  BY <1>2
<1> HIDE DEF all
<1>4. k \in 1..Len(all) /\ k > 0
  <2>1. Len(all) \in Nat /\ Len(all) > 1
    BY <1>2, <1>3
  <2> QED
    BY <1>1, <2>1
<1> HIDE DEF k
<1>5. new \in Seq(Seq(Block)) /\ Len(new) = k /\ \A i \in 1..k : new[i] = all[i]
  <2>1. k \in Nat /\ Len(all) \in Nat /\ k <= Len(all) /\ \A i \in 1..k : i \in 1..Len(all)
    BY <1>3, <1>4
  <2>2. new = [i \in 1..k |-> all[i]]
    BY <1>3, <2>1
  <2> HIDE DEF new
  <2>3. \A i \in 1..k : all[i] \in Seq(Block)
    BY <1>3, <2>1
  <2>4. new \in [1..k -> Seq(Block)]
    BY <2>2, <2>3
  <2>5. new \in Seq(Seq(Block)) /\ DOMAIN new = 1..k
    BY <2>1, <2>4
  <2>6. Len(new) = k
    BY <2>1, <2>5
  <2> QED
    BY <2>2, <2>5, <2>6
<1>6. Copied(ws, b) = new
  BY DEF Copied, Trimmed, new, k, all, x
<1> HIDE DEF new
<1>7. new[1] = x /\ \A i \in 2..Len(new) : new[i] = ws[i - 1]
  <2>1. 1 \in 1..k /\ \A i \in 2..Len(new) : i \in 1..k /\ i \in 2..Len(all)
    BY <1>3, <1>4, <1>5
  <2> QED
    BY <2>1, <1>3, <1>5
<1>8. new # <<>>
  BY <1>4, <1>5
<1>9. Len(new) = (IF Len(ws) + 1 > WITNESS_CACHE_SIZE THEN WITNESS_CACHE_SIZE ELSE Len(ws) + 1)
  BY <1>3, <1>5 DEF k
<1> QED
  BY <1>2, <1>5, <1>6, <1>7, <1>8, <1>9 DEF x

LEMMA SyncedIs ==
    ASSUME NEW nd \in NoteData
    PROVE  /\ Synced(nd) \in NoteData
           /\ Synced(nd).witnesses = nd.witnesses
           /\ Synced(nd).witnessHeight = nd.witnessHeight
           /\ Synced(nd).spentHeight = -1
BY DEF NoteData, Synced

Rewitnessed(nd, ws, h) == [nd EXCEPT !.witnesses = ws, !.witnessHeight = h]

LEMMA RewitnessedIs ==
    ASSUME NEW nd \in NoteData, NEW ws \in Seq(Seq(Block)), NEW h \in Int
    PROVE  /\ Rewitnessed(nd, ws, h) \in NoteData
           /\ Rewitnessed(nd, ws, h).witnesses = ws
           /\ Rewitnessed(nd, ws, h).witnessHeight = h
           /\ Rewitnessed(nd, ws, h).spentHeight = nd.spentHeight
BY DEF NoteData, Rewitnessed

\* Pruning takes all witnesses or none, and none of a note that is never spent.
LEMMA SpentPrunedIs ==
    ASSUME NEW n \in Note, NEW nd \in NoteData, NEW b \in Block
    PROVE  LET r == SpentPruned(n, nd, b)
           IN  /\ r \in NoteData
               /\ \/ r.witnesses = nd.witnesses /\ r.witnessHeight = nd.witnessHeight
                  \/ r.witnesses = <<>> /\ r.witnessHeight = -1
               /\ r.spentHeight = -1 => r = nd
<1> DEFINE spent == IF b \in SpentIn[n] THEN nHeight[b] ELSE nd.spentHeight
           r == SpentPruned(n, nd, b)
<1>1. spent \in Int /\ nHeight[b] \in Nat /\ <<>> \in Seq(Seq(Block))
  BY AncestorsAreBlocks DEF NoteData
<1>2. spent = -1 => nd.spentHeight = -1
  BY AncestorsAreBlocks
<1>3. r = IF nd.witnesses = <<>> \/ b \notin HasNullifier THEN nd
          ELSE IF spent # -1 /\ spent + WITNESS_CACHE_SIZE < nHeight[b]
               THEN [witnesses |-> <<>>, witnessHeight |-> -1, spentHeight |-> spent]
               ELSE [nd EXCEPT !.spentHeight = spent]
  BY DEF SpentPruned
<1> HIDE DEF spent, r
<1>4. CASE nd.witnesses = <<>> \/ b \notin HasNullifier
  BY <1>3, <1>4 DEF r
<1>5. CASE ~(nd.witnesses = <<>> \/ b \notin HasNullifier)
           /\ spent # -1 /\ spent + WITNESS_CACHE_SIZE < nHeight[b]
  <2>1. r = [witnesses |-> <<>>, witnessHeight |-> -1, spentHeight |-> spent]
    BY <1>3, <1>5
  <2>2. r \in NoteData
    BY <1>1, <2>1 DEF NoteData
  <2> QED
    BY <1>2, <1>5, <2>1, <2>2 DEF r
<1>6. CASE ~(nd.witnesses = <<>> \/ b \notin HasNullifier)
           /\ ~(spent # -1 /\ spent + WITNESS_CACHE_SIZE < nHeight[b])
  <2>1. r = [nd EXCEPT !.spentHeight = spent]
    BY <1>3, <1>6
  <2>2. r \in NoteData /\ r.witnesses = nd.witnesses /\ r.witnessHeight = nd.witnessHeight
        /\ r.spentHeight = spent
    BY <1>1, <2>1 DEF NoteData
  <2>3. nd.spentHeight = -1 /\ spent = -1 => r = nd
    BY <2>1 DEF NoteData
  <2> QED
    BY <1>2, <2>2, <2>3 DEF r
<1> QED
  BY <1>4, <1>5, <1>6

\* What a block does to the witnesses of a note that are below it: nothing, if there
\* are none; the first one, if the note is in the block; one more; or all are pruned.
LEMMA IncrementShape ==
    ASSUME NEW n \in Note, NEW nd \in NoteData, NEW b \in Block,
           nd.witnessHeight < nHeight[b], nd.witnesses = <<>> => nd.witnessHeight = -1
    PROVE  LET v == Witnessed(n, nd, b)
               w == SpentPruned(n, v, b)
               done == IncrementNoteWitness(n, nd, b)
           IN  /\ done \in NoteData
               /\ b \in MinedIn[n] => Len(v.witnesses) = 1
               /\ \/ /\ b \in MinedIn[n] /\ done.witnesses = << <<b>> >>
                     /\ done.witnessHeight = nHeight[b] /\ w.witnessHeight = nHeight[b]
                  \/ /\ done.witnesses = <<>> /\ done.witnessHeight = -1
                     /\ w.witnesses = <<>> /\ w.witnessHeight = -1
                  \/ /\ b \notin MinedIn[n] /\ nd.witnesses # <<>>
                     /\ done.witnesses = Copied(nd.witnesses, b) /\ done.witnessHeight = nHeight[b]
                     /\ w.witnesses = nd.witnesses /\ w.witnessHeight = nd.witnessHeight
               /\ done.spentHeight = -1 =>
                     /\ nd.spentHeight = -1
                     /\ done.witnesses = <<>> => b \notin MinedIn[n] /\ nd.witnesses = <<>>
<1> DEFINE v == Witnessed(n, nd, b)
           w == SpentPruned(n, v, b)
           done == IncrementNoteWitness(n, nd, b)
<1>1. nHeight[b] \in Nat /\ nHeight[b] # -1
  BY AncestorsAreBlocks
<1>2. b \in MinedIn[n] => v \in NoteData /\ v.witnesses = << <<b>> >> /\ v.witnessHeight = nHeight[b]
                          /\ v.spentHeight = nd.spentHeight
  <2> SUFFICES ASSUME b \in MinedIn[n]
               PROVE  v \in NoteData /\ v.witnesses = << <<b>> >> /\ v.witnessHeight = nHeight[b]
                      /\ v.spentHeight = nd.spentHeight
    OBVIOUS
  <2> DEFINE ws == << <<b>> >>
             h == nHeight[b]
  <2>1. v = Rewitnessed(nd, ws, h)
    BY DEF Witnessed, Rewitnessed
  <2>2. ws \in Seq(Seq(Block)) /\ h \in Int
    BY <1>1
  <2> HIDE DEF v, ws, h
  <2>3. v \in NoteData /\ v.witnesses = ws /\ v.witnessHeight = h /\ v.spentHeight = nd.spentHeight
    BY <2>1, <2>2, RewitnessedIs
  <2> QED
    BY <2>3 DEF ws, h
<1>3. b \notin MinedIn[n] => v = nd
  BY DEF Witnessed
<1> HIDE DEF v
<1>4. v \in NoteData
  BY <1>2, <1>3
<1>5. /\ w \in NoteData
      /\ \/ w.witnesses = v.witnesses /\ w.witnessHeight = v.witnessHeight
         \/ w.witnesses = <<>> /\ w.witnessHeight = -1
      /\ w.spentHeight = -1 => w = v
  BY <1>4, SpentPrunedIs
<1>6. done = IF w.witnessHeight < nHeight[b] /\ w.witnesses # <<>>
             THEN [w EXCEPT !.witnesses = Copied(@, b), !.witnessHeight = nHeight[b]] ELSE w
  BY DEF IncrementNoteWitness, Advanced, v
<1> HIDE DEF w, done
<1>7. CASE w.witnesses = <<>>
  <2>1. done = w
    BY <1>6, <1>7
  <2>2. w.witnessHeight = -1
    <3>1. << <<b>> >> # <<>>
      OBVIOUS
    <3> QED
      BY <3>1, <1>2, <1>3, <1>5, <1>7
  <2>3. b \in MinedIn[n] => v.witnesses # <<>>
    <3>1. << <<b>> >> # <<>>
      OBVIOUS
    <3> QED
      BY <3>1, <1>2
  <2>4. b \in MinedIn[n] => Len(v.witnesses) = 1
    BY <1>2
  <2>5. done.spentHeight = -1 =>
           nd.spentHeight = -1 /\ b \notin MinedIn[n] /\ nd.witnesses = <<>>
    BY <2>1, <2>3, <1>2, <1>3, <1>5, <1>7
  <2> QED
    BY <2>1, <2>2, <2>4, <2>5, <1>5, <1>7 DEF v, w, done
<1>8. CASE w.witnesses # <<>> /\ b \in MinedIn[n]
  <2>1. w.witnesses = << <<b>> >> /\ w.witnessHeight = nHeight[b]
    BY <1>2, <1>5, <1>8
  <2>2. done = w
    BY <2>1, <1>1, <1>6
  <2>3. done.spentHeight = -1 => nd.spentHeight = -1
    BY <2>2, <1>2, <1>5, <1>8
  <2>4. Len(v.witnesses) = 1
    BY <1>2, <1>8
  <2> QED
    BY <2>1, <2>2, <2>3, <2>4, <1>5, <1>8 DEF v, w, done
<1>9. CASE w.witnesses # <<>> /\ b \notin MinedIn[n]
  <2>1. v = nd /\ w.witnesses = nd.witnesses /\ w.witnessHeight = nd.witnessHeight
    BY <1>3, <1>5, <1>9
  <2>2. done = Rewitnessed(w, Copied(w.witnesses, b), nHeight[b])
    BY <2>1, <1>6, <1>9 DEF Rewitnessed
  <2>3. Copied(w.witnesses, b) \in Seq(Seq(Block)) /\ Copied(w.witnesses, b) # <<>>
    <3>1. w.witnesses \in Seq(Seq(Block))
      BY <1>5 DEF NoteData
    <3> QED
      BY <3>1, <1>9, CopiedIs
  <2>4. done \in NoteData /\ done.witnesses = Copied(w.witnesses, b) /\ done.witnessHeight = nHeight[b]
        /\ done.spentHeight = w.spentHeight
    <3> DEFINE ws == Copied(w.witnesses, b)
               h == nHeight[b]
    <3>1. ws \in Seq(Seq(Block)) /\ h \in Int /\ w \in NoteData /\ done = Rewitnessed(w, ws, h)
      BY <2>2, <2>3, <1>1, <1>5
    <3> HIDE DEF ws, h
    <3>2. done \in NoteData /\ done.witnesses = ws /\ done.witnessHeight = h
          /\ done.spentHeight = w.spentHeight
      BY <3>1, RewitnessedIs
    <3> QED
      BY <3>2 DEF ws, h
  <2>5. done.spentHeight = -1 => nd.spentHeight = -1
    BY <2>1, <2>4, <1>5
  <2> QED
    BY <2>1, <2>3, <2>4, <2>5, <1>9 DEF v, w, done
<1> QED
  BY <1>7, <1>8, <1>9

\* A block that is scanned again changes nothing, or prunes.
LEMMA IncrementAgain ==
    ASSUME NEW n \in Note, NEW nd \in NoteData, NEW b \in Block, nd.witnessHeight = nHeight[b]
    PROVE  LET done == IncrementNoteWitness(n, nd, b)
           IN  /\ done \in NoteData
               /\ \/ done.witnesses = nd.witnesses /\ done.witnessHeight = nHeight[b]
                  \/ done.witnesses = <<>> /\ done.witnessHeight = -1
<1>1. nHeight[b] \in Nat
  BY AncestorsAreBlocks
<1>2. Witnessed(n, nd, b) = nd
  BY <1>1 DEF Witnessed
<1> DEFINE w == SpentPruned(n, nd, b)
<1>3. /\ w \in NoteData
      /\ \/ w.witnesses = nd.witnesses /\ w.witnessHeight = nd.witnessHeight
         \/ w.witnesses = <<>> /\ w.witnessHeight = -1
  BY SpentPrunedIs
<1>4. IncrementNoteWitness(n, nd, b) = Advanced(w, b)
  BY <1>2 DEF IncrementNoteWitness
<1> HIDE DEF w
<1>5. Advanced(w, b) = w
  BY <1>1, <1>3 DEF Advanced
<1> QED
  BY <1>3, <1>4, <1>5

\* The block that is removed takes the newest witness with it.
LEMMA DecrementShape ==
    ASSUME NEW nd \in NoteData, NEW b \in Block, nd.witnessHeight <= nHeight[b]
    PROVE  LET done == DecrementNoteWitness(nd, b)
           IN  /\ done \in NoteData
               /\ done.spentHeight = nd.spentHeight
               /\ nd.witnesses = <<>> => done.witnesses = <<>>
               /\ nd.witnesses # <<>> =>
                     /\ done.witnesses = Tail(nd.witnesses)
                     /\ Len(done.witnesses) = Len(nd.witnesses) - 1
                     /\ \A i \in 1..Len(done.witnesses) : done.witnesses[i] = nd.witnesses[i + 1]
               /\ done.witnessHeight = IF done.witnesses = <<>> THEN -1 ELSE nHeight[b] - 1
<1> DEFINE ws == Popped(nd.witnesses)
           h == IF ws = <<>> THEN -1 ELSE nHeight[b] - 1
           done == DecrementNoteWitness(nd, b)
<1>1. done = Rewitnessed(nd, ws, h)
  BY DEF DecrementNoteWitness, Rewitnessed
<1>2. nd.witnesses \in Seq(Seq(Block)) /\ nHeight[b] \in Nat
  BY AncestorsAreBlocks DEF NoteData
<1>3. ws \in Seq(Seq(Block))
  BY <1>2 DEF Popped
<1>4. h \in Int
  BY <1>2
<1>5. nd.witnesses = <<>> => ws = <<>>
  BY DEF Popped
<1>6. nd.witnesses # <<>> =>
          /\ ws = Tail(nd.witnesses) /\ Len(ws) = Len(nd.witnesses) - 1
          /\ \A i \in 1..Len(ws) : ws[i] = nd.witnesses[i + 1]
  <2> SUFFICES ASSUME nd.witnesses # <<>>
               PROVE  /\ ws = Tail(nd.witnesses) /\ Len(ws) = Len(nd.witnesses) - 1
                      /\ \A i \in 1..Len(ws) : ws[i] = nd.witnesses[i + 1]
    OBVIOUS
  <2>1. ws = Tail(nd.witnesses)
    BY DEF Popped
  <2> HIDE DEF ws
  <2> QED
    BY <2>1, <1>2
<1> HIDE DEF ws, h, done
<1>7. done \in NoteData /\ done.witnesses = ws /\ done.witnessHeight = h
      /\ done.spentHeight = nd.spentHeight
  BY <1>1, <1>3, <1>4, RewitnessedIs
<1> QED
  BY <1>5, <1>6, <1>7 DEF done, h

LEMMA NoteOkHeight ==
    ASSUME NEW n \in Note, NEW b \in Block, NEW nd, NoteOk(n, nd, b)
    PROVE  /\ nd \in NoteData
           /\ \/ nd.witnesses = <<>> /\ nd.witnessHeight = -1
              \/ nd.witnesses # <<>> /\ nd.witnessHeight = nHeight[b]
           /\ nd.witnessHeight <= nHeight[b] /\ nHeight[b] \in Nat
<1>1. nHeight[b] \in Nat
  BY AncestorsAreBlocks
<1>2. nd \in NoteData /\ (nd.witnesses = <<>> => nd.witnessHeight = -1)
      /\ (nd.witnesses # <<>> => nd.witnessHeight = nHeight[b])
  BY DEF NoteOk, CacheTrue
<1>3. nd.witnessHeight <= nHeight[b]
  BY <1>1, <1>2
<1> QED
  BY <1>1, <1>2, <1>3

LEMMA NoteOkEmpty ==
    ASSUME NEW n, NEW b, NEW nd \in NoteData, nd.witnesses = <<>>, nd.witnessHeight = -1
    PROVE  NoteOk(n, nd, b)
BY DEF NoteOk

\* What NoteOk says depends on the witnesses and their height only.
LEMMA NoteOkSame ==
    ASSUME NEW n, NEW b, NEW nd, NoteOk(n, nd, b), NEW d \in NoteData,
           d.witnesses = nd.witnesses, d.witnessHeight = nd.witnessHeight
    PROVE  NoteOk(n, d, b)
BY DEF NoteOk, CacheTrue

\* Connecting a block keeps the witnesses those of the block and of the ones below.
LEMMA IncrementOk ==
    ASSUME NEW n \in Note, NEW b \in Block, b # Genesis, NEW nd, NoteOk(n, nd, pprev[b])
    PROVE  NoteOk(n, IncrementNoteWitness(n, nd, b), b)
<1> DEFINE p == pprev[b]
           done == IncrementNoteWitness(n, nd, b)
           ws == nd.witnesses
           new == done.witnesses
<1>1. /\ p \in Block /\ nHeight[b] = nHeight[p] + 1 /\ nHeight[p] \in Nat /\ nHeight[b] \in Nat
      /\ p \in Ancestors[b] /\ b \in Ancestors[b] /\ nHeight[b] > 0
  BY ParentStep, AncestorsAreBlocks
<1>2. nd \in NoteData /\ nd.witnessHeight < nHeight[b] /\ (ws = <<>> => nd.witnessHeight = -1)
  BY <1>1, NoteOkHeight
<1>3. /\ done \in NoteData
      /\ \/ b \in MinedIn[n] /\ new = << <<b>> >> /\ done.witnessHeight = nHeight[b]
         \/ new = <<>> /\ done.witnessHeight = -1
         \/ b \notin MinedIn[n] /\ ws # <<>> /\ new = Copied(ws, b) /\ done.witnessHeight = nHeight[b]
  BY <1>2, IncrementShape
<1> HIDE DEF done
<1>4. CASE new = <<>> /\ done.witnessHeight = -1
  BY <1>3, <1>4, NoteOkEmpty DEF done
<1>5. CASE b \in MinedIn[n] /\ new = << <<b>> >> /\ done.witnessHeight = nHeight[b]
  <2>1. Len(new) = 1 /\ new[1] = <<b>> /\ new # <<>>
    BY <1>5
  <2>2. GetAncestor(b, nHeight[b]) = b
    BY <1>1, GetAncestorOf
  <2>3. nHeight[b] - 1 + 1 = nHeight[b]
    BY <1>1
  <2>4. \A i \in 1..Len(new) :
           LET below == GetAncestor(b, nHeight[b] - i + 1)
           IN  MinedIn[n] \cap Ancestors[below] # {} /\ new[i] = TrueWitness(n, below)
    <3> SUFFICES ASSUME NEW i \in 1..Len(new)
                 PROVE  LET below == GetAncestor(b, nHeight[b] - i + 1)
                        IN  MinedIn[n] \cap Ancestors[below] # {} /\ new[i] = TrueWitness(n, below)
      OBVIOUS
    <3>1. i = 1
      BY <2>1
    <3>2. GetAncestor(b, nHeight[b] - i + 1) = b
      BY <3>1, <2>2, <2>3
    <3>3. TrueWitness(n, b) = <<b>>
      BY <1>5, TrueWitnessFirst
    <3> QED
      BY <3>1, <3>2, <3>3, <2>1, <1>1, <1>5
  <2> QED
    BY <2>1, <2>4, <1>1, <1>3, <1>5 DEF NoteOk, CacheTrue, done
<1>6. CASE b \notin MinedIn[n] /\ ws # <<>> /\ new = Copied(ws, b) /\ done.witnessHeight = nHeight[b]
  <2>1. /\ Len(ws) <= nHeight[p]
        /\ \A i \in 1..Len(ws) :
              LET below == GetAncestor(p, nHeight[p] - i + 1)
              IN  MinedIn[n] \cap Ancestors[below] # {} /\ ws[i] = TrueWitness(n, below)
    BY <1>6 DEF NoteOk, CacheTrue
  <2>2. ws \in Seq(Seq(Block))
    BY <1>2 DEF NoteData
  <2>3. /\ new \in Seq(Seq(Block)) /\ new # <<>> /\ new[1] = Append(ws[1], b)
        /\ Len(new) = (IF Len(ws) + 1 > WITNESS_CACHE_SIZE THEN WITNESS_CACHE_SIZE ELSE Len(ws) + 1)
        /\ \A i \in 2..Len(new) : new[i] = ws[i - 1]
    <3> HIDE DEF ws, new
    <3>1. /\ Copied(ws, b) \in Seq(Seq(Block)) /\ Copied(ws, b) # <<>>
          /\ Copied(ws, b)[1] = Append(ws[1], b)
          /\ Len(Copied(ws, b)) = (IF Len(ws) + 1 > WITNESS_CACHE_SIZE THEN WITNESS_CACHE_SIZE
                                   ELSE Len(ws) + 1)
          /\ \A i \in 2..Len(Copied(ws, b)) : Copied(ws, b)[i] = ws[i - 1]
      BY <2>2, <1>6, CopiedIs
    <3> QED
      BY <3>1, <1>6
  <2> HIDE DEF ws, new
  <2>4. Len(ws) \in Nat /\ Len(ws) > 0 /\ Len(new) \in Nat /\ Len(new) <= Len(ws) + 1
    BY <2>2, <2>3, <1>6, NoteAssumption DEF WITNESS_CACHE_SIZE
  <2>5. ASSUME NEW i \in 1..Len(new)
        PROVE  LET below == GetAncestor(b, nHeight[b] - i + 1)
               IN  MinedIn[n] \cap Ancestors[below] # {} /\ new[i] = TrueWitness(n, below)
    <3>1. CASE i = 1
      <4>1. GetAncestor(b, nHeight[b] - i + 1) = b
        <5>1. nHeight[b] - i + 1 = nHeight[b]
          BY <3>1, <1>1
        <5> QED
          BY <5>1, <1>1, GetAncestorOf
      <4>2. GetAncestor(p, nHeight[p] - 1 + 1) = p
        <5>1. nHeight[p] - 1 + 1 = nHeight[p] /\ p \in Ancestors[p]
          BY <1>1, AncestorsAreBlocks
        <5> QED
          BY <5>1, <1>1, GetAncestorOf
      <4>3. 1 \in 1..Len(ws)
        BY <2>4
      <4>4. MinedIn[n] \cap Ancestors[p] # {} /\ ws[1] = TrueWitness(n, p)
        BY <4>2, <4>3, <2>1
      <4>5. MinedIn[n] \cap Ancestors[b] # {} /\ TrueWitness(n, b) = Append(TrueWitness(n, p), b)
        BY <4>4, <1>6, TrueWitnessNext DEF MinedAt
      <4> QED
        BY <4>1, <4>4, <4>5, <3>1, <2>3
    <3>2. CASE i # 1
      <4>1. i \in 2..Len(new) /\ i - 1 \in 1..Len(ws)
        BY <3>2, <2>4
      <4>2. nHeight[b] - i + 1 = nHeight[p] - (i - 1) + 1 /\ nHeight[b] - i + 1 \in 0..nHeight[p]
        <5>1. Len(ws) <= nHeight[p] /\ i \in Nat /\ i >= 2 /\ i - 1 <= Len(ws)
          BY <4>1, <2>1, <2>4
        <5>2. nHeight[p] \in Nat /\ nHeight[b] = nHeight[p] + 1 /\ Len(ws) \in Nat
          BY <2>4, <1>1
        <5> HIDE DEF p
        <5> QED
          BY <5>1, <5>2
      <4>3. GetAncestor(b, nHeight[b] - i + 1) = GetAncestor(p, nHeight[p] - (i - 1) + 1)
        BY <4>2, <1>1, GetAncestorBelow
      <4> QED
        BY <4>1, <4>3, <2>1, <2>3
    <3> QED
      BY <3>1, <3>2
  <2>6. Len(new) <= nHeight[b]
    BY <2>1, <2>4, <1>1
  <2> QED
    BY <2>3, <2>5, <2>6, <1>1, <1>3, <1>6 DEF NoteOk, CacheTrue, done, new
<1> QED
  BY <1>3, <1>4, <1>5, <1>6

LEMMA AgainOk ==
    ASSUME NEW n \in Note, NEW b \in Block, NEW nd, NoteOk(n, nd, b)
    PROVE  NoteOk(n, IncrementNoteWitness(n, nd, b), b)
<1> DEFINE done == IncrementNoteWitness(n, nd, b)
<1>1. /\ nd \in NoteData /\ nHeight[b] \in Nat
      /\ \/ nd.witnesses = <<>> /\ nd.witnessHeight = -1
         \/ nd.witnesses # <<>> /\ nd.witnessHeight = nHeight[b]
  BY NoteOkHeight
<1>2. CASE nd.witnesses # <<>> /\ nd.witnessHeight = nHeight[b]
  <2>1. /\ done \in NoteData
        /\ \/ done.witnesses = nd.witnesses /\ done.witnessHeight = nHeight[b]
           \/ done.witnesses = <<>> /\ done.witnessHeight = -1
    BY <1>1, <1>2, IncrementAgain
  <2> HIDE DEF done
  <2> QED
    BY <2>1, <1>2, NoteOkEmpty, NoteOkSame DEF done
<1>3. CASE nd.witnesses = <<>> /\ nd.witnessHeight = -1 /\ b # Genesis
  <2>1. NoteOk(n, nd, pprev[b])
    BY <1>1, <1>3, NoteOkEmpty
  <2> QED
    BY <2>1, <1>3, IncrementOk
<1>4. CASE nd.witnesses = <<>> /\ nd.witnessHeight = -1 /\ b = Genesis
  <2>1. b \notin MinedIn[n]
    BY <1>4, NoteAssumption
  <2>2. done \in NoteData /\ done.witnesses = <<>> /\ done.witnessHeight = -1
    BY <1>1, <1>4, <2>1, IncrementShape
  <2> HIDE DEF done
  <2> QED
    BY <2>2, NoteOkEmpty DEF done
<1> QED
  BY <1>1, <1>2, <1>3, <1>4

\* Disconnecting it leaves those of the block below.
LEMMA DecrementOk ==
    ASSUME NEW n \in Note, NEW b \in Block, b # Genesis, NEW nd, NoteOk(n, nd, b)
    PROVE  NoteOk(n, DecrementNoteWitness(nd, b), pprev[b])
<1> DEFINE p == pprev[b]
           done == DecrementNoteWitness(nd, b)
           ws == nd.witnesses
           new == done.witnesses
<1>1. /\ p \in Block /\ nHeight[b] = nHeight[p] + 1 /\ nHeight[p] \in Nat /\ nHeight[b] \in Nat
      /\ p \in Ancestors[b]
  BY ParentStep, AncestorsAreBlocks
<1>2. nd \in NoteData /\ nd.witnessHeight <= nHeight[b]
  BY NoteOkHeight
<1>3. /\ done \in NoteData
      /\ ws = <<>> => new = <<>>
      /\ ws # <<>> => /\ Len(new) = Len(ws) - 1
                      /\ \A i \in 1..Len(new) : new[i] = ws[i + 1]
      /\ done.witnessHeight = IF new = <<>> THEN -1 ELSE nHeight[b] - 1
  BY <1>2, DecrementShape
<1> HIDE DEF done
<1>4. CASE new = <<>>
  BY <1>3, <1>4, NoteOkEmpty DEF done
<1>5. CASE new # <<>>
  <2>1. /\ ws # <<>> /\ Len(ws) <= nHeight[b]
        /\ \A i \in 1..Len(ws) :
              LET below == GetAncestor(b, nHeight[b] - i + 1)
              IN  MinedIn[n] \cap Ancestors[below] # {} /\ ws[i] = TrueWitness(n, below)
    BY <1>3, <1>5 DEF NoteOk, CacheTrue
  <2>2. Len(ws) \in Nat /\ Len(new) \in Nat /\ Len(new) = Len(ws) - 1
    <3>1. ws \in Seq(Seq(Block)) /\ new \in Seq(Seq(Block))
      BY <1>2, <1>3 DEF NoteData
    <3> HIDE DEF ws, new
    <3> QED
      BY <3>1, <2>1, <1>3
  <2> HIDE DEF ws, new
  <2>3. ASSUME NEW i \in 1..Len(new)
        PROVE  LET below == GetAncestor(p, nHeight[p] - i + 1)
               IN  MinedIn[n] \cap Ancestors[below] # {} /\ new[i] = TrueWitness(n, below)
    <3>1. i + 1 \in 1..Len(ws) /\ nHeight[p] - i + 1 = nHeight[b] - (i + 1) + 1
          /\ nHeight[p] - i + 1 \in 0..nHeight[p]
      <4>1. Len(ws) <= nHeight[b] /\ i \in Nat /\ i >= 1 /\ i + 1 <= Len(ws)
        BY <2>1, <2>2
      <4>2. nHeight[p] \in Nat /\ nHeight[b] = nHeight[p] + 1 /\ Len(ws) \in Nat
        BY <2>2, <1>1
      <4> HIDE DEF p
      <4> QED
        BY <4>1, <4>2
    <3>2. GetAncestor(b, nHeight[b] - (i + 1) + 1) = GetAncestor(p, nHeight[p] - i + 1)
      BY <3>1, <1>1, GetAncestorBelow
    <3> QED
      BY <3>1, <3>2, <2>1, <1>3
  <2>4. Len(new) <= nHeight[p] /\ done.witnessHeight = nHeight[p]
    BY <2>1, <2>2, <1>1, <1>3, <1>5
  <2> QED
    BY <2>3, <2>4, <1>3, <1>5 DEF NoteOk, CacheTrue, done, new
<1> QED
  BY <1>4, <1>5

-----------------------------------------------------------------------------
(* ScanForWalletTransactions, a loop that Scanned writes as a function of the *)
(* blocks scanned.  That there is such a function is an induction on their    *)
(* number.                                                                  *)

ScanBody(w, from, k, f) ==
    [i \in 0..k |-> IF i = 0 THEN ScanBlock(w, from)
                    ELSE ScanBlock(f[i - 1], GetAncestor(diskTip, nHeight[from] + i))]

LEMMA ScanExists ==
    ASSUME NEW w, NEW from
    PROVE  \A k \in Nat : \E f : f = ScanBody(w, from, k, f)
<1> USE DEF ScanBody
<1> DEFINE S(f, i) == IF i = 0 THEN ScanBlock(w, from)
                      ELSE ScanBlock(f[i - 1], GetAncestor(diskTip, nHeight[from] + i))
           Scans(k) == \E f : f = [i \in 0..k |-> S(f, i)]
           Bad == {k \in Nat : ~Scans(k)}
<1> SUFFICES ASSUME Bad # {} PROVE FALSE
  OBVIOUS
<1>1. PICK k \in Bad : \A j \in Bad : k <= j
  <2>1. Bad \in SUBSET Nat
    OBVIOUS
  <2> HIDE DEF Bad
  <2> QED
    BY <2>1, LeastNatural
<1>2. CASE k = 0
  <2> DEFINE g == [i \in 0..0 |-> ScanBlock(w, from)]
  <2>1. \A i \in 0..0 : i = 0
    OBVIOUS
  <2>2. \A i \in 0..0 : S(g, i) = ScanBlock(w, from)
    BY <2>1
  <2>3. g = [i \in 0..0 |-> S(g, i)]
    <3> HIDE DEF S
    <3> QED
      BY <2>2
  <2>4. Scans(0)
    BY <2>3
  <2> QED
    BY <2>4, <1>1, <1>2
<1>3. CASE k # 0
  <2>1. k \in Nat /\ k - 1 \in Nat /\ Scans(k - 1)
    <3> HIDE DEF Scans
    <3> QED
      BY <1>1, <1>3
  <2>2. PICK f : f = [i \in 0..(k - 1) |-> S(f, i)]
    BY <2>1
  <2> DEFINE g == [i \in 0..k |-> IF i = k THEN S(f, k) ELSE f[i]]
  <2>3. \A i \in 0..k : g[i] = S(g, i)
    <3> SUFFICES ASSUME NEW i \in 0..k PROVE g[i] = S(g, i)
      OBVIOUS
    <3>1. \A j \in 0..(k - 1) : g[j] = f[j] /\ f[j] = S(f, j)
      BY <2>1, <2>2
    <3>2. S(g, i) = S(f, i)
      <4>1. CASE i = 0
        BY <4>1
      <4>2. CASE i # 0
        <5>1. i - 1 \in 0..(k - 1)
          BY <4>2, <2>1
        <5>2. g[i - 1] = f[i - 1]
          BY <5>1, <3>1
        <5> HIDE DEF g
        <5> QED
          BY <5>2, <4>2
      <4> QED
        BY <4>1, <4>2
    <3>3. CASE i = k
      BY <3>2, <3>3
    <3>4. CASE i # k
      <4>1. i \in 0..(k - 1)
        BY <3>4, <2>1
      <4> HIDE DEF g, S
      <4> QED
        BY <4>1, <3>1, <3>2
    <3> QED
      BY <3>3, <3>4
  <2>4. g = [i \in 0..k |-> S(g, i)]
    <3>1. g = [i \in 0..k |-> g[i]]
      OBVIOUS
    <3> HIDE DEF g, S
    <3> QED
      BY <3>1, <2>3
  <2>5. Scans(k)
    BY <2>4
  <2> QED
    BY <2>5, <1>1
<1> QED
  BY <1>2, <1>3

\* A step of the scan, and its result.
LEMMA ScannedIs ==
    ASSUME NEW w, NEW from, NEW N \in Nat, N = nHeight[diskTip] - nHeight[from]
    PROVE  \E f : /\ f[0] = ScanBlock(w, from)
                  /\ \A i \in 1..N : f[i] = ScanBlock(f[i - 1], GetAncestor(diskTip, nHeight[from] + i))
                  /\ Scanned(w, from) = f[N]
<1> DEFINE scan == CHOOSE f : f = ScanBody(w, from, N, f)
<1>1. Scanned(w, from) = scan[N]
  BY DEF Scanned, ScanBody
<1>2. scan = ScanBody(w, from, N, scan)
  <2>1. \E f : f = ScanBody(w, from, N, f)
    BY ScanExists
  <2> QED
    BY <2>1
<1> HIDE DEF scan
<1>3. 0 \in 0..N /\ \A i \in 1..N : i \in 0..N /\ i # 0
  OBVIOUS
<1> QED
  BY <1>1, <1>2, <1>3 DEF ScanBody

-----------------------------------------------------------------------------
(* CacheInv is inductive when wallet and chain were written in step at       *)
(* every restart.                                                           *)

LEMMA CacheSizeIs == WITNESS_CACHE_SIZE \in Nat /\ WITNESS_CACHE_SIZE = MAX_REORG_LENGTH + 1
                     /\ MAX_REORG_LENGTH \in Nat /\ MAX_REORG_LENGTH > 0
BY NoteAssumption DEF WITNESS_CACHE_SIZE

\* The cache has room for one more block, and IncrementNoteWitnesses finds what it
\* asserts.
LEMMA IncrementFits ==
    ASSUME NEW n \in Note, NEW b \in Block, NEW nd \in NoteData, nd.witnessHeight < nHeight[b],
           nd.witnessHeight \in {-1, nHeight[b] - 1}, nd.witnesses = <<>> => nd.witnessHeight = -1,
           NEW size \in 0..WITNESS_CACHE_SIZE, Len(nd.witnesses) <= size
    PROVE  /\ IncrementAsserts(n, nd, b, size)
           /\ Len(IncrementNoteWitness(n, nd, b).witnesses) <= Grown(size)
<1> DEFINE v == Witnessed(n, nd, b)
           w == SpentPruned(n, v, b)
           done == IncrementNoteWitness(n, nd, b)
           ws == nd.witnesses
<1>1. nHeight[b] \in Nat
  BY AncestorsAreBlocks
<1>2. /\ nd \in NoteData /\ nd.witnessHeight < nHeight[b]
      /\ nd.witnessHeight \in {-1, nHeight[b] - 1} /\ (ws = <<>> => nd.witnessHeight = -1)
  OBVIOUS
<1>3. /\ b \in MinedIn[n] => Len(v.witnesses) = 1
      /\ \/ /\ done.witnesses = << <<b>> >> /\ w.witnessHeight = nHeight[b]
         \/ /\ done.witnesses = <<>> /\ w.witnesses = <<>> /\ w.witnessHeight = -1
         \/ /\ ws # <<>> /\ done.witnesses = Copied(ws, b)
            /\ w.witnesses = ws /\ w.witnessHeight = nd.witnessHeight
  BY <1>2, IncrementShape
<1>4. size \in Nat /\ Grown(size) \in Nat /\ Grown(size) >= 1
      /\ Grown(size) = (IF size < WITNESS_CACHE_SIZE THEN size + 1 ELSE size)
  BY CacheSizeIs DEF Grown
<1>5. ws \in Seq(Seq(Block)) /\ Len(ws) \in Nat
  BY <1>2 DEF NoteData
<1>6. Len(<<>>) = 0 /\ Len(<< <<b>> >>) = 1
  OBVIOUS
<1>7. ws # <<>> => Len(Copied(ws, b)) <= Grown(size)
  <2> HIDE DEF ws
  <2> SUFFICES ASSUME ws # <<>> PROVE Len(Copied(ws, b)) <= Grown(size)
    OBVIOUS
  <2>1. Len(Copied(ws, b)) = (IF Len(ws) + 1 > WITNESS_CACHE_SIZE THEN WITNESS_CACHE_SIZE ELSE Len(ws) + 1)
    BY <1>5, CopiedIs
  <2>2. Len(ws) <= size
    BY DEF ws
  <2> QED
    BY <2>1, <2>2, <1>4, <1>5, CacheSizeIs
<1> HIDE DEF v, w, done, ws
<1>8. Len(done.witnesses) <= Grown(size)
  <2>1. CASE done.witnesses = << <<b>> >>
    BY <2>1, <1>4, <1>6
  <2>2. CASE done.witnesses = <<>>
    <3>1. Len(done.witnesses) = 0
      BY <2>2, <1>6
    <3> QED
      BY <3>1, <1>4
  <2>3. CASE ws # <<>> /\ done.witnesses = Copied(ws, b)
    BY <2>3, <1>7
  <2> QED
    BY <2>1, <2>2, <2>3, <1>3
<1>9. w.witnessHeight < nHeight[b] =>
          /\ size >= Len(w.witnesses) /\ w.witnessHeight \in {-1, nHeight[b] - 1}
          /\ w.witnesses = <<>> => w.witnessHeight = -1
  <2> SUFFICES ASSUME w.witnessHeight < nHeight[b]
               PROVE  /\ size >= Len(w.witnesses) /\ w.witnessHeight \in {-1, nHeight[b] - 1}
                      /\ w.witnesses = <<>> => w.witnessHeight = -1
    OBVIOUS
  <2>1. CASE w.witnesses = <<>> /\ w.witnessHeight = -1
    BY <2>1, <1>4, <1>6
  <2>2. CASE w.witnesses = ws /\ w.witnessHeight = nd.witnessHeight
    BY <2>2, <1>2, <1>4, <1>5 DEF ws
  <2> QED
    BY <2>1, <2>2, <1>1, <1>3
<1>10. b \in MinedIn[n] => Grown(size) >= Len(v.witnesses)
  BY <1>3, <1>4
<1>11. IncrementAsserts(n, nd, b, size)
  <2>1. IncrementAsserts(n, nd, b, size) <=>
            /\ w.witnessHeight < nHeight[b] =>
                  /\ size >= Len(w.witnesses)
                  /\ w.witnessHeight \in {-1, nHeight[b] - 1}
                  /\ Grown(size) >= Len(done.witnesses)
                  /\ w.witnesses = <<>> => w.witnessHeight = -1
            /\ b \in MinedIn[n] => Grown(size) >= Len(v.witnesses)
    BY DEF IncrementAsserts, w, v, done
  <2>2. Grown(size) >= Len(done.witnesses)
    <3>1. Len(done.witnesses) \in Int
      BY <1>2, IncrementShape DEF done, NoteData
    <3> QED
      BY <3>1, <1>4, <1>8
  <2> QED
    BY <2>1, <2>2, <1>9, <1>10
<1> QED
  BY <1>8, <1>11 DEF done

\* Nor does a block that is scanned again break an assertion.
LEMMA AgainFits ==
    ASSUME NEW n \in Note, NEW b \in Block, NEW nd \in NoteData, nd.witnessHeight = nHeight[b],
           NEW size \in 0..WITNESS_CACHE_SIZE, Len(nd.witnesses) <= size
    PROVE  /\ IncrementAsserts(n, nd, b, size)
           /\ Len(IncrementNoteWitness(n, nd, b).witnesses) <= Grown(size)
<1> DEFINE w == SpentPruned(n, nd, b)
           done == IncrementNoteWitness(n, nd, b)
<1>1. nHeight[b] \in Nat
  BY AncestorsAreBlocks
<1>2. Witnessed(n, nd, b) = nd
  BY <1>1 DEF Witnessed
<1>3. /\ w \in NoteData
      /\ \/ w.witnesses = nd.witnesses /\ w.witnessHeight = nd.witnessHeight
         \/ w.witnesses = <<>> /\ w.witnessHeight = -1
  BY SpentPrunedIs
<1>4. done = Advanced(w, b)
  BY <1>2 DEF IncrementNoteWitness
<1> HIDE DEF w
<1>5. done = w
  BY <1>1, <1>3, <1>4 DEF Advanced
<1>6. size \in Nat /\ Grown(size) \in Nat /\ Grown(size) >= size /\ Len(nd.witnesses) \in Nat
      /\ Len(<<>>) = 0
  BY CacheSizeIs DEF Grown, NoteData
<1>7. IncrementAsserts(n, nd, b, size) <=>
          /\ w.witnessHeight < nHeight[b] =>
                /\ size >= Len(w.witnesses)
                /\ w.witnessHeight \in {-1, nHeight[b] - 1}
                /\ Grown(size) >= Len(done.witnesses)
                /\ w.witnesses = <<>> => w.witnessHeight = -1
          /\ b \in MinedIn[n] => Grown(size) >= Len(nd.witnesses)
  BY <1>2 DEF IncrementAsserts, w
<1> HIDE DEF done
<1>8. CASE w.witnesses = nd.witnesses /\ w.witnessHeight = nd.witnessHeight
  <2>1. Len(done.witnesses) <= Grown(size)
    BY <1>5, <1>6, <1>8
  <2>2. ~(w.witnessHeight < nHeight[b])
    BY <1>1, <1>8
  <2>3. Grown(size) >= Len(nd.witnesses)
    BY <1>6
  <2> QED
    BY <2>1, <2>2, <2>3, <1>7 DEF done
<1>9. CASE w.witnesses = <<>> /\ w.witnessHeight = -1
  <2>1. Len(w.witnesses) = 0 /\ Len(done.witnesses) = 0
    BY <1>5, <1>6, <1>9
  <2> QED
    BY <2>1, <1>6, <1>7, <1>9 DEF done
<1> QED
  BY <1>3, <1>8, <1>9

\* And so does DecrementNoteWitnesses.
LEMMA DecrementFits ==
    ASSUME NEW n \in Note, NEW b \in Block, NEW nd, NoteOk(n, nd, b),
           NEW size \in Nat, Len(nd.witnesses) <= size
    PROVE  /\ DecrementAsserts(nd, b, size)
           /\ Len(DecrementNoteWitness(nd, b).witnesses) <= Shrunk(size)
<1> DEFINE done == DecrementNoteWitness(nd, b)
           ws == nd.witnesses
<1>1. /\ nd \in NoteData /\ nd.witnessHeight <= nHeight[b] /\ nHeight[b] \in Nat
      /\ nd.witnessHeight \in {-1, nHeight[b]}
  BY NoteOkHeight
<1>2. /\ done \in NoteData
      /\ ws = <<>> => done.witnesses = <<>>
      /\ ws # <<>> => Len(done.witnesses) = Len(ws) - 1
  BY <1>1, DecrementShape
<1>3. Len(ws) \in Nat /\ Len(<<>>) = 0
  BY <1>1 DEF NoteData
<1> HIDE DEF done, ws
<1>4. Len(done.witnesses) \in Nat
  BY <1>2 DEF NoteData
<1>5. Len(ws) <= size
  BY DEF ws
<1>6. Len(done.witnesses) <= Shrunk(size)
  <2>1. CASE ws = <<>>
    <3>1. Len(done.witnesses) = 0
      BY <2>1, <1>2, <1>3
    <3> QED
      BY <3>1 DEF Shrunk
  <2>2. CASE ws # <<>>
    <3>1. Len(ws) > 0 /\ Len(done.witnesses) = Len(ws) - 1
      BY <2>2, <1>1, <1>2, <1>3 DEF ws, NoteData
    <3> QED
      BY <3>1, <1>3, <1>5 DEF Shrunk
  <2> QED
    BY <2>1, <2>2
<1>7. size = 0 \/ size - 1 >= Len(done.witnesses)
  BY <1>4, <1>6 DEF Shrunk
<1>8. DecrementAsserts(nd, b, size) <=>
          /\ nd.witnessHeight <= nHeight[b] =>
                /\ size >= Len(ws)
                /\ nd.witnessHeight \in {-1, nHeight[b]}
          /\ done.witnessHeight < nHeight[b] => size = 0 \/ size - 1 >= Len(done.witnesses)
  BY DEF DecrementAsserts, done, ws
<1> QED
  BY <1>1, <1>3, <1>5, <1>6, <1>7, <1>8 DEF done

LEMMA SyncedOk ==
    ASSUME NEW n \in Note, NEW b, NEW nd, NoteOk(n, nd, b)
    PROVE  NoteOk(n, Synced(nd), b)
<1>1. nd \in NoteData
  BY DEF NoteOk
<1> QED
  BY <1>1, SyncedIs, NoteOkSame

\* One block for all notes, whether it comes after p or is scanned again.
LEMMA NotesIncrement ==
    ASSUME NEW ns, NEW b \in Block, NEW p, NotesOk(ns, p),
           p = b \/ (b # Genesis /\ p = pprev[b])
    PROVE  \A n \in Note :
              NoteOk(n, IncrementNoteWitness(n, IF b \in MinedIn[n] THEN Synced(ns[n]) ELSE ns[n], b), b)
<1> TAKE n \in Note
<1> DEFINE nd == IF b \in MinedIn[n] THEN Synced(ns[n]) ELSE ns[n]
<1>1. NoteOk(n, nd, p)
  BY SyncedOk DEF NotesOk
<1> HIDE DEF nd
<1>2. NoteOk(n, IncrementNoteWitness(n, nd, b), b)
  BY <1>1, AgainOk, IncrementOk
<1> QED
  BY <1>2 DEF nd

LEMMA NotesFit ==
    ASSUME NEW ns, NEW b \in Block, NEW p, NotesOk(ns, p),
           p = b \/ (b # Genesis /\ p = pprev[b]),
           NEW size \in 0..WITNESS_CACHE_SIZE, Fits(ns, size)
    PROVE  \A n \in Note :
              LET nd == IF b \in MinedIn[n] THEN Synced(ns[n]) ELSE ns[n]
              IN  /\ IncrementAsserts(n, nd, b, size)
                  /\ Len(IncrementNoteWitness(n, nd, b).witnesses) <= Grown(size)
<1> TAKE n \in Note
<1> DEFINE nd == IF b \in MinedIn[n] THEN Synced(ns[n]) ELSE ns[n]
<1>1. NoteOk(n, nd, p)
  BY SyncedOk DEF NotesOk
<1>2. ns[n] \in NoteData /\ Len(ns[n].witnesses) <= size
  BY DEF NotesOk, NoteOk, Fits
<1>3. Len(nd.witnesses) <= size
  BY <1>2, SyncedIs
<1> HIDE DEF nd
<1>4. p \in Block
  BY ParentStep
<1>5. /\ nd \in NoteData /\ nHeight[b] \in Nat
      /\ \/ nd.witnesses = <<>> /\ nd.witnessHeight = -1
         \/ nd.witnesses # <<>> /\ nd.witnessHeight = nHeight[p]
  BY <1>1, <1>4, NoteOkHeight, AncestorsAreBlocks
<1>6. IncrementAsserts(n, nd, b, size) /\ Len(IncrementNoteWitness(n, nd, b).witnesses) <= Grown(size)
  <2>1. CASE nd.witnesses = <<>> /\ nd.witnessHeight = -1
    <3>1. nd.witnessHeight < nHeight[b] /\ nd.witnessHeight \in {-1, nHeight[b] - 1}
      BY <2>1, <1>5
    <3> QED
      BY <3>1, <2>1, <1>3, <1>5, IncrementFits
  <2>2. CASE nd.witnesses # <<>> /\ nd.witnessHeight = nHeight[p] /\ p = b
    BY <2>2, <1>3, <1>5, AgainFits
  <2>3. CASE nd.witnesses # <<>> /\ nd.witnessHeight = nHeight[p] /\ p # b
    <3>1. nHeight[b] = nHeight[p] + 1 /\ nHeight[p] \in Nat
      BY <2>3, ParentStep
    <3>2. nd.witnessHeight < nHeight[b] /\ nd.witnessHeight \in {-1, nHeight[b] - 1}
      BY <3>1, <2>3
    <3> QED
      BY <3>2, <2>3, <1>3, <1>5, IncrementFits
  <2> QED
    BY <2>1, <2>2, <2>3, <1>5
<1> QED
  BY <1>6 DEF nd

\* A wallet that is as it should be when the scan is at block b.
ScanOk(w, b) ==
    /\ NotesOk(w.notes, b)
    /\ w.size \in 0..WITNESS_CACHE_SIZE
    /\ Fits(w.notes, w.size)
    /\ ~w.failed

LEMMA ScanBlockOk ==
    ASSUME NEW w, NEW b \in Block, NEW p, ScanOk(w, p),
           p = b \/ (b # Genesis /\ p = pprev[b])
    PROVE  ScanOk(ScanBlock(w, b), b)
<1> DEFINE ns == w.notes
           synced == [n \in Note |-> IF b \in MinedIn[n] THEN Synced(ns[n]) ELSE ns[n]]
           done == [n \in Note |-> IncrementNoteWitness(n, synced[n], b)]
           size == w.size
<1>1. /\ ScanBlock(w, b).notes = done /\ ScanBlock(w, b).size = Grown(size)
      /\ ScanBlock(w, b).failed = (w.failed \/ \E n \in Note : ~IncrementAsserts(n, synced[n], b, size))
  BY DEF ScanBlock
<1>2. \A n \in Note :
         /\ done[n] = IncrementNoteWitness(n, IF b \in MinedIn[n] THEN Synced(ns[n]) ELSE ns[n], b)
         /\ synced[n] = IF b \in MinedIn[n] THEN Synced(ns[n]) ELSE ns[n]
  OBVIOUS
<1>3. DOMAIN done = Note
  OBVIOUS
<1> HIDE DEF done, synced, ns, size
<1>4. NotesOk(ns, p) /\ size \in 0..WITNESS_CACHE_SIZE /\ Fits(ns, size) /\ ~w.failed
  BY DEF ScanOk, ns, size
<1>5. \A n \in Note : NoteOk(n, done[n], b)
  BY <1>2, <1>4, NotesIncrement
<1>6. \A n \in Note : IncrementAsserts(n, synced[n], b, size) /\ Len(done[n].witnesses) <= Grown(size)
  <2> TAKE n \in Note
  <2> DEFINE nd == IF b \in MinedIn[n] THEN Synced(ns[n]) ELSE ns[n]
  <2>1. IncrementAsserts(n, nd, b, size) /\ Len(IncrementNoteWitness(n, nd, b).witnesses) <= Grown(size)
    BY <1>4, NotesFit
  <2>2. synced[n] = nd /\ done[n] = IncrementNoteWitness(n, nd, b)
    BY <1>2
  <2> HIDE DEF nd
  <2> QED
    BY <2>1, <2>2
<1>7. Grown(size) \in 0..WITNESS_CACHE_SIZE
  BY <1>4, CacheSizeIs DEF Grown
<1>8. ~ScanBlock(w, b).failed
  BY <1>1, <1>4, <1>6
<1> QED
  BY <1>1, <1>3, <1>5, <1>6, <1>7, <1>8 DEF ScanOk, NotesOk, Fits

\* A rescan along the branch brings the witnesses to its tip.
LEMMA RescanOk ==
    ASSUME diskTip \in Block, NEW from \in Ancestors[diskTip], NEW w, ScanOk(w, from)
    PROVE  ScanOk(Scanned(w, from), diskTip)
<1> DEFINE N == nHeight[diskTip] - nHeight[from]
           At(i) == GetAncestor(diskTip, nHeight[from] + i)
<1>1. from \in Block /\ nHeight[from] \in Nat /\ nHeight[diskTip] \in Nat /\ N \in Nat
  BY AncestorsAreBlocks, AncestorsNested
<1>2. PICK f : /\ f[0] = ScanBlock(w, from)
               /\ \A i \in 1..N : f[i] = ScanBlock(f[i - 1], At(i))
               /\ Scanned(w, from) = f[N]
  BY <1>1, ScannedIs
<1>3. \A i \in 0..N : At(i) \in Ancestors[diskTip] /\ At(i) \in Block /\ nHeight[At(i)] = nHeight[from] + i
  BY <1>1, GetAncestorIs
<1>4. At(0) = from /\ At(N) = diskTip
  <2>1. nHeight[from] + 0 = nHeight[from] /\ nHeight[from] + N = nHeight[diskTip]
        /\ diskTip \in Ancestors[diskTip]
    BY <1>1, AncestorsAreBlocks
  <2> QED
    BY <2>1, GetAncestorOf
<1>5. \A i \in 1..N : At(i) # Genesis /\ pprev[At(i)] = At(i - 1)
  <2> TAKE i \in 1..N
  <2>1. i \in 0..N /\ i - 1 \in 0..N /\ nHeight[from] + i > 0
    BY <1>1
  <2>2. At(i) # Genesis
    BY <2>1, <1>3, TreeAssumption
  <2>3. pprev[At(i)] \in Ancestors[At(i)] /\ nHeight[At(i)] = nHeight[pprev[At(i)]] + 1
        /\ nHeight[pprev[At(i)]] \in Nat
    BY <2>1, <2>2, <1>3, ParentStep, AncestorsAreBlocks
  <2>4. pprev[At(i)] \in Ancestors[diskTip]
    BY <2>1, <2>3, <1>3, AncestorsNested
  <2>5. nHeight[pprev[At(i)]] = nHeight[At(i - 1)]
    <3>1. nHeight[At(i)] = nHeight[from] + i /\ nHeight[At(i - 1)] = nHeight[from] + (i - 1)
      BY <2>1, <1>3
    <3> HIDE DEF At
    <3> QED
      BY <3>1, <2>1, <2>3, <1>1
  <2>6. At(i - 1) \in Ancestors[diskTip]
    BY <2>1, <1>3
  <2> HIDE DEF At
  <2> QED
    BY <2>2, <2>4, <2>5, <2>6, SameHeight
<1> HIDE DEF At
<1> DEFINE Bad == {i \in 0..N : ~ScanOk(f[i], At(i))}
<1>6. Bad = {}
  <2> SUFFICES ASSUME Bad # {} PROVE FALSE
    OBVIOUS
  <2>1. Bad \in SUBSET Nat
    OBVIOUS
  <2>2. PICK k \in Bad : \A j \in Bad : k <= j
    <3> HIDE DEF Bad
    <3> QED
      BY <2>1, LeastNatural
  <2>3. CASE k = 0
    BY <2>2, <2>3, <1>1, <1>2, <1>4, ScanBlockOk
  <2>4. CASE k # 0
    <3>1. k \in 1..N /\ k - 1 \in 0..N /\ k - 1 \notin Bad
      BY <2>2, <2>4, <1>1
    <3>2. ScanOk(f[k - 1], At(k - 1))
      BY <3>1
    <3>3. ScanOk(ScanBlock(f[k - 1], At(k)), At(k))
      BY <3>1, <3>2, <1>3, <1>5, ScanBlockOk
    <3> QED
      BY <3>1, <3>3, <2>2, <1>2
  <2> QED
    BY <2>3, <2>4
<1>7. ScanOk(f[N], At(N))
  BY <1>1, <1>6
<1> QED
  BY <1>2, <1>4, <1>7

LEMMA NotesConnect ==
    ASSUME RoundInv, NotesOk(notes, lastTip), NotifyConnect
    PROVE  NotesOk(notes', lastTip')
<1> DEFINE b == Head(blockStack)
           synced == SyncedNotes(b)
<1>1. b \in Block /\ b # Genesis /\ pprev[b] = lastTip /\ lastTip' = b
  BY RoundNotifyConnect
<1>2. notes' = [n \in Note |-> IncrementNoteWitness(n, synced[n], b)]
  BY DEF NotifyConnect
<1>3. \A n \in Note : synced[n] = IF b \in MinedIn[n] THEN Synced(notes[n]) ELSE notes[n]
  BY DEF SyncedNotes
<1> HIDE DEF b, synced
<1>4. \A n \in Note : NoteOk(n, notes'[n], b)
  <2>1. \A n \in Note : notes'[n] = IncrementNoteWitness(n, IF b \in MinedIn[n] THEN Synced(notes[n]) ELSE notes[n], b)
    BY <1>2, <1>3
  <2> QED
    BY <2>1, <1>1, NotesIncrement
<1>5. DOMAIN notes' = Note
  BY <1>2
<1> QED
  BY <1>1, <1>4, <1>5 DEF NotesOk

LEMMA NotesDisconnect ==
    ASSUME RoundInv, NotesOk(notes, lastTip), NotifyDisconnect
    PROVE  NotesOk(notes', lastTip')
<1> DEFINE synced == SyncedNotes(lastTip)
<1>1. lastTip \in Block /\ lastTip # Genesis /\ lastTip' = pprev[lastTip]
  BY RoundNotifyDisconnect DEF RoundInv, RoundType, NotifyDisconnect
<1>2. notes' = [n \in Note |-> DecrementNoteWitness(synced[n], lastTip)]
  BY DEF NotifyDisconnect
<1>3. \A n \in Note : NoteOk(n, synced[n], lastTip)
  BY SyncedOk DEF SyncedNotes, NotesOk
<1> HIDE DEF synced
<1>4. \A n \in Note : NoteOk(n, notes'[n], pprev[lastTip])
  BY <1>1, <1>2, <1>3, DecrementOk
<1>5. DOMAIN notes' = Note
  BY <1>2
<1> QED
  BY <1>1, <1>4, <1>5 DEF NotesOk

\* What SyncTransaction writes leaves the disk in step only where it writes no
\* witnesses.
LEMMA SyncedDiskOk ==
    ASSUME CacheInv, NEW b
    PROVE  LET d == SyncedDisk(b)
           IN  /\ d.notes \in [Note -> NoteData]
               /\ d.inStep \in BOOLEAN
               /\ d.inStep => NotesOk(d.notes, d.best) /\ Fits(d.notes, d.size)
               /\ d.size = disk.size
<1> DEFINE ns == [n \in Note |-> IF b \in MinedIn[n] THEN Synced(notes[n]) ELSE disk.notes[n]]
           step == disk.inStep /\ \A n \in Note : b \in MinedIn[n] => notes[n].witnesses = <<>>
           d == SyncedDisk(b)
<1>1. d.notes = ns /\ d.inStep = step /\ d.best = disk.best /\ d.size = disk.size
  BY DEF SyncedDisk
<1>2. \A n \in Note : notes[n] \in NoteData /\ Synced(notes[n]) \in NoteData
                      /\ Synced(notes[n]).witnesses = notes[n].witnesses
                      /\ Synced(notes[n]).witnessHeight = notes[n].witnessHeight
                      /\ (notes[n].witnesses = <<>> => notes[n].witnessHeight = -1)
  BY SyncedIs DEF CacheInv, NotesOk, NoteOk
<1>3. ns \in [Note -> NoteData] /\ DOMAIN ns = Note
  BY <1>2 DEF CacheInv
<1>4. step => \A n \in Note : NoteOk(n, ns[n], disk.best)
  <2> SUFFICES ASSUME step, NEW n \in Note PROVE NoteOk(n, ns[n], disk.best)
    OBVIOUS
  <2>1. CASE b \in MinedIn[n]
    <3>1. ns[n] = Synced(notes[n]) /\ notes[n].witnesses = <<>>
      BY <2>1
    <3> QED
      BY <3>1, <1>2, NoteOkEmpty
  <2>2. CASE b \notin MinedIn[n]
    <3>1. ns[n] = disk.notes[n] /\ disk.inStep
      BY <2>2
    <3> QED
      BY <3>1 DEF CacheInv, NotesOk
  <2> QED
    BY <2>1, <2>2
<1>5. step \in BOOLEAN
  BY DEF CacheInv
<1>6. step => \A n \in Note : Len(ns[n].witnesses) <= disk.size
  <2> SUFFICES ASSUME step, NEW n \in Note PROVE Len(ns[n].witnesses) <= disk.size
    OBVIOUS
  <2>1. Len(<<>>) = 0 /\ disk.size >= 0
    BY CacheSizeIs DEF CacheInv, AssertInv
  <2>2. CASE b \in MinedIn[n]
    <3>1. ns[n] = Synced(notes[n]) /\ notes[n].witnesses = <<>>
      BY <2>2
    <3>2. Len(ns[n].witnesses) = 0
      BY <3>1, <2>1, <1>2
    <3> QED
      BY <3>2, <2>1
  <2>3. CASE b \notin MinedIn[n]
    <3>1. ns[n] = disk.notes[n] /\ disk.inStep
      BY <2>3
    <3> QED
      BY <3>1 DEF CacheInv, AssertInv, Fits
  <2> QED
    BY <2>2, <2>3
<1> HIDE DEF ns, step
<1> QED
  BY <1>1, <1>3, <1>4, <1>5, <1>6 DEF NotesOk, Fits

LEMMA NotesTyped ==
    ASSUME NEW ns, NEW b, NotesOk(ns, b), ns = [n \in Note |-> ns[n]]
    PROVE  ns \in [Note -> NoteData]
BY DEF NotesOk, NoteOk

LEMMA CacheInit == Init => CacheInv
<1> SUFFICES ASSUME Init PROVE CacheInv
  OBVIOUS
<1>1. FreshNote \in NoteData /\ FreshNote.witnesses = <<>> /\ FreshNote.witnessHeight = -1
  BY DEF FreshNote, NoteData
<1>2. \A n \in Note : NoteOk(n, FreshNote, Genesis)
  BY <1>1, NoteOkEmpty
<1>3. notes = [n \in Note |-> FreshNote] /\ lastTip = Genesis
      /\ disk.notes = notes /\ disk.best = Genesis /\ disk.inStep = TRUE
      /\ disk.size = nWitnessCacheSize /\ ~assertFailed
  BY DEF Init
<1>4. NotesOk(notes, Genesis) /\ notes \in [Note -> NoteData]
  BY <1>1, <1>2, <1>3 DEF NotesOk
<1>5. nWitnessCacheSize \in 0..WITNESS_CACHE_SIZE
  BY NotifyAssumption DEF Init
<1>6. Fits(notes, nWitnessCacheSize)
  <2>1. \A n \in Note : Len(notes[n].witnesses) = 0
    BY <1>1, <1>3
  <2> QED
    BY <2>1, <1>5, CacheSizeIs DEF Fits
<1> QED
  BY <1>3, <1>4, <1>5, <1>6 DEF CacheInv, AssertInv

LEMMA FitsConnect ==
    ASSUME RoundInv, CacheInv, NotifyConnect
    PROVE  /\ ~assertFailed' /\ nWitnessCacheSize' \in 0..WITNESS_CACHE_SIZE
           /\ Fits(notes', nWitnessCacheSize')
<1> DEFINE b == Head(blockStack)
           synced == SyncedNotes(b)
<1>1. b \in Block /\ b # Genesis /\ pprev[b] = lastTip
  BY RoundNotifyConnect
<1>2. /\ notes' = [n \in Note |-> IncrementNoteWitness(n, synced[n], b)]
      /\ nWitnessCacheSize' = Grown(nWitnessCacheSize)
      /\ assertFailed' = (assertFailed \/ \E n \in Note :
                             ~IncrementAsserts(n, synced[n], b, nWitnessCacheSize))
  BY DEF NotifyConnect
<1>3. \A n \in Note : synced[n] = IF b \in MinedIn[n] THEN Synced(notes[n]) ELSE notes[n]
  BY DEF SyncedNotes
<1> HIDE DEF b, synced
<1>4. NotesOk(notes, lastTip) /\ nWitnessCacheSize \in 0..WITNESS_CACHE_SIZE
      /\ Fits(notes, nWitnessCacheSize) /\ ~assertFailed
  BY DEF CacheInv, AssertInv
<1>5. \A n \in Note : /\ IncrementAsserts(n, synced[n], b, nWitnessCacheSize)
                      /\ Len(notes'[n].witnesses) <= Grown(nWitnessCacheSize)
  <2> TAKE n \in Note
  <2> DEFINE nd == IF b \in MinedIn[n] THEN Synced(notes[n]) ELSE notes[n]
  <2>1. /\ IncrementAsserts(n, nd, b, nWitnessCacheSize)
        /\ Len(IncrementNoteWitness(n, nd, b).witnesses) <= Grown(nWitnessCacheSize)
    BY <1>1, <1>4, NotesFit
  <2>2. synced[n] = nd
    BY <1>3
  <2> HIDE DEF nd
  <2> QED
    BY <2>1, <2>2, <1>2
<1>6. Grown(nWitnessCacheSize) \in 0..WITNESS_CACHE_SIZE
  BY <1>4, CacheSizeIs DEF Grown
<1> QED
  BY <1>2, <1>4, <1>5, <1>6 DEF Fits

LEMMA FitsDisconnect ==
    ASSUME RoundInv, CacheInv, NotifyDisconnect
    PROVE  /\ ~assertFailed' /\ nWitnessCacheSize' \in 0..WITNESS_CACHE_SIZE
           /\ Fits(notes', nWitnessCacheSize')
<1> DEFINE synced == SyncedNotes(lastTip)
<1>1. lastTip \in Block
  BY DEF RoundInv, RoundType
<1>2. /\ notes' = [n \in Note |-> DecrementNoteWitness(synced[n], lastTip)]
      /\ nWitnessCacheSize' = Shrunk(nWitnessCacheSize)
      /\ assertFailed' = (assertFailed \/ \E n \in Note :
                             ~DecrementAsserts(synced[n], lastTip, nWitnessCacheSize))
  BY DEF NotifyDisconnect
<1>3. NotesOk(notes, lastTip) /\ nWitnessCacheSize \in 0..WITNESS_CACHE_SIZE
      /\ Fits(notes, nWitnessCacheSize) /\ ~assertFailed
  BY DEF CacheInv, AssertInv
<1>4. \A n \in Note : NoteOk(n, synced[n], lastTip) /\ Len(synced[n].witnesses) <= nWitnessCacheSize
  <2> TAKE n \in Note
  <2>1. NoteOk(n, notes[n], lastTip) /\ notes[n] \in NoteData /\ Len(notes[n].witnesses) <= nWitnessCacheSize
    BY <1>3 DEF NotesOk, NoteOk, Fits
  <2>2. synced[n] = IF lastTip \in MinedIn[n] THEN Synced(notes[n]) ELSE notes[n]
    BY DEF SyncedNotes
  <2> HIDE DEF synced
  <2> QED
    BY <2>1, <2>2, SyncedOk, SyncedIs
<1> HIDE DEF synced
<1>5. nWitnessCacheSize \in Nat
  BY <1>3, CacheSizeIs
<1>6. \A n \in Note : /\ DecrementAsserts(synced[n], lastTip, nWitnessCacheSize)
                      /\ Len(DecrementNoteWitness(synced[n], lastTip).witnesses) <= Shrunk(nWitnessCacheSize)
  BY <1>1, <1>4, <1>5, DecrementFits
<1>7. Shrunk(nWitnessCacheSize) \in 0..WITNESS_CACHE_SIZE
  BY <1>3, CacheSizeIs DEF Shrunk
<1> QED
  BY <1>2, <1>3, <1>6, <1>7 DEF Fits

LEMMA CacheNotifyConnect ==
    ASSUME RoundInv, CacheInv, NotifyConnect
    PROVE  CacheInv'
<1> DEFINE b == Head(blockStack)
<1>1. NotesOk(notes', lastTip')
  BY NotesConnect DEF CacheInv
<1>2. lastTip' = b
  BY DEF NotifyConnect
<1>3. notes' \in [Note -> NoteData]
  BY <1>1, NotesTyped DEF NotifyConnect
<1>4. /\ ~assertFailed' /\ nWitnessCacheSize' \in 0..WITNESS_CACHE_SIZE
      /\ Fits(notes', nWitnessCacheSize')
  BY FitsConnect
<1>5. disk.size \in 0..WITNESS_CACHE_SIZE
  BY DEF CacheInv, AssertInv
<1>6. CASE disk' = SyncedDisk(b)
  BY <1>1, <1>4, <1>5, <1>6, SyncedDiskOk DEF CacheInv, AssertInv
<1>7. CASE disk' = Persisted(Locator(b), notes', nWitnessCacheSize')
  <2>1. disk'.notes = notes' /\ disk'.inStep = TRUE /\ disk'.best = b /\ disk'.size = nWitnessCacheSize'
    BY <1>7 DEF Persisted, Locator
  <2> QED
    BY <2>1, <1>1, <1>2, <1>3, <1>4 DEF CacheInv, AssertInv
<1> QED
  BY <1>6, <1>7 DEF NotifyConnect

LEMMA CacheNotifyDisconnect ==
    ASSUME RoundInv, CacheInv, NotifyDisconnect
    PROVE  CacheInv'
<1>1. NotesOk(notes', lastTip')
  BY NotesDisconnect DEF CacheInv
<1>2. disk' = SyncedDisk(lastTip)
  BY DEF NotifyDisconnect
<1>3. /\ ~assertFailed' /\ nWitnessCacheSize' \in 0..WITNESS_CACHE_SIZE
      /\ Fits(notes', nWitnessCacheSize')
  BY FitsDisconnect
<1>4. disk.size \in 0..WITNESS_CACHE_SIZE
  BY DEF CacheInv, AssertInv
<1> QED
  BY <1>1, <1>2, <1>3, <1>4, SyncedDiskOk DEF CacheInv, AssertInv

\* The wallet continues from witnesses that belong to a block of the chain, and a
\* rescan takes them to its tip.
LEMMA CacheRestart ==
    ASSUME ~AnyRestart, RoundInv, CacheInv, Restart
    PROVE  CacheInv'
<1> DEFINE from == RescanFrom(disk.best)
           rescan == from # diskTip
           w == IF rescan THEN Scanned(Loaded, from) ELSE Loaded
<1>1. disk.inStep /\ disk.best \in Ancestors[diskTip] /\ disk.best \in Block /\ diskTip \in Block
  BY DEF Restart, WrittenInStep, RoundInv, RoundType
<1>2. notes' = w.notes /\ disk' = (IF rescan THEN Persisted(diskTip, w.notes, w.size) ELSE disk)
      /\ lastTip' = disk'.best /\ nWitnessCacheSize' = w.size /\ assertFailed' = w.failed
  BY DEF Restart
<1>3. from = disk.best
  <2>1. CASE diskTip \in Ancestors[disk.best]
    <3>1. nHeight[diskTip] = nHeight[disk.best]
      BY <2>1, <1>1, AncestorsNested, AncestorsAreBlocks
    <3>2. diskTip = disk.best
      BY <3>1, <1>1, SameHeight, AncestorsAreBlocks
    <3> QED
      BY <2>1, <3>2 DEF RescanFrom
  <2>2. CASE diskTip \notin Ancestors[disk.best]
    BY <2>2, <1>1, ForkIsFirst DEF RescanFrom
  <2> QED
    BY <2>1, <2>2
<1>4. ScanOk(Loaded, disk.best) /\ Loaded.notes \in [Note -> NoteData]
  <2>1. /\ Loaded.notes = [n \in Note |-> Synced(disk.notes[n])]
        /\ Loaded.size = disk.size /\ Loaded.failed = FALSE
    BY DEF Loaded
  <2>2. \A n \in Note : NoteOk(n, disk.notes[n], disk.best) /\ Len(disk.notes[n].witnesses) <= disk.size
    BY <1>1 DEF CacheInv, AssertInv, NotesOk, Fits
  <2>3. disk.size \in 0..WITNESS_CACHE_SIZE
    BY DEF CacheInv, AssertInv
  <2>4. \A n \in Note : NoteOk(n, Synced(disk.notes[n]), disk.best)
    BY <2>2, SyncedOk
  <2>5. \A n \in Note : Len(Synced(disk.notes[n]).witnesses) <= disk.size
    BY <2>2, SyncedIs DEF NoteOk
  <2>6. NotesOk(Loaded.notes, disk.best) /\ Loaded.notes \in [Note -> NoteData]
    BY <2>1, <2>4 DEF NotesOk, NoteOk
  <2>7. Fits(Loaded.notes, disk.size)
    BY <2>1, <2>5 DEF Fits
  <2> QED
    BY <2>1, <2>3, <2>6, <2>7 DEF ScanOk
<1> HIDE DEF from
<1>5. CASE rescan
  <2>1. w = Scanned(Loaded, disk.best)
    BY <1>3, <1>5
  <2>2. ScanOk(w, diskTip)
    BY <2>1, <1>1, <1>4, RescanOk
  <2>3. disk'.notes = w.notes /\ disk'.best = diskTip /\ disk'.inStep = TRUE /\ disk'.size = w.size
    BY <1>2, <1>5 DEF Persisted
  <2>4. w.notes = [n \in Note |-> w.notes[n]]
    <3>1. \E v, b : w.notes = ScanBlock(v, b).notes
      <4> DEFINE N == nHeight[diskTip] - nHeight[disk.best]
      <4>1. N \in Nat
        BY <1>1, AncestorsNested, AncestorsAreBlocks
      <4>2. PICK f : /\ f[0] = ScanBlock(Loaded, disk.best)
                     /\ \A i \in 1..N : f[i] = ScanBlock(f[i - 1], GetAncestor(diskTip, nHeight[disk.best] + i))
                     /\ Scanned(Loaded, disk.best) = f[N]
        <5>1. N = nHeight[diskTip] - nHeight[disk.best]
          OBVIOUS
        <5> HIDE DEF N, w
        <5> QED
          BY <4>1, <5>1, ScannedIs
      <4> HIDE DEF N, w
      <4>3. CASE N = 0
        BY <4>2, <4>3, <2>1
      <4>4. CASE N # 0
        <5>1. N \in 1..N
          BY <4>1, <4>4
        <5> QED
          BY <5>1, <4>2, <2>1
      <4> QED
        BY <4>3, <4>4
    <3> HIDE DEF w
    <3> QED
      BY <3>1 DEF ScanBlock
  <2>5. w.notes \in [Note -> NoteData]
    <3> HIDE DEF w
    <3> QED
      BY <2>2, <2>4, NotesTyped DEF ScanOk
  <2> HIDE DEF w
  <2> QED
    BY <2>2, <2>3, <2>5, <1>2 DEF CacheInv, AssertInv, ScanOk
<1>6. CASE ~rescan
  <2>1. w = Loaded /\ disk' = disk
    BY <1>2, <1>6
  <2> QED
    BY <2>1, <1>2, <1>4 DEF CacheInv, AssertInv, ScanOk
<1> QED
  BY <1>5, <1>6

LEMMA CacheNext ==
    ASSUME ~AnyRestart
    PROVE  RoundInv /\ CacheInv /\ [Next]_vars => CacheInv'
<1> SUFFICES ASSUME RoundInv, CacheInv, [Next]_vars PROVE CacheInv'
  OBVIOUS
<1>1. CASE UNCHANGED <<notes, lastTip, disk, nWitnessCacheSize, assertFailed>>
  BY <1>1 DEF CacheInv, AssertInv, NotesOk, Fits
<1>2. ASSUME NEW b \in Block, SetTip(b)
      PROVE  UNCHANGED <<notes, lastTip, disk, nWitnessCacheSize, assertFailed>>
  BY <1>2 DEF SetTip, notifyVars, walletVars
<1>3. CASE FlushChain \/ (\E t \in Tx : AddRecent(t)) \/ Collect \/ RoundEnds \/ StartNotifier
           \/ UNCHANGED vars
  <2>1. UNCHANGED <<notes, lastTip, disk, nWitnessCacheSize, assertFailed>>
    BY <1>3 DEF FlushChain, AddRecent, Collect, RoundEnds, StartNotifier, vars, notifyVars, walletVars
  <2> QED
    BY <2>1, <1>1
<1> QED
  BY <1>1, <1>2, <1>3, TipMoves, CacheNotifyConnect, CacheNotifyDisconnect, CacheRestart
  DEF Next, Node, Notify

\* The witnesses a spend would be made from belong to the block the wallet is at,
\* through any interleaving of reorganisations, rounds that are cut short or overtaken,
\* writes of the wallet and restarts, provided that at a restart the wallet's
\* locator is on the chain on disk and SyncTransaction has not overwritten the
\* witnesses that belong to it.  (wallet_restart shows that the premise is needed.)
THEOREM WitnessesAlwaysCurrent ==
    ASSUME ~AnyRestart
    PROVE  Spec => []WitnessesCurrent
<1>1. CacheInv => WitnessesCurrent
  BY DEF CacheInv, NotesOk, NoteOk, WitnessesCurrent
<1>2. Spec => []CacheInv
  BY CacheInit, CacheNext, RoundInvariant, PTL DEF Spec
<1> QED
  BY <1>1, <1>2, PTL

-----------------------------------------------------------------------------
(* The size of the cache.                                                   *)

LEMMA RunningInit == Init => RunningInv
<1> SUFFICES ASSUME Init PROVE RunningInv
  OBVIOUS
<1>1. /\ RoundInv /\ NotesOk(notes, lastTip)
      /\ nWitnessCacheSize \in 0..WITNESS_CACHE_SIZE
  BY RoundInit, CacheInit DEF CacheInv, AssertInv
<1>2. /\ tip = Genesis /\ lastTip = Genesis /\ forkAt = Genesis /\ Target = Genesis
      /\ notifyPc = "sleep" /\ exhausted = FALSE
      /\ settled = (nWitnessCacheSize = WITNESS_CACHE_SIZE)
  BY DEF Init, Target, Base
<1>3. Ancestors[Genesis] = {Genesis} /\ nHeight[Genesis] = 0
  BY TreeAssumption
<1>4. settled => MarginInv
  <2> SUFFICES ASSUME nWitnessCacheSize = WITNESS_CACHE_SIZE PROVE MarginInv
    BY <1>2, Zenon
  <2>1. /\ WITNESS_CACHE_SIZE \in 1..WITNESS_CACHE_SIZE /\ 0 - 0 <= MAX_REORG_LENGTH
        /\ WITNESS_CACHE_SIZE >= 1 + 0 - 0 /\ WITNESS_CACHE_SIZE >= WITNESS_CACHE_SIZE - (0 - 0)
    BY CacheSizeIs
  <2> QED
    BY <2>1, <1>2, <1>3 DEF MarginInv, Near
<1>5. UnspentInv
  <2>1. \A n \in Note : Genesis \notin MinedIn[n]
    BY NoteAssumption
  <2> QED
    BY <2>1, <1>2, <1>3 DEF UnspentInv
<1> QED
  BY <1>1, <1>2, <1>4, <1>5 DEF RunningInv, FirstRunInv

\* A reorganisation leaves a block near if it was not higher than the tip.
LEMMA ForkBelow ==
    ASSUME tip \in Block, NEW b \in Block, NEW x \in Block,
           NEW a \in Ancestors[x] \cap Ancestors[tip]
    PROVE  \E c \in Ancestors[x] \cap Ancestors[b] :
              c = a \/ nHeight[c] = nHeight[FindFork(tip, b)]
<1> DEFINE f == FindFork(tip, b)
<1>1. f \in Block /\ f \in Ancestors[tip] /\ f \in Ancestors[b]
  BY ForkFound DEF IsFork
<1>2. a \in Block /\ nHeight[a] \in Nat /\ nHeight[f] \in Nat
  BY <1>1, AncestorsAreBlocks
<1> HIDE DEF f
<1>3. CASE nHeight[a] <= nHeight[f]
  <2>1. a \in Ancestors[f]
    BY <1>1, <1>3, AncestorsOrdered
  <2>2. a \in Ancestors[b]
    BY <2>1, <1>1, AncestorsNested
  <2> QED
    BY <2>2
<1>4. CASE nHeight[f] <= nHeight[a]
  <2>1. f \in Ancestors[a]
    BY <1>1, <1>4, AncestorsOrdered
  <2>2. f \in Ancestors[x]
    BY <2>1, AncestorsNested
  <2> QED
    BY <2>2, <1>1 DEF f
<1> QED
  BY <1>2, <1>3, <1>4

LEMMA MarginActivate ==
    ASSUME RoundInv, MarginInv, NEW b \in Block, ActivateBestChainStep(b), nHeight[b] >= nHeight[tip]
    PROVE  MarginInv'
<1> DEFINE f == FindFork(tip, b)
           M == MAX_REORG_LENGTH
           size == nWitnessCacheSize
<1>1. tip \in Block /\ lastTip \in Block /\ Target \in Block
  BY DEF RoundInv, RoundType
<1>2. /\ tip' = b /\ nHeight[b] >= nHeight[tip] /\ nHeight[tip] - nHeight[f] <= M
      /\ UNCHANGED <<notifyPc, forkAt, lastTip, blockStack, nWitnessCacheSize>>
  BY DEF ActivateBestChainStep, SetTip, notifyVars, walletVars
<1>3. Target' = Target
  BY <1>2 DEF Target, Base
<1>4. f \in Block
  BY <1>1, ForkFound
<1>5. /\ nHeight[tip] \in Nat /\ nHeight[lastTip] \in Nat /\ nHeight[b] \in Nat /\ nHeight[f] \in Nat
      /\ nHeight[Target] \in Nat
  BY <1>1, <1>4, AncestorsAreBlocks
<1>6. ASSUME NEW x \in Block, nHeight[x] <= nHeight[tip], Near(x)
      PROVE  \E c \in Ancestors[x] \cap Ancestors[b] : nHeight[x] - nHeight[c] <= M
  <2>1. PICK a \in Ancestors[x] \cap Ancestors[tip] : nHeight[x] - nHeight[a] <= M
    BY <1>6 DEF Near
  <2>2. PICK c \in Ancestors[x] \cap Ancestors[b] : c = a \/ nHeight[c] = nHeight[f]
    BY <1>1, ForkBelow
  <2>3. nHeight[x] \in Nat
    BY AncestorsAreBlocks
  <2>4. nHeight[x] - nHeight[f] <= M
    BY <2>3, <1>2, <1>5, <1>6, CacheSizeIs
  <2> HIDE DEF f
  <2> QED
    BY <2>1, <2>2, <2>4
<1>7. \E c \in Ancestors[lastTip] \cap Ancestors[b] : size >= 1 + nHeight[lastTip] - nHeight[c]
  <2>1. PICK a \in Ancestors[lastTip] \cap Ancestors[tip] : size >= 1 + nHeight[lastTip] - nHeight[a]
    BY DEF MarginInv
  <2>2. PICK c \in Ancestors[lastTip] \cap Ancestors[b] : c = a \/ nHeight[c] = nHeight[f]
    BY <1>1, ForkBelow
  <2>3. size >= 1 + nHeight[lastTip] - nHeight[f]
    <3>1. size \in Nat /\ size >= M + 1 - (nHeight[tip] - nHeight[lastTip])
      <4>1. size \in 1..WITNESS_CACHE_SIZE
            /\ size >= WITNESS_CACHE_SIZE - (nHeight[tip] - nHeight[lastTip])
        BY DEF MarginInv
      <4> QED
        BY <4>1, <1>5, CacheSizeIs
    <3> QED
      BY <3>1, <1>2, <1>5, CacheSizeIs
  <2> HIDE DEF f
  <2> QED
    BY <2>1, <2>2, <2>3
<1>8. Near(lastTip)' /\ Near(Target)'
  <2>1. Near(lastTip)' <=> \E c \in Ancestors[lastTip] \cap Ancestors[b] : nHeight[lastTip] - nHeight[c] <= M
    BY <1>2 DEF Near
  <2>2. Near(Target)' <=> \E c \in Ancestors[Target] \cap Ancestors[b] : nHeight[Target] - nHeight[c] <= M
    BY <1>2, <1>3 DEF Near
  <2> QED
    BY <2>1, <2>2, <1>1, <1>6 DEF MarginInv
<1>9. size >= WITNESS_CACHE_SIZE - (nHeight[b] - nHeight[lastTip])
      /\ nHeight[lastTip] <= nHeight[b] /\ nHeight[Target] <= nHeight[b]
  BY <1>2, <1>5, CacheSizeIs DEF MarginInv
<1> QED
  BY <1>2, <1>3, <1>7, <1>8, <1>9 DEF MarginInv

LEMMA MarginCollect ==
    ASSUME RoundInv, MarginInv, Collect
    PROVE  MarginInv'
<1> DEFINE fork == FindFork(lastTip, tip)
           goal == RoundTip(fork)
<1>1. tip \in Block /\ lastTip \in Block
  BY DEF RoundInv, RoundType
<1>2. UNCHANGED <<tip, lastTip, nWitnessCacheSize>> /\ forkAt' = fork
      /\ blockStack' = PathFrom(fork, goal) /\ notifyPc' = Phase(lastTip, fork)
  BY DEF Collect, walletVars
<1>3. fork \in Block /\ fork \in Ancestors[tip] /\ fork \in Ancestors[lastTip]
      /\ \A c \in Ancestors[lastTip] \cap Ancestors[tip] : nHeight[c] <= nHeight[fork]
  BY <1>1, ForkFound DEF IsFork
<1>4. goal \in Block /\ goal \in Ancestors[tip] /\ fork \in Ancestors[goal]
  BY <1>1, <1>3, RoundTipIs
<1>5. Target' = goal
  <2>1. Base' = fork
    BY <1>2 DEF Base, Phase
  <2>2. PathFrom(fork, goal) = <<>> <=> fork = goal
    BY <1>3, <1>4, PathEnds
  <2>3. fork # goal => PathFrom(fork, goal)[Len(PathFrom(fork, goal))] = goal
    BY <1>3, <1>4, PathEnds
  <2> HIDE DEF fork, goal
  <2> QED
    BY <2>1, <2>2, <2>3, <1>2 DEF Target
<1> HIDE DEF fork, goal
<1>6. nHeight[goal] \in Nat /\ nHeight[goal] <= nHeight[tip] /\ goal \in Ancestors[goal]
  BY <1>1, <1>4, AncestorsAreBlocks, AncestorsNested
<1>7. Near(Target)'
  <2>1. nHeight[goal] - nHeight[goal] <= MAX_REORG_LENGTH
    BY <1>6, CacheSizeIs
  <2> QED
    BY <2>1, <1>2, <1>4, <1>5, <1>6 DEF Near
<1>8. Near(lastTip)'
  BY <1>2 DEF MarginInv, Near
<1>9. nWitnessCacheSize >= 1 + nHeight[lastTip] - nHeight[fork]
  <2>1. PICK a \in Ancestors[lastTip] \cap Ancestors[tip] :
            nWitnessCacheSize >= 1 + nHeight[lastTip] - nHeight[a]
    BY DEF MarginInv
  <2>2. nHeight[a] <= nHeight[fork] /\ nHeight[a] \in Nat /\ nHeight[fork] \in Nat
        /\ nHeight[lastTip] \in Nat /\ nWitnessCacheSize \in Nat
    BY <1>1, <1>3, AncestorsAreBlocks, CacheSizeIs DEF MarginInv
  <2> QED
    BY <2>1, <2>2
<1> QED
  BY <1>2, <1>5, <1>6, <1>7, <1>8, <1>9 DEF MarginInv

\* The block that is connected, seen from the tip.
LEMMA MarginNotifyConnect ==
    ASSUME RoundInv, MarginInv, NotifyConnect
    PROVE  MarginInv'
<1> DEFINE size == nWitnessCacheSize
           b == lastTip'
           M == MAX_REORG_LENGTH
<1>1. /\ b \in Block /\ b # Genesis /\ pprev[b] = lastTip /\ b \in Ancestors[Target] /\ Target' = Target
  BY RoundNotifyConnect
<1>2. UNCHANGED <<tip, notifyPc, forkAt>> /\ notifyPc = "connect" /\ size' = Grown(size)
  BY DEF NotifyConnect, chainVars
<1>3. tip \in Block /\ lastTip \in Block /\ Target \in Block
  BY DEF RoundInv, RoundType
<1>4. /\ nHeight[b] = nHeight[lastTip] + 1 /\ nHeight[lastTip] \in Nat /\ nHeight[b] \in Nat
      /\ nHeight[tip] \in Nat /\ nHeight[Target] \in Nat /\ nHeight[b] <= nHeight[Target]
      /\ Ancestors[lastTip] \subseteq Ancestors[b] /\ b \in Ancestors[b]
  BY <1>1, <1>3, ParentStep, AncestorsAreBlocks, AncestorsNested
<1> HIDE DEF b
<1>5. nHeight[b] <= nHeight[tip]
  BY <1>4 DEF MarginInv
<1>6. \E c \in Ancestors[b] \cap Ancestors[tip] : nHeight[b] - nHeight[c] <= M
  <2>1. PICK a \in Ancestors[Target] \cap Ancestors[tip] : nHeight[Target] - nHeight[a] <= M
    BY DEF MarginInv, Near
  <2>2. a \in Block /\ nHeight[a] \in Nat
    BY <1>3, <2>1, AncestorsAreBlocks
  <2>3. CASE nHeight[b] <= nHeight[a]
    <3>1. b \in Ancestors[a]
      BY <2>3, <1>1, <1>3, AncestorsOrdered
    <3>2. b \in Ancestors[tip]
      BY <3>1, <1>3, AncestorsNested
    <3>3. nHeight[b] - nHeight[b] <= M
      BY <1>4, CacheSizeIs
    <3> QED
      BY <3>2, <3>3, <1>4
  <2>4. CASE nHeight[a] <= nHeight[b]
    <3>1. a \in Ancestors[b]
      BY <2>4, <1>1, <1>3, AncestorsOrdered
    <3>2. nHeight[b] - nHeight[a] <= M
      BY <2>1, <2>2, <1>4, CacheSizeIs
    <3> QED
      BY <3>1, <3>2
  <2> QED
    BY <2>2, <2>3, <2>4, <1>4
<1>7. Near(lastTip)' /\ Near(Target)'
  <2>1. Near(lastTip)' <=> \E c \in Ancestors[b] \cap Ancestors[tip] : nHeight[b] - nHeight[c] <= M
    BY <1>2 DEF Near, b
  <2>2. Near(Target)' <=> Near(Target)
    BY <1>1, <1>2 DEF Near
  <2> QED
    BY <2>1, <2>2, <1>6 DEF MarginInv
<1>8. size \in 1..WITNESS_CACHE_SIZE /\ size' \in 1..WITNESS_CACHE_SIZE
      /\ size' = (IF size < WITNESS_CACHE_SIZE THEN size + 1 ELSE size)
  <2>1. size \in 1..WITNESS_CACHE_SIZE
    BY DEF MarginInv
  <2> QED
    BY <2>1, <1>2, CacheSizeIs DEF Grown
<1>9. \E c \in Ancestors[b] \cap Ancestors[tip] : size' >= 1 + nHeight[b] - nHeight[c]
  <2>1. CASE size < WITNESS_CACHE_SIZE
    <3>1. PICK a \in Ancestors[lastTip] \cap Ancestors[tip] : size >= 1 + nHeight[lastTip] - nHeight[a]
      BY DEF MarginInv
    <3>2. nHeight[a] \in Nat
      BY <3>1, <1>3, AncestorsAreBlocks
    <3>3. size + 1 >= 1 + nHeight[b] - nHeight[a]
      BY <3>1, <3>2, <1>4, <1>8
    <3> QED
      BY <3>1, <3>3, <2>1, <1>4, <1>8
  <2>2. CASE ~(size < WITNESS_CACHE_SIZE)
    <3>1. PICK c \in Ancestors[b] \cap Ancestors[tip] : nHeight[b] - nHeight[c] <= M
      BY <1>6
    <3>2. nHeight[c] \in Nat
      BY <3>1, <1>3, AncestorsAreBlocks
    <3>3. size' = M + 1
      BY <2>2, <1>8, CacheSizeIs
    <3> QED
      BY <3>1, <3>2, <3>3, <1>4, CacheSizeIs
  <2> QED
    BY <2>1, <2>2
<1>10. size' >= WITNESS_CACHE_SIZE - (nHeight[tip] - nHeight[b])
  <2>1. size >= WITNESS_CACHE_SIZE - (nHeight[tip] - nHeight[lastTip])
    BY DEF MarginInv
  <2> QED
    BY <2>1, <1>4, <1>5, <1>8, CacheSizeIs
<1>11. nHeight[Target] <= nHeight[tip]
  BY DEF MarginInv
<1> QED
  BY <1>1, <1>2, <1>5, <1>7, <1>8, <1>9, <1>10, <1>11 DEF MarginInv, b

LEMMA MarginNotifyDisconnect ==
    ASSUME RoundInv, MarginInv, NotifyDisconnect
    PROVE  MarginInv' /\ nWitnessCacheSize >= 2 /\ nWitnessCacheSize' = nWitnessCacheSize - 1
<1> DEFINE size == nWitnessCacheSize
           p == pprev[lastTip]
           M == MAX_REORG_LENGTH
<1>1. lastTip # Genesis /\ forkAt \in Ancestors[p] /\ Target' = Target
  BY RoundNotifyDisconnect
<1>2. UNCHANGED <<tip, forkAt>> /\ notifyPc = "disconnect" /\ size' = Shrunk(size) /\ lastTip' = p
  BY DEF NotifyDisconnect, chainVars
<1>3. tip \in Block /\ lastTip \in Block /\ Target \in Block /\ forkAt \in Block
  BY DEF RoundInv, RoundType
<1>4. /\ p \in Block /\ nHeight[lastTip] = nHeight[p] + 1 /\ nHeight[p] \in Nat
      /\ nHeight[lastTip] \in Nat /\ nHeight[tip] \in Nat /\ nHeight[forkAt] \in Nat
      /\ Ancestors[lastTip] = Ancestors[p] \cup {lastTip} /\ p \in Ancestors[p] /\ p \in Ancestors[lastTip]
  BY <1>1, <1>3, ParentStep, AncestorsAreBlocks
<1>5. nHeight[forkAt] <= nHeight[p]
  BY <1>1, <1>4, AncestorsNested
<1> HIDE DEF p
<1>6. size \in 1..WITNESS_CACHE_SIZE /\ size >= 1 + nHeight[lastTip] - nHeight[forkAt]
  BY <1>2 DEF MarginInv
<1>7. size >= 2 /\ size' = size - 1 /\ size' \in 1..WITNESS_CACHE_SIZE /\ size \in Nat
  BY <1>2, <1>4, <1>5, <1>6, CacheSizeIs DEF Shrunk
<1>8. lastTip \in Ancestors[tip] => p \in Ancestors[tip]
  BY <1>3, <1>4, AncestorsNested
<1>9. \E c \in Ancestors[p] \cap Ancestors[tip] : nHeight[p] - nHeight[c] <= M
  <2>1. PICK a \in Ancestors[lastTip] \cap Ancestors[tip] : nHeight[lastTip] - nHeight[a] <= M
    BY DEF MarginInv, Near
  <2>2. CASE a = lastTip
    <3>1. nHeight[p] - nHeight[p] <= M
      BY <1>4, CacheSizeIs
    <3> QED
      BY <3>1, <2>1, <2>2, <1>4, <1>8
  <2>3. CASE a # lastTip
    <3>1. a \in Ancestors[p] /\ nHeight[a] \in Nat
      BY <2>1, <2>3, <1>3, <1>4, AncestorsAreBlocks
    <3>2. nHeight[p] - nHeight[a] <= M
      BY <3>1, <2>1, <1>4, CacheSizeIs
    <3> QED
      BY <3>1, <3>2, <2>1
  <2> QED
    BY <2>2, <2>3
<1>10. \E c \in Ancestors[p] \cap Ancestors[tip] : size' >= 1 + nHeight[p] - nHeight[c]
  <2>1. PICK a \in Ancestors[lastTip] \cap Ancestors[tip] : size >= 1 + nHeight[lastTip] - nHeight[a]
    BY DEF MarginInv
  <2>2. CASE a = lastTip
    <3>1. size' >= 1 + nHeight[p] - nHeight[p]
      BY <1>4, <1>7
    <3> QED
      BY <3>1, <2>1, <2>2, <1>4, <1>8
  <2>3. CASE a # lastTip
    <3>1. a \in Ancestors[p] /\ nHeight[a] \in Nat
      BY <2>1, <2>3, <1>3, <1>4, AncestorsAreBlocks
    <3>2. size' >= 1 + nHeight[p] - nHeight[a]
      BY <3>1, <2>1, <1>4, <1>7
    <3> QED
      BY <3>1, <3>2, <2>1
  <2> QED
    BY <2>2, <2>3
<1>11. Near(lastTip)' /\ Near(Target)'
  <2>1. Near(lastTip)' <=> \E c \in Ancestors[p] \cap Ancestors[tip] : nHeight[p] - nHeight[c] <= M
    BY <1>2 DEF Near
  <2>2. Near(Target)' <=> Near(Target)
    BY <1>1, <1>2 DEF Near
  <2> QED
    BY <2>1, <2>2, <1>9 DEF MarginInv
<1>12. size' >= WITNESS_CACHE_SIZE - (nHeight[tip] - nHeight[p])
  <2>1. size >= WITNESS_CACHE_SIZE - (nHeight[tip] - nHeight[lastTip])
    BY DEF MarginInv
  <2> QED
    BY <2>1, <1>4, <1>7, CacheSizeIs
<1>13. size' >= 1 + nHeight[p] - nHeight[forkAt]
  BY <1>4, <1>6, <1>7
<1>14. nHeight[Target] <= nHeight[tip] /\ nHeight[p] <= nHeight[tip]
  BY <1>4 DEF MarginInv
<1> QED
  BY <1>1, <1>2, <1>7, <1>10, <1>11, <1>12, <1>13, <1>14 DEF MarginInv

\* A wallet that is on the chain with a full cache is settled.
LEMMA MarginRoundEnds ==
    ASSUME RoundInv, RoundEnds, CaughtUp
    PROVE  MarginInv'
<1>1. /\ tip \in Block /\ lastTip \in Block /\ lastTip \in Ancestors[tip]
      /\ nWitnessCacheSize = WITNESS_CACHE_SIZE
  BY DEF RoundInv, RoundType, CaughtUp
<1>2. UNCHANGED <<tip, lastTip, nWitnessCacheSize, blockStack>> /\ blockStack = <<>> /\ notifyPc' = "sleep"
  BY DEF RoundEnds, chainVars
<1>3. Target' = lastTip
  BY <1>2 DEF Target, Base
<1>4. /\ nHeight[tip] \in Nat /\ nHeight[lastTip] \in Nat /\ nHeight[lastTip] <= nHeight[tip]
      /\ lastTip \in Ancestors[lastTip]
  BY <1>1, AncestorsAreBlocks, AncestorsNested
<1>5. Near(lastTip)' /\ Near(Target)'
  <2>1. nHeight[lastTip] - nHeight[lastTip] <= MAX_REORG_LENGTH
    BY <1>4, CacheSizeIs
  <2> QED
    BY <2>1, <1>1, <1>2, <1>3, <1>4 DEF Near
<1>6. /\ WITNESS_CACHE_SIZE \in 1..WITNESS_CACHE_SIZE
      /\ WITNESS_CACHE_SIZE >= 1 + nHeight[lastTip] - nHeight[lastTip]
      /\ WITNESS_CACHE_SIZE >= WITNESS_CACHE_SIZE - (nHeight[tip] - nHeight[lastTip])
  BY <1>4, CacheSizeIs
<1> QED
  BY <1>1, <1>2, <1>3, <1>4, <1>5, <1>6 DEF MarginInv

-----------------------------------------------------------------------------
(* The notes that are not taken for spent.                                  *)

LEMMA FirstRunConnect ==
    ASSUME RoundInv, FirstRunInv, ~exhausted, NotifyConnect
    PROVE  FirstRunInv'
<1> DEFINE b == Head(blockStack)
           synced == SyncedNotes(b)
           size == nWitnessCacheSize
<1>1. b \in Block /\ b # Genesis /\ pprev[b] = lastTip /\ lastTip' = b
  BY RoundNotifyConnect
<1>2. /\ notes' = [n \in Note |-> IncrementNoteWitness(n, synced[n], b)]
      /\ size' = Grown(size) /\ hasNotes' = KnowsNotes(b)
  BY DEF NotifyConnect
<1>3. NotesOk(notes', lastTip')
  BY NotesConnect DEF FirstRunInv
<1>4. size \in Nat /\ Grown(size) = (IF size < WITNESS_CACHE_SIZE THEN size + 1 ELSE size)
      /\ Grown(size) \in 1..WITNESS_CACHE_SIZE
  BY CacheSizeIs DEF FirstRunInv, Grown
<1>5. \A n \in Note : /\ synced[n] = (IF b \in MinedIn[n] THEN Synced(notes[n]) ELSE notes[n])
                      /\ NoteOk(n, synced[n], lastTip)
  <2> TAKE n \in Note
  <2>1. NoteOk(n, notes[n], lastTip)
    BY DEF FirstRunInv, NotesOk
  <2>2. synced[n] = (IF b \in MinedIn[n] THEN Synced(notes[n]) ELSE notes[n])
    BY DEF SyncedNotes
  <2> HIDE DEF synced
  <2> QED
    BY <2>1, <2>2, SyncedOk
<1> HIDE DEF b, synced
<1>6. UnspentInv'
  <2> SUFFICES ASSUME NEW n \in Note, NEW m \in MinedIn[n] \cap Ancestors[b]
               PROVE  /\ hasNotes'
                      /\ notes'[n].spentHeight = -1 =>
                            \/ Len(notes'[n].witnesses) >= size'
                            \/ Len(notes'[n].witnesses) >= nHeight[b] - nHeight[m] + 1
    BY <1>1, <1>2, <1>4 DEF UnspentInv
  <2>1. m \in Block /\ nHeight[m] \in Nat
    BY <1>1, AncestorsAreBlocks
  <2>2. b \notin MinedIn[n] => m \in MinedIn[n] \cap Ancestors[lastTip]
    BY <1>1, ParentStep
  <2>3. hasNotes'
    BY <2>2, <1>2 DEF KnowsNotes, FirstRunInv, UnspentInv
  <2> DEFINE nd == synced[n]
             done == IncrementNoteWitness(n, nd, b)
             ws == nd.witnesses
  <2>4. /\ nd \in NoteData /\ nd.witnessHeight < nHeight[b] /\ (ws = <<>> => nd.witnessHeight = -1)
        /\ nHeight[b] = nHeight[lastTip] + 1 /\ nHeight[lastTip] \in Nat /\ lastTip \in Block
    BY <1>1, <1>5, NoteOkHeight, ParentStep
  <2>5. b \notin MinedIn[n] => nd = notes[n]
    BY <1>5
  <2> HIDE DEF nd
  <2>6. done.spentHeight = -1 =>
          /\ nd.spentHeight = -1
          /\ \/ b \in MinedIn[n] /\ done.witnesses = << <<b>> >>
             \/ done.witnesses = <<>> /\ b \notin MinedIn[n] /\ ws = <<>>
             \/ b \notin MinedIn[n] /\ ws # <<>> /\ done.witnesses = Copied(ws, b)
    BY <2>4, <1>1, IncrementShape
  <2>7. notes'[n] = done
    BY <1>2 DEF nd
  <2> HIDE DEF done
  <2> SUFFICES ASSUME done.spentHeight = -1
               PROVE  \/ Len(done.witnesses) >= size'
                      \/ Len(done.witnesses) >= nHeight[b] - nHeight[m] + 1
    BY <2>3, <2>7
  <2>8. CASE b \in MinedIn[n] /\ done.witnesses = << <<b>> >>
    <3>1. m = b
      BY <2>8, <1>1, MinedOnce, AncestorsAreBlocks
    <3>2. Len(done.witnesses) = 1
      BY <2>8
    <3> QED
      BY <3>1, <3>2, <2>1
  <2>9. CASE b \notin MinedIn[n]
    <3>1. m \in MinedIn[n] \cap Ancestors[lastTip]
      BY <2>2, <2>9
    <3>2. nHeight[m] <= nHeight[lastTip]
      BY <3>1, <2>4, AncestorsNested
    <3>3. /\ size >= 1
          /\ Len(ws) >= size \/ Len(ws) >= nHeight[lastTip] - nHeight[m] + 1
      BY <3>1, <2>5, <2>6, <2>9 DEF FirstRunInv, UnspentInv
    <3>4. ws \in Seq(Seq(Block)) /\ Len(ws) \in Nat /\ Len(<<>>) = 0
      BY <2>4 DEF NoteData
    <3> HIDE DEF ws
    <3>5. ws # <<>>
      BY <3>2, <3>3, <3>4, <2>1, <2>4, <1>4
    <3>6. done.witnesses = Copied(ws, b)
      BY <3>5, <2>6, <2>9
    <3>7. Len(done.witnesses) = (IF Len(ws) + 1 > WITNESS_CACHE_SIZE THEN WITNESS_CACHE_SIZE ELSE Len(ws) + 1)
      BY <3>4, <3>5, <3>6, <1>1, CopiedIs
    <3> DEFINE k == Len(ws)
               l == Len(done.witnesses)
               x == nHeight[lastTip] - nHeight[m] + 1
    <3>8. x \in Nat /\ nHeight[b] - nHeight[m] + 1 = x + 1
      BY <3>2, <2>1, <2>4
    <3>9. size' = (IF size < WITNESS_CACHE_SIZE THEN size + 1 ELSE size)
      BY <1>2, <1>4
    <3> HIDE DEF k, l, x
    <3>10. l >= size' \/ l >= x + 1
      <4>1. k \in Nat /\ (k >= size \/ k >= x) /\ size <= WITNESS_CACHE_SIZE
        BY <3>3, <3>4 DEF k, x, FirstRunInv
      <4>2. l = (IF k + 1 > WITNESS_CACHE_SIZE THEN WITNESS_CACHE_SIZE ELSE k + 1)
        BY <3>7 DEF k, l
      <4> QED
        BY <4>1, <4>2, <3>8, <3>9, <1>4, CacheSizeIs
    <3> QED
      BY <3>8, <3>10 DEF l
  <2> QED
    BY <2>6, <2>8, <2>9
<1>7. size' \in 0..WITNESS_CACHE_SIZE
  BY <1>2, <1>4
<1> QED
  BY <1>3, <1>6, <1>7 DEF FirstRunInv

LEMMA FirstRunDisconnect ==
    ASSUME RoundInv, FirstRunInv, ~exhausted, NotifyDisconnect
    PROVE  FirstRunInv'
<1> DEFINE b == lastTip
           p == pprev[b]
           synced == SyncedNotes(b)
           size == nWitnessCacheSize
<1>1. b \in Block /\ b # Genesis /\ lastTip' = p
  BY RoundNotifyDisconnect DEF RoundInv, RoundType, NotifyDisconnect
<1>2. /\ notes' = [n \in Note |-> DecrementNoteWitness(synced[n], b)]
      /\ size' = Shrunk(size) /\ hasNotes' = KnowsNotes(b)
      /\ exhausted' = (hasNotes' /\ size' = 0)
  BY DEF NotifyDisconnect
<1>3. NotesOk(notes', lastTip')
  BY NotesDisconnect DEF FirstRunInv
<1>4. size \in 0..WITNESS_CACHE_SIZE /\ size' \in 0..WITNESS_CACHE_SIZE /\ size \in Nat /\ size' \in Nat
      /\ (size >= 1 => size' = size - 1)
  BY <1>2, CacheSizeIs DEF FirstRunInv, Shrunk
<1>5. \A n \in Note : NoteOk(n, notes[n], b)
  BY DEF FirstRunInv, NotesOk
<1>6. \A n \in Note : b \notin MinedIn[n] => synced[n] = notes[n]
  BY DEF SyncedNotes
<1> HIDE DEF synced
<1>7. UnspentInv'
  <2> SUFFICES ASSUME NEW n \in Note, NEW m \in MinedIn[n] \cap Ancestors[p]
               PROVE  /\ hasNotes'
                      /\ ~exhausted' =>
                            /\ size' >= 1
                            /\ notes'[n].spentHeight = -1 =>
                                  \/ Len(notes'[n].witnesses) >= size'
                                  \/ Len(notes'[n].witnesses) >= nHeight[p] - nHeight[m] + 1
    BY <1>1 DEF UnspentInv
  <2>1. /\ nHeight[b] = nHeight[p] + 1 /\ nHeight[p] \in Nat /\ p \in Block
        /\ Ancestors[p] \subseteq Ancestors[b] /\ b \in Ancestors[b]
    BY <1>1, ParentStep, AncestorsAreBlocks
  <2>2. m \in Block /\ nHeight[m] \in Nat /\ nHeight[m] <= nHeight[p]
    BY <2>1, AncestorsAreBlocks, AncestorsNested
  <2>3. m \in MinedIn[n] \cap Ancestors[b]
    BY <2>1
  <2>4. b \notin MinedIn[n]
    BY <2>1, <2>2, <2>3, <1>1, MinedOnce
  <2>5. hasNotes'
    BY <2>3, <1>2 DEF KnowsNotes, FirstRunInv, UnspentInv
  <2> SUFFICES ASSUME ~exhausted'
               PROVE  /\ size' >= 1
                      /\ notes'[n].spentHeight = -1 =>
                            \/ Len(notes'[n].witnesses) >= size'
                            \/ Len(notes'[n].witnesses) >= nHeight[p] - nHeight[m] + 1
    BY <2>5
  <2>6. size' >= 1
    <3>1. size' # 0
      BY <2>5, <1>2, Zenon
    <3> QED
      BY <3>1, <1>4
  <2> DEFINE nd == notes[n]
             done == DecrementNoteWitness(nd, b)
             ws == nd.witnesses
  <2>7. nd \in NoteData /\ nd.witnessHeight <= nHeight[b]
    BY <1>1, <1>5, NoteOkHeight
  <2>8. notes'[n] = done
    BY <2>4, <1>2, <1>6
  <2>9. /\ size >= 1
        /\ nd.spentHeight = -1 => Len(ws) >= size \/ Len(ws) >= nHeight[b] - nHeight[m] + 1
    BY <2>3 DEF FirstRunInv, UnspentInv
  <2> HIDE DEF nd
  <2>10. /\ done.spentHeight = nd.spentHeight
         /\ ws # <<>> => Len(done.witnesses) = Len(ws) - 1
    BY <2>7, <1>1, DecrementShape
  <2>11. Len(ws) \in Nat /\ Len(<<>>) = 0
    BY <2>7 DEF NoteData
  <2> HIDE DEF ws, p, b, done
  <2> SUFFICES ASSUME nd.spentHeight = -1
               PROVE  \/ Len(done.witnesses) >= size'
                      \/ Len(done.witnesses) >= nHeight[p] - nHeight[m] + 1
    BY <2>6, <2>8, <2>10
  <2>12. ws # <<>>
    <3>1. Len(ws) > 0
      BY <2>1, <2>2, <2>9, <2>11, <1>4
    <3> QED
      BY <3>1, <2>11
  <2> QED
    BY <2>1, <2>2, <2>9, <2>10, <2>11, <2>12, <1>4
<1> QED
  BY <1>3, <1>4, <1>7 DEF FirstRunInv

LEMMA FirstRunNext ==
    ASSUME RoundInv, restarts = 0 => FirstRunInv, [Next]_vars
    PROVE  restarts' = 0 => FirstRunInv'
<1>1. CASE Restart
  <2>1. restarts' = restarts + 1 /\ restarts \in Nat
    BY <1>1 DEF Restart, RoundInv, RoundType
  <2> QED
    BY <2>1
<1>2. CASE ~Restart
  <2>1. restarts' = restarts
    <3>1. ASSUME NEW b \in Block, SetTip(b) PROVE restarts' = restarts
      BY <3>1 DEF SetTip
    <3> QED
      BY <3>1, <1>2, TipMoves
      DEF Next, Node, Notify, FlushChain, AddRecent, Collect, NotifyDisconnect, NotifyConnect,
          RoundEnds, StartNotifier, vars
  <2> SUFFICES ASSUME FirstRunInv PROVE FirstRunInv'
    BY <2>1
  <2>2. ASSUME UNCHANGED <<notes, lastTip, nWitnessCacheSize, exhausted>>, hasNotes => hasNotes'
        PROVE  FirstRunInv'
    BY <2>2 DEF FirstRunInv, NotesOk, UnspentInv
  <2>3. ASSUME NEW b \in Block, SetTip(b) PROVE FirstRunInv'
    BY <2>2, <2>3 DEF SetTip, notifyVars, walletVars
  <2>4. CASE FlushChain \/ (\E t \in Tx : AddRecent(t)) \/ StartNotifier \/ Collect \/ RoundEnds
             \/ UNCHANGED vars
    <3>1. UNCHANGED <<notes, lastTip, nWitnessCacheSize, exhausted>>
      BY <2>4 DEF FlushChain, AddRecent, Collect, RoundEnds, StartNotifier, vars, notifyVars, walletVars
    <3>2. hasNotes' \in {hasNotes, TRUE}
      BY <2>4 DEF FlushChain, AddRecent, Collect, RoundEnds, StartNotifier, vars, walletVars
    <3>3. hasNotes => hasNotes'
      BY <3>2, Zenon
    <3> QED
      BY <3>1, <3>3, <2>2
  <2> QED
    BY <2>3, <2>4, <1>2, TipMoves, FirstRunConnect, FirstRunDisconnect DEF Next, Node, Notify, Alive
<1> QED
  BY <1>1, <1>2

LEMMA SettledNext ==
    ASSUME RoundInv, settled => MarginInv /\ ~exhausted, [Next]_vars
    PROVE  settled' => MarginInv' /\ ~exhausted'
<1> SUFFICES ASSUME settled' PROVE MarginInv' /\ ~exhausted'
  OBVIOUS
<1>1. CASE Restart
  BY <1>1 DEF Restart
<1>2. ASSUME NEW b \in Block, ActivateBestChainStep(b) PROVE MarginInv' /\ ~exhausted'
  <2>1. settled /\ nHeight[b] >= nHeight[tip] /\ exhausted' = exhausted
    BY <1>2 DEF ActivateBestChainStep, SetTip, walletVars
  <2> QED
    BY <2>1, <1>2, MarginActivate
<1>3. ASSUME NEW b \in Block, InvalidateBlock(b) PROVE FALSE
  <2>1. b \in Ancestors[tip] /\ b # Genesis /\ tip \in Block /\ nHeight[pprev[b]] >= nHeight[tip]
    BY <1>3 DEF InvalidateBlock, SetTip, RoundInv, RoundType
  <2>2. nHeight[b] <= nHeight[tip] /\ nHeight[b] = nHeight[pprev[b]] + 1
        /\ nHeight[pprev[b]] \in Nat /\ nHeight[tip] \in Nat
    BY <2>1, ParentStep, AncestorsNested, AncestorsAreBlocks
  <2> QED
    BY <2>1, <2>2
<1>4. CASE Collect /\ Alive
  <2>1. settled /\ exhausted' = exhausted
    BY <1>4 DEF Collect, walletVars
  <2> QED
    BY <2>1, <1>4, MarginCollect
<1>5. CASE NotifyConnect /\ Alive
  <2>1. settled /\ exhausted' = exhausted
    BY <1>5 DEF NotifyConnect
  <2> QED
    BY <2>1, <1>5, MarginNotifyConnect
<1>6. CASE NotifyDisconnect /\ Alive
  <2>1. settled /\ exhausted' = (hasNotes' /\ nWitnessCacheSize' = 0)
    BY <1>6 DEF NotifyDisconnect
  <2>2. MarginInv' /\ nWitnessCacheSize' \in 1..WITNESS_CACHE_SIZE
    BY <2>1, <1>6, MarginNotifyDisconnect DEF MarginInv
  <2>3. nWitnessCacheSize' # 0
    BY <2>2, CacheSizeIs
  <2> QED
    BY <2>1, <2>2, <2>3
<1>7. ASSUME UNCHANGED <<tip, lastTip, nWitnessCacheSize, forkAt, blockStack>>, settled,
             notifyPc' = notifyPc \/ (notifyPc # "disconnect" /\ notifyPc' # "disconnect")
      PROVE  MarginInv'
  <2>1. Target' = Target
    BY <1>7 DEF Target, Base
  <2> QED
    BY <2>1, <1>7 DEF MarginInv, Near
<1>8. CASE FlushChain \/ (\E t \in Tx : AddRecent(t)) \/ StartNotifier \/ UNCHANGED vars
  <2>1. /\ UNCHANGED <<tip, lastTip, nWitnessCacheSize, forkAt, blockStack, settled, exhausted>>
        /\ notifyPc' = notifyPc \/ (notifyPc # "disconnect" /\ notifyPc' # "disconnect")
    BY <1>8 DEF FlushChain, AddRecent, StartNotifier, vars, chainVars, notifyVars, walletVars
  <2> QED
    BY <2>1, <1>7
<1>9. CASE RoundEnds /\ Alive
  <2>1. /\ UNCHANGED <<tip, lastTip, nWitnessCacheSize, forkAt, blockStack, exhausted>> /\ ~exhausted
        /\ notifyPc # "disconnect" /\ notifyPc' # "disconnect" /\ settled' = (settled \/ CaughtUp)
    BY <1>9 DEF RoundEnds, Alive, chainVars
  <2>2. CASE settled
    BY <2>1, <2>2, <1>7
  <2>3. CASE CaughtUp
    BY <2>1, <2>3, <1>9, MarginRoundEnds
  <2> QED
    BY <2>1, <2>2, <2>3
<1> QED
  BY <1>1, <1>2, <1>3, <1>4, <1>5, <1>6, <1>8, <1>9 DEF Next, Node, Notify

LEMMA RunningNext == RunningInv /\ [Next]_vars => RunningInv'
<1> SUFFICES ASSUME RunningInv, [Next]_vars PROVE RunningInv'
  OBVIOUS
<1>1. RoundInv'
  BY RoundNext DEF RunningInv
<1>2. settled' => MarginInv' /\ ~exhausted'
  BY SettledNext DEF RunningInv
<1>3. restarts' = 0 => FirstRunInv'
  BY FirstRunNext DEF RunningInv
<1> QED
  BY <1>1, <1>2, <1>3 DEF RunningInv

\* In a settled wallet the size of the cache covers what the node can still take away
\* from it, and before a restart a note that is not taken for spent has all the witnesses
\* that the cache has room for: the inductive invariant behind the next theorems.
THEOREM MarginInvariant == Spec => []RunningInv
BY RunningInit, RunningNext, PTL DEF Spec

\* From the moment a wallet, new, restarted or caught out by an invalidateblock, is on
\* the active chain with a full cache, DecrementNoteWitnesses never finds it used up
\* while the tip does not go down: MAX_REORG_LENGTH + 1 witnesses are enough, for any
\* MAX_REORG_LENGTH and WALLET_NOTIFY_MAX_BLOCKS, though the node may reorganise
\* several times within one round and during it.
THEOREM CacheAlwaysSuffices == Spec => []CacheSuffices
<1>1. RunningInv => CacheSuffices
  BY DEF RunningInv, CacheSuffices
<1> QED
  BY <1>1, MarginInvariant, PTL

\* No other assertion of IncrementNoteWitnesses and DecrementNoteWitnesses fails, whatever
\* the size of the cache at first, wherever the tip goes, and after every restart where
\* wallet and chain were written in step.
THEOREM WalletAssertsHold ==
    ASSUME ~AnyRestart
    PROVE  Spec => []WalletAsserts
<1>1. CacheInv /\ CacheSuffices => WalletAsserts
  BY DEF CacheInv, AssertInv, WalletAsserts
<1>2. Spec => []CacheInv
  BY CacheInit, CacheNext, RoundInvariant, PTL DEF Spec
<1> QED
  BY <1>1, <1>2, CacheAlwaysSuffices, PTL

\* Reorganisations that take the note's own block away and bring it back, spends of other
\* notes, rounds that overlap with all this, and pruning never leave a note without a
\* witness that the wallet does not take for spent, as long as the node runs and the
\* cache is not exhausted.
THEOREM UnspentAlwaysWitnessed == Spec => []UnspentWitnessed
<1>1. RunningInv => UnspentWitnessed
  <2> SUFFICES ASSUME RunningInv, restarts = 0, ~exhausted, NEW n \in Note, MinedAt(n, lastTip),
                      notes[n].spentHeight = -1
               PROVE  notes[n].witnesses # <<>>
    BY DEF UnspentWitnessed
  <2>1. UnspentInv /\ lastTip \in Block /\ nWitnessCacheSize \in 0..WITNESS_CACHE_SIZE
    BY DEF RunningInv, FirstRunInv, RoundInv, RoundType
  <2>2. PICK m \in MinedIn[n] \cap Ancestors[lastTip] : TRUE
    BY DEF MinedAt
  <2>3. nHeight[m] \in Nat /\ nHeight[lastTip] \in Nat /\ nHeight[m] <= nHeight[lastTip]
    BY <2>1, <2>2, AncestorsAreBlocks, AncestorsNested
  <2>4. /\ nWitnessCacheSize >= 1
        /\ \/ Len(notes[n].witnesses) >= nWitnessCacheSize
           \/ Len(notes[n].witnesses) >= nHeight[lastTip] - nHeight[m] + 1
    BY <2>1, <2>2 DEF UnspentInv
  <2>5. Len(<<>>) = 0 /\ nWitnessCacheSize \in Nat
    BY <2>1, CacheSizeIs
  <2> QED
    BY <2>3, <2>4, <2>5
<1> QED
  BY <1>1, MarginInvariant, PTL
=============================================================================
