---------------------------- MODULE CoinsProofs ----------------------------
(***************************************************************************)
(* Proofs about CoinsCache and CoinsChain, for every set of transactions,   *)
(* coins, nullifiers and roots and every block tree: the flags of both      *)
(* caches are sound, the caches implement CoinsView, and connecting and     *)
(* disconnecting blocks keeps them at the coins of the chain.               *)
(*                                                                          *)
(* The first lemmas say what the operations on one cache do to its lookups  *)
(* and its flags; the invariant of the caches and the refinement follow     *)
(* action by action.  The second half first shows that the recursive        *)
(* reference definition StateAt satisfies its equations, then that          *)
(* ConnectBlock follows the trail of states between a block's parent and    *)
(* the block, and DisconnectBlock the same trail back.                      *)
(***************************************************************************)
EXTENDS CoinsChain, SequenceTheorems, NaturalsInduction, WellFoundedInduction, TLAPS

-----------------------------------------------------------------------------
(* Lemmas about a cache of coins over any parent.                           *)

\* An empty cache shows its parent (constructor, Flush, restart).
LEMMA EmptyCoinsSound ==
    ASSUME NEW base \in [Txid -> CCoins]
    PROVE  LET cache == [x \in Txid |-> NoCoins]
           IN  /\ cache \in [Txid -> CoinsEntry]
               /\ CoinsThrough(cache, base) = base
               /\ CoinsFlagsSound(cache, base)
  BY CoinsAssumption DEF NoCoins, CoinsEntry, CoinsThrough, CoinsFlagsSound

\* A lookup through a cache of coins finds coins.
LEMMA CoinsThroughType ==
    ASSUME NEW base \in [Txid -> CCoins], NEW cache \in [Txid -> CoinsEntry]
    PROVE  CoinsThrough(cache, base) \in [Txid -> CCoins]
  BY DEF CoinsThrough, CoinsEntry

\* FetchCoins caches what the parent has: no lookup changes and the flags are right.
LEMMA FetchedCoinsSound ==
    ASSUME NEW base \in [Txid -> CCoins], NEW cache \in [Txid -> CoinsEntry],
           NEW x \in Txid, NEW found \in BOOLEAN,
           CoinsFlagsSound(cache, base)
    PROVE  LET new == FetchedCoins(cache, x, found, base[x])
           IN  /\ new \in [Txid -> CoinsEntry]
               /\ CoinsThrough(new, base) = CoinsThrough(cache, base)
               /\ CoinsFlagsSound(new, base)
<1> DEFINE new == FetchedCoins(cache, x, found, base[x])
<1>1. CASE cache[x].cached \/ ~found
  BY <1>1 DEF FetchedCoins
<1>2. CASE ~(cache[x].cached \/ ~found)
  <2>1. new = [cache EXCEPT ![x] = [cached |-> TRUE, coins |-> base[x], dirty |-> FALSE,
                                    fresh |-> base[x] = Pruned]]
    BY <1>2 DEF FetchedCoins
  <2>2. new \in [Txid -> CoinsEntry]
    BY <2>1 DEF CoinsEntry
  <2>3. CoinsThrough(new, base) = CoinsThrough(cache, base)
    BY <1>2, <2>1 DEF CoinsThrough
  <2>4. new[x].cached /\ new[x].coins = base[x] /\ (new[x].fresh => base[x] = Pruned)
    <3>1. new[x] = [cached |-> TRUE, coins |-> base[x], dirty |-> FALSE,
                    fresh |-> base[x] = Pruned]
      BY <2>1, Zenon
    <3>2. new[x].cached /\ new[x].coins = base[x] /\ new[x].fresh = (base[x] = Pruned)
      BY <3>1
    <3> QED BY <3>2, Zenon
  <2>5. \A y \in Txid \ {x} : new[y] = cache[y]
    BY <2>1
  <2>6. CoinsFlagsSound(new, base)
    BY <2>4, <2>5 DEF CoinsFlagsSound
  <2> QED BY <2>2, <2>3, <2>6
<1> QED BY <1>1, <1>2

\* An entry may leave the cache if it and the parent are pruned; otherwise it is
\* DIRTY, and FRESH only if the parent is pruned.
ModifiedRight(e, c, below) ==
    /\ e \in CoinsEntry
    /\ \/ e = NoCoins /\ c = Pruned /\ below = Pruned
       \/ e.cached /\ e.coins = c /\ e.dirty /\ (e.fresh => below = Pruned)

\* Such an entry changes one lookup and keeps the flags right.
LEMMA ModifiedCoinsSound ==
    ASSUME NEW base \in [Txid -> CCoins], NEW cache \in [Txid -> CoinsEntry],
           NEW x \in Txid, NEW c \in CCoins, NEW e, NEW new,
           CoinsFlagsSound(cache, base), ModifiedRight(e, c, base[x]),
           new = [cache EXCEPT ![x] = e]
    PROVE  /\ new \in [Txid -> CoinsEntry]
           /\ CoinsThrough(new, base) = [CoinsThrough(cache, base) EXCEPT ![x] = c]
           /\ CoinsFlagsSound(new, base)
<1>1. new \in [Txid -> CoinsEntry]
  BY DEF ModifiedRight
<1>2. \A y \in Txid \ {x} : new[y] = cache[y]
  OBVIOUS
<1>3. new[x] = e
  OBVIOUS
<1>4. /\ (IF e.cached THEN e.coins ELSE base[x]) = c
      /\ ~e.cached => e = NoCoins
      /\ ~e.dirty /\ e.cached => e.coins = base[x]
      /\ e.fresh => base[x] = Pruned
  BY DEF ModifiedRight, NoCoins
<1>5. CoinsThrough(new, base) = [CoinsThrough(cache, base) EXCEPT ![x] = c]
  BY <1>1, <1>2, <1>3, <1>4 DEF CoinsThrough
<1>6. CoinsFlagsSound(new, base)
  BY <1>1, <1>2, <1>3, <1>4 DEF CoinsFlagsSound
<1> QED BY <1>1, <1>5, <1>6

\* Uncache changes no lookup.
LEMMA UncachedCoinsSound ==
    ASSUME NEW base \in [Txid -> CCoins], NEW cache \in [Txid -> CoinsEntry],
           NEW x \in Txid, CoinsFlagsSound(cache, base)
    PROVE  LET new == [cache EXCEPT ![x] = UncacheEntry(@)]
           IN  /\ new \in [Txid -> CoinsEntry]
               /\ CoinsThrough(new, base) = CoinsThrough(cache, base)
               /\ CoinsFlagsSound(new, base)
<1> DEFINE new == [cache EXCEPT ![x] = UncacheEntry(@)]
<1>1. new \in [Txid -> CoinsEntry]
  BY CoinsAssumption DEF UncacheEntry, CoinsEntry, NoCoins
<1>2. CoinsThrough(new, base) = CoinsThrough(cache, base)
  BY DEF CoinsThrough, UncacheEntry, NoCoins, CoinsFlagsSound
<1>3. CoinsFlagsSound(new, base)
  BY DEF CoinsFlagsSound, UncacheEntry, NoCoins
<1> QED BY <1>1, <1>2, <1>3

\* BatchWrite into a cache: afterwards the parent shows what the child showed.
LEMMA BatchWrittenCoinsSound ==
    ASSUME NEW base \in [Txid -> CCoins], NEW parent \in [Txid -> CoinsEntry],
           NEW child \in [Txid -> CoinsEntry],
           CoinsFlagsSound(parent, base), CoinsFlagsSound(child, CoinsThrough(parent, base))
    PROVE  LET new == [x \in Txid |-> BatchWrittenCoins(parent[x], child[x])]
           IN  /\ new \in [Txid -> CoinsEntry]
               /\ CoinsThrough(new, base) = CoinsThrough(child, CoinsThrough(parent, base))
               /\ CoinsFlagsSound(new, base)
<1> DEFINE new == [x \in Txid |-> BatchWrittenCoins(parent[x], child[x])]
<1>1. ASSUME NEW x \in Txid
      PROVE  /\ BatchWrittenCoins(parent[x], child[x]) \in CoinsEntry
             /\ (IF new[x].cached THEN new[x].coins ELSE base[x])
                  = (IF child[x].cached THEN child[x].coins
                     ELSE IF parent[x].cached THEN parent[x].coins ELSE base[x])
             /\ ~new[x].cached => new[x] = NoCoins
             /\ ~new[x].dirty /\ new[x].cached => new[x].coins = base[x]
             /\ new[x].fresh => base[x] = Pruned
  <2>1. /\ ~parent[x].cached => parent[x] = NoCoins
        /\ ~parent[x].dirty /\ parent[x].cached => parent[x].coins = base[x]
        /\ parent[x].fresh => base[x] = Pruned
    BY DEF CoinsFlagsSound
  <2>2. CoinsThrough(parent, base)[x] = IF parent[x].cached THEN parent[x].coins ELSE base[x]
    BY DEF CoinsThrough
  <2>3. /\ ~child[x].cached => child[x] = NoCoins
        /\ ~child[x].dirty /\ child[x].cached => child[x].coins = CoinsThrough(parent, base)[x]
        /\ child[x].fresh => CoinsThrough(parent, base)[x] = Pruned
    BY DEF CoinsFlagsSound
  <2>4. parent[x] \in CoinsEntry /\ child[x] \in CoinsEntry
    OBVIOUS
  <2>5. CASE ~child[x].dirty
    <3>1. new[x] = parent[x]
      BY <2>5 DEF BatchWrittenCoins
    <3> QED BY <2>1, <2>2, <2>3, <2>4, <2>5, <3>1
  <2>6. CASE child[x].dirty /\ ~parent[x].cached
    <3>1. new[x] = IF child[x].fresh /\ child[x].coins = Pruned THEN parent[x] ELSE child[x]
      BY <2>6 DEF BatchWrittenCoins
    <3>2. child[x].cached
      BY <2>3, <2>6 DEF NoCoins
    <3>3. parent[x] = NoCoins /\ ~parent[x].dirty /\ ~parent[x].fresh
      BY <2>1, <2>6 DEF NoCoins
    <3> QED BY <2>1, <2>2, <2>3, <2>4, <2>6, <3>1, <3>2, <3>3
  <2>7. CASE child[x].dirty /\ parent[x].cached
    <3>1. new[x] = IF parent[x].fresh /\ child[x].coins = Pruned
                   THEN NoCoins ELSE [parent[x] EXCEPT !.coins = child[x].coins, !.dirty = TRUE]
      BY <2>7 DEF BatchWrittenCoins
    <3>2. child[x].cached
      BY <2>3, <2>7 DEF NoCoins
    <3>3. new[x] = BatchWrittenCoins(parent[x], child[x])
      OBVIOUS
    <3>4. CASE parent[x].fresh /\ child[x].coins = Pruned
      <4>1. new[x] = NoCoins
        BY <3>1, <3>4
      <4>2. NoCoins \in CoinsEntry /\ ~NoCoins.cached /\ ~NoCoins.fresh
        BY CoinsAssumption DEF NoCoins, CoinsEntry
      <4> QED BY <2>1, <3>2, <3>3, <3>4, <4>1, <4>2
    <3>5. CASE ~(parent[x].fresh /\ child[x].coins = Pruned)
      <4>1. new[x] = [parent[x] EXCEPT !.coins = child[x].coins, !.dirty = TRUE]
        BY <3>1, <3>5
      <4>2. /\ new[x] \in CoinsEntry
            /\ new[x].cached = parent[x].cached
            /\ new[x].coins = child[x].coins
            /\ new[x].dirty
            /\ new[x].fresh = parent[x].fresh
        BY <2>4, <4>1 DEF CoinsEntry
      <4> QED BY <2>1, <2>7, <3>2, <3>3, <4>2
    <3> QED BY <3>4, <3>5, Zenon
  <2> QED BY <2>5, <2>6, <2>7, Zenon
<1>2. new \in [Txid -> CoinsEntry]
  BY <1>1
<1>3. CoinsThrough(new, base) = CoinsThrough(child, CoinsThrough(parent, base))
  BY <1>1 DEF CoinsThrough
<1>4. CoinsFlagsSound(new, base)
  BY <1>1 DEF CoinsFlagsSound
<1> QED BY <1>2, <1>3, <1>4

\* BatchWrite into the database stores what pcoinsTip showed.
LEMMA WrittenCoinsSound ==
    ASSUME NEW base \in [Txid -> CCoins], NEW cache \in [Txid -> CoinsEntry],
           CoinsFlagsSound(cache, base)
    PROVE  [x \in Txid |-> TipWritten(cache[x], base[x])] = CoinsThrough(cache, base)
  BY DEF TipWritten, CoinsThrough, CoinsFlagsSound, NoCoins, CoinsEntry

-----------------------------------------------------------------------------
(* The same for nullifiers and anchors, over any set of keys.               *)

\* An empty cache shows its parent.
LEMMA EmptyMarksSound ==
    ASSUME NEW Key, NEW base \in [Key -> BOOLEAN]
    PROVE  LET cache == [k \in Key |-> NoMark]
           IN  /\ cache \in [Key -> MarkEntry]
               /\ MarksThrough(cache, base) = base
               /\ MarkFlagsSound(cache, base)
  BY DEF NoMark, MarkEntry, MarksThrough, MarkFlagsSound

\* A lookup through a cache of marks finds a truth value for every key.
LEMMA MarksThroughType ==
    ASSUME NEW Key, NEW base \in [Key -> BOOLEAN], NEW cache \in [Key -> MarkEntry]
    PROVE  MarksThrough(cache, base) \in [Key -> BOOLEAN]
  BY DEF MarksThrough, MarkEntry

\* A cache that takes a missing entry from its parent, or is left alone, changes no
\* lookup and keeps its flags right.
LEMMA FetchedMarkSound ==
    ASSUME NEW Key, NEW base \in [Key -> BOOLEAN], NEW cache \in [Key -> MarkEntry],
           NEW k \in Key, NEW new,
           \/ new = cache
           \/ /\ ~cache[k].cached
              /\ new = [cache EXCEPT ![k] = [cached |-> TRUE, entered |-> base[k], dirty |-> FALSE]],
           MarkFlagsSound(cache, base)
    PROVE  /\ new \in [Key -> MarkEntry]
           /\ MarksThrough(new, base) = MarksThrough(cache, base)
           /\ MarkFlagsSound(new, base)
<1>1. CASE new = cache
  BY <1>1
<1>2. CASE /\ ~cache[k].cached
           /\ new = [cache EXCEPT ![k] = [cached |-> TRUE, entered |-> base[k], dirty |-> FALSE]]
  <2>1. new \in [Key -> MarkEntry]
    BY <1>2 DEF MarkEntry
  <2>2. MarksThrough(new, base) = MarksThrough(cache, base)
    BY <1>2 DEF MarksThrough
  <2>3. MarkFlagsSound(new, base)
    BY <1>2 DEF MarkFlagsSound
  <2> QED BY <2>1, <2>2, <2>3
<1> QED BY <1>1, <1>2

\* GetNullifier: what the parent says is cached, whether it is spent or not.
LEMMA FetchedNullifierSound ==
    ASSUME NEW Key, NEW base \in [Key -> BOOLEAN], NEW cache \in [Key -> MarkEntry],
           NEW k \in Key, MarkFlagsSound(cache, base)
    PROVE  LET new == FetchedMark(cache, k, TRUE, base[k])
           IN  /\ new \in [Key -> MarkEntry]
               /\ MarksThrough(new, base) = MarksThrough(cache, base)
               /\ MarkFlagsSound(new, base)
<1> DEFINE new == FetchedMark(cache, k, TRUE, base[k])
<1>1. \/ new = cache
      \/ /\ ~cache[k].cached
         /\ new = [cache EXCEPT ![k] = [cached |-> TRUE, entered |-> base[k], dirty |-> FALSE]]
  BY DEF FetchedMark
<1> HIDE DEF new
<1>2. /\ new \in [Key -> MarkEntry]
      /\ MarksThrough(new, base) = MarksThrough(cache, base)
      /\ MarkFlagsSound(new, base)
  BY <1>1, FetchedMarkSound
<1> QED BY <1>2 DEF new

\* An entry SetNullifiers, PushAnchor or PopAnchor leaves.
DirtyMark(e) == e \in MarkEntry /\ e.cached /\ e.dirty

\* It keeps the flags right.
LEMMA WrittenMarkSound ==
    ASSUME NEW Key, NEW base \in [Key -> BOOLEAN], NEW cache \in [Key -> MarkEntry],
           NEW k \in Key, NEW e, NEW new, DirtyMark(e),
           MarkFlagsSound(cache, base), new = [cache EXCEPT ![k] = e]
    PROVE  /\ new \in [Key -> MarkEntry]
           /\ MarkFlagsSound(new, base)
  BY DEF DirtyMark, MarkEntry, MarkFlagsSound

\* BatchWriteNullifiers and BatchWriteAnchors into a cache.
LEMMA BatchWrittenMarksSound ==
    ASSUME NEW Key, NEW base \in [Key -> BOOLEAN], NEW parent \in [Key -> MarkEntry],
           NEW child \in [Key -> MarkEntry],
           MarkFlagsSound(parent, base), MarkFlagsSound(child, MarksThrough(parent, base))
    PROVE  LET new == [k \in Key |-> BatchWrittenMark(parent[k], child[k])]
           IN  /\ new \in [Key -> MarkEntry]
               /\ MarksThrough(new, base) = MarksThrough(child, MarksThrough(parent, base))
               /\ MarkFlagsSound(new, base)
<1> DEFINE new == [k \in Key |-> BatchWrittenMark(parent[k], child[k])]
<1>1. ASSUME NEW k \in Key
      PROVE  /\ new[k] \in MarkEntry
             /\ (IF new[k].cached THEN new[k].entered ELSE base[k])
                  = (IF child[k].cached THEN child[k].entered
                     ELSE IF parent[k].cached THEN parent[k].entered ELSE base[k])
             /\ ~new[k].cached => new[k] = NoMark
             /\ ~new[k].dirty /\ new[k].cached => new[k].entered = base[k]
  <2>1. /\ ~parent[k].cached => parent[k] = NoMark
        /\ ~parent[k].dirty /\ parent[k].cached => parent[k].entered = base[k]
    BY DEF MarkFlagsSound
  <2>2. MarksThrough(parent, base)[k] = IF parent[k].cached THEN parent[k].entered ELSE base[k]
    BY DEF MarksThrough
  <2>3. /\ ~child[k].cached => child[k] = NoMark
        /\ ~child[k].dirty /\ child[k].cached => child[k].entered = MarksThrough(parent, base)[k]
    BY MarksThroughType DEF MarkFlagsSound
  <2>4. parent[k] \in MarkEntry /\ child[k] \in MarkEntry
    OBVIOUS
  <2>5. child[k].dirty => child[k].cached
    BY <2>3 DEF NoMark
  <2>6. CASE ~child[k].dirty
    <3>1. new[k] = parent[k]
      BY <2>6 DEF BatchWrittenMark
    <3> QED BY <2>1, <2>2, <2>3, <2>4, <2>6, <3>1
  <2>7. CASE child[k].dirty /\ ~parent[k].cached
    <3>1. new[k] = child[k]
      BY <2>7 DEF BatchWrittenMark
    <3> QED BY <2>3, <2>4, <2>5, <2>7, <3>1
  <2>8. CASE child[k].dirty /\ parent[k].cached
    <3>1. new[k] = IF parent[k].entered # child[k].entered
                   THEN [parent[k] EXCEPT !.entered = child[k].entered, !.dirty = TRUE]
                   ELSE parent[k]
      BY <2>8 DEF BatchWrittenMark
    <3>2. /\ new[k] \in MarkEntry
          /\ new[k].cached
          /\ new[k].entered = child[k].entered
          /\ new[k].dirty \/ new[k] = parent[k]
      <4> DEFINE p == parent[k]
                 c == child[k]
                 n == new[k]
                 m == [p EXCEPT !.entered = c.entered, !.dirty = TRUE]
      <4>1. /\ p \in MarkEntry /\ c \in MarkEntry /\ p.cached
            /\ n = IF p.entered # c.entered THEN m ELSE p
        BY <2>4, <2>8, <3>1
      <4> HIDE DEF p, c, n
      <4>2. m \in MarkEntry /\ m.cached = p.cached /\ m.entered = c.entered /\ m.dirty = TRUE
        BY <4>1 DEF MarkEntry
      <4> HIDE DEF m
      <4>3. n \in MarkEntry /\ n.cached /\ n.entered = c.entered /\ (n.dirty \/ n = p)
        BY <4>1, <4>2
      <4> QED
        BY <4>3 DEF n, c, p
    <3> QED BY <2>1, <2>5, <2>8, <3>2
  <2> QED BY <2>6, <2>7, <2>8, Zenon
<1>2. new \in [Key -> MarkEntry]
  BY <1>1
<1>3. MarksThrough(new, base) = MarksThrough(child, MarksThrough(parent, base))
  BY <1>1 DEF MarksThrough
<1>4. MarkFlagsSound(new, base)
  BY <1>1 DEF MarkFlagsSound
<1> QED BY <1>2, <1>3, <1>4

\* BatchWrite into the database stores the marks pcoinsTip showed.
LEMMA WrittenMarksSound ==
    ASSUME NEW Key, NEW base \in [Key -> BOOLEAN], NEW cache \in [Key -> MarkEntry],
           MarkFlagsSound(cache, base)
    PROVE  [k \in Key |-> IF cache[k].dirty THEN cache[k].entered ELSE base[k]]
             = MarksThrough(cache, base)
  BY DEF MarksThrough, MarkFlagsSound, NoMark, MarkEntry

-----------------------------------------------------------------------------
(* The lookups of the whole stack, and what the steps that only read leave  *)
(* alone.                                                                   *)

tipLookups  == <<TipCoins, TipNullifiers, TipAnchors, TipBestAnchor, TipBestBlock>>
viewLookups == <<ViewCoins, ViewNullifiers, ViewAnchors, ViewBestAnchor, ViewBestBlock>>

\* Every lookup finds a value of its type.
LEMMA LookupTypes ==
    ASSUME TypeOK
    PROVE  /\ TipCoins \in [Txid -> CCoins] /\ ViewCoins \in [Txid -> CCoins]
           /\ TipNullifiers \in [Nullifier -> BOOLEAN] /\ ViewNullifiers \in [Nullifier -> BOOLEAN]
           /\ TipAnchors \in [Root -> BOOLEAN] /\ ViewAnchors \in [Root -> BOOLEAN]
           /\ TipBestAnchor \in Root /\ ViewBestAnchor \in Root
           /\ TipBestBlock \in Block /\ ViewBestBlock \in Block
<1>1. TipCoins \in [Txid -> CCoins] /\ ViewCoins \in [Txid -> CCoins]
  BY CoinsThroughType DEF TypeOK, TipCoins, ViewCoins
<1>2. TipNullifiers \in [Nullifier -> BOOLEAN] /\ TipAnchors \in [Root -> BOOLEAN]
  BY MarksThroughType DEF TypeOK, TipNullifiers, TipAnchors
<1>3. ViewNullifiers \in [Nullifier -> BOOLEAN] /\ ViewAnchors \in [Root -> BOOLEAN]
  BY <1>2, MarksThroughType DEF TypeOK, ViewNullifiers, ViewAnchors
<1>4. /\ TipBestAnchor \in Root /\ ViewBestAnchor \in Root
      /\ TipBestBlock \in Block /\ ViewBestBlock \in Block
  BY DEF TypeOK, TipBestAnchor, ViewBestAnchor, TipBestBlock, ViewBestBlock, HashThrough
<1> QED BY <1>1, <1>2, <1>3, <1>4

\* FetchCoins of pcoinsTip.
LEMMA TipFetchedSound ==
    ASSUME CoinsInv, NEW x \in Txid
    PROVE  /\ TipFetched(x) \in [Txid -> CoinsEntry]
           /\ CoinsThrough(TipFetched(x), dbCoins) = TipCoins
           /\ CoinsFlagsSound(TipFetched(x), dbCoins)
  BY FetchedCoinsSound DEF CoinsInv, TypeOK, FlagsSound, TipFetched, TipCoins

\* GetNullifier of pcoinsTip.
LEMMA TipNullifierFetchedSound ==
    ASSUME CoinsInv, NEW n \in Nullifier
    PROVE  /\ TipNullifierFetched(n) \in [Nullifier -> MarkEntry]
           /\ MarksThrough(TipNullifierFetched(n), dbNullifiers) = TipNullifiers
           /\ MarkFlagsSound(TipNullifierFetched(n), dbNullifiers)
  BY FetchedNullifierSound DEF CoinsInv, TypeOK, FlagsSound, TipNullifierFetched, TipNullifiers

\* GetSproutAnchorAt of pcoinsTip.
LEMMA TipAnchorFetchedSound ==
    ASSUME CoinsInv, NEW rt \in Root
    PROVE  /\ TipAnchorFetched(rt) \in [Root -> MarkEntry]
           /\ MarksThrough(TipAnchorFetched(rt), dbAnchors) = TipAnchors
           /\ MarkFlagsSound(TipAnchorFetched(rt), dbAnchors)
           /\ TipAnchorFetched(rt)[EmptyRoot].cached => TipAnchorFetched(rt)[EmptyRoot].entered
<1>1. /\ dbAnchors \in [Root -> BOOLEAN] /\ tipAnchors \in [Root -> MarkEntry]
      /\ MarkFlagsSound(tipAnchors, dbAnchors)
  BY DEF CoinsInv, TypeOK, FlagsSound
<1>2. \/ TipAnchorFetched(rt) = tipAnchors
      \/ /\ ~tipAnchors[rt].cached
         /\ TipAnchorFetched(rt) = [tipAnchors EXCEPT ![rt] = [cached |-> TRUE,
                                      entered |-> dbAnchors[rt], dirty |-> FALSE]]
  BY <1>1 DEF TipAnchorFetched, FetchedMark
<1>3. /\ TipAnchorFetched(rt) \in [Root -> MarkEntry]
      /\ MarksThrough(TipAnchorFetched(rt), dbAnchors) = TipAnchors
      /\ MarkFlagsSound(TipAnchorFetched(rt), dbAnchors)
  BY <1>1, <1>2, FetchedMarkSound DEF TipAnchors
<1>4. TipAnchorFetched(rt)[EmptyRoot].cached => TipAnchorFetched(rt)[EmptyRoot].entered
  BY CoinsAssumption DEF CoinsInv, TypeOK, PhaseConsistent, TipAnchorFetched, FetchedMark
<1> QED BY <1>3, <1>4

\* pcoinsTip->AccessCoins changes no lookup.
LEMMA TipAccessCoinsStep ==
    ASSUME CoinsInv, NEW x \in Txid, TipAccessCoins(x)
    PROVE  CoinsInv' /\ UNCHANGED <<dbVars, tipLookups, viewLookups, phase>>
<1> USE DEF TipAccessCoins, dbVars, viewVars
<1>1. TipCoins' = TipCoins /\ tipCoins' \in [Txid -> CoinsEntry] /\ CoinsFlagsSound(tipCoins', dbCoins')
  BY TipFetchedSound DEF TipCoins
<1>2. UNCHANGED <<dbVars, tipLookups, viewLookups, phase>>
  BY <1>1 DEF tipLookups, viewLookups, TipNullifiers, TipAnchors, TipBestAnchor, TipBestBlock,
              ViewCoins, ViewNullifiers, ViewAnchors, ViewBestAnchor, ViewBestBlock
<1>3. TypeOK'
  BY <1>1 DEF CoinsInv, TypeOK
<1>4. FlagsSound'
  BY <1>1, <1>2 DEF CoinsInv, FlagsSound, tipLookups
<1>5. PhaseConsistent'
  BY <1>1 DEF CoinsInv, PhaseConsistent
<1> QED BY <1>2, <1>3, <1>4, <1>5 DEF CoinsInv

\* pcoinsTip->HaveShieldedRequirements changes no lookup.
LEMMA TipGetShieldedStep ==
    ASSUME CoinsInv, NEW n \in Nullifier, NEW rt \in Root, TipGetShielded(n, rt)
    PROVE  CoinsInv' /\ UNCHANGED <<dbVars, tipLookups, viewLookups, phase>>
<1> USE DEF TipGetShielded, dbVars, viewVars
<1>1. /\ TipNullifiers' = TipNullifiers /\ tipNullifiers' \in [Nullifier -> MarkEntry]
      /\ MarkFlagsSound(tipNullifiers', dbNullifiers')
      /\ TipAnchors' = TipAnchors /\ tipAnchors' \in [Root -> MarkEntry]
      /\ MarkFlagsSound(tipAnchors', dbAnchors')
      /\ tipAnchors'[EmptyRoot].cached => tipAnchors'[EmptyRoot].entered
  BY TipNullifierFetchedSound, TipAnchorFetchedSound DEF TipNullifiers, TipAnchors
<1>2. UNCHANGED <<dbVars, tipLookups, viewLookups, phase>>
  BY <1>1 DEF tipLookups, viewLookups, TipCoins, TipBestAnchor, TipBestBlock,
              ViewCoins, ViewNullifiers, ViewAnchors, ViewBestAnchor, ViewBestBlock
<1>3. TypeOK'
  BY <1>1 DEF CoinsInv, TypeOK
<1>4. FlagsSound'
  BY <1>1, <1>2 DEF CoinsInv, FlagsSound, tipLookups
<1>5. PhaseConsistent'
  BY <1>1, <1>2 DEF CoinsInv, PhaseConsistent, tipLookups
<1> QED BY <1>2, <1>3, <1>4, <1>5 DEF CoinsInv

\* Uncache changes no lookup.
LEMMA UncacheStep ==
    ASSUME CoinsInv, NEW x \in Txid, Uncache(x)
    PROVE  CoinsInv' /\ UNCHANGED <<dbVars, tipLookups, viewLookups, phase>>
<1> USE DEF Uncache, dbVars, viewVars
<1>1. /\ TipCoins' = TipCoins /\ tipCoins' \in [Txid -> CoinsEntry]
      /\ CoinsFlagsSound(tipCoins', dbCoins')
  BY UncachedCoinsSound DEF TipCoins, CoinsInv, TypeOK, FlagsSound
<1>2. UNCHANGED <<dbVars, tipLookups, viewLookups, phase>>
  BY <1>1 DEF tipLookups, viewLookups, TipNullifiers, TipAnchors, TipBestAnchor, TipBestBlock,
              ViewCoins, ViewNullifiers, ViewAnchors, ViewBestAnchor, ViewBestBlock
<1>3. TypeOK'
  BY <1>1 DEF CoinsInv, TypeOK
<1>4. FlagsSound'
  BY <1>1, <1>2 DEF CoinsInv, FlagsSound, tipLookups
<1>5. PhaseConsistent'
  BY <1>1 DEF CoinsInv, PhaseConsistent
<1> QED BY <1>2, <1>3, <1>4, <1>5 DEF CoinsInv

\* view.AccessCoins fills two caches and changes no lookup.
LEMMA ViewAccessCoinsStep ==
    ASSUME CoinsInv, NEW x \in Txid, ViewAccessCoins(x)
    PROVE  CoinsInv' /\ UNCHANGED <<dbVars, tipLookups, viewLookups, phase>>
<1> USE DEF ViewAccessCoins, dbVars
<1>1. /\ TipCoins' = TipCoins /\ tipCoins' \in [Txid -> CoinsEntry]
      /\ CoinsFlagsSound(tipCoins', dbCoins')
  BY TipFetchedSound DEF TipCoins, CoinsInv, TypeOK, FlagsSound
<1>2. /\ ViewCoins' = ViewCoins /\ viewCoins' \in [Txid -> CoinsEntry]
      /\ CoinsFlagsSound(viewCoins', TipCoins')
  <2>1. tipCoins'[x].cached => tipCoins'[x].coins = TipCoins[x]
    BY <1>1 DEF TipCoins, CoinsThrough
  <2>2. CASE tipCoins'[x].cached
    <3>1. viewCoins' = FetchedCoins(viewCoins, x, TRUE, TipCoins[x])
      BY <2>1, <2>2 DEF FetchedCoins
    <3>2. TipCoins \in [Txid -> CCoins]
      BY LookupTypes DEF CoinsInv
    <3>3. viewCoins \in [Txid -> CoinsEntry] /\ CoinsFlagsSound(viewCoins, TipCoins)
      BY DEF CoinsInv, TypeOK, FlagsSound
    <3>4. /\ viewCoins' \in [Txid -> CoinsEntry]
          /\ CoinsThrough(viewCoins', TipCoins) = CoinsThrough(viewCoins, TipCoins)
          /\ CoinsFlagsSound(viewCoins', TipCoins)
      <4> HIDE DEF ViewAccessCoins
      <4> QED BY <3>1, <3>2, <3>3, FetchedCoinsSound
    <3> QED BY <1>1, <3>4 DEF ViewCoins
  <2>3. CASE ~tipCoins'[x].cached
    <3>1. viewCoins' = viewCoins
      BY <2>3 DEF FetchedCoins
    <3> QED BY <1>1, <3>1 DEF ViewCoins, CoinsInv, TypeOK, FlagsSound
  <2> QED BY <2>2, <2>3
<1>3. UNCHANGED <<dbVars, tipLookups, viewLookups, phase>>
  BY <1>1, <1>2 DEF tipLookups, viewLookups, TipNullifiers, TipAnchors, TipBestAnchor,
              TipBestBlock, ViewNullifiers, ViewAnchors, ViewBestAnchor, ViewBestBlock
<1>4. TypeOK'
  BY <1>1, <1>2 DEF CoinsInv, TypeOK
<1>5. FlagsSound'
  BY <1>1, <1>2, <1>3 DEF CoinsInv, FlagsSound, tipLookups
<1>6. PhaseConsistent'
  BY <1>1 DEF CoinsInv, PhaseConsistent
<1> QED BY <1>3, <1>4, <1>5, <1>6 DEF CoinsInv

\* view.HaveShieldedRequirements fills four caches and changes no lookup.
LEMMA ViewGetShieldedStep ==
    ASSUME CoinsInv, NEW n \in Nullifier, NEW rt \in Root, ViewGetShielded(n, rt)
    PROVE  CoinsInv' /\ UNCHANGED <<dbVars, tipLookups, viewLookups, phase>>
<1> USE DEF ViewGetShielded, dbVars
<1> DEFINE Anchored(cache) == cache[EmptyRoot].cached => cache[EmptyRoot].entered
<1>1. /\ TipNullifiers' = TipNullifiers /\ tipNullifiers' \in [Nullifier -> MarkEntry]
      /\ MarkFlagsSound(tipNullifiers', dbNullifiers')
  BY TipNullifierFetchedSound DEF TipNullifiers, CoinsInv, TypeOK, FlagsSound
<1>2. /\ TipAnchors' = TipAnchors /\ tipAnchors' \in [Root -> MarkEntry]
      /\ MarkFlagsSound(tipAnchors', dbAnchors') /\ Anchored(tipAnchors')
  BY TipAnchorFetchedSound DEF TipAnchors, CoinsInv, TypeOK, FlagsSound, PhaseConsistent
<1>3. /\ ViewNullifiers' = ViewNullifiers /\ viewNullifiers' \in [Nullifier -> MarkEntry]
      /\ MarkFlagsSound(viewNullifiers', TipNullifiers')
  <2>1. TipNullifiers \in [Nullifier -> BOOLEAN]
    BY LookupTypes DEF CoinsInv
  <2>2. viewNullifiers \in [Nullifier -> MarkEntry] /\ MarkFlagsSound(viewNullifiers, TipNullifiers)
    BY DEF CoinsInv, TypeOK, FlagsSound
  <2>3. viewNullifiers' = FetchedMark(viewNullifiers, n, TRUE, TipNullifiers[n])
    OBVIOUS
  <2>4. /\ viewNullifiers' \in [Nullifier -> MarkEntry]
        /\ MarksThrough(viewNullifiers', TipNullifiers) = MarksThrough(viewNullifiers, TipNullifiers)
        /\ MarkFlagsSound(viewNullifiers', TipNullifiers)
    <3> HIDE DEF ViewGetShielded
    <3> QED BY <2>1, <2>2, <2>3, FetchedNullifierSound
  <2> QED BY <1>1, <2>4 DEF ViewNullifiers
<1>4. /\ ViewAnchors' = ViewAnchors /\ viewAnchors' \in [Root -> MarkEntry]
      /\ MarkFlagsSound(viewAnchors', TipAnchors')
  <2>1. /\ TipAnchors \in [Root -> BOOLEAN] /\ viewAnchors \in [Root -> MarkEntry]
        /\ MarkFlagsSound(viewAnchors, TipAnchors)
    BY LookupTypes DEF CoinsInv, TypeOK, FlagsSound
  <2>2. \/ viewAnchors' = viewAnchors
        \/ /\ ~viewAnchors[rt].cached
           /\ viewAnchors' = [viewAnchors EXCEPT ![rt] = [cached |-> TRUE,
                                entered |-> TipAnchors[rt], dirty |-> FALSE]]
    <3>1. viewAnchors' = FetchedMark(viewAnchors, rt, TipAnchors[rt], TRUE)
      OBVIOUS
    <3> HIDE DEF ViewGetShielded
    <3> QED BY <2>1, <3>1 DEF FetchedMark
  <2>3. /\ MarksThrough(viewAnchors', TipAnchors) = ViewAnchors
        /\ viewAnchors' \in [Root -> MarkEntry]
        /\ MarkFlagsSound(viewAnchors', TipAnchors)
    <3> HIDE DEF ViewGetShielded
    <3> QED BY <2>1, <2>2, FetchedMarkSound DEF ViewAnchors
  <2> QED BY <1>2, <2>3 DEF ViewAnchors
<1>5. Anchored(viewAnchors')
  BY CoinsAssumption DEF CoinsInv, TypeOK, PhaseConsistent, FetchedMark
<1>6. UNCHANGED <<dbVars, tipLookups, viewLookups, phase>>
  BY <1>1, <1>2, <1>3, <1>4 DEF tipLookups, viewLookups, TipCoins, TipBestAnchor, TipBestBlock,
              ViewCoins, ViewBestAnchor, ViewBestBlock
<1>7. TypeOK'
  BY <1>1, <1>2, <1>3, <1>4 DEF CoinsInv, TypeOK
<1>8. FlagsSound'
  BY <1>1, <1>2, <1>3, <1>4, <1>6 DEF CoinsInv, FlagsSound, tipLookups
<1>9. PhaseConsistent'
  BY <1>2, <1>5, <1>6 DEF CoinsInv, PhaseConsistent, tipLookups
<1> QED BY <1>6, <1>7, <1>8, <1>9 DEF CoinsInv

-----------------------------------------------------------------------------
(* Writing to the block's view.                                             *)

\* An empty view on top of pcoinsTip shows pcoinsTip.
LEMMA EmptyViewSound ==
    ASSUME TypeOK', EmptyView
    PROVE  /\ viewLookups' = tipLookups'
           /\ CoinsFlagsSound(viewCoins', TipCoins')
           /\ MarkFlagsSound(viewNullifiers', TipNullifiers')
           /\ MarkFlagsSound(viewAnchors', TipAnchors')
           /\ ~viewAnchors'[EmptyRoot].cached
<1> USE DEF EmptyView
<1>1. /\ TipCoins' \in [Txid -> CCoins] /\ TipNullifiers' \in [Nullifier -> BOOLEAN]
      /\ TipAnchors' \in [Root -> BOOLEAN]
  BY CoinsThroughType, MarksThroughType DEF TypeOK, TipCoins, TipNullifiers, TipAnchors
<1>2. ViewCoins' = TipCoins' /\ CoinsFlagsSound(viewCoins', TipCoins')
  BY <1>1, EmptyCoinsSound DEF ViewCoins
<1>3. ViewNullifiers' = TipNullifiers' /\ MarkFlagsSound(viewNullifiers', TipNullifiers')
  BY <1>1, EmptyMarksSound DEF ViewNullifiers
<1>4. ViewAnchors' = TipAnchors' /\ MarkFlagsSound(viewAnchors', TipAnchors')
  BY <1>1, EmptyMarksSound DEF ViewAnchors
<1>5. ViewBestAnchor' = TipBestAnchor' /\ ViewBestBlock' = TipBestBlock'
  BY DEF ViewBestAnchor, ViewBestBlock, HashThrough
<1>6. ~viewAnchors'[EmptyRoot].cached
  BY CoinsAssumption DEF NoMark
<1> QED BY <1>2, <1>3, <1>4, <1>5, <1>6 DEF tipLookups, viewLookups

\* A closed view is empty, so it shows pcoinsTip.
LEMMA ClosedViewSound ==
    ASSUME CoinsInv, phase = "closed"
    PROVE  viewLookups = tipLookups
<1>1. /\ TipCoins \in [Txid -> CCoins] /\ TipNullifiers \in [Nullifier -> BOOLEAN]
      /\ TipAnchors \in [Root -> BOOLEAN]
  BY LookupTypes DEF CoinsInv
<1>2. ViewCoins = TipCoins
  BY <1>1, EmptyCoinsSound DEF ViewCoins, CoinsInv, PhaseConsistent
<1>3. ViewNullifiers = TipNullifiers
  BY <1>1, EmptyMarksSound DEF ViewNullifiers, CoinsInv, PhaseConsistent
<1>4. ViewAnchors = TipAnchors
  BY <1>1, EmptyMarksSound DEF ViewAnchors, CoinsInv, PhaseConsistent
<1>5. ViewBestAnchor = TipBestAnchor /\ ViewBestBlock = TipBestBlock
  BY DEF ViewBestAnchor, ViewBestBlock, HashThrough, CoinsInv, PhaseConsistent
<1> QED BY <1>2, <1>3, <1>4, <1>5 DEF tipLookups, viewLookups

\* CCoinsViewCache view(pcoinsTip) changes no lookup, and remembers which
\* transactions passed the BIP30 check.
LEMMA OpenStep ==
    ASSUME CoinsInv, NEW txs \in SUBSET Txid, Open(txs)
    PROVE  CoinsInv' /\ UNCHANGED <<dbVars, tipLookups, viewLookups>>
<1> USE DEF Open, dbVars, tipVars
<1>1. UNCHANGED <<dbVars, tipLookups>>
  BY DEF tipLookups, TipCoins, TipNullifiers, TipAnchors, TipBestAnchor, TipBestBlock
<1>2. TypeOK'
  BY CoinsAssumption
  DEF CoinsInv, TypeOK, EmptyView, NoCoins, NoMark, CoinsEntry, MarkEntry
<1>3. viewLookups' = viewLookups
  BY <1>1, <1>2, EmptyViewSound, ClosedViewSound
<1>4. FlagsSound'
  BY <1>1, <1>2, EmptyViewSound DEF CoinsInv, FlagsSound
<1>5. PhaseConsistent'
  BY <1>1, <1>2, EmptyViewSound DEF CoinsInv, PhaseConsistent, MayAdd, tipLookups
<1> QED BY <1>1, <1>2, <1>3, <1>4, <1>5 DEF CoinsInv

\* ModifyCoins changes one lookup of the view.
LEMMA ModifyCoinsStep ==
    ASSUME CoinsInv, NEW x \in Txid, NEW c \in CCoins, ModifyCoins(x, c)
    PROVE  /\ CoinsInv'
           /\ UNCHANGED <<dbVars, tipLookups, phase, ViewNullifiers, ViewAnchors, ViewBestAnchor,
                          ViewBestBlock>>
           /\ ViewCoins' = [ViewCoins EXCEPT ![x] = c]
<1> USE DEF ModifyCoins, dbVars
<1>1. /\ TipCoins' = TipCoins /\ tipCoins' \in [Txid -> CoinsEntry]
      /\ CoinsFlagsSound(tipCoins', dbCoins')
  BY TipFetchedSound DEF TipCoins, CoinsInv, TypeOK, FlagsSound
<1> DEFINE fresh == IF viewCoins[x].cached THEN viewCoins[x].fresh ELSE TipCoins[x] = Pruned
<1>2. /\ ViewCoins' = [ViewCoins EXCEPT ![x] = c]
      /\ viewCoins' \in [Txid -> CoinsEntry]
      /\ CoinsFlagsSound(viewCoins', TipCoins')
  <2>1. /\ TipCoins \in [Txid -> CCoins] /\ viewCoins \in [Txid -> CoinsEntry]
        /\ CoinsFlagsSound(viewCoins, TipCoins)
    BY LookupTypes DEF CoinsInv, TypeOK, FlagsSound
  <2>2. fresh \in BOOLEAN /\ (fresh => TipCoins[x] = Pruned)
    BY <2>1, Zenon DEF CoinsFlagsSound, CoinsEntry
  <2> DEFINE e == ModifiedEntry(fresh, c)
  <2>3. ModifiedRight(e, c, TipCoins[x])
    <3> HIDE DEF fresh
    <3> QED BY CoinsAssumption, <2>2 DEF ModifiedRight, ModifiedEntry, CoinsEntry, NoCoins
  <2>4. viewCoins' = [viewCoins EXCEPT ![x] = e]
    OBVIOUS
  <2>5. /\ viewCoins' \in [Txid -> CoinsEntry]
        /\ CoinsThrough(viewCoins', TipCoins) = [CoinsThrough(viewCoins, TipCoins) EXCEPT ![x] = c]
        /\ CoinsFlagsSound(viewCoins', TipCoins)
    <3> DEFINE v == viewCoins'
    <3>1. v = [viewCoins EXCEPT ![x] = e]
      BY <2>4
    <3> HIDE DEF fresh, ModifyCoins, e, v
    <3>2. /\ v \in [Txid -> CoinsEntry]
          /\ CoinsThrough(v, TipCoins) = [CoinsThrough(viewCoins, TipCoins) EXCEPT ![x] = c]
          /\ CoinsFlagsSound(v, TipCoins)
      BY <2>1, <2>3, <3>1, ModifiedCoinsSound
    <3> QED
      BY <3>2 DEF v
  <2> QED BY <1>1, <2>5 DEF ViewCoins
<1>3. UNCHANGED <<dbVars, tipLookups, phase, ViewNullifiers, ViewAnchors, ViewBestAnchor,
                  ViewBestBlock>>
  BY <1>1 DEF tipLookups, TipNullifiers, TipAnchors, TipBestAnchor, TipBestBlock,
              ViewNullifiers, ViewAnchors, ViewBestAnchor, ViewBestBlock
<1>4. TypeOK'
  BY <1>1, <1>2 DEF CoinsInv, TypeOK
<1>5. FlagsSound'
  BY <1>1, <1>2, <1>3 DEF CoinsInv, FlagsSound, tipLookups
<1>6. PhaseConsistent'
  BY <1>1 DEF CoinsInv, PhaseConsistent
<1> QED BY <1>2, <1>3, <1>4, <1>5, <1>6 DEF CoinsInv

\* ModifyNewCoins changes one lookup of the view: its FRESH flag is right because
\* of the BIP30 check made when the block was opened.
LEMMA ModifyNewCoinsStep ==
    ASSUME CoinsInv, NEW x \in Txid, NEW c \in CCoins, ModifyNewCoins(x, c)
    PROVE  /\ CoinsInv'
           /\ UNCHANGED <<dbVars, tipLookups, phase, ViewNullifiers, ViewAnchors, ViewBestAnchor,
                          ViewBestBlock>>
           /\ ViewCoins' = [ViewCoins EXCEPT ![x] = c]
<1> USE DEF ModifyNewCoins, dbVars, tipVars
<1>1. UNCHANGED <<dbVars, tipLookups, phase>>
  BY DEF tipLookups, TipCoins, TipNullifiers, TipAnchors, TipBestAnchor, TipBestBlock
<1>2. /\ ViewCoins' = [ViewCoins EXCEPT ![x] = c]
      /\ viewCoins' \in [Txid -> CoinsEntry]
      /\ CoinsFlagsSound(viewCoins', TipCoins')
  <2>1. /\ TipCoins \in [Txid -> CCoins] /\ viewCoins \in [Txid -> CoinsEntry]
        /\ CoinsFlagsSound(viewCoins, TipCoins) /\ TipCoins[x] = Pruned
    BY LookupTypes DEF CoinsInv, TypeOK, FlagsSound, PhaseConsistent
  <2> DEFINE e == ModifiedEntry(TRUE, c)
  <2>2. viewCoins' = [viewCoins EXCEPT ![x] = e]
    OBVIOUS
  <2>3. /\ viewCoins' \in [Txid -> CoinsEntry]
        /\ CoinsThrough(viewCoins', TipCoins) = [CoinsThrough(viewCoins, TipCoins) EXCEPT ![x] = c]
        /\ CoinsFlagsSound(viewCoins', TipCoins)
    <3>1. ModifiedRight(e, c, TipCoins[x])
      BY CoinsAssumption, <2>1 DEF ModifiedRight, ModifiedEntry, CoinsEntry, NoCoins
    <3> DEFINE v == viewCoins'
    <3>2. v = [viewCoins EXCEPT ![x] = e]
      BY <2>2
    <3> HIDE DEF ModifyNewCoins, e, v
    <3>3. /\ v \in [Txid -> CoinsEntry]
          /\ CoinsThrough(v, TipCoins) = [CoinsThrough(viewCoins, TipCoins) EXCEPT ![x] = c]
          /\ CoinsFlagsSound(v, TipCoins)
      BY <2>1, <3>1, <3>2, ModifiedCoinsSound
    <3> QED
      BY <3>3 DEF v
  <2> QED BY <1>1, <2>3 DEF ViewCoins, tipLookups
<1>3. UNCHANGED <<ViewNullifiers, ViewAnchors, ViewBestAnchor, ViewBestBlock>>
  BY <1>1 DEF tipLookups, ViewNullifiers, ViewAnchors, ViewBestAnchor, ViewBestBlock
<1>4. TypeOK'
  BY <1>2 DEF CoinsInv, TypeOK
<1>5. FlagsSound'
  BY <1>1, <1>2, <1>3 DEF CoinsInv, FlagsSound, tipLookups
<1>6. PhaseConsistent'
  BY <1>1 DEF CoinsInv, PhaseConsistent, tipLookups
<1> QED BY <1>1, <1>2, <1>3, <1>4, <1>5, <1>6 DEF CoinsInv

\* SetNullifiers changes one lookup of the view.
LEMMA SetNullifierStep ==
    ASSUME CoinsInv, NEW n \in Nullifier, NEW spent \in BOOLEAN, SetNullifier(n, spent)
    PROVE  /\ CoinsInv'
           /\ UNCHANGED <<dbVars, tipLookups, phase, ViewCoins, ViewAnchors, ViewBestAnchor,
                          ViewBestBlock>>
           /\ ViewNullifiers' = [ViewNullifiers EXCEPT ![n] = spent]
<1> USE DEF SetNullifier, dbVars, tipVars
<1>1. UNCHANGED <<dbVars, tipLookups, phase>>
  BY DEF tipLookups, TipCoins, TipNullifiers, TipAnchors, TipBestAnchor, TipBestBlock
<1>2. /\ ViewNullifiers' = [ViewNullifiers EXCEPT ![n] = spent]
      /\ viewNullifiers' \in [Nullifier -> MarkEntry]
      /\ MarkFlagsSound(viewNullifiers', TipNullifiers')
  <2>1. /\ TipNullifiers \in [Nullifier -> BOOLEAN] /\ viewNullifiers \in [Nullifier -> MarkEntry]
        /\ MarkFlagsSound(viewNullifiers, TipNullifiers)
    BY LookupTypes DEF CoinsInv, TypeOK, FlagsSound
  <2> DEFINE e == [cached |-> TRUE, entered |-> spent, dirty |-> TRUE]
  <2>2. viewNullifiers' = [viewNullifiers EXCEPT ![n] = e]
    OBVIOUS
  <2>3. DirtyMark(e) /\ e.entered = spent
    BY DEF DirtyMark, MarkEntry
  <2>4. MarksThrough(viewNullifiers', TipNullifiers)
          = [MarksThrough(viewNullifiers, TipNullifiers) EXCEPT ![n] = spent]
    <3> HIDE DEF SetNullifier, e
    <3> QED BY <2>1, <2>2, <2>3 DEF MarksThrough, DirtyMark
  <2>5. /\ viewNullifiers' \in [Nullifier -> MarkEntry]
        /\ MarkFlagsSound(viewNullifiers', TipNullifiers)
    <3> HIDE DEF SetNullifier, e
    <3> QED BY <2>1, <2>2, <2>3, WrittenMarkSound
  <2> QED BY <1>1, <2>4, <2>5 DEF ViewNullifiers, tipLookups
<1>3. UNCHANGED <<ViewCoins, ViewAnchors, ViewBestAnchor, ViewBestBlock>>
  BY <1>1 DEF tipLookups, ViewCoins, ViewAnchors, ViewBestAnchor, ViewBestBlock
<1>4. TypeOK'
  BY <1>2 DEF CoinsInv, TypeOK
<1>5. FlagsSound'
  BY <1>1, <1>2, <1>3 DEF CoinsInv, FlagsSound, tipLookups
<1>6. PhaseConsistent'
  BY <1>1 DEF CoinsInv, PhaseConsistent, tipLookups
<1> QED BY <1>1, <1>2, <1>3, <1>4, <1>5, <1>6 DEF CoinsInv

\* The best hashes at the end of a block: pcoinsTip's are read, the view's are set.
LEMMA FinishHashes ==
    ASSUME CoinsInv, NEW rt \in Root, NEW b \in Block,
           UNCHANGED <<dbBestAnchor, dbBestBlock>>,
           tipBestAnchor' = TipBestAnchor, tipBestBlock' = TipBestBlock,
           viewBestAnchor' = NewBestAnchor(rt), viewBestBlock' = b
    PROVE  /\ UNCHANGED <<TipBestAnchor, TipBestBlock>>
           /\ ViewBestAnchor' = rt /\ ViewBestBlock' = b
           /\ tipBestAnchor' \in Root /\ tipBestBlock' \in Block
           /\ viewBestAnchor' = rt /\ viewBestBlock' = b
<1>1. TipBestAnchor \in Root /\ TipBestBlock \in Block
  BY LookupTypes DEF CoinsInv
<1>2. viewBestAnchor' = rt
  BY DEF NewBestAnchor
<1>3. TipBestAnchor' = TipBestAnchor /\ TipBestBlock' = TipBestBlock
  <2>1. TipBestAnchor' = HashThrough(tipBestAnchor', dbBestAnchor')
    BY DEF TipBestAnchor
  <2>2. TipBestBlock' = HashThrough(tipBestBlock', dbBestBlock')
    BY DEF TipBestBlock
  <2> QED BY <1>1, <2>1, <2>2, CoinsAssumption DEF HashThrough
<1>4. ViewBestAnchor' = rt /\ ViewBestBlock' = b
  BY <1>2, CoinsAssumption DEF ViewBestAnchor, ViewBestBlock, HashThrough
<1> QED BY <1>1, <1>2, <1>3, <1>4

\* PushAnchor and SetBestBlock.
LEMMA FinishConnectStep ==
    ASSUME CoinsInv, NEW rt \in Root, NEW b \in Block, FinishConnect(rt, b)
    PROVE  /\ CoinsInv'
           /\ UNCHANGED <<dbVars, tipLookups, ViewCoins, ViewNullifiers>>
           /\ ViewAnchors' = [a \in Root |-> IF a \in {rt} \ {ViewBestAnchor}
                                             THEN TRUE ELSE ViewAnchors[a]]
           /\ ViewBestAnchor' = rt /\ ViewBestBlock' = b
<1> USE DEF FinishConnect, dbVars
<1>1. /\ UNCHANGED <<TipBestAnchor, TipBestBlock>>
      /\ ViewBestAnchor' = rt /\ ViewBestBlock' = b
      /\ tipBestAnchor' \in Root /\ tipBestBlock' \in Block
      /\ viewBestAnchor' = rt /\ viewBestBlock' = b
  BY FinishHashes
<1>2. UNCHANGED <<dbVars, tipLookups, ViewCoins, ViewNullifiers>>
  BY <1>1 DEF tipLookups, TipCoins, TipNullifiers, TipAnchors, ViewCoins, ViewNullifiers
<1>3. TipAnchors' = TipAnchors
  BY DEF TipAnchors
<1>4. /\ TipAnchors \in [Root -> BOOLEAN] /\ viewAnchors \in [Root -> MarkEntry]
      /\ MarkFlagsSound(viewAnchors, TipAnchors)
  BY LookupTypes DEF CoinsInv, TypeOK, FlagsSound
<1>5. /\ ViewAnchors' = [a \in Root |-> IF a \in {rt} \ {ViewBestAnchor}
                                        THEN TRUE ELSE ViewAnchors[a]]
      /\ viewAnchors' \in [Root -> MarkEntry]
      /\ MarkFlagsSound(viewAnchors', TipAnchors')
      /\ viewAnchors'[EmptyRoot].cached => viewAnchors'[EmptyRoot].entered
  <2>1. CASE rt = ViewBestAnchor
    BY <1>3, <1>4, <2>1 DEF ViewAnchors, MarksThrough, CoinsInv, PhaseConsistent
  <2>2. CASE rt # ViewBestAnchor
    <3> DEFINE e == [cached |-> TRUE, entered |-> TRUE, dirty |-> TRUE]
    <3>1. viewAnchors' = [viewAnchors EXCEPT ![rt] = e]
      BY <2>2
    <3>2. DirtyMark(e) /\ e.entered
      BY DEF DirtyMark, MarkEntry
    <3>3. ViewAnchors' = [a \in Root |-> IF a \in {rt} \ {ViewBestAnchor}
                                         THEN TRUE ELSE ViewAnchors[a]]
      <4> HIDE DEF FinishConnect, e
      <4> QED BY <1>3, <1>4, <2>2, <3>1, <3>2 DEF ViewAnchors, MarksThrough, DirtyMark
    <3>4. viewAnchors'[EmptyRoot].cached => viewAnchors'[EmptyRoot].entered
      BY <1>4, <3>1, CoinsAssumption DEF CoinsInv, PhaseConsistent
    <3>5. viewAnchors' \in [Root -> MarkEntry] /\ MarkFlagsSound(viewAnchors', TipAnchors)
      <4> HIDE DEF FinishConnect, e
      <4> QED BY <1>4, <3>1, <3>2, WrittenMarkSound
    <3> QED BY <1>3, <3>3, <3>4, <3>5
  <2> QED BY <2>1, <2>2
<1>6. TypeOK'
  BY <1>1, <1>5 DEF CoinsInv, TypeOK
<1>7. FlagsSound'
  BY <1>2, <1>5 DEF CoinsInv, FlagsSound, tipLookups
<1>8. PhaseConsistent'
  BY <1>1, <1>2, <1>5 DEF CoinsInv, PhaseConsistent, tipLookups
<1> QED BY <1>1, <1>2, <1>5, <1>6, <1>7, <1>8 DEF CoinsInv

\* PopAnchor and SetBestBlock.
LEMMA FinishDisconnectStep ==
    ASSUME CoinsInv, NEW rt \in Root, NEW b \in Block, FinishDisconnect(rt, b)
    PROVE  /\ CoinsInv'
           /\ UNCHANGED <<dbVars, tipLookups, ViewCoins, ViewNullifiers>>
           /\ ViewAnchors' = [a \in Root |-> IF a \in {ViewBestAnchor} \ {rt}
                                             THEN FALSE ELSE ViewAnchors[a]]
           /\ ViewBestAnchor' = rt /\ ViewBestBlock' = b
<1> USE DEF FinishDisconnect, dbVars
<1> DEFINE old == ViewBestAnchor
<1>1. /\ UNCHANGED <<TipBestAnchor, TipBestBlock>>
      /\ ViewBestAnchor' = rt /\ ViewBestBlock' = b
      /\ tipBestAnchor' \in Root /\ tipBestBlock' \in Block
      /\ viewBestAnchor' = rt /\ viewBestBlock' = b
  BY FinishHashes
<1>2. /\ TipAnchors \in [Root -> BOOLEAN] /\ viewAnchors \in [Root -> MarkEntry]
      /\ MarkFlagsSound(viewAnchors, TipAnchors) /\ old \in Root
  BY LookupTypes DEF CoinsInv, TypeOK, FlagsSound
<1>3. /\ TipAnchors' = TipAnchors /\ tipAnchors' \in [Root -> MarkEntry]
      /\ MarkFlagsSound(tipAnchors', dbAnchors')
      /\ tipAnchors'[EmptyRoot].cached => tipAnchors'[EmptyRoot].entered
  <2>1. tipAnchors' = tipAnchors \/ tipAnchors' = TipAnchorFetched(old)
    OBVIOUS
  <2> QED BY <1>2, <2>1, TipAnchorFetchedSound
          DEF TipAnchors, CoinsInv, TypeOK, FlagsSound, PhaseConsistent
<1>4. UNCHANGED <<dbVars, tipLookups, ViewCoins, ViewNullifiers>>
  BY <1>1, <1>3 DEF tipLookups, TipCoins, TipNullifiers, ViewCoins, ViewNullifiers
<1>5. /\ ViewAnchors' = [a \in Root |-> IF a \in {old} \ {rt} THEN FALSE ELSE ViewAnchors[a]]
      /\ viewAnchors' \in [Root -> MarkEntry]
      /\ MarkFlagsSound(viewAnchors', TipAnchors')
      /\ viewAnchors'[EmptyRoot].cached => viewAnchors'[EmptyRoot].entered
  <2>1. CASE rt = old
    BY <1>2, <1>3, <2>1 DEF ViewAnchors, MarksThrough, CoinsInv, PhaseConsistent
  <2>2. CASE rt # old
    <3> DEFINE e == [cached |-> TRUE, entered |-> FALSE, dirty |-> TRUE]
    <3>1. viewAnchors' = [viewAnchors EXCEPT ![old] = e]
      BY <2>2
    <3>2. DirtyMark(e) /\ e.entered = FALSE
      BY DEF DirtyMark, MarkEntry
    <3>3. ViewAnchors' = [a \in Root |-> IF a \in {old} \ {rt} THEN FALSE ELSE ViewAnchors[a]]
      <4>1. viewAnchors'[old].cached /\ viewAnchors'[old].entered = FALSE
        <5> HIDE DEF FinishDisconnect, e, old
        <5> QED BY <1>2, <3>1, <3>2 DEF DirtyMark
      <4>2. \A a \in Root \ {old} : viewAnchors'[a] = viewAnchors[a]
        <5> HIDE DEF FinishDisconnect, e, old
        <5> QED BY <1>2, <3>1
      <4> HIDE DEF FinishDisconnect, e, old
      <4> QED BY <1>2, <1>3, <2>2, <4>1, <4>2 DEF ViewAnchors, MarksThrough
    <3>4. viewAnchors'[EmptyRoot].cached => viewAnchors'[EmptyRoot].entered
      BY <1>2, <2>2, <3>1, CoinsAssumption DEF CoinsInv, PhaseConsistent
    <3>5. viewAnchors' \in [Root -> MarkEntry] /\ MarkFlagsSound(viewAnchors', TipAnchors)
      <4> HIDE DEF FinishDisconnect, e, old
      <4> QED BY <1>2, <3>1, <3>2, WrittenMarkSound
    <3> QED BY <1>3, <3>3, <3>4, <3>5
  <2> QED BY <2>1, <2>2
<1>6. TypeOK'
  BY <1>1, <1>3, <1>5 DEF CoinsInv, TypeOK
<1>7. FlagsSound'
  BY <1>3, <1>4, <1>5 DEF CoinsInv, FlagsSound, tipLookups
<1>8. PhaseConsistent'
  BY <1>1, <1>3, <1>4, <1>5 DEF CoinsInv, PhaseConsistent, tipLookups
<1> QED BY <1>1, <1>4, <1>5, <1>6, <1>7, <1>8 DEF CoinsInv

-----------------------------------------------------------------------------
(* Flushing, dropping and restarting.                                       *)

dbLookups == <<dbCoins, dbNullifiers, dbAnchors, dbBestAnchor, dbBestBlock>>

\* view.Flush(): pcoinsTip shows what the view showed.
LEMMA FlushStep ==
    ASSUME CoinsInv, Flush
    PROVE  CoinsInv' /\ UNCHANGED dbVars /\ tipLookups' = viewLookups /\ viewLookups' = viewLookups
<1> USE DEF Flush, dbVars
<1>1. TipCoins' = ViewCoins /\ tipCoins' \in [Txid -> CoinsEntry] /\ CoinsFlagsSound(tipCoins', dbCoins')
  BY BatchWrittenCoinsSound DEF CoinsInv, TypeOK, FlagsSound, TipCoins, ViewCoins
<1>2. /\ TipNullifiers' = ViewNullifiers /\ tipNullifiers' \in [Nullifier -> MarkEntry]
      /\ MarkFlagsSound(tipNullifiers', dbNullifiers')
  BY BatchWrittenMarksSound DEF CoinsInv, TypeOK, FlagsSound, TipNullifiers, ViewNullifiers
<1>3. /\ TipAnchors' = ViewAnchors /\ tipAnchors' \in [Root -> MarkEntry]
      /\ MarkFlagsSound(tipAnchors', dbAnchors')
  BY BatchWrittenMarksSound DEF CoinsInv, TypeOK, FlagsSound, TipAnchors, ViewAnchors
<1>4. viewBestAnchor \in Root /\ viewBestBlock \in Block
  BY DEF CoinsInv, PhaseConsistent
<1>5. TipBestAnchor' = ViewBestAnchor /\ TipBestBlock' = ViewBestBlock
  BY <1>4, CoinsAssumption
  DEF TipBestAnchor, ViewBestAnchor, TipBestBlock, ViewBestBlock, HashThrough
<1>6. tipAnchors'[EmptyRoot].cached => tipAnchors'[EmptyRoot].entered
  <2>1. /\ TipAnchors' \in [Root -> BOOLEAN] /\ TipAnchors'[EmptyRoot]
    <3>1. ViewAnchors \in [Root -> BOOLEAN]
      BY LookupTypes DEF CoinsInv
    <3>2. TipAnchors[EmptyRoot]
      BY CoinsAssumption DEF CoinsInv, TypeOK, PhaseConsistent, TipAnchors, MarksThrough
    <3>3. ViewAnchors[EmptyRoot]
      BY <3>2, CoinsAssumption, LookupTypes
      DEF CoinsInv, TypeOK, PhaseConsistent, ViewAnchors, MarksThrough
    <3> QED BY <1>3, <3>1, <3>3
  <2>2. dbAnchors' \in [Root -> BOOLEAN]
    BY DEF CoinsInv, TypeOK
  <2>3. TipAnchors'[EmptyRoot] = IF tipAnchors'[EmptyRoot].cached
                                 THEN tipAnchors'[EmptyRoot].entered ELSE dbAnchors'[EmptyRoot]
    BY <2>2, CoinsAssumption DEF TipAnchors, MarksThrough
  <2> QED BY <2>1, <2>3
<1>7. TypeOK'
  BY <1>1, <1>2, <1>3, <1>4, CoinsAssumption
  DEF CoinsInv, TypeOK, EmptyView, NoCoins, NoMark, CoinsEntry, MarkEntry
<1>8. tipLookups' = viewLookups
  BY <1>1, <1>2, <1>3, <1>5 DEF tipLookups, viewLookups
<1>9. viewLookups' = viewLookups
  BY <1>7, <1>8, EmptyViewSound
<1>10. FlagsSound'
  BY <1>1, <1>2, <1>3, <1>7, EmptyViewSound DEF FlagsSound
<1>11. PhaseConsistent'
  BY <1>6, <1>7, EmptyViewSound DEF CoinsInv, PhaseConsistent, EmptyView
<1> QED BY <1>7, <1>8, <1>9, <1>10, <1>11 DEF CoinsInv

\* A view that goes out of scope leaves nothing behind.
LEMMA DiscardStep ==
    ASSUME CoinsInv, Discard
    PROVE  CoinsInv' /\ UNCHANGED <<dbVars, tipLookups>> /\ viewLookups' = tipLookups
<1> USE DEF Discard, dbVars, tipVars
<1>1. UNCHANGED <<dbVars, tipLookups>>
  BY DEF tipLookups, TipCoins, TipNullifiers, TipAnchors, TipBestAnchor, TipBestBlock
<1>2. TypeOK'
  BY CoinsAssumption
  DEF CoinsInv, TypeOK, EmptyView, NoCoins, NoMark, CoinsEntry, MarkEntry
<1>3. viewLookups' = tipLookups
  BY <1>1, <1>2, EmptyViewSound
<1>4. FlagsSound'
  BY <1>1, <1>2, EmptyViewSound DEF CoinsInv, FlagsSound
<1>5. PhaseConsistent'
  BY <1>2, EmptyViewSound DEF CoinsInv, PhaseConsistent, EmptyView
<1> QED BY <1>1, <1>2, <1>3, <1>4, <1>5 DEF CoinsInv

\* pcoinsTip->Flush(): the database holds what pcoinsTip showed.
LEMMA FlushTipStep ==
    ASSUME CoinsInv, FlushTip
    PROVE  CoinsInv' /\ dbLookups' = tipLookups /\ UNCHANGED <<tipLookups, viewLookups>>
<1> USE DEF FlushTip, viewVars
<1>1. /\ TipCoins \in [Txid -> CCoins] /\ TipNullifiers \in [Nullifier -> BOOLEAN]
      /\ TipAnchors \in [Root -> BOOLEAN] /\ TipBestAnchor \in Root /\ TipBestBlock \in Block
  BY LookupTypes DEF CoinsInv
<1>2. dbCoins' = TipCoins
  BY WrittenCoinsSound DEF CoinsInv, TypeOK, FlagsSound, TipCoins
<1>3. dbNullifiers' = TipNullifiers
  BY WrittenMarksSound DEF CoinsInv, TypeOK, FlagsSound, TipNullifiers
<1>4. dbAnchors' = TipAnchors
  <2>1. \A rt \in Root : (IF tipAnchors[rt].dirty THEN tipAnchors[rt].entered ELSE dbAnchors[rt])
                            = TipAnchors[rt]
    BY WrittenMarksSound DEF CoinsInv, TypeOK, FlagsSound, TipAnchors
  <2>2. TipAnchors[EmptyRoot] = dbAnchors[EmptyRoot]
    BY CoinsAssumption
    DEF CoinsInv, TypeOK, PhaseConsistent, TipAnchors, MarksThrough, MarkEntry
  <2> QED BY <1>1, <2>1, <2>2
<1>5. /\ TipCoins' = TipCoins /\ tipCoins' \in [Txid -> CoinsEntry]
      /\ CoinsFlagsSound(tipCoins', dbCoins')
  BY <1>1, <1>2, EmptyCoinsSound DEF TipCoins
<1>6. /\ TipNullifiers' = TipNullifiers /\ tipNullifiers' \in [Nullifier -> MarkEntry]
      /\ MarkFlagsSound(tipNullifiers', dbNullifiers')
  BY <1>1, <1>3, EmptyMarksSound DEF TipNullifiers
<1>7. /\ TipAnchors' = TipAnchors /\ tipAnchors' \in [Root -> MarkEntry]
      /\ MarkFlagsSound(tipAnchors', dbAnchors')
  BY <1>1, <1>4, EmptyMarksSound DEF TipAnchors
<1>8. TipBestAnchor' = TipBestAnchor /\ TipBestBlock' = TipBestBlock
  BY DEF TipBestAnchor, TipBestBlock, HashThrough
<1>9. dbLookups' = tipLookups /\ UNCHANGED tipLookups
  BY <1>2, <1>3, <1>4, <1>5, <1>6, <1>7, <1>8 DEF dbLookups, tipLookups
<1>10. UNCHANGED viewLookups
  BY <1>5, <1>6, <1>7, <1>8
  DEF viewLookups, ViewCoins, ViewNullifiers, ViewAnchors, ViewBestAnchor, ViewBestBlock
<1>11. TypeOK'
  BY <1>1, <1>2, <1>3, <1>4, <1>5, <1>6, <1>7 DEF CoinsInv, TypeOK
<1>12. FlagsSound'
  BY <1>5, <1>6, <1>7 DEF CoinsInv, FlagsSound
<1>13. dbAnchors'[EmptyRoot] /\ ~tipAnchors'[EmptyRoot].cached
  BY CoinsAssumption DEF CoinsInv, PhaseConsistent, NoMark
<1>14. PhaseConsistent'
  BY <1>5, <1>13 DEF CoinsInv, PhaseConsistent
<1> QED BY <1>9, <1>10, <1>11, <1>12, <1>14 DEF CoinsInv

\* After a restart every view shows the database.
LEMMA CrashStep ==
    ASSUME CoinsInv, Crash
    PROVE  CoinsInv' /\ UNCHANGED dbVars /\ tipLookups' = dbLookups /\ viewLookups' = dbLookups
<1> USE DEF Crash, dbVars
<1>1. TipCoins' = dbCoins /\ tipCoins' \in [Txid -> CoinsEntry] /\ CoinsFlagsSound(tipCoins', dbCoins')
  BY EmptyCoinsSound DEF CoinsInv, TypeOK, TipCoins
<1>2. /\ TipNullifiers' = dbNullifiers /\ tipNullifiers' \in [Nullifier -> MarkEntry]
      /\ MarkFlagsSound(tipNullifiers', dbNullifiers')
  BY EmptyMarksSound DEF CoinsInv, TypeOK, TipNullifiers
<1>3. /\ TipAnchors' = dbAnchors /\ tipAnchors' \in [Root -> MarkEntry]
      /\ MarkFlagsSound(tipAnchors', dbAnchors')
  BY EmptyMarksSound DEF CoinsInv, TypeOK, TipAnchors
<1>4. TipBestAnchor' = dbBestAnchor /\ TipBestBlock' = dbBestBlock
  BY DEF TipBestAnchor, TipBestBlock, HashThrough
<1>5. TypeOK'
  BY <1>1, <1>2, <1>3, CoinsAssumption
  DEF CoinsInv, TypeOK, EmptyView, NoCoins, NoMark, CoinsEntry, MarkEntry
<1>6. tipLookups' = dbLookups /\ viewLookups' = dbLookups
  BY <1>1, <1>2, <1>3, <1>4, <1>5, EmptyViewSound DEF tipLookups, dbLookups
<1>7. FlagsSound'
  BY <1>1, <1>2, <1>3, <1>5, EmptyViewSound DEF FlagsSound
<1>8. ~tipAnchors'[EmptyRoot].cached
  BY CoinsAssumption DEF NoMark
<1>9. PhaseConsistent'
  BY <1>5, <1>8, EmptyViewSound DEF CoinsInv, PhaseConsistent, EmptyView
<1> QED BY <1>5, <1>6, <1>7, <1>9 DEF CoinsInv

\* A node that has just connected genesis.
LEMMA InitSound ==
    ASSUME Init
    PROVE  CoinsInv /\ tipLookups = dbLookups /\ viewLookups = dbLookups
<1> USE DEF Init
<1>1. TypeOK
  BY CoinsAssumption DEF TypeOK, NoCoins, NoMark, CoinsEntry, MarkEntry
<1>2. TipCoins = dbCoins /\ CoinsFlagsSound(tipCoins, dbCoins)
  BY <1>1, EmptyCoinsSound DEF TypeOK, TipCoins
<1>3. TipNullifiers = dbNullifiers /\ MarkFlagsSound(tipNullifiers, dbNullifiers)
  BY <1>1, EmptyMarksSound DEF TypeOK, TipNullifiers
<1>4. TipAnchors = dbAnchors /\ MarkFlagsSound(tipAnchors, dbAnchors)
  BY <1>1, EmptyMarksSound DEF TypeOK, TipAnchors
<1>5. /\ TipBestAnchor = dbBestAnchor /\ TipBestBlock = dbBestBlock
      /\ ViewBestAnchor = dbBestAnchor /\ ViewBestBlock = dbBestBlock
  BY CoinsAssumption DEF TipBestAnchor, TipBestBlock, ViewBestAnchor, ViewBestBlock, HashThrough
<1>6. ViewCoins = dbCoins /\ ViewNullifiers = dbNullifiers /\ ViewAnchors = dbAnchors
  BY <1>2, <1>3, <1>4
  DEF ViewCoins, ViewNullifiers, ViewAnchors, TipCoins, TipNullifiers, TipAnchors
<1>7. FlagsSound
  BY <1>2, <1>3, <1>4 DEF FlagsSound
<1>8. PhaseConsistent
  BY CoinsAssumption DEF PhaseConsistent, NoMark
<1> QED BY <1>1, <1>2, <1>3, <1>4, <1>5, <1>6, <1>7, <1>8
        DEF CoinsInv, tipLookups, viewLookups, dbLookups

-----------------------------------------------------------------------------
(* The theorems.                                                            *)

\* CoinsInv is inductive: in particular FRESH and DIRTY are right after any sequence
\* of reads, writes, flushes, dropped views and restarts.
THEOREM CoinsInvariant == Spec => []CoinsInv
<1>1. Init => CoinsInv
  BY InitSound
<1>2. CoinsInv /\ [Next]_coinsVars => CoinsInv'
  <2> SUFFICES ASSUME CoinsInv, [Next]_coinsVars
               PROVE  CoinsInv'
    OBVIOUS
  <2>1. ASSUME NEW x \in Txid, TipAccessCoins(x) \/ Uncache(x) \/ ViewAccessCoins(x)
        PROVE  CoinsInv'
    BY <2>1, TipAccessCoinsStep, UncacheStep, ViewAccessCoinsStep
  <2>2. ASSUME NEW n \in Nullifier, NEW rt \in Root, TipGetShielded(n, rt) \/ ViewGetShielded(n, rt)
        PROVE  CoinsInv'
    BY <2>2, TipGetShieldedStep, ViewGetShieldedStep
  <2>3. ASSUME NEW txs \in SUBSET Txid, Open(txs)
        PROVE  CoinsInv'
    BY <2>3, OpenStep
  <2>4. ASSUME NEW x \in Txid, NEW c \in CCoins, ModifyCoins(x, c) \/ ModifyNewCoins(x, c)
        PROVE  CoinsInv'
    BY <2>4, ModifyCoinsStep, ModifyNewCoinsStep
  <2>5. ASSUME NEW n \in Nullifier, NEW spent \in BOOLEAN, SetNullifier(n, spent)
        PROVE  CoinsInv'
    BY <2>5, SetNullifierStep
  <2>6. ASSUME NEW rt \in Root, NEW b \in Block, FinishConnect(rt, b) \/ FinishDisconnect(rt, b)
        PROVE  CoinsInv'
    BY <2>6, FinishConnectStep, FinishDisconnectStep
  <2>7. CASE Flush
    BY <2>7, FlushStep
  <2>8. CASE Discard
    BY <2>8, DiscardStep
  <2>9. CASE FlushTip
    BY <2>9, FlushTipStep
  <2>10. CASE Crash
    BY <2>10, CrashStep
  <2>11. CASE UNCHANGED coinsVars
    <3>1. UNCHANGED <<dbCoins, dbNullifiers, dbAnchors, dbBestAnchor, dbBestBlock>>
      BY <2>11 DEF coinsVars, dbVars
    <3>2. UNCHANGED <<tipCoins, tipNullifiers, tipAnchors, tipBestAnchor, tipBestBlock>>
      BY <2>11 DEF coinsVars, tipVars
    <3>3. UNCHANGED <<viewCoins, viewNullifiers, viewAnchors, viewBestAnchor, viewBestBlock,
                      phase, newTx>>
      BY <2>11 DEF coinsVars, viewVars
    <3>4. UNCHANGED <<TipCoins, TipNullifiers, TipAnchors>>
      BY <3>1, <3>2 DEF TipCoins, TipNullifiers, TipAnchors
    <3> QED BY <3>1, <3>2, <3>3, <3>4 DEF CoinsInv, TypeOK, FlagsSound, PhaseConsistent
  <2> QED BY <2>1, <2>2, <2>3, <2>4, <2>5, <2>6, <2>7, <2>8, <2>9, <2>10, <2>11 DEF Next
<1> QED BY <1>1, <1>2, PTL DEF Spec

\* The stack of caches implements CoinsView.
THEOREM CoinsViewImplemented == Spec => ImplementsCoinsView
<1>1. Init => Promise!Init
  <2> SUFFICES ASSUME Init
               PROVE  Promise!Init
    OBVIOUS
  <2>1. tipLookups = dbLookups /\ viewLookups = dbLookups
    BY InitSound
  <2>2. /\ dbCoins = [x \in Txid |-> Pruned]
        /\ dbNullifiers = [n \in Nullifier |-> FALSE]
        /\ dbAnchors = [rt \in Root |-> rt = EmptyRoot]
        /\ dbBestAnchor = EmptyRoot /\ dbBestBlock = Genesis
        /\ phase = "closed"
    BY DEF Init
  <2> QED BY <2>1, <2>2 DEF Promise!Init, Promise!GenesisView, tipLookups, viewLookups, dbLookups
<1>2. CoinsInv /\ [Next]_coinsVars => [Promise!Next]_(Promise!viewVars)
  <2> SUFFICES ASSUME CoinsInv, [Next]_coinsVars
               PROVE  [Promise!Next]_(Promise!viewVars)
    OBVIOUS
  <2>1. ASSUME UNCHANGED <<dbVars, tipLookups, viewLookups, phase>>
        PROVE  UNCHANGED Promise!viewVars
    BY <2>1 DEF Promise!viewVars, dbVars, tipLookups, viewLookups
  <2>2. ASSUME NEW x \in Txid, TipAccessCoins(x) \/ Uncache(x) \/ ViewAccessCoins(x)
        PROVE  UNCHANGED Promise!viewVars
    BY <2>1, <2>2, TipAccessCoinsStep, UncacheStep, ViewAccessCoinsStep
  <2>3. ASSUME NEW n \in Nullifier, NEW rt \in Root, TipGetShielded(n, rt) \/ ViewGetShielded(n, rt)
        PROVE  UNCHANGED Promise!viewVars
    BY <2>1, <2>3, TipGetShieldedStep, ViewGetShieldedStep
  <2>4. ASSUME NEW txs \in SUBSET Txid, Open(txs)
        PROVE  Promise!Open
    <3>1. UNCHANGED <<dbVars, tipLookups, viewLookups>>
      BY <2>4, OpenStep
    <3> QED BY <2>4, <3>1 DEF Promise!Open, Open, dbVars, tipLookups, viewLookups
  <2>5. ASSUME NEW x \in Txid, NEW c \in CCoins, ModifyCoins(x, c) \/ ModifyNewCoins(x, c)
        PROVE  Promise!WriteCoins(x, c)
    <3>1. /\ UNCHANGED <<dbVars, tipLookups, phase, ViewNullifiers, ViewAnchors, ViewBestAnchor,
                         ViewBestBlock>>
          /\ ViewCoins' = [ViewCoins EXCEPT ![x] = c]
      BY <2>5, ModifyCoinsStep, ModifyNewCoinsStep
    <3>2. phase = "open"
      BY <2>5 DEF ModifyCoins, ModifyNewCoins
    <3> QED BY <3>1, <3>2 DEF Promise!WriteCoins, dbVars, tipLookups
  <2>6. ASSUME NEW n \in Nullifier, NEW spent \in BOOLEAN, SetNullifier(n, spent)
        PROVE  Promise!WriteNullifier(n, spent)
    <3>1. /\ UNCHANGED <<dbVars, tipLookups, phase, ViewCoins, ViewAnchors, ViewBestAnchor,
                         ViewBestBlock>>
          /\ ViewNullifiers' = [ViewNullifiers EXCEPT ![n] = spent]
      BY <2>6, SetNullifierStep
    <3>2. phase = "open"
      BY <2>6 DEF SetNullifier
    <3> QED BY <3>1, <3>2 DEF Promise!WriteNullifier, dbVars, tipLookups
  <2>7. ASSUME NEW rt \in Root, NEW b \in Block, FinishConnect(rt, b)
        PROVE  Promise!FinishConnect(rt, b)
    <3>1. /\ UNCHANGED <<dbVars, tipLookups, ViewCoins, ViewNullifiers>>
          /\ ViewAnchors' = [a \in Root |-> IF a \in {rt} \ {ViewBestAnchor}
                                            THEN TRUE ELSE ViewAnchors[a]]
          /\ ViewBestAnchor' = rt /\ ViewBestBlock' = b
      BY <2>7, FinishConnectStep
    <3>2. phase = "open" /\ phase' = "done"
      BY <2>7 DEF FinishConnect
    <3> QED BY <3>1, <3>2 DEF Promise!FinishConnect, Promise!Finish, dbVars, tipLookups
  <2>8. ASSUME NEW rt \in Root, NEW b \in Block, FinishDisconnect(rt, b)
        PROVE  Promise!FinishDisconnect(rt, b)
    <3>1. /\ UNCHANGED <<dbVars, tipLookups, ViewCoins, ViewNullifiers>>
          /\ ViewAnchors' = [a \in Root |-> IF a \in {ViewBestAnchor} \ {rt}
                                            THEN FALSE ELSE ViewAnchors[a]]
          /\ ViewBestAnchor' = rt /\ ViewBestBlock' = b
      BY <2>8, FinishDisconnectStep
    <3>2. phase = "open" /\ phase' = "done"
      BY <2>8 DEF FinishDisconnect
    <3> QED BY <3>1, <3>2 DEF Promise!FinishDisconnect, Promise!Finish, dbVars, tipLookups
  <2>9. CASE Flush
    <3>1. UNCHANGED dbVars /\ tipLookups' = viewLookups /\ viewLookups' = viewLookups
      BY <2>9, FlushStep
    <3>2. Promise!Flush
      BY <2>9, <3>1 DEF Flush, Promise!Flush, dbVars, tipLookups, viewLookups
    <3> QED BY <3>2 DEF Promise!Next
  <2>10. CASE Discard
    <3>1. UNCHANGED <<dbVars, tipLookups>> /\ viewLookups' = tipLookups
      BY <2>10, DiscardStep
    <3>2. Promise!Discard
      BY <2>10, <3>1 DEF Discard, Promise!Discard, dbVars, tipLookups, viewLookups
    <3> QED BY <3>2 DEF Promise!Next
  <2>11. CASE FlushTip
    <3>1. dbLookups' = tipLookups /\ UNCHANGED <<tipLookups, viewLookups>>
      BY <2>11, FlushTipStep
    <3>2. Promise!FlushTip
      BY <2>11, <3>1 DEF FlushTip, Promise!FlushTip, dbLookups, tipLookups, viewLookups
    <3> QED BY <3>2 DEF Promise!Next
  <2>12. CASE Crash
    <3>1. UNCHANGED dbVars /\ tipLookups' = dbLookups /\ viewLookups' = dbLookups
      BY <2>12, CrashStep
    <3>2. Promise!Crash
      BY <2>12, <3>1 DEF Crash, Promise!Crash, dbVars, dbLookups, tipLookups, viewLookups
    <3> QED BY <3>2 DEF Promise!Next
  <2>13. CASE UNCHANGED coinsVars
    <3>1. UNCHANGED <<dbVars, tipVars, viewVars, phase>>
      BY <2>13 DEF coinsVars
    <3>2. UNCHANGED tipLookups
      BY <3>1 DEF dbVars, tipVars, tipLookups, TipCoins, TipNullifiers, TipAnchors,
                  TipBestAnchor, TipBestBlock
    <3>3. UNCHANGED viewLookups
      BY <3>1, <3>2 DEF viewVars, tipLookups, viewLookups, ViewCoins, ViewNullifiers, ViewAnchors,
                        ViewBestAnchor, ViewBestBlock
    <3> QED BY <2>1, <3>1, <3>2, <3>3
  <2> QED BY <2>2, <2>3, <2>4, <2>5, <2>6, <2>7, <2>8, <2>9, <2>10, <2>11, <2>12, <2>13
          DEF Next, Promise!Next
<1> QED BY <1>1, <1>2, CoinsInvariant, PTL DEF Spec, ImplementsCoinsView, Promise!Spec

-----------------------------------------------------------------------------
(* Induction, as least counterexample.                                      *)

\* A set of naturals that is not empty has a least element.
LEMMA LeastNatural ==
    ASSUME NEW T \in SUBSET Nat, T # {}
    PROVE  \E m \in T : \A k \in T : m <= k
<1>1. PICK x \in T : \A y \in T : ~(<<y, x>> \in OpToRel(<, Nat))
  <2>1. IsWellFoundedOn(OpToRel(<, Nat), Nat)
    BY NatLessThanWellFounded
  <2> QED
    BY <2>1, WFMin
<1>2. ASSUME NEW y \in T PROVE x <= y
  <2>1. <<y, x>> \notin OpToRel(<, Nat)
    BY <1>1
  <2>2. ~(y < x)
    BY <2>1 DEF OpToRel
  <2> QED
    BY <2>2
<1> QED
  BY <1>2

\* A set that holds 0 and the successor of each of its elements up to N holds
\* everything up to N.
LEMMA UpTo ==
    ASSUME NEW N \in Nat, NEW T, 0 \in T, \A i \in 1..N : i - 1 \in T => i \in T
    PROVE  \A i \in 0..N : i \in T
<1> DEFINE Bad == {i \in 0..N : i \notin T}
<1> SUFFICES ASSUME Bad # {} PROVE FALSE
  OBVIOUS
<1>1. PICK k \in Bad : \A j \in Bad : k <= j
  <2>1. Bad \in SUBSET Nat
    OBVIOUS
  <2> HIDE DEF Bad
  <2> QED
    BY <2>1, LeastNatural
<1>2. k # 0 /\ k \in 1..N /\ k - 1 \in 0..N /\ k - 1 \notin Bad
  BY <1>1
<1> QED
  BY <1>1, <1>2

-----------------------------------------------------------------------------
(* The steps of a block.                                                    *)

\* The body of FlattenSeq's recursive definition, for the first k sequences.
FlatBody(seqs, k, f) == [i \in 1..k |-> IF i = 1 THEN seqs[i] ELSE f[i - 1] \o seqs[i]]

\* Its recursive definition has a solution up to every length.
LEMMA FlatExists ==
    ASSUME NEW seqs
    PROVE  \A k \in Nat : \E f : f = FlatBody(seqs, k, f)
<1> USE DEF FlatBody
<1> DEFINE S(f, i) == IF i = 1 THEN seqs[i] ELSE f[i - 1] \o seqs[i]
           Done(k) == \E f : f = [i \in 1..k |-> S(f, i)]
           T == {k \in Nat : Done(k)}
<1>1. 0 \in T
  <2> DEFINE g == [i \in 1..0 |-> seqs]
  <2>1. g = [i \in 1..0 |-> S(g, i)]
    OBVIOUS
  <2>2. Done(0)
    BY <2>1
  <2> QED
    BY <2>2
<1>2. ASSUME NEW k \in Nat, k # 0, k - 1 \in T PROVE k \in T
  <2>1. k - 1 \in Nat /\ Done(k - 1)
    BY <1>2
  <2>2. PICK f : f = [i \in 1..(k - 1) |-> S(f, i)]
    BY <2>1
  <2> DEFINE g == [i \in 1..k |-> IF i = k THEN S(f, k) ELSE f[i]]
  <2>3. \A i \in 1..k : g[i] = S(g, i)
    <3> SUFFICES ASSUME NEW i \in 1..k PROVE g[i] = S(g, i)
      OBVIOUS
    <3>1. \A j \in 1..(k - 1) : g[j] = f[j] /\ f[j] = S(f, j)
      <4>1. ASSUME NEW j \in 1..(k - 1) PROVE f[j] = S(f, j)
        <5> HIDE DEF S
        <5> QED
          BY <2>2, Zenon
      <4>2. ASSUME NEW j \in 1..(k - 1) PROVE g[j] = f[j]
        <5>1. j \in 1..k /\ j # k
          BY <2>1
        <5> HIDE DEF S
        <5> QED
          BY <5>1
      <4> QED
        BY <4>1, <4>2
    <3>2. S(g, i) = S(f, i)
      <4>1. CASE i = 1
        BY <4>1
      <4>2. CASE i # 1
        <5>1. i - 1 \in 1..(k - 1)
          BY <4>2, <2>1
        <5>2. g[i - 1] = f[i - 1]
          BY <5>1, <3>1
        <5> HIDE DEF g
        <5> QED
          BY <4>2, <5>2
      <4> QED
        BY <4>1, <4>2
    <3>3. CASE i = k
      BY <3>2, <3>3
    <3>4. CASE i # k
      <4>1. i \in 1..(k - 1)
        BY <3>4, <2>1
      <4> QED
        BY <4>1, <3>1, <3>2
    <3> QED
      BY <3>3, <3>4
  <2>4. g = [i \in 1..k |-> S(g, i)]
    <3> HIDE DEF S
    <3> QED
      BY <2>3
  <2>5. Done(k)
    <3> HIDE DEF g, S
    <3> QED
      BY <2>4
  <2> QED
    BY <2>5
<1>3. ASSUME NEW k \in Nat PROVE Done(k)
  <2>1. \A i \in 1..k : i - 1 \in T => i \in T
    <3> HIDE DEF T
    <3> QED
      BY <1>2
  <2>2. k \in T
    <3> HIDE DEF T
    <3> QED
      BY <1>1, <2>1, UpTo
  <2> QED
    BY <2>2
<1> QED
  BY <1>3

\* FlattenSeq of sequences over S is a sequence over S.
LEMMA FlattenType ==
    ASSUME NEW S, NEW seqs \in Seq(Seq(S))
    PROVE  FlattenSeq(seqs) \in Seq(S)
<1>1. CASE Len(seqs) = 0
  BY <1>1 DEF FlattenSeq
<1>2. CASE Len(seqs) # 0
  <2> DEFINE N == Len(seqs)
             f == CHOOSE f : f = FlatBody(seqs, N, f)
  <2>1. N \in Nat /\ N # 0
    BY <1>2
  <2>2. f = FlatBody(seqs, N, f)
    BY <2>1, FlatExists
  <2>3. FlattenSeq(seqs) = f[N]
    BY <1>2 DEF FlattenSeq, FlatBody
  <2> HIDE DEF f
  <2> DEFINE T == {i \in Nat : i = 0 \/ f[i] \in Seq(S)}
  <2>4. \A i \in 1..N : i - 1 \in T => i \in T
    <3> SUFFICES ASSUME NEW i \in 1..N, i - 1 \in T PROVE f[i] \in Seq(S)
      OBVIOUS
    <3>1. f[i] = IF i = 1 THEN seqs[i] ELSE f[i - 1] \o seqs[i]
      BY <2>2 DEF FlatBody
    <3>2. seqs[i] \in Seq(S)
      OBVIOUS
    <3>3. CASE i = 1
      BY <3>1, <3>2, <3>3
    <3>4. CASE i # 1
      <4>1. f[i - 1] \in Seq(S)
        BY <3>4
      <4>2. f[i - 1] \o seqs[i] \in Seq(S)
        BY <4>1, <3>2, ConcatProperties
      <4> QED
        BY <3>1, <3>4, <4>2
    <3> QED
      BY <3>3, <3>4
  <2>5. N \in T
    <3>1. 0 \in T
      OBVIOUS
    <3> HIDE DEF T, N
    <3>2. \A i \in 0..N : i \in T
      BY <2>1, <2>4, <3>1, UpTo
    <3> QED
      BY <2>1, <3>2
  <2> QED
    BY <2>1, <2>3, <2>5
<1> QED
  BY <1>1, <1>2

\* The steps that a block can have.
Spends     == [step : {"spend"}, txid : Txid, n : Nat]
Nullifies  == [step : {"nullifier"}, nf : Nullifier]
Adds(b)    == [step : {"add"}, txid : Txid, vout : {vtx[b][i].vout : i \in DOMAIN vtx[b]}]
StepsOf(b) == Spends \cup Nullifies \cup Adds(b)

\* The steps of a block are a sequence of spends, nullifiers and additions.
LEMMA BlockStepsType ==
    ASSUME NEW b \in Block
    PROVE  BlockSteps(b) \in Seq(StepsOf(b)) /\ Len(BlockSteps(b)) \in Nat
<1> DEFINE t(i) == vtx[b][i]
           S == StepsOf(b)
<1>1. vtx[b] \in Seq(Transaction)
  BY TransactionAssumption
<1>2. ASSUME NEW i \in DOMAIN vtx[b] PROVE TxSteps(vtx[b][i]) \in Seq(S)
  <2> DEFINE tx == vtx[b][i]
             p == [j \in DOMAIN tx.vin |-> [step |-> "spend", txid |-> tx.vin[j].hash, n |-> tx.vin[j].n]]
             q == [j \in DOMAIN tx.nullifiers |-> [step |-> "nullifier", nf |-> tx.nullifiers[j]]]
             r == <<[step |-> "add", txid |-> tx.txid, vout |-> tx.vout]>>
  <2>1. tx \in Transaction
    BY <1>1, <1>2
  <2>2. /\ tx.vin \in Seq([hash : Txid, n : Nat]) /\ tx.nullifiers \in Seq(Nullifier)
        /\ tx.txid \in Txid
    BY <2>1 DEF Transaction
  <2>3. p \in Seq(S)
    <3>1. \A j \in 1..Len(tx.vin) :
             [step |-> "spend", txid |-> tx.vin[j].hash, n |-> tx.vin[j].n] \in S
      <4> SUFFICES ASSUME NEW j \in 1..Len(tx.vin)
                   PROVE  [step |-> "spend", txid |-> tx.vin[j].hash, n |-> tx.vin[j].n] \in Spends
        BY DEF StepsOf
      <4>1. tx.vin[j] \in [hash : Txid, n : Nat]
        <5> DEFINE vin == tx.vin
                   I == [hash : Txid, n : Nat]
        <5>1. vin \in Seq(I) /\ j \in 1..Len(vin)
          BY <2>2
        <5>2. vin[j] \in I
          <6> HIDE DEF vin, I
          <6> QED
            BY <5>1
        <5> QED
          BY <5>2
      <4> QED
        BY <4>1 DEF Spends
    <3>2. DOMAIN tx.vin = 1..Len(tx.vin) /\ Len(tx.vin) \in Nat
      BY <2>2
    <3> HIDE DEF tx, S
    <3>3. p \in [1..Len(tx.vin) -> S]
      BY <3>1, <3>2
    <3> QED
      BY <3>2, <3>3, SeqDef
  <2>4. q \in Seq(S)
    <3>1. \A j \in 1..Len(tx.nullifiers) : [step |-> "nullifier", nf |-> tx.nullifiers[j]] \in S
      <4> SUFFICES ASSUME NEW j \in 1..Len(tx.nullifiers)
                   PROVE  [step |-> "nullifier", nf |-> tx.nullifiers[j]] \in Nullifies
        BY DEF StepsOf
      <4>1. tx.nullifiers[j] \in Nullifier
        BY <2>2
      <4> QED
        BY <4>1 DEF Nullifies
    <3>2. DOMAIN tx.nullifiers = 1..Len(tx.nullifiers) /\ Len(tx.nullifiers) \in Nat
      BY <2>2
    <3> HIDE DEF tx, S
    <3>3. q \in [1..Len(tx.nullifiers) -> S]
      BY <3>1, <3>2
    <3> QED
      BY <3>2, <3>3, SeqDef
  <2>5. r \in Seq(S)
    <3>1. [step |-> "add", txid |-> tx.txid, vout |-> tx.vout] \in Adds(b)
      BY <2>2, <1>2 DEF Adds
    <3>2. [step |-> "add", txid |-> tx.txid, vout |-> tx.vout] \in S
      BY <3>1 DEF StepsOf
    <3> HIDE DEF tx, S
    <3> QED
      BY <3>2
  <2>6. TxSteps(vtx[b][i]) = p \o q \o r
    BY DEF TxSteps
  <2> HIDE DEF p, q, r, S
  <2> QED
    BY <2>3, <2>4, <2>5, <2>6, ConcatProperties
<1> DEFINE seqs == [i \in DOMAIN vtx[b] |-> TxSteps(vtx[b][i])]
<1>3. seqs \in Seq(Seq(S))
  <2>1. DOMAIN vtx[b] = 1..Len(vtx[b]) /\ Len(vtx[b]) \in Nat
    BY <1>1
  <2> HIDE DEF S
  <2>2. seqs \in [1..Len(vtx[b]) -> Seq(S)]
    BY <1>2, <2>1
  <2> QED
    BY <2>1, <2>2, SeqDef
<1>4. FlattenSeq(seqs) \in Seq(S)
  <2> HIDE DEF seqs, S
  <2> QED
    BY <1>3, FlattenType
<1>5. BlockSteps(b) \in Seq(S)
  BY <1>4 DEF BlockSteps
<1> HIDE DEF S
<1>6. Len(BlockSteps(b)) \in Nat
  BY <1>5
<1> QED
  BY <1>5, <1>6 DEF S


-----------------------------------------------------------------------------
(* The reference definitions are recursive functions: that they exist.      *)

AfterBody(state, steps, k, f) ==
    [i \in 0..k |-> IF i = 0 THEN state ELSE Applied(f[i - 1], steps[i])]

\* The recursive definition of After has a solution.
LEMMA AfterExists ==
    ASSUME NEW state, NEW steps
    PROVE  \A k \in Nat : \E f : f = AfterBody(state, steps, k, f)
<1> USE DEF AfterBody
<1> DEFINE S(f, i) == IF i = 0 THEN state ELSE Applied(f[i - 1], steps[i])
           Done(k) == \E f : f = [i \in 0..k |-> S(f, i)]
           T == {k \in Nat : Done(k)}
<1>1. 0 \in T
  <2> DEFINE g == [i \in 0..0 |-> state]
  <2>1. \A i \in 0..0 : S(g, i) = state
    OBVIOUS
  <2>2. g = [i \in 0..0 |-> S(g, i)]
    <3> HIDE DEF S
    <3> QED
      BY <2>1
  <2>3. Done(0)
    BY <2>2
  <2> QED
    BY <2>3
<1>2. ASSUME NEW k \in Nat, k # 0, k - 1 \in T PROVE k \in T
  <2>1. k - 1 \in Nat /\ Done(k - 1)
    BY <1>2
  <2>2. PICK f : f = [i \in 0..(k - 1) |-> S(f, i)]
    BY <2>1
  <2> DEFINE g == [i \in 0..k |-> IF i = k THEN S(f, k) ELSE f[i]]
  <2>3. \A i \in 0..k : g[i] = S(g, i)
    <3> SUFFICES ASSUME NEW i \in 0..k PROVE g[i] = S(g, i)
      OBVIOUS
    <3>1. \A j \in 0..(k - 1) : g[j] = f[j] /\ f[j] = S(f, j)
      <4>1. ASSUME NEW j \in 0..(k - 1) PROVE f[j] = S(f, j)
        <5> HIDE DEF S
        <5> QED
          BY <2>2, Zenon
      <4>2. ASSUME NEW j \in 0..(k - 1) PROVE g[j] = f[j]
        <5>1. j \in 0..k /\ j # k
          BY <2>1
        <5> HIDE DEF S
        <5> QED
          BY <5>1
      <4> QED
        BY <4>1, <4>2
    <3>2. S(g, i) = S(f, i)
      <4>1. CASE i = 0
        BY <4>1
      <4>2. CASE i # 0
        <5>1. i - 1 \in 0..(k - 1)
          BY <4>2, <2>1
        <5>2. g[i - 1] = f[i - 1]
          BY <5>1, <3>1
        <5> HIDE DEF g
        <5> QED
          BY <4>2, <5>2
      <4> QED
        BY <4>1, <4>2
    <3>3. CASE i = k
      BY <3>2, <3>3
    <3>4. CASE i # k
      <4>1. i \in 0..(k - 1)
        BY <3>4, <2>1
      <4> QED
        BY <4>1, <3>1, <3>2
    <3> QED
      BY <3>3, <3>4
  <2>4. g = [i \in 0..k |-> S(g, i)]
    <3> HIDE DEF S
    <3> QED
      BY <2>3
  <2>5. Done(k)
    <3> HIDE DEF g, S
    <3> QED
      BY <2>4
  <2> QED
    BY <2>5
<1>3. ASSUME NEW k \in Nat PROVE Done(k)
  <2>1. \A i \in 1..k : i - 1 \in T => i \in T
    <3> HIDE DEF T
    <3> QED
      BY <1>2
  <2>2. k \in T
    <3> HIDE DEF T
    <3> QED
      BY <1>1, <2>1, UpTo
  <2> QED
    BY <2>2
<1> QED
  BY <1>3

\* The equations of After.
LEMMA AfterIs ==
    ASSUME NEW state, NEW steps, Len(steps) \in Nat
    PROVE  /\ After(state, steps)[0] = state
           /\ \A i \in 1..Len(steps) :
                 After(state, steps)[i] = Applied(After(state, steps)[i - 1], steps[i])
<1> DEFINE N == Len(steps)
           f == After(state, steps)
<1>1. f = CHOOSE g : g = AfterBody(state, steps, N, g)
  BY DEF After, AfterBody
<1>2. f = AfterBody(state, steps, N, f)
  <2> HIDE DEF f
  <2> QED
    BY <1>1, AfterExists
<1> HIDE DEF f
<1>3. \A i \in 0..N : f[i] = IF i = 0 THEN state ELSE Applied(f[i - 1], steps[i])
  BY <1>2, Zenon DEF AfterBody
<1>4. f[0] = state
  BY <1>3
<1>5. ASSUME NEW i \in 1..N PROVE f[i] = Applied(f[i - 1], steps[i])
  BY <1>3
<1> QED
  BY <1>4, <1>5 DEF f

GenesisState ==
    [coins |-> [x \in Txid |-> Pruned], nullifiers |-> [n \in Nullifier |-> FALSE],
     anchors |-> {EmptyRoot}, height |-> 0]

\* The state at b, given that of its parent by f.
StateBody(f, b) ==
    IF b = Genesis THEN GenesisState
    ELSE After(Entered(f[pprev[b]], b), BlockSteps(b))[Len(BlockSteps(b))]

\* The state at a block depends on its parent's only.
LEMMA StateBodyLocal ==
    ASSUME NEW f, NEW g, NEW b \in Block, b # Genesis => f[pprev[b]] = g[pprev[b]]
    PROVE  StateBody(f, b) = StateBody(g, b)
BY DEF StateBody

Below(k) == {b \in Block : nHeight[b] < k}

\* f is StateAt, on the blocks below height k.
Partial(f, k) == DOMAIN f = Below(k) /\ \A b \in Below(k) : f[b] = StateBody(f, b)

\* The parent of a block is lower.
LEMMA ParentBelow ==
    ASSUME NEW k \in Nat, NEW b \in Below(k), b # Genesis
    PROVE  /\ pprev[b] \in Block /\ nHeight[pprev[b]] < nHeight[b] /\ nHeight[b] \in Nat
           /\ nHeight[pprev[b]] \in Nat /\ pprev[b] \in Below(k) /\ pprev[b] \in Below(nHeight[b])
BY ChainAssumption DEF Below

\* Two such functions agree where both are defined.
LEMMA PartialUnique ==
    ASSUME NEW j \in Nat, NEW k \in Nat, j <= k, NEW f, NEW g, Partial(f, j), Partial(g, k)
    PROVE  \A b \in Below(j) : f[b] = g[b]
<1> DEFINE Bad == {nHeight[b] : b \in {c \in Below(j) : f[c] # g[c]}}
<1> SUFFICES ASSUME Bad # {} PROVE FALSE
  OBVIOUS
<1>1. PICK m \in Bad : \A i \in Bad : m <= i
  <2>1. Bad \in SUBSET Nat
    BY ChainAssumption DEF Below
  <2> HIDE DEF Bad
  <2> QED
    BY <2>1, LeastNatural
<1>2. PICK b \in Below(j) : f[b] # g[b] /\ m = nHeight[b]
  BY <1>1
<1>3. b \in Below(k) /\ b \in Block
  BY ChainAssumption DEF Below
<1>4. b # Genesis => f[pprev[b]] = g[pprev[b]]
  <2> SUFFICES ASSUME b # Genesis, f[pprev[b]] # g[pprev[b]] PROVE FALSE
    OBVIOUS
  <2>1. nHeight[pprev[b]] < nHeight[b] /\ pprev[b] \in Below(j) /\ nHeight[pprev[b]] \in Nat
        /\ nHeight[b] \in Nat
    BY ParentBelow
  <2>2. nHeight[pprev[b]] \in Bad
    BY <2>1
  <2> HIDE DEF Bad
  <2> QED
    BY <2>1, <2>2, <1>1, <1>2
<1>5. StateBody(f, b) = StateBody(g, b)
  BY <1>3, <1>4, StateBodyLocal
<1> QED
  BY <1>2, <1>3, <1>5 DEF Partial

\* There is one for every height.
LEMMA PartialExists == \A k \in Nat : \E f : Partial(f, k)
<1> DEFINE Done(k) == \E f : Partial(f, k)
           T == {k \in Nat : Done(k)}
<1>1. 0 \in T
  <2> DEFINE f == [b \in Below(0) |-> GenesisState]
  <2>1. Below(0) = {}
    BY ChainAssumption DEF Below
  <2>2. DOMAIN f = Below(0)
    OBVIOUS
  <2> HIDE DEF f
  <2>3. Partial(f, 0)
    BY <2>1, <2>2 DEF Partial
  <2> QED
    BY <2>3
<1>2. ASSUME NEW k \in Nat, k # 0, k - 1 \in T PROVE k \in T
  <2>1. k - 1 \in Nat /\ Done(k - 1)
    BY <1>2
  <2>2. PICK f : Partial(f, k - 1)
    BY <2>1
  <2> DEFINE g == [b \in Below(k) |-> StateBody(f, b)]
  <2>3. DOMAIN g = Below(k) /\ \A b \in Below(k) : g[b] = StateBody(f, b)
    OBVIOUS
  <2> HIDE DEF g
  <2>4. ASSUME NEW b \in Below(k) PROVE g[b] = StateBody(g, b)
    <3>1. ASSUME b # Genesis PROVE f[pprev[b]] = g[pprev[b]]
      <4>1. pprev[b] \in Below(k) /\ pprev[b] \in Below(k - 1)
        BY <2>1, <3>1, ParentBelow, ChainAssumption DEF Below
      <4> QED
        BY <4>1, <2>2, <2>3 DEF Partial
    <3>2. b \in Block
      BY DEF Below
    <3> QED
      BY <2>3, <3>1, <3>2, StateBodyLocal
  <2>5. Partial(g, k)
    BY <2>3, <2>4 DEF Partial
  <2> QED
    BY <2>5
<1>3. ASSUME NEW k \in Nat PROVE Done(k)
  <2>1. \A i \in 1..k : i - 1 \in T => i \in T
    <3> HIDE DEF T
    <3> QED
      BY <1>2
  <2>2. k \in T
    <3> HIDE DEF T
    <3> QED
      BY <1>1, <2>1, UpTo
  <2> QED
    BY <2>2
<1> QED
  BY <1>3

\* The equation of StateAt.
LEMMA StateIs ==
    ASSUME NEW b \in Block
    PROVE  StateAt[b] = StateBody(StateAt, b)
<1> DEFINE At(k) == CHOOSE f : Partial(f, k)
           F == [c \in Block |-> At(nHeight[c] + 1)[c]]
<1>1. \A k \in Nat : Partial(At(k), k)
  BY PartialExists
<1>2. \A c \in Block : F[c] = At(nHeight[c] + 1)[c]
  OBVIOUS
<1>3. DOMAIN F = Block
  OBVIOUS
<1> HIDE DEF At, F
<1>4. ASSUME NEW c \in Block PROVE F[c] = StateBody(F, c)
  <2> DEFINE h == nHeight[c]
             f == At(h + 1)
  <2>1. h \in Nat /\ h + 1 \in Nat /\ c \in Below(h + 1)
    BY ChainAssumption DEF Below
  <2>2. Partial(f, h + 1)
    BY <1>1, <2>1
  <2>3. F[c] = f[c] /\ f[c] = StateBody(f, c)
    BY <1>2, <2>1, <2>2 DEF Partial
  <2>4. ASSUME c # Genesis PROVE f[pprev[c]] = F[pprev[c]]
    <3> DEFINE j == nHeight[pprev[c]] + 1
    <3>1. /\ pprev[c] \in Block /\ pprev[c] \in Below(j) /\ j \in Nat /\ j <= h + 1
      BY <2>1, <2>4, ParentBelow, ChainAssumption DEF Below
    <3>2. Partial(At(j), j)
      BY <1>1, <3>1
    <3>3. At(j)[pprev[c]] = f[pprev[c]]
      BY <2>1, <2>2, <3>1, <3>2, PartialUnique
    <3> QED
      BY <1>2, <3>1, <3>3
  <2> QED
    BY <2>3, <2>4, StateBodyLocal
<1>5. F = [c \in Block |-> StateBody(F, c)]
  <2>1. F = [c \in Block |-> F[c]]
    BY DEF F
  <2> QED
    BY <1>4, <2>1
<1>6. StateAt = CHOOSE f : f = [c \in Block |-> StateBody(f, c)]
  BY DEF StateAt, StateBody, GenesisState
<1>7. StateAt = [c \in Block |-> StateBody(StateAt, c)]
  <2> HIDE DEF StateAt
  <2> QED
    BY <1>5, <1>6
<1> HIDE DEF StateAt
<1> QED
  BY <1>7, Zenon


-----------------------------------------------------------------------------
(* What a block does to the coins.                                          *)

States == [coins : [Txid -> CCoins], nullifiers : [Nullifier -> BOOLEAN],
           anchors : SUBSET Root, height : Nat]

\* What remains of coins when outputs are spent.
LEMMA LeftCoins ==
    ASSUME NEW cc \in CCoins, NEW outs \in SUBSET cc.outs
    PROVE  MakeCoins(outs, cc.nHeight) \in CCoins
BY TransactionAssumption

\* What one step of UpdateCoins makes of a state of block b.
IsApplied(b, s, op, r) ==
    /\ r \in States /\ r.height = s.height
    /\ r.anchors = s.anchors
    /\ op.step = "spend" =>
          /\ op.txid \in Txid /\ op.n \in Nat
          /\ r.nullifiers = s.nullifiers
          /\ r.coins = [s.coins EXCEPT ![op.txid] =
                MakeCoins(s.coins[op.txid].outs \ {op.n}, s.coins[op.txid].nHeight)]
    /\ op.step = "nullifier" =>
          /\ op.nf \in Nullifier
          /\ r.coins = s.coins
          /\ r.nullifiers = [s.nullifiers EXCEPT ![op.nf] = TRUE]
    /\ op.step = "add" =>
          /\ op.txid \in Txid /\ MakeCoins(op.vout, nHeight[b]) \in CCoins
          /\ r.nullifiers = s.nullifiers
          /\ r.coins =
                [s.coins EXCEPT ![op.txid] = MakeCoins(op.vout, nHeight[b])]
    /\ op.step \in {"spend", "nullifier", "add"}

\* One step of a block.
LEMMA AppliedIs ==
    ASSUME NEW b \in Block \ {Genesis}, NEW s \in States, s.height = nHeight[b],
           NEW op \in StepsOf(b)
    PROVE  IsApplied(b, s, op, Applied(s, op))
<1> DEFINE new == Applied(s, op)
<1>1. s.coins \in [Txid -> CCoins] /\ s.nullifiers \in [Nullifier -> BOOLEAN]
  BY DEF States
<1>2. CASE op \in Spends
  <2>1. op.step = "spend" /\ op.txid \in Txid /\ op.n \in Nat
    BY <1>2 DEF Spends
  <2> DEFINE old == s.coins[op.txid]
             cc == MakeCoins(old.outs \ {op.n}, old.nHeight)
  <2>2. old \in CCoins
    BY <1>1, <2>1
  <2>3. cc \in CCoins
    <3>1. old.outs \ {op.n} \in SUBSET old.outs
      OBVIOUS
    <3> QED
      BY <2>2, <3>1, LeftCoins
  <2>4. new = [s EXCEPT !.coins = [s.coins EXCEPT ![op.txid] = cc]]
    BY <2>1 DEF Applied
  <2> HIDE DEF new, cc
  <2>5. /\ new \in States /\ new.height = s.height /\ new.anchors = s.anchors
        /\ new.nullifiers = s.nullifiers /\ new.coins = [s.coins EXCEPT ![op.txid] = cc]
    BY <1>1, <2>1, <2>3, <2>4 DEF States
  <2> QED
    BY <2>1, <2>5 DEF IsApplied, cc, new
<1>3. CASE op \in Nullifies
  <2>1. op.step = "nullifier" /\ op.nf \in Nullifier
    BY <1>3 DEF Nullifies
  <2>2. new = [s EXCEPT !.nullifiers = [s.nullifiers EXCEPT ![op.nf] = TRUE]]
    BY <2>1 DEF Applied
  <2> DEFINE nn == [s.nullifiers EXCEPT ![op.nf] = TRUE]
  <2>3. nn \in [Nullifier -> BOOLEAN]
    BY <1>1
  <2> HIDE DEF new, nn
  <2>4. new = [s EXCEPT !.nullifiers = nn]
    BY <2>2 DEF nn
  <2>5. /\ new \in States /\ new.height = s.height /\ new.anchors = s.anchors
        /\ new.coins = s.coins /\ new.nullifiers = nn
    BY <2>3, <2>4 DEF States
  <2> QED
    BY <2>1, <2>5 DEF IsApplied, nn, new
<1>4. CASE op \in Adds(b)
  <2>1. op.step = "add" /\ op.txid \in Txid /\ op.vout \in {vtx[b][i].vout : i \in DOMAIN vtx[b]}
    BY <1>4 DEF Adds
  <2> DEFINE cc == MakeCoins(op.vout, nHeight[b])
  <2>2. cc \in CCoins
    BY <2>1, TransactionAssumption
  <2>3. new = [s EXCEPT !.coins = [s.coins EXCEPT ![op.txid] = cc]]
    BY <2>1 DEF Applied
  <2> HIDE DEF new, cc
  <2>4. /\ new \in States /\ new.height = s.height /\ new.anchors = s.anchors
        /\ new.nullifiers = s.nullifiers /\ new.coins = [s.coins EXCEPT ![op.txid] = cc]
    BY <1>1, <2>1, <2>2, <2>3 DEF States
  <2> QED
    BY <2>1, <2>2, <2>4 DEF IsApplied, cc, new
<1> QED
  BY <1>2, <1>3, <1>4 DEF StepsOf

\* No step changes the height or the anchors.
LEMMA AppliedKeeps ==
    ASSUME NEW b \in Block \ {Genesis}, NEW s \in States, s.height = nHeight[b],
           NEW op \in StepsOf(b)
    PROVE  /\ Applied(s, op) \in States /\ Applied(s, op).height = s.height
           /\ Applied(s, op).anchors = s.anchors
<1>1. IsApplied(b, s, op, Applied(s, op))
  BY AppliedIs
<1> QED
  BY <1>1 DEF IsApplied

\* UpdateCoins adds the outputs of a transaction.
LEMMA AppliedAdd ==
    ASSUME NEW b \in Block \ {Genesis}, NEW s \in States, s.height = nHeight[b],
           NEW op \in StepsOf(b), op.step = "add"
    PROVE  /\ op.txid \in Txid /\ MakeCoins(op.vout, nHeight[b]) \in CCoins
           /\ Applied(s, op).nullifiers = s.nullifiers
           /\ Applied(s, op).coins = [s.coins EXCEPT ![op.txid] = MakeCoins(op.vout, nHeight[b])]
<1>1. IsApplied(b, s, op, Applied(s, op))
  BY AppliedIs
<1> QED
  BY <1>1 DEF IsApplied

\* What the spent output's transaction has left.
LeftBy(coins, op) == MakeCoins(coins[op.txid].outs \ {op.n}, coins[op.txid].nHeight)

\* UpdateCoins spends an output.
LEMMA AppliedSpend ==
    ASSUME NEW b \in Block \ {Genesis}, NEW s \in States, s.height = nHeight[b],
           NEW op \in StepsOf(b), op.step = "spend"
    PROVE  /\ op.txid \in Txid /\ op.n \in Nat
           /\ Applied(s, op).nullifiers = s.nullifiers
           /\ Applied(s, op).coins = [s.coins EXCEPT ![op.txid] = LeftBy(s.coins, op)]
<1>1. IsApplied(b, s, op, Applied(s, op))
  BY AppliedIs
<1> QED
  BY <1>1 DEF IsApplied, LeftBy

\* UpdateCoins sets a nullifier.
LEMMA AppliedNullifier ==
    ASSUME NEW b \in Block \ {Genesis}, NEW s \in States, s.height = nHeight[b],
           NEW op \in StepsOf(b), op.step = "nullifier"
    PROVE  /\ op.nf \in Nullifier /\ Applied(s, op).coins = s.coins
           /\ Applied(s, op).nullifiers = [s.nullifiers EXCEPT ![op.nf] = TRUE]
<1>1. IsApplied(b, s, op, Applied(s, op))
  BY AppliedIs
<1> QED
  BY <1>1 DEF IsApplied

\* The states ConnectBlock of b goes through, by the number of steps made.
Trail(b) == After(Entered(StateAt[pprev[b]], b), BlockSteps(b))

\* What entering a block changes.
LEMMA EnteredIs ==
    ASSUME NEW b \in Block \ {Genesis}, NEW s \in States
    PROVE  /\ Entered(s, b) \in States /\ Entered(s, b).height = nHeight[b]
           /\ Entered(s, b).coins = s.coins /\ Entered(s, b).nullifiers = s.nullifiers
           /\ Entered(s, b).anchors = s.anchors \cup {anchor[b]}
BY ChainAssumption, AnchorAssumption DEF Entered, States

\* The trail of a block whose parent has a state.
LEMMA TrailFrom ==
    ASSUME NEW b \in Block \ {Genesis}, StateAt[pprev[b]] \in States
    PROVE  /\ Trail(b)[0] = Entered(StateAt[pprev[b]], b)
           /\ \A i \in 1..Len(BlockSteps(b)) :
                 Trail(b)[i] = Applied(Trail(b)[i - 1], BlockSteps(b)[i])
           /\ \A i \in 0..Len(BlockSteps(b)) :
                 /\ Trail(b)[i] \in States /\ Trail(b)[i].height = nHeight[b]
                 /\ Trail(b)[i].anchors = StateAt[pprev[b]].anchors \cup {anchor[b]}
           /\ StateAt[b] = Trail(b)[Len(BlockSteps(b))]
<1> DEFINE N == Len(BlockSteps(b))
           s0 == Entered(StateAt[pprev[b]], b)
           A == StateAt[pprev[b]].anchors \cup {anchor[b]}
           T == {i \in 0..N : /\ Trail(b)[i] \in States /\ Trail(b)[i].height = nHeight[b]
                              /\ Trail(b)[i].anchors = A}
<1>1. N \in Nat /\ BlockSteps(b) \in Seq(StepsOf(b))
  BY BlockStepsType
<1>2. /\ Trail(b)[0] = s0
      /\ \A i \in 1..N : Trail(b)[i] = Applied(Trail(b)[i - 1], BlockSteps(b)[i])
  BY <1>1, AfterIs DEF Trail
<1>3. 0 \in T
  BY <1>1, <1>2, EnteredIs
<1>4. ASSUME NEW i \in 1..N, i - 1 \in T PROVE i \in T
  <2> DEFINE s == Trail(b)[i - 1]
             op == BlockSteps(b)[i]
  <2>1. op \in StepsOf(b)
    BY <1>1
  <2>2. Trail(b)[i] = Applied(s, op)
    BY <1>2
  <2>3. s \in States /\ s.height = nHeight[b] /\ s.anchors = A
    BY <1>4
  <2>4. /\ Applied(s, op) \in States /\ Applied(s, op).height = s.height
        /\ Applied(s, op).anchors = s.anchors
    <3> HIDE DEF s, op
    <3> QED
      BY <2>1, <2>3, AppliedKeeps
  <2>5. i \in 0..N
    BY <1>1
  <2> HIDE DEF N, A
  <2> QED
    BY <2>2, <2>3, <2>4, <2>5
<1>5. \A i \in 0..N : i \in T
  <2>1. \A i \in 1..N : i - 1 \in T => i \in T
    BY <1>4
  <2> HIDE DEF T, N
  <2> QED
    BY <1>1, <1>3, <2>1, UpTo
<1>6. StateAt[b] = Trail(b)[N]
  BY StateIs DEF StateBody, Trail
<1> QED
  BY <1>2, <1>5, <1>6

\* Every block has a state; its anchors are its own and those below it, whose trees
\* are not larger.
StateFine(b) ==
    /\ StateAt[b] \in States /\ anchor[b] \in StateAt[b].anchors
    /\ \A rt \in StateAt[b].anchors : size[rt] <= size[anchor[b]]

\* Every block has such a state.
LEMMA StateType == \A b \in Block : StateFine(b)
<1> DEFINE Bad == {nHeight[b] : b \in {c \in Block : ~StateFine(c)}}
<1> SUFFICES ASSUME Bad # {} PROVE FALSE
  OBVIOUS
<1>1. PICK m \in Bad : \A i \in Bad : m <= i
  <2>1. Bad \in SUBSET Nat
    BY ChainAssumption
  <2> HIDE DEF Bad
  <2> QED
    BY <2>1, LeastNatural
<1>2. PICK b \in Block : ~StateFine(b) /\ m = nHeight[b]
  BY <1>1
<1>3. CASE b = Genesis
  <2>1. StateAt[b] = GenesisState
    BY <1>3, StateIs DEF StateBody
  <2>2. GenesisState \in States
    BY CoinsAssumption DEF GenesisState, States
  <2>3. GenesisState.anchors = {EmptyRoot}
    BY DEF GenesisState
  <2>4. size[EmptyRoot] \in Nat
    BY AnchorAssumption, CoinsAssumption
  <2> QED
    BY <1>2, <1>3, <2>1, <2>2, <2>3, <2>4, AnchorAssumption DEF StateFine
<1>4. CASE b # Genesis
  <2> DEFINE p == pprev[b]
  <2>1. p \in Block /\ nHeight[p] \in Nat /\ nHeight[b] \in Nat /\ nHeight[p] < nHeight[b]
    BY <1>4, ChainAssumption
  <2>2. StateFine(p)
    <3> SUFFICES ASSUME ~StateFine(p) PROVE FALSE
      OBVIOUS
    <3>1. nHeight[p] \in Bad
      BY <2>1
    <3> HIDE DEF Bad
    <3> QED
      BY <1>1, <1>2, <2>1, <3>1
  <2>3. StateAt[p] \in States
    BY <2>2 DEF StateFine
  <2>4. Len(BlockSteps(b)) \in Nat
    BY BlockStepsType
  <2>5. StateAt[b] \in States /\ StateAt[b].anchors = StateAt[p].anchors \cup {anchor[b]}
    BY <1>4, <2>3, <2>4, TrailFrom
  <2>6. /\ anchor[b] \in Root /\ anchor[p] \in Root /\ size \in [Root -> Nat]
        /\ anchor[b] = anchor[p] \/ size[anchor[b]] > size[anchor[p]]
        /\ StateAt[p].anchors \subseteq Root
    BY <1>4, <2>1, <2>3, AnchorAssumption DEF States
  <2>7. \A rt \in StateAt[p].anchors : size[rt] <= size[anchor[p]] /\ size[rt] \in Nat
    BY <2>2, <2>6 DEF StateFine
  <2>8. size[anchor[p]] \in Nat /\ size[anchor[b]] \in Nat /\ size[anchor[p]] <= size[anchor[b]]
    BY <2>6
  <2>9. \A rt \in StateAt[b].anchors : size[rt] <= size[anchor[b]]
    BY <2>5, <2>7, <2>8
  <2> QED
    BY <1>2, <2>5, <2>9 DEF StateFine
<1> QED
  BY <1>3, <1>4

\* The root of a block that adds commitments is not among the anchors below it.
LEMMA NewAnchor ==
    ASSUME NEW b \in Block \ {Genesis}, anchor[b] # anchor[pprev[b]]
    PROVE  anchor[b] \notin StateAt[pprev[b]].anchors
<1>1. pprev[b] \in Block /\ StateFine(pprev[b])
  BY ChainAssumption, StateType
<1>2. /\ anchor[b] \in Root /\ anchor[pprev[b]] \in Root /\ size \in [Root -> Nat]
      /\ size[anchor[b]] > size[anchor[pprev[b]]]
  BY <1>1, AnchorAssumption
<1> QED
  BY <1>1, <1>2 DEF StateFine

\* The trail of a block, whole.
LEMMA TrailIs ==
    ASSUME NEW b \in Block \ {Genesis}
    PROVE  /\ Len(BlockSteps(b)) \in Nat /\ BlockSteps(b) \in Seq(StepsOf(b))
           /\ pprev[b] \in Block /\ nHeight[b] \in Nat \ {0}
           /\ Trail(b)[0].coins = StateAt[pprev[b]].coins
           /\ Trail(b)[0].nullifiers = StateAt[pprev[b]].nullifiers
           /\ StateAt[b] = Trail(b)[Len(BlockSteps(b))]
           /\ StateAt[b].anchors = StateAt[pprev[b]].anchors \cup {anchor[b]}
           /\ \A i \in 0..Len(BlockSteps(b)) : Trail(b)[i] \in States /\ Trail(b)[i].height = nHeight[b]
           /\ \A i \in 1..Len(BlockSteps(b)) :
                 /\ BlockSteps(b)[i] \in StepsOf(b)
                 /\ Trail(b)[i] = Applied(Trail(b)[i - 1], BlockSteps(b)[i])
<1>1. pprev[b] \in Block /\ nHeight[b] \in Nat \ {0} /\ StateAt[pprev[b]] \in States
  BY ChainAssumption, StateType DEF StateFine
<1>2. Len(BlockSteps(b)) \in Nat /\ BlockSteps(b) \in Seq(StepsOf(b))
  BY BlockStepsType
<1>3. \A i \in 1..Len(BlockSteps(b)) : BlockSteps(b)[i] \in StepsOf(b)
  BY <1>2
<1>4. Len(BlockSteps(b)) \in 0..Len(BlockSteps(b))
  BY <1>2
<1> QED
  BY <1>1, <1>2, <1>3, <1>4, TrailFrom, EnteredIs


\* One step of the trail.
LEMMA TrailStep ==
    ASSUME NEW b \in Block \ {Genesis}, NEW k \in Nat, k + 1 \in 1..Len(BlockSteps(b))
    PROVE  /\ Trail(b)[k] \in States /\ Trail(b)[k].height = nHeight[b]
           /\ Trail(b)[k].coins \in [Txid -> CCoins]
           /\ Trail(b)[k].nullifiers \in [Nullifier -> BOOLEAN]
           /\ BlockSteps(b)[k + 1] \in StepsOf(b)
           /\ Trail(b)[k + 1] = Applied(Trail(b)[k], BlockSteps(b)[k + 1])
<1>1. k \in 0..Len(BlockSteps(b)) /\ (k + 1) - 1 = k
  BY TrailIs
<1>2. Trail(b)[k] \in States /\ Trail(b)[k].height = nHeight[b]
  BY <1>1, TrailIs
<1>3. /\ BlockSteps(b)[k + 1] \in StepsOf(b)
      /\ Trail(b)[k + 1] = Applied(Trail(b)[(k + 1) - 1], BlockSteps(b)[k + 1])
  BY TrailIs
<1>4. Trail(b)[k].coins \in [Txid -> CCoins] /\ Trail(b)[k].nullifiers \in [Nullifier -> BOOLEAN]
  BY <1>2 DEF States
<1> QED
  BY <1>1, <1>2, <1>3, <1>4

\* The step of the trail that spends an output.
LEMMA TrailSpend ==
    ASSUME NEW b \in Block \ {Genesis}, NEW k \in Nat, k + 1 \in 1..Len(BlockSteps(b)),
           NEW op, op = BlockSteps(b)[k + 1], op.step = "spend"
    PROVE  /\ op.txid \in Txid /\ op.n \in Nat
           /\ Trail(b)[k + 1].nullifiers = Trail(b)[k].nullifiers
           /\ Trail(b)[k + 1].coins =
                 [Trail(b)[k].coins EXCEPT ![op.txid] = LeftBy(Trail(b)[k].coins, op)]
<1> DEFINE old == Trail(b)[k]
<1>1. /\ old \in States /\ old.height = nHeight[b] /\ op \in StepsOf(b)
      /\ Trail(b)[k + 1] = Applied(old, op)
  BY TrailStep
<1> HIDE DEF old
<1>2. /\ op.txid \in Txid /\ op.n \in Nat
      /\ Applied(old, op).nullifiers = old.nullifiers
      /\ Applied(old, op).coins = [old.coins EXCEPT ![op.txid] = LeftBy(old.coins, op)]
  BY <1>1, AppliedSpend
<1> QED
  BY <1>1, <1>2 DEF old

\* The step of the trail that sets a nullifier.
LEMMA TrailNullifier ==
    ASSUME NEW b \in Block \ {Genesis}, NEW k \in Nat, k + 1 \in 1..Len(BlockSteps(b)),
           NEW op, op = BlockSteps(b)[k + 1], op.step = "nullifier"
    PROVE  /\ op.nf \in Nullifier /\ Trail(b)[k + 1].coins = Trail(b)[k].coins
           /\ Trail(b)[k + 1].nullifiers = [Trail(b)[k].nullifiers EXCEPT ![op.nf] = TRUE]
<1> DEFINE old == Trail(b)[k]
<1>1. /\ old \in States /\ old.height = nHeight[b] /\ op \in StepsOf(b)
      /\ Trail(b)[k + 1] = Applied(old, op)
  BY TrailStep
<1> HIDE DEF old
<1>2. /\ op.nf \in Nullifier /\ Applied(old, op).coins = old.coins
      /\ Applied(old, op).nullifiers = [old.nullifiers EXCEPT ![op.nf] = TRUE]
  BY <1>1, AppliedNullifier
<1> QED
  BY <1>1, <1>2 DEF old

\* The step of the trail that adds a transaction.
LEMMA TrailAdd ==
    ASSUME NEW b \in Block \ {Genesis}, NEW k \in Nat, k + 1 \in 1..Len(BlockSteps(b)),
           NEW op, op = BlockSteps(b)[k + 1], op.step = "add"
    PROVE  /\ op.txid \in Txid /\ MakeCoins(op.vout, nHeight[b]) \in CCoins
           /\ Trail(b)[k + 1].nullifiers = Trail(b)[k].nullifiers
           /\ Trail(b)[k + 1].coins =
                 [Trail(b)[k].coins EXCEPT ![op.txid] = MakeCoins(op.vout, nHeight[b])]
<1> DEFINE old == Trail(b)[k]
<1>1. /\ old \in States /\ old.height = nHeight[b] /\ op \in StepsOf(b)
      /\ Trail(b)[k + 1] = Applied(old, op)
  BY TrailStep
<1> HIDE DEF old
<1>2. /\ op.txid \in Txid /\ MakeCoins(op.vout, nHeight[b]) \in CCoins
      /\ Applied(old, op).nullifiers = old.nullifiers
      /\ Applied(old, op).coins = [old.coins EXCEPT ![op.txid] = MakeCoins(op.vout, nHeight[b])]
  BY <1>1, AppliedAdd
<1> QED
  BY <1>1, <1>2 DEF old

\* The undo data of one spent output: it tells a last output from another, and
\* gives back the coins the output was taken from.
GivesBack(cc, n, left, h) ==
    /\ h \in Nat /\ n \notin left.outs
    /\ h # 0 <=> left = Pruned
    /\ h # 0 => MakeCoins({n}, h) = cc
    /\ h = 0 => MakeCoins(left.outs \cup {n}, left.nHeight) = cc

\* UndoHeight is enough for ApplyTxInUndo.
LEMMA UndoneSpend ==
    ASSUME NEW cc \in CCoins, NEW n \in cc.outs
    PROVE  LET left == MakeCoins(cc.outs \ {n}, cc.nHeight)
           IN  GivesBack(cc, n, left, UndoHeight(cc, left))
<1> DEFINE left == MakeCoins(cc.outs \ {n}, cc.nHeight)
           h == UndoHeight(cc, left)
<1>1. Pruned.outs = {} /\ Pruned.nHeight = 0
  BY TransactionAssumption
<1>2. cc # Pruned
  BY <1>1
<1>3. cc = [outs |-> cc.outs, nHeight |-> cc.nHeight] /\ cc.nHeight \in Nat \ {0}
  BY <1>2, TransactionAssumption
<1> SUFFICES GivesBack(cc, n, left, h)
  OBVIOUS
<1>4. CASE cc.outs \ {n} = {}
  <2>1. left = Pruned /\ h = cc.nHeight /\ cc.outs = {n}
    BY <1>4 DEF MakeCoins, UndoHeight
  <2>2. MakeCoins({n}, h) = cc
    <3>1. {n} # {}
      OBVIOUS
    <3> QED
      BY <1>3, <2>1, <3>1 DEF MakeCoins
  <2> HIDE DEF left, h
  <2> QED
    BY <1>1, <1>3, <2>1, <2>2 DEF GivesBack
<1>5. CASE cc.outs \ {n} # {}
  <2>1. left = [outs |-> cc.outs \ {n}, nHeight |-> cc.nHeight]
    BY <1>5 DEF MakeCoins
  <2>2. left.outs = cc.outs \ {n} /\ left.nHeight = cc.nHeight
    BY <2>1
  <2>3. left # Pruned /\ h = 0
    BY <1>1, <1>5, <2>2 DEF UndoHeight
  <2>4. (cc.outs \ {n}) \cup {n} = cc.outs /\ cc.outs # {}
    OBVIOUS
  <2>5. MakeCoins(left.outs \cup {n}, left.nHeight) = cc
    BY <1>3, <2>2, <2>4 DEF MakeCoins
  <2> HIDE DEF left, h
  <2> QED
    BY <2>2, <2>3, <2>5 DEF GivesBack
<1> QED
  BY <1>4, <1>5

\* Undo data is a number.
LEMMA UndoHeightType ==
    ASSUME NEW cc \in CCoins, NEW n \in cc.outs, NEW left
    PROVE  UndoHeight(cc, left) \in Nat
<1>1. cc # Pruned
  BY TransactionAssumption
<1> QED
  BY <1>1, TransactionAssumption DEF UndoHeight

-----------------------------------------------------------------------------
(* What is left of a block's steps.                                         *)

\* A sequence with a length is not empty.
LEMMA NotEmpty ==
    ASSUME NEW S, NEW s \in Seq(S), Len(s) > 0
    PROVE  s # <<>>
OBVIOUS

\* The head and the tail of what ConnectBlock has left to do.
LEMMA RestOfSteps ==
    ASSUME NEW S, NEW s \in Seq(S), NEW k \in 0..Len(s), NEW w, w = SubSeq(s, k + 1, Len(s))
    PROVE  /\ Len(w) = Len(s) - k /\ w \in Seq(S)
           /\ w # <<>> => /\ k < Len(s) /\ Head(w) = s[k + 1]
                          /\ Tail(w) = SubSeq(s, k + 2, Len(s))
<1>1. Len(w) = Len(s) - k /\ w \in Seq(S) /\ Len(s) \in Nat
  OBVIOUS
<1>2. ASSUME w # <<>> PROVE k < Len(s)
  BY <1>1, <1>2
<1>3. ASSUME k < Len(s) PROVE Head(w) = s[k + 1]
  BY <1>3
<1>4. ASSUME k < Len(s) PROVE Tail(w) = SubSeq(s, k + 2, Len(s))
  <2> DEFINE v == SubSeq(s, k + 2, Len(s))
  <2>1. w # <<>> /\ Tail(w) \in Seq(S) /\ Len(Tail(w)) = Len(s) - k - 1
        /\ \A i \in 1..(Len(s) - k - 1) : Tail(w)[i] = w[i + 1]
    <3>1. Len(w) > 0 /\ Len(w) - 1 = Len(s) - k - 1
      BY <1>1, <1>4
    <3>2. w # <<>>
      BY <1>1, <3>1, NotEmpty
    <3> HIDE <1>4
    <3> QED
      BY <1>1, <3>1, <3>2, HeadTailProperties
  <2>2. v \in Seq(S) /\ Len(v) = Len(s) - k - 1
        /\ \A i \in 1..(Len(s) - k - 1) : v[i] = s[k + 1 + i]
    BY <1>1, <1>4
  <2>3. \A i \in 1..(Len(s) - k) : w[i] = s[k + i]
    BY <1>1
  <2>4. \A i \in 1..(Len(s) - k - 1) : Tail(w)[i] = v[i]
    BY <1>1, <2>1, <2>2, <2>3
  <2> HIDE DEF v
  <2>5. Tail(w) = v
    BY <1>1, <2>1, <2>2, <2>4, SeqEqual
  <2> QED
    BY <2>5 DEF v
<1> QED
  BY <1>1, <1>2, <1>3, <1>4

\* The head and the tail of what DisconnectBlock has left to do.
LEMMA StepsToUndo ==
    ASSUME NEW S, NEW s \in Seq(S), NEW k \in 0..Len(s), NEW w, w = Reverse(SubSeq(s, 1, k))
    PROVE  /\ Len(w) = k /\ w \in Seq(S)
           /\ w # <<>> => /\ k > 0 /\ Head(w) = s[k]
                          /\ Tail(w) = Reverse(SubSeq(s, 1, k - 1))
<1> DEFINE p == SubSeq(s, 1, k)
<1>1. p \in Seq(S) /\ Len(p) = k /\ k \in Nat /\ \A i \in 1..k : p[i] = s[i]
  OBVIOUS
<1>2. w = [i \in 1..k |-> p[k - i + 1]]
  BY <1>1 DEF Reverse
<1> HIDE DEF p
<1>3. w \in [1..k -> S]
  <2>1. \A i \in 1..k : k - i + 1 \in 1..k /\ p[k - i + 1] \in S
    BY <1>1
  <2> QED
    BY <1>2, <2>1
<1>4. w \in Seq(S) /\ Len(w) = k
  BY <1>1, <1>3, SeqDef
<1>5. \A i \in 1..k : w[i] = s[k - i + 1]
  BY <1>1, <1>2
<1>6. ASSUME w # <<>> PROVE k > 0
  BY <1>1, <1>4, <1>6
<1>7. ASSUME k > 0 PROVE Head(w) = s[k]
  BY <1>1, <1>4, <1>5, <1>7
<1>8. ASSUME k > 0 PROVE Tail(w) = Reverse(SubSeq(s, 1, k - 1))
  <2> DEFINE q == SubSeq(s, 1, k - 1)
             v == Reverse(q)
  <2>1. q \in Seq(S) /\ Len(q) = k - 1 /\ k - 1 \in Nat /\ \A i \in 1..(k - 1) : q[i] = s[i]
    BY <1>1, <1>8
  <2>2. v = [i \in 1..(k - 1) |-> q[(k - 1) - i + 1]]
    BY <2>1 DEF Reverse
  <2> HIDE DEF q, v
  <2>3. Tail(w) \in Seq(S) /\ Len(Tail(w)) = k - 1 /\ \A i \in 1..(k - 1) : Tail(w)[i] = w[i + 1]
    BY <1>1, <1>4, <1>8
  <2>4. \A i \in 1..(k - 1) : Tail(w)[i] = s[k - i]
    BY <1>1, <1>5, <2>1, <2>3
  <2>5. \A i \in 1..(k - 1) : v[i] = s[k - i]
    BY <1>1, <2>1, <2>2
  <2>6. Tail(w) = [i \in 1..(k - 1) |-> s[k - i]]
    BY <2>1, <2>3, <2>4
  <2>7. v = [i \in 1..(k - 1) |-> s[k - i]]
    BY <2>1, <2>2, <2>5
  <2> QED
    BY <2>6, <2>7 DEF v, q
<1> QED
  BY <1>4, <1>6, <1>7, <1>8


-----------------------------------------------------------------------------
(* The inductive invariant.                                                 *)

\* What ConnectBlock has checked before a step.
StepOk(state, op) ==
    /\ op.step = "spend" => op.n \in state.coins[op.txid].outs
    /\ op.step = "nullifier" => ~state.nullifiers[op.nf]
    /\ op.step = "add" => state.coins[op.txid] = Pruned

StepsOk(b, k) == \A j \in 1..k : StepOk(Trail(b)[j - 1], BlockSteps(b)[j])

\* The undo data after step j of block b, when that before it is list.
UndoNext(b, j, list) ==
    LET op == BlockSteps(b)[j]
    IN  IF op.step = "spend"
        THEN Append(list, UndoHeight(Trail(b)[j - 1].coins[op.txid], Trail(b)[j].coins[op.txid]))
        ELSE list

\* The undo data of b, by the number of steps made.
UndoTrail(b, k, u) ==
    /\ u \in [0..k -> Seq(Nat)] /\ u[0] = <<>>
    /\ \A j \in 1..k : u[j] = UndoNext(b, j, u[j - 1])

\* The open view shows block b after k of its steps.
ViewShows(b, k) ==
    /\ ViewCoins = Trail(b)[k].coins /\ ViewNullifiers = Trail(b)[k].nullifiers
    /\ ViewAnchors = TipAnchors /\ ViewBestAnchor = TipBestAnchor

\* ConnectBlock has made k steps, each of them allowed, and collected their undo
\* data; nothing of what is still to be added is there.
Connecting(b, k) ==
    /\ k \in 0..Len(BlockSteps(b)) /\ pprev[b] = TipBestBlock
    /\ job.work = SubSeq(BlockSteps(b), k + 1, Len(BlockSteps(b)))
    /\ ViewShows(b, k) /\ StepsOk(b, k)
    /\ \E u : UndoTrail(b, k, u) /\ txundo = u[k]
    /\ \A x \in newTx : ViewCoins[x] = Pruned

\* DisconnectBlock has k steps to take back, and the undo data of these.
Disconnecting(b, k) ==
    /\ k \in 0..Len(BlockSteps(b)) /\ b = TipBestBlock /\ undo[b].written
    /\ job.work = Reverse(SubSeq(BlockSteps(b), 1, k))
    /\ ViewShows(b, k)
    /\ \E u : UndoTrail(b, Len(BlockSteps(b)), u) /\ txundo = u[k]

JobInv ==
    phase = "open" =>
        \E b \in Block \ {Genesis}, k \in Nat :
            /\ job.block = b
            /\ \/ job.kind = "connect" /\ Connecting(b, k)
               \/ job.kind = "disconnect" /\ Disconnecting(b, k)

\* Undo data on disk is that of a block that passed every check.
UndoInv ==
    \A b \in Block : undo[b].written =>
        /\ b # Genesis /\ undo[b].oldRoot = anchor[pprev[b]]
        /\ StepsOk(b, Len(BlockSteps(b)))
        /\ \E u : /\ UndoTrail(b, Len(BlockSteps(b)), u)
                  /\ undo[b].vprevout = u[Len(BlockSteps(b))]

\* The database and pcoinsTip are each at a block, also while a view is open.
LevelsInv ==
    /\ Matches(dbCoins, dbNullifiers, dbAnchors, dbBestAnchor, dbBestBlock)
    /\ Matches(TipCoins, TipNullifiers, TipAnchors, TipBestAnchor, TipBestBlock)

DoneInv ==
    phase = "done" =>
        Matches(ViewCoins, ViewNullifiers, ViewAnchors, ViewBestAnchor, ViewBestBlock)

JobTypes ==
    /\ job = [kind |-> job.kind, block |-> job.block, work |-> job.work]
    /\ undo \in [Block -> [written : BOOLEAN, vprevout : Seq(Nat), oldRoot : Root]]

MatchInv == CoinsInv /\ LevelsInv /\ DoneInv /\ JobTypes /\ JobInv /\ UndoInv

-----------------------------------------------------------------------------
(* Connecting, step by step.                                                *)

\* LevelsInv is about lookups only.
LEMMA LevelsKept ==
    ASSUME LevelsInv, UNCHANGED <<dbVars, tipLookups>>
    PROVE  LevelsInv'
<1>1. UNCHANGED <<dbCoins, dbNullifiers, dbAnchors, dbBestAnchor, dbBestBlock>>
  BY DEF dbVars
<1>2. UNCHANGED <<TipCoins, TipNullifiers, TipAnchors, TipBestAnchor, TipBestBlock>>
  BY DEF tipLookups
<1> QED
  BY <1>1, <1>2 DEF LevelsInv, Matches

\* Undo data is extended step by step.
LEMMA UndoGrows ==
    ASSUME NEW b, NEW k \in Nat, NEW u, UndoTrail(b, k, u), UndoNext(b, k + 1, u[k]) \in Seq(Nat)
    PROVE  \E v : UndoTrail(b, k + 1, v) /\ v[k + 1] = UndoNext(b, k + 1, u[k])
<1> DEFINE v == [j \in 0..(k + 1) |-> IF j = k + 1 THEN UndoNext(b, k + 1, u[k]) ELSE u[j]]
<1>1. u \in [0..k -> Seq(Nat)] /\ u[0] = <<>> /\ \A j \in 1..k : u[j] = UndoNext(b, j, u[j - 1])
  BY DEF UndoTrail
<1>2. /\ v[k + 1] = UndoNext(b, k + 1, u[k]) /\ \A j \in 0..k : v[j] = u[j]
      /\ DOMAIN v = 0..(k + 1)
  OBVIOUS
<1>3. v \in [0..(k + 1) -> Seq(Nat)]
  <2> HIDE DEF UndoNext
  <2> QED
    BY <1>1
<1> HIDE DEF v
<1>4. v[0] = <<>>
  BY <1>1, <1>2
<1>5. ASSUME NEW j \in 1..(k + 1) PROVE v[j] = UndoNext(b, j, v[j - 1])
  <2>1. CASE j = k + 1
    <3>1. j - 1 = k /\ k \in 0..k
      BY <2>1
    <3> QED
      BY <1>2, <2>1, <3>1
  <2>2. CASE j # k + 1
    <3>1. j \in 1..k /\ j \in 0..k /\ j - 1 \in 0..k
      BY <2>2
    <3> QED
      BY <1>1, <1>2, <3>1
  <2> QED
    BY <2>1, <2>2
<1> QED
  BY <1>2, <1>3, <1>4, <1>5 DEF UndoTrail

\* Where ConnectBlock is.
LEMMA ConnectingAt ==
    ASSUME MatchInv, phase = "open", job.kind = "connect"
    PROVE  \E b \in Block \ {Genesis}, k \in Nat : b = job.block /\ Connecting(b, k)
BY DEF MatchInv, JobInv

\* The step it makes next.
LEMMA ConnectWork ==
    ASSUME NEW b \in Block \ {Genesis}, NEW k \in Nat, Connecting(b, k)
    PROVE  /\ Len(BlockSteps(b)) \in Nat /\ k \in 0..Len(BlockSteps(b))
           /\ job.work = <<>> => k = Len(BlockSteps(b))
           /\ job.work # <<>> => /\ k + 1 \in 1..Len(BlockSteps(b))
                                 /\ Head(job.work) = BlockSteps(b)[k + 1]
                                 /\ Tail(job.work) =
                                       SubSeq(BlockSteps(b), (k + 1) + 1, Len(BlockSteps(b)))
<1> DEFINE s == BlockSteps(b)
           w == job.work
<1>1. s \in Seq(StepsOf(b)) /\ Len(s) \in Nat
  BY BlockStepsType
<1>2. k \in 0..Len(s) /\ w = SubSeq(s, k + 1, Len(s))
  BY DEF Connecting
<1> HIDE DEF s, w
<1>3. /\ Len(w) = Len(s) - k
      /\ w # <<>> => /\ k < Len(s) /\ Head(w) = s[k + 1]
                     /\ Tail(w) = SubSeq(s, k + 2, Len(s))
  BY <1>1, <1>2, RestOfSteps
<1>4. w = <<>> => k = Len(s)
  BY <1>1, <1>3
<1>5. k + 2 = (k + 1) + 1
  OBVIOUS
<1>6. k < Len(s) => k + 1 \in 1..Len(s)
  BY <1>1
<1> QED
  BY <1>1, <1>2, <1>3, <1>4, <1>5, <1>6 DEF s, w

\* One step further.
LEMMA ConnectAdvance ==
    ASSUME MatchInv, phase = "open", job.kind = "connect", job.work # <<>>,
           job' = [job EXCEPT !.work = Tail(@)],
           NEW b \in Block \ {Genesis}, b = job.block, NEW k \in Nat, Connecting(b, k),
           CoinsInv', UNCHANGED <<dbVars, tipLookups, phase, undo>>,
           ViewAnchors' = ViewAnchors, ViewBestAnchor' = ViewBestAnchor,
           ViewCoins' = Trail(b)[k + 1].coins, ViewNullifiers' = Trail(b)[k + 1].nullifiers,
           StepOk(Trail(b)[k], BlockSteps(b)[k + 1]),
           txundo' = UndoNext(b, k + 1, txundo), txundo' \in Seq(Nat),
           \A x \in newTx' : ViewCoins'[x] = Pruned
    PROVE  MatchInv'
<1> DEFINE s == BlockSteps(b)
<1>1. /\ Len(s) \in Nat /\ k + 1 \in 1..Len(s)
      /\ Tail(job.work) = SubSeq(s, (k + 1) + 1, Len(s))
  BY ConnectWork
<1>2. LevelsInv'
  BY LevelsKept DEF MatchInv
<1>3. phase' = "open" /\ undo' = undo /\ TipAnchors' = TipAnchors /\ TipBestAnchor' = TipBestAnchor
      /\ TipBestBlock' = TipBestBlock
  BY DEF tipLookups
<1>4. DoneInv'
  BY <1>3 DEF DoneInv
<1>5. /\ job'.kind = "connect" /\ job'.block = b /\ job'.work = Tail(job.work)
      /\ job' = [kind |-> job'.kind, block |-> job'.block, work |-> job'.work]
  BY DEF MatchInv, JobTypes
<1>6. JobTypes'
  BY <1>3, <1>5 DEF MatchInv, JobTypes
<1>7. UndoInv'
  BY <1>3 DEF MatchInv, UndoInv
<1>8. Connecting(b, k + 1)'
  <2>1. k + 1 \in 0..Len(s) /\ pprev[b] = TipBestBlock'
    BY <1>1, <1>3 DEF Connecting
  <2>2. ViewShows(b, k + 1)'
    BY <1>1, <1>3 DEF Connecting, ViewShows
  <2>3. StepsOk(b, k + 1)
    <3> SUFFICES ASSUME NEW j \in 1..(k + 1) PROVE StepOk(Trail(b)[j - 1], s[j])
      BY DEF StepsOk
    <3>1. CASE j = k + 1
      <4>1. j - 1 = k
        BY <1>1, <3>1
      <4> QED
        BY <3>1, <4>1
    <3>2. CASE j # k + 1
      <4>1. j \in 1..k
        BY <1>1, <3>2
      <4> QED
        BY <1>1, <4>1 DEF Connecting, StepsOk
    <3> QED
      BY <3>1, <3>2
  <2>4. \E v : UndoTrail(b, k + 1, v) /\ txundo' = v[k + 1]
    <3>1. PICK u : UndoTrail(b, k, u) /\ txundo = u[k]
      BY <1>1 DEF Connecting
    <3> HIDE DEF s
    <3> QED
      BY <1>1, <3>1, UndoGrows
  <2>5. (StepsOk(b, k + 1))'
    BY <2>3 DEF StepsOk, StepOk
  <2>6. (\E v : UndoTrail(b, k + 1, v) /\ txundo = v[k + 1])'
    BY <2>4 DEF UndoTrail, UndoNext
  <2> QED
    BY <1>1, <1>5, <2>1, <2>2, <2>5, <2>6 DEF Connecting
<1>9. JobInv'
  <2>1. k + 1 \in Nat
    OBVIOUS
  <2> QED
    BY <1>3, <1>5, <1>8, <2>1 DEF JobInv
<1> QED
  BY <1>2, <1>4, <1>6, <1>7, <1>9 DEF MatchInv


\* UpdateCoins spends an input that HaveInputs found unspent.
LEMMA ConnectSpendStep == ASSUME MatchInv, ConnectSpend PROVE MatchInv'
<1>1. /\ phase = "open" /\ job.kind = "connect" /\ job.work # <<>>
      /\ Head(job.work).step = "spend" /\ job' = [job EXCEPT !.work = Tail(@)]
  BY DEF ConnectSpend, Doing
<1>2. PICK b \in Block \ {Genesis}, k \in Nat : b = job.block /\ Connecting(b, k)
  BY <1>1, ConnectingAt
<1> DEFINE op  == BlockSteps(b)[k + 1]
           old == Trail(b)[k]
           new == Trail(b)[k + 1]
           cc  == old.coins[op.txid]
           left == LeftBy(old.coins, op)
<1>3. k + 1 \in 1..Len(BlockSteps(b)) /\ Head(job.work) = op /\ op.step = "spend"
  BY <1>1, <1>2, ConnectWork
<1>4. op = BlockSteps(b)[k + 1] /\ old = Trail(b)[k] /\ new = Trail(b)[k + 1]
  OBVIOUS
<1>5. /\ old.coins \in [Txid -> CCoins] /\ op.txid \in Txid /\ op.n \in Nat
      /\ new.nullifiers = old.nullifiers /\ new.coins = [old.coins EXCEPT ![op.txid] = left]
  <2>1. old.coins \in [Txid -> CCoins]
    BY <1>3, TrailStep
  <2> HIDE DEF op
  <2> QED
    BY <1>3, <1>4, <2>1, TrailSpend
<1>6. ViewCoins = old.coins /\ ViewNullifiers = old.nullifiers
  BY <1>2 DEF Connecting, ViewShows
<1>7. /\ op.n \in cc.outs /\ ModifyCoins(op.txid, left)
      /\ txundo' = Append(txundo, UndoHeight(cc, left)) /\ undo' = undo
  BY <1>3, <1>6 DEF ConnectSpend, LeftBy
<1>8. left \in CCoins /\ left = new.coins[op.txid]
  <2>1. cc \in CCoins /\ cc.outs \ {op.n} \in SUBSET cc.outs
    BY <1>5
  <2>2. left = MakeCoins(cc.outs \ {op.n}, cc.nHeight)
    BY DEF LeftBy
  <2> HIDE DEF cc, left
  <2>3. left \in CCoins
    BY <2>1, <2>2, LeftCoins
  <2> HIDE DEF old, op, new
  <2> QED
    BY <1>5, <2>3
<1>9. /\ CoinsInv' /\ UNCHANGED <<dbVars, tipLookups, phase>>
      /\ ViewNullifiers' = ViewNullifiers /\ ViewAnchors' = ViewAnchors
      /\ ViewBestAnchor' = ViewBestAnchor
      /\ ViewCoins' = [ViewCoins EXCEPT ![op.txid] = left]
  <2> HIDE DEF op, left
  <2>1. CoinsInv
    BY DEF MatchInv
  <2> QED
    BY <1>5, <1>7, <1>8, <2>1, ModifyCoinsStep
<1>10. StepOk(old, op)
  BY <1>3, <1>7 DEF StepOk
<1>11. txundo \in Seq(Nat)
  <2>1. PICK u : UndoTrail(b, k, u) /\ txundo = u[k]
    BY <1>2 DEF Connecting
  <2>2. k \in 0..k
    OBVIOUS
  <2> QED
    BY <2>1, <2>2 DEF UndoTrail
<1>12. UndoHeight(cc, left) \in Nat
  <2>1. cc \in CCoins /\ op.n \in cc.outs
    BY <1>5, <1>7
  <2> HIDE DEF cc, left, op
  <2> QED
    BY <2>1, UndoHeightType
<1>13. txundo' = UndoNext(b, k + 1, txundo) /\ txundo' \in Seq(Nat)
  <2>1. UndoNext(b, k + 1, txundo) =
           IF op.step = "spend"
           THEN Append(txundo, UndoHeight(Trail(b)[(k + 1) - 1].coins[op.txid], new.coins[op.txid]))
           ELSE txundo
    BY DEF UndoNext
  <2>2. (k + 1) - 1 = k
    OBVIOUS
  <2>3. UndoNext(b, k + 1, txundo) = Append(txundo, UndoHeight(cc, left))
    BY <1>3, <1>8, <2>1, <2>2
  <2> HIDE DEF cc, left
  <2> QED
    BY <1>7, <1>11, <1>12, <2>3
<1>14. \A x \in newTx' : ViewCoins'[x] = Pruned
  <2>1. newTx' = newTx
    BY <1>7 DEF ModifyCoins
  <2> SUFFICES ASSUME NEW x \in newTx PROVE ViewCoins'[x] = Pruned
    BY <2>1
  <2>2. ViewCoins[x] = Pruned /\ x \in Txid
    BY <1>2 DEF Connecting, MatchInv, CoinsInv, TypeOK
  <2>3. x # op.txid
    <3>1. Pruned.outs = {}
      BY TransactionAssumption
    <3> QED
      BY <1>6, <1>7, <2>2, <3>1
  <2>4. ViewCoins'[x] = ViewCoins[x]
    <3> HIDE DEF op, left
    <3> QED
      BY <1>5, <1>6, <1>9, <2>2, <2>3
  <2> QED
    BY <2>2, <2>4
<1> HIDE DEF op, old, new, cc, left
<1>15. ViewCoins' = new.coins /\ ViewNullifiers' = new.nullifiers
  BY <1>5, <1>6, <1>9
<1> QED
  BY <1>1, <1>2, <1>7, <1>9, <1>10, <1>13, <1>14, <1>15, ConnectAdvance DEF old, new, op

\* UpdateCoins sets a nullifier that was not spent.
LEMMA ConnectNullifierStep == ASSUME MatchInv, ConnectNullifier PROVE MatchInv'
<1>1. /\ phase = "open" /\ job.kind = "connect" /\ job.work # <<>>
      /\ Head(job.work).step = "nullifier" /\ job' = [job EXCEPT !.work = Tail(@)]
  BY DEF ConnectNullifier, Doing
<1>2. PICK b \in Block \ {Genesis}, k \in Nat : b = job.block /\ Connecting(b, k)
  BY <1>1, ConnectingAt
<1> DEFINE op  == BlockSteps(b)[k + 1]
           old == Trail(b)[k]
           new == Trail(b)[k + 1]
<1>3. k + 1 \in 1..Len(BlockSteps(b)) /\ Head(job.work) = op /\ op.step = "nullifier"
  BY <1>1, <1>2, ConnectWork
<1>4. op = BlockSteps(b)[k + 1] /\ old = Trail(b)[k] /\ new = Trail(b)[k + 1]
  OBVIOUS
<1>5. /\ op.nf \in Nullifier /\ new.coins = old.coins
      /\ new.nullifiers = [old.nullifiers EXCEPT ![op.nf] = TRUE]
  <2> HIDE DEF op
  <2> QED
    BY <1>3, <1>4, TrailNullifier
<1>6. ViewCoins = old.coins /\ ViewNullifiers = old.nullifiers
  BY <1>2 DEF Connecting, ViewShows
<1>7. /\ ~ViewNullifiers[op.nf] /\ SetNullifier(op.nf, TRUE) /\ txundo' = txundo /\ undo' = undo
  BY <1>3 DEF ConnectNullifier, MaySpend
<1>8. /\ CoinsInv' /\ UNCHANGED <<dbVars, tipLookups, phase>>
      /\ ViewCoins' = ViewCoins /\ ViewAnchors' = ViewAnchors /\ ViewBestAnchor' = ViewBestAnchor
      /\ ViewNullifiers' = [ViewNullifiers EXCEPT ![op.nf] = TRUE]
  <2> HIDE DEF op
  <2>1. CoinsInv
    BY DEF MatchInv
  <2> QED
    BY <1>5, <1>7, <2>1, SetNullifierStep
<1>9. StepOk(old, op)
  BY <1>3, <1>6, <1>7 DEF StepOk
<1>10. txundo \in Seq(Nat)
  <2>1. PICK u : UndoTrail(b, k, u) /\ txundo = u[k]
    BY <1>2 DEF Connecting
  <2>2. k \in 0..k
    OBVIOUS
  <2> QED
    BY <2>1, <2>2 DEF UndoTrail
<1>11. txundo' = UndoNext(b, k + 1, txundo) /\ txundo' \in Seq(Nat)
  BY <1>3, <1>7, <1>10 DEF UndoNext
<1>12. \A x \in newTx' : ViewCoins'[x] = Pruned
  <2>1. newTx' = newTx
    BY <1>7 DEF SetNullifier
  <2> QED
    BY <1>2, <1>8, <2>1 DEF Connecting
<1> HIDE DEF op, old, new
<1>13. ViewCoins' = new.coins /\ ViewNullifiers' = new.nullifiers
  BY <1>5, <1>6, <1>8
<1> QED
  BY <1>1, <1>2, <1>7, <1>8, <1>9, <1>11, <1>12, <1>13, ConnectAdvance DEF old, new, op

\* UpdateCoins adds a transaction that BIP30 allows.
LEMMA ConnectAddStep == ASSUME MatchInv, ConnectAdd PROVE MatchInv'
<1>1. /\ phase = "open" /\ job.kind = "connect" /\ job.work # <<>>
      /\ Head(job.work).step = "add" /\ job' = [job EXCEPT !.work = Tail(@)]
  BY DEF ConnectAdd, Doing
<1>2. PICK b \in Block \ {Genesis}, k \in Nat : b = job.block /\ Connecting(b, k)
  BY <1>1, ConnectingAt
<1> DEFINE op  == BlockSteps(b)[k + 1]
           old == Trail(b)[k]
           new == Trail(b)[k + 1]
           cc  == MakeCoins(op.vout, nHeight[b])
<1>3. k + 1 \in 1..Len(BlockSteps(b)) /\ Head(job.work) = op /\ op.step = "add"
  BY <1>1, <1>2, ConnectWork
<1>4. op = BlockSteps(b)[k + 1] /\ old = Trail(b)[k] /\ new = Trail(b)[k + 1]
  OBVIOUS
<1>5. /\ op.txid \in Txid /\ cc \in CCoins /\ new.nullifiers = old.nullifiers
      /\ new.coins = [old.coins EXCEPT ![op.txid] = cc]
  <2> HIDE DEF op
  <2> QED
    BY <1>3, <1>4, TrailAdd
<1>6. ViewCoins = old.coins /\ ViewNullifiers = old.nullifiers
  BY <1>2 DEF Connecting, ViewShows
<1>7. /\ ModifyNewCoins(op.txid, cc) /\ txundo' = txundo /\ undo' = undo
  BY <1>2, <1>3 DEF ConnectAdd
<1>8. /\ CoinsInv' /\ UNCHANGED <<dbVars, tipLookups, phase>>
      /\ ViewNullifiers' = ViewNullifiers /\ ViewAnchors' = ViewAnchors
      /\ ViewBestAnchor' = ViewBestAnchor
      /\ ViewCoins' = [ViewCoins EXCEPT ![op.txid] = cc]
  <2> HIDE DEF op, cc
  <2>1. CoinsInv
    BY DEF MatchInv
  <2> QED
    BY <1>5, <1>7, <2>1, ModifyNewCoinsStep
<1>9. op.txid \in newTx /\ newTx' = newTx \ {op.txid}
  BY <1>7 DEF ModifyNewCoins
<1>10. ViewCoins \in [Txid -> CCoins] /\ \A x \in newTx : ViewCoins[x] = Pruned /\ x \in Txid
  BY <1>2, LookupTypes DEF Connecting, MatchInv, CoinsInv, TypeOK
<1>11. StepOk(old, op)
  BY <1>3, <1>6, <1>9, <1>10 DEF StepOk
<1>12. txundo \in Seq(Nat)
  <2>1. PICK u : UndoTrail(b, k, u) /\ txundo = u[k]
    BY <1>2 DEF Connecting
  <2>2. k \in 0..k
    OBVIOUS
  <2> QED
    BY <2>1, <2>2 DEF UndoTrail
<1>13. txundo' = UndoNext(b, k + 1, txundo) /\ txundo' \in Seq(Nat)
  BY <1>3, <1>7, <1>12 DEF UndoNext
<1>14. \A x \in newTx' : ViewCoins'[x] = Pruned
  <2> HIDE DEF op, cc
  <2> QED
    BY <1>8, <1>9, <1>10
<1> HIDE DEF op, old, new, cc
<1>15. ViewCoins' = new.coins /\ ViewNullifiers' = new.nullifiers
  BY <1>5, <1>6, <1>8
<1> QED
  BY <1>1, <1>2, <1>7, <1>8, <1>11, <1>13, <1>14, <1>15, ConnectAdvance DEF old, new, op

\* Where no view is open any more.
LEMMA Resting ==
    ASSUME MatchInv, CoinsInv', LevelsInv', phase' # "open", DoneInv',
           job' = [kind |-> job'.kind, block |-> job'.block, work |-> job'.work], undo' = undo
    PROVE  MatchInv'
<1>1. JobTypes' /\ UndoInv'
  BY DEF MatchInv, JobTypes, UndoInv
<1>2. JobInv'
  BY DEF JobInv
<1> QED
  BY <1>1, <1>2 DEF MatchInv

\* The transactions of a block have ids.
LEMMA TxidsType ==
    ASSUME NEW b \in Block
    PROVE  Txids(b) \in SUBSET Txid
<1>1. vtx[b] \in Seq(Transaction)
  BY TransactionAssumption
<1>2. \A i \in DOMAIN vtx[b] : vtx[b][i] \in Transaction
  BY <1>1
<1>3. \A i \in DOMAIN vtx[b] : vtx[b][i].txid \in Txid
  BY <1>2 DEF Transaction
<1> QED
  BY <1>3 DEF Txids

\* ConnectBlock starts from a view that shows the parent's chain.
LEMMA StartConnectStep ==
    ASSUME MatchInv, NEW b \in Block, StartConnect(b)
    PROVE  MatchInv'
<1>1. /\ b \in Block \ {Genesis} /\ pprev[b] = TipBestBlock /\ Open(Txids(b)) /\ undo' = undo
      /\ job' = [kind |-> "connect", block |-> b, work |-> BlockSteps(b)] /\ txundo' = <<>>
  BY DEF StartConnect
<1>2. Txids(b) \in SUBSET Txid
  BY TxidsType
<1>3. /\ CoinsInv /\ CoinsInv' /\ UNCHANGED <<dbVars, tipLookups, viewLookups>>
      /\ viewLookups = tipLookups
  <2>1. CoinsInv /\ phase = "closed"
    BY <1>1 DEF MatchInv, Open
  <2> QED
    BY <1>1, <1>2, <2>1, OpenStep, ClosedViewSound
<1>4. phase' = "open" /\ newTx' = Txids(b) /\ \A x \in Txids(b) : TipCoins[x] = Pruned
  BY <1>1 DEF Open, MayAdd
<1>5. LevelsInv'
  BY <1>3, LevelsKept DEF MatchInv
<1>6. /\ TipBestBlock' = TipBestBlock /\ TipAnchors' = TipAnchors /\ TipBestAnchor' = TipBestAnchor
      /\ ViewCoins' = TipCoins /\ ViewNullifiers' = TipNullifiers
      /\ ViewAnchors' = TipAnchors /\ ViewBestAnchor' = TipBestAnchor
  BY <1>3 DEF tipLookups, viewLookups
<1>7. /\ TipCoins = Trail(b)[0].coins /\ TipNullifiers = Trail(b)[0].nullifiers
  BY <1>1, TrailIs DEF MatchInv, LevelsInv, Matches
<1>8. job'.kind = "connect" /\ job'.block = b /\ job'.work = BlockSteps(b)
  BY <1>1
<1>9. Len(BlockSteps(b)) \in Nat /\ SubSeq(BlockSteps(b), 1, Len(BlockSteps(b))) = BlockSteps(b)
  BY <1>1, BlockStepsType, SubSeqFull
<1>10. Connecting(b, 0)'
  <2>1. 0 \in 0..Len(BlockSteps(b)) /\ 0 + 1 = 1 /\ pprev[b] = TipBestBlock'
    BY <1>1, <1>6, <1>9
  <2>2. job'.work = SubSeq(BlockSteps(b), 0 + 1, Len(BlockSteps(b)))
    BY <1>8, <1>9, <2>1
  <2>3. ViewShows(b, 0)'
    BY <1>6, <1>7 DEF ViewShows
  <2>4. StepsOk(b, 0)'
    BY DEF StepsOk
  <2>5. (\E u : UndoTrail(b, 0, u) /\ txundo = u[0])'
    <3> DEFINE u == [j \in 0..0 |-> <<>>]
    <3>1. u \in [0..0 -> Seq(Nat)] /\ u[0] = <<>>
      OBVIOUS
    <3>2. UndoTrail(b, 0, u)'
      BY <3>1 DEF UndoTrail
    <3> HIDE DEF u
    <3> QED
      BY <1>1, <3>1, <3>2
  <2>6. (\A x \in newTx : ViewCoins[x] = Pruned)'
    BY <1>4, <1>6
  <2> QED
    BY <2>1, <2>2, <2>3, <2>4, <2>5, <2>6 DEF Connecting
<1>11. JobInv'
  BY <1>1, <1>8, <1>10 DEF JobInv
<1>12. DoneInv' /\ JobTypes' /\ UndoInv'
  BY <1>1, <1>4, <1>8 DEF MatchInv, DoneInv, JobTypes, UndoInv
<1> QED
  BY <1>3, <1>5, <1>11, <1>12 DEF MatchInv

\* A view that is thrown away leaves no trace.
LEMMA ConnectAbandonedStep == ASSUME MatchInv, ConnectAbandoned PROVE MatchInv'
<1>1. Discard /\ job' = Idle /\ undo' = undo /\ phase' = "closed"
  BY DEF ConnectAbandoned, Discard
<1>2. CoinsInv' /\ UNCHANGED <<dbVars, tipLookups>>
  BY <1>1, DiscardStep DEF MatchInv
<1>3. LevelsInv'
  BY <1>2, LevelsKept DEF MatchInv
<1>4. job' = [kind |-> job'.kind, block |-> job'.block, work |-> job'.work]
  BY <1>1 DEF Idle
<1>5. DoneInv'
  BY <1>1 DEF DoneInv
<1> QED
  BY <1>1, <1>2, <1>3, <1>4, <1>5, Resting

\* What ConnectBlock leaves in the view is the chain with the block on top.
LEMMA ConnectDoneStep == ASSUME MatchInv, ConnectDone PROVE MatchInv'
<1>1. phase = "open" /\ job.kind = "connect" /\ job.work = <<>> /\ UNCHANGED <<job, txundo>>
      /\ phase' = "done"
  BY DEF ConnectDone, FinishConnect
<1>2. PICK b \in Block \ {Genesis}, k \in Nat : b = job.block /\ Connecting(b, k)
  BY <1>1, ConnectingAt
<1> DEFINE N == Len(BlockSteps(b))
           rt == anchor[b]
<1>3. N \in Nat /\ k = N
  BY <1>1, <1>2, ConnectWork
<1>4. /\ FinishConnect(rt, b)
      /\ undo' = [undo EXCEPT ![b] = IF undo[b].written THEN undo[b]
                     ELSE [written |-> TRUE, vprevout |-> txundo, oldRoot |-> ViewBestAnchor]]
  BY <1>2 DEF ConnectDone
<1>5. /\ rt \in Root /\ pprev[b] \in Block /\ anchor[pprev[b]] \in StateAt[pprev[b]].anchors
      /\ StateAt[b] = Trail(b)[N] /\ StateAt[b].anchors = StateAt[pprev[b]].anchors \cup {rt}
  BY AnchorAssumption, TrailIs, StateType DEF StateFine
<1>6. /\ ViewCoins = Trail(b)[N].coins /\ ViewNullifiers = Trail(b)[N].nullifiers
      /\ ViewAnchors = TipAnchors /\ ViewBestAnchor = TipBestAnchor /\ pprev[b] = TipBestBlock
      /\ StepsOk(b, N) /\ \E u : UndoTrail(b, N, u) /\ txundo = u[N]
  BY <1>2, <1>3 DEF Connecting, ViewShows
<1>7. /\ CoinsInv' /\ UNCHANGED <<dbVars, tipLookups, ViewCoins, ViewNullifiers>>
      /\ ViewAnchors' = [a \in Root |-> IF a \in {rt} \ {ViewBestAnchor} THEN TRUE ELSE ViewAnchors[a]]
      /\ ViewBestAnchor' = rt /\ ViewBestBlock' = b
  <2> HIDE DEF rt
  <2>1. CoinsInv
    BY DEF MatchInv
  <2> QED
    BY <1>4, <1>5, <2>1, FinishConnectStep
<1>8. LevelsInv'
  BY <1>7, LevelsKept DEF MatchInv
<1>9. TipAnchors = [a \in Root |-> a \in StateAt[pprev[b]].anchors] /\ TipBestAnchor = anchor[pprev[b]]
  BY <1>6 DEF MatchInv, LevelsInv, Matches
<1>10. ViewAnchors' = [a \in Root |-> a \in StateAt[b].anchors]
  <2> SUFFICES ASSUME NEW a \in Root
               PROVE  (IF a \in {rt} \ {ViewBestAnchor} THEN TRUE ELSE ViewAnchors[a])
                         = (a \in StateAt[b].anchors)
    BY <1>7
  <2>1. ViewAnchors[a] = (a \in StateAt[pprev[b]].anchors)
    BY <1>6, <1>9
  <2>2. ViewBestAnchor \in StateAt[pprev[b]].anchors
    BY <1>5, <1>6, <1>9
  <2> HIDE DEF rt
  <2>3. CASE a \in {rt} \ {ViewBestAnchor}
    <3>1. a \in StateAt[b].anchors
      BY <1>5, <2>3
    <3> QED
      BY <2>3, <3>1
  <2>4. CASE ~(a \in {rt} \ {ViewBestAnchor})
    <3>1. a \in StateAt[b].anchors <=> a \in StateAt[pprev[b]].anchors
      BY <1>5, <2>2, <2>4
    <3>2. (a \in StateAt[b].anchors) = (a \in StateAt[pprev[b]].anchors)
      BY <3>1
    <3> QED
      BY <2>1, <2>4, <3>2
  <2> QED
    BY <2>3, <2>4
<1>11. DoneInv'
  <2>1. Matches(ViewCoins, ViewNullifiers, ViewAnchors, ViewBestAnchor, ViewBestBlock)'
    <3>1. /\ ViewCoins' = StateAt[b].coins /\ ViewNullifiers' = StateAt[b].nullifiers
      BY <1>5, <1>6, <1>7
    <3> QED
      BY <1>7, <1>10, <3>1 DEF Matches
  <2> QED
    BY <2>1 DEF DoneInv
<1>12. txundo \in Seq(Nat) /\ ViewBestAnchor \in Root
  <2>1. PICK u : UndoTrail(b, N, u) /\ txundo = u[N]
    BY <1>6
  <2>2. N \in 0..N /\ u \in [0..N -> Seq(Nat)]
    BY <1>3, <2>1 DEF UndoTrail
  <2>3. txundo \in Seq(Nat)
    BY <2>1, <2>2
  <2> QED
    BY <2>3, LookupTypes DEF MatchInv, CoinsInv
<1>13. JobTypes'
  BY <1>1, <1>4, <1>12 DEF MatchInv, JobTypes
<1>14. UndoInv'
  <2> SUFFICES ASSUME NEW c \in Block, undo'[c].written
               PROVE  /\ c # Genesis /\ undo'[c].oldRoot = anchor[pprev[c]]
                      /\ StepsOk(c, Len(BlockSteps(c)))
                      /\ \E u : /\ UndoTrail(c, Len(BlockSteps(c)), u)
                                /\ undo'[c].vprevout = u[Len(BlockSteps(c))]
    BY DEF UndoInv, StepsOk, StepOk, UndoTrail, UndoNext
  <2>1. CASE undo'[c] = undo[c]
    BY <2>1 DEF MatchInv, UndoInv
  <2>2. CASE undo'[c] # undo[c]
    <3>1. c = b /\ undo'[c] = [written |-> TRUE, vprevout |-> txundo, oldRoot |-> ViewBestAnchor]
      BY <1>4, <2>2 DEF MatchInv, JobTypes
    <3>2. undo'[c].vprevout = txundo /\ undo'[c].oldRoot = anchor[pprev[b]]
      BY <1>6, <1>9, <3>1
    <3> QED
      BY <1>2, <1>6, <3>1, <3>2
  <2> QED
    BY <2>1, <2>2
<1>15. JobInv'
  BY <1>1 DEF JobInv
<1> QED
  BY <1>7, <1>8, <1>11, <1>13, <1>14, <1>15 DEF MatchInv

-----------------------------------------------------------------------------
(* Disconnecting, step by step.                                             *)

\* Where DisconnectBlock is, and the step it takes back next.
LEMMA DisconnectWork ==
    ASSUME NEW b \in Block \ {Genesis}, NEW k \in Nat, Disconnecting(b, k)
    PROVE  /\ job.work = <<>> => k = 0
           /\ job.work # <<>> => \E m \in Nat :
                 /\ k = m + 1 /\ m + 1 \in 1..Len(BlockSteps(b))
                 /\ Head(job.work) = BlockSteps(b)[m + 1]
                 /\ Tail(job.work) = Reverse(SubSeq(BlockSteps(b), 1, m))
<1> DEFINE s == BlockSteps(b)
           w == job.work
<1>1. s \in Seq(StepsOf(b)) /\ Len(s) \in Nat
  BY BlockStepsType
<1>2. k \in 0..Len(s) /\ w = Reverse(SubSeq(s, 1, k))
  BY DEF Disconnecting
<1> HIDE DEF s, w
<1>3. /\ Len(w) = k
      /\ w # <<>> => /\ k > 0 /\ Head(w) = s[k]
                     /\ Tail(w) = Reverse(SubSeq(s, 1, k - 1))
  BY <1>1, <1>2, StepsToUndo
<1>4. w = <<>> => k = 0
  BY <1>3
<1>5. ASSUME w # <<>>
      PROVE  /\ k - 1 \in Nat /\ k = (k - 1) + 1 /\ (k - 1) + 1 \in 1..Len(s)
             /\ Head(w) = s[(k - 1) + 1] /\ Tail(w) = Reverse(SubSeq(s, 1, k - 1))
  <2>1. k - 1 \in Nat /\ k = (k - 1) + 1 /\ (k - 1) + 1 \in 1..Len(s)
    BY <1>1, <1>2, <1>3, <1>5
  <2> QED
    BY <1>3, <1>5, <2>1
<1> QED
  BY <1>4, <1>5 DEF s, w

\* The same, for whatever block is being disconnected.
LEMMA DisconnectingAt ==
    ASSUME MatchInv, phase = "open", job.kind = "disconnect", job.work # <<>>
    PROVE  \E b \in Block \ {Genesis}, m \in Nat :
              /\ b = job.block /\ Disconnecting(b, m + 1)
              /\ m + 1 \in 1..Len(BlockSteps(b))
              /\ Head(job.work) = BlockSteps(b)[m + 1]
              /\ Tail(job.work) = Reverse(SubSeq(BlockSteps(b), 1, m))
<1>1. PICK b \in Block \ {Genesis}, k \in Nat : b = job.block /\ Disconnecting(b, k)
  BY DEF MatchInv, JobInv
<1>2. PICK m \in Nat : /\ k = m + 1 /\ m + 1 \in 1..Len(BlockSteps(b))
                       /\ Head(job.work) = BlockSteps(b)[m + 1]
                       /\ Tail(job.work) = Reverse(SubSeq(BlockSteps(b), 1, m))
  BY <1>1, DisconnectWork
<1> QED
  BY <1>1, <1>2

\* The checks that the block being disconnected has passed.
LEMMA PassedStep ==
    ASSUME MatchInv, NEW b \in Block \ {Genesis}, NEW m \in Nat, Disconnecting(b, m + 1),
           m + 1 \in 1..Len(BlockSteps(b))
    PROVE  StepOk(Trail(b)[m], BlockSteps(b)[m + 1])
<1>1. StepsOk(b, Len(BlockSteps(b)))
  BY DEF Disconnecting, MatchInv, UndoInv
<1>2. (m + 1) - 1 = m
  OBVIOUS
<1> QED
  BY <1>1, <1>2 DEF StepsOk

\* The undo data that is left of a block, one step back.
LEMMA UndoBack ==
    ASSUME NEW b, NEW N \in Nat, NEW m \in Nat, m + 1 \in 1..N, NEW u, UndoTrail(b, N, u)
    PROVE  /\ u[m] \in Seq(Nat)
           /\ u[m + 1] = UndoNext(b, m + 1, u[m])
<1>1. m \in 0..N /\ (m + 1) - 1 = m
  OBVIOUS
<1> QED
  BY <1>1 DEF UndoTrail

\* Last and Front take Append apart.
LEMMA LastAppended ==
    ASSUME NEW s \in Seq(Nat), NEW h, NEW t, t = Append(s, h), h \in Nat
    PROVE  Last(t) = h /\ Front(t) = s
<1>1. Len(s) \in Nat /\ Len(t) = Len(s) + 1 /\ t[Len(s) + 1] = h
  OBVIOUS
<1>2. Last(t) = h
  BY <1>1 DEF Last
<1>3. t \in Seq(Nat) /\ \A i \in 1..Len(s) : t[i] = s[i]
  OBVIOUS
<1> DEFINE f == SubSeq(t, 1, Len(s))
<1>4. f \in Seq(Nat) /\ Len(f) = Len(s) /\ \A i \in 1..Len(s) : f[i] = s[i]
  BY <1>1, <1>3
<1>5. Front(t) = f
  <2>1. Len(t) - 1 = Len(s)
    BY <1>1
  <2> QED
    BY <2>1 DEF Front
<1> HIDE DEF f
<1>6. f = s
  BY <1>4, SeqEqual
<1> QED
  BY <1>2, <1>5, <1>6

\* A value that is put back undoes the change.
LEMMA PutBack ==
    ASSUME NEW X, NEW Y, NEW f \in [X -> Y], NEW x \in X, NEW y, NEW g,
           g = [f EXCEPT ![x] = y]
    PROVE  [g EXCEPT ![x] = f[x]] = f
OBVIOUS

\* One step back.
LEMMA DisconnectAdvance ==
    ASSUME MatchInv, phase = "open", job.kind = "disconnect",
           job' = [job EXCEPT !.work = Tail(@)],
           NEW b \in Block \ {Genesis}, b = job.block, NEW m \in Nat, Disconnecting(b, m + 1),
           m + 1 \in 1..Len(BlockSteps(b)),
           Tail(job.work) = Reverse(SubSeq(BlockSteps(b), 1, m)),
           CoinsInv', UNCHANGED <<dbVars, tipLookups, phase, undo>>,
           ViewAnchors' = ViewAnchors, ViewBestAnchor' = ViewBestAnchor,
           ViewCoins' = Trail(b)[m].coins, ViewNullifiers' = Trail(b)[m].nullifiers,
           \E u : UndoTrail(b, Len(BlockSteps(b)), u) /\ txundo' = u[m]
    PROVE  MatchInv'
<1>1. LevelsInv'
  BY LevelsKept DEF MatchInv
<1>2. phase' = "open" /\ undo' = undo /\ TipAnchors' = TipAnchors /\ TipBestAnchor' = TipBestAnchor
      /\ TipBestBlock' = TipBestBlock
  BY DEF tipLookups
<1>3. /\ job'.kind = "disconnect" /\ job'.block = b /\ job'.work = Tail(job.work)
      /\ job' = [kind |-> job'.kind, block |-> job'.block, work |-> job'.work]
  BY DEF MatchInv, JobTypes
<1>4. DoneInv' /\ JobTypes' /\ UndoInv'
  BY <1>2, <1>3 DEF MatchInv, DoneInv, JobTypes, UndoInv
<1>5. Disconnecting(b, m)'
  <2>1. m \in 0..Len(BlockSteps(b)) /\ b = TipBestBlock' /\ undo'[b].written
    <3>1. Len(BlockSteps(b)) \in Nat
      BY TrailIs
    <3> QED
      BY <1>2, <3>1 DEF Disconnecting
  <2>2. ViewShows(b, m)'
    BY <1>2 DEF Disconnecting, ViewShows
  <2>3. (\E u : UndoTrail(b, Len(BlockSteps(b)), u) /\ txundo = u[m])'
    BY DEF UndoTrail, UndoNext
  <2> QED
    BY <1>3, <2>1, <2>2, <2>3 DEF Disconnecting
<1>6. JobInv'
  BY <1>2, <1>3, <1>5 DEF JobInv
<1> QED
  BY <1>1, <1>4, <1>6 DEF MatchInv

\* DisconnectBlock starts from a view that shows the block's chain.
LEMMA StartDisconnectStep == ASSUME MatchInv, StartDisconnect PROVE MatchInv'
<1> DEFINE b == TipBestBlock
           N == Len(BlockSteps(b))
<1>1. /\ CoinsInv /\ b \in Block \ {Genesis} /\ undo[b].written /\ Open({}) /\ undo' = undo
      /\ job' = [kind |-> "disconnect", block |-> b, work |-> UndoSteps(b)]
      /\ txundo' = undo[b].vprevout /\ phase = "closed" /\ phase' = "open"
  BY LookupTypes DEF StartDisconnect, MatchInv, CoinsInv, Open
<1>2. CoinsInv' /\ UNCHANGED <<dbVars, tipLookups, viewLookups>> /\ viewLookups = tipLookups
  <2>1. {} \in SUBSET Txid
    OBVIOUS
  <2> QED
    BY <1>1, <2>1, OpenStep, ClosedViewSound
<1>3. LevelsInv'
  BY <1>2, LevelsKept DEF MatchInv
<1>4. /\ TipBestBlock' = TipBestBlock /\ TipAnchors' = TipAnchors /\ TipBestAnchor' = TipBestAnchor
      /\ ViewCoins' = TipCoins /\ ViewNullifiers' = TipNullifiers
      /\ ViewAnchors' = TipAnchors /\ ViewBestAnchor' = TipBestAnchor
  BY <1>2 DEF tipLookups, viewLookups
<1>5. TipCoins = StateAt[b].coins /\ TipNullifiers = StateAt[b].nullifiers
  BY DEF MatchInv, LevelsInv, Matches
<1>6. PICK c \in Block \ {Genesis} : c = b
  BY <1>1
<1> HIDE DEF b
<1>7. /\ N \in Nat /\ BlockSteps(c) \in Seq(StepsOf(c)) /\ StateAt[c] = Trail(c)[N]
      /\ N = Len(BlockSteps(c))
  BY <1>6, TrailIs
<1>8. UndoSteps(c) = Reverse(SubSeq(BlockSteps(c), 1, N))
  BY <1>7, SubSeqFull DEF UndoSteps
<1>9. \E u : UndoTrail(c, N, u) /\ txundo' = u[N]
  BY <1>1, <1>6, <1>7 DEF MatchInv, UndoInv
<1>10. job'.kind = "disconnect" /\ job'.block = c /\ job'.work = UndoSteps(c)
  BY <1>1, <1>6
<1>11. PICK n \in Nat : n = N
  BY <1>7
<1>12. Disconnecting(c, n)'
  <2>1. n \in 0..Len(BlockSteps(c)) /\ n = Len(BlockSteps(c))
    BY <1>7, <1>11
  <2>2. c = TipBestBlock' /\ undo'[c].written
    BY <1>1, <1>4, <1>6 DEF b
  <2>3. ViewShows(c, n)'
    BY <1>4, <1>5, <1>6, <1>7, <1>11 DEF ViewShows
  <2>4. (\E u : UndoTrail(c, Len(BlockSteps(c)), u) /\ txundo = u[n])'
    BY <1>9, <1>11, <2>1 DEF UndoTrail, UndoNext
  <2>5. job'.work = Reverse(SubSeq(BlockSteps(c), 1, n))
    BY <1>8, <1>10, <1>11
  <2> HIDE DEF N
  <2> QED
    BY <2>1, <2>2, <2>3, <2>4, <2>5 DEF Disconnecting
<1>13. JobInv'
  BY <1>10, <1>12 DEF JobInv
<1>14. DoneInv' /\ JobTypes' /\ UndoInv'
  BY <1>1, <1>10 DEF MatchInv, DoneInv, JobTypes, UndoInv
<1> QED
  BY <1>2, <1>3, <1>13, <1>14 DEF MatchInv

\* DisconnectBlock removes the outputs: there were none before the block.
LEMMA DisconnectAddStep == ASSUME MatchInv, DisconnectAdd PROVE MatchInv'
<1>1. /\ phase = "open" /\ job.kind = "disconnect" /\ job.work # <<>>
      /\ Head(job.work).step = "add" /\ job' = [job EXCEPT !.work = Tail(@)]
  BY DEF DisconnectAdd, Doing
<1>2. PICK b \in Block \ {Genesis}, m \in Nat :
         /\ b = job.block /\ Disconnecting(b, m + 1) /\ m + 1 \in 1..Len(BlockSteps(b))
         /\ Head(job.work) = BlockSteps(b)[m + 1]
         /\ Tail(job.work) = Reverse(SubSeq(BlockSteps(b), 1, m))
  BY <1>1, DisconnectingAt
<1> DEFINE op  == BlockSteps(b)[m + 1]
           old == Trail(b)[m]
           new == Trail(b)[m + 1]
<1>3. op = BlockSteps(b)[m + 1] /\ op.step = "add"
  BY <1>1, <1>2
<1>4. /\ op.txid \in Txid /\ old.coins \in [Txid -> CCoins] /\ new.nullifiers = old.nullifiers
      /\ new.coins = [old.coins EXCEPT ![op.txid] = MakeCoins(op.vout, nHeight[b])]
  <2>1. old.coins \in [Txid -> CCoins]
    BY <1>2, TrailStep
  <2> HIDE DEF op
  <2> QED
    BY <1>2, <1>3, <2>1, TrailAdd
<1>5. old.coins[op.txid] = Pruned
  BY <1>2, <1>3, PassedStep DEF StepOk
<1>6. ViewCoins = new.coins /\ ViewNullifiers = new.nullifiers
  BY <1>2 DEF Disconnecting, ViewShows
<1>7. ModifyCoins(op.txid, Pruned) /\ UNCHANGED <<txundo, undo>>
  BY <1>2 DEF DisconnectAdd
<1>8. /\ CoinsInv' /\ UNCHANGED <<dbVars, tipLookups, phase>>
      /\ ViewNullifiers' = ViewNullifiers /\ ViewAnchors' = ViewAnchors
      /\ ViewBestAnchor' = ViewBestAnchor
      /\ ViewCoins' = [ViewCoins EXCEPT ![op.txid] = Pruned]
  <2> HIDE DEF op
  <2>1. CoinsInv
    BY DEF MatchInv
  <2> QED
    BY <1>4, <1>7, <2>1, CoinsAssumption, ModifyCoinsStep
<1>9. ViewCoins' = old.coins /\ ViewNullifiers' = old.nullifiers
  <2> HIDE DEF op, old, new
  <2>1. [new.coins EXCEPT ![op.txid] = old.coins[op.txid]] = old.coins
    BY <1>4, PutBack
  <2> QED
    BY <1>4, <1>5, <1>6, <1>8, <2>1
<1>10. \E u : UndoTrail(b, Len(BlockSteps(b)), u) /\ txundo' = u[m]
  <2>1. PICK u : UndoTrail(b, Len(BlockSteps(b)), u) /\ txundo = u[m + 1]
    BY <1>2 DEF Disconnecting
  <2>2. Len(BlockSteps(b)) \in Nat
    BY TrailIs
  <2>3. u[m + 1] = UndoNext(b, m + 1, u[m])
    BY <1>2, <2>1, <2>2, UndoBack
  <2>4. u[m + 1] = u[m]
    BY <1>3, <2>3 DEF UndoNext
  <2> QED
    BY <1>7, <2>1, <2>4
<1> QED
  BY <1>1, <1>2, <1>7, <1>8, <1>9, <1>10, DisconnectAdvance

\* DisconnectBlock clears a nullifier: it was not spent before the block.
LEMMA DisconnectNullifierStep == ASSUME MatchInv, DisconnectNullifier PROVE MatchInv'
<1>1. /\ phase = "open" /\ job.kind = "disconnect" /\ job.work # <<>>
      /\ Head(job.work).step = "nullifier" /\ job' = [job EXCEPT !.work = Tail(@)]
  BY DEF DisconnectNullifier, Doing
<1>2. PICK b \in Block \ {Genesis}, m \in Nat :
         /\ b = job.block /\ Disconnecting(b, m + 1) /\ m + 1 \in 1..Len(BlockSteps(b))
         /\ Head(job.work) = BlockSteps(b)[m + 1]
         /\ Tail(job.work) = Reverse(SubSeq(BlockSteps(b), 1, m))
  BY <1>1, DisconnectingAt
<1> DEFINE op  == BlockSteps(b)[m + 1]
           old == Trail(b)[m]
           new == Trail(b)[m + 1]
<1>3. op = BlockSteps(b)[m + 1] /\ op.step = "nullifier"
  BY <1>1, <1>2
<1>4. /\ op.nf \in Nullifier /\ old.nullifiers \in [Nullifier -> BOOLEAN] /\ new.coins = old.coins
      /\ new.nullifiers = [old.nullifiers EXCEPT ![op.nf] = TRUE]
  <2>1. old.nullifiers \in [Nullifier -> BOOLEAN]
    BY <1>2, TrailStep
  <2> HIDE DEF op
  <2> QED
    BY <1>2, <1>3, <2>1, TrailNullifier
<1>5. old.nullifiers[op.nf] = FALSE
  <2>1. ~old.nullifiers[op.nf]
    BY <1>2, <1>3, PassedStep DEF StepOk
  <2>2. old.nullifiers[op.nf] \in BOOLEAN
    BY <1>4
  <2> QED
    BY <2>1, <2>2
<1>6. ViewCoins = new.coins /\ ViewNullifiers = new.nullifiers
  BY <1>2 DEF Disconnecting, ViewShows
<1>7. SetNullifier(op.nf, FALSE) /\ UNCHANGED <<txundo, undo>>
  BY <1>2 DEF DisconnectNullifier
<1>8. /\ CoinsInv' /\ UNCHANGED <<dbVars, tipLookups, phase>>
      /\ ViewCoins' = ViewCoins /\ ViewAnchors' = ViewAnchors /\ ViewBestAnchor' = ViewBestAnchor
      /\ ViewNullifiers' = [ViewNullifiers EXCEPT ![op.nf] = FALSE]
  <2> HIDE DEF op
  <2>1. CoinsInv
    BY DEF MatchInv
  <2> QED
    BY <1>4, <1>7, <2>1, SetNullifierStep
<1>9. ViewCoins' = old.coins /\ ViewNullifiers' = old.nullifiers
  <2> HIDE DEF op, old, new
  <2>1. [new.nullifiers EXCEPT ![op.nf] = old.nullifiers[op.nf]] = old.nullifiers
    BY <1>4, PutBack
  <2> QED
    BY <1>4, <1>5, <1>6, <1>8, <2>1
<1>10. \E u : UndoTrail(b, Len(BlockSteps(b)), u) /\ txundo' = u[m]
  <2>1. PICK u : UndoTrail(b, Len(BlockSteps(b)), u) /\ txundo = u[m + 1]
    BY <1>2 DEF Disconnecting
  <2>2. Len(BlockSteps(b)) \in Nat
    BY TrailIs
  <2>3. u[m + 1] = UndoNext(b, m + 1, u[m])
    BY <1>2, <2>1, <2>2, UndoBack
  <2>4. u[m + 1] = u[m]
    BY <1>3, <2>3 DEF UndoNext
  <2> QED
    BY <1>7, <2>1, <2>4
<1> QED
  BY <1>1, <1>2, <1>7, <1>8, <1>9, <1>10, DisconnectAdvance

\* A spent output finds the undo data that ConnectBlock left for it.
LEMMA SpentBack ==
    ASSUME MatchInv, NEW b \in Block \ {Genesis}, NEW m \in Nat, Disconnecting(b, m + 1),
           m + 1 \in 1..Len(BlockSteps(b)), NEW op, op = BlockSteps(b)[m + 1], op.step = "spend",
           NEW left, left = Trail(b)[m + 1].coins[op.txid],
           NEW cc, cc = Trail(b)[m].coins[op.txid]
    PROVE  /\ op.txid \in Txid /\ cc \in CCoins /\ ViewCoins[op.txid] = left
           /\ GivesBack(cc, op.n, left, Last(txundo))
           /\ \E u : UndoTrail(b, Len(BlockSteps(b)), u) /\ Front(txundo) = u[m]
<1>1. /\ op.txid \in Txid /\ op.n \in Nat
      /\ Trail(b)[m + 1].coins = [Trail(b)[m].coins EXCEPT ![op.txid] = LeftBy(Trail(b)[m].coins, op)]
  BY TrailSpend
<1>2. Trail(b)[m].coins \in [Txid -> CCoins]
  BY TrailStep
<1>3. /\ cc \in CCoins /\ left = LeftBy(Trail(b)[m].coins, op)
      /\ LeftBy(Trail(b)[m].coins, op) = MakeCoins(cc.outs \ {op.n}, cc.nHeight)
  <2>1. LeftBy(Trail(b)[m].coins, op) = MakeCoins(cc.outs \ {op.n}, cc.nHeight)
    BY DEF LeftBy
  <2> QED
    BY <1>1, <1>2, <2>1
<1>4. op.n \in cc.outs
  BY PassedStep DEF StepOk
<1>5. ViewCoins[op.txid] = left
  BY DEF Disconnecting, ViewShows
<1>6. PICK u : UndoTrail(b, Len(BlockSteps(b)), u) /\ txundo = u[m + 1]
  BY DEF Disconnecting
<1>7. Len(BlockSteps(b)) \in Nat
  BY TrailIs
<1>8. u[m] \in Seq(Nat) /\ u[m + 1] = UndoNext(b, m + 1, u[m])
  BY <1>6, <1>7, UndoBack
<1>9. (m + 1) - 1 = m
  OBVIOUS
<1>10. txundo = Append(u[m], UndoHeight(cc, left))
  BY <1>6, <1>8, <1>9 DEF UndoNext
<1> DEFINE h == UndoHeight(cc, left)
<1>11. h = UndoHeight(cc, left) /\ h \in Nat
  BY <1>3, <1>4, UndoHeightType
<1> HIDE DEF h
<1>12. Last(txundo) = h /\ Front(txundo) = u[m]
  <2>1. txundo = Append(u[m], h)
    BY <1>10, <1>11
  <2> QED
    BY <1>8, <1>11, <2>1, LastAppended
<1>13. GivesBack(cc, op.n, left, h)
  <2>1. left = MakeCoins(cc.outs \ {op.n}, cc.nHeight)
    BY <1>3
  <2>2. GivesBack(cc, op.n, MakeCoins(cc.outs \ {op.n}, cc.nHeight),
                  UndoHeight(cc, MakeCoins(cc.outs \ {op.n}, cc.nHeight)))
    BY <1>3, <1>4, UndoneSpend
  <2> QED
    BY <1>11, <2>1, <2>2
<1> QED
  BY <1>1, <1>3, <1>5, <1>6, <1>12, <1>13

\* ApplyTxInUndo restores the coins the output was spent from.
LEMMA DisconnectSpendStep == ASSUME MatchInv, DisconnectSpend PROVE MatchInv'
<1>1. /\ phase = "open" /\ job.kind = "disconnect" /\ job.work # <<>>
      /\ Head(job.work).step = "spend" /\ job' = [job EXCEPT !.work = Tail(@)]
  BY DEF DisconnectSpend, Doing
<1>2. PICK b \in Block \ {Genesis}, m \in Nat :
         /\ b = job.block /\ Disconnecting(b, m + 1) /\ m + 1 \in 1..Len(BlockSteps(b))
         /\ Head(job.work) = BlockSteps(b)[m + 1]
         /\ Tail(job.work) = Reverse(SubSeq(BlockSteps(b), 1, m))
  BY <1>1, DisconnectingAt
<1> DEFINE op   == BlockSteps(b)[m + 1]
           old  == Trail(b)[m]
           new  == Trail(b)[m + 1]
           cc   == old.coins[op.txid]
           left == new.coins[op.txid]
<1>3. op = BlockSteps(b)[m + 1] /\ op.step = "spend"
  BY <1>1, <1>2
<1>4. /\ old.coins \in [Txid -> CCoins] /\ new.nullifiers = old.nullifiers
      /\ new.coins = [old.coins EXCEPT ![op.txid] = LeftBy(old.coins, op)]
  <2>1. old.coins \in [Txid -> CCoins]
    BY <1>2, TrailStep
  <2> HIDE DEF op
  <2> QED
    BY <1>2, <1>3, <2>1, TrailSpend
<1>5. /\ op.txid \in Txid /\ cc \in CCoins /\ ViewCoins[op.txid] = left
      /\ GivesBack(cc, op.n, left, Last(txundo))
      /\ \E u : UndoTrail(b, Len(BlockSteps(b)), u) /\ Front(txundo) = u[m]
  <2>1. left = Trail(b)[m + 1].coins[op.txid] /\ cc = Trail(b)[m].coins[op.txid]
    OBVIOUS
  <2> HIDE DEF op, cc, left
  <2> QED
    BY <1>2, <1>3, <2>1, SpentBack
<1>6. ViewCoins = new.coins /\ ViewNullifiers = new.nullifiers
  BY <1>2 DEF Disconnecting, ViewShows
<1>7. ModifyCoins(op.txid, cc) /\ txundo' = Front(txundo) /\ undo' = undo
  <2>1. ModifyCoins(op.txid, IF Last(txundo) # 0 THEN MakeCoins({op.n}, Last(txundo))
                             ELSE MakeCoins(left.outs \cup {op.n}, left.nHeight))
        /\ txundo' = Front(txundo) /\ undo' = undo
    BY <1>2, <1>5 DEF DisconnectSpend
  <2> HIDE DEF op, cc, left
  <2>2. (IF Last(txundo) # 0 THEN MakeCoins({op.n}, Last(txundo))
         ELSE MakeCoins(left.outs \cup {op.n}, left.nHeight)) = cc
    BY <1>5 DEF GivesBack
  <2> QED
    BY <2>1, <2>2
<1>8. /\ CoinsInv' /\ UNCHANGED <<dbVars, tipLookups, phase>>
      /\ ViewNullifiers' = ViewNullifiers /\ ViewAnchors' = ViewAnchors
      /\ ViewBestAnchor' = ViewBestAnchor
      /\ ViewCoins' = [ViewCoins EXCEPT ![op.txid] = cc]
  <2> HIDE DEF op, cc
  <2>1. CoinsInv
    BY DEF MatchInv
  <2> QED
    BY <1>5, <1>7, <2>1, ModifyCoinsStep
<1>9. ViewCoins' = old.coins /\ ViewNullifiers' = old.nullifiers
  <2>1. cc = old.coins[op.txid]
    OBVIOUS
  <2> HIDE DEF op, old, new, cc
  <2>2. [new.coins EXCEPT ![op.txid] = old.coins[op.txid]] = old.coins
    BY <1>4, <1>5, PutBack
  <2> QED
    BY <1>4, <1>6, <1>8, <2>1, <2>2
<1>10. \E u : UndoTrail(b, Len(BlockSteps(b)), u) /\ txundo' = u[m]
  BY <1>5, <1>7
<1> QED
  BY <1>1, <1>2, <1>7, <1>8, <1>9, <1>10, DisconnectAdvance

\* What DisconnectBlock leaves in the view is the chain without the block.
LEMMA DisconnectDoneStep == ASSUME MatchInv, DisconnectDone PROVE MatchInv'
<1>1. /\ phase = "open" /\ job.kind = "disconnect" /\ job.work = <<>>
      /\ UNCHANGED <<job, undo>> /\ phase' = "done"
  BY DEF DisconnectDone, FinishDisconnect, jobVars
<1>2. PICK b \in Block \ {Genesis}, k \in Nat : b = job.block /\ Disconnecting(b, k)
  BY <1>1 DEF MatchInv, JobInv
<1>3. k = 0
  BY <1>1, <1>2, DisconnectWork
<1> DEFINE p == pprev[b]
           rt == anchor[p]
<1>4. /\ p \in Block /\ rt \in Root /\ StateFine(p)
      /\ StateAt[b].anchors = StateAt[p].anchors \cup {anchor[b]}
      /\ Trail(b)[0].coins = StateAt[p].coins /\ Trail(b)[0].nullifiers = StateAt[p].nullifiers
  BY TrailIs, StateType, AnchorAssumption
<1>5. FinishDisconnect(rt, p)
  BY <1>2 DEF DisconnectDone, Disconnecting, MatchInv, UndoInv
<1>6. /\ ViewCoins = StateAt[p].coins /\ ViewNullifiers = StateAt[p].nullifiers
      /\ ViewAnchors = TipAnchors /\ ViewBestAnchor = TipBestAnchor /\ b = TipBestBlock
  BY <1>2, <1>3, <1>4 DEF Disconnecting, ViewShows
<1>7. TipAnchors = [a \in Root |-> a \in StateAt[b].anchors] /\ TipBestAnchor = anchor[b]
  BY <1>6 DEF MatchInv, LevelsInv, Matches
<1>8. /\ CoinsInv' /\ UNCHANGED <<dbVars, tipLookups, ViewCoins, ViewNullifiers>>
      /\ ViewAnchors' = [a \in Root |-> IF a \in {ViewBestAnchor} \ {rt} THEN FALSE ELSE ViewAnchors[a]]
      /\ ViewBestAnchor' = rt /\ ViewBestBlock' = p
  <2>1. CoinsInv
    BY DEF MatchInv
  <2> HIDE DEF p, rt
  <2> QED
    BY <1>4, <1>5, <2>1, FinishDisconnectStep
<1>9. ViewAnchors' = [a \in Root |-> a \in StateAt[p].anchors]
  <2> SUFFICES ASSUME NEW a \in Root
               PROVE  (IF a \in {ViewBestAnchor} \ {rt} THEN FALSE ELSE ViewAnchors[a])
                         = (a \in StateAt[p].anchors)
    BY <1>8
  <2>1. ViewAnchors[a] = (a \in StateAt[b].anchors) /\ ViewBestAnchor = anchor[b]
    BY <1>6, <1>7
  <2>2. rt \in StateAt[p].anchors
    BY <1>4 DEF StateFine
  <2>3. CASE a \in {ViewBestAnchor} \ {rt}
    <3>1. a \notin StateAt[p].anchors
      BY <2>1, <2>3, NewAnchor
    <3>2. (a \in StateAt[p].anchors) = FALSE
      BY <3>1
    <3> QED
      BY <2>3, <3>2, Zenon
  <2>4. CASE ~(a \in {ViewBestAnchor} \ {rt})
    <3> HIDE DEF rt, p
    <3>1. a \in StateAt[b].anchors <=> a \in StateAt[p].anchors
      BY <1>4, <2>1, <2>2, <2>4
    <3>2. (a \in StateAt[b].anchors) = (a \in StateAt[p].anchors)
      BY <3>1
    <3> QED
      BY <2>1, <2>4, <3>2
  <2> QED
    BY <2>3, <2>4
<1>10. LevelsInv'
  BY <1>8, LevelsKept DEF MatchInv
<1>11. DoneInv'
  <2>1. Matches(ViewCoins, ViewNullifiers, ViewAnchors, ViewBestAnchor, ViewBestBlock)'
    <3>1. /\ ViewCoins' = StateAt[p].coins /\ ViewNullifiers' = StateAt[p].nullifiers
      BY <1>6, <1>8
    <3> QED
      BY <1>8, <1>9, <3>1 DEF Matches
  <2> QED
    BY <2>1 DEF DoneInv
<1>12. job' = [kind |-> job'.kind, block |-> job'.block, work |-> job'.work]
  BY <1>1 DEF MatchInv, JobTypes
<1> QED
  BY <1>1, <1>8, <1>10, <1>11, <1>12, Resting

-----------------------------------------------------------------------------
(* Around the blocks.                                                       *)

\* A step that changes no lookup, such as a read.
LEMMA NothingShown ==
    ASSUME MatchInv, CoinsInv', UNCHANGED <<dbVars, tipLookups, viewLookups, phase, newTx, jobVars>>
    PROVE  MatchInv'
<1>1. LevelsInv'
  BY LevelsKept DEF MatchInv
<1>2. /\ phase' = phase /\ newTx' = newTx /\ job' = job /\ txundo' = txundo /\ undo' = undo
      /\ TipAnchors' = TipAnchors /\ TipBestAnchor' = TipBestAnchor /\ TipBestBlock' = TipBestBlock
      /\ ViewCoins' = ViewCoins /\ ViewNullifiers' = ViewNullifiers /\ ViewAnchors' = ViewAnchors
      /\ ViewBestAnchor' = ViewBestAnchor /\ ViewBestBlock' = ViewBestBlock
  BY DEF jobVars, tipLookups, viewLookups
<1>3. DoneInv'
  BY <1>2 DEF MatchInv, DoneInv, Matches
<1>4. JobTypes' /\ UndoInv'
  BY <1>2 DEF MatchInv, JobTypes, UndoInv
<1>5. JobInv'
  <2> SUFFICES ASSUME phase = "open"
               PROVE  \E b \in Block \ {Genesis}, k \in Nat :
                         /\ job'.block = b
                         /\ \/ job'.kind = "connect" /\ Connecting(b, k)'
                            \/ job'.kind = "disconnect" /\ Disconnecting(b, k)'
    BY <1>2 DEF JobInv
  <2>1. PICK b \in Block \ {Genesis}, k \in Nat :
           /\ job.block = b
           /\ \/ job.kind = "connect" /\ Connecting(b, k)
              \/ job.kind = "disconnect" /\ Disconnecting(b, k)
    BY DEF MatchInv, JobInv
  <2>2. Connecting(b, k)' = Connecting(b, k) /\ Disconnecting(b, k)' = Disconnecting(b, k)
    BY <1>2 DEF Connecting, Disconnecting, ViewShows
  <2> QED
    BY <1>2, <2>1, <2>2
<1> QED
  BY <1>1, <1>3, <1>4, <1>5 DEF MatchInv

\* view.Flush() makes pcoinsTip show the finished block.
LEMMA FlushViewStep == ASSUME MatchInv, FlushView PROVE MatchInv'
<1>1. Flush /\ job' = Idle /\ undo' = undo /\ phase = "done" /\ phase' = "closed"
  BY DEF FlushView, Flush
<1>2. CoinsInv' /\ UNCHANGED dbVars /\ tipLookups' = viewLookups
  BY <1>1, FlushStep DEF MatchInv
<1>3. LevelsInv'
  <2>1. UNCHANGED <<dbCoins, dbNullifiers, dbAnchors, dbBestAnchor, dbBestBlock>>
    BY <1>2 DEF dbVars
  <2>2. /\ TipCoins' = ViewCoins /\ TipNullifiers' = ViewNullifiers /\ TipAnchors' = ViewAnchors
        /\ TipBestAnchor' = ViewBestAnchor /\ TipBestBlock' = ViewBestBlock
    BY <1>2 DEF tipLookups, viewLookups
  <2> QED
    BY <1>1, <2>1, <2>2 DEF MatchInv, DoneInv, LevelsInv, Matches
<1>4. job' = [kind |-> job'.kind, block |-> job'.block, work |-> job'.work]
  BY <1>1 DEF Idle
<1>5. DoneInv'
  BY <1>1 DEF DoneInv
<1> QED
  BY <1>1, <1>2, <1>3, <1>4, <1>5, Resting

\* Reads change no lookup; pcoinsTip->Flush() writes what it shows.
LEMMA BackgroundStep == ASSUME MatchInv, Background PROVE MatchInv'
<1>1. CoinsInv /\ UNCHANGED jobVars
  BY DEF MatchInv, Background
<1>2. ASSUME NEW x \in Txid, TipAccessCoins(x) \/ Uncache(x) \/ ViewAccessCoins(x)
      PROVE  MatchInv'
  <2>1. newTx' = newTx
    BY <1>2 DEF TipAccessCoins, Uncache, ViewAccessCoins
  <2>2. CoinsInv' /\ UNCHANGED <<dbVars, tipLookups, viewLookups, phase>>
    BY <1>1, <1>2, TipAccessCoinsStep, UncacheStep, ViewAccessCoinsStep
  <2> QED
    BY <1>1, <2>1, <2>2, NothingShown
<1>3. ASSUME NEW n \in Nullifier, NEW rt \in Root, TipGetShielded(n, rt) \/ ViewGetShielded(n, rt)
      PROVE  MatchInv'
  <2>1. newTx' = newTx
    BY <1>3 DEF TipGetShielded, ViewGetShielded
  <2>2. CoinsInv' /\ UNCHANGED <<dbVars, tipLookups, viewLookups, phase>>
    BY <1>1, <1>3, TipGetShieldedStep, ViewGetShieldedStep
  <2> QED
    BY <1>1, <2>1, <2>2, NothingShown
<1>4. CASE FlushTip
  <2>1. CoinsInv' /\ dbLookups' = tipLookups /\ UNCHANGED tipLookups
    BY <1>1, <1>4, FlushTipStep
  <2>2. LevelsInv'
    <3>1. /\ TipCoins' = TipCoins /\ TipNullifiers' = TipNullifiers /\ TipAnchors' = TipAnchors
          /\ TipBestAnchor' = TipBestAnchor /\ TipBestBlock' = TipBestBlock
      BY <2>1 DEF tipLookups
    <3>2. /\ dbCoins' = TipCoins /\ dbNullifiers' = TipNullifiers /\ dbAnchors' = TipAnchors
          /\ dbBestAnchor' = TipBestAnchor /\ dbBestBlock' = TipBestBlock
      BY <2>1 DEF tipLookups, dbLookups
    <3> QED
      BY <3>1, <3>2 DEF MatchInv, LevelsInv, Matches
  <2>3. phase' = "closed" /\ job' = job /\ undo' = undo
    BY <1>1, <1>4 DEF FlushTip, jobVars
  <2>4. DoneInv' /\ job' = [kind |-> job'.kind, block |-> job'.block, work |-> job'.work]
    BY <2>3 DEF DoneInv, MatchInv, JobTypes
  <2> QED
    BY <2>1, <2>2, <2>3, <2>4, Resting
<1> QED
  BY <1>2, <1>3, <1>4 DEF Background

\* After a restart pcoinsTip shows the database.
LEMMA RestartStep == ASSUME MatchInv, Restart PROVE MatchInv'
<1>1. Crash /\ job' = Idle /\ undo' = undo /\ phase' = "closed"
  BY DEF Restart, Crash
<1>2. CoinsInv' /\ UNCHANGED dbVars /\ tipLookups' = dbLookups
  BY <1>1, CrashStep DEF MatchInv
<1>3. LevelsInv'
  <2>1. UNCHANGED <<dbCoins, dbNullifiers, dbAnchors, dbBestAnchor, dbBestBlock>>
    BY <1>2 DEF dbVars
  <2>2. /\ TipCoins' = dbCoins /\ TipNullifiers' = dbNullifiers /\ TipAnchors' = dbAnchors
        /\ TipBestAnchor' = dbBestAnchor /\ TipBestBlock' = dbBestBlock
    BY <1>2 DEF tipLookups, dbLookups
  <2> QED
    BY <2>1, <2>2 DEF MatchInv, LevelsInv, Matches
<1>4. job' = [kind |-> job'.kind, block |-> job'.block, work |-> job'.work]
  BY <1>1 DEF Idle
<1>5. DoneInv'
  BY <1>1 DEF DoneInv
<1> QED
  BY <1>1, <1>2, <1>3, <1>4, <1>5, Resting

\* A new database holds the chain of genesis.
LEMMA ChainInitSound == ASSUME ChainInit PROVE MatchInv
<1>1. CoinsInv /\ tipLookups = dbLookups
  BY InitSound DEF ChainInit
<1>2. /\ StateAt[Genesis] = GenesisState /\ Genesis \in Block
  BY StateIs, CoinsAssumption DEF StateBody
<1>3. Matches(dbCoins, dbNullifiers, dbAnchors, dbBestAnchor, dbBestBlock)
  <2>1. /\ dbCoins = [x \in Txid |-> Pruned] /\ dbNullifiers = [n \in Nullifier |-> FALSE]
        /\ dbAnchors = [rt \in Root |-> rt = EmptyRoot] /\ dbBestAnchor = EmptyRoot
        /\ dbBestBlock = Genesis
    BY DEF ChainInit, Init
  <2>2. /\ StateAt[Genesis].coins = [x \in Txid |-> Pruned]
        /\ StateAt[Genesis].nullifiers = [n \in Nullifier |-> FALSE]
        /\ StateAt[Genesis].anchors = {EmptyRoot}
    BY <1>2 DEF GenesisState
  <2>3. dbAnchors = [rt \in Root |-> rt \in StateAt[Genesis].anchors]
    BY <2>1, <2>2
  <2> QED
    BY <2>1, <2>2, <2>3, AnchorAssumption DEF Matches
<1>4. LevelsInv
  BY <1>1, <1>3 DEF LevelsInv, tipLookups, dbLookups
<1>5. phase = "closed" /\ job = Idle /\ undo = [b \in Block |-> NoUndo]
  BY DEF ChainInit, Init
<1>6. JobTypes
  BY <1>5, CoinsAssumption DEF JobTypes, Idle, NoUndo
<1>7. UndoInv
  BY <1>5 DEF UndoInv, NoUndo
<1>8. JobInv /\ DoneInv
  BY <1>5 DEF JobInv, DoneInv
<1> QED
  BY <1>1, <1>4, <1>6, <1>7, <1>8 DEF MatchInv

\* The inductive invariant of the chain's coins.
THEOREM MatchInvariant == ChainSpec => []MatchInv
<1>1. ChainInit => MatchInv
  BY ChainInitSound
<1>2. MatchInv /\ [ChainNext]_vars => MatchInv'
  <2> SUFFICES ASSUME MatchInv, [ChainNext]_vars PROVE MatchInv'
    OBVIOUS
  <2>1. CASE UNCHANGED vars
    <3>1. UNCHANGED <<coinsVars, jobVars>>
      BY <2>1 DEF vars
    <3>2. CoinsInv'
      BY <3>1 DEF MatchInv, CoinsInv, TypeOK, FlagsSound, PhaseConsistent, coinsVars, dbVars,
                  tipVars, viewVars, TipCoins, TipNullifiers, TipAnchors
    <3>3. UNCHANGED <<dbVars, tipLookups, viewLookups, phase, newTx, jobVars>>
      BY <3>1 DEF coinsVars, dbVars, tipVars, viewVars, tipLookups, viewLookups, TipCoins,
                  TipNullifiers, TipAnchors, TipBestAnchor, TipBestBlock, ViewCoins,
                  ViewNullifiers, ViewAnchors, ViewBestAnchor, ViewBestBlock
    <3> QED
      BY <3>2, <3>3, NothingShown
  <2>2. ASSUME NEW b \in Block, StartConnect(b) PROVE MatchInv'
    BY <2>2, StartConnectStep
  <2>3. CASE ConnectSpend \/ ConnectNullifier \/ ConnectAdd
    BY <2>3, ConnectSpendStep, ConnectNullifierStep, ConnectAddStep
  <2>4. CASE ConnectDone \/ ConnectAbandoned
    BY <2>4, ConnectDoneStep, ConnectAbandonedStep
  <2>5. CASE StartDisconnect
    BY <2>5, StartDisconnectStep
  <2>6. CASE DisconnectAdd \/ DisconnectNullifier \/ DisconnectSpend
    BY <2>6, DisconnectAddStep, DisconnectNullifierStep, DisconnectSpendStep
  <2>7. CASE DisconnectDone
    BY <2>7, DisconnectDoneStep
  <2>8. CASE FlushView
    BY <2>8, FlushViewStep
  <2>9. CASE Background
    BY <2>9, BackgroundStep
  <2>10. CASE Restart
    BY <2>10, RestartStep
  <2> QED
    BY <2>1, <2>2, <2>3, <2>4, <2>5, <2>6, <2>7, <2>8, <2>9, <2>10 DEF ChainNext
<1> QED
  BY <1>1, <1>2, PTL DEF ChainSpec

\* Whatever blocks are connected, disconnected, tested and abandoned, and whatever is
\* read, flushed or lost in between, pcoinsTip shows between blocks exactly the coins,
\* nullifiers and anchors of its best block's chain: for every block tree.
THEOREM TipAlwaysMatchesChain == ChainSpec => []TipMatchesChain
<1>1. MatchInv => TipMatchesChain
  BY DEF MatchInv, LevelsInv, TipMatchesChain
<1> QED
  BY <1>1, MatchInvariant, PTL

\* What DisconnectBlock checks, from the inductive invariant.
LEMMA CleanUndo == ASSUME MatchInv PROVE DisconnectClean
<1> SUFFICES ASSUME job.kind = "disconnect", phase = "open"
             PROVE  /\ job.work = <<>> => ViewAnchors[ViewBestAnchor]
                    /\ job.work # <<>> =>
                        LET op == Head(job.work)
                        IN  /\ op.step = "add" =>
                                  ViewCoins[op.txid] = MakeCoins(op.vout, nHeight[job.block])
                            /\ op.step = "spend" =>
                                  /\ Last(txundo) # 0 <=> ViewCoins[op.txid] = Pruned
                                  /\ op.n \notin ViewCoins[op.txid].outs
  BY DEF DisconnectClean
<1>1. ViewAnchors[ViewBestAnchor]
  <2>1. PICK b \in Block \ {Genesis}, k \in Nat : Disconnecting(b, k)
    BY DEF MatchInv, JobInv
  <2>2. /\ ViewAnchors = [rt \in Root |-> rt \in StateAt[b].anchors] /\ ViewBestAnchor = anchor[b]
    BY <2>1 DEF Disconnecting, ViewShows, MatchInv, LevelsInv, Matches
  <2>3. anchor[b] \in Root /\ anchor[b] \in StateAt[b].anchors
    BY AnchorAssumption, StateType DEF StateFine
  <2> QED
    BY <2>2, <2>3
<1>2. ASSUME job.work # <<>>, NEW op, op = Head(job.work)
      PROVE  /\ op.step = "add" => ViewCoins[op.txid] = MakeCoins(op.vout, nHeight[job.block])
             /\ op.step = "spend" =>
                   /\ Last(txundo) # 0 <=> ViewCoins[op.txid] = Pruned
                   /\ op.n \notin ViewCoins[op.txid].outs
  <2>1. PICK b \in Block \ {Genesis}, m \in Nat :
           /\ b = job.block /\ Disconnecting(b, m + 1) /\ m + 1 \in 1..Len(BlockSteps(b))
           /\ Head(job.work) = BlockSteps(b)[m + 1]
    BY <1>2, DisconnectingAt
  <2>2. op = BlockSteps(b)[m + 1]
    BY <1>2, <2>1
  <2>3. ASSUME op.step = "add" PROVE ViewCoins[op.txid] = MakeCoins(op.vout, nHeight[job.block])
    <3>1. /\ op.txid \in Txid
          /\ Trail(b)[m + 1].coins =
                [Trail(b)[m].coins EXCEPT ![op.txid] = MakeCoins(op.vout, nHeight[b])]
      BY <2>1, <2>2, <2>3, TrailAdd
    <3>2. Trail(b)[m].coins \in [Txid -> CCoins]
      BY <2>1, TrailStep
    <3>3. ViewCoins = Trail(b)[m + 1].coins
      BY <2>1 DEF Disconnecting, ViewShows
    <3> QED
      BY <2>1, <3>1, <3>2, <3>3
  <2>4. ASSUME op.step = "spend"
        PROVE  /\ Last(txundo) # 0 <=> ViewCoins[op.txid] = Pruned
               /\ op.n \notin ViewCoins[op.txid].outs
    <3> DEFINE left == Trail(b)[m + 1].coins[op.txid]
               cc   == Trail(b)[m].coins[op.txid]
    <3>1. left = Trail(b)[m + 1].coins[op.txid] /\ cc = Trail(b)[m].coins[op.txid]
      OBVIOUS
    <3> HIDE DEF left, cc
    <3>2. ViewCoins[op.txid] = left /\ GivesBack(cc, op.n, left, Last(txundo))
      BY <2>1, <2>2, <2>4, <3>1, SpentBack
    <3> QED
      BY <3>2 DEF GivesBack
  <2> QED
    BY <2>3, <2>4
<1> QED
  BY <1>1, <1>2

\* DisconnectBlock never finds the view at odds with the block or its undo data, so
\* DisconnectTip never fails on DISCONNECT_UNCLEAN: for every block tree.
THEOREM DisconnectAlwaysClean == ChainSpec => []DisconnectClean
<1>1. MatchInv => DisconnectClean
  BY CleanUndo
<1> QED
  BY <1>1, MatchInvariant, PTL

-----------------------------------------------------------------------------
(* ConnectBlock and DisconnectBlock use the caches as CoinsCache allows.    *)

\* The step that is made or taken back next is one of the block's.
LEMMA NextStep ==
    ASSUME MatchInv, phase = "open", job.work # <<>>
    PROVE  \E b \in Block \ {Genesis} : b = job.block /\ Head(job.work) \in StepsOf(b)
<1>1. PICK b \in Block \ {Genesis}, k \in Nat :
         /\ job.block = b
         /\ \/ job.kind = "connect" /\ Connecting(b, k)
            \/ job.kind = "disconnect" /\ Disconnecting(b, k)
  BY DEF MatchInv, JobInv
<1>2. \E i \in 1..Len(BlockSteps(b)) : Head(job.work) = BlockSteps(b)[i]
  BY <1>1, ConnectWork, DisconnectWork
<1> QED
  BY <1>1, <1>2, TrailIs

\* Every step of the chain is one of the caches, or leaves them alone.
LEMMA ChainStepOfCoins ==
    ASSUME MatchInv, ChainNext
    PROVE  Next
<1>1. TypeOK /\ ViewCoins \in [Txid -> CCoins]
  BY LookupTypes DEF MatchInv, CoinsInv
<1>2. ASSUME NEW b \in Block, StartConnect(b) PROVE Next
  <2>1. Txids(b) \in SUBSET Txid /\ Open(Txids(b))
    BY <1>2, TxidsType DEF StartConnect
  <2> QED
    BY <2>1 DEF Next
<1>3. ASSUME NEW x \in Txid, NEW c \in CCoins, ModifyCoins(x, c) PROVE Next
  BY <1>3 DEF Next
<1>4. ASSUME NEW n \in Nullifier, NEW spent \in BOOLEAN, SetNullifier(n, spent) PROVE Next
  BY <1>4 DEF Next
<1>5. CASE ConnectSpend
  <2> DEFINE op == Head(job.work)
             cc == ViewCoins[op.txid]
             left == MakeCoins(cc.outs \ {op.n}, cc.nHeight)
  <2>1. op.step = "spend" /\ phase = "open" /\ job.work # <<>> /\ ModifyCoins(op.txid, left)
    BY <1>5 DEF ConnectSpend, Doing
  <2>2. op.txid \in Txid
    <3>1. PICK b \in Block : op \in StepsOf(b)
      BY <2>1, NextStep
    <3> HIDE DEF op
    <3> QED
      BY <2>1, <3>1 DEF StepsOf, Spends, Nullifies, Adds
  <2>3. cc \in CCoins /\ cc.outs \ {op.n} \in SUBSET cc.outs
    BY <1>1, <2>2
  <2>4. left \in CCoins
    <3> HIDE DEF cc
    <3> QED
      BY <2>3, LeftCoins
  <2> HIDE DEF op, left
  <2> QED
    BY <1>3, <2>1, <2>2, <2>4
<1>6. CASE ConnectNullifier \/ DisconnectNullifier
  <2> DEFINE op == Head(job.work)
  <2>1. /\ op.step = "nullifier" /\ phase = "open" /\ job.work # <<>>
        /\ SetNullifier(op.nf, TRUE) \/ SetNullifier(op.nf, FALSE)
    BY <1>6 DEF ConnectNullifier, DisconnectNullifier, Doing
  <2>2. op.nf \in Nullifier
    <3>1. PICK b \in Block : op \in StepsOf(b)
      BY <2>1, NextStep
    <3> HIDE DEF op
    <3> QED
      BY <2>1, <3>1 DEF StepsOf, Spends, Nullifies, Adds
  <2> HIDE DEF op
  <2> QED
    BY <1>4, <2>1, <2>2
<1>7. CASE ConnectAdd \/ DisconnectAdd
  <2> DEFINE op == Head(job.work)
             cc == MakeCoins(op.vout, nHeight[job.block])
  <2>1. /\ op.step = "add" /\ phase = "open" /\ job.work # <<>>
        /\ ModifyNewCoins(op.txid, cc) \/ ModifyCoins(op.txid, Pruned)
    BY <1>7 DEF ConnectAdd, DisconnectAdd, Doing
  <2>2. op.txid \in Txid /\ cc \in CCoins
    <3>1. PICK b \in Block \ {Genesis} : b = job.block /\ op \in StepsOf(b)
      BY <2>1, NextStep
    <3>2. op \in Adds(b)
      <4> HIDE DEF op
      <4> QED
        BY <2>1, <3>1 DEF StepsOf, Spends, Nullifies
    <3>3. op.txid \in Txid /\ op.vout \in {vtx[b][i].vout : i \in DOMAIN vtx[b]}
      <4> HIDE DEF op
      <4> QED
        BY <3>2 DEF Adds
    <3> HIDE DEF op
    <3> QED
      BY <3>1, <3>3, TransactionAssumption
  <2> HIDE DEF op, cc
  <2> QED
    BY <1>3, <2>1, <2>2, CoinsAssumption DEF Next
<1>8. CASE DisconnectSpend
  <2>1. /\ phase = "open" /\ job.kind = "disconnect" /\ job.work # <<>>
        /\ Head(job.work).step = "spend"
    BY <1>8 DEF DisconnectSpend, Doing
  <2>2. PICK b \in Block \ {Genesis}, m \in Nat :
           /\ b = job.block /\ Disconnecting(b, m + 1) /\ m + 1 \in 1..Len(BlockSteps(b))
           /\ Head(job.work) = BlockSteps(b)[m + 1]
    BY <2>1, DisconnectingAt
  <2> DEFINE op   == BlockSteps(b)[m + 1]
             cc   == Trail(b)[m].coins[op.txid]
             left == Trail(b)[m + 1].coins[op.txid]
  <2>3. /\ op = BlockSteps(b)[m + 1] /\ op.step = "spend"
        /\ cc = Trail(b)[m].coins[op.txid] /\ left = Trail(b)[m + 1].coins[op.txid]
    BY <2>1, <2>2
  <2>4. ModifyCoins(op.txid, IF Last(txundo) # 0 THEN MakeCoins({op.n}, Last(txundo))
                             ELSE MakeCoins(ViewCoins[op.txid].outs \cup {op.n},
                                            ViewCoins[op.txid].nHeight))
    BY <1>8, <2>2 DEF DisconnectSpend
  <2> HIDE DEF op, cc, left
  <2>5. /\ op.txid \in Txid /\ cc \in CCoins /\ ViewCoins[op.txid] = left
        /\ GivesBack(cc, op.n, left, Last(txundo))
    BY <2>2, <2>3, SpentBack
  <2>6. (IF Last(txundo) # 0 THEN MakeCoins({op.n}, Last(txundo))
         ELSE MakeCoins(ViewCoins[op.txid].outs \cup {op.n}, ViewCoins[op.txid].nHeight)) = cc
    BY <2>5 DEF GivesBack
  <2> QED
    BY <1>3, <2>4, <2>5, <2>6
<1>9. CASE ConnectDone
  <2>1. phase = "open" /\ job.kind = "connect" /\ FinishConnect(anchor[job.block], job.block)
    BY <1>9 DEF ConnectDone, FinishConnect
  <2>2. job.block \in Block /\ anchor[job.block] \in Root
    BY <2>1, ConnectingAt, AnchorAssumption
  <2> QED
    BY <2>1, <2>2 DEF Next
<1>10. CASE DisconnectDone
  <2>1. /\ phase = "open" /\ job.kind = "disconnect"
        /\ FinishDisconnect(undo[job.block].oldRoot, pprev[job.block])
    BY <1>10 DEF DisconnectDone, FinishDisconnect
  <2>2. job.block \in Block \ {Genesis}
    BY <2>1 DEF MatchInv, JobInv
  <2>3. pprev[job.block] \in Block /\ undo[job.block].oldRoot \in Root
    BY <2>2, ChainAssumption DEF MatchInv, JobTypes
  <2> QED
    BY <2>1, <2>3 DEF Next
<1>11. CASE StartDisconnect
  <2>1. Open({}) /\ {} \in SUBSET Txid
    BY <1>11 DEF StartDisconnect
  <2> QED
    BY <2>1 DEF Next
<1>12. CASE ConnectAbandoned \/ FlushView \/ Background \/ Restart
  BY <1>12 DEF ConnectAbandoned, FlushView, Background, Restart, Next
<1> QED
  BY <1>2, <1>5, <1>6, <1>7, <1>8, <1>9, <1>10, <1>11, <1>12 DEF ChainNext

\* ConnectBlock and DisconnectBlock only ever use the caches in the ways CoinsCache
\* allows, so what is proved of Spec holds of the chain.
THEOREM ChainUsesCoins == ChainSpec => Spec
<1>1. ChainInit => Init
  BY DEF ChainInit
<1>2. MatchInv /\ [ChainNext]_vars => [Next]_coinsVars
  BY ChainStepOfCoins DEF vars
<1> QED
  BY <1>1, <1>2, MatchInvariant, PTL DEF ChainSpec, Spec

\* The caches of a node that connects and disconnects blocks implement CoinsView.
THEOREM ChainImplementsCoinsView == ChainSpec => ImplementsCoinsView
BY ChainUsesCoins, CoinsViewImplemented, PTL
=============================================================================
