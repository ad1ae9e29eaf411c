--------------------------- MODULE MempoolProofs ---------------------------
(***************************************************************************)
(* Theorems about MempoolChain, for every set of transactions, every tree   *)
(* of blocks that ConnectBlock accepts, every limit and every order of      *)
(* arrivals, evictions and reorganisations.                                 *)
(*                                                                          *)
(* The pool is a record that the operators of TxMemPool transform, so most  *)
(* of what is proved is a statement about one such operator: which entries, *)
(* links and index it leaves.  The recursive functions among them (the walk *)
(* over links, the loops over a block) are shown to exist, and what they    *)
(* compute is found along a least counterexample.                           *)
(*                                                                          *)
(* The second half is about the totals of descendants: sums over sets,      *)
(* paths over the links both ways, and what each operator does to them.     *)
(***************************************************************************)
EXTENDS MempoolChain, BlockTreeProofs, FiniteSetTheorems, SequenceTheorems, TLAPS

-----------------------------------------------------------------------------
(* Walks over the links.                                                    *)

Links == [Tx -> SUBSET Tx]

\* One more step from the set X.
Onward(links, X) == X \cup UNION {links[t] : t \in X}

\* f is the walk from S, for n steps.
IsWalk(links, S, n, f) ==
    f = [i \in 0..n |-> IF i = 0 THEN S ELSE f[i - 1] \cup UNION {links[t] : t \in f[i - 1]}]

\* Such a walk exists for every number of steps.
LEMMA WalkExists ==
    ASSUME NEW links, NEW S
    PROVE  \A n \in Nat : \E f : IsWalk(links, S, n, f)
<1> DEFINE Bad == {n \in Nat : ~\E f : IsWalk(links, S, n, f)}
<1> SUFFICES ASSUME Bad # {} PROVE FALSE
  OBVIOUS
<1>1. PICK n \in Bad : \A k \in Bad : n <= k
  <2>1. Bad \in SUBSET Nat
    OBVIOUS
  <2> HIDE DEF Bad
  <2> QED
    BY <2>1, LeastNatural
<1>2. n # 0
  <2>1. IsWalk(links, S, 0, [i \in 0..0 |-> S])
    BY DEF IsWalk
  <2> QED
    BY <2>1
<1>3. PICK f : IsWalk(links, S, n - 1, f)
  BY <1>1, <1>2
<1> DEFINE g == [i \in 0..n |-> IF i = n THEN f[n - 1] \cup UNION {links[t] : t \in f[n - 1]} ELSE f[i]]
<1>4. \A i \in 0..(n - 1) :
         g[i] = f[i] /\ f[i] = IF i = 0 THEN S ELSE f[i - 1] \cup UNION {links[t] : t \in f[i - 1]}
  <2>1. \A i \in 0..(n - 1) : g[i] = f[i]
    BY <1>2
  <2>2. \A i \in 0..(n - 1) :
           f[i] = IF i = 0 THEN S ELSE f[i - 1] \cup UNION {links[t] : t \in f[i - 1]}
    <3> HIDE DEF Bad
    <3> QED
      BY <1>3, Zenon DEF IsWalk
  <2> QED
    BY <2>1, <2>2
<1>5. g[n] = g[n - 1] \cup UNION {links[t] : t \in g[n - 1]}
  <2>1. g[n - 1] = f[n - 1]
    BY <1>2, <1>4
  <2>2. g[n] = f[n - 1] \cup UNION {links[t] : t \in f[n - 1]}
    OBVIOUS
  <2> HIDE DEF g
  <2> QED
    BY <2>1, <2>2
<1>6. \A i \in 0..n : g[i] = IF i = 0 THEN S ELSE g[i - 1] \cup UNION {links[t] : t \in g[i - 1]}
  <2> SUFFICES ASSUME NEW i \in 0..n
               PROVE  g[i] = IF i = 0 THEN S ELSE g[i - 1] \cup UNION {links[t] : t \in g[i - 1]}
    OBVIOUS
  <2>1. CASE i = n
    BY <1>2, <1>5, <2>1
  <2>2. CASE i # n
    <3>1. i \in 0..(n - 1) /\ (i # 0 => i - 1 \in 0..(n - 1))
      BY <2>2
    <3> HIDE DEF g
    <3> QED
      BY <3>1, <1>4
  <2> QED
    BY <2>1, <2>2
<1>7. IsWalk(links, S, n, g)
  <2>1. g = [i \in 0..n |-> g[i]]
    OBVIOUS
  <2> HIDE DEF g
  <2> QED
    BY <1>6, <2>1 DEF IsWalk
<1> QED
  BY <1>7

\* The walk that Reached makes.
LEMMA ReachedIs ==
    ASSUME NEW links, NEW S
    PROVE  \E f : IsWalk(links, S, Cardinality(Tx), f) /\ Reached(links, S) = f[Cardinality(Tx)]
<1> DEFINE W == CHOOSE f : f = [n \in 0..Cardinality(Tx) |->
                    IF n = 0 THEN S ELSE f[n - 1] \cup UNION {links[t] : t \in f[n - 1]}]
<1>1. Cardinality(Tx) \in Nat
  BY PoolAssumption, FS_CardinalityType
<1>2. \E f : f = [n \in 0..Cardinality(Tx) |->
                    IF n = 0 THEN S ELSE f[n - 1] \cup UNION {links[t] : t \in f[n - 1]}]
  <2>1. \E f : IsWalk(links, S, Cardinality(Tx), f)
    BY <1>1, WalkExists
  <2> QED
    BY <2>1, Zenon DEF IsWalk
<1>3. IsWalk(links, S, Cardinality(Tx), W)
  BY <1>2, Zenon DEF IsWalk
<1>4. Reached(links, S) = W[Cardinality(Tx)]
  BY Zenon DEF Reached
<1> QED
  BY <1>3, <1>4, Zenon


\* Its steps, one by one.
LEMMA WalkSteps ==
    ASSUME NEW links, NEW S, NEW n \in Nat, NEW f, IsWalk(links, S, n, f)
    PROVE  /\ f[0] = S
           /\ \A i \in 0..n : i # 0 => f[i] = Onward(links, f[i - 1])
<1>1. \A i \in 0..n : f[i] = IF i = 0 THEN S ELSE f[i - 1] \cup UNION {links[t] : t \in f[i - 1]}
  BY Zenon DEF IsWalk
<1>2. 0 \in 0..n
  OBVIOUS
<1> QED
  BY <1>1, <1>2 DEF Onward

\* A step keeps what it has, and stays in every set closed under the links.
LEMMA OnwardFine ==
    ASSUME NEW links \in Links, NEW X \in SUBSET Tx
    PROVE  /\ Onward(links, X) \in SUBSET Tx /\ X \subseteq Onward(links, X)
           /\ \A t \in X : links[t] \subseteq Onward(links, X)
           /\ \A R \in SUBSET Tx : X \subseteq R /\ (\A t \in R : links[t] \subseteq R)
                                      => Onward(links, X) \subseteq R
BY DEF Onward, Links

\* Nothing outside the transactions is reached, and nothing that a set closed
\* under the links keeps out.
LEMMA WalkWithin ==
    ASSUME NEW links \in Links, NEW S \in SUBSET Tx, NEW n \in Nat, NEW f, IsWalk(links, S, n, f),
           NEW R \in SUBSET Tx, S \subseteq R, \A t \in R : links[t] \subseteq R
    PROVE  \A i \in 0..n : f[i] \subseteq R
<1> DEFINE Bad == {i \in 0..n : ~(f[i] \subseteq R)}
<1> SUFFICES ASSUME Bad # {} PROVE FALSE
  OBVIOUS
<1>1. PICK i \in Bad : \A k \in Bad : i <= k
  <2>1. Bad \in SUBSET Nat
    OBVIOUS
  <2> HIDE DEF Bad
  <2> QED
    BY <2>1, LeastNatural
<1>2. i # 0
  BY <1>1, WalkSteps
<1>3. i - 1 \in 0..n /\ i - 1 \notin Bad
  BY <1>1, <1>2
<1>4. f[i - 1] \subseteq R
  BY <1>3
<1>5. f[i] = Onward(links, f[i - 1])
  BY <1>2, WalkSteps
<1> QED
  BY <1>4, <1>5, OnwardFine

\* A walk that starts among the transactions stays there.
LEMMA WalkTyped ==
    ASSUME NEW links \in Links, NEW S \in SUBSET Tx, NEW n \in Nat, NEW f, IsWalk(links, S, n, f)
    PROVE  \A i \in 0..n : f[i] \in SUBSET Tx
<1>1. \A t \in Tx : links[t] \subseteq Tx
  BY DEF Links
<1>2. Tx \in SUBSET Tx
  OBVIOUS
<1> QED
  BY <1>1, <1>2, WalkWithin

ClosedUnder(links, X) == \A t \in X : links[t] \subseteq X

\* After n steps the walk has come to its end or has met n transactions.
LEMMA WalkGrows ==
    ASSUME NEW links \in Links, NEW S \in SUBSET Tx, NEW n \in Nat, NEW f, IsWalk(links, S, n, f)
    PROVE  \A i \in 0..n : ClosedUnder(links, f[i]) \/ Cardinality(f[i]) >= i
<1> DEFINE Bad == {i \in 0..n : ~(ClosedUnder(links, f[i]) \/ Cardinality(f[i]) >= i)}
<1> SUFFICES ASSUME Bad # {} PROVE FALSE
  OBVIOUS
<1>1. PICK i \in Bad : \A k \in Bad : i <= k
  <2>1. Bad \in SUBSET Nat
    OBVIOUS
  <2> HIDE DEF Bad
  <2> QED
    BY <2>1, LeastNatural
<1>2. \A k \in 0..n : f[k] \in SUBSET Tx /\ IsFiniteSet(f[k]) /\ Cardinality(f[k]) \in Nat
  <2>1. \A k \in 0..n : f[k] \in SUBSET Tx
    BY WalkTyped
  <2> QED
    BY <2>1, PoolAssumption, FS_Subset, FS_CardinalityType
<1>3. i # 0
  <2>1. CASE i = 0
    BY <1>1, <1>2, <2>1
  <2> QED
    BY <2>1
<1>4. i - 1 \in 0..n /\ i - 1 \notin Bad
  BY <1>1, <1>3
<1>5. f[i] = Onward(links, f[i - 1]) /\ f[i - 1] \subseteq f[i]
  <2>1. i \in 0..n
    BY <1>1
  <2>2. f[i] = Onward(links, f[i - 1])
    BY <1>3, <2>1, WalkSteps
  <2>3. f[i - 1] \in SUBSET Tx
    BY <1>2, <1>4
  <2> QED
    BY <2>2, <2>3, OnwardFine
<1>6. CASE f[i] = f[i - 1]
  <2>1. ClosedUnder(links, f[i])
    <3>1. \A t \in f[i - 1] : links[t] \subseteq Onward(links, f[i - 1])
      BY <1>2, <1>4, OnwardFine
    <3> QED
      BY <3>1, <1>5, <1>6 DEF ClosedUnder
  <2> QED
    BY <2>1
<1>7. CASE f[i] # f[i - 1]
  <2>1. ~ClosedUnder(links, f[i - 1])
    BY <1>5, <1>7 DEF ClosedUnder, Onward
  <2>2. Cardinality(f[i - 1]) >= i - 1
    BY <1>4, <2>1
  <2>3. Cardinality(f[i - 1]) < Cardinality(f[i])
    BY <1>2, <1>4, <1>5, <1>7, FS_Subset
  <2>4. Cardinality(f[i]) >= i
    BY <1>2, <1>4, <2>2, <2>3
  <2> QED
    BY <2>4
<1> QED
  BY <1>6, <1>7

\* Reached(links, S) is the least set of transactions that holds S and is closed
\* under the links.
LEMMA ReachedLeast ==
    ASSUME NEW links \in Links, NEW S \in SUBSET Tx
    PROVE  /\ Reached(links, S) \in SUBSET Tx /\ S \subseteq Reached(links, S)
           /\ ClosedUnder(links, Reached(links, S))
           /\ \A R \in SUBSET Tx : S \subseteq R /\ ClosedUnder(links, R) => Reached(links, S) \subseteq R
<1> DEFINE N == Cardinality(Tx)
<1>1. N \in Nat /\ IsFiniteSet(Tx)
  BY PoolAssumption, FS_CardinalityType
<1>2. PICK f : IsWalk(links, S, N, f) /\ Reached(links, S) = f[N]
  BY ReachedIs
<1> HIDE DEF N
<1>3. N \in 0..N
  BY <1>1
<1>4. f[N] \in SUBSET Tx
  BY <1>1, <1>2, <1>3, WalkTyped
<1>5. \A R \in SUBSET Tx : S \subseteq R /\ ClosedUnder(links, R) => f[N] \subseteq R
  BY <1>1, <1>2, <1>3, WalkWithin DEF ClosedUnder
<1>6. ClosedUnder(links, f[N])
  <2>1. CASE Cardinality(f[N]) >= N
    <3>1. IsFiniteSet(f[N]) /\ Cardinality(f[N]) \in Nat
      BY <1>1, <1>4, FS_Subset, FS_CardinalityType
    <3>2. f[N] = Tx
      BY <1>1, <1>4, <2>1, <3>1, FS_Subset DEF N
    <3> QED
      BY <3>2 DEF ClosedUnder, Links
  <2> QED
    BY <1>1, <1>2, <1>3, <2>1, WalkGrows
<1>7. S \subseteq f[N]
  <2>1. \A t \in S : t \in f[N]
    <3> SUFFICES ASSUME NEW t \in S, t \notin f[N] PROVE FALSE
      OBVIOUS
    <3> DEFINE Bad == {i \in 0..N : ~(S \subseteq f[i])}
    <3>1. N \in Bad
      BY <1>3
    <3>2. PICK i \in Bad : \A k \in Bad : i <= k
      <4>1. Bad \in SUBSET Nat /\ Bad # {}
        BY <3>1, <1>1
      <4> HIDE DEF Bad
      <4> QED
        BY <4>1, LeastNatural
    <3>3. i # 0
      BY <1>1, <1>2, <3>2, WalkSteps
    <3>4. i - 1 \in 0..N /\ i - 1 \notin Bad
      BY <1>1, <3>2, <3>3
    <3>5. S \subseteq f[i - 1] /\ f[i - 1] \in SUBSET Tx
      BY <1>1, <1>2, <3>4, WalkTyped
    <3>6. f[i] = Onward(links, f[i - 1])
      BY <1>1, <1>2, <3>2, <3>3, WalkSteps
    <3> QED
      BY <3>2, <3>5, <3>6, OnwardFine
  <2> QED
    BY <2>1
<1> QED
  BY <1>2, <1>4, <1>5, <1>6, <1>7

-----------------------------------------------------------------------------
(* What the functions of the pool do to its fields.                         *)

\* m has the fields of a pool.
IsPool(m) ==
    m \in [tx : {m.tx}, parents : {m.parents}, children : {m.children}, count : {m.count},
           fees : {m.fees}, delta : {m.delta}, nextTx : {m.nextTx}, weighted : {m.weighted}]

\* Two pools that differ in their totals and fee deltas only.
SameStructure(m, r) ==
    /\ r.tx = m.tx /\ r.weighted = m.weighted
    /\ r.parents = m.parents /\ r.children = m.children /\ r.nextTx = m.nextTx

\* Counting changes totals only.
LEMMA CountedIs ==
    ASSUME NEW m, IsPool(m), NEW A, NEW n, NEW fee
    PROVE  IsPool(Counted(m, A, n, fee)) /\ SameStructure(m, Counted(m, A, n, fee))
BY DEF IsPool, Counted, SameStructure

\* So does taking removed entries off the totals.
LEMMA UncountedIs ==
    ASSUME NEW m, IsPool(m), NEW S
    PROVE  IsPool(Uncounted(m, S)) /\ SameStructure(m, Uncounted(m, S))
BY DEF IsPool, Uncounted, SameStructure

\* And a change of priority.
LEMMA PrioritisedIs ==
    ASSUME NEW m, IsPool(m), NEW t, NEW n
    PROVE  IsPool(Prioritised(m, t, n)) /\ SameStructure(m, Prioritised(m, t, n))
<1> DEFINE x == [m EXCEPT !.delta[t] = @ + n, !.fees[t] = @ + n]
<1>1. IsPool(x) /\ SameStructure(m, x)
  BY DEF IsPool, SameStructure
<1>2. Prioritised(m, t, n) = Counted(x, LinkedAncestors(m, t), 0, n)
  BY DEF Prioritised
<1> HIDE DEF x
<1>3. IsPool(Counted(x, LinkedAncestors(m, t), 0, n))
      /\ SameStructure(x, Counted(x, LinkedAncestors(m, t), 0, n))
  BY <1>1, CountedIs
<1> QED
  BY <1>1, <1>2, <1>3 DEF SameStructure

\* r is m with t added to it.
IsAdded(m, t, r) ==
    /\ IsPool(r) /\ r.tx = m.tx \cup {t} /\ r.weighted = m.weighted \cup {t}
    /\ r.parents = [m.parents EXCEPT ![t] = PoolParents(m, t)]
    /\ r.children = [p \in Tx |-> IF p \in PoolParents(m, t) THEN m.children[p] \cup {t}
                                                             ELSE m.children[p]]
    /\ r.nextTx = [o \in OutPoint |-> IF o \in Inputs[t] THEN t ELSE m.nextTx[o]]

\* addUnchecked does what IsAdded says.
LEMMA AddedIs ==
    ASSUME NEW m, IsPool(m), NEW t, NEW delta
    PROVE  IsAdded(m, t, addUnchecked(m, t, delta))
<1> DEFINE P == PoolParents(m, t)
           r == addUnchecked(m, t, delta)
           x == [m EXCEPT !.tx = @ \cup {t}, !.weighted = @ \cup {t},
                          !.delta[t] = delta, !.count[t] = 1, !.fees[t] = Fee[t] + delta,
                          !.parents[t] = P,
                          !.children = [p \in Tx |-> IF p \in P THEN @[p] \cup {t} ELSE @[p]],
                          !.nextTx = [o \in OutPoint |-> IF o \in Inputs[t] THEN t ELSE @[o]]]
<1>1. IsPool(x)
  BY DEF IsPool
<1>2. /\ x.tx = m.tx \cup {t} /\ x.weighted = m.weighted \cup {t}
      /\ x.parents = [m.parents EXCEPT ![t] = P]
      /\ x.children = [p \in Tx |-> IF p \in P THEN m.children[p] \cup {t} ELSE m.children[p]]
      /\ x.nextTx = [o \in OutPoint |-> IF o \in Inputs[t] THEN t ELSE m.nextTx[o]]
  BY DEF IsPool
<1>3. r = Counted(x, SearchedAncestors(m, t), 1, Fee[t] + delta)
  BY DEF addUnchecked
<1> HIDE DEF x, P, r
<1>4. IsPool(r) /\ SameStructure(x, r)
  BY <1>1, <1>3, CountedIs
<1>5. /\ IsPool(r) /\ r.tx = m.tx \cup {t} /\ r.weighted = m.weighted \cup {t}
      /\ r.parents = [m.parents EXCEPT ![t] = P]
      /\ r.children = [p \in Tx |-> IF p \in P THEN m.children[p] \cup {t} ELSE m.children[p]]
      /\ r.nextTx = [o \in OutPoint |-> IF o \in Inputs[t] THEN t ELSE m.nextTx[o]]
  BY <1>2, <1>4 DEF SameStructure
<1> QED
  BY <1>5 DEF IsAdded, P, r

\* r is m without S.
IsStaged(m, S, r) ==
    /\ IsPool(r) /\ r.tx = m.tx \ S /\ r.weighted = m.weighted \ S
    /\ r.parents = [t \in Tx |-> IF t \in S THEN {} ELSE m.parents[t] \ S]
    /\ r.children = [t \in Tx |-> IF t \in S THEN {} ELSE m.children[t] \ S]
    /\ r.nextTx = [o \in OutPoint |-> IF \E s \in S : o \in Inputs[s] THEN NoTx ELSE m.nextTx[o]]

\* RemoveStaged does what IsStaged says.
LEMMA StagedIs ==
    ASSUME NEW m, IsPool(m), NEW S
    PROVE  IsStaged(m, S, RemoveStaged(m, S))
<1> DEFINE r == RemoveStaged(m, S)
           x == Uncounted(m, S)
<1>1. IsPool(x) /\ SameStructure(m, x)
  BY UncountedIs
<1>2. r = [x EXCEPT
             !.tx = @ \ S, !.weighted = @ \ S,
             !.parents = [t \in Tx |-> IF t \in S THEN {} ELSE @[t] \ S],
             !.children = [t \in Tx |-> IF t \in S THEN {} ELSE @[t] \ S],
             !.count = [t \in Tx |-> IF t \in S THEN 0 ELSE @[t]],
             !.fees = [t \in Tx |-> IF t \in S THEN 0 ELSE @[t]],
             !.delta = [t \in Tx |-> IF t \in S THEN 0 ELSE @[t]],
             !.nextTx = [o \in OutPoint |-> IF \E s \in S : o \in Inputs[s] THEN NoTx ELSE @[o]]]
  BY DEF RemoveStaged
<1> HIDE DEF x, r
<1>3. IsPool(r)
  BY <1>1, <1>2 DEF IsPool
<1>4. /\ r.tx = x.tx \ S /\ r.weighted = x.weighted \ S
      /\ r.parents = [t \in Tx |-> IF t \in S THEN {} ELSE x.parents[t] \ S]
      /\ r.children = [t \in Tx |-> IF t \in S THEN {} ELSE x.children[t] \ S]
      /\ r.nextTx = [o \in OutPoint |-> IF \E s \in S : o \in Inputs[s] THEN NoTx ELSE x.nextTx[o]]
  BY <1>1, <1>2 DEF IsPool
<1>5. /\ IsPool(r) /\ r.tx = m.tx \ S /\ r.weighted = m.weighted \ S
      /\ r.parents = [t \in Tx |-> IF t \in S THEN {} ELSE m.parents[t] \ S]
      /\ r.children = [t \in Tx |-> IF t \in S THEN {} ELSE m.children[t] \ S]
      /\ r.nextTx = [o \in OutPoint |-> IF \E s \in S : o \in Inputs[s] THEN NoTx ELSE m.nextTx[o]]
  BY <1>1, <1>3, <1>4 DEF SameStructure
<1> QED
  BY <1>5 DEF IsStaged, r

-----------------------------------------------------------------------------
(* What holds of the pool whatever is going on.                             *)

Spends(c, p) == \E o \in Inputs[c] : Creator[o] = p

\* mapNextTx names the spender, in the pool, of every output its entries spend.
IndexExact(m) ==
    /\ m.nextTx \in [OutPoint -> Tx \cup {NoTx}]
    /\ \A o \in OutPoint : m.nextTx[o] # NoTx => m.nextTx[o] \in m.tx /\ o \in Inputs[m.nextTx[o]]
    /\ \A t \in m.tx : \A o \in Inputs[t] : m.nextTx[o] = t

\* Each link is there in both directions, and for a spend between entries.
LinksSound(m) ==
    /\ \A p, c \in Tx : c \in m.children[p] <=> p \in m.parents[c]
    /\ \A p, c \in Tx : p \in m.parents[c] => c \in m.tx /\ p \in m.tx /\ Spends(c, p)

PoolOk(m) ==
    /\ IsPool(m)
    /\ m.tx \in SUBSET Tx /\ m.parents \in Links /\ m.children \in Links
    /\ IndexExact(m) /\ LinksSound(m)

\* No spend between entries is without its link, but of those by entries outside
\* of M from entries of M.
LinkedBut(m, M) ==
    \A p, c \in m.tx : Spends(c, p) => p \in m.parents[c] \/ (p \in M /\ c \notin M)

\* What spends from an entry of D is in D.
TakesSpenders(m, D) == \A p \in D : \A c \in m.tx : Spends(c, p) => c \in D

\* Every input of an entry is an output of an entry, of W or of the chain up to b.
Funded(m, b, W) ==
    \A u \in m.tx : \A o \in Inputs[u] : Creator[o] \in m.tx \cup W \/ Unspent(o, b)

\* The empty pool is in order.
LEMMA EmptyOk ==
    PoolOk(EmptyPool) /\ LinkedBut(EmptyPool, {})
BY DEF PoolOk, EmptyPool, IsPool, Links, IndexExact, LinksSound, LinkedBut

\* A change of totals leaves the structure in order.
LEMMA SameOk ==
    ASSUME NEW m, NEW r, PoolOk(m), IsPool(r), SameStructure(m, r)
    PROVE  PoolOk(r) /\ \A M : LinkedBut(m, M) => LinkedBut(r, M)
BY DEF PoolOk, SameStructure, IndexExact, LinksSound, LinkedBut

\* A transaction whose inputs nobody spends is added.
LEMMA AddedOk ==
    ASSUME NEW m, PoolOk(m), NEW t \in Tx, t \notin m.tx, NEW delta,
           \A o \in Inputs[t] : m.nextTx[o] = NoTx
    PROVE  PoolOk(addUnchecked(m, t, delta)) /\ addUnchecked(m, t, delta).tx = m.tx \cup {t}
<1> DEFINE r == addUnchecked(m, t, delta)
           P == PoolParents(m, t)
<1>1. /\ IsPool(r) /\ r.tx = m.tx \cup {t}
      /\ r.parents = [m.parents EXCEPT ![t] = P]
      /\ r.children = [p \in Tx |-> IF p \in P THEN m.children[p] \cup {t} ELSE m.children[p]]
      /\ r.nextTx = [o \in OutPoint |-> IF o \in Inputs[t] THEN t ELSE m.nextTx[o]]
  BY AddedIs DEF PoolOk, IsAdded
<1>2. P \in SUBSET m.tx /\ (\A p \in P : Spends(t, p)) /\ m.tx \in SUBSET Tx
  BY DEF PoolParents, Spends, PoolOk
<1> HIDE DEF r, P
<1>3. r.tx \in SUBSET Tx /\ r.parents \in Links /\ r.children \in Links
  BY <1>1, <1>2 DEF PoolOk, Links
<1>4. IndexExact(r)
  <2>1. \A o \in OutPoint : r.nextTx[o] = IF o \in Inputs[t] THEN t ELSE m.nextTx[o]
    BY <1>1
  <2>2. r.nextTx \in [OutPoint -> Tx \cup {NoTx}]
    BY <1>1 DEF PoolOk, IndexExact
  <2>3. \A o \in OutPoint : r.nextTx[o] # NoTx => r.nextTx[o] \in r.tx /\ o \in Inputs[r.nextTx[o]]
    BY <2>1, <1>1 DEF PoolOk, IndexExact
  <2>4. \A u \in r.tx : \A o \in Inputs[u] : r.nextTx[o] = u
    <3> SUFFICES ASSUME NEW u \in r.tx, NEW o \in Inputs[u] PROVE r.nextTx[o] = u
      OBVIOUS
    <3>1. o \in OutPoint
      BY <1>3, PoolAssumption
    <3>2. CASE u = t
      BY <2>1, <3>1, <3>2
    <3>3. CASE u # t
      <4>1. u \in m.tx /\ m.nextTx[o] = u /\ u # NoTx
        BY <1>1, <1>2, <3>3, PoolAssumption DEF PoolOk, IndexExact
      <4> QED
        BY <2>1, <3>1, <4>1
    <3> QED
      BY <3>2, <3>3
  <2> QED
    BY <2>2, <2>3, <2>4 DEF IndexExact
<1>5. LinksSound(r)
  <2>1. \A p, c \in Tx : c \in r.children[p] <=> c \in m.children[p] \/ (p \in P /\ c = t)
    BY <1>1 DEF PoolOk, Links
  <2>2. \A p, c \in Tx : p \in r.parents[c] <=> IF c = t THEN p \in P ELSE p \in m.parents[c]
    BY <1>1 DEF PoolOk, Links
  <2>3. \A p \in Tx : t \notin m.children[p] /\ p \notin m.parents[t]
    BY DEF PoolOk, LinksSound
  <2>4. \A p, c \in Tx : c \in m.children[p] <=> p \in m.parents[c]
    BY DEF PoolOk, LinksSound
  <2>5. \A p, c \in Tx : p \in m.parents[c] => c \in m.tx /\ p \in m.tx /\ Spends(c, p)
    BY DEF PoolOk, LinksSound
  <2>6. \A p, c \in Tx : c \in r.children[p] <=> p \in r.parents[c]
    BY <2>1, <2>2, <2>3, <2>4
  <2>7. \A p, c \in Tx : p \in r.parents[c] => c \in r.tx /\ p \in r.tx /\ Spends(c, p)
    BY <2>2, <2>5, <1>1, <1>2
  <2> QED
    BY <2>6, <2>7 DEF LinksSound
<1> QED
  BY <1>1, <1>3, <1>4, <1>5 DEF PoolOk, r

\* It is linked to its parents, and its spenders, if there are any, are the
\* exception that LinkedBut makes.
LEMMA AddedLinked ==
    ASSUME NEW m, PoolOk(m), NEW t \in Tx, t \notin m.tx, NEW delta, NEW M, LinkedBut(m, M),
           ~Spends(t, t), \A c \in m.tx : Spends(c, t) => t \in M /\ c \notin M
    PROVE  LinkedBut(addUnchecked(m, t, delta), M)
<1> DEFINE r == addUnchecked(m, t, delta)
           P == PoolParents(m, t)
<1>1. r.tx = m.tx \cup {t} /\ r.parents = [m.parents EXCEPT ![t] = P]
  <2>1. IsPool(m)
    BY DEF PoolOk
  <2>2. IsAdded(m, t, r)
    BY <2>1, AddedIs
  <2> HIDE DEF r
  <2> QED
    BY <2>2 DEF IsAdded
<1>2. m.tx \in SUBSET Tx /\ m.parents \in Links /\ \A p \in m.tx : Spends(t, p) => p \in P
  BY DEF PoolParents, Spends, PoolOk
<1> HIDE DEF r, P
<1>3. r.parents[t] = P /\ \A c \in m.tx : r.parents[c] = m.parents[c]
  BY <1>1, <1>2 DEF Links
<1>4. ASSUME NEW p \in r.tx, NEW c \in r.tx, Spends(c, p)
      PROVE  p \in r.parents[c] \/ (p \in M /\ c \notin M)
  <2>1. CASE c = t
    BY <1>1, <1>2, <1>3, <1>4, <2>1
  <2>2. CASE c # t /\ p = t
    BY <1>1, <1>4, <2>2
  <2>3. CASE c # t /\ p # t
    BY <1>1, <1>3, <1>4, <2>3 DEF LinkedBut
  <2> QED
    BY <2>1, <2>2, <2>3
<1> QED
  BY <1>4 DEF LinkedBut, r

\* Entries are removed.
LEMMA StagedOk ==
    ASSUME NEW m, PoolOk(m), NEW S \in SUBSET m.tx
    PROVE  /\ PoolOk(RemoveStaged(m, S)) /\ RemoveStaged(m, S).tx = m.tx \ S
           /\ RemoveStaged(m, S).weighted = m.weighted \ S
           /\ \A M : LinkedBut(m, M) => LinkedBut(RemoveStaged(m, S), M)
<1> DEFINE r == RemoveStaged(m, S)
<1>1. /\ IsPool(r) /\ r.tx = m.tx \ S /\ r.weighted = m.weighted \ S
      /\ r.parents = [t \in Tx |-> IF t \in S THEN {} ELSE m.parents[t] \ S]
      /\ r.children = [t \in Tx |-> IF t \in S THEN {} ELSE m.children[t] \ S]
      /\ r.nextTx = [o \in OutPoint |-> IF \E s \in S : o \in Inputs[s] THEN NoTx ELSE m.nextTx[o]]
  BY StagedIs DEF PoolOk, IsStaged
<1> HIDE DEF r
<1>2. r.tx \in SUBSET Tx /\ r.parents \in Links /\ r.children \in Links
  BY <1>1 DEF PoolOk, Links
<1>3. IndexExact(r)
  <2>1. r.nextTx \in [OutPoint -> Tx \cup {NoTx}]
    BY <1>1 DEF PoolOk, IndexExact
  <2>2. ASSUME NEW o \in OutPoint, r.nextTx[o] # NoTx
        PROVE  r.nextTx[o] \in r.tx /\ o \in Inputs[r.nextTx[o]]
    <3>1. r.nextTx[o] = m.nextTx[o] /\ \A s \in S : o \notin Inputs[s]
      BY <1>1, <2>2
    <3>2. m.nextTx[o] \in m.tx /\ o \in Inputs[m.nextTx[o]]
      BY <3>1, <2>2 DEF PoolOk, IndexExact
    <3> QED
      BY <3>1, <3>2, <1>1
  <2>3. ASSUME NEW t \in r.tx, NEW o \in Inputs[t] PROVE r.nextTx[o] = t
    <3>1. t \in m.tx /\ t \notin S /\ m.nextTx[o] = t /\ o \in OutPoint
      BY <1>1, <1>2, PoolAssumption DEF PoolOk, IndexExact
    <3>2. \A s \in S : o \notin Inputs[s]
      BY <3>1 DEF PoolOk, IndexExact
    <3> QED
      BY <3>1, <3>2, <1>1
  <2> QED
    BY <2>1, <2>2, <2>3 DEF IndexExact
<1>4. \A p, c \in Tx : p \in r.parents[c] <=> p \in m.parents[c] /\ c \notin S /\ p \notin S
  BY <1>1 DEF PoolOk, Links
<1>5. LinksSound(r)
  <2>1. \A p, c \in Tx : c \in r.children[p] <=> c \in m.children[p] /\ c \notin S /\ p \notin S
    BY <1>1 DEF PoolOk, Links
  <2> QED
    BY <1>1, <1>4, <2>1 DEF PoolOk, LinksSound
<1>6. ASSUME NEW M, LinkedBut(m, M) PROVE LinkedBut(r, M)
  BY <1>1, <1>4, <1>6 DEF LinkedBut, PoolOk
<1> QED
  BY <1>1, <1>2, <1>3, <1>5, <1>6 DEF PoolOk, r

\* When the spenders of what is removed go with it nobody loses an input.
LEMMA StagedFunded ==
    ASSUME NEW m, PoolOk(m), NEW S \in SUBSET m.tx, TakesSpenders(m, S), NEW b, NEW W, Funded(m, b, W)
    PROVE  Funded(RemoveStaged(m, S), b, W)
<1> DEFINE r == RemoveStaged(m, S)
<1>1. r.tx = m.tx \ S
  BY StagedOk
<1> HIDE DEF r
<1>2. ASSUME NEW u \in r.tx, NEW o \in Inputs[u]
      PROVE  Creator[o] \in r.tx \cup W \/ Unspent(o, b)
  <2>1. Creator[o] \notin S
    BY <1>1 DEF TakesSpenders, Spends
  <2> QED
    BY <1>1, <2>1 DEF Funded
<1> QED
  BY <1>2 DEF Funded, r

-----------------------------------------------------------------------------
(* The sets of entries that are removed.                                    *)

\* The index finds the spenders.
LEMMA SpendersAre ==
    ASSUME NEW m, PoolOk(m), NEW t \in Tx
    PROVE  SpendersOf(m, t) \in SUBSET m.tx /\ \A c \in m.tx : c \in SpendersOf(m, t) <=> Spends(c, t)
<1>1. ASSUME NEW c \in SpendersOf(m, t) PROVE c \in m.tx /\ Spends(c, t)
  <2>1. PICK o \in OutPoint : Creator[o] = t /\ c = m.nextTx[o] /\ c # NoTx
    BY DEF SpendersOf
  <2> QED
    BY <2>1 DEF PoolOk, IndexExact, Spends
<1>2. ASSUME NEW c \in m.tx, Spends(c, t) PROVE c \in SpendersOf(m, t)
  <2>1. PICK o \in Inputs[c] : Creator[o] = t
    BY <1>2 DEF Spends
  <2>2. m.nextTx[o] = c /\ o \in OutPoint /\ c # NoTx
    BY PoolAssumption DEF PoolOk, IndexExact
  <2> QED
    BY <2>1, <2>2 DEF SpendersOf
<1> QED
  BY <1>1, <1>2

\* CalculateDescendants is the least set with t that is closed under the links.
LEMMA DescendantsAre ==
    ASSUME NEW m, PoolOk(m), NEW t \in m.tx
    PROVE  /\ t \in CalculateDescendants(m, t) /\ CalculateDescendants(m, t) \in SUBSET m.tx
           /\ ClosedUnder(m.children, CalculateDescendants(m, t))
           /\ \A R \in SUBSET Tx : t \in R /\ ClosedUnder(m.children, R)
                                      => CalculateDescendants(m, t) \subseteq R
<1>1. m.children \in Links /\ {t} \in SUBSET Tx /\ m.tx \in SUBSET Tx
  BY DEF PoolOk
<1>2. ClosedUnder(m.children, m.tx)
  BY <1>1 DEF ClosedUnder, PoolOk, LinksSound, Links
<1> QED
  BY <1>1, <1>2, ReachedLeast DEF CalculateDescendants

\* What remove(t, true) takes is closed under the links and lies in any set that
\* is and holds t, or t's spenders.
LEMMA RecursiveIs ==
    ASSUME NEW m, PoolOk(m), NEW t \in Tx
    PROVE  /\ Recursive(m, t) \in SUBSET m.tx /\ ClosedUnder(m.children, Recursive(m, t))
           /\ t \in m.tx => t \in Recursive(m, t)
           /\ t \notin m.tx => SpendersOf(m, t) \subseteq Recursive(m, t)
           /\ \A R \in SUBSET Tx : /\ ClosedUnder(m.children, R)
                                   /\ t \in m.tx => t \in R
                                   /\ t \notin m.tx => SpendersOf(m, t) \subseteq R
                                   => Recursive(m, t) \subseteq R
<1>1. CASE t \in m.tx
  <2>1. Recursive(m, t) = CalculateDescendants(m, t)
    BY <1>1 DEF Recursive
  <2> QED
    BY <1>1, <2>1, DescendantsAre
<1>2. CASE t \notin m.tx
  <2>1. Recursive(m, t) = UNION {CalculateDescendants(m, c) : c \in SpendersOf(m, t)}
    BY <1>2 DEF Recursive
  <2>2. \A c \in SpendersOf(m, t) : c \in m.tx
    BY SpendersAre
  <2>3. \A c \in SpendersOf(m, t) :
           /\ c \in CalculateDescendants(m, c) /\ CalculateDescendants(m, c) \in SUBSET m.tx
           /\ ClosedUnder(m.children, CalculateDescendants(m, c))
           /\ \A R \in SUBSET Tx : c \in R /\ ClosedUnder(m.children, R)
                                      => CalculateDescendants(m, c) \subseteq R
    BY <2>2, DescendantsAre
  <2>4. Recursive(m, t) \in SUBSET m.tx /\ SpendersOf(m, t) \subseteq Recursive(m, t)
    BY <2>1, <2>3
  <2>5. ClosedUnder(m.children, Recursive(m, t))
    BY <2>1, <2>3 DEF ClosedUnder
  <2>6. ASSUME NEW R \in SUBSET Tx, ClosedUnder(m.children, R), SpendersOf(m, t) \subseteq R
        PROVE  Recursive(m, t) \subseteq R
    BY <2>1, <2>3, <2>6
  <2> QED
    BY <1>2, <2>4, <2>5, <2>6
<1> QED
  BY <1>1, <1>2

\* A set that is closed under the links takes its spenders if it holds nobody
\* whose spenders may lack their link.
LEMMA ClosedTakesSpenders ==
    ASSUME NEW m, PoolOk(m), NEW M, LinkedBut(m, M), NEW D \in SUBSET m.tx, D \cap M = {},
           ClosedUnder(m.children, D)
    PROVE  TakesSpenders(m, D)
BY DEF TakesSpenders, LinkedBut, ClosedUnder, PoolOk, LinksSound

\* remove of a set of entries when every link is there.
LEMMA RemovedAll ==
    ASSUME NEW m, PoolOk(m), NEW T \in SUBSET Tx
    PROVE  /\ PoolOk(RemoveAll(m, T)) /\ RemoveAll(m, T).tx \in SUBSET (m.tx \ T)
           /\ RemoveAll(m, T).weighted = m.weighted \ (m.tx \ RemoveAll(m, T).tx)
           /\ \A M : LinkedBut(m, M) => LinkedBut(RemoveAll(m, T), M)
           /\ \A b, W : LinkedBut(m, {}) /\ Funded(m, b, W) => Funded(RemoveAll(m, T), b, W)
<1> DEFINE S == UNION {Recursive(m, t) : t \in T}
           r == RemoveStaged(m, S)
<1>1. RemoveAll(m, T) = r
  BY DEF RemoveAll
<1>2. \A t \in T : /\ Recursive(m, t) \in SUBSET m.tx /\ ClosedUnder(m.children, Recursive(m, t))
                   /\ t \in m.tx => t \in Recursive(m, t)
  BY RecursiveIs
<1>3. S \in SUBSET m.tx /\ m.tx \cap T \subseteq S
  BY <1>2
<1>4. ClosedUnder(m.children, S)
  BY <1>2 DEF ClosedUnder
<1> HIDE DEF S
<1>5. PoolOk(r) /\ r.tx = m.tx \ S /\ r.weighted = m.weighted \ S
      /\ \A M : LinkedBut(m, M) => LinkedBut(r, M)
  BY <1>3, StagedOk
<1>6. ASSUME NEW b, NEW W, LinkedBut(m, {}), Funded(m, b, W) PROVE Funded(r, b, W)
  <2>1. TakesSpenders(m, S)
    BY <1>3, <1>4, <1>6, ClosedTakesSpenders
  <2> QED
    BY <1>3, <1>6, <2>1, StagedFunded
<1> HIDE DEF r
<1>7. r.tx \in SUBSET (m.tx \ T) /\ r.weighted = m.weighted \ (m.tx \ r.tx)
  BY <1>3, <1>5
<1> QED
  BY <1>1, <1>5, <1>6, <1>7

-----------------------------------------------------------------------------
(* removeForBlock.                                                          *)

ShareInputs(t, u) == Inputs[t] \cap Inputs[u] # {}

\* A transaction of the new block leaves the pool, and what it conflicts with.
LEMMA RemovedMined ==
    ASSUME NEW m, PoolOk(m), m.weighted = m.tx, NEW t \in Tx
    PROVE  /\ PoolOk(RemoveMined(m, t)) /\ RemoveMined(m, t).weighted = RemoveMined(m, t).tx
           /\ RemoveMined(m, t).tx \in SUBSET (m.tx \ {t})
           /\ \A u \in RemoveMined(m, t).tx : ~ShareInputs(t, u)
           /\ LinkedBut(m, {}) => LinkedBut(RemoveMined(m, t), {})
           /\ \A b, W : LinkedBut(m, {}) /\ Funded(m, b, W) => Funded(RemoveMined(m, t), b, W \cup {t})
<1> DEFINE S == {t} \cap m.tx
           x == RemoveStaged(m, S)
           T == Conflicts(x, t)
           r == RemoveMined(m, t)
<1>1. S \in SUBSET m.tx
  OBVIOUS
<1>2. PoolOk(x) /\ x.tx = m.tx \ {t} /\ x.weighted = x.tx /\ (LinkedBut(m, {}) => LinkedBut(x, {}))
  <2> HIDE DEF x
  <2>1. PoolOk(x) /\ x.tx = m.tx \ S /\ x.weighted = m.weighted \ S
        /\ (LinkedBut(m, {}) => LinkedBut(x, {}))
    BY <1>1, StagedOk DEF x
  <2> QED
    BY <2>1
<1>3. r = RemoveAll(x, T)
  BY DEF RemoveMined, RemoveAlone
<1> HIDE DEF x, r, S
<1>4. T \in SUBSET Tx /\ \A u \in x.tx : ShareInputs(t, u) => u \in T
  <2>1. \A o \in Inputs[t] : o \in OutPoint
    BY PoolAssumption
  <2>2. T \in SUBSET Tx
    BY <1>2, <2>1 DEF Conflicts, PoolOk, IndexExact
  <2>3. ASSUME NEW u \in x.tx, ShareInputs(t, u) PROVE u \in T
    <3>1. PICK o \in Inputs[t] : o \in Inputs[u]
      BY <2>3 DEF ShareInputs
    <3>2. x.nextTx[o] = u /\ u # t /\ u # NoTx
      BY <1>2, <3>1, PoolAssumption DEF PoolOk, IndexExact
    <3> QED
      BY <3>2 DEF Conflicts
  <2> QED
    BY <2>2, <2>3
<1> HIDE DEF T
<1>5. /\ PoolOk(r) /\ r.tx \in SUBSET (x.tx \ T) /\ r.weighted = x.weighted \ (x.tx \ r.tx)
      /\ LinkedBut(x, {}) => LinkedBut(r, {})
      /\ \A b, W : LinkedBut(x, {}) /\ Funded(x, b, W) => Funded(r, b, W)
  BY <1>2, <1>3, <1>4, RemovedAll
<1>6. r.weighted = r.tx /\ r.tx \in SUBSET (m.tx \ {t}) /\ \A u \in r.tx : ~ShareInputs(t, u)
  BY <1>2, <1>4, <1>5
<1>7. ASSUME NEW b, NEW W, Funded(m, b, W) PROVE Funded(x, b, W \cup {t})
  BY <1>2, <1>7 DEF Funded
<1> QED
  BY <1>2, <1>5, <1>6, <1>7 DEF r

\* The loop of removeForBlock.
IsRemoval(m, txs, n, f) ==
    f = [i \in 0..n |-> IF i = 0 THEN m ELSE RemoveMined(f[i - 1], txs[i])]

\* The recursion of removeForBlock has a solution.
LEMMA RemovalExists ==
    ASSUME NEW m, NEW txs
    PROVE  \A n \in Nat : \E f : IsRemoval(m, txs, n, f)
<1> DEFINE Bad == {n \in Nat : ~\E f : IsRemoval(m, txs, n, f)}
<1> SUFFICES ASSUME Bad # {} PROVE FALSE
  OBVIOUS
<1>1. PICK n \in Bad : \A k \in Bad : n <= k
  <2>1. Bad \in SUBSET Nat
    OBVIOUS
  <2> HIDE DEF Bad
  <2> QED
    BY <2>1, LeastNatural
<1>2. n # 0
  <2>1. IsRemoval(m, txs, 0, [i \in 0..0 |-> m])
    BY DEF IsRemoval
  <2> QED
    BY <2>1
<1>3. PICK f : IsRemoval(m, txs, n - 1, f)
  BY <1>1, <1>2
<1> DEFINE g == [i \in 0..n |-> IF i = n THEN RemoveMined(f[n - 1], txs[n]) ELSE f[i]]
<1>4. \A i \in 0..(n - 1) : g[i] = f[i]
  BY <1>2
<1>5. \A i \in 0..(n - 1) : f[i] = IF i = 0 THEN m ELSE RemoveMined(f[i - 1], txs[i])
  <2> HIDE DEF Bad, g
  <2> QED
    BY <1>3, Zenon DEF IsRemoval
<1>6. g[n] = RemoveMined(f[n - 1], txs[n]) /\ g[n - 1] = f[n - 1]
  BY <1>2, <1>4
<1>7. g = [i \in 0..n |-> g[i]]
  OBVIOUS
<1> HIDE DEF g
<1>8. ASSUME NEW i \in 0..n PROVE g[i] = IF i = 0 THEN m ELSE RemoveMined(g[i - 1], txs[i])
  <2>1. CASE i = n
    BY <1>2, <1>6, <2>1
  <2>2. CASE i # n
    <3>1. i \in 0..(n - 1) /\ (i # 0 => i - 1 \in 0..(n - 1))
      BY <2>2
    <3> QED
      BY <3>1, <1>4, <1>5
  <2> QED
    BY <2>1, <2>2
<1>9. IsRemoval(m, txs, n, g)
  BY <1>7, <1>8 DEF IsRemoval
<1> QED
  BY <1>9

\* removeForBlock goes through the block transaction by transaction.
LEMMA RemoveForBlockIs ==
    ASSUME NEW m, NEW txs \in Seq(Tx)
    PROVE  \E f : /\ RemoveForBlock(m, txs) = f[Len(txs)] /\ f[0] = m
                  /\ \A i \in 1..Len(txs) : f[i] = RemoveMined(f[i - 1], txs[i])
<1> DEFINE F == CHOOSE f : f = [i \in 0..Len(txs) |-> IF i = 0 THEN m ELSE RemoveMined(f[i - 1], txs[i])]
<1>1. Len(txs) \in Nat
  OBVIOUS
<1>2. \E f : f = [i \in 0..Len(txs) |-> IF i = 0 THEN m ELSE RemoveMined(f[i - 1], txs[i])]
  <2>1. \E f : IsRemoval(m, txs, Len(txs), f)
    BY <1>1, RemovalExists
  <2> QED
    BY <2>1, Zenon DEF IsRemoval
<1>3. F = [i \in 0..Len(txs) |-> IF i = 0 THEN m ELSE RemoveMined(F[i - 1], txs[i])]
  BY <1>2, Zenon
<1>4. RemoveForBlock(m, txs) = F[Len(txs)]
  BY Zenon DEF RemoveForBlock
<1> HIDE DEF F
<1>5. \A i \in 0..Len(txs) : F[i] = IF i = 0 THEN m ELSE RemoveMined(F[i - 1], txs[i])
  BY <1>3, Zenon
<1>6. F[0] = m /\ \A i \in 1..Len(txs) : F[i] = RemoveMined(F[i - 1], txs[i])
  BY <1>1, <1>5
<1> QED
  BY <1>4, <1>6

\* The transactions of a block up to the i-th.
UpTo(txs, i) == {txs[j] : j \in 1..i}

\* What the loop has done to m after the transactions C.
MinedFrom(m, C, r) ==
    /\ PoolOk(r) /\ r.weighted = r.tx /\ r.tx \in SUBSET (m.tx \ C)
    /\ \A u \in r.tx : \A t \in C : ~ShareInputs(t, u)
    /\ LinkedBut(m, {}) => LinkedBut(r, {})
    /\ \A b : LinkedBut(m, {}) /\ Funded(m, b, {}) => Funded(r, b, C)

\* One transaction of the block more.
LEMMA MinedStep ==
    ASSUME NEW m, NEW C, NEW r, MinedFrom(m, C, r), NEW t \in Tx
    PROVE  MinedFrom(m, C \cup {t}, RemoveMined(r, t))
<1> DEFINE q == RemoveMined(r, t)
<1>1. /\ PoolOk(q) /\ q.weighted = q.tx /\ q.tx \in SUBSET (r.tx \ {t})
      /\ \A u \in q.tx : ~ShareInputs(t, u)
      /\ LinkedBut(r, {}) => LinkedBut(q, {})
      /\ \A b, W : LinkedBut(r, {}) /\ Funded(r, b, W) => Funded(q, b, W \cup {t})
  BY RemovedMined DEF MinedFrom
<1> HIDE DEF q
<1>2. q.tx \in SUBSET (m.tx \ (C \cup {t})) /\ \A u \in q.tx : \A c \in C \cup {t} : ~ShareInputs(c, u)
  BY <1>1 DEF MinedFrom
<1>3. (LinkedBut(m, {}) => LinkedBut(q, {}))
      /\ \A b : LinkedBut(m, {}) /\ Funded(m, b, {}) => Funded(q, b, C \cup {t})
  BY <1>1 DEF MinedFrom
<1> QED
  BY <1>1, <1>2, <1>3 DEF MinedFrom, q

\* What removeForBlock leaves.
LEMMA RemovedForBlock ==
    ASSUME NEW m, PoolOk(m), m.weighted = m.tx, NEW txs \in Seq(Tx)
    PROVE  MinedFrom(m, UpTo(txs, Len(txs)), RemoveForBlock(m, txs))
<1>1. PICK f : /\ RemoveForBlock(m, txs) = f[Len(txs)] /\ f[0] = m
               /\ \A i \in 1..Len(txs) : f[i] = RemoveMined(f[i - 1], txs[i])
  BY RemoveForBlockIs
<1> DEFINE Bad == {i \in 0..Len(txs) : ~MinedFrom(m, UpTo(txs, i), f[i])}
<1>2. Bad = {}
  <2> SUFFICES ASSUME Bad # {} PROVE FALSE
    OBVIOUS
  <2>1. PICK i \in Bad : \A k \in Bad : i <= k
    <3>1. Bad \in SUBSET Nat
      OBVIOUS
    <3> HIDE DEF Bad
    <3> QED
      BY <3>1, LeastNatural
  <2>2. i # 0
    <3>1. MinedFrom(m, {}, m)
      BY DEF MinedFrom
    <3>2. UpTo(txs, 0) = {}
      BY DEF UpTo
    <3> QED
      BY <3>1, <3>2, <1>1
  <2>3. i \in 1..Len(txs) /\ i - 1 \in 0..Len(txs) /\ i - 1 \notin Bad
    BY <2>1, <2>2
  <2>4. MinedFrom(m, UpTo(txs, i - 1), f[i - 1]) /\ txs[i] \in Tx
    BY <2>3
  <2>5. UpTo(txs, i) = UpTo(txs, i - 1) \cup {txs[i]}
    BY <2>3 DEF UpTo
  <2>6. f[i] = RemoveMined(f[i - 1], txs[i])
    BY <1>1, <2>3
  <2>7. MinedFrom(m, UpTo(txs, i), f[i])
    BY <2>4, <2>5, <2>6, MinedStep
  <2> QED
    BY <2>7, <2>1
<1>3. Len(txs) \in 0..Len(txs)
  OBVIOUS
<1> QED
  BY <1>1, <1>2, <1>3

-----------------------------------------------------------------------------
(* UpdateTransactionsFromBlock.                                             *)

\* No link is missing but those from an entry of P to an entry outside of M.
LinkedButFrom(m, P, M) ==
    \A p, c \in m.tx : Spends(c, p) => p \in m.parents[c] \/ (p \in P /\ c \notin M)

\* What UpdateOne does to the links of t.
Linked(m, t, block) ==
    LET new == SpendersOf(m, t) \ block
    IN  [m EXCEPT !.children[t] = @ \cup new,
                  !.parents = [c \in Tx |-> IF c \in new THEN @[c] \cup {t} ELSE @[c]]]

\* A round links the children; the totals are all it changes besides.
LEMMA UpdateOneIs ==
    ASSUME NEW m, IsPool(m), NEW t \in m.tx, NEW block
    PROVE  IsPool(UpdateOne(m, t, block)) /\ SameStructure(Linked(m, t, block), UpdateOne(m, t, block))
<1> DEFINE x == Linked(m, t, block)
           r == UpdateOne(m, t, block)
           more == AddedDescendants(x, t, block)
           sum == FeesOf(x, more)
<1>1. IsPool(x)
  BY DEF IsPool, Linked
<1>2. r = IF TooMany(x, t, block)
          THEN [x EXCEPT !.count[t] = 0, !.fees[t] = ModifiedFee(m, t)]
          ELSE Counted(x, {t}, Cardinality(more), sum)
  BY Zenon DEF UpdateOne, Linked
<1> HIDE DEF x, r, more, sum
<1>3. CASE TooMany(x, t, block)
  <2>1. r = [x EXCEPT !.count[t] = 0, !.fees[t] = ModifiedFee(m, t)]
    BY <1>2, <1>3
  <2>2. IsPool(r) /\ SameStructure(x, r)
    BY <1>1, <2>1 DEF IsPool, SameStructure
  <2> QED
    BY <2>2 DEF x, r
<1>4. CASE ~TooMany(x, t, block)
  <2>1. r = Counted(x, {t}, Cardinality(more), sum)
    BY <1>2, <1>4
  <2>2. IsPool(r) /\ SameStructure(x, r)
    BY <1>1, <2>1, CountedIs
  <2> QED
    BY <2>2 DEF x, r
<1> QED
  BY <1>3, <1>4

\* Linking keeps the structure in order, and finishes t.
LEMMA LinkedOk ==
    ASSUME NEW m, PoolOk(m), NEW t \in m.tx, NEW block
    PROVE  /\ PoolOk(Linked(m, t, block)) /\ Linked(m, t, block).tx = m.tx
           /\ Linked(m, t, block).weighted = m.weighted /\ Linked(m, t, block).nextTx = m.nextTx
           /\ \A P, M : block \subseteq M /\ LinkedButFrom(m, P, M)
                          => LinkedButFrom(Linked(m, t, block), P \ {t}, M)
<1> DEFINE r == Linked(m, t, block)
           new == SpendersOf(m, t) \ block
<1>1. IsPool(r)
  BY DEF Linked, IsPool, PoolOk
<1>2. /\ r.tx = m.tx /\ r.weighted = m.weighted /\ r.nextTx = m.nextTx
      /\ r.children = [m.children EXCEPT ![t] = @ \cup new]
      /\ r.parents = [c \in Tx |-> IF c \in new THEN m.parents[c] \cup {t} ELSE m.parents[c]]
  BY DEF Linked, IsPool, PoolOk
<1>3. m.tx \in SUBSET Tx
  BY DEF PoolOk
<1>4. new \in SUBSET m.tx /\ \A c \in m.tx : c \in new <=> Spends(c, t) /\ c \notin block
  BY <1>3, SpendersAre
<1> HIDE DEF r, new
<1>5. r.tx \in SUBSET Tx /\ r.parents \in Links /\ r.children \in Links
  BY <1>2, <1>3, <1>4 DEF PoolOk, Links
<1>6. \A p, c \in Tx : p \in r.parents[c] <=> p \in m.parents[c] \/ (p = t /\ c \in new)
  BY <1>2 DEF PoolOk, Links
<1>7. \A p, c \in Tx : c \in r.children[p] <=> c \in m.children[p] \/ (p = t /\ c \in new)
  BY <1>2 DEF PoolOk, Links
<1>8. LinksSound(r)
  BY <1>2, <1>3, <1>4, <1>6, <1>7 DEF PoolOk, LinksSound
<1>9. IndexExact(r)
  BY <1>2 DEF PoolOk, IndexExact
<1>10. ASSUME NEW P, NEW M, block \subseteq M, LinkedButFrom(m, P, M)
       PROVE  LinkedButFrom(r, P \ {t}, M)
  <2>1. ASSUME NEW p \in m.tx, NEW c \in m.tx, Spends(c, p)
        PROVE  p \in r.parents[c] \/ (p \in P \ {t} /\ c \notin M)
    BY <1>3, <1>4, <1>6, <1>10, <2>1 DEF LinkedButFrom
  <2> QED
    BY <1>2, <2>1 DEF LinkedButFrom
<1>11. PoolOk(r)
  BY <1>1, <1>5, <1>8, <1>9 DEF PoolOk
<1> QED
  BY <1>2, <1>10, <1>11 DEF r

\* What the loop has done to m after the entries of C.
UpdatedFrom(m, C, block, r) ==
    /\ PoolOk(r) /\ r.tx = m.tx /\ r.weighted = m.weighted
    /\ \A M : block \subseteq M /\ LinkedBut(m, M) => LinkedButFrom(r, M \ C, M)

\* One round more.
LEMMA UpdatedStep ==
    ASSUME NEW m, NEW C, NEW block, NEW r, UpdatedFrom(m, C, block, r), NEW t \in Tx
    PROVE  UpdatedFrom(m, C \cup {t}, block, UpdateOne(r, t, block))
<1> DEFINE q == UpdateOne(r, t, block)
<1>1. CASE t \notin r.tx
  <2>1. q = r
    BY <1>1 DEF UpdateOne
  <2>2. ASSUME NEW M, LinkedButFrom(r, M \ C, M) PROVE LinkedButFrom(r, M \ (C \cup {t}), M)
    BY <1>1, <2>2 DEF LinkedButFrom
  <2> HIDE DEF q
  <2> QED
    BY <2>1, <2>2 DEF UpdatedFrom, q
<1>2. CASE t \in r.tx
  <2> DEFINE x == Linked(r, t, block)
  <2>1. IsPool(q) /\ SameStructure(x, q)
    BY <1>2, UpdateOneIs DEF UpdatedFrom, PoolOk
  <2>2. /\ PoolOk(x) /\ x.tx = r.tx /\ x.weighted = r.weighted
        /\ \A P, M : block \subseteq M /\ LinkedButFrom(r, P, M) => LinkedButFrom(x, P \ {t}, M)
    BY <1>2, LinkedOk DEF UpdatedFrom
  <2> HIDE DEF q, x
  <2>3. PoolOk(q)
    BY <2>1, <2>2, SameOk
  <2>4. q.tx = m.tx /\ q.weighted = m.weighted
    BY <2>1, <2>2 DEF UpdatedFrom, SameStructure
  <2>5. ASSUME NEW M, block \subseteq M, LinkedBut(m, M) PROVE LinkedButFrom(q, M \ (C \cup {t}), M)
    <3>1. LinkedButFrom(x, (M \ C) \ {t}, M)
      BY <2>2, <2>5 DEF UpdatedFrom
    <3>2. (M \ C) \ {t} = M \ (C \cup {t})
      OBVIOUS
    <3> QED
      BY <3>1, <3>2, <2>1 DEF LinkedButFrom, SameStructure
  <2> QED
    BY <2>3, <2>4, <2>5 DEF UpdatedFrom, q
<1> QED
  BY <1>1, <1>2

\* The loop of UpdateTransactionsFromBlock.
IsUpdate(m, hs, n, f) ==
    f = [i \in 0..n |-> IF i = 0 THEN m ELSE UpdateOne(f[i - 1], hs[Len(hs) + 1 - i], ToSet(hs))]

\* The recursion of UpdateTransactionsFromBlock has a solution.
LEMMA UpdateExists ==
    ASSUME NEW m, NEW hs
    PROVE  \A n \in Nat : \E f : IsUpdate(m, hs, n, f)
<1> DEFINE Bad == {n \in Nat : ~\E f : IsUpdate(m, hs, n, f)}
           At(x, i) == UpdateOne(x, hs[Len(hs) + 1 - i], ToSet(hs))
<1> SUFFICES ASSUME Bad # {} PROVE FALSE
  OBVIOUS
<1>1. PICK n \in Bad : \A k \in Bad : n <= k
  <2>1. Bad \in SUBSET Nat
    OBVIOUS
  <2> HIDE DEF Bad
  <2> QED
    BY <2>1, LeastNatural
<1>2. n # 0
  <2>1. IsUpdate(m, hs, 0, [i \in 0..0 |-> m])
    BY DEF IsUpdate
  <2> QED
    BY <2>1
<1>3. PICK f : IsUpdate(m, hs, n - 1, f)
  BY <1>1, <1>2
<1> DEFINE g == [i \in 0..n |-> IF i = n THEN At(f[n - 1], n) ELSE f[i]]
<1>4. \A i \in 0..(n - 1) : f[i] = IF i = 0 THEN m ELSE At(f[i - 1], i)
  <2> HIDE DEF Bad, g
  <2> QED
    BY <1>3, Zenon DEF IsUpdate
<1> HIDE DEF At
<1>5. \A i \in 0..(n - 1) : g[i] = f[i]
  BY <1>2
<1>6. g[n] = At(f[n - 1], n) /\ g[n - 1] = f[n - 1]
  BY <1>2, <1>5
<1>7. g = [i \in 0..n |-> g[i]]
  OBVIOUS
<1> HIDE DEF g
<1>8. ASSUME NEW i \in 0..n PROVE g[i] = IF i = 0 THEN m ELSE At(g[i - 1], i)
  <2>1. CASE i = n
    BY <1>2, <1>6, <2>1
  <2>2. CASE i # n
    <3>1. i \in 0..(n - 1) /\ (i # 0 => i - 1 \in 0..(n - 1))
      BY <2>2
    <3> QED
      BY <3>1, <1>4, <1>5
  <2> QED
    BY <2>1, <2>2
<1>9. IsUpdate(m, hs, n, g)
  <2>1. g = [i \in 0..n |-> IF i = 0 THEN m ELSE At(g[i - 1], i)]
    BY <1>7, <1>8
  <2> QED
    BY <2>1, Zenon DEF IsUpdate, At
<1> QED
  BY <1>9

\* UpdateTransactionsFromBlock goes through the list from its end.
LEMMA UpdateFromBlockIs ==
    ASSUME NEW m, NEW hs \in Seq(Tx)
    PROVE  \E f : /\ UpdateTransactionsFromBlock(m, hs) = f[Len(hs)] /\ f[0] = m
                  /\ \A i \in 1..Len(hs) : f[i] = UpdateOne(f[i - 1], hs[Len(hs) + 1 - i], ToSet(hs))
<1> DEFINE F == CHOOSE f : f = [i \in 0..Len(hs) |->
                    IF i = 0 THEN m ELSE UpdateOne(f[i - 1], hs[Len(hs) + 1 - i], ToSet(hs))]
<1>1. Len(hs) \in Nat
  OBVIOUS
<1>2. \E f : f = [i \in 0..Len(hs) |->
                    IF i = 0 THEN m ELSE UpdateOne(f[i - 1], hs[Len(hs) + 1 - i], ToSet(hs))]
  <2>1. \E f : IsUpdate(m, hs, Len(hs), f)
    BY <1>1, UpdateExists
  <2> QED
    BY <2>1, Zenon DEF IsUpdate
<1>3. F = [i \in 0..Len(hs) |-> IF i = 0 THEN m ELSE UpdateOne(F[i - 1], hs[Len(hs) + 1 - i], ToSet(hs))]
  BY <1>2, Zenon
<1>4. UpdateTransactionsFromBlock(m, hs) = F[Len(hs)]
  BY Zenon DEF UpdateTransactionsFromBlock
<1> HIDE DEF F
<1>5. \A i \in 0..Len(hs) :
         F[i] = IF i = 0 THEN m ELSE UpdateOne(F[i - 1], hs[Len(hs) + 1 - i], ToSet(hs))
  BY <1>3, Zenon
<1>6. F[0] = m /\ \A i \in 1..Len(hs) : F[i] = UpdateOne(F[i - 1], hs[Len(hs) + 1 - i], ToSet(hs))
  BY <1>1, <1>5
<1> QED
  BY <1>4, <1>6

\* The last i transactions of a sequence.
LastOf(hs, i) == {hs[Len(hs) + 1 - j] : j \in 1..i}

\* What UpdateTransactionsFromBlock leaves.
LEMMA UpdatedFromBlock ==
    ASSUME NEW m, PoolOk(m), NEW hs \in Seq(Tx)
    PROVE  UpdatedFrom(m, ToSet(hs), ToSet(hs), UpdateTransactionsFromBlock(m, hs))
<1>1. PICK f : /\ UpdateTransactionsFromBlock(m, hs) = f[Len(hs)] /\ f[0] = m
               /\ \A i \in 1..Len(hs) : f[i] = UpdateOne(f[i - 1], hs[Len(hs) + 1 - i], ToSet(hs))
  BY UpdateFromBlockIs
<1> DEFINE Bad == {i \in 0..Len(hs) : ~UpdatedFrom(m, LastOf(hs, i), ToSet(hs), f[i])}
<1>2. Bad = {}
  <2> SUFFICES ASSUME Bad # {} PROVE FALSE
    OBVIOUS
  <2>1. PICK i \in Bad : \A k \in Bad : i <= k
    <3>1. Bad \in SUBSET Nat
      OBVIOUS
    <3> HIDE DEF Bad
    <3> QED
      BY <3>1, LeastNatural
  <2>2. i # 0
    <3>1. UpdatedFrom(m, {}, ToSet(hs), m)
      BY DEF UpdatedFrom, LinkedBut, LinkedButFrom
    <3>2. LastOf(hs, 0) = {}
      BY DEF LastOf
    <3> QED
      BY <3>1, <3>2, <1>1
  <2>3. i \in 1..Len(hs) /\ i - 1 \in 0..Len(hs) /\ i - 1 \notin Bad
    BY <2>1, <2>2
  <2>4. UpdatedFrom(m, LastOf(hs, i - 1), ToSet(hs), f[i - 1])
    BY <2>3
  <2>5. Len(hs) + 1 - i \in 1..Len(hs) /\ hs[Len(hs) + 1 - i] \in Tx
    BY <2>3
  <2>6. LastOf(hs, i) = LastOf(hs, i - 1) \cup {hs[Len(hs) + 1 - i]}
    BY <2>3 DEF LastOf
  <2>7. f[i] = UpdateOne(f[i - 1], hs[Len(hs) + 1 - i], ToSet(hs))
    BY <1>1, <2>3
  <2>8. UpdatedFrom(m, LastOf(hs, i), ToSet(hs), f[i])
    BY <2>4, <2>5, <2>6, <2>7, UpdatedStep
  <2> QED
    BY <2>8, <2>1
<1>3. LastOf(hs, Len(hs)) = ToSet(hs)
  <2>1. \A j \in 1..Len(hs) : Len(hs) + 1 - j \in 1..Len(hs) /\ Len(hs) + 1 - (Len(hs) + 1 - j) = j
    OBVIOUS
  <2>2. ToSet(hs) = {hs[j] : j \in 1..Len(hs)}
    BY DEF ToSet
  <2> QED
    BY <2>1, <2>2 DEF LastOf
<1>4. Len(hs) \in 0..Len(hs)
  OBVIOUS
<1>5. UpdatedFrom(m, LastOf(hs, Len(hs)), ToSet(hs), f[Len(hs)])
  BY <1>2, <1>4
<1> QED
  BY <1>1, <1>3, <1>5

-----------------------------------------------------------------------------
(* The chain and its coins.                                                 *)

\* A block adds its transactions to those confirmed below it.
LEMMA ConfirmedStep ==
    ASSUME NEW b \in Block, b # Genesis
    PROVE  /\ Confirmed(b) = Confirmed(pprev[b]) \cup ToSet(vtx[b])
           /\ ToSet(vtx[b]) \in SUBSET Tx /\ ToSet(vtx[b]) = UpTo(vtx[b], Len(vtx[b]))
           /\ ToSet(vtx[b]) \cap Confirmed(pprev[b]) = {}
<1>1. Ancestors[b] = Ancestors[pprev[b]] \cup {b}
  BY ParentStep
<1>2. vtx[b] \in Seq(Tx)
  BY MempoolAssumption
<1>3. ToSet(vtx[b]) = {vtx[b][i] : i \in 1..Len(vtx[b])}
  BY <1>2 DEF ToSet
<1>4. Confirmed(b) = Confirmed(pprev[b]) \cup ToSet(vtx[b])
  BY <1>1 DEF Confirmed
<1>5. \A i \in 1..Len(vtx[b]) : vtx[b][i] \notin Confirmed(pprev[b])
  BY BlocksAssumption
<1> QED
  BY <1>2, <1>3, <1>4, <1>5 DEF UpTo

\* What a transaction of a block spends was created below, or before it in the
\* block.
LEMMA BlockSpends ==
    ASSUME NEW b \in Block, b # Genesis, NEW t \in ToSet(vtx[b]), NEW o \in Inputs[t]
    PROVE  Creator[o] \in {NoTx} \cup Confirmed(pprev[b]) \cup ToSet(vtx[b])
<1>1. vtx[b] \in Seq(Tx)
  BY MempoolAssumption
<1>2. ToSet(vtx[b]) = {vtx[b][i] : i \in 1..Len(vtx[b])}
  BY <1>1 DEF ToSet
<1>3. PICK i \in 1..Len(vtx[b]) : t = vtx[b][i]
  BY <1>2
<1>4. Unspent(o, pprev[b]) \/ \E j \in 1..(i - 1) : Creator[o] = vtx[b][j]
  BY <1>3, BlocksAssumption
<1>5. CASE Unspent(o, pprev[b])
  BY <1>5 DEF Unspent
<1>6. CASE \E j \in 1..(i - 1) : Creator[o] = vtx[b][j]
  BY <1>1, <1>2, <1>6
<1> QED
  BY <1>4, <1>5, <1>6

\* What is spent on a chain was created on it.
LEMMA ConfirmedClosed ==
    \A b \in Block : \A t \in Confirmed(b) : \A o \in Inputs[t] : Creator[o] \in {NoTx} \cup Confirmed(b)
<1> DEFINE Closed(b) == \A t \in Confirmed(b) : \A o \in Inputs[t] : Creator[o] \in {NoTx} \cup Confirmed(b)
           Bad == {b \in Block : ~Closed(b)}
<1> SUFFICES ASSUME Bad # {} PROVE FALSE
  OBVIOUS
<1>1. PICK b \in Bad : \A c \in Bad : nHeight[b] <= nHeight[c]
  BY LowestBlock
<1>2. CASE b = Genesis
  <2>1. Confirmed(b) = {}
    BY <1>2, TreeAssumption, BlocksAssumption DEF Confirmed, ToSet
  <2> QED
    BY <1>1, <2>1
<1>3. CASE b # Genesis
  <2>1. pprev[b] \in Block /\ pprev[b] \notin Bad
    BY <1>1, <1>3, ParentStep
  <2>2. Closed(pprev[b])
    BY <2>1
  <2>3. Closed(b)
    BY <1>1, <1>3, <2>2, ConfirmedStep, BlockSpends
  <2> QED
    BY <1>1, <2>3
<1> QED
  BY <1>2, <1>3

\* The coins of the parent, seen from the block.
LEMMA UnspentBelow ==
    ASSUME NEW b \in Block, b # Genesis, NEW o, Unspent(o, b)
    PROVE  Creator[o] \in ToSet(vtx[b]) \/ Unspent(o, pprev[b])
BY ConfirmedStep DEF Unspent

\* And the other way round, for an output that the block does not spend.
LEMMA UnspentAbove ==
    ASSUME NEW b \in Block, b # Genesis, NEW o, \A t \in ToSet(vtx[b]) : o \notin Inputs[t],
           Creator[o] \in ToSet(vtx[b]) \/ Unspent(o, pprev[b])
    PROVE  Unspent(o, b)
<1>1. Confirmed(b) = Confirmed(pprev[b]) \cup ToSet(vtx[b]) /\ ToSet(vtx[b]) \in SUBSET Tx
      /\ ToSet(vtx[b]) \cap Confirmed(pprev[b]) = {}
  BY ConfirmedStep
<1>2. CASE Unspent(o, pprev[b])
  BY <1>1, <1>2 DEF Unspent
<1>3. CASE Creator[o] \in ToSet(vtx[b])
  <2>1. \A t \in Confirmed(pprev[b]) : o \notin Inputs[t]
    <3> SUFFICES ASSUME NEW t \in Confirmed(pprev[b]), o \in Inputs[t] PROVE FALSE
      OBVIOUS
    <3>1. Creator[o] \in {NoTx} \cup Confirmed(pprev[b])
      BY ParentStep, ConfirmedClosed
    <3>2. Creator[o] # NoTx
      BY <1>1, <1>3, PoolAssumption
    <3> QED
      BY <1>1, <1>3, <3>1, <3>2
  <2> QED
    BY <1>1, <1>3, <2>1 DEF Unspent
<1> QED
  BY <1>2, <1>3

\* No transaction of the sequence is in it twice, or spends from a later one.
InOrder(s) == \A i, j \in 1..Len(s) : i < j => s[i] # s[j] /\ ~Spends(s[i], s[j])

\* No transaction of a block spends from a later one.
LEMMA BlockInOrder ==
    ASSUME NEW b \in Block, b # Genesis
    PROVE  InOrder(vtx[b])
<1>1. vtx[b] \in Seq(Tx) /\ ToSet(vtx[b]) = {vtx[b][i] : i \in 1..Len(vtx[b])}
  BY MempoolAssumption DEF ToSet
<1> SUFFICES ASSUME NEW i \in 1..Len(vtx[b]), NEW j \in 1..Len(vtx[b]), i < j
             PROVE  vtx[b][i] # vtx[b][j] /\ ~Spends(vtx[b][i], vtx[b][j])
  BY DEF InOrder
<1>2. \A k, l \in 1..Len(vtx[b]) : k < l => vtx[b][k] # vtx[b][l]
  BY BlocksAssumption
<1>3. ASSUME NEW o \in Inputs[vtx[b][i]], Creator[o] = vtx[b][j] PROVE FALSE
  <2>1. Unspent(o, pprev[b]) \/ \E k \in 1..(i - 1) : Creator[o] = vtx[b][k]
    BY BlocksAssumption
  <2>2. CASE Unspent(o, pprev[b])
    <3>1. Creator[o] \in {NoTx} \cup Confirmed(pprev[b])
      BY <2>2 DEF Unspent
    <3>2. vtx[b][j] \in ToSet(vtx[b]) /\ vtx[b][j] \in Tx
      BY <1>1
    <3> QED
      BY <1>3, <3>1, <3>2, ConfirmedStep, PoolAssumption
  <2>3. CASE \E k \in 1..(i - 1) : Creator[o] = vtx[b][k]
    <3>1. PICK k \in 1..(i - 1) : Creator[o] = vtx[b][k]
      BY <2>3
    <3>2. k \in 1..Len(vtx[b]) /\ k < j
      BY <1>1
    <3> QED
      BY <1>2, <1>3, <3>1, <3>2
  <2> QED
    BY <2>1, <2>2, <2>3
<1> QED
  BY <1>2, <1>3 DEF Spends

\* The first of a sequence and the others.
LEMMA HeadAndTail ==
    ASSUME NEW s \in Seq(Tx), s # <<>>
    PROVE  /\ Head(s) \in Tx /\ Tail(s) \in Seq(Tx) /\ ToSet(s) = {Head(s)} \cup ToSet(Tail(s))
           /\ InOrder(s) => /\ InOrder(Tail(s)) /\ Head(s) \notin ToSet(Tail(s))
                            /\ \A x \in ToSet(Tail(s)) : ~Spends(Head(s), x)
<1>1. /\ Len(s) \in Nat /\ Len(s) > 0 /\ Head(s) = s[1] /\ Tail(s) \in Seq(Tx) /\ Len(Tail(s)) = Len(s) - 1
      /\ \A i \in 1..Len(Tail(s)) : Tail(s)[i] = s[i + 1]
  OBVIOUS
<1> DEFINE r == Tail(s)
           n == Len(s)
<1>2. ToSet(s) = {s[i] : i \in 1..n} /\ ToSet(r) = {r[i] : i \in 1..Len(r)}
  <2>1. DOMAIN s = 1..n /\ DOMAIN r = 1..Len(r)
    BY <1>1
  <2> HIDE DEF r, n
  <2> QED
    BY <2>1 DEF ToSet
<1>3. s[1] \in Tx
  BY <1>1
<1> HIDE DEF r, n
<1>4. /\ n \in Nat /\ n > 0 /\ Len(r) = n - 1 /\ \A i \in 1..(n - 1) : r[i] = s[i + 1]
  BY <1>1 DEF r, n
<1>5. ToSet(r) = {s[i] : i \in 2..n}
  <2>1. \A i \in 1..(n - 1) : i + 1 \in 2..n
    BY <1>4
  <2>2. \A i \in 2..n : i - 1 \in 1..(n - 1) /\ (i - 1) + 1 = i
    BY <1>4
  <2>3. ToSet(r) = {r[i] : i \in 1..(n - 1)}
    BY <1>2, <1>4
  <2>4. \A x \in ToSet(r) : x \in {s[i] : i \in 2..n}
    BY <1>4, <2>1, <2>3
  <2>5. ASSUME NEW i \in 2..n PROVE s[i] \in ToSet(r)
    <3>1. r[i - 1] = s[i]
      BY <1>4, <2>2
    <3> QED
      BY <2>2, <2>3, <3>1
  <2> QED
    BY <2>4, <2>5
<1>6. ToSet(s) = {s[1]} \cup ToSet(r)
  <2>1. \A i \in 1..n : i = 1 \/ i \in 2..n
    BY <1>4
  <2>2. 1 \in 1..n /\ \A i \in 2..n : i \in 1..n
    BY <1>4
  <2> QED
    BY <1>2, <1>5, <2>1, <2>2
<1>7. ASSUME InOrder(s)
      PROVE  InOrder(r) /\ s[1] \notin ToSet(r) /\ \A x \in ToSet(r) : ~Spends(s[1], x)
  <2>1. \A i, j \in 1..n : i < j => s[i] # s[j] /\ ~Spends(s[i], s[j])
    BY <1>7 DEF InOrder, n
  <2>2. \A j \in 2..n : s[1] # s[j] /\ ~Spends(s[1], s[j])
    BY <1>4, <2>1
  <2>3. \A i, j \in 1..(n - 1) : i < j => r[i] # r[j] /\ ~Spends(r[i], r[j])
    BY <1>4, <2>1
  <2> QED
    BY <1>4, <1>5, <2>2, <2>3 DEF InOrder
<1> QED
  BY <1>1, <1>3, <1>6, <1>7 DEF r

-----------------------------------------------------------------------------
(* The inductive invariant.                                                 *)

AtRest == pc \in {"idle", "limit", "step"}
Coming == pc \in {"resurrect", "limit_resurrected"}

\* Where the chain and its coins are.
ChainPart ==
    /\ pc \in {"idle", "limit", "step", "resurrect", "limit_resurrected"}
    /\ tip \in Block /\ coinsAt \in Block /\ target \in Block /\ disconnected \in BOOLEAN
    /\ toResurrect \in Seq(Tx) /\ vHashUpdate \in Seq(Tx) /\ cutOff \in BOOLEAN
    /\ AtRest => coinsAt = tip
    /\ Coming => tip # Genesis /\ coinsAt = pprev[tip]
    /\ pc = "limit_resurrected" => toResurrect # <<>>

\* The transactions of the block being disconnected that are not in the pool yet,
\* the one that has just been let in taken off.
Rest == IF pc = "limit_resurrected" THEN ToSet(Tail(toResurrect))
        ELSE IF pc = "resurrect" THEN ToSet(toResurrect) ELSE {}

\* Those that have been.
Back == ToSet(vHashUpdate) \cup (IF pc = "limit_resurrected" THEN {Head(toResurrect)} ELSE {})

\* How far the loop over the disconnected block has come.
LoopPart ==
    Coming =>
      /\ InOrder(toResurrect) /\ ToSet(toResurrect) \subseteq ToSet(vtx[tip])
      /\ \A c \in ToSet(vtx[tip]) \ ToSet(toResurrect) : \A t \in ToSet(toResurrect) : ~Spends(c, t)
      /\ mp.tx \cap Rest = {}
      /\ mp.tx \cap ToSet(vtx[tip]) \subseteq Back
      /\ ToSet(vHashUpdate) \subseteq ToSet(vtx[tip])

PoolPart == PoolOk(mp) /\ mp.weighted = mp.tx /\ mp.tx \cap Confirmed(coinsAt) = {}

\* The block whose transactions may lack links to their children.
Unfinished == IF Coming THEN ToSet(vtx[tip]) ELSE {}

FundedPart == ~cutOff => LinkedBut(mp, Unfinished) /\ Funded(mp, coinsAt, Rest)

\* What the next block asks of the entries, as far as it holds on the way.
ValidPart ==
    /\ \A t \in mp.tx : Anchor[t] = NoBlock \/ Anchor[t] \in Ancestors[tip]
    /\ AtRest /\ ~disconnected => \A t \in mp.tx : MinHeight[t] <= nHeight[tip] + 1
    /\ pc \in {"idle", "limit"} => ~disconnected
    /\ pc \in {"idle", "limit"} => \A t \in mp.tx : BranchId[t] = BranchAt(nHeight[tip] + 1)

MempoolInv == ChainPart /\ LoopPart /\ PoolPart /\ FundedPart /\ ValidPart

\* PoolPart, of the next state.
LEMMA PoolPrimed ==
    PoolPart' <=> PoolOk(mp') /\ mp'.weighted = mp'.tx /\ mp'.tx \cap Confirmed(coinsAt') = {}
BY DEF PoolPart, PoolOk, IsPool, IndexExact, LinksSound, Confirmed, ToSet, Spends, Links

\* FundedPart, of the next state.
LEMMA FundedPrimed ==
    FundedPart' <=> (~cutOff' => LinkedBut(mp', Unfinished') /\ Funded(mp', coinsAt', Rest'))
BY DEF FundedPart, LinkedBut, Funded, Unspent, Confirmed, ToSet, Spends

\* LoopPart, of the next state.
LEMMA LoopPrimed ==
    LoopPart' <=>
      (Coming' =>
         /\ InOrder(toResurrect') /\ ToSet(toResurrect') \subseteq ToSet(vtx[tip'])
         /\ \A c \in ToSet(vtx[tip']) \ ToSet(toResurrect') : \A t \in ToSet(toResurrect') : ~Spends(c, t)
         /\ mp'.tx \cap Rest' = {}
         /\ mp'.tx \cap ToSet(vtx[tip']) \subseteq Back'
         /\ ToSet(vHashUpdate') \subseteq ToSet(vtx[tip']))
BY DEF LoopPart, InOrder, ToSet, Spends

\* The empty pool at the first tip.
LEMMA InitOk ==
    Init => MempoolInv
<1> SUFFICES ASSUME Init PROVE MempoolInv
  OBVIOUS
<1>1. pc = "idle" /\ mp = EmptyPool /\ cutOff = FALSE /\ disconnected = FALSE
  BY DEF Init
<1>2. mp.tx = {} /\ mp.weighted = {}
  BY <1>1 DEF EmptyPool
<1>3. ChainPart
  <2>1. toResurrect \in Seq(Tx) /\ vHashUpdate \in Seq(Tx)
    BY DEF Init
  <2>2. tip = Genesis /\ coinsAt = Genesis /\ target = Genesis /\ Genesis \in Block
    BY TreeAssumption DEF Init
  <2> QED
    BY <1>1, <2>1, <2>2 DEF ChainPart, AtRest, Coming
<1>4. LoopPart
  BY <1>1 DEF LoopPart, Coming
<1>5. PoolPart
  BY <1>1, <1>2, EmptyOk DEF PoolPart
<1>6. FundedPart
  <2>1. Unfinished = {}
    BY <1>1 DEF Unfinished, Coming
  <2> QED
    BY <1>1, <1>2, <2>1, EmptyOk DEF FundedPart, Funded
<1>7. ValidPart
  BY <1>1, <1>2 DEF ValidPart
<1> QED
  BY <1>3, <1>4, <1>5, <1>6, <1>7 DEF MempoolInv

\* A transaction that passes AcceptToMemoryPool's checks: nothing in the pool
\* spends its inputs, and it does not spend from itself.
LEMMA AcceptableFine ==
    ASSUME MempoolInv, NEW t \in Tx, NEW limit, Acceptable(t, limit)
    PROVE  /\ t \notin mp.tx /\ t \notin Confirmed(coinsAt) /\ ~Spends(t, t)
           /\ \A o \in Inputs[t] : mp.nextTx[o] = NoTx /\ (Creator[o] \in mp.tx \/ Unspent(o, coinsAt))
           /\ Anchor[t] = NoBlock \/ Anchor[t] \in Ancestors[coinsAt]
           /\ MinHeight[t] <= nHeight[coinsAt] + 1
           /\ BranchId[t] = BranchAt(nHeight[tip] + 1)
<1>1. /\ t \notin mp.tx /\ t \notin Confirmed(coinsAt)
      /\ \A o \in Inputs[t] : mp.nextTx[o] = NoTx /\ (Creator[o] \in mp.tx \/ Unspent(o, coinsAt))
      /\ Anchor[t] = NoBlock \/ Anchor[t] \in Ancestors[coinsAt]
      /\ BranchId[t] = BranchAt(nHeight[tip] + 1)
  BY DEF Acceptable, Available
<1>2. nHeight[coinsAt] + 1 >= MinHeight[t]
  BY DEF Acceptable
<1>3. MinHeight[t] <= nHeight[coinsAt] + 1
  BY <1>2, MempoolAssumption, TreeAssumption DEF MempoolInv, ChainPart
<1>4. ~Spends(t, t)
  BY <1>1, PoolAssumption DEF Spends, Unspent
<1> QED
  BY <1>1, <1>3, <1>4

\* What an accepted transaction makes of the pool.
LEMMA Accepted ==
    ASSUME MempoolInv, NEW t \in Tx, NEW limit, Acceptable(t, limit)
    PROVE  LET r == addUnchecked(mp, t, mapDeltas[t])
           IN  /\ PoolOk(r) /\ r.tx = mp.tx \cup {t} /\ r.weighted = r.tx
               /\ r.tx \cap Confirmed(coinsAt) = {}
               /\ \A W : Funded(mp, coinsAt, W) => Funded(r, coinsAt, W \ {t})
<1> DEFINE r == addUnchecked(mp, t, mapDeltas[t])
<1>1. /\ t \notin mp.tx /\ t \notin Confirmed(coinsAt)
      /\ \A o \in Inputs[t] : mp.nextTx[o] = NoTx /\ (Creator[o] \in mp.tx \/ Unspent(o, coinsAt))
  BY AcceptableFine
<1>2. PoolOk(mp) /\ mp.weighted = mp.tx /\ mp.tx \cap Confirmed(coinsAt) = {} /\ IsPool(mp)
  BY DEF MempoolInv, PoolPart, PoolOk
<1>3. PoolOk(r) /\ r.tx = mp.tx \cup {t}
  BY <1>1, <1>2, AddedOk
<1>4. IsAdded(mp, t, r)
  BY <1>2, AddedIs
<1> HIDE DEF r
<1>5. r.weighted = r.tx
  BY <1>2, <1>4 DEF IsAdded
<1>6. ASSUME NEW W, Funded(mp, coinsAt, W) PROVE Funded(r, coinsAt, W \ {t})
  BY <1>1, <1>3, <1>6 DEF Funded
<1>7. r.tx \cap Confirmed(coinsAt) = {}
  BY <1>1, <1>2, <1>3
<1> QED
  BY <1>3, <1>5, <1>6, <1>7 DEF r

\* A new transaction is accepted.
LEMMA AcceptToMemoryPoolKeeps ==
    ASSUME MempoolInv, NEW t \in Tx, AcceptToMemoryPool(t)
    PROVE  MempoolInv'
<1> DEFINE r == addUnchecked(mp, t, mapDeltas[t])
<1>1. /\ pc = "idle" /\ pc' = "limit" /\ Acceptable(t, 0) /\ mp' = r
      /\ UNCHANGED <<tip, coinsAt, target, disconnected, toResurrect, vHashUpdate, cutOff>>
  BY DEF AcceptToMemoryPool, Idle
<1>2. coinsAt = tip /\ tip \in Block /\ ~disconnected
  BY <1>1 DEF MempoolInv, ChainPart, AtRest, ValidPart
<1>3. /\ PoolOk(r) /\ r.tx = mp.tx \cup {t} /\ r.weighted = r.tx /\ r.tx \cap Confirmed(coinsAt) = {}
      /\ \A W : Funded(mp, coinsAt, W) => Funded(r, coinsAt, W \ {t})
  BY <1>1, Accepted
<1>4. /\ t \notin mp.tx /\ t \notin Confirmed(coinsAt) /\ ~Spends(t, t)
      /\ Anchor[t] = NoBlock \/ Anchor[t] \in Ancestors[tip]
      /\ MinHeight[t] <= nHeight[tip] + 1 /\ BranchId[t] = BranchAt(nHeight[tip] + 1)
  BY <1>1, <1>2, AcceptableFine
<1>5. ChainPart'
  BY <1>1 DEF MempoolInv, ChainPart, AtRest, Coming
<1>6. LoopPart'
  BY <1>1 DEF LoopPart, Coming
<1>7. PoolPart'
  <2> HIDE DEF r
  <2> QED
    BY <1>1, <1>3, PoolPrimed
<1>8. FundedPart'
  <2>1. Rest = {} /\ Unfinished = {} /\ Rest' = {} /\ Unfinished' = {}
    BY <1>1 DEF Rest, Unfinished, Coming
  <2>2. ASSUME ~cutOff PROVE LinkedBut(r, {}) /\ Funded(r, coinsAt, {})
    <3>1. LinkedBut(mp, {}) /\ Funded(mp, coinsAt, {}) /\ PoolOk(mp)
      BY <2>1, <2>2 DEF MempoolInv, FundedPart, PoolPart
    <3>2. \A c \in mp.tx : ~Spends(c, t)
      BY <3>1, <1>4, PoolAssumption DEF Funded, Spends, Unspent
    <3>3. LinkedBut(r, {})
      BY <3>1, <3>2, <1>4, AddedLinked
    <3>4. Funded(r, coinsAt, {} \ {t})
      BY <3>1, <1>3
    <3> QED
      BY <3>3, <3>4
  <2> HIDE DEF r
  <2> QED
    BY <1>1, <2>1, <2>2, FundedPrimed
<1> HIDE DEF r
<1>9. ValidPart'
  BY <1>1, <1>2, <1>3, <1>4 DEF MempoolInv, ValidPart, AtRest
<1> QED
  BY <1>5, <1>6, <1>7, <1>8, <1>9 DEF MempoolInv

\* Steps that only take entries out of the pool, the chain unchanged.
LEMMA ShrinkingKeeps ==
    ASSUME MempoolInv, UNCHANGED <<tip, coinsAt, pc, target, disconnected, toResurrect, vHashUpdate>>,
           cutOff' \in BOOLEAN, PoolOk(mp'), mp'.tx \in SUBSET mp.tx, mp'.weighted = mp'.tx
    PROVE  ChainPart' /\ LoopPart' /\ PoolPart' /\ ValidPart'
<1>1. ChainPart'
  BY DEF MempoolInv, ChainPart, AtRest, Coming
<1>2. Rest' = Rest /\ Back' = Back /\ (Coming' <=> Coming) /\ (AtRest' <=> AtRest)
  BY DEF Rest, Back, Coming, AtRest, ToSet
<1>3. LoopPart'
  BY <1>2, LoopPrimed DEF MempoolInv, LoopPart
<1>4. PoolPart'
  BY PoolPrimed DEF MempoolInv, PoolPart
<1>5. ValidPart'
  BY <1>2 DEF MempoolInv, ValidPart
<1> QED
  BY <1>1, <1>3, <1>4, <1>5

\* EnsureSizeLimit drops an entry with its linked descendants.
LEMMA EvictRandomKeeps ==
    ASSUME MempoolInv, NEW t \in Tx, EvictRandom(t)
    PROVE  MempoolInv'
<1> DEFINE x == [mp EXCEPT !.weighted = @ \ {t}]
           S == Recursive(mp, t)
           r == RemoveStaged(x, S)
<1>1. /\ t \in mp.weighted /\ mp' = RemoveTx(x, t)
      /\ cutOff' = (cutOff \/ \E d \in S : Unlinked(d) # {})
      /\ UNCHANGED <<tip, coinsAt, pc, target, disconnected, toResurrect, vHashUpdate>>
  BY DEF EvictRandom
<1>2. PoolOk(mp) /\ mp.weighted = mp.tx /\ IsPool(mp) /\ t \in mp.tx /\ cutOff \in BOOLEAN
  BY <1>1 DEF MempoolInv, PoolPart, PoolOk, ChainPart
<1>3. /\ IsPool(x) /\ x.tx = mp.tx /\ x.weighted = mp.tx \ {t} /\ x.parents = mp.parents
      /\ x.children = mp.children /\ x.nextTx = mp.nextTx
  BY <1>2 DEF IsPool
<1> HIDE DEF x
<1>4. PoolOk(x)
  BY <1>2, <1>3 DEF PoolOk, IndexExact, LinksSound
<1>5. Recursive(x, t) = S
  BY <1>3 DEF Recursive, CalculateDescendants, SpendersOf
<1>6. mp' = r
  BY <1>1, <1>5 DEF RemoveTx
<1>7. S \in SUBSET mp.tx /\ t \in S /\ ClosedUnder(mp.children, S)
  BY <1>2, RecursiveIs
<1> HIDE DEF S
<1>8. PoolOk(r) /\ r.tx = mp.tx \ S /\ r.weighted = (mp.tx \ {t}) \ S
      /\ \A M : LinkedBut(x, M) => LinkedBut(r, M)
  BY <1>3, <1>4, <1>7, StagedOk
<1>9. ChainPart' /\ LoopPart' /\ PoolPart' /\ ValidPart'
  <2>1. cutOff' \in BOOLEAN
    BY <1>1, <1>2
  <2>2. r.weighted = r.tx /\ r.tx \in SUBSET mp.tx
    BY <1>7, <1>8
  <2> HIDE DEF r
  <2> QED
    BY <1>1, <1>6, <1>8, <2>1, <2>2, ShrinkingKeeps
<1>10. FundedPart'
  <2>1. Rest' = Rest /\ Unfinished' = Unfinished
    BY <1>1 DEF Rest, Unfinished, Coming, ToSet
  <2>2. ASSUME ~cutOff' PROVE LinkedBut(r, Unfinished) /\ Funded(r, coinsAt, Rest)
    <3>1. ~cutOff /\ \A d \in S : Unlinked(d) = {}
      BY <1>1, <1>2, <2>2
    <3>2. LinkedBut(mp, Unfinished) /\ Funded(mp, coinsAt, Rest)
      BY <3>1 DEF MempoolInv, FundedPart
    <3>3. LinkedBut(x, Unfinished) /\ Funded(x, coinsAt, Rest)
      BY <1>3, <3>2 DEF LinkedBut, Funded
    <3>4. TakesSpenders(x, S)
      <4> SUFFICES ASSUME NEW p \in S, NEW c \in mp.tx, Spends(c, p) PROVE c \in S
        BY <1>3 DEF TakesSpenders
      <4>1. p \in Tx
        BY <1>2, <1>7 DEF PoolOk
      <4>2. c \in SpendersOf(mp, p)
        BY <4>1, <1>2, SpendersAre
      <4>3. c \in mp.children[p]
        BY <3>1, <4>2 DEF Unlinked
      <4> QED
        BY <4>3, <1>7 DEF ClosedUnder
    <3>5. Funded(r, coinsAt, Rest)
      BY <1>3, <1>4, <1>7, <3>3, <3>4, StagedFunded
    <3> QED
      BY <1>8, <3>3, <3>5
  <2> HIDE DEF r
  <2> QED
    BY <1>1, <1>6, <2>1, <2>2, FundedPrimed
<1> QED
  BY <1>9, <1>10 DEF MempoolInv

\* A change of priority.
LEMMA PrioritiseTransactionKeeps ==
    ASSUME MempoolInv, NEW t, PrioritiseTransaction(t)
    PROVE  MempoolInv'
<1>1. /\ mp' = IF t \in mp.tx THEN Prioritised(mp, t, 1) ELSE mp
      /\ UNCHANGED <<tip, coinsAt, pc, target, disconnected, toResurrect, vHashUpdate, cutOff>>
  BY DEF PrioritiseTransaction
<1>2. PoolOk(mp) /\ mp.weighted = mp.tx /\ IsPool(mp) /\ cutOff \in BOOLEAN
  BY DEF MempoolInv, PoolPart, PoolOk, ChainPart
<1>3. IsPool(mp') /\ SameStructure(mp, mp')
  <2>1. CASE t \in mp.tx
    BY <1>1, <1>2, <2>1, PrioritisedIs
  <2>2. CASE t \notin mp.tx
    BY <1>1, <1>2, <2>2 DEF SameStructure
  <2> QED
    BY <2>1, <2>2
<1>4. PoolOk(mp') /\ \A M : LinkedBut(mp, M) => LinkedBut(mp', M)
  BY <1>2, <1>3, SameOk
<1>5. ChainPart' /\ LoopPart' /\ PoolPart' /\ ValidPart'
  <2>1. mp'.tx \in SUBSET mp.tx /\ mp'.weighted = mp'.tx
    BY <1>2, <1>3 DEF SameStructure
  <2> QED
    BY <1>1, <1>2, <1>4, <2>1, ShrinkingKeeps
<1>6. FundedPart'
  <2>1. Rest' = Rest /\ Unfinished' = Unfinished
    BY <1>1 DEF Rest, Unfinished, Coming, ToSet
  <2>2. \A b, W : Funded(mp, b, W) => Funded(mp', b, W)
    BY <1>3 DEF SameStructure, Funded
  <2> QED
    BY <1>1, <1>4, <2>1, <2>2, FundedPrimed DEF MempoolInv, FundedPart
<1> QED
  BY <1>5, <1>6 DEF MempoolInv

\* The elements of a list with one more.
LEMMA AppendedSet ==
    ASSUME NEW s \in Seq(Tx), NEW t \in Tx
    PROVE  Append(s, t) \in Seq(Tx) /\ ToSet(Append(s, t)) = ToSet(s) \cup {t}
<1> DEFINE r == Append(s, t)
           n == Len(s)
<1>1. /\ r \in Seq(Tx) /\ n \in Nat /\ DOMAIN s = 1..n /\ DOMAIN r = 1..(n + 1) /\ r[n + 1] = t
      /\ \A i \in 1..n : r[i] = s[i]
  OBVIOUS
<1> HIDE DEF r, n
<1>2. \A x \in ToSet(r) : x \in ToSet(s) \cup {t}
  BY <1>1 DEF ToSet
<1>3. \A x \in ToSet(s) : x \in ToSet(r)
  <2> SUFFICES ASSUME NEW i \in 1..n PROVE s[i] \in ToSet(r)
    BY <1>1 DEF ToSet
  <2>1. i \in 1..(n + 1) /\ r[i] = s[i]
    BY <1>1
  <2> QED
    BY <1>1, <2>1 DEF ToSet
<1>4. t \in ToSet(r)
  <2>1. n + 1 \in 1..(n + 1)
    BY <1>1
  <2> QED
    BY <1>1, <2>1 DEF ToSet
<1> QED
  BY <1>1, <1>2, <1>3, <1>4 DEF r

\* EnsureSizeLimit has nothing (more) to drop.
LEMMA WithinLimitKeeps ==
    ASSUME MempoolInv, WithinLimit
    PROVE  MempoolInv'
<1>1. UNCHANGED <<tip, coinsAt, mp, target, disconnected, cutOff>>
  BY DEF WithinLimit
<1>2. CASE pc = "limit"
  <2>1. pc' = "idle" /\ UNCHANGED <<toResurrect, vHashUpdate>>
    BY <1>2 DEF WithinLimit
  <2>2. ChainPart' /\ LoopPart'
    BY <1>1, <1>2, <2>1 DEF MempoolInv, ChainPart, LoopPart, AtRest, Coming
  <2>3. PoolPart'
    BY <1>1, PoolPrimed DEF MempoolInv, PoolPart
  <2>4. FundedPart'
    <3>1. Rest = {} /\ Rest' = {} /\ Unfinished = {} /\ Unfinished' = {}
      BY <1>2, <2>1 DEF Rest, Unfinished, Coming
    <3> QED
      BY <1>1, <3>1, FundedPrimed DEF MempoolInv, FundedPart
  <2>5. ValidPart'
    BY <1>1, <1>2, <2>1 DEF MempoolInv, ValidPart, AtRest
  <2> QED
    BY <2>2, <2>3, <2>4, <2>5 DEF MempoolInv
<1>3. CASE pc = "limit_resurrected"
  <2> DEFINE t == Head(toResurrect)
             B == ToSet(vtx[tip])
  <2>1. /\ pc' = "resurrect" /\ toResurrect' = Tail(toResurrect)
        /\ vHashUpdate' = IF t \in mp.tx THEN Append(vHashUpdate, t) ELSE vHashUpdate
    BY <1>3 DEF WithinLimit
  <2>2. /\ toResurrect \in Seq(Tx) /\ toResurrect # <<>> /\ vHashUpdate \in Seq(Tx)
        /\ InOrder(toResurrect) /\ ToSet(toResurrect) \subseteq B
        /\ \A c \in B \ ToSet(toResurrect) : \A u \in ToSet(toResurrect) : ~Spends(c, u)
        /\ mp.tx \cap Rest = {} /\ mp.tx \cap B \subseteq ToSet(vHashUpdate) \cup {t}
        /\ ToSet(vHashUpdate) \subseteq B
    BY <1>3 DEF MempoolInv, ChainPart, LoopPart, Coming, Back
  <2>3. /\ t \in Tx /\ Tail(toResurrect) \in Seq(Tx)
        /\ ToSet(toResurrect) = {t} \cup ToSet(Tail(toResurrect))
        /\ InOrder(Tail(toResurrect)) /\ t \notin ToSet(Tail(toResurrect))
        /\ \A u \in ToSet(Tail(toResurrect)) : ~Spends(t, u)
    BY <2>2, HeadAndTail
  <2> HIDE DEF t, B
  <2>4. Rest = ToSet(toResurrect') /\ Rest' = ToSet(toResurrect')
    BY <1>3, <2>1 DEF Rest, ToSet
  <2>5. vHashUpdate' \in Seq(Tx) /\ ToSet(vHashUpdate') \subseteq B
        /\ mp.tx \cap B \subseteq ToSet(vHashUpdate')
    <3>1. CASE t \in mp.tx
      BY <2>1, <2>2, <2>3, <3>1, AppendedSet
    <3>2. CASE t \notin mp.tx
      BY <2>1, <2>2, <3>2
    <3> QED
      BY <3>1, <3>2
  <2>6. ChainPart'
    BY <1>1, <1>3, <2>1, <2>3, <2>5 DEF MempoolInv, ChainPart, AtRest, Coming
  <2>7. LoopPart'
    <3>1. InOrder(toResurrect') /\ ToSet(toResurrect') \subseteq B
      BY <2>1, <2>2, <2>3
    <3>2. \A c \in B \ ToSet(toResurrect') : \A u \in ToSet(toResurrect') : ~Spends(c, u)
      BY <2>1, <2>2, <2>3
    <3>3. mp'.tx \cap Rest' = {} /\ mp'.tx \cap B \subseteq ToSet(vHashUpdate')
      BY <1>1, <2>2, <2>4, <2>5
    <3>4. Back' = ToSet(vHashUpdate')
      BY <2>1 DEF Back, ToSet
    <3>5. ToSet(vtx[tip']) = B
      BY <1>1 DEF B
    <3> QED
      BY <2>5, <3>1, <3>2, <3>3, <3>4, <3>5, LoopPrimed
  <2>8. PoolPart'
    BY <1>1, PoolPrimed DEF MempoolInv, PoolPart
  <2>9. FundedPart'
    <3>1. Unfinished = B /\ Unfinished' = B
      BY <1>1, <1>3, <2>1 DEF Unfinished, Coming, B, ToSet
    <3> QED
      BY <1>1, <2>4, <3>1, FundedPrimed DEF MempoolInv, FundedPart
  <2>10. ValidPart'
    BY <1>1, <1>3, <2>1 DEF MempoolInv, ValidPart, AtRest
  <2> QED
    BY <2>6, <2>7, <2>8, <2>9, <2>10 DEF MempoolInv
<1> QED
  BY <1>2, <1>3 DEF WithinLimit

\* Steps that leave pool, chain and loop alone.
LEMMA SameKeeps ==
    ASSUME MempoolInv, UNCHANGED <<tip, coinsAt, mp, pc, target, disconnected, toResurrect, vHashUpdate,
                                   cutOff>>
    PROVE  MempoolInv'
<1>1. PoolOk(mp') /\ mp'.tx \in SUBSET mp.tx /\ mp'.weighted = mp'.tx /\ cutOff' \in BOOLEAN
  BY DEF MempoolInv, PoolPart, ChainPart
<1>2. ChainPart' /\ LoopPart' /\ PoolPart' /\ ValidPart'
  BY <1>1, ShrinkingKeeps
<1>3. Rest' = Rest /\ Unfinished' = Unfinished
  BY DEF Rest, Unfinished, Coming, ToSet
<1>4. FundedPart'
  BY <1>3, FundedPrimed DEF MempoolInv, FundedPart
<1> QED
  BY <1>2, <1>4 DEF MempoolInv

\* ActivateBestChainStep, or InvalidateBlock, begins.
LEMMA StartStepKeeps ==
    ASSUME MempoolInv, NEW b \in Block, StartStep(b)
    PROVE  MempoolInv'
<1>1. /\ pc = "idle" /\ pc' = "step" /\ target' = b
      /\ UNCHANGED <<tip, coinsAt, mp, disconnected, toResurrect, vHashUpdate, cutOff>>
  BY DEF StartStep, Idle
<1>2. ChainPart' /\ LoopPart'
  BY <1>1 DEF MempoolInv, ChainPart, LoopPart, AtRest, Coming
<1>3. PoolPart'
  BY <1>1, PoolPrimed DEF MempoolInv, PoolPart
<1>4. FundedPart'
  <2>1. Rest = {} /\ Rest' = {} /\ Unfinished = {} /\ Unfinished' = {}
    BY <1>1 DEF Rest, Unfinished, Coming
  <2> QED
    BY <1>1, <2>1, FundedPrimed DEF MempoolInv, FundedPart
<1>5. ValidPart'
  BY <1>1 DEF MempoolInv, ValidPart, AtRest
<1> QED
  BY <1>2, <1>3, <1>4, <1>5 DEF MempoolInv

\* A block leaves the coins; its transactions are to come back.
LEMMA DisconnectTipKeeps ==
    ASSUME MempoolInv, DisconnectTip
    PROVE  MempoolInv'
<1> DEFINE B == ToSet(vtx[tip])
<1>1. /\ pc = "step" /\ pc' = "resurrect" /\ tip \notin Ancestors[target] /\ coinsAt' = pprev[tip]
      /\ toResurrect' = vtx[tip] /\ vHashUpdate' = <<>>
      /\ UNCHANGED <<tip, mp, target, disconnected, cutOff>>
  BY DEF DisconnectTip
<1>2. coinsAt = tip /\ tip \in Block /\ target \in Block
  BY <1>1 DEF MempoolInv, ChainPart, AtRest
<1>3. tip # Genesis /\ pprev[tip] \in Block
  BY <1>1, <1>2, RootedAtGenesis, ParentStep
<1>4. /\ Confirmed(tip) = Confirmed(pprev[tip]) \cup B /\ InOrder(vtx[tip]) /\ vtx[tip] \in Seq(Tx)
  BY <1>2, <1>3, ConfirmedStep, BlockInOrder, MempoolAssumption
<1>5. mp.tx \cap Confirmed(tip) = {}
  BY <1>2 DEF MempoolInv, PoolPart
<1>6. vHashUpdate' \in Seq(Tx) /\ ToSet(vHashUpdate') = {}
  BY <1>1 DEF ToSet
<1>7. ChainPart'
  BY <1>1, <1>2, <1>3, <1>4, <1>6 DEF MempoolInv, ChainPart, AtRest, Coming
<1>8. Rest' = B /\ Rest = {} /\ Unfinished' = B /\ Unfinished = {} /\ Back' = {}
  BY <1>1, <1>6 DEF Rest, Unfinished, Coming, Back, ToSet
<1> HIDE DEF B
<1>9. LoopPart'
  <2>1. ToSet(vtx[tip']) = B /\ ToSet(toResurrect') = B /\ InOrder(toResurrect')
    BY <1>1, <1>4 DEF B
  <2>2. mp'.tx \cap B = {}
    BY <1>1, <1>4, <1>5
  <2> QED
    BY <1>6, <1>8, <2>1, <2>2, LoopPrimed
<1>10. PoolPart'
  <2>1. mp.tx \cap Confirmed(pprev[tip]) = {}
    BY <1>4, <1>5
  <2> QED
    BY <1>1, <2>1, PoolPrimed DEF MempoolInv, PoolPart
<1>11. FundedPart'
  <2> SUFFICES ASSUME ~cutOff PROVE LinkedBut(mp, B) /\ Funded(mp, pprev[tip], B)
    BY <1>1, <1>8, FundedPrimed
  <2>1. LinkedBut(mp, {}) /\ Funded(mp, tip, {})
    BY <1>2, <1>8 DEF MempoolInv, FundedPart
  <2>2. LinkedBut(mp, B)
    BY <2>1 DEF LinkedBut
  <2>3. \A o : Unspent(o, tip) => Creator[o] \in B \/ Unspent(o, pprev[tip])
    BY <1>2, <1>3, UnspentBelow DEF B
  <2>4. Funded(mp, pprev[tip], B)
    BY <2>1, <2>3 DEF Funded
  <2> QED
    BY <2>2, <2>4
<1>12. ValidPart'
  BY <1>1 DEF MempoolInv, ValidPart, AtRest
<1> QED
  BY <1>7, <1>9, <1>10, <1>11, <1>12 DEF MempoolInv

\* What the loop knows of the transaction it comes to: it is not in the pool, and
\* no transaction of its block that is back spends from it.
LEMMA NextToReturn ==
    ASSUME MempoolInv, pc = "resurrect", toResurrect # <<>>
    PROVE  /\ Head(toResurrect) \in ToSet(vtx[tip]) /\ Head(toResurrect) \in Tx
           /\ Head(toResurrect) \notin mp.tx
           /\ \A c \in mp.tx : Spends(c, Head(toResurrect)) => c \notin ToSet(vtx[tip])
           /\ Rest = ToSet(toResurrect) /\ Unfinished = ToSet(vtx[tip])
           /\ ToSet(toResurrect) = {Head(toResurrect)} \cup ToSet(Tail(toResurrect))
           /\ Head(toResurrect) \notin ToSet(Tail(toResurrect))
           /\ \A x \in ToSet(Tail(toResurrect)) : ~Spends(Head(toResurrect), x)
           /\ Tail(toResurrect) \in Seq(Tx) /\ InOrder(Tail(toResurrect))
<1>1. Coming /\ Rest = ToSet(toResurrect) /\ Unfinished = ToSet(vtx[tip])
  BY DEF Coming, Rest, Unfinished
<1>2. /\ toResurrect \in Seq(Tx) /\ InOrder(toResurrect) /\ ToSet(toResurrect) \subseteq ToSet(vtx[tip])
      /\ \A c \in ToSet(vtx[tip]) \ ToSet(toResurrect) : \A t \in ToSet(toResurrect) : ~Spends(c, t)
      /\ mp.tx \cap ToSet(toResurrect) = {}
  BY <1>1 DEF MempoolInv, ChainPart, LoopPart
<1>3. /\ Head(toResurrect) \in Tx /\ Tail(toResurrect) \in Seq(Tx)
      /\ ToSet(toResurrect) = {Head(toResurrect)} \cup ToSet(Tail(toResurrect))
      /\ InOrder(Tail(toResurrect)) /\ Head(toResurrect) \notin ToSet(Tail(toResurrect))
      /\ \A x \in ToSet(Tail(toResurrect)) : ~Spends(Head(toResurrect), x)
  BY <1>2, HeadAndTail
<1>4. \A c \in mp.tx : Spends(c, Head(toResurrect)) => c \notin ToSet(vtx[tip])
  BY <1>2, <1>3
<1> QED
  BY <1>1, <1>2, <1>3, <1>4

\* A transaction of the disconnected block comes back.
LEMMA ReturnKeeps ==
    ASSUME MempoolInv, pc = "resurrect", toResurrect # <<>>,
           Acceptable(Head(toResurrect), ResurrectAbsurdFee),
           mp' = addUnchecked(mp, Head(toResurrect), mapDeltas[Head(toResurrect)]),
           pc' = "limit_resurrected",
           UNCHANGED <<tip, coinsAt, target, disconnected, toResurrect, vHashUpdate, cutOff>>
    PROVE  MempoolInv'
<1> DEFINE t == Head(toResurrect)
           r == addUnchecked(mp, t, mapDeltas[t])
           B == ToSet(vtx[tip])
<1>1. /\ t \in B /\ t \in Tx /\ t \notin mp.tx
      /\ \A c \in mp.tx : Spends(c, t) => c \notin B
      /\ Rest = ToSet(toResurrect) /\ Unfinished = B
      /\ ToSet(toResurrect) = {t} \cup ToSet(Tail(toResurrect)) /\ t \notin ToSet(Tail(toResurrect))
  BY NextToReturn
<1>2. tip \in Block /\ tip # Genesis /\ coinsAt = pprev[tip] /\ PoolOk(mp)
  BY DEF MempoolInv, ChainPart, Coming, PoolPart
<1>3. /\ InOrder(toResurrect) /\ ToSet(toResurrect) \subseteq B
      /\ \A c \in B \ ToSet(toResurrect) : \A u \in ToSet(toResurrect) : ~Spends(c, u)
      /\ mp.tx \cap ToSet(toResurrect) = {} /\ mp.tx \cap B \subseteq ToSet(vHashUpdate)
      /\ ToSet(vHashUpdate) \subseteq B
  BY <1>1 DEF MempoolInv, LoopPart, Coming, Back
<1>4. mp' = r /\ Acceptable(t, ResurrectAbsurdFee)
  OBVIOUS
<1>5. Rest' = ToSet(Tail(toResurrect)) /\ Unfinished' = B /\ Back' = ToSet(vHashUpdate) \cup {t}
  BY DEF Rest, Unfinished, Back, Coming, ToSet
<1>6. ChainPart'
  BY DEF MempoolInv, ChainPart, AtRest, Coming
<1> HIDE DEF t, B
<1>7. /\ PoolOk(r) /\ r.tx = mp.tx \cup {t} /\ r.weighted = r.tx /\ r.tx \cap Confirmed(coinsAt) = {}
      /\ \A W : Funded(mp, coinsAt, W) => Funded(r, coinsAt, W \ {t})
  BY <1>1, <1>4, Accepted
<1>8. ~Spends(t, t) /\ (Anchor[t] = NoBlock \/ Anchor[t] \in Ancestors[coinsAt])
  BY <1>1, <1>4, AcceptableFine
<1>9. PoolPart'
  <2> HIDE DEF r
  <2> QED
    BY <1>4, <1>7, PoolPrimed
<1>10. FundedPart'
  <2>1. ASSUME ~cutOff PROVE LinkedBut(r, B) /\ Funded(r, coinsAt, ToSet(Tail(toResurrect)))
    <3>1. LinkedBut(mp, B) /\ Funded(mp, coinsAt, ToSet(toResurrect))
      BY <1>1, <2>1 DEF MempoolInv, FundedPart
    <3>2. LinkedBut(r, B)
      BY <1>1, <1>2, <1>8, <3>1, AddedLinked
    <3>3. Funded(r, coinsAt, ToSet(toResurrect) \ {t})
      BY <1>7, <3>1
    <3>4. ToSet(toResurrect) \ {t} = ToSet(Tail(toResurrect))
      BY <1>1
    <3> QED
      BY <3>2, <3>3, <3>4
  <2> HIDE DEF r
  <2> QED
    BY <1>4, <1>5, <2>1, FundedPrimed
<1> HIDE DEF r
<1>11. LoopPart'
  <2>1. mp'.tx \cap Rest' = {} /\ mp'.tx \cap B \subseteq Back'
    BY <1>1, <1>3, <1>4, <1>5, <1>7
  <2>2. ToSet(vtx[tip']) = B
    BY DEF B
  <2> QED
    BY <1>3, <2>1, <2>2, LoopPrimed
<1>12. ValidPart'
  <2>1. Ancestors[coinsAt] \subseteq Ancestors[tip]
    BY <1>2, ParentStep
  <2>2. \A u \in mp.tx : Anchor[u] = NoBlock \/ Anchor[u] \in Ancestors[tip]
    BY DEF MempoolInv, ValidPart
  <2>3. \A u \in mp'.tx : Anchor[u] = NoBlock \/ Anchor[u] \in Ancestors[tip']
    BY <1>4, <1>7, <1>8, <2>1, <2>2
  <2> QED
    BY <2>3 DEF ValidPart, AtRest
<1> QED
  BY <1>6, <1>9, <1>10, <1>11, <1>12 DEF MempoolInv

\* One that is not accepted goes, with what spends from it.
LEMMA RejectKeeps ==
    ASSUME MempoolInv, pc = "resurrect", toResurrect # <<>>,
           mp' = RemoveTx(mp, Head(toResurrect)), toResurrect' = Tail(toResurrect),
           UNCHANGED <<tip, coinsAt, pc, target, disconnected, vHashUpdate, cutOff>>
    PROVE  MempoolInv'
<1> DEFINE t == Head(toResurrect)
           B == ToSet(vtx[tip])
           S == Recursive(mp, t)
           r == RemoveStaged(mp, S)
<1>1. /\ t \in B /\ t \in Tx /\ t \notin mp.tx
      /\ \A c \in mp.tx : Spends(c, t) => c \notin B
      /\ Rest = ToSet(toResurrect) /\ Unfinished = B
      /\ ToSet(toResurrect) = {t} \cup ToSet(Tail(toResurrect)) /\ t \notin ToSet(Tail(toResurrect))
      /\ \A x \in ToSet(Tail(toResurrect)) : ~Spends(t, x)
      /\ Tail(toResurrect) \in Seq(Tx) /\ InOrder(Tail(toResurrect))
  BY NextToReturn
<1>2. /\ tip \in Block /\ tip # Genesis /\ coinsAt = pprev[tip] /\ PoolOk(mp) /\ mp.weighted = mp.tx
      /\ mp.tx \cap Confirmed(pprev[tip]) = {} /\ mp.tx \in SUBSET Tx
  BY DEF MempoolInv, ChainPart, Coming, PoolPart, PoolOk
<1>3. /\ InOrder(toResurrect) /\ ToSet(toResurrect) \subseteq B
      /\ \A c \in B \ ToSet(toResurrect) : \A u \in ToSet(toResurrect) : ~Spends(c, u)
      /\ mp.tx \cap ToSet(toResurrect) = {} /\ mp.tx \cap B \subseteq ToSet(vHashUpdate)
      /\ ToSet(vHashUpdate) \subseteq B
  BY <1>1 DEF MempoolInv, LoopPart, Coming, Back
<1>4. mp' = r
  BY DEF RemoveTx
<1>5. Rest' = ToSet(Tail(toResurrect)) /\ Unfinished' = B /\ Back' = ToSet(vHashUpdate)
  BY DEF Rest, Unfinished, Back, Coming, ToSet
<1>6. ChainPart'
  BY <1>1 DEF MempoolInv, ChainPart, AtRest, Coming
<1> HIDE DEF t
<1>7. /\ S \in SUBSET mp.tx /\ ClosedUnder(mp.children, S) /\ SpendersOf(mp, t) \subseteq S
      /\ \A R \in SUBSET Tx : ClosedUnder(mp.children, R) /\ SpendersOf(mp, t) \subseteq R => S \subseteq R
  BY <1>1, <1>2, RecursiveIs
<1> HIDE DEF S
<1>8. PoolOk(r) /\ r.tx = mp.tx \ S /\ r.weighted = mp.weighted \ S
      /\ \A M : LinkedBut(mp, M) => LinkedBut(r, M)
  BY <1>2, <1>7, StagedOk
<1>9. S \cap B = {}
  <2> DEFINE R == mp.tx \ B
  <2>1. SpendersOf(mp, t) \subseteq R
    BY <1>1, <1>2, SpendersAre
  <2>2. ASSUME NEW p \in R, NEW c \in mp.children[p] PROVE c \in R
    <3>1. p \in mp.tx /\ c \in mp.tx /\ Spends(c, p)
      BY <1>2, <2>2 DEF PoolOk, LinksSound, Links
    <3>2. CASE c \in B
      <4>1. PICK o \in Inputs[c] : Creator[o] = p
        BY <3>1 DEF Spends
      <4>2. p \in {NoTx} \cup Confirmed(pprev[tip]) \cup B
        BY <1>2, <3>2, <4>1, BlockSpends
      <4> QED
        BY <1>2, <3>1, <4>2, PoolAssumption
    <3> QED
      BY <3>1, <3>2
  <2>3. ClosedUnder(mp.children, R) /\ R \in SUBSET Tx
    BY <1>2, <2>2 DEF ClosedUnder
  <2>4. S \subseteq R
    BY <1>7, <2>1, <2>3
  <2> QED
    BY <2>4
<1> HIDE DEF B
<1>10. PoolPart'
  <2>1. r.weighted = r.tx /\ r.tx \cap Confirmed(pprev[tip]) = {}
    BY <1>2, <1>8
  <2> HIDE DEF r
  <2> QED
    BY <1>2, <1>4, <1>8, <2>1, PoolPrimed
<1>11. FundedPart'
  <2>1. ASSUME ~cutOff PROVE LinkedBut(r, B) /\ Funded(r, coinsAt, ToSet(Tail(toResurrect)))
    <3>1. LinkedBut(mp, B) /\ Funded(mp, coinsAt, ToSet(toResurrect))
      BY <1>1, <2>1 DEF MempoolInv, FundedPart
    <3>2. TakesSpenders(mp, S)
      BY <1>2, <1>7, <1>9, <3>1, ClosedTakesSpenders
    <3>3. Funded(r, coinsAt, ToSet(toResurrect))
      BY <1>2, <1>7, <3>1, <3>2, StagedFunded
    <3>4. \A c \in r.tx : ~Spends(c, t)
      BY <1>1, <1>2, <1>7, <1>8, SpendersAre
    <3>5. Funded(r, coinsAt, ToSet(Tail(toResurrect)))
      BY <1>1, <3>3, <3>4 DEF Funded, Spends
    <3> QED
      BY <1>8, <3>1, <3>5
  <2> HIDE DEF r
  <2> QED
    BY <1>4, <1>5, <2>1, FundedPrimed
<1> HIDE DEF r
<1>12. LoopPart'
  <2>1. mp'.tx \cap Rest' = {} /\ mp'.tx \cap B \subseteq Back'
    BY <1>1, <1>3, <1>4, <1>5, <1>8
  <2>2. ToSet(vtx[tip']) = B
    BY DEF B
  <2>3. ToSet(toResurrect') \subseteq B
    BY <1>1, <1>3
  <2>4. \A c \in B \ ToSet(toResurrect') : \A u \in ToSet(toResurrect') : ~Spends(c, u)
    BY <1>1, <1>3
  <2> QED
    BY <1>1, <1>3, <2>1, <2>2, <2>3, <2>4, LoopPrimed
<1>13. ValidPart'
  BY <1>4, <1>8 DEF MempoolInv, ValidPart, AtRest
<1> QED
  BY <1>6, <1>10, <1>11, <1>12, <1>13 DEF MempoolInv

\* The next transaction of the disconnected block.
LEMMA ResurrectKeeps ==
    ASSUME MempoolInv, Resurrect
    PROVE  MempoolInv'
<1>1. /\ pc = "resurrect" /\ toResurrect # <<>>
      /\ UNCHANGED <<tip, coinsAt, target, disconnected, vHashUpdate, cutOff>>
  BY DEF Resurrect
<1>2. CASE /\ Acceptable(Head(toResurrect), ResurrectAbsurdFee)
           /\ mp' = addUnchecked(mp, Head(toResurrect), mapDeltas[Head(toResurrect)])
           /\ pc' = "limit_resurrected"
           /\ UNCHANGED toResurrect
  BY <1>1, <1>2, ReturnKeeps
<1>3. CASE mp' = RemoveTx(mp, Head(toResurrect)) /\ toResurrect' = Tail(toResurrect) /\ UNCHANGED pc
  BY <1>1, <1>3, RejectKeeps
<1> QED
  BY <1>2, <1>3 DEF Resurrect

\* The links are repaired, the tip moves down, and anchors of the block go.
LEMMA DisconnectedKeeps ==
    ASSUME MempoolInv, Disconnected
    PROVE  MempoolInv'
<1> DEFINE B == ToSet(vtx[tip])
           H == ToSet(vHashUpdate)
           u == UpdateTransactionsFromBlock(mp, vHashUpdate)
           A == AnchoredIn(tip)
           r == RemoveAll(u, A)
<1>1. /\ pc = "resurrect" /\ toResurrect = <<>> /\ pc' = "step" /\ mp' = r /\ tip' = pprev[tip]
      /\ disconnected' = TRUE /\ vHashUpdate' = <<>>
      /\ UNCHANGED <<coinsAt, target, toResurrect, cutOff>>
  BY DEF Disconnected
<1>2. /\ tip \in Block /\ tip # Genesis /\ coinsAt = pprev[tip] /\ PoolOk(mp) /\ mp.weighted = mp.tx
      /\ mp.tx \cap Confirmed(coinsAt) = {} /\ mp.tx \in SUBSET Tx /\ vHashUpdate \in Seq(Tx)
  BY <1>1 DEF MempoolInv, ChainPart, Coming, PoolPart, PoolOk
<1>3. mp.tx \cap B \subseteq H /\ H \subseteq B
  BY <1>1 DEF MempoolInv, LoopPart, Coming, Back
<1>4. Rest = {} /\ Unfinished = B /\ Rest' = {} /\ Unfinished' = {}
  BY <1>1 DEF Rest, Unfinished, Coming, ToSet
<1>5. UpdatedFrom(mp, H, H, u)
  BY <1>2, UpdatedFromBlock
<1>6. A \in SUBSET Tx /\ A = {t \in mp.tx : Anchor[t] = tip}
  BY <1>2 DEF AnchoredIn
<1>7. ChainPart'
  <2>1. pprev[tip] \in Block
    BY <1>2, ParentStep
  <2>2. vHashUpdate' \in Seq(Tx)
    BY <1>1
  <2> QED
    BY <1>1, <1>2, <2>1, <2>2 DEF MempoolInv, ChainPart, AtRest, Coming
<1> HIDE DEF B, H, u, A
<1>8. PoolOk(u) /\ u.tx = mp.tx /\ u.weighted = mp.weighted
  BY <1>5 DEF UpdatedFrom
<1>a. A \in SUBSET Tx
  BY <1>6
<1>9. /\ PoolOk(r) /\ r.tx \in SUBSET (u.tx \ A) /\ r.weighted = u.weighted \ (u.tx \ r.tx)
      /\ \A M : LinkedBut(u, M) => LinkedBut(r, M)
      /\ \A b, W : LinkedBut(u, {}) /\ Funded(u, b, W) => Funded(r, b, W)
  BY <1>8, <1>a, RemovedAll
<1> HIDE DEF r
<1>10. LoopPart'
  BY <1>1 DEF LoopPart, Coming
<1>11. PoolPart'
  <2>1. r.weighted = r.tx /\ r.tx \cap Confirmed(coinsAt) = {}
    BY <1>2, <1>8, <1>9
  <2> QED
    BY <1>1, <1>9, <2>1, PoolPrimed
<1>12. FundedPart'
  <2>1. ASSUME ~cutOff PROVE LinkedBut(r, {}) /\ Funded(r, coinsAt, {})
    <3>1. LinkedBut(mp, B) /\ Funded(mp, coinsAt, {})
      BY <1>4, <2>1 DEF MempoolInv, FundedPart
    <3>2. LinkedButFrom(u, B \ H, B)
      BY <1>3, <1>5, <3>1 DEF UpdatedFrom
    <3>3. LinkedBut(u, {})
      BY <1>3, <1>8, <3>2 DEF LinkedBut, LinkedButFrom
    <3>4. Funded(u, coinsAt, {})
      BY <1>8, <3>1 DEF Funded
    <3> QED
      BY <1>9, <3>3, <3>4
  <2> QED
    BY <1>1, <1>4, <2>1, FundedPrimed
<1>13. ValidPart'
  <2>1. Ancestors[tip] = Ancestors[pprev[tip]] \cup {tip}
    BY <1>2, ParentStep
  <2>2. \A t \in mp.tx : Anchor[t] = NoBlock \/ Anchor[t] \in Ancestors[tip]
    BY DEF MempoolInv, ValidPart
  <2>3. \A t \in mp'.tx : t \in mp.tx /\ Anchor[t] # tip
    BY <1>1, <1>6, <1>8, <1>9
  <2>4. \A t \in mp'.tx : Anchor[t] = NoBlock \/ Anchor[t] \in Ancestors[tip']
    BY <1>1, <2>1, <2>2, <2>3
  <2> QED
    BY <1>1, <2>4 DEF ValidPart
<1> QED
  BY <1>7, <1>10, <1>11, <1>12, <1>13 DEF MempoolInv

\* The branch goes on above an ancestor that is not its end.
LEMMA NextBlockFound ==
    ASSUME tip \in Block, target \in Block, tip \in Ancestors[target], tip # target
    PROVE  NextBlock \in Block /\ NextBlock # Genesis /\ pprev[NextBlock] = tip
<1>1. /\ nHeight[tip] \in Nat /\ nHeight[target] \in Nat /\ nHeight[tip] <= nHeight[target]
      /\ target \in Ancestors[target]
  BY AncestorsAreBlocks, AncestorsNested
<1>2. nHeight[tip] # nHeight[target]
  BY <1>1, SameHeight
<1>3. nHeight[tip] + 1 \in 0..nHeight[target]
  BY <1>1, <1>2
<1>4. PICK c \in Ancestors[target] : nHeight[c] = nHeight[tip] + 1
  BY <1>3, AncestorAtHeight
<1>5. c \in Block /\ c # Genesis
  BY <1>1, <1>4, AncestorsAreBlocks, TreeAssumption
<1>6. pprev[c] \in Ancestors[target] /\ nHeight[pprev[c]] = nHeight[tip]
  <2>1. pprev[c] \in Ancestors[c]
    BY <1>5, ParentStep, AncestorsAreBlocks
  <2>2. Ancestors[c] \subseteq Ancestors[target]
    BY <1>4, AncestorsNested
  <2> QED
    BY <1>1, <1>4, <1>5, <2>1, <2>2, ParentStep
<1>7. pprev[c] = tip
  BY <1>6, SameHeight
<1>8. NextBlock \in Ancestors[target] /\ pprev[NextBlock] = tip
  BY <1>4, <1>7 DEF NextBlock
<1> QED
  BY <1>8, AncestorsAreBlocks, TreeAssumption

\* A block is connected.
LEMMA ConnectTipKeeps ==
    ASSUME MempoolInv, ConnectTip
    PROVE  MempoolInv'
<1> DEFINE b == NextBlock
           B == ToSet(vtx[b])
           q == RemoveForBlock(mp, vtx[b])
           E == Expired(q, nHeight[b])
           r == RemoveAll(q, E)
<1>1. /\ pc = "step" /\ tip \in Ancestors[target] /\ tip # target
      /\ tip' = b /\ coinsAt' = b /\ mp' = r
      /\ UNCHANGED <<pc, target, disconnected, toResurrect, vHashUpdate, cutOff>>
  BY DEF ConnectTip
<1>2. /\ tip \in Block /\ coinsAt = tip /\ target \in Block /\ PoolOk(mp) /\ mp.weighted = mp.tx
      /\ mp.tx \cap Confirmed(tip) = {} /\ mp.tx \in SUBSET Tx
  BY <1>1 DEF MempoolInv, ChainPart, AtRest, PoolPart, PoolOk
<1>3. b \in Block /\ b # Genesis /\ pprev[b] = tip
  BY <1>1, <1>2, NextBlockFound
<1> HIDE DEF b
<1>4. /\ Confirmed(b) = Confirmed(tip) \cup B /\ B = UpTo(vtx[b], Len(vtx[b]))
      /\ Ancestors[b] = Ancestors[tip] \cup {b} /\ nHeight[b] = nHeight[tip] + 1 /\ vtx[b] \in Seq(Tx)
      /\ nHeight[tip] \in Nat
  BY <1>3, ConfirmedStep, ParentStep, MempoolAssumption
<1>5. MinedFrom(mp, B, q)
  BY <1>2, <1>4, RemovedForBlock
<1> HIDE DEF B, q
<1>6. /\ PoolOk(q) /\ q.weighted = q.tx /\ q.tx \in SUBSET (mp.tx \ B)
      /\ \A u \in q.tx : \A t \in B : ~ShareInputs(t, u)
      /\ LinkedBut(mp, {}) => LinkedBut(q, {})
      /\ \A c : LinkedBut(mp, {}) /\ Funded(mp, c, {}) => Funded(q, c, B)
  BY <1>5 DEF MinedFrom
<1>7. E \in SUBSET Tx
  BY <1>2, <1>6 DEF Expired
<1> HIDE DEF E
<1>8. /\ PoolOk(r) /\ r.tx \in SUBSET (q.tx \ E) /\ r.weighted = q.weighted \ (q.tx \ r.tx)
      /\ LinkedBut(q, {}) => LinkedBut(r, {})
      /\ \A c, W : LinkedBut(q, {}) /\ Funded(q, c, W) => Funded(r, c, W)
  BY <1>6, <1>7, RemovedAll
<1> HIDE DEF r
<1>9. ChainPart'
  BY <1>1, <1>3 DEF MempoolInv, ChainPart, AtRest, Coming
<1>10. LoopPart'
  BY <1>1 DEF LoopPart, Coming
<1>11. PoolPart'
  <2>1. r.weighted = r.tx /\ r.tx \cap Confirmed(b) = {}
    BY <1>2, <1>4, <1>6, <1>8
  <2> QED
    BY <1>1, <1>8, <2>1, PoolPrimed
<1>12. FundedPart'
  <2>1. Rest = {} /\ Unfinished = {} /\ Rest' = {} /\ Unfinished' = {}
    BY <1>1 DEF Rest, Unfinished, Coming
  <2>2. ASSUME ~cutOff PROVE LinkedBut(r, {}) /\ Funded(r, b, {})
    <3>1. LinkedBut(mp, {}) /\ Funded(mp, tip, {})
      BY <1>2, <2>1, <2>2 DEF MempoolInv, FundedPart
    <3>2. LinkedBut(q, {}) /\ Funded(q, tip, B)
      BY <1>6, <3>1
    <3>3. Funded(q, b, {})
      <4> SUFFICES ASSUME NEW u \in q.tx, NEW o \in Inputs[u]
                   PROVE  Creator[o] \in q.tx \cup {} \/ Unspent(o, b)
        BY DEF Funded
      <4>1. Creator[o] \in q.tx \/ Creator[o] \in B \/ Unspent(o, tip)
        BY <3>2 DEF Funded
      <4>2. \A t \in B : o \notin Inputs[t]
        BY <1>6 DEF ShareInputs
      <4>3. CASE Creator[o] \in B \/ Unspent(o, tip)
        BY <1>3, <4>2, <4>3, UnspentAbove DEF B
      <4> QED
        BY <4>1, <4>3
    <3> QED
      BY <1>8, <3>2, <3>3
  <2> QED
    BY <1>1, <2>1, <2>2, FundedPrimed
<1>13. ValidPart'
  <2>1. \A t \in mp'.tx : t \in mp.tx
    BY <1>1, <1>6, <1>8
  <2>2. \A t \in mp'.tx : Anchor[t] = NoBlock \/ Anchor[t] \in Ancestors[tip']
    BY <1>1, <1>4, <2>1 DEF MempoolInv, ValidPart
  <2>3. ASSUME ~disconnected PROVE \A t \in mp'.tx : MinHeight[t] <= nHeight[tip'] + 1
    <3>1. \A t \in mp.tx : MinHeight[t] <= nHeight[tip] + 1 /\ MinHeight[t] \in Nat
      BY <1>1, <1>2, <2>3, MempoolAssumption DEF MempoolInv, ValidPart, AtRest
    <3> QED
      BY <1>1, <1>4, <2>1, <3>1
  <2> QED
    BY <1>1, <2>2, <2>3 DEF ValidPart
<1> QED
  BY <1>9, <1>10, <1>11, <1>12, <1>13 DEF MempoolInv

\* The end of a step: removeForReorg and removeWithoutBranchId.
LEMMA EndStepKeeps ==
    ASSUME MempoolInv, EndStep
    PROVE  MempoolInv'
<1> DEFINE q == IF disconnected THEN RemoveAll(mp, Immature(mp)) ELSE mp
           E == OtherBranch(q)
           r == RemoveAll(q, E)
           h == nHeight[tip] + 1
<1>1. /\ pc = "step" /\ pc' = "idle" /\ disconnected' = FALSE /\ target' = tip /\ mp' = r
      /\ UNCHANGED <<tip, coinsAt, toResurrect, vHashUpdate, cutOff>>
  BY DEF EndStep
<1>2. /\ tip \in Block /\ coinsAt = tip /\ PoolOk(mp) /\ mp.weighted = mp.tx
      /\ mp.tx \cap Confirmed(tip) = {} /\ mp.tx \in SUBSET Tx /\ nHeight[tip] \in Nat
  BY <1>1, AncestorsAreBlocks DEF MempoolInv, ChainPart, AtRest, PoolPart, PoolOk
<1>3. \A t \in mp.tx : MinHeight[t] \in Nat
  BY <1>2, MempoolAssumption
<1>4. /\ PoolOk(q) /\ q.tx \in SUBSET mp.tx /\ q.weighted = q.tx
      /\ LinkedBut(mp, {}) => LinkedBut(q, {})
      /\ \A c, W : LinkedBut(mp, {}) /\ Funded(mp, c, W) => Funded(q, c, W)
      /\ \A t \in q.tx : MinHeight[t] <= h
  <2>1. CASE disconnected
    <3> DEFINE I == Immature(mp)
    <3>1. I \in SUBSET Tx /\ \A t \in mp.tx : t \notin I => MinHeight[t] <= h
      BY <1>2, <1>3 DEF Immature
    <3>2. q = RemoveAll(mp, I)
      BY <2>1
    <3> HIDE DEF q, I
    <3>3. /\ PoolOk(q) /\ q.tx \in SUBSET (mp.tx \ I) /\ q.weighted = mp.weighted \ (mp.tx \ q.tx)
          /\ LinkedBut(mp, {}) => LinkedBut(q, {})
          /\ \A c, W : LinkedBut(mp, {}) /\ Funded(mp, c, W) => Funded(q, c, W)
      BY <1>2, <3>1, <3>2, RemovedAll
    <3>4. q.weighted = q.tx /\ q.tx \in SUBSET mp.tx /\ \A t \in q.tx : MinHeight[t] <= h
      BY <1>2, <3>1, <3>3
    <3> QED
      BY <3>3, <3>4
  <2>2. CASE ~disconnected
    <3>1. q = mp
      BY <2>2
    <3>2. \A t \in mp.tx : MinHeight[t] <= h
      BY <1>1, <2>2 DEF MempoolInv, ValidPart, AtRest
    <3> HIDE DEF q, h
    <3> QED
      BY <1>2, <3>1, <3>2
  <2> QED
    BY <2>1, <2>2
<1> HIDE DEF q
<1>5. E \in SUBSET Tx /\ \A t \in q.tx : t \notin E => BranchId[t] = BranchAt(h)
  BY <1>2, <1>4 DEF OtherBranch
<1> HIDE DEF E
<1>6. /\ PoolOk(r) /\ r.tx \in SUBSET (q.tx \ E) /\ r.weighted = q.weighted \ (q.tx \ r.tx)
      /\ LinkedBut(q, {}) => LinkedBut(r, {})
      /\ \A c, W : LinkedBut(q, {}) /\ Funded(q, c, W) => Funded(r, c, W)
  BY <1>4, <1>5, RemovedAll
<1> HIDE DEF r
<1>7. ChainPart' /\ LoopPart'
  BY <1>1, <1>2 DEF MempoolInv, ChainPart, AtRest, Coming, LoopPart
<1>8. PoolPart'
  <2>1. r.weighted = r.tx /\ r.tx \cap Confirmed(tip) = {}
    BY <1>2, <1>4, <1>6
  <2> QED
    BY <1>1, <1>2, <1>6, <2>1, PoolPrimed
<1>9. FundedPart'
  <2>1. Rest = {} /\ Unfinished = {} /\ Rest' = {} /\ Unfinished' = {}
    BY <1>1 DEF Rest, Unfinished, Coming
  <2>2. ASSUME ~cutOff PROVE LinkedBut(r, {}) /\ Funded(r, coinsAt, {})
    <3>1. LinkedBut(mp, {}) /\ Funded(mp, coinsAt, {})
      BY <2>1, <2>2 DEF MempoolInv, FundedPart
    <3> QED
      BY <1>4, <1>6, <3>1
  <2> QED
    BY <1>1, <2>1, <2>2, FundedPrimed
<1>10. ValidPart'
  <2>1. \A t \in mp'.tx : t \in mp.tx /\ MinHeight[t] <= h /\ BranchId[t] = BranchAt(h)
    BY <1>1, <1>4, <1>5, <1>6
  <2>2. \A t \in mp'.tx : Anchor[t] = NoBlock \/ Anchor[t] \in Ancestors[tip]
    BY <2>1 DEF MempoolInv, ValidPart
  <2> QED
    BY <1>1, <2>1, <2>2 DEF ValidPart
<1> QED
  BY <1>7, <1>8, <1>9, <1>10 DEF MempoolInv

-----------------------------------------------------------------------------
(* The theorems.                                                            *)

\* Every step keeps the inductive invariant.
LEMMA StepKeeps ==
    MempoolInv /\ [Next]_vars => MempoolInv'
<1> SUFFICES ASSUME MempoolInv, [Next]_vars PROVE MempoolInv'
  OBVIOUS
<1>1. ASSUME NEW t \in Tx, AcceptToMemoryPool(t) PROVE MempoolInv'
  BY <1>1, AcceptToMemoryPoolKeeps
<1>2. ASSUME NEW t \in Tx, EvictRandom(t) PROVE MempoolInv'
  BY <1>2, EvictRandomKeeps
<1>3. ASSUME NEW t \in Prioritisable, PrioritiseTransaction(t) PROVE MempoolInv'
  BY <1>3, PrioritiseTransactionKeeps
<1>4. CASE WithinLimit
  BY <1>4, WithinLimitKeeps
<1>5. CASE ForgetEvicted
  BY <1>5, SameKeeps DEF ForgetEvicted
<1>6. ASSUME NEW b \in Block, StartStep(b) PROVE MempoolInv'
  BY <1>6, StartStepKeeps
<1>7. CASE DisconnectTip
  BY <1>7, DisconnectTipKeeps
<1>8. CASE Resurrect
  BY <1>8, ResurrectKeeps
<1>9. CASE Disconnected
  BY <1>9, DisconnectedKeeps
<1>10. CASE ConnectTip
  BY <1>10, ConnectTipKeeps
<1>11. CASE EndStep
  BY <1>11, EndStepKeeps
<1>12. CASE UNCHANGED vars
  BY <1>12, SameKeeps DEF vars
<1> QED
  BY <1>1, <1>2, <1>3, <1>4, <1>5, <1>6, <1>7, <1>8, <1>9, <1>10, <1>11, <1>12 DEF Next

\* The pool's structure, the loop over a disconnected block and the coins the
\* entries spend keep their invariant through every step of AcceptToMemoryPool,
\* EnsureSizeLimit, DisconnectTip and ConnectTip.
THEOREM MempoolSafe ==
    Spec => []MempoolInv
<1>1. Init => MempoolInv
  BY InitOk
<1>2. MempoolInv /\ [Next]_vars => MempoolInv'
  BY StepKeeps
<1> QED
  BY <1>1, <1>2, PTL DEF Spec

\* The first assertions of CTxMemPool::check: an input of an entry is an output
\* of another entry or a coin of the chain, and no two entries spend the same,
\* through reorganisations, conflicts, expiry and evictions, as long as no
\* eviction has cut a transaction that came back off from its children.
THEOREM InputsStayAvailable ==
    Spec => []InputsAvailableUnlessCut
<1>1. MempoolInv => InputsAvailableUnlessCut
  <2> SUFFICES ASSUME MempoolInv, ~cutOff, Idle, NEW t \in mp.tx
               PROVE  /\ \A o \in Inputs[t] : Creator[o] \in mp.tx \/ Unspent(o, tip)
                      /\ \A u \in mp.tx \ {t} : Inputs[t] \cap Inputs[u] = {}
    BY DEF InputsAvailableUnlessCut, InputsAvailable
  <2>1. Rest = {} /\ coinsAt = tip
    BY DEF Idle, Rest, MempoolInv, ChainPart, AtRest
  <2>2. Funded(mp, tip, {}) /\ IndexExact(mp)
    BY <2>1 DEF MempoolInv, FundedPart, PoolPart, PoolOk
  <2> QED
    BY <2>2 DEF Funded, IndexExact
<1> QED
  BY <1>1, MempoolSafe, PTL

\* mapLinks and mapNextTx agree with what the entries spend whenever no step of
\* the chain is under way, also for parents that came back after their children.
THEOREM LinksStayExact ==
    Spec => []LinksExact
<1>1. MempoolInv => LinksExact
  <2> SUFFICES ASSUME MempoolInv, Idle, ~cutOff, NEW t \in mp.tx
               PROVE  /\ mp.parents[t] = TrueParents(mp, t) /\ mp.children[t] = TrueChildren(mp, t)
                      /\ \A o \in Inputs[t] : mp.nextTx[o] = t
    BY DEF LinksExact
  <2>1. Unfinished = {}
    BY DEF Idle, Unfinished, Coming
  <2>2. PoolOk(mp) /\ LinkedBut(mp, {}) /\ mp.tx \in SUBSET Tx
    BY <2>1 DEF MempoolInv, FundedPart, PoolPart, PoolOk
  <2>3. \A p, c \in mp.tx : p \in mp.parents[c] <=> Spends(c, p)
    BY <2>2 DEF PoolOk, LinksSound, LinkedBut
  <2>4. \A c \in mp.tx : TrueParents(mp, c) = {p \in mp.tx : Spends(c, p)}
    BY DEF TrueParents, PoolParents, Spends
  <2>5. mp.parents[t] = TrueParents(mp, t)
    <3>1. mp.parents[t] \in SUBSET mp.tx
      BY <2>2 DEF PoolOk, LinksSound, Links
    <3> QED
      BY <2>3, <2>4, <3>1
  <2>6. mp.children[t] = TrueChildren(mp, t)
    <3>1. mp.children[t] \in SUBSET mp.tx /\ \A c \in mp.tx : c \in mp.children[t] <=> t \in mp.parents[c]
      BY <2>2 DEF PoolOk, LinksSound, Links
    <3>2. TrueChildren(mp, t) = {c \in mp.tx : Spends(c, t)}
      BY <2>4 DEF TrueChildren
    <3> QED
      BY <2>3, <3>1, <3>2
  <2>7. \A o \in Inputs[t] : mp.nextTx[o] = t
    BY <2>2 DEF PoolOk, IndexExact
  <2> QED
    BY <2>5, <2>6, <2>7
<1> QED
  BY <1>1, MempoolSafe, PTL

\* Every entry fits into the next block as far as its anchor, the heights it asks
\* for and its branch id go, though a transaction that comes back is let in by the
\* rules of the block that is being disconnected.
THEOREM NextBlockStaysValid ==
    Spec => []NextBlockValid
<1>1. MempoolInv => NextBlockValid
  BY DEF MempoolInv, ValidPart, NextBlockValid, Idle, AtRest
<1> QED
  BY <1>1, MempoolSafe, PTL

-----------------------------------------------------------------------------
(* Sums of fees.                                                            *)

\* Among sets of transactions there is one from which nothing can be taken away.
LEMMA SmallestSet ==
    ASSUME NEW Bad \in SUBSET (SUBSET Tx), Bad # {}
    PROVE  \E s \in Bad : \A x \in s : s \ {x} \notin Bad
<1> DEFINE Sizes == {Cardinality(s) : s \in Bad}
<1>1. \A s \in SUBSET Tx : IsFiniteSet(s) /\ Cardinality(s) \in Nat
  BY PoolAssumption, FS_Subset, FS_CardinalityType
<1>2. PICK n \in Sizes : \A k \in Sizes : n <= k
  <2>1. Sizes \in SUBSET Nat /\ Sizes # {}
    BY <1>1
  <2> HIDE DEF Sizes
  <2> QED
    BY <2>1, LeastNatural
<1>3. PICK s \in Bad : n = Cardinality(s)
  BY <1>2
<1>4. ASSUME NEW x \in s, s \ {x} \in Bad PROVE FALSE
  <2>1. n <= Cardinality(s \ {x})
    BY <1>2, <1>4
  <2>2. Cardinality(s \ {x}) = Cardinality(s) - 1
    BY <1>1, FS_RemoveElement
  <2> QED
    BY <1>1, <1>3, <2>1, <2>2
<1> QED
  BY <1>4

Pick(s) == CHOOSE x \in s : TRUE

\* g adds up f over the sets of dom, taking off one element after the other.
IsSum(f, dom, g) ==
    g = [s \in dom |-> IF s = {} THEN 0 ELSE f[Pick(s)] + g[s \ {Pick(s)}]]

UpToSize(S, n) == {s \in SUBSET S : Cardinality(s) <= n}

\* Sums over the sets of up to n transactions exist.
LEMMA SumBySize ==
    ASSUME NEW S \in SUBSET Tx, NEW f
    PROVE  \A n \in Nat : \E g : IsSum(f, UpToSize(S, n), g)
<1> DEFINE Bad == {n \in Nat : ~\E g : IsSum(f, UpToSize(S, n), g)}
<1> SUFFICES ASSUME Bad # {} PROVE FALSE
  OBVIOUS
<1>1. PICK n \in Bad : \A k \in Bad : n <= k
  <2>1. Bad \in SUBSET Nat
    OBVIOUS
  <2> HIDE DEF Bad
  <2> QED
    BY <2>1, LeastNatural
<1>2. \A s \in SUBSET S : IsFiniteSet(s) /\ Cardinality(s) \in Nat
  BY PoolAssumption, FS_Subset, FS_CardinalityType
<1>3. \A s \in SUBSET S : s # {} => Pick(s) \in s /\ s \ {Pick(s)} \in SUBSET S
                                    /\ Cardinality(s \ {Pick(s)}) = Cardinality(s) - 1
  <2> SUFFICES ASSUME NEW s \in SUBSET S, s # {}
               PROVE  Pick(s) \in s /\ Cardinality(s \ {Pick(s)}) = Cardinality(s) - 1
    OBVIOUS
  <2>1. Pick(s) \in s
    BY DEF Pick
  <2> QED
    BY <1>2, <2>1, FS_RemoveElement
<1>4. n # 0
  <2>1. ASSUME n = 0 PROVE FALSE
    <3>1. \A s \in UpToSize(S, 0) : s = {}
      BY <1>2, FS_EmptySet DEF UpToSize
    <3>2. IsSum(f, UpToSize(S, 0), [s \in UpToSize(S, 0) |-> 0])
      BY <3>1 DEF IsSum
    <3> QED
      BY <1>1, <2>1, <3>2
  <2> QED
    BY <2>1
<1>5. PICK g : IsSum(f, UpToSize(S, n - 1), g)
  <2>1. n - 1 \in Nat /\ ~(n <= n - 1)
    BY <1>1, <1>4
  <2> QED
    BY <1>1, <2>1
<1> DEFINE h == [s \in UpToSize(S, n) |-> IF s = {} THEN 0 ELSE f[Pick(s)] + g[s \ {Pick(s)}]]
<1>6. \A s \in UpToSize(S, n - 1) : s \in UpToSize(S, n) /\ h[s] = g[s]
  <2> SUFFICES ASSUME NEW s \in UpToSize(S, n - 1) PROVE s \in UpToSize(S, n) /\ h[s] = g[s]
    OBVIOUS
  <2>1. s \in UpToSize(S, n)
    BY <1>1, <1>2 DEF UpToSize
  <2>2. g[s] = IF s = {} THEN 0 ELSE f[Pick(s)] + g[s \ {Pick(s)}]
    BY <1>5, Zenon DEF IsSum
  <2> QED
    BY <2>1, <2>2
<1>7. \A s \in UpToSize(S, n) : s # {} => s \ {Pick(s)} \in UpToSize(S, n - 1)
  BY <1>1, <1>2, <1>3 DEF UpToSize
<1>8. IsSum(f, UpToSize(S, n), h)
  <2>1. ASSUME NEW s \in UpToSize(S, n), s # {}
        PROVE  h[s \ {Pick(s)}] = g[s \ {Pick(s)}]
    BY <1>6, <1>7, <2>1
  <2> QED
    BY <2>1, Zenon DEF IsSum
<1> QED
  BY <1>1, <1>8


\* The sums over all sets of transactions of S exist.
LEMMA SumExists ==
    ASSUME NEW S \in SUBSET Tx, NEW f
    PROVE  \E g : IsSum(f, SUBSET S, g)
<1>1. IsFiniteSet(S) /\ Cardinality(S) \in Nat
  BY PoolAssumption, FS_Subset, FS_CardinalityType
<1>2. PICK g : IsSum(f, UpToSize(S, Cardinality(S)), g)
  BY <1>1, SumBySize
<1>3. UpToSize(S, Cardinality(S)) = SUBSET S
  BY <1>1, FS_Subset DEF UpToSize
<1> QED
  BY <1>2, <1>3

\* g adds up f, whatever element is taken off.
Additive(f, S, g) ==
    /\ g \in [SUBSET S -> Int] /\ g[{}] = 0
    /\ \A s \in SUBSET S : \A x \in s : g[s] = f[x] + g[s \ {x}]

\* The value of a sum step by step.
Stepwise(f, S, g) ==
    /\ g[{}] = 0
    /\ \A s \in SUBSET S : s # {} => Pick(s) \in s /\ g[s] = f[Pick(s)] + g[s \ {Pick(s)}]

\* A sum is one.
LEMMA SumSteps ==
    ASSUME NEW S \in SUBSET Tx, NEW f, NEW g, IsSum(f, SUBSET S, g)
    PROVE  Stepwise(f, S, g)
<1>1. \A s \in SUBSET S : g[s] = IF s = {} THEN 0 ELSE f[Pick(s)] + g[s \ {Pick(s)}]
  BY Zenon DEF IsSum
<1>2. {} \in SUBSET S
  OBVIOUS
<1>3. \A s \in SUBSET S : s # {} => Pick(s) \in s
  BY DEF Pick
<1>4. g[{}] = 0
  BY <1>1, <1>2
<1> QED
  BY <1>1, <1>3, <1>4 DEF Stepwise

\* A sum of integers is one.
LEMMA SumTyped ==
    ASSUME NEW S \in SUBSET Tx, NEW f \in [Tx -> Int], NEW g, IsSum(f, SUBSET S, g)
    PROVE  g \in [SUBSET S -> Int]
<1> DEFINE Bad == {s \in SUBSET S : g[s] \notin Int}
<1>1. ASSUME Bad # {} PROVE FALSE
  <2>1. PICK s \in Bad : \A x \in s : s \ {x} \notin Bad
    <3>1. Bad \in SUBSET (SUBSET Tx)
      OBVIOUS
    <3> HIDE DEF Bad
    <3> QED
      BY <1>1, <3>1, SmallestSet
  <2>2. s \in SUBSET S /\ g[s] \notin Int
    OBVIOUS
  <2> HIDE DEF Bad
  <2>3. s # {}
    <3>1. g[{}] = 0
      BY SumSteps DEF Stepwise
    <3> QED
      BY <2>2, <3>1
  <2>4. Pick(s) \in s /\ g[s] = f[Pick(s)] + g[s \ {Pick(s)}]
    <3>1. Stepwise(f, S, g)
      BY SumSteps
    <3> QED
      BY <2>2, <2>3, <3>1 DEF Stepwise
  <2>5. g[s \ {Pick(s)}] \in Int /\ f[Pick(s)] \in Int
    BY <2>1, <2>2, <2>4 DEF Bad
  <2> QED
    BY <2>2, <2>4, <2>5
<1>2. g = [s \in SUBSET S |-> g[s]]
  BY DEF IsSum
<1> QED
  BY <1>1, <1>2

\* The order in which elements are taken off does not matter.
LEMMA SumAdditive ==
    ASSUME NEW S \in SUBSET Tx, NEW f \in [Tx -> Int], NEW g, IsSum(f, SUBSET S, g)
    PROVE  Additive(f, S, g)
<1> DEFINE Good(s) == \A x \in s : g[s] = f[x] + g[s \ {x}]
           Bad == {s \in SUBSET S : ~Good(s)}
<1>1. g \in [SUBSET S -> Int]
  BY SumTyped
<1>2. /\ g[{}] = 0
      /\ \A s \in SUBSET S : s # {} => Pick(s) \in s /\ g[s] = f[Pick(s)] + g[s \ {Pick(s)}]
  <2>1. Stepwise(f, S, g)
    BY SumSteps
  <2> QED
    BY <2>1 DEF Stepwise
<1>3. ASSUME Bad # {} PROVE FALSE
  <2>1. PICK s \in Bad : \A x \in s : s \ {x} \notin Bad
    <3>1. Bad \in SUBSET (SUBSET Tx)
      OBVIOUS
    <3> HIDE DEF Bad
    <3> QED
      BY <1>3, <3>1, SmallestSet
  <2>2. PICK x \in s : g[s] # f[x] + g[s \ {x}]
    OBVIOUS
  <2>3. s \in SUBSET S /\ s # {}
    BY <2>2
  <2> DEFINE y == Pick(s)
             u == s \ {x}
             v == s \ {y}
             w == (s \ {x}) \ {y}
  <2>4. y \in s /\ g[s] = f[y] + g[v]
    <3> HIDE DEF Bad
    <3>1. Pick(s) \in s /\ g[s] = f[Pick(s)] + g[s \ {Pick(s)}]
      BY <1>2, <2>3
    <3> QED
      BY <3>1
  <2> HIDE DEF y
  <2>5. x # y
    BY <2>2, <2>4
  <2>6. Good(u) /\ Good(v)
    BY <2>1, <2>2, <2>3, <2>4
  <2>7. x \in v /\ y \in u /\ v \ {x} = w /\ u \ {y} = w
    BY <2>2, <2>4, <2>5
  <2>8. u \in SUBSET S /\ v \in SUBSET S /\ w \in SUBSET S
    BY <2>3
  <2>9. g[v] = f[x] + g[w] /\ g[u] = f[y] + g[w]
    BY <2>6, <2>7
  <2>10. f[x] \in Int /\ f[y] \in Int /\ g[w] \in Int
    BY <1>1, <2>2, <2>3, <2>4, <2>8
  <2>11. g[s] # f[x] + g[u]
    BY <2>2
  <2> HIDE DEF u, v, w, Bad, Good
  <2> QED
    BY <2>4, <2>9, <2>10, <2>11
<1> QED
  BY <1>1, <1>3, <1>2 DEF Additive

SameOn(R, S, T, f, e) == R \subseteq S /\ R \subseteq T /\ \A x \in R : f[x] = e[x]

\* Two sums agree where the values do.
LEMMA SumsAgree ==
    ASSUME NEW S \in SUBSET Tx, NEW T \in SUBSET Tx, NEW f, NEW e, NEW g, NEW h,
           Additive(f, S, g), Additive(e, T, h), NEW R, SameOn(R, S, T, f, e)
    PROVE  g[R] = h[R]
<1> USE DEF SameOn
<1> DEFINE Bad == {s \in SUBSET R : g[s] # h[s]}
<1>1. ASSUME Bad # {} PROVE FALSE
  <2>1. PICK s \in Bad : \A x \in s : s \ {x} \notin Bad
    <3>1. Bad \in SUBSET (SUBSET Tx)
      OBVIOUS
    <3> HIDE DEF Bad
    <3> QED
      BY <1>1, <3>1, SmallestSet
  <2>2. s \in SUBSET R /\ g[s] # h[s]
    OBVIOUS
  <2>3. s # {}
    BY <2>2 DEF Additive
  <2>4. PICK x \in s : TRUE
    BY <2>3
  <2>5. g[s] = f[x] + g[s \ {x}] /\ h[s] = e[x] + h[s \ {x}]
    BY <2>2, <2>4 DEF Additive
  <2>6. g[s \ {x}] = h[s \ {x}] /\ f[x] = e[x]
    BY <2>1, <2>2, <2>4
  <2> QED
    BY <2>2, <2>5, <2>6
<1> QED
  BY <1>1

Worth(m) == [t \in Tx |-> ModifiedFee(m, t)]

\* FeesOf is such a sum.
LEMMA FeesAre ==
    ASSUME NEW m, m.delta \in [Tx -> Int], NEW S \in SUBSET Tx
    PROVE  \E g : Additive(Worth(m), S, g) /\ FeesOf(m, S) = g[S]
<1> DEFINE Body(g) == [s \in SUBSET S |-> IF s = {} THEN 0
                          ELSE ModifiedFee(m, CHOOSE x \in s : TRUE) + g[s \ {CHOOSE x \in s : TRUE}]]
           iter == CHOOSE g : g = Body(g)
<1>1. FeesOf(m, S) = iter[S]
  BY DEF FeesOf, MapThenSumSet, MapThenFoldSet
<1>2. \A g : IsSum(Worth(m), SUBSET S, g) <=> g = Body(g)
  <2> TAKE g
  <2>1. ASSUME NEW s \in SUBSET S, s # {} PROVE Worth(m)[Pick(s)] = ModifiedFee(m, CHOOSE x \in s : TRUE)
    BY <2>1 DEF Worth, Pick
  <2>2. Body(g) = [s \in SUBSET S |-> IF s = {} THEN 0 ELSE Worth(m)[Pick(s)] + g[s \ {Pick(s)}]]
    BY <2>1 DEF Pick
  <2> QED
    BY <2>2, Zenon DEF IsSum
<1>3. \E g : g = Body(g)
  <2>1. PICK g : IsSum(Worth(m), SUBSET S, g)
    BY SumExists
  <2>2. g = Body(g)
    BY <1>2, <2>1
  <2> QED
    BY <2>2
<1>4. iter = Body(iter)
  BY <1>3, Zenon
<1>5. IsSum(Worth(m), SUBSET S, iter)
  BY <1>2, <1>4
<1>6. Worth(m) \in [Tx -> Int]
  BY PoolAssumption DEF Worth, ModifiedFee
<1> HIDE DEF iter
<1> QED
  BY <1>1, <1>5, <1>6, SumAdditive

\* Fees of a set are an integer.
LEMMA FeesType ==
    ASSUME NEW m, m.delta \in [Tx -> Int], NEW S \in SUBSET Tx
    PROVE  FeesOf(m, S) \in Int
<1>1. PICK g : Additive(Worth(m), S, g) /\ FeesOf(m, S) = g[S]
  BY FeesAre
<1>2. S \in SUBSET S
  OBVIOUS
<1> QED
  BY <1>1, <1>2 DEF Additive

\* Pools with the same fee deltas for S have the same fees of S.
LEMMA FeesSame ==
    ASSUME NEW m, m.delta \in [Tx -> Int], NEW r, r.delta \in [Tx -> Int], NEW S \in SUBSET Tx,
           \A t \in S : r.delta[t] = m.delta[t]
    PROVE  FeesOf(r, S) = FeesOf(m, S)
<1>1. PICK g : Additive(Worth(m), S, g) /\ FeesOf(m, S) = g[S]
  BY FeesAre
<1>2. PICK h : Additive(Worth(r), S, h) /\ FeesOf(r, S) = h[S]
  BY FeesAre
<1>3. \A t \in S : Worth(m)[t] = Worth(r)[t]
  BY DEF Worth, ModifiedFee
<1>4. g[S] = h[S]
  <2> DEFINE f == Worth(m)
             e == Worth(r)
  <2>1. Additive(f, S, g) /\ Additive(e, S, h) /\ SameOn(S, S, S, f, e)
    BY <1>1, <1>2, <1>3 DEF SameOn
  <2> HIDE DEF f, e
  <2> QED
    BY <2>1, SumsAgree
<1> QED
  BY <1>1, <1>2, <1>4

\* One entry of S apart.
LEMMA FeesWith ==
    ASSUME NEW m, m.delta \in [Tx -> Int], NEW S \in SUBSET Tx, NEW x \in S
    PROVE  FeesOf(m, S) = ModifiedFee(m, x) + FeesOf(m, S \ {x})
<1> DEFINE R == S \ {x}
<1>1. PICK g : Additive(Worth(m), S, g) /\ FeesOf(m, S) = g[S]
  BY FeesAre
<1>2. R \in SUBSET Tx /\ R \in SUBSET S /\ R \subseteq R
  OBVIOUS
<1> HIDE DEF R
<1>3. PICK h : Additive(Worth(m), R, h) /\ FeesOf(m, R) = h[R]
  BY <1>2, FeesAre
<1>4. g[R] = h[R]
  <2> DEFINE f == Worth(m)
  <2>1. Additive(f, S, g) /\ Additive(f, R, h) /\ SameOn(R, S, R, f, f)
    BY <1>1, <1>2, <1>3 DEF SameOn
  <2> HIDE DEF f
  <2> QED
    BY <1>2, <2>1, SumsAgree
<1>5. g[S] = Worth(m)[x] + g[S \ {x}]
  <2>1. S \in SUBSET S
    OBVIOUS
  <2> QED
    BY <1>1, <2>1 DEF Additive
<1>6. Worth(m)[x] = ModifiedFee(m, x)
  BY DEF Worth
<1>7. g[S] = ModifiedFee(m, x) + g[R]
  BY <1>5, <1>6 DEF R
<1> QED
  BY <1>1, <1>3, <1>4, <1>7 DEF R

\* Nobody pays nothing.
LEMMA FeesNone ==
    ASSUME NEW m, m.delta \in [Tx -> Int]
    PROVE  FeesOf(m, {}) = 0
<1>1. {} \in SUBSET Tx
  OBVIOUS
<1>2. PICK g : Additive(Worth(m), {}, g) /\ FeesOf(m, {}) = g[{}]
  BY <1>1, FeesAre
<1> QED
  BY <1>2 DEF Additive

\* A part R of S apart.
LEMMA FeesSplit ==
    ASSUME NEW m, m.delta \in [Tx -> Int], NEW S \in SUBSET Tx, NEW R \in SUBSET S
    PROVE  FeesOf(m, S) = FeesOf(m, S \ R) + FeesOf(m, R)
<1> DEFINE Good(U) == FeesOf(m, S) = FeesOf(m, S \ U) + FeesOf(m, U)
           Bad == {U \in SUBSET S : ~Good(U)}
<1>1. \A U \in SUBSET Tx : FeesOf(m, U) \in Int
  BY FeesType
<1>2. ASSUME Bad # {} PROVE FALSE
  <2>1. PICK U \in Bad : \A x \in U : U \ {x} \notin Bad
    <3>1. Bad \in SUBSET (SUBSET Tx)
      OBVIOUS
    <3> HIDE DEF Bad
    <3> QED
      BY <1>2, <3>1, SmallestSet
  <2>2. U \in SUBSET S /\ ~Good(U)
    OBVIOUS
  <2>3. ASSUME NEW x \in U PROVE U \ {x} \in SUBSET S /\ Good(U \ {x})
    BY <2>1, <2>2, <2>3
  <2> HIDE DEF Bad
  <2>4. U # {}
    <3>1. ASSUME U = {} PROVE FALSE
      <4>1. FeesOf(m, {}) = 0 /\ S \ {} = S /\ FeesOf(m, S) \in Int
        BY <1>1, FeesNone
      <4> QED
        BY <2>2, <3>1, <4>1
    <3> QED
      BY <3>1
  <2>5. PICK x \in U : TRUE
    BY <2>4
  <2> DEFINE V == U \ {x}
             T == S \ V
  <2>6. FeesOf(m, S) = FeesOf(m, T) + FeesOf(m, V)
    BY <2>3, <2>5
  <2>7. FeesOf(m, U) = ModifiedFee(m, x) + FeesOf(m, V)
    <3>1. U \in SUBSET Tx
      BY <2>2
    <3> QED
      BY <3>1, FeesWith
  <2>8. FeesOf(m, T) = ModifiedFee(m, x) + FeesOf(m, S \ U)
    <3>1. T \in SUBSET Tx /\ x \in T /\ T \ {x} = S \ U
      BY <2>2, <2>5
    <3> HIDE DEF T
    <3>2. FeesOf(m, T) = ModifiedFee(m, x) + FeesOf(m, T \ {x})
      BY <3>1, FeesWith
    <3> QED
      BY <3>1, <3>2
  <2>9. ModifiedFee(m, x) \in Int /\ FeesOf(m, V) \in Int /\ FeesOf(m, S \ U) \in Int
    <3>1. x \in Tx /\ V \in SUBSET Tx /\ S \ U \in SUBSET Tx
      BY <2>2
    <3> QED
      BY <1>1, <3>1, PoolAssumption DEF ModifiedFee
  <2>10. FeesOf(m, S) # FeesOf(m, S \ U) + FeesOf(m, U)
    BY <2>2
  <2> HIDE DEF T, V, Good
  <2> QED
    BY <2>6, <2>7, <2>8, <2>9, <2>10
<1>3. Good(R)
  BY <1>2
<1> QED
  BY <1>3

\* A changed fee delta of one entry.
LEMMA FeesShift ==
    ASSUME NEW m, m.delta \in [Tx -> Int], NEW r, r.delta \in [Tx -> Int], NEW S \in SUBSET Tx,
           NEW t \in Tx, NEW n \in Int, r.delta[t] = m.delta[t] + n,
           \A u \in Tx \ {t} : r.delta[u] = m.delta[u]
    PROVE  FeesOf(r, S) = FeesOf(m, S) + (IF t \in S THEN n ELSE 0)
<1> DEFINE R == S \ {t}
<1>1. R \in SUBSET Tx /\ \A u \in R : r.delta[u] = m.delta[u]
  OBVIOUS
<1>2. FeesOf(r, R) = FeesOf(m, R) /\ FeesOf(m, R) \in Int
  <2> HIDE DEF R
  <2> QED
    BY <1>1, FeesSame, FeesType
<1>3. CASE t \in S
  <2>1. FeesOf(m, S) = ModifiedFee(m, t) + FeesOf(m, R) /\ FeesOf(r, S) = ModifiedFee(r, t) + FeesOf(r, R)
    BY <1>3, FeesWith
  <2>2. ModifiedFee(m, t) \in Int /\ ModifiedFee(r, t) = ModifiedFee(m, t) + n
    BY PoolAssumption DEF ModifiedFee
  <2> HIDE DEF R
  <2> QED
    BY <1>2, <1>3, <2>1, <2>2
<1>4. CASE t \notin S
  <2>1. R = S
    BY <1>4
  <2> HIDE DEF R
  <2> QED
    BY <1>2, <1>4, <2>1
<1> QED
  BY <1>3, <1>4

-----------------------------------------------------------------------------
(* Descendants and ancestors.                                               *)

From(links, x) == Reached(links, {x})

\* What is reached from x is the least closed set with x in it.
LEMMA FromLeast ==
    ASSUME NEW links \in Links, NEW x \in Tx
    PROVE  /\ From(links, x) \in SUBSET Tx /\ x \in From(links, x)
           /\ ClosedUnder(links, From(links, x))
           /\ \A R \in SUBSET Tx : x \in R /\ ClosedUnder(links, R) => From(links, x) \subseteq R
<1>1. {x} \in SUBSET Tx
  OBVIOUS
<1>2. /\ Reached(links, {x}) \in SUBSET Tx /\ {x} \subseteq Reached(links, {x})
      /\ ClosedUnder(links, Reached(links, {x}))
      /\ \A R \in SUBSET Tx : {x} \subseteq R /\ ClosedUnder(links, R) => Reached(links, {x}) \subseteq R
  BY <1>1, ReachedLeast
<1> QED
  BY <1>2 DEF From

\* What is reached from there is reached from x.
LEMMA FromThere ==
    ASSUME NEW links \in Links, NEW x \in Tx, NEW y \in From(links, x)
    PROVE  From(links, y) \subseteq From(links, x)
<1>1. /\ From(links, x) \in SUBSET Tx /\ ClosedUnder(links, From(links, x))
  BY FromLeast
<1>2. y \in Tx
  BY <1>1
<1>3. \A R \in SUBSET Tx : y \in R /\ ClosedUnder(links, R) => From(links, y) \subseteq R
  BY <1>2, FromLeast
<1> QED
  BY <1>1, <1>3

\* Links in both directions.
Opposite(down, up) == \A p, c \in Tx : c \in down[p] <=> p \in up[c]

\* A path one way is a path the other way.
LEMMA FromBack ==
    ASSUME NEW down \in Links, NEW up \in Links, Opposite(down, up), NEW x \in Tx,
           NEW y \in From(down, x)
    PROVE  x \in From(up, y)
<1> DEFINE R == {z \in Tx : x \in From(up, z)}
<1>1. x \in R
  BY FromLeast
<1>2. ClosedUnder(down, R)
  <2> SUFFICES ASSUME NEW z \in R, NEW c \in down[z] PROVE c \in R
    BY DEF ClosedUnder
  <2>1. z \in Tx /\ c \in Tx /\ x \in From(up, z)
    BY DEF Links
  <2>2. z \in up[c]
    BY <2>1 DEF Opposite
  <2>3. c \in From(up, c) /\ ClosedUnder(up, From(up, c))
    BY <2>1, FromLeast
  <2>4. z \in From(up, c)
    BY <2>2, <2>3 DEF ClosedUnder
  <2>5. From(up, z) \subseteq From(up, c)
    BY <2>1, <2>4, FromThere
  <2> QED
    BY <2>1, <2>5
<1>3. R \in SUBSET Tx
  OBVIOUS
<1> HIDE DEF R
<1>4. From(down, x) \subseteq R
  BY <1>1, <1>2, <1>3, FromLeast
<1> QED
  BY <1>4 DEF R

\* What is reached from x is x and what is reached from its links.
LEMMA FromLinks ==
    ASSUME NEW links \in Links, NEW x \in Tx
    PROVE  /\ Reached(links, links[x]) \in SUBSET Tx
           /\ From(links, x) = {x} \cup Reached(links, links[x])
<1> DEFINE A == Reached(links, links[x])
           R == {x} \cup A
<1>1. links[x] \in SUBSET Tx
  BY DEF Links
<1>2. /\ A \in SUBSET Tx /\ links[x] \subseteq A /\ ClosedUnder(links, A)
      /\ \A U \in SUBSET Tx : links[x] \subseteq U /\ ClosedUnder(links, U) => A \subseteq U
  BY <1>1, ReachedLeast
<1> HIDE DEF A
<1>3. R \in SUBSET Tx /\ x \in R /\ ClosedUnder(links, R)
  BY <1>2 DEF ClosedUnder
<1>4. From(links, x) \subseteq R
  <2> HIDE DEF R
  <2> QED
    BY <1>3, FromLeast
<1>5. x \in From(links, x) /\ From(links, x) \in SUBSET Tx /\ ClosedUnder(links, From(links, x))
  BY FromLeast
<1>6. A \subseteq From(links, x)
  BY <1>2, <1>5 DEF ClosedUnder
<1>7. From(links, x) = R /\ A \in SUBSET Tx
  BY <1>2, <1>4, <1>5, <1>6
<1> QED
  BY <1>7 DEF A

\* The entries that UpdateForRemoveFromMempool visits for s are those that have
\* s among their descendants.
LEMMA AncestorsMatch ==
    ASSUME NEW m, PoolOk(m), NEW a \in Tx, NEW s \in Tx, a # s
    PROVE  a \in LinkedAncestors(m, s) <=> s \in CalculateDescendants(m, a)
<1>1. m.parents \in Links /\ m.children \in Links
  BY DEF PoolOk
<1>2. Opposite(m.children, m.parents) /\ Opposite(m.parents, m.children)
  BY DEF PoolOk, LinksSound, Opposite
<1>3. From(m.parents, s) = {s} \cup Reached(m.parents, m.parents[s])
  BY <1>1, FromLinks
<1>4. a \in LinkedAncestors(m, s) <=> a \in From(m.parents, s)
  BY <1>3 DEF LinkedAncestors
<1>5. CalculateDescendants(m, a) = From(m.children, a)
  BY DEF CalculateDescendants, From
<1>6. ASSUME a \in From(m.parents, s) PROVE s \in From(m.children, a)
  BY <1>1, <1>2, <1>6, FromBack
<1>7. ASSUME s \in From(m.children, a) PROVE a \in From(m.parents, s)
  BY <1>1, <1>2, <1>7, FromBack
<1> QED
  BY <1>4, <1>5, <1>6, <1>7

\* No entry is its own ancestor.
LEMMA NoCircle ==
    ASSUME NEW m, PoolOk(m), NEW t \in Tx
    PROVE  t \notin LinkedAncestors(m, t)
<1> SUFFICES ASSUME t \in LinkedAncestors(m, t) PROVE FALSE
  OBVIOUS
<1> DEFINE up == m.parents
           A == Reached(up, up[t])
           T == {x \in A : t \in From(up, x)}
           U == UNION {From(up, p) : p \in up[t]}
<1>1. up \in Links /\ up[t] \in SUBSET Tx
  BY DEF PoolOk, Links
<1>2. /\ A \in SUBSET Tx /\ up[t] \subseteq A /\ ClosedUnder(up, A)
      /\ \A R \in SUBSET Tx : up[t] \subseteq R /\ ClosedUnder(up, R) => A \subseteq R
  BY <1>1, ReachedLeast
<1>3. t \in A
  BY DEF LinkedAncestors
<1>4. t \in From(up, t)
  BY <1>1, FromLeast
<1>5. T \in SUBSET Tx /\ T # {}
  BY <1>2, <1>3, <1>4
<1>6. PICK x \in T : \A o \in Inputs[x] : Creator[o] \notin T
  <2> HIDE DEF T
  <2> QED
    BY <1>5, OrderAssumption
<1>7. \A p \in Tx : /\ From(up, p) \in SUBSET Tx /\ p \in From(up, p) /\ ClosedUnder(up, From(up, p))
  BY <1>1, FromLeast
<1>8. PICK p \in up[x] : t \in From(up, p)
  <2>1. x \in Tx /\ t \in From(up, x) /\ up[x] \in SUBSET Tx
    BY <1>1, <1>2 DEF Links
  <2> DEFINE V == UNION {From(up, p) : p \in up[x]}
  <2>2. V \in SUBSET Tx /\ up[x] \subseteq V /\ ClosedUnder(up, V)
    BY <1>7, <2>1 DEF ClosedUnder
  <2>3. t \in V
    <3>1. From(up, x) = {x} \cup Reached(up, up[x])
      BY <1>1, <2>1, FromLinks
    <3>2. Reached(up, up[x]) \subseteq V
      <4> HIDE DEF V, up
      <4> QED
        BY <1>1, <2>1, <2>2, ReachedLeast
    <3>3. CASE x = t
      BY <1>3, <3>2, <3>3
    <3>4. CASE x # t
      BY <2>1, <3>1, <3>2, <3>4
    <3> QED
      BY <3>3, <3>4
  <2> QED
    BY <2>3
<1>9. p \in T
  BY <1>2, <1>6, <1>8 DEF ClosedUnder
<1>10. x \in Tx /\ p \in Tx
  BY <1>2, <1>9
<1>11. Spends(x, p)
  BY <1>8, <1>10 DEF PoolOk, LinksSound
<1> QED
  BY <1>6, <1>9, <1>11 DEF Spends


-----------------------------------------------------------------------------
(* The totals of the entries.                                               *)

\* The totals of t are those of the set S, or t is dirty.
TotalsOf(m, t, S) ==
    IF IsDirty(m, t) THEN m.fees[t] = ModifiedFee(m, t)
                     ELSE m.count[t] = Cardinality(S) /\ m.fees[t] = FeesOf(m, S)

TotalsTyped(m) == m.count \in [Tx -> Int] /\ m.fees \in [Tx -> Int] /\ m.delta \in [Tx -> Int]

SameDelta(m, r, S) == \A u \in S : r.delta[u] = m.delta[u]

SameTotals(m, r, t) == r.count[t] = m.count[t] /\ r.fees[t] = m.fees[t]

\* The totals of t, when it has any, differ by those of R.
MoreTotals(m, r, t, R) ==
    IF IsDirty(m, t) THEN SameTotals(m, r, t)
    ELSE r.count[t] = m.count[t] + Cardinality(R) /\ r.fees[t] = m.fees[t] + FeesOf(r, R)

LessTotals(m, r, t, R) ==
    IF IsDirty(m, t) THEN SameTotals(m, r, t)
    ELSE r.count[t] = m.count[t] - Cardinality(R) /\ r.fees[t] = m.fees[t] - FeesOf(m, R)

\* Sizes of sets of transactions.
LEMMA Sizes ==
    ASSUME NEW S \in SUBSET Tx
    PROVE  /\ IsFiniteSet(S) /\ Cardinality(S) \in Nat /\ (S # {} => Cardinality(S) > 0)
           /\ \A R \in SUBSET S : Cardinality(S \ R) = Cardinality(S) - Cardinality(R)
<1>1. IsFiniteSet(S) /\ Cardinality(S) \in Nat
  BY PoolAssumption, FS_Subset, FS_CardinalityType
<1>2. S # {} => Cardinality(S) > 0
  BY <1>1, FS_EmptySet
<1>3. ASSUME NEW R \in SUBSET S PROVE Cardinality(S \ R) = Cardinality(S) - Cardinality(R)
  <2>1. Cardinality(S \ R) = Cardinality(S) - Cardinality(S \cap R)
    BY <1>1, FS_Difference
  <2>2. S \cap R = R
    OBVIOUS
  <2> QED
    BY <2>1, <2>2
<1> QED
  BY <1>1, <1>2, <1>3

\* Totals that stay the same stay right, as long as the fee deltas do.
LEMMA TotalsSame ==
    ASSUME NEW m, NEW r, TotalsTyped(m), TotalsTyped(r), NEW S \in SUBSET Tx, NEW t \in S,
           TotalsOf(m, t, S), SameTotals(m, r, t), SameDelta(m, r, S)
    PROVE  TotalsOf(r, t, S)
<1>1. FeesOf(r, S) = FeesOf(m, S)
  BY FeesSame DEF TotalsTyped, SameDelta
<1>2. ModifiedFee(r, t) = ModifiedFee(m, t)
  BY DEF SameDelta, ModifiedFee
<1> QED
  BY <1>1, <1>2 DEF TotalsOf, SameTotals, IsDirty

\* Totals that grow by those of R are right for R added to S.
LEMMA TotalsMore ==
    ASSUME NEW m, NEW r, TotalsTyped(m), TotalsTyped(r), NEW S \in SUBSET Tx, NEW t \in S,
           NEW R \in SUBSET Tx, S \cap R = {},
           TotalsOf(m, t, S), MoreTotals(m, r, t, R), SameDelta(m, r, S)
    PROVE  TotalsOf(r, t, S \cup R)
<1> DEFINE U == S \cup R
<1>1. FeesOf(r, S) = FeesOf(m, S)
  BY FeesSame DEF TotalsTyped, SameDelta
<1>2. ModifiedFee(r, t) = ModifiedFee(m, t)
  BY DEF SameDelta, ModifiedFee
<1>3. U \in SUBSET Tx /\ R \in SUBSET U /\ U \ R = S /\ U # {}
  OBVIOUS
<1> HIDE DEF U
<1>4. FeesOf(r, U) = FeesOf(r, S) + FeesOf(r, R)
  <2>1. FeesOf(r, U) = FeesOf(r, U \ R) + FeesOf(r, R)
    BY <1>3, FeesSplit DEF TotalsTyped
  <2> QED
    BY <1>3, <2>1
<1>5. /\ Cardinality(S) = Cardinality(U) - Cardinality(R) /\ Cardinality(U) > 0
      /\ Cardinality(U) \in Nat /\ Cardinality(R) \in Nat
  BY <1>3, Sizes
<1>6. CASE IsDirty(m, t)
  BY <1>2, <1>6 DEF TotalsOf, MoreTotals, SameTotals, IsDirty
<1>7. CASE ~IsDirty(m, t)
  <2>1. /\ m.count[t] = Cardinality(S) /\ m.fees[t] = FeesOf(m, S)
        /\ r.count[t] = m.count[t] + Cardinality(R) /\ r.fees[t] = m.fees[t] + FeesOf(r, R)
    BY <1>7 DEF TotalsOf, MoreTotals
  <2>2. r.count[t] = Cardinality(U)
    BY <1>5, <2>1
  <2>3. r.fees[t] = FeesOf(r, U)
    BY <1>1, <1>4, <2>1
  <2> QED
    BY <1>5, <2>2, <2>3 DEF TotalsOf, IsDirty, U
<1> QED
  BY <1>6, <1>7

\* Totals that shrink by those of R are right for R taken out of S.
LEMMA TotalsLess ==
    ASSUME NEW m, NEW r, TotalsTyped(m), TotalsTyped(r), NEW S \in SUBSET Tx, NEW t \in S,
           NEW R \in SUBSET S, t \notin R,
           TotalsOf(m, t, S), LessTotals(m, r, t, R), SameDelta(m, r, S \ R)
    PROVE  TotalsOf(r, t, S \ R)
<1> DEFINE U == S \ R
<1>3. U \in SUBSET Tx /\ t \in U /\ U # {} /\ U = S \ R
  OBVIOUS
<1> HIDE DEF U
<1>1. FeesOf(r, U) = FeesOf(m, U) /\ FeesOf(m, U) \in Int /\ FeesOf(m, R) \in Int
  <2>1. R \in SUBSET Tx
    OBVIOUS
  <2> QED
    BY <1>3, <2>1, FeesSame, FeesType DEF TotalsTyped, SameDelta
<1>2. ModifiedFee(r, t) = ModifiedFee(m, t)
  BY <1>3 DEF SameDelta, ModifiedFee
<1>4. FeesOf(m, S) = FeesOf(m, U) + FeesOf(m, R)
  <2>1. FeesOf(m, S) = FeesOf(m, S \ R) + FeesOf(m, R)
    BY FeesSplit DEF TotalsTyped
  <2> QED
    BY <1>3, <2>1
<1>5. /\ Cardinality(U) = Cardinality(S) - Cardinality(R) /\ Cardinality(U) > 0
      /\ Cardinality(U) \in Nat /\ Cardinality(S) \in Nat /\ Cardinality(R) \in Nat
  BY <1>3, Sizes
<1>6. CASE IsDirty(m, t)
  BY <1>2, <1>6 DEF TotalsOf, LessTotals, SameTotals, IsDirty
<1>7. CASE ~IsDirty(m, t)
  <2>1. /\ m.count[t] = Cardinality(S) /\ m.fees[t] = FeesOf(m, S)
        /\ r.count[t] = m.count[t] - Cardinality(R) /\ r.fees[t] = m.fees[t] - FeesOf(m, R)
    BY <1>7 DEF TotalsOf, LessTotals
  <2>2. r.count[t] = Cardinality(U)
    BY <1>5, <2>1
  <2>3. r.fees[t] = FeesOf(r, U)
    BY <1>1, <1>4, <2>1
  <2> QED
    BY <1>5, <2>2, <2>3 DEF TotalsOf, IsDirty, U
<1> QED
  BY <1>6, <1>7


Totalled(m) ==
    TotalsTyped(m) /\ \A t \in m.tx : TotalsOf(m, t, CalculateDescendants(m, t))

\* r has the totals of m after taking off the entries of S.
IsUncounted(m, S, r) ==
    /\ TotalsTyped(r) /\ \A u \in Tx \ S : r.delta[u] = m.delta[u]
    /\ \A t \in Tx \ S : LessTotals(m, r, t, {s \in S : t \in LinkedAncestors(m, s)})

\* UpdateForRemoveFromMempool takes each removed entry off the totals of its ancestors.
LEMMA StagedUncounts ==
    ASSUME NEW m, IsPool(m), TotalsTyped(m), NEW S \in SUBSET Tx
    PROVE  IsUncounted(m, S, RemoveStaged(m, S))
<1> DEFINE u == Uncounted(m, S)
           r == RemoveStaged(m, S)
           R(t) == {s \in S : t \in LinkedAncestors(m, s)}
<1>1. \A t \in Tx : R(t) \in SUBSET Tx /\ Cardinality(R(t)) \in Int /\ FeesOf(m, R(t)) \in Int
  <2> SUFFICES ASSUME NEW t \in Tx
               PROVE  R(t) \in SUBSET Tx /\ Cardinality(R(t)) \in Int /\ FeesOf(m, R(t)) \in Int
    OBVIOUS
  <2>1. R(t) \in SUBSET Tx
    OBVIOUS
  <2> HIDE DEF R
  <2>2. Cardinality(R(t)) \in Int
    BY <2>1, Sizes
  <2>3. FeesOf(m, R(t)) \in Int
    BY <2>1, FeesType DEF TotalsTyped
  <2> QED
    BY <2>1, <2>2, <2>3
<1>2. /\ u.count = [t \in Tx |-> IF IsDirty(m, t) THEN m.count[t] ELSE m.count[t] - Cardinality(R(t))]
      /\ u.fees = [t \in Tx |-> IF IsDirty(m, t) THEN m.fees[t] ELSE m.fees[t] - FeesOf(m, R(t))]
      /\ u.delta = m.delta /\ IsPool(u)
  <2> HIDE DEF R
  <2>1. IsPool(u)
    BY UncountedIs
  <2> QED
    BY <2>1 DEF IsPool, Uncounted, R
<1> HIDE DEF R, u
<1>3. u.count \in [Tx -> Int] /\ u.fees \in [Tx -> Int] /\ u.delta \in [Tx -> Int]
  BY <1>1, <1>2 DEF TotalsTyped
<1>4. /\ r.count = [t \in Tx |-> IF t \in S THEN 0 ELSE u.count[t]]
      /\ r.fees = [t \in Tx |-> IF t \in S THEN 0 ELSE u.fees[t]]
      /\ r.delta = [t \in Tx |-> IF t \in S THEN 0 ELSE u.delta[t]]
  BY <1>2 DEF RemoveStaged, IsPool, u
<1> HIDE DEF r
<1>5. TotalsTyped(r)
  BY <1>3, <1>4 DEF TotalsTyped
<1>6. \A t \in Tx \ S : r.delta[t] = m.delta[t]
  BY <1>2, <1>4
<1>7. \A t \in Tx \ S : LessTotals(m, r, t, R(t))
  BY <1>2, <1>4 DEF LessTotals, SameTotals
<1> QED
  BY <1>5, <1>6, <1>7 DEF IsUncounted, r, R

\* The links of r are those of m outside of S.
Without(m, S, r) == r.children = [t \in Tx |-> IF t \in S THEN {} ELSE m.children[t] \ S]

\* A path avoids S, or ends in S or begins there.
LEMMA StagedDescendants ==
    ASSUME NEW m, PoolOk(m), NEW S \in SUBSET m.tx, NEW r, Without(m, S, r),
           ClosedUnder(m.children, S) \/ \A s \in S : m.parents[s] = {}, NEW a \in m.tx \ S
    PROVE  CalculateDescendants(r, a) = CalculateDescendants(m, a) \ S
<1> DEFINE D == From(m.children, a)
           E == From(r.children, a)
<1>1. m.children \in Links /\ r.children \in Links /\ a \in Tx /\ S \in SUBSET Tx
  BY DEF PoolOk, Without, Links
<1>2. /\ D \in SUBSET Tx /\ a \in D /\ ClosedUnder(m.children, D)
      /\ \A R \in SUBSET Tx : a \in R /\ ClosedUnder(m.children, R) => D \subseteq R
  BY <1>1, FromLeast
<1>3. /\ E \in SUBSET Tx /\ a \in E /\ ClosedUnder(r.children, E)
      /\ \A R \in SUBSET Tx : a \in R /\ ClosedUnder(r.children, R) => E \subseteq R
  BY <1>1, FromLeast
<1> HIDE DEF D, E
<1>4. r.children = [t \in Tx |-> IF t \in S THEN {} ELSE m.children[t] \ S]
  BY DEF Without
<1>5. E \subseteq D \ S
  <2>1. ClosedUnder(r.children, D \ S)
    BY <1>2, <1>4 DEF ClosedUnder
  <2> QED
    BY <1>2, <1>3, <2>1
<1>6. D \subseteq E \cup S
  <2>1. CASE ClosedUnder(m.children, S)
    <3>1. ClosedUnder(m.children, E \cup S)
      <4> SUFFICES ASSUME NEW x \in E \cup S, NEW c \in m.children[x] PROVE c \in E \cup S
        BY DEF ClosedUnder
      <4>1. CASE x \in S
        BY <2>1, <4>1 DEF ClosedUnder
      <4>2. CASE x \notin S
        <5>1. x \in E /\ x \in Tx
          BY <1>3, <4>2
        <5>2. r.children[x] = m.children[x] \ S
          BY <1>4, <4>2, <5>1
        <5> QED
          BY <1>3, <5>1, <5>2 DEF ClosedUnder
      <4> QED
        BY <4>1, <4>2
    <3> QED
      BY <1>1, <1>2, <1>3, <3>1
  <2>2. CASE \A s \in S : m.parents[s] = {}
    <3>1. \A p, c \in Tx : c \in m.children[p] => c \notin S
      BY <2>2 DEF PoolOk, LinksSound
    <3>2. ClosedUnder(m.children, E)
      <4> SUFFICES ASSUME NEW x \in E, NEW c \in m.children[x] PROVE c \in E
        BY DEF ClosedUnder
      <4>1. x \in Tx /\ c \in Tx /\ x \notin S
        BY <1>1, <1>3, <1>5 DEF Links
      <4>2. c \in r.children[x]
        BY <1>4, <3>1, <4>1
      <4> QED
        BY <1>3, <4>2 DEF ClosedUnder
    <3> QED
      BY <1>2, <1>3, <3>2
  <2> QED
    BY <2>1, <2>2
<1>7. E = D \ S
  BY <1>5, <1>6
<1> QED
  BY <1>7 DEF CalculateDescendants, From, D, E

\* Entries are removed: with their descendants, or without parents.
LEMMA StagedTotals ==
    ASSUME NEW m, PoolOk(m), Totalled(m), NEW S \in SUBSET m.tx,
           ClosedUnder(m.children, S) \/ \A s \in S : m.parents[s] = {}
    PROVE  Totalled(RemoveStaged(m, S))
<1> DEFINE r == RemoveStaged(m, S)
<1>1. IsPool(m) /\ S \in SUBSET Tx /\ TotalsTyped(m) /\ m.tx \in SUBSET Tx
  BY DEF PoolOk, Totalled
<1>2. IsStaged(m, S, r) /\ r.tx = m.tx \ S
  BY <1>1, StagedIs, StagedOk
<1>3. IsUncounted(m, S, r)
  BY <1>1, StagedUncounts
<1> HIDE DEF r
<1>4. ASSUME NEW t \in m.tx \ S PROVE TotalsOf(r, t, CalculateDescendants(r, t))
  <2> DEFINE D == CalculateDescendants(m, t)
             R == {s \in S : t \in LinkedAncestors(m, s)}
  <2>1. t \in D /\ D \in SUBSET Tx
    BY <1>1, DescendantsAre
  <2>2. R = S \cap D
    <3>1. \A s \in S : t \in LinkedAncestors(m, s) <=> s \in D
      BY <1>1, AncestorsMatch
    <3> QED
      BY <3>1
  <2>3. LessTotals(m, r, t, R)
    BY <1>1, <1>3 DEF IsUncounted
  <2>4. CalculateDescendants(r, t) = D \ S
    <3>1. Without(m, S, r)
      BY <1>2 DEF IsStaged, Without
    <3> QED
      BY <3>1, StagedDescendants
  <2>5. TotalsOf(m, t, D)
    BY DEF Totalled
  <2> HIDE DEF D, R
  <2>6. D \ R = D \ S /\ R \in SUBSET D /\ t \notin R
    BY <2>2
  <2>7. SameDelta(m, r, D \ R)
    BY <1>3, <2>1, <2>6 DEF SameDelta, IsUncounted
  <2>8. TotalsOf(r, t, D \ R)
    BY <1>1, <1>3, <2>1, <2>3, <2>5, <2>6, <2>7, TotalsLess DEF IsUncounted
  <2> QED
    BY <2>4, <2>6, <2>8
<1> QED
  BY <1>2, <1>3, <1>4 DEF Totalled, IsUncounted, r


\* remove of a set of entries.
LEMMA RemovedAllTotals ==
    ASSUME NEW m, PoolOk(m), Totalled(m), NEW T \in SUBSET Tx
    PROVE  Totalled(RemoveAll(m, T))
<1> DEFINE S == UNION {Recursive(m, t) : t \in T}
<1>1. \A t \in T : Recursive(m, t) \in SUBSET m.tx /\ ClosedUnder(m.children, Recursive(m, t))
  BY RecursiveIs
<1>2. S \in SUBSET m.tx /\ ClosedUnder(m.children, S)
  BY <1>1 DEF ClosedUnder
<1>3. RemoveAll(m, T) = RemoveStaged(m, S)
  BY DEF RemoveAll
<1> HIDE DEF S
<1> QED
  BY <1>2, <1>3, StagedTotals

\* remove of one entry.
LEMMA RemovedTxTotals ==
    ASSUME NEW m, PoolOk(m), Totalled(m), NEW t \in Tx
    PROVE  Totalled(RemoveTx(m, t))
<1>1. Recursive(m, t) \in SUBSET m.tx /\ ClosedUnder(m.children, Recursive(m, t))
  BY RecursiveIs
<1> QED
  BY <1>1, StagedTotals DEF RemoveTx

\* A mined transaction has no parents in the pool.
LEMMA RemovedMinedTotals ==
    ASSUME NEW m, PoolOk(m), Totalled(m), NEW t \in Tx, m.parents[t] = {}
    PROVE  Totalled(RemoveMined(m, t))
<1> DEFINE r == RemoveAlone(m, t)
           S == {t} \cap m.tx
<1>1. S \in SUBSET m.tx /\ \A s \in S : m.parents[s] = {}
  OBVIOUS
<1>2. r = RemoveStaged(m, S)
  BY DEF RemoveAlone
<1> HIDE DEF S, r
<1>3. PoolOk(r) /\ Totalled(r)
  BY <1>1, <1>2, StagedTotals, StagedOk
<1>4. Conflicts(r, t) \in SUBSET Tx
  BY <1>3, PoolAssumption DEF Conflicts, PoolOk, IndexExact
<1>5. Totalled(RemoveAll(r, Conflicts(r, t)))
  BY <1>3, <1>4, RemovedAllTotals
<1> QED
  BY <1>5 DEF RemoveMined, r

\* The fees change with the delta.
LEMMA PrioritisedTotals ==
    ASSUME NEW m, PoolOk(m), Totalled(m), NEW t \in m.tx, NEW n \in Int
    PROVE  Totalled(Prioritised(m, t, n))
<1> DEFINE r == Prioritised(m, t, n)
           A == LinkedAncestors(m, t)
<1>1. IsPool(m) /\ TotalsTyped(m) /\ m.tx \in SUBSET Tx /\ t \in Tx
  BY DEF PoolOk, Totalled
<1>2. IsPool(r) /\ SameStructure(m, r)
  BY <1>1, PrioritisedIs
<1>3. t \notin A
  BY <1>1, NoCircle
<1>4. /\ r.delta = [m.delta EXCEPT ![t] = @ + n]
      /\ r.count = [x \in Tx |-> IF x \in A /\ ~IsDirty(m, x) THEN m.count[x] + 0 ELSE m.count[x]]
      /\ r.fees = [x \in Tx |-> IF x \in A /\ ~IsDirty(m, x) THEN [m.fees EXCEPT ![t] = @ + n][x] + n
                                                             ELSE [m.fees EXCEPT ![t] = @ + n][x]]
  <2> HIDE DEF A
  <2> QED
    BY <1>1 DEF Prioritised, Counted, IsPool, IsDirty, A
<1> HIDE DEF A, r
<1>5. TotalsTyped(r)
  BY <1>1, <1>4 DEF TotalsTyped
<1>6. /\ r.delta[t] = m.delta[t] + n /\ \A u \in Tx \ {t} : r.delta[u] = m.delta[u]
      /\ \A x \in Tx : r.count[x] = m.count[x]
      /\ r.fees[t] = m.fees[t] + n
      /\ \A x \in Tx \ {t} : r.fees[x] = IF x \in A /\ ~IsDirty(m, x) THEN m.fees[x] + n ELSE m.fees[x]
  BY <1>1, <1>3, <1>4 DEF TotalsTyped
<1>7. ASSUME NEW x \in m.tx PROVE TotalsOf(r, x, CalculateDescendants(r, x))
  <2> DEFINE D == CalculateDescendants(m, x)
  <2>1. x \in D /\ D \in SUBSET Tx /\ x \in Tx
    BY <1>1, DescendantsAre
  <2>2. CalculateDescendants(r, x) = D
    BY <1>2 DEF SameStructure, CalculateDescendants
  <2>3. TotalsOf(m, x, D)
    BY DEF Totalled
  <2>4. x # t => (x \in A <=> t \in D)
    BY <1>1, AncestorsMatch DEF A
  <2> HIDE DEF D
  <2>5. FeesOf(r, D) = FeesOf(m, D) + (IF t \in D THEN n ELSE 0)
    BY <1>1, <1>5, <1>6, <2>1, FeesShift DEF TotalsTyped
  <2>6. FeesOf(m, D) \in Int
    BY <1>1, <2>1, FeesType DEF TotalsTyped
  <2>7. /\ Fee[x] \in Int /\ m.delta[x] \in Int
    BY <1>1, <2>1, PoolAssumption DEF TotalsTyped
  <2>8. ModifiedFee(r, x) = IF x = t THEN ModifiedFee(m, x) + n ELSE ModifiedFee(m, x)
    BY <1>6, <2>1, <2>7 DEF ModifiedFee
  <2>9. TotalsOf(r, x, D)
    <3>1. CASE x = t
      BY <1>6, <2>1, <2>3, <2>5, <2>8, <3>1 DEF TotalsOf, IsDirty
    <3>2. CASE x # t
      BY <1>6, <2>1, <2>3, <2>4, <2>5, <2>6, <2>8, <3>2 DEF TotalsOf, IsDirty
    <3> QED
      BY <3>1, <3>2
  <2> QED
    BY <2>2, <2>9
<1>8. r.tx = m.tx
  BY <1>2 DEF SameStructure
<1> QED
  BY <1>5, <1>7, <1>8 DEF Totalled, r


\* A transaction is added: its ancestors count it.
LEMMA AddedTotals ==
    ASSUME NEW m, PoolOk(m), Totalled(m), NEW t \in Tx, t \notin m.tx, NEW delta \in Int,
           \A o \in Inputs[t] : m.nextTx[o] = NoTx
    PROVE  Totalled(addUnchecked(m, t, delta))
<1> DEFINE r == addUnchecked(m, t, delta)
           P == PoolParents(m, t)
           A == SearchedAncestors(m, t)
           fee == Fee[t] + delta
<1>1. IsPool(m) /\ TotalsTyped(m) /\ m.tx \in SUBSET Tx /\ m.parents \in Links /\ m.children \in Links
  BY DEF PoolOk, Totalled
<1>2. PoolOk(r) /\ r.tx = m.tx \cup {t} /\ IsAdded(m, t, r)
  BY <1>1, AddedOk, AddedIs
<1>3. P \in SUBSET m.tx /\ P \in SUBSET Tx /\ t \notin P
  BY <1>1 DEF PoolParents
<1>4. A \in SUBSET m.tx
  <2>1. ClosedUnder(m.parents, m.tx)
    BY <1>1 DEF ClosedUnder, PoolOk, LinksSound, Links
  <2>2. Reached(m.parents, P) \subseteq m.tx
    <3> HIDE DEF P
    <3> QED
      BY <1>1, <1>3, <2>1, ReachedLeast
  <2> QED
    BY <2>2 DEF SearchedAncestors
<1>5. /\ r.delta = [m.delta EXCEPT ![t] = delta]
      /\ r.count = [x \in Tx |-> IF x \in A /\ ~([m.count EXCEPT ![t] = 1][x] = 0)
                                 THEN [m.count EXCEPT ![t] = 1][x] + 1 ELSE [m.count EXCEPT ![t] = 1][x]]
      /\ r.fees = [x \in Tx |-> IF x \in A /\ ~([m.count EXCEPT ![t] = 1][x] = 0)
                                THEN [m.fees EXCEPT ![t] = fee][x] + fee ELSE [m.fees EXCEPT ![t] = fee][x]]
  <2> HIDE DEF A
  <2> QED
    BY <1>1 DEF addUnchecked, Counted, IsPool, IsDirty, A
<1> HIDE DEF A, r, P
<1>6. fee \in Int /\ fee = ModifiedFee(r, t)
  BY <1>1, <1>5, PoolAssumption DEF ModifiedFee, TotalsTyped
<1> HIDE DEF fee
<1>7. TotalsTyped(r)
  BY <1>1, <1>5, <1>6 DEF TotalsTyped
<1>8. /\ r.count[t] = 1 /\ r.fees[t] = fee
      /\ \A x \in Tx \ {t} : /\ r.delta[x] = m.delta[x]
                             /\ x \in A /\ ~IsDirty(m, x)
                                  => r.count[x] = m.count[x] + 1 /\ r.fees[x] = m.fees[x] + fee
                             /\ ~(x \in A /\ ~IsDirty(m, x)) => SameTotals(m, r, x)
  BY <1>1, <1>4, <1>5 DEF TotalsTyped, SameTotals, IsDirty
<1>9. Cardinality({t}) = 1 /\ FeesOf(r, {t}) = fee
  <2>1. FeesOf(r, {t}) = ModifiedFee(r, t) + FeesOf(r, {t} \ {t})
    BY <1>7, FeesWith DEF TotalsTyped
  <2>2. FeesOf(r, {}) = 0 /\ {t} \ {t} = {}
    BY <1>7, FeesNone DEF TotalsTyped
  <2>3. Cardinality({t}) = 1
    BY FS_Singleton
  <2> QED
    BY <1>6, <2>1, <2>2, <2>3
<1>10. r.children[t] = {} /\ r.parents[t] = P /\ Without(r, {t}, m)
  <2>1. \A x \in Tx : t \notin m.children[x]
    BY <1>1 DEF PoolOk, LinksSound
  <2>2. m.children[t] = {}
    BY <1>1 DEF PoolOk, LinksSound, Links
  <2>3. r.children = [p \in Tx |-> IF p \in P THEN m.children[p] \cup {t} ELSE m.children[p]]
    BY <1>2 DEF IsAdded, P
  <2>4. r.parents[t] = P
    BY <1>1, <1>2 DEF IsAdded, P, Links
  <2>5. m.children = [x \in Tx |-> m.children[x]]
    BY <1>1 DEF Links
  <2>6. \A x \in Tx : m.children[x] = IF x \in {t} THEN {} ELSE r.children[x] \ {t}
    BY <2>1, <2>2, <2>3
  <2> QED
    BY <1>3, <2>2, <2>3, <2>4, <2>5, <2>6 DEF Without
<1>11. A = LinkedAncestors(r, t)
  <2> DEFINE B == Reached(r.parents, P)
             M == Reached(m.parents, P)
  <2>0. r.parents \in Links /\ P \in SUBSET Tx
    BY <1>2, <1>3 DEF PoolOk
  <2>1. /\ M \in SUBSET Tx /\ P \subseteq M /\ ClosedUnder(m.parents, M)
        /\ \A R \in SUBSET Tx : P \subseteq R /\ ClosedUnder(m.parents, R) => M \subseteq R
    BY <1>1, <2>0, ReachedLeast
  <2>2. /\ B \in SUBSET Tx /\ P \subseteq B /\ ClosedUnder(r.parents, B)
        /\ \A R \in SUBSET Tx : P \subseteq R /\ ClosedUnder(r.parents, R) => B \subseteq R
    BY <2>0, ReachedLeast
  <2>3. A = M
    BY DEF A, SearchedAncestors, P
  <2>4. LinkedAncestors(r, t) = B
    BY <1>10 DEF LinkedAncestors
  <2> HIDE DEF B, M
  <2>5. \A x \in Tx \ {t} : r.parents[x] = m.parents[x]
    BY <1>1, <1>2 DEF IsAdded, Links
  <2>6. t \notin M /\ t \notin B
    BY <1>2, <1>4, <2>3, <2>4, NoCircle
  <2>7. ClosedUnder(r.parents, M) /\ ClosedUnder(m.parents, B)
    BY <2>1, <2>2, <2>5, <2>6 DEF ClosedUnder
  <2> QED
    BY <2>1, <2>2, <2>3, <2>4, <2>7
<1>12. TotalsOf(r, t, CalculateDescendants(r, t))
  <2>1. t \in r.tx
    BY <1>2
  <2>2. /\ t \in CalculateDescendants(r, t)
        /\ \A R \in SUBSET Tx : t \in R /\ ClosedUnder(r.children, R)
                                      => CalculateDescendants(r, t) \subseteq R
    BY <1>2, <2>1, DescendantsAre
  <2>3. ClosedUnder(r.children, {t})
    BY <1>10 DEF ClosedUnder
  <2>4. CalculateDescendants(r, t) = {t}
    BY <2>2, <2>3
  <2> QED
    BY <1>8, <1>9, <2>4 DEF TotalsOf, IsDirty
<1>13. ASSUME NEW x \in m.tx PROVE TotalsOf(r, x, CalculateDescendants(r, x))
  <2> DEFINE D == CalculateDescendants(m, x)
             E == CalculateDescendants(r, x)
  <2>1. x \in D /\ D \in SUBSET m.tx /\ D \in SUBSET Tx /\ x \in Tx \ {t}
    BY <1>1, DescendantsAre
  <2>2. D = E \ {t}
    <3>1. ClosedUnder(r.children, {t})
      BY <1>10 DEF ClosedUnder
    <3>2. {t} \in SUBSET r.tx /\ x \in r.tx \ {t}
      BY <1>2
    <3> QED
      BY <1>2, <1>10, <3>1, <3>2, StagedDescendants
  <2>3. x \in A <=> t \in E
    BY <1>2, <1>11, <2>1, AncestorsMatch
  <2>4. TotalsOf(m, x, D)
    BY DEF Totalled
  <2> HIDE DEF D, E
  <2>5. SameDelta(m, r, D)
    BY <1>8, <2>1 DEF SameDelta
  <2>6. CASE x \in A
    <3>1. E = D \cup {t} /\ D \cap {t} = {} /\ {t} \in SUBSET Tx
      BY <2>2, <2>3, <2>6
    <3>2. MoreTotals(m, r, x, {t})
      BY <1>8, <1>9, <2>1, <2>6 DEF MoreTotals
    <3>3. TotalsOf(r, x, D \cup {t})
      BY <1>1, <1>7, <2>1, <2>4, <2>5, <3>1, <3>2, TotalsMore
    <3> QED
      BY <3>1, <3>3 DEF E
  <2>7. CASE x \notin A
    <3>1. E = D
      BY <2>2, <2>3, <2>7
    <3>2. SameTotals(m, r, x)
      BY <1>8, <2>1, <2>7
    <3>3. TotalsOf(r, x, D)
      BY <1>1, <1>7, <2>1, <2>4, <2>5, <3>2, TotalsSame
    <3> QED
      BY <3>1, <3>3 DEF E
  <2> QED
    BY <2>6, <2>7
<1> QED
  BY <1>2, <1>7, <1>12, <1>13 DEF Totalled, r


\* The transactions of a block leave the pool in their order, each without
\* parents in the pool by then.
LEMMA RemovedForBlockTotals ==
    ASSUME NEW m, PoolOk(m), m.weighted = m.tx, Totalled(m), NEW b \in Block, b # Genesis,
           m.tx \cap Confirmed(pprev[b]) = {}
    PROVE  Totalled(RemoveForBlock(m, vtx[b]))
<1> DEFINE txs == vtx[b]
<1>0. txs \in Seq(Tx) /\ Len(txs) \in Nat
  BY MempoolAssumption
<1>a. ASSUME NEW i \in 1..Len(txs), NEW o \in Inputs[txs[i]], Creator[o] \in m.tx
      PROVE  Creator[o] \in UpTo(txs, i - 1)
  <2>1. Unspent(o, pprev[b]) \/ \E j \in 1..(i - 1) : Creator[o] = txs[j]
    BY <1>a, BlocksAssumption
  <2>2. ~Unspent(o, pprev[b])
    BY <1>a, PoolAssumption DEF Unspent, PoolOk
  <2> QED
    BY <2>1, <2>2 DEF UpTo
<1> HIDE DEF txs
<1>1. PICK f : /\ RemoveForBlock(m, txs) = f[Len(txs)] /\ f[0] = m
               /\ \A i \in 1..Len(txs) : f[i] = RemoveMined(f[i - 1], txs[i])
  BY <1>0, RemoveForBlockIs
<1> DEFINE Good(i) == MinedFrom(m, UpTo(txs, i), f[i]) /\ Totalled(f[i])
           Bad == {i \in 0..Len(txs) : ~Good(i)}
<1>2. Bad = {}
  <2> SUFFICES ASSUME Bad # {} PROVE FALSE
    OBVIOUS
  <2>1. PICK i \in Bad : \A k \in Bad : i <= k
    <3>1. Bad \in SUBSET Nat
      BY <1>0
    <3> HIDE DEF Bad
    <3> QED
      BY <3>1, LeastNatural
  <2>2. i # 0
    <3>1. MinedFrom(m, {}, m)
      BY DEF MinedFrom
    <3>2. UpTo(txs, 0) = {}
      BY DEF UpTo
    <3> QED
      BY <3>1, <3>2, <1>1
  <2>3. i \in 1..Len(txs) /\ i - 1 \in 0..Len(txs) /\ i - 1 \notin Bad
    BY <1>0, <2>1, <2>2
  <2>4. MinedFrom(m, UpTo(txs, i - 1), f[i - 1]) /\ Totalled(f[i - 1]) /\ txs[i] \in Tx
    BY <1>0, <2>3
  <2>5. UpTo(txs, i) = UpTo(txs, i - 1) \cup {txs[i]}
    BY <1>0, <2>3 DEF UpTo
  <2>6. f[i] = RemoveMined(f[i - 1], txs[i])
    BY <1>1, <2>3
  <2>7. MinedFrom(m, UpTo(txs, i), f[i])
    BY <2>4, <2>5, <2>6, MinedStep
  <2>8. PoolOk(f[i - 1]) /\ f[i - 1].tx \in SUBSET (m.tx \ UpTo(txs, i - 1))
    BY <2>4 DEF MinedFrom
  <2>9. f[i - 1].parents[txs[i]] = {}
    <3>1. ASSUME NEW p \in f[i - 1].parents[txs[i]] PROVE FALSE
      <4>1. p \in Tx
        BY <2>4, <2>8, <3>1 DEF PoolOk, Links
      <4>2. p \in f[i - 1].tx /\ Spends(txs[i], p)
        BY <2>4, <2>8, <3>1, <4>1 DEF PoolOk, LinksSound
      <4> QED
        BY <1>a, <2>3, <2>8, <4>2 DEF Spends
    <3> QED
      BY <3>1
  <2>10. Totalled(f[i])
    BY <2>4, <2>6, <2>8, <2>9, RemovedMinedTotals
  <2> QED
    BY <2>7, <2>10, <2>1
<1>3. Len(txs) \in 0..Len(txs)
  BY <1>0
<1>4. Totalled(f[Len(txs)])
  BY <1>2, <1>3
<1> QED
  BY <1>1, <1>4 DEF txs

-----------------------------------------------------------------------------
(* The totals of a block that comes back.                                   *)

\* What a round of UpdateTransactionsFromBlock does to the totals.
IsUpdated(m, t, more, r) ==
    /\ TotalsTyped(r) /\ r.delta = m.delta
    /\ \A x \in Tx \ {t} : SameTotals(m, r, x)
    /\ (r.count[t] = 0 /\ r.fees[t] = ModifiedFee(m, t)) \/ MoreTotals(m, r, t, more)

\* A round of UpdateTransactionsFromBlock changes the totals of its entry only.
LEMMA UpdatedTotals ==
    ASSUME NEW m, PoolOk(m), TotalsTyped(m), NEW t \in m.tx, NEW block
    PROVE  IsUpdated(m, t, AddedDescendants(Linked(m, t, block), t, block), UpdateOne(m, t, block))
<1> DEFINE l == Linked(m, t, block)
           more == AddedDescendants(l, t, block)
           r == UpdateOne(m, t, block)
           sum == FeesOf(l, more)
<1>1. IsPool(m) /\ t \in Tx /\ m.delta \in [Tx -> Int]
  BY DEF PoolOk, TotalsTyped
<1>2. PoolOk(l) /\ l.count = m.count /\ l.fees = m.fees /\ l.delta = m.delta /\ IsPool(l)
  <2>1. PoolOk(l)
    BY LinkedOk
  <2> QED
    BY <1>1, <2>1 DEF Linked, IsPool, PoolOk
<1>3. more \in SUBSET Tx
  <2>1. l.children \in Links /\ l.children[t] \in SUBSET Tx
    BY <1>1, <1>2 DEF PoolOk, Links
  <2> HIDE DEF l
  <2>2. Reached(l.children, l.children[t]) \in SUBSET Tx
    BY <2>1, ReachedLeast
  <2> QED
    BY <2>2 DEF AddedDescendants
<1>4. r = IF TooMany(l, t, block)
          THEN [l EXCEPT !.count[t] = 0, !.fees[t] = ModifiedFee(m, t)]
          ELSE Counted(l, {t}, Cardinality(more), sum)
  BY DEF UpdateOne, Linked
<1> HIDE DEF l, more, r
<1>5. Cardinality(more) \in Int /\ sum \in Int /\ ModifiedFee(m, t) \in Int
  <2>1. Cardinality(more) \in Int
    BY <1>3, Sizes
  <2>2. sum \in Int
    BY <1>1, <1>2, <1>3, FeesType
  <2> QED
    BY <1>1, <2>1, <2>2, PoolAssumption DEF ModifiedFee
<1> HIDE DEF sum
<1>6. CASE TooMany(l, t, block)
  <2>1. /\ r.count = [m.count EXCEPT ![t] = 0] /\ r.fees = [m.fees EXCEPT ![t] = ModifiedFee(m, t)]
        /\ r.delta = m.delta
    BY <1>2, <1>4, <1>6 DEF IsPool
  <2> QED
    BY <1>1, <1>5, <2>1 DEF IsUpdated, TotalsTyped, SameTotals, l, more, r
<1>7. CASE ~TooMany(l, t, block)
  <2>1. /\ r.count = [x \in Tx |-> IF x \in {t} /\ ~IsDirty(l, x) THEN m.count[x] + Cardinality(more)
                                                                 ELSE m.count[x]]
        /\ r.fees = [x \in Tx |-> IF x \in {t} /\ ~IsDirty(l, x) THEN m.fees[x] + sum ELSE m.fees[x]]
        /\ r.delta = m.delta
    BY <1>2, <1>4, <1>7 DEF IsPool, Counted
  <2>2. IsDirty(l, t) <=> IsDirty(m, t)
    BY <1>2 DEF IsDirty
  <2>3. TotalsTyped(r)
    BY <1>5, <2>1 DEF TotalsTyped
  <2>4. FeesOf(r, more) = sum
    <3>1. l.delta \in [Tx -> Int] /\ r.delta \in [Tx -> Int] /\ \A x \in more : r.delta[x] = l.delta[x]
      BY <1>1, <1>2, <2>1
    <3> QED
      BY <1>3, <3>1, FeesSame DEF sum
  <2>5. MoreTotals(m, r, t, more)
    BY <1>1, <2>1, <2>2, <2>4 DEF MoreTotals, SameTotals
  <2>6. \A x \in Tx \ {t} : SameTotals(m, r, x)
    BY <2>1 DEF SameTotals
  <2> QED
    BY <2>1, <2>3, <2>5, <2>6 DEF IsUpdated, l, more, r
<1> QED
  BY <1>6, <1>7


\* The descendants that the totals of x are about while the loop is under way:
\* those of H for an entry that the loop has not come to.
Counts(m, H, C, x) ==
    IF x \in H \ C THEN CalculateDescendants(m, x) \cap H ELSE CalculateDescendants(m, x)

\* The links of the block H, after the rounds for C.
BlockLinks(m, H, C) ==
    /\ \A h \in H : m.parents[h] \subseteq H
    /\ \A h \in H \ C : m.children[h] \subseteq H
    /\ \A h \in C : m.children[h] \cap H \subseteq C

LoopTotals(m, H, C) ==
    /\ PoolOk(m) /\ TotalsTyped(m) /\ BlockLinks(m, H, C)
    /\ \A x \in m.tx : TotalsOf(m, x, Counts(m, H, C, x))

\* Children of t outside of H become linked to it.
IsLinkedTo(m, t, new, l) ==
    /\ l.parents = [c \in Tx |-> IF c \in new THEN m.parents[c] \cup {t} ELSE m.parents[c]]
    /\ l.children = [m.children EXCEPT ![t] = @ \cup new]

\* A round adds the links to the children outside of the block.
LEMMA LinkedTo ==
    ASSUME NEW m, IsPool(m), NEW t, NEW block
    PROVE  IsLinkedTo(m, t, SpendersOf(m, t) \ block, Linked(m, t, block))
BY DEF IsLinkedTo, Linked, IsPool

\* A round keeps what the loop knows of the links.
LEMMA BlockLinksStep ==
    ASSUME NEW m, PoolOk(m), NEW H \in SUBSET Tx, NEW C \in SUBSET H, BlockLinks(m, H, C),
           NEW t \in H, \A c \in H : Spends(c, t) => c \in C,
           NEW new \in SUBSET Tx, new \cap H = {}, NEW l, IsLinkedTo(m, t, new, l)
    PROVE  BlockLinks(l, H, C \cup {t})
<1>1. m.children \in Links /\ m.parents \in Links /\ t \in Tx
  BY DEF PoolOk
<1>2. m.children[t] \cap H \subseteq C
  BY <1>1 DEF PoolOk, LinksSound, Links
<1>3. \A h \in H : l.parents[h] \subseteq H
  BY DEF BlockLinks, IsLinkedTo
<1>4. \A h \in H \ (C \cup {t}) : l.children[h] \subseteq H
  BY <1>1 DEF BlockLinks, IsLinkedTo, Links
<1>5. \A h \in C \cup {t} : l.children[h] \cap H \subseteq C \cup {t}
  BY <1>1, <1>2 DEF BlockLinks, IsLinkedTo, Links
<1> QED
  BY <1>3, <1>4, <1>5 DEF BlockLinks

\* The new links lead out of the block, and nothing leads back into it.
LEMMA LinkedWithin ==
    ASSUME NEW m, PoolOk(m), NEW H \in SUBSET Tx, NEW C \in SUBSET H, BlockLinks(m, H, C),
           NEW t \in H, NEW new \in SUBSET Tx, new \cap H = {}, NEW l, PoolOk(l),
           IsLinkedTo(m, t, new, l), NEW x \in Tx
    PROVE  CalculateDescendants(l, x) \cap H = CalculateDescendants(m, x) \cap H
<1> DEFINE D == From(m.children, x)
           E == From(l.children, x)
           R == (D \cap H) \cup (Tx \ H) 
<1>1. m.children \in Links /\ l.children \in Links
  BY DEF PoolOk
<1>2. /\ D \in SUBSET Tx /\ x \in D /\ ClosedUnder(m.children, D)
      /\ \A U \in SUBSET Tx : x \in U /\ ClosedUnder(m.children, U) => D \subseteq U
  BY <1>1, FromLeast
<1>3. /\ E \in SUBSET Tx /\ x \in E /\ ClosedUnder(l.children, E)
      /\ \A U \in SUBSET Tx : x \in U /\ ClosedUnder(l.children, U) => E \subseteq U
  BY <1>1, FromLeast
<1>4. \A y \in Tx : /\ m.children[y] \subseteq l.children[y]
                    /\ l.children[y] \subseteq m.children[y] \cup (Tx \ H)
  BY <1>1 DEF IsLinkedTo, Links
<1>5. \A y \in Tx \ H : m.children[y] \cap H = {}
  BY <1>1 DEF BlockLinks, PoolOk, LinksSound, Links
<1> HIDE DEF D, E
<1>6. D \subseteq E
  <2>1. ClosedUnder(m.children, E)
    BY <1>3, <1>4 DEF ClosedUnder
  <2> QED
    BY <1>2, <1>3, <2>1
<1>7. E \subseteq R
  <2>1. ClosedUnder(l.children, R)
    <3> SUFFICES ASSUME NEW y \in R PROVE l.children[y] \subseteq R
      BY DEF ClosedUnder
    <3>1. CASE y \in D \cap H
      BY <1>1, <1>2, <1>4, <3>1 DEF ClosedUnder, Links
    <3>2. CASE y \in Tx \ H
      BY <1>1, <1>4, <1>5, <3>2 DEF Links
    <3> QED
      BY <3>1, <3>2
  <2>2. x \in R /\ R \in SUBSET Tx
    BY <1>2
  <2> QED
    BY <1>3, <2>1, <2>2
<1>8. E \cap H = D \cap H
  BY <1>6, <1>7
<1> QED
  BY <1>8 DEF CalculateDescendants, From, D, E

\* Where the loop has been, or need not go, nothing leads to t.
LEMMA LinkedElsewhere ==
    ASSUME NEW m, PoolOk(m), NEW H \in SUBSET Tx, NEW C \in SUBSET H, BlockLinks(m, H, C),
           NEW t \in H \ C, NEW new \in SUBSET Tx, NEW l, PoolOk(l),
           IsLinkedTo(m, t, new, l), NEW x \in Tx, x \notin H \ C
    PROVE  CalculateDescendants(l, x) = CalculateDescendants(m, x)
<1> DEFINE D == From(m.children, x)
           E == From(l.children, x)
           Z == C \cup (Tx \ H)
<1>1. m.children \in Links /\ l.children \in Links
  BY DEF PoolOk
<1>2. /\ D \in SUBSET Tx /\ x \in D /\ ClosedUnder(m.children, D)
      /\ \A U \in SUBSET Tx : x \in U /\ ClosedUnder(m.children, U) => D \subseteq U
  BY <1>1, FromLeast
<1>3. /\ E \in SUBSET Tx /\ x \in E /\ ClosedUnder(l.children, E)
      /\ \A U \in SUBSET Tx : x \in U /\ ClosedUnder(l.children, U) => E \subseteq U
  BY <1>1, FromLeast
<1>4. \A y \in Tx \ {t} : l.children[y] = m.children[y]
  BY <1>1 DEF IsLinkedTo, Links
<1>5. \A y \in Tx \ H : m.children[y] \cap H = {}
  BY <1>1 DEF BlockLinks, PoolOk, LinksSound, Links
<1>6. ClosedUnder(m.children, Z) /\ x \in Z /\ Z \in SUBSET Tx /\ t \notin Z
  BY <1>1, <1>5 DEF BlockLinks, ClosedUnder, Links
<1> HIDE DEF D, E
<1>7. D \subseteq Z
  <2> HIDE DEF Z
  <2> QED
    BY <1>2, <1>6
<1>8. ClosedUnder(l.children, D)
  BY <1>2, <1>4, <1>6, <1>7 DEF ClosedUnder
<1>9. E \subseteq D
  BY <1>2, <1>3, <1>8
<1>10. ClosedUnder(m.children, E)
  BY <1>3, <1>4, <1>6, <1>7, <1>9 DEF ClosedUnder
<1>11. E = D
  BY <1>2, <1>3, <1>9, <1>10
<1> QED
  BY <1>11 DEF CalculateDescendants, From, D, E


\* No transaction spends from itself.
LEMMA NoSelfSpend ==
    ASSUME NEW t \in Tx
    PROVE  ~Spends(t, t)
<1>1. {t} \in SUBSET Tx /\ {t} # {}
  OBVIOUS
<1>2. \E x \in {t} : \A o \in Inputs[x] : Creator[o] \notin {t}
  BY <1>1, OrderAssumption
<1> QED
  BY <1>2 DEF Spends

\* One round more.
LEMMA LoopTotalsStep ==
    ASSUME NEW m, NEW H \in SUBSET Tx, NEW C \in SUBSET H, LoopTotals(m, H, C),
           NEW t \in H \ C, \A c \in H : Spends(c, t) => c \in C
    PROVE  LoopTotals(UpdateOne(m, t, H), H, C \cup {t})
<1> DEFINE r == UpdateOne(m, t, H)
           B == C \cup {t}
<1>1. PoolOk(m) /\ TotalsTyped(m) /\ BlockLinks(m, H, C) /\ m.tx \in SUBSET Tx /\ IsPool(m)
  BY DEF LoopTotals, PoolOk
<1>2. CASE t \notin m.tx
  <2>1. r = m
    BY <1>2 DEF UpdateOne
  <2>2. m.children[t] = {} /\ m.children \in Links
    BY <1>1, <1>2 DEF PoolOk, LinksSound, Links
  <2>3. BlockLinks(m, H, B)
    BY <1>1, <2>2 DEF BlockLinks
  <2>4. \A x \in m.tx : Counts(m, H, B, x) = Counts(m, H, C, x)
    BY <1>2 DEF Counts
  <2> HIDE DEF r, B
  <2>5. LoopTotals(m, H, B)
    BY <1>1, <2>3, <2>4 DEF LoopTotals
  <2> QED
    BY <2>1, <2>5 DEF r, B
<1>3. CASE t \in m.tx
  <2> DEFINE l == Linked(m, t, H)
             new == SpendersOf(m, t) \ H
             more == AddedDescendants(l, t, H)
             D(x) == CalculateDescendants(m, x)
             E(x) == CalculateDescendants(l, x)
  <2>1. PoolOk(l) /\ l.tx = m.tx
    BY <1>1, <1>3, LinkedOk
  <2>2. IsLinkedTo(m, t, new, l) /\ new \in SUBSET Tx /\ new \cap H = {}
    <3>1. SpendersOf(m, t) \in SUBSET Tx
      BY <1>1, SpendersAre
    <3> QED
      BY <1>1, <3>1, LinkedTo
  <2>3. IsPool(r) /\ SameStructure(l, r)
    BY <1>1, <1>3, UpdateOneIs
  <2>4. IsUpdated(m, t, more, r)
    BY <1>1, <1>3, UpdatedTotals
  <2> HIDE DEF r, l, new
  <2>5. PoolOk(r) /\ r.tx = m.tx /\ r.parents = l.parents /\ r.children = l.children
    BY <2>1, <2>3, SameOk DEF SameStructure
  <2>6. BlockLinks(r, H, B)
    <3>1. BlockLinks(l, H, B)
      BY <1>1, <2>2, BlockLinksStep
    <3> QED
      BY <2>5, <3>1 DEF BlockLinks
  <2>7. \A x : CalculateDescendants(r, x) = E(x)
    BY <2>5 DEF CalculateDescendants
  <2>8. \A x \in Tx : E(x) \cap H = D(x) \cap H
    BY <1>1, <2>1, <2>2, LinkedWithin
  <2>9. \A x \in Tx : x \notin H \ C => E(x) = D(x)
    BY <1>1, <2>1, <2>2, LinkedElsewhere
  <2>10. \A x \in m.tx : /\ x \in D(x) /\ D(x) \in SUBSET Tx
                         /\ x \in E(x) /\ E(x) \in SUBSET Tx
    <3>1. \A x \in m.tx : x \in CalculateDescendants(m, x) /\ CalculateDescendants(m, x) \in SUBSET m.tx
      BY <1>1, DescendantsAre
    <3>2. \A x \in l.tx : x \in CalculateDescendants(l, x) /\ CalculateDescendants(l, x) \in SUBSET l.tx
      BY <2>1, DescendantsAre
    <3> QED
      BY <1>1, <2>1, <3>1, <3>2
  <2>11. more = E(t) \ H
    <3>1. l.children \in Links
      BY <2>1 DEF PoolOk
    <3>2. From(l.children, t) = {t} \cup Reached(l.children, l.children[t])
      BY <3>1, FromLinks
    <3> QED
      BY <3>2 DEF From, AddedDescendants, CalculateDescendants
  <2> HIDE DEF D, E, more
  <2>12. ASSUME NEW x \in m.tx, x # t PROVE TotalsOf(r, x, Counts(r, H, B, x))
    <3> DEFINE S == Counts(m, H, C, x)
    <3>1. S = IF x \in H \ C THEN D(x) \cap H ELSE D(x)
      BY DEF Counts, D
    <3>2. Counts(r, H, B, x) = IF x \in H \ B THEN E(x) \cap H ELSE E(x)
      BY <2>7 DEF Counts
    <3> HIDE DEF S
    <3>3. Counts(r, H, B, x) = S
      BY <1>1, <2>8, <2>9, <2>12, <3>1, <3>2
    <3>4. S \in SUBSET Tx /\ x \in S
      BY <2>10, <3>1
    <3>5. TotalsOf(m, x, S)
      BY DEF LoopTotals, S
    <3>6. SameTotals(m, r, x) /\ SameDelta(m, r, S) /\ TotalsTyped(r)
      BY <1>1, <2>4, <2>12 DEF IsUpdated, SameDelta
    <3>7. TotalsOf(r, x, S)
      BY <1>1, <3>4, <3>5, <3>6, TotalsSame
    <3> QED
      BY <3>3, <3>7
  <2>13. TotalsOf(r, t, Counts(r, H, B, t))
    <3> DEFINE S == D(t) \cap H
    <3>1. TotalsOf(m, t, S)
      BY <1>3 DEF LoopTotals, Counts, D
    <3>2. Counts(r, H, B, t) = E(t)
      BY <2>7 DEF Counts
    <3>3. S \in SUBSET Tx /\ t \in S /\ more \in SUBSET Tx /\ S \cap more = {} /\ E(t) = S \cup more
      BY <1>3, <2>8, <2>10, <2>11
    <3> HIDE DEF S
    <3>4. SameDelta(m, r, S) /\ TotalsTyped(r) /\ r.delta = m.delta
      BY <2>4 DEF IsUpdated, SameDelta
    <3>5. CASE MoreTotals(m, r, t, more)
      <4>1. TotalsOf(r, t, S \cup more)
        BY <1>1, <3>1, <3>3, <3>4, <3>5, TotalsMore
      <4> QED
        BY <3>2, <3>3, <4>1
    <3>6. CASE r.count[t] = 0 /\ r.fees[t] = ModifiedFee(m, t)
      BY <3>4, <3>6 DEF TotalsOf, IsDirty, ModifiedFee
    <3> QED
      BY <2>4, <3>5, <3>6 DEF IsUpdated
  <2>14. TotalsTyped(r)
    BY <2>4 DEF IsUpdated
  <2> HIDE DEF B
  <2>15. LoopTotals(r, H, B)
    BY <2>5, <2>6, <2>12, <2>13, <2>14 DEF LoopTotals
  <2> QED
    BY <2>15 DEF r, B
<1> QED
  BY <1>2, <1>3

\* After the loop every entry counts all its descendants.
LEMMA UpdatedFromBlockTotals ==
    ASSUME NEW m, PoolOk(m), Totalled(m), NEW hs \in Seq(Tx), InOrder(hs),
           \A h \in ToSet(hs) : m.parents[h] \subseteq ToSet(hs) /\ m.children[h] \subseteq ToSet(hs)
    PROVE  Totalled(UpdateTransactionsFromBlock(m, hs))
<1> DEFINE H == ToSet(hs)
<1>0. H = {hs[j] : j \in 1..Len(hs)} /\ H \in SUBSET Tx /\ Len(hs) \in Nat
  BY DEF ToSet
<1>1. PICK f : /\ UpdateTransactionsFromBlock(m, hs) = f[Len(hs)] /\ f[0] = m
               /\ \A i \in 1..Len(hs) : f[i] = UpdateOne(f[i - 1], hs[Len(hs) + 1 - i], ToSet(hs))
  BY UpdateFromBlockIs
<1>2. \A h \in H : m.parents[h] \subseteq H /\ m.children[h] \subseteq H
  OBVIOUS
<1> HIDE DEF H
<1>3. LoopTotals(m, H, {})
  <2>1. BlockLinks(m, H, {})
    BY <1>2 DEF BlockLinks
  <2>2. ASSUME NEW x \in m.tx PROVE Counts(m, H, {}, x) = CalculateDescendants(m, x)
    <3>1. CASE x \in H
      <4>1. ClosedUnder(m.children, H)
        BY <1>2 DEF ClosedUnder
      <4>2. \A R \in SUBSET Tx : x \in R /\ ClosedUnder(m.children, R) => CalculateDescendants(m, x) \subseteq R
        BY DescendantsAre
      <4>3. CalculateDescendants(m, x) \subseteq H
        BY <1>0, <3>1, <4>1, <4>2
      <4> QED
        BY <4>3 DEF Counts
    <3>2. CASE x \notin H
      BY <3>2 DEF Counts
    <3> QED
      BY <3>1, <3>2
  <2> QED
    BY <2>1, <2>2 DEF LoopTotals, Totalled
<1> DEFINE Bad == {i \in 0..Len(hs) : ~LoopTotals(f[i], H, LastOf(hs, i))}
<1>4. Bad = {}
  <2> SUFFICES ASSUME Bad # {} PROVE FALSE
    OBVIOUS
  <2>1. PICK i \in Bad : \A k \in Bad : i <= k
    <3>1. Bad \in SUBSET Nat
      OBVIOUS
    <3> HIDE DEF Bad
    <3> QED
      BY <3>1, LeastNatural
  <2>2. i # 0
    <3>1. LastOf(hs, 0) = {}
      BY DEF LastOf
    <3> QED
      BY <1>1, <1>3, <3>1
  <2>3. i \in 1..Len(hs) /\ i - 1 \in 0..Len(hs) /\ i - 1 \notin Bad
    BY <2>1, <2>2
  <2>4. LoopTotals(f[i - 1], H, LastOf(hs, i - 1))
    BY <2>3
  <2> DEFINE n == Len(hs) + 1 - i
             t == hs[n]
             C == LastOf(hs, i - 1)
  <2>5. n \in 1..Len(hs) /\ t \in H
    BY <1>0, <2>3
  <2>6. LastOf(hs, i) = C \cup {t}
    BY <2>3 DEF LastOf
  <2>7. f[i] = UpdateOne(f[i - 1], t, H)
    BY <1>1, <2>3 DEF H
  <2>8. \A j \in 1..Len(hs) : j > n => hs[j] \in C
    <3> SUFFICES ASSUME NEW j \in 1..Len(hs), j > n PROVE hs[j] \in C
      OBVIOUS
    <3>1. Len(hs) + 1 - j \in 1..(i - 1) /\ Len(hs) + 1 - (Len(hs) + 1 - j) = j
      BY <2>3
    <3> QED
      BY <3>1 DEF LastOf
  <2>9. C \in SUBSET H /\ t \notin C
    <3>1. ASSUME NEW k \in 1..(i - 1)
          PROVE  Len(hs) + 1 - k \in 1..Len(hs) /\ Len(hs) + 1 - k > n
      BY <2>3
    <3>2. ASSUME NEW k \in 1..(i - 1)
          PROVE  hs[Len(hs) + 1 - k] \in H /\ hs[Len(hs) + 1 - k] # t
      <4>1. n < Len(hs) + 1 - k
        BY <2>5, <3>1
      <4> QED
        BY <1>0, <2>5, <3>1, <4>1 DEF InOrder
    <3> QED
      BY <3>2 DEF LastOf
  <2>10. \A c \in H : Spends(c, t) => c \in C
    <3> SUFFICES ASSUME NEW j \in 1..Len(hs), Spends(hs[j], t) PROVE hs[j] \in C
      BY <1>0
    <3>1. ~(j < n)
      BY <2>5 DEF InOrder
    <3>2. j # n
      <4>1. ~Spends(t, t)
        BY <1>0, <2>5, NoSelfSpend
      <4> QED
        BY <4>1
    <3>3. j > n
      BY <2>5, <3>1, <3>2
    <3> QED
      BY <2>8, <3>3
  <2> HIDE DEF Bad, t, C, n
  <2>11. LoopTotals(f[i], H, LastOf(hs, i))
    <3>1. LoopTotals(UpdateOne(f[i - 1], t, H), H, C \cup {t})
      BY <1>0, <2>4, <2>5, <2>9, <2>10, LoopTotalsStep DEF C
    <3> QED
      BY <2>6, <2>7, <3>1
  <2> QED
    BY <2>11, <2>1 DEF Bad
<1>5. LastOf(hs, Len(hs)) = H
  <2>1. \A j \in 1..Len(hs) : Len(hs) + 1 - j \in 1..Len(hs) /\ Len(hs) + 1 - (Len(hs) + 1 - j) = j
    OBVIOUS
  <2> QED
    BY <1>0, <2>1 DEF LastOf
<1>6. Len(hs) \in 0..Len(hs)
  OBVIOUS
<1>7. LoopTotals(f[Len(hs)], H, LastOf(hs, Len(hs)))
  BY <1>4, <1>6
<1>8. LoopTotals(f[Len(hs)], H, H)
  BY <1>5, <1>7
<1>9. \A r, x : Counts(r, H, H, x) = CalculateDescendants(r, x)
  BY DEF Counts
<1>10. Totalled(f[Len(hs)])
  BY <1>8, <1>9 DEF Totalled, LoopTotals
<1> QED
  BY <1>1, <1>10


-----------------------------------------------------------------------------
(* The invariant of the totals.                                             *)

\* The totals are those of the links at every moment.
TotalsPart == Totalled(mp) /\ mapDeltas \in [Tx -> Int]

\* While a block comes back its transactions are linked among themselves only,
\* and vHashUpdate has them in the order of the block.
ReturnPart ==
    Coming =>
      /\ \A t \in ToSet(vtx[tip]) : mp.children[t] \subseteq ToSet(vtx[tip])
      /\ InOrder(vHashUpdate) /\ ToSet(vHashUpdate) \cap ToSet(toResurrect) = {}

TotalsInv == TotalsPart /\ ReturnPart

\* Totalled, of the next state.
LEMMA TotalledPrimed ==
    Totalled(mp)' <=> Totalled(mp')
BY DEF Totalled, TotalsTyped, TotalsOf, IsDirty, ModifiedFee, FeesOf, CalculateDescendants, Reached,
       MapThenSumSet, MapThenFoldSet

\* ReturnPart, of the next state.
LEMMA ReturnPrimed ==
    ReturnPart' <=>
    (Coming' =>
      /\ \A t \in ToSet(vtx[tip']) : mp'.children[t] \subseteq ToSet(vtx[tip'])
      /\ InOrder(vHashUpdate') /\ ToSet(vHashUpdate') \cap ToSet(toResurrect') = {})
BY DEF ReturnPart, InOrder, ToSet, Spends

\* The empty pool has nothing to count.
LEMMA TotalsInit ==
    Init => TotalsInv
<1> SUFFICES ASSUME Init PROVE TotalsInv
  OBVIOUS
<1>1. Totalled(EmptyPool)
  BY DEF EmptyPool, Totalled, TotalsTyped
<1>2. mp = EmptyPool /\ mapDeltas = [t \in Tx |-> 0] /\ pc = "idle"
  BY DEF Init
<1>3. mapDeltas \in [Tx -> Int]
  BY <1>2
<1> QED
  BY <1>1, <1>2, <1>3 DEF TotalsInv, TotalsPart, ReturnPart, Coming

\* Where no block comes back.
LEMMA AtRestKeeps ==
    ASSUME Totalled(mp'), mapDeltas' \in [Tx -> Int], pc' \in {"idle", "limit", "step"}
    PROVE  TotalsInv'
BY TotalledPrimed DEF TotalsInv, TotalsPart, ReturnPart, Coming

\* A transaction that passes the checks of AcceptToMemoryPool is counted by its ancestors.
LEMMA AcceptTotals ==
    ASSUME MempoolInv, TotalsInv, NEW t \in Tx, NEW limit, Acceptable(t, limit)
    PROVE  Totalled(addUnchecked(mp, t, mapDeltas[t]))
<1>1. PoolOk(mp) /\ Totalled(mp) /\ mapDeltas[t] \in Int
  BY DEF MempoolInv, PoolPart, TotalsInv, TotalsPart
<1>2. t \notin mp.tx /\ \A o \in Inputs[t] : mp.nextTx[o] = NoTx
  BY AcceptableFine
<1> QED
  BY <1>1, <1>2, AddedTotals

\* A new transaction is accepted.
LEMMA AcceptToMemoryPoolTotals ==
    ASSUME MempoolInv, TotalsInv, NEW t \in Tx, AcceptToMemoryPool(t)
    PROVE  TotalsInv'
<1>1. /\ Acceptable(t, 0) /\ mp' = addUnchecked(mp, t, mapDeltas[t]) /\ pc' = "limit"
      /\ mapDeltas' = mapDeltas
  BY DEF AcceptToMemoryPool
<1>2. Totalled(mp')
  BY <1>1, AcceptTotals
<1>3. mapDeltas' \in [Tx -> Int]
  BY <1>1 DEF TotalsInv, TotalsPart
<1> QED
  BY <1>1, <1>2, <1>3, AtRestKeeps

\* The transactions of a block.
LEMMA BlockTransactions ==
    ASSUME NEW b \in Block
    PROVE  ToSet(vtx[b]) \in SUBSET Tx
<1>1. vtx[b] \in Seq(Tx)
  BY MempoolAssumption
<1> QED
  BY <1>1 DEF ToSet

\* Entries leave the pool, and possibly the loop goes on.
LEMMA ShrinkingTotals ==
    ASSUME MempoolInv, TotalsInv, Totalled(mp'), UNCHANGED <<mapDeltas, pc, tip, vHashUpdate>>,
           \A t \in Tx : mp'.children[t] \subseteq mp.children[t],
           ToSet(toResurrect') \subseteq ToSet(toResurrect)
    PROVE  TotalsInv'
<1>1. TotalsPart'
  BY TotalledPrimed DEF TotalsInv, TotalsPart
<1>2. ReturnPart'
  <2> SUFFICES ASSUME Coming' 
               PROVE  /\ \A t \in ToSet(vtx[tip']) : mp'.children[t] \subseteq ToSet(vtx[tip'])
                      /\ InOrder(vHashUpdate') /\ ToSet(vHashUpdate') \cap ToSet(toResurrect') = {}
    BY ReturnPrimed
  <2>1. /\ \A t \in ToSet(vtx[tip]) : mp.children[t] \subseteq ToSet(vtx[tip])
        /\ InOrder(vHashUpdate) /\ ToSet(vHashUpdate) \cap ToSet(toResurrect) = {}
    BY DEF TotalsInv, ReturnPart, Coming
  <2>2. ToSet(vtx[tip]) \in SUBSET Tx
    BY BlockTransactions DEF MempoolInv, ChainPart
  <2>3. /\ vtx[tip'] = vtx[tip] /\ vHashUpdate' = vHashUpdate
    OBVIOUS
  <2> QED
    BY <2>1, <2>2, <2>3
<1> QED
  BY <1>1, <1>2 DEF TotalsInv


\* An entry and its descendants leave.
LEMMA RemoveTxShrinks ==
    ASSUME NEW m, PoolOk(m), NEW t \in Tx
    PROVE  \A x \in Tx : RemoveTx(m, t).children[x] \subseteq m.children[x]
<1> DEFINE S == Recursive(m, t)
           r == RemoveStaged(m, S)
<1>1. IsStaged(m, S, r)
  BY StagedIs DEF PoolOk
<1>2. r = RemoveTx(m, t)
  BY DEF RemoveTx
<1> HIDE DEF S, r
<1>3. \A x \in Tx : r.children[x] \subseteq m.children[x]
  BY <1>1 DEF IsStaged
<1> QED
  BY <1>2, <1>3

\* EnsureSizeLimit drops an entry with its linked descendants.
LEMMA EvictRandomTotals ==
    ASSUME MempoolInv, TotalsInv, NEW t \in Tx, EvictRandom(t)
    PROVE  TotalsInv'
<1> DEFINE x == [mp EXCEPT !.weighted = @ \ {t}]
<1>1. /\ mp' = RemoveTx(x, t) /\ UNCHANGED <<mapDeltas, pc, tip, toResurrect, vHashUpdate>>
  BY DEF EvictRandom
<1>2. PoolOk(mp) /\ IsPool(mp) /\ Totalled(mp)
  BY DEF MempoolInv, PoolPart, PoolOk, TotalsInv, TotalsPart
<1>3. /\ IsPool(x) /\ x.tx = mp.tx /\ x.parents = mp.parents /\ x.children = mp.children
      /\ x.nextTx = mp.nextTx /\ x.count = mp.count /\ x.fees = mp.fees /\ x.delta = mp.delta
  BY <1>2 DEF IsPool
<1> HIDE DEF x
<1>4. PoolOk(x)
  BY <1>2, <1>3 DEF PoolOk, IndexExact, LinksSound
<1>5. TotalsTyped(mp) /\ TotalsTyped(x) /\ mp.tx \in SUBSET Tx
  BY <1>2, <1>3 DEF Totalled, TotalsTyped, PoolOk
<1>6. ASSUME NEW u \in mp.tx PROVE TotalsOf(x, u, CalculateDescendants(x, u))
  <2> DEFINE D == CalculateDescendants(mp, u)
  <2>1. CalculateDescendants(x, u) = D
    BY <1>3 DEF CalculateDescendants
  <2>2. D \in SUBSET Tx /\ u \in D
    BY <1>2, <1>5, DescendantsAre
  <2>3. TotalsOf(mp, u, D)
    BY <1>2 DEF Totalled
  <2> HIDE DEF D
  <2>4. SameTotals(mp, x, u) /\ SameDelta(mp, x, D)
    BY <1>3 DEF SameTotals, SameDelta
  <2>5. TotalsOf(x, u, D)
    BY <1>5, <2>2, <2>3, <2>4, TotalsSame
  <2> QED
    BY <2>1, <2>5
<1>7. Totalled(x)
  BY <1>3, <1>5, <1>6 DEF Totalled
<1>8. Totalled(mp')
  BY <1>1, <1>4, <1>7, RemovedTxTotals
<1>9. \A u \in Tx : mp'.children[u] \subseteq mp.children[u]
  BY <1>1, <1>3, <1>4, RemoveTxShrinks
<1>10. ToSet(toResurrect') \subseteq ToSet(toResurrect)
  BY <1>1
<1> QED
  BY <1>1, <1>8, <1>9, <1>10, ShrinkingTotals

\* A change of priority.
LEMMA PrioritiseTransactionTotals ==
    ASSUME MempoolInv, TotalsInv, NEW t \in Tx, PrioritiseTransaction(t)
    PROVE  TotalsInv'
<1>1. /\ pc = "idle" /\ pc' = pc /\ mapDeltas' = [mapDeltas EXCEPT ![t] = @ + 1]
      /\ mp' = IF t \in mp.tx THEN Prioritised(mp, t, 1) ELSE mp
  BY DEF PrioritiseTransaction, Idle
<1>2. PoolOk(mp) /\ Totalled(mp) /\ mapDeltas \in [Tx -> Int]
  BY DEF MempoolInv, PoolPart, TotalsInv, TotalsPart
<1>3. Totalled(mp')
  <2>1. CASE t \in mp.tx
    BY <1>1, <1>2, <2>1, PrioritisedTotals
  <2>2. CASE t \notin mp.tx
    BY <1>1, <1>2, <2>2
  <2> QED
    BY <2>1, <2>2
<1>4. mapDeltas' \in [Tx -> Int]
  BY <1>1, <1>2
<1> QED
  BY <1>1, <1>3, <1>4, AtRestKeeps

\* A transaction after all those of s, which none of them spends from.
LEMMA AppendedOrder ==
    ASSUME NEW s \in Seq(Tx), NEW t \in Tx, InOrder(s), t \notin ToSet(s),
           \A c \in ToSet(s) : ~Spends(c, t)
    PROVE  InOrder(Append(s, t))
<1> DEFINE a == Append(s, t)
<1>1. Len(a) = Len(s) + 1 /\ Len(s) \in Nat /\ a[Len(s) + 1] = t
  OBVIOUS
<1>2. \A i \in 1..Len(s) : a[i] = s[i] /\ s[i] \in ToSet(s)
  BY DEF ToSet
<1> HIDE DEF a
<1>3. ASSUME NEW i \in 1..Len(a), NEW j \in 1..Len(a), i < j PROVE a[i] # a[j] /\ ~Spends(a[i], a[j])
  <2>1. i \in 1..Len(s)
    BY <1>1, <1>3
  <2>2. CASE j = Len(s) + 1
    BY <1>1, <1>2, <2>1, <2>2
  <2>3. CASE j # Len(s) + 1
    <3>1. j \in 1..Len(s)
      BY <1>1, <2>3
    <3> QED
      BY <1>2, <1>3, <2>1, <3>1 DEF InOrder
  <2> QED
    BY <2>2, <2>3
<1> QED
  BY <1>3 DEF InOrder, a

\* EnsureSizeLimit has nothing (more) to drop.
LEMMA WithinLimitTotals ==
    ASSUME MempoolInv, TotalsInv, WithinLimit
    PROVE  TotalsInv'
<1>1. mp' = mp /\ mapDeltas' = mapDeltas /\ tip' = tip
  BY DEF WithinLimit
<1>2. Totalled(mp') /\ mapDeltas' \in [Tx -> Int]
  BY <1>1 DEF TotalsInv, TotalsPart
<1>3. CASE pc' = "idle"
  BY <1>2, <1>3, AtRestKeeps
<1>4. CASE /\ pc = "limit_resurrected" /\ pc' = "resurrect"
           /\ toResurrect' = Tail(toResurrect)
           /\ vHashUpdate' = IF Head(toResurrect) \in mp.tx
                             THEN Append(vHashUpdate, Head(toResurrect)) ELSE vHashUpdate
  <2> DEFINE t == Head(toResurrect)
  <2>1. /\ \A u \in ToSet(vtx[tip]) : mp.children[u] \subseteq ToSet(vtx[tip])
        /\ InOrder(vHashUpdate) /\ ToSet(vHashUpdate) \cap ToSet(toResurrect) = {}
    BY <1>4 DEF TotalsInv, ReturnPart, Coming
  <2>2. toResurrect \in Seq(Tx) /\ vHashUpdate \in Seq(Tx) /\ toResurrect # <<>>
    BY <1>4 DEF MempoolInv, ChainPart
  <2>3. /\ InOrder(toResurrect) /\ ToSet(toResurrect) \subseteq ToSet(vtx[tip])
        /\ \A c \in ToSet(vtx[tip]) \ ToSet(toResurrect) : \A u \in ToSet(toResurrect) : ~Spends(c, u)
        /\ ToSet(vHashUpdate) \subseteq ToSet(vtx[tip])
    BY <1>4 DEF MempoolInv, LoopPart, Coming
  <2>4. /\ t \in Tx /\ ToSet(toResurrect) = {t} \cup ToSet(Tail(toResurrect))
        /\ t \notin ToSet(Tail(toResurrect))
    BY <2>2, <2>3, HeadAndTail
  <2> HIDE DEF t
  <2>5. t \notin ToSet(vHashUpdate) /\ \A c \in ToSet(vHashUpdate) : ~Spends(c, t)
    BY <2>1, <2>3, <2>4
  <2>6. InOrder(Append(vHashUpdate, t)) /\ ToSet(Append(vHashUpdate, t)) = ToSet(vHashUpdate) \cup {t}
    BY <2>1, <2>2, <2>4, <2>5, AppendedOrder, AppendedSet
  <2>7. vHashUpdate' = Append(vHashUpdate, t) \/ vHashUpdate' = vHashUpdate
    BY <1>4 DEF t
  <2>8. InOrder(vHashUpdate') /\ ToSet(vHashUpdate') \subseteq ToSet(vHashUpdate) \cup {t}
    <3>1. CASE vHashUpdate' = Append(vHashUpdate, t)
      BY <2>6, <3>1
    <3>2. CASE vHashUpdate' = vHashUpdate
      BY <2>1, <3>2
    <3> QED
      BY <2>7, <3>1, <3>2
  <2>9. ToSet(vHashUpdate') \cap ToSet(toResurrect') = {}
    <3>1. ToSet(toResurrect') = ToSet(Tail(toResurrect))
      BY <1>4
    <3> QED
      BY <2>1, <2>4, <2>8, <3>1
  <2>10. \A u \in ToSet(vtx[tip']) : mp'.children[u] \subseteq ToSet(vtx[tip'])
    BY <1>1, <2>1
  <2>11. ReturnPart'
    BY <2>8, <2>9, <2>10, ReturnPrimed
  <2> QED
    BY <1>2, <2>11, TotalledPrimed DEF TotalsInv, TotalsPart
<1> QED
  BY <1>3, <1>4 DEF WithinLimit


\* Steps that leave pool, deltas and loop alone.
LEMMA SameTotalsKeep ==
    ASSUME TotalsInv, UNCHANGED <<mp, mapDeltas, pc, tip, toResurrect, vHashUpdate>>
    PROVE  TotalsInv'
<1>1. TotalsPart'
  BY TotalledPrimed DEF TotalsInv, TotalsPart
<1>2. ReturnPart'
  BY DEF TotalsInv, ReturnPart, Coming, InOrder, ToSet, Spends
<1> QED
  BY <1>1, <1>2 DEF TotalsInv

\* The block's transactions were not in the pool, so nothing is linked to them.
LEMMA DisconnectTipTotals ==
    ASSUME MempoolInv, TotalsInv, DisconnectTip
    PROVE  TotalsInv'
<1>1. /\ pc = "step" /\ pc' = "resurrect" /\ vHashUpdate' = <<>> /\ toResurrect' = vtx[tip]
      /\ UNCHANGED <<tip, mp, mapDeltas>>
  BY DEF DisconnectTip
<1>2. TotalsPart'
  BY <1>1, TotalledPrimed DEF TotalsInv, TotalsPart
<1>3. /\ tip \in Block /\ coinsAt = tip /\ PoolOk(mp) /\ mp.tx \cap Confirmed(tip) = {}
  BY <1>1 DEF MempoolInv, ChainPart, PoolPart, AtRest
<1>4. ToSet(vtx[tip]) \in SUBSET Tx /\ ToSet(vtx[tip]) \subseteq Confirmed(tip)
  <2>1. tip \in Ancestors[tip]
    BY <1>3, AncestorsAreBlocks, AncestorsNested
  <2> QED
    BY <1>3, <2>1, BlockTransactions DEF Confirmed
<1>5. \A t \in ToSet(vtx[tip]) : mp.children[t] = {}
  BY <1>3, <1>4 DEF PoolOk, LinksSound, Links
<1>6. InOrder(vHashUpdate') /\ ToSet(vHashUpdate') = {}
  BY <1>1 DEF InOrder, ToSet
<1>7. ReturnPart'
  <2>1. \A t \in ToSet(vtx[tip']) : mp'.children[t] \subseteq ToSet(vtx[tip'])
    BY <1>1, <1>5
  <2> QED
    BY <1>6, <2>1, ReturnPrimed
<1> QED
  BY <1>2, <1>7 DEF TotalsInv

\* A transaction of the disconnected block comes back.
LEMMA ReturnTotals ==
    ASSUME MempoolInv, TotalsInv, pc = "resurrect", toResurrect # <<>>,
           Acceptable(Head(toResurrect), ResurrectAbsurdFee),
           mp' = addUnchecked(mp, Head(toResurrect), mapDeltas[Head(toResurrect)]),
           UNCHANGED <<tip, mapDeltas, toResurrect, vHashUpdate>>
    PROVE  TotalsInv'
<1> DEFINE t == Head(toResurrect)
           B == ToSet(vtx[tip])
           r == addUnchecked(mp, t, mapDeltas[t])
<1>1. t \in B /\ t \in Tx /\ t \notin mp.tx
  BY NextToReturn
<1>2. Totalled(mp')
  BY <1>1, AcceptTotals
<1>3. TotalsPart'
  BY <1>2, TotalledPrimed DEF TotalsInv, TotalsPart
<1>4. /\ \A u \in B : mp.children[u] \subseteq B
      /\ InOrder(vHashUpdate) /\ ToSet(vHashUpdate) \cap ToSet(toResurrect) = {}
  BY DEF TotalsInv, ReturnPart, Coming
<1>5. PoolOk(mp) /\ IsPool(mp) /\ B \in SUBSET Tx
  BY BlockTransactions DEF MempoolInv, PoolPart, PoolOk, ChainPart
<1>6. IsAdded(mp, t, r)
  BY <1>5, AddedIs
<1>7. mp' = r
  OBVIOUS
<1>8. \A u \in Tx : r.children[u] \subseteq mp.children[u] \cup {t}
  <2> HIDE DEF r, t
  <2> QED
    BY <1>6 DEF IsAdded
<1>9. ReturnPart'
  <2>1. \A u \in B : mp'.children[u] \subseteq B
    <3> HIDE DEF r, t, B
    <3> QED
      BY <1>1, <1>4, <1>5, <1>7, <1>8
  <2>2. ToSet(vtx[tip']) = B /\ vHashUpdate' = vHashUpdate /\ toResurrect' = toResurrect
    OBVIOUS
  <2> HIDE DEF B
  <2>3. /\ \A u \in ToSet(vtx[tip']) : mp'.children[u] \subseteq ToSet(vtx[tip'])
        /\ InOrder(vHashUpdate') /\ ToSet(vHashUpdate') \cap ToSet(toResurrect') = {}
    BY <1>4, <2>1, <2>2
  <2> QED
    BY <2>3, ReturnPrimed
<1> QED
  BY <1>3, <1>9 DEF TotalsInv

\* The next transaction of the disconnected block: it comes back, or goes with what spends it.
LEMMA ResurrectTotals ==
    ASSUME MempoolInv, TotalsInv, Resurrect
    PROVE  TotalsInv'
<1>1. /\ pc = "resurrect" /\ toResurrect # <<>>
      /\ UNCHANGED <<tip, mapDeltas, vHashUpdate>>
  BY DEF Resurrect
<1>2. CASE /\ Acceptable(Head(toResurrect), ResurrectAbsurdFee)
           /\ mp' = addUnchecked(mp, Head(toResurrect), mapDeltas[Head(toResurrect)])
           /\ UNCHANGED toResurrect
  BY <1>1, <1>2, ReturnTotals
<1>3. CASE mp' = RemoveTx(mp, Head(toResurrect)) /\ toResurrect' = Tail(toResurrect) /\ UNCHANGED pc
  <2>1. PoolOk(mp) /\ Totalled(mp) /\ toResurrect \in Seq(Tx)
    BY DEF MempoolInv, PoolPart, TotalsInv, TotalsPart, ChainPart
  <2>2. Head(toResurrect) \in Tx /\ ToSet(Tail(toResurrect)) \subseteq ToSet(toResurrect)
    BY <1>1, <2>1, HeadAndTail
  <2>3. Totalled(mp')
    BY <1>3, <2>1, <2>2, RemovedTxTotals
  <2>4. \A u \in Tx : mp'.children[u] \subseteq mp.children[u]
    BY <1>3, <2>1, <2>2, RemoveTxShrinks
  <2>5. ToSet(toResurrect') \subseteq ToSet(toResurrect)
    BY <1>3, <2>2
  <2> QED
    BY <1>1, <1>3, <2>3, <2>4, <2>5, ShrinkingTotals
<1> QED
  BY <1>2, <1>3 DEF Resurrect

\* The links are repaired and the descendants outside of the block added up.
LEMMA DisconnectedTotals ==
    ASSUME MempoolInv, TotalsInv, Disconnected
    PROVE  TotalsInv'
<1> DEFINE B == ToSet(vtx[tip])
           H == ToSet(vHashUpdate)
           u == UpdateTransactionsFromBlock(mp, vHashUpdate)
           A == AnchoredIn(tip)
<1>1. /\ pc = "resurrect" /\ pc' = "step" /\ mp' = RemoveAll(u, A) /\ mapDeltas' = mapDeltas
  BY DEF Disconnected
<1>2. /\ tip \in Block /\ tip # Genesis /\ PoolOk(mp) /\ mp.tx \in SUBSET Tx
      /\ mp.tx \cap Confirmed(pprev[tip]) = {} /\ vHashUpdate \in Seq(Tx)
      /\ Totalled(mp) /\ mapDeltas \in [Tx -> Int] /\ B \in SUBSET Tx
  BY <1>1, BlockTransactions
     DEF MempoolInv, ChainPart, Coming, PoolPart, PoolOk, TotalsInv, TotalsPart
<1>3. mp.tx \cap B \subseteq H /\ H \subseteq B
  BY <1>1 DEF MempoolInv, LoopPart, Coming, Back
<1>4. InOrder(vHashUpdate) /\ \A t \in B : mp.children[t] \subseteq B
  BY <1>1 DEF TotalsInv, ReturnPart, Coming
<1>5. ASSUME NEW h \in H PROVE mp.parents[h] \subseteq H
  <2> SUFFICES ASSUME NEW p \in mp.parents[h] PROVE p \in H
    OBVIOUS
  <2> HIDE DEF H
  <2>1. h \in B /\ h \in Tx
    BY <1>2, <1>3, <1>5
  <2>2. p \in Tx /\ p \in mp.tx /\ Spends(h, p)
    BY <1>2, <2>1 DEF PoolOk, LinksSound, Links
  <2>3. PICK o \in Inputs[h] : Creator[o] = p
    BY <2>2 DEF Spends
  <2>4. p \in {NoTx} \cup Confirmed(pprev[tip]) \cup B
    BY <1>2, <2>1, <2>3, BlockSpends
  <2> QED
    BY <1>2, <1>3, <2>2, <2>4, PoolAssumption
<1>6. ASSUME NEW h \in H PROVE mp.children[h] \subseteq H
  <2> HIDE DEF H, B
  <2>1. h \in B /\ h \in Tx
    BY <1>2, <1>3, <1>6
  <2>2. mp.children[h] \subseteq mp.tx
    BY <1>2, <2>1 DEF PoolOk, LinksSound, Links
  <2> QED
    BY <1>3, <1>4, <2>1, <2>2
<1>7. Totalled(u)
  BY <1>2, <1>4, <1>5, <1>6, UpdatedFromBlockTotals
<1>8. PoolOk(u)
  BY <1>2, UpdatedFromBlock DEF UpdatedFrom
<1>9. A \in SUBSET Tx
  BY <1>2 DEF AnchoredIn
<1> HIDE DEF u, A
<1>10. Totalled(mp')
  BY <1>1, <1>7, <1>8, <1>9, RemovedAllTotals
<1> QED
  BY <1>1, <1>2, <1>10, AtRestKeeps

\* A block is connected.
LEMMA ConnectTipTotals ==
    ASSUME MempoolInv, TotalsInv, ConnectTip
    PROVE  TotalsInv'
<1> DEFINE b == NextBlock
           q == RemoveForBlock(mp, vtx[b])
           E == Expired(q, nHeight[b])
<1>1. /\ pc = "step" /\ tip \in Ancestors[target] /\ tip # target /\ mp' = RemoveAll(q, E)
      /\ mapDeltas' = [t \in Tx |-> IF t \in ToSet(vtx[b]) THEN 0 ELSE mapDeltas[t]] /\ pc' = pc
  BY DEF ConnectTip
<1>2. /\ tip \in Block /\ coinsAt = tip /\ target \in Block /\ PoolOk(mp) /\ mp.weighted = mp.tx
      /\ mp.tx \cap Confirmed(tip) = {} /\ mp.tx \in SUBSET Tx /\ Totalled(mp)
      /\ mapDeltas \in [Tx -> Int]
  BY <1>1 DEF MempoolInv, ChainPart, AtRest, PoolPart, PoolOk, TotalsInv, TotalsPart
<1>3. b \in Block /\ b # Genesis /\ pprev[b] = tip
  BY <1>1, <1>2, NextBlockFound
<1> HIDE DEF b
<1>4. mapDeltas' \in [Tx -> Int]
  BY <1>1, <1>2
<1>5. Totalled(q)
  <2>1. mp.tx \cap Confirmed(pprev[b]) = {}
    BY <1>2, <1>3
  <2> QED
    BY <1>2, <1>3, <2>1, RemovedForBlockTotals
<1>6. PoolOk(q) /\ q.tx \in SUBSET Tx
  <2>1. vtx[b] \in Seq(Tx)
    BY <1>3, MempoolAssumption
  <2>2. MinedFrom(mp, UpTo(vtx[b], Len(vtx[b])), q)
    BY <1>2, <2>1, RemovedForBlock
  <2> QED
    BY <2>2 DEF MinedFrom, PoolOk
<1> HIDE DEF q
<1>7. E \in SUBSET Tx
  BY <1>6 DEF Expired
<1> HIDE DEF E
<1>8. Totalled(mp')
  BY <1>1, <1>5, <1>6, <1>7, RemovedAllTotals
<1> QED
  BY <1>1, <1>4, <1>8, AtRestKeeps

\* The end of a step: removeForReorg and removeWithoutBranchId.
LEMMA EndStepTotals ==
    ASSUME MempoolInv, TotalsInv, EndStep
    PROVE  TotalsInv'
<1> DEFINE q == IF disconnected THEN RemoveAll(mp, Immature(mp)) ELSE mp
           E == OtherBranch(q)
<1>1. pc' = "idle" /\ mp' = RemoveAll(q, E) /\ mapDeltas' = mapDeltas
  BY DEF EndStep
<1>2. PoolOk(mp) /\ mp.tx \in SUBSET Tx /\ Totalled(mp) /\ mapDeltas \in [Tx -> Int]
  BY DEF MempoolInv, PoolPart, PoolOk, TotalsInv, TotalsPart
<1>3. PoolOk(q) /\ Totalled(q)
  <2>1. Immature(mp) \in SUBSET Tx
    BY <1>2 DEF Immature
  <2>2. PoolOk(RemoveAll(mp, Immature(mp))) /\ Totalled(RemoveAll(mp, Immature(mp)))
    BY <1>2, <2>1, RemovedAll, RemovedAllTotals
  <2>3. CASE disconnected
    BY <2>2, <2>3
  <2>4. CASE ~disconnected
    BY <1>2, <2>4
  <2> QED
    BY <2>3, <2>4
<1> HIDE DEF q
<1>4. E \in SUBSET Tx
  BY <1>3 DEF OtherBranch, PoolOk
<1> HIDE DEF E
<1>5. Totalled(mp')
  BY <1>1, <1>3, <1>4, RemovedAllTotals
<1> QED
  BY <1>1, <1>2, <1>5, AtRestKeeps

\* Every step keeps the totals.
LEMMA TotalsStep ==
    MempoolInv /\ TotalsInv /\ [Next]_vars => TotalsInv'
<1> SUFFICES ASSUME MempoolInv, TotalsInv, [Next]_vars PROVE TotalsInv'
  OBVIOUS
<1>1. ASSUME NEW t \in Tx, AcceptToMemoryPool(t) PROVE TotalsInv'
  BY <1>1, AcceptToMemoryPoolTotals
<1>2. ASSUME NEW t \in Tx, EvictRandom(t) PROVE TotalsInv'
  BY <1>2, EvictRandomTotals
<1>3. ASSUME NEW t \in Prioritisable, PrioritiseTransaction(t) PROVE TotalsInv'
  BY <1>3, PrioritiseTransactionTotals, MempoolAssumption
<1>4. CASE WithinLimit
  BY <1>4, WithinLimitTotals
<1>5. CASE ForgetEvicted
  BY <1>5, SameTotalsKeep DEF ForgetEvicted
<1>6. ASSUME NEW b \in Block, StartStep(b) PROVE TotalsInv'
  <2>1. mp' = mp /\ mapDeltas' = mapDeltas /\ pc' = "step"
    BY <1>6 DEF StartStep
  <2>2. Totalled(mp') /\ mapDeltas' \in [Tx -> Int]
    BY <2>1 DEF TotalsInv, TotalsPart
  <2> QED
    BY <2>1, <2>2, AtRestKeeps
<1>7. CASE DisconnectTip
  BY <1>7, DisconnectTipTotals
<1>8. CASE Resurrect
  BY <1>8, ResurrectTotals
<1>9. CASE Disconnected
  BY <1>9, DisconnectedTotals
<1>10. CASE ConnectTip
  BY <1>10, ConnectTipTotals
<1>11. CASE EndStep
  BY <1>11, EndStepTotals
<1>12. CASE UNCHANGED vars
  BY <1>12, SameTotalsKeep DEF vars
<1> QED
  BY <1>1, <1>2, <1>3, <1>4, <1>5, <1>6, <1>7, <1>8, <1>9, <1>10, <1>11, <1>12 DEF Next

\* The totals of every entry are those of the descendants its links lead to, at
\* every moment: before and after the links of a block that came back are
\* repaired, after evictions that cut entries off, and for a changed priority.
THEOREM TotalsSafe ==
    Spec => []TotalsInv
<1>1. Init => TotalsInv
  BY TotalsInit
<1>2. MempoolInv /\ TotalsInv /\ [Next]_vars => TotalsInv'
  BY TotalsStep
<1> QED
  BY <1>1, <1>2, MempoolSafe, PTL DEF Spec

\* mapTx's totals, by which mining and eviction choose, count each descendant of
\* an entry once, whatever order entries came, went and came back in; those of an
\* entry with too many are its own.
THEOREM DescendantTotalsStayExact ==
    Spec => []DescendantTotals
<1>1. MempoolInv /\ TotalsInv => DescendantTotals
  <2> SUFFICES ASSUME MempoolInv, TotalsInv, Idle, ~cutOff, NEW t \in mp.tx
               PROVE  IF IsDirty(mp, t) THEN mp.fees[t] = ModifiedFee(mp, t)
                      ELSE /\ mp.count[t] = Cardinality(TrueDescendants(mp, t))
                           /\ mp.fees[t] = FeesOf(mp, TrueDescendants(mp, t))
    BY DEF DescendantTotals
  <2>1. PoolOk(mp) /\ mp.tx \in SUBSET Tx /\ mp.children \in Links
    BY DEF MempoolInv, PoolPart, PoolOk
  <2>2. LinkedBut(mp, {})
    BY DEF MempoolInv, FundedPart, Unfinished, Coming, Idle
  <2>3. \A u \in Tx : mp.children[u] = TrueChildren(mp, u)
    <3> SUFFICES ASSUME NEW u \in Tx PROVE mp.children[u] = TrueChildren(mp, u)
      OBVIOUS
    <3>1. \A c \in Tx : c \in mp.children[u] <=> c \in mp.tx /\ u \in mp.tx /\ Spends(c, u)
      BY <2>1, <2>2 DEF PoolOk, LinksSound, LinkedBut
    <3>2. \A c : c \in TrueChildren(mp, u) <=> c \in mp.tx /\ u \in mp.tx /\ Spends(c, u)
      BY DEF TrueChildren, TrueParents, PoolParents, Spends
    <3>3. mp.children[u] \in SUBSET Tx
      BY <2>1 DEF Links
    <3> QED
      BY <2>1, <3>1, <3>2, <3>3
  <2>4. mp.children = [u \in Tx |-> TrueChildren(mp, u)]
    BY <2>1, <2>3 DEF Links
  <2>5. TrueDescendants(mp, t) = CalculateDescendants(mp, t)
    BY <2>4 DEF TrueDescendants, CalculateDescendants
  <2>6. TotalsOf(mp, t, CalculateDescendants(mp, t))
    BY DEF TotalsInv, TotalsPart, Totalled
  <2> QED
    BY <2>5, <2>6 DEF TotalsOf
<1> QED
  BY <1>1, MempoolSafe, TotalsSafe, PTL
=============================================================================
