----------------------------- MODULE PeerProofs -----------------------------
(***************************************************************************)
(* Theorems about what a node keeps of its peers.                           *)
(*                                                                          *)
(* BlockDownload: mapBlocksInFlight, the lists of the peers and the         *)
(* counters agree, whoever a block is awaited from has been asked for it,   *)
(* and the last common block of a peer is never above a gap; for any        *)
(* number of peers and blocks, any window and any share per peer.           *)
(*                                                                          *)
(* AddrMan: maps, tables, reference counts and counters agree after every   *)
(* operation and every restart, and no address of the tried table is lost;  *)
(* for any addresses, sources, tables and hash functions.                   *)
(*                                                                          *)
(* In both modules the functions of the code work on one record, and so do  *)
(* the lemmas. DownOk(d) and AmOk(m, k) say that a record is consistent,    *)
(* and each function keeps it. DownloadInv is DownOk of the state with      *)
(* what else the actions need. Between the steps of one operation of the    *)
(* address manager, k of its entries are not counted and those of Loose(m)  *)
(* have no slot; after it, ManagerInv, there are none of either.            *)
(***************************************************************************)
EXTENDS BlockDownload, AddrMan, BlockTreeProofs, FiniteSetTheorems, SequenceTheorems, TLAPS

QueueEntries == [hash : Block, valid : BOOLEAN]
MaybeBlock == Block \cup {NoBlock}
MaybePeer == Peer \cup {NoPeer}

NodeStates ==
    [up : BOOLEAN, closing : BOOLEAN, best : MaybeBlock, unknown : MaybeBlock,
     common : MaybeBlock, sync : BOOLEAN, queue : Seq(QueueEntries), nInFlight : Nat,
     nValid : Nat, stalling : {"off", "on", "over"}, download : {"off", "on", "over"}]

Downs == [ns : [Peer -> NodeStates], inFlight : [Block -> MaybePeer], nValidated : Int]

Hashes(q) == {b \in Block : \E i \in 1..Len(q) : q[i].hash = b}
Validated(q) == {b \in Block : \E i \in 1..Len(q) : q[i].hash = b /\ q[i].valid}
NoTwice(q) == \A i, j \in 1..Len(q) : q[i].hash = q[j].hash => i = j

\* A peer's list and counts, against the blocks that are in flight from it.
ListExact(s, S) ==
    /\ Hashes(s.queue) = S /\ NoTwice(s.queue)
    /\ s.nInFlight = Len(s.queue) /\ s.nInFlight <= MAX_BLOCKS_IN_TRANSIT_PER_PEER
    /\ s.nValid = Cardinality(Validated(s.queue))

From(inFl, p) == {b \in Block : inFl[b] = p}
Downloading(nds) == {p \in Peer : nds[p].nValid > 0}

DownOk(d) ==
    /\ d \in Downs
    /\ \A p \in Peer : ListExact(d.ns[p], From(d.inFlight, p))
    /\ d.nValidated = Cardinality(Downloading(d.ns))
    /\ \A b \in Block : d.inFlight[b] # NoPeer => d.ns[d.inFlight[b]].up

\* What the bookkeeping of blocks in flight leaves alone in a CNodeState.
SamePeer(s, t) ==
    /\ t.up = s.up /\ t.closing = s.closing /\ t.best = s.best /\ t.unknown = s.unknown
    /\ t.common = s.common /\ t.sync = s.sync
SamePeers(d, e) == \A p \in Peer : SamePeer(d.ns[p], e.ns[p])

\* Only requests to p are new in e.
OnlyTo(d, e, p) == \A b \in Block : e.inFlight[b] \in {d.inFlight[b], p}

\* The list of a peer that is not connected is empty, and it is not counted.
DownPeers == \A p \in Peer : ~ns[p].up => ~ns[p].sync /\ ns[p].common = NoBlock

CountsExact ==
    /\ nSyncStarted = Cardinality({p \in Peer : ns[p].sync})
    /\ nPreferredDownload = Cardinality({p \in Preferred : ns[p].up})

ChainOk ==
    /\ index \subseteq Block /\ haveData \subseteq Block /\ tip \in Block
    /\ Genesis \in index /\ Genesis \in haveData /\ Linked(tip)

DownloadInv ==
    /\ DownOk(Down) /\ DownPeers /\ CountsExact /\ ChainOk
    /\ askedHeaders \in [Peer -> MaybeBlock] /\ askedBlocks \in [Peer -> SUBSET Block]
    /\ NoStrayRequest /\ CommonBlockLinked

-----------------------------------------------------------------------------
(* Lists of blocks in flight.                                               *)

LEMMA RemoveAtIs ==
    ASSUME NEW S, NEW s \in Seq(S), NEW i \in 1..Len(s)
    PROVE  /\ RemoveAt(s, i) \in Seq(S)
           /\ Len(RemoveAt(s, i)) = Len(s) - 1
           /\ \A j \in 1..(Len(s) - 1) : RemoveAt(s, i)[j] = IF j < i THEN s[j] ELSE s[j + 1]
<1> DEFINE a == SubSeq(s, 1, i - 1)
           b == SubSeq(s, i + 1, Len(s))
<1>1. /\ a \in Seq(S) /\ Len(a) = i - 1 /\ \A j \in 1..(i - 1) : a[j] = s[j]
      /\ b \in Seq(S) /\ Len(b) = Len(s) - i /\ \A j \in 1..(Len(s) - i) : b[j] = s[i + j]
  OBVIOUS
<1>2. RemoveAt(s, i) = a \o b
  BY DEF RemoveAt
<1> HIDE DEF a, b
<1>3. a \o b \in Seq(S) /\ Len(a \o b) = Len(s) - 1
  <2>1. a \o b \in Seq(S) /\ Len(a \o b) = Len(a) + Len(b)
    BY <1>1, ConcatProperties
  <2>2. Len(s) \in Nat /\ Len(a) + Len(b) = Len(s) - 1
    BY <1>1
  <2> QED
    BY <2>1, <2>2
<1>4. ASSUME NEW j \in 1..(Len(s) - 1) PROVE (a \o b)[j] = IF j < i THEN s[j] ELSE s[j + 1]
  <2>1. j \in 1..(Len(a) + Len(b))
    BY <1>1
  <2>2. (a \o b)[j] = IF j <= Len(a) THEN a[j] ELSE b[j - Len(a)]
    BY <2>1, <1>1, ConcatProperties
  <2>3. CASE j < i
    BY <2>2, <2>3, <1>1
  <2>4. CASE ~(j < i)
    <3>1. j - (i - 1) \in 1..(Len(s) - i) /\ i + (j - (i - 1)) = j + 1
      BY <2>4
    <3> QED
      BY <2>2, <2>4, <3>1, <1>1
  <2> QED
    BY <2>3, <2>4
<1> QED
  BY <1>2, <1>3, <1>4

\* The places of the entries that stay.
LEMMA RemoveAtHas ==
    ASSUME NEW S, NEW s \in Seq(S), NEW i \in 1..Len(s)
    PROVE  /\ \A j \in 1..(Len(s) - 1) : \E k \in 1..Len(s) : k # i /\ RemoveAt(s, i)[j] = s[k]
           /\ \A k \in 1..Len(s) : k # i => \E j \in 1..(Len(s) - 1) : RemoveAt(s, i)[j] = s[k]
<1>1. \A j \in 1..(Len(s) - 1) : RemoveAt(s, i)[j] = IF j < i THEN s[j] ELSE s[j + 1]
  BY RemoveAtIs
<1>2. ASSUME NEW j \in 1..(Len(s) - 1)
      PROVE  \E k \in 1..Len(s) : k # i /\ RemoveAt(s, i)[j] = s[k]
  <2>1. CASE j < i
    BY <1>1, <2>1
  <2>2. CASE ~(j < i)
    <3>1. j + 1 \in 1..Len(s) /\ j + 1 # i /\ RemoveAt(s, i)[j] = s[j + 1]
      BY <1>1, <2>2
    <3> QED
      BY <3>1
  <2> QED
    BY <2>1, <2>2
<1>3. ASSUME NEW k \in 1..Len(s), k # i
      PROVE  \E j \in 1..(Len(s) - 1) : RemoveAt(s, i)[j] = s[k]
  <2>1. CASE k < i
    <3>1. k \in 1..(Len(s) - 1) /\ RemoveAt(s, i)[k] = s[k]
      BY <1>1, <2>1
    <3> QED
      BY <3>1
  <2>2. CASE ~(k < i)
    <3>1. k - 1 \in 1..(Len(s) - 1) /\ ~(k - 1 < i) /\ k - 1 + 1 = k
      BY <1>3, <2>2
    <3>2. RemoveAt(s, i)[k - 1] = s[k]
      BY <1>1, <3>1
    <3> QED
      BY <3>1, <3>2
  <2> QED
    BY <2>1, <2>2
<1> QED
  BY <1>2, <1>3

LEMMA ListFinite ==
    ASSUME NEW q
    PROVE  IsFiniteSet(Validated(q)) /\ Cardinality(Validated(q)) \in Nat
<1>1. Validated(q) \in SUBSET Block
  BY DEF Validated
<1> QED
  BY <1>1, FS_Subset, FS_CardinalityType, TreeAssumption

\* The entry of block b leaves the list.
LEMMA ListRemove ==
    ASSUME NEW q \in Seq(QueueEntries), NoTwice(q), NEW i \in 1..Len(q)
    PROVE  LET r == RemoveAt(q, i)
               b == q[i].hash
           IN  /\ r \in Seq(QueueEntries) /\ Len(r) = Len(q) - 1 /\ NoTwice(r)
               /\ Hashes(r) = Hashes(q) \ {b}
               /\ Validated(r) = Validated(q) \ {b}
               /\ b \in Validated(q) <=> q[i].valid
<1> DEFINE r == RemoveAt(q, i)
           b == q[i].hash
<1>1. /\ r \in Seq(QueueEntries) /\ Len(r) = Len(q) - 1
      /\ \A j \in 1..Len(r) : r[j] = IF j < i THEN q[j] ELSE q[j + 1]
  BY RemoveAtIs
<1>2. /\ \A j \in 1..Len(r) : \E k \in 1..Len(q) : k # i /\ r[j] = q[k]
      /\ \A k \in 1..Len(q) : k # i => \E j \in 1..Len(r) : r[j] = q[k]
  <2>1. /\ \A j \in 1..(Len(q) - 1) : \E k \in 1..Len(q) : k # i /\ r[j] = q[k]
        /\ \A k \in 1..Len(q) : k # i => \E j \in 1..(Len(q) - 1) : r[j] = q[k]
    BY RemoveAtHas
  <2> HIDE DEF r
  <2> QED
    BY <2>1, <1>1
<1>3. b \in Block
  <2>1. q[i] \in QueueEntries
    OBVIOUS
  <2> QED
    BY <2>1 DEF QueueEntries
<1> HIDE DEF r
<1>4. NoTwice(r)
  <2> SUFFICES ASSUME NEW j \in 1..Len(r), NEW k \in 1..Len(r), r[j].hash = r[k].hash
               PROVE  j = k
    BY DEF NoTwice
  <2> DEFINE At(m) == IF m < i THEN m ELSE m + 1
  <2>1. \A m \in 1..Len(r) : At(m) \in 1..Len(q) /\ r[m] = q[At(m)]
    <3> SUFFICES ASSUME NEW m \in 1..Len(r)
                 PROVE  At(m) \in 1..Len(q) /\ r[m] = q[At(m)]
      OBVIOUS
    <3>1. r[m] = IF m < i THEN q[m] ELSE q[m + 1]
      BY <1>1
    <3>2. Len(q) \in Nat /\ Len(r) = Len(q) - 1
      BY <1>1
    <3>3. At(m) \in 1..Len(q)
      BY <3>2
    <3>4. r[m] = q[At(m)]
      BY <3>1
    <3> QED
      BY <3>3, <3>4
  <2>2. At(j) = At(k)
    <3> HIDE DEF At
    <3> QED
      BY <2>1 DEF NoTwice
  <2> QED
    BY <2>2
<1>5. Hashes(r) = Hashes(q) \ {b}
  <2>1. \A k \in 1..Len(q) : k # i <=> q[k].hash # b
    BY DEF NoTwice
  <2> HIDE DEF b
  <2>2. ASSUME NEW c \in Hashes(r) PROVE c \in Hashes(q) \ {b}
    <3>1. PICK j \in 1..Len(r) : r[j].hash = c
      BY DEF Hashes
    <3>2. PICK k \in 1..Len(q) : k # i /\ r[j] = q[k]
      BY <1>2
    <3> QED
      BY <3>1, <3>2, <2>1 DEF Hashes
  <2>3. ASSUME NEW c \in Hashes(q) \ {b} PROVE c \in Hashes(r)
    <3>1. PICK k \in 1..Len(q) : q[k].hash = c
      BY DEF Hashes
    <3>2. PICK j \in 1..Len(r) : r[j] = q[k]
      BY <1>2, <2>1, <3>1
    <3> QED
      BY <3>1, <3>2 DEF Hashes
  <2> QED
    BY <2>2, <2>3
<1>6. Validated(r) = Validated(q) \ {b}
  <2>1. \A k \in 1..Len(q) : k # i <=> q[k].hash # b
    BY DEF NoTwice
  <2> HIDE DEF b
  <2>2. ASSUME NEW c \in Validated(r) PROVE c \in Validated(q) \ {b}
    <3>1. PICK j \in 1..Len(r) : r[j].hash = c /\ r[j].valid
      BY DEF Validated
    <3>2. PICK k \in 1..Len(q) : k # i /\ r[j] = q[k]
      BY <1>2
    <3> QED
      BY <3>1, <3>2, <2>1 DEF Validated
  <2>3. ASSUME NEW c \in Validated(q) \ {b} PROVE c \in Validated(r)
    <3>1. PICK k \in 1..Len(q) : q[k].hash = c /\ q[k].valid
      BY DEF Validated
    <3>2. PICK j \in 1..Len(r) : r[j] = q[k]
      BY <1>2, <2>1, <3>1
    <3> QED
      BY <3>1, <3>2 DEF Validated
  <2> QED
    BY <2>2, <2>3
<1>7. b \in Validated(q) <=> q[i].valid
  BY <1>3 DEF Validated, NoTwice
<1> QED
  BY <1>1, <1>4, <1>5, <1>6, <1>7 DEF r

\* A new entry at the end of the list.
LEMMA ListAppend ==
    ASSUME NEW q \in Seq(QueueEntries), NoTwice(q), NEW b \in Block, b \notin Hashes(q),
           NEW v \in BOOLEAN
    PROVE  LET r == Append(q, QueuedBlock(b, v))
           IN  /\ r \in Seq(QueueEntries) /\ Len(r) = Len(q) + 1 /\ NoTwice(r)
               /\ Hashes(r) = Hashes(q) \cup {b}
               /\ Validated(r) = IF v THEN Validated(q) \cup {b} ELSE Validated(q)
               /\ b \notin Validated(q)
<1> DEFINE e == QueuedBlock(b, v)
           r == Append(q, e)
<1>1. e \in QueueEntries /\ e.hash = b /\ e.valid = v
  BY DEF QueuedBlock, QueueEntries
<1> HIDE DEF e
<1>2. /\ r \in Seq(QueueEntries) /\ Len(r) = Len(q) + 1
      /\ \A j \in 1..Len(q) : r[j] = q[j]
      /\ r[Len(q) + 1] = e
  BY <1>1
<1>3. Len(q) \in Nat /\ \A j \in 1..Len(r) : j \in 1..Len(q) \/ j = Len(q) + 1
  BY <1>2
<1>4. \A j \in 1..Len(q) : j \in 1..Len(r)
  BY <1>2
<1>5. Len(q) + 1 \in 1..Len(r)
  BY <1>2
<1> HIDE DEF r
<1>6. \A j \in 1..Len(q) : q[j].hash # b
  BY DEF Hashes
<1>7. NoTwice(r)
  BY <1>1, <1>2, <1>3, <1>6 DEF NoTwice
<1>8. Hashes(r) = Hashes(q) \cup {b}
  BY <1>1, <1>2, <1>3, <1>4, <1>5 DEF Hashes
<1>9. Validated(r) = IF v THEN Validated(q) \cup {b} ELSE Validated(q)
  BY <1>1, <1>2, <1>3, <1>4, <1>5 DEF Validated
<1>10. b \notin Validated(q)
  BY <1>6 DEF Validated
<1> QED
  BY <1>2, <1>7, <1>8, <1>9, <1>10 DEF r, e

-----------------------------------------------------------------------------
(* MarkBlockAsReceived and MarkBlockAsInFlight.                             *)

LEMMA PeersCounted ==
    ASSUME NEW nds
    PROVE  /\ IsFiniteSet(Downloading(nds)) /\ Cardinality(Downloading(nds)) \in Nat
           /\ Downloading(nds) \subseteq Peer
<1>1. Downloading(nds) \in SUBSET Peer
  BY DEF Downloading
<1> QED
  BY <1>1, FS_Subset, FS_CardinalityType, DownloadAssumption

\* What MarkBlockAsReceived makes of the peer the block was in flight from.
ReceivedState(s, i) ==
    [s EXCEPT !.queue = RemoveAt(@, i), !.nInFlight = @ - 1,
              !.nValid = @ - (IF s.queue[i].valid THEN 1 ELSE 0), !.stalling = "off",
              !.download = IF i = 1 THEN (IF Len(s.queue) > 1 THEN "on" ELSE "off") ELSE @]

LEMMA ReceivedStateOk ==
    ASSUME NEW s \in NodeStates, NEW S, ListExact(s, S), NEW i \in 1..Len(s.queue)
    PROVE  LET t == ReceivedState(s, i)
               b == s.queue[i].hash
           IN  /\ t \in NodeStates /\ ListExact(t, S \ {b}) /\ SamePeer(s, t)
               /\ t.nInFlight <= s.nInFlight
               /\ t.nValid = s.nValid - (IF s.queue[i].valid THEN 1 ELSE 0)
<1> DEFINE q == s.queue
           r == RemoveAt(q, i)
           b == q[i].hash
           v == IF q[i].valid THEN 1 ELSE 0
           t == ReceivedState(s, i)
<1>1. q \in Seq(QueueEntries) /\ s.nInFlight \in Nat /\ s.nValid \in Nat
  BY DEF NodeStates
<1>2. /\ Hashes(q) = S /\ NoTwice(q) /\ s.nInFlight = Len(q)
      /\ s.nInFlight <= MAX_BLOCKS_IN_TRANSIT_PER_PEER /\ s.nValid = Cardinality(Validated(q))
  BY DEF ListExact
<1>3. /\ r \in Seq(QueueEntries) /\ Len(r) = Len(q) - 1 /\ NoTwice(r)
      /\ Hashes(r) = Hashes(q) \ {b} /\ Validated(r) = Validated(q) \ {b}
      /\ b \in Validated(q) <=> q[i].valid
  BY <1>1, <1>2, ListRemove
<1>4. Cardinality(Validated(r)) = s.nValid - v /\ Cardinality(Validated(r)) \in Nat
  <2>1. IsFiniteSet(Validated(q)) /\ Cardinality(Validated(r)) \in Nat
    BY ListFinite
  <2>2. Cardinality(Validated(q) \ {b})
          = IF b \in Validated(q) THEN Cardinality(Validated(q)) - 1 ELSE Cardinality(Validated(q))
    BY <2>1, FS_RemoveElement
  <2> QED
    BY <2>1, <2>2, <1>1, <1>2, <1>3
<1>5. Len(q) - 1 \in Nat
  BY <1>1
<1>6. /\ t.queue = r /\ t.nInFlight = s.nInFlight - 1 /\ t.nValid = s.nValid - v
      /\ t \in NodeStates /\ SamePeer(s, t)
  <2>1. s.nValid - v \in Nat /\ s.nInFlight - 1 \in Nat
    BY <1>4, <1>5, <1>2
  <2> HIDE DEF r, v
  <2>2. t = [s EXCEPT !.queue = r, !.nInFlight = @ - 1, !.nValid = @ - v, !.stalling = "off",
                !.download = IF i = 1 THEN (IF Len(s.queue) > 1 THEN "on" ELSE "off") ELSE @]
    BY DEF ReceivedState, r, v
  <2> HIDE DEF t
  <2> QED
    BY <2>1, <2>2, <1>3 DEF NodeStates, SamePeer
<1> HIDE DEF t, r
<1>7. ListExact(t, S \ {b})
  <2>1. Hashes(t.queue) = S \ {b} /\ NoTwice(t.queue)
    BY <1>2, <1>3, <1>6
  <2>2. t.nInFlight = Len(t.queue) /\ t.nInFlight <= MAX_BLOCKS_IN_TRANSIT_PER_PEER
    BY <1>1, <1>2, <1>3, <1>6, DownloadAssumption
  <2>3. t.nValid = Cardinality(Validated(t.queue))
    BY <1>4, <1>6
  <2> QED
    BY <2>1, <2>2, <2>3 DEF ListExact
<1> QED
  BY <1>1, <1>6, <1>7 DEF t

Counted(s) == IF s.nValid > 0 THEN 1 ELSE 0

\* The record after a change of one peer and of the blocks in flight from it.
LEMMA OnePeer ==
    ASSUME NEW d, DownOk(d), NEW p \in Peer, NEW s \in NodeStates,
           NEW f \in [Block -> MaybePeer], ListExact(s, From(f, p)),
           \A q \in Peer \ {p} : From(f, q) = From(d.inFlight, q),
           From(f, p) # {} => s.up,
           NEW n, n = d.nValidated + Counted(s) - Counted(d.ns[p])
    PROVE  DownOk([ns |-> [d.ns EXCEPT ![p] = s], inFlight |-> f, nValidated |-> n])
<1> DEFINE e == [ns |-> [d.ns EXCEPT ![p] = s], inFlight |-> f, nValidated |-> n]
<1>1. /\ d \in Downs /\ d.ns \in [Peer -> NodeStates] /\ d.inFlight \in [Block -> MaybePeer]
      /\ d.nValidated = Cardinality(Downloading(d.ns)) /\ d.nValidated \in Int
  BY DEF DownOk, Downs
<1>2. /\ e.ns = [d.ns EXCEPT ![p] = s] /\ e.inFlight = f /\ e.nValidated = n
      /\ e.ns[p] = s /\ \A q \in Peer \ {p} : e.ns[q] = d.ns[q]
  BY <1>1
<1>3. s.nValid \in Nat /\ d.ns[p].nValid \in Nat
  BY <1>1 DEF NodeStates
<1>4. e \in Downs
  BY <1>1, <1>2, <1>3 DEF Downs, Counted
<1> HIDE DEF e
<1>5. \A q \in Peer : ListExact(e.ns[q], From(e.inFlight, q))
  <2> TAKE q \in Peer
  <2>1. CASE q = p
    BY <2>1, <1>2
  <2>2. CASE q # p
    BY <2>2, <1>2 DEF DownOk
  <2> QED
    BY <2>1, <2>2
<1>6. e.nValidated = Cardinality(Downloading(e.ns))
  <2> DEFINE A == Downloading(d.ns)
             B == Downloading(e.ns)
  <2>1. IsFiniteSet(A) /\ Cardinality(A) \in Nat
    BY PeersCounted
  <2>2. p \in A <=> d.ns[p].nValid > 0
    BY DEF Downloading
  <2>3. B = IF s.nValid > 0 THEN A \cup {p} ELSE A \ {p}
    BY <1>2 DEF Downloading
  <2>4. /\ Cardinality(A \cup {p}) = IF p \in A THEN Cardinality(A) ELSE Cardinality(A) + 1
        /\ Cardinality(A \ {p}) = IF p \in A THEN Cardinality(A) - 1 ELSE Cardinality(A)
    BY <2>1, FS_AddElement, FS_RemoveElement
  <2> HIDE DEF A, B
  <2>5. Cardinality(B) = Cardinality(A) + Counted(s) - Counted(d.ns[p])
    BY <2>1, <2>2, <2>3, <2>4, <1>3 DEF Counted
  <2> QED
    BY <2>5, <1>1, <1>2 DEF A, B
<1>7. ASSUME NEW b \in Block, e.inFlight[b] # NoPeer PROVE e.ns[e.inFlight[b]].up
  <2>1. f[b] \in Peer
    BY <1>7, <1>2 DEF MaybePeer
  <2>2. CASE f[b] = p
    BY <2>2, <1>2 DEF From
  <2>3. CASE f[b] # p
    <3>1. b \in From(d.inFlight, f[b])
      BY <2>1, <2>3 DEF From
    <3>2. d.inFlight[b] = f[b]
      BY <3>1 DEF From
    <3>3. d.ns[f[b]].up
      BY <2>1, <3>2, DownloadAssumption DEF DownOk
    <3> QED
      BY <3>3, <2>1, <2>3, <1>2
  <2> QED
    BY <2>2, <2>3
<1> QED
  BY <1>4, <1>5, <1>6, <1>7 DEF DownOk, e

\* A change of one peer that does not touch its list.
LEMMA OtherFields ==
    ASSUME NEW d, DownOk(d), NEW p \in Peer, NEW s \in NodeStates,
           s.queue = d.ns[p].queue, s.nInFlight = d.ns[p].nInFlight, s.nValid = d.ns[p].nValid,
           d.ns[p].up => s.up
    PROVE  DownOk([d EXCEPT !.ns[p] = s])
<1>1. /\ d \in Downs /\ d.inFlight \in [Block -> MaybePeer] /\ d.nValidated \in Int
      /\ d.ns \in [Peer -> NodeStates]
  BY DEF DownOk, Downs
<1>2. [d EXCEPT !.ns[p] = s]
        = [ns |-> [d.ns EXCEPT ![p] = s], inFlight |-> d.inFlight, nValidated |-> d.nValidated]
  BY <1>1 DEF Downs
<1>3. ListExact(s, From(d.inFlight, p))
  BY DEF DownOk, ListExact
<1>4. From(d.inFlight, p) # {} => s.up
  BY DownloadAssumption DEF From, DownOk
<1>5. d.nValidated = d.nValidated + Counted(s) - Counted(d.ns[p])
  BY <1>1 DEF Counted
<1> DEFINE f == d.inFlight
           n == d.nValidated
<1>6. /\ f \in [Block -> MaybePeer] /\ ListExact(s, From(f, p)) /\ (From(f, p) # {} => s.up)
      /\ \A q \in Peer \ {p} : From(f, q) = From(d.inFlight, q)
      /\ n = d.nValidated + Counted(s) - Counted(d.ns[p])
  BY <1>1, <1>3, <1>4, <1>5
<1> HIDE DEF f, n
<1>7. DownOk([ns |-> [d.ns EXCEPT ![p] = s], inFlight |-> f, nValidated |-> n])
  BY <1>6, OnePeer, Zenon
<1> QED
  BY <1>2, <1>7 DEF f, n

LEMMA ReceivedIs ==
    ASSUME NEW d, DownOk(d), NEW b \in Block, d.inFlight[b] # NoPeer
    PROVE  \E i \in 1..Len(d.ns[d.inFlight[b]].queue) :
              /\ d.ns[d.inFlight[b]].queue[i].hash = b
              /\ LET p == d.inFlight[b]
                     s == ReceivedState(d.ns[p], i)
                     v == d.ns[p].queue[i].valid
                 IN  MarkBlockAsReceived(d, b) =
                        [ns |-> [d.ns EXCEPT ![p] = s],
                         inFlight |-> [d.inFlight EXCEPT ![b] = NoPeer],
                         nValidated |-> d.nValidated - (IF LastValidated(s, v) THEN 1 ELSE 0)]
<1> DEFINE p == d.inFlight[b]
           q == d.ns[p].queue
           i == CHOOSE j \in 1..Len(q) : q[j].hash = b
<1>1. p \in Peer /\ d.ns \in [Peer -> NodeStates]
  <2>1. d \in Downs
    BY DEF DownOk
  <2>2. d.inFlight \in [Block -> MaybePeer] /\ d.ns \in [Peer -> NodeStates]
    BY <2>1 DEF Downs
  <2> QED
    BY <2>2 DEF MaybePeer
<1>2. i \in 1..Len(q) /\ q[i].hash = b
  <2>1. b \in Hashes(q)
    BY <1>1 DEF DownOk, ListExact, From
  <2> QED
    BY <2>1 DEF Hashes
<1> DEFINE n == IF q[i].valid THEN 1 ELSE 0
           s == [d.ns[p] EXCEPT
                   !.queue = RemoveAt(@, i), !.nInFlight = @ - 1, !.nValid = @ - n,
                   !.stalling = "off",
                   !.download = IF i = 1 THEN (IF Len(q) > 1 THEN "on" ELSE "off") ELSE @]
<1>3. MarkBlockAsReceived(d, b) =
        [ns |-> [d.ns EXCEPT ![p] = s], inFlight |-> [d.inFlight EXCEPT ![b] = NoPeer],
         nValidated |-> d.nValidated - (IF LastValidated(s, q[i].valid) THEN 1 ELSE 0)]
  BY DEF MarkBlockAsReceived
<1>4. s = ReceivedState(d.ns[p], i)
  BY DEF ReceivedState
<1> HIDE DEF s, i
<1> QED
  BY <1>2, <1>3, <1>4

\* MarkBlockAsReceived, wherever the block comes from and whoever it was asked of.
LEMMA Received ==
    ASSUME NEW d, DownOk(d), NEW b \in Block
    PROVE  LET r == MarkBlockAsReceived(d, b)
           IN  /\ DownOk(r) /\ SamePeers(d, r)
               /\ r.inFlight = [d.inFlight EXCEPT ![b] = NoPeer]
               /\ \A q \in Peer : r.ns[q].nInFlight <= d.ns[q].nInFlight
<1> DEFINE r == MarkBlockAsReceived(d, b)
<1>1. /\ d \in Downs /\ d.inFlight \in [Block -> MaybePeer] /\ d.nValidated \in Int
      /\ d.ns \in [Peer -> NodeStates]
  BY DEF DownOk, Downs
<1>2. \A q \in Peer : d.ns[q].nInFlight \in Nat
  BY <1>1 DEF NodeStates
<1>3. CASE d.inFlight[b] = NoPeer
  <2>1. r = d
    BY <1>3 DEF MarkBlockAsReceived
  <2> QED
    BY <2>1, <1>1, <1>2, <1>3 DEF SamePeers, SamePeer
<1>4. CASE d.inFlight[b] # NoPeer
  <2> DEFINE p == d.inFlight[b]
  <2>1. p \in Peer /\ p # NoPeer /\ d.ns[p] \in NodeStates
    BY <1>1, <1>4 DEF MaybePeer
  <2>2. PICK i \in 1..Len(d.ns[p].queue) :
           /\ d.ns[p].queue[i].hash = b
           /\ LET s == ReceivedState(d.ns[p], i)
                  v == d.ns[p].queue[i].valid
              IN  r = [ns |-> [d.ns EXCEPT ![p] = s],
                       inFlight |-> [d.inFlight EXCEPT ![b] = NoPeer],
                       nValidated |-> d.nValidated - (IF LastValidated(s, v) THEN 1 ELSE 0)]
    BY <1>4, ReceivedIs
  <2> HIDE DEF r
  <2> DEFINE s == ReceivedState(d.ns[p], i)
             v == d.ns[p].queue[i].valid
             f == [d.inFlight EXCEPT ![b] = NoPeer]
             n == d.nValidated - (IF LastValidated(s, v) THEN 1 ELSE 0)
  <2>3. r = [ns |-> [d.ns EXCEPT ![p] = s], inFlight |-> f, nValidated |-> n]
    BY <2>2
  <2>4. /\ s \in NodeStates /\ ListExact(s, From(d.inFlight, p) \ {b}) /\ SamePeer(d.ns[p], s)
        /\ s.nInFlight <= d.ns[p].nInFlight
        /\ s.nValid = d.ns[p].nValid - (IF v THEN 1 ELSE 0)
    <3>1. ListExact(d.ns[p], From(d.inFlight, p))
      BY <2>1 DEF DownOk
    <3> HIDE DEF p
    <3> QED
      BY <3>1, <2>1, <2>2, ReceivedStateOk
  <2> HIDE DEF s
  <2>5. /\ f \in [Block -> MaybePeer] /\ From(f, p) = From(d.inFlight, p) \ {b}
        /\ \A q \in Peer \ {p} : From(f, q) = From(d.inFlight, q)
    BY <1>1, <2>1, DownloadAssumption DEF From, MaybePeer
  <2>6. From(f, p) # {} => s.up
    <3>1. d.ns[p].up
      BY <1>4 DEF DownOk
    <3> QED
      BY <3>1, <2>4 DEF SamePeer
  <2>7. n = d.nValidated + Counted(s) - Counted(d.ns[p])
    <3>1. s.nValid \in Nat /\ d.ns[p].nValid \in Nat
      BY <2>1, <2>4 DEF NodeStates
    <3> HIDE DEF v
    <3> QED
      BY <3>1, <2>4, <1>1 DEF Counted, LastValidated
  <2>8. DownOk(r)
    <3> HIDE DEF f, n, p
    <3>1. DownOk([ns |-> [d.ns EXCEPT ![p] = s], inFlight |-> f, nValidated |-> n])
      BY <2>1, <2>4, <2>5, <2>6, <2>7, OnePeer
    <3> QED
      BY <3>1, <2>3
  <2>9. r.ns[p] = s /\ \A q \in Peer \ {p} : r.ns[q] = d.ns[q]
    <3> HIDE DEF f, n, p
    <3> QED
      BY <2>1, <2>3, <1>1
  <2>10. SamePeers(d, r)
    BY <2>4, <2>9 DEF SamePeers, SamePeer
  <2>11. \A q \in Peer : r.ns[q].nInFlight <= d.ns[q].nInFlight
    BY <2>4, <2>9, <1>2
  <2>12. r.inFlight = f
    <3> HIDE DEF f, n, p
    <3> QED
      BY <2>3
  <2>13. r.inFlight = [d.inFlight EXCEPT ![b] = NoPeer]
    BY <2>12
  <2> HIDE DEF p, v, f, n
  <2> QED
    BY <2>8, <2>10, <2>11, <2>13 DEF r
<1> QED
  BY <1>3, <1>4

\* What MarkBlockAsInFlight makes of the peer that is asked.
RequestedState(s, b, valid) ==
    [s EXCEPT !.queue = Append(@, QueuedBlock(b, valid)), !.nInFlight = @ + 1,
              !.nValid = IF valid THEN @ + 1 ELSE @,
              !.download = IF s.nInFlight = 0 THEN "on" ELSE @]

LEMMA RequestedStateOk ==
    ASSUME NEW s \in NodeStates, NEW S, ListExact(s, S), NEW b \in Block, b \notin S,
           NEW v \in BOOLEAN, s.nInFlight < MAX_BLOCKS_IN_TRANSIT_PER_PEER
    PROVE  LET t == RequestedState(s, b, v)
           IN  /\ t \in NodeStates /\ ListExact(t, S \cup {b}) /\ SamePeer(s, t)
               /\ t.nValid = IF v THEN s.nValid + 1 ELSE s.nValid
<1> DEFINE q == s.queue
           r == Append(q, QueuedBlock(b, v))
           t == RequestedState(s, b, v)
<1>1. q \in Seq(QueueEntries) /\ s.nInFlight \in Nat /\ s.nValid \in Nat
  BY DEF NodeStates
<1>2. /\ Hashes(q) = S /\ NoTwice(q) /\ s.nInFlight = Len(q)
      /\ s.nValid = Cardinality(Validated(q))
  BY DEF ListExact
<1>3. /\ r \in Seq(QueueEntries) /\ Len(r) = Len(q) + 1 /\ NoTwice(r)
      /\ Hashes(r) = Hashes(q) \cup {b}
      /\ Validated(r) = IF v THEN Validated(q) \cup {b} ELSE Validated(q)
      /\ b \notin Validated(q)
  BY <1>1, <1>2, ListAppend
<1>4. Cardinality(Validated(r)) = IF v THEN s.nValid + 1 ELSE s.nValid
  <2>1. IsFiniteSet(Validated(q))
    BY ListFinite
  <2>2. b \notin Validated(q) => Cardinality(Validated(q) \cup {b}) = Cardinality(Validated(q)) + 1
    BY <2>1, FS_AddElement
  <2> QED
    BY <2>2, <1>2, <1>3
<1>5. /\ t.queue = r /\ t.nInFlight = s.nInFlight + 1
      /\ t.nValid = (IF v THEN s.nValid + 1 ELSE s.nValid)
      /\ t \in NodeStates /\ SamePeer(s, t)
  <2> DEFINE nv == IF v THEN s.nValid + 1 ELSE s.nValid
             dl == IF s.nInFlight = 0 THEN "on" ELSE s.download
  <2>1. nv \in Nat /\ s.nInFlight + 1 \in Nat /\ dl \in {"off", "on", "over"}
    BY <1>1 DEF NodeStates
  <2> HIDE DEF r
  <2>2. t = [s EXCEPT !.queue = r, !.nInFlight = s.nInFlight + 1, !.nValid = nv, !.download = dl]
    BY DEF RequestedState, r, NodeStates
  <2> HIDE DEF t, nv, dl
  <2>3. t.queue = r /\ t.nInFlight = s.nInFlight + 1 /\ t.nValid = nv /\ SamePeer(s, t)
    BY <2>2 DEF NodeStates, SamePeer
  <2>4. t \in NodeStates
    BY <2>1, <2>2, <1>3 DEF NodeStates
  <2> QED
    BY <2>3, <2>4 DEF nv
<1> HIDE DEF t, r
<1>6. ListExact(t, S \cup {b})
  <2>1. Hashes(t.queue) = S \cup {b} /\ NoTwice(t.queue)
    BY <1>2, <1>3, <1>5
  <2>2. t.nInFlight = Len(t.queue) /\ t.nInFlight <= MAX_BLOCKS_IN_TRANSIT_PER_PEER
    BY <1>1, <1>2, <1>3, <1>5, DownloadAssumption
  <2>3. t.nValid = Cardinality(Validated(t.queue))
    BY <1>4, <1>5
  <2> QED
    BY <2>1, <2>2, <2>3 DEF ListExact
<1> QED
  BY <1>5, <1>6 DEF t

\* MarkBlockAsInFlight: a block that is in flight from another peer moves to p.
LEMMA InFlight ==
    ASSUME NEW d, DownOk(d), NEW p \in Peer, d.ns[p].up, NEW b \in Block, NEW v \in BOOLEAN,
           d.ns[p].nInFlight < MAX_BLOCKS_IN_TRANSIT_PER_PEER
    PROVE  LET e == MarkBlockAsInFlight(d, p, b, v)
           IN  DownOk(e) /\ SamePeers(d, e) /\ OnlyTo(d, e, p)
<1> DEFINE r == MarkBlockAsReceived(d, b)
           s == RequestedState(r.ns[p], b, v)
           f == [r.inFlight EXCEPT ![b] = p]
           n == IF s.nValid = 1 /\ v THEN r.nValidated + 1 ELSE r.nValidated
           e == MarkBlockAsInFlight(d, p, b, v)
<1>1. /\ DownOk(r) /\ SamePeers(d, r) /\ r.inFlight = [d.inFlight EXCEPT ![b] = NoPeer]
      /\ r.ns[p].nInFlight <= d.ns[p].nInFlight
  BY Received
<1>2. e = [ns |-> [r.ns EXCEPT ![p] = s], inFlight |-> f, nValidated |-> n]
  <2> HIDE DEF r
  <2> QED
    BY DEF MarkBlockAsInFlight, RequestedState, r
<1> HIDE DEF r, e
<1>3. /\ d.inFlight \in [Block -> MaybePeer] /\ d.ns \in [Peer -> NodeStates]
      /\ r.inFlight \in [Block -> MaybePeer] /\ r.ns \in [Peer -> NodeStates]
      /\ r.nValidated \in Int
  BY <1>1 DEF DownOk, Downs
<1>4. r.ns[p] \in NodeStates /\ r.ns[p].nInFlight < MAX_BLOCKS_IN_TRANSIT_PER_PEER
  <2>1. r.ns[p].nInFlight \in Nat /\ d.ns[p].nInFlight \in Nat
    BY <1>3 DEF NodeStates
  <2> QED
    BY <2>1, <1>1, <1>3, DownloadAssumption
<1>5. b \notin From(r.inFlight, p)
  BY <1>1, <1>3, DownloadAssumption DEF From
<1>6. ListExact(r.ns[p], From(r.inFlight, p))
  BY <1>1 DEF DownOk
<1>7. /\ s \in NodeStates /\ ListExact(s, From(r.inFlight, p) \cup {b}) /\ SamePeer(r.ns[p], s)
      /\ s.nValid = IF v THEN r.ns[p].nValid + 1 ELSE r.ns[p].nValid
  BY <1>4, <1>5, <1>6, RequestedStateOk
<1> HIDE DEF s
<1>8. /\ f \in [Block -> MaybePeer] /\ From(f, p) = From(r.inFlight, p) \cup {b}
      /\ \A q \in Peer \ {p} : From(f, q) = From(r.inFlight, q)
  BY <1>1, <1>3, DownloadAssumption DEF From, MaybePeer
<1>9. s.up
  BY <1>1, <1>7 DEF SamePeers, SamePeer
<1>10. n = r.nValidated + Counted(s) - Counted(r.ns[p])
  <2>1. s.nValid \in Nat /\ r.ns[p].nValid \in Nat
    BY <1>3, <1>7 DEF NodeStates
  <2> QED
    BY <2>1, <1>3, <1>7 DEF Counted
<1>11. DownOk(e)
  <2> HIDE DEF f, n
  <2>1. DownOk([ns |-> [r.ns EXCEPT ![p] = s], inFlight |-> f, nValidated |-> n])
    BY <1>1, <1>7, <1>8, <1>9, <1>10, OnePeer
  <2> QED
    BY <2>1, <1>2
<1>12. e.ns[p] = s /\ e.inFlight = f /\ \A q \in Peer \ {p} : e.ns[q] = r.ns[q]
  <2> HIDE DEF f, n
  <2> QED
    BY <1>2, <1>3
<1>13. SamePeers(d, e)
  BY <1>1, <1>7, <1>12 DEF SamePeers, SamePeer
<1>14. OnlyTo(d, e, p)
  BY <1>1, <1>3, <1>12 DEF OnlyTo
<1> QED
  BY <1>11, <1>13, <1>14 DEF e

-----------------------------------------------------------------------------
(* The loops.  A recursive function is what its equation says once a         *)
(* function that satisfies the equation is known to exist.                   *)

RequestBody(d, p, bs, k, f) ==
    [i \in 0..k |-> IF i = 0 THEN d ELSE AlsoRequested(f[i - 1], p, bs[i])]

LEMMA RequestExists ==
    ASSUME NEW d, NEW p, NEW bs
    PROVE  \A k \in Nat : \E f : f = RequestBody(d, p, bs, k, f)
<1> USE DEF RequestBody
<1> DEFINE S(f, i) == IF i = 0 THEN d ELSE AlsoRequested(f[i - 1], p, bs[i])
           Done(k) == \E f : f = [i \in 0..k |-> S(f, i)]
           Bad == {k \in Nat : ~Done(k)}
<1> SUFFICES ASSUME Bad # {} PROVE FALSE
  OBVIOUS
<1>1. PICK k \in Bad : \A j \in Bad : k <= j
  <2>1. Bad \in SUBSET Nat
    OBVIOUS
  <2> HIDE DEF Bad
  <2> QED
    BY <2>1, LeastNatural
<1>2. CASE k = 0
  <2> DEFINE g == [i \in 0..0 |-> d]
  <2>1. \A i \in 0..0 : i = 0
    OBVIOUS
  <2>2. \A i \in 0..0 : S(g, i) = d
    BY <2>1
  <2>3. g = [i \in 0..0 |-> S(g, i)]
    <3> HIDE DEF S
    <3> QED
      BY <2>2
  <2>4. Done(0)
    BY <2>3
  <2> QED
    BY <2>4, <1>1, <1>2
<1>3. CASE k # 0
  <2>1. k \in Nat /\ k - 1 \in Nat /\ Done(k - 1)
    <3> HIDE DEF Done
    <3> QED
      BY <1>1, <1>3
  <2>2. PICK f : f = [i \in 0..(k - 1) |-> S(f, i)]
    BY <2>1
  <2> DEFINE g == [i \in 0..k |-> IF i = k THEN S(f, k) ELSE f[i]]
  <2>3. \A i \in 0..k : g[i] = S(g, i)
    <3> SUFFICES ASSUME NEW i \in 0..k PROVE g[i] = S(g, i)
      OBVIOUS
    <3>1. \A j \in 0..(k - 1) : g[j] = f[j] /\ f[j] = S(f, j)
      BY <2>1, <2>2
    <3>2. S(g, i) = S(f, i)
      <4>1. CASE i = 0
        BY <4>1
      <4>2. CASE i # 0
        <5>1. i - 1 \in 0..(k - 1)
          BY <4>2, <2>1
        <5>2. g[i - 1] = f[i - 1]
          BY <5>1, <3>1
        <5> HIDE DEF g
        <5> QED
          BY <4>2, <5>2
      <4> QED
        BY <4>1, <4>2
    <3>3. CASE i = k
      BY <3>2, <3>3
    <3>4. CASE i # k
      <4>1. i \in 0..(k - 1)
        BY <3>4, <2>1
      <4> QED
        BY <4>1, <3>1, <3>2
    <3> QED
      BY <3>3, <3>4
  <2>4. g = [i \in 0..k |-> S(g, i)]
    <3> HIDE DEF S
    <3> QED
      BY <2>3
  <2>5. Done(k)
    <3> HIDE DEF g, S
    <3> QED
      BY <2>4
  <2> QED
    BY <2>5, <1>1
<1> QED
  BY <1>2, <1>3

LEMMA RequestedIs ==
    ASSUME NEW d, NEW p, NEW bs, Len(bs) \in Nat
    PROVE  \E f : /\ f[0] = d
                  /\ \A i \in 1..Len(bs) : f[i] = AlsoRequested(f[i - 1], p, bs[i])
                  /\ Requested(d, p, bs) = f[Len(bs)]
<1> DEFINE N == Len(bs)
           after == CHOOSE f : f = RequestBody(d, p, bs, N, f)
<1>1. Requested(d, p, bs) = after[N]
  BY DEF Requested, RequestBody
<1>2. after = RequestBody(d, p, bs, N, after)
  <2>1. \E f : f = RequestBody(d, p, bs, N, f)
    BY RequestExists
  <2> QED
    BY <2>1
<1> HIDE DEF after
<1>3. 0 \in 0..N /\ \A i \in 1..N : i \in 0..N /\ i # 0
  OBVIOUS
<1> QED
  BY <1>1, <1>2, <1>3 DEF RequestBody

LEMMA SameTransitive ==
    ASSUME NEW d, NEW e, NEW g, NEW p
    PROVE  /\ SamePeers(d, d) /\ OnlyTo(d, d, p)
           /\ SamePeers(d, e) /\ SamePeers(e, g) => SamePeers(d, g)
           /\ OnlyTo(d, e, p) /\ OnlyTo(e, g, p) => OnlyTo(d, g, p)
BY DEF SamePeers, SamePeer, OnlyTo

LEMMA RequestedOk ==
    ASSUME NEW d, DownOk(d), NEW p \in Peer, d.ns[p].up, NEW bs \in Seq(Block)
    PROVE  LET e == Requested(d, p, bs)
           IN  DownOk(e) /\ SamePeers(d, e) /\ OnlyTo(d, e, p)
<1> DEFINE Fine(e) == DownOk(e) /\ SamePeers(d, e) /\ OnlyTo(d, e, p)
           N == Len(bs)
<1>1. N \in Nat
  OBVIOUS
<1>2. PICK f : /\ f[0] = d
               /\ \A i \in 1..N : f[i] = AlsoRequested(f[i - 1], p, bs[i])
               /\ Requested(d, p, bs) = f[N]
  BY <1>1, RequestedIs
<1>3. ASSUME NEW e, Fine(e), NEW b \in Block PROVE Fine(AlsoRequested(e, p, b))
  <2>1. CASE e.ns[p].nInFlight >= MAX_BLOCKS_IN_TRANSIT_PER_PEER
    BY <2>1, <1>3 DEF AlsoRequested
  <2>2. CASE ~(e.ns[p].nInFlight >= MAX_BLOCKS_IN_TRANSIT_PER_PEER)
    <3> DEFINE g == MarkBlockAsInFlight(e, p, b, TRUE)
    <3>1. e.ns[p].nInFlight \in Nat
      BY <1>3 DEF DownOk, Downs, NodeStates
    <3>2. e.ns[p].nInFlight < MAX_BLOCKS_IN_TRANSIT_PER_PEER
      BY <3>1, <2>2, DownloadAssumption
    <3>3. e.ns[p].up
      BY <1>3 DEF SamePeers, SamePeer
    <3>4. DownOk(g) /\ SamePeers(e, g) /\ OnlyTo(e, g, p)
      BY <1>3, <3>2, <3>3, InFlight
    <3>5. AlsoRequested(e, p, b) = g
      BY <2>2 DEF AlsoRequested
    <3> HIDE DEF g
    <3> QED
      BY <3>4, <3>5, <1>3, SameTransitive
  <2> QED
    BY <2>1, <2>2
<1>4. Fine(d)
  BY SameTransitive
<1> HIDE DEF Fine
<1> DEFINE Bad == {i \in 0..N : ~Fine(f[i])}
<1>5. Bad = {}
  <2> SUFFICES ASSUME Bad # {} PROVE FALSE
    OBVIOUS
  <2>1. Bad \in SUBSET Nat
    OBVIOUS
  <2>2. PICK k \in Bad : \A j \in Bad : k <= j
    <3> HIDE DEF Bad
    <3> QED
      BY <2>1, LeastNatural
  <2>3. k # 0
    BY <1>2, <1>4, <2>2
  <2>4. k \in 1..N /\ k - 1 \in 0..N /\ Fine(f[k - 1])
    BY <1>1, <2>2, <2>3
  <2>5. Fine(f[k])
    BY <1>2, <1>3, <2>4
  <2> QED
    BY <2>2, <2>5
<1>6. Fine(f[N])
  BY <1>1, <1>5
<1> QED
  BY <1>2, <1>6 DEF Fine

WalkBody(start, path, end, count, p, k, f) ==
    [i \in 0..k |-> IF i = 0 THEN start ELSE Walked(f[i - 1], path[i], end, count, p)]

LEMMA WalkExists ==
    ASSUME NEW start, NEW path, NEW end, NEW count, NEW p
    PROVE  \A k \in Nat : \E f : f = WalkBody(start, path, end, count, p, k, f)
<1> USE DEF WalkBody
<1> DEFINE S(f, i) == IF i = 0 THEN start ELSE Walked(f[i - 1], path[i], end, count, p)
           Done(k) == \E f : f = [i \in 0..k |-> S(f, i)]
           Bad == {k \in Nat : ~Done(k)}
<1> SUFFICES ASSUME Bad # {} PROVE FALSE
  OBVIOUS
<1>1. PICK k \in Bad : \A j \in Bad : k <= j
  <2>1. Bad \in SUBSET Nat
    OBVIOUS
  <2> HIDE DEF Bad
  <2> QED
    BY <2>1, LeastNatural
<1>2. CASE k = 0
  <2> DEFINE g == [i \in 0..0 |-> start]
  <2>1. \A i \in 0..0 : i = 0
    OBVIOUS
  <2>2. \A i \in 0..0 : S(g, i) = start
    BY <2>1
  <2>3. g = [i \in 0..0 |-> S(g, i)]
    <3> HIDE DEF S
    <3> QED
      BY <2>2
  <2>4. Done(0)
    BY <2>3
  <2> QED
    BY <2>4, <1>1, <1>2
<1>3. CASE k # 0
  <2>1. k \in Nat /\ k - 1 \in Nat /\ Done(k - 1)
    <3> HIDE DEF Done
    <3> QED
      BY <1>1, <1>3
  <2>2. PICK f : f = [i \in 0..(k - 1) |-> S(f, i)]
    BY <2>1
  <2> DEFINE g == [i \in 0..k |-> IF i = k THEN S(f, k) ELSE f[i]]
  <2>3. \A i \in 0..k : g[i] = S(g, i)
    <3> SUFFICES ASSUME NEW i \in 0..k PROVE g[i] = S(g, i)
      OBVIOUS
    <3>1. \A j \in 0..(k - 1) : g[j] = f[j] /\ f[j] = S(f, j)
      BY <2>1, <2>2
    <3>2. S(g, i) = S(f, i)
      <4>1. CASE i = 0
        BY <4>1
      <4>2. CASE i # 0
        <5>1. i - 1 \in 0..(k - 1)
          BY <4>2, <2>1
        <5>2. g[i - 1] = f[i - 1]
          BY <5>1, <3>1
        <5> HIDE DEF g
        <5> QED
          BY <4>2, <5>2
      <4> QED
        BY <4>1, <4>2
    <3>3. CASE i = k
      BY <3>2, <3>3
    <3>4. CASE i # k
      <4>1. i \in 0..(k - 1)
        BY <3>4, <2>1
      <4> QED
        BY <4>1, <3>1, <3>2
    <3> QED
      BY <3>3, <3>4
  <2>4. g = [i \in 0..k |-> S(g, i)]
    <3> HIDE DEF S
    <3> QED
      BY <2>3
  <2>5. Done(k)
    <3> HIDE DEF g, S
    <3> QED
      BY <2>4
  <2> QED
    BY <2>5, <1>1
<1> QED
  BY <1>2, <1>3

\* What FindNextBlocksToDownload walks over, and how.
WalkFine(w) ==
    /\ w \in [blocks : Seq(Block), common : Block, waitingFor : MaybePeer, staller : MaybePeer,
              done : BOOLEAN]
    /\ Linked(w.common)

LEMMA WalkedFine ==
    ASSUME NEW w, WalkFine(w), NEW b \in Block, NEW end, NEW count, NEW p,
           inFlight \in [Block -> MaybePeer]
    PROVE  WalkFine(Walked(w, b, end, count, p))
<1> DEFINE walks == [blocks : Seq(Block), common : Block, waitingFor : MaybePeer,
                     staller : MaybePeer, done : BOOLEAN]
<1>1. w \in walks /\ Linked(w.common) /\ inFlight[b] \in MaybePeer
  BY DEF WalkFine
<1>2. w.blocks \in Seq(Block) /\ Append(w.blocks, b) \in Seq(Block)
  BY <1>1
<1>3. CASE w.done
  BY <1>3 DEF Walked
<1>4. CASE ~w.done /\ (b \in haveData \/ b \in Ancestors[tip])
  BY <1>1, <1>4 DEF Walked, Advances, WalkFine
<1>5. CASE ~w.done /\ ~(b \in haveData \/ b \in Ancestors[tip]) /\ inFlight[b] # NoPeer
  BY <1>1, <1>5 DEF Walked, WalkFine
<1>6. CASE ~w.done /\ ~(b \in haveData \/ b \in Ancestors[tip]) /\ inFlight[b] = NoPeer
  <2> DEFINE st == IF w.blocks = <<>> /\ w.waitingFor # p THEN w.waitingFor ELSE w.staller
             dn == Len(w.blocks) + 1 = count
  <2>1. st \in MaybePeer /\ dn \in BOOLEAN
    BY <1>1
  <2>2. Walked(w, b, end, count, p) =
          IF nHeight[b] > end THEN [w EXCEPT !.done = TRUE, !.staller = st]
          ELSE [w EXCEPT !.blocks = Append(w.blocks, b), !.done = dn]
    BY <1>1, <1>6 DEF Walked
  <2> HIDE DEF st, dn
  <2>3. [w EXCEPT !.done = TRUE, !.staller = st] \in walks
        /\ [w EXCEPT !.done = TRUE, !.staller = st].common = w.common
    BY <1>1, <2>1
  <2>4. [w EXCEPT !.blocks = Append(w.blocks, b), !.done = dn] \in walks
        /\ [w EXCEPT !.blocks = Append(w.blocks, b), !.done = dn].common = w.common
    BY <1>1, <1>2, <2>1
  <2> QED
    BY <1>1, <2>2, <2>3, <2>4 DEF WalkFine
<1> QED
  BY <1>3, <1>4, <1>5, <1>6

LEMMA GetAncestorIs ==
    ASSUME NEW a \in Block, NEW h \in 0..nHeight[a]
    PROVE  /\ GetAncestor(a, h) \in Ancestors[a]
           /\ GetAncestor(a, h) \in Block
           /\ nHeight[GetAncestor(a, h)] = h
<1>1. \E c \in Ancestors[a] : nHeight[c] = h
  BY AncestorAtHeight
<1> QED
  BY <1>1, AncestorsAreBlocks DEF GetAncestor

\* FindNextBlocksToDownload: the blocks it finds are blocks, and the last common
\* block it stores has everything below it.
LEMMA FoundFine ==
    ASSUME ChainOk, inFlight \in [Block -> MaybePeer], NEW s \in NodeStates,
           s.common # NoBlock => Linked(s.common), NEW p, NEW count
    PROVE  LET w == FindNextBlocksToDownload(s, p, count)
           IN  /\ w.blocks \in Seq(Block) /\ w.common \in MaybeBlock /\ w.staller \in MaybePeer
               /\ w.common # NoBlock => Linked(w.common)
<1> DEFINE nothing == [blocks |-> <<>>, common |-> s.common, staller |-> NoPeer]
           h == IF nHeight[s.best] < nHeight[tip] THEN nHeight[s.best] ELSE nHeight[tip]
           guess == IF s.common # NoBlock THEN s.common ELSE GetAncestor(tip, h)
           from == FindFork(guess, s.best)
           end == nHeight[from] + BLOCK_DOWNLOAD_WINDOW
           last == IF nHeight[s.best] < end + 1 THEN nHeight[s.best] ELSE end + 1
           path == [i \in 1..(last - nHeight[from]) |-> GetAncestor(s.best, nHeight[from] + i)]
           start == [blocks |-> <<>>, common |-> from, waitingFor |-> NoPeer, staller |-> NoPeer,
                     done |-> FALSE]
           walk == CHOOSE f : f = WalkBody(start, path, end, count, p, Len(path), f)
           found == FindNextBlocksToDownload(s, p, count)
<1>1. found = IF s.best = NoBlock THEN nothing
              ELSE IF nChainWork[s.best] < nChainWork[tip] THEN nothing
              ELSE walk[Len(path)]
  BY DEF FindNextBlocksToDownload, WalkBody
<1>2. s.best \in MaybeBlock /\ s.common \in MaybeBlock /\ tip \in Block /\ Linked(tip)
  BY DEF NodeStates, ChainOk
<1>3. CASE s.best = NoBlock \/ nChainWork[s.best] < nChainWork[tip]
  <2>1. found = nothing
    BY <1>1, <1>3
  <2> HIDE DEF found
  <2>2. <<>> \in Seq(Block)
    OBVIOUS
  <2>3. found.blocks = <<>> /\ found.common = s.common /\ found.staller = NoPeer
    BY <2>1
  <2> QED
    BY <2>2, <2>3, <1>2 DEF MaybePeer, found
<1>4. CASE ~(s.best = NoBlock \/ nChainWork[s.best] < nChainWork[tip])
  <2>1. s.best \in Block /\ nHeight[s.best] \in Nat /\ nHeight[tip] \in Nat
    BY <1>2, <1>4, TreeAssumption DEF MaybeBlock
  <2>2. guess \in Block /\ Linked(guess)
    <3>1. CASE s.common # NoBlock
      BY <3>1, <1>2 DEF MaybeBlock
    <3>2. CASE s.common = NoBlock
      <4>1. h \in 0..nHeight[tip]
        BY <2>1
      <4>2. GetAncestor(tip, h) \in Ancestors[tip] /\ GetAncestor(tip, h) \in Block
        BY <4>1, <1>2, GetAncestorIs
      <4>3. guess = GetAncestor(tip, h)
        BY <3>2
      <4> HIDE DEF guess, h
      <4> QED
        BY <4>2, <4>3, <1>2, AncestorsNested DEF Linked
    <3> QED
      BY <3>1, <3>2
  <2> HIDE DEF guess
  <2>3. from \in Block /\ from \in Ancestors[guess] /\ from \in Ancestors[s.best]
    BY <2>1, <2>2, ForkFound DEF IsFork
  <2> HIDE DEF from
  <2>4. Linked(from)
    BY <2>2, <2>3, AncestorsNested DEF Linked
  <2>5. nHeight[from] \in Nat /\ nHeight[from] <= nHeight[s.best]
    BY <2>1, <2>3, AncestorsNested, TreeAssumption
  <2>6. last \in Nat /\ last - nHeight[from] \in Nat /\ last <= nHeight[s.best]
    BY <2>1, <2>5, DownloadAssumption
  <2> HIDE DEF last
  <2>7. \A i \in 1..(last - nHeight[from]) : GetAncestor(s.best, nHeight[from] + i) \in Block
    <3> TAKE i \in 1..(last - nHeight[from])
    <3>1. nHeight[from] + i \in 0..nHeight[s.best]
      BY <2>1, <2>5, <2>6
    <3> QED
      BY <3>1, <2>1, GetAncestorIs
  <2>8. path \in Seq(Block) /\ Len(path) \in Nat
    BY <2>6, <2>7
  <2>9. WalkFine(start)
    <3>1. <<>> \in Seq(Block)
      OBVIOUS
    <3> QED
      BY <3>1, <2>3, <2>4 DEF WalkFine, MaybePeer
  <2> HIDE DEF start, path, end
  <2> DEFINE N == Len(path)
  <2>10. walk = WalkBody(start, path, end, count, p, N, walk)
    <3>1. \E f : f = WalkBody(start, path, end, count, p, N, f)
      BY <2>8, WalkExists
    <3> QED
      BY <3>1
  <2> HIDE DEF walk
  <2>11. 0 \in 0..N /\ \A i \in 1..N : i \in 0..N /\ i # 0
    BY <2>8
  <2>12. walk[0] = start /\ \A i \in 1..N : walk[i] = Walked(walk[i - 1], path[i], end, count, p)
    BY <2>10, <2>11 DEF WalkBody
  <2> DEFINE Bad == {i \in 0..N : ~WalkFine(walk[i])}
  <2>13. Bad = {}
    <3> SUFFICES ASSUME Bad # {} PROVE FALSE
      OBVIOUS
    <3>1. Bad \in SUBSET Nat
      OBVIOUS
    <3>2. PICK k \in Bad : \A j \in Bad : k <= j
      <4> HIDE DEF Bad
      <4> QED
        BY <3>1, LeastNatural
    <3>3. k # 0
      BY <2>9, <2>12, <3>2
    <3>4. k \in 1..N /\ k - 1 \in 0..N /\ WalkFine(walk[k - 1]) /\ path[k] \in Block
      BY <2>8, <3>2, <3>3
    <3>5. WalkFine(walk[k])
      BY <2>12, <3>4, WalkedFine
    <3> QED
      BY <3>2, <3>5
  <2>14. WalkFine(walk[N])
    BY <2>8, <2>13
  <2>15. found = walk[N]
    BY <1>1, <1>4
  <2> HIDE DEF found
  <2> QED
    BY <2>14, <2>15 DEF WalkFine, MaybeBlock, found
<1> QED
  BY <1>3, <1>4

-----------------------------------------------------------------------------
(* The choices that headers and block messages make.                        *)

\* The missing blocks of a branch have different numbers of missing blocks below them,
\* so that every place of the list of direct fetches has a block.
LEMMA DirectFetchFine ==
    ASSUME NEW b \in Block
    PROVE  DirectFetch(b) \in Seq(Block)
<1> DEFINE missing == {c \in Ancestors[b] \ Ancestors[tip] : c \notin haveData /\ inFlight[c] = NoPeer}
           n == Cardinality(missing)
           Lower(c) == {e \in missing : nHeight[e] < nHeight[c]}
           rank == [c \in missing |-> Cardinality(Lower(c))]
<1>1. /\ missing \subseteq Block /\ missing \subseteq Ancestors[b]
      /\ \A c \in missing : nHeight[c] \in Nat
  BY AncestorsAreBlocks
<1>2. IsFiniteSet(missing) /\ n \in Nat
  <2>1. missing \in SUBSET Block
    BY <1>1
  <2> HIDE DEF missing
  <2> QED
    BY <2>1, FS_Subset, FS_CardinalityType, TreeAssumption
<1>3. \A i \in 1..n : \E c \in missing : Cardinality(Lower(c)) = i - 1
  <2> HIDE DEF missing
  <2>1. \A c \in missing : IsFiniteSet(Lower(c)) /\ Cardinality(Lower(c)) \in Nat
    <3> TAKE c \in missing
    <3>1. Lower(c) \in SUBSET missing
      OBVIOUS
    <3> HIDE DEF Lower
    <3> QED
      BY <3>1, <1>2, FS_Subset, FS_CardinalityType
  <2>2. \A c \in missing : Cardinality(Lower(c)) \in 0..(n - 1)
    <3> TAKE c \in missing
    <3>1. IsFiniteSet(missing \ {c}) /\ Cardinality(missing \ {c}) = n - 1
      BY <1>2, FS_RemoveElement
    <3>2. Lower(c) \in SUBSET (missing \ {c})
      BY <1>1
    <3> HIDE DEF Lower
    <3>3. Cardinality(Lower(c)) <= n - 1
      BY <3>1, <3>2, FS_Subset
    <3> QED
      BY <3>3, <2>1, <1>2
  <2>3. \A c, e \in missing : nHeight[c] < nHeight[e] => Cardinality(Lower(c)) < Cardinality(Lower(e))
    <3> SUFFICES ASSUME NEW c \in missing, NEW e \in missing, nHeight[c] < nHeight[e]
                 PROVE  Cardinality(Lower(c)) < Cardinality(Lower(e))
      OBVIOUS
    <3>1. c \in Lower(e) /\ Lower(c) \in SUBSET (Lower(e) \ {c})
      BY <1>1
    <3> HIDE DEF Lower
    <3>2. IsFiniteSet(Lower(e) \ {c}) /\ Cardinality(Lower(e) \ {c}) = Cardinality(Lower(e)) - 1
      BY <3>1, <2>1, FS_RemoveElement
    <3>3. Cardinality(Lower(c)) <= Cardinality(Lower(e)) - 1
      BY <3>1, <3>2, FS_Subset
    <3> QED
      BY <3>3, <2>1
  <2>4. \A c, e \in missing : Cardinality(Lower(c)) = Cardinality(Lower(e)) => c = e
    <3> SUFFICES ASSUME NEW c \in missing, NEW e \in missing,
                        Cardinality(Lower(c)) = Cardinality(Lower(e))
                 PROVE  c = e
      OBVIOUS
    <3>1. ~(nHeight[c] < nHeight[e]) /\ ~(nHeight[e] < nHeight[c])
      <4> HIDE DEF Lower
      <4> QED
        BY <2>1, <2>3
    <3>2. nHeight[c] = nHeight[e]
      BY <3>1, <1>1
    <3> QED
      BY <3>2, <1>1, SameHeight
  <2> HIDE DEF Lower
  <2>5. rank \in Injection(missing, 0..(n - 1))
    BY <2>2, <2>4 DEF Injection, IsInjective
  <2>6. IsFiniteSet(0..(n - 1)) /\ Cardinality(0..(n - 1)) = n
    <3>1. n - 1 \in Int /\ 0 \in Int
      BY <1>2
    <3>2. IsFiniteSet(0..(n - 1)) /\ Cardinality(0..(n - 1)) = IF 0 > n - 1 THEN 0 ELSE (n - 1) - 0 + 1
      BY <3>1, FS_Interval
    <3> QED
      BY <3>2, <1>2
  <2>7. rank \in Surjection(missing, 0..(n - 1))
    BY <2>5, <2>6, FS_Injection
  <2> TAKE i \in 1..n
  <2>8. i - 1 \in 0..(n - 1)
    BY <1>2
  <2>9. PICK c \in missing : rank[c] = i - 1
    BY <2>7, <2>8 DEF Surjection
  <2> QED
    BY <2>9
<1> DEFINE At(i) == CHOOSE c \in missing : Cardinality(Lower(c)) = i - 1
           list == [i \in 1..n |-> At(i)]
<1>4. list \in Seq(Block)
  <2>1. \A i \in 1..n : At(i) \in Block
    <3> HIDE DEF missing, Lower
    <3> QED
      BY <1>1, <1>3
  <2> HIDE DEF At, n
  <2> QED
    BY <2>1, <1>2
<1>5. DirectFetch(b) = list \/ DirectFetch(b) = <<>>
  BY DEF DirectFetch
<1>6. <<>> \in Seq(Block)
  OBVIOUS
<1> HIDE DEF list
<1> QED
  BY <1>4, <1>5, <1>6

\* Of finitely many blocks one has the most work.
LEMMA MostWork ==
    ASSUME NEW S \in SUBSET Block, S # {}
    PROVE  \E b \in S : \A c \in S : nChainWork[c] <= nChainWork[b]
<1> DEFINE More(b) == {c \in S : nChainWork[c] > nChainWork[b]}
           T == {Cardinality(More(b)) : b \in S}
<1>1. \A b \in S : nChainWork[b] \in Nat
  BY TreeAssumption
<1>2. \A b \in S : IsFiniteSet(More(b)) /\ Cardinality(More(b)) \in Nat
  <2> TAKE b \in S
  <2>1. More(b) \in SUBSET Block
    OBVIOUS
  <2> HIDE DEF More
  <2> QED
    BY <2>1, FS_Subset, FS_CardinalityType, TreeAssumption
<1>3. T \in SUBSET Nat /\ T # {}
  <2> HIDE DEF More
  <2> QED
    BY <1>2
<1>4. PICK m \in T : \A k \in T : m <= k
  <2> HIDE DEF T
  <2> QED
    BY <1>3, LeastNatural
<1>5. PICK b \in S : m = Cardinality(More(b))
  <2> HIDE DEF More
  <2> QED
    BY <1>4
<1>6. ASSUME NEW c \in S, ~(nChainWork[c] <= nChainWork[b]) PROVE FALSE
  <2>1. c \in More(b) /\ More(c) \in SUBSET (More(b) \ {c})
    BY <1>1, <1>6
  <2> HIDE DEF More
  <2>2. IsFiniteSet(More(b) \ {c}) /\ Cardinality(More(b) \ {c}) = Cardinality(More(b)) - 1
    BY <2>1, <1>2, FS_RemoveElement
  <2>3. Cardinality(More(c)) <= Cardinality(More(b)) - 1
    BY <2>1, <2>2, FS_Subset
  <2>4. m <= Cardinality(More(c))
    BY <1>4
  <2> QED
    BY <2>3, <2>4, <1>2, <1>5
<1> QED
  BY <1>6

LEMMA BestLinkedFine ==
    ASSUME NEW data \in SUBSET Block, Genesis \in data, tip \in Block
    PROVE  /\ BestLinked(data) \in Block
           /\ BestLinked(data) = tip \/ Ancestors[BestLinked(data)] \subseteq data
<1> DEFINE linked == {b \in Block : Ancestors[b] \subseteq data}
           best == CHOOSE b \in linked : \A c \in linked : nChainWork[c] <= nChainWork[b]
<1>1. Genesis \in linked /\ linked \in SUBSET Block
  BY TreeAssumption
<1>2. best \in linked
  <2> HIDE DEF linked
  <2>1. \E x \in linked : \A c \in linked : nChainWork[c] <= nChainWork[x]
    BY <1>1, MostWork
  <2> QED
    BY <2>1
<1>3. BestLinked(data) \in {best, tip}
  BY DEF BestLinked
<1> HIDE DEF best
<1> QED
  BY <1>2, <1>3

LEMMA BestHeaderFine ==
    ASSUME ChainOk
    PROVE  BestHeader \in Block /\ (BestHeader # Genesis => pprev[BestHeader] \in Block)
<1>1. \E b \in index : \A c \in index : nChainWork[c] <= nChainWork[b]
  BY MostWork DEF ChainOk
<1>2. BestHeader \in Block
  BY <1>1 DEF BestHeader, ChainOk
<1> QED
  BY <1>2, ParentStep

-----------------------------------------------------------------------------
(* The steps.                                                               *)

LEMMA DownPrimed ==
    ASSUME NEW e \in Downs, SetDown(e)
    PROVE  Down' = e /\ ns' = e.ns /\ inFlight' = e.inFlight
BY DEF SetDown, Down, Downs

LEMMA OkPrimed == DownOk(Down)' <=> DownOk(Down')
BY DEF DownOk, Downs, ListExact, From, Downloading

\* What a message or SendMessages may make of the records: the peer p may change, and blocks
\* may be in flight from it that were not.
PeerStep(e, p) ==
    /\ DownOk(e) /\ OnlyTo(Down, e, p)
    /\ \A q \in Peer \ {p} : SamePeer(ns[q], e.ns[q])
    /\ e.ns[p].up
    /\ e.ns[p].common # NoBlock => Linked(e.ns[p].common)

LEMMA PeerStepKeeps ==
    ASSUME DownloadInv, NEW p \in Peer, ns[p].up, NEW e, PeerStep(e, p), SetDown(e),
           askedBlocks' = [askedBlocks EXCEPT ![p] = @ \cup NewRequests(e, p)],
           UNCHANGED <<haveData, tip>>
    PROVE  /\ DownOk(Down)' /\ DownPeers' /\ NoStrayRequest' /\ CommonBlockLinked'
           /\ askedBlocks' \in [Peer -> SUBSET Block]
           /\ {q \in Preferred : ns[q].up}' = {q \in Preferred : ns[q].up}
           /\ {q \in Peer : ns[q].sync}' =
                 IF e.ns[p].sync THEN {q \in Peer : ns[q].sync} \cup {p}
                 ELSE {q \in Peer : ns[q].sync} \ {p}
<1>1. e \in Downs /\ Down' = e /\ ns' = e.ns /\ inFlight' = e.inFlight
  BY DownPrimed DEF PeerStep, DownOk
<1>2. ns' \in [Peer -> NodeStates] /\ inFlight' \in [Block -> MaybePeer]
  BY <1>1 DEF Downs
<1>3. ns \in [Peer -> NodeStates] /\ inFlight \in [Block -> MaybePeer]
  BY DEF DownloadInv, DownOk, Downs, Down
<1>4. DownOk(Down)'
  BY <1>1, OkPrimed DEF PeerStep
<1>5. /\ \A q \in Peer \ {p} : SamePeer(ns[q], ns'[q])
      /\ ns'[p].up /\ ns'[p].sync = e.ns[p].sync
      /\ ns'[p].common # NoBlock => Linked(ns'[p].common)
      /\ \A b \in Block : inFlight'[b] \in {inFlight[b], p}
  BY <1>1 DEF PeerStep, OnlyTo, Down
<1>6. DownPeers'
  BY <1>5 DEF DownloadInv, DownPeers, SamePeer
<1>7. askedBlocks \in [Peer -> SUBSET Block] /\ NewRequests(e, p) \subseteq Block
  BY DEF DownloadInv, NewRequests
<1>8. askedBlocks' \in [Peer -> SUBSET Block]
  BY <1>7
<1>9. NoStrayRequest'
  <2> SUFFICES ASSUME NEW b \in Block, inFlight'[b] # NoPeer
               PROVE  ns'[inFlight'[b]].up /\ b \in askedBlocks'[inFlight'[b]]
    BY DEF NoStrayRequest
  <2>1. CASE inFlight'[b] = p
    <3>1. b \in askedBlocks[p] \/ b \in NewRequests(e, p)
      BY <2>1, <1>1, DownloadAssumption DEF DownloadInv, NoStrayRequest, NewRequests
    <3> QED
      BY <3>1, <2>1, <1>5, <1>7
  <2>2. CASE inFlight'[b] # p
    <3>1. inFlight[b] = inFlight'[b] /\ inFlight[b] \in Peer
      BY <2>2, <1>3, <1>5 DEF MaybePeer
    <3>2. ns[inFlight[b]].up /\ b \in askedBlocks[inFlight[b]]
      BY <3>1, DownloadAssumption DEF DownloadInv, NoStrayRequest
    <3> QED
      BY <3>1, <3>2, <2>2, <1>5, <1>7 DEF SamePeer
  <2> QED
    BY <2>1, <2>2
<1>10. CommonBlockLinked'
  BY <1>5 DEF DownloadInv, CommonBlockLinked, Linked, SamePeer
<1>11. {q \in Preferred : ns[q].up}' = {q \in Preferred : ns[q].up}
  BY <1>5, DownloadAssumption DEF SamePeer
<1>12. {q \in Peer : ns[q].sync}' =
          IF e.ns[p].sync THEN {q \in Peer : ns[q].sync} \cup {p}
          ELSE {q \in Peer : ns[q].sync} \ {p}
  BY <1>5 DEF SamePeer
<1> QED
  BY <1>4, <1>6, <1>8, <1>9, <1>10, <1>11, <1>12

\* A change of p alone that leaves its list as it is.
LEMMA OneStep ==
    ASSUME DownloadInv, NEW p \in Peer, NEW s \in NodeStates, s.up,
           s.queue = ns[p].queue, s.nInFlight = ns[p].nInFlight, s.nValid = ns[p].nValid,
           s.common # NoBlock => Linked(s.common)
    PROVE  /\ PeerStep([Down EXCEPT !.ns[p] = s], p)
           /\ [Down EXCEPT !.ns[p] = s].ns[p] = s
           /\ [Down EXCEPT !.ns[p] = s] \in Downs
<1> DEFINE e == [Down EXCEPT !.ns[p] = s]
<1>1. /\ ns \in [Peer -> NodeStates] /\ inFlight \in [Block -> MaybePeer] /\ DownOk(Down)
      /\ Down.ns = ns /\ Down.inFlight = inFlight
  BY DEF DownloadInv, DownOk, Downs, Down
<1>2. DownOk(e)
  BY <1>1, OtherFields
<1>3. e.ns = [ns EXCEPT ![p] = s] /\ e.inFlight = inFlight
  BY <1>1 DEF Down
<1> HIDE DEF e
<1>4. e.ns[p] = s /\ \A q \in Peer \ {p} : e.ns[q] = ns[q]
  BY <1>1, <1>3
<1>5. PeerStep(e, p)
  BY <1>1, <1>2, <1>3, <1>4 DEF PeerStep, OnlyTo, SamePeer
<1> QED
  BY <1>2, <1>4, <1>5 DEF DownOk, e

LEMMA ThenRequests ==
    ASSUME NEW p \in Peer, NEW d, PeerStep(d, p), NEW e, DownOk(e), SamePeers(d, e), OnlyTo(d, e, p)
    PROVE  PeerStep(e, p) /\ e.ns[p].sync = d.ns[p].sync
<1>1. OnlyTo(Down, e, p)
  BY SameTransitive DEF PeerStep
<1>2. \A q \in Peer : SamePeer(d.ns[q], e.ns[q])
  BY DEF SamePeers
<1>3. \A q \in Peer \ {p} : SamePeer(ns[q], e.ns[q])
  BY <1>2 DEF PeerStep, SamePeer
<1>4. e.ns[p].up /\ e.ns[p].common = d.ns[p].common /\ e.ns[p].sync = d.ns[p].sync
  BY <1>2 DEF PeerStep, SamePeer
<1> QED
  BY <1>1, <1>3, <1>4 DEF PeerStep

\* ProcessBlockAvailability and UpdateBlockAvailability only move the two pointers.
LEMMA AvailabilityFine ==
    ASSUME NEW s \in NodeStates, NEW idx \in SUBSET Block, NEW b \in Block
    PROVE  \A t \in {ProcessBlockAvailability(s, idx), UpdateBlockAvailability(s, b, idx)} :
              /\ t \in NodeStates /\ t.up = s.up /\ t.sync = s.sync /\ t.common = s.common
              /\ t.queue = s.queue /\ t.nInFlight = s.nInFlight /\ t.nValid = s.nValid
<1> DEFINE Same(t) == /\ t \in NodeStates /\ t.up = s.up /\ t.sync = s.sync /\ t.common = s.common
                      /\ t.queue = s.queue /\ t.nInFlight = s.nInFlight /\ t.nValid = s.nValid
<1>1. \A t \in NodeStates : \A c \in Block : Better(t, c) \in MaybeBlock
  BY DEF Better, NodeStates, MaybeBlock
<1>2. NoBlock \in MaybeBlock /\ b \in MaybeBlock
  BY DEF MaybeBlock
<1> HIDE DEF Same
<1>3. Same(ProcessBlockAvailability(s, idx))
  <2>1. CASE s.unknown # NoBlock /\ s.unknown \in idx
    <3> DEFINE x == Better(s, s.unknown)
               t == [s EXCEPT !.best = x, !.unknown = NoBlock]
    <3>1. x \in MaybeBlock
      BY <2>1, <1>1
    <3>2. ProcessBlockAvailability(s, idx) = t
      BY <2>1 DEF ProcessBlockAvailability
    <3> HIDE DEF x
    <3>3. Same(t)
      BY <3>1, <1>2 DEF NodeStates, Same
    <3> QED
      BY <3>2, <3>3
  <2>2. CASE ~(s.unknown # NoBlock /\ s.unknown \in idx)
    BY <2>2 DEF ProcessBlockAvailability, Same
  <2> QED
    BY <2>1, <2>2
<1>4. Same(UpdateBlockAvailability(s, b, idx))
  <2> DEFINE t == ProcessBlockAvailability(s, idx)
             x == Better(t, b)
             u == [t EXCEPT !.best = x]
             v == [t EXCEPT !.unknown = b]
  <2>1. UpdateBlockAvailability(s, b, idx) = IF b \in idx THEN u ELSE v
    BY DEF UpdateBlockAvailability
  <2>2. t \in NodeStates
    BY <1>3 DEF Same
  <2>3. x \in MaybeBlock
    BY <2>2, <1>1
  <2> HIDE DEF t, x
  <2>4. Same(u) /\ Same(v)
    BY <2>2, <2>3, <1>2, <1>3 DEF Same, NodeStates, t
  <2> HIDE DEF u, v
  <2> QED
    BY <2>1, <2>4
<1> QED
  BY <1>3, <1>4 DEF Same

\* SendMessages gives the peer up, or asks it for blocks and may start the timer of another.
LEMMA SentFine ==
    ASSUME DownloadInv, NEW p \in Peer, ns[p].up
    PROVE  /\ PeerStep(Sent(p), p)
           /\ Sent(p).ns[p].sync = (ns[p].sync \/ StartsSync(p))
<1> DEFINE sy == ns[p].sync \/ StartsSync(p)
           synced == [ns[p] EXCEPT !.sync = sy]
           closed == [synced EXCEPT !.closing = TRUE]
           fresh == ProcessBlockAvailability(synced, index)
           count == MAX_BLOCKS_IN_TRANSIT_PER_PEER - fresh.nInFlight
           found == FindNextBlocksToDownload(fresh, p, count)
           moved == [fresh EXCEPT !.common = found.common]
           d == [Down EXCEPT !.ns[p] = moved]
           e == Requested(d, p, found.blocks)
           stalls == /\ e.ns[p].nInFlight = 0 /\ found.staller # NoPeer
                     /\ e.ns[found.staller].stalling = "off"
           g == [e EXCEPT !.ns[found.staller].stalling = "on"]
           Same(t) == /\ t \in NodeStates /\ t.up /\ t.sync = sy
                      /\ t.queue = ns[p].queue /\ t.nInFlight = ns[p].nInFlight
                      /\ t.nValid = ns[p].nValid
<1>1. /\ ns \in [Peer -> NodeStates] /\ inFlight \in [Block -> MaybePeer] /\ ChainOk
      /\ ns[p] \in NodeStates /\ index \in SUBSET Block
      /\ ns[p].common # NoBlock => Linked(ns[p].common)
  BY DEF DownloadInv, DownOk, Downs, Down, ChainOk, CommonBlockLinked
<1>2. Sent(p) = IF GivenUp(p) THEN [Down EXCEPT !.ns[p] = closed]
                ELSE IF ~(Fetches(p) \/ ~ibd) \/ count = 0 THEN [Down EXCEPT !.ns[p] = synced]
                ELSE IF stalls THEN g ELSE e
  BY DEF Sent
<1>3. sy \in BOOLEAN
  OBVIOUS
<1> HIDE DEF sy
<1>4. Same(synced) /\ synced.common = ns[p].common
  BY <1>1, <1>3 DEF NodeStates
<1> HIDE DEF synced
<1>5. Same(closed) /\ closed.common = ns[p].common
  BY <1>1, <1>4 DEF NodeStates
<1> HIDE DEF closed
<1>6. CASE GivenUp(p)
  <2>1. Sent(p) = [Down EXCEPT !.ns[p] = closed]
    BY <1>2, <1>6, Zenon
  <2> QED
    BY <2>1, <1>1, <1>5, OneStep DEF sy
<1>7. CASE ~GivenUp(p) /\ (~(Fetches(p) \/ ~ibd) \/ count = 0)
  <2>1. Sent(p) = [Down EXCEPT !.ns[p] = synced]
    BY <1>2, <1>7
  <2> QED
    BY <2>1, <1>1, <1>4, OneStep DEF sy
<1>8. CASE ~GivenUp(p) /\ ~(~(Fetches(p) \/ ~ibd) \/ count = 0)
  <2>1. Sent(p) = IF stalls THEN g ELSE e
    BY <1>2, <1>8
  <2>2. Same(fresh) /\ fresh.common = ns[p].common
    BY <1>1, <1>4, AvailabilityFine, TreeAssumption
  <2> HIDE DEF fresh
  <2>3. /\ found.blocks \in Seq(Block) /\ found.common \in MaybeBlock /\ found.staller \in MaybePeer
        /\ found.common # NoBlock => Linked(found.common)
    BY <1>1, <2>2, FoundFine
  <2> HIDE DEF found, count
  <2>4. Same(moved) /\ moved.common = found.common
    BY <2>2, <2>3 DEF NodeStates
  <2> HIDE DEF moved
  <2>5. PeerStep(d, p) /\ d.ns[p] = moved
    BY <2>3, <2>4, OneStep
  <2> HIDE DEF d
  <2>6. DownOk(e) /\ SamePeers(d, e) /\ OnlyTo(d, e, p)
    <3>1. DownOk(d) /\ d.ns[p].up
      BY <2>5 DEF PeerStep
    <3> QED
      BY <3>1, <2>3, RequestedOk
  <2> HIDE DEF e
  <2>7. PeerStep(e, p) /\ e.ns[p].sync = sy
    BY <2>4, <2>5, <2>6, ThenRequests
  <2>8. CASE ~stalls
    BY <2>1, <2>7, <2>8 DEF sy
  <2>9. CASE stalls
    <3> DEFINE st == found.staller
               s == [e.ns[st] EXCEPT !.stalling = "on"]
    <3>1. st \in Peer
      BY <2>3, <2>9 DEF MaybePeer
    <3>2. /\ e \in Downs /\ e.ns \in [Peer -> NodeStates] /\ e.ns[st] \in NodeStates
          /\ DownOk(e)
      BY <2>6, <3>1 DEF DownOk, Downs
    <3> HIDE DEF st
    <3>3. /\ s \in NodeStates /\ s.queue = e.ns[st].queue /\ s.nInFlight = e.ns[st].nInFlight
          /\ s.nValid = e.ns[st].nValid /\ s.up = e.ns[st].up /\ SamePeer(e.ns[st], s)
      BY <3>2 DEF NodeStates, SamePeer
    <3>4. g = [e EXCEPT !.ns[st] = s]
      BY <3>1, <3>2 DEF st
    <3> HIDE DEF s, g
    <3>5. DownOk(g)
      BY <3>1, <3>2, <3>3, <3>4, OtherFields
    <3>6. /\ g.inFlight = e.inFlight /\ g.ns[st] = s
          /\ \A q \in Peer \ {st} : g.ns[q] = e.ns[q]
      BY <3>1, <3>2, <3>4 DEF Downs
    <3>7. SamePeers(e, g)
      BY <3>3, <3>6 DEF SamePeers, SamePeer
    <3>8. OnlyTo(e, g, p)
      BY <3>6 DEF OnlyTo
    <3>9. PeerStep(g, p) /\ g.ns[p].sync = e.ns[p].sync
      BY <2>7, <3>5, <3>7, <3>8, ThenRequests
    <3>10. Sent(p) = g
      BY <2>1, <2>9
    <3> QED
      BY <3>9, <3>10, <2>7 DEF sy
  <2> QED
    BY <2>8, <2>9
<1> QED
  BY <1>6, <1>7, <1>8

LEMMA SetsFinite ==
    /\ IsFiniteSet({q \in Peer : ns[q].sync})
    /\ Cardinality({q \in Peer : ns[q].sync}) \in Nat
    /\ IsFiniteSet({q \in Preferred : ns[q].up})
    /\ Cardinality({q \in Preferred : ns[q].up}) \in Nat
<1>1. {q \in Peer : ns[q].sync} \in SUBSET Peer /\ {q \in Preferred : ns[q].up} \in SUBSET Peer
  BY DownloadAssumption
<1> QED
  BY <1>1, FS_Subset, FS_CardinalityType, DownloadAssumption

LEMMA SendMessagesKeeps ==
    ASSUME DownloadInv, NEW p \in Peer, SendMessages(p)
    PROVE  DownloadInv'
<1> DEFINE e == Sent(p)
           A == {q \in Peer : ns[q].sync}
<1>1. /\ ns[p].up /\ SetDown(e) /\ UNCHANGED <<chainVars, nPreferredDownload>>
      /\ nSyncStarted' = nSyncStarted + (IF StartsSync(p) THEN 1 ELSE 0)
      /\ askedBlocks' = [askedBlocks EXCEPT ![p] = @ \cup NewRequests(e, p)]
      /\ askedHeaders' = IF StartsSync(p)
                         THEN [askedHeaders EXCEPT ![p] = IF BestHeader = Genesis THEN Genesis
                                                          ELSE pprev[BestHeader]]
                         ELSE askedHeaders
  BY DEF SendMessages
<1>2. UNCHANGED <<index, haveData, tip>>
  BY <1>1 DEF chainVars
<1>3. PeerStep(e, p) /\ e.ns[p].sync = (ns[p].sync \/ StartsSync(p))
  BY <1>1, SentFine
<1> HIDE DEF e
<1>4. /\ DownOk(Down)' /\ DownPeers' /\ NoStrayRequest' /\ CommonBlockLinked'
      /\ askedBlocks' \in [Peer -> SUBSET Block]
      /\ {q \in Preferred : ns[q].up}' = {q \in Preferred : ns[q].up}
      /\ {q \in Peer : ns[q].sync}' = IF e.ns[p].sync THEN A \cup {p} ELSE A \ {p}
  BY <1>1, <1>2, <1>3, PeerStepKeeps
<1>5. CountsExact'
  <2>1. IsFiniteSet(A) /\ Cardinality(A) \in Nat /\ nSyncStarted = Cardinality(A)
        /\ nPreferredDownload = Cardinality({q \in Preferred : ns[q].up})
    BY SetsFinite DEF DownloadInv, CountsExact
  <2>2. p \in A <=> ns[p].sync
    OBVIOUS
  <2>3. StartsSync(p) => ~ns[p].sync
    BY DEF StartsSync
  <2> HIDE DEF A
  <2>4. Cardinality(A \cup {p}) = IF p \in A THEN Cardinality(A) ELSE Cardinality(A) + 1
    BY <2>1, FS_AddElement
  <2>5. ~ns[p].sync => A \ {p} = A
    BY <2>2
  <2>6. Cardinality({q \in Peer : ns[q].sync}') = nSyncStarted'
    <3> DEFINE B == {q \in Peer : ns[q].sync}'
    <3>4. B = IF ns[p].sync \/ StartsSync(p) THEN A \cup {p} ELSE A \ {p}
      BY <1>3, <1>4
    <3> HIDE DEF B
    <3>5. nSyncStarted' = nSyncStarted + (IF StartsSync(p) THEN 1 ELSE 0)
      BY <1>1
    <3>1. CASE ns[p].sync
      <4>1. B = A \cup {p} /\ p \in A /\ ~StartsSync(p)
        BY <3>1, <3>4, <2>2, <2>3
      <4>2. (IF StartsSync(p) THEN 1 ELSE 0) = 0
        BY <4>1
      <4>3. nSyncStarted' = nSyncStarted + 0
        BY <4>2, <3>5
      <4>4. Cardinality(B) = Cardinality(A)
        BY <4>1, <2>4
      <4> QED
        BY <4>3, <4>4, <2>1 DEF B
    <3>2. CASE ~ns[p].sync /\ StartsSync(p)
      <4>1. B = A \cup {p} /\ p \notin A /\ StartsSync(p)
        BY <3>2, <3>4, <2>2
      <4> QED
        BY <4>1, <3>5, <2>1, <2>4 DEF B
    <3>3. CASE ~ns[p].sync /\ ~StartsSync(p)
      <4>1. B = A /\ ~StartsSync(p)
        BY <3>3, <3>4, <2>5
      <4>2. (IF StartsSync(p) THEN 1 ELSE 0) = 0
        BY <4>1
      <4>3. nSyncStarted' = nSyncStarted + 0
        BY <4>2, <3>5
      <4>4. Cardinality(B) = Cardinality(A)
        BY <4>1
      <4> QED
        BY <4>3, <4>4, <2>1 DEF B
    <3> QED
      BY <3>1, <3>2, <3>3
  <2> QED
    BY <2>1, <2>6, <1>1, <1>4 DEF CountsExact
<1>6. ChainOk'
  BY <1>2 DEF DownloadInv, ChainOk, Linked
<1>7. askedHeaders' \in [Peer -> MaybeBlock]
  BY <1>1, BestHeaderFine, TreeAssumption DEF DownloadInv, MaybeBlock
<1> QED
  BY <1>4, <1>5, <1>6, <1>7 DEF DownloadInv

\* The set of synced peers stays, so that the counts do, in the messages of a peer.
LEMMA CountsStay ==
    ASSUME DownloadInv, NEW p \in Peer, NEW e, e.ns[p].sync = ns[p].sync,
           {q \in Preferred : ns[q].up}' = {q \in Preferred : ns[q].up},
           {q \in Peer : ns[q].sync}' =
              IF e.ns[p].sync THEN {q \in Peer : ns[q].sync} \cup {p}
              ELSE {q \in Peer : ns[q].sync} \ {p},
           UNCHANGED <<nSyncStarted, nPreferredDownload>>
    PROVE  CountsExact'
<1> DEFINE A == {q \in Peer : ns[q].sync}
<1>1. {q \in Peer : ns[q].sync}' = IF ns[p].sync THEN A \cup {p} ELSE A \ {p}
  OBVIOUS
<1>2. IF ns[p].sync THEN A \cup {p} = A ELSE A \ {p} = A
  OBVIOUS
<1>3. {q \in Peer : ns[q].sync}' = A
  BY <1>1, <1>2
<1> QED
  BY <1>3 DEF DownloadInv, CountsExact

LEMMA InvKeeps ==
    ASSUME DownloadInv, NEW p \in Peer, Inv(p)
    PROVE  DownloadInv'
<1> DEFINE b == PeerTip[p]
           s == UpdateBlockAvailability(ns[p], b, index)
           d == [Down EXCEPT !.ns[p] = s]
           e == Announced(p, b)
<1>1. /\ ns[p].up /\ SetDown(e)
      /\ askedBlocks' = [askedBlocks EXCEPT ![p] = @ \cup NewRequests(e, p)]
      /\ askedHeaders' = (IF New(b) THEN [askedHeaders EXCEPT ![p] = BestHeader] ELSE askedHeaders)
      /\ UNCHANGED <<chainVars, nSyncStarted, nPreferredDownload>>
  BY DEF Inv
<1>2. UNCHANGED <<index, haveData, tip>>
  BY <1>1 DEF chainVars
<1>3. /\ ns[p] \in NodeStates /\ ChainOk /\ index \in SUBSET Block /\ b \in Block
      /\ ns[p].common # NoBlock => Linked(ns[p].common)
  BY DownloadAssumption DEF DownloadInv, DownOk, Downs, Down, ChainOk, CommonBlockLinked
<1>4. e = IF New(b) /\ CanDirectFetch /\ ns[p].nInFlight < MAX_BLOCKS_IN_TRANSIT_PER_PEER
          THEN MarkBlockAsInFlight(d, p, b, FALSE) ELSE d
  BY DEF Announced
<1>5. /\ s \in NodeStates /\ s.up = ns[p].up /\ s.sync = ns[p].sync /\ s.common = ns[p].common
      /\ s.queue = ns[p].queue /\ s.nInFlight = ns[p].nInFlight /\ s.nValid = ns[p].nValid
  BY <1>3, AvailabilityFine
<1> HIDE DEF s
<1>6. PeerStep(d, p) /\ d.ns[p] = s
  BY <1>1, <1>3, <1>5, OneStep
<1> HIDE DEF d, e
<1>7. PeerStep(e, p) /\ e.ns[p].sync = ns[p].sync
  <2>1. CASE New(b) /\ CanDirectFetch /\ ns[p].nInFlight < MAX_BLOCKS_IN_TRANSIT_PER_PEER
    <3>1. e = MarkBlockAsInFlight(d, p, b, FALSE)
      BY <1>4, <2>1
    <3>2. DownOk(d) /\ d.ns[p].up /\ d.ns[p].nInFlight < MAX_BLOCKS_IN_TRANSIT_PER_PEER
      BY <1>1, <1>5, <1>6, <2>1 DEF PeerStep
    <3>3. DownOk(e) /\ SamePeers(d, e) /\ OnlyTo(d, e, p)
      BY <3>1, <3>2, <1>3, InFlight
    <3> QED
      BY <3>3, <1>5, <1>6, ThenRequests
  <2>2. CASE ~(New(b) /\ CanDirectFetch /\ ns[p].nInFlight < MAX_BLOCKS_IN_TRANSIT_PER_PEER)
    <3>1. e = d
      BY <1>4, <2>2
    <3> QED
      BY <3>1, <1>5, <1>6
  <2> QED
    BY <2>1, <2>2
<1>8. /\ DownOk(Down)' /\ DownPeers' /\ NoStrayRequest' /\ CommonBlockLinked'
      /\ askedBlocks' \in [Peer -> SUBSET Block]
      /\ {q \in Preferred : ns[q].up}' = {q \in Preferred : ns[q].up}
      /\ {q \in Peer : ns[q].sync}' = IF e.ns[p].sync THEN {q \in Peer : ns[q].sync} \cup {p}
                                      ELSE {q \in Peer : ns[q].sync} \ {p}
  BY <1>1, <1>2, <1>7, PeerStepKeeps
<1>9. CountsExact'
  BY <1>1, <1>7, <1>8, CountsStay
<1>10. ChainOk'
  BY <1>2 DEF DownloadInv, ChainOk, Linked
<1>11. askedHeaders' \in [Peer -> MaybeBlock]
  BY <1>1, <1>3, BestHeaderFine DEF DownloadInv, MaybeBlock
<1> QED
  BY <1>8, <1>9, <1>10, <1>11 DEF DownloadInv

\* The block that the answer to getheaders ends with.
LEMMA LastHeaderFine ==
    ASSUME NEW a \in Block, NEW c \in Block
    PROVE  LET fork == FindFork(a, c)
               most == nHeight[fork] + MAX_HEADERS_RESULTS
           IN  GetAncestor(c, IF nHeight[c] < most THEN nHeight[c] ELSE most) \in Block
<1> DEFINE fork == FindFork(a, c)
           most == nHeight[fork] + MAX_HEADERS_RESULTS
           h == IF nHeight[c] < most THEN nHeight[c] ELSE most
<1>1. nHeight[fork] \in Nat /\ nHeight[c] \in Nat
  BY ForkFound, TreeAssumption
<1>2. h \in 0..nHeight[c]
  <2> HIDE DEF fork
  <2> QED
    BY <1>1, DownloadAssumption
<1> QED
  BY <1>2, GetAncestorIs

LEMMA HeadersKeeps ==
    ASSUME DownloadInv, NEW p \in Peer, Headers(p)
    PROVE  DownloadInv'
<1> DEFINE c == PeerTip[p]
           fork == FindFork(askedHeaders[p], c)
           most == nHeight[fork] + MAX_HEADERS_RESULTS
           last == GetAncestor(c, IF nHeight[c] < most THEN nHeight[c] ELSE most)
           idx == index \cup Ancestors[last]
           s == UpdateBlockAvailability(ns[p], last, idx)
           d == [Down EXCEPT !.ns[p] = s]
           fetch == CanDirectFetch /\ nChainWork[tip] <= nChainWork[last]
           e == IF fetch THEN Requested(d, p, DirectFetch(last)) ELSE d
<1>1. /\ ns[p].up /\ askedHeaders[p] # NoBlock
      /\ UNCHANGED <<haveData, tip, nSyncStarted, nPreferredDownload>>
      /\ IF last = fork
         THEN /\ UNCHANGED <<index, ns, inFlight, nPeersWithValidatedDownloads, askedBlocks>>
              /\ askedHeaders' = [askedHeaders EXCEPT ![p] = NoBlock]
         ELSE /\ index' = idx
              /\ SetDown(e)
              /\ askedBlocks' = [askedBlocks EXCEPT ![p] = @ \cup NewRequests(e, p)]
              /\ askedHeaders' = [askedHeaders EXCEPT ![p] = IF nHeight[last] = most THEN last
                                                            ELSE NoBlock]
  BY DEF Headers
<1>2. /\ ns[p] \in NodeStates /\ ChainOk /\ index \in SUBSET Block /\ c \in Block
      /\ askedHeaders[p] \in Block /\ askedHeaders \in [Peer -> MaybeBlock]
      /\ ns[p].common # NoBlock => Linked(ns[p].common)
  BY <1>1, DownloadAssumption
  DEF DownloadInv, DownOk, Downs, Down, ChainOk, CommonBlockLinked, MaybeBlock
<1>3. last \in Block
  BY <1>2, LastHeaderFine
<1> HIDE DEF last, fork
<1>4. idx \in SUBSET Block /\ index \subseteq idx
  BY <1>2, <1>3, AncestorsAreBlocks
<1>5. CASE last = fork
  <2>1. /\ UNCHANGED <<index, haveData, tip, ns, inFlight, nPeersWithValidatedDownloads,
                       askedBlocks, nSyncStarted, nPreferredDownload>>
        /\ askedHeaders' = [askedHeaders EXCEPT ![p] = NoBlock]
    BY <1>1, <1>5
  <2>2. Down' = Down
    BY <2>1 DEF Down
  <2>3. DownOk(Down)'
    BY <2>2, OkPrimed DEF DownloadInv
  <2>4. ChainOk' /\ CommonBlockLinked'
    BY <2>1 DEF DownloadInv, ChainOk, CommonBlockLinked, Linked
  <2>5. DownPeers' /\ CountsExact' /\ NoStrayRequest'
    BY <2>1 DEF DownloadInv, DownPeers, CountsExact, NoStrayRequest
  <2>6. askedHeaders' \in [Peer -> MaybeBlock] /\ askedBlocks' \in [Peer -> SUBSET Block]
    BY <2>1, <1>2 DEF DownloadInv, MaybeBlock
  <2> QED
    BY <2>3, <2>4, <2>5, <2>6 DEF DownloadInv
<1>6. CASE last # fork
  <2>1. /\ index' = idx /\ SetDown(e)
        /\ askedBlocks' = [askedBlocks EXCEPT ![p] = @ \cup NewRequests(e, p)]
        /\ askedHeaders' = [askedHeaders EXCEPT ![p] = IF nHeight[last] = most THEN last ELSE NoBlock]
    BY <1>1, <1>6
  <2>2. /\ s \in NodeStates /\ s.up = ns[p].up /\ s.sync = ns[p].sync /\ s.common = ns[p].common
        /\ s.queue = ns[p].queue /\ s.nInFlight = ns[p].nInFlight /\ s.nValid = ns[p].nValid
    BY <1>2, <1>3, <1>4, AvailabilityFine
  <2> HIDE DEF s, idx
  <2>3. PeerStep(d, p) /\ d.ns[p] = s
    <3>1. s.up /\ (s.common # NoBlock => Linked(s.common))
      BY <1>1, <1>2, <2>2
    <3> QED
      BY <2>2, <3>1, OneStep
  <2> HIDE DEF d
  <2>4. PeerStep(e, p) /\ e.ns[p].sync = ns[p].sync
    <3>1. CASE fetch
      <4>1. e = Requested(d, p, DirectFetch(last))
        BY <3>1
      <4>2. DirectFetch(last) \in Seq(Block)
        BY <1>3, DirectFetchFine
      <4>3. DownOk(d) /\ d.ns[p].up
        BY <2>3 DEF PeerStep
      <4> HIDE DEF e
      <4>4. DownOk(e) /\ SamePeers(d, e) /\ OnlyTo(d, e, p)
        BY <4>1, <4>2, <4>3, RequestedOk
      <4> QED
        BY <4>4, <2>2, <2>3, ThenRequests
    <3>2. CASE ~fetch
      <4>1. e = d
        BY <3>2
      <4> HIDE DEF e
      <4> QED
        BY <4>1, <2>2, <2>3
    <3> QED
      BY <3>1, <3>2
  <2> HIDE DEF e
  <2>5. /\ DownOk(Down)' /\ DownPeers' /\ NoStrayRequest' /\ CommonBlockLinked'
        /\ askedBlocks' \in [Peer -> SUBSET Block]
        /\ {q \in Preferred : ns[q].up}' = {q \in Preferred : ns[q].up}
        /\ {q \in Peer : ns[q].sync}' = IF e.ns[p].sync THEN {q \in Peer : ns[q].sync} \cup {p}
                                        ELSE {q \in Peer : ns[q].sync} \ {p}
    BY <1>1, <2>1, <2>4, PeerStepKeeps
  <2>6. CountsExact'
    BY <1>1, <2>4, <2>5, CountsStay
  <2>7. ChainOk'
    BY <1>1, <1>4, <2>1 DEF DownloadInv, ChainOk, Linked
  <2>8. askedHeaders' \in [Peer -> MaybeBlock]
    BY <1>2, <1>3, <2>1 DEF MaybeBlock
  <2> QED
    BY <2>5, <2>6, <2>7, <2>8 DEF DownloadInv
<1> QED
  BY <1>5, <1>6

LEMMA ProcessNewBlockKeeps ==
    ASSUME DownloadInv, NEW p \in Peer, NEW b \in Block, ProcessNewBlock(p, b)
    PROVE  DownloadInv'
<1> DEFINE data == IF Kept(b, inFlight[b] # NoPeer) THEN haveData \cup {b} ELSE haveData
           r == MarkBlockAsReceived(Down, b)
<1>1. /\ SetDown(r) /\ askedBlocks' = [askedBlocks EXCEPT ![p] = @ \ {b}]
      /\ index' = (IF pprev[b] \in index THEN index \cup {b} ELSE index)
      /\ haveData' = data /\ tip' = BestLinked(data)
      /\ UNCHANGED <<nSyncStarted, nPreferredDownload, askedHeaders>>
  BY DEF ProcessNewBlock
<1>2. /\ ns \in [Peer -> NodeStates] /\ inFlight \in [Block -> MaybePeer]
      /\ DownOk(Down) /\ ChainOk /\ Down.ns = ns /\ Down.inFlight = inFlight
      /\ askedBlocks \in [Peer -> SUBSET Block]
  BY DEF DownloadInv, DownOk, Downs, Down
<1>3. data \in SUBSET Block /\ haveData \subseteq data /\ Genesis \in data
  BY <1>2 DEF ChainOk
<1> HIDE DEF data
<1>4. ChainOk'
  <2>1. tip' \in Block /\ Ancestors[tip'] \subseteq haveData'
    BY <1>1, <1>2, <1>3, BestLinkedFine DEF ChainOk, Linked
  <2> QED
    BY <2>1, <1>1, <1>2, <1>3 DEF ChainOk, Linked
<1>5. /\ DownOk(r) /\ SamePeers(Down, r) /\ r.inFlight = [inFlight EXCEPT ![b] = NoPeer]
  BY <1>2, Received
<1> HIDE DEF r
<1>6. Down' = r /\ ns' = r.ns /\ inFlight' = [inFlight EXCEPT ![b] = NoPeer]
  BY <1>1, <1>5, DownPrimed DEF DownOk
<1>7. DownOk(Down)'
  BY <1>5, <1>6, OkPrimed
<1>8. \A q \in Peer : SamePeer(ns[q], ns'[q])
  BY <1>2, <1>5, <1>6 DEF SamePeers
<1>9. DownPeers'
  BY <1>8 DEF DownloadInv, DownPeers, SamePeer
<1>10. CountsExact'
  <2>1. {q \in Peer : ns[q].sync}' = {q \in Peer : ns[q].sync}
    BY <1>8 DEF SamePeer
  <2>2. {q \in Preferred : ns[q].up}' = {q \in Preferred : ns[q].up}
    BY <1>8, DownloadAssumption DEF SamePeer
  <2> QED
    BY <2>1, <2>2, <1>1 DEF DownloadInv, CountsExact
<1>11. CommonBlockLinked'
  BY <1>1, <1>3, <1>8 DEF DownloadInv, CommonBlockLinked, Linked, SamePeer
<1>12. NoStrayRequest'
  <2> SUFFICES ASSUME NEW c \in Block, inFlight'[c] # NoPeer
               PROVE  ns'[inFlight'[c]].up /\ c \in askedBlocks'[inFlight'[c]]
    BY DEF NoStrayRequest
  <2>1. c # b /\ inFlight'[c] = inFlight[c] /\ inFlight[c] \in Peer
    BY <1>2, <1>6 DEF MaybePeer
  <2>2. ns[inFlight[c]].up /\ c \in askedBlocks[inFlight[c]]
    BY <2>1, DownloadAssumption DEF DownloadInv, NoStrayRequest
  <2>3. ns'[inFlight[c]].up
    BY <2>1, <2>2, <1>8 DEF SamePeer
  <2>4. c \in askedBlocks'[inFlight[c]]
    BY <2>1, <2>2, <1>1, <1>2
  <2> QED
    BY <2>1, <2>3, <2>4
<1>13. askedHeaders' \in [Peer -> MaybeBlock] /\ askedBlocks' \in [Peer -> SUBSET Block]
  BY <1>1, <1>2 DEF DownloadInv
<1> QED
  BY <1>4, <1>7, <1>9, <1>10, <1>11, <1>12, <1>13 DEF DownloadInv

\* A CNodeState as it is made, and as it is after it has been erased.
LEMMA EmptyState ==
    ASSUME NEW up \in BOOLEAN
    PROVE  /\ NodeState(up) \in NodeStates /\ ListExact(NodeState(up), {})
           /\ NodeState(up).up = up /\ ~NodeState(up).sync /\ NodeState(up).common = NoBlock
           /\ Counted(NodeState(up)) = 0
<1> DEFINE s == NodeState(up)
<1>1. <<>> \in Seq(QueueEntries) /\ Len(<<>>) = 0
  OBVIOUS
<1>2. s \in NodeStates
  BY <1>1 DEF NodeState, NodeStates, MaybeBlock
<1>3. /\ s.up = up /\ s.sync = FALSE /\ s.common = NoBlock /\ s.queue = <<>>
      /\ s.nInFlight = 0 /\ s.nValid = 0
  BY DEF NodeState
<1>4. 1..Len(<<>>) = {}
  BY <1>1
<1>5. Hashes(<<>>) = {} /\ Validated(<<>>) = {} /\ NoTwice(<<>>)
  BY <1>4 DEF Hashes, Validated, NoTwice
<1>6. Cardinality({}) = 0
  BY FS_EmptySet
<1> HIDE DEF s
<1>7. ListExact(s, {})
  <2>1. 0 <= MAX_BLOCKS_IN_TRANSIT_PER_PEER
    BY DownloadAssumption
  <2>2. /\ Hashes(s.queue) = {} /\ NoTwice(s.queue) /\ Len(s.queue) = 0
        /\ Cardinality(Validated(s.queue)) = 0
    BY <1>1, <1>3, <1>5, <1>6
  <2> QED
    BY <2>1, <2>2, <1>3 DEF ListExact
<1>8. Counted(s) = 0
  BY <1>3 DEF Counted
<1> QED
  BY <1>2, <1>3, <1>7, <1>8 DEF s

\* What a peer that is not connected counts for.
LEMMA DownIsEmpty ==
    ASSUME DownloadInv, NEW p \in Peer, ~ns[p].up
    PROVE  From(inFlight, p) = {} /\ Counted(ns[p]) = 0
<1>1. From(inFlight, p) = {}
  BY DownloadAssumption DEF DownloadInv, DownOk, Down, From
<1>2. ListExact(ns[p], From(inFlight, p))
  BY DEF DownloadInv, DownOk, Down
<1>3. Hashes(ns[p].queue) = {} /\ ns[p].nValid = Cardinality(Validated(ns[p].queue))
  BY <1>1, <1>2 DEF ListExact
<1>4. Validated(ns[p].queue) = {}
  BY <1>3 DEF Hashes, Validated
<1>5. ns[p].nValid = 0
  BY <1>3, <1>4, FS_EmptySet
<1> QED
  BY <1>1, <1>5 DEF Counted

\* The counts when p alone comes or goes.
LEMMA CountsOfOne ==
    ASSUME DownloadInv, NEW p \in Peer, NEW s \in NodeStates, ns' = [ns EXCEPT ![p] = s], ~s.sync,
           s.up # ns[p].up,
           nSyncStarted' = nSyncStarted - (IF ns[p].sync THEN 1 ELSE 0),
           nPreferredDownload' = nPreferredDownload
              + (IF p \in Preferred THEN (IF s.up THEN 1 ELSE -1) ELSE 0)
    PROVE  CountsExact'
<1> DEFINE A == {q \in Peer : ns[q].sync}
           B == {q \in Preferred : ns[q].up}
<1>1. ns \in [Peer -> NodeStates] /\ s.up \in BOOLEAN /\ ns[p].up \in BOOLEAN
  BY DEF DownloadInv, DownOk, Downs, Down, NodeStates
<1>2. ns'[p] = s /\ \A q \in Peer \ {p} : ns'[q] = ns[q]
  BY <1>1
<1>3. A' = A \ {p}
  BY <1>2
<1>4. B' = IF p \in Preferred /\ s.up THEN B \cup {p} ELSE B \ {p}
  BY <1>2, DownloadAssumption
<1>5. /\ IsFiniteSet(A) /\ Cardinality(A) \in Nat /\ nSyncStarted = Cardinality(A)
      /\ IsFiniteSet(B) /\ Cardinality(B) \in Nat /\ nPreferredDownload = Cardinality(B)
  BY SetsFinite DEF DownloadInv, CountsExact
<1>6. (p \in A <=> ns[p].sync) /\ (p \in B <=> p \in Preferred /\ ns[p].up)
  OBVIOUS
<1>7. (p \in B <=> p \in Preferred /\ ~s.up)
  BY <1>1, <1>6
<1> HIDE DEF A, B
<1>8. /\ Cardinality(A \ {p}) = IF p \in A THEN Cardinality(A) - 1 ELSE Cardinality(A)
      /\ Cardinality(B \ {p}) = IF p \in B THEN Cardinality(B) - 1 ELSE Cardinality(B)
      /\ Cardinality(B \cup {p}) = IF p \in B THEN Cardinality(B) ELSE Cardinality(B) + 1
  BY <1>5, FS_AddElement, FS_RemoveElement
<1>9. nSyncStarted' = Cardinality(A')
  <2>1. CASE ns[p].sync
    BY <2>1, <1>3, <1>5, <1>6, <1>8
  <2>2. CASE ~ns[p].sync
    <3>1. (IF ns[p].sync THEN 1 ELSE 0) = 0 /\ p \notin A
      BY <2>2, <1>6
    <3> QED
      BY <3>1, <1>3, <1>5, <1>8
  <2> QED
    BY <2>1, <2>2
<1>10. nPreferredDownload' = Cardinality(B')
  <2>1. CASE p \notin Preferred
    <3>1. p \notin B /\ B' = B \ {p}
      BY <2>1, <1>4, <1>6
    <3> QED
      BY <2>1, <3>1, <1>5, <1>8
  <2>2. CASE p \in Preferred /\ s.up
    <3>1. p \notin B /\ B' = B \cup {p} /\ (IF s.up THEN 1 ELSE -1) = 1
      BY <2>2, <1>4, <1>7
    <3> QED
      BY <2>2, <3>1, <1>5, <1>8
  <2>3. CASE p \in Preferred /\ ~s.up
    <3>1. p \in B /\ B' = B \ {p} /\ (IF s.up THEN 1 ELSE -1) = -1
      BY <2>3, <1>4, <1>7
    <3> QED
      BY <2>3, <3>1, <1>5, <1>8
  <2> QED
    BY <2>1, <2>2, <2>3
<1> QED
  BY <1>9, <1>10 DEF CountsExact, A, B

LEMMA InitializeNodeKeeps ==
    ASSUME DownloadInv, NEW p \in Peer, InitializeNode(p)
    PROVE  DownloadInv'
<1> DEFINE s == NodeState(TRUE)
<1>1. /\ ~ns[p].up /\ ns' = [ns EXCEPT ![p] = s]
      /\ nPreferredDownload' = nPreferredDownload + (IF p \in Preferred THEN 1 ELSE 0)
      /\ UNCHANGED <<index, haveData, tip, inFlight, nSyncStarted, nPeersWithValidatedDownloads,
                     askedHeaders, askedBlocks>>
  BY DEF InitializeNode, chainVars, netVars
<1>2. /\ ns \in [Peer -> NodeStates] /\ inFlight \in [Block -> MaybePeer] /\ DownOk(Down)
      /\ Down.ns = ns /\ Down.inFlight = inFlight /\ Down.nValidated = nPeersWithValidatedDownloads
      /\ nPeersWithValidatedDownloads \in Int
  BY DEF DownloadInv, DownOk, Downs, Down
<1>3. /\ s \in NodeStates /\ ListExact(s, {}) /\ s.up /\ ~s.sync /\ s.common = NoBlock
      /\ Counted(s) = 0
  BY EmptyState
<1> HIDE DEF s
<1>4. From(inFlight, p) = {} /\ Counted(ns[p]) = 0 /\ ~ns[p].sync
  BY <1>1, DownIsEmpty DEF DownloadInv, DownPeers
<1>5. DownOk(Down)'
  <2> DEFINE f == inFlight
             n == nPeersWithValidatedDownloads
  <2>1. /\ f \in [Block -> MaybePeer] /\ ListExact(s, From(f, p))
        /\ \A q \in Peer \ {p} : From(f, q) = From(Down.inFlight, q)
        /\ n = Down.nValidated + Counted(s) - Counted(Down.ns[p])
    BY <1>2, <1>3, <1>4
  <2>2. Down' = [ns |-> [Down.ns EXCEPT ![p] = s], inFlight |-> f, nValidated |-> n]
    BY <1>1, <1>2 DEF Down
  <2> HIDE DEF f, n
  <2>3. DownOk([ns |-> [Down.ns EXCEPT ![p] = s], inFlight |-> f, nValidated |-> n])
    BY <2>1, <1>2, <1>3, OnePeer
  <2> QED
    BY <2>2, <2>3, OkPrimed
<1>6. ns'[p] = s /\ \A q \in Peer \ {p} : ns'[q] = ns[q]
  BY <1>1, <1>2
<1>7. DownPeers'
  BY <1>3, <1>6 DEF DownloadInv, DownPeers
<1>8. CountsExact'
  <2>1. /\ nSyncStarted' = nSyncStarted - (IF ns[p].sync THEN 1 ELSE 0)
        /\ nPreferredDownload' = nPreferredDownload
              + (IF p \in Preferred THEN (IF s.up THEN 1 ELSE -1) ELSE 0)
    <3>1. (IF ns[p].sync THEN 1 ELSE 0) = 0 /\ (IF s.up THEN 1 ELSE -1) = 1
      BY <1>3, <1>4
    <3>2. nSyncStarted \in Nat
      BY SetsFinite DEF DownloadInv, CountsExact
    <3> QED
      BY <3>1, <3>2, <1>1
  <2>2. s.up # ns[p].up
    BY <1>1, <1>3
  <2> QED
    BY <2>1, <2>2, <1>1, <1>3, CountsOfOne
<1>9. ChainOk'
  BY <1>1 DEF DownloadInv, ChainOk, Linked
<1>10. NoStrayRequest'
  <2> SUFFICES ASSUME NEW b \in Block, inFlight[b] # NoPeer
               PROVE  ns'[inFlight[b]].up /\ b \in askedBlocks[inFlight[b]]
    BY <1>1 DEF NoStrayRequest
  <2>1. inFlight[b] \in Peer /\ inFlight[b] # p
    BY <1>2, <1>4 DEF MaybePeer, From
  <2> QED
    BY <2>1, <1>6 DEF DownloadInv, NoStrayRequest
<1>11. CommonBlockLinked'
  BY <1>1, <1>3, <1>6 DEF DownloadInv, CommonBlockLinked, Linked
<1>12. askedHeaders' \in [Peer -> MaybeBlock] /\ askedBlocks' \in [Peer -> SUBSET Block]
  BY <1>1 DEF DownloadInv
<1> QED
  BY <1>5, <1>7, <1>8, <1>9, <1>10, <1>11, <1>12 DEF DownloadInv

\* Every block that was in flight from the peer is free again.
LEMMA ReleasedIs ==
    ASSUME DownloadInv, NEW p \in Peer
    PROVE  /\ Released(p) \in [Block -> MaybePeer]
           /\ \A b \in Block : Released(p)[b] = IF inFlight[b] = p THEN NoPeer ELSE inFlight[b]
<1>1. inFlight \in [Block -> MaybePeer] /\ Hashes(ns[p].queue) = From(inFlight, p)
  BY DEF DownloadInv, DownOk, Downs, Down, ListExact
<1>2. Released(p) = [b \in Block |-> IF b \in Hashes(ns[p].queue) THEN NoPeer ELSE inFlight[b]]
  BY DEF Released, Hashes
<1>3. Released(p) = [b \in Block |-> IF inFlight[b] = p THEN NoPeer ELSE inFlight[b]]
  BY <1>1, <1>2 DEF From
<1> QED
  BY <1>1, <1>3 DEF MaybePeer

LEMMA FinalizeNodeKeeps ==
    ASSUME DownloadInv, NEW p \in Peer, FinalizeNode(p)
    PROVE  DownloadInv'
<1> DEFINE s == NodeState(FALSE)
           f == Released(p)
           n == nPeersWithValidatedDownloads - (IF ns[p].nValid # 0 THEN 1 ELSE 0)
<1>1. /\ ns[p].up /\ ns' = [ns EXCEPT ![p] = s] /\ inFlight' = f
      /\ nPeersWithValidatedDownloads' = n
      /\ nSyncStarted' = nSyncStarted - (IF ns[p].sync THEN 1 ELSE 0)
      /\ nPreferredDownload' = nPreferredDownload - (IF p \in Preferred THEN 1 ELSE 0)
      /\ askedHeaders' = [askedHeaders EXCEPT ![p] = NoBlock]
      /\ askedBlocks' = [askedBlocks EXCEPT ![p] = {}]
      /\ UNCHANGED <<index, haveData, tip>>
  BY DEF FinalizeNode, chainVars
<1>2. /\ ns \in [Peer -> NodeStates] /\ inFlight \in [Block -> MaybePeer] /\ DownOk(Down)
      /\ Down.ns = ns /\ Down.inFlight = inFlight /\ Down.nValidated = nPeersWithValidatedDownloads
      /\ nPeersWithValidatedDownloads \in Int
  BY DEF DownloadInv, DownOk, Downs, Down
<1>3. /\ s \in NodeStates /\ ListExact(s, {}) /\ ~s.up /\ ~s.sync /\ s.common = NoBlock
      /\ Counted(s) = 0 /\ s.up = FALSE
  BY EmptyState
<1>4. /\ f \in [Block -> MaybePeer]
      /\ \A b \in Block : f[b] = IF inFlight[b] = p THEN NoPeer ELSE inFlight[b]
  BY ReleasedIs
<1> HIDE DEF s, f
<1>5. /\ From(f, p) = {}
      /\ \A q \in Peer \ {p} : From(f, q) = From(inFlight, q)
  BY <1>4, DownloadAssumption DEF From
<1>6. DownOk(Down)'
  <2>1. ns[p].nValid \in Nat
    BY <1>2 DEF NodeStates
  <2>2. /\ ListExact(s, From(f, p)) /\ (From(f, p) # {} => s.up)
        /\ \A q \in Peer \ {p} : From(f, q) = From(Down.inFlight, q)
        /\ n = Down.nValidated + Counted(s) - Counted(Down.ns[p])
    BY <2>1, <1>2, <1>3, <1>5 DEF Counted
  <2>3. Down' = [ns |-> [Down.ns EXCEPT ![p] = s], inFlight |-> f, nValidated |-> n]
    BY <1>1, <1>2 DEF Down
  <2> HIDE DEF n
  <2>4. DownOk([ns |-> [Down.ns EXCEPT ![p] = s], inFlight |-> f, nValidated |-> n])
    BY <2>2, <1>2, <1>3, <1>4, OnePeer
  <2> QED
    BY <2>3, <2>4, OkPrimed
<1>7. ns'[p] = s /\ \A q \in Peer \ {p} : ns'[q] = ns[q]
  BY <1>1, <1>2
<1>8. DownPeers'
  BY <1>3, <1>7 DEF DownloadInv, DownPeers
<1>9. CountsExact'
  <2>1. nPreferredDownload' = nPreferredDownload
              + (IF p \in Preferred THEN (IF s.up THEN 1 ELSE -1) ELSE 0)
    <3>1. (IF s.up THEN 1 ELSE -1) = -1
      BY <1>3
    <3>2. nPreferredDownload \in Nat
      BY SetsFinite DEF DownloadInv, CountsExact
    <3> QED
      BY <3>1, <3>2, <1>1
  <2>2. s.up # ns[p].up
    BY <1>1, <1>3
  <2> QED
    BY <2>1, <2>2, <1>1, <1>3, CountsOfOne
<1>10. ChainOk'
  BY <1>1 DEF DownloadInv, ChainOk, Linked
<1>11. NoStrayRequest'
  <2> SUFFICES ASSUME NEW b \in Block, inFlight'[b] # NoPeer
               PROVE  ns'[inFlight'[b]].up /\ b \in askedBlocks'[inFlight'[b]]
    BY DEF NoStrayRequest
  <2>1. inFlight[b] # p /\ inFlight'[b] = inFlight[b] /\ inFlight[b] \in Peer
    BY <1>1, <1>2, <1>4 DEF MaybePeer
  <2>2. ns[inFlight[b]].up /\ b \in askedBlocks[inFlight[b]]
    BY <2>1, DownloadAssumption DEF DownloadInv, NoStrayRequest
  <2>3. askedBlocks \in [Peer -> SUBSET Block]
    BY DEF DownloadInv
  <2> QED
    BY <2>1, <2>2, <2>3, <1>1, <1>7
<1>12. CommonBlockLinked'
  BY <1>1, <1>3, <1>7 DEF DownloadInv, CommonBlockLinked, Linked
<1>13. askedHeaders' \in [Peer -> MaybeBlock] /\ askedBlocks' \in [Peer -> SUBSET Block]
  BY <1>1 DEF DownloadInv, MaybeBlock
<1> QED
  BY <1>6, <1>8, <1>9, <1>10, <1>11, <1>12, <1>13 DEF DownloadInv

\* The peer is marked for disconnection, or one of its timers runs out.
LEMMA MarkKeeps ==
    ASSUME DownloadInv, NEW p \in Peer, PeerLeaves(p) \/ Overdue(p)
    PROVE  DownloadInv'
<1>1. /\ ns \in [Peer -> NodeStates] /\ DownOk(Down) /\ ns[p] \in NodeStates
      /\ Down.ns = ns /\ Down.inFlight = inFlight
      /\ Down = [ns |-> ns, inFlight |-> inFlight, nValidated |-> nPeersWithValidatedDownloads]
  BY DEF DownloadInv, DownOk, Downs, Down
<1>2. /\ UNCHANGED <<index, haveData, tip, inFlight, nSyncStarted, nPreferredDownload,
                     nPeersWithValidatedDownloads, askedHeaders, askedBlocks>>
      /\ ns[p].up
      /\ \/ ns' = [ns EXCEPT ![p].closing = TRUE]
         \/ ns' = [ns EXCEPT ![p].stalling = "over"]
         \/ ns' = [ns EXCEPT ![p].download = "over"]
  BY DEF PeerLeaves, Overdue, chainVars, netVars
<1>3. PICK s \in NodeStates :
         /\ ns' = [ns EXCEPT ![p] = s]
         /\ s.up = ns[p].up /\ s.sync = ns[p].sync /\ s.common = ns[p].common
         /\ s.queue = ns[p].queue /\ s.nInFlight = ns[p].nInFlight /\ s.nValid = ns[p].nValid
  <2>1. CASE ns' = [ns EXCEPT ![p].closing = TRUE]
    <3> DEFINE s == [ns[p] EXCEPT !.closing = TRUE]
    <3>1. /\ s \in NodeStates /\ ns' = [ns EXCEPT ![p] = s]
          /\ s.up = ns[p].up /\ s.sync = ns[p].sync /\ s.common = ns[p].common
          /\ s.queue = ns[p].queue /\ s.nInFlight = ns[p].nInFlight /\ s.nValid = ns[p].nValid
      BY <2>1, <1>1 DEF NodeStates
    <3> HIDE DEF s
    <3> QED
      BY <3>1
  <2>2. CASE ns' = [ns EXCEPT ![p].stalling = "over"]
    <3> DEFINE s == [ns[p] EXCEPT !.stalling = "over"]
    <3>1. /\ s \in NodeStates /\ ns' = [ns EXCEPT ![p] = s]
          /\ s.up = ns[p].up /\ s.sync = ns[p].sync /\ s.common = ns[p].common
          /\ s.queue = ns[p].queue /\ s.nInFlight = ns[p].nInFlight /\ s.nValid = ns[p].nValid
      BY <2>2, <1>1 DEF NodeStates
    <3> HIDE DEF s
    <3> QED
      BY <3>1
  <2>3. CASE ns' = [ns EXCEPT ![p].download = "over"]
    <3> DEFINE s == [ns[p] EXCEPT !.download = "over"]
    <3>1. /\ s \in NodeStates /\ ns' = [ns EXCEPT ![p] = s]
          /\ s.up = ns[p].up /\ s.sync = ns[p].sync /\ s.common = ns[p].common
          /\ s.queue = ns[p].queue /\ s.nInFlight = ns[p].nInFlight /\ s.nValid = ns[p].nValid
      BY <2>3, <1>1 DEF NodeStates
    <3> HIDE DEF s
    <3> QED
      BY <3>1
  <2> QED
    BY <2>1, <2>2, <2>3, <1>2
<1>4. DownOk(Down)'
  <2>1. DownOk([Down EXCEPT !.ns[p] = s])
    BY <1>1, <1>3, OtherFields
  <2>2. Down' = [Down EXCEPT !.ns[p] = s]
    BY <1>1, <1>2, <1>3 DEF Down
  <2> QED
    BY <2>1, <2>2, OkPrimed
<1>5. \A q \in Peer : /\ ns'[q].up = ns[q].up /\ ns'[q].sync = ns[q].sync
                      /\ ns'[q].common = ns[q].common
  BY <1>1, <1>3
<1>6. DownPeers' /\ CommonBlockLinked' /\ ChainOk'
  BY <1>2, <1>5 DEF DownloadInv, DownPeers, CommonBlockLinked, ChainOk, Linked
<1>7. CountsExact'
  <2>1. /\ {q \in Peer : ns[q].sync}' = {q \in Peer : ns[q].sync}
        /\ {q \in Preferred : ns[q].up}' = {q \in Preferred : ns[q].up}
    BY <1>5, DownloadAssumption
  <2> QED
    BY <2>1, <1>2 DEF DownloadInv, CountsExact
<1>8. NoStrayRequest'
  <2>1. inFlight \in [Block -> MaybePeer]
    BY DEF DownloadInv, DownOk, Downs, Down
  <2> QED
    BY <2>1, <1>2, <1>5 DEF DownloadInv, NoStrayRequest, MaybePeer
<1>9. askedHeaders' \in [Peer -> MaybeBlock] /\ askedBlocks' \in [Peer -> SUBSET Block]
  BY <1>2 DEF DownloadInv
<1> QED
  BY <1>4, <1>6, <1>7, <1>8, <1>9 DEF DownloadInv

LEMMA DownloadInit == Init => DownloadInv
<1> SUFFICES ASSUME Init PROVE DownloadInv
  OBVIOUS
<1> DEFINE s == NodeState(FALSE)
<1>1. /\ index = {Genesis} /\ haveData = {Genesis} /\ tip = Genesis
      /\ ns = [p \in Peer |-> s] /\ inFlight = [b \in Block |-> NoPeer]
      /\ nSyncStarted = 0 /\ nPreferredDownload = 0 /\ nPeersWithValidatedDownloads = 0
      /\ askedHeaders = [p \in Peer |-> NoBlock] /\ askedBlocks = [p \in Peer |-> {}]
  BY DEF Init
<1>2. /\ s \in NodeStates /\ ListExact(s, {}) /\ s.up = FALSE /\ ~s.sync /\ s.common = NoBlock
      /\ Counted(s) = 0
  BY EmptyState
<1> HIDE DEF s
<1>3. ~(s.nValid > 0)
  BY <1>2 DEF Counted
<1>4. /\ {q \in Peer : ns[q].sync} = {} /\ {q \in Preferred : ns[q].up} = {}
      /\ Downloading(ns) = {}
  BY <1>1, <1>2, <1>3, DownloadAssumption DEF Downloading
<1>5. Cardinality({}) = 0
  BY FS_EmptySet
<1>6. DownOk(Down)
  <2>1. Down.ns = ns /\ Down.inFlight = inFlight /\ Down.nValidated = 0 /\ Down \in Downs
    BY <1>1, <1>2 DEF Down, Downs, MaybePeer
  <2>2. \A p \in Peer : ns[p] = s /\ From(inFlight, p) = {}
    BY <1>1, DownloadAssumption DEF From
  <2> QED
    BY <2>1, <2>2, <1>1, <1>2, <1>4, <1>5 DEF DownOk
<1>7. DownPeers /\ CommonBlockLinked
  BY <1>1, <1>2 DEF DownPeers, CommonBlockLinked
<1>8. CountsExact
  BY <1>1, <1>4, <1>5 DEF CountsExact
<1>9. ChainOk
  BY <1>1, TreeAssumption DEF ChainOk, Linked
<1>10. NoStrayRequest
  BY <1>1 DEF NoStrayRequest
<1>11. askedHeaders \in [Peer -> MaybeBlock] /\ askedBlocks \in [Peer -> SUBSET Block]
  BY <1>1 DEF MaybeBlock
<1> QED
  BY <1>6, <1>7, <1>8, <1>9, <1>10, <1>11 DEF DownloadInv

LEMMA DownloadStutter ==
    ASSUME DownloadInv, UNCHANGED vars
    PROVE  DownloadInv'
<1>1. UNCHANGED <<index, haveData, tip, ns, inFlight, nSyncStarted, nPreferredDownload,
                  nPeersWithValidatedDownloads, askedHeaders, askedBlocks>>
  BY DEF vars, chainVars, nodeVars, netVars
<1>2. Down' = Down
  BY <1>1 DEF Down
<1>3. DownOk(Down)'
  BY <1>2, OkPrimed DEF DownloadInv
<1> QED
  BY <1>1, <1>3
  DEF DownloadInv, DownPeers, CountsExact, ChainOk, NoStrayRequest, CommonBlockLinked, Linked

LEMMA DownloadNext == DownloadInv /\ [Next]_vars => DownloadInv'
<1> SUFFICES ASSUME DownloadInv, [Next]_vars PROVE DownloadInv'
  OBVIOUS
<1>1. CASE UNCHANGED vars
  BY <1>1, DownloadStutter
<1>2. ASSUME NEW p \in Peer, InitializeNode(p) PROVE DownloadInv'
  BY <1>2, InitializeNodeKeeps
<1>3. ASSUME NEW p \in Peer, PeerLeaves(p) \/ Overdue(p) PROVE DownloadInv'
  BY <1>3, MarkKeeps
<1>4. ASSUME NEW p \in Peer, FinalizeNode(p) PROVE DownloadInv'
  BY <1>4, FinalizeNodeKeeps
<1>5. ASSUME NEW p \in Peer, SendMessages(p) PROVE DownloadInv'
  BY <1>5, SendMessagesKeeps
<1>6. ASSUME NEW p \in Peer, Inv(p) PROVE DownloadInv'
  BY <1>6, InvKeeps
<1>7. ASSUME NEW p \in Peer, Headers(p) PROVE DownloadInv'
  BY <1>7, HeadersKeeps
<1>8. ASSUME NEW p \in Peer, Answer(p) PROVE DownloadInv'
  <2>1. askedBlocks[p] \subseteq Block
    BY DEF DownloadInv
  <2> QED
    BY <1>8, <2>1, ProcessNewBlockKeeps DEF Answer
<1>9. ASSUME NEW p \in Peer, Unsolicited(p) PROVE DownloadInv'
  BY <1>9, ProcessNewBlockKeeps DEF Unsolicited
<1> QED
  BY <1>1, <1>2, <1>3, <1>4, <1>5, <1>6, <1>7, <1>8, <1>9 DEF Next

\* The indices of the validated entries are as many as their blocks.
LEMMA ValidatedCounted ==
    ASSUME NEW q \in Seq(QueueEntries), NoTwice(q)
    PROVE  Cardinality({i \in 1..Len(q) : q[i].valid}) = Cardinality(Validated(q))
<1> DEFINE I == {i \in 1..Len(q) : q[i].valid}
           T == Validated(q)
           F == [i \in I |-> q[i].hash]
<1>1. \A i \in 1..Len(q) : q[i].hash \in Block
  <2>1. \A i \in 1..Len(q) : q[i] \in QueueEntries
    OBVIOUS
  <2> QED
    BY <2>1 DEF QueueEntries
<1>2. IsFiniteSet(I)
  <2>1. IsFiniteSet(1..Len(q)) /\ I \in SUBSET (1..Len(q))
    BY FS_Interval
  <2> HIDE DEF I
  <2> QED
    BY <2>1, FS_Subset
<1>3. F \in [I -> T]
  BY <1>1 DEF Validated
<1>4. F \in Bijection(I, T)
  <2>1. \A i, j \in I : F[i] = F[j] => i = j
    BY DEF NoTwice
  <2>2. \A t \in T : \E i \in I : F[i] = t
    BY DEF Validated
  <2> HIDE DEF F, I, T
  <2>3. F \in Injection(I, T)
    BY <1>3, <2>1 DEF Injection, IsInjective
  <2>4. F \in Surjection(I, T)
    BY <1>3, <2>2 DEF Surjection
  <2> QED
    BY <2>3, <2>4 DEF Bijection
<1> HIDE DEF F, I, T
<1>5. ExistsBijection(I, T)
  BY <1>4 DEF ExistsBijection
<1> QED
  BY <1>2, <1>5, FS_Bijection DEF I, T

\* Whatever peers answer late, twice or never, and whenever they come and go: the
\* map, the lists and all five counters stay in step, a block is awaited only from a
\* connected peer that was asked for it, and the last common blocks are linked.
THEOREM DownloadInvariant == Spec => []DownloadInv
BY DownloadInit, DownloadNext, PTL DEF Spec

\* mapBlocksInFlight and the lists say the same, nBlocksInFlight and its validated part
\* count them within MAX_BLOCKS_IN_TRANSIT_PER_PEER, and the three global counters count
\* the peers: what FinalizeNode asserts once the last peer has gone.
THEOREM InFlightAlwaysExact == Spec => []InFlightExact
<1>1. ASSUME DownloadInv PROVE InFlightExact
  <2>1. /\ ns \in [Peer -> NodeStates] /\ inFlight \in [Block -> MaybePeer]
        /\ \A p \in Peer : ListExact(ns[p], From(inFlight, p))
        /\ nPeersWithValidatedDownloads = Cardinality(Downloading(ns))
    BY <1>1 DEF DownloadInv, DownOk, Downs, Down
  <2>2. ASSUME NEW p \in Peer, NEW b \in Block
        PROVE  Cardinality(InQueue(p, b)) = (IF inFlight[b] = p THEN 1 ELSE 0)
    <3>1. NoTwice(ns[p].queue) /\ Hashes(ns[p].queue) = From(inFlight, p)
      BY <2>1 DEF ListExact
    <3>2. CASE inFlight[b] = p
      <4>1. PICK i \in 1..Len(ns[p].queue) : ns[p].queue[i].hash = b
        BY <3>1, <3>2 DEF Hashes, From
      <4>2. InQueue(p, b) = {i}
        BY <4>1, <3>1 DEF InQueue, NoTwice
      <4> QED
        BY <4>2, <3>2, FS_Singleton
    <3>3. CASE inFlight[b] # p
      <4>1. InQueue(p, b) = {}
        BY <3>1, <3>3 DEF InQueue, Hashes, From
      <4> QED
        BY <4>1, <3>3, FS_EmptySet
    <3> QED
      BY <3>2, <3>3
  <2>3. ASSUME NEW p \in Peer
        PROVE  /\ ns[p].nInFlight = Len(ns[p].queue)
               /\ ns[p].nValid = Cardinality({i \in 1..Len(ns[p].queue) : ns[p].queue[i].valid})
               /\ ns[p].nInFlight <= MAX_BLOCKS_IN_TRANSIT_PER_PEER
    <3>1. ns[p].queue \in Seq(QueueEntries) /\ ListExact(ns[p], From(inFlight, p))
      BY <2>1 DEF NodeStates
    <3> QED
      BY <3>1, ValidatedCounted DEF ListExact
  <2>4. /\ nPeersWithValidatedDownloads = Cardinality({p \in Peer : ns[p].nValid > 0})
        /\ nSyncStarted = Cardinality({p \in Peer : ns[p].sync})
        /\ nPreferredDownload = Cardinality({p \in Preferred : ns[p].up})
    BY <1>1, <2>1 DEF DownloadInv, CountsExact, Downloading
  <2> QED
    BY <2>2, <2>3, <2>4 DEF InFlightExact
<1> QED
  BY <1>1, DownloadInvariant, PTL

\* A block is awaited only from a peer that is connected and has been asked for it, so
\* that it comes, or a timeout gives it to another peer.
THEOREM NeverStrayRequest == Spec => []NoStrayRequest
<1>1. DownloadInv => NoStrayRequest
  BY DEF DownloadInv
<1> QED
  BY <1>1, DownloadInvariant, PTL

\* FindNextBlocksToDownload never moves pindexLastCommonBlock over a block that is
\* missing, though blocks arrive out of order and the active chain moves meanwhile.
THEOREM CommonBlockAlwaysLinked == Spec => []CommonBlockLinked
<1>1. DownloadInv => CommonBlockLinked
  BY DEF DownloadInv
<1> QED
  BY <1>1, DownloadInvariant, PTL

-----------------------------------------------------------------------------
(* The address manager.                                                     *)

Info == [addr : Service, source : Source, nRefCount : Nat, fInTried : BOOLEAN, nRandomPos : Nat]

\* The maps from ids to entries, and from addresses to ids.
InfoMaps == UNION {[D -> Info] : D \in SUBSET Id}
AddrMaps == UNION {[D -> Id] : D \in SUBSET {NetAddr[a] : a \in Service}}

\* The managers no assertion of which has failed.
Managers ==
    [mapInfo : InfoMaps, mapAddr : AddrMaps, vRandom : Seq(Id),
     vvNew : [NewSlot -> Id \cup {NoId}], vvTried : [TriedSlot -> Id \cup {NoId}],
     nNew : Int, nTried : Int, ok : {TRUE}]

Untried(m) == {n \in DOMAIN m.mapInfo : ~m.mapInfo[n].fInTried}
SlotsWith(m, n) == {s \in NewSlot : m.vvNew[s] = n}

\* mapInfo and mapAddr are inverse to each other.
MapsOk(m) ==
    /\ \A n \in DOMAIN m.mapInfo : /\ NetAddr[m.mapInfo[n].addr] \in DOMAIN m.mapAddr
                                   /\ m.mapAddr[NetAddr[m.mapInfo[n].addr]] = n
    /\ \A x \in DOMAIN m.mapAddr : /\ m.mapAddr[x] \in DOMAIN m.mapInfo
                                   /\ NetAddr[m.mapInfo[m.mapAddr[x]].addr] = x

\* vRandom lists every entry once, at its nRandomPos.
RandomOk(m) ==
    /\ \A n \in DOMAIN m.mapInfo : /\ m.mapInfo[n].nRandomPos \in 1..Len(m.vRandom)
                                   /\ m.vRandom[m.mapInfo[n].nRandomPos] = n
    /\ \A i \in 1..Len(m.vRandom) : /\ m.vRandom[i] \in DOMAIN m.mapInfo
                                    /\ m.mapInfo[m.vRandom[i]].nRandomPos = i

\* nRefCount counts the slots of an entry, each a possible one.
NewOk(m) ==
    /\ \A n \in DOMAIN m.mapInfo : /\ m.mapInfo[n].nRefCount = Cardinality(SlotsWith(m, n))
                                   /\ m.mapInfo[n].nRefCount <= ADDRMAN_NEW_BUCKETS_PER_ADDRESS
                                   /\ m.mapInfo[n].fInTried => m.mapInfo[n].nRefCount = 0
    /\ \A s \in NewSlot : m.vvNew[s] # NoId =>
          /\ m.vvNew[s] \in DOMAIN m.mapInfo
          /\ s \in NewSlotsOf[m.mapInfo[m.vvNew[s]].addr]

\* The tried entries are those with a slot of the tried table, which is their own.
TriedOk(m) ==
    /\ \A n \in DOMAIN m.mapInfo : m.mapInfo[n].fInTried => m.vvTried[TriedSlotOf[m.mapInfo[n].addr]] = n
    /\ \A s \in TriedSlot : m.vvTried[s] # NoId =>
          /\ m.vvTried[s] \in DOMAIN m.mapInfo /\ m.mapInfo[m.vvTried[s]].fInTried
          /\ TriedSlotOf[m.mapInfo[m.vvTried[s]].addr] = s

\* nNew lacks k of the entries that are not tried: those that MakeTried is moving.
CountsOk(m, k) ==
    /\ m.nNew + k = Cardinality(Untried(m)) /\ m.nTried = Cardinality(InTried(m))
    /\ Len(m.vRandom) = m.nNew + k + m.nTried

AmOk(m, k) == m \in Managers /\ MapsOk(m) /\ RandomOk(m) /\ NewOk(m) /\ TriedOk(m) /\ CountsOk(m, k)

\* Entries without a slot in either table.
Loose(m) == {n \in Untried(m) : m.mapInfo[n].nRefCount = 0}

-----------------------------------------------------------------------------
(* Types.                                                                   *)

LEMMA InfoMapIs ==
    ASSUME NEW f
    PROVE  f \in InfoMaps <=> /\ f = [x \in DOMAIN f |-> f[x]] /\ DOMAIN f \subseteq Id
                              /\ \A x \in DOMAIN f : f[x] \in Info
<1>1. ASSUME f \in InfoMaps
      PROVE  f = [x \in DOMAIN f |-> f[x]] /\ DOMAIN f \subseteq Id /\ \A x \in DOMAIN f : f[x] \in Info
  <2>1. PICK D \in SUBSET Id : f \in [D -> Info]
    BY <1>1 DEF InfoMaps
  <2> QED
    BY <2>1
<1>2. ASSUME f = [x \in DOMAIN f |-> f[x]], DOMAIN f \subseteq Id, \A x \in DOMAIN f : f[x] \in Info
      PROVE  f \in InfoMaps
  <2>1. f \in [DOMAIN f -> Info]
    BY <1>2
  <2> QED
    BY <1>2, <2>1 DEF InfoMaps
<1> QED
  BY <1>1, <1>2

LEMMA AddrMapIs ==
    ASSUME NEW f
    PROVE  f \in AddrMaps <=> /\ f = [x \in DOMAIN f |-> f[x]]
                              /\ DOMAIN f \subseteq {NetAddr[a] : a \in Service}
                              /\ \A x \in DOMAIN f : f[x] \in Id
<1> DEFINE A == {NetAddr[a] : a \in Service}
<1> HIDE DEF A
<1>1. ASSUME f \in AddrMaps
      PROVE  f = [x \in DOMAIN f |-> f[x]] /\ DOMAIN f \subseteq A /\ \A x \in DOMAIN f : f[x] \in Id
  <2>1. PICK D \in SUBSET A : f \in [D -> Id]
    BY <1>1 DEF AddrMaps, A
  <2> QED
    BY <2>1
<1>2. ASSUME f = [x \in DOMAIN f |-> f[x]], DOMAIN f \subseteq A, \A x \in DOMAIN f : f[x] \in Id
      PROVE  f \in AddrMaps
  <2>1. f \in [DOMAIN f -> Id]
    BY <1>2
  <2> QED
    BY <1>2, <2>1 DEF AddrMaps, A
<1> QED
  BY <1>1, <1>2 DEF A

LEMMA LimitIs ==
    ADDRMAN_NEW_BUCKETS_PER_ADDRESS \in Nat /\ ADDRMAN_NEW_BUCKETS_PER_ADDRESS > 0
<1>1. ADDRMAN_NEW_BUCKETS_PER_ADDRESS \in Nat \ {0}
  BY AddrAssumption, Zenon
<1> QED
  BY <1>1

LEMMA IdIs ==
    /\ Cardinality(Service) \in Nat /\ Id \subseteq Nat /\ NoId \notin Id /\ NoId = 0
    /\ IsFiniteSet(Id) /\ Cardinality(Id) = Cardinality(Service) + 1
<1>1. Cardinality(Service) \in Nat
  BY AddrAssumption, FS_CardinalityType
<1>2. IsFiniteSet(1..(Cardinality(Service) + 1))
      /\ Cardinality(1..(Cardinality(Service) + 1)) = Cardinality(Service) + 1
  BY <1>1, FS_Interval
<1> QED
  BY <1>1, <1>2 DEF Id, NoId

\* A manager of other entries.
LEMMA ManagerWith ==
    ASSUME NEW m \in Managers, NEW f \in InfoMaps
    PROVE  /\ [m EXCEPT !.mapInfo = f] \in Managers
           /\ m.mapInfo \in InfoMaps /\ m.mapAddr \in AddrMaps /\ m.vRandom \in Seq(Id)
           /\ m.vvNew \in [NewSlot -> Id \cup {NoId}] /\ m.vvTried \in [TriedSlot -> Id \cup {NoId}]
           /\ m.nNew \in Int /\ m.nTried \in Int /\ m.ok
BY DEF Managers

LEMMA EntryIs ==
    ASSUME NEW m \in Managers, NEW n \in DOMAIN m.mapInfo
    PROVE  /\ n \in Id /\ n # NoId
           /\ m.mapInfo[n] \in Info
           /\ m.mapInfo[n].addr \in Service /\ m.mapInfo[n].source \in Source
           /\ m.mapInfo[n].nRefCount \in Nat /\ m.mapInfo[n].fInTried \in BOOLEAN
           /\ m.mapInfo[n].nRandomPos \in Nat
<1>1. m.mapInfo \in InfoMaps
  BY DEF Managers
<1>2. n \in Id /\ m.mapInfo[n] \in Info
  BY <1>1, InfoMapIs
<1> QED
  BY <1>2, IdIs DEF Info


\* An entry with one field changed.
LEMMA InfoWith ==
    ASSUME NEW x \in Info, NEW v \in Nat, NEW b \in BOOLEAN
    PROVE  /\ [x EXCEPT !.nRandomPos = v] \in Info /\ [x EXCEPT !.nRefCount = v] \in Info
           /\ [x EXCEPT !.fInTried = b] \in Info
BY DEF Info

\* Entry n becomes e.
LEMMA InfoMapWith ==
    ASSUME NEW f \in InfoMaps, NEW n \in DOMAIN f, NEW e \in Info
    PROVE  /\ [f EXCEPT ![n] = e] \in InfoMaps /\ DOMAIN [f EXCEPT ![n] = e] = DOMAIN f
           /\ \A i \in DOMAIN f : [f EXCEPT ![n] = e][i] = IF i = n THEN e ELSE f[i]
           /\ \A i \in DOMAIN f : f[i] \in Info
<1> DEFINE g == [f EXCEPT ![n] = e]
<1>1. DOMAIN f \subseteq Id /\ \A i \in DOMAIN f : f[i] \in Info
  BY InfoMapIs
<1>2. DOMAIN g = DOMAIN f /\ g = [i \in DOMAIN g |-> g[i]]
      /\ \A i \in DOMAIN f : g[i] = IF i = n THEN e ELSE f[i]
  BY InfoMapIs
<1> HIDE DEF g
<1>3. g \in InfoMaps
  BY <1>1, <1>2, InfoMapIs
<1> QED
  BY <1>1, <1>2, <1>3 DEF g

-----------------------------------------------------------------------------
(* What does not matter to a part of the invariant.                         *)

\* The same entries, with the same addresses.
SameMaps(m, r) ==
    /\ DOMAIN r.mapInfo = DOMAIN m.mapInfo /\ r.mapAddr = m.mapAddr
    /\ \A n \in DOMAIN m.mapInfo : /\ r.mapInfo[n].addr = m.mapInfo[n].addr
                                   /\ r.mapInfo[n].source = m.mapInfo[n].source

SameRandom(m, r) ==
    /\ DOMAIN r.mapInfo = DOMAIN m.mapInfo /\ r.vRandom = m.vRandom
    /\ \A n \in DOMAIN m.mapInfo : r.mapInfo[n].nRandomPos = m.mapInfo[n].nRandomPos

SameNew(m, r) ==
    /\ DOMAIN r.mapInfo = DOMAIN m.mapInfo /\ r.vvNew = m.vvNew
    /\ \A n \in DOMAIN m.mapInfo : r.mapInfo[n].nRefCount = m.mapInfo[n].nRefCount

SameTried(m, r) ==
    /\ DOMAIN r.mapInfo = DOMAIN m.mapInfo /\ r.vvTried = m.vvTried
    /\ \A n \in DOMAIN m.mapInfo : r.mapInfo[n].fInTried = m.mapInfo[n].fInTried

LEMMA SameMapsOk ==
    ASSUME NEW m, NEW r, MapsOk(m), SameMaps(m, r)
    PROVE  MapsOk(r)
BY DEF MapsOk, SameMaps

LEMMA SameRandomOk ==
    ASSUME NEW m, NEW r, RandomOk(m), SameRandom(m, r)
    PROVE  RandomOk(r)
BY DEF RandomOk, SameRandom

LEMMA SameNewOk ==
    ASSUME NEW m, NEW r, NewOk(m), SameMaps(m, r), SameNew(m, r), SameTried(m, r)
    PROVE  NewOk(r) /\ Loose(r) = Loose(m)
<1>1. \A n \in DOMAIN m.mapInfo : SlotsWith(r, n) = SlotsWith(m, n)
  BY DEF SlotsWith, SameNew
<1>2. NewOk(r)
  BY <1>1 DEF NewOk, SameMaps, SameNew, SameTried
<1> QED
  BY <1>2 DEF Loose, Untried, SameNew, SameTried

LEMMA SameTriedOk ==
    ASSUME NEW m, NEW r, TriedOk(m), SameMaps(m, r), SameTried(m, r)
    PROVE  TriedOk(r)
BY DEF TriedOk, SameMaps, SameTried

LEMMA SameCountsOk ==
    ASSUME NEW m, NEW r, NEW k, CountsOk(m, k), SameTried(m, r),
           r.nNew = m.nNew, r.nTried = m.nTried, Len(r.vRandom) = Len(m.vRandom)
    PROVE  CountsOk(r, k)
<1>1. Untried(r) = Untried(m) /\ InTried(r) = InTried(m)
  BY DEF Untried, InTried, SameTried
<1> QED
  BY <1>1 DEF CountsOk

-----------------------------------------------------------------------------
(* SwapRandom.                                                              *)

LEMMA SwapIs ==
    ASSUME NEW m \in Managers, RandomOk(m), NEW i \in 1..Len(m.vRandom), NEW j \in 1..Len(m.vRandom), i # j
    PROVE  LET r == SwapRandom(m, i, j)
           IN  /\ r \in Managers /\ SameMaps(m, r) /\ SameNew(m, r) /\ SameTried(m, r)
               /\ r.nNew = m.nNew /\ r.nTried = m.nTried
               /\ Len(r.vRandom) = Len(m.vRandom)
               /\ \A k \in 1..Len(m.vRandom) :
                     r.vRandom[k] = m.vRandom[IF k = i THEN j ELSE IF k = j THEN i ELSE k]
               /\ \A n \in DOMAIN m.mapInfo :
                     r.mapInfo[n].nRandomPos = IF n = m.vRandom[i] THEN j
                                               ELSE IF n = m.vRandom[j] THEN i
                                               ELSE m.mapInfo[n].nRandomPos
<1> DEFINE x == m.vRandom[i]
           y == m.vRandom[j]
           f == [m.mapInfo EXCEPT ![x].nRandomPos = j]
           g == [f EXCEPT ![y].nRandomPos = i]
           v == [k \in 1..Len(m.vRandom) |-> m.vRandom[IF k = i THEN j ELSE IF k = j THEN i ELSE k]]
           r == [m EXCEPT !.mapInfo = g, !.vRandom = v]
<1>1. SwapRandom(m, i, j) = r
  BY Zenon DEF SwapRandom
<1>2. m.mapInfo \in InfoMaps /\ m.vRandom \in Seq(Id)
  BY DEF Managers
<1>3. x \in DOMAIN m.mapInfo /\ y \in DOMAIN m.mapInfo /\ x # y
  BY DEF RandomOk
<1>4. i \in Nat /\ j \in Nat
  OBVIOUS
<1>5. DOMAIN f = DOMAIN m.mapInfo /\ f \in InfoMaps
      /\ \A n \in DOMAIN m.mapInfo : f[n] = IF n = x THEN [m.mapInfo[n] EXCEPT !.nRandomPos = j] ELSE m.mapInfo[n]
  <2>1. m.mapInfo[x] \in Info
    BY <1>2, <1>3, InfoMapIs
  <2>2. [m.mapInfo[x] EXCEPT !.nRandomPos = j] \in Info
    BY <2>1, <1>4, InfoWith
  <2> HIDE DEF x
  <2> QED
    BY <2>2, <1>2, <1>3, InfoMapWith
<1>6. DOMAIN g = DOMAIN m.mapInfo /\ g \in InfoMaps
      /\ \A n \in DOMAIN m.mapInfo : g[n] = IF n = y THEN [f[n] EXCEPT !.nRandomPos = i] ELSE f[n]
  <2> HIDE DEF y, f
  <2>1. f[y] \in Info
    BY <1>3, <1>5, InfoMapIs
  <2> DEFINE e == [f[y] EXCEPT !.nRandomPos = i]
  <2>2. e \in Info
    BY <2>1, <1>4, InfoWith
  <2>3. g = [f EXCEPT ![y] = e]
    OBVIOUS
  <2> HIDE DEF e, g
  <2>4. g \in InfoMaps /\ DOMAIN g = DOMAIN f /\ \A n \in DOMAIN f : g[n] = IF n = y THEN e ELSE f[n]
    BY <2>2, <2>3, <1>3, <1>5, InfoMapWith
  <2> QED
    BY <2>4, <1>5 DEF e
<1>7. \A n \in DOMAIN m.mapInfo :
         /\ m.mapInfo[n] \in Info
         /\ g[n] = IF n = x THEN [m.mapInfo[n] EXCEPT !.nRandomPos = j]
                   ELSE IF n = y THEN [m.mapInfo[n] EXCEPT !.nRandomPos = i] ELSE m.mapInfo[n]
  <2> HIDE DEF x, y, f, g
  <2> QED
    BY <1>2, <1>3, <1>5, <1>6, InfoMapIs
<1>8. v \in Seq(Id) /\ Len(v) = Len(m.vRandom)
  BY <1>2
<1> HIDE DEF g, v, x, y
<1>9. r \in Managers /\ r.mapInfo = g /\ r.vRandom = v /\ r.mapAddr = m.mapAddr /\ r.vvNew = m.vvNew
      /\ r.vvTried = m.vvTried /\ r.nNew = m.nNew /\ r.nTried = m.nTried
  BY <1>6, <1>8 DEF Managers
<1> HIDE DEF r
<1>10. \A n \in DOMAIN m.mapInfo :
          /\ g[n].addr = m.mapInfo[n].addr /\ g[n].source = m.mapInfo[n].source
          /\ g[n].nRefCount = m.mapInfo[n].nRefCount /\ g[n].fInTried = m.mapInfo[n].fInTried
          /\ g[n].nRandomPos = IF n = x THEN j ELSE IF n = y THEN i ELSE m.mapInfo[n].nRandomPos
  BY <1>3, <1>7 DEF Info
<1>11. SameMaps(m, r) /\ SameNew(m, r) /\ SameTried(m, r)
  BY <1>6, <1>9, <1>10 DEF SameMaps, SameNew, SameTried
<1>12. \A k \in 1..Len(m.vRandom) : v[k] = m.vRandom[IF k = i THEN j ELSE IF k = j THEN i ELSE k]
  BY DEF v
<1> QED
  BY <1>1, <1>8, <1>9, <1>10, <1>11, <1>12 DEF x, y

\* SwapRandom changes the order of vRandom only.
LEMMA SwapOk ==
    ASSUME NEW m, NEW k, AmOk(m, k), NEW i \in 1..Len(m.vRandom), NEW j \in 1..Len(m.vRandom)
    PROVE  LET r == SwapRandom(m, i, j)
           IN  /\ AmOk(r, k) /\ SameMaps(m, r) /\ SameNew(m, r) /\ SameTried(m, r)
               /\ r.nNew = m.nNew /\ r.nTried = m.nTried /\ Loose(r) = Loose(m)
               /\ Len(r.vRandom) = Len(m.vRandom) /\ r.vRandom[j] = m.vRandom[i]
<1>1. CASE i = j
  <2>1. SwapRandom(m, i, j) = m
    BY <1>1 DEF SwapRandom
  <2> QED
    BY <1>1, <2>1 DEF SameMaps, SameNew, SameTried
<1>2. CASE i # j
  <2> DEFINE r == SwapRandom(m, i, j)
  <2>0. m \in Managers /\ MapsOk(m) /\ RandomOk(m) /\ NewOk(m) /\ TriedOk(m) /\ CountsOk(m, k)
    BY DEF AmOk
  <2>1. /\ r \in Managers /\ SameMaps(m, r) /\ SameNew(m, r) /\ SameTried(m, r)
        /\ r.nNew = m.nNew /\ r.nTried = m.nTried /\ Len(r.vRandom) = Len(m.vRandom)
        /\ \A l \in 1..Len(m.vRandom) :
              r.vRandom[l] = m.vRandom[IF l = i THEN j ELSE IF l = j THEN i ELSE l]
        /\ \A n \in DOMAIN m.mapInfo :
              r.mapInfo[n].nRandomPos = IF n = m.vRandom[i] THEN j
                                        ELSE IF n = m.vRandom[j] THEN i
                                        ELSE m.mapInfo[n].nRandomPos
    BY <1>2, <2>0, SwapIs
  <2> HIDE DEF r
  <2>2. MapsOk(r) /\ NewOk(r) /\ TriedOk(r) /\ CountsOk(r, k) /\ Loose(r) = Loose(m)
    BY <2>0, <2>1, SameMapsOk, SameNewOk, SameTriedOk, SameCountsOk
  <2>3. RandomOk(r)
    <3>1. DOMAIN r.mapInfo = DOMAIN m.mapInfo
      BY <2>1 DEF SameMaps
    <3>2. ASSUME NEW n \in DOMAIN m.mapInfo
          PROVE  r.mapInfo[n].nRandomPos \in 1..Len(m.vRandom) /\ r.vRandom[r.mapInfo[n].nRandomPos] = n
      <4>1. m.mapInfo[n].nRandomPos \in 1..Len(m.vRandom) /\ m.vRandom[m.mapInfo[n].nRandomPos] = n
            /\ m.mapInfo[m.vRandom[i]].nRandomPos = i /\ m.mapInfo[m.vRandom[j]].nRandomPos = j
        BY <2>0 DEF RandomOk
      <4>2. CASE n = m.vRandom[i]
        BY <2>1, <4>2
      <4>3. CASE n # m.vRandom[i] /\ n = m.vRandom[j]
        BY <2>1, <4>3
      <4>4. CASE n # m.vRandom[i] /\ n # m.vRandom[j]
        <5>1. r.mapInfo[n].nRandomPos = m.mapInfo[n].nRandomPos
          BY <2>1, <4>4
        <5> QED
          BY <2>1, <4>1, <4>4, <5>1
      <4> QED
        BY <4>2, <4>3, <4>4
    <3>3. ASSUME NEW l \in 1..Len(m.vRandom)
          PROVE  r.vRandom[l] \in DOMAIN m.mapInfo /\ r.mapInfo[r.vRandom[l]].nRandomPos = l
      <4> DEFINE o == IF l = i THEN j ELSE IF l = j THEN i ELSE l
      <4>1. o \in 1..Len(m.vRandom) /\ r.vRandom[l] = m.vRandom[o]
        BY <2>1
      <4>2. /\ m.vRandom[o] \in DOMAIN m.mapInfo /\ m.mapInfo[m.vRandom[o]].nRandomPos = o
            /\ m.mapInfo[m.vRandom[i]].nRandomPos = i /\ m.mapInfo[m.vRandom[j]].nRandomPos = j
        BY <2>0, <4>1 DEF RandomOk
      <4>3. /\ m.vRandom[o] = m.vRandom[i] <=> o = i
            /\ m.vRandom[o] = m.vRandom[j] <=> o = j
        BY <4>2
      <4> QED
        BY <1>2, <2>1, <4>1, <4>2, <4>3
    <3> QED
      BY <2>1, <3>1, <3>2, <3>3 DEF RandomOk
  <2>4. r.vRandom[j] = m.vRandom[i]
    BY <2>1, <1>2
  <2> QED
    BY <2>1, <2>2, <2>3, <2>4 DEF AmOk, r
<1> QED
  BY <1>1, <1>2

-----------------------------------------------------------------------------
(* Delete and ClearNew.                                                     *)

LEMMA AssertedIs ==
    ASSUME NEW m \in Managers, NEW c, c
    PROVE  Asserted(m, c) = m
<1>1. m.ok = TRUE
  BY DEF Managers
<1>2. (m.ok /\ c) = TRUE
  BY <1>1
<1>3. [m EXCEPT !.ok = TRUE] = m
  BY <1>1 DEF Managers
<1> QED
  BY <1>2, <1>3 DEF Asserted

\* r is m without entry n.
Dropped(m, r, n) ==
    /\ DOMAIN r.mapInfo = DOMAIN m.mapInfo \ {n}
    /\ \A i \in DOMAIN m.mapInfo \ {n} :
          /\ r.mapInfo[i].addr = m.mapInfo[i].addr /\ r.mapInfo[i].source = m.mapInfo[i].source
          /\ r.mapInfo[i].nRefCount = m.mapInfo[i].nRefCount /\ r.mapInfo[i].fInTried = m.mapInfo[i].fInTried
    /\ r.vvNew = m.vvNew /\ r.vvTried = m.vvTried /\ r.nNew = m.nNew - 1 /\ r.nTried = m.nTried

LEMMA NoSlots ==
    ASSUME NEW m \in Managers, NewOk(m), NEW n \in DOMAIN m.mapInfo, m.mapInfo[n].nRefCount = 0
    PROVE  \A s \in NewSlot : m.vvNew[s] # n
<1>1. IsFiniteSet(SlotsWith(m, n))
  BY AddrAssumption, FS_Subset DEF SlotsWith
<1>2. Cardinality(SlotsWith(m, n)) = 0
  BY DEF NewOk
<1>3. SlotsWith(m, n) = {}
  BY <1>1, <1>2, FS_EmptySet
<1> QED
  BY <1>3 DEF SlotsWith

\* Delete takes the last of vRandom away once n is there.
Shrunk(m, n, x) ==
    [m EXCEPT !.vRandom = Front(@), !.mapAddr = Without(@, x), !.mapInfo = Without(@, n), !.nNew = @ - 1]

LEMMA DeletedIs ==
    ASSUME NEW m \in Managers, NEW n \in DOMAIN m.mapInfo, NEW x \in DOMAIN m.mapAddr,
           Len(m.vRandom) > 0
    PROVE  LET r == Shrunk(m, n, x)
           IN  /\ r \in Managers /\ Dropped(m, r, n)
               /\ DOMAIN r.mapAddr = DOMAIN m.mapAddr \ {x}
               /\ \A y \in DOMAIN m.mapAddr \ {x} : r.mapAddr[y] = m.mapAddr[y]
               /\ \A i \in DOMAIN m.mapInfo \ {n} : r.mapInfo[i].nRandomPos = m.mapInfo[i].nRandomPos
               /\ Len(r.vRandom) = Len(m.vRandom) - 1
               /\ \A i \in 1..(Len(m.vRandom) - 1) : r.vRandom[i] = m.vRandom[i]
<1> DEFINE v == Front(m.vRandom)
           h == Without(m.mapAddr, x)
           g == Without(m.mapInfo, n)
           r == [m EXCEPT !.vRandom = v, !.mapAddr = h, !.mapInfo = g, !.nNew = @ - 1]
<1>1. m.mapInfo \in InfoMaps /\ m.mapAddr \in AddrMaps /\ m.vRandom \in Seq(Id)
  BY DEF Managers
<1>2. v \in Seq(Id) /\ Len(v) = Len(m.vRandom) - 1 /\ \A i \in 1..(Len(m.vRandom) - 1) : v[i] = m.vRandom[i]
  <2>1. v = [i \in 1..(Len(m.vRandom) - 1) |-> m.vRandom[i]]
    BY <1>1 DEF Front
  <2> QED
    BY <1>1, <2>1
<1>3. DOMAIN h = DOMAIN m.mapAddr \ {x} /\ h \in AddrMaps /\ \A y \in DOMAIN m.mapAddr \ {x} : h[y] = m.mapAddr[y]
  <2>1. DOMAIN h = DOMAIN m.mapAddr \ {x} /\ h = [y \in DOMAIN h |-> h[y]]
        /\ \A y \in DOMAIN m.mapAddr \ {x} : h[y] = m.mapAddr[y]
    BY DEF Without
  <2> HIDE DEF h
  <2>2. DOMAIN m.mapAddr \subseteq {NetAddr[a] : a \in Service} /\ \A y \in DOMAIN m.mapAddr : m.mapAddr[y] \in Id
    BY <1>1, AddrMapIs
  <2>3. DOMAIN h \subseteq {NetAddr[a] : a \in Service} /\ \A y \in DOMAIN h : h[y] \in Id
    BY <2>1, <2>2
  <2> QED
    BY <2>1, <2>3, AddrMapIs
<1>4. DOMAIN g = DOMAIN m.mapInfo \ {n} /\ g \in InfoMaps /\ \A i \in DOMAIN m.mapInfo \ {n} : g[i] = m.mapInfo[i]
  <2>1. DOMAIN g = DOMAIN m.mapInfo \ {n} /\ g = [i \in DOMAIN g |-> g[i]]
        /\ \A i \in DOMAIN m.mapInfo \ {n} : g[i] = m.mapInfo[i]
    BY DEF Without
  <2> HIDE DEF g
  <2>2. DOMAIN m.mapInfo \subseteq Id /\ \A i \in DOMAIN m.mapInfo : m.mapInfo[i] \in Info
    BY <1>1, InfoMapIs
  <2> QED
    BY <2>1, <2>2, InfoMapIs
<1>5. Shrunk(m, n, x) = r
  BY DEF Shrunk
<1> HIDE DEF v, h, g
<1>6. r \in Managers /\ r.vRandom = v /\ r.mapAddr = h /\ r.mapInfo = g /\ r.nNew = m.nNew - 1
      /\ r.vvNew = m.vvNew /\ r.vvTried = m.vvTried /\ r.nTried = m.nTried
  <2>1. v \in Seq(Id) /\ h \in AddrMaps /\ g \in InfoMaps /\ m.nNew - 1 \in Int
    BY <1>2, <1>3, <1>4 DEF Managers
  <2>2. r.vRandom = v /\ r.mapAddr = h /\ r.mapInfo = g /\ r.nNew = m.nNew - 1
        /\ r.vvNew = m.vvNew /\ r.vvTried = m.vvTried /\ r.nTried = m.nTried
    BY DEF Managers
  <2>3. r \in Managers
    BY <2>1 DEF Managers
  <2> QED
    BY <2>2, <2>3
<1> HIDE DEF r
<1>7. Dropped(m, r, n)
  BY <1>4, <1>6 DEF Dropped
<1> QED
  BY <1>2, <1>3, <1>4, <1>5, <1>6, <1>7

\* An entry without a slot is taken out of every structure.
LEMMA DeleteOk ==
    ASSUME NEW m, NEW k \in Nat, AmOk(m, k), NEW n \in Loose(m)
    PROVE  LET r == Delete(m, n)
           IN  AmOk(r, k) /\ Dropped(m, r, n) /\ Loose(r) = Loose(m) \ {n}
<1> DEFINE x == NetAddr[m.mapInfo[n].addr]
           s == SwapRandom(m, m.mapInfo[n].nRandomPos, Len(m.vRandom))
           r == Shrunk(s, n, x)
<1>1. m \in Managers /\ MapsOk(m) /\ RandomOk(m) /\ NewOk(m) /\ TriedOk(m) /\ CountsOk(m, k)
  BY DEF AmOk
<1>2. n \in DOMAIN m.mapInfo /\ ~m.mapInfo[n].fInTried /\ m.mapInfo[n].nRefCount = 0
  BY DEF Loose, Untried
<1>3. Asserted(m, ~m.mapInfo[n].fInTried /\ m.mapInfo[n].nRefCount = 0) = m
  BY <1>1, <1>2, AssertedIs
<1>4. m.mapInfo[n].nRandomPos \in 1..Len(m.vRandom) /\ m.vRandom[m.mapInfo[n].nRandomPos] = n
      /\ Len(m.vRandom) \in 1..Len(m.vRandom) /\ Len(m.vRandom) \in Nat
  <2>1. m.mapInfo[n].nRandomPos \in 1..Len(m.vRandom) /\ m.vRandom[m.mapInfo[n].nRandomPos] = n
    BY <1>1, <1>2 DEF RandomOk
  <2>2. Len(m.vRandom) \in Nat
    BY <1>1 DEF Managers
  <2> QED
    BY <2>1, <2>2
<1>5. /\ AmOk(s, k) /\ SameMaps(m, s) /\ SameNew(m, s) /\ SameTried(m, s)
      /\ s.nNew = m.nNew /\ s.nTried = m.nTried /\ Loose(s) = Loose(m)
      /\ Len(s.vRandom) = Len(m.vRandom) /\ s.vRandom[Len(m.vRandom)] = n
  BY <1>4, SwapOk
<1>6. s \in Managers /\ MapsOk(s) /\ RandomOk(s) /\ NewOk(s) /\ TriedOk(s) /\ CountsOk(s, k)
  BY <1>5 DEF AmOk
<1>7. Delete(m, n) = r
  <2>1. s.ok
    BY <1>6 DEF Managers
  <2> QED
    BY <1>3, <2>1 DEF Delete, Shrunk
<1> HIDE DEF s
<1>8. n \in DOMAIN s.mapInfo /\ x = NetAddr[s.mapInfo[n].addr] /\ x \in DOMAIN s.mapAddr /\ Len(s.vRandom) > 0
      /\ s.mapAddr[x] = n /\ ~s.mapInfo[n].fInTried /\ s.mapInfo[n].nRefCount = 0
  BY <1>2, <1>4, <1>5, <1>6 DEF MapsOk, SameMaps, SameNew, SameTried
<1> HIDE DEF x
<1>9. /\ r \in Managers /\ Dropped(s, r, n)
      /\ DOMAIN r.mapAddr = DOMAIN s.mapAddr \ {x}
      /\ \A y \in DOMAIN s.mapAddr \ {x} : r.mapAddr[y] = s.mapAddr[y]
      /\ \A i \in DOMAIN s.mapInfo \ {n} : r.mapInfo[i].nRandomPos = s.mapInfo[i].nRandomPos
      /\ Len(r.vRandom) = Len(s.vRandom) - 1
      /\ \A i \in 1..(Len(s.vRandom) - 1) : r.vRandom[i] = s.vRandom[i]
  <2>1. s \in Managers /\ n \in DOMAIN s.mapInfo /\ x \in DOMAIN s.mapAddr /\ Len(s.vRandom) > 0
    BY <1>6, <1>8
  <2> QED
    BY <2>1, DeletedIs
<1> HIDE DEF r
<1>10. Dropped(m, r, n)
  BY <1>5, <1>9 DEF Dropped, SameMaps, SameNew, SameTried
<1>11. MapsOk(r)
  <2>1. ASSUME NEW i \in DOMAIN s.mapInfo \ {n}
        PROVE  /\ NetAddr[s.mapInfo[i].addr] \in DOMAIN s.mapAddr \ {x}
               /\ s.mapAddr[NetAddr[s.mapInfo[i].addr]] = i
    BY <1>6, <1>8 DEF MapsOk
  <2>2. ASSUME NEW y \in DOMAIN s.mapAddr \ {x}
        PROVE  s.mapAddr[y] \in DOMAIN s.mapInfo \ {n} /\ NetAddr[s.mapInfo[s.mapAddr[y]].addr] = y
    BY <1>6, <1>8 DEF MapsOk
  <2> QED
    BY <1>9, <2>1, <2>2 DEF MapsOk, Dropped
<1>12. RandomOk(r)
  <2>0. Len(s.vRandom) \in Nat
    BY <1>6 DEF Managers
  <2>1. ASSUME NEW i \in DOMAIN s.mapInfo \ {n}
        PROVE  s.mapInfo[i].nRandomPos \in 1..(Len(s.vRandom) - 1) /\ s.vRandom[s.mapInfo[i].nRandomPos] = i
    BY <1>5, <1>6, <2>0 DEF RandomOk
  <2>2. ASSUME NEW i \in 1..(Len(s.vRandom) - 1)
        PROVE  s.vRandom[i] \in DOMAIN s.mapInfo \ {n} /\ s.mapInfo[s.vRandom[i]].nRandomPos = i
    BY <1>5, <1>6, <2>0 DEF RandomOk
  <2>3. ASSUME NEW i \in DOMAIN r.mapInfo
        PROVE  r.mapInfo[i].nRandomPos \in 1..Len(r.vRandom) /\ r.vRandom[r.mapInfo[i].nRandomPos] = i
    <3>1. i \in DOMAIN s.mapInfo \ {n}
      BY <1>9 DEF Dropped
    <3> QED
      BY <1>9, <2>1, <3>1
  <2>4. ASSUME NEW i \in 1..Len(r.vRandom)
        PROVE  r.vRandom[i] \in DOMAIN r.mapInfo /\ r.mapInfo[r.vRandom[i]].nRandomPos = i
    <3>1. i \in 1..(Len(s.vRandom) - 1) /\ DOMAIN r.mapInfo = DOMAIN s.mapInfo \ {n}
      BY <1>9 DEF Dropped
    <3> QED
      BY <1>9, <2>2, <3>1
  <2> QED
    BY <2>3, <2>4 DEF RandomOk
<1>13. NewOk(r) /\ Loose(r) = Loose(s) \ {n}
  <2>1. \A t \in NewSlot : s.vvNew[t] # n
    BY <1>6, <1>8, NoSlots
  <2>2. \A i : SlotsWith(r, i) = SlotsWith(s, i)
    BY <1>9 DEF SlotsWith, Dropped
  <2>3. NewOk(r)
    BY <1>6, <1>9, <2>1, <2>2 DEF NewOk, Dropped
  <2> QED
    BY <2>3, <1>9 DEF Loose, Untried, Dropped
<1>14. TriedOk(r)
  BY <1>6, <1>8, <1>9 DEF TriedOk, Dropped
<1>15. CountsOk(r, k)
  <2>1. Untried(r) = Untried(s) \ {n} /\ InTried(r) = InTried(s) /\ n \in Untried(s)
    BY <1>8, <1>9 DEF Untried, InTried, Dropped
  <2>2. IsFiniteSet(Untried(s))
    <3>1. Untried(s) \subseteq Id
      BY <1>6, EntryIs DEF Untried
    <3> QED
      BY <3>1, IdIs, FS_Subset
  <2>3. Cardinality(Untried(r)) = Cardinality(Untried(s)) - 1 /\ Cardinality(Untried(s)) \in Nat
    BY <2>1, <2>2, FS_RemoveElement, FS_CardinalityType
  <2>4. s.nNew \in Int /\ s.nTried \in Int /\ r.nNew = s.nNew - 1 /\ r.nTried = s.nTried
        /\ Len(r.vRandom) = Len(s.vRandom) - 1 /\ Len(s.vRandom) \in Nat
    BY <1>6, <1>9 DEF Dropped, Managers
  <2>5. s.nNew + k = Cardinality(Untried(s)) /\ s.nTried = Cardinality(InTried(s))
        /\ Len(s.vRandom) = s.nNew + k + s.nTried
    BY <1>6 DEF CountsOk
  <2>6. r.nNew + k = Cardinality(Untried(r)) /\ r.nTried = Cardinality(InTried(r))
    BY <2>1, <2>3, <2>4, <2>5
  <2>7. Len(r.vRandom) = r.nNew + k + r.nTried
    BY <2>4, <2>5
  <2> QED
    BY <2>6, <2>7 DEF CountsOk
<1>16. AmOk(r, k)
  BY <1>9, <1>11, <1>12, <1>13, <1>14, <1>15 DEF AmOk
<1> QED
  BY <1>5, <1>7, <1>10, <1>13, <1>16

\* Entry n has v slots, and slot s holds o.
Recounted(m, n, v, s, o) == [m EXCEPT !.mapInfo[n].nRefCount = v, !.vvNew[s] = o]

SameButCount(m, r, n, v, s, o) ==
    /\ SameMaps(m, r) /\ SameRandom(m, r) /\ SameTried(m, r) /\ r.nNew = m.nNew /\ r.nTried = m.nTried
    /\ \A t \in NewSlot : r.vvNew[t] = IF t = s THEN o ELSE m.vvNew[t]
    /\ \A i \in DOMAIN m.mapInfo : r.mapInfo[i].nRefCount = IF i = n THEN v ELSE m.mapInfo[i].nRefCount

LEMMA RecountedIs ==
    ASSUME NEW m \in Managers, NEW n \in DOMAIN m.mapInfo, NEW v \in Nat,
           NEW s \in NewSlot, NEW o \in Id \cup {NoId}
    PROVE  /\ Recounted(m, n, v, s, o) \in Managers
           /\ SameButCount(m, Recounted(m, n, v, s, o), n, v, s, o)
<1> DEFINE e == [m.mapInfo[n] EXCEPT !.nRefCount = v]
           f == [m.mapInfo EXCEPT ![n] = e]
           w == [m.vvNew EXCEPT ![s] = o]
           r == [m EXCEPT !.mapInfo = f, !.vvNew = w]
<1>1. Recounted(m, n, v, s, o) = r
  BY DEF Recounted
<1>2. m.mapInfo \in InfoMaps /\ m.vvNew \in [NewSlot -> Id \cup {NoId}]
  BY DEF Managers
<1>3. m.mapInfo[n] \in Info
  BY EntryIs
<1>4. e \in Info /\ e.addr = m.mapInfo[n].addr /\ e.source = m.mapInfo[n].source /\ e.nRefCount = v
      /\ e.fInTried = m.mapInfo[n].fInTried /\ e.nRandomPos = m.mapInfo[n].nRandomPos
  <2>1. e \in Info
    BY <1>3, InfoWith
  <2> QED
    BY <1>3, <2>1 DEF Info
<1> HIDE DEF e
<1>5. f \in InfoMaps /\ DOMAIN f = DOMAIN m.mapInfo
      /\ \A i \in DOMAIN m.mapInfo : f[i] = IF i = n THEN e ELSE m.mapInfo[i]
  BY <1>2, <1>4, InfoMapWith
<1>6. w \in [NewSlot -> Id \cup {NoId}] /\ \A t \in NewSlot : w[t] = IF t = s THEN o ELSE m.vvNew[t]
  BY <1>2
<1> HIDE DEF f, w
<1>7. r.mapInfo = f /\ r.vvNew = w /\ r.mapAddr = m.mapAddr /\ r.vRandom = m.vRandom
      /\ r.vvTried = m.vvTried /\ r.nNew = m.nNew /\ r.nTried = m.nTried
  BY DEF Managers
<1>8. r \in Managers
  BY <1>5, <1>6 DEF Managers
<1> HIDE DEF r
<1>9. SameMaps(m, r) /\ SameRandom(m, r) /\ SameTried(m, r)
  BY <1>4, <1>5, <1>7 DEF SameMaps, SameRandom, SameTried
<1>10. \A i \in DOMAIN m.mapInfo : r.mapInfo[i].nRefCount = IF i = n THEN v ELSE m.mapInfo[i].nRefCount
  BY <1>4, <1>5, <1>7
<1> QED
  BY <1>1, <1>6, <1>7, <1>8, <1>9, <1>10 DEF SameButCount

\* What is left of the invariant to show when one slot changes.
LEMMA RecountedOk ==
    ASSUME NEW m, NEW k, AmOk(m, k), NEW n \in DOMAIN m.mapInfo, NEW v \in Nat,
           NEW s \in NewSlot, NEW o \in Id \cup {NoId},
           NewOk(Recounted(m, n, v, s, o))
    PROVE  AmOk(Recounted(m, n, v, s, o), k)
<1> DEFINE r == Recounted(m, n, v, s, o)
<1>1. m \in Managers /\ MapsOk(m) /\ RandomOk(m) /\ NewOk(m) /\ TriedOk(m) /\ CountsOk(m, k)
  BY DEF AmOk
<1>2. r \in Managers /\ SameMaps(m, r) /\ SameRandom(m, r) /\ SameTried(m, r) /\ r.nNew = m.nNew /\ r.nTried = m.nTried
  <2>1. r \in Managers /\ SameButCount(m, r, n, v, s, o)
    BY <1>1, RecountedIs
  <2> QED
    BY <2>1 DEF SameButCount
<1>3. NewOk(r)
  OBVIOUS
<1> HIDE DEF r
<1>4. Len(r.vRandom) = Len(m.vRandom)
  BY <1>2 DEF SameRandom
<1>5. MapsOk(r) /\ RandomOk(r) /\ TriedOk(r) /\ CountsOk(r, k)
  BY <1>1, <1>2, <1>4, SameMapsOk, SameRandomOk, SameTriedOk, SameCountsOk
<1>6. AmOk(r, k)
  BY <1>2, <1>3, <1>5 DEF AmOk
<1> QED
  BY <1>6 DEF r

LEMMA SlotsFinite ==
    ASSUME NEW m, NEW n
    PROVE  IsFiniteSet(SlotsWith(m, n)) /\ Cardinality(SlotsWith(m, n)) \in Nat
<1>1. IsFiniteSet(SlotsWith(m, n))
  BY AddrAssumption, FS_Subset DEF SlotsWith
<1> QED
  BY <1>1, FS_CardinalityType

\* The entry in a slot of the new table.
LEMMA HolderIs ==
    ASSUME NEW m, NEW k, AmOk(m, k), NEW s \in NewSlot, m.vvNew[s] # NoId
    PROVE  /\ m.vvNew[s] \in Untried(m) /\ m.vvNew[s] \in DOMAIN m.mapInfo
           /\ m.mapInfo[m.vvNew[s]].nRefCount > 0
           /\ s \in NewSlotsOf[m.mapInfo[m.vvNew[s]].addr]
<1> DEFINE n == m.vvNew[s]
<1>1. m \in Managers /\ NewOk(m)
  BY DEF AmOk
<1>2. n \in DOMAIN m.mapInfo /\ s \in NewSlotsOf[m.mapInfo[n].addr]
  BY <1>1 DEF NewOk
<1>3. m.mapInfo[n].nRefCount \in Nat /\ m.mapInfo[n].fInTried \in BOOLEAN
  BY <1>1, <1>2, EntryIs
<1>4. m.mapInfo[n].nRefCount # 0
  BY <1>1, <1>2, NoSlots
<1>5. ~m.mapInfo[n].fInTried
  BY <1>1, <1>2, <1>4 DEF NewOk
<1> QED
  BY <1>2, <1>3, <1>4, <1>5 DEF Untried

\* A slot of n is emptied.
LEMMA EmptiedOk ==
    ASSUME NEW m, NEW k, AmOk(m, k), NEW s \in NewSlot, m.vvNew[s] # NoId
    PROVE  LET n == m.vvNew[s]
               r == Recounted(m, n, m.mapInfo[n].nRefCount - 1, s, NoId)
           IN  AmOk(r, k) /\ Loose(r) = IF m.mapInfo[n].nRefCount = 1 THEN Loose(m) \cup {n} ELSE Loose(m)
<1> DEFINE n == m.vvNew[s]
           v == m.mapInfo[n].nRefCount - 1
           r == Recounted(m, n, v, s, NoId)
<1>1. m \in Managers /\ NewOk(m)
  BY DEF AmOk
<1>2. n \in DOMAIN m.mapInfo /\ n \in Untried(m) /\ m.mapInfo[n].nRefCount > 0
  BY HolderIs
<1>3. m.mapInfo[n].nRefCount \in Nat /\ v \in Nat /\ v < m.mapInfo[n].nRefCount
  <2>1. m.mapInfo[n].nRefCount \in Nat
    BY <1>1, <1>2, EntryIs
  <2> QED
    BY <1>2, <2>1
<1>4. /\ r \in Managers /\ SameMaps(m, r) /\ SameRandom(m, r) /\ SameTried(m, r)
      /\ \A t \in NewSlot : r.vvNew[t] = IF t = s THEN NoId ELSE m.vvNew[t]
      /\ \A i \in DOMAIN m.mapInfo : r.mapInfo[i].nRefCount = IF i = n THEN v ELSE m.mapInfo[i].nRefCount
  <2>1. NoId \in Id \cup {NoId}
    OBVIOUS
  <2> HIDE DEF n, v
  <2>2. r \in Managers /\ SameButCount(m, r, n, v, s, NoId)
    BY <1>1, <1>2, <1>3, <2>1, RecountedIs
  <2> HIDE DEF r
  <2> QED
    BY <2>2 DEF SameButCount
<1> HIDE DEF r
<1>5. m.vvNew \in [NewSlot -> Id \cup {NoId}]
  BY <1>1 DEF Managers
<1>6. SlotsWith(r, n) = SlotsWith(m, n) \ {s} /\ s \in SlotsWith(m, n)
  <2>1. n # NoId
    OBVIOUS
  <2> QED
    BY <1>4, <1>5, <2>1 DEF SlotsWith
<1>7. ASSUME NEW i \in DOMAIN m.mapInfo, i # n
      PROVE  SlotsWith(r, i) = SlotsWith(m, i)
  <2>1. i # NoId
    BY <1>1, EntryIs
  <2> QED
    BY <1>4, <1>5, <1>7, <2>1 DEF SlotsWith
<1> HIDE DEF v
<1>8. Cardinality(SlotsWith(r, n)) = v
  <2>1. Cardinality(SlotsWith(m, n)) = m.mapInfo[n].nRefCount
    BY <1>1, <1>2 DEF NewOk
  <2>2. Cardinality(SlotsWith(m, n) \ {s}) = Cardinality(SlotsWith(m, n)) - 1
    BY <1>6, SlotsFinite, FS_RemoveElement
  <2> QED
    BY <1>6, <2>1, <2>2 DEF v
<1>9. NewOk(r)
  <2>1. DOMAIN r.mapInfo = DOMAIN m.mapInfo
    BY <1>4 DEF SameMaps
  <2>2. ASSUME NEW i \in DOMAIN m.mapInfo
        PROVE  /\ r.mapInfo[i].nRefCount = Cardinality(SlotsWith(r, i))
               /\ r.mapInfo[i].nRefCount <= ADDRMAN_NEW_BUCKETS_PER_ADDRESS
               /\ r.mapInfo[i].fInTried => r.mapInfo[i].nRefCount = 0
    <3>1. /\ m.mapInfo[i].nRefCount = Cardinality(SlotsWith(m, i))
          /\ m.mapInfo[i].nRefCount <= ADDRMAN_NEW_BUCKETS_PER_ADDRESS
          /\ m.mapInfo[i].fInTried => m.mapInfo[i].nRefCount = 0
          /\ r.mapInfo[i].fInTried = m.mapInfo[i].fInTried
      BY <1>1, <1>4 DEF NewOk, SameTried
    <3>2. CASE i = n
      <4>1. ~m.mapInfo[n].fInTried
        BY <1>2 DEF Untried
      <4> QED
        <5>1. r.mapInfo[i].nRefCount = v /\ Cardinality(SlotsWith(r, i)) = v /\ ~r.mapInfo[i].fInTried
          BY <1>4, <1>8, <3>1, <3>2, <4>1
        <5>2. v <= ADDRMAN_NEW_BUCKETS_PER_ADDRESS
          <6>1. m.mapInfo[n].nRefCount <= ADDRMAN_NEW_BUCKETS_PER_ADDRESS
            BY <3>1, <3>2
          <6> HIDE DEF n
          <6> QED
            BY <1>3, <6>1, LimitIs
        <5> QED
          BY <5>1, <5>2
    <3>3. CASE i # n
      BY <1>4, <1>7, <3>1, <3>3
    <3> QED
      BY <3>2, <3>3
  <2>3. ASSUME NEW t \in NewSlot, r.vvNew[t] # NoId
        PROVE  r.vvNew[t] \in DOMAIN m.mapInfo /\ t \in NewSlotsOf[r.mapInfo[r.vvNew[t]].addr]
    <3>1. r.vvNew[t] = m.vvNew[t]
      BY <1>4, <1>5, <2>3
    <3> QED
      BY <1>1, <1>4, <2>3, <3>1 DEF NewOk, SameMaps
  <2> QED
    BY <2>1, <2>2, <2>3 DEF NewOk
<1>10. AmOk(r, k)
  BY <1>2, <1>3, <1>9, RecountedOk DEF r
<1>11. Loose(r) = IF m.mapInfo[n].nRefCount = 1 THEN Loose(m) \cup {n} ELSE Loose(m)
  <2>1. v = 0 <=> m.mapInfo[n].nRefCount = 1
    BY <1>3 DEF v
  <2>2. Untried(r) = Untried(m) /\ n \notin Loose(m)
    BY <1>2, <1>4 DEF Untried, SameTried, Loose
  <2>3. \A i \in Untried(m) : r.mapInfo[i].nRefCount = IF i = n THEN v ELSE m.mapInfo[i].nRefCount
    BY <1>4 DEF Untried
  <2> HIDE DEF n
  <2> QED
    BY <1>2, <2>1, <2>2, <2>3 DEF Loose
<1> QED
  BY <1>10, <1>11 DEF r, v

\* An empty slot is given to n.
LEMMA FilledOk ==
    ASSUME NEW m, NEW k, AmOk(m, k), NEW s \in NewSlot, m.vvNew[s] = NoId, NEW n \in Untried(m),
           m.mapInfo[n].nRefCount < ADDRMAN_NEW_BUCKETS_PER_ADDRESS, s \in NewSlotsOf[m.mapInfo[n].addr]
    PROVE  LET r == Recounted(m, n, m.mapInfo[n].nRefCount + 1, s, n)
           IN  /\ AmOk(r, k) /\ Loose(r) = Loose(m) \ {n}
               /\ SameButCount(m, r, n, m.mapInfo[n].nRefCount + 1, s, n)
<1> DEFINE v == m.mapInfo[n].nRefCount + 1
           r == Recounted(m, n, v, s, n)
<1>1. m \in Managers /\ NewOk(m)
  BY DEF AmOk
<1>2. n \in DOMAIN m.mapInfo /\ ~m.mapInfo[n].fInTried
  BY DEF Untried
<1>3. n \in Id /\ n # NoId /\ m.mapInfo[n].nRefCount \in Nat /\ v \in Nat /\ v <= ADDRMAN_NEW_BUCKETS_PER_ADDRESS
  <2>1. n \in Id /\ n # NoId /\ m.mapInfo[n].nRefCount \in Nat
    BY <1>1, <1>2, EntryIs
  <2> QED
    BY <2>1, LimitIs
<1>4. r \in Managers /\ SameButCount(m, r, n, v, s, n)
  <2>1. n \in Id \cup {NoId}
    BY <1>3
  <2> HIDE DEF v
  <2> QED
    BY <1>1, <1>2, <1>3, <2>1, RecountedIs
<1> HIDE DEF r
<1>5. m.vvNew \in [NewSlot -> Id \cup {NoId}]
  BY <1>1 DEF Managers
<1>6. /\ SameMaps(m, r) /\ SameTried(m, r)
      /\ \A t \in NewSlot : r.vvNew[t] = IF t = s THEN n ELSE m.vvNew[t]
      /\ \A i \in DOMAIN m.mapInfo : r.mapInfo[i].nRefCount = IF i = n THEN v ELSE m.mapInfo[i].nRefCount
  BY <1>4 DEF SameButCount
<1>7. SlotsWith(r, n) = SlotsWith(m, n) \cup {s} /\ s \notin SlotsWith(m, n)
  BY <1>3, <1>6 DEF SlotsWith
<1>8. ASSUME NEW i \in DOMAIN m.mapInfo, i # n
      PROVE  SlotsWith(r, i) = SlotsWith(m, i)
  <2>1. i # NoId
    BY <1>1, EntryIs
  <2> QED
    BY <1>6, <1>8, <2>1 DEF SlotsWith
<1> HIDE DEF v
<1>9. Cardinality(SlotsWith(r, n)) = v
  <2>1. Cardinality(SlotsWith(m, n)) = m.mapInfo[n].nRefCount
    BY <1>1, <1>2 DEF NewOk
  <2>2. Cardinality(SlotsWith(m, n) \cup {s}) = Cardinality(SlotsWith(m, n)) + 1
    BY <1>7, SlotsFinite, FS_AddElement
  <2> QED
    BY <1>7, <2>1, <2>2 DEF v
<1>10. NewOk(r)
  <2>1. DOMAIN r.mapInfo = DOMAIN m.mapInfo
    BY <1>6 DEF SameMaps
  <2>2. ASSUME NEW i \in DOMAIN m.mapInfo
        PROVE  /\ r.mapInfo[i].nRefCount = Cardinality(SlotsWith(r, i))
               /\ r.mapInfo[i].nRefCount <= ADDRMAN_NEW_BUCKETS_PER_ADDRESS
               /\ r.mapInfo[i].fInTried => r.mapInfo[i].nRefCount = 0
    <3>1. /\ m.mapInfo[i].nRefCount = Cardinality(SlotsWith(m, i))
          /\ m.mapInfo[i].nRefCount <= ADDRMAN_NEW_BUCKETS_PER_ADDRESS
          /\ m.mapInfo[i].fInTried => m.mapInfo[i].nRefCount = 0
          /\ r.mapInfo[i].fInTried = m.mapInfo[i].fInTried
      BY <1>1, <1>6 DEF NewOk, SameTried
    <3>2. CASE i = n
      BY <1>2, <1>3, <1>6, <1>9, <3>1, <3>2
    <3>3. CASE i # n
      BY <1>6, <1>8, <3>1, <3>3
    <3> QED
      BY <3>2, <3>3
  <2>3. ASSUME NEW t \in NewSlot, r.vvNew[t] # NoId
        PROVE  r.vvNew[t] \in DOMAIN m.mapInfo /\ t \in NewSlotsOf[r.mapInfo[r.vvNew[t]].addr]
    <3>1. CASE t = s
      BY <1>2, <1>6, <3>1 DEF SameMaps
    <3>2. CASE t # s
      <4>1. r.vvNew[t] = m.vvNew[t]
        BY <1>6, <3>2
      <4> QED
        BY <1>1, <1>6, <2>3, <4>1 DEF NewOk, SameMaps
    <3> QED
      BY <3>1, <3>2
  <2> QED
    BY <2>1, <2>2, <2>3 DEF NewOk
<1>11. AmOk(r, k)
  <2>1. n \in Id \cup {NoId}
    BY <1>3
  <2> QED
    BY <1>2, <1>3, <1>10, <2>1, RecountedOk DEF r
<1>12. Loose(r) = Loose(m) \ {n}
  <2>1. v # 0
    BY <1>3 DEF v
  <2>2. Untried(r) = Untried(m)
    BY <1>6 DEF Untried, SameTried
  <2>3. \A i \in Untried(m) : r.mapInfo[i].nRefCount = IF i = n THEN v ELSE m.mapInfo[i].nRefCount
    BY <1>6 DEF Untried
  <2> QED
    BY <2>1, <2>2, <2>3 DEF Loose
<1> QED
  BY <1>4, <1>11, <1>12 DEF r, v

\* What ClearNew leaves of the other entries.
Cleared(m, r, s) ==
    /\ \A t \in NewSlot : r.vvNew[t] = IF t = s THEN NoId ELSE m.vvNew[t]
    /\ r.vvTried = m.vvTried /\ r.nTried = m.nTried
    /\ DOMAIN r.mapInfo \subseteq DOMAIN m.mapInfo
    /\ \A i \in DOMAIN m.mapInfo : i # m.vvNew[s] => i \in DOMAIN r.mapInfo
    /\ \A i \in DOMAIN r.mapInfo :
          /\ r.mapInfo[i].addr = m.mapInfo[i].addr /\ r.mapInfo[i].source = m.mapInfo[i].source
          /\ r.mapInfo[i].fInTried = m.mapInfo[i].fInTried
          /\ i # m.vvNew[s] => r.mapInfo[i].nRefCount = m.mapInfo[i].nRefCount

\* ClearNew empties a slot, and takes an entry out that had no other.
LEMMA ClearNewOk ==
    ASSUME NEW m, NEW k \in Nat, AmOk(m, k), NEW s \in NewSlot
    PROVE  LET r == ClearNew(m, s)
           IN  AmOk(r, k) /\ Loose(r) = Loose(m) /\ Cleared(m, r, s)
<1> DEFINE n == m.vvNew[s]
           v == m.mapInfo[n].nRefCount - 1
           c == Recounted(m, n, v, s, NoId)
           r == ClearNew(m, s)
<1>1. m \in Managers
  BY DEF AmOk
<1>2. CASE n = NoId
  <2>1. r = m
    BY <1>2 DEF ClearNew
  <2>2. Cleared(m, m, s)
    BY <1>2 DEF Cleared
  <2> QED
    BY <2>1, <2>2
<1>3. CASE n # NoId
  <2>1. n \in Untried(m) /\ n \in DOMAIN m.mapInfo /\ m.mapInfo[n].nRefCount > 0
    BY <1>3, HolderIs
  <2>2. m.mapInfo[n].nRefCount \in Nat /\ v \in Nat
    <3>1. m.mapInfo[n].nRefCount \in Nat
      BY <1>1, <2>1, EntryIs
    <3> QED
      BY <2>1, <3>1
  <2>3. AmOk(c, k) /\ Loose(c) = IF m.mapInfo[n].nRefCount = 1 THEN Loose(m) \cup {n} ELSE Loose(m)
    BY <1>3, EmptiedOk
  <2>4. SameButCount(m, c, n, v, s, NoId)
    <3>1. NoId \in Id \cup {NoId}
      OBVIOUS
    <3> HIDE DEF n, v
    <3> QED
      BY <1>1, <2>1, <2>2, <3>1, RecountedIs
  <2>5. r = IF v = 0 THEN Delete(c, n) ELSE c
    <3>1. Asserted(m, m.mapInfo[n].nRefCount > 0) = m
      BY <1>1, <2>1, AssertedIs
    <3>2. c.mapInfo[n].nRefCount = v
      BY <2>1, <2>4 DEF SameButCount
    <3> DEFINE d == [Asserted(m, m.mapInfo[n].nRefCount > 0) EXCEPT !.mapInfo[n].nRefCount = @ - 1,
                                                                    !.vvNew[s] = NoId]
    <3>3. d = c
      BY <3>1 DEF Recounted
    <3>4. r = IF n = NoId THEN m ELSE IF d.mapInfo[n].nRefCount = 0 THEN Delete(d, n) ELSE d
      BY Zenon DEF ClearNew, Unreferenced
    <3> HIDE DEF c, v, d, r, n
    <3> QED
      BY <1>3, <3>2, <3>3, <3>4
  <2>6. n \notin Loose(m)
    BY <2>1 DEF Loose
  <2>7. /\ SameMaps(m, c) /\ SameTried(m, c) /\ c.nTried = m.nTried
        /\ \A t \in NewSlot : c.vvNew[t] = IF t = s THEN NoId ELSE m.vvNew[t]
        /\ \A i \in DOMAIN m.mapInfo : c.mapInfo[i].nRefCount = IF i = n THEN v ELSE m.mapInfo[i].nRefCount
    BY <2>4 DEF SameButCount
  <2> HIDE DEF r, c
  <2>8. CASE v = 0
    <3>1. m.mapInfo[n].nRefCount = 1
      BY <2>2, <2>8
    <3>2. Loose(c) = Loose(m) \cup {n} /\ n \in Loose(c)
      BY <2>3, <3>1
    <3> HIDE DEF n
    <3>3. AmOk(r, k) /\ Dropped(c, r, n) /\ Loose(r) = Loose(c) \ {n}
      BY <2>3, <2>5, <2>8, <3>2, DeleteOk
    <3>4. Loose(r) = Loose(m)
      BY <2>6, <3>2, <3>3
    <3>5. Cleared(m, r, s)
      BY <2>7, <3>3 DEF Cleared, Dropped, SameMaps, SameTried, n
    <3> QED
      BY <3>3, <3>4, <3>5 DEF r
  <2>9. CASE v # 0
    <3>1. r = c /\ Loose(c) = Loose(m)
      BY <2>2, <2>3, <2>5, <2>9
    <3>2. Cleared(m, r, s)
      BY <2>7, <3>1 DEF Cleared, SameMaps, SameTried
    <3> QED
      BY <2>3, <3>1, <3>2 DEF r
  <2> QED
    BY <2>8, <2>9
<1> QED
  BY <1>2, <1>3

-----------------------------------------------------------------------------
(* Add_.                                                                    *)

\* The tried entries of m are still there.
Keeps(m, r) ==
    \A i \in DOMAIN m.mapInfo : m.mapInfo[i].fInTried =>
        i \in DOMAIN r.mapInfo /\ r.mapInfo[i].addr = m.mapInfo[i].addr

\* Entry n gets slot s, or is dropped when that has none for it.
LEMMA EnteredOk ==
    ASSUME NEW m, AmOk(m, 0), NEW n \in Untried(m), NEW s \in NewSlot, s \in NewSlotsOf[m.mapInfo[n].addr],
           m.mapInfo[n].nRefCount < ADDRMAN_NEW_BUCKETS_PER_ADDRESS, Loose(m) \subseteq {n},
           NEW terrible
    PROVE  LET r == Entered(m, n, s, terrible)
           IN  AmOk(r, 0) /\ Loose(r) = {} /\ Keeps(m, r)
<1> DEFINE old == m.vvNew[s]
           r == Entered(m, n, s, terrible)
           c == ClearNew(m, s)
           e == Recounted(c, n, c.mapInfo[n].nRefCount + 1, s, n)
<1>1. m \in Managers /\ NewOk(m)
  BY DEF AmOk
<1>2. n \in DOMAIN m.mapInfo /\ ~m.mapInfo[n].fInTried /\ n # NoId
  <2>1. n \in DOMAIN m.mapInfo /\ ~m.mapInfo[n].fInTried
    BY DEF Untried
  <2> QED
    BY <1>1, <2>1, EntryIs
<1>3. Keeps(m, m)
  BY DEF Keeps
<1>4. CASE old = n
  <2>1. r = m
    BY <1>4 DEF Entered
  <2>2. m.mapInfo[n].nRefCount # 0
    BY <1>2, <1>4, HolderIs
  <2>3. Loose(m) = {}
    BY <2>2 DEF Loose
  <2> QED
    BY <1>3, <2>1, <2>3
<1>5. CASE old # n /\ (old = NoId \/ Overwrites(m, n, old, terrible))
  <2>1. AmOk(c, 0) /\ Loose(c) = Loose(m) /\ Cleared(m, c, s)
    BY ClearNewOk
  <2>2. r = e
    <3>1. r = [c EXCEPT !.mapInfo[n].nRefCount = @ + 1, !.vvNew[s] = n]
      BY <1>5, Zenon DEF Entered
    <3> QED
      BY <3>1 DEF Recounted
  <2> HIDE DEF c, r
  <2>3. /\ n \in DOMAIN c.mapInfo /\ c.mapInfo[n].addr = m.mapInfo[n].addr /\ ~c.mapInfo[n].fInTried
        /\ c.mapInfo[n].nRefCount = m.mapInfo[n].nRefCount /\ c.vvNew[s] = NoId
    BY <1>2, <1>5, <2>1 DEF Cleared
  <2>4. n \in Untried(c) /\ c.mapInfo[n].nRefCount < ADDRMAN_NEW_BUCKETS_PER_ADDRESS
        /\ s \in NewSlotsOf[c.mapInfo[n].addr]
    BY <2>3 DEF Untried
  <2>5. /\ AmOk(e, 0) /\ Loose(e) = Loose(c) \ {n}
        /\ SameButCount(c, e, n, c.mapInfo[n].nRefCount + 1, s, n)
    BY <2>1, <2>3, <2>4, FilledOk
  <2> HIDE DEF e
  <2>6. Loose(e) = {}
    BY <2>1, <2>5
  <2>7. Keeps(m, e)
    <3> SUFFICES ASSUME NEW i \in DOMAIN m.mapInfo, m.mapInfo[i].fInTried
                 PROVE  i \in DOMAIN e.mapInfo /\ e.mapInfo[i].addr = m.mapInfo[i].addr
      BY DEF Keeps
    <3>1. i # old
      <4>1. old = NoId \/ old \in Untried(m)
        BY HolderIs
      <4>2. i # NoId
        BY <1>1, EntryIs
      <4> QED
        BY <4>1, <4>2 DEF Untried
    <3>2. i \in DOMAIN c.mapInfo /\ c.mapInfo[i].addr = m.mapInfo[i].addr
      BY <2>1, <3>1 DEF Cleared
    <3> QED
      BY <2>5, <3>2 DEF SameButCount, SameMaps
  <2> QED
    BY <2>2, <2>5, <2>6, <2>7 DEF r
<1>6. CASE old # n /\ ~(old = NoId \/ Overwrites(m, n, old, terrible)) /\ m.mapInfo[n].nRefCount = 0
  <2>1. r = Delete(m, n)
    BY <1>6, Zenon DEF Entered
  <2>2. n \in Loose(m)
    BY <1>6 DEF Loose
  <2> HIDE DEF r
  <2>3. AmOk(r, 0) /\ Dropped(m, r, n) /\ Loose(r) = Loose(m) \ {n}
    BY <2>1, <2>2, DeleteOk
  <2>4. Keeps(m, r)
    BY <1>2, <2>3 DEF Keeps, Dropped
  <2> QED
    BY <2>3, <2>4 DEF r
<1>7. CASE old # n /\ ~(old = NoId \/ Overwrites(m, n, old, terrible)) /\ m.mapInfo[n].nRefCount # 0
  <2>1. r = m
    BY <1>7, Zenon DEF Entered
  <2>2. Loose(m) = {}
    BY <1>7 DEF Loose
  <2> QED
    BY <1>3, <2>1, <2>2
<1> QED
  BY <1>4, <1>5, <1>6, <1>7

\* There are more ids than addresses.
LEMMA NewIdIs ==
    ASSUME NEW m, NEW k, AmOk(m, k)
    PROVE  NewId(m) \in Id /\ NewId(m) \notin DOMAIN m.mapInfo
<1> DEFINE D == DOMAIN m.mapInfo
           h == [n \in D |-> m.mapInfo[n].addr]
<1>1. m \in Managers /\ MapsOk(m)
  BY DEF AmOk
<1>2. \A n \in D : n \in Id /\ m.mapInfo[n].addr \in Service
  BY <1>1, EntryIs
<1>3. h \in Injection(D, Service)
  <2>1. h \in [D -> Service]
    BY <1>2
  <2>2. \A a, b \in D : h[a] = h[b] => a = b
    BY <1>1 DEF MapsOk
  <2> QED
    BY <2>1, <2>2 DEF Injection, IsInjective
<1>4. Cardinality(D) <= Cardinality(Service)
  <2>1. IsFiniteSet(Service)
    BY AddrAssumption, Zenon
  <2> HIDE DEF h, D
  <2> QED
    BY <1>3, <2>1, FS_Injection
<1>5. D # Id
  <2> SUFFICES ASSUME D = Id PROVE FALSE
    OBVIOUS
  <2> HIDE DEF D
  <2> QED
    BY <1>4, IdIs
<1>6. Id \ D # {} /\ Id \ D \in SUBSET Nat
  <2>1. D \subseteq Id
    BY <1>2
  <2> HIDE DEF D
  <2> QED
    BY <1>5, <2>1, IdIs
<1>7. \E i \in Id \ D : \A j \in Id \ D : i <= j
  <2> HIDE DEF D
  <2> QED
    BY <1>6, LeastNatural
<1>8. NewId(m) \in Id \ D
  BY <1>7, Zenon DEF NewId
<1> QED
  BY <1>8

\* Create adds an entry without a slot.
Created(m, a, src) == [Create(m, a, src) EXCEPT !.nNew = @ + 1]

LEMMA CreatedIs ==
    ASSUME NEW m \in Managers, NEW a \in Service, NEW src \in Source,
           NewId(m) \in Id, NewId(m) \notin DOMAIN m.mapInfo
    PROVE  LET n == NewId(m)
               c == Created(m, a, src)
           IN  /\ c \in Managers
               /\ DOMAIN c.mapInfo = DOMAIN m.mapInfo \cup {n}
               /\ c.mapInfo[n] = CAddrInfo(a, src, Len(m.vRandom) + 1)
               /\ \A i \in DOMAIN m.mapInfo : c.mapInfo[i] = m.mapInfo[i]
               /\ DOMAIN c.mapAddr = DOMAIN m.mapAddr \cup {NetAddr[a]} /\ c.mapAddr[NetAddr[a]] = n
               /\ \A x \in DOMAIN m.mapAddr : x # NetAddr[a] => c.mapAddr[x] = m.mapAddr[x]
               /\ c.vRandom = Append(m.vRandom, n)
               /\ c.vvNew = m.vvNew /\ c.vvTried = m.vvTried /\ c.nNew = m.nNew + 1 /\ c.nTried = m.nTried
<1> DEFINE n == NewId(m)
           e == CAddrInfo(a, src, Len(m.vRandom) + 1)
           g == With(m.mapInfo, n, e)
           h == With(m.mapAddr, NetAddr[a], n)
           v == Append(m.vRandom, n)
           c == [m EXCEPT !.mapInfo = g, !.mapAddr = h, !.vRandom = v, !.nNew = m.nNew + 1]
<1> HIDE DEF n
<1>1. m.mapInfo \in InfoMaps /\ m.mapAddr \in AddrMaps /\ m.vRandom \in Seq(Id)
  BY DEF Managers
<1>2. Created(m, a, src) = c
  <2>1. Create(m, a, src) = [m EXCEPT !.mapInfo = g, !.mapAddr = h, !.vRandom = v]
    BY DEF Create, n
  <2>2. [m EXCEPT !.mapInfo = g, !.mapAddr = h, !.vRandom = v].nNew = m.nNew
    BY DEF Managers
  <2> HIDE DEF g, h, v
  <2> QED
    BY <2>1, <2>2 DEF Created
<1>3. e \in Info
  <2>1. Len(m.vRandom) + 1 \in Nat
    BY <1>1
  <2> QED
    BY <2>1 DEF CAddrInfo, Info
<1> HIDE DEF e
<1>4. g \in InfoMaps /\ DOMAIN g = DOMAIN m.mapInfo \cup {n} /\ g[n] = e
      /\ \A i \in DOMAIN m.mapInfo : g[i] = m.mapInfo[i]
  <2>1. DOMAIN g = DOMAIN m.mapInfo \cup {n} /\ g = [i \in DOMAIN g |-> g[i]]
        /\ \A i \in DOMAIN g : g[i] = IF i = n THEN e ELSE m.mapInfo[i]
    BY DEF With
  <2> HIDE DEF g
  <2>2. DOMAIN m.mapInfo \subseteq Id /\ \A i \in DOMAIN m.mapInfo : m.mapInfo[i] \in Info
    BY <1>1, InfoMapIs
  <2>3. n \in Id /\ n \notin DOMAIN m.mapInfo
    BY DEF n
  <2>4. DOMAIN g \subseteq Id /\ \A i \in DOMAIN g : g[i] \in Info
    BY <1>3, <2>1, <2>2, <2>3
  <2>5. g \in InfoMaps
    BY <2>1, <2>4, InfoMapIs
  <2> QED
    BY <2>1, <2>3, <2>5
<1>5. h \in AddrMaps /\ DOMAIN h = DOMAIN m.mapAddr \cup {NetAddr[a]} /\ h[NetAddr[a]] = n
      /\ \A x \in DOMAIN m.mapAddr : x # NetAddr[a] => h[x] = m.mapAddr[x]
  <2>1. DOMAIN h = DOMAIN m.mapAddr \cup {NetAddr[a]} /\ h = [x \in DOMAIN h |-> h[x]]
        /\ \A x \in DOMAIN h : h[x] = IF x = NetAddr[a] THEN n ELSE m.mapAddr[x]
    BY DEF With
  <2> HIDE DEF h
  <2>2. DOMAIN m.mapAddr \subseteq {NetAddr[b] : b \in Service} /\ \A x \in DOMAIN m.mapAddr : m.mapAddr[x] \in Id
    BY <1>1, AddrMapIs
  <2>3. n \in Id
    BY DEF n
  <2>4. DOMAIN h \subseteq {NetAddr[b] : b \in Service} /\ \A x \in DOMAIN h : h[x] \in Id
    BY <2>1, <2>2, <2>3
  <2>5. h \in AddrMaps
    BY <2>1, <2>4, AddrMapIs
  <2> QED
    BY <2>1, <2>5
<1>6. v \in Seq(Id) /\ m.nNew + 1 \in Int
  <2>1. n \in Id /\ m.nNew \in Int
    BY DEF n, Managers
  <2> QED
    BY <1>1, <2>1
<1> HIDE DEF g, h, v
<1>7. c.mapInfo = g /\ c.mapAddr = h /\ c.vRandom = v /\ c.nNew = m.nNew + 1
      /\ c.vvNew = m.vvNew /\ c.vvTried = m.vvTried /\ c.nTried = m.nTried
  BY DEF Managers
<1>8. c \in Managers
  BY <1>4, <1>5, <1>6 DEF Managers
<1> HIDE DEF c
<1> QED
  BY <1>2, <1>4, <1>5, <1>7, <1>8 DEF n, e, v

LEMMA CreatedOk ==
    ASSUME NEW m, AmOk(m, 0), NEW a \in Service, NEW src \in Source, ~Known(m, a)
    PROVE  LET n == NewId(m)
               c == Created(m, a, src)
           IN  /\ AmOk(c, 0) /\ Loose(c) = Loose(m) \cup {n} /\ Keeps(m, c)
               /\ n \in Untried(c) /\ c.mapInfo[n].addr = a /\ c.mapInfo[n].nRefCount = 0
<1> DEFINE n == NewId(m)
           c == Created(m, a, src)
           L == Len(m.vRandom)
<1>1. m \in Managers /\ MapsOk(m) /\ RandomOk(m) /\ NewOk(m) /\ TriedOk(m) /\ CountsOk(m, 0)
  BY DEF AmOk
<1>2. n \in Id /\ n \notin DOMAIN m.mapInfo /\ n # NoId
  BY NewIdIs, IdIs
<1>3. /\ c \in Managers
      /\ DOMAIN c.mapInfo = DOMAIN m.mapInfo \cup {n}
      /\ c.mapInfo[n] = CAddrInfo(a, src, L + 1)
      /\ \A i \in DOMAIN m.mapInfo : c.mapInfo[i] = m.mapInfo[i]
      /\ DOMAIN c.mapAddr = DOMAIN m.mapAddr \cup {NetAddr[a]} /\ c.mapAddr[NetAddr[a]] = n
      /\ \A x \in DOMAIN m.mapAddr : x # NetAddr[a] => c.mapAddr[x] = m.mapAddr[x]
      /\ c.vRandom = Append(m.vRandom, n)
      /\ c.vvNew = m.vvNew /\ c.vvTried = m.vvTried /\ c.nNew = m.nNew + 1 /\ c.nTried = m.nTried
  BY <1>1, <1>2, CreatedIs
<1>4. c.mapInfo[n].addr = a /\ c.mapInfo[n].nRefCount = 0 /\ c.mapInfo[n].fInTried = FALSE
      /\ c.mapInfo[n].nRandomPos = L + 1
  BY <1>3 DEF CAddrInfo
<1>5. NetAddr[a] \notin DOMAIN m.mapAddr
  BY DEF Known
<1> HIDE DEF n, c
<1>6. MapsOk(c)
  <2>1. ASSUME NEW i \in DOMAIN c.mapInfo
        PROVE  NetAddr[c.mapInfo[i].addr] \in DOMAIN c.mapAddr /\ c.mapAddr[NetAddr[c.mapInfo[i].addr]] = i
    <3>1. CASE i = n
      BY <1>3, <1>4, <3>1
    <3>2. CASE i # n
      <4>1. i \in DOMAIN m.mapInfo /\ c.mapInfo[i] = m.mapInfo[i]
        BY <1>3, <3>2
      <4>2. NetAddr[m.mapInfo[i].addr] \in DOMAIN m.mapAddr /\ m.mapAddr[NetAddr[m.mapInfo[i].addr]] = i
        BY <1>1, <4>1 DEF MapsOk
      <4> QED
        BY <1>3, <1>5, <4>1, <4>2
    <3> QED
      BY <3>1, <3>2
  <2>2. ASSUME NEW x \in DOMAIN c.mapAddr
        PROVE  c.mapAddr[x] \in DOMAIN c.mapInfo /\ NetAddr[c.mapInfo[c.mapAddr[x]].addr] = x
    <3>1. CASE x = NetAddr[a]
      BY <1>3, <1>4, <3>1
    <3>2. CASE x # NetAddr[a]
      <4>1. x \in DOMAIN m.mapAddr /\ c.mapAddr[x] = m.mapAddr[x]
        BY <1>3, <3>2
      <4>2. m.mapAddr[x] \in DOMAIN m.mapInfo /\ NetAddr[m.mapInfo[m.mapAddr[x]].addr] = x
        BY <1>1, <4>1 DEF MapsOk
      <4> QED
        BY <1>3, <4>1, <4>2
    <3> QED
      BY <3>1, <3>2
  <2> QED
    BY <2>1, <2>2 DEF MapsOk
<1>7. L \in Nat /\ Len(c.vRandom) = L + 1 /\ c.vRandom[L + 1] = n /\ \A i \in 1..L : c.vRandom[i] = m.vRandom[i]
  <2>1. m.vRandom \in Seq(Id)
    BY <1>1 DEF Managers
  <2> QED
    BY <1>2, <1>3, <2>1
<1> HIDE DEF L
<1>8. RandomOk(c)
  <2>1. ASSUME NEW i \in DOMAIN c.mapInfo
        PROVE  c.mapInfo[i].nRandomPos \in 1..(L + 1) /\ c.vRandom[c.mapInfo[i].nRandomPos] = i
    <3>1. CASE i = n
      BY <1>4, <1>7, <3>1
    <3>2. CASE i # n
      <4>1. i \in DOMAIN m.mapInfo /\ c.mapInfo[i] = m.mapInfo[i]
        BY <1>3, <3>2
      <4>2. m.mapInfo[i].nRandomPos \in 1..L /\ m.vRandom[m.mapInfo[i].nRandomPos] = i
        BY <1>1, <4>1 DEF RandomOk, L
      <4> QED
        BY <1>7, <4>1, <4>2
    <3> QED
      BY <3>1, <3>2
  <2>2. ASSUME NEW i \in 1..(L + 1)
        PROVE  c.vRandom[i] \in DOMAIN c.mapInfo /\ c.mapInfo[c.vRandom[i]].nRandomPos = i
    <3>1. CASE i = L + 1
      BY <1>3, <1>4, <1>7, <3>1
    <3>2. CASE i # L + 1
      <4>1. i \in 1..L
        BY <1>7, <3>2
      <4>2. m.vRandom[i] \in DOMAIN m.mapInfo /\ m.mapInfo[m.vRandom[i]].nRandomPos = i
        BY <1>1, <4>1 DEF RandomOk, L
      <4> QED
        BY <1>3, <1>7, <4>1, <4>2
    <3> QED
      BY <3>1, <3>2
  <2> QED
    BY <1>7, <2>1, <2>2 DEF RandomOk
<1>9. NewOk(c)
  <2>1. \A i : SlotsWith(c, i) = SlotsWith(m, i)
    BY <1>3 DEF SlotsWith
  <2>2. Cardinality(SlotsWith(c, n)) = 0
    <3>1. SlotsWith(m, n) = {}
      BY <1>1, <1>2 DEF SlotsWith, NewOk
    <3> QED
      BY <2>1, <3>1, FS_EmptySet
  <2>3. ASSUME NEW i \in DOMAIN c.mapInfo
        PROVE  /\ c.mapInfo[i].nRefCount = Cardinality(SlotsWith(c, i))
               /\ c.mapInfo[i].nRefCount <= ADDRMAN_NEW_BUCKETS_PER_ADDRESS
               /\ c.mapInfo[i].fInTried => c.mapInfo[i].nRefCount = 0
    <3>1. CASE i = n
      BY <1>4, <2>2, <3>1, LimitIs
    <3>2. CASE i # n
      <4>1. i \in DOMAIN m.mapInfo /\ c.mapInfo[i] = m.mapInfo[i]
        BY <1>3, <3>2
      <4> QED
        BY <1>1, <2>1, <4>1 DEF NewOk
    <3> QED
      BY <3>1, <3>2
  <2>4. ASSUME NEW s \in NewSlot, c.vvNew[s] # NoId
        PROVE  c.vvNew[s] \in DOMAIN c.mapInfo /\ s \in NewSlotsOf[c.mapInfo[c.vvNew[s]].addr]
    BY <1>1, <1>3, <2>4 DEF NewOk
  <2> QED
    BY <2>3, <2>4 DEF NewOk
<1>10. TriedOk(c)
  <2>1. ASSUME NEW i \in DOMAIN c.mapInfo, c.mapInfo[i].fInTried
        PROVE  c.vvTried[TriedSlotOf[c.mapInfo[i].addr]] = i
    <3>1. i # n
      BY <1>4, <2>1
    <3> QED
      BY <1>1, <1>3, <2>1, <3>1 DEF TriedOk
  <2>2. ASSUME NEW s \in TriedSlot, c.vvTried[s] # NoId
        PROVE  /\ c.vvTried[s] \in DOMAIN c.mapInfo /\ c.mapInfo[c.vvTried[s]].fInTried
               /\ TriedSlotOf[c.mapInfo[c.vvTried[s]].addr] = s
    BY <1>1, <1>3, <2>2 DEF TriedOk
  <2> QED
    BY <2>1, <2>2 DEF TriedOk
<1>11. CountsOk(c, 0) /\ Loose(c) = Loose(m) \cup {n} /\ n \in Untried(c)
  <2>1. Untried(c) = Untried(m) \cup {n} /\ InTried(c) = InTried(m) /\ n \notin Untried(m)
    <3>1. \A i \in DOMAIN c.mapInfo : i = n \/ (i \in DOMAIN m.mapInfo /\ c.mapInfo[i] = m.mapInfo[i])
      BY <1>3
    <3> QED
      BY <1>2, <1>3, <1>4, <3>1 DEF Untried, InTried
  <2>2. IsFiniteSet(Untried(m))
    <3>1. Untried(m) \subseteq Id
      BY <1>1, EntryIs DEF Untried
    <3> QED
      BY <3>1, IdIs, FS_Subset
  <2>3. Cardinality(Untried(c)) = Cardinality(Untried(m)) + 1 /\ Cardinality(Untried(m)) \in Nat
    BY <2>1, <2>2, FS_AddElement, FS_CardinalityType
  <2>4. m.nNew \in Int /\ m.nTried \in Int
    BY <1>1 DEF Managers
  <2>5. m.nNew + 0 = Cardinality(Untried(m)) /\ m.nTried = Cardinality(InTried(m)) /\ L = m.nNew + 0 + m.nTried
    BY <1>1 DEF CountsOk, L
  <2>6. CountsOk(c, 0)
    BY <1>3, <1>7, <2>1, <2>3, <2>4, <2>5 DEF CountsOk
  <2>7. \A i \in Untried(m) : c.mapInfo[i].nRefCount = m.mapInfo[i].nRefCount
    BY <1>3 DEF Untried
  <2>8. Loose(c) = Loose(m) \cup {n}
    BY <1>4, <2>1, <2>7 DEF Loose
  <2> QED
    BY <2>1, <2>6, <2>8
<1>12. Keeps(m, c)
  BY <1>3 DEF Keeps
<1>13. AmOk(c, 0)
  BY <1>3, <1>6, <1>8, <1>9, <1>10, <1>11 DEF AmOk
<1> QED
  BY <1>4, <1>11, <1>12, <1>13 DEF n, c

-----------------------------------------------------------------------------
(* MakeTried.                                                               *)

\* Entry n is in the tried table or not, slot t of that holds o, and q entries are there.
Flagged(m, n, b, t, o, q) == [m EXCEPT !.mapInfo[n].fInTried = b, !.vvTried[t] = o, !.nTried = q]

SameButTried(m, r, n, b, t, o, q) ==
    /\ SameMaps(m, r) /\ SameRandom(m, r) /\ SameNew(m, r) /\ r.nNew = m.nNew /\ r.nTried = q
    /\ \A u \in TriedSlot : r.vvTried[u] = IF u = t THEN o ELSE m.vvTried[u]
    /\ \A i \in DOMAIN m.mapInfo : r.mapInfo[i].fInTried = IF i = n THEN b ELSE m.mapInfo[i].fInTried

LEMMA FlaggedIs ==
    ASSUME NEW m \in Managers, NEW n \in DOMAIN m.mapInfo, NEW b \in BOOLEAN,
           NEW t \in TriedSlot, NEW o \in Id \cup {NoId}, NEW q \in Int
    PROVE  /\ Flagged(m, n, b, t, o, q) \in Managers
           /\ SameButTried(m, Flagged(m, n, b, t, o, q), n, b, t, o, q)
<1> DEFINE e == [m.mapInfo[n] EXCEPT !.fInTried = b]
           f == [m.mapInfo EXCEPT ![n] = e]
           w == [m.vvTried EXCEPT ![t] = o]
           r == [m EXCEPT !.mapInfo = f, !.vvTried = w, !.nTried = q]
<1>1. Flagged(m, n, b, t, o, q) = r
  BY DEF Flagged
<1>2. m.mapInfo \in InfoMaps /\ m.vvTried \in [TriedSlot -> Id \cup {NoId}]
  BY DEF Managers
<1>3. m.mapInfo[n] \in Info
  BY EntryIs
<1>4. e \in Info /\ e.addr = m.mapInfo[n].addr /\ e.source = m.mapInfo[n].source /\ e.fInTried = b
      /\ e.nRefCount = m.mapInfo[n].nRefCount /\ e.nRandomPos = m.mapInfo[n].nRandomPos
  <2>1. e \in Info
    BY <1>3, InfoWith
  <2> QED
    BY <1>3, <2>1 DEF Info
<1> HIDE DEF e
<1>5. f \in InfoMaps /\ DOMAIN f = DOMAIN m.mapInfo
      /\ \A i \in DOMAIN m.mapInfo : f[i] = IF i = n THEN e ELSE m.mapInfo[i]
  BY <1>2, <1>4, InfoMapWith
<1>6. w \in [TriedSlot -> Id \cup {NoId}] /\ \A u \in TriedSlot : w[u] = IF u = t THEN o ELSE m.vvTried[u]
  BY <1>2
<1> HIDE DEF f, w
<1>7. r.mapInfo = f /\ r.vvTried = w /\ r.nTried = q /\ r.mapAddr = m.mapAddr /\ r.vRandom = m.vRandom
      /\ r.vvNew = m.vvNew /\ r.nNew = m.nNew
  BY DEF Managers
<1>8. r \in Managers
  BY <1>5, <1>6 DEF Managers
<1> HIDE DEF r
<1>9. SameMaps(m, r) /\ SameRandom(m, r) /\ SameNew(m, r)
  BY <1>4, <1>5, <1>7 DEF SameMaps, SameRandom, SameNew
<1>10. ASSUME NEW i \in DOMAIN m.mapInfo
       PROVE  r.mapInfo[i].fInTried = IF i = n THEN b ELSE m.mapInfo[i].fInTried
  <2>1. CASE i = n
    BY <1>4, <1>5, <1>7, <2>1
  <2>2. CASE i # n
    BY <1>5, <1>7, <2>2
  <2> QED
    BY <2>1, <2>2
<1> QED
  BY <1>1, <1>6, <1>7, <1>8, <1>9, <1>10 DEF SameButTried

LEMMA KindsFinite ==
    ASSUME NEW m \in Managers
    PROVE  /\ IsFiniteSet(Untried(m)) /\ Cardinality(Untried(m)) \in Nat
           /\ IsFiniteSet(InTried(m)) /\ Cardinality(InTried(m)) \in Nat
<1>1. Untried(m) \subseteq Id /\ InTried(m) \subseteq Id
  BY EntryIs DEF Untried, InTried
<1>2. IsFiniteSet(Untried(m)) /\ IsFiniteSet(InTried(m))
  BY <1>1, IdIs, FS_Subset
<1> QED
  BY <1>2, FS_CardinalityType

\* Entry n goes into its slot of the tried table.
LEMMA TriedInOk ==
    ASSUME NEW m, AmOk(m, 1), NEW n \in Loose(m), m.vvTried[TriedSlotOf[m.mapInfo[n].addr]] = NoId
    PROVE  LET t == TriedSlotOf[m.mapInfo[n].addr]
               r == Flagged(m, n, TRUE, t, n, m.nTried + 1)
           IN  /\ AmOk(r, 0) /\ Loose(r) = Loose(m) \ {n}
               /\ SameButTried(m, r, n, TRUE, t, n, m.nTried + 1)
<1> DEFINE t == TriedSlotOf[m.mapInfo[n].addr]
           q == m.nTried + 1
           r == Flagged(m, n, TRUE, t, n, q)
<1>1. m \in Managers /\ MapsOk(m) /\ RandomOk(m) /\ NewOk(m) /\ TriedOk(m) /\ CountsOk(m, 1)
  BY DEF AmOk
<1>2. n \in DOMAIN m.mapInfo /\ ~m.mapInfo[n].fInTried /\ m.mapInfo[n].nRefCount = 0 /\ n \in Untried(m)
  BY DEF Loose, Untried
<1>3. n \in Id /\ n # NoId /\ m.mapInfo[n].addr \in Service
  BY <1>1, <1>2, EntryIs
<1>4. t \in TriedSlot /\ q \in Int /\ m.nTried \in Int /\ m.nNew \in Int
  <2>1. TriedSlotOf \in [Service -> TriedSlot]
    BY AddrAssumption, Zenon
  <2>2. m.nTried \in Int /\ m.nNew \in Int
    BY <1>1 DEF Managers
  <2> QED
    BY <1>3, <2>1, <2>2
<1>5. r \in Managers /\ SameButTried(m, r, n, TRUE, t, n, q)
  <2>1. n \in Id \cup {NoId} /\ TRUE \in BOOLEAN
    BY <1>3
  <2> HIDE DEF t, q
  <2> QED
    BY <1>1, <1>2, <1>4, <2>1, FlaggedIs
<1> HIDE DEF r
<1>6. /\ SameMaps(m, r) /\ SameRandom(m, r) /\ SameNew(m, r) /\ r.nNew = m.nNew /\ r.nTried = q
      /\ \A u \in TriedSlot : r.vvTried[u] = IF u = t THEN n ELSE m.vvTried[u]
      /\ \A i \in DOMAIN m.mapInfo : r.mapInfo[i].fInTried = IF i = n THEN TRUE ELSE m.mapInfo[i].fInTried
  BY <1>5 DEF SameButTried
<1>7. DOMAIN r.mapInfo = DOMAIN m.mapInfo /\ r.mapInfo[n].fInTried
      /\ \A i \in DOMAIN m.mapInfo : i # n => r.mapInfo[i].fInTried = m.mapInfo[i].fInTried
  BY <1>2, <1>6 DEF SameMaps
<1>8. MapsOk(r) /\ RandomOk(r)
  BY <1>1, <1>6, SameMapsOk, SameRandomOk
<1>9. NewOk(r)
  <2>1. \A i : SlotsWith(r, i) = SlotsWith(m, i)
    BY <1>6 DEF SlotsWith, SameNew
  <2>2. ASSUME NEW i \in DOMAIN m.mapInfo
        PROVE  /\ r.mapInfo[i].nRefCount = Cardinality(SlotsWith(r, i))
               /\ r.mapInfo[i].nRefCount <= ADDRMAN_NEW_BUCKETS_PER_ADDRESS
               /\ r.mapInfo[i].fInTried => r.mapInfo[i].nRefCount = 0
    <3>1. r.mapInfo[i].nRefCount = m.mapInfo[i].nRefCount
      BY <1>6 DEF SameNew
    <3>2. r.mapInfo[i].fInTried => r.mapInfo[i].nRefCount = 0
      <4>1. CASE i = n
        BY <1>2, <3>1, <4>1
      <4>2. CASE i # n
        BY <1>1, <1>7, <3>1, <4>2 DEF NewOk
      <4> QED
        BY <4>1, <4>2
    <3> QED
      BY <1>1, <2>1, <3>1, <3>2 DEF NewOk
  <2>3. \A s \in NewSlot : r.vvNew[s] # NoId =>
            r.vvNew[s] \in DOMAIN r.mapInfo /\ s \in NewSlotsOf[r.mapInfo[r.vvNew[s]].addr]
    BY <1>1, <1>6 DEF NewOk, SameMaps, SameNew
  <2> QED
    BY <1>7, <2>2, <2>3 DEF NewOk
<1>10. TriedOk(r)
  <2>0. \A i \in DOMAIN m.mapInfo : r.mapInfo[i].addr = m.mapInfo[i].addr
    BY <1>6 DEF SameMaps
  <2>1. ASSUME NEW i \in DOMAIN r.mapInfo, r.mapInfo[i].fInTried
        PROVE  r.vvTried[TriedSlotOf[r.mapInfo[i].addr]] = i
    <3>1. CASE i = n
      BY <1>2, <1>4, <1>6, <2>0, <3>1
    <3>2. CASE i # n
      <4>1. i \in DOMAIN m.mapInfo /\ m.mapInfo[i].fInTried /\ m.vvTried[TriedSlotOf[m.mapInfo[i].addr]] = i
        BY <1>1, <1>7, <2>1, <3>2 DEF TriedOk
      <4>2. TriedSlotOf[m.mapInfo[i].addr] \in TriedSlot /\ i # NoId
        <5>1. TriedSlotOf \in [Service -> TriedSlot]
          BY AddrAssumption, Zenon
        <5>2. m.mapInfo[i].addr \in Service /\ i # NoId
          BY <1>1, <4>1, EntryIs
        <5> QED
          BY <5>1, <5>2
      <4>3. TriedSlotOf[m.mapInfo[i].addr] # t
        BY <4>1, <4>2
      <4> QED
        BY <1>6, <2>0, <4>1, <4>2, <4>3
    <3> QED
      BY <3>1, <3>2
  <2>2. ASSUME NEW s \in TriedSlot, r.vvTried[s] # NoId
        PROVE  /\ r.vvTried[s] \in DOMAIN r.mapInfo /\ r.mapInfo[r.vvTried[s]].fInTried
               /\ TriedSlotOf[r.mapInfo[r.vvTried[s]].addr] = s
    <3>1. CASE s = t
      BY <1>2, <1>6, <1>7, <2>0, <3>1
    <3>2. CASE s # t
      <4>1. r.vvTried[s] = m.vvTried[s]
        BY <1>6, <3>2
      <4>2. /\ m.vvTried[s] \in DOMAIN m.mapInfo /\ m.mapInfo[m.vvTried[s]].fInTried
            /\ TriedSlotOf[m.mapInfo[m.vvTried[s]].addr] = s
        BY <1>1, <2>2, <4>1 DEF TriedOk
      <4>3. m.vvTried[s] # n
        BY <1>2, <4>2
      <4> QED
        BY <1>7, <2>0, <4>1, <4>2, <4>3
    <3> QED
      BY <3>1, <3>2, Zenon
  <2> QED
    BY <2>1, <2>2 DEF TriedOk
<1>11. CountsOk(r, 0)
  <2>1. Untried(r) = Untried(m) \ {n} /\ InTried(r) = InTried(m) \cup {n} /\ n \notin InTried(m)
    <3>1. \A i \in DOMAIN m.mapInfo : r.mapInfo[i].fInTried <=> (i = n \/ m.mapInfo[i].fInTried)
      BY <1>7
    <3> QED
      BY <1>2, <1>7, <3>1 DEF Untried, InTried
  <2>2. /\ IsFiniteSet(Untried(m)) /\ Cardinality(Untried(m)) \in Nat
        /\ IsFiniteSet(InTried(m)) /\ Cardinality(InTried(m)) \in Nat
    BY <1>1, KindsFinite
  <2>3. Cardinality(Untried(r)) = Cardinality(Untried(m)) - 1
    BY <1>2, <2>1, <2>2, FS_RemoveElement
  <2>4. Cardinality(InTried(r)) = Cardinality(InTried(m)) + 1
    BY <2>1, <2>2, FS_AddElement
  <2>5. m.nNew + 1 = Cardinality(Untried(m)) /\ m.nTried = Cardinality(InTried(m))
        /\ Len(m.vRandom) = m.nNew + 1 + m.nTried
    BY <1>1 DEF CountsOk
  <2>6. Len(r.vRandom) = Len(m.vRandom)
    BY <1>6 DEF SameRandom
  <2>7. r.nNew = m.nNew /\ r.nTried = m.nTried + 1 /\ m.nNew \in Int /\ m.nTried \in Int
    BY <1>4, <1>6
  <2>8. r.nNew + 0 = Cardinality(Untried(r)) /\ r.nTried = Cardinality(InTried(r))
    BY <2>2, <2>3, <2>4, <2>5, <2>7
  <2>9. Len(r.vRandom) = r.nNew + 0 + r.nTried
    BY <2>5, <2>6, <2>7
  <2> QED
    BY <2>8, <2>9 DEF CountsOk
<1>12. Loose(r) = Loose(m) \ {n}
  <2>1. \A i \in DOMAIN m.mapInfo : r.mapInfo[i].nRefCount = m.mapInfo[i].nRefCount
    BY <1>6 DEF SameNew
  <2> QED
    BY <1>7, <2>1 DEF Loose, Untried
<1>13. AmOk(r, 0)
  BY <1>5, <1>8, <1>9, <1>10, <1>11 DEF AmOk
<1> QED
  BY <1>5, <1>12, <1>13 DEF r

\* The entry in slot t of the tried table leaves it.
LEMMA TriedOutOk ==
    ASSUME NEW m, NEW k \in Nat, AmOk(m, k), NEW t \in TriedSlot, m.vvTried[t] # NoId
    PROVE  LET e == m.vvTried[t]
               r == Flagged(m, e, FALSE, t, NoId, m.nTried - 1)
           IN  /\ AmOk(r, k + 1) /\ Loose(r) = Loose(m) \cup {e} /\ e \in DOMAIN m.mapInfo
               /\ SameButTried(m, r, e, FALSE, t, NoId, m.nTried - 1)
<1> DEFINE e == m.vvTried[t]
           q == m.nTried - 1
           r == Flagged(m, e, FALSE, t, NoId, q)
<1>1. m \in Managers /\ MapsOk(m) /\ RandomOk(m) /\ NewOk(m) /\ TriedOk(m) /\ CountsOk(m, k)
  BY DEF AmOk
<1>2. e \in DOMAIN m.mapInfo /\ m.mapInfo[e].fInTried /\ TriedSlotOf[m.mapInfo[e].addr] = t
  BY <1>1 DEF TriedOk
<1>3. m.mapInfo[e].nRefCount = 0
  BY <1>1, <1>2 DEF NewOk
<1>4. q \in Int /\ m.nTried \in Int /\ m.nNew \in Int
  <2>1. m.nTried \in Int /\ m.nNew \in Int
    BY <1>1 DEF Managers
  <2> QED
    BY <2>1
<1>5. r \in Managers /\ SameButTried(m, r, e, FALSE, t, NoId, q)
  <2>1. NoId \in Id \cup {NoId} /\ FALSE \in BOOLEAN
    OBVIOUS
  <2> HIDE DEF e, q
  <2> QED
    BY <1>1, <1>2, <1>4, <2>1, FlaggedIs
<1> HIDE DEF r, e
<1>6. /\ SameMaps(m, r) /\ SameRandom(m, r) /\ SameNew(m, r) /\ r.nNew = m.nNew /\ r.nTried = q
      /\ \A u \in TriedSlot : r.vvTried[u] = IF u = t THEN NoId ELSE m.vvTried[u]
      /\ \A i \in DOMAIN m.mapInfo : r.mapInfo[i].fInTried = IF i = e THEN FALSE ELSE m.mapInfo[i].fInTried
  BY <1>5 DEF SameButTried
<1>7. DOMAIN r.mapInfo = DOMAIN m.mapInfo /\ ~r.mapInfo[e].fInTried
      /\ \A i \in DOMAIN m.mapInfo : i # e => r.mapInfo[i].fInTried = m.mapInfo[i].fInTried
  BY <1>2, <1>6 DEF SameMaps
<1>8. MapsOk(r) /\ RandomOk(r)
  BY <1>1, <1>6, SameMapsOk, SameRandomOk
<1>9. NewOk(r)
  <2>1. \A i : SlotsWith(r, i) = SlotsWith(m, i)
    BY <1>6 DEF SlotsWith, SameNew
  <2>2. ASSUME NEW i \in DOMAIN m.mapInfo
        PROVE  /\ r.mapInfo[i].nRefCount = Cardinality(SlotsWith(r, i))
               /\ r.mapInfo[i].nRefCount <= ADDRMAN_NEW_BUCKETS_PER_ADDRESS
               /\ r.mapInfo[i].fInTried => r.mapInfo[i].nRefCount = 0
    <3>1. r.mapInfo[i].nRefCount = m.mapInfo[i].nRefCount
      BY <1>6 DEF SameNew
    <3>2. r.mapInfo[i].fInTried => r.mapInfo[i].nRefCount = 0
      <4>1. CASE i = e
        BY <1>3, <3>1, <4>1
      <4>2. CASE i # e
        BY <1>1, <1>7, <3>1, <4>2 DEF NewOk
      <4> QED
        BY <4>1, <4>2
    <3> QED
      BY <1>1, <2>1, <3>1, <3>2 DEF NewOk
  <2>3. \A s \in NewSlot : r.vvNew[s] # NoId =>
            r.vvNew[s] \in DOMAIN r.mapInfo /\ s \in NewSlotsOf[r.mapInfo[r.vvNew[s]].addr]
    BY <1>1, <1>6 DEF NewOk, SameMaps, SameNew
  <2> QED
    BY <1>7, <2>2, <2>3 DEF NewOk
<1>10. TriedOk(r)
  <2>0. \A i \in DOMAIN m.mapInfo : r.mapInfo[i].addr = m.mapInfo[i].addr
    BY <1>6 DEF SameMaps
  <2>1. ASSUME NEW i \in DOMAIN r.mapInfo, r.mapInfo[i].fInTried
        PROVE  r.vvTried[TriedSlotOf[r.mapInfo[i].addr]] = i
    <3>1. i # e
      BY <1>7, <2>1
    <3>2. i \in DOMAIN m.mapInfo /\ m.vvTried[TriedSlotOf[m.mapInfo[i].addr]] = i
      BY <1>1, <1>7, <2>1, <3>1 DEF TriedOk
    <3>3. TriedSlotOf[m.mapInfo[i].addr] \in TriedSlot
      <4>1. TriedSlotOf \in [Service -> TriedSlot]
        BY AddrAssumption, Zenon
      <4>2. m.mapInfo[i].addr \in Service
        BY <1>1, <3>2, EntryIs
      <4> QED
        BY <4>1, <4>2
    <3>4. TriedSlotOf[m.mapInfo[i].addr] # t
      BY <3>1, <3>2 DEF e
    <3> QED
      BY <1>6, <2>0, <3>2, <3>3, <3>4
  <2>2. ASSUME NEW s \in TriedSlot, r.vvTried[s] # NoId
        PROVE  /\ r.vvTried[s] \in DOMAIN r.mapInfo /\ r.mapInfo[r.vvTried[s]].fInTried
               /\ TriedSlotOf[r.mapInfo[r.vvTried[s]].addr] = s
    <3>1. s # t /\ r.vvTried[s] = m.vvTried[s]
      BY <1>6, <2>2
    <3>2. /\ m.vvTried[s] \in DOMAIN m.mapInfo /\ m.mapInfo[m.vvTried[s]].fInTried
          /\ TriedSlotOf[m.mapInfo[m.vvTried[s]].addr] = s
      BY <1>1, <2>2, <3>1 DEF TriedOk
    <3>3. m.vvTried[s] # e
      BY <1>2, <3>1, <3>2
    <3> QED
      BY <1>7, <2>0, <3>1, <3>2, <3>3
  <2> QED
    BY <2>1, <2>2 DEF TriedOk
<1>11. CountsOk(r, k + 1)
  <2>1. Untried(r) = Untried(m) \cup {e} /\ InTried(r) = InTried(m) \ {e} /\ e \notin Untried(m) /\ e \in InTried(m)
    <3>1. \A i \in DOMAIN m.mapInfo : r.mapInfo[i].fInTried <=> (i # e /\ m.mapInfo[i].fInTried)
      BY <1>7
    <3> QED
      BY <1>2, <1>7, <3>1 DEF Untried, InTried
  <2>2. /\ IsFiniteSet(Untried(m)) /\ Cardinality(Untried(m)) \in Nat
        /\ IsFiniteSet(InTried(m)) /\ Cardinality(InTried(m)) \in Nat
    BY <1>1, KindsFinite
  <2>3. Cardinality(Untried(r)) = Cardinality(Untried(m)) + 1
    BY <2>1, <2>2, FS_AddElement
  <2>4. Cardinality(InTried(r)) = Cardinality(InTried(m)) - 1
    BY <2>1, <2>2, FS_RemoveElement
  <2>5. m.nNew + k = Cardinality(Untried(m)) /\ m.nTried = Cardinality(InTried(m))
        /\ Len(m.vRandom) = m.nNew + k + m.nTried
    BY <1>1 DEF CountsOk
  <2>6. Len(r.vRandom) = Len(m.vRandom)
    BY <1>6 DEF SameRandom
  <2> QED
    BY <1>4, <1>6, <2>2, <2>3, <2>4, <2>5, <2>6 DEF CountsOk
<1>12. Loose(r) = Loose(m) \cup {e}
  <2>1. \A i \in DOMAIN m.mapInfo : r.mapInfo[i].nRefCount = m.mapInfo[i].nRefCount
    BY <1>6 DEF SameNew
  <2> QED
    BY <1>2, <1>3, <1>7, <2>1 DEF Loose, Untried
<1>13. AmOk(r, k + 1)
  BY <1>5, <1>8, <1>9, <1>10, <1>11 DEF AmOk
<1> QED
  BY <1>2, <1>5, <1>12, <1>13 DEF r, e

\* One more of the entries is counted in nNew.
LEMMA CountedOk ==
    ASSUME NEW m, NEW k \in Nat, NEW d \in Int, AmOk(m, k), k - d \in Nat
    PROVE  LET r == [m EXCEPT !.nNew = @ + d]
           IN  AmOk(r, k - d) /\ Loose(r) = Loose(m) /\ r.mapInfo = m.mapInfo /\ r.vvTried = m.vvTried /\ r.vvNew = m.vvNew
<1> DEFINE r == [m EXCEPT !.nNew = @ + d]
<1>1. m \in Managers /\ MapsOk(m) /\ RandomOk(m) /\ NewOk(m) /\ TriedOk(m) /\ CountsOk(m, k)
  BY DEF AmOk
<1>2. m.nNew \in Int /\ m.nTried \in Int
  BY <1>1 DEF Managers
<1>3. r \in Managers /\ r.mapInfo = m.mapInfo /\ r.mapAddr = m.mapAddr /\ r.vRandom = m.vRandom
      /\ r.vvNew = m.vvNew /\ r.vvTried = m.vvTried /\ r.nNew = m.nNew + d /\ r.nTried = m.nTried
  <2>1. m.nNew + d \in Int
    BY <1>2
  <2>2. r \in Managers
    BY <1>1, <2>1 DEF Managers
  <2>3. r.mapInfo = m.mapInfo /\ r.mapAddr = m.mapAddr /\ r.vRandom = m.vRandom
        /\ r.vvNew = m.vvNew /\ r.vvTried = m.vvTried /\ r.nNew = m.nNew + d /\ r.nTried = m.nTried
    BY <1>1 DEF Managers
  <2> QED
    BY <2>2, <2>3
<1> HIDE DEF r
<1>4. SameMaps(m, r) /\ SameRandom(m, r) /\ SameNew(m, r) /\ SameTried(m, r)
  BY <1>3 DEF SameMaps, SameRandom, SameNew, SameTried
<1>5. MapsOk(r) /\ RandomOk(r) /\ NewOk(r) /\ TriedOk(r) /\ Loose(r) = Loose(m)
  BY <1>1, <1>4, SameMapsOk, SameRandomOk, SameNewOk, SameTriedOk
<1>6. CountsOk(r, k - d)
  <2>1. Untried(r) = Untried(m) /\ InTried(r) = InTried(m)
    BY <1>3 DEF Untried, InTried
  <2>2. m.nNew + k = Cardinality(Untried(m)) /\ m.nTried = Cardinality(InTried(m))
        /\ Len(m.vRandom) = m.nNew + k + m.nTried
    BY <1>1 DEF CountsOk
  <2> QED
    BY <1>2, <1>3, <2>1, <2>2 DEF CountsOk
<1>7. AmOk(r, k - d)
  BY <1>3, <1>5, <1>6 DEF AmOk
<1> QED
  BY <1>3, <1>5, <1>7 DEF r

\* Entry n gives up all its slots.
Unslotted(m, n) ==
    [m EXCEPT !.vvNew = [s \in NewSlot |-> IF s \in SlotsWith(m, n) THEN NoId ELSE @[s]],
              !.mapInfo[n].nRefCount = 0, !.nNew = @ - 1]

LEMMA UnslottedOk ==
    ASSUME NEW m, AmOk(m, 0), NEW n \in Untried(m)
    PROVE  LET r == Unslotted(m, n)
           IN  /\ AmOk(r, 1) /\ Loose(r) = Loose(m) \cup {n} /\ r.nTried = m.nTried
               /\ SameMaps(m, r) /\ SameTried(m, r)
<1> DEFINE e == [m.mapInfo[n] EXCEPT !.nRefCount = 0]
           f == [m.mapInfo EXCEPT ![n] = e]
           w == [s \in NewSlot |-> IF s \in SlotsWith(m, n) THEN NoId ELSE m.vvNew[s]]
           r == [m EXCEPT !.vvNew = w, !.mapInfo = f, !.nNew = m.nNew - 1]
<1>1. m \in Managers /\ MapsOk(m) /\ RandomOk(m) /\ NewOk(m) /\ TriedOk(m) /\ CountsOk(m, 0)
  BY DEF AmOk
<1>2. n \in DOMAIN m.mapInfo /\ ~m.mapInfo[n].fInTried
  BY DEF Untried
<1>3. Unslotted(m, n) = r
  <2>1. m.nNew = [m EXCEPT !.vvNew = w, !.mapInfo = f].nNew
    BY <1>1 DEF Managers
  <2>2. m.mapInfo = [m EXCEPT !.vvNew = w].mapInfo
    BY <1>1 DEF Managers
  <2> QED
    BY <2>1, <2>2 DEF Unslotted
<1>4. m.mapInfo \in InfoMaps /\ m.vvNew \in [NewSlot -> Id \cup {NoId}] /\ m.nNew \in Int /\ m.nTried \in Int
  BY <1>1 DEF Managers
<1>5. m.mapInfo[n] \in Info
  BY <1>1, <1>2, EntryIs
<1>6. e \in Info /\ e.addr = m.mapInfo[n].addr /\ e.source = m.mapInfo[n].source /\ e.nRefCount = 0
      /\ e.fInTried = m.mapInfo[n].fInTried /\ e.nRandomPos = m.mapInfo[n].nRandomPos
  <2>1. 0 \in Nat
    OBVIOUS
  <2>2. e \in Info
    BY <1>5, <2>1, InfoWith
  <2> QED
    BY <1>5, <2>2 DEF Info
<1> HIDE DEF e
<1>7. f \in InfoMaps /\ DOMAIN f = DOMAIN m.mapInfo
      /\ \A i \in DOMAIN m.mapInfo : f[i] = IF i = n THEN e ELSE m.mapInfo[i]
  BY <1>2, <1>4, <1>6, InfoMapWith
<1>8. w \in [NewSlot -> Id \cup {NoId}]
      /\ \A s \in NewSlot : w[s] = IF s \in SlotsWith(m, n) THEN NoId ELSE m.vvNew[s]
  BY <1>4
<1> HIDE DEF f, w
<1>9. r.mapInfo = f /\ r.vvNew = w /\ r.mapAddr = m.mapAddr /\ r.vRandom = m.vRandom
      /\ r.vvTried = m.vvTried /\ r.nNew = m.nNew - 1 /\ r.nTried = m.nTried
  BY <1>1 DEF Managers
<1>10. r \in Managers
  <2>1. m.nNew - 1 \in Int
    BY <1>4
  <2> QED
    BY <1>1, <1>7, <1>8, <2>1 DEF Managers
<1> HIDE DEF r
<1>11. SameMaps(m, r) /\ SameRandom(m, r) /\ SameTried(m, r)
  BY <1>6, <1>7, <1>9 DEF SameMaps, SameRandom, SameTried
<1>12. MapsOk(r) /\ RandomOk(r) /\ TriedOk(r)
  BY <1>1, <1>11, SameMapsOk, SameRandomOk, SameTriedOk
<1>13. r.mapInfo[n].nRefCount = 0
       /\ \A i \in DOMAIN m.mapInfo : i # n => r.mapInfo[i].nRefCount = m.mapInfo[i].nRefCount
  BY <1>2, <1>6, <1>7, <1>9
<1>14. NewOk(r)
  <2>0. DOMAIN r.mapInfo = DOMAIN m.mapInfo /\ \A i \in DOMAIN m.mapInfo : i # NoId
    BY <1>1, <1>11, EntryIs DEF SameMaps
  <2>1. SlotsWith(r, n) = {}
    BY <1>2, <1>8, <1>9, <2>0 DEF SlotsWith
  <2>2. ASSUME NEW i \in DOMAIN m.mapInfo, i # n PROVE SlotsWith(r, i) = SlotsWith(m, i)
    BY <1>8, <1>9, <2>0, <2>2 DEF SlotsWith
  <2>3. ASSUME NEW i \in DOMAIN m.mapInfo
        PROVE  /\ r.mapInfo[i].nRefCount = Cardinality(SlotsWith(r, i))
               /\ r.mapInfo[i].nRefCount <= ADDRMAN_NEW_BUCKETS_PER_ADDRESS
               /\ r.mapInfo[i].fInTried => r.mapInfo[i].nRefCount = 0
    <3>1. CASE i = n
      <4>1. Cardinality(SlotsWith(r, n)) = 0 /\ 0 <= ADDRMAN_NEW_BUCKETS_PER_ADDRESS
        BY <2>1, FS_EmptySet, LimitIs
      <4> QED
        BY <1>13, <3>1, <4>1
    <3>2. CASE i # n
      <4>1. r.mapInfo[i].fInTried = m.mapInfo[i].fInTried
        BY <1>11 DEF SameTried
      <4> QED
        BY <1>1, <1>13, <2>2, <3>2, <4>1 DEF NewOk
    <3> QED
      BY <3>1, <3>2
  <2>4. ASSUME NEW s \in NewSlot, r.vvNew[s] # NoId
        PROVE  r.vvNew[s] \in DOMAIN m.mapInfo /\ s \in NewSlotsOf[r.mapInfo[r.vvNew[s]].addr]
    <3>1. r.vvNew[s] = m.vvNew[s]
      BY <1>8, <1>9, <2>4
    <3> QED
      BY <1>1, <1>11, <2>4, <3>1 DEF NewOk, SameMaps
  <2> QED
    BY <2>0, <2>3, <2>4 DEF NewOk
<1>15. CountsOk(r, 1)
  <2>1. Untried(r) = Untried(m) /\ InTried(r) = InTried(m)
    BY <1>11 DEF Untried, InTried, SameTried
  <2>2. m.nNew + 0 = Cardinality(Untried(m)) /\ m.nTried = Cardinality(InTried(m))
        /\ Len(m.vRandom) = m.nNew + 0 + m.nTried
    BY <1>1 DEF CountsOk
  <2> QED
    BY <1>4, <1>9, <2>1, <2>2 DEF CountsOk
<1>16. Loose(r) = Loose(m) \cup {n}
  <2>1. Untried(r) = Untried(m)
    BY <1>11 DEF Untried, SameTried
  <2>2. \A i \in Untried(m) : i # n => r.mapInfo[i].nRefCount = m.mapInfo[i].nRefCount
    BY <1>13 DEF Untried
  <2> QED
    BY <1>13, <2>1, <2>2 DEF Loose
<1>17. AmOk(r, 1)
  BY <1>10, <1>12, <1>14, <1>15 DEF AmOk
<1> QED
  BY <1>3, <1>9, <1>11, <1>16, <1>17

\* The slot an entry gets for a source is one of its own.
LEMMA SlotIs ==
    ASSUME NEW a \in Service, NEW r \in Source
    PROVE  NewSlotOf[<<a, r>>] \in NewSlot /\ NewSlotOf[<<a, r>>] \in NewSlotsOf[a]
<1>1. NewSlotOf \in [Service \X Source -> NewSlot]
  BY AddrAssumption, Zenon
<1>2. \A b \in Service, q \in Source : NewSlotOf[<<b, q>>] \in NewSlotsOf[b]
  BY AddrAssumption, Zenon
<1>3. <<a, r>> \in Service \X Source
  OBVIOUS
<1> QED
  BY <1>1, <1>2, <1>3

\* The evicted entry e is a new one again; n, which takes its place, is left alone.
LEMMA DemotedOk ==
    ASSUME NEW m, AmOk(m, 2), NEW e \in Loose(m), NEW n \in Loose(m), e # n
    PROVE  LET r == Demoted(m, e)
           IN  /\ AmOk(r, 1) /\ Loose(r) = Loose(m) \ {e} /\ r.vvTried = m.vvTried /\ Keeps(m, r)
               /\ e \in DOMAIN r.mapInfo /\ r.mapInfo[e].addr = m.mapInfo[e].addr
               /\ n \in DOMAIN r.mapInfo /\ r.mapInfo[n].addr = m.mapInfo[n].addr
<1> DEFINE s == NewSlotOf[<<m.mapInfo[e].addr, m.mapInfo[e].source>>]
           c == ClearNew(m, s)
           d == Recounted(c, e, 1, s, e)
           r == [d EXCEPT !.nNew = @ + 1]
<1>1. m \in Managers /\ NewOk(m)
  BY DEF AmOk
<1>2. /\ e \in DOMAIN m.mapInfo /\ ~m.mapInfo[e].fInTried /\ m.mapInfo[e].nRefCount = 0
      /\ n \in DOMAIN m.mapInfo /\ m.mapInfo[n].nRefCount = 0
  BY DEF Loose, Untried
<1>3. s \in NewSlot /\ s \in NewSlotsOf[m.mapInfo[e].addr]
  <2>1. m.mapInfo[e].addr \in Service /\ m.mapInfo[e].source \in Source
    BY <1>1, <1>2, EntryIs
  <2> QED
    BY <2>1, SlotIs
<1>4. m.vvNew[s] # e /\ m.vvNew[s] # n
  BY <1>1, <1>2, <1>3, NoSlots
<1>5. Demoted(m, e) = r
  <2>1. Demoted(m, e) = [c EXCEPT !.mapInfo[e].nRefCount = 1, !.vvNew[s] = e, !.nNew = @ + 1]
    BY Zenon DEF Demoted
  <2> QED
    BY <2>1 DEF Recounted
<1> HIDE DEF s
<1>6. AmOk(c, 2) /\ Loose(c) = Loose(m) /\ Cleared(m, c, s)
  BY <1>3, ClearNewOk
<1> HIDE DEF c
<1>7. /\ e \in DOMAIN c.mapInfo /\ c.mapInfo[e].addr = m.mapInfo[e].addr /\ ~c.mapInfo[e].fInTried
      /\ c.mapInfo[e].nRefCount = 0 /\ c.vvNew[s] = NoId /\ c.vvTried = m.vvTried
      /\ n \in DOMAIN c.mapInfo /\ c.mapInfo[n].addr = m.mapInfo[n].addr
  BY <1>2, <1>3, <1>4, <1>6 DEF Cleared
<1>8. /\ AmOk(d, 2) /\ Loose(d) = Loose(c) \ {e} /\ SameMaps(c, d) /\ SameTried(c, d)
  <2>1. e \in Untried(c) /\ c.mapInfo[e].nRefCount < ADDRMAN_NEW_BUCKETS_PER_ADDRESS
        /\ s \in NewSlotsOf[c.mapInfo[e].addr] /\ c.mapInfo[e].nRefCount + 1 = 1
    BY <1>3, <1>7, LimitIs DEF Untried
  <2>2. d = Recounted(c, e, c.mapInfo[e].nRefCount + 1, s, e)
    BY <2>1
  <2> HIDE DEF d
  <2>3. AmOk(d, 2) /\ Loose(d) = Loose(c) \ {e}
        /\ SameButCount(c, d, e, c.mapInfo[e].nRefCount + 1, s, e)
    BY <1>3, <1>6, <1>7, <2>1, <2>2, FilledOk
  <2> QED
    BY <2>3 DEF SameButCount
<1> HIDE DEF d
<1>9. AmOk(r, 1) /\ Loose(r) = Loose(d) /\ r.mapInfo = d.mapInfo /\ r.vvTried = d.vvTried
  <2>1. 2 \in Nat /\ 1 \in Int /\ 2 - 1 \in Nat /\ 2 - 1 = 1
    OBVIOUS
  <2>2. AmOk(r, 2 - 1) /\ Loose(r) = Loose(d) /\ r.mapInfo = d.mapInfo /\ r.vvTried = d.vvTried
    BY <1>8, <2>1, CountedOk
  <2> QED
    BY <2>1, <2>2
<1> HIDE DEF r
<1>10. Keeps(m, r)
  <2> SUFFICES ASSUME NEW i \in DOMAIN m.mapInfo, m.mapInfo[i].fInTried
               PROVE  i \in DOMAIN r.mapInfo /\ r.mapInfo[i].addr = m.mapInfo[i].addr
    BY DEF Keeps
  <2>1. i # m.vvNew[s]
    <3>1. m.vvNew[s] = NoId \/ m.vvNew[s] \in Untried(m)
      BY <1>3, HolderIs
    <3>2. i # NoId
      BY <1>1, EntryIs
    <3> QED
      BY <3>1, <3>2 DEF Untried
  <2>2. i \in DOMAIN c.mapInfo /\ c.mapInfo[i].addr = m.mapInfo[i].addr
    BY <1>6, <2>1 DEF Cleared
  <2> QED
    BY <1>8, <1>9, <2>2 DEF SameMaps
<1> QED
  BY <1>5, <1>6, <1>7, <1>8, <1>9, <1>10 DEF SameMaps, SameTried

LEMMA FlaggedOrder ==
    ASSUME NEW m \in Managers, NEW n, NEW t
    PROVE  [m EXCEPT !.vvTried[t] = n, !.nTried = @ + 1, !.mapInfo[n].fInTried = TRUE]
               = Flagged(m, n, TRUE, t, n, m.nTried + 1)
<1> DEFINE f == [m.mapInfo EXCEPT ![n].fInTried = TRUE]
           w == [m.vvTried EXCEPT ![t] = n]
           x == [m EXCEPT !.vvTried = w, !.nTried = m.nTried + 1]
<1>1. [m EXCEPT !.vvTried = w].nTried = m.nTried /\ x.mapInfo = m.mapInfo
  BY DEF Managers
<1>2. [m EXCEPT !.vvTried[t] = n, !.nTried = @ + 1, !.mapInfo[n].fInTried = TRUE] = [x EXCEPT !.mapInfo = f]
  BY <1>1
<1>3. Flagged(m, n, TRUE, t, n, m.nTried + 1) = [m EXCEPT !.mapInfo = f, !.vvTried = w, !.nTried = m.nTried + 1]
  <2>1. [m EXCEPT !.mapInfo = f].vvTried = m.vvTried
    BY DEF Managers
  <2> QED
    BY <2>1 DEF Flagged
<1> HIDE DEF f, w
<1>4. [x EXCEPT !.mapInfo = f] = [m EXCEPT !.mapInfo = f, !.vvTried = w, !.nTried = m.nTried + 1]
  BY DEF Managers
<1> QED
  BY <1>2, <1>3, <1>4

LEMMA MakeTriedOk ==
    ASSUME NEW m, AmOk(m, 0), Loose(m) = {}, NEW n \in Untried(m)
    PROVE  LET r == MakeTried(m, n)
           IN  AmOk(r, 0) /\ Loose(r) = {} /\ Keeps(m, r)
<1> DEFINE a == m.mapInfo[n].addr
           t == TriedSlotOf[a]
           e == m.vvTried[t]
           out == Unslotted(m, n)
           d == Flagged(out, e, FALSE, t, NoId, out.nTried - 1)
           room == IF e = NoId THEN out ELSE Demoted(d, e)
           r == Flagged(room, n, TRUE, t, n, room.nTried + 1)
<1>1. m \in Managers /\ NewOk(m) /\ TriedOk(m)
  BY DEF AmOk
<1>2. n \in DOMAIN m.mapInfo /\ ~m.mapInfo[n].fInTried
  BY DEF Untried
<1>3. a \in Service /\ t \in TriedSlot
  <2>1. a \in Service
    BY <1>1, <1>2, EntryIs
  <2>2. TriedSlotOf \in [Service -> TriedSlot]
    BY AddrAssumption, Zenon
  <2> QED
    BY <2>1, <2>2
<1>4. {s \in NewSlotsOf[a] : m.vvNew[s] = n} = SlotsWith(m, n)
  <2>1. NewSlotsOf[a] \subseteq NewSlot
    <3>1. NewSlotsOf \in [Service -> SUBSET NewSlot]
      BY AddrAssumption, Zenon
    <3> QED
      BY <1>3, <3>1
  <2>2. n # NoId
    BY <1>1, <1>2, EntryIs
  <2>3. \A s \in NewSlot : m.vvNew[s] = n => s \in NewSlotsOf[a]
    BY <1>1, <2>2 DEF NewOk
  <2> QED
    BY <2>1, <2>3 DEF SlotsWith
<1>5. m.mapInfo[n].nRefCount - Cardinality(SlotsWith(m, n)) = 0
  <2>1. m.mapInfo[n].nRefCount = Cardinality(SlotsWith(m, n)) /\ m.mapInfo[n].nRefCount \in Nat
    BY <1>1, <1>2, EntryIs DEF NewOk
  <2> QED
    BY <2>1
<1>6. /\ AmOk(out, 1) /\ Loose(out) = Loose(m) \cup {n} /\ out.nTried = m.nTried
      /\ SameMaps(m, out) /\ SameTried(m, out)
  BY UnslottedOk
<1> DEFINE held == {s \in NewSlotsOf[a] : m.vvNew[s] = n}
           left == m.mapInfo[n].nRefCount - Cardinality(held)
           o == [Asserted(m, left = 0) EXCEPT
                  !.vvNew = [s \in NewSlot |-> IF s \in held THEN NoId ELSE @[s]],
                  !.mapInfo[n].nRefCount = left, !.nNew = @ - 1]
           x == [o EXCEPT !.mapInfo[e].fInTried = FALSE, !.vvTried[t] = NoId, !.nTried = @ - 1]
           rm == IF e = NoId THEN o ELSE Demoted(x, e)
<1>7. MakeTried(m, n) = [rm EXCEPT !.vvTried[t] = n, !.nTried = @ + 1, !.mapInfo[n].fInTried = TRUE]
  BY Zenon DEF MakeTried
<1>8. o = out
  <2>1. held = SlotsWith(m, n)
    BY <1>4
  <2>2. left = 0
    BY <1>5, <2>1
  <2>3. Asserted(m, left = 0) = m
    BY <1>1, <2>2, AssertedIs
  <2> HIDE DEF held, left
  <2> QED
    BY <2>1, <2>2, <2>3 DEF Unslotted
<1> HIDE DEF o, out
<1>9. rm = room
  <2>1. out \in Managers
    BY <1>6 DEF AmOk
  <2>2. [out EXCEPT !.mapInfo[e].fInTried = FALSE, !.vvTried[t] = NoId, !.nTried = @ - 1] = d
    BY <2>1 DEF Flagged, Managers
  <2>3. x = [out EXCEPT !.mapInfo[e].fInTried = FALSE, !.vvTried[t] = NoId, !.nTried = @ - 1]
    BY <1>8
  <2>4. x = d
    BY <2>2, <2>3
  <2> HIDE DEF x, d
  <2> QED
    BY <1>8, <2>4
<1> HIDE DEF a, t, e, d, x, room, rm, r
<1>10. n \in DOMAIN out.mapInfo /\ out.mapInfo[n].addr = a /\ n \in Loose(out) /\ out.vvTried = m.vvTried /\ out.vvTried[t] = e
  BY <1>2, <1>6 DEF SameMaps, SameTried, a, e
<1>11. /\ AmOk(room, 1) /\ n \in Loose(room) /\ Loose(room) = {n} /\ Keeps(m, room)
       /\ room.vvTried[t] = NoId /\ room.mapInfo[n].addr = a
  <2>1. CASE e = NoId
    <3>1. room = out
      BY <2>1 DEF room
    <3>2. Keeps(m, out)
      BY <1>6 DEF Keeps, SameMaps
    <3> QED
      BY <1>6, <1>10, <2>1, <3>1, <3>2
  <2>2. CASE e # NoId
    <3>1. room = Demoted(d, e)
      BY <2>2 DEF room
    <3>2. /\ AmOk(d, 2) /\ Loose(d) = Loose(out) \cup {e} /\ e \in DOMAIN out.mapInfo
          /\ SameButTried(out, d, e, FALSE, t, NoId, out.nTried - 1)
      <4>1. 1 \in Nat /\ 1 + 1 = 2
        OBVIOUS
      <4>2. /\ AmOk(d, 1 + 1) /\ Loose(d) = Loose(out) \cup {e} /\ e \in DOMAIN out.mapInfo
            /\ SameButTried(out, d, e, FALSE, t, NoId, out.nTried - 1)
        BY <1>3, <1>6, <1>10, <2>2, <4>1, TriedOutOk DEF d
      <4> QED
        BY <4>1, <4>2
    <3>3. e # n
      BY <1>1, <1>2, <1>3, <2>2 DEF TriedOk, e
    <3>4. e \in Loose(d) /\ n \in Loose(d)
      BY <1>6, <3>2
    <3>5. /\ AmOk(room, 1) /\ Loose(room) = Loose(d) \ {e} /\ room.vvTried = d.vvTried /\ Keeps(d, room)
          /\ e \in DOMAIN room.mapInfo /\ room.mapInfo[e].addr = d.mapInfo[e].addr
          /\ n \in DOMAIN room.mapInfo /\ room.mapInfo[n].addr = d.mapInfo[n].addr
      BY <3>1, <3>2, <3>3, <3>4, DemotedOk
    <3>6. Loose(room) = {n}
      BY <1>6, <3>2, <3>3, <3>5
    <3>7. SameMaps(out, d) /\ d.vvTried[t] = NoId
          /\ \A i \in DOMAIN out.mapInfo : i # e => d.mapInfo[i].fInTried = out.mapInfo[i].fInTried
      BY <1>3, <3>2 DEF SameButTried
    <3>8. Keeps(m, room)
      <4> SUFFICES ASSUME NEW i \in DOMAIN m.mapInfo, m.mapInfo[i].fInTried
                   PROVE  i \in DOMAIN room.mapInfo /\ room.mapInfo[i].addr = m.mapInfo[i].addr
        BY DEF Keeps
      <4>1. i \in DOMAIN d.mapInfo /\ d.mapInfo[i].addr = m.mapInfo[i].addr
        BY <1>6, <3>7 DEF SameMaps
      <4>2. CASE i = e
        BY <3>5, <4>1, <4>2
      <4>3. CASE i # e
        <5>1. d.mapInfo[i].fInTried
          BY <1>6, <3>7, <4>3 DEF SameMaps, SameTried
        <5> QED
          BY <3>5, <4>1, <5>1 DEF Keeps
      <4> QED
        BY <4>2, <4>3
    <3>9. room.mapInfo[n].addr = a
      BY <1>10, <3>5, <3>7 DEF SameMaps
    <3> QED
      BY <3>5, <3>6, <3>7, <3>8, <3>9
  <2> QED
    BY <2>1, <2>2
<1>12. /\ AmOk(r, 0) /\ Loose(r) = Loose(room) \ {n}
       /\ SameButTried(room, r, n, TRUE, t, n, room.nTried + 1)
  <2>1. t = TriedSlotOf[room.mapInfo[n].addr]
    BY <1>11 DEF t
  <2>2. room.vvTried[TriedSlotOf[room.mapInfo[n].addr]] = NoId
    BY <1>11, <2>1
  <2>3. r = Flagged(room, n, TRUE, TriedSlotOf[room.mapInfo[n].addr], n, room.nTried + 1)
    BY <2>1 DEF r
  <2>4. AmOk(room, 1) /\ n \in Loose(room)
    BY <1>11
  <2>5. /\ AmOk(r, 0) /\ Loose(r) = Loose(room) \ {n}
        /\ SameButTried(room, r, n, TRUE, TriedSlotOf[room.mapInfo[n].addr], n, room.nTried + 1)
    BY <2>2, <2>3, <2>4, TriedInOk
  <2> QED
    BY <2>1, <2>5
<1>13. MakeTried(m, n) = r
  <2>1. room \in Managers
    BY <1>11 DEF AmOk
  <2> QED
    BY <1>7, <1>9, <2>1, FlaggedOrder DEF r
<1>14. Keeps(m, r)
  BY <1>11, <1>12 DEF Keeps, SameButTried, SameMaps
<1>15. Loose(r) = {}
  BY <1>11, <1>12
<1> QED
  BY <1>12, <1>13, <1>14, <1>15

-----------------------------------------------------------------------------
(* The operations between two restarts.                                     *)

\* Every structure describes the same entries, each of which has a slot.
ManagerInv == AmOk(am, 0) /\ Loose(am) = {}

\* What an operation does to a manager for which that holds.
Preserved(m, r) == AmOk(r, 0) /\ Loose(r) = {} /\ Keeps(m, r)

LEMMA FindIs ==
    ASSUME NEW m, AmOk(m, 0), NEW a \in Service, Known(m, a)
    PROVE  Find(m, a) \in DOMAIN m.mapInfo
<1>1. MapsOk(m)
  BY DEF AmOk
<1> QED
  BY <1>1 DEF MapsOk, Known, Find

LEMMA GoodOk ==
    ASSUME ManagerInv, NEW a \in Service, Good(a)
    PROVE  Preserved(am, am')
<1> DEFINE n == Find(am, a)
<1>1. AmOk(am, 0) /\ Loose(am) = {}
  BY DEF ManagerInv
<1>2. Known(am, a) /\ ~am.mapInfo[n].fInTried /\ am' = MakeTried(am, n)
  BY Zenon DEF Good
<1>3. n \in DOMAIN am.mapInfo
  BY <1>1, <1>2, FindIs
<1>4. n \in Untried(am)
  BY <1>2, <1>3 DEF Untried
<1> HIDE DEF n
<1> QED
  BY <1>1, <1>2, <1>4, MakeTriedOk DEF Preserved

LEMMA AddKnownOk ==
    ASSUME ManagerInv, NEW a \in Service, NEW src \in Source, AddKnown(a, src)
    PROVE  Preserved(am, am')
<1> DEFINE n == Find(am, a)
           s == NewSlotOf[<<am.mapInfo[n].addr, src>>]
<1>1. AmOk(am, 0) /\ Loose(am) = {} /\ am \in Managers /\ NewOk(am)
  BY DEF ManagerInv, AmOk
<1>2. Known(am, a) /\ ~am.mapInfo[n].fInTried /\ am.mapInfo[n].nRefCount # ADDRMAN_NEW_BUCKETS_PER_ADDRESS
  BY Zenon DEF AddKnown
<1>3. PICK terrible \in BOOLEAN : am' = Entered(am, n, s, terrible)
  BY Zenon DEF AddKnown
<1>4. n \in DOMAIN am.mapInfo
  BY <1>1, <1>2, FindIs
<1>5. n \in Untried(am)
  BY <1>2, <1>4 DEF Untried
<1>6. s \in NewSlot /\ s \in NewSlotsOf[am.mapInfo[n].addr]
  <2>1. am.mapInfo[n].addr \in Service
    BY <1>1, <1>4, EntryIs
  <2> QED
    BY <2>1, SlotIs
<1>7. am.mapInfo[n].nRefCount < ADDRMAN_NEW_BUCKETS_PER_ADDRESS
  <2>1. am.mapInfo[n].nRefCount \in Nat /\ am.mapInfo[n].nRefCount <= ADDRMAN_NEW_BUCKETS_PER_ADDRESS
    BY <1>1, <1>4, EntryIs DEF NewOk
  <2> HIDE DEF n
  <2> QED
    BY <1>2, <2>1, LimitIs
<1>8. Loose(am) \subseteq {n}
  BY <1>1
<1> HIDE DEF n, s
<1> QED
  BY <1>1, <1>3, <1>5, <1>6, <1>7, <1>8, EnteredOk DEF Preserved

LEMMA AddNewOk ==
    ASSUME ManagerInv, NEW a \in Service, NEW src \in Source, AddNew(a, src)
    PROVE  Preserved(am, am')
<1> DEFINE n == NewId(am)
           c == Created(am, a, src)
           s == NewSlotOf[<<a, src>>]
<1>1. AmOk(am, 0) /\ Loose(am) = {}
  BY DEF ManagerInv
<1>2. ~Known(am, a)
  BY DEF AddNew
<1>3. PICK terrible \in BOOLEAN : am' = Entered(c, n, s, terrible)
  BY Zenon DEF AddNew, Created
<1>4. /\ AmOk(c, 0) /\ Loose(c) = Loose(am) \cup {n} /\ Keeps(am, c)
      /\ n \in Untried(c) /\ c.mapInfo[n].addr = a /\ c.mapInfo[n].nRefCount = 0
  BY <1>1, <1>2, CreatedOk
<1>5. s \in NewSlot /\ s \in NewSlotsOf[a]
  BY SlotIs
<1> HIDE DEF n, c, s
<1>6. s \in NewSlotsOf[c.mapInfo[n].addr] /\ c.mapInfo[n].nRefCount < ADDRMAN_NEW_BUCKETS_PER_ADDRESS
      /\ Loose(c) \subseteq {n}
  BY <1>1, <1>4, <1>5, LimitIs
<1>7. AmOk(am', 0) /\ Loose(am') = {} /\ Keeps(c, am')
  BY <1>3, <1>4, <1>5, <1>6, EnteredOk
<1>8. Keeps(am, am')
  <2> SUFFICES ASSUME NEW i \in DOMAIN am.mapInfo, am.mapInfo[i].fInTried
               PROVE  i \in DOMAIN am'.mapInfo /\ am'.mapInfo[i].addr = am.mapInfo[i].addr
    BY DEF Keeps
  <2>1. i \in DOMAIN c.mapInfo /\ c.mapInfo[i].addr = am.mapInfo[i].addr
    BY <1>4 DEF Keeps
  <2>2. c.mapInfo[i].fInTried
    <3>1. am \in Managers /\ NewId(am) \in Id /\ NewId(am) \notin DOMAIN am.mapInfo
      BY <1>1, NewIdIs DEF AmOk
    <3>2. c.mapInfo[i] = am.mapInfo[i]
      BY <3>1, CreatedIs DEF c
    <3> QED
      BY <3>2
  <2> QED
    BY <1>7, <2>1, <2>2 DEF Keeps
<1> QED
  BY <1>7, <1>8 DEF Preserved

LEMMA GetAddrOk ==
    ASSUME ManagerInv, GetAddr
    PROVE  Preserved(am, am')
<1>1. AmOk(am, 0) /\ Loose(am) = {}
  BY DEF ManagerInv
<1>2. PICK i \in 1..Len(am.vRandom), j \in 1..Len(am.vRandom) : am' = SwapRandom(am, i, j)
  BY DEF GetAddr
<1>3. AmOk(am', 0) /\ SameMaps(am, am') /\ Loose(am') = Loose(am)
  BY <1>1, <1>2, SwapOk
<1> QED
  BY <1>1, <1>3 DEF Preserved, Keeps, SameMaps

-----------------------------------------------------------------------------
(* The order of peers.dat.                                                  *)

\* Index numbers the elements of a set of ids from 1 on, and EntryAt is its inverse.
LEMMA IndexIs ==
    ASSUME NEW S \in SUBSET Id
    PROVE  /\ Cardinality(S) \in Nat
           /\ \A n \in S : Index(S, n) \in 1..Cardinality(S) /\ EntryAt(S, Index(S, n)) = n
           /\ \A k \in 1..Cardinality(S) : EntryAt(S, k) \in S /\ Index(S, EntryAt(S, k)) = k
<1> DEFINE T(n) == {i \in S : i <= n}
           h == [n \in S |-> Index(S, n)]
           N == Cardinality(S)
<1>1. S \subseteq Nat /\ IsFiniteSet(S) /\ N \in Nat
  BY IdIs, FS_Subset, FS_CardinalityType
<1>2. \A n : Index(S, n) = Cardinality(T(n)) /\ T(n) \subseteq S
  BY DEF Index
<1>3. ASSUME NEW n \in S PROVE Index(S, n) \in 1..N
  <2>1. n \in T(n)
    BY <1>1
  <2>2. IsFiniteSet(T(n)) /\ Cardinality(T(n)) <= N /\ Cardinality(T(n)) \in Nat
    BY <1>1, <1>2, FS_Subset, FS_CardinalityType
  <2>3. Cardinality(T(n)) # 0
    BY <2>1, <2>2, FS_EmptySet
  <2> HIDE DEF T, N
  <2> QED
    BY <1>1, <1>2, <2>2, <2>3
<1>4. ASSUME NEW n \in S, NEW p \in S, n < p PROVE Index(S, n) # Index(S, p)
  <2>1. T(n) \subseteq T(p) /\ p \in T(p) /\ p \notin T(n)
    <3>1. n \in Nat /\ p \in Nat /\ \A i \in S : i \in Nat
      BY <1>1
    <3>2. \A i \in S : i <= n => i <= p
      BY <1>4, <3>1
    <3>3. p <= p /\ ~(p <= n)
      BY <1>4, <3>1
    <3> QED
      BY <3>2, <3>3
  <2>2. IsFiniteSet(T(p))
    BY <1>1, <1>2, FS_Subset
  <2> HIDE DEF T
  <2>3. Cardinality(T(p)) = Cardinality(T(n)) => T(p) = T(n)
    BY <2>1, <2>2, FS_Subset
  <2> QED
    BY <1>2, <2>1, <2>3
<1>5. ASSUME NEW n \in S, NEW p \in S, Index(S, n) = Index(S, p) PROVE n = p
  <2>1. n \in Nat /\ p \in Nat
    BY <1>1
  <2>2. ~(n < p) /\ ~(p < n)
    BY <1>4, <1>5
  <2> QED
    BY <2>1, <2>2
<1> HIDE DEF T, N
<1>6. h \in Injection(S, 1..N)
  <2>1. h \in [S -> 1..N]
    BY <1>3
  <2>2. \A n, p \in S : h[n] = h[p] => n = p
    BY <1>5
  <2> QED
    BY <2>1, <2>2 DEF Injection, IsInjective
<1>7. h \in Surjection(S, 1..N)
  <2>1. IsFiniteSet(1..N) /\ Cardinality(1..N) = N
    BY <1>1, FS_Interval
  <2>2. Cardinality(S) = Cardinality(1..N)
    BY <2>1 DEF N
  <2> HIDE DEF h
  <2> QED
    BY <1>6, <2>1, <2>2, FS_Injection
<1>8. \A k \in 1..N : \E n \in S : Index(S, n) = k
  BY <1>7 DEF Surjection
<1>9. ASSUME NEW k \in 1..N PROVE EntryAt(S, k) \in S /\ Index(S, EntryAt(S, k)) = k
  BY <1>8, Zenon DEF EntryAt
<1>10. ASSUME NEW n \in S PROVE EntryAt(S, Index(S, n)) = n
  <2>1. Index(S, n) \in 1..N
    BY <1>3
  <2>2. EntryAt(S, Index(S, n)) \in S /\ Index(S, EntryAt(S, Index(S, n))) = Index(S, n)
    BY <1>9, <2>1
  <2> QED
    BY <1>5, <2>2
<1> QED
  BY <1>1, <1>3, <1>9, <1>10 DEF N

\* The id in the file's manager of the entry numbered k.
Former(f, k) == IF k <= f.nNew THEN EntryAt(InNew(f), k) ELSE EntryAt(InTried(f), k - f.nNew)

\* A file that Serialize has written.
IsFile(f) == AmOk(f, 0) /\ Loose(f) = {}

\* How many entries there are in it.
LEMMA FileCounts ==
    ASSUME NEW f, IsFile(f)
    PROVE  /\ InNew(f) = Untried(f) /\ InNew(f) \in SUBSET Id /\ InTried(f) \in SUBSET Id
           /\ f.nNew \in Nat /\ f.nTried \in Nat
           /\ Cardinality(InNew(f)) = f.nNew /\ Cardinality(InTried(f)) = f.nTried
<1>1. f \in Managers /\ NewOk(f) /\ CountsOk(f, 0) /\ Loose(f) = {}
  BY DEF IsFile, AmOk
<1>2. InNew(f) = Untried(f)
  BY <1>1 DEF InNew, Untried, Loose, NewOk
<1>3. InNew(f) \in SUBSET Id /\ InTried(f) \in SUBSET Id
  BY <1>1, EntryIs DEF InNew, InTried
<1>4. f.nNew \in Int /\ f.nTried \in Int
  BY <1>1 DEF Managers
<1>5. f.nNew + 0 = Cardinality(Untried(f)) /\ f.nTried = Cardinality(InTried(f))
  BY <1>1 DEF CountsOk
<1>6. Cardinality(Untried(f)) \in Nat /\ Cardinality(InTried(f)) \in Nat
  BY <1>1, KindsFinite
<1> QED
  BY <1>2, <1>3, <1>4, <1>5, <1>6

\* The numbers in the file and the ids before correspond.
LEMMA FormerIs ==
    ASSUME NEW f, IsFile(f)
    PROVE  LET N == f.nNew + f.nTried
           IN  /\ N \in Nat /\ 1..N \subseteq Id
               /\ \A k \in 1..N : /\ Former(f, k) \in DOMAIN f.mapInfo
                                  /\ f.mapInfo[Former(f, k)].fInTried <=> k > f.nNew
               /\ \A k, l \in 1..N : Former(f, k) = Former(f, l) => k = l
               /\ \A i \in InNew(f) : Index(InNew(f), i) \in 1..f.nNew /\ Former(f, Index(InNew(f), i)) = i
               /\ \A i \in InTried(f) : \E k \in 1..N : Former(f, k) = i
<1> DEFINE N == f.nNew + f.nTried
           A == InNew(f)
           B == InTried(f)
<1>1. /\ A = Untried(f) /\ A \in SUBSET Id /\ B \in SUBSET Id
      /\ f.nNew \in Nat /\ f.nTried \in Nat /\ Cardinality(A) = f.nNew /\ Cardinality(B) = f.nTried
  BY FileCounts
<1>2. \A n \in A : n \in DOMAIN f.mapInfo /\ ~f.mapInfo[n].fInTried
  BY <1>1 DEF Untried
<1>3. \A n \in B : n \in DOMAIN f.mapInfo /\ f.mapInfo[n].fInTried
  BY DEF InTried
<1> HIDE DEF A, B
<1>4. /\ \A n \in A : Index(A, n) \in 1..f.nNew /\ EntryAt(A, Index(A, n)) = n
      /\ \A k \in 1..f.nNew : EntryAt(A, k) \in A /\ Index(A, EntryAt(A, k)) = k
  BY <1>1, IndexIs
<1>5. /\ \A n \in B : Index(B, n) \in 1..f.nTried /\ EntryAt(B, Index(B, n)) = n
      /\ \A k \in 1..f.nTried : EntryAt(B, k) \in B /\ Index(B, EntryAt(B, k)) = k
  BY <1>1, IndexIs
<1>6. \A k \in 1..N : Former(f, k) = IF k <= f.nNew THEN EntryAt(A, k) ELSE EntryAt(B, k - f.nNew)
  BY DEF Former, A, B
<1>7. \A k \in 1..N : k <= f.nNew => k \in 1..f.nNew /\ Former(f, k) = EntryAt(A, k)
  BY <1>1, <1>6
<1>8. \A k \in 1..N : k > f.nNew => k - f.nNew \in 1..f.nTried /\ Former(f, k) = EntryAt(B, k - f.nNew)
  BY <1>1, <1>6
<1>9. \A k \in 1..N : k <= f.nNew \/ k > f.nNew
  BY <1>1
<1>10. \A k \in 1..N : /\ k <= f.nNew => Former(f, k) \in A
                       /\ k > f.nNew => Former(f, k) \in B
  BY <1>4, <1>5, <1>7, <1>8
<1>11. ASSUME NEW k \in 1..N
       PROVE  Former(f, k) \in DOMAIN f.mapInfo /\ (f.mapInfo[Former(f, k)].fInTried <=> k > f.nNew)
  <2>1. CASE k <= f.nNew
    <3>1. Former(f, k) \in A /\ ~(k > f.nNew)
      BY <1>1, <1>10, <2>1
    <3> QED
      BY <1>2, <3>1
  <2>2. CASE k > f.nNew
    <3>1. Former(f, k) \in B
      BY <1>10, <2>2
    <3> QED
      BY <1>3, <2>2, <3>1
  <2> QED
    BY <1>9, <2>1, <2>2
<1>12. ASSUME NEW k \in 1..N, NEW l \in 1..N, Former(f, k) = Former(f, l) PROVE k = l
  <2>1. k > f.nNew <=> l > f.nNew
    BY <1>11, <1>12
  <2>2. CASE k <= f.nNew /\ l <= f.nNew
    BY <1>4, <1>7, <1>12, <2>2
  <2>3. CASE k > f.nNew /\ l > f.nNew
    <3>1. k - f.nNew = l - f.nNew
      BY <1>5, <1>8, <1>12, <2>3
    <3> QED
      BY <1>1, <3>1
  <2> QED
    BY <1>9, <2>1, <2>2, <2>3
<1>13. ASSUME NEW i \in A PROVE Index(A, i) \in 1..f.nNew /\ Former(f, Index(A, i)) = i
  <2>1. Index(A, i) \in 1..f.nNew /\ EntryAt(A, Index(A, i)) = i
    BY <1>4
  <2>2. Index(A, i) \in 1..N /\ Index(A, i) <= f.nNew
    BY <1>1, <2>1
  <2> QED
    BY <1>7, <2>1, <2>2
<1>14. ASSUME NEW i \in B PROVE \E k \in 1..N : Former(f, k) = i
  <2>1. Index(B, i) \in 1..f.nTried /\ EntryAt(B, Index(B, i)) = i
    BY <1>5
  <2> DEFINE k == f.nNew + Index(B, i)
  <2>2. k \in 1..N /\ k > f.nNew /\ k - f.nNew = Index(B, i)
    BY <1>1, <2>1
  <2>3. Former(f, k) = i
    BY <1>8, <2>1, <2>2
  <2> QED
    BY <2>2, <2>3
<1>15. N \in Nat /\ 1..N \subseteq Id
  <2>1. N \in Nat
    BY <1>1
  <2> DEFINE h == [k \in 1..N |-> Former(f, k)]
  <2>2. \A k \in 1..N : Former(f, k) \in Id
    <3>1. f \in Managers
      BY DEF IsFile, AmOk
    <3> QED
      BY <1>11, <3>1, EntryIs
  <2>3. h \in Injection(1..N, Id)
    <3>1. h \in [1..N -> Id]
      BY <2>2
    <3>2. \A k, l \in 1..N : h[k] = h[l] => k = l
      BY <1>12
    <3> QED
      BY <3>1, <3>2 DEF Injection, IsInjective
  <2>4. Cardinality(1..N) <= Cardinality(Id)
    <3> HIDE DEF h, N
    <3> QED
      BY <2>3, IdIs, FS_Injection
  <2>5. Cardinality(1..N) = N
    <3> HIDE DEF N
    <3> QED
      BY <2>1, FS_Interval
  <2> HIDE DEF N
  <2> QED
    BY <2>1, <2>4, <2>5, IdIs DEF Id
<1> QED
  BY <1>11, <1>12, <1>13, <1>14, <1>15 DEF A, B

-----------------------------------------------------------------------------
(* What Unserialize reads.                                                  *)

LEMMA EmptyIs ==
    /\ Empty \in Managers
    /\ DOMAIN Empty.mapInfo = {} /\ DOMAIN Empty.mapAddr = {}
    /\ Empty.vRandom = <<>> /\ Empty.vvNew = [s \in NewSlot |-> NoId] /\ Empty.vvTried = [s \in TriedSlot |-> NoId]
    /\ Empty.nNew = 0 /\ Empty.nTried = 0
<1>1. <<>> \in InfoMaps /\ <<>> \in AddrMaps /\ <<>> \in Seq(Id) /\ DOMAIN <<>> = {}
  <2>1. DOMAIN <<>> = {} /\ <<>> = [x \in {} |-> <<>>[x]] /\ <<>> \in Seq(Id)
    OBVIOUS
  <2> QED
    BY <2>1, InfoMapIs, AddrMapIs
<1>2. [s \in NewSlot |-> NoId] \in [NewSlot -> Id \cup {NoId}]
      /\ [s \in TriedSlot |-> NoId] \in [TriedSlot -> Id \cup {NoId}]
  OBVIOUS
<1> QED
  BY <1>1, <1>2 DEF Empty, Managers

\* The file's entries under their new numbers, none of the new ones with a slot yet.
IsRead(f, r) ==
    LET N == f.nNew + f.nTried
    IN  /\ r \in Managers /\ DOMAIN r.mapInfo = 1..N
        /\ \A i \in 1..N : /\ r.mapInfo[i].addr = f.mapInfo[Former(f, i)].addr
                           /\ r.mapInfo[i].nRefCount = 0 /\ r.mapInfo[i].nRandomPos = i
                           /\ r.mapInfo[i].fInTried <=> i > f.nNew
        /\ DOMAIN r.mapAddr = {NetAddr[r.mapInfo[i].addr] : i \in 1..N}
        /\ \A x \in DOMAIN r.mapAddr : r.mapAddr[x] \in 1..N /\ NetAddr[r.mapInfo[r.mapAddr[x]].addr] = x
        /\ Len(r.vRandom) = N /\ \A i \in 1..N : r.vRandom[i] = i
        /\ \A s \in NewSlot : r.vvNew[s] = NoId
        /\ \A s \in TriedSlot : \/ /\ r.vvTried[s] = NoId
                                   /\ \A i \in 1..N : r.mapInfo[i].fInTried => TriedSlotOf[r.mapInfo[i].addr] # s
                                \/ /\ r.vvTried[s] \in 1..N /\ r.mapInfo[r.vvTried[s]].fInTried
                                   /\ TriedSlotOf[r.mapInfo[r.vvTried[s]].addr] = s
        /\ r.nNew = f.nNew /\ r.nTried = f.nTried

LEMMA ReadIs ==
    ASSUME NEW f, IsFile(f)
    PROVE  IsRead(f, ReadEntries(f, f.nNew + f.nTried))
<1> DEFINE N == f.nNew + f.nTried
           old(i) == f.mapInfo[Former(f, i)]
           info == [i \in 1..N |-> ReadEntry(f, i)]
           tried(s) == {i \in 1..N : info[i].fInTried /\ TriedSlotOf[info[i].addr] = s}
           X == {NetAddr[info[i].addr] : i \in 1..N}
           maps == [x \in X |-> CHOOSE i \in 1..N : NetAddr[info[i].addr] = x]
           v == [i \in 1..N |-> i]
           w == [s \in TriedSlot |-> IF tried(s) = {} THEN NoId ELSE CHOOSE i \in tried(s) : TRUE]
           r == [Empty EXCEPT !.mapInfo = info, !.mapAddr = maps, !.vRandom = v, !.vvTried = w,
                              !.nNew = f.nNew, !.nTried = f.nTried]
<1>1. ReadEntries(f, N) = r
  BY Zenon DEF ReadEntries
<1>2. /\ N \in Nat /\ 1..N \subseteq Id
      /\ \A k \in 1..N : Former(f, k) \in DOMAIN f.mapInfo /\ (f.mapInfo[Former(f, k)].fInTried <=> k > f.nNew)
  BY FormerIs
<1>3. f \in Managers /\ f.nNew \in Nat /\ f.nTried \in Nat
  BY FileCounts DEF IsFile, AmOk
<1>4. \A i \in 1..N : old(i).addr \in Service /\ old(i).source \in Source
  BY <1>2, <1>3, EntryIs
<1>5. ASSUME NEW i \in 1..N
      PROVE  /\ info[i] \in Info /\ info[i].addr = old(i).addr /\ info[i].nRefCount = 0
             /\ info[i].nRandomPos = i /\ (info[i].fInTried <=> i > f.nNew)
  <2>1. Written(f, i) = old(i)
    BY DEF Written, Former
  <2>2. info[i] = [addr |-> old(i).addr, source |-> old(i).source, nRefCount |-> 0,
                   fInTried |-> i > f.nNew, nRandomPos |-> i]
    BY <2>1 DEF ReadEntry, CAddrInfo
  <2>3. i \in Nat /\ old(i).addr \in Service /\ old(i).source \in Source
    BY <1>4
  <2> HIDE DEF info, old
  <2>4. CASE i > f.nNew
    <3>1. info[i] = [addr |-> old(i).addr, source |-> old(i).source, nRefCount |-> 0,
                     fInTried |-> TRUE, nRandomPos |-> i]
      <4>1. (i > f.nNew) = TRUE
        BY <2>4
      <4> QED
        BY <2>2, <4>1, Zenon
    <3> QED
      BY <2>3, <2>4, <3>1 DEF Info
  <2>5. CASE ~(i > f.nNew)
    <3>1. info[i] = [addr |-> old(i).addr, source |-> old(i).source, nRefCount |-> 0,
                     fInTried |-> FALSE, nRandomPos |-> i]
      <4>1. (i > f.nNew) = FALSE
        BY <2>5
      <4> QED
        BY <2>2, <4>1, Zenon
    <3> QED
      BY <2>3, <2>5, <3>1 DEF Info
  <2> QED
    BY <2>4, <2>5
<1>6. DOMAIN info = 1..N /\ info \in InfoMaps
  <2>1. DOMAIN info = 1..N /\ info = [i \in DOMAIN info |-> info[i]]
    OBVIOUS
  <2> HIDE DEF info, N, old
  <2> QED
    BY <1>2, <1>5, <2>1, InfoMapIs
<1> HIDE DEF N, old, info
<1>7. \A x \in X : maps[x] \in 1..N /\ NetAddr[info[maps[x]].addr] = x
  <2> SUFFICES ASSUME NEW x \in X PROVE maps[x] \in 1..N /\ NetAddr[info[maps[x]].addr] = x
    OBVIOUS
  <2>1. \E i \in 1..N : NetAddr[info[i].addr] = x
    OBVIOUS
  <2>2. maps[x] = CHOOSE i \in 1..N : NetAddr[info[i].addr] = x
    BY Zenon
  <2> HIDE DEF maps, X
  <2> QED
    BY <2>1, <2>2, Zenon
<1>8. maps \in AddrMaps /\ DOMAIN maps = X
  <2>1. DOMAIN maps = X /\ maps = [x \in DOMAIN maps |-> maps[x]]
    OBVIOUS
  <2>2. X \subseteq {NetAddr[a] : a \in Service}
    BY <1>4, <1>5
  <2> HIDE DEF maps, X
  <2>3. \A x \in DOMAIN maps : maps[x] \in Id
    BY <1>2, <1>7, <2>1
  <2> QED
    BY <2>1, <2>2, <2>3, AddrMapIs
<1>9. v \in Seq(Id) /\ Len(v) = N /\ \A i \in 1..N : v[i] = i
  BY <1>2
<1>10. ASSUME NEW s \in TriedSlot
       PROVE  \/ w[s] = NoId /\ tried(s) = {}
              \/ w[s] \in tried(s)
  <2>1. w[s] = IF tried(s) = {} THEN NoId ELSE CHOOSE i \in tried(s) : TRUE
    BY Zenon
  <2> HIDE DEF w, tried
  <2>2. CASE tried(s) = {}
    BY <2>1, <2>2
  <2>3. CASE tried(s) # {}
    <3>1. \E i \in tried(s) : TRUE
      BY <2>3
    <3>2. w[s] = CHOOSE i \in tried(s) : TRUE
      BY <2>1, <2>3
    <3> QED
      BY <3>1, <3>2, Zenon
  <2> QED
    BY <2>2, <2>3
<1>11. w \in [TriedSlot -> Id \cup {NoId}]
  <2>1. \A s : tried(s) \subseteq Id
    BY <1>2
  <2> HIDE DEF tried
  <2>2. w = [s \in TriedSlot |-> w[s]]
    OBVIOUS
  <2> HIDE DEF w
  <2> QED
    BY <1>10, <2>1, <2>2
<1> HIDE DEF X, maps, v, w
<1>12. /\ r.mapInfo = info /\ r.mapAddr = maps /\ r.vRandom = v /\ r.vvTried = w /\ r.nNew = f.nNew
       /\ r.nTried = f.nTried /\ r.vvNew = [s \in NewSlot |-> NoId]
  BY EmptyIs DEF Managers
<1>13. r \in Managers
  <2>1. f.nNew \in Int /\ f.nTried \in Int
    BY <1>3
  <2> QED
    BY <1>6, <1>8, <1>9, <1>11, <2>1, EmptyIs DEF Managers
<1> HIDE DEF r
<1>14. \A s \in TriedSlot : \/ /\ r.vvTried[s] = NoId
                               /\ \A i \in 1..N : r.mapInfo[i].fInTried => TriedSlotOf[r.mapInfo[i].addr] # s
                            \/ /\ r.vvTried[s] \in 1..N /\ r.mapInfo[r.vvTried[s]].fInTried
                               /\ TriedSlotOf[r.mapInfo[r.vvTried[s]].addr] = s
  BY <1>10, <1>12
<1>15. /\ \A i \in 1..N : /\ r.mapInfo[i].addr = f.mapInfo[Former(f, i)].addr
                          /\ r.mapInfo[i].nRefCount = 0 /\ r.mapInfo[i].nRandomPos = i
                          /\ r.mapInfo[i].fInTried <=> i > f.nNew
       /\ DOMAIN r.mapInfo = 1..N
  BY <1>5, <1>6, <1>12 DEF old
<1>16. /\ DOMAIN r.mapAddr = {NetAddr[r.mapInfo[i].addr] : i \in 1..N}
       /\ \A x \in DOMAIN r.mapAddr : r.mapAddr[x] \in 1..N /\ NetAddr[r.mapInfo[r.mapAddr[x]].addr] = x
  BY <1>7, <1>8, <1>12 DEF X
<1>17. Len(r.vRandom) = N /\ \A i \in 1..N : r.vRandom[i] = i
  BY <1>9, <1>12
<1>18. \A s \in NewSlot : r.vvNew[s] = NoId
  BY <1>12
<1>19. IsRead(f, r)
  BY <1>12, <1>13, <1>14, <1>15, <1>16, <1>17, <1>18 DEF IsRead, N
<1> QED
  BY <1>1, <1>19 DEF N

\* Nothing collides, since nothing did before.
LEMMA ReadOk ==
    ASSUME NEW f, IsFile(f), NEW r, IsRead(f, r)
    PROVE  AmOk(r, 0) /\ Untried(r) = 1..f.nNew
<1> DEFINE N == f.nNew + f.nTried
<1>1. f \in Managers /\ MapsOk(f) /\ TriedOk(f) /\ f.nNew \in Nat /\ f.nTried \in Nat
  BY FileCounts DEF IsFile, AmOk
<1>2. /\ N \in Nat /\ 1..N \subseteq Id
      /\ \A k \in 1..N : Former(f, k) \in DOMAIN f.mapInfo /\ (f.mapInfo[Former(f, k)].fInTried <=> k > f.nNew)
      /\ \A k, l \in 1..N : Former(f, k) = Former(f, l) => k = l
  BY FormerIs
<1>3. r \in Managers /\ DOMAIN r.mapInfo = 1..N /\ r.nNew = f.nNew /\ r.nTried = f.nTried
  BY Zenon DEF IsRead
<1>4. \A i \in 1..N : /\ r.mapInfo[i].addr = f.mapInfo[Former(f, i)].addr
                      /\ r.mapInfo[i].nRefCount = 0 /\ r.mapInfo[i].nRandomPos = i
                      /\ r.mapInfo[i].fInTried <=> i > f.nNew
  BY Zenon DEF IsRead
<1>5. /\ DOMAIN r.mapAddr = {NetAddr[r.mapInfo[i].addr] : i \in 1..N}
      /\ \A x \in DOMAIN r.mapAddr : r.mapAddr[x] \in 1..N /\ NetAddr[r.mapInfo[r.mapAddr[x]].addr] = x
  BY Zenon DEF IsRead
<1>6. Len(r.vRandom) = N /\ \A i \in 1..N : r.vRandom[i] = i
  BY Zenon DEF IsRead
<1>7. \A s \in NewSlot : r.vvNew[s] = NoId
  BY Zenon DEF IsRead
<1>8. \A s \in TriedSlot : \/ /\ r.vvTried[s] = NoId
                              /\ \A i \in 1..N : r.mapInfo[i].fInTried => TriedSlotOf[r.mapInfo[i].addr] # s
                           \/ /\ r.vvTried[s] \in 1..N /\ r.mapInfo[r.vvTried[s]].fInTried
                              /\ TriedSlotOf[r.mapInfo[r.vvTried[s]].addr] = s
  BY Zenon DEF IsRead
<1> HIDE DEF N
<1>9. ASSUME NEW i \in 1..N, NEW j \in 1..N, NetAddr[r.mapInfo[i].addr] = NetAddr[r.mapInfo[j].addr]
      PROVE  i = j
  <2>1. NetAddr[f.mapInfo[Former(f, i)].addr] = NetAddr[f.mapInfo[Former(f, j)].addr]
    BY <1>9, <1>4
  <2>2. Former(f, i) = Former(f, j)
    BY <1>1, <1>2, <2>1 DEF MapsOk
  <2> QED
    BY <1>2, <2>2
<1>10. ASSUME NEW i \in 1..N, NEW j \in 1..N, i > f.nNew, j > f.nNew,
              TriedSlotOf[r.mapInfo[i].addr] = TriedSlotOf[r.mapInfo[j].addr]
       PROVE  i = j
  <2>1. TriedSlotOf[f.mapInfo[Former(f, i)].addr] = TriedSlotOf[f.mapInfo[Former(f, j)].addr]
    BY <1>10, <1>4
  <2>2. Former(f, i) = Former(f, j)
    BY <1>1, <1>2, <1>10, <2>1 DEF TriedOk
  <2> QED
    BY <1>2, <2>2
<1>11. MapsOk(r)
  <2>1. ASSUME NEW i \in 1..N
        PROVE  NetAddr[r.mapInfo[i].addr] \in DOMAIN r.mapAddr /\ r.mapAddr[NetAddr[r.mapInfo[i].addr]] = i
    <3>1. NetAddr[r.mapInfo[i].addr] \in DOMAIN r.mapAddr
      BY <1>5
    <3>2. r.mapAddr[NetAddr[r.mapInfo[i].addr]] \in 1..N
          /\ NetAddr[r.mapInfo[r.mapAddr[NetAddr[r.mapInfo[i].addr]]].addr] = NetAddr[r.mapInfo[i].addr]
      BY <1>5, <3>1
    <3> QED
      BY <1>9, <3>1, <3>2
  <2> QED
    BY <1>3, <1>5, <2>1 DEF MapsOk
<1>12. RandomOk(r)
  BY <1>3, <1>4, <1>6 DEF RandomOk
<1>13. NewOk(r)
  <2>1. ASSUME NEW i \in 1..N PROVE Cardinality(SlotsWith(r, i)) = 0
    <3>1. i # NoId
      BY <1>2, IdIs
    <3>2. SlotsWith(r, i) = {}
      BY <1>7, <3>1 DEF SlotsWith
    <3> QED
      BY <3>2, FS_EmptySet
  <2>2. 0 <= ADDRMAN_NEW_BUCKETS_PER_ADDRESS
    BY LimitIs
  <2> QED
    BY <1>3, <1>4, <1>7, <2>1, <2>2 DEF NewOk
<1>14. TriedOk(r)
  <2>1. ASSUME NEW i \in 1..N, r.mapInfo[i].fInTried
        PROVE  r.vvTried[TriedSlotOf[r.mapInfo[i].addr]] = i
    <3> DEFINE s == TriedSlotOf[r.mapInfo[i].addr]
    <3>1. s \in TriedSlot
      <4>1. TriedSlotOf \in [Service -> TriedSlot]
        BY AddrAssumption, Zenon
      <4>2. r.mapInfo[i].addr \in Service
        BY <1>3, EntryIs
      <4> QED
        BY <4>1, <4>2
    <3>2. r.vvTried[s] \in 1..N /\ r.mapInfo[r.vvTried[s]].fInTried /\ TriedSlotOf[r.mapInfo[r.vvTried[s]].addr] = s
      BY <1>8, <2>1, <3>1
    <3>3. i > f.nNew /\ r.vvTried[s] > f.nNew
      BY <1>4, <2>1, <3>2, Zenon
    <3> QED
      BY <1>10, <3>2, <3>3
  <2>2. \A s \in TriedSlot : r.vvTried[s] # NoId =>
            /\ r.vvTried[s] \in 1..N /\ r.mapInfo[r.vvTried[s]].fInTried
            /\ TriedSlotOf[r.mapInfo[r.vvTried[s]].addr] = s
    BY <1>8
  <2> QED
    BY <1>3, <2>1, <2>2 DEF TriedOk
<1>15. Untried(r) = 1..f.nNew /\ InTried(r) = (f.nNew + 1)..N
  <2>1. \A i \in 1..N : r.mapInfo[i].fInTried <=> i > f.nNew
    BY <1>4
  <2>2. Untried(r) = {i \in 1..N : ~(i > f.nNew)} /\ InTried(r) = {i \in 1..N : i > f.nNew}
    BY <1>3, <2>1 DEF Untried, InTried
  <2>3. {i \in 1..N : ~(i > f.nNew)} = 1..f.nNew /\ {i \in 1..N : i > f.nNew} = (f.nNew + 1)..N
    BY <1>1 DEF N
  <2> QED
    BY <2>2, <2>3
<1>16. CountsOk(r, 0)
  <2>1. Cardinality(1..f.nNew) = f.nNew
    BY <1>1, FS_Interval
  <2>2. Cardinality((f.nNew + 1)..N) = f.nTried
    <3>1. f.nNew + 1 \in Int /\ N \in Int
      BY <1>1, <1>2
    <3>2. Cardinality((f.nNew + 1)..N) = IF f.nNew + 1 > N THEN 0 ELSE N - (f.nNew + 1) + 1
      BY <3>1, FS_Interval
    <3> QED
      BY <1>1, <3>2 DEF N
  <2> QED
    BY <1>1, <1>3, <1>15, <1>6, <2>1, <2>2 DEF CountsOk, N
<1> QED
  BY <1>3, <1>11, <1>12, <1>13, <1>14, <1>15, <1>16 DEF AmOk

-----------------------------------------------------------------------------
(* The loops of Unserialize.                                                *)

\* One round of the loop over the slots of the file, of that over the new entries, or
\* of the pruning.
LoopStep(w, file, order, p, i) ==
    IF w = 1 THEN PlacedFrom(p, file, order[i]) ELSE IF w = 2 THEN PlacedOwn(p, i) ELSE Prune(p, i)

IsLoop(w, m, file, order, n, f) ==
    f = [i \in 0..n |-> IF i = 0 THEN m ELSE LoopStep(w, file, order, f[i - 1], i)]

\* The recursions have a solution.
LEMMA LoopExists ==
    ASSUME NEW w, NEW m, NEW file, NEW order
    PROVE  \A n \in Nat : \E f : IsLoop(w, m, file, order, n, f)
<1> DEFINE Bad == {n \in Nat : ~\E f : IsLoop(w, m, file, order, n, f)}
           At(x, i) == LoopStep(w, file, order, x, i)
<1> SUFFICES ASSUME Bad # {} PROVE FALSE
  OBVIOUS
<1>1. PICK n \in Bad : \A k \in Bad : n <= k
  <2>1. Bad \in SUBSET Nat
    OBVIOUS
  <2> HIDE DEF Bad
  <2> QED
    BY <2>1, LeastNatural
<1>2. n # 0
  <2>1. IsLoop(w, m, file, order, 0, [i \in 0..0 |-> m])
    BY DEF IsLoop
  <2> QED
    BY <2>1
<1>3. PICK f : IsLoop(w, m, file, order, n - 1, f)
  BY <1>1, <1>2
<1> DEFINE g == [i \in 0..n |-> IF i = n THEN At(f[n - 1], n) ELSE f[i]]
<1>4. \A i \in 0..(n - 1) : f[i] = IF i = 0 THEN m ELSE At(f[i - 1], i)
  <2> HIDE DEF Bad, g
  <2> QED
    BY <1>3, Zenon DEF IsLoop
<1> HIDE DEF At
<1>5. \A i \in 0..(n - 1) : g[i] = f[i]
  BY <1>2
<1>6. g[n] = At(f[n - 1], n) /\ g[n - 1] = f[n - 1]
  BY <1>2, <1>5
<1>7. g = [i \in 0..n |-> g[i]]
  OBVIOUS
<1> HIDE DEF g
<1>8. ASSUME NEW i \in 0..n PROVE g[i] = IF i = 0 THEN m ELSE At(g[i - 1], i)
  <2>1. CASE i = n
    BY <1>2, <1>6, <2>1
  <2>2. CASE i # n
    <3>1. i \in 0..(n - 1) /\ (i # 0 => i - 1 \in 0..(n - 1))
      BY <2>2
    <3> QED
      BY <3>1, <1>4, <1>5
  <2> QED
    BY <2>1, <2>2
<1>9. IsLoop(w, m, file, order, n, g)
  <2>1. g = [i \in 0..n |-> IF i = 0 THEN m ELSE At(g[i - 1], i)]
    BY <1>7, <1>8
  <2> QED
    BY <2>1, Zenon DEF IsLoop, At
<1> QED
  BY <1>9

\* The slots of the new table that are in use.
Occupied(file) == {s \in NewSlot : file.vvNew[s] # NoId}

LEMMA ReadSlotsIs ==
    ASSUME NEW m, NEW file, Len(SetToSeq(Occupied(file))) \in Nat
    PROVE  LET order == SetToSeq(Occupied(file))
           IN  \E f : /\ ReadSlots(m, file) = f[Len(order)] /\ f[0] = m
                      /\ \A i \in 1..Len(order) : f[i] = PlacedFrom(f[i - 1], file, order[i])
<1> DEFINE order == SetToSeq(Occupied(file))
           F == CHOOSE f : f = [i \in 0..Len(order) |->
                    IF i = 0 THEN m ELSE PlacedFrom(f[i - 1], file, order[i])]
<1>1. ReadSlots(m, file) = F[Len(order)]
  BY Zenon DEF ReadSlots, Occupied
<1> HIDE DEF order
<1>2. \E f : f = [i \in 0..Len(order) |-> IF i = 0 THEN m ELSE PlacedFrom(f[i - 1], file, order[i])]
  <2>1. PICK f : IsLoop(1, m, file, order, Len(order), f)
    BY LoopExists DEF order
  <2>2. \A p, i : LoopStep(1, file, order, p, i) = PlacedFrom(p, file, order[i])
    BY DEF LoopStep
  <2>3. f = [i \in 0..Len(order) |-> IF i = 0 THEN m ELSE PlacedFrom(f[i - 1], file, order[i])]
    BY <2>1, <2>2, Zenon DEF IsLoop
  <2> QED
    BY <2>3, Zenon
<1>3. F = [i \in 0..Len(order) |-> IF i = 0 THEN m ELSE PlacedFrom(F[i - 1], file, order[i])]
  BY <1>2, Zenon
<1> HIDE DEF F
<1>4. \A i \in 0..Len(order) : F[i] = IF i = 0 THEN m ELSE PlacedFrom(F[i - 1], file, order[i])
  BY <1>3, Zenon
<1>5. F[0] = m /\ \A i \in 1..Len(order) : F[i] = PlacedFrom(F[i - 1], file, order[i])
  BY <1>4 DEF order
<1> QED
  BY <1>1, <1>5 DEF order

LEMMA OwnSlotsIs ==
    ASSUME NEW m, m.nNew \in Nat
    PROVE  \E f : /\ OwnSlots(m) = f[m.nNew] /\ f[0] = m
                  /\ \A i \in 1..m.nNew : f[i] = PlacedOwn(f[i - 1], i)
<1> DEFINE F == CHOOSE f : f = [n \in 0..m.nNew |-> IF n = 0 THEN m ELSE PlacedOwn(f[n - 1], n)]
<1>1. OwnSlots(m) = F[m.nNew]
  BY Zenon DEF OwnSlots
<1>2. \E f : f = [n \in 0..m.nNew |-> IF n = 0 THEN m ELSE PlacedOwn(f[n - 1], n)]
  <2>1. PICK f : IsLoop(2, m, m, m, m.nNew, f)
    BY LoopExists
  <2>2. \A p, i : LoopStep(2, m, m, p, i) = PlacedOwn(p, i)
    BY DEF LoopStep
  <2>3. f = [i \in 0..m.nNew |-> IF i = 0 THEN m ELSE PlacedOwn(f[i - 1], i)]
    BY <2>1, <2>2, Zenon DEF IsLoop
  <2> QED
    BY <2>3, Zenon
<1>3. F = [n \in 0..m.nNew |-> IF n = 0 THEN m ELSE PlacedOwn(F[n - 1], n)]
  BY <1>2, Zenon
<1> HIDE DEF F
<1>4. \A i \in 0..m.nNew : F[i] = IF i = 0 THEN m ELSE PlacedOwn(F[i - 1], i)
  BY <1>3, Zenon
<1>5. F[0] = m /\ \A i \in 1..m.nNew : F[i] = PlacedOwn(F[i - 1], i)
  BY <1>4
<1> QED
  BY <1>1, <1>5

LEMMA PrunedIs ==
    ASSUME NEW m, Len(m.vRandom) \in Nat
    PROVE  \E f : /\ Pruned(m) = f[Len(m.vRandom)] /\ f[0] = m
                  /\ \A i \in 1..Len(m.vRandom) : f[i] = Prune(f[i - 1], i)
<1> DEFINE F == CHOOSE f : f = [n \in 0..Len(m.vRandom) |-> IF n = 0 THEN m ELSE Prune(f[n - 1], n)]
<1>1. Pruned(m) = F[Len(m.vRandom)]
  BY Zenon DEF Pruned
<1>2. \E f : f = [n \in 0..Len(m.vRandom) |-> IF n = 0 THEN m ELSE Prune(f[n - 1], n)]
  <2>1. PICK f : IsLoop(3, m, m, m, Len(m.vRandom), f)
    BY LoopExists
  <2>2. \A p, i : LoopStep(3, m, m, p, i) = Prune(p, i)
    BY DEF LoopStep
  <2>3. f = [i \in 0..Len(m.vRandom) |-> IF i = 0 THEN m ELSE Prune(f[i - 1], i)]
    BY <2>1, <2>2, Zenon DEF IsLoop
  <2> QED
    BY <2>3, Zenon
<1>3. F = [n \in 0..Len(m.vRandom) |-> IF n = 0 THEN m ELSE Prune(F[n - 1], n)]
  BY <1>2, Zenon
<1> HIDE DEF F
<1>4. \A i \in 0..Len(m.vRandom) : F[i] = IF i = 0 THEN m ELSE Prune(F[i - 1], i)
  BY <1>3, Zenon
<1>5. F[0] = m /\ \A i \in 1..Len(m.vRandom) : F[i] = Prune(F[i - 1], i)
  BY <1>4
<1> QED
  BY <1>1, <1>5

LEMMA OrderIs ==
    ASSUME NEW S, IsFiniteSet(S)
    PROVE  /\ Len(SetToSeq(S)) \in Nat
           /\ \A i \in 1..Len(SetToSeq(S)) : SetToSeq(S)[i] \in S
<1> DEFINE n == Cardinality(S)
<1>1. n \in Nat /\ ExistsBijection(1..n, S)
  BY FS_CardinalityType
<1>2. PICK f : f \in Bijection(1..n, S)
  BY <1>1 DEF ExistsBijection
<1>3. f \in [1..n -> S] /\ IsInjective(f)
  BY <1>2 DEF Bijection, Injection
<1>4. SetToSeq(S) \in [1..n -> S]
  BY <1>3, Zenon DEF SetToSeq
<1> HIDE DEF n
<1>5. Len(SetToSeq(S)) = n
  BY <1>1, <1>4
<1> QED
  BY <1>1, <1>4, <1>5


\* Induction up to N.
LEMMA UpTo ==
    ASSUME NEW N \in Nat, NEW G, 0 \in G, \A i \in 1..N : i - 1 \in G => i \in G
    PROVE  N \in G
<1> DEFINE Bad == {i \in 0..N : i \notin G}
<1> SUFFICES ASSUME Bad # {} PROVE FALSE
  OBVIOUS
<1>1. PICK n \in Bad : \A k \in Bad : n <= k
  <2>1. Bad \in SUBSET Nat
    OBVIOUS
  <2> HIDE DEF Bad
  <2> QED
    BY <2>1, LeastNatural
<1>2. n \in 1..N /\ n - 1 \in 0..N /\ n - 1 \notin Bad
  BY <1>1
<1> QED
  BY <1>2

\* p is m with some of its new entries in slots.
Slotted(m, p) ==
    /\ AmOk(p, 0) /\ SameMaps(m, p) /\ SameTried(m, p)
    /\ p.nNew = m.nNew /\ p.vRandom = m.vRandom

LEMMA PlacedOk ==
    ASSUME NEW m, NEW p, Slotted(m, p), NEW n \in Untried(m), NEW s \in NewSlot,
           s \in NewSlotsOf[m.mapInfo[n].addr]
    PROVE  Slotted(m, Placed(p, n, s))
<1> DEFINE v == p.mapInfo[n].nRefCount + 1
           r == Recounted(p, n, v, s, n)
<1>1. AmOk(p, 0) /\ SameMaps(m, p) /\ SameTried(m, p) /\ p.nNew = m.nNew /\ p.vRandom = m.vRandom
  BY DEF Slotted
<1>2. n \in Untried(p) /\ s \in NewSlotsOf[p.mapInfo[n].addr]
  BY <1>1 DEF Untried, SameMaps, SameTried
<1>3. CASE p.vvNew[s] = NoId /\ p.mapInfo[n].nRefCount < ADDRMAN_NEW_BUCKETS_PER_ADDRESS
  <2>1. Placed(p, n, s) = r
    BY <1>3 DEF Placed, Recounted
  <2>2. AmOk(r, 0) /\ SameButCount(p, r, n, v, s, n)
    BY <1>1, <1>2, <1>3, FilledOk
  <2> HIDE DEF r, v
  <2>3. SameMaps(p, r) /\ SameTried(p, r) /\ r.nNew = p.nNew /\ r.vRandom = p.vRandom
    BY <2>2 DEF SameButCount, SameRandom
  <2>4. SameMaps(m, r) /\ SameTried(m, r)
    BY <1>1, <2>3 DEF SameMaps, SameTried
  <2> QED
    BY <1>1, <2>1, <2>2, <2>3, <2>4 DEF Slotted
<1>4. CASE ~(p.vvNew[s] = NoId /\ p.mapInfo[n].nRefCount < ADDRMAN_NEW_BUCKETS_PER_ADDRESS)
  <2>1. Placed(p, n, s) = p
    BY <1>4 DEF Placed
  <2> QED
    BY <2>1
<1> QED
  BY <1>3, <1>4

LEMMA SlottedSelf ==
    ASSUME NEW m, AmOk(m, 0)
    PROVE  Slotted(m, m)
BY DEF Slotted, SameMaps, SameTried

\* The loop over the slots of the file.
LEMMA ReadSlotsOk ==
    ASSUME NEW f, IsFile(f), NEW m, IsRead(f, m)
    PROVE  Slotted(m, ReadSlots(m, f))
<1> DEFINE order == SetToSeq(Occupied(f))
           N == Len(order)
<1>1. AmOk(f, 0) /\ AmOk(m, 0) /\ Untried(m) = 1..f.nNew /\ InNew(f) = Untried(f)
  BY ReadOk, FileCounts DEF IsFile
<1>2. IsFiniteSet(Occupied(f))
  BY AddrAssumption, FS_Subset DEF Occupied
<1>3. N \in Nat /\ \A i \in 1..N : order[i] \in Occupied(f)
  BY <1>2, OrderIs
<1>4. PICK g : /\ ReadSlots(m, f) = g[N] /\ g[0] = m
               /\ \A i \in 1..N : g[i] = PlacedFrom(g[i - 1], f, order[i])
  BY <1>3, ReadSlotsIs
<1> HIDE DEF N, order
<1> DEFINE G == {i \in 0..N : Slotted(m, g[i])}
<1>5. 0 \in G
  BY <1>1, <1>3, <1>4, SlottedSelf
<1>6. ASSUME NEW i \in 1..N, i - 1 \in G PROVE i \in G
  <2> DEFINE s == order[i]
             h == f.vvNew[s]
             n == Index(InNew(f), h)
  <2>1. s \in NewSlot /\ h # NoId
    BY <1>3 DEF Occupied
  <2> HIDE DEF s
  <2>2. h \in InNew(f) /\ s \in NewSlotsOf[f.mapInfo[h].addr]
    BY <1>1, <2>1, HolderIs
  <2>3. n \in 1..f.nNew /\ Former(f, n) = h
    BY <2>2, FormerIs
  <2>4. m.mapInfo[n].addr = f.mapInfo[h].addr
    <3>1. n \in 1..(f.nNew + f.nTried)
      <4>1. f.nNew \in Nat /\ f.nTried \in Nat
        BY FileCounts
      <4> HIDE DEF n
      <4> QED
        BY <2>3, <4>1
    <3> HIDE DEF n, h
    <3> QED
      BY <2>3, <3>1 DEF IsRead
  <2>5. g[i] = Placed(g[i - 1], n, s)
    BY <1>4 DEF PlacedFrom, s
  <2>6. Slotted(m, g[i - 1])
    BY <1>6
  <2> HIDE DEF n, h, G
  <2>7. Slotted(m, g[i])
    BY <1>1, <2>1, <2>2, <2>3, <2>4, <2>5, <2>6, PlacedOk
  <2> QED
    BY <1>3, <2>7 DEF G
<1>7. N \in G
  <2> HIDE DEF G
  <2> QED
    BY <1>3, <1>5, <1>6, UpTo
<1> QED
  BY <1>4, <1>7

\* The loop over the new entries.
LEMMA OwnSlotsOk ==
    ASSUME NEW f, IsFile(f), NEW m, IsRead(f, m)
    PROVE  Slotted(m, OwnSlots(m))
<1> DEFINE N == m.nNew
<1>1. AmOk(m, 0) /\ Untried(m) = 1..f.nNew
  BY ReadOk
<1>2. N \in Nat /\ N = f.nNew
  BY FileCounts DEF IsRead
<1>3. PICK g : OwnSlots(m) = g[N] /\ g[0] = m /\ \A i \in 1..N : g[i] = PlacedOwn(g[i - 1], i)
  BY <1>2, OwnSlotsIs
<1> HIDE DEF N
<1> DEFINE G == {i \in 0..N : Slotted(m, g[i])}
<1>4. 0 \in G
  BY <1>1, <1>2, <1>3, SlottedSelf
<1>5. ASSUME NEW i \in 1..N, i - 1 \in G PROVE i \in G
  <2> DEFINE p == g[i - 1]
             a == p.mapInfo[i].addr
             s == NewSlotOf[<<a, p.mapInfo[i].source>>]
  <2>1. g[i] = Placed(p, i, s)
    BY <1>3 DEF PlacedOwn
  <2>2. Slotted(m, p)
    BY <1>5
  <2> HIDE DEF p, G
  <2>3. i \in Untried(m) /\ i \in DOMAIN m.mapInfo
    BY <1>1, <1>2 DEF Untried
  <2>4. p \in Managers /\ i \in DOMAIN p.mapInfo /\ m.mapInfo[i].addr = a
    BY <2>2, <2>3 DEF Slotted, SameMaps, AmOk
  <2>5. s \in NewSlot /\ s \in NewSlotsOf[a]
    BY <2>4, EntryIs, SlotIs
  <2> HIDE DEF s, a
  <2>6. Slotted(m, g[i])
    BY <2>1, <2>2, <2>3, <2>4, <2>5, PlacedOk
  <2> QED
    BY <1>2, <2>6 DEF G
<1>6. N \in G
  <2> HIDE DEF G
  <2> QED
    BY <1>2, <1>4, <1>5, UpTo
<1> QED
  BY <1>3, <1>6


\* p is m after the entries up to n have been looked at.
PrunedTo(m, p, n) ==
    /\ AmOk(p, 0)
    /\ DOMAIN p.mapInfo = DOMAIN m.mapInfo \ {i \in Loose(m) : i <= n}
    /\ Loose(p) = {i \in Loose(m) : i > n}
    /\ \A i \in DOMAIN p.mapInfo : p.mapInfo[i].addr = m.mapInfo[i].addr

LEMMA PruneOk ==
    ASSUME NEW m, DOMAIN m.mapInfo \subseteq Nat, NEW p, NEW n \in Nat \ {0}, PrunedTo(m, p, n - 1),
           n \in DOMAIN m.mapInfo
    PROVE  PrunedTo(m, Prune(p, n), n)
<1>1. /\ AmOk(p, 0) /\ DOMAIN p.mapInfo = DOMAIN m.mapInfo \ {i \in Loose(m) : i <= n - 1}
      /\ Loose(p) = {i \in Loose(m) : i > n - 1}
      /\ \A i \in DOMAIN p.mapInfo : p.mapInfo[i].addr = m.mapInfo[i].addr
  BY DEF PrunedTo
<1>2. Loose(m) \subseteq DOMAIN m.mapInfo
  BY DEF Loose, Untried
<1>3. n \in DOMAIN p.mapInfo
  BY <1>1
<1>4. \A i \in Loose(m) : (i <= n <=> i <= n - 1 \/ i = n) /\ (i > n <=> i > n - 1 /\ i # n) /\ n > n - 1
  BY <1>2
<1>5. CASE n \in Loose(p)
  <2> DEFINE r == Delete(p, n)
  <2>1. ~p.mapInfo[n].fInTried /\ p.mapInfo[n].nRefCount = 0
    BY <1>5 DEF Loose, Untried
  <2>2. Prune(p, n) = r
    BY <2>1 DEF Prune
  <2>3. AmOk(r, 0) /\ Dropped(p, r, n) /\ Loose(r) = Loose(p) \ {n}
    BY <1>1, <1>5, DeleteOk
  <2> HIDE DEF r
  <2>4. DOMAIN r.mapInfo = DOMAIN p.mapInfo \ {n}
        /\ \A i \in DOMAIN r.mapInfo : r.mapInfo[i].addr = p.mapInfo[i].addr
    BY <2>3 DEF Dropped
  <2>5. n \in Loose(m)
    BY <1>1, <1>5
  <2>6. DOMAIN r.mapInfo = DOMAIN m.mapInfo \ {i \in Loose(m) : i <= n}
    BY <1>1, <1>4, <2>4, <2>5
  <2>7. Loose(r) = {i \in Loose(m) : i > n}
    BY <1>1, <1>4, <2>3
  <2> QED
    BY <1>1, <2>2, <2>3, <2>4, <2>6, <2>7 DEF PrunedTo
<1>6. CASE n \notin Loose(p)
  <2>1. Prune(p, n) = p
    BY <1>3, <1>6 DEF Prune, Loose, Untried
  <2>2. n \notin Loose(m)
    BY <1>1, <1>4, <1>6
  <2>3. DOMAIN p.mapInfo = DOMAIN m.mapInfo \ {i \in Loose(m) : i <= n}
    BY <1>1, <1>4, <2>2
  <2>4. Loose(p) = {i \in Loose(m) : i > n}
    BY <1>1, <1>4, <2>2
  <2> QED
    BY <1>1, <2>1, <2>3, <2>4 DEF PrunedTo
<1> QED
  BY <1>5, <1>6

\* Pruning deletes the entries without a slot and no others.
LEMMA PrunedOk ==
    ASSUME NEW m, AmOk(m, 0), DOMAIN m.mapInfo = 1..Len(m.vRandom)
    PROVE  LET r == Pruned(m)
           IN  AmOk(r, 0) /\ Loose(r) = {} /\ Keeps(m, r)
<1> DEFINE N == Len(m.vRandom)
           r == Pruned(m)
<1>1. N \in Nat /\ DOMAIN m.mapInfo \subseteq Nat /\ Loose(m) \subseteq 1..N
  <2>1. m.vRandom \in Seq(Id)
    BY DEF AmOk, Managers
  <2> QED
    BY <2>1 DEF Loose, Untried
<1>2. PICK g : r = g[N] /\ g[0] = m /\ \A i \in 1..N : g[i] = Prune(g[i - 1], i)
  BY <1>1, PrunedIs
<1>3. DOMAIN m.mapInfo = 1..N
  OBVIOUS
<1> HIDE DEF N, r
<1> DEFINE G == {i \in 0..N : PrunedTo(m, g[i], i)}
<1>4. 0 \in G
  <2>1. {i \in Loose(m) : i <= 0} = {} /\ {i \in Loose(m) : i > 0} = Loose(m)
    BY <1>1
  <2>2. PrunedTo(m, m, 0)
    BY <2>1 DEF PrunedTo
  <2> QED
    BY <1>1, <1>2, <2>2
<1>5. ASSUME NEW i \in 1..N, i - 1 \in G PROVE i \in G
  <2>1. PrunedTo(m, g[i - 1], i - 1) /\ g[i] = Prune(g[i - 1], i)
    BY <1>2, <1>5
  <2>2. i \in Nat \ {0} /\ i \in DOMAIN m.mapInfo
    BY <1>1, <1>3
  <2> HIDE DEF G
  <2>3. PrunedTo(m, g[i], i)
    BY <1>1, <2>1, <2>2, PruneOk
  <2> QED
    BY <1>1, <2>3 DEF G
<1>6. PrunedTo(m, r, N)
  <2>1. N \in G
    <3> HIDE DEF G
    <3> QED
      BY <1>1, <1>4, <1>5, UpTo
  <2> QED
    BY <1>2, <2>1
<1>7. AmOk(r, 0) /\ Loose(r) = {}
  BY <1>1, <1>6 DEF PrunedTo
<1>8. Keeps(m, r)
  <2> SUFFICES ASSUME NEW i \in DOMAIN m.mapInfo, m.mapInfo[i].fInTried
               PROVE  i \in DOMAIN r.mapInfo /\ r.mapInfo[i].addr = m.mapInfo[i].addr
    BY DEF Keeps
  <2>1. i \notin Loose(m)
    BY DEF Loose, Untried
  <2>2. i \in DOMAIN r.mapInfo
    BY <1>6, <2>1 DEF PrunedTo
  <2> QED
    BY <1>6, <2>2 DEF PrunedTo
<1> QED
  BY <1>7, <1>8 DEF r

-----------------------------------------------------------------------------
(* Restarts.                                                                *)

\* The addresses of m's tried entries are among those of r.
Remembered(m, r) ==
    \A i \in InTried(m) : \E j \in DOMAIN r.mapInfo : r.mapInfo[j].addr = m.mapInfo[i].addr

LEMMA UnserializeOk ==
    ASSUME NEW f, IsFile(f), NEW usable \in BOOLEAN
    PROVE  LET r == Unserialize(f, usable)
           IN  AmOk(r, 0) /\ Loose(r) = {} /\ Remembered(f, r)
<1> DEFINE N == f.nNew + f.nTried
           m == ReadEntries(f, N)
           p == IF usable THEN ReadSlots(m, f) ELSE OwnSlots(m)
           r == Pruned(p)
<1>1. Unserialize(f, usable) = r
  BY Zenon DEF Unserialize
<1>2. IsRead(f, m)
  BY ReadIs
<1> HIDE DEF m
<1>3. Slotted(m, p)
  BY <1>2, ReadSlotsOk, OwnSlotsOk
<1> HIDE DEF p
<1>4. AmOk(p, 0) /\ SameMaps(m, p) /\ SameTried(m, p) /\ p.vRandom = m.vRandom
  BY <1>3 DEF Slotted
<1>5. /\ DOMAIN m.mapInfo = 1..N /\ Len(m.vRandom) = N
      /\ \A i \in 1..N : m.mapInfo[i].addr = f.mapInfo[Former(f, i)].addr /\ (m.mapInfo[i].fInTried <=> i > f.nNew)
  BY <1>2 DEF IsRead
<1> HIDE DEF N
<1>6. DOMAIN p.mapInfo = 1..Len(p.vRandom)
  BY <1>4, <1>5 DEF SameMaps
<1>7. AmOk(r, 0) /\ Loose(r) = {} /\ Keeps(p, r)
  BY <1>4, <1>6, PrunedOk
<1> HIDE DEF r
<1>8. ASSUME NEW i \in InTried(f)
      PROVE  \E j \in DOMAIN r.mapInfo : r.mapInfo[j].addr = f.mapInfo[i].addr
  <2>1. f.mapInfo[i].fInTried
    BY DEF InTried
  <2>2. PICK j \in 1..N : Former(f, j) = i
    BY FormerIs DEF N
  <2>3. j > f.nNew
    BY <2>1, <2>2, FormerIs DEF N
  <2>4. m.mapInfo[j].fInTried /\ m.mapInfo[j].addr = f.mapInfo[i].addr /\ j \in DOMAIN m.mapInfo
    BY <1>5, <2>2, <2>3
  <2>5. p.mapInfo[j].fInTried /\ p.mapInfo[j].addr = f.mapInfo[i].addr /\ j \in DOMAIN p.mapInfo
    BY <1>4, <2>4 DEF SameMaps, SameTried
  <2>6. j \in DOMAIN r.mapInfo /\ r.mapInfo[j].addr = f.mapInfo[i].addr
    BY <1>7, <2>5 DEF Keeps
  <2> QED
    BY <2>6
<1>9. Remembered(f, r)
  BY <1>8 DEF Remembered
<1> QED
  BY <1>1, <1>7, <1>9

LEMMA RestartOk ==
    ASSUME ManagerInv, NEW usable \in BOOLEAN, Restart(usable)
    PROVE  AmOk(am', 0) /\ Loose(am') = {} /\ Remembered(am, am')
<1>1. IsFile(am)
  BY DEF ManagerInv, IsFile
<1>2. Cardinality(InNew(am)) <= am.nNew /\ Cardinality(InTried(am)) <= am.nTried
  <2>1. /\ am.nNew \in Nat /\ am.nTried \in Nat
        /\ Cardinality(InNew(am)) = am.nNew /\ Cardinality(InTried(am)) = am.nTried
    BY <1>1, FileCounts
  <2> QED
    BY <2>1
<1>3. am' = Unserialize(am, usable)
  BY <1>2 DEF Restart
<1> QED
  BY <1>1, <1>3, UnserializeOk

\* A manager without entries.
LEMMA BlankOk ==
    ASSUME NEW m \in Managers, DOMAIN m.mapInfo = {}, DOMAIN m.mapAddr = {}, m.vRandom = <<>>,
           \A s \in NewSlot : m.vvNew[s] = NoId, \A s \in TriedSlot : m.vvTried[s] = NoId,
           m.nNew = 0, m.nTried = 0
    PROVE  AmOk(m, 0) /\ Loose(m) = {}
<1>1. Untried(m) = {} /\ InTried(m) = {} /\ Loose(m) = {}
  BY DEF Untried, InTried, Loose
<1>2. Cardinality({}) = 0
  BY FS_EmptySet
<1>3. CountsOk(m, 0)
  BY <1>1, <1>2 DEF CountsOk
<1>4. MapsOk(m) /\ RandomOk(m)
  BY DEF MapsOk, RandomOk
<1>5. NewOk(m) /\ TriedOk(m)
  BY DEF NewOk, TriedOk
<1> QED
  BY <1>1, <1>3, <1>4, <1>5 DEF AmOk

\* A file that is broken before its first entry.
LEMMA RestartBrokenOk ==
    ASSUME MaxRead = 0, ManagerInv, RestartBroken
    PROVE  AmOk(am', 0) /\ Loose(am') = {}
<1>1. am' = Clear(ReadEntries(am, 0))
  <2>1. PICK k \in 0..MaxRead : am' = Clear(ReadEntries(am, k))
    BY DEF RestartBroken
  <2>2. k = 0
    BY <2>1
  <2> QED
    BY <2>1, <2>2
<1> DEFINE info == [i \in 1..0 |-> ReadEntry(am, i)]
           X == {NetAddr[info[i].addr] : i \in 1..0}
           maps == [x \in X |-> CHOOSE i \in 1..0 : NetAddr[info[i].addr] = x]
           e == ReadEntries(am, 0)
<1>2. e.mapInfo = info /\ e.mapAddr = maps
  <2> DEFINE tried(s) == {i \in 1..0 : info[i].fInTried /\ TriedSlotOf[info[i].addr] = s}
             v == [i \in 1..0 |-> i]
             w == [s \in TriedSlot |-> IF tried(s) = {} THEN NoId ELSE CHOOSE i \in tried(s) : TRUE]
  <2>1. e = [Empty EXCEPT !.mapInfo = info, !.mapAddr = maps, !.vRandom = v, !.vvTried = w,
                          !.nNew = am.nNew, !.nTried = am.nTried]
    BY Zenon DEF ReadEntries
  <2> HIDE DEF info, maps, v, w, e
  <2> QED
    BY <2>1, EmptyIs DEF Managers
<1>3. DOMAIN info = {} /\ info \in InfoMaps
  <2>1. DOMAIN info = {} /\ info = [i \in DOMAIN info |-> info[i]]
    OBVIOUS
  <2> HIDE DEF info
  <2> QED
    BY <2>1, InfoMapIs
<1>4. DOMAIN maps = {} /\ maps \in AddrMaps
  <2>1. DOMAIN maps = X /\ X = {} /\ maps = [x \in DOMAIN maps |-> maps[x]]
    OBVIOUS
  <2> HIDE DEF maps, X
  <2> QED
    BY <2>1, AddrMapIs
<1>5. am' = [Empty EXCEPT !.mapInfo = info, !.mapAddr = maps]
  <2> HIDE DEF info, maps, e
  <2> QED
    BY <1>1, <1>2 DEF Clear, e
<1> HIDE DEF info, maps
<1> DEFINE r == [Empty EXCEPT !.mapInfo = info, !.mapAddr = maps]
<1>6. r \in Managers
  BY <1>3, <1>4, EmptyIs DEF Managers
<1>7. /\ r.mapInfo = info /\ r.mapAddr = maps /\ r.vRandom = <<>> /\ r.nNew = 0 /\ r.nTried = 0
      /\ r.vvNew = [s \in NewSlot |-> NoId] /\ r.vvTried = [s \in TriedSlot |-> NoId]
  BY EmptyIs DEF Managers
<1> HIDE DEF r
<1>8. AmOk(r, 0) /\ Loose(r) = {}
  BY <1>3, <1>4, <1>6, <1>7, BlankOk
<1> QED
  BY <1>5, <1>8 DEF r


-----------------------------------------------------------------------------
(* The properties.                                                          *)

\* What Check_ looks for follows from the invariant: the two maps have as many
\* entries since they are inverse to each other.
LEMMA InvConsistent ==
    ASSUME ManagerInv
    PROVE  AddrmanConsistent
<1>1. /\ am \in Managers /\ MapsOk(am) /\ RandomOk(am) /\ NewOk(am) /\ TriedOk(am) /\ CountsOk(am, 0)
      /\ Loose(am) = {}
  BY DEF ManagerInv, AmOk
<1>2. NewEntry = Untried(am) /\ TriedEntry = InTried(am)
  BY DEF NewEntry, TriedEntry, Untried, InTried
<1>3. am.nNew \in Int /\ am.nTried \in Int /\ am.ok /\ am.vRandom \in Seq(Id)
  BY <1>1 DEF Managers
<1>4. am.nNew = Cardinality(NewEntry) /\ am.nTried = Cardinality(TriedEntry)
      /\ Len(am.vRandom) = am.nNew + am.nTried
  BY <1>1, <1>2, <1>3 DEF CountsOk
<1>5. ASSUME NEW n \in NewEntry
      PROVE  /\ am.mapInfo[n].nRefCount \in 1..ADDRMAN_NEW_BUCKETS_PER_ADDRESS
             /\ am.mapInfo[n].nRefCount = Cardinality({s \in NewSlot : am.vvNew[s] = n})
  <2>1. n \in DOMAIN am.mapInfo /\ am.mapInfo[n].nRefCount \in Nat
    BY <1>1, EntryIs DEF NewEntry
  <2>2. am.mapInfo[n].nRefCount # 0
    BY <1>1, <1>2 DEF Loose
  <2>3. am.mapInfo[n].nRefCount <= ADDRMAN_NEW_BUCKETS_PER_ADDRESS
        /\ am.mapInfo[n].nRefCount = Cardinality(SlotsWith(am, n))
    BY <1>1, <2>1 DEF NewOk
  <2>4. am.mapInfo[n].nRefCount \in 1..ADDRMAN_NEW_BUCKETS_PER_ADDRESS
    BY <2>1, <2>2, <2>3, LimitIs
  <2> QED
    BY <2>3, <2>4 DEF SlotsWith
<1>6. \A n \in TriedEntry : am.mapInfo[n].nRefCount = 0 /\ am.vvTried[TriedSlotOf[am.mapInfo[n].addr]] = n
  BY <1>1 DEF TriedEntry, NewOk, TriedOk
<1>7. \A n \in DOMAIN am.mapInfo : /\ am.mapAddr[NetAddr[am.mapInfo[n].addr]] = n
                                   /\ am.mapInfo[n].nRandomPos \in DOMAIN am.vRandom
                                   /\ am.vRandom[am.mapInfo[n].nRandomPos] = n
  <2>1. DOMAIN am.vRandom = 1..Len(am.vRandom)
    BY <1>3
  <2> QED
    BY <1>1, <2>1 DEF MapsOk, RandomOk
<1>8. \A s \in NewSlot : am.vvNew[s] # NoId =>
          am.vvNew[s] \in NewEntry /\ s \in NewSlotsOf[am.mapInfo[am.vvNew[s]].addr]
  BY <1>2, HolderIs DEF ManagerInv
<1>9. \A s \in TriedSlot : am.vvTried[s] # NoId => am.vvTried[s] \in TriedEntry
  BY <1>1 DEF TriedOk, TriedEntry
<1>10. Cardinality(DOMAIN am.mapAddr) = Cardinality(DOMAIN am.mapInfo)
  <2> DEFINE A == DOMAIN am.mapAddr
             B == DOMAIN am.mapInfo
             h == [x \in A |-> am.mapAddr[x]]
  <2>1. IsFiniteSet(B)
    <3>1. B \subseteq Id
      BY <1>1, EntryIs
    <3> QED
      BY <3>1, IdIs, FS_Subset
  <2>2. h \in [A -> B] /\ \A x \in A : NetAddr[am.mapInfo[h[x]].addr] = x
    BY <1>1 DEF MapsOk
  <2>3. \A n \in B : \E x \in A : h[x] = n
    BY <1>1 DEF MapsOk
  <2> HIDE DEF A, B, h
  <2>4. h \in Injection(A, B)
    <3>1. \A x, y \in A : h[x] = h[y] => x = y
      BY <2>2
    <3> QED
      BY <2>2, <3>1 DEF Injection, IsInjective
  <2>5. h \in Surjection(A, B)
    BY <2>2, <2>3 DEF Surjection
  <2>6. Cardinality(A) = Cardinality(B)
    BY <2>1, <2>4, <2>5, FS_Injection
  <2> QED
    BY <2>6 DEF A, B
<1> QED
  BY <1>3, <1>4, <1>5, <1>6, <1>7, <1>8, <1>9, <1>10 DEF AddrmanConsistent

\* What the steps do: the invariant holds behind each, and but for a broken file the
\* addresses in the tried table are remembered.
LEMMA StepOk ==
    ASSUME MaxRead = 0, ManagerInv, AddrNext
    PROVE  AmOk(am', 0) /\ Loose(am') = {} /\ (Remembered(am, am') \/ RestartBroken)
<1>1. ASSUME Preserved(am, am')
      PROVE  AmOk(am', 0) /\ Loose(am') = {} /\ Remembered(am, am')
  <2>1. AmOk(am', 0) /\ Loose(am') = {} /\ Keeps(am, am')
    BY <1>1 DEF Preserved
  <2> QED
    BY <2>1 DEF Keeps, Remembered, InTried
<1>2. ASSUME NEW a \in Service, Good(a) PROVE Preserved(am, am')
  BY <1>2, GoodOk
<1>3. ASSUME NEW a \in Service, NEW r \in Source, AddKnown(a, r) PROVE Preserved(am, am')
  BY <1>3, AddKnownOk
<1>4. ASSUME NEW a \in Service, NEW r \in Source, AddNew(a, r) PROVE Preserved(am, am')
  BY <1>4, AddNewOk
<1>5. ASSUME GetAddr PROVE Preserved(am, am')
  BY <1>5, GetAddrOk
<1>6. ASSUME NEW usable \in BOOLEAN, Restart(usable)
      PROVE  AmOk(am', 0) /\ Loose(am') = {} /\ Remembered(am, am')
  BY <1>6, RestartOk
<1>7. ASSUME RestartBroken PROVE AmOk(am', 0) /\ Loose(am') = {}
  BY <1>7, RestartBrokenOk, Zenon
<1> QED
  BY <1>1, <1>2, <1>3, <1>4, <1>5, <1>6, <1>7 DEF AddrNext

LEMMA InvStep ==
    ASSUME MaxRead = 0, ManagerInv, [AddrNext]_addrVars
    PROVE  ManagerInv'
<1>1. AmOk(am', 0) /\ Loose(am') = {}
  <2>1. CASE AddrNext
    BY <2>1, StepOk
  <2>2. CASE UNCHANGED addrVars
    <3>1. am' = am
      BY <2>2 DEF addrVars
    <3> QED
      BY <3>1 DEF ManagerInv
  <2> QED
    BY <2>1, <2>2
<1> QED
  BY <1>1 DEF ManagerInv, AmOk, Managers, MapsOk, RandomOk, NewOk, TriedOk, CountsOk, Loose, Untried,
              InTried, SlotsWith

\* The invariant, for any number of addresses, slots and sources: the maps and vRandom
\* agree, nRefCount counts the slots of an entry and every entry has one, the tried
\* table holds exactly the tried entries, nNew and nTried count both kinds.  A
\* peers.dat that breaks off is broken before its first entry: behind it Clear leaves
\* mapInfo filled (addrman.h, Clear), and the invariant with it.
THEOREM ManagerSafe ==
    ASSUME MaxRead = 0
    PROVE  AddrSpec => []ManagerInv
<1>1. AddrInit => ManagerInv
  BY EmptyIs, BlankOk DEF AddrInit, ManagerInv
<1>2. ManagerInv /\ [AddrNext]_addrVars => ManagerInv'
  BY InvStep
<1> QED
  BY <1>1, <1>2, PTL DEF AddrSpec

\* No assertion of the address manager fails and what Check_ looks for holds after
\* every Add_, Good_, GetAddr_ and restart.
THEOREM ManagerConsistent ==
    ASSUME MaxRead = 0
    PROVE  AddrSpec => []AddrmanConsistent
<1>1. ManagerInv => AddrmanConsistent
  BY InvConsistent
<1> QED
  BY <1>1, ManagerSafe, PTL

\* No operation and no restart with an intact peers.dat loses an address that was in
\* the tried table: MakeTried moves the entry it evicts to the new table, and what
\* pushes a third entry out of its slot there never drops one that is tried.
THEOREM TriedStaysKnown ==
    ASSUME MaxRead = 0
    PROVE  AddrSpec => TriedNotForgotten
<1>1. ASSUME ManagerInv, AddrNext
      PROVE  \/ AddrOf(am, TriedEntry) \subseteq {am'.mapInfo[n].addr : n \in DOMAIN am'.mapInfo}
             \/ RestartBroken
  <2>1. Remembered(am, am') \/ RestartBroken
    BY <1>1, StepOk
  <2> QED
    BY <2>1 DEF Remembered, InTried, TriedEntry, AddrOf
<1>2. ManagerInv /\ [AddrNext]_addrVars =>
        [\/ AddrOf(am, TriedEntry) \subseteq {am'.mapInfo[n].addr : n \in DOMAIN am'.mapInfo}
         \/ RestartBroken]_addrVars
  BY <1>1
<1> QED
  BY <1>2, ManagerSafe, PTL DEF AddrSpec, TriedNotForgotten
=============================================================================
