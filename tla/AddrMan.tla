------------------------------- MODULE AddrMan -------------------------------
(***************************************************************************)
(* The address manager (src/addrman.cpp, addrman.h): addresses that were     *)
(* heard of sit in up to ADDRMAN_NEW_BUCKETS_PER_ADDRESS slots of the new    *)
(* table, those that were connected to in one slot of the tried table.  The  *)
(* slot is a keyed hash, given here as a function.  cs makes every operation *)
(* atomic.                                                                   *)
(*                                                                          *)
(* Times and attempt counts are left out: whether an announcement is newer   *)
(* and whether an entry is terrible is any truth value.  nIdCount++ gives an *)
(* id that was never used; the model takes the least id that is not in use.  *)
(* peers.dat needs no variable: what a restart makes of an older file it     *)
(* could have made of it when that was written.                              *)
(***************************************************************************)
EXTENDS Integers, Sequences, FiniteSets, SequencesExt

CONSTANTS
    Service,       \* addresses with their port
    NetAddr,       \* [Service -> address without the port], the key of mapAddr
    Source,        \* who tells of an address
    NewSlot,       \* the new table: <<bucket, position>>
    TriedSlot,     \* the tried table
    NewSlotOf,     \* [Service \X Source -> NewSlot]: GetNewBucket and GetBucketPosition
    NewSlotsOf,    \* [Service -> SUBSET NewSlot]: its position in every bucket
    TriedSlotOf,   \* [Service -> TriedSlot]
    ADDRMAN_NEW_BUCKETS_PER_ADDRESS,
    MaxRead        \* entries read before a broken file is noticed

ASSUME AddrAssumption ==
    /\ IsFiniteSet(Service) /\ IsFiniteSet(NewSlot) /\ DOMAIN NetAddr = Service
    /\ NewSlotOf \in [Service \X Source -> NewSlot]
    /\ NewSlotsOf \in [Service -> SUBSET NewSlot]
    /\ \A a \in Service, r \in Source : NewSlotOf[<<a, r>>] \in NewSlotsOf[a]
    /\ TriedSlotOf \in [Service -> TriedSlot]
    /\ ADDRMAN_NEW_BUCKETS_PER_ADDRESS \in Nat \ {0} /\ MaxRead \in Nat

NoId == 0
Id == 1..(Cardinality(Service) + 1)

VARIABLES
    am   \* the manager: a record of mapInfo, mapAddr, vRandom, vvNew, vvTried, nNew, nTried

addrVars == <<am>>

\* A CAddrInfo.  nRandomPos counts from 1.
CAddrInfo(a, r, pos) == [addr |-> a, source |-> r, nRefCount |-> 0, fInTried |-> FALSE, nRandomPos |-> pos]

Empty ==
    [mapInfo |-> <<>>, mapAddr |-> <<>>, vRandom |-> <<>>, vvNew |-> [s \in NewSlot |-> NoId],
     vvTried |-> [s \in TriedSlot |-> NoId], nNew |-> 0, nTried |-> 0, ok |-> TRUE]

AddrInit == am = Empty

With(f, k, v) == [x \in DOMAIN f \cup {k} |-> IF x = k THEN v ELSE f[x]]
Without(f, k) == [x \in DOMAIN f \ {k} |-> f[x]]

\* An assert of the code: ok stays FALSE once one has failed.
Asserted(m, cond) == [m EXCEPT !.ok = @ /\ cond]

-----------------------------------------------------------------------------
(* The helpers.  Each takes a manager and returns the changed one.          *)

Known(m, a) == NetAddr[a] \in DOMAIN m.mapAddr
Find(m, a) == m.mapAddr[NetAddr[a]]
NewId(m) ==
    CHOOSE i \in Id \ DOMAIN m.mapInfo : \A j \in Id \ DOMAIN m.mapInfo : i <= j

Create(m, a, r) ==
    LET n == NewId(m)
    IN  [m EXCEPT !.mapInfo = With(@, n, CAddrInfo(a, r, Len(m.vRandom) + 1)),
                  !.mapAddr = With(@, NetAddr[a], n),
                  !.vRandom = Append(@, n)]

SwapRandom(m, i, j) ==
    IF i = j THEN m
    ELSE IF ~({i, j} \subseteq 1..Len(m.vRandom)) THEN Asserted(m, FALSE)
    ELSE [m EXCEPT !.mapInfo[m.vRandom[i]].nRandomPos = j, !.mapInfo[m.vRandom[j]].nRandomPos = i,
                   !.vRandom = [k \in 1..Len(@) |-> @[IF k = i THEN j ELSE IF k = j THEN i ELSE k]]]

Delete(m, n) ==
    LET info == m.mapInfo[n]
        s == SwapRandom(Asserted(m, ~info.fInTried /\ info.nRefCount = 0), info.nRandomPos, Len(m.vRandom))
    IN  IF ~s.ok THEN s
        ELSE [s EXCEPT !.vRandom = Front(@), !.mapAddr = Without(@, NetAddr[info.addr]),
                       !.mapInfo = Without(@, n), !.nNew = @ - 1]

\* A mutant of Unreferenced: an entry is dropped with any of its slots.
UnreferencedAny(count) == TRUE

\* The last slot of an entry is gone.
Unreferenced(count) == count = 0

ClearNew(m, s) ==
    LET n == m.vvNew[s]
        c == [Asserted(m, m.mapInfo[n].nRefCount > 0) EXCEPT !.mapInfo[n].nRefCount = @ - 1,
                                                            !.vvNew[s] = NoId]
    IN  IF n = NoId THEN m
        ELSE IF Unreferenced(c.mapInfo[n].nRefCount) THEN Delete(c, n) ELSE c

\* A mutant of Demoted: the evicted entry is deleted.
DemotedOut(m, n) == Delete([m EXCEPT !.nNew = @ + 1], n)

\* Enter the evicted entry into the new set again, in the slot of its own source.
Demoted(m, n) ==
    LET s == NewSlotOf[<<m.mapInfo[n].addr, m.mapInfo[n].source>>]
        c == ClearNew(m, s)
    IN  [c EXCEPT !.mapInfo[n].nRefCount = 1, !.vvNew[s] = n, !.nNew = @ + 1]

MakeTried(m, n) ==
    LET a == m.mapInfo[n].addr
        held == {s \in NewSlotsOf[a] : m.vvNew[s] = n}
        left == m.mapInfo[n].nRefCount - Cardinality(held)
        out == [Asserted(m, left = 0) EXCEPT
                  !.vvNew = [s \in NewSlot |-> IF s \in held THEN NoId ELSE @[s]],
                  !.mapInfo[n].nRefCount = left, !.nNew = @ - 1]
        k == TriedSlotOf[a]
        e == m.vvTried[k]
        room == IF e = NoId THEN out
                ELSE Demoted([out EXCEPT !.mapInfo[e].fInTried = FALSE, !.vvTried[k] = NoId,
                                         !.nTried = @ - 1], e)
    IN  [room EXCEPT !.vvTried[k] = n, !.nTried = @ + 1, !.mapInfo[n].fInTried = TRUE]

-----------------------------------------------------------------------------
(* The operations.                                                          *)

\* Good_: the port must match too.  An entry without a slot is left alone.
Good(a) ==
    /\ am.ok /\ Known(am, a)
    /\ LET n == Find(am, a)
       IN  /\ am.mapInfo[n].addr = a /\ ~am.mapInfo[n].fInTried
           /\ \E s \in NewSlotsOf[a] : am.vvNew[s] = n
           /\ am' = MakeTried(am, n)

\* The slot's entry gives way: it is terrible, or has others while n has none.
Overwrites(m, n, old, terrible) ==
    terrible \/ (m.mapInfo[old].nRefCount > 1 /\ m.mapInfo[n].nRefCount = 0)

\* The second half of Add_: entry n into the slot it has with source r.
Entered(m, n, s, terrible) ==
    LET old == m.vvNew[s]
    IN  IF old = n THEN m
        ELSE IF old = NoId \/ Overwrites(m, n, old, terrible)
        THEN [ClearNew(m, s) EXCEPT !.mapInfo[n].nRefCount = @ + 1, !.vvNew[s] = n]
        ELSE IF m.mapInfo[n].nRefCount = 0 THEN Delete(m, n)
        ELSE m

\* Add_ of an address that is known, when the announcement is newer and the dice
\* fall: the slot is that of the entry's own service.
AddKnown(a, r) ==
    /\ am.ok /\ Known(am, a)
    /\ LET n == Find(am, a)
       IN  /\ ~am.mapInfo[n].fInTried
           /\ am.mapInfo[n].nRefCount # ADDRMAN_NEW_BUCKETS_PER_ADDRESS
           /\ \E terrible \in BOOLEAN :
                 am' = Entered(am, n, NewSlotOf[<<am.mapInfo[n].addr, r>>], terrible)

AddNew(a, r) ==
    /\ am.ok /\ ~Known(am, a)
    /\ LET c == [Create(am, a, r) EXCEPT !.nNew = @ + 1]
       IN  \E terrible \in BOOLEAN : am' = Entered(c, NewId(am), NewSlotOf[<<a, r>>], terrible)

\* GetAddr_ shuffles the first of vRandom: one exchange of it.
GetAddr ==
    /\ am.ok
    /\ \E i, j \in 1..Len(am.vRandom) : i < j /\ am' = SwapRandom(am, i, j)

-----------------------------------------------------------------------------
(* peers.dat.                                                               *)

\* Serialize: the entries with a slot in the new table and then the tried ones, each
\* in the order of their ids.  Unserialize numbers them from the start.
InNew(m) == {i \in DOMAIN m.mapInfo : m.mapInfo[i].nRefCount # 0}
InTried(m) == {i \in DOMAIN m.mapInfo : m.mapInfo[i].fInTried}
Index(S, n) == Cardinality({i \in S : i <= n})
EntryAt(S, k) == CHOOSE n \in S : Index(S, n) = k
Written(file, k) ==
    file.mapInfo[IF k <= file.nNew THEN EntryAt(InNew(file), k) ELSE EntryAt(InTried(file), k - file.nNew)]

\* Clear leaves mapInfo and mapAddr as they are.
Clear(m) == [Empty EXCEPT !.mapInfo = m.mapInfo, !.mapAddr = m.mapAddr]

\* The first k entries: the new ones, and behind them the tried ones, which also get
\* their slot.  With the file's own key no two of these collide.
ReadEntry(file, k) ==
    [CAddrInfo(Written(file, k).addr, Written(file, k).source, k) EXCEPT !.fInTried = k > file.nNew]
ReadEntries(file, k) ==
    LET info == [i \in 1..k |-> ReadEntry(file, i)]
        tried(s) == {i \in 1..k : info[i].fInTried /\ TriedSlotOf[info[i].addr] = s}
    IN  [Empty EXCEPT
           !.mapInfo = info,
           !.mapAddr = [x \in {NetAddr[info[i].addr] : i \in 1..k} |->
                           CHOOSE i \in 1..k : NetAddr[info[i].addr] = x],
           !.vRandom = [i \in 1..k |-> i],
           !.vvTried = [s \in TriedSlot |-> IF tried(s) = {} THEN NoId ELSE CHOOSE i \in tried(s) : TRUE],
           !.nNew = file.nNew, !.nTried = file.nTried]

\* The slots of the file, or, when they cannot be used, each new entry's own slot as
\* long as it is free.
Placed(m, n, s) ==
    IF m.vvNew[s] = NoId /\ m.mapInfo[n].nRefCount < ADDRMAN_NEW_BUCKETS_PER_ADDRESS
    THEN [m EXCEPT !.mapInfo[n].nRefCount = @ + 1, !.vvNew[s] = n] ELSE m
PlacedFrom(m, file, s) == Placed(m, Index(InNew(file), file.vvNew[s]), s)
PlacedOwn(m, n) == Placed(m, n, NewSlotOf[<<m.mapInfo[n].addr, m.mapInfo[n].source>>])
ReadSlots(m, file) ==
    LET order == SetToSeq({s \in NewSlot : file.vvNew[s] # NoId})
        after[i \in 0..Len(order)] == IF i = 0 THEN m ELSE PlacedFrom(after[i - 1], file, order[i])
    IN  after[Len(order)]
OwnSlots(m) ==
    LET after[n \in 0..m.nNew] == IF n = 0 THEN m ELSE PlacedOwn(after[n - 1], n)
    IN  after[m.nNew]

\* Entries that have lost every slot are deleted.
Prune(m, n) ==
    IF ~m.mapInfo[n].fInTried /\ m.mapInfo[n].nRefCount = 0 THEN Delete(m, n) ELSE m
Pruned(m) ==
    LET after[n \in 0..Len(m.vRandom)] == IF n = 0 THEN m ELSE Prune(after[n - 1], n)
    IN  after[Len(m.vRandom)]

Unserialize(file, usable) ==
    LET read == ReadEntries(file, file.nNew + file.nTried)
    IN  Pruned(IF usable THEN ReadSlots(read, file) ELSE OwnSlots(read))

\* The node dumps its addresses and is started again.  The asserts of Serialize say
\* that nNew and nTried count what is written.
Restart(usable) ==
    /\ am.ok
    /\ am' = IF Cardinality(InNew(am)) <= am.nNew /\ Cardinality(InTried(am)) <= am.nTried
             THEN Unserialize(am, usable) ELSE Asserted(am, FALSE)

\* The file turns out to be broken after its first k entries: Read clears the manager.
RestartBroken ==
    /\ am.ok
    /\ \E k \in 0..MaxRead : k <= am.nNew /\ am' = Clear(ReadEntries(am, k))

AddrNext ==
    \/ \E a \in Service : Good(a)
    \/ \E a \in Service, r \in Source : AddKnown(a, r) \/ AddNew(a, r)
    \/ GetAddr
    \/ \E usable \in BOOLEAN : Restart(usable)
    \/ RestartBroken

AddrSpec == AddrInit /\ [][AddrNext]_addrVars

-----------------------------------------------------------------------------
(* Properties.                                                              *)

NewEntry == {n \in DOMAIN am.mapInfo : ~am.mapInfo[n].fInTried}
TriedEntry == {n \in DOMAIN am.mapInfo : am.mapInfo[n].fInTried}

\* What Check_ (compiled only with DEBUG_ADDRMAN) looks for, and no assertion has
\* failed: the maps, the tables, the reference counts, vRandom and the two counters
\* agree after every operation, evictions from tried to new that push out a third
\* entry and restarts included.
AddrmanConsistent ==
    /\ am.ok
    /\ Len(am.vRandom) = am.nNew + am.nTried
    /\ am.nNew = Cardinality(NewEntry) /\ am.nTried = Cardinality(TriedEntry)
    /\ \A n \in NewEntry :
          /\ am.mapInfo[n].nRefCount \in 1..ADDRMAN_NEW_BUCKETS_PER_ADDRESS
          /\ am.mapInfo[n].nRefCount = Cardinality({s \in NewSlot : am.vvNew[s] = n})
    /\ \A n \in TriedEntry : /\ am.mapInfo[n].nRefCount = 0
                             /\ am.vvTried[TriedSlotOf[am.mapInfo[n].addr]] = n
    /\ \A n \in DOMAIN am.mapInfo : /\ am.mapAddr[NetAddr[am.mapInfo[n].addr]] = n
                                    /\ am.mapInfo[n].nRandomPos \in DOMAIN am.vRandom
                                    /\ am.vRandom[am.mapInfo[n].nRandomPos] = n
    /\ \A s \in NewSlot : am.vvNew[s] # NoId =>
          am.vvNew[s] \in NewEntry /\ s \in NewSlotsOf[am.mapInfo[am.vvNew[s]].addr]
    /\ \A s \in TriedSlot : am.vvTried[s] # NoId => am.vvTried[s] \in TriedEntry
    /\ Cardinality(DOMAIN am.mapAddr) = Cardinality(DOMAIN am.mapInfo)

AddrOf(m, S) == {m.mapInfo[n].addr : n \in S}

\* An address that a connection was made to is not forgotten while it is in the tried
\* table: eviction moves it to the new table and a restart keeps it.
TriedNotForgotten ==
    [][\/ AddrOf(am, TriedEntry) \subseteq {am'.mapInfo[n].addr : n \in DOMAIN am'.mapInfo}
       \/ RestartBroken]_addrVars
=============================================================================
