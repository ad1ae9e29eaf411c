---------------------------- MODULE NoteWitness ----------------------------
(***************************************************************************)
(* The cache of note witnesses of the wallet (src/wallet/wallet.cpp): for   *)
(* every shielded note the wallet owns, the authentication paths of its     *)
(* commitment as of the last blocks, newest first, so that the note can     *)
(* still be spent after a reorganisation.                                   *)
(*                                                                          *)
(* What a block appends to the commitment tree is the block itself here, so *)
(* a witness is the sequence of the blocks that it has taken in, beginning  *)
(* with the one the note was mined in.  The notes are Sapling notes.  Those  *)
(* of Sprout go through the same templates; only Synced, which finds them    *)
(* unchanged, would differ.                                                 *)
(***************************************************************************)
EXTENDS BlockTree, Sequences

CONSTANTS
    Note,          \* notes of the wallet
    MinedIn,       \* [Note -> SUBSET Block]: the blocks with the note's transaction
    SpentIn,       \* [Note -> SUBSET Block]: the blocks with the note's nullifier
    HasNullifier,  \* the blocks with any nullifier at all
    MAX_REORG_LENGTH

ASSUME NoteAssumption ==
    /\ MAX_REORG_LENGTH \in Nat \ {0}
    /\ MinedIn \in [Note -> SUBSET (Block \ {Genesis})]
    /\ SpentIn \in [Note -> SUBSET HasNullifier] /\ HasNullifier \subseteq Block
    /\ \A n \in Note : \A b \in Block :
          /\ Cardinality(MinedIn[n] \cap Ancestors[b]) <= 1
          /\ b \in SpentIn[n] => MinedIn[n] \cap (Ancestors[b] \ {b}) # {}

WITNESS_CACHE_SIZE == MAX_REORG_LENGTH + 1

\* SproutNoteData and SaplingNoteData: witnessHeight and spentHeight are -1 when
\* there is none.
FreshNote == [witnesses |-> <<>>, witnessHeight |-> -1, spentHeight |-> -1]

\* SyncTransaction on a transaction that the wallet has: UpdatedNoteData keeps
\* the witnesses and their height, and nothing else.
Synced(nd) == [nd EXCEPT !.spentHeight = -1]

-----------------------------------------------------------------------------
(* IncrementNoteWitnesses, for one note and one block.                      *)

\* WitnessMyNoteIfNecessary and step 2, for a note of this block: a witness that
\* is not behind stays, an inconsistent one is thrown away.
Witnessed(n, nd, b) ==
    IF b \in MinedIn[n] /\ nd.witnessHeight < nHeight[b]
    THEN [nd EXCEPT !.witnesses = << <<b>> >>, !.witnessHeight = nHeight[b]]
    ELSE nd

\* UpdateSpentHeightAndMaybePruneWitnesses, called for each nullifier of the block.
SpentPruned(n, nd, b) ==
    LET spent == IF b \in SpentIn[n] THEN nHeight[b] ELSE nd.spentHeight
    IN  IF nd.witnesses = <<>> \/ b \notin HasNullifier
        THEN nd
        ELSE IF spent # -1 /\ spent + WITNESS_CACHE_SIZE < nHeight[b]
             THEN [witnesses |-> <<>>, witnessHeight |-> -1, spentHeight |-> spent]
             ELSE [nd EXCEPT !.spentHeight = spent]

\* A mutant of Trimmed: the cache keeps one witness less than a reorganisation
\* may take away, and the one it keeps for the tip.
TrimmedShort(ws) == SubSeq(ws, 1, IF Len(ws) > MAX_REORG_LENGTH THEN MAX_REORG_LENGTH ELSE Len(ws))

Trimmed(ws) == SubSeq(ws, 1, IF Len(ws) > WITNESS_CACHE_SIZE THEN WITNESS_CACHE_SIZE ELSE Len(ws))

\* CopyPreviousWitnesses and AppendNoteCommitment.
Copied(ws, b) == Trimmed(<<Append(Head(ws), b)>> \o ws)

\* The rest of the template, which skips notes that are not behind, and
\* UpdateWitnessHeights.
Advanced(nd, b) ==
    IF nd.witnessHeight < nHeight[b] /\ nd.witnesses # <<>>
    THEN [nd EXCEPT !.witnesses = Copied(@, b), !.witnessHeight = nHeight[b]]
    ELSE nd

IncrementNoteWitness(n, nd, b) == Advanced(SpentPruned(n, Witnessed(n, nd, b), b), b)

\* A mutant of Grown: the counter stops one short of the witnesses that are kept.
GrownShort(size) == IF size < MAX_REORG_LENGTH THEN size + 1 ELSE size

\* nWitnessCacheSize after one more block.
Grown(size) == IF size < WITNESS_CACHE_SIZE THEN size + 1 ELSE size

\* The assertions of the templates.  size is nWitnessCacheSize before the block.
IncrementAsserts(n, nd, b, size) ==
    LET w == SpentPruned(n, Witnessed(n, nd, b), b)
        done == IncrementNoteWitness(n, nd, b)
    IN  /\ w.witnessHeight < nHeight[b] =>
             /\ size >= Len(w.witnesses)
             /\ w.witnessHeight \in {-1, nHeight[b] - 1}
             /\ Grown(size) >= Len(done.witnesses)
             /\ w.witnesses = <<>> => w.witnessHeight = -1
        /\ b \in MinedIn[n] => Grown(size) >= Len(Witnessed(n, nd, b).witnesses)

-----------------------------------------------------------------------------
(* DecrementNoteWitnesses, for one note and the block that is removed.      *)

\* A mutant of Popped: the newest witness stays.
PoppedNot(ws) == ws

Popped(ws) == IF ws = <<>> THEN <<>> ELSE Tail(ws)

DecrementNoteWitness(nd, b) ==
    IF nd.witnessHeight <= nHeight[b]
    THEN [nd EXCEPT !.witnesses = Popped(@),
                    !.witnessHeight = IF Popped(nd.witnesses) = <<>> THEN -1 ELSE nHeight[b] - 1]
    ELSE nd

Shrunk(size) == IF size > 0 THEN size - 1 ELSE 0

\* The assertions of the template.  The last one compares size - 1 with an unsigned
\* number, so it holds when size is 0.
DecrementAsserts(nd, b, size) ==
    LET done == DecrementNoteWitness(nd, b)
    IN  /\ nd.witnessHeight <= nHeight[b] =>
             /\ size >= Len(nd.witnesses)
             /\ nd.witnessHeight \in {-1, nHeight[b]}
        /\ done.witnessHeight < nHeight[b] => size = 0 \/ size - 1 >= Len(done.witnesses)

-----------------------------------------------------------------------------
(* What a witness should be.                                                *)

\* The block of a's branch at height h: CBlockIndex::GetAncestor.
GetAncestor(a, h) == CHOOSE c \in Ancestors[a] : nHeight[c] = h

\* The blocks from the one the note was mined in up to b.
TrueWitness(n, b) ==
    LET m == CHOOSE c \in MinedIn[n] \cap Ancestors[b] : TRUE
    IN  [i \in 1..(nHeight[b] - nHeight[m] + 1) |-> GetAncestor(b, nHeight[m] + i - 1)]

\* The cache nd of note n is what it should be when the wallet is at block b:
\* its newest witness is as of b, and each older one is as of the block below.
CacheTrue(n, nd, b) ==
    /\ nd.witnessHeight = nHeight[b]
    /\ \A i \in 1..Len(nd.witnesses) :
          LET below == GetAncestor(b, nHeight[b] - i + 1)
          IN  MinedIn[n] \cap Ancestors[below] # {} /\ nd.witnesses[i] = TrueWitness(n, below)

MinedAt(n, b) == MinedIn[n] \cap Ancestors[b] # {}
SpentAt(n, b) == SpentIn[n] \cap Ancestors[b] # {}

=============================================================================
