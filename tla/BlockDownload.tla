---------------------------- MODULE BlockDownload ----------------------------
(***************************************************************************)
(* How blocks are fetched from peers (src/main.cpp): what each peer is known *)
(* to have, which blocks are in flight from whom, the window that download   *)
(* may run ahead in, stalling and timeouts, and the messages inv, headers    *)
(* and block that drive it.  SendMessages runs for one peer after another.   *)
(*                                                                          *)
(* A peer answers or it does not: one in Silent may leave a request open for *)
(* ever, and only time takes its blocks away from it.  Time is abstracted to *)
(* what a timer says: a stall or a download is overdue.  Blocks are valid;   *)
(* the invalid ones are ChainState's subject.                                *)
(***************************************************************************)
EXTENDS BlockTree, SequencesExt

CONSTANTS
    Peer, NoPeer,
    PeerTip,     \* [Peer -> Block]: the chain a peer has
    Silent,      \* peers that need not answer
    Preferred,   \* outbound peers: fPreferredDownload
    Recent,      \* blocks whose time is close to now
    MAX_BLOCKS_IN_TRANSIT_PER_PEER, BLOCK_DOWNLOAD_WINDOW, MAX_HEADERS_RESULTS,
    MIN_BLOCKS_TO_KEEP,
    MaxFaults    \* bound on silent connections, peers that leave and blocks not asked for

ASSUME DownloadAssumption ==
    /\ IsFiniteSet(Peer) /\ NoPeer \notin Peer /\ Silent \subseteq Peer /\ Preferred \subseteq Peer
    /\ PeerTip \in [Peer -> Block] /\ Recent \subseteq Block
    /\ {MAX_BLOCKS_IN_TRANSIT_PER_PEER, BLOCK_DOWNLOAD_WINDOW, MAX_HEADERS_RESULTS,
        MIN_BLOCKS_TO_KEEP} \subseteq Nat \ {0}
    /\ MaxFaults \in Nat

VARIABLES
    index,       \* mapBlockIndex
    haveData,    \* blocks with BLOCK_HAVE_DATA
    tip,         \* chainActive.Tip()
    ibd,         \* IsInitialBlockDownload, which stays false once it is
    ns,          \* mapNodeState: [Peer -> CNodeState], up says whether there is one
    inFlight,    \* mapBlocksInFlight: [Block -> Peer \cup {NoPeer}]
    nSyncStarted, nPreferredDownload, nPeersWithValidatedDownloads,
    askedHeaders,\* [Peer -> Block \cup {NoBlock}]: the block a getheaders starts from
    askedBlocks, \* [Peer -> SUBSET Block]: getdata without an answer
    faults

nodeVars == <<ns, inFlight, nSyncStarted, nPreferredDownload, nPeersWithValidatedDownloads>>
chainVars == <<index, haveData, tip, ibd>>
netVars == <<askedHeaders, askedBlocks>>
vars == <<chainVars, nodeVars, netVars, faults>>

\* An entry of vBlocksInFlight, and a CNodeState.  stalling and download are the
\* two timers: "off", "on" (running) or "over".
QueuedBlock(b, valid) == [hash |-> b, valid |-> valid]
NodeState(up) ==
    [up |-> up, closing |-> FALSE, best |-> NoBlock, unknown |-> NoBlock, common |-> NoBlock,
     sync |-> FALSE, queue |-> <<>>, nInFlight |-> 0, nValid |-> 0, stalling |-> "off",
     download |-> "off"]

Init ==
    /\ index = {Genesis} /\ haveData = {Genesis} /\ tip = Genesis /\ ibd = (Genesis \notin Recent)
    /\ ns = [p \in Peer |-> NodeState(FALSE)] /\ inFlight = [b \in Block |-> NoPeer]
    /\ nSyncStarted = 0 /\ nPreferredDownload = 0 /\ nPeersWithValidatedDownloads = 0
    /\ askedHeaders = [p \in Peer |-> NoBlock] /\ askedBlocks = [p \in Peer |-> {}]
    /\ faults = 0

\* nChainTx # 0: the block and all below it are here.
Linked(b) == Ancestors[b] \subseteq haveData
CanDirectFetch == tip \in Recent
GetAncestor(b, h) == CHOOSE a \in Ancestors[b] : nHeight[a] = h

-----------------------------------------------------------------------------
(* Blocks in flight.  A record d carries what the functions change.         *)

Down == [ns |-> ns, inFlight |-> inFlight, nValidated |-> nPeersWithValidatedDownloads]
SetDown(d) ==
    ns' = d.ns /\ inFlight' = d.inFlight /\ nPeersWithValidatedDownloads' = d.nValidated

\* A mutant of LastValidated: the peer is counted out with any last entry.
LastValidatedAny(s, valid) == s.nValid = 0

\* The last validated block of the queue was received.
LastValidated(s, valid) == s.nValid = 0 /\ valid

MarkBlockAsReceived(d, b) ==
    IF d.inFlight[b] = NoPeer
    THEN d
    ELSE LET p == d.inFlight[b]
             q == d.ns[p].queue
             i == CHOOSE j \in 1..Len(q) : q[j].hash = b
             n == IF q[i].valid THEN 1 ELSE 0
             s == [d.ns[p] EXCEPT
                     !.queue = RemoveAt(@, i), !.nInFlight = @ - 1, !.nValid = @ - n,
                     !.stalling = "off",
                     !.download = IF i = 1 THEN (IF Len(q) > 1 THEN "on" ELSE "off") ELSE @]
         IN  [ns |-> [d.ns EXCEPT ![p] = s], inFlight |-> [d.inFlight EXCEPT ![b] = NoPeer],
              nValidated |-> d.nValidated - (IF LastValidated(s, q[i].valid) THEN 1 ELSE 0)]

MarkBlockAsInFlight(d, p, b, valid) ==
    LET r == MarkBlockAsReceived(d, b)
        s == [r.ns[p] EXCEPT
                !.queue = Append(@, QueuedBlock(b, valid)), !.nInFlight = @ + 1,
                !.nValid = IF valid THEN @ + 1 ELSE @,
                !.download = IF r.ns[p].nInFlight = 0 THEN "on" ELSE @]
    IN  [ns |-> [r.ns EXCEPT ![p] = s], inFlight |-> [r.inFlight EXCEPT ![b] = p],
         nValidated |-> IF s.nValid = 1 /\ valid THEN r.nValidated + 1 ELSE r.nValidated]

\* One block of the loops that request blocks: nothing beyond the peer's share.
AlsoRequested(d, p, b) ==
    IF d.ns[p].nInFlight >= MAX_BLOCKS_IN_TRANSIT_PER_PEER THEN d
    ELSE MarkBlockAsInFlight(d, p, b, TRUE)

\* The request of the blocks bs, in this order, as far as the peer's share goes.
Requested(d, p, bs) ==
    LET after[i \in 0..Len(bs)] == IF i = 0 THEN d ELSE AlsoRequested(after[i - 1], p, bs[i])
    IN  after[Len(bs)]

NewRequests(d, p) == {b \in Block : d.inFlight[b] = p /\ inFlight[b] # p}

-----------------------------------------------------------------------------
(* What a peer has.                                                         *)

Better(s, b) == IF s.best = NoBlock \/ nChainWork[b] >= nChainWork[s.best] THEN b ELSE s.best

ProcessBlockAvailability(s, idx) ==
    IF s.unknown # NoBlock /\ s.unknown \in idx
    THEN [s EXCEPT !.best = Better(s, s.unknown), !.unknown = NoBlock]
    ELSE s

UpdateBlockAvailability(s, b, idx) ==
    LET t == ProcessBlockAvailability(s, idx)
    IN  IF b \in idx THEN [t EXCEPT !.best = Better(t, b)] ELSE [t EXCEPT !.unknown = b]

\* A mutant of Advances: any block that is here moves the last common block.
AdvancesOver(b) == b \in haveData

\* The walk moves the last common block over b: nChainTx is set.
Advances(b) == Linked(b)

\* One block of the loop of FindNextBlocksToDownload: w has the blocks found, the
\* last common block, and the peer the first block in flight is awaited from.
Walked(w, b, windowEnd, count, p) ==
    IF w.done THEN w
    ELSE IF b \in haveData \/ b \in Ancestors[tip]
    THEN IF Advances(b) THEN [w EXCEPT !.common = b] ELSE w
    ELSE IF inFlight[b] = NoPeer
    THEN IF nHeight[b] > windowEnd
         THEN [w EXCEPT !.done = TRUE,
                        !.staller = IF w.blocks = <<>> /\ w.waitingFor # p THEN w.waitingFor ELSE @]
         ELSE [w EXCEPT !.blocks = Append(@, b), !.done = Len(w.blocks) + 1 = count]
    ELSE IF w.waitingFor = NoPeer THEN [w EXCEPT !.waitingFor = inFlight[b]]
    ELSE w

\* FindNextBlocksToDownload, for a state s that is up to date on what is available.
FindNextBlocksToDownload(s, p, count) ==
    LET nothing == [blocks |-> <<>>, common |-> s.common, staller |-> NoPeer]
        guess == IF s.common # NoBlock THEN s.common
                 ELSE GetAncestor(tip, IF nHeight[s.best] < nHeight[tip] THEN nHeight[s.best]
                                                                        ELSE nHeight[tip])
        from == FindFork(guess, s.best)
        windowEnd == nHeight[from] + BLOCK_DOWNLOAD_WINDOW
        last == IF nHeight[s.best] < windowEnd + 1 THEN nHeight[s.best] ELSE windowEnd + 1
        path == [i \in 1..(last - nHeight[from]) |-> GetAncestor(s.best, nHeight[from] + i)]
        start == [blocks |-> <<>>, common |-> from, waitingFor |-> NoPeer, staller |-> NoPeer,
                  done |-> FALSE]
        walk[i \in 0..Len(path)] ==
            IF i = 0 THEN start ELSE Walked(walk[i - 1], path[i], windowEnd, count, p)
    IN  IF s.best = NoBlock THEN nothing
        ELSE IF nChainWork[s.best] < nChainWork[tip] THEN nothing
        ELSE walk[Len(path)]

-----------------------------------------------------------------------------
(* Peers come and go.                                                       *)

\* InitializeNode, and UpdatePreferredDownload once its version is known.
InitializeNode(p) ==
    /\ ~ns[p].up
    /\ p \in Silent => faults < MaxFaults
    /\ faults' = IF p \in Silent THEN faults + 1 ELSE faults
    /\ ns' = [ns EXCEPT ![p] = NodeState(TRUE)]
    /\ nPreferredDownload' = nPreferredDownload + (IF p \in Preferred THEN 1 ELSE 0)
    /\ UNCHANGED <<chainVars, inFlight, nSyncStarted, nPeersWithValidatedDownloads, netVars>>

PeerLeaves(p) ==
    /\ ns[p].up /\ ~ns[p].closing /\ faults < MaxFaults
    /\ faults' = faults + 1
    /\ ns' = [ns EXCEPT ![p].closing = TRUE]
    /\ UNCHANGED <<chainVars, inFlight, nSyncStarted, nPreferredDownload,
                   nPeersWithValidatedDownloads, netVars>>

\* A mutant of Released: the blocks of the peer stay marked.
ReleasedNone(p) == inFlight

\* The loop over vBlocksInFlight in FinalizeNode.
Released(p) ==
    [b \in Block |-> IF \E i \in 1..Len(ns[p].queue) : ns[p].queue[i].hash = b THEN NoPeer
                     ELSE inFlight[b]]

FinalizeNode(p) ==
    /\ ns[p].up /\ ns[p].closing
    /\ nSyncStarted' = nSyncStarted - (IF ns[p].sync THEN 1 ELSE 0)
    /\ inFlight' = Released(p)
    /\ nPreferredDownload' = nPreferredDownload - (IF p \in Preferred THEN 1 ELSE 0)
    /\ nPeersWithValidatedDownloads' =
          nPeersWithValidatedDownloads - (IF ns[p].nValid # 0 THEN 1 ELSE 0)
    /\ ns' = [ns EXCEPT ![p] = NodeState(FALSE)]
    /\ askedHeaders' = [askedHeaders EXCEPT ![p] = NoBlock]
    /\ askedBlocks' = [askedBlocks EXCEPT ![p] = {}]
    /\ UNCHANGED <<chainVars, faults>>

\* Time passes for a peer that does not answer.
Overdue(p) ==
    /\ p \in Silent /\ ns[p].up
    /\ \/ /\ ns[p].stalling = "on"
          /\ ns' = [ns EXCEPT ![p].stalling = "over"]
       \/ /\ ns[p].download = "on"
          /\ ns' = [ns EXCEPT ![p].download = "over"]
    /\ UNCHANGED <<chainVars, inFlight, nSyncStarted, nPreferredDownload,
                   nPeersWithValidatedDownloads, netVars, faults>>

-----------------------------------------------------------------------------
(* SendMessages.                                                            *)

Fetches(p) == p \in Preferred \/ nPreferredDownload = 0

BestHeader == CHOOSE b \in index : \A c \in index : nChainWork[c] <= nChainWork[b]

\* Start of the header sync: with one peer only, unless the best header is recent.
StartsSync(p) == ~ns[p].sync /\ ((nSyncStarted = 0 /\ Fetches(p)) \/ BestHeader \in Recent)

\* A mutant of GivenUp: the first block may be in flight for ever.
GivenUpStalled(p) == ns[p].stalling = "over"

\* The peer is disconnected because it stalls the window or because its first
\* block has been in flight too long.
GivenUp(p) == ns[p].stalling = "over" \/ (ns[p].queue # <<>> /\ ns[p].download = "over")

\* What SendMessages makes of the node states: it gives the peer up, or asks it for
\* blocks as far as its share goes and starts the timer of the peer that
\* everything waits for.
Sent(p) ==
    LET synced == [ns[p] EXCEPT !.sync = @ \/ StartsSync(p)]
        fresh == ProcessBlockAvailability(synced, index)
        count == MAX_BLOCKS_IN_TRANSIT_PER_PEER - fresh.nInFlight
        found == FindNextBlocksToDownload(fresh, p, count)
        d == [Down EXCEPT !.ns[p] = [fresh EXCEPT !.common = found.common]]
        e == Requested(d, p, found.blocks)
        stalls == /\ e.ns[p].nInFlight = 0 /\ found.staller # NoPeer
                  /\ e.ns[found.staller].stalling = "off"
    IN  IF GivenUp(p) THEN [Down EXCEPT !.ns[p] = [synced EXCEPT !.closing = TRUE]]
        ELSE IF ~(Fetches(p) \/ ~ibd) \/ count = 0 THEN [Down EXCEPT !.ns[p] = synced]
        ELSE IF stalls THEN [e EXCEPT !.ns[found.staller].stalling = "on"]
        ELSE e

SendMessages(p) ==
    /\ ns[p].up /\ ~ns[p].closing
    /\ nSyncStarted' = nSyncStarted + (IF StartsSync(p) THEN 1 ELSE 0)
    /\ askedHeaders' = IF StartsSync(p)
                       THEN [askedHeaders EXCEPT ![p] = IF BestHeader = Genesis THEN Genesis
                                                        ELSE pprev[BestHeader]]
                       ELSE askedHeaders
    /\ SetDown(Sent(p))
    /\ askedBlocks' = [askedBlocks EXCEPT ![p] = @ \cup NewRequests(Sent(p), p)]
    /\ UNCHANGED <<chainVars, nPreferredDownload, faults>>

-----------------------------------------------------------------------------
(* ProcessMessage.                                                          *)

\* inv: a peer announces its tip, which is new if it is neither known nor awaited.
New(b) == b \notin index /\ inFlight[b] = NoPeer

Announced(p, b) ==
    LET d == [Down EXCEPT !.ns[p] = UpdateBlockAvailability(ns[p], b, index)]
    IN  IF New(b) /\ CanDirectFetch /\ ns[p].nInFlight < MAX_BLOCKS_IN_TRANSIT_PER_PEER
        THEN MarkBlockAsInFlight(d, p, b, FALSE) ELSE d

Inv(p) ==
    LET d == Announced(p, PeerTip[p])
    IN  /\ ns[p].up /\ ~ns[p].closing
        /\ SetDown(d)
        /\ askedHeaders' = IF New(PeerTip[p]) THEN [askedHeaders EXCEPT ![p] = BestHeader]
                           ELSE askedHeaders
        /\ askedBlocks' = [askedBlocks EXCEPT ![p] = @ \cup NewRequests(d, p)]
        /\ UNCHANGED <<chainVars, nSyncStarted, nPreferredDownload, faults>>

\* The direct fetch of the headers message: the missing blocks of branch b, lowest
\* first, unless the walk down from b has stopped above the active chain.
DirectFetch(b) ==
    LET missing == {c \in Ancestors[b] \ Ancestors[tip] : c \notin haveData /\ inFlight[c] = NoPeer}
        n == Cardinality(missing)
        below(c) == Cardinality({e \in missing : nHeight[e] < nHeight[c]})
        lowest == CHOOSE c \in missing : \A e \in missing : nHeight[c] <= nHeight[e]
        reached == \/ n <= MAX_BLOCKS_IN_TRANSIT_PER_PEER
                   \/ n = MAX_BLOCKS_IN_TRANSIT_PER_PEER + 1 /\ pprev[lowest] \in Ancestors[tip]
    IN  IF reached THEN [i \in 1..n |-> CHOOSE c \in missing : below(c) = i - 1] ELSE <<>>

\* headers: the answer to getheaders, with the blocks above the point where the
\* peer's chain leaves the locator.
Headers(p) ==
    LET fork == FindFork(askedHeaders[p], PeerTip[p])
        most == nHeight[fork] + MAX_HEADERS_RESULTS
        last == GetAncestor(PeerTip[p], IF nHeight[PeerTip[p]] < most THEN nHeight[PeerTip[p]] ELSE most)
        idx == index \cup Ancestors[last]
        d == [Down EXCEPT !.ns[p] = UpdateBlockAvailability(ns[p], last, idx)]
        fetch == CanDirectFetch /\ nChainWork[tip] <= nChainWork[last]
        e == IF fetch THEN Requested(d, p, DirectFetch(last)) ELSE d
    IN  /\ ns[p].up /\ ~ns[p].closing /\ askedHeaders[p] # NoBlock
        /\ IF last = fork
           THEN /\ UNCHANGED <<index, ns, inFlight, nPeersWithValidatedDownloads, askedBlocks>>
                /\ askedHeaders' = [askedHeaders EXCEPT ![p] = NoBlock]
           ELSE /\ index' = idx
                /\ SetDown(e)
                /\ askedBlocks' = [askedBlocks EXCEPT ![p] = @ \cup NewRequests(e, p)]
                /\ askedHeaders' = [askedHeaders EXCEPT ![p] = IF nHeight[last] = most THEN last
                                                              ELSE NoBlock]
        /\ UNCHANGED <<haveData, tip, ibd, nSyncStarted, nPreferredDownload, faults>>

\* ActivateBestChain: the best linked block, if it has more work than the tip.
BestLinked(data) ==
    LET linked == {b \in Block : Ancestors[b] \subseteq data}
        best == CHOOSE b \in linked : \A c \in linked : nChainWork[c] <= nChainWork[b]
    IN  IF nChainWork[best] > nChainWork[tip] THEN best ELSE tip

\* AcceptBlock: a block that was not asked for is kept only if it may become the tip.
Kept(b, requested) ==
    /\ pprev[b] \in index /\ b \notin haveData
    /\ requested \/ (nChainWork[b] > nChainWork[tip]
                     /\ nHeight[b] <= nHeight[tip] + MIN_BLOCKS_TO_KEEP)

\* block: the answer to a getdata, or a block that was not asked for.
ProcessNewBlock(p, b) ==
    LET requested == inFlight[b] # NoPeer
        data == IF Kept(b, requested) THEN haveData \cup {b} ELSE haveData
    IN  /\ ns[p].up /\ ~ns[p].closing /\ b \in Ancestors[PeerTip[p]] \ {Genesis}
        /\ SetDown(MarkBlockAsReceived(Down, b))
        /\ askedBlocks' = [askedBlocks EXCEPT ![p] = @ \ {b}]
        /\ index' = IF pprev[b] \in index THEN index \cup {b} ELSE index
        /\ haveData' = data
        /\ tip' = BestLinked(data)
        /\ ibd' = (ibd /\ tip' \notin Recent)
        /\ UNCHANGED <<nSyncStarted, nPreferredDownload, askedHeaders>>

Answer(p) == (\E b \in askedBlocks[p] : ProcessNewBlock(p, b)) /\ UNCHANGED faults

\* A block pushed by a peer, or sent twice.
Unsolicited(p) ==
    /\ faults < MaxFaults
    /\ faults' = faults + 1
    /\ \E b \in Block \ askedBlocks[p] : ProcessNewBlock(p, b)

Next ==
    \E p \in Peer :
        \/ InitializeNode(p) \/ PeerLeaves(p) \/ FinalizeNode(p) \/ Overdue(p)
        \/ SendMessages(p) \/ Inv(p) \/ Headers(p) \/ Answer(p) \/ Unsolicited(p)

\* The state predicates ~ENABLED <<A>>_vars of the four steps of a peer.
Away(p) == ~ns[p].up \/ ns[p].closing
NothingToSend(p) == Away(p) \/ (~StartsSync(p) /\ Sent(p) = Down)
NothingToAnnounce(p) ==
    Away(p) \/ /\ Announced(p, PeerTip[p]) = Down
               /\ New(PeerTip[p]) => askedHeaders[p] = BestHeader
NoHeadersAsked(p) == Away(p) \/ askedHeaders[p] = NoBlock
NoBlocksAsked(p) == Away(p) \/ askedBlocks[p] = {}

\* The threads run, timers expire, and peers that are not silent connect,
\* announce their tip and answer in time.  The formulas []<>... \/ []<><<A>>_vars
\* are weak fairness of A with its ENABLED written out.
Fairness ==
    \A p \in Peer :
        /\ WF_vars(FinalizeNode(p)) /\ WF_vars(Overdue(p))
        /\ []<>NothingToSend(p) \/ []<><<SendMessages(p)>>_vars
        /\ p \notin Silent =>
              /\ WF_vars(InitializeNode(p))
              /\ []<>NothingToAnnounce(p) \/ []<><<Inv(p)>>_vars
              /\ []<>NoHeadersAsked(p) \/ []<><<Headers(p)>>_vars
              /\ []<>NoBlocksAsked(p) \/ []<><<Answer(p)>>_vars

Spec == Init /\ [][Next]_vars /\ Fairness

-----------------------------------------------------------------------------
(* Properties.                                                              *)

InQueue(p, b) == {i \in 1..Len(ns[p].queue) : ns[p].queue[i].hash = b}

\* mapBlocksInFlight, the queues of the peers and the counters always say the
\* same, through late and unrequested blocks, requests that move to another peer
\* and peers that go: what FinalizeNode asserts when the last peer has gone.
InFlightExact ==
    /\ \A p \in Peer : \A b \in Block :
          Cardinality(InQueue(p, b)) = (IF inFlight[b] = p THEN 1 ELSE 0)
    /\ \A p \in Peer : /\ ns[p].nInFlight = Len(ns[p].queue)
                       /\ ns[p].nValid = Cardinality({i \in 1..Len(ns[p].queue) : ns[p].queue[i].valid})
                       /\ ns[p].nInFlight <= MAX_BLOCKS_IN_TRANSIT_PER_PEER
    /\ nPeersWithValidatedDownloads = Cardinality({p \in Peer : ns[p].nValid > 0})
    /\ nSyncStarted = Cardinality({p \in Peer : ns[p].sync})
    /\ nPreferredDownload = Cardinality({p \in Preferred : ns[p].up})

\* A block is never kept away from the peers that have it: whoever a block is
\* awaited from is connected, and has been asked for it or has it.
NoStrayRequest ==
    \A b \in Block : inFlight[b] # NoPeer =>
        ns[inFlight[b]].up /\ b \in askedBlocks[inFlight[b]]

\* The last common block is one we have with everything below it, so that the
\* window never skips a block that is missing.
CommonBlockLinked == \A p \in Peer : ns[p].common # NoBlock => Linked(ns[p].common)

\* The chain of a peer that answers is downloaded, although silent peers take
\* requests and never answer, the window is full behind them, and a peer leaves.
ChainDownloaded ==
    \A p \in Peer \ Silent : <>[](nChainWork[tip] >= nChainWork[PeerTip[p]])
=============================================================================
