---------------------------- MODULE BlockDownload ----------------------------
(***************************************************************************)
(* Header synchronisation and block download (main.cpp: CNodeState, the    *)
(* blocks in flight, FindNextBlocksToDownload, the inv, headers and block  *)
(* messages of ProcessMessage, and SendMessages).                          *)
(*                                                                         *)
(* A peer has a chain; it answers our requests in the order we sent them,  *)
(* announces the blocks its chain grows by, and may send a block nobody    *)
(* asked for.  The peers of world.prompt answer; the others need not.      *)
(* ProcessMessage and SendMessages hold cs_main, so each is one step, in   *)
(* any order over the peers.  Clocks are abstract: the time a stalling or a *)
(* downloading peer is given may run out at any moment, except for a peer  *)
(* that answers promptly.                                                  *)
(***************************************************************************)
EXTENDS Integers, Sequences, FiniteSets, SequencesExt, FiniteSetsExt

CONSTANTS
    Blocks, NoBlock, Peers, NoPeer,
    Worlds,                         \* the block trees and peers a behaviour may start with
    BLOCK_DOWNLOAD_WINDOW, MAX_BLOCKS_IN_TRANSIT_PER_PEER, MAX_HEADERS_RESULTS

VARIABLES
    world,              \* the block tree, the peers and the chains they will have
    mapBlockIndex,      \* blocks whose header we know
    haveData,           \* blocks with BLOCK_HAVE_DATA
    failed,             \* blocks with BLOCK_FAILED_VALID
    tip, pindexBestHeader,
    mapBlockSource,     \* who sent a stored block
    download,           \* CNodeState of every peer, and what is kept over all of them
    turn,               \* the peer whose turn it is in ThreadMessageHandler
    ibd,                \* IsInitialBlockDownload, a latch
    asked,              \* the requests sent to a peer that it has not handled
    pushes,             \* how many blocks the peer will still send unasked
    reached             \* how far the peer is in its sequence of tips

dlVars == <<world, mapBlockIndex, haveData, failed, tip, pindexBestHeader, mapBlockSource,
            download, turn, ibd, asked, pushes, reached>>

----------------------------------------------------------------------------
(* The block tree *)

Chain(b) == world.chain[b]              \* from the genesis block to b
Height(b) == Len(Chain(b))              \* every block has the same work
Ancestors(b) == ToSet(Chain(b))
Parent(b) == IF Height(b) = 1 THEN NoBlock ELSE Chain(b)[Height(b) - 1]
Genesis == CHOOSE b \in Blocks : Height(b) = 1
PeerTip(p) == world.tips[p][reached[p]]

LastCommonAncestor(a, b) ==
    Chain(a)[Max({i \in 1..Min({Height(a), Height(b)}) : Chain(a)[i] = Chain(b)[i]})]

----------------------------------------------------------------------------
(* What is in flight *)

CNodeState ==
    [best |-> NoBlock, unknown |-> NoBlock, common |-> NoBlock,
     fSyncStarted |-> FALSE, stalling |-> FALSE,
     vBlocksInFlight |-> {}, validated |-> {}, nBlocksInFlight |-> 0, nBlocksInFlightValidHeaders |-> 0,
     fPreferredDownload |-> FALSE, nMisbehavior |-> 0, fShouldBan |-> FALSE, fDisconnect |-> FALSE]

One(condition) == IF condition THEN 1 ELSE 0

MarkBlockAsReceived(d, b) ==
    LET p == d.mapBlocksInFlight[b]
        v == b \in d.node[p].validated
        valid == d.node[p].nBlocksInFlightValidHeaders - One(v)
    IN  IF p = NoPeer THEN d
        ELSE [d EXCEPT
                !.node[p].nBlocksInFlightValidHeaders = valid,
                !.nPeersWithValidatedDownloads = @ - One(valid = 0 /\ v),
                !.node[p].vBlocksInFlight = @ \ {b},
                !.node[p].validated = @ \ {b},
                !.node[p].nBlocksInFlight = @ - 1,
                !.node[p].stalling = FALSE,
                !.mapBlocksInFlight[b] = NoPeer]

\* Mutant: a block without a header counts as a validated download of its peer.
MarkBlockAsInFlightAnyHeader(d, p, b, headerKnown) ==
    LET r == MarkBlockAsReceived(d, b)
        valid == r.node[p].nBlocksInFlightValidHeaders + One(headerKnown)
    IN  [r EXCEPT
            !.node[p].vBlocksInFlight = @ \cup {b},
            !.node[p].validated = IF headerKnown THEN @ \cup {b} ELSE @,
            !.node[p].nBlocksInFlight = @ + 1,
            !.node[p].nBlocksInFlightValidHeaders = valid,
            !.nPeersWithValidatedDownloads = @ + One(valid = 1),
            !.mapBlocksInFlight[b] = p]

MarkBlockAsInFlight(d, p, b, headerKnown) ==
    LET r == MarkBlockAsReceived(d, b)
        valid == r.node[p].nBlocksInFlightValidHeaders + One(headerKnown)
    IN  [r EXCEPT
            !.node[p].vBlocksInFlight = @ \cup {b},
            !.node[p].validated = IF headerKnown THEN @ \cup {b} ELSE @,
            !.node[p].nBlocksInFlight = @ + 1,
            !.node[p].nBlocksInFlightValidHeaders = valid,
            !.nPeersWithValidatedDownloads = @ + One(valid = 1 /\ headerKnown),
            !.mapBlocksInFlight[b] = p]

----------------------------------------------------------------------------
(* What a peer is assumed to have *)

BetterKnown(s, b) == IF s.best = NoBlock \/ Height(b) >= Height(s.best) THEN [s EXCEPT !.best = b] ELSE s

ProcessBlockAvailability(s, index) ==
    IF s.unknown # NoBlock /\ s.unknown \in index
    THEN [BetterKnown(s, s.unknown) EXCEPT !.unknown = NoBlock]
    ELSE s

UpdateBlockAvailability(s, b, index) ==
    LET t == ProcessBlockAvailability(s, index)
    IN  IF b \in index THEN BetterKnown(t, b) ELSE [t EXCEPT !.unknown = b]

\* nChainTx: the data of the block and of all its ancestors was received.
HasChainTx(b, data) == Ancestors(b) \subseteq data

Missing(b) == b \notin haveData \cup Ancestors(tip)
Free(b) == Missing(b) /\ download.mapBlocksInFlight[b] = NoPeer

\* The blocks FindNextBlocksToDownload looks at on the way to the peer's best block: it stops at
\* an invalid block, at a block it could fetch but for the window, and when it has enough.
Walked(path, count, windowEnd) ==
    LET stops == {i \in 1..Len(path) :
                    \/ path[i] \in failed
                    \/ Free(path[i]) /\ Height(path[i]) > windowEnd
                    \/ Cardinality({k \in 1..i : Free(path[k])}) = count}
    IN  IF stops = {} THEN path ELSE SubSeq(path, 1, Min(stops))

\* The new state of the peer, the blocks to ask it for, and the peer that holds us up.
FindNextBlocksToDownload(p, s0, count) ==
    LET s == ProcessBlockAvailability(s0, mapBlockIndex)
        nothing == [node |-> s, vBlocks |-> <<>>, staller |-> NoPeer]
        guess == IF s.common = NoBlock THEN Chain(tip)[Min({Height(s.best), Height(tip)})] ELSE s.common
        common == LastCommonAncestor(guess, s.best)
        windowEnd == Height(common) + BLOCK_DOWNLOAD_WINDOW
        maxHeight == Min({Height(s.best), windowEnd + 1})
        walked == Walked(SubSeq(Chain(s.best), Height(common) + 1, maxHeight), count, windowEnd)
        valid == SelectSeq(walked, LAMBDA b : b \notin failed)
        had == SelectSeq(valid, LAMBDA b : ~Missing(b) /\ HasChainTx(b, haveData))
        free == SelectSeq(valid, Free)
        vBlocks == SelectSeq(free, LAMBDA b : Height(b) <= windowEnd)
        waiting == SelectSeq(valid, LAMBDA b : Missing(b) /\ ~Free(b))
        waitingfor == IF waiting = <<>> THEN NoPeer ELSE download.mapBlocksInFlight[waiting[1]]
    IN  CASE count = 0 -> [nothing EXCEPT !.node = s0]
          [] count > 0 /\ (s.best = NoBlock \/ Height(s.best) < Height(tip)) -> nothing
          [] OTHER -> [node |-> [s EXCEPT !.common = IF had = <<>> THEN common ELSE Last(had)],
                       vBlocks |-> vBlocks,
                       staller |-> IF vBlocks = <<>> /\ free # <<>> /\ waitingfor # p THEN waitingfor ELSE NoPeer]

----------------------------------------------------------------------------
(* Punishment *)

Misbehaving(s, howmuch) ==
    [s EXCEPT !.nMisbehavior = @ + howmuch,
              !.fShouldBan = @ \/ (s.nMisbehavior < 100 /\ s.nMisbehavior + howmuch >= 100)]

Fetches(p) == download.node[p].fPreferredDownload
              \/ (download.nPreferredDownload = 0 /\ p \notin world.client)

Ask(p, requests) == asked' = [asked EXCEPT ![p] = @ \o requests]
GetHeaders(b) == [kind |-> "getheaders", block |-> b]
GetData(b) == [kind |-> "getdata", block |-> b]

----------------------------------------------------------------------------
(* Connections *)

InitializeNode(p) ==
    /\ p \notin download.met
    /\ download' = [download EXCEPT !.met = @ \cup {p}, !.nodes = @ \cup {p}]
    /\ UNCHANGED <<world, mapBlockIndex, haveData, failed, tip, pindexBestHeader, mapBlockSource, turn, ibd, asked, pushes, reached>>

UpdatePreferredDownload(p) ==
    /\ p \in download.nodes \ download.versioned
    /\ ~download.node[p].fDisconnect
    /\ LET preferred == (p \notin world.inbound \/ p \in world.whitelisted) /\ p \notin world.client
       IN  download' = [download EXCEPT
                !.versioned = @ \cup {p},
                !.node[p].fPreferredDownload = preferred,
                !.nPreferredDownload = @ - One(download.node[p].fPreferredDownload) + One(preferred)]
    /\ UNCHANGED <<world, mapBlockIndex, haveData, failed, tip, pindexBestHeader, mapBlockSource, turn, ibd, asked, pushes, reached>>

\* The peer closes the connection.
Leave(p) ==
    /\ p \in download.nodes \ world.prompt
    /\ ~download.node[p].fDisconnect
    /\ download' = [download EXCEPT !.node[p].fDisconnect = TRUE]
    /\ UNCHANGED <<world, mapBlockIndex, haveData, failed, tip, pindexBestHeader, mapBlockSource, turn, ibd, asked, pushes, reached>>

FinalizeNode(p) ==
    LET s == download.node[p] IN
    /\ p \in download.nodes
    /\ s.fDisconnect
    /\ download' = [download EXCEPT
            !.nodes = @ \ {p},
            !.versioned = @ \ {p},
            !.node[p] = CNodeState,
            !.nSyncStarted = @ - One(s.fSyncStarted),
            !.mapBlocksInFlight = [b \in Blocks |-> IF b \in s.vBlocksInFlight THEN NoPeer ELSE @[b]],
            !.nPreferredDownload = @ - One(s.fPreferredDownload),
            !.nPeersWithValidatedDownloads = @ - One(s.nBlocksInFlightValidHeaders # 0)]
    /\ asked' = [asked EXCEPT ![p] = <<>>]
    /\ UNCHANGED <<world, mapBlockIndex, haveData, failed, tip, pindexBestHeader, mapBlockSource, turn, ibd, pushes, reached>>

Ready(p) == p \in download.versioned /\ ~download.node[p].fDisconnect

----------------------------------------------------------------------------
(* ProcessMessage *)

\* Mutant: the block is asked for before the headers that lead up to it.
InvBlockFirst(p) ==
    LET b == world.tips[p][reached[p] + 1]
        d == [download EXCEPT !.node[p] = UpdateBlockAvailability(@, b, mapBlockIndex)]
        new == b \notin mapBlockIndex /\ d.mapBlocksInFlight[b] = NoPeer
        direct == new /\ tip \in world.recent /\ d.node[p].nBlocksInFlight < MAX_BLOCKS_IN_TRANSIT_PER_PEER
    IN  /\ Ready(p)
        /\ reached[p] < Len(world.tips[p])
        /\ reached' = [reached EXCEPT ![p] = @ + 1]
        /\ download' = IF direct THEN MarkBlockAsInFlight(d, p, b, FALSE) ELSE d
        /\ Ask(p, (IF direct THEN <<GetData(b)>> ELSE <<>>)
                  \o (IF new THEN <<GetHeaders(pindexBestHeader)>> ELSE <<>>))
        /\ UNCHANGED <<world, mapBlockIndex, haveData, failed, tip, pindexBestHeader, mapBlockSource, turn, ibd, pushes>>

\* inv: the peer's chain has grown, and it announces its new tip.
Inv(p) ==
    LET b == world.tips[p][reached[p] + 1]
        d == [download EXCEPT !.node[p] = UpdateBlockAvailability(@, b, mapBlockIndex)]
        new == b \notin mapBlockIndex /\ d.mapBlocksInFlight[b] = NoPeer
        direct == new /\ tip \in world.recent /\ d.node[p].nBlocksInFlight < MAX_BLOCKS_IN_TRANSIT_PER_PEER
    IN  /\ Ready(p)
        /\ reached[p] < Len(world.tips[p])
        /\ reached' = [reached EXCEPT ![p] = @ + 1]
        /\ download' = IF direct THEN MarkBlockAsInFlight(d, p, b, FALSE) ELSE d
        /\ Ask(p, (IF new THEN <<GetHeaders(pindexBestHeader)>> ELSE <<>>)
                  \o (IF direct THEN <<GetData(b)>> ELSE <<>>))
        /\ UNCHANGED <<world, mapBlockIndex, haveData, failed, tip, pindexBestHeader, mapBlockSource, turn, ibd, pushes>>

\* AcceptBlockHeader: what one header does to the headers accepted so far.
AcceptBlockHeader(h, b) ==
    CASE h.stop -> h
      [] ~h.stop /\ b \in mapBlockIndex \cup h.new ->
            IF b \in failed THEN [h EXCEPT !.stop = TRUE, !.last = b] ELSE [h EXCEPT !.last = b]
      [] ~h.stop /\ b \notin mapBlockIndex \cup h.new /\ Parent(b) \notin mapBlockIndex \cup h.new ->
            [h EXCEPT !.stop = TRUE, !.dos = 10]
      [] OTHER -> IF Parent(b) \in failed THEN [h EXCEPT !.stop = TRUE, !.dos = 100]
                  ELSE [h EXCEPT !.new = @ \cup {b}, !.last = b]

NoHeader == [stop |-> FALSE, last |-> NoBlock, new |-> {}, dos |-> 0]

\* AddToBlockIndex keeps the header with the most work, the first of several.
BestHeader(new) ==
    LET better == {b \in new : Height(b) > Height(pindexBestHeader)
                               /\ \A c \in new : Height(c) <= Height(b)}
    IN  IF better = {} THEN pindexBestHeader ELSE CHOOSE b \in better : TRUE

\* Mutant: a full headers message is not followed by another getheaders.
HeadersOnce(p) ==
    LET start == Head(asked[p]).block
        fork == LastCommonAncestor(start, PeerTip(p))
        headers == SubSeq(Chain(PeerTip(p)), Height(fork) + 1,
                          Min({Height(PeerTip(p)), Height(fork) + MAX_HEADERS_RESULTS}))
    IN  /\ Ready(p)
        /\ asked[p] # <<>>
        /\ Head(asked[p]).kind = "getheaders"
        /\ \E h \in {FoldLeft(AcceptBlockHeader, NoHeader, headers)} :
            /\ mapBlockIndex' = mapBlockIndex \cup h.new
            /\ pindexBestHeader' = BestHeader(h.new)
            /\ download' = [download EXCEPT !.node[p] =
                    CASE h.stop -> Misbehaving(@, h.dos)
                      [] ~h.stop /\ headers = <<>> -> @
                      [] OTHER -> UpdateBlockAvailability(@, h.last, mapBlockIndex \cup h.new)]
            /\ asked' = [asked EXCEPT ![p] = Tail(@)]
        /\ UNCHANGED <<world, haveData, failed, tip, mapBlockSource, turn, ibd, pushes, reached>>

Headers(p) ==
    LET start == Head(asked[p]).block
        fork == LastCommonAncestor(start, PeerTip(p))
        headers == SubSeq(Chain(PeerTip(p)), Height(fork) + 1,
                          Min({Height(PeerTip(p)), Height(fork) + MAX_HEADERS_RESULTS}))
    IN  /\ Ready(p)
        /\ asked[p] # <<>>
        /\ Head(asked[p]).kind = "getheaders"
        /\ \E h \in {FoldLeft(AcceptBlockHeader, NoHeader, headers)} :
            /\ mapBlockIndex' = mapBlockIndex \cup h.new
            /\ pindexBestHeader' = BestHeader(h.new)
            /\ download' = [download EXCEPT !.node[p] =
                    CASE h.stop -> Misbehaving(@, h.dos)
                      [] ~h.stop /\ headers = <<>> -> @
                      [] OTHER -> UpdateBlockAvailability(@, h.last, mapBlockIndex \cup h.new)]
            /\ asked' = [asked EXCEPT ![p] =
                    IF ~h.stop /\ Len(headers) = MAX_HEADERS_RESULTS
                    THEN Append(Tail(@), GetHeaders(h.last)) ELSE Tail(@)]
        /\ UNCHANGED <<world, haveData, failed, tip, mapBlockSource, turn, ibd, pushes, reached>>

\* FindMostWorkChain: the chains we have the data of that beat the tip.
MostWork(data, bad) ==
    LET candidates == {b \in data : HasChainTx(b, data) /\ Ancestors(b) \cap bad = {} /\ Height(b) > Height(tip)}
    IN  {b \in candidates : \A c \in candidates : Height(c) <= Height(b)}

\* ActivateBestChain: the new tip and the blocks found invalid on the way.
Activated(data) ==
    IF MostWork(data, failed) = {} THEN {[tip |-> tip, failed |-> failed]}
    ELSE UNION {LET bad == failed \cup (Ancestors(b) \cap world.invalid)
                    next == MostWork(data, bad)
                IN  {[tip |-> t, failed |-> bad] : t \in IF next = {} THEN {tip} ELSE next}
                : b \in MostWork(data, failed)}

\* InvalidBlockFound: who sent the block is punished, if it is still there.
PunishSource(d, source, bad) ==
    [d EXCEPT !.node = [q \in Peers |->
        IF q \in d.nodes /\ \E b \in bad : source[b] = q THEN Misbehaving(@[q], 100) ELSE @[q]]]

ProcessNewBlock(p, b) ==
    \E h \in {AcceptBlockHeader(NoHeader, b)}, received \in {MarkBlockAsReceived(download, b)} :
    LET requested == download.mapBlocksInFlight[b] # NoPeer \/ (p \in world.whitelisted /\ ~ibd)
        store == ~h.stop /\ b \notin haveData /\ (requested \/ Height(b) > Height(tip))
        data == IF store THEN haveData \cup {b} ELSE haveData
        source == IF h.last = b THEN [mapBlockSource EXCEPT ![b] = p] ELSE mapBlockSource
    IN  /\ mapBlockIndex' = mapBlockIndex \cup h.new
        /\ pindexBestHeader' = BestHeader(h.new)
        /\ haveData' = data
        /\ \E a \in IF h.stop THEN {[tip |-> tip, failed |-> failed]} ELSE Activated(data) :
            /\ tip' = a.tip
            /\ failed' = a.failed
            /\ mapBlockSource' = [c \in Blocks |-> IF c \in Ancestors(a.tip) THEN NoPeer ELSE source[c]]
            /\ download' = PunishSource([received EXCEPT !.node[p] = Misbehaving(@, h.dos)], source, a.failed \ failed)

\* block: the answer to a getdata.
Block(p) ==
    /\ Ready(p)
    /\ asked[p] # <<>>
    /\ Head(asked[p]).kind = "getdata"
    /\ ProcessNewBlock(p, Head(asked[p]).block)
    /\ asked' = [asked EXCEPT ![p] = Tail(@)]
    /\ UNCHANGED <<world, turn, ibd, pushes, reached>>

\* block: sent without being asked for.
Push(p) ==
    /\ Ready(p)
    /\ pushes[p] > 0
    /\ pushes' = [pushes EXCEPT ![p] = @ - 1]
    /\ ProcessNewBlock(p, PeerTip(p))
    /\ UNCHANGED <<world, turn, ibd, asked, reached>>

----------------------------------------------------------------------------
(* SendMessages *)

Requested(d, p, vBlocks) == FoldLeft(LAMBDA e, b : MarkBlockAsInFlight(e, p, b, TRUE), d, vBlocks)

\* timeUp: the time a stalling peer, or one we wait for, is given has run out.
SendMessages(p, timeUp) ==
    LET s == download.node[p]
        banned == s.fShouldBan /\ p \notin world.whitelisted
        startSync == ~s.fSyncStarted /\ p \notin world.client
                     /\ ((download.nSyncStarted = 0 /\ Fetches(p)) \/ pindexBestHeader \in world.today)
        start == IF Parent(pindexBestHeader) # NoBlock THEN Parent(pindexBestHeader) ELSE pindexBestHeader
        timedOut == timeUp /\ (s.stalling \/ s.vBlocksInFlight # {})
        fetch == ~banned /\ ~timedOut /\ p \notin world.client /\ (Fetches(p) \/ ~ibd)
        count == IF fetch THEN MAX_BLOCKS_IN_TRANSIT_PER_PEER - s.nBlocksInFlight ELSE 0
    IN  /\ turn = p
        /\ turn' \in Peers
        /\ Ready(p)
        /\ \E found \in {FindNextBlocksToDownload(p, s, count)} :
           \E d \in {[download EXCEPT
                        !.node[p] = [found.node EXCEPT !.fShouldBan = FALSE,
                                                       !.fDisconnect = banned \/ timedOut,
                                                       !.fSyncStarted = @ \/ startSync],
                        !.nSyncStarted = @ + One(startSync)]} :
           \E e \in {Requested(d, p, found.vBlocks)} :
            /\ download' = IF e.node[p].nBlocksInFlight = 0 /\ found.staller # NoPeer
                           THEN [e EXCEPT !.node[found.staller].stalling = TRUE] ELSE e
            /\ Ask(p, (IF startSync THEN <<GetHeaders(start)>> ELSE <<>>)
                      \o [i \in 1..Len(found.vBlocks) |-> GetData(found.vBlocks[i])])
        /\ UNCHANGED <<world, mapBlockIndex, haveData, failed, tip, pindexBestHeader, mapBlockSource, ibd, pushes, reached>>

\* A peer that is going, or has not said its version, is passed over.
PassOver(p) ==
    /\ turn = p
    /\ ~Ready(p)
    /\ turn' \in Peers
    /\ UNCHANGED <<world, mapBlockIndex, haveData, failed, tip, pindexBestHeader, mapBlockSource, download, ibd, asked, pushes, reached>>

EndInitialBlockDownload ==
    /\ ibd
    /\ pindexBestHeader \in world.recent
    /\ ibd' = FALSE
    /\ UNCHANGED <<world, mapBlockIndex, haveData, failed, tip, pindexBestHeader, mapBlockSource, download, turn, asked, pushes, reached>>

----------------------------------------------------------------------------
Init ==
    /\ world \in Worlds
    /\ mapBlockIndex = Ancestors(world.start) /\ haveData = mapBlockIndex /\ failed = {}
    /\ tip = world.start /\ pindexBestHeader = tip
    /\ mapBlockSource = [b \in Blocks |-> NoPeer]
    /\ download = [node |-> [p \in Peers |-> CNodeState], nodes |-> {}, versioned |-> {}, met |-> Peers \ world.peers,
                   mapBlocksInFlight |-> [b \in Blocks |-> NoPeer],
                   nSyncStarted |-> 0, nPreferredDownload |-> 0, nPeersWithValidatedDownloads |-> 0]
    /\ turn \in world.peers
    /\ ibd = TRUE
    /\ asked = [p \in Peers |-> <<>>]
    /\ pushes = world.pushes
    /\ reached = [p \in Peers |-> 1]

Next ==
    \/ \E p \in Peers :
        \/ InitializeNode(p) \/ UpdatePreferredDownload(p) \/ Leave(p) \/ FinalizeNode(p)
        \/ Inv(p) \/ Headers(p) \/ Block(p) \/ Push(p)
        \/ SendMessages(p, FALSE) \/ PassOver(p)
        \/ p \notin world.prompt /\ SendMessages(p, TRUE)
    \/ EndInitialBlockDownload

\* A prompt peer that has yet to connect, to say its version, to announce its tip or to answer.
Pending(p) ==
    /\ p \in world.prompt
    /\ \/ p \notin download.met \/ p \in download.nodes \ download.versioned
       \/ p \in download.nodes /\ (asked[p] # <<>> \/ reached[p] < Len(world.tips[p]))

\* A peer that keeps us waiting, until SendMessages finds that its time has run out.
Owes(p) ==
    /\ p \in download.versioned \ world.prompt
    /\ ~download.node[p].fDisconnect
    /\ download.node[p].stalling \/ download.node[p].vBlocksInFlight # {}

Closing(p) == p \in download.nodes /\ download.node[p].fDisconnect

\* The message handler comes round to every peer, prompt peers do what they have to, the time
\* of a peer that owes us something runs out, and a connection that is going is closed.
Fairness == \A p \in Peers :
    []<>(turn = p) /\ []<>~Pending(p) /\ []<>~Owes(p) /\ []<>~Closing(p)

Spec == Init /\ [][Next]_dlVars /\ Fairness

----------------------------------------------------------------------------
InFlightExact(d) ==
    /\ \A p \in Peers :
        /\ d.node[p].vBlocksInFlight = {b \in Blocks : d.mapBlocksInFlight[b] = p}
        /\ d.node[p].validated \subseteq d.node[p].vBlocksInFlight
        /\ d.node[p].nBlocksInFlight = Cardinality(d.node[p].vBlocksInFlight)
        /\ d.node[p].nBlocksInFlightValidHeaders = Cardinality(d.node[p].validated)
        /\ p \notin d.nodes => d.node[p] = CNodeState
    /\ d.nPeersWithValidatedDownloads = Cardinality({p \in Peers : d.node[p].validated # {}})
    /\ d.nSyncStarted = Cardinality({p \in Peers : d.node[p].fSyncStarted})
    /\ d.nPreferredDownload = Cardinality({p \in Peers : d.node[p].fPreferredDownload})

(* The download bookkeeping is exact over all peers: mapBlocksInFlight and the peers' lists name  *)
(* the same blocks, the counters count them (main.cpp asserts nPeersWithValidatedDownloads >= 0), *)
(* and a peer that is gone has left nothing behind.                                               *)
BookkeepingExact == InFlightExact(download)

(* A peer is blamed for stalling only while it owes us a block, and what FindNextBlocksToDownload *)
(* calls the last common block is one whose whole chain we have.                                  *)
StallersOweBlocks ==
    \A p \in download.nodes :
        /\ download.node[p].stalling => download.node[p].vBlocksInFlight # {}
        /\ download.node[p].common # NoBlock => HasChainTx(download.node[p].common, haveData)

(* A peer that answers promptly and has a valid chain is neither punished nor disconnected. *)
PromptPeersKept ==
    \A p \in world.prompt \cap download.nodes :
        ~download.node[p].fDisconnect /\ download.node[p].nMisbehavior = 0

Synced == \A p \in world.prompt : Height(tip) >= Height(Last(world.tips[p]))

(* We end up with a chain as good as the best of the peers that answer, whatever the others do. *)
EventuallySynced == <>[]Synced
=============================================================================
