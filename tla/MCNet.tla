------------------------------- MODULE MCNet --------------------------------
(***************************************************************************)
(* The parts of the peer-to-peer code side by side, for one model checking *)
(* run: BlockDownload, the two machines of Network, AddrMan and MessagePipe. *)
(* sel, chosen at the start, says which one a behaviour is about.  The       *)
(* variables of Network stay as they are at first in the behaviours of the   *)
(* others, and those of the others are Off.                                  *)
(***************************************************************************)
EXTENDS Network, Naturals, FiniteSets, Sequences

CONSTANTS
    Blocks, NoBlock, BLOCK_DOWNLOAD_WINDOW, MAX_BLOCKS_IN_TRANSIT_PER_PEER, MAX_HEADERS_RESULTS, BlockWorlds,
    Services, Host, Sources, NewBuckets, TriedBuckets, Positions, NewBucket, TriedBucket, NewPosition, TriedPosition,
    ADDRMAN_NEW_BUCKETS_PER_ADDRESS, ADDRMAN_GETADDR_MAX_PCT, MaxId,
    Ends, Errands, AnswerSize, Window, SendBufferSize, ReceiveFloodSize,
    Off

ASSUME NetAssumption == RelayAssumption /\ ConnectionsAssumption

VARIABLES
    sel, blockWorld,
    mapBlockIndex, haveData, failed, tip, pindexBestHeader, mapBlockSource, download, turn, ibd, asked, pushes, reached,
    addrman,
    errands, toAsk, vSendMsg, nSendOffset, nSendSize, wire, selected, vRecvMsg, vRecvGetData, answers

Download == INSTANCE BlockDownload WITH Worlds <- BlockWorlds, world <- blockWorld
Addr     == INSTANCE AddrMan
Pipe     == INSTANCE MessagePipe

downloadVars == <<blockWorld, mapBlockIndex, haveData, failed, tip, pindexBestHeader, mapBlockSource, download, turn,
    ibd, asked, pushes, reached>>
wireVars == <<errands, toAsk, vSendMsg, nSendOffset, nSendSize, wire, selected, vRecvMsg, vRecvGetData, answers>>
netVars == <<sel, downloadVars, relayVars, addrman, connVars, wireVars>>

DownloadOff ==
    /\ blockWorld = Off /\ mapBlockIndex = Off /\ haveData = Off /\ failed = Off /\ tip = Off
    /\ pindexBestHeader = Off /\ mapBlockSource = Off /\ download = Off /\ turn = Off /\ ibd = Off /\ asked = Off
    /\ pushes = Off /\ reached = Off
RelayOff == Init /\ world = CHOOSE w \in Worlds : TRUE
PipeOff ==
    /\ errands = Off /\ toAsk = Off /\ vSendMsg = Off /\ nSendOffset = Off /\ nSendSize = Off /\ wire = Off
    /\ selected = Off /\ vRecvMsg = Off /\ vRecvGetData = Off /\ answers = Off

NetInit ==
    /\ ConnInit
    /\ \/ sel = "download" /\ Download!Init /\ RelayOff /\ addrman = Off /\ PipeOff
       \/ sel = "relay" /\ Init /\ DownloadOff /\ addrman = Off /\ PipeOff
       \/ sel = "addr" /\ Addr!Init /\ DownloadOff /\ RelayOff /\ PipeOff
       \/ sel = "conn" /\ DownloadOff /\ RelayOff /\ addrman = Off /\ PipeOff
       \/ sel = "pipe" /\ Pipe!Init /\ DownloadOff /\ RelayOff /\ addrman = Off

NetNext ==
    \/ sel = "download" /\ Download!Next /\ UNCHANGED <<sel, relayVars, addrman, connVars, wireVars>>
    \/ sel = "relay" /\ Next /\ UNCHANGED <<sel, downloadVars, addrman, connVars, wireVars>>
    \/ sel = "addr" /\ Addr!Next /\ UNCHANGED <<sel, downloadVars, relayVars, connVars, wireVars>>
    \/ sel = "conn" /\ ConnNext /\ UNCHANGED <<sel, downloadVars, relayVars, addrman, wireVars>>
    \/ sel = "pipe" /\ Pipe!Next /\ UNCHANGED <<sel, downloadVars, relayVars, addrman, connVars>>

\* sel never changes, so this is the fairness of each module.
PeerFairness(p) ==
    /\ []<>(sel = "download" => turn = p)
    /\ []<>(sel = "download" => ~Download!Owes(p))
    /\ []<>(sel = "download" => ~Download!Closing(p))
    /\ []<>(IF sel = "download" THEN ~Download!Pending(p) ELSE sel = "relay" => ~Pending(p))
ThreadFairness ==
    /\ []<>(IF sel = "conn" THEN socket = "top" ELSE sel = "relay" => Idle)
    /\ []<>(sel = "conn" => socket = "service")
    /\ []<>(sel = "conn" => handler = "idle")
    /\ []<>(sel = "conn" => opener \in {"idle", "granted"})
EndFairness(e) ==
    /\ []<>(sel = "pipe" => ~Pipe!Handling(e))
    /\ []<>(sel = "pipe" => ~Pipe!Moving(e))

NetSpec ==
    /\ NetInit /\ [][NetNext]_netVars
    /\ (\A p \in Peers : PeerFairness(p)) /\ ThreadFairness /\ (\A e \in Ends : EndFairness(e))

-----------------------------------------------------------------------------
(* The properties are those of the modules.  OrphansExact, OrphansResolved, *)
(* DeletedNodesUnused and DisconnectedAreDeleted are those of Network.      *)

\* The blocks in flight, their counters and the lists of the peers agree, and only a peer that
\* owes us a block is blamed for stalling: one that answers promptly is never punished or dropped.
BookkeepingExact ==
    sel = "download" => Download!BookkeepingExact /\ Download!StallersOweBlocks /\ Download!PromptPeersKept
\* The tables of CAddrMan are what Check_ demands, and peers.dat brings back what was written.
TablesConsistent == sel = "addr" => Addr!TablesConsistent /\ Addr!ReloadIsExact
\* Answers come in the order of the requests.
AnswersInOrder == sel = "pipe" => Pipe!AnswersInOrder

\* We catch up with the best chain of the peers that answer; a good transaction that such a peer
\* announces is accepted; and a node gets all it asks another for.
GetsWhatIsOffered ==
    <>[]CASE sel = "download" -> Download!Synced
          [] sel = "relay" -> GoodOnesArrived
          [] sel = "pipe" -> Pipe!Answered
          [] OTHER -> TRUE

-----------------------------------------------------------------------------
(* Two peers, pa prompt and pb not, in small worlds for each part. *)

CONSTANTS pa, pb

\* Blocks 1-2-3-4 and, from 2, the branch 5-6.
MCChain == [b \in Blocks |-> <<<<1>>, <<1, 2>>, <<1, 2, 3>>, <<1, 2, 3, 4>>, <<1, 2, 5>>, <<1, 2, 5, 6>>>>[b]]

BlockWorld(start, tipsA, tipsB, inbound, whitelisted, pushed, recent, today, invalid) ==
    [chain |-> MCChain, start |-> start, peers |-> Peers, tips |-> [p \in Peers |-> IF p = pa THEN tipsA ELSE tipsB],
     prompt |-> {pa}, inbound |-> inbound, whitelisted |-> whitelisted, client |-> {},
     pushes |-> [p \in Peers |-> IF p = pb THEN pushed ELSE 0], recent |-> recent, today |-> today, invalid |-> invalid]

MCBlockWorlds == {
    \* catching up over several headers messages
    BlockWorld(1, <<3, 4>>, <<4>>, {}, {}, 0, {3}, {}, {}),
    \* with an inbound peer that is not fetched from, and blocks fetched directly
    BlockWorld(1, <<2, 3>>, <<3>>, {pb}, {}, 0, {1, 2, 3}, {}, {}),
    \* a branch overtakes our chain; a whitelisted peer pushes a block
    BlockWorld(3, <<3, 6>>, <<6>>, {pb}, {pb}, 1, {3, 4, 5, 6}, {3, 4, 5, 6}, {}),
    \* a peer offers a branch with an invalid block
    BlockWorld(2, <<2, 3>>, <<6>>, {}, {}, 1, {2, 3, 4, 5, 6}, {2, 3, 4, 5, 6}, {5})}

TxWorld(parents, kind, hasA, joinsplit) ==
    [parents |-> parents, kind |-> kind, has |-> [p \in Peers |-> IF p = pa THEN hasA ELSE Txs], prompt |-> {pa},
     mined |-> {1}, local |-> {2}, joinsplit |-> joinsplit]

MCTxWorlds == {
    TxWorld(<<{}, {1}, {1, 2}>>, <<"ok", "ok", "ok">>, {1, 3}, {}),
    TxWorld(<<{}, {1}, {1}>>, <<"ok", "bad", "refused">>, {1}, {}),
    TxWorld(<<{}, {1}, {2}>>, <<"ok", "ok", "ok">>, {1, 3}, {}),
    TxWorld(<<{}, {}, {2}>>, <<"ok", "later", "ok">>, {2}, {3})}

\* 1 and 2 are two ports of one host; collisions in both tables.
MCHost == <<1, 1, 2, 3>>
MCNewBucket == [x \in Services \X Sources |-> (x[1] * x[2]) % 2]
MCTriedBucket == <<0, 0, 0, 0>>
MCNewPosition == [x \in Services \X NewBuckets |-> IF x[1] = 4 THEN 1 ELSE 0]
MCTriedPosition == [x \in Services \X TriedBuckets |-> 0]

MCErrands == {
    [e \in Ends |-> IF e = pa THEN <<2, 0, 2>> ELSE <<>>],
    [e \in Ends |-> IF e = pa THEN <<1, 0>> ELSE <<0, 1>>]}
=============================================================================
