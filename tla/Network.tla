------------------------------- MODULE Network -------------------------------
(***************************************************************************)
(* Two state machines of the network threads that share no variable: how   *)
(* transactions come in from peers, and the life of a connection.          *)
(*                                                                         *)
(* How transactions come in from peers: the inv and tx messages of          *)
(* ProcessMessage, CNode::AskFor, the getdata part of SendMessages, the     *)
(* recentRejects filter and the orphan transactions (main.cpp, net.cpp).    *)
(*                                                                         *)
(* A transaction has parents, whose outputs it spends; what else it spends  *)
(* is on the chain.  Whether it would be accepted once its inputs are there *)
(* is world.kind: "ok", "later" (not final before the next block),          *)
(* "refused" (too low a fee, say: nobody is punished) or "bad".             *)
(* Times are left out: a request may be sent any time after it is queued,   *)
(* and what mapAlreadyAskedFor does is to delay it.                         *)
(***************************************************************************)
EXTENDS Naturals, Sequences, FiniteSets, FiniteSetsExt, Functions

CONSTANTS
    Txs,            \* numbers: their order is that of the hashes
    Peers, NoPeer,
    Worlds,         \* what the transactions are, and which the peers have
    nMaxOrphanTx    \* -maxorphantx

VARIABLES
    world,
    mempool, chain,
    recentRejects, rejectsCurrent,      \* hashRecentRejectsChainTip is the tip
    orphans, fromPeer,                  \* mapOrphanTransactions
    byPrev,                             \* mapOrphanTransactionsByPrev
    connected,
    announced,                          \* what a peer has announced or sent
    setAskFor, mapAskFor,
    requested,                          \* getdata the peer has not answered
    resolving                           \* the orphans being looked at in a tx message

RelayAssumption ==
    /\ Txs \subseteq Nat /\ nMaxOrphanTx \in Nat
    /\ \A w \in Worlds, t \in Txs : w.kind[t] \in {"ok", "later", "refused", "bad"}

relayVars == <<world, mempool, chain, recentRejects, rejectsCurrent, orphans, fromPeer, byPrev, connected,
               announced, setAskFor, mapAskFor, requested, resolving>>

Parents(t) == world.parents[t]

AcceptToMemoryPool(t) ==
    CASE t \in mempool \cup chain -> "have"
      [] t \notin mempool \cup chain /\ ~(Parents(t) \subseteq mempool \cup chain) -> "missing"
      [] OTHER -> CASE world.kind[t] = "later" /\ chain = {} -> "refused"
                    [] world.kind[t] = "later" /\ chain # {} -> "ok"
                    [] OTHER -> world.kind[t]

\* recentRejects after the check for a new tip that AlreadyHave starts with.
Rejects == IF rejectsCurrent THEN recentRejects ELSE {}
AlreadyHave(t) == t \in Rejects \cup mempool \cup orphans \cup chain

\* What a peer may announce or send next; a prompt one has only what is final.
ToAnnounce(p) ==
    {t \in world.has[p] \ announced[p] : p \in world.prompt /\ world.kind[t] = "later" => chain # {}}

\* The tx handler holds cs_main: nothing else happens while it goes through the orphans.
NotResolving == [queue |-> <<>>, next |-> 1, seen |-> {}, vEraseQueue |-> {}, setMisbehaving |-> {}]
Idle == resolving = NotResolving

----------------------------------------------------------------------------
(* Asking *)

AskFor(p, t) ==
    IF t \in setAskFor[p] THEN UNCHANGED <<setAskFor, mapAskFor>>
    ELSE /\ setAskFor' = [setAskFor EXCEPT ![p] = @ \cup {t}]
         /\ mapAskFor' = [mapAskFor EXCEPT ![p] = @ \cup {t}]

Inv(p, t) ==
    /\ Idle /\ p \in connected
    /\ t \in ToAnnounce(p)
    /\ announced' = [announced EXCEPT ![p] = @ \cup {t}]
    /\ recentRejects' = Rejects /\ rejectsCurrent' = TRUE
    /\ IF AlreadyHave(t) THEN UNCHANGED <<setAskFor, mapAskFor>> ELSE AskFor(p, t)
    /\ UNCHANGED <<world, mempool, chain, orphans, fromPeer, byPrev, connected, requested, resolving>>

SendGetData(p, t) ==
    /\ Idle /\ p \in connected
    /\ t \in mapAskFor[p]
    /\ mapAskFor' = [mapAskFor EXCEPT ![p] = @ \ {t}]
    /\ recentRejects' = Rejects /\ rejectsCurrent' = TRUE
    /\ IF AlreadyHave(t)
       THEN /\ setAskFor' = [setAskFor EXCEPT ![p] = @ \ {t}]
            /\ UNCHANGED requested
       ELSE /\ requested' = [requested EXCEPT ![p] = @ \cup {t}]
            /\ UNCHANGED setAskFor
    /\ UNCHANGED <<world, mempool, chain, orphans, fromPeer, byPrev, connected, announced, resolving>>

----------------------------------------------------------------------------
(* Orphans *)

\* mapOrphanTransactionsByPrev once the orphans of a set are erased, one by one, with EraseOrphanTx.
Erased(map, gone) == [t \in Txs |-> map[t] \ gone]

\* AddOrphanTx, then LimitOrphanTxSize, which evicts any of them.
AddOrphanTx(p, t) ==
    LET added == [u \in Txs |-> IF u \in Parents(t) THEN byPrev[u] \cup {t} ELSE byPrev[u]]
        all == orphans \cup {t}
    IN  \E gone \in SUBSET all :
            /\ Cardinality(gone) = IF Cardinality(all) > nMaxOrphanTx THEN Cardinality(all) - nMaxOrphanTx ELSE 0
            /\ orphans' = all \ gone
            /\ fromPeer' = [fromPeer EXCEPT ![t] = p]
            /\ byPrev' = Erased(added, gone)

\* tx: what the peer sends, because we asked for it or of its own accord.
Tx(p, t) ==
    LET result == IF AlreadyHave(t) THEN "have" ELSE AcceptToMemoryPool(t) IN
    /\ Idle /\ p \in connected
    /\ t \in requested[p] \cup ToAnnounce(p)
    /\ announced' = [announced EXCEPT ![p] = @ \cup {t}]
    /\ requested' = [requested EXCEPT ![p] = @ \ {t}]
    /\ setAskFor' = [setAskFor EXCEPT ![p] = @ \ {t}]
    /\ rejectsCurrent' = TRUE
    /\ \/ /\ result = "ok"
          /\ mempool' = mempool \cup {t}
          /\ resolving' = [NotResolving EXCEPT !.queue = <<t>>]
          /\ recentRejects' = Rejects
          /\ UNCHANGED <<orphans, fromPeer, byPrev>>
       \/ /\ result = "missing" /\ t \notin world.joinsplit
          /\ AddOrphanTx(p, t)
          /\ recentRejects' = Rejects
          /\ UNCHANGED <<mempool, resolving>>
       \/ /\ result \in {"have", "refused", "bad"} \/ (result = "missing" /\ t \in world.joinsplit)
          /\ recentRejects' = Rejects \cup {t}
          /\ UNCHANGED <<mempool, resolving, orphans, fromPeer, byPrev>>
    /\ UNCHANGED <<world, chain, connected, mapAskFor>>

\* Mutant: the orphans that waited for an orphan just accepted are forgotten.
ResolveOrphanOneLevel ==
    LET waiting == byPrev[resolving.queue[resolving.next]] \ resolving.seen
        t == Min(waiting)
        result == AcceptToMemoryPool(t)
        skip == fromPeer[t] \in resolving.setMisbehaving
    IN  /\ resolving.next <= Len(resolving.queue)
        /\ waiting # {}
        /\ mempool' = IF ~skip /\ result = "ok" THEN mempool \cup {t} ELSE mempool
        /\ recentRejects' = IF ~skip /\ result \in {"have", "refused", "bad"} THEN recentRejects \cup {t} ELSE recentRejects
        /\ resolving' = [resolving EXCEPT
                !.seen = @ \cup {t},
                !.vEraseQueue = IF ~skip /\ result # "missing" THEN @ \cup {t} ELSE @,
                !.setMisbehaving = IF ~skip /\ result = "bad" THEN @ \cup {fromPeer[t]} ELSE @]
        /\ UNCHANGED <<world, chain, rejectsCurrent, orphans, fromPeer, byPrev, connected, announced,
                       setAskFor, mapAskFor, requested>>

\* One turn of the inner loop over the orphans that spend the transaction at the front.
ResolveOrphan ==
    LET waiting == byPrev[resolving.queue[resolving.next]] \ resolving.seen
        t == Min(waiting)
        result == AcceptToMemoryPool(t)
        skip == fromPeer[t] \in resolving.setMisbehaving
    IN  /\ resolving.next <= Len(resolving.queue)
        /\ waiting # {}
        /\ mempool' = IF ~skip /\ result = "ok" THEN mempool \cup {t} ELSE mempool
        /\ recentRejects' = IF ~skip /\ result \in {"have", "refused", "bad"} THEN recentRejects \cup {t} ELSE recentRejects
        /\ resolving' = [resolving EXCEPT
                !.seen = @ \cup {t},
                !.queue = IF ~skip /\ result = "ok" THEN Append(@, t) ELSE @,
                !.vEraseQueue = IF ~skip /\ result # "missing" THEN @ \cup {t} ELSE @,
                !.setMisbehaving = IF ~skip /\ result = "bad" THEN @ \cup {fromPeer[t]} ELSE @]
        /\ UNCHANGED <<world, chain, rejectsCurrent, orphans, fromPeer, byPrev, connected, announced,
                       setAskFor, mapAskFor, requested>>

\* The outer loop goes on; at its end what was accepted or refused is no longer an orphan.
ResolveNext ==
    /\ ~Idle
    /\ resolving.next <= Len(resolving.queue) => byPrev[resolving.queue[resolving.next]] \subseteq resolving.seen
    /\ IF resolving.next < Len(resolving.queue)
       THEN /\ resolving' = [resolving EXCEPT !.next = @ + 1, !.seen = {}]
            /\ UNCHANGED <<orphans, byPrev>>
       ELSE /\ orphans' = orphans \ resolving.vEraseQueue
            /\ byPrev' = Erased(byPrev, resolving.vEraseQueue)
            /\ resolving' = NotResolving
    /\ UNCHANGED <<world, mempool, chain, recentRejects, rejectsCurrent, fromPeer, connected, announced,
                   setAskFor, mapAskFor, requested>>

----------------------------------------------------------------------------
(* The rest of the program *)

\* A block with the transaction becomes the tip.
Confirm(t) ==
    /\ Idle
    /\ t \in world.mined \ chain /\ Parents(t) \subseteq chain
    /\ chain' = chain \cup {t}
    /\ mempool' = mempool \ {t}
    /\ rejectsCurrent' = FALSE
    /\ UNCHANGED <<world, recentRejects, orphans, fromPeer, byPrev, connected, announced, setAskFor, mapAskFor,
                   requested, resolving>>

\* sendrawtransaction, or the wallet.
Submit(t) ==
    /\ Idle
    /\ t \in world.local
    /\ AcceptToMemoryPool(t) = "ok"
    /\ mempool' = mempool \cup {t}
    /\ UNCHANGED <<world, chain, recentRejects, rejectsCurrent, orphans, fromPeer, byPrev, connected, announced,
                   setAskFor, mapAskFor, requested, resolving>>

\* Mutant: the orphans of a peer that leaves are kept.
FinalizeNodeKeepsOrphans(p) ==
    /\ Idle /\ p \in connected \ world.prompt
    /\ connected' = connected \ {p}
    /\ setAskFor' = [setAskFor EXCEPT ![p] = {}]
    /\ mapAskFor' = [mapAskFor EXCEPT ![p] = {}]
    /\ requested' = [requested EXCEPT ![p] = {}]
    /\ UNCHANGED <<world, mempool, chain, recentRejects, rejectsCurrent, orphans, byPrev, fromPeer, announced, resolving>>

\* FinalizeNode: EraseOrphansFor.
FinalizeNode(p) ==
    LET gone == {t \in orphans : fromPeer[t] = p} IN
    /\ Idle /\ p \in connected \ world.prompt
    /\ connected' = connected \ {p}
    /\ orphans' = orphans \ gone
    /\ byPrev' = Erased(byPrev, gone)
    /\ setAskFor' = [setAskFor EXCEPT ![p] = {}]
    /\ mapAskFor' = [mapAskFor EXCEPT ![p] = {}]
    /\ requested' = [requested EXCEPT ![p] = {}]
    /\ UNCHANGED <<world, mempool, chain, recentRejects, rejectsCurrent, fromPeer, announced, resolving>>

Init ==
    /\ world \in Worlds
    /\ mempool = {} /\ chain = {} /\ recentRejects = {} /\ rejectsCurrent = TRUE
    /\ orphans = {} /\ fromPeer = [t \in Txs |-> NoPeer] /\ byPrev = [t \in Txs |-> {}]
    /\ connected = Peers
    /\ announced = [p \in Peers |-> {}] /\ setAskFor = announced /\ mapAskFor = announced /\ requested = announced
    /\ resolving = NotResolving

Next ==
    \/ \E p \in Peers, t \in Txs : Inv(p, t) \/ SendGetData(p, t) \/ Tx(p, t)
    \/ \E t \in Txs : Confirm(t) \/ Submit(t)
    \/ \E p \in Peers : FinalizeNode(p)
    \/ ResolveOrphan \/ ResolveNext

\* A prompt peer has something to announce or to answer, or we have to ask it for something.
Pending(p) == p \in world.prompt /\ (ToAnnounce(p) # {} \/ requested[p] # {} \/ mapAskFor[p] # {})

\* A prompt peer announces and answers, we ask it, and the tx handler comes to its end.
Fairness == (\A p \in Peers : []<>~Pending(p)) /\ []<>Idle

Spec == Init /\ [][Next]_relayVars /\ Fairness

----------------------------------------------------------------------------
(* The two maps of the orphans agree, there are never more than -maxorphantx of them, and each came *)
(* from a peer that is still there.                                                                *)
OrphansExact ==
    /\ \A t \in Txs : byPrev[t] = {o \in orphans : t \in Parents(o)}
    /\ Cardinality(orphans) <= nMaxOrphanTx
    /\ \A o \in orphans : fromPeer[o] \in connected

ResolvedInFull ==
    (~Idle /\ Idle') =>
        \A o \in orphans' :
            Parents(o) \cap mempool \cap (Range(resolving.queue) \cup resolving.vEraseQueue) # {} =>
                \/ ~(Parents(o) \subseteq mempool \cup chain)
                \/ fromPeer[o] \in resolving.setMisbehaving

(* When a tx message has brought in a transaction, no orphan is left that waited for it, directly or *)
(* through other orphans, and could now be accepted, unless its sender has just sent a bad one.      *)
OrphansResolved == [][ResolvedInFull]_relayVars

GoodOnesArrived ==
    \A t \in Txs :
        /\ world.kind[t] \in {"ok", "later"} /\ Parents(t) = {}
        /\ \E p \in world.prompt : t \in announced[p]
        => t \in mempool \cup chain

(* A good transaction whose inputs are on the chain reaches the pool or the chain once a prompt peer *)
(* has announced it, whoever sent it before, and even if it was refused before the present tip.       *)
GoodTransactionsArrive == <>[]GoodOnesArrived

-----------------------------------------------------------------------------
(***************************************************************************)
(* The life of a CNode (net.cpp): ThreadOpenConnections and                 *)
(* OpenNetworkConnection make outbound ones, each with a grant of           *)
(* semOutbound; ThreadSocketHandler accepts inbound ones, removes and       *)
(* deletes; ThreadMessageHandler uses them.  nRefCount is what keeps a node *)
(* from being deleted while a thread uses it.                               *)
(*                                                                         *)
(* Steps are what happens under one hold of cs_vNodes, or between two.      *)
(* Which inbound node AttemptToEvictConnection picks, if any, is left open, *)
(* and so is what the sockets do.                                           *)
(***************************************************************************)

CONSTANTS
    Nodes,                      \* connections that may come to be, each once
    NoNode,
    MAX_OUTBOUND_CONNECTIONS, nMaxInbound

VARIABLES
    vNodes, vNodesDisconnected, deleted,
    fInbound, fNetworkNode, fDisconnect, nRefCount,
    grantOutbound,              \* nodes that hold a grant
    semOutbound,                \* its value
    opener, opening,            \* ThreadOpenConnections, and the node it is making
    socket, socketCopy,         \* ThreadSocketHandler, and its vNodesCopy
    handler, handlerCopy        \* ThreadMessageHandler, and its vNodesCopy

ConnectionsAssumption ==
    /\ NoNode \notin Nodes
    /\ MAX_OUTBOUND_CONNECTIONS \in Nat /\ nMaxInbound \in Nat

connVars == <<vNodes, vNodesDisconnected, deleted, fInbound, fNetworkNode, fDisconnect, nRefCount, grantOutbound,
              semOutbound, opener, opening, socket, socketCopy, handler, handlerCopy>>

nodeVars == <<vNodes, vNodesDisconnected, deleted, fInbound, fNetworkNode, fDisconnect, nRefCount>>
openVars == <<opener, opening>>
socketVars == <<socket, socketCopy>>
handlerVars == <<handler, handlerCopy>>

Made == vNodes \cup vNodesDisconnected \cup deleted
AddRef(nodes) == nRefCount' = [n \in Nodes |-> IF n \in nodes THEN nRefCount[n] + 1 ELSE nRefCount[n]]
Release(nodes) == nRefCount' = [n \in Nodes |-> IF n \in nodes THEN nRefCount[n] - 1 ELSE nRefCount[n]]

----------------------------------------------------------------------------
(* ThreadOpenConnections *)

AcquireGrant ==
    /\ opener = "idle"
    /\ semOutbound > 0
    /\ semOutbound' = semOutbound - 1
    /\ opener' = "granted"
    /\ UNCHANGED <<nodeVars, grantOutbound, opening, socketVars, handlerVars>>

\* No suitable address, or no connection: the grant goes out of scope.
ConnectFails ==
    /\ opener = "granted"
    /\ semOutbound' = semOutbound + 1
    /\ opener' = "idle"
    /\ UNCHANGED <<nodeVars, grantOutbound, opening, socketVars, handlerVars>>

ConnectNode ==
    /\ opener = "granted"
    /\ \E n \in Nodes \ Made :
        /\ vNodes' = vNodes \cup {n}
        /\ AddRef({n})
        /\ opening' = n
    /\ opener' = "connected"
    /\ UNCHANGED <<vNodesDisconnected, deleted, fInbound, fNetworkNode, fDisconnect, grantOutbound, semOutbound,
                   socketVars, handlerVars>>

MoveGrant ==
    /\ opener = "connected"
    /\ grantOutbound' = grantOutbound \cup {opening}
    /\ opener' = "moved"
    /\ UNCHANGED <<nodeVars, semOutbound, opening, socketVars, handlerVars>>

SetNetworkNode ==
    /\ opener = "moved"
    /\ fNetworkNode' = fNetworkNode \cup {opening}
    /\ opener' = "idle" /\ opening' = NoNode
    /\ UNCHANGED <<vNodes, vNodesDisconnected, deleted, fInbound, fDisconnect, nRefCount, grantOutbound, semOutbound,
                   socketVars, handlerVars>>

----------------------------------------------------------------------------
(* ThreadSocketHandler *)

\* Mutant: a connection the peer opened keeps its reference.
RemoveNodesKeepsInbound ==
    LET gone == {n \in vNodes : n \in fDisconnect \/ nRefCount[n] = 0} IN
    /\ socket = "top"
    /\ vNodes' = vNodes \ gone
    /\ vNodesDisconnected' = vNodesDisconnected \cup gone
    /\ grantOutbound' = grantOutbound \ gone
    /\ semOutbound' = semOutbound + Cardinality(grantOutbound \cap gone)
    /\ fDisconnect' = fDisconnect \cup gone
    /\ Release(gone \cap fNetworkNode)
    /\ socket' = "removed"
    /\ UNCHANGED <<deleted, fInbound, fNetworkNode, openVars, socketCopy, handlerVars>>

RemoveNodes ==
    LET gone == {n \in vNodes : n \in fDisconnect \/ nRefCount[n] = 0} IN
    /\ socket = "top"
    /\ vNodes' = vNodes \ gone
    /\ vNodesDisconnected' = vNodesDisconnected \cup gone
    /\ grantOutbound' = grantOutbound \ gone
    /\ semOutbound' = semOutbound + Cardinality(grantOutbound \cap gone)
    /\ fDisconnect' = fDisconnect \cup gone
    /\ Release(gone \cap (fNetworkNode \cup fInbound))
    /\ socket' = "removed"
    /\ UNCHANGED <<deleted, fInbound, fNetworkNode, openVars, socketCopy, handlerVars>>

\* Mutant: a disconnected node is deleted without waiting for the threads that use it.
DeleteNodesAtOnce ==
    /\ socket = "removed"
    /\ vNodesDisconnected' = {}
    /\ deleted' = deleted \cup vNodesDisconnected
    /\ grantOutbound' = grantOutbound \ vNodesDisconnected
    /\ semOutbound' = semOutbound + Cardinality(grantOutbound \cap vNodesDisconnected)
    /\ socket' = "deleted"
    /\ UNCHANGED <<vNodes, fInbound, fNetworkNode, fDisconnect, nRefCount, openVars, socketCopy, handlerVars>>

\* The locks it tries are only held by threads that have a reference.  ~CNode gives back the grant.
DeleteNodes ==
    LET gone == {n \in vNodesDisconnected : nRefCount[n] = 0} IN
    /\ socket = "removed"
    /\ vNodesDisconnected' = vNodesDisconnected \ gone
    /\ deleted' = deleted \cup gone
    /\ grantOutbound' = grantOutbound \ gone
    /\ semOutbound' = semOutbound + Cardinality(grantOutbound \cap gone)
    /\ socket' = "deleted"
    /\ UNCHANGED <<vNodes, fInbound, fNetworkNode, fDisconnect, nRefCount, openVars, socketCopy, handlerVars>>

\* Once for every listening socket; when there is no node to evict, the new one is dropped.
AcceptConnection ==
    /\ socket = "deleted"
    /\ \E n \in Nodes \ Made, evicted \in SUBSET ((vNodes \cap fInbound) \ fDisconnect) :
        /\ Cardinality(evicted) = IF Cardinality(vNodes \cap fInbound) >= nMaxInbound THEN 1 ELSE 0
        /\ vNodes' = vNodes \cup {n}
        /\ fInbound' = fInbound \cup {n}
        /\ fDisconnect' = fDisconnect \cup evicted
        /\ AddRef({n})
    /\ socket' = "deleted"
    /\ UNCHANGED <<vNodesDisconnected, deleted, fNetworkNode, grantOutbound, semOutbound, openVars, socketCopy, handlerVars>>

CopyForSockets ==
    /\ socket = "deleted"
    /\ socketCopy' = vNodes
    /\ AddRef(vNodes)
    /\ socket' = "service"
    /\ UNCHANGED <<vNodes, vNodesDisconnected, deleted, fInbound, fNetworkNode, fDisconnect, grantOutbound, semOutbound,
                   openVars, handlerVars>>

\* The peer has closed, a bad message came in, or nothing has for too long.
SocketCloses ==
    /\ socket = "service"
    /\ \E n \in socketCopy \ fDisconnect : fDisconnect' = fDisconnect \cup {n}
    /\ UNCHANGED <<vNodes, vNodesDisconnected, deleted, fInbound, fNetworkNode, nRefCount, grantOutbound, semOutbound,
                   openVars, socketVars, handlerVars>>

SocketsDone ==
    /\ socket = "service"
    /\ Release(socketCopy)
    /\ socketCopy' = {}
    /\ socket' = "top"
    /\ UNCHANGED <<vNodes, vNodesDisconnected, deleted, fInbound, fNetworkNode, fDisconnect, grantOutbound, semOutbound,
                   openVars, handlerVars>>

----------------------------------------------------------------------------
(* ThreadMessageHandler *)

CopyForMessages ==
    /\ handler = "idle"
    /\ handlerCopy' = vNodes
    /\ AddRef(vNodes)
    /\ handler' = "polling"
    /\ UNCHANGED <<vNodes, vNodesDisconnected, deleted, fInbound, fNetworkNode, fDisconnect, grantOutbound, semOutbound,
                   openVars, socketVars>>

\* ProcessMessages or SendMessages ends the connection.
HandlerCloses ==
    /\ handler = "polling"
    /\ \E n \in handlerCopy \ fDisconnect : fDisconnect' = fDisconnect \cup {n}
    /\ UNCHANGED <<vNodes, vNodesDisconnected, deleted, fInbound, fNetworkNode, nRefCount, grantOutbound, semOutbound,
                   openVars, socketVars, handlerVars>>

MessagesDone ==
    /\ handler = "polling"
    /\ Release(handlerCopy)
    /\ handlerCopy' = {}
    /\ handler' = "idle"
    /\ UNCHANGED <<vNodes, vNodesDisconnected, deleted, fInbound, fNetworkNode, fDisconnect, grantOutbound, semOutbound,
                   openVars, socketVars>>

----------------------------------------------------------------------------
ConnInit ==
    /\ vNodes = {} /\ vNodesDisconnected = {} /\ deleted = {}
    /\ fInbound = {} /\ fNetworkNode = {} /\ fDisconnect = {} /\ nRefCount = [n \in Nodes |-> 0]
    /\ grantOutbound = {} /\ semOutbound = MAX_OUTBOUND_CONNECTIONS
    /\ opener = "idle" /\ opening = NoNode
    /\ socket = "top" /\ socketCopy = {}
    /\ handler = "idle" /\ handlerCopy = {}

ConnNext ==
    \/ AcquireGrant \/ ConnectFails \/ ConnectNode \/ MoveGrant \/ SetNetworkNode
    \/ RemoveNodes \/ DeleteNodes \/ AcceptConnection \/ CopyForSockets \/ SocketCloses \/ SocketsDone
    \/ CopyForMessages \/ HandlerCloses \/ MessagesDone

\* ThreadSocketHandler goes round, ThreadMessageHandler comes to the end of its copy, and the opener
\* finishes what it has begun.
ConnFairness ==
    /\ []<>(socket = "top") /\ []<>(socket = "service")
    /\ []<>(handler = "idle")
    /\ []<>(opener \in {"idle", "granted"})

ConnSpec == ConnInit /\ [][ConnNext]_connVars /\ ConnFairness

----------------------------------------------------------------------------
(* A node is deleted, and FinalizeNode forgets its state, only when no thread that copied it from *)
(* vNodes still goes over the copy.                                                              *)
CopiesAreAlive ==
    deleted \cap (socketCopy \cup handlerCopy \cup vNodes \cup {opening}) = {}

(* The limits hold at every moment: of the connections that are not being closed at most nMaxInbound *)
(* are inbound and at most MAX_OUTBOUND_CONNECTIONS outbound, though a node that is evicted stays in *)
(* vNodes for a while and grants pass from hand to hand.                                             *)
ConnectionLimits ==
    /\ Cardinality((vNodes \cap fInbound) \ fDisconnect) <= nMaxInbound
    /\ Cardinality(vNodes \ (fInbound \cup fDisconnect)) <= MAX_OUTBOUND_CONNECTIONS

(* No thread uses a node that is deleted, and there are never more connections than are allowed. *)
DeletedNodesUnused == CopiesAreAlive /\ ConnectionLimits

Going(n) == n \in vNodes \cap fDisconnect \cap (fInbound \cup fNetworkNode)

(* A node whose connection ends, the opener having finished with it, is deleted in the end. *)
DisconnectedAreDeleted == \A n \in Nodes : Going(n) ~> (n \in deleted)

(* "if successful, this moves the passed grant to the constructed node" (net.cpp), and the socket   *)
(* thread releases it when the connection ends: when no outbound connection is left and none is     *)
(* being made, and no node waits to be deleted, every grant is free again.                           *)
OutboundSlotsReturned ==
    (opener = "idle" /\ vNodes \subseteq fInbound /\ socketCopy = {} /\ handlerCopy = {}
        /\ \A n \in vNodesDisconnected : nRefCount[n] > 0)
        => semOutbound = MAX_OUTBOUND_CONNECTIONS
=============================================================================
