---------------------------- MODULE NoteWitness ----------------------------
(***************************************************************************)
(* The wallet's cached note witnesses (wallet/wallet.cpp): for every note  *)
(* of the wallet a list of incremental witnesses, one for each of the last *)
(* blocks, that the wallet moves with the tip of the chain; what of it is  *)
(* on disk; and what a restart makes of it.                                *)
(*                                                                         *)
(* A witness is the sequence of commitments it has absorbed: the leaves of *)
(* the tree it was taken from and the ones appended since.  That is what   *)
(* its root depends on.  A transaction has one note, and note, commitment  *)
(* and transaction share a name.  chainActive moves block by block to a    *)
(* goal that is longer than the chain it leaves; how the goal is chosen is *)
(* the subject of ChainSelection.                                          *)
(***************************************************************************)
EXTENDS Integers, FiniteSets, SequencesExt

CONSTANTS
    Worlds,         \* sets of records: the chains there are, as sequences of blocks after the
                    \* genesis block, and how the node may be restarted ("plain", "rescan")
    Notes,          \* Notes[b]: the commitments of block b, in order
    Mine,           \* the notes FindMyNotes recognises
    WITNESS_CACHE_SIZE

Blocks == UNION {UNION {ToSet(br) : br \in w.branches} : w \in Worlds}
Commitments == UNION {ToSet(Notes[b]) : b \in Blocks}

NoBlock == "none"   \* a null hashBlock

VARIABLES
    world,      \* which of the Worlds this is
    chain,      \* chainActive without its genesis block; the height of the tip is its length
    goal,       \* the branch ActivateBestChain is moving to
    wallet,     \* [mapWallet, nWitnessCacheSize]; mapWallet is a function on the notes known
    chainDisk,  \* the chain that the chainstate on disk describes
    walletDisk, \* wallet.dat: the wallet and the best block it names
    up          \* FALSE once an assertion has ended the process

vars == <<world, chain, goal, wallet, chainDisk, walletDisk, up>>

Leaves(c) == FlattenSeq([i \in 1..Len(c) |-> Notes[c[i]]])
Prefix(c, h) == SubSeq(c, 1, h)

-----------------------------------------------------------------------------
(* AddToWallet: a transaction of ours, confirmed in block b or not.  The   *)
(* record is written to wallet.dat at once when it is new or its hashBlock *)
(* changes, as it stands in memory; the write is not flushed and may be    *)
(* lost with the process.                                                  *)

NewNote(b) == [witnesses |-> <<>>, witnessHeight |-> -1, hashBlock |-> b]

AddToWallet(m, n, b) ==
    CASE n \notin DOMAIN m              -> (n :> NewNote(b)) @@ m
      [] n \in DOMAIN m /\ b # NoBlock  -> [m EXCEPT ![n].hashBlock = b]
      [] OTHER                          -> m

SyncTransactions(m, b) ==
    FoldLeft(LAMBDA acc, n : IF n \in Mine THEN AddToWallet(acc, n, b) ELSE acc, m, Notes[b])

Written(old, new) == {n \in DOMAIN new : n \notin DOMAIN old \/ new[n].hashBlock # old[n].hashBlock}

WriteToDisk(old, new) ==
    \E kept \in {{}, Written(old, new)} :
        walletDisk' = [walletDisk EXCEPT !.mapWallet = [n \in kept |-> new[n]] @@ @]

-----------------------------------------------------------------------------
(* The witness caches.                                                     *)

Behind(nd, h) == nd.witnessHeight < h

CopyWitness(ws) ==
    LET grown == IF ws = <<>> THEN <<>> ELSE <<Head(ws)>> \o ws
    IN  IF Len(grown) > WITNESS_CACHE_SIZE THEN Front(grown) ELSE grown

AppendToFront(ws, cm) == IF ws = <<>> THEN ws ELSE [ws EXCEPT ![1] = Append(@, cm)]

\* One commitment of the block at height h: the tree and every witness that is behind
\* absorb it, and if it is a note of ours it gets its first witness.
AbsorbCommitment(acc, cm, h) ==
    LET tree     == Append(acc.tree, cm)
        absorbed == [n \in DOMAIN acc.notes |->
                        IF Behind(acc.notes[n], h)
                        THEN [acc.notes[n] EXCEPT !.witnesses = AppendToFront(@, cm)]
                        ELSE acc.notes[n]]
    IN  [tree  |-> tree,
         notes |-> IF cm \in DOMAIN absorbed /\ Behind(absorbed[cm], h)
                   THEN [absorbed EXCEPT ![cm].witnesses = <<tree>>, ![cm].witnessHeight = h - 1]
                   ELSE absorbed]

CacheGrown(size) == IF size < WITNESS_CACHE_SIZE THEN size + 1 ELSE size

\* The wallet after the block at height h with these commitments, and whether the
\* assertions on the way hold.
IncrementNoteWitnesses(w, h, cms, tree) ==
    LET m      == w.mapWallet
        size   == CacheGrown(w.nWitnessCacheSize)
        copied == [n \in DOMAIN m |-> IF Behind(m[n], h)
                                      THEN [m[n] EXCEPT !.witnesses = CopyWitness(@)] ELSE m[n]]
        grown  == FoldLeft(LAMBDA acc, cm : AbsorbCommitment(acc, cm, h),
                           [tree |-> tree, notes |-> copied], cms).notes
        raised == [n \in DOMAIN m |-> IF Behind(grown[n], h)
                                      THEN [grown[n] EXCEPT !.witnessHeight = h] ELSE grown[n]]
    IN  [wallet |-> [mapWallet |-> raised, nWitnessCacheSize |-> size],
         ok     |-> \A n \in DOMAIN m : Behind(m[n], h) =>
                       /\ w.nWitnessCacheSize >= Len(m[n].witnesses)
                       /\ m[n].witnessHeight \in {-1, h - 1}
                       /\ size >= Len(copied[n].witnesses)
                       /\ size >= Len(raised[n].witnesses)]

PopWitnessOnly(nd, h) == [nd EXCEPT !.witnesses = IF @ = <<>> THEN @ ELSE Tail(@)]

PopWitness(nd, h) ==
    [nd EXCEPT !.witnesses = IF @ = <<>> THEN @ ELSE Tail(@), !.witnessHeight = h - 1]

DecrementNoteWitnesses(w, h) ==
    LET m      == w.mapWallet
        size   == w.nWitnessCacheSize - 1
        popped == [n \in DOMAIN m |-> IF m[n].witnessHeight <= h THEN PopWitness(m[n], h) ELSE m[n]]
    IN  [wallet |-> [mapWallet |-> popped, nWitnessCacheSize |-> size],
         ok     |-> /\ \A n \in DOMAIN m : m[n].witnessHeight <= h =>
                          /\ w.nWitnessCacheSize >= Len(m[n].witnesses)
                          /\ m[n].witnessHeight \in {-1, h}
                    /\ \A n \in DOMAIN m : popped[n].witnessHeight < h =>
                          size >= Len(popped[n].witnesses)
                    /\ size > 0]

ClearNoteWitnessCache(w) ==
    [mapWallet |-> [n \in DOMAIN w.mapWallet |->
                       [w.mapWallet[n] EXCEPT !.witnesses = <<>>, !.witnessHeight = -1]],
     nWitnessCacheSize |-> 0]

-----------------------------------------------------------------------------
(* The chain moves.                                                        *)

Goals == UNION {{Prefix(br, h) : h \in 0..Len(br)} : br \in world.branches}

OnDisk(w, c) == [mapWallet |-> w.mapWallet, nWitnessCacheSize |-> w.nWitnessCacheSize, best |-> c]
Empty == [mapWallet |-> <<>>, nWitnessCacheSize |-> 0]

\* A node with a new wallet: fFirstRun has written the best block.
Init ==
    /\ world \in Worlds
    /\ chain = <<>> /\ goal = <<>>
    /\ wallet = Empty
    /\ chainDisk = <<>>
    /\ walletDisk = OnDisk(Empty, <<>>)
    /\ up = TRUE

FindMostWorkChain ==
    /\ up /\ goal = chain
    /\ goal' \in {g \in Goals : Len(g) > Len(chain)}
    /\ UNCHANGED <<world, chain, wallet, chainDisk, walletDisk, up>>

\* A transaction of ours enters the mempool.
SyncUnconfirmed(n) ==
    /\ up /\ n \in Mine \ DOMAIN wallet.mapWallet
    /\ wallet' = [wallet EXCEPT !.mapWallet = AddToWallet(@, n, NoBlock)]
    /\ WriteToDisk(wallet.mapWallet, wallet'.mapWallet)
    /\ UNCHANGED <<world, chain, goal, chainDisk, up>>

ConnectTip ==
    /\ up /\ chain # goal /\ IsPrefix(chain, goal)
    /\ LET h      == Len(chain) + 1
           b      == goal[h]
           synced == SyncTransactions(wallet.mapWallet, b)
           moved  == IncrementNoteWitnesses([wallet EXCEPT !.mapWallet = synced],
                                            h, Notes[b], Leaves(chain))
       IN  /\ chain' = Append(chain, b)
           /\ wallet' = moved.wallet /\ up' = moved.ok
           /\ WriteToDisk(wallet.mapWallet, synced)
    /\ UNCHANGED <<world, goal, chainDisk>>

\* SyncTransaction without a block changes nothing of a transaction the wallet has.
DisconnectTip ==
    /\ up /\ ~IsPrefix(chain, goal)
    /\ LET moved == DecrementNoteWitnesses(wallet, Len(chain))
       IN  /\ chain' = Front(chain)
           /\ wallet' = moved.wallet /\ up' = moved.ok
    /\ UNCHANGED <<world, goal, chainDisk, walletDisk>>

-----------------------------------------------------------------------------
(* Disk.  FlushStateToDisk writes the chainstate and the wallet's best     *)
(* block at times of their own: the one when the cache is full or a day    *)
(* old, even between two steps of a reorganisation, the other once an hour *)
(* between two.                                                            *)

FlushChainstate ==
    /\ up /\ chainDisk # chain
    /\ chainDisk' = chain
    /\ UNCHANGED <<world, chain, goal, wallet, walletDisk, up>>

SetBestChain ==
    /\ up /\ goal = chain
    /\ walletDisk' = OnDisk(wallet, chain)
    /\ UNCHANGED <<world, chain, goal, wallet, chainDisk, up>>

FindFork(c, best) == Len(LongestCommonPrefix({c, best}))

ScanBlockKnownOnly(acc, c, h) ==
    LET moved == IncrementNoteWitnesses(acc.wallet, h, IF h = 0 THEN <<>> ELSE Notes[c[h]],
                                        Leaves(Prefix(c, h - 1)))
    IN  [wallet |-> moved.wallet, ok |-> acc.ok /\ moved.ok]

\* One block of ScanForWalletTransactions; height 0 is the genesis block.
ScanBlock(acc, c, h) ==
    LET synced == IF h = 0 THEN acc.wallet
                  ELSE [acc.wallet EXCEPT !.mapWallet = SyncTransactions(@, c[h])]
        moved  == IncrementNoteWitnesses(synced, h, IF h = 0 THEN <<>> ELSE Notes[c[h]],
                                         Leaves(Prefix(c, h - 1)))
    IN  [wallet |-> moved.wallet, ok |-> acc.ok /\ moved.ok]

ScanForWalletTransactions(w, c, from) ==
    FoldLeft(LAMBDA acc, i : ScanBlock(acc, c, from + i - 1),
             [wallet |-> w, ok |-> TRUE], [i \in 1..(Len(c) - from + 1) |-> i])

\* The process ends, by a crash or not, and AppInit2 starts from what is on disk.
Restart(mode) ==
    /\ LET stored == [mapWallet |-> walletDisk.mapWallet,
                      nWitnessCacheSize |-> walletDisk.nWitnessCacheSize]
           loaded == IF mode = "rescan" THEN ClearNoteWitnessCache(stored) ELSE stored
           from   == IF mode = "rescan" THEN 0 ELSE FindFork(chainDisk, walletDisk.best)
           scan   == ScanForWalletTransactions(loaded, chainDisk, from)
       IN  /\ chain' = chainDisk /\ goal' = chainDisk
           /\ IF from = Len(chainDisk)
              THEN wallet' = loaded /\ up' = TRUE /\ UNCHANGED walletDisk
              ELSE /\ wallet' = scan.wallet /\ up' = scan.ok
                   /\ walletDisk' = IF scan.ok THEN OnDisk(scan.wallet, chainDisk) ELSE walletDisk
    /\ UNCHANGED <<world, chainDisk>>

Next ==
    \/ FindMostWorkChain \/ ConnectTip \/ DisconnectTip
    \/ \E n \in Mine : SyncUnconfirmed(n)
    \/ FlushChainstate \/ SetBestChain
    \/ \E mode \in world.restarts : Restart(mode)

Spec == Init /\ [][Next]_vars

-----------------------------------------------------------------------------
NoteData == [witnesses : Seq(Seq(Commitments)), witnessHeight : -1..Len(goal) + Cardinality(Blocks),
             hashBlock : Blocks \cup {NoBlock}]

\* Every variable keeps its shape, and a cache never has more than WITNESS_CACHE_SIZE
\* witnesses.
TypeOK ==
    /\ world \in Worlds
    /\ chain \in Goals /\ goal \in Goals /\ chainDisk \in Goals /\ walletDisk.best \in Goals
    /\ \A w \in {wallet, walletDisk} :
          /\ DOMAIN w.mapWallet \subseteq Mine
          /\ \A n \in DOMAIN w.mapWallet :
                w.mapWallet[n] \in NoteData /\ Len(w.mapWallet[n].witnesses) <= WITNESS_CACHE_SIZE
          /\ w.nWitnessCacheSize \in -1..WITNESS_CACHE_SIZE
    /\ up \in BOOLEAN

\* No assertion of IncrementNoteWitnesses or DecrementNoteWitnesses ends the node.
AssertionsHold == up

InChain(n) == n \in ToSet(Leaves(chain))

\* Every cached witness of a note in the chain is the right one: the i-th is the witness of
\* the block i - 1 below the note's witnessHeight, on a chain that the node is on.
WitnessesMatchChain ==
    \A n \in DOMAIN wallet.mapWallet : InChain(n) =>
        LET nd == wallet.mapWallet[n] IN
        \E br \in world.branches :
            /\ IsPrefix(chain, br) /\ nd.witnessHeight <= Len(br)
            /\ \A i \in 1..Len(nd.witnesses) :
                  nd.witnesses[i] = Leaves(Prefix(br, nd.witnessHeight - i + 1))

\* A note of ours that is in the chain is in the wallet and has a witness at least as new
\* as the tip, however deep the blocks that have been disconnected: it can be spent.
NotesHaveWitnesses ==
    \A n \in Mine : InChain(n) =>
        /\ n \in DOMAIN wallet.mapWallet
        /\ wallet.mapWallet[n].witnesses # <<>>
        /\ wallet.mapWallet[n].witnessHeight >= Len(chain)
=============================================================================
