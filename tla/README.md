# A verification project for the LitecoinZ node

LitecoinZ is a full node descended from Bitcoin and Zcash. It receives block
headers, blocks and transactions from its peers, keeps a tree of blocks, makes
the valid chain with the most work the active one, maintains the coins,
nullifiers and anchors that this chain leaves, keeps a pool of transactions
that could be mined next, and serves a wallet with transparent and shielded
funds over RPC.

This directory has TLA+ modules for the parts of the node where order matters:
several threads, reorganisations, restarts, caches over caches. TLC checks them
on small instances and TLAPS proves the two that everything else stands on for
every size. All paths below are relative to `src/src/`.

## Contents

1. The system and its parts
2. Modules
3. Runs
4. Fairness
5. Proofs
6. Disagreements between the code and what is said of it
7. What is not modelled
8. Plan

## 1. The system and its parts

| part | state | operations | what makes it hard |
|---|---|---|---|
| coins views (`coins.cpp`, `txdb.cpp`) | three layers of maps, DIRTY and FRESH flags, a best block per layer | GetCoins, ModifyCoins, BatchWrite, Flush | an entry may be absent, clean, new or spent at each layer; crashes |
| block index and active chain (`main.cpp`, `chain.cpp`) | mapBlockIndex, candidates, unlinked blocks, flags, the tip | AcceptBlockHeader, AcceptBlock, ActivateBestChain, InvalidateBlock, ReconsiderBlock | any order of arrival; cs_main is released between steps |
| connecting blocks (`main.cpp`) | unspent outputs, nullifiers, anchors, undo files | ConnectBlock, DisconnectBlock | a block may be undone and redone any number of times with undo data written once |
| memory pool (`txmempool.cpp`) | mapTx, mapNextTx, mapNullifiers | AcceptToMemoryPool, the five `remove*` | was checked against a tip that may be gone |
| script check queue (`checkqueue.h`) | counters, a stack of checks, sleeping threads | Add, Loop, Wait | late and interrupted workers, spurious wakeups |
| asynchronous RPC operations (`asyncrpcqueue.cpp`) | id queue, map of operations, their states | addOperation, run, cancel, close, finish, z_getoperationresult | flags and states outside the mutex |
| HTTP work queue (`httpserver.cpp`) | deque, running, numThreads | Enqueue, Run, Interrupt, WaitExit | one condition variable for workers and for the thread that waits for them |
| note witnesses (`wallet/wallet.cpp`) | lists of witnesses and a height per note, nWitnessCacheSize, wallet.dat | Increment-, DecrementNoteWitnesses, ClearNoteWitnessCache, SetBestChain, rescans | must follow every reorganisation and every restart |
| flushing and recovery (`main.cpp`, `txdb.cpp`) | block files, index records, chainstate | FlushStateToDisk, LoadBlockIndexDB | crash between two writes |
| block download (`main.cpp`) | blocks in flight, per peer queues and counters | FindNextBlocksToDownload, MarkBlockAsInFlight, timeouts | stalling peers, late answers |
| orphan transactions (`main.cpp`) | two maps | AddOrphanTx, EraseOrphansFor, LimitOrphanTxSize | eviction at the limit |
| address manager (`addrman.cpp`) | new and tried tables, reference counts | Add, Good, Attempt, Select | long sequences of moves between tables |
| scheduler (`scheduler.cpp`) | task queue, stop flags | schedule, serviceQueue, stop | stopping while threads wait |
| pure algorithms | | incremental Merkle tree, difficulty, median time offset, subsidy | boundaries |

They meet in `ActivateBestChain`: it picks a chain (block index), connects its
blocks to a scratch view over the coins caches (connecting blocks), which
checks the scripts in the check queue, then removes what was mined from the
memory pool and tells the wallet, which moves its witnesses. The wallet's RPCs
arrive through the HTTP work queue and leave long operations in the
asynchronous queue.

## 2. Modules

An action is a step that holds the lock which the code holds for it, the whole
of the handler included. Where the code gives a lock up, or does without one,
there is a second action.

**CoinsView** is what the layered views promise: three flat maps, on disk, at
the tip, and for the block in progress, and the steps Open, Update, Commit,
Abandon, Persist, CrashBack. **CoinsCache** is the code: `dbCoins`, `tipCoins`
(pcoinsTip) and `viewCoins` (the view in ConnectTip or DisconnectTip), entries
with flags, FetchCoins, ModifyCoins with its modifier, BatchWrite entry by
entry (`MergeEntry`), the flush to LevelDB as one atomic batch, crashes. A
CCoins is a model value or `Pruned`. The refinement mapping reads through the
layers. **CoinsFlushFault** adds a batch that LevelDB refuses and the second
flush in Shutdown(). **CoinsCacheProofs** has the proofs.

**ChainSelection** models the block index. Sets of blocks stand for the bits of
nStatus (`haveData`, `connected`, `failedValid`, `failedChild`), for nChainTx
(`linked`), for setBlockIndexCandidates and mapBlocksUnlinked; `seqId` and
`Addr` break ties as CBlockIndexWorkComparator does. A thread is `idle`, about
to take cs_main in ActivateBestChain (`activate`) or between the step and the
test of its loop (`test`). What ConnectBlock will say of a block is fixed in
the initial state and unknown to the node. The constant `Worlds` lists what may
happen around the node: the blocks that are mined, which may be bad and how,
and the blocks that the RPCs are called on. **MCChainSelection** has a tree of
six blocks and the worlds.

**Ledger** models ConnectBlock, UpdateCoins, DisconnectBlock and ApplyTxInUndo
on transactions with outputs, amounts and JoinSplits, with coinbase maturity,
the subsidy and the undo data that is written once. A note commitment tree is
the sequence of its commitments. **Mempool** extends it: ConnectTip is Ledger's
step and removeForBlock; DisconnectTip is Ledger's step, the resurrection of
the block's transactions, removeWithAnchor and removeCoinbaseSpends. Policy is
a set of transactions that may be refused at any time. **MCMempool** has two
networks of transactions and blocks, one where a coinbase may be spent freely
and one where it must go to the shielded pool.

**CheckQueue** models one CCheckQueue: workers and the master in Loop, with the
mutex section as one action (`Section`) and the checks outside it, notify_one,
notify_all, spurious wakeups, and interruption of a sleeping worker.
**CheckQueueProofs** has the proofs.

**AsyncRPCQueue** models the queue, its workers, a thread that closes or
finishes it, and z_getoperationresult, whose calls each take the mutex
separately. An operation's state is an atomic outside the mutex, so cancel() is
two actions. The flags closed_ and finish_ are stored without the mutex.

**WorkQueue** models the HTTP server's queue: the event thread, the detached
workers and the main thread that interrupts, waits and deletes. The condition
of Run's outer loop is read without the mutex; after Interrupt the read may
return either value.

**NoteWitness** models the wallet's witness caches: a witness is the sequence of
commitments it has absorbed. The chain moves block by block to a longer goal,
chainstate and wallet.dat reach the disk at times of their own, AddToWallet
writes single records that a crash may lose, and a restart loads what is on
disk and scans from the fork, or from the genesis block with -rescan.
**MCNoteWitness** has the trees of blocks.

Definitions whose comment begins with "Mutant", or that stand before the
definition they vary, are faulty variants of it that some property must reject.

## 3. Runs

| run | states | shows |
|---|---|---|
| coins_cache | all of two txids, two values, two blocks | FlagsTellTheTruth, FreshAtBatchWrite (the assertion in BatchWrite), and the refinement ImplementsCoinsView |
| coins_flush_fault | violated | see 6 |
| chain | 353 000 | data that arrives in any order is accounted for (DataAccountedFor), the candidates are sound and complete, flags have causes, no bad block is active, and the tip is the best block when no thread is in ActivateBestChain |
| chain_returns | 16 000 | every call of ActivateBestChain returns |
| chain_sibling | violated | see 6 |
| check_queue | two workers, four checks, batches of two | NoCheckLost, WaitIsExact, IdleBetweenBlocks, WaitReturns |
| mempool | 1 070 | coins, nullifiers and anchors are those of the active chain, undo data applies, no double spend, supply bounded; the pool's maps are exact, the whole pool can be mined at the next height, and no step drops a transaction that is still acceptable |
| async_queue | 170 000 | results are true and reported once; ending the queue returns with everything settled; every accepted operation settles |
| async_cancel | violated | see 6 |
| witness | 8 900 | assertions hold, every cached witness is that of a block of the chain, every note in the chain can be spent |
| witness_stale | violated | see 6 |
| work_queue | 8 800 | the queue is deleted only when unused, each request is in one place and answered once, stopping returns |

Bounds. Two txids show every combination of flags at the layers, since entries
of different keys meet only in a flush, and the proof removes the bound. The
tree of six blocks has a reorganisation of two blocks by three, one that fails
half way and returns, siblings, ties in work, and children before parents; two
threads are enough for one to move the tip under the other (the threads are
symmetric, and the safety run uses that). Four checks and batches of two leave
workers with unequal shares. The networks of MCMempool have conflicts by output
and by nullifier, a chain of spends, an anchor that a reorganisation removes, a
coinbase that becomes immature again, and blocks that break one rule each; with
COINBASE_MATURITY 2 and a halving every 3 blocks the boundaries are reached. A
witness cache of 3 is smaller than the chains of 4 blocks, so it overflows, and
the deepest reorganisation uses all of it. A queue of depth 1 is full with the
second of three requests.

Deadlock is checked where the system never stops (coins, check queue, pool,
witnesses) and switched off where it may: blocks need not arrive, and a queue
that was ended has nothing to do.

What is assumed: `NoReconsider` in some properties of `chain` says that they are
claimed only for worlds without reconsiderblock, since section 6 shows that it
breaks them. In `witness`, restarts without -rescan are combined with a single
chain only, and the branches fork above the first block. In `work_queue`,
`Prompt` excludes a shutdown before the workers have begun.

## 4. Fairness

Weak fairness of each thread's own steps, where the thread is running and
nothing in the code makes it stop: a thread inside ActivateBestChain; a worker
with a batch, and the master, in the check queue (workers need not start or
wake: Wait returns without them); the workers of the two RPC queues, whose
operations and handlers are taken to return; a thread that has begun to end a
queue. No fairness is assumed of arrivals, RPC calls, spurious wakeups,
shutdowns or crashes.

## 5. Proofs

`CoinsCacheProofs`, for any sets of txids, coins and block hashes, from
`CoinsDistinct` (the sentinels are not values):

- `TypeCorrect`, `FlagsCorrect`: FRESH is only set where the parent layer has
  nothing and a clean entry equals what the parent has, at both layers.
- `BatchWriteAssertHolds`: the assertion in CCoinsViewCache::BatchWrite.
- `Refinement`: CoinsCache implements CoinsView. Each action maps to one
  abstract step or to a stutter (reads and fetches).

FlagsTellTheTruth is not inductive alone: a scratch view may hold an entry whose
parent entry is gone from pcoinsTip. The invariant adds `ViewBackedByTip` (such
an entry is FRESH) and that a view that is not open is empty.

`CheckQueueProofs`, for any finite set of workers and of checks and any batch
size, from `CheckQueueAssumption`:

- `TypeCorrect`: no counter wraps below zero.
- `ChecksAreKept`: each check added is settled, queued or in one thread's batch,
  and nTodo counts the ones that are not settled.
- `WaitCorrect`: Wait returns the conjunction of the checks of the block.
- `IdleCorrect`: the queue is idle again between two blocks.

The invariant `IInv` counts: nIdle and nTotal are the cardinalities of sets of
threads, nTodo that of the unsettled checks, and a false fAllOk has a failed
check behind it. Since a mutex section settles a batch and then returns, sleeps
or takes another, the argument goes through `Mid`, the state in the middle of
the section, with the thread that holds the mutex taken out of the books.

Only model-checked: all liveness, and everything about ChainSelection, Ledger,
Mempool, AsyncRPCQueue, WorkQueue and NoteWitness. Liveness under fairness, and facts about recursive definitions for
all inputs, are out of the prover's reach.

## 6. Disagreements between the code and what is said of it

With a run:

- `coins_flush_fault`: BatchWrite empties pcoinsTip while it fills the batch. If
  LevelDB refuses the batch, hashBlock stays set, and the flush in Shutdown()
  stores the best block without the coins.
- `chain_sibling`: reconsiderblock on one child clears the invalid parent and
  leaves the other child BLOCK_FAILED_CHILD, which CheckBlockIndex rules out.
- `async_cancel`: cancel() tests for READY and then stores CANCELLED; an
  operation that ran in between reports that it was cancelled.
- `witness_stale`: after a restart from an older chainstate, the chain may go
  another way than wallet.dat's witnesses; the checks on witnessHeight keep the
  stale ones.

Met while modelling, and seen with TLC for other values of the constants or a
stronger form of the property:

- The tip is not a candidate while a reorganisation that failed half way has
  released cs_main, and CheckBlockIndex (`main.cpp:3989`) says that it always
  is. `CandidatesComplete` is therefore claimed when no thread is activating.
- A block whose parent was invalidated and whose data comes before its parent's
  is not put into mapBlocksUnlinked (`main.cpp:2885`), and nChainTx is not set
  when the parent's data arrives, which `main.cpp:3974` asserts. It matters
  after reconsiderblock; `DataAccountedFor` leaves such blocks out.
- reconsiderblock on a descendant clears its ancestors' flags without making
  them candidates (`main.cpp:2783`).
- A stored block whose transactions were damaged on disk is no verdict on the
  block (`main.cpp:1563`), so ActivateBestChain tries it for ever:
  `ActivationReturns` with the world `Damaged`.
- AddToWallet writes a note's witnesses in the middle of a reorganisation; after
  a crash the note can be behind the chain and the assertion at
  `wallet/wallet.cpp:691` ends the node: `AssertionsHold` with `ForkAndRestart`.
- A new wallet starts with nWitnessCacheSize 0, so a reorganisation of all the
  blocks since it was created fails `assert(nWitnessCacheSize > 0)`
  (`wallet/wallet.cpp:838`): `AssertionsHold` with branches that fork at once.
- WaitExit waits for the workers that have begun to run; one that was only
  created, or the event thread in http_request_cb, can still use the deleted
  queue (`httpserver.cpp:102`): `DeletedUnused` with Prompt = FALSE.

## 7. What is not modelled

Scripts, signatures, Equihash and JoinSplit proofs are verdicts (cryptography).
Serialization, base58, JSON, the command line tools, REST, Tor, ZMQ, AMQP,
alerts and metrics have no protocol state of their own. Fee estimation and
priorities are statistics; the pool's policy is a free choice. The vendored
libraries (leveldb, secp256k1, univalue, snark) have developments of their own;
LevelDB's batches are taken to be atomic. In the modelled parts: I/O errors
(AbortNode) except for the flush, pruning, the skip list, the master of the
check queue interrupted inside Wait at shutdown (the node then uses no result),
lock times, mapDeltas. `PROJECT.json` lists every part with its status.

## 8. Plan

Next modules, in this order:

1. ShieldedCache: the caches of anchors and nullifiers over CoinsCache's layers,
   where BatchWrite copies only `entered`; refinement to two sets.
2. FlushRecovery: FlushStateToDisk's order of writes (block files, index,
   unlinking pruned files, chainstate), crashes between them, LoadBlockIndexDB
   and the replay; what is loaded must satisfy ChainSelection's invariants.
3. BlockDownload: blocks in flight, peers that stall, time out or disconnect;
   counters agree with the maps, a wanted block is asked for again.
4. OrphanPool, composed with Mempool.
5. AddrMan: the two tables, reference counts and the assertions of Check_.
6. Scheduler; pure modules for the incremental Merkle tree (against a full
   tree), the retarget and the median time offset.

Next proofs: that addUnchecked and Erase keep PoolMapsExact; ActiveChainSound and
CandidatesSound of ChainSelection; SettledOnReturn of AsyncRPCQueue;
EveryRequestInOnePlace and DeletedUnused of WorkQueue; lemmas on CopyWitness and
PopWitness.

Runs of related modules will be merged the way `Worlds` and `Networks` merge
them now, so that each run still asks one question.
