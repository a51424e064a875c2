# TLA+ models of the HIDERING node

HIDERING is a fork of Monero: a C++ daemon that keeps a proof-of-work block
chain, a pool of pending transactions and a peer-to-peer synchronisation
protocol, and wallets that use it.  It differs from Monero in its emission (a
hard cap of 18,000,000 HRG reached by halvings, with no tail emission), its ring
sizes, its checkpoints and its hard-fork table.  This directory holds the TLA+
models of the parts that carry its state, the TLC runs that check them and the
TLAPS proofs about them.  Paths below are relative to the repository's `src/`.

The short version: a node must never spend a key image twice, never lose or
duplicate a transaction between chain and pool, end every chain switch on one
whole chain, accept the blocks the rules accept whatever its caches hold, bring
out every transaction it has stemmed, survive a crash at any point, and never
lock itself up.  The models check this over reorganisations that fail half way,
database errors, crashes, threads and timers.  The code keeps it except in error
paths and races that are rare: one is shown by a run of its own (section 6), the
others are statements in the modules, with the constants that refute them
(section 7).

## 1. Inventory

| Part | Source | State | Operations | Hard behaviour | What makes it correct |
|---|---|---|---|---|---|
| Block download queue | `cryptonote_protocol/block_queue.cpp` | spans by start height; `requested_hashes`; `have_blocks` | add, reserve, flush, remove, queries | every connection's thread calls it; spans collide, overlap and belong to different branches | a hash marked as requested or held is in a span; the next needed height is the first gap |
| Pruning arithmetic | `common/pruning.cpp` | none | stripe of a height, next (un)pruned height | cycles, the tip nobody prunes | agrees with "does the peer have this block" |
| Transaction pool | `cryptonote_core/tx_pool.cpp` | `txpool` table; in memory `m_spent_key_images`, sorted container, weight, timed-out set, input cache, cookie | add, take, prune, relay, time out, fill a template, validate, load | two copies of one state; verdicts cached across chain changes | memory mirrors the table; the table can always be loaded; caches never outlive the chain they speak of |
| Block chain | `cryptonote_core/blockchain.cpp` | main chain, alternative blocks, `m_invalid_blocks`, cached template, open batch | batches of blocks, alternative blocks, switch and rollback, pop, templates | one block of a switch failing; an aborted batch; a crash | no double spend; chain, pool and alternative table are disjoint; the heaviest valid chain wins; a switch is all or nothing |
| Database | `blockchain_db/` | tables; one write transaction | add/pop block, txpool and alternative tables, batches, `LockedTXN` | an exception half way through `add_block`; joining somebody else's transaction | a transaction is committed whole or not at all |
| LMDB backend | `blockchain_db/lmdb/` | cursors, memory map | the interface above | resizing the map under readers | - |
| Checkpoints | `checkpoints/`, `blockchain.cpp` | height -> hash | add, load, check, may an alternative block exist, roll back | off-by-one at the chain's tip; a new checkpoint the chain fails, loaded without the chain's lock; another thread's open batch | a checkpoint that was checked on the chain stays there; a chain that fails one is rolled back |
| Node core | `cryptonote_core/cryptonote_core.cpp` | `m_incoming_tx_lock`, timers | entry points for blocks, transactions, relay, checkpoint updates | lock order between three recursive mutexes and the write transaction | no deadlock; everybody finishes |
| Protocol handler | `cryptonote_protocol/cryptonote_protocol_handler.inl` | per-peer state, synchronisation state | hand-shake, request, receive, standby, kick | timeouts racing answers; the add-block lock | a synchronising node makes progress |
| Transaction relay | `cryptonote_protocol/levin_notify.cpp`, `p2p/net_node.inl`, `net/dandelionpp.cpp`, `tx_pool.cpp` | relay method and time of each transaction, `m_next_check`, requests on the strand, stem map, fluff queues | stem, fluff, re-relay, embargo, noise channels | a stem peer that drops the transaction; a crash between two calls; a clock read without the lock | what is stemmed is broadcast in the end, nothing expires unsent |
| Peer-to-peer node | `p2p/` | white, gray and anchor lists, connections | connect, time sync, ban | concurrent callbacks, limits | limits are kept |
| Hard forks | `cryptonote_basic/hardfork.cpp` | current fork, votes in a window, version of each height in the database | add, pop, reorganise, init | four update paths, an upgrade of the program, an aborted batch | the version depends on the chain alone |
| Emission, weights and difficulty | `cryptonote_basic_impl.cpp`, `difficulty.cpp`, `blockchain.cpp`, epee's `rolling_median.h` | weight limit, long term window, difficulty window, coins | reward, next difficulty, limits | caches moved up by one block; 64-bit arithmetic; eras that end by the coins generated | the caches agree with the chain; the supply ends at the sum of the eras |
| Miner | `cryptonote_basic/miner.cpp` | worker and background threads, their count, the address, template | start, stop, autodetection, refresh | joins and condition variables under a lock | a stop ends |
| Thread pool | `common/threadpool.cpp` | queue, `active`, `depth`, waiters on callers' stacks | submit, run, wait | waiters that help others; nested jobs; jobs that throw | no job outlives its caller; `wait` returns and tells errors |
| Multisig key exchange | `multisig/` | rounds | init, update | participants in different rounds | all agree on the key |
| Wallet | `wallet/` | transfers, scanned hashes | refresh, detach | reorganisations while scanning | balance agrees with the chain |
| RPC, daemon, command line | `rpc/`, `daemon/`, `simplewallet/` | - | queries, options | - | - |
| Cryptography, devices | `crypto/`, `ringct/`, `device/` | - | numeric algorithms, device I/O | - | - |
| Tools | `blockchain_utilities/` | - | import, prune, statistics | - | - |

How they interact.  A peer's thread hands blocks to `core`, which holds
`m_incoming_tx_lock` while `Blockchain::prepare_handle_incoming_blocks` takes
the pool's and the chain's locks and opens a batch; each block goes through
`add_new_block`; `cleanup_handle_incoming_blocks` commits or aborts.  Blocks
take their transactions out of the pool (`take_tx`), popped or refused blocks
give them back (`add_tx` as *kept by block*), and the chain tells the pool of
every change (`on_blockchain_inc`, `on_blockchain_dec`) so that it drops its
cached verdicts.  The pool asks the chain about inputs (`check_tx_inputs`) and
stores its metadata in the chain's database.  The chain updates the hard-fork
object, the weight limit and the difficulty and long-term-weight caches block by
block, and asks them whether the next block is valid.  The node core's idle
thread asks the pool what is due, the peer-to-peer node picks the network, the
relay's strand tells the pool what was sent.  The miner's threads, the thread
pool and the block queue are leaves.

PROJECT.json lists every hazard met in this code, at its line, with the
properties that would catch it.

## 2. Plan

Written first, because everything else rests on it: the chain with the pool.

Done:

1. `Pruning`, `BlockQueue` with its proofs.
2. `TxPool`, `Blockchain` (chain, pool and database together), their proofs.
3. `LockOrder`: the same entry points as lock and batch events.
4. `Ledger`, what the chain promises to those who see committed states, and the
   refinement that shows `Blockchain` implements it, with a database that fails.
5. `HardFork`, `BlockWeight`, `BlockReward`, `Difficulty` and their composition
   `ConsensusState`: the rules that `Blockchain` takes as a parameter;
   `RollingMedian` refining `WindowMedian`; `Emission`.
6. `Checkpoints`: new checkpoints and the rollback they cause.
7. `TxRelay`: from the pool to the network and back, with timers and crashes.
8. `ThreadPool`, `MinerThreads`: the threads of the node.

9. Proofs of every safety invariant the runs check, of the action property of the
   pool, of the refinement of `Ledger` and of the stripe arithmetic (section 5).

Next, proofs: the refinement of `WindowMedian`.  `RollingMedian` uses RECURSIVE
operators for the walks along the heaps, which the prover does not take; as
recursive functions of the position they could be reasoned about.

Next, models: the protocol handler over `BlockQueue` (peers' states, requests and
timeouts), the peer lists, the pool's `validate` at a hard fork, the wallet's
scan of a chain that is reorganised under it.

## 3. Modules and the code

| Module | Models | Uses |
|---|---|---|
| `Pruning` | stripes of heights | |
| `BlockQueue`, `MCBlockQueue` | the download queue, one action per mutating member function; two forking peers | `Pruning` |
| `BlockQueueProofs` | theorems on the queue and on the stripes | `BlockQueue` |
| `TxPool` | the pool as a record and the operators on it | |
| `Blockchain` | chain, pool, alternative table, batch | `TxPool`, `Ledger` |
| `Ledger` | abstract: one valid chain, replaced in one step | |
| `MCBlockchain`, `MCFaults` | two block trees | `Blockchain` |
| `ChainProofs` | the pool's operators; main chain, pool and alternative table; batches, switches, the refinement of `Ledger`, the heaviest chain | `Blockchain` |
| `BlockchainProofs` | the pool of a running node: index, weight, restart, caches, templates | `ChainProofs` |
| `LockOrder`, `MCLockOrder` | mutexes and the write transaction | |
| `LockOrderProofs` | the lock order for any number of threads | `LockOrder` |
| `Median`, `BlockWeight`, `BlockReward`, `Difficulty`, `HardFork` | the rules as operators | |
| `ConsensusState`, `MCConsensus` | what the chain derives from its blocks, and its caches | the rules |
| `WindowMedian` | abstract: the median of the last N values | `Median` |
| `RollingMedian`, `MCRollingMedian` | epee's two heaps in one array | `WindowMedian` |
| `Emission`, `MCEmission` | the coins over the life of a chain | `BlockReward` |
| `ConsensusProofs` | theorems on the emission and on everything derived from the chain | `ConsensusState`, `Emission` |
| `Checkpoints`, `MCCheckpoints` | checkpoints that arrive late | |
| `CheckpointsProofs` | theorem on the update | `Checkpoints` |
| `TxRelay`, `MCTxRelay` | relay methods, embargoes, the Dandelion++ strand | |
| `TxRelayProofs` | theorems on the embargo and on the age of what is unsent | `TxRelay` |
| `ThreadPool`, `MCThreadPool` | workers and callers that help | |
| `ThreadPoolProofs` | theorems on waiters and their jobs | `ThreadPool` |
| `MinerThreads`, `MCMinerThreads` | start, stop, autodetection, background mining | |

Definitions carry the source's names where there is one.  Operators marked as
mutants are deliberately wrong variants that show what a property detects; no
specification uses them.

**BlockQueue.**  `blocks` maps a start height to a span (`hashes`, `blocks`,
`nblocks`, `connection_id`; two spans of the source cannot share a start height
either, see `add_blocks` and `reserve_span`).  A peer is a set of segments of
its chain it may be asked for; `Segments` makes the hashes of a span consistent
with one peer's chain and nothing else.  The client is the most general one: any
member function at any time, which covers every protocol handler.  Rates, sizes
and request times only feed peer selection and are left out.

**TxPool.**  A record of the `txpool` table (`txs`) and the memory built on it.
Every operation of the pool is an operator from pool to pool, applied by one
action of `Blockchain`, because the source holds the pool's and the chain's
locks throughout.  The set `ok` says which transactions have good inputs on the
chain of that moment.  Left out: blobs, fees (only their order, `Rank`),
`double_spend_seen`, and the lists for incremental RPC queries; relay times are
in `TxRelay`.

**Blockchain.**  A block stands for the chain ending in it.  `Block` holds the
blocks that pass the checks that depend on a block and its ancestors alone
(version, time, proof of work, weight): those the code refuses there change
nothing.  A switch (`switch_to_alternative_blockchain`) is a loop over blocks,
and each turn is a step, so invariants hold in the middle of it and a crash can
come there; `op` records the phase.  `batch` is the write transaction: what the
database goes back to (`top`, `alt`, `txs`), and what a failed `add_block` left
in it (`written`, `keys`).  A *supplement* is any subset of the transactions of
a block that arrive with it.  `m_db->add_block` throws when two transactions of
one block spend the same key image (nothing earlier compares them; no block of
the runs holds two such transactions, so `NoDoubleSpend` is about different blocks
and reorganisations there), and, with `DbErrors`, at any block.  `Next` holds the steps in which it does not throw;
`SpecWithThrows` adds the others.  `create_block_template` is the variant that
is cached; the one that starts from a given block caches nothing and changes
nothing.  Templates are filled as with `m_mine_stem_txes` off, the default.

**Ledger.**  Its one variable is the tip of the committed chain; the refinement
maps it to the tip the database would have after a crash now (`committed`).  It
steps to a valid chain that is heavier or that a checkpoint decides for and that
keeps every checkpoint reached, or is shortened by the operator.

**LockOrder.**  An operation is the sequence of lock, unlock and batch events
on its longest path; each thread carries out one.  The run `lock_order` leaves
`update_checkpoints` out and so says nothing of it; section 7 is about
that operation.  The branch in which `batch_start` waits is in the model as in the
code, but is never reached without `check_against_checkpoints`: every other batch
is opened and closed under the pool's lock.

**ConsensusState.**  Here a block is what its miner chose (version, vote, weight,
time, fee, a wrong claim) and the hash of a block is the sequence ending in it.
`chain`, `meta` and `hfv` are the database, `batch` what it goes back to, `lt`,
`dc`, `hf` and `median_weight` the caches.  Every property compares them with
`Rule...` definitions that recompute from the genesis block.  A reorganisation
is a job of several steps (`disconnect`, `connect`, `push_alternative`, and
`rollback`, `restore` when a block is refused); `ask_difficulty` is another
thread, which during a batch sees the committed chain; `restart` starts the same or a
newer release: `right_version` and `last_right` say which blocks the new table lets
it keep.  An old block that the alternative table refuses makes the ones above it
orphans (`parent_is_known`).  One alternative branch exists at a time.  Loops over blocks or forks are
recursive functions of a height or of an index, not RECURSIVE operators.

**RollingMedian** is the C++ class slot by slot: the circular queue, the array of
heap positions with negative indices for the max heap, the sift loops.  The
memory that `malloc` returns is any value.

**Checkpoints.**  Only the length of the chain and its first wrong block matter,
because every checkpoint is right.  One thread updates the checkpoints, another
brings blocks: it takes the pool's lock, opens a batch, adds blocks or reorganises,
and commits or aborts (`prepare`, `batch_start`, `add_new_block`, `reorganize`,
`cleanup`), with the chain's lock free in between.  `batch` says whose write
transaction is open and `saved` what is committed: an update that meets a batch of
the other thread goes on without one of its own (`check_against_checkpoints`),
reads `saved`, throws when it has to pop, and ends nothing.  A rollback waits for
the pool's lock while it holds the chain's (`pop_block`).  `init` starts a node on
the main network or one that never updates, `load_fails` is a file that cannot be
read, `throws` the three ways in which the loop ends in an exception.  `checked` is
the one variable that is not in the code: the points that an update with a batch of
its own has been through.

**TxRelay.**  All times are relative to now, so time has no bound.  `pool` and
what a crash keeps are in the database; `calls` (a thread between adding a
transaction and asking for its relay), `strand` (queued handlers) and
`next_check` are lost.  Every `add_tx`, also of a transaction that the model does
not have (`add_other_tx`), ends in `prune`, which takes out any transactions that no
block keeps: which ones depends on fees and weights, and `TxPool` models that.  A stem peer may forward, return or swallow what it gets;
the networks of a node are chosen once.

**ThreadPool.**  A thread is a stack of frames, since a waiting thread runs other
jobs on top of its own; a step is what happens under one mutex.  A body waits, and
then the destructor of its waiter waits again (`destroy`): each time the thread
serves the queue first.  A body that throws has only the second wait.  A job's name
stands for one call of `submit`, so the assumption says that no name occurs at two
places of the tree of jobs or of the clients' programs.

**MinerThreads.**  A step is what a thread does between two reads or writes of
what others may change.  `usage` says which arguments this operator's starts have,
chosen once: a number of threads, or 0 for autodetection, and whether with
background mining.  The autodetection may look at any time: its window of ten
seconds is not modelled.

## 4. Runs

| Run | States | What it checks |
|---|---|---|
| `block_queue` | 44,161 | marks and spans agree; the next needed height is the first gap; pruning arithmetic against its meaning |
| `blockchain` | 236,547 | chain, pool, templates and caches under reorganisations, a switch that fails, a block refused for its miner transaction, competing and dependent transactions, a full pool, crashes |
| `faults` | 493,258 | the same node with a failing database, a checkpoint, stems, time-outs and `pop_blocks`: it still implements `Ledger` |
| `faults_restart` | - | what it does not keep then: section 6 |
| `lock_order` | 14,599 | lock order, no foreign write transaction, all finish, no deadlock |
| `consensus` | 492,741 | limits, difficulties, coins and fork version against the rules |
| `rolling_median` | 155,574 | the two heaps implement a window median |
| `emission` | 1,689 | the coins end at the sum of the eras, never above |
| `checkpoints_update` | 195,884 | a checkpoint that was checked holds from then on; one failing checkpoint is rolled back |
| `tx_relay` | 100,890 | embargoes are watched, stems end unless a full pool gives them up, nothing expires unsent |
| `thread_pool` | 237,330 | no job outlives its caller, errors are told, everybody finishes |
| `miner_threads` | 117,627 | a stop and the autodetection end |

Bounds, and why they are enough.

- *Block trees.*  `MCBlockchain` is the smallest tree in which the node can be
  switched over and back (a1 a2, then b1 b2, then a3), a switch can fail at its
  last block (c2) and on the miner transaction (d2).  In `MCFaults` the first
  blocks of two branches spend one key image, and the lighter branch ends in a
  checkpoint (b3), so a switch can be caused by work or by the checkpoint, and
  `add_block` throws on the tip, in a switch and while the old chain is put
  back.  `MaxBatch` = 2 lets a batch hold a good block and a bad one.
- *Transactions.*  Two that spend one key image, one that needs another's
  output, one that only competes for room; `MaxWeight` = 2 makes pruning happen.
- `MaxDrift`: once an aborted batch has let `m_txpool_weight` drift beyond it no
  batch starts; the weight would otherwise grow for ever.  Without aborts it is
  never reached.
- `MaxAge`: ages that are told apart, just above the two lifetimes in `faults`,
  where time matters, 0 (time stands still) in `blockchain`.
- *Queue.*  Three heights and two connections give spans that collide on their
  start, overlap and hold two branches; a stripe of one block makes pruning
  matter at once.  `MaxHeight`, `MaxSpan` bound heights and lengths.  The
  arithmetic, also proved in general, is evaluated with 4 stripes of 3 blocks, a tip of 4 and chains up
  to 40 blocks: more than three cycles, every position of the tip.
- *Locks.*  Three threads, one mutex each: enough for every cycle of waiting
  among three mutexes.
- *Consensus.*  Chains up to height 3 (`MaxHeight`) against windows of 2 and 3
  blocks, so windows fill and move; up to two blocks popped at once (`MaxPop`);
  one exception (`MaxFaults`); two fork tables, so that a fork lies on the branch
  or below it; blocks of both versions, heavy ones that are valid only on top of
  heavy ones, and one whose coinbase pays out too much, by exactly what a stale
  median takes off: the exception that `ChainExact` makes really happens.
- *Emission.*  Six eras of 21 blocks, whose sum (1722) is some 4% below the cap
  (1800), and amounts of a type (`UINT64`) that barely holds the cap, so that an
  addition too many would wrap.
- *Rolling median.*  N = 6: both heaps have a node with children; three
  values give every pattern of smaller, equal and larger.
- *Relay.*  One transaction (transactions do not interact in the relay, except
  that each may bring `m_next_check` forward, which `running` has several times for
  one), four arrivals (`MaxArrivals`), one crash (`MaxCrashes`), a lifetime of 8
  with embargoes of 1 or 2, the three kinds of network.
- *Thread pool.*  One worker and two clients, jobs nested twice, two that may
  throw: a helping thread can take the other client's job and be waited for.
- *Miner.*  Two worker names (`MaxThreads` = 2), one background thread, an RPC
  caller and the shutdown.  With one caller that starts and one count in each
  behaviour, nobody lowers `m_threads_total` under the loop of a start
  (`miner.cpp:376`, `miner.cpp:404`), only the autodetection raises it: `StopEnds`
  and `AutodetectEnds` do not cover what a lowering does (section 7).
- *Checkpoints.*  Heights up to 8, two compiled-in and two later checkpoints,
  above and below a fork, chains that start short or long, two crashes; one update
  and one other thread at a time, since `m_checkpoints_updating` and
  `m_incoming_tx_lock` let no more in.  `CHECK_DEADLOCK FALSE`, since an update that
  throws in a handler leaves the batch open, one that rolls back while the other
  thread has the pool's lock waits for it for ever, and the node really stops; every
  other run checks for deadlock.

`OnHeaviestChain` is checked without `pop_blocks` (with it the operator takes
the node off its heaviest chain on purpose, and an alternative block whose parent
becomes the tip stays in the table, where `have_block` refuses it when it comes
again), and says "heaviest among those that
pass the checkpoints reached so far".  `InputCacheFresh`, `FailedVerdictRight`
and `CachedTemplateMinable` speak of the states between two batches, the only
ones in which somebody reads those caches.  `VerdictRight`, `LimitsFresh`,
`ForkMatchesHeight` and `RollbackRestores` are stated until the database throws for
the first time; `ChainExact` also afterwards, for chains without a coinbase that
pays out too much.  `NothingExpiresUnsent` is stated for a process that has not died and one
network at most for the node's own transactions, `StopEnds` for a fixed number of
threads, `AutodetectEnds` without background mining; section 7 says what happens
otherwise.  `Enforced` speaks of the compiled-in checkpoints and of those that an
update has checked in a batch of its own, `RollsBack` of a node that no thread
brings blocks to while it checks.  `StemEnds` allows that a full pool gives the
transaction up.

Fairness.

- `LockOrder`, `ThreadPool`: weak fairness of each thread's next step.  The
  scheduler runs every thread; nothing is waited for but mutexes and jobs.  A
  thread of `LockOrder` carries out one operation, so nobody is overtaken for
  ever.  In `ThreadPool` throwing is not part of the fair step: no job has to.
- `Emission`: `WF(light)`, blocks keep being mined and not all pay the penalty.
- `TxRelay`: time passes, a stopped node is started again, a thread makes the
  call it is at, the idle tasks run; a handler on the strand has strong fairness
  because it waits while another one is half way, and the strand is a queue.
  Nothing is assumed of peers, blocks or arrivals.
- `MinerThreads`: strong fairness for callers and the autodetection, which
  compete for `m_threads_lock`; weak fairness for workers and the background
  thread; none for the calls themselves or for spurious wake-ups.
- `Checkpoints`: a node that ended is started again, a running one updates from
  time to time (the peer-to-peer thread does so after blocks), and an update goes on
  unless it waits for a lock.  Nothing is assumed of the thread with blocks.

Fault models: crash and restart (`Blockchain`, `ConsensusState`, `TxRelay`,
`Checkpoints`), a database that throws (`faults`, `consensus`), stem peers that
swallow or return what they get, spurious wake-ups, jobs that throw, upgrades.

Refinements: `Blockchain` implements `Ledger` (`IsLedger`, in `faults`);
`RollingMedian` implements `WindowMedian` (`IsWindowMedian`).

## 5. Proofs

All proofs hold for every value of the constants that satisfies the named
assumptions of the modules: typing; for `Blockchain` a block tree (parents,
heights, growing difficulty), an injective rank, positive weights, a key image per
transaction; for `ThreadPool` a forest of jobs; for the rules windows and rewards
that are not empty and amounts that fit in 64 bits; for `ConsensusState` fork tables
in order that start at the genesis block and leave nothing to a vote
(`TablesAssumption`), the table of a later release continuing that of an earlier one
(`ReleasesAssumption`); for `Emission` eras whose sum is within the cap.  The theorems
that have a hypothesis of their own state it, and it is explained below.  TLC checked each inductive
invariant before it was proved.

Facts about chains of any length, such as "a chain has one block at each height",
and the walk of `get_next_needed_height` are proved by induction in the form the
provers can use: the set of counterexamples has a least element (`LeastNumber`,
from the well-foundedness of the natural numbers), which is then refuted.  The same argument shows that the recursive functions of the models exist
and unfold (`Recursion`, `UnrolledExists`).

**Queue** (`BlockQueueProofs`).  `QueueInv` is `TypeOK`, `RequestedBacked`,
`HaveBacked` and `HaveIsRequested`; none is inductive alone.  Erasing spans
removes the marks of all their hashes, so what stays marked needs another span;
a filled span keeps the hashes of the reservation it replaces, and needs
`HaveIsRequested` to know that a later flush takes both marks.  Three lemmas
(erase, fill, schedule) cover all actions.  From it: `QueueTypeCorrect`,
`RequestedIsBacked`, `HaveIsBacked`.  `NextNeededIsRight` needs only types: what
the walk has passed is covered (`WalkedIsCovered`, by induction on the start
heights) and it stops at a height no span covers.

**Stripes** (`BlockQueueProofs`).  A height is its cycle, its stripe in the cycle and
its place in the stripe (`Placed`), uniquely; `NextStripe` says of the height that
`get_next_unpruned_block_height` computes that it is the first one of its stripe and
that no stripe of that number begins before.  From it, for every size and number of
stripes and every tip: `NextUnprunedIsRight` and `NextPrunedIsRight`.  The latter
needs two stripes at least: with one, the next pruned height would be the given
height itself.  `PruningAssumption` says so, and in the code 0 in a seed stands for
the default.

**Pool** (`ChainProofs`, `BlockchainProofs`).  `PoolInv` says the index and the
sorted container are exact, the table can be loaded (two transactions share a
key image only if a block keeps one of them), and so can the table at the last
commit, and that the batch has not failed.  Each operator of the pool has a lemma
that it preserves `PoolOK`; the last commit is needed because a restart goes
back to it.  From it: `IndexMirrorsTable` (`KeyImageIndexExact`) and
`RestartIsPossible` (`RestartPossible`), for `Spec`, in which `add_block` does
not throw; with throws they are false, and section 6 shows how.

**Weight of the pool** (`BlockchainProofs`).  `WeightInv` says that `weight` is the
sum of the weights of the finitely many transactions in the table, and that the
table of the last commit, from which a restart adds the weight up again, is finite
too.  The sum is defined by taking transactions out in an arbitrary order;
`WeightCounts` shows that the order does not matter, because the sum is the
cardinality of a set (`Units`: a transaction of weight n as n pairs), and the
cardinalities of disjoint sets add up (`WeightJoin`).  Each operator of the pool
then has a lemma that it keeps the weight right; in particular
`reduce_txpool_weight` never has to stop at zero.  From it: `WeightIsExact`, for
`Spec`; after an abort the weight drifts.

**Chain** (`ChainProofs`).  `ChainInv` has three parts: `NodeInv` (no key image
twice on the main chain, no transaction both on it and in the pool),
`SnapshotInv` (the same of the last commit, where an abort or a crash goes) and
`SwitchInv` (during a switch it is the *old* chain that the alternative table
avoids: the blocks being connected stay in the table until it ends).
`BusyInBatch` says a switch is always inside a batch.  The step that carries the
argument is `ExtendSound`: the inputs were checked against the chain and
`add_block` refused clashes inside the block, so the longer chain has no double
spend.  Popping shrinks the chain, and a sub-chain of a sound chain is sound,
which is also why its transactions were nowhere else and may enter the pool.
From it, all for `SpecWithThrows`: `NoKeyImageSpentTwice`, `PoolIsOffChain`,
`AltIsOffChain`.

**Ledger** (`ChainProofs`).  `LedgerInv` adds what a batch may commit: as long as
`add_block` has not thrown, its tip is a *good* chain (sound, every output made
below its use, the checkpoints respected, good miner transactions) and is
*reached* from the committed one: it is that chain, or better by weight or by a
checkpoint without giving one up.  During a switch the same is said of the old
chain, because the rollback must end there.  `Retains` says where the transactions
of the chain left behind are: on the new one or kept in the pool, which pruning
never removes.  From it, with a database that fails: `CommittedIsLedger`, the
refinement (`LedgerSimulation` maps every step to a step of `Ledger` or none), and
`CommitKeepsTxs`.  `SwitchIsAllOrNothing` is for `Spec`: the old blocks are good,
so `handle_block_to_main_chain` accepts every one of them again.  `HeaviestChain`
is for `Spec` without `pop_blocks`, whose purpose is to leave the heaviest chain;
its invariant `HeaviestInv` says of every table of alternative blocks, the one a
crash goes back to included, that the tip outweighs it.

**Memory of the pool** (`BlockchainProofs`).  `MemoryInv` says what the pool
remembers is true of the chain it speaks of: a `last_failed_id` names a chain on
which the transaction does fail (the model's block is its whole chain, so this
survives every reorganisation), a timed-out transaction is in a table only as kept
by a block, in the snapshot of the batch as well, and a nonempty input cache is
about the tip, which is then the committed one: a batch that moves the tip empties
the cache, so an abort finds no verdict about another chain.  From it, for
`SpecWithThrows`: `InputCacheIsFresh`, `FailedVerdictIsRight`, `TimedOutIsOut`,
and `RelayIsMonotone`.  `CachedTemplateIsMinable` needs `"none" \notin Arrivals`:
section 7 says what a `do_not_relay` transaction does.

**Checkpoints** (`CheckpointsProofs`).  The compiled-in points and those checked by
an update with its own batch pass on the chain of the open batch and on the
committed one (`AllPass`), because blocks and reorganisations are compared with all
points that are loaded and an abort goes back to a chain that passes.  A point
becomes checked at the end of a loop: within it, in a batch of the update's own, the
points it has dealt with pass and the chain is no longer than the height read before
the loop (`LoopInv`), and `ProcessInv` says who can have the batch at which place.
From it: `CheckpointsEnforced`, whoever has a batch open when a checkpoint comes.

**Relay** (`TxRelayProofs`).  Every step that starts a wait brings `m_next_check`
forward, and none that puts it back leaves a wait running out before it; pruning only
takes waits away.  From it:
`EmbargoIsWatched`.  `ServedInv` says of every transaction that is to be relayed and
that only the first hop knows of, that a request for it is under way or that its
wait ends, and the pool is looked at, while it is young enough to be relayed.  From
it: `NothingExpires`, under `DelaysAreShort`: a wait and the time to the next look
fit in half of a transaction's life (minutes against a day and a half).

**Emission** (`ConsensusProofs`).  The invariant is that the coins and one more reward
of the present era are within the total (`OneMoreReward`): the last block of an
era takes less than one reward beyond its end, and the next era, which pays half
of that reward at least twice, covers it.  The sums that `get_block_reward` counts are the ends of the eras
without a wrap (`CountedExact`), and a penalty only lowers a reward
(`PenaltyShrinks`).  From it: `EmissionBounded`.

**Derived state** (`ConsensusProofs`).  The invariant `Whole` has three layers.
`Core` holds whatever the database does: what is stored is right in weight and
difficulty (`Exact`), in the tables, in what the batch goes back to and, for the
difficulty, in the alternative chain (`AltRight`); the long term window is the one
of the chain it remembers and the difficulty window the one of its last block
(`LtRight`, `DcRight`), and the latter cannot be mistaken for that of another
chain that the node may come to (`DcFits`, `BatchFits`: the reason why every pop
resets it and an abort does not have to); and in each loop of a reorganisation, what was
taken off and what is left make up the old chain (`JobRight`).  `Calm` and
`CoinsRight` hold until the database throws: the chain, that of the batch and the
old one of a reorganisation are valid under the fork table, the hard fork object is
that of the height, the weight limit is that of the tip wherever a block may be
added, and the coins are right.  `FairRight` is what is left of the coins
afterwards: they are right up to the first coinbase that pays out too much.
Without `Core` for the batch and the alternative chain nothing is inductive, since
aborts and switches go there; without the old chain being *valid*, and not merely
old, a rollback could be refused.  A start with a newer table cuts the chain after
its last block of the right version, and the lemma `RestartCalm` shows that all
blocks below are right too.  From it: `SwitchHeavier` (from `Core` alone),
`ChainExactAlways`, `LimitsAlwaysFresh`, `ForkAlwaysMatches`, `VerdictAlwaysRight`
and `RollbackAlwaysRestores`.

The proof of `ChainExact` changed the statement: for blocks other than those of the
first instance it is false once the database has thrown, because a stale weight limit
accepts a coinbase that claims exactly the reward the stale limit gives, and its
coins are counted.  The statement now excepts those chains, and the run has such a
block.

**Locks** (`LockOrderProofs`).  What a thread holds is the state of an automaton
(`Moves`) that refuses the wrong order, a transaction without the pool's lock and
a batch left open; an operation is safe if the automaton has a path along its
events, and paths compose as operations do.  The invariant says that each thread is
on a path to `Nothing` and that the owners of mutexes and batch agree with it.
From it, for any number of threads: `LockOrderIsKept`, `BatchIsAlwaysOwn` and
`NoDeadlock` (who holds the last mutex of the order can go on).  The hypothesis
`Operations \subseteq InOrder` leaves out `update_checkpoints` alone, which breaks
the order (section 7).

**Thread pool** (`ThreadPoolProofs`).  `PoolInv` says what a frame may stand on
(`StackInv`), that a job is at one place at most (`OnceInv`), that what is not yet
submitted is fresh (`FreshInv`), that a waiter's counter is the number of its jobs
queued or in the hands of `run` (`CountInv`), that the jobs of a body that is over
are over (`OverInv`), and where an error is until it is told (`ErrorInv`).  The
counter does not see the jobs that run in the submitting thread; those stand on top
of the body that waits (`NobodyWaits`), which is why a body with counter 0 that is
running has no job left; the second wait of the destructor needs the same argument.
From it: `NoJobOutlives` and `WaitTells`.

Only model-checked: `RollingMedian` and its refinement, which uses RECURSIVE
operators; and every liveness property (`AllFinish`, `ClientsFinish`, the stems of
`TxRelay`, the stops of `MinerThreads`, the rollback of `Checkpoints`, the end of
`Emission`): liveness under fairness and anything with ENABLED are out of the
prover's reach.

## 6. Finding

**An aborted batch leaves the pool's memory behind**
(`cryptonote_core/blockchain.cpp:5220`, run `faults_restart`).  The abort puts
the `txpool` table back, not `m_spent_key_images`, the sorted container and
the weight.  A transaction that a block of the batch had taken is in the
table but not in the index, so a second one that spends its key image is
accepted, and `tx_memory_pool::init` then fails at the next start.

## 7. Further observations

Statements in the modules that the code does not keep, and how TLC shows it.
None is needed for a property of section 4.

- *Block chain.*  `InvalidDeserved` fails when `add_block` throws in a switch
  (`SpecWithThrows` with `DbErrors`): the rollback re-adds the old chain in the
  spoiled transaction, finds its key images spent and marks an old main-chain
  block invalid (`blockchain.cpp:4774`); the abort does not take the mark back.
  With `"none"` in `Arrivals`, `CachedTemplateMinable` fails: a transaction that
  came with `do_not_relay` may be in a template, and relaying it as a stem
  afterwards does not move the cookie (`set_relayed`, `tx_pool.cpp:871`), so the
  cached template still shows what is meant to be private for a while.
- *Consensus.*  After an aborted batch the weight limit and the hard-fork object
  stay at what the batch made of them: a block over the limit of the chain is let
  in (`WeightWithinLimit` fails with `MaxFaults` = 1 and holds with 0), and while
  the fork object is ahead so are blocks of the wrong version, which survive a
  restart.  A coinbase that claims the reward of the stale limit is accepted, and the
  coins of the chain differ from those of other nodes from then on (`ChainExact`
  without its exception).  `VotesAreWindow`: `on_block_popped` fills the old end of the window
  with the version of the block that was popped (`hardfork.cpp:301`); all
  thresholds are 0, so no fork depends on the votes.  `AltCoinsMinted`: the coins
  of an alternative block include its fees.
- *Relay.*  A full pool gives up stem and forward transactions like any other
  (`tx_pool.cpp:358`), and nothing tells the sender: `StemEnds` without `given_up`
  fails.  `last_relayed_time` stays unset when neither of two anonymity
  networks can send (`net_node.inl:2392`) or the process dies between `add_tx`
  and the relay (`tx_pool.cpp:306`): nothing is due any more, and
  `NothingExpiresUnsent` without its restrictions fails.  `PickedIsPostponed`:
  the reset of the times is never committed (`tx_pool.cpp:864`), so what is
  picked stays due until the relay itself answers.
- *Thread pool.*  `InlineOnlyWhenBusy`: a job that throws in the submitting thread
  does not give `depth` back (`threadpool.cpp:94`), and that thread runs all its
  later jobs itself.
- *Miner.*  With `Usages = {{<<0, TRUE>>}}` the autodetection holds
  `m_threads_lock` and waits for workers that sleep until background mining
  starts (`miner.cpp:277`): `AutodetectEnds` fails and no stop gets the lock.
  `StopStops`: the autodetection clears `m_stop` after a stop (`miner.cpp:281`).
  `StartFindsNoThread`: `m_threads_active` is counted down before a worker has
  left, and up after it was started (`miner.cpp:459`, `miner.cpp:538`).
  `WaitersWake`: the condition is tested before the mutex of the
  condition variable is taken (`miner.cpp:553`), so a notification can be missed.  `ObeysTheStart` fails with a caller in `Zmq`, which does
  not ask whether mining is on (`rpc/daemon_handler.cpp:500`).  Its refused start has
  changed `m_threads_total` already (`miner.cpp:376`), and so does the autodetection:
  a start whose loop is past the new value goes on creating threads (`miner.cpp:404`).
- *Locks.*  With `update_checkpoints` in `Operations` (two threads, next to
  `handle_incoming_blocks`) `LockOrderKept` fails: the rollback for a new
  checkpoint takes the pool's lock under the chain's (`blockchain.cpp:5104`),
  against the rule stated at `blockchain.cpp:5446`, and the caller
  (`cryptonote_protocol_handler.inl:753`) holds none, so it and a thread that
  prepares blocks can wait for each other.
- *Checkpoints.*  `VerifiedAll` fails (for instance with `MaxHeight = 5`,
  `Default = {1}`, `Later = {3}`, `Lengths = {3}`, `MaxCrashes = 0`): an update that
  runs between another thread's `add_new_block` and its `batch_stop` gets no batch
  (`blockchain.cpp:5105`), reads the committed chain and passes, and the block that
  the new checkpoint forbids is committed afterwards, although the caller says that
  checkpoints are verified "with respect to what blocks we already have"
  (`cryptonote_protocol_handler.inl:750`).  A later update finds the block.
  Two checkpoints that fail at once make the second turn of the
  loop ask for a block that the first has popped, and the start throws each time
  (`blockchain.cpp:5106`; `Default = {3, 5}`, `Lengths = {6}`).  A checkpoint that
  fails at height 1 or 2 asks to pop the genesis block (`blockchain.cpp:5125`).
  When the update throws in a handler, because of these or because the batch is
  another thread's (`db_lmdb.cpp:4075`), `m_checkpoints_updating` stays set and no
  update ever comes again; a batch of its own stays open, and `batch_start` of the
  other threads waits for ever.  A node on another network, or with updates
  disabled, never checks its chain (`cryptonote_core.cpp:267`).

## 8. Not modelled, and why

- Cryptography and proof of work: numeric; their verdicts are parameters
  (`Block`, `GoodMiner`, `Needs`, `Images`).
- Compiled-in block hashes and `fast_check`, pruned blocks (with the early exit
  at `blockchain.cpp:4794`): they only skip checks for a known prefix.
- The pool's `validate` at a hard fork (`tx_pool.cpp:1788`).
- Exceptions of the database outside `add_block`: those of the txpool table leave
  the index ahead of the table; listed as a hazard.
- The choice of stems and its epochs, the random delays of the fluff queues,
  noise channels: whatever stem is chosen and whenever it is sent, `TxRelay`
  covers it.
- The miner's templates, pause and resume; checkpoints from name servers, which
  do not resolve on this network.
- Protocol handler, peer lists, wallet scanning, multisig rounds: section 2 names
  the ones that are next; the multisig rounds are mostly curve arithmetic.
- LMDB itself: an external library, modelled by what its users rely on.
- Wallet user interfaces, RPC façades, device I/O, command-line tools: no state
  of their own beyond what is modelled elsewhere.  `translations/*.ts` are Qt
  translation files: XML data.
- The truncation of a height to 32 bits in `block_queue.cpp:271`: heights in the
  model are far from 2^32.
