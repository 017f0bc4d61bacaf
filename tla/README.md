# TLA+ models of eccoin's validation core

This directory holds TLA+ models of `src/src/main.cpp`, the consensus and
relay core of eccoin, and the TLC configurations that check them.
`PROJECT.json` lists:

- every component;
- every run;
- the mutant that each checked property must catch;
- the source lines behind every definition;
- the findings;
- the hazards.

## The system

`main.cpp` is one translation unit. Its state lives in globals guarded by
`cs_main`:

- the block index status bits (`nStatus`, `nChainTx`, `nSequenceId`);
- `setBlockIndexCandidates`, `mapBlocksUnlinked` and `setDirtyBlockIndex`;
- `mempool` and the global `minRelayTxFee`;
- function-local statics of the admission code (`feeCutoff`, `nLastTime`,
  `dFreeCount`).

| Part | Code | Interacts with |
|---|---|---|
| Chain selection | `ReceivedBlockTransactions` 1412, `InvalidateBlock` 1306, `ReconsiderBlock` 1353, `PruneBlockIndexCandidates` 1291; the driver `ActivateBestChain` is outside `src/` | block index, candidate set, mempool (`LimitMempoolSize` from `InvalidateBlock`), flush (dirty set) |
| Admission pipeline | `AcceptToMemoryPool` 829, `AcceptToMemoryPoolWorker` 489, `LimitMempoolSize` 463 | coin cache `pcoinsTip`, `mempool`, fee controller, free limiter, sequence locks |
| Sequence locks / finality | `IsFinalTx` 186, `CheckFinalTx` 206, `CalculateSequenceLocks` 244, `EvaluateSequenceLocks` 316, `TestLockPointValidity` 331, `CheckSequenceLocks` 351 | admission (steps 4 and 7), block connection |
| Coin view rules | `UpdateCoins` 918, `CheckTxInputs` 960, `CheckInputs` 1033 | admission, block connection |
| Block checks | `CheckBlock` 1542, `ContextualCheckBlock` 1710, `IsSuperMajority` 1750, `CheckIndexAgainstCheckpoint` 1693 | service transactions, chain selection |
| Flush controller | `FlushStateToDisk` 1187, `FlushBlockFile` 1133, `CheckDiskSpace` 1781, `AbortNode` 1116, `FindBlockPos` 1470 | dirty block index, coin cache, block files |
| Difficulty and rewards | `GetLastBlockIndex` 1904, `GetNextTargetRequired` 1912, `GetProofOfWorkReward` 1992, `GetProofOfStakeReward` 2017 | block validation |
| Wallet | `src/src/wallet/wallet.h`, declarations only | out of scope in the spec |

Concurrency:

- Every operation named above runs under `cs_main`.
- An RPC (`invalidateblock`, `reconsiderblock`) or a block arrival holds the
  lock for its own critical section.
- `ActivateBestChain` then runs as separate steps. Between those steps, other
  arrivals and RPCs interleave.
- An admission runs under `cs_main` from start to end.

The models therefore treat one critical section as one atomic step, and let
steps of different actors interleave freely.

## Modules

### `ChainState` (with `MC_ChainState`)

The block index and the active chain over a fixed tree of headers.
Headers-first sync means every header is known from the start; block data
arrives in any order.

State:

| Variable | Code |
|---|---|
| `haveData` | `BLOCK_HAVE_DATA` |
| `validity` | `BLOCK_VALID_*` |
| `failedValid`, `failedChild` | `BLOCK_FAILED_*` |
| `nChainTx`, `nSequenceId` | `CBlockIndex` fields |
| `nBlockSequenceId` | `nBlockSequenceId` |
| `candidates` | `setBlockIndexCandidates` |
| `unlinked` | `mapBlocksUnlinked`, as a sequence so that equal keys keep insertion order, as a multimap does |
| `chain` | `chainActive` |
| `dirty` | `setDirtyBlockIndex` |

Actions:

- `ReceivedBlockTransactions(b)`:
  - the whole function, including the breadth-first link walk (`LinkOrder`);
  - the candidate insert against the tip;
  - the `IsValid(BLOCK_VALID_TREE)` condition for parking a block in
    `mapBlocksUnlinked`;
  - its guards (no data yet, not failed) are `AcceptBlock`'s, which is outside
    `src/`.
- `InvalidateBlock(b)`:
  - the tip-down walk, then the loop that re-adds candidates;
  - with `DisconnectMayFail`, the early `return false` after a failing
    `DisconnectTip`.
- `ReconsiderBlock(b)`: the block itself, the descendant loop and the ancestor
  loop.
- `ActivateBestChainStep`: the driver, modelled from spec 4.4 because it is
  not in `src/`. One step covers:
  - `FindMostWorkChain` (dropping branches through failed blocks);
  - disconnecting to the fork and connecting up to the candidate;
  - stopping at the first block whose `ConnectTip` fails (`BadBlocks`) and
    marking it and its descendants;
  - ending with `PruneBlockIndexCandidates`.

The work comparator `Worse` is `CBlockIndexWorkComparator`: most work, then
lowest sequence id, then lowest address (block number).

### `Mempool` (with `MC_Mempool`)

`AcceptToMemoryPool` is one action, taking the caller's flags (`fLimitFree`,
`pfMissingInputs == NULL`, `fOverrideMempoolLimit`) as inputs.

How the worker's early returns are modelled:

- They form the ordered list `CheckOrder`. `Fails` says which of them reject
  the transaction, and `FirstFailure` picks the one that returns.
- Side effects are applied exactly when the code has reached them:
  - the coins fetched by `HaveCoin` and `GetValueIn`;
  - the rolling minimum fee read;
  - the fee controller update of `feeCutoff` and `minRelayTxFee`;
  - `dFreeCount`;
  - insertion and `LimitMempoolSize`;
  - the uncache in `AcceptToMemoryPool`.

Abstractions:

- Checks that depend only on the transaction (`CheckTransaction`,
  standardness, finality, BIP68, sigops, absurd fee, scripts) are summarised
  by `StaticFail`: the first of them the transaction fails.
- Fee rates and sizes are small integers.
- Time is not kept. Each decay is a nondeterministic choice among the values
  the elapsed time can produce:
  - `dFreeCount` and `feeCutoff` multiply by a factor in (0, 1];
  - `GetMinFee` decays;
  - `Expire` removes the k oldest entries and their descendants.
- `TrimToSize` and the ancestor computations are in `txmempool.cpp`, outside
  `src/`. They are modelled from spec 4.2 step 15: evict the lowest fee rate
  with its descendants, and raise the rolling minimum fee above it.

### `Flush`

The flush controller and the block-file allocation it coordinates with, over a
linear chain of `NBlocks` blocks. Each block is one size unit long.

Memory and disk state are separate:

- Memory holds each index entry's level and file, `setDirtyBlockIndex`,
  `setDirtyFileInfo`, `vinfoBlockFile`, `nLastBlockFile`, the coin cache's best
  block and size, and the flush timers.
- Disk holds the block files (`synced` data and OS-`buffered` data), the
  block-index database and the coin database's best block.

Actions:

- `AcceptBlock(b)`: `FindBlockPos` (the file-switch loop, `FlushBlockFile` on
  the file it leaves, chunk pre-allocation with `CheckDiskSpace`), the append
  of `WriteBlockToDisk`, and the index part of `ReceivedBlockTransactions`.
- `ConnectBlock(b)`: the coin cache moves to `b`, and its index entry is
  raised.
- `FlushStateToDisk(mode)`: one call in `IF_NEEDED`, `PERIODIC` or `ALWAYS`
  mode, with these steps:
  - the trigger conditions;
  - the early returns in the code's order;
  - the erase of the dirty sets while the batch is built;
  - `WriteBatchSync`;
  - the coin flush;
  - `SetBestChain`.

  Which of these steps fails is one choice, ordered by `Stage`.
- `Tick`: wall-clock time passes. The timers are saturating ages.
- `Restart`: the process exits after `AbortNode`/`StartShutdown` and reloads
  from disk. OS buffers survive.
- `Crash`: power loss. Unsynced buffers are lost, and the process reloads.

### `SequenceLocks`, `NextBlockPool` (with `MC_SequenceLocks`)

`SequenceLocks` models the finality and BIP68 code as operators:

- `IsFinalTx`, `CheckFinalTx`;
- `CalculateSequenceLocks` with its `-1` "last invalid value" semantics;
- `EvaluateSequenceLocks`;
- `TestLockPointValidity`;
- `CheckSequenceLocks` with `MEMPOOL_HEIGHT` and `maxInputBlock`.

These operators work over a constant block tree with median times past. The
state is:

- the tip;
- the mempool, as the set of admitted transactions;
- each entry's cached `LockPoints`.

Actions:

- `AcceptToMemoryPool(t)`: the finality and sequence-lock steps of admission.
- `UpdateTip(b)`: a reorg followed by `removeForReorg`, which reuses valid
  cached lock points and recomputes the others.

`NextBlockPool` is the abstract specification of that mempool. Every admitted
transaction could go into the next block on the current tip, and a reorg keeps
only transactions that still could. `SequenceLocks` instantiates it with the
operator `Minable <- NextBlockMinable`, where `NextBlockMinable` is finality
plus the BIP68 reference definition `BIP68Final`. It checks the instance's
`Spec` as the property `ImplementsNextBlockPool`.

### `Minting` (with `MC_Minting`)

A chain that grows one block at a time. Each block records:

- its time;
- its `nBits`, computed by `GetNextTargetRequired` from its parent;
- its kind (proof-of-work or proof-of-stake);
- `nMoneySupply`, which is the parent's supply plus the subsidy of the new
  block.

The subsidy comes from `GetProofOfWorkReward` or `GetProofOfStakeReward`. The
stake reward reads the tip's supply, as the code reads
`chainActive.Tip()->nMoneySupply`.

- `GetLastBlockIndex` is a RECURSIVE walk.
- The spacing clamps, the spacing hard fork on `GetMedianTimePast`, the
  proof-of-work spacing and the limit are separate operators.
- Targets pass through the compact encoding (`Compact`).
- The Mersenne-twister draw of `GetProofOfWorkReward` is a choice among its
  extremes.

Consensus parameters and the amounts of `amount.h` are not in `src/`. They are
constants, scaled so that TLC's 32-bit integers hold every product. The reward
schedule's height thresholds (86400, 500000, 1005000) are constants too, so a
five-block chain crosses them in the code's order. An `ASSUME` keeps
`nTargetTimespan` at least twice the largest proof-of-work spacing. The real
value is not in `src/`.

### `BlockValidation` (with `MC_BlockValidation`)

The block-validation pipeline from a block's arrival to its connection, over
a fixed tree of blocks whose contents are constants. Its state:

- `stxmempool` (`g_stxmempool`) and `requested` (service transactions asked
  for with `AskFor`);
- `execCount`: how often `ProcessServiceCommand` ran for each service
  transaction and block, saturating at `MaxCount`;
- `accepted` (blocks `AcceptBlock` stored), the active `chain`, the coin
  view `coins` (`pcoinsTip`) as records `[tx, h, cb]`, and `undo`, one
  record per connected block, holding the coins each transaction spent.

Its actions:

- `ReceiveStx`: a service transaction enters the pool.
- `ProcessNewBlock`: `CheckBlock` on the new object; on success
  `AcceptBlock` calls `CheckBlock` again on the same object, where the
  `fChecked` cache (`CacheChecked`, lines 1685-1688) short-circuits, and then
  `ContextualCheckBlock`.
- `ConnectBlock`: the tip's child is read back from disk, a fresh object
  without `fChecked`. `CheckBlock` runs again, and `ConnectTxs` applies
  `CheckInputs`/`CheckTxInputs` and `UpdateCoins` to each transaction in
  order. A failure leaves the view unchanged.
- `DisconnectBlock`: `DisconnectTxs` undoes the tip's transactions in
  reverse order from its undo record.

`CheckBlock` keeps the code's order of checks:

1. header faults (`HeaderFails`);
2. block shape (`ShapeFails`);
3. the transaction loop (`LoopStop`), where a `nVersion == 2` transaction
   looks up its service transaction, requests it if missing, and otherwise
   runs `CheckServiceTransaction` and `ProcessServiceCommand`
   (`ServiceRefs`, `Requested`, `Executed`);
4. the sigop limit and the block signature.

A block's hash-level faults are a set of names (`"pow"`, `"merkle"`,
`"sig"`, ...), and each transaction has one output. `IsSuperMajority` is a
RECURSIVE walk (`CountVersions`) that includes genesis, as the code's loop
does. The maturity rule's height 1600000 is the constant `MaturityHeight`.
The coinstake's `GetProofOfStakeReward` is a constant per transaction
(`Entitlement`), since `Minting` already models it.

### `FeeController` (with `MC_FeeController`)

The congestion controller and the free-transaction limiter of
`AcceptToMemoryPoolWorker` (lines 662-751), with a clock. `Mempool` models
the same code without time, letting the decay produce any value. This module
keeps the exponent `nNow - nLastTime`.

Its state:

- `now` (`GetTime`) and `poolBytes` (`pool.GetTotalTxSize()`);
- the function statics `feeCutoff`, `nFreeLimit` and `nLastTime` of the
  controller (`nLastTime` is `NoTime` until the first call initialises it);
- the global `minRelayTxFee`;
- the limiter's statics `dFreeCount` and its own `nLastTimeFree`;
- `lastCall`, a history variable: when the controller last ran.

Its actions:

- `Tick` advances the clock.
- `PoolChange` stands for the other calls that resize the pool.
- `AcceptToMemoryPoolWorker` is one call that reaches the priority check.
  In the code's order it:
  1. rejects for insufficient priority against the `minRelayTxFee` the
     previous call left;
  2. decays and clamps `feeCutoff` and `nFreeLimit`;
  3. sets `minRelayTxFee`;
  4. runs the limiter.

Rejections before the priority check and after the limiter change none of
this state, so they are stutter steps.

The doubles are integers in satoshis per 1000 bytes, the unit `CFeeRate`
truncates `feeCutoff * 1000` to. `Decay(x, w, dt)` is `x * (1 - 1/w)^dt`,
rounded once. The windows 86400 and 600 are the constants `Window` and
`FreeWindow`, scaled with the clock.

## Runs

All runs are listed in `PROJECT.json`. Every run finishes in under a minute.

| Run | Config | Expect | Checks |
|---|---|---|---|
| `chain_select` | `MC_ChainState.cfg` | pass | `TypeOK`; `CandidatesComplete` (CheckBlockIndex's candidate rule); `ActiveChainValid`; `EventuallyMostWork` (the tip converges to the most-work eligible block), with `reconsiderblock` off |
| `chain_safety` | `MC_ChainState_safety.cfg` | pass | `LinkedHasData` with all four operations and `DisconnectTip` failing inside `invalidateblock` |
| `chain_stranded_block` | `MC_ChainState_stranded.cfg` | violation | `ProcessedBlocksLinked` (CheckBlockIndex's `nChainTx` rule) |
| `mempool_admission` | `MC_Mempool.cfg` | pass | `TypeOK`, `PoolConsistent`, `ChainLimitsHold`, `RejectLeavesCache` for callers that pass `pfMissingInputs` |
| `flush_crash_safety` | `Flush.cfg` | pass | see below |
| `flush_batch_fail` | `Flush_batch.cfg` | violation | `CoinsBestIndexed` when `WriteBatchSync` may fail |
| `sequence_locks` | `MC_SequenceLocks.cfg` | pass | see below |
| `minting_retarget` | `MC_Minting.cfg` | pass | `TypeOK` (every target in `1..limit`); `RetargetTowardSpacing` (action property) |
| `minting_supply_cap` | `MC_Minting_supply.cfg` | violation | `MoneySupplyCapped` |
| `block_validation` | `MC_BlockValidation.cfg` | pass | see below |
| `block_service_invalid` | `MC_BlockValidation_service.cfg` | violation | `ServiceOnlyForValidBlocks` |
| `fee_cutoff_window` | `MC_FeeController_window.cfg` | violation | `CutoffDecaysOverWindow` (action property) |

`flush_crash_safety` checks the following, with crashes, restarts, a full disk
and failing coin flushes:

- `TypeOK`;
- `CoinsBestIndexed`: the coin database's best block has an index entry on
  disk;
- `IndexedDataDurable`: every block the on-disk index records is in synced
  file data;
- `EventuallyPersisted` (liveness): a block-index change reaches disk.

`sequence_locks` checks the following:

- `TypeOK`;
- `SequenceLocksMatchBIP68`: `SequenceLocks` and a fresh `CheckSequenceLocks`
  agree with `BIP68Final` on every transaction and tip;
- `ImplementsNextBlockPool`: the refinement described under the modules above.

`block_validation` checks the following:

- `TypeOK`, with one undo record per connected block;
- `CoinsMatchChain`: after any sequence of connects and disconnects, the
  coin view equals the unspent outputs of the active chain, each with the
  height of its block and its coinbase flag (spec 8's connect/disconnect
  round trip). This includes a coin created and spent in one block.

The `fChecked` cache is modelled (`CacheChecked`), but no property is about
it: every modelled caller passes both check flags, so the second
`CheckBlock` of `ProcessNewBlock` always short-circuits. The caller that
disables them, `TestBlockValidity`, is outside `src/`.

Five more configurations reproduce disagreements that are not kept as runs,
because the number of runs is bounded and each is documented here and in
the hazard notes of `PROJECT.json`:

- `MC_ChainState_reconsider.cfg` finds `CandidatesComplete` violated in
  three steps: block 1 arrives, `invalidateblock 1`, then `reconsiderblock`
  on 1's data-less child. Block 1 is valid, linked and has more work than the
  tip, yet it is not a candidate, and the node stays on genesis. Cause: the
  ancestor loop of `ReconsiderBlock` (line 1398) clears flags but never
  re-inserts the block.
- `MC_Mempool_nullmissing.cfg` finds `RejectLeavesCache` violated in one
  step. With `pfMissingInputs == NULL`, `vCoinsToUncache` stays empty (line
  560), but `GetValueIn` cached the input. A rejection leaves it cached,
  contrary to the comment at lines 565-572.
- `Flush_sync.cfg` finds `IndexedDataDurable` violated in three steps. Block
  1 is written to file 0, then the flush's `FlushBlockFile` fails to open the
  file and returns silently (line 1139). The batch records block 1 anyway, so
  a power loss leaves an index entry that points at data never synced. Spec
  4.5 says the files are synced first.

- `MC_Mempool_freecount.cfg` finds `RejectLeavesFreeCount` violated in one
  step. A free transaction with failing scripts passes the limiter, adds its
  size to `dFreeCount` (line 750), and is then rejected by `CheckInputs`. Spec
  4.2 asks for no partial mutation on a failure, but counting attempts may be
  the limiter's intent.
- `MC_ChainState_failedtip.cfg` finds `ActiveChainValid` violated:
  1. `invalidateblock 3` with tip 4;
  2. `DisconnectTip` succeeds for 4 and fails for 3 (line 1323);
  3. block 3 stays the tip while marked failed, and the candidate set is
     empty.

  `DisconnectTip` is outside `src/`, and the read failure behind it aborts the
  node.

### What the violations show

- `chain_stranded_block` (4 steps):
  1. `invalidateblock` on a header-only block;
  2. its child's data arrives, and is not parked because the parent is failed
     (line 1461);
  3. `reconsiderblock`;
  4. the parent's data arrives and the parent is linked.

  The child then has all its data and no failed ancestor, but keeps
  `nChainTx = 0` forever.
- `flush_batch_fail` (5 steps):
  1. `FlushStateToDisk` erases the dirty sets while it builds the batch (lines
     1238, 1245);
  2. `WriteBatchSync` fails, and `AbortNode` is called;
  3. the shutdown flush writes an empty batch, flushes the coin cache and
     records a best block whose index entry never reached disk;
  4. after the restart, the coin database is ahead of the block index.
- `block_service_invalid` (2 steps): service transaction `s1` enters
  `g_stxmempool`; then block `b4`, which pays for `s1` and has a bad
  signature, arrives. `CheckBlock` runs `ProcessServiceCommand` for `s1`
  inside its transaction loop (line 1658) and rejects the block only later,
  at the signature check (line 1680). Spec 4.3 calls the service
  transaction a cross-check and a failed block terminal. `CheckBlock` never
  checks the paying transaction's inputs, so any peer can trigger service
  commands with a block that will never connect.
- `minting_supply_cap` (1 step): below height 1005000, `GetProofOfStakeReward`
  has no working cap. The 500000-1005000 window compares
  `ValueFromAmountAsInt(CMS) + nRewardCoinYear`, which is coins plus a satoshi
  rate, with `MAX_MONEY` in satoshis (line 2032). Below 500000 only
  `CMS == MAX_MONEY` is tested. A coinstake from a supply one year of reward
  below the cap mints past it, contrary to the function's comments. From
  1005000 on, an overshoot is "corrected" by a negative subsidy.

- `fee_cutoff_window` (5 steps):
  1. the pool holds between one and three blocks, so the first call raises
     `feeCutoff` to 2000;
  2. a tick passes and the pool drains;
  3. two calls in that same second lower the floor to 1500 and then to 1125.

  The static `nLastTime` keeps the time of the first call (line 689), so
  line 699 decays by the whole uptime on every call. Spec 4.2 step 10 asks
  for a 24-hour window. On a node up for a day, each admission divides the
  floor by about e, so after congestion the floor reaches
  `-minlimitertxfee` within a few transactions. The limiter below it
  assigns its own `nLastTime` (line 744), and with the same assignment in
  the controller the run passes (4950 states).

### Mutants

Every property of a pass run has a mutant in `PROJECT.json`. A mutant is a
plausible slip in the code the property depends on, and TLC must report the
property violated with it:

- `PruneStrict` also prunes the tip (`<` vs `<=`);
- `ParkNever` drops the `mapBlocksUnlinked` insert;
- `WalkFromAbove` stops the invalidate walk one block early;
- `ParentHasData` tests `BLOCK_HAVE_DATA` instead of `nChainTx`;
- `ChainKeepOld` connects without disconnecting to the fork;
- `ExpiredAlone` expires without descendants;
- `WithinChainLimitsLoose` forgets to count the new entry;
- `CoinsToUncacheAfterFetch` asks `HaveCoinInCache` after `HaveCoin`;
- `FetchedAll` caches pool outputs as coins;
- `FileForNoSkip` does not move to a new file when the current one is full;
- `WritesIndexPeriodicOnly` skips the index batch on a full flush;
- `FinalizeNever` does not commit the file `FindBlockPos` leaves;
- `SinceReset` restarts the flush timers on every call;
- `MaxInputHeightUnfiltered` counts mempool inputs in `maxInputBlock`;
- `EvaluateSequenceLocksLoose` uses `>` where the code fails on `>=`;
- `TestLockPointValidityAlways` trusts cached lock points across reorgs;
- `RetargetUnclamped` drops the `bnTargetLimit` cap;
- `GetNextTargetRequiredReversed` subtracts the block times in the wrong
  order;
- `DisconnectBlockKeepUndo` leaves the undo record of a disconnected block;
- `UpdateCoinsHeightOff` records a new coin one height too low.

## Bounds and why they suffice

`MC_ChainState` uses the block tree `0-1-2-5` and `0-3-4`:

- Block 4 carries twice the work of the others, so the tips 4 and 5 tie in
  chain work (3 each), and the tie is broken by sequence id.
- Block 5 fails `ConnectBlock`. Once it is marked failed, 4 is the most-work
  eligible block.

This gives the cases that matter:

- a reorganisation between branches;
- a failing connect in the middle of a branch;
- ties broken by sequence id;
- data arriving child-first (`mapBlocksUnlinked` walks of depth 2);
- invalidation of on-chain, off-chain and header-only blocks.

Other `ChainState` bounds:

- `MaxInvalidate = 1` and `MaxReconsider ∈ {0, 1}` bound the RPC calls. One
  of each is enough for every violation above.
- The liveness run turns `reconsiderblock` off, because with it the
  convergence property fails for the two bugs above.

`MC_Mempool` has six transactions over three confirmed coins (see the module
header):

- a parent with two children;
- a grandchild past the ancestor limit;
- a conflicting double spend;
- a double-size transaction;
- a free transaction that fails its scripts after the limiter.

The limits are `MaxMempool = 2` and `DescendantLimit = 3`. Three entries
overflow the pool, and trimming evicts the lowest fee rate. Every reject
reason that is not static is reached.

`Flush.cfg` has these bounds:

- two blocks and two files of two units each, so the second block forces a
  file switch;
- one-unit chunks, so every block pre-allocates and may meet a full disk;
- a coin cache that is "large" after two blocks;
- a write interval of 1 tick and a flush interval of 2 ticks, so periodic
  writes and periodic flushes both happen, and in either order.

`MC_SequenceLocks` has these bounds:

- two branches, `0-1-2` and `0-3-4`. They confirm coin `c1` at heights 1 and
  4, so a reorg moves a coin's height and makes cached lock points stale.
- one coin that is never confirmed, standing for an input in the mempool;
- five transactions covering height and time locks, disabled and final
  inputs, version 1 and a negative version, and absolute lock times on both
  sides of `LOCKTIME_THRESHOLD`.

`MC_Minting` builds chains of up to four blocks after genesis, with these
choices at each block:

- either kind of block;
- a time step of -10, 0, 45 or 1000 seconds, that is, backwards, equal, on the
  spacing, or past the timespan;
- a coin age of 0 or 365.

Two 1000-second steps move the median time past over the hard fork, so both
spacings are exercised. The proof-of-stake heights fall in all three reward
windows.

`MC_BlockValidation` has genesis coins `g` (a coinbase), `n1` and `n2`,
two service transactions, and five blocks (see the module header):

- `b1` pays for `s1`;
- `b2` spends `b1`'s coinbase one block later, which the maturity rule
  rejects;
- `b3` is a proof-of-stake sibling of `b2`, with a coinstake, a payment for
  `s2` and a transaction that spends another of the same block;
- `b4` is a fork from genesis that double-spends `n1` and fails its
  signature;
- `b5` fails the coinbase-height rule under a version-2 majority.

Service transactions arrive before or after their blocks, so both the
execute and the request paths of the loop are reached. Reorganisations
between `b1-b3` and `b4` are not reached, because `b4` is never accepted;
the connect/disconnect round trip over `b1` and `b3` exercises the undo
records. `MaxCount = 2` is enough for `ServiceOnlyForValidBlocks`, which
needs one execution.

`MC_FeeController_window.cfg` has these bounds:

- pool sizes below one block, between one and three, and above three
  (`nLargestBlockSeen = 2`, multiplier 3), so all three clamps are reached;
- a clock up to 4 ticks with a window of 4, so each tick removes a quarter
  of the floor;
- a free and a paying transaction of 5000 bytes, with a limit of 10000
  free bytes, so the limiter both counts and rejects.

The violation needs two calls in one second, which the first bound already
gives.

## Fairness

`ChainState`'s `Spec` has weak fairness on `ActivateBestChainStep` only:

- The node calls `ActivateBestChain` after every block it accepts and after
  each RPC, so a pending switch is eventually made.
- Block arrivals and RPCs get no fairness: peers may stop sending, and
  operators may stop typing.

`Flush` has weak fairness on three actions:

- the `PERIODIC` flush, which the message handler thread calls on every
  loop;
- `Tick`, because time passes;
- `Restart`, because a node that called `StartShutdown` exits.

Crashes, block arrivals and the other flush modes get no fairness.
`EventuallyPersisted` therefore says that the periodic flush alone brings
every index change to disk. `Mempool`, `SequenceLocks`, `Minting`,
`BlockValidation` and `FeeController` have safety properties only.

## Not modelled, and why

- `ActivateBestChain`, `ConnectTip`, `DisconnectTip`, `AcceptBlock`,
  `CheckBlockIndex`, `GetMedianTimePast`, the compact encoding and
  `txmempool.cpp` are not under `src/`. They appear only as far as the spec
  describes them, and are marked `spec_modelled` in the map.
- Script verification, serialisation, block and undo file I/O, and logging
  are out of TLC's reach, or have no state a property tells apart.
- `CheckIndexAgainstCheckpoint` and `TestBlockValidity` are not modelled.
  The latter, outside `src/`, is the only caller that turns off
  `fCheckPOW` or `fCheckMerkleRoot`. Whether a service command should run
  once per block or once per check (it runs again on every connect) is not
  stated anywhere, so no property fixes it.
- `FeeController`'s clock never goes backwards. `GetTime` can step back
  with the system clock, and the decay then raises the floor instead;
  nothing in the code or the spec says what should happen then.
- 64-bit wrap-around in `GetProofOfStakeReward` cannot be reached with TLC's
  32-bit integers. The only branch where it would bite is the one the
  mixed-unit cap keeps out of reach.
- `nFreeLimit` is modelled in `FeeController`, but no property is about it:
  only a log line reads it.
- The orphan maps are declared in `main.cpp` but used elsewhere.
- The wallet (`wallet.h`) holds declarations only, and the spec puts it out
  of scope.

## Plan for the remaining parts

In order of importance:

1. **FeeController pass run**: properties of the free limiter, which keeps
   a correct window, once a run slot is free.
2. **Refinement of chain selection**: an abstract spec (the tip is some
   most-work valid block) implemented by `ChainState`, with the two reconsider
   bugs excluded by configuration.
3. **Composition**: `ChainState` and `Flush` through the dirty block-index set;
   `BlockValidation`'s connects driven by `ChainState`'s chain selection.
