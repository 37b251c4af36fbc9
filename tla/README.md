# Formal models of fuel-core's transaction pool and block producer

This directory holds TLA+ models of two services of fuel-core and the parts
of the node that drive them:

- the transaction pool of `crates/services/txpool_v2` (`src/pool.rs`);
- the block producer of `crates/services/producer` (`src/block_producer.rs`).

It also holds TLC configurations that model-check them on small instances,
and TLAPS proofs of the main pool and producer invariants for every value
of the constants.

## 1. The system and how its parts interact

**Transaction pool.**
- `Pool::insert` validates a transaction:
  - its inputs come from the pool, from transactions already extracted, or
    from the chain;
  - no input is flagged in the `SpentInputs` cache;
  - colliding transactions (spending the same coin) are worth less than it;
  - it fits the limits, or space can be freed by evicting less-worth
    executable roots.
- The pool then stores the transaction in a dependency graph (`Storage`),
  and indexes its coins in the `CollisionManager`.
- The selection algorithm keeps the set of executable roots.
- The block producer takes transactions out with
  `extract_transactions_for_block`:
  - the selected transactions leave the pool;
  - their inputs are flagged as tentatively spent;
  - their outputs are registered as extracted.
- The importer later calls `process_committed_transactions` with the ids of
  each committed block.
- The executor may skip a transaction; `remove_skipped_transaction` then
  evicts what depended on it and clears its flags.
- TTL pruning and invalid transactions go through
  `remove_transactions_and_dependents`.
- Every eviction reports `SqueezedOut` to the TxStatusManager.

**Block producer.**
- `produce_and_execute` is called by the PoA trigger loop or by manual
  production.
- It takes the production lock with `try_lock`: a concurrent call fails.
- It awaits the transaction source, reads the latest view, and asks the
  relayer for the finalized DA height.
- It chooses the block's `da_height`: the largest height whose cumulative
  gas and transaction counts fit the block limits.
- It executes, and returns the result to the caller, which commits it
  through the importer after the lock is released.
- `produce_and_execute_predefined` replays a block given in full (a
  predefined block of a regenesis or a test). It takes the same lock, checks
  the block's height against the latest view and the previous block's
  existence, and keeps the block's own `da_height`.

## 2. Modules

| Module | Models | Source |
|---|---|---|
| `TxPool` | pool storage, collision manager, selection, SpentInputs, ExtractedOutputs; and the producer, executor, importer and pre-confirmation paths that drive them | `crates/services/txpool_v2/src/pool.rs` |
| `MC_TxPool` | TLC instance: four transactions, two genesis coins | |
| `MC_TxPoolLimits` | TLC instance where the pool limits bind: two roots, a shared or a single-parent dependent, a newcomer | |
| `TxPool_proofs` | TLAPS proofs about `TxPool` | |
| `TxPoolGraph_proofs` | TLAPS proofs that the executable set and the stored parents agree with the storage graph | |
| `Producer` | `produce_and_execute` and `produce_and_execute_predefined` for concurrent callers, the DA-height loop, the relayer and the importer commit | `crates/services/producer/src/block_producer.rs` |
| `Chain` | abstract specification of the committed chain: blocks appended one at a time, each with an admissible `da_height` | (what the producer promises) |
| `MC_Producer` | TLC instance: two callers, three heights, four DA heights | |
| `Producer_proofs` | TLAPS proofs about `Producer` | |

### TxPool: state and actions

**State.** The model's variables correspond to the code as follows.

| Variable | In the code |
|---|---|
| `pool` | `tx_id_to_storage_id` |
| `executable` | the selection algorithm's executable set |
| `currentGas`, `currentBytes` | `current_gas`, `current_bytes_size` |
| `extractedOutputs` | `ExtractedOutputs` |
| `spentInputs` | `SpentInputs` (`None`, `Maybe` for tentative, `Spent`) |
| `txStatus` | the last status sent to the TxStatusManager |

The node around the pool is modelled by the rest of the state:
- `committed`: transactions in the chain;
- `inFlight`: the extracted block;
- `importQueue` and `skipQueue`: blocks and skips not yet handed to the pool.

A transaction is a model value with fixed inputs and outputs, and
optionally a blob id (`BlobOf`). The
dependency graph is the relation "spends an output of", restricted to the
pool. A subtree (`Subtree(u, S)`, what `remove_node_and_dependent_sub_graph`
removes) is `u` with the least subset of `S` that holds `u`'s dependents
(`Children`) and is closed under dependents (`DependentsClosed`).
`AllDependencies(t)` is the least subset of the pool that holds `t`'s
parents and is closed under parents (`AncestorsClosed`). These least-set
forms compute the same sets as the transitive closure of the edge relation.
TLC reached the same states with both (every passing pool run has identical
state counts). Unlike a recursive closure, they can be reasoned about by
the prover.

`ConstAssumption` also states what a `UtxoId` guarantees by construction:
it names the transaction that creates the coin. So two transactions never
create the same coin, and no transaction creates a genesis coin or a coin it
spends itself. Both TLC instances satisfy this, and TLC evaluates the
assumption on every run.

**Actions.**
- `Insert(t)`: the whole of `Pool::insert`. Its guard covers
  `can_insert_transaction`:
  - spent and duplicate checks;
  - `check_blob_does_not_exist` (`BlobExists`: a committed transaction
    registered the blob);
  - `Storage::validate_inputs` (`ValidInputs`);
  - collisions that are not dependencies (`Collisions`: a shared coin or
    a shared blob id);
  - `CollisionRequirements`;
  - `can_fit_into_pool` (`FitsIntoPool`) and `find_free_space` (`FreeSpace`).

  `SpaceFor(t)` is the set of eviction choices: the empty one when `t`
  fits, none when it does not fit and has dependencies, and otherwise
  every prefix of a less-worth order of the executable roots after which
  `find_free_space`'s loop stops (`LessWorthOrders`, `FreeSpace`).

  Its effect is `insert_inner` (`InsertInner`):
  - it evicts the chosen roots' subtrees and the collided subtrees;
  - it updates the counters with saturating subtraction (`SatSub`);
  - it makes `t` executable when it has no dependencies;
  - it sends `Submitted` and `SqueezedOut` statuses.
- `Extract`: `extract_transactions_for_block`. A selection is any sequence
  `gather_best_txs` may return: distinct, ordered by dependencies, within
  the block's gas and count limits.
- `LocalExecute`, `NetworkBlock`, `PreconfSkip`: the executor or another
  producer creating blocks and skips.
- `ProcessCommitted`, `CommitStepInPool`, `CommitStepNotInPool` and
  `CommitFinish` model `process_committed_transactions`:
  - `pc = "committing"` marks the loop;
  - there is one step per committed id;
  - the promotion loop runs at the end.

  The pool lock makes these atomic with respect to other pool operations:
  `Insert`, `RemoveSkipped` and `RemoveTxAndDependents` need `pc = "idle"`.
  The code does not split them into steps. The steps are kept only to state
  what the promotion loop sees.
- `RemoveSkipped(t)`: `remove_skipped_transaction`, including the cascade
  to the spenders of `t`'s coins.
- `RemoveTxAndDependents(t)`: `remove_transactions_and_dependents`.

### Producer: state and actions

**State.**
- `lockHolder` is the production mutex.
- `phase[c]` is where caller `c` is in `produce_and_execute`: idle, awaiting
  the tx source, reading the view, selecting the DA height, executing, or
  holding a produced result.
- `call[c]` holds the call's locals; they are dropped when the call ends.
- `latest` and `daAt` are the committed chain.
- `relayer` is the finalized DA height.

**Actions.**

| Action | Models |
|---|---|
| `Request` | `try_lock` |
| `RequestPredefined` | `produce_and_execute_predefined` up to the mint: lock, view, previous block, height check, predefined `da_height` |
| `SourceReady` | the awaited tx source |
| `ReadView` | `view_provider.latest_view()` and the previous block's `da_height` |
| `SelectDa` | `select_new_da_height`, including its two errors |
| `Execute` | successful execution |
| `ProdFail` | a gas-price, tx-source or executor error |
| `Commit` | the importer |
| `RelayerSync` | the relayer's height growing |

`DaLoop` is the cumulative loop of `select_new_da_height`, written as a
recursive function. `DaFits` is its reference definition through
`SumFunctionOnSet`. `SelectDa` names the loop's result together with the
range it lies in (`\E best \in prev..relayer`), so that the proofs need
not look inside the recursion.

`call[c].mode` records whether the call selected its DA height or replays a
predefined block. `DaSelectionIsBest` is about the first kind only.

### Chain: the abstract producer

`Chain` states what block production promises the rest of the node. The
chain grows by one block at a time. Each new block has a `da_height`
related to its predecessor's by `Admissible`, and committed blocks never
change. `Producer` instantiates it with
`Admissible <- AdmissibleDa` (not below the predecessor, and the added DA
blocks fit the limits), mapping `latest` and `daAt` to themselves and
hiding the lock, phases and call locals. `ChainRefinement ==
Abstract!Spec` is checked as a temporal property: every `Commit` is an
`Append`, and every other step is a stutter of the chain.

## 3. Runs

| Run | Config | Expect | Shows |
|---|---|---|---|
| `producer_run` | `TxPoolProducer.cfg` | pass | on a producing node, the pool invariants hold through insert, eviction, extraction, execution with skips, commit and skip processing |
| `follower_run` | `TxPoolFollower.cfg` | pass | the same invariants on a following node, with foreign blocks and pre-confirmed skips |
| `promote_assert` | `TxPoolPromote.cfg` | violation | the `debug_assert!` in the promotion loop of `process_committed_transactions` can fire |
| `collision_room` | `TxPoolCollisionRoom.cfg` | violation | `can_fit_into_pool` ignores the room freed by the collided subtree, against its doc comment |
| `producer_safety` | `ProducerSafety.cfg` | pass | at most one call produces at a time; a produced block is built on the view it read; the DA height is the best that fits and is admissible; a commit appends on the tip; the producer refines `Chain` |
| `producer_liveness` | `ProducerLiveness.cfg` | pass | with every DA height fitting the limits, the chain reaches `MaxHeight` |
| `producer_da_stall` | `ProducerDaStall.cfg` | violation | one DA height whose events exceed the block limits stops production for good |
| `pool_limits` | `TxPoolLimitsTree.cfg` | pass | with single-parent dependents, `find_free_space` always evicts enough: the pool stays within gas, bytes and count |
| `diamond_overfill` | `TxPoolLimitsDiamond.cfg` | violation | a dependent of two roots is subtracted twice by `find_free_space`, so the pool ends above `max_gas` |
| `blob_in_flight` | `TxPoolBlobInFlight.cfg` | violation | while a blob transaction is in the block being built, another with its blob id is accepted: the collision index has dropped the first, and its blob is not yet on chain |
| `stale_spend` | `TxPoolStaleSpend.cfg` | violation | on a following node, a stored transaction whose coin a network block spent stays in the pool after the block is processed |
| `producer_predefined_da` | `ProducerPredefinedDa.cfg` | violation | a predefined block whose `da_height` is below its predecessor's is produced and committed |

`producer_safety` uses a predefined block at height 1 too, so the
predefined path is interleaved with the selecting one, and it also checks
`ChainRefinement`.

**Pool invariants.**
- `CountersMatch`: the counters equal the sums over the pool.
- `ExecutableIsRoots`: the executable set is the set of stored roots.
- `NoConflictingSpends`: no two transactions of the pool and the block in
  flight spend one coin.
- `NoOrphans`: every stored transaction's parents are accounted for.
- `NoSilentDrop`: every transaction last reported `Submitted` is still
  accounted for.
- `RemovalsAccounted` (an action property): every transaction that leaves
  the pool in a step goes into the block being built, is committed, or is
  sent `SqueezedOut` in that same step. For `process_committed` this means
  that only the committed node is removed (`remove_transaction`), while its
  dependents stay stored and are promoted. Its mutant removes the committed
  id's whole subtree instead.
- `NoStaleSpend` (producer run): once every committed block is processed,
  no stored transaction spends a coin a committed transaction spent.
- `PoolBlobsUnique` (producer run, where `c` and `d` register one blob
  id): no two stored transactions share a blob id.
- `PoolWithinLimits` (limits run): the stored transactions are within
  `max_gas`, `max_bytes_size` and `max_txs`.

**Producer properties.**
- `AtMostOneProducing`: at most one call is past `try_lock`, and it holds
  the lock.
- `ProducedOnView`: a produced block is one above the view it read, on the
  previous block that is still committed.
- `ChainDaWithinLimits`: every committed block's `da_height` is not below
  its predecessor's, and its DA blocks fit the limits.
- `DaSelectionIsBest`: a selected DA height is the highest that fits.
- `CommitsOnTip` (action property): when the importer appends a call's
  block, that call read its view at the current tip, and its previous
  `da_height` is the tip's. This is the step-by-step core of `ChainRefinement`.
- `ChainRefinement`: the producer implements `Chain`.
- `ChainGrows` (liveness): the chain reaches `MaxHeight`.

**Bounds.**

The pool instance has four transactions:
- `a`;
- its child `b`;
- `c`, which collides with `a` at a better ratio;
- `d`, which is independent and worth the least.

This instance is chosen so that each of these cases occurs:
- a collision whose subtree has a dependent;
- a pool full by gas (`PoolMaxGas = 4`) or by count (`PoolMaxTxs = 3`);
- eviction by ratio;
- a block holding a parent and its child (`BlockMaxTxs = 2`);
- a skip of a parent whose child is stored;
- on the producer runs, two blob transactions (`c`, `d`) with one blob
  id, whether both stored or one in flight.

The limits instance (`MC_TxPoolLimits`) has two cheap roots `r1`, `r2`, a
dependent `x` (of `r1` only, or of both: the diamond), a better root `r3`
and a newcomer `n` worth more than everything, whose gas fills the pool on
its own. Inserting `n` must evict, so `find_free_space` runs on both a tree
and a diamond.

`MaxBlocks` (2 for a producer, 3 for a follower) bounds the chain. Three
blocks are enough for a follower to commit a parent, have a skip
pre-confirmed and commit again.

The producer instance has two callers, so the lock is contended. It has
three heights, so a stale view occurs: one caller commits while the other
holds a result. It has four DA heights with costs around the limit of 2, so
the loop's break and its "nothing fits" error are both reached.

**Deadlock.** `CHECK_DEADLOCK FALSE` is set because the workload is bounded
(`MaxBlocks`, `MaxHeight`, `MaxFailures`), so runs stop when it is used up.
The code itself never stops.

**Mutants.** Every property of a passing run is killed by a mutant of the
code it is about (see `mutants` in `PROJECT.json`):
- a dropped `try_lock`;
- a missing height check;
- a byte count not subtracted;
- a cache that consults only committed spends;
- a lost skip cascade;
- a missing `SqueezedOut`;
- a dropped promotion loop;
- a loop that records its best height before checking the limits;
- a fit check that ignores the transaction's own gas;
- a collision index that keys coins only, not blob ids;
- an importer that appends whatever block is returned (`ChainRefinement`,
  `CommitsOnTip`).

## 3a. What the violation runs show

Each of these is recorded in `findings` of `PROJECT.json`, with the code
line and the run that shows it.

- `promote_assert` (`pool.rs:464`): a committed parent queues its child
  for promotion. When the child is a later transaction of the same block,
  it is removed first. The promotion loop then reaches its
  `debug_assert!(false, ...)`.
  This needs a following node, whose pool can hold a transaction and its
  child that a network block commits together. On a producing node the
  assertion never fires (`PromotedStillStoredOnProducer`).
- `collision_room` (`pool.rs:506`): `can_fit_into_pool` does not subtract
  the collided subtree, against its own doc comment (`pool.rs:491`;
  spec.md describes what the code does). An unrelated transaction
  is evicted although the collision alone made room.
- `producer_da_stall` (`block_producer.rs:515`): a single DA height that
  exceeds the block limits makes every production call fail with
  `NO_NEW_DA_HEIGHT_FOUND`, for good.
- `diamond_overfill` (`pool.rs:606`): `find_free_space` sums cumulative
  counters per root. A dependent shared by two roots is counted twice, so
  the pool can end above its gas limit.
- `stale_spend` (`pool.rs:435`): a stored transaction whose coin a
  network block spent stays in the pool after the block is processed.
- `producer_predefined_da` (`block_producer.rs:130`): a predefined block's
  `da_height` is not checked against its predecessor's.
- `blob_in_flight` (`pool.rs:297`): a blob id held by a transaction in the
  block being built is invisible to insert.

## 4. Fairness

`LiveSpec` assumes the following.

- **Strong fairness on a trigger that can produce the next height.** The PoA
  trigger retries after every failure. A request that keeps failing because
  the lock is busy is retried until it finds the lock free.
- **Weak fairness on each step of a call already holding the lock**
  (`SourceReady`, `ReadView`, `SelectDa`, `Execute`, `Commit`). Each is an
  await that completes once its service answers.
- **No fairness on `ProdFail`**, because errors are not forced. It is also
  bounded by `MaxFailures`.
- **No fairness on `RelayerSync`**, because the relayer is not required to
  make progress.

## 5. Proofs (TLAPS)

The pool proofs are in `TxPool_proofs.tla` and `TxPoolGraph_proofs.tla`;
the producer proofs in `Producer_proofs.tla`.

- **`TypeCorrect`: `Spec => []TypeOK`.** The inductive step is the lemma
  `TypeStep`, with one step per action. The gas and byte counters stay in
  `Nat` through every saturating subtraction (`SatSubNat`).
- **`NoConflictingSpendsHolds`: `Spec => []NoConflictingSpends`.** This holds
  for every set of transactions, coins and limits.

  `NoConflictingSpends` is not inductive on its own. A transaction extracted
  into the block is no longer in the pool's collision index. Only the
  `SpentInputs` flag stops a competitor from being inserted. A skip clears
  that flag, which is only safe if the skipped transaction is no longer in
  flight.

  The inductive invariant `SpendsInv` adds these conjuncts:
  - every transaction of the block in flight is flagged in `spentInputs`;
  - the block and the pool are disjoint;
  - on a producing node, every skipped transaction not yet processed is
    neither stored nor in flight, and is still flagged;
  - a following node never has a block in flight.

  TLC checked `SpendsInv` as an invariant of both pool runs before it was
  proved.

  The proof has one lemma per kind of step:
  - `InsertStep`: collided transactions are evicted (`RootsInSubtrees`), and
    `ValidInputs` rejects coins of flagged transactions;
  - `ExtractStep`;
  - `LocalExecuteStep`;
  - `RemoveSkippedStep`;
  - `ShrinkStep`, covering every step that only shrinks the pool.

- **`PoolBlobsUniqueHolds`: `Spec => []PoolBlobsUnique`.** The inductive
  invariant is `BlobsInv`, which is `TypeOK /\ PoolBlobsUnique`.
  - Insert (`BlobsInsertStep`): a stored transaction with the newcomer's
    blob id is in `Collisions(t)`, and the whole collided set is evicted
    (`CollisionsEvicted`).
  - Every other step only removes from the pool (`PoolShrinks`).
- **`NoSilentDropHolds`: `Spec => []NoSilentDrop`.** The inductive
  invariant `DropInv` is stronger than the property.
  - A `Submitted` transaction is stored, in flight or committed, even
    without the skip set. The producer's skip pre-confirmation sends
    `SqueezedOut`. A follower's skipped transaction is still stored or is
    committed.
  - Every id in the import queue and in the block `process_committed` is
    working on is committed. Without this, `CommitStepInPool` could remove a
    `Submitted` transaction that is not yet committed.
  - The proof has one lemma per step: `DropInsertStep`, `DropExtractStep`,
    `DropLocalExecuteStep`, `DropNetworkBlockStep`,
    `DropProcessCommittedStep`, `DropCommitStep`, and `EvictStep` for the
    two eviction paths. The lemmas `RangeTail` and `AppendCommitted` cover
    the queue operations.
- **`NoStaleSpendHolds`: `IsProducer => (Spec => []NoStaleSpend)`.** The
  hypothesis is the configuration of `producer_run`. On a follower the
  property is false: see `stale_spend`.

  The inductive invariant is `ChainInv`, which is `SpendsInv` plus
  `CommittedApart` on a producer. `CommittedApart` says:
  - committed transactions are neither stored, in flight nor skipped;
  - they stay flagged in `spentInputs`;
  - no stored transaction shares an input with one of them.

  The argument:
  - A committed transaction on a producer comes only from its own block,
    which `SpendsInv` keeps flagged, disjoint from the pool and the skip
    set, and free of conflicts with the pool.
  - Insert's `validate_inputs` rejects a flagged coin.
  - `remove_skipped_transaction` clears only a skipped transaction's flag,
    and a skipped transaction is not committed.

  This proves more than `NoStaleSpend` states: on a producer the property
  holds in every state, not only once the import queue is drained. TLC
  checked `ChainInv`, `DropInv` and `BlobsInv` on both pool instances before
  they were proved.

- **`ExecutableIsRootsHolds`: `Spec => []ExecutableIsRoots`** and
  **`NoOrphansHolds`: `Spec => []NoOrphans`** (in `TxPoolGraph_proofs`).
  Both hold for every set of transactions, coins and limits that satisfies
  `ConstAssumption`.

  Neither property is inductive. Inside `process_committed`, the dependents
  freed by a commit are in `toPromote`, not yet in `executable`. Insert must
  know that the newcomer is nobody's parent. `remove_skipped_transaction`
  must know that clearing the skipped transaction's registered outputs
  orphans no stored transaction.

  The inductive invariant `GraphInv` is `DropInv` (for "every id being
  committed is committed") and:
  - `PromoteIdle`: outside `process_committed`, `toPromote` is empty;
  - `RootsCovered`: `executable` together with the stored part of
    `toPromote` is `Roots(pool)`;
  - `ParentsKnown`: every parent of a stored transaction is stored,
    registered in `extractedOutputs`, or committed;
  - `ExtractedFlagged`: a registered transaction is committed or flagged in
    `spentInputs`;
  - `ExtractedTracked`: a registered transaction is in flight, committed,
    or skipped.

  TLC checked `GraphInv` as an invariant on the producer, follower and both
  pool-limits instances before the proof.

  The argument rests on lemmas about the graph:
  - A subtree, and any union of subtrees, is closed under dependents
    (`SubtreeClosed`, `SubtreeOfAllClosed`).
  - A set closed in `S` joined with a set closed in the rest of `S` is
    closed (`ClosedUnion`).
  - Removing a closed set keeps the remaining transactions' parents
    (`ParentsAfterRemoval`), so the roots that remain are the roots
    (`RootsAfterRemoval`).
  - `AllDependencies(t)` is empty exactly when `t` has no stored parent
    (`AllDepsEmpty`).
  - The rest of the pool is closed under dependents (`AllDepsRestClosed`),
    so a collided subtree outside `t`'s dependencies never holds `t`'s
    parents.

  The steps:
  - `GraphInsertStep`:
    - The newcomer is not stored or committed, and is unflagged; by
      `ExtractedFlagged` it is therefore not registered either. So it is
      nobody's parent.
    - When it has dependencies, `SpaceFor` evicts nothing for room. The
      collided subtrees miss its parents.
    - Its own parents are known. By `ValidInputs` and unique outputs, the
      creator of each coin it spends is stored, registered or committed.
  - `GraphExtractStep` and `GraphCommitInPoolStep`: they recompute the
    roots directly.
  - `GraphRemoveSkippedStep`: the skipped transaction's own subtree and the
    subtrees of the stored spenders of its coins together form a closed set.
  - `GraphStep` combines these lemmas.
- **`RemovalsAccountedHolds`: `Spec => RemovalsAccounted`** (in
  `TxPoolGraph_proofs`). This is an action property, proved from `DropInv`.
  - `RemovedStep` takes each action in turn. Extraction moves the removed
    transactions into the block. Every eviction path sets `SqueezedOut` for
    what it removes (`EvictAccounted`). Insert's newcomer is not stored, so
    its `Submitted` does not overwrite an evicted transaction's status.
  - The commit loop removes `Head(committing)` without a status. `DropInv`
    keeps that id among the committed transactions.
- **`PromotedStillStoredOnProducer`:
  `IsProducer => (Spec => []PromotedStillStored)`** (in
  `TxPoolGraph_proofs`). The `debug_assert!` of the promotion loop (see
  `promote_assert`) can fire only on a following node.
  - On a producer, the commit loop meets only ids of the node's own blocks.
  - `DropInv` keeps those ids committed, and `CommittedApart` keeps
    committed transactions out of the pool.
  - So `CommitStepInPool` is never enabled (`NoPromotionStep`), and
    `toPromote` stays empty.
  - The invariant is `ChainInv /\ DropInv /\ toPromote = {}`, built from the
    inductive steps already proved.

**Producer.** `Producer_proofs` proves, for every set of callers, bounds,
cost table and predefined blocks allowed by `ProducerAssumption`:
- `TypeCorrect: Spec => []TypeOK`;
- `AtMostOneProducingHolds: Spec => []AtMostOneProducing`;
- `ProducedOnViewHolds: Spec => []ProducedOnView`.

All three follow from one inductive invariant `Inv`, the type invariant
plus `CallInv(c)` for every caller:
- a call past `try_lock` has a height in `1..MaxHeight`;
- before it reads the view, its height is at most `latest + 1` (callers
  ask for a height they read earlier, and the chain only grows);
- after it reads the view, the view is not ahead of the chain, the height
  is at most one above the view, and the recorded previous `da_height` is
  still the chain's (commits only write at `latest + 1`);
- past the height check, the height is exactly one above the view;
- a call between `try_lock` and its return holds the lock.

`ProducedOnView` alone is not inductive: a commit by another caller could
overwrite the block a produced call was built on, unless every call's
height is known to lie at or below `latest + 1`. `AtMostOneProducing` needs
the lock-holder conjunct so that `try_lock` is known to fail while a call
runs. TLC checked `Inv` on `ProducerSafety.cfg` and
`ProducerPredefinedDa.cfg` before the proof. The proof has one lemma per
action.

Two more results rest on `Inv`:
- **`CommitsOnTipHolds`: `Spec => CommitsOnTip`.** Only a commit with
  `target = latest + 1` moves `latest` (`LatestMovesOnCommit`). The
  committing call must be the one leaving `"produced"`. `CallInv` gives
  `target = view + 1` and `daAt[target - 1] = prevDa`.
- **`ChainRefinement` is not proved.** A refinement theorem worth the name
  is `Spec => ChainRefinement` with no hypothesis on the behaviour, and that
  is false for some constants: a predefined block may carry a `da_height`
  below its predecessor's, and the code commits it (`producer_predefined_da`).
  `CommitsOnTipHolds` proves the part that holds for all constants (every
  append is on the tip with the tip's `da_height` as its base). TLC checks
  the whole refinement on `producer_safety`, whose predefined block is
  admissible.

**Writing recursion for the prover.** `Included` (the executor's inclusion
loop) and `SelectSeq` are recursive. `LocalExecute` therefore names their
results together with a set they range over. The proofs never need to reason
about what the recursion computes.

**What stays with TLC, and why.**
- **Liveness** (`ChainGrows`): it needs fairness and `ENABLED`, which the
  prover does not handle.
- **`CountersMatch` and `PoolWithinLimits`:** the counters are sums
  (`SumFunctionOnSet`, a fold over `SUBSET`). Keeping them equal to the sum
  over the pool needs additivity over disjoint unions, which is proved by
  induction over finite sets. The library's induction theorems take an
  operator parameter, which the provers cannot instantiate.
- **`ChainDaWithinLimits` and `DaSelectionIsBest`:**
  they rest on what the recursive `DaLoop` computes. `ChainDaWithinLimits`
  also needs the predefined blocks to be admissible, which the code does not
  check.
- **The admissibility part of `ChainRefinement`:** that every selected
  `da_height` is admissible after the tip rests on the same facts.

## 6. Not modelled

- **TxStatusManager subscriptions:** the statuses sent are modelled, but not
  their delivery.
- **The PoA trigger's timing:** modelled only as a fair retry.
- **P2P codecs, GraphQL, the client schema, the WASM executor entry and the
  coin database:** these are pure conversion or I/O with no concurrent
  state.
- **The pool's time-based pruning:** modelled only as a removal that can
  happen at any time.
- **The LRU of recently removed ids:** not modelled.

## 7. Plan for later work

1. A TxStatusManager module: subscriptions racing status updates, and
   pruning of final statuses.
2. A PoA module: the block-time trigger, manual production and the
   producer's lock, composed with `Producer`.
3. A composition of `TxPool` with `Producer`: extraction inside
   the executor, which pulls transactions from the source that
   `produce_and_execute` builds, and what happens to extracted transactions
   when execution fails.
4. An abstract specification of the pool (a set of non-conflicting
   transactions), with `TxPool` shown to refine it.
