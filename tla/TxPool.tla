------------------------------- MODULE TxPool -------------------------------
(***************************************************************************)
(* The transaction pool of txpool_v2 (crates/services/txpool_v2/src/      *)
(* pool.rs) together with the parts of the node that drive it: the block  *)
(* producer extracting transactions, the executor including or skipping   *)
(* them, the importer committing blocks, and pre-confirmations reporting  *)
(* skipped transactions.                                                  *)
(*                                                                         *)
(* A transaction is a model value with fixed inputs (coins it spends) and *)
(* outputs (coins it creates).  The dependency graph of the pool storage  *)
(* is the relation "spends an output of" restricted to the pool; the       *)
(* collision manager's index is the relation "spends the same coin".      *)
(* The selection algorithm's executable set is kept as its own variable,  *)
(* as the code keeps it, so that its agreement with the graph is checked. *)
(***************************************************************************)
EXTENDS Naturals, Sequences, FiniteSets, Functions

CONSTANTS
    Tx,             \* transaction ids
    Coin,           \* coins (UTXO ids) the transactions spend or create
    Genesis,        \* coins present in the chain state at start-up
    Inputs,         \* Inputs[t]: the coins t spends
    Outputs,        \* Outputs[t]: the coins t creates
    TxGas,          \* max_gas of each transaction
    TxBytes,        \* metered_bytes_size of each transaction
    TxTip,          \* tip of each transaction
    BlobId,         \* blob ids blob transactions register
    BlobOf,         \* BlobOf[t]: the blob id of t, or NoBlob
    NoBlob,         \* t is not a blob transaction
    PoolMaxGas,     \* config.pool_limits.max_gas
    PoolMaxBytes,   \* config.pool_limits.max_bytes_size
    PoolMaxTxs,     \* config.pool_limits.max_txs
    BlockGasLimit,  \* Constraints.max_gas given to extract_transactions_for_block
    BlockMaxTxs,    \* Constraints.maximum_txs
    IsProducer,     \* TRUE: this node produces blocks; FALSE: it imports them
    MaxBlocks       \* bound on blocks and pre-confirmations (model bound)

ASSUME ConstAssumption ==
    /\ Genesis \subseteq Coin
    /\ Inputs \in [Tx -> SUBSET Coin]
    /\ Outputs \in [Tx -> SUBSET Coin]
    /\ TxGas \in [Tx -> Nat]
    /\ TxBytes \in [Tx -> Nat]
    /\ TxTip \in [Tx -> Nat]
    /\ NoBlob \notin BlobId
    /\ BlobOf \in [Tx -> BlobId \cup {NoBlob}]
    /\ {PoolMaxGas, PoolMaxBytes, PoolMaxTxs, BlockGasLimit, BlockMaxTxs,
        MaxBlocks} \subseteq Nat
    /\ IsProducer \in BOOLEAN
    \* A UtxoId names the transaction that creates the coin: two transactions
    \* never create the same coin, none creates a genesis coin or one it spends.
    /\ \A u, v \in Tx : u # v => Outputs[u] \cap Outputs[v] = {}
    /\ \A u \in Tx : Outputs[u] \cap (Genesis \cup Inputs[u]) = {}

VARIABLES
    pool,             \* tx_id_to_storage_id: the transactions stored
    executable,       \* selection algorithm: executable transactions
    currentGas,       \* current_gas
    currentBytes,     \* current_bytes_size
    extractedOutputs, \* ExtractedOutputs: txs whose outputs are registered
    spentInputs,      \* SpentInputs: per tx, "None", "Maybe" or "Spent"
    txStatus,         \* last status sent to the TxStatusManager
    committed,        \* transactions in the chain (persistent storage)
    inFlight,         \* producer: extracted block not yet executed
    importQueue,      \* committed blocks not yet given to the pool
    skipQueue,        \* skipped transactions not yet given to the pool
    pc,               \* "idle" or "committing" (inside process_committed)
    committing,       \* ids of the block process_committed has still to do
    toPromote,        \* transactions_to_promote of process_committed
    blocks            \* blocks and pre-confirmations so far

vars == <<pool, executable, currentGas, currentBytes, extractedOutputs,
          spentInputs, txStatus, committed, inFlight, importQueue, skipQueue,
          pc, committing, toPromote, blocks>>

SpentStates == {"None", "Maybe", "Spent"}
Statuses == {"None", "Submitted", "SqueezedOut"}

-----------------------------------------------------------------------------
(* Saturating subtraction of u64 values.                                   *)
SatSub(x, y) == IF y \in Nat /\ x > y THEN x - y ELSE 0

GasOf(S) == SumFunctionOnSet(TxGas, S)
BytesOf(S) == SumFunctionOnSet(TxBytes, S)
TipOf(S) == SumFunctionOnSet(TxTip, S)

(* Storage graph: the txs of S whose outputs t spends, and those of S     *)
(* spending an output of u.  A subtree is the least subset of S holding   *)
(* u's dependents and closed under dependents (the recursion of           *)
(* remove_node_and_dependent_sub_graph); the dependencies of t are the    *)
(* least subset holding t's parents and closed under parents.             *)
Parents(t, S) == {u \in S : Outputs[u] \cap Inputs[t] # {}}
Children(u, S) == {v \in S : u \in Parents(v, S)}
DependentsClosed(D, S) == \A x \in D : Children(x, S) \subseteq D
AncestorsClosed(D, S) == \A x \in D : Parents(x, S) \subseteq D
Descendants(u, S) ==
    {v \in S : \A D \in SUBSET S :
                  Children(u, S) \subseteq D /\ DependentsClosed(D, S) => v \in D}
Subtree(u, S) == {u} \cup Descendants(u, S)
SubtreeOfAll(R, S) == UNION {Subtree(u, S) : u \in R}
(* all_dependencies of a checked transaction: its ancestors in the pool.  *)
AllDependencies(t) ==
    {a \in pool : \A D \in SUBSET pool :
                     Parents(t, pool) \subseteq D /\ AncestorsClosed(D, pool)
                        => a \in D}

(* Coins in the chain state after the transactions of C.                   *)
LiveOnChain(k, C) ==
    /\ k \in Genesis \/ \E u \in C : k \in Outputs[u]
    /\ \A u \in C : k \notin Inputs[u]

(* SpentInputs: an input is flagged when a tx known to the cache spent it. *)
(* Mutant: the cache consults committed spends only, not tentative ones. *)
IsSpentInputCommittedOnly(k) ==
    \E u \in Tx : spentInputs[u] = "Spent" /\ k \in Inputs[u]

IsSpentInput(k) == \E u \in Tx : spentInputs[u] # "None" /\ k \in Inputs[u]

(* Storage::validate_inputs: every input comes from the pool, from an     *)
(* extracted transaction or from the chain, and is not flagged spent.     *)
ValidInputs(t) ==
    \A k \in Inputs[t] :
        /\ \/ \E u \in pool \cup extractedOutputs : k \in Outputs[u]
           \/ LiveOnChain(k, committed)
        /\ ~IsSpentInput(k)

(* t and u are blob transactions with the same blob id.                    *)
SameBlob(t, u) == BlobOf[t] # NoBlob /\ BlobOf[t] = BlobOf[u]

(* check_blob_does_not_exist: the persistent storage already holds t's   *)
(* blob, registered by a committed blob transaction.                      *)
BlobExists(t) == \E u \in committed : SameBlob(t, u)

(* Mutant: the collision index forgets blob ids and keys coins only.      *)
CollisionsNoBlob(t) == {u \in pool : Inputs[u] \cap Inputs[t] # {}}

(* CollisionManager::find_collisions: stored transactions spending one of *)
(* t's coins or registering t's blob id.                                  *)
Collisions(t) == {u \in pool : Inputs[u] \cap Inputs[t] # {} \/ SameBlob(t, u)}

(* tip_a / gas_a > tip_b / gas_b for positive gas, by cross-multiplying.  *)
RatioGreater(tipA, gasA, tipB, gasB) == tipA * gasB > tipB * gasA

(* check_collision_requirements: the newcomer's ratio beats the         *)
(* cumulative ratio of every collided subtree.                            *)
CollisionRequirements(t, col) ==
    \A u \in col :
        RatioGreater(TxTip[t], TxGas[t], TipOf(Subtree(u, pool)),
                     GasOf(Subtree(u, pool)))

(* Mutant: the new transaction's own gas, bytes and count are left out.  *)
FitsIntoPoolWithoutTx(t) ==
    /\ currentGas <= PoolMaxGas
    /\ currentBytes <= PoolMaxBytes
    /\ Cardinality(pool) <= PoolMaxTxs

(* can_fit_into_pool: the pool limits hold with t added.                   *)
FitsIntoPool(t) ==
    /\ currentGas + TxGas[t] <= PoolMaxGas
    /\ currentBytes + TxBytes[t] <= PoolMaxBytes
    /\ Cardinality(pool) + 1 <= PoolMaxTxs

(* get_less_worth_txs: the executable roots in ascending order of their   *)
(* cumulative tip/gas ratio; ties in any order.                           *)
LessWorthOrders ==
    LET n == Cardinality(executable)
        cum == [u \in executable |->
                  <<TipOf(Subtree(u, pool)), GasOf(Subtree(u, pool))>>]
    IN  {s \in [1..n -> executable] :
            /\ IsInjective(s)
            /\ \A i, j \in 1..n :
                 i < j => ~RatioGreater(cum[s[i]][1], cum[s[i]][2],
                                        cum[s[j]][1], cum[s[j]][2])}

(* find_free_space: take roots of ord until the limits hold; every root   *)
(* taken must not be worth more than t.  The freed amounts are the roots' *)
(* cumulative counters, summed, as the loop does.                         *)
FreeSpace(t, ord, k) ==
    LET taken == {ord[i] : i \in 1..k}
        cumGas == [i \in 1..k |-> GasOf(Subtree(ord[i], pool))]
        cumBytes == [i \in 1..k |-> BytesOf(Subtree(ord[i], pool))]
        cumTxs == [i \in 1..k |-> Cardinality(Subtree(ord[i], pool))]
        within(j) ==
            /\ SatSub(currentGas + TxGas[t],
                      SumFunctionOnSet(cumGas, 1..j)) <= PoolMaxGas
            /\ SatSub(currentBytes + TxBytes[t],
                      SumFunctionOnSet(cumBytes, 1..j)) <= PoolMaxBytes
            /\ SatSub(Cardinality(pool) + 1,
                      SumFunctionOnSet(cumTxs, 1..j)) <= PoolMaxTxs
    IN  /\ within(k)
        /\ \A j \in 0..(k - 1) : ~within(j)
        /\ \A u \in taken :
             ~RatioGreater(TipOf(Subtree(u, pool)), GasOf(Subtree(u, pool)),
                           TxTip[t], TxGas[t])

(* update_components_and_caches_on_removal for a removed set R, with     *)
(* pool, counters and the executable set given after the removal.        *)
(* Mutant: removal forgets to subtract the byte size.                     *)
RemoveFromPoolKeepBytes(R) ==
    /\ pool' = pool \ R
    /\ currentGas' = SatSub(currentGas, GasOf(R))
    /\ currentBytes' = currentBytes
    /\ executable' = executable \ R

RemoveFromPool(R) ==
    /\ pool' = pool \ R
    /\ currentGas' = SatSub(currentGas, GasOf(R))
    /\ currentBytes' = SatSub(currentBytes, BytesOf(R))
    /\ executable' = executable \ R

(* Mutant: evictions send no SqueezedOut status.                          *)
SqueezeOutNone(R) == txStatus

SqueezeOut(R) == [u \in Tx |-> IF u \in R THEN "SqueezedOut" ELSE txStatus[u]]

-----------------------------------------------------------------------------
Init ==
    /\ pool = {}
    /\ executable = {}
    /\ currentGas = 0
    /\ currentBytes = 0
    /\ extractedOutputs = {}
    /\ spentInputs = [t \in Tx |-> "None"]
    /\ txStatus = [t \in Tx |-> "None"]
    /\ committed = {}
    /\ inFlight = <<>>
    /\ importQueue = <<>>
    /\ skipQueue = {}
    /\ pc = "idle"
    /\ committing = <<>>
    /\ toPromote = {}
    /\ blocks = 0

-----------------------------------------------------------------------------
(* Pool::insert_inner: remove the subtrees of the roots chosen by        *)
(* find_free_space and of the collided transactions, store t, update the *)
(* counters, make t executable if it has no dependencies, and send       *)
(* Submitted for t and SqueezedOut for every removed transaction.        *)
(* Mutant: the collided subtrees are not evicted.                        *)
InsertInnerKeepsCollided(t, toRemove) ==
    LET removed == SubtreeOfAll(toRemove, pool)
    IN  /\ pool' = (pool \ removed) \cup {t}
        /\ currentGas' = SatSub(currentGas, GasOf(removed)) + TxGas[t]
        /\ currentBytes' = SatSub(currentBytes, BytesOf(removed)) + TxBytes[t]
        /\ executable' = (executable \ removed)
                         \cup (IF AllDependencies(t) = {} THEN {t} ELSE {})
        /\ txStatus' = [SqueezeOut(removed) EXCEPT ![t] = "Submitted"]

InsertInner(t, toRemove) ==
    LET removed == SubtreeOfAll(toRemove \cup Collisions(t), pool)
    IN  /\ pool' = (pool \ removed) \cup {t}
        /\ currentGas' = SatSub(currentGas, GasOf(removed)) + TxGas[t]
        /\ currentBytes' = SatSub(currentBytes, BytesOf(removed)) + TxBytes[t]
        /\ executable' = (executable \ removed)
                         \cup (IF AllDependencies(t) = {} THEN {t} ELSE {})
        /\ txStatus' = [SqueezeOut(removed) EXCEPT ![t] = "Submitted"]

(* The sets of roots can_fit_into_pool and find_free_space may choose to *)
(* remove: none when t fits; otherwise, for a t without dependencies, the *)
(* shortest prefix of a less-worth order after which the limits hold,     *)
(* each root not worth more than t; no choice when t has dependencies.   *)
SpaceFor(t) ==
    IF FitsIntoPool(t)
      THEN {{}}
      ELSE IF AllDependencies(t) # {}
        THEN {}
        ELSE LET free == {c \in LessWorthOrders \X (0..Cardinality(executable)) :
                            FreeSpace(t, c[1], c[2])}
             IN  {{c[1][i] : i \in 1..c[2]} : c \in free}

(* Pool::insert: is_spent_tx and the persistent-duplicate check, then     *)
(* can_insert_transaction (max_gas, duplicate id, blob, inputs, collisions, *)
(* collision-is-dependency, collision requirements, space), then          *)
(* insert_inner.                                                          *)
Insert(t) ==
    /\ pc = "idle"
    /\ spentInputs[t] = "None"
    /\ t \notin committed
    /\ TxGas[t] > 0
    /\ t \notin pool
    /\ ~BlobExists(t)
    /\ ValidInputs(t)
    /\ Collisions(t) \cap AllDependencies(t) = {}
    /\ CollisionRequirements(t, Collisions(t))
    /\ \E toRemove \in SpaceFor(t) : InsertInner(t, toRemove)
    /\ UNCHANGED <<extractedOutputs, spentInputs, committed, inFlight,
                   importQueue, skipQueue, pc, committing, toPromote, blocks>>

(* Sequences gather_best_txs may return: distinct pool transactions,    *)
(* each an executable root or a dependent whose parents come before it,  *)
(* within the block's gas and transaction-count constraints.             *)
Selections ==
    {s \in UNION {[1..n -> pool] : n \in 1..BlockMaxTxs} :
        /\ IsInjective(s)
        /\ GasOf(Range(s)) <= BlockGasLimit
        /\ \A i \in DOMAIN s :
             \/ s[i] \in executable
             \/ /\ Parents(s[i], pool) # {}
                /\ Parents(s[i], pool) \subseteq {s[j] : j \in 1..(i - 1)}}

(* Pool::extract_transactions_for_block: the selection leaves storage    *)
(* (dependents left without parents become executable); each selected   *)
(* tx registers its outputs and tentatively spends its inputs.           *)
(* Mutant: dependents left without a stored parent are not promoted.     *)
ExtractNoPromote ==
    /\ IsProducer
    /\ pc = "idle"
    /\ inFlight = <<>>
    /\ blocks < MaxBlocks
    /\ \E s \in Selections :
         LET sel == Range(s)
         IN  /\ pool' = pool \ sel
             /\ currentGas' = SatSub(currentGas, GasOf(sel))
             /\ currentBytes' = SatSub(currentBytes, BytesOf(sel))
             /\ executable' = executable \ sel
             /\ extractedOutputs' = extractedOutputs \cup sel
             /\ spentInputs' = [u \in Tx |-> IF u \in sel THEN "Maybe"
                                                          ELSE spentInputs[u]]
             /\ inFlight' = s
    /\ UNCHANGED <<txStatus, committed, importQueue, skipQueue, pc,
                   committing, toPromote, blocks>>

Extract ==
    /\ IsProducer
    /\ pc = "idle"
    /\ inFlight = <<>>
    /\ blocks < MaxBlocks
    /\ \E s \in Selections :
         LET sel == Range(s)
             rest == pool \ sel
         IN  /\ pool' = rest
             /\ currentGas' = SatSub(currentGas, GasOf(sel))
             /\ currentBytes' = SatSub(currentBytes, BytesOf(sel))
             /\ executable' =
                  (executable \ sel)
                  \cup {d \in rest : Parents(d, pool) # {}
                                     /\ Parents(d, rest) = {}}
             /\ extractedOutputs' = extractedOutputs \cup sel
             /\ spentInputs' = [u \in Tx |-> IF u \in sel THEN "Maybe"
                                                          ELSE spentInputs[u]]
             /\ inFlight' = s
    /\ UNCHANGED <<txStatus, committed, importQueue, skipQueue, pc,
                   committing, toPromote, blocks>>

(* The transactions of s the executor includes on top of chain C: each   *)
(* not skipped whose inputs are live after the ones included before it,  *)
(* and whose blob id none of those registered.                            *)
Included(s, skip, C) ==
    LET inc[i \in 0..Len(s)] ==
          IF i = 0 THEN {}
          ELSE IF /\ s[i] \notin skip
                  /\ \A k \in Inputs[s[i]] : LiveOnChain(k, C \cup inc[i - 1])
                  /\ \A u \in C \cup inc[i - 1] : ~SameBlob(s[i], u)
               THEN inc[i - 1] \cup {s[i]}
               ELSE inc[i - 1]
    IN  inc[Len(s)]

(* The producer executes and commits the extracted block; the executor   *)
(* may skip any transaction, and a skip is pre-confirmed as SqueezedOut. *)
(* The included set and the committed block's id list are named together *)
(* with the sets they range over.                                         *)
LocalExecute ==
    /\ inFlight # <<>>
    /\ \E skip, inc \in SUBSET Range(inFlight) :
         /\ inc = Included(inFlight, skip, committed)
         /\ committed' = committed \cup inc
         /\ \E blk \in UNION {[1..n -> inc] : n \in 0..Len(inFlight)} :
              /\ blk = SelectSeq(inFlight, LAMBDA u : u \in inc)
              /\ importQueue' = Append(importQueue, blk)
         /\ skipQueue' = skipQueue \cup (Range(inFlight) \ inc)
         /\ txStatus' = SqueezeOut(Range(inFlight) \ inc)
    /\ inFlight' = <<>>
    /\ blocks' = blocks + 1
    /\ UNCHANGED <<pool, executable, currentGas, currentBytes,
                   extractedOutputs, spentInputs, pc, committing, toPromote>>

(* A follower imports a block another node produced: one or two         *)
(* transactions, valid on the chain in their order.                      *)
NetworkBlock ==
    /\ ~IsProducer
    /\ blocks < MaxBlocks
    /\ \E s \in UNION {[1..n -> Tx \ committed] : n \in 1..2} :
         /\ IsInjective(s)
         /\ Included(s, {}, committed) = Range(s)
         /\ committed' = committed \cup Range(s)
         /\ importQueue' = Append(importQueue, s)
    /\ blocks' = blocks + 1
    /\ UNCHANGED <<pool, executable, currentGas, currentBytes,
                   extractedOutputs, spentInputs, txStatus, inFlight,
                   skipQueue, pc, committing, toPromote>>

(* A follower receives the producer's pre-confirmation that t was skipped. *)
PreconfSkip(t) ==
    /\ ~IsProducer
    /\ blocks < MaxBlocks
    /\ t \notin committed
    /\ t \notin skipQueue
    /\ skipQueue' = skipQueue \cup {t}
    /\ blocks' = blocks + 1
    /\ UNCHANGED <<pool, executable, currentGas, currentBytes,
                   extractedOutputs, spentInputs, txStatus, committed,
                   inFlight, importQueue, pc, committing, toPromote>>

(* process_committed_transactions starts on the next imported block; it  *)
(* runs to completion under the pool lock.                               *)
(* Mutant: the whole import queue is taken as the block's id list.        *)
ProcessCommittedWholeQueue ==
    /\ pc = "idle"
    /\ importQueue # <<>>
    /\ pc' = "committing"
    /\ committing' = importQueue
    /\ importQueue' = <<>>
    /\ toPromote' = {}
    /\ UNCHANGED <<pool, executable, currentGas, currentBytes,
                   extractedOutputs, spentInputs, txStatus, committed,
                   inFlight, skipQueue, blocks>>

ProcessCommitted ==
    /\ pc = "idle"
    /\ importQueue # <<>>
    /\ pc' = "committing"
    /\ committing' = Head(importQueue)
    /\ importQueue' = Tail(importQueue)
    /\ toPromote' = {}
    /\ UNCHANGED <<pool, executable, currentGas, currentBytes,
                   extractedOutputs, spentInputs, txStatus, committed,
                   inFlight, skipQueue, blocks>>

(* Mutant: the committed id is removed with its dependent subtree, as     *)
(* remove_transaction_and_dependents_subtree would, and nothing promoted. *)
CommitStepInPoolEvictsSubtree ==
    /\ pc = "committing"
    /\ committing # <<>>
    /\ LET id == Head(committing)
       IN  /\ id \in pool
           /\ RemoveFromPool(Subtree(id, pool))
           /\ extractedOutputs' = extractedOutputs \cup {id}
           /\ spentInputs' = [spentInputs EXCEPT ![id] = "Spent"]
           /\ UNCHANGED toPromote
    /\ committing' = Tail(committing)
    /\ UNCHANGED <<txStatus, committed, inFlight, importQueue, skipQueue,
                   pc, blocks>>

(* One iteration for a committed id still stored: remove the node alone, *)
(* register its outputs, spend its inputs, and queue each direct         *)
(* dependent left without dependencies for promotion.                    *)
CommitStepInPool ==
    /\ pc = "committing"
    /\ committing # <<>>
    /\ LET id == Head(committing)
       IN  /\ id \in pool
           /\ RemoveFromPool({id})
           /\ extractedOutputs' = extractedOutputs \cup {id}
           /\ spentInputs' = [spentInputs EXCEPT ![id] = "Spent"]
           /\ toPromote' =
                toPromote \cup {d \in pool \ {id} :
                                  /\ id \in Parents(d, pool)
                                  /\ Parents(d, pool \ {id}) = {}}
    /\ committing' = Tail(committing)
    /\ UNCHANGED <<txStatus, committed, inFlight, importQueue, skipQueue,
                   pc, blocks>>

(* One iteration for a committed id not stored: spend_inputs_by_tx_id    *)
(* promotes a tentative spend.                                           *)
CommitStepNotInPool ==
    /\ pc = "committing"
    /\ committing # <<>>
    /\ LET id == Head(committing)
       IN  /\ id \notin pool
           /\ spentInputs' = IF spentInputs[id] = "Maybe"
                               THEN [spentInputs EXCEPT ![id] = "Spent"]
                               ELSE spentInputs
    /\ committing' = Tail(committing)
    /\ UNCHANGED <<pool, executable, currentGas, currentBytes,
                   extractedOutputs, txStatus, committed, inFlight,
                   importQueue, skipQueue, pc, toPromote, blocks>>

(* The promotion loop: every queued dependent still stored becomes       *)
(* executable (a missing one trips the debug_assert).                    *)
(* Mutant: the promotion loop is dropped.                                 *)
CommitFinishNoPromote ==
    /\ pc = "committing"
    /\ committing = <<>>
    /\ pc' = "idle"
    /\ toPromote' = {}
    /\ UNCHANGED <<pool, executable, currentGas, currentBytes,
                   extractedOutputs, spentInputs, txStatus, committed,
                   inFlight, importQueue, skipQueue, committing, blocks>>

CommitFinish ==
    /\ pc = "committing"
    /\ committing = <<>>
    /\ executable' = executable \cup (toPromote \cap pool)
    /\ pc' = "idle"
    /\ toPromote' = {}
    /\ UNCHANGED <<pool, currentGas, currentBytes, extractedOutputs,
                   spentInputs, txStatus, committed, inFlight, importQueue,
                   skipQueue, committing, blocks>>

(* Pool::remove_transactions_and_dependents for one id (the service's    *)
(* TTL pruning and the removal of transactions found invalid): the       *)
(* stored subtree is evicted and every evicted tx gets SqueezedOut.       *)
(* Mutant: only the transaction itself is evicted, not its dependents.   *)
RemoveTxAndDependentsNodeOnly(t) ==
    /\ pc = "idle"
    /\ t \in pool
    /\ RemoveFromPool({t})
    /\ txStatus' = SqueezeOut({t})
    /\ UNCHANGED <<extractedOutputs, spentInputs, committed, inFlight,
                   importQueue, skipQueue, pc, committing, toPromote, blocks>>

RemoveTxAndDependents(t) ==
    /\ pc = "idle"
    /\ t \in pool
    /\ LET removed == Subtree(t, pool)
       IN  /\ RemoveFromPool(removed)
           /\ txStatus' = SqueezeOut(removed)
    /\ UNCHANGED <<extractedOutputs, spentInputs, committed, inFlight,
                   importQueue, skipQueue, pc, committing, toPromote, blocks>>

(* Pool::remove_skipped_transaction: evict t's subtree if still stored,  *)
(* clear its extracted outputs, unspend its inputs, then evict the       *)
(* subtree of every stored tx spending one of its coins.                 *)
(* Mutant: the cascade to the spenders of the skipped tx's coins is lost. *)
RemoveSkippedNoCascade(t) ==
    /\ pc = "idle"
    /\ t \in skipQueue
    /\ LET removed == IF t \in pool THEN Subtree(t, pool) ELSE {}
       IN  /\ RemoveFromPool(removed)
           /\ txStatus' = SqueezeOut(removed)
    /\ extractedOutputs' = extractedOutputs \ {t}
    /\ spentInputs' = [spentInputs EXCEPT ![t] = "None"]
    /\ skipQueue' = skipQueue \ {t}
    /\ UNCHANGED <<committed, inFlight, importQueue, pc, committing,
                   toPromote, blocks>>

RemoveSkipped(t) ==
    /\ pc = "idle"
    /\ t \in skipQueue
    /\ LET own == IF t \in pool THEN Subtree(t, pool) ELSE {}
           rest == pool \ own
           coinDependents == {u \in rest : Inputs[u] \cap Outputs[t] # {}}
           removed == own \cup SubtreeOfAll(coinDependents, rest)
       IN  /\ RemoveFromPool(removed)
           /\ txStatus' = SqueezeOut(removed)
    /\ extractedOutputs' = extractedOutputs \ {t}
    /\ spentInputs' = [spentInputs EXCEPT ![t] = "None"]
    /\ skipQueue' = skipQueue \ {t}
    /\ UNCHANGED <<committed, inFlight, importQueue, pc, committing,
                   toPromote, blocks>>

Next ==
    \/ \E t \in Tx : Insert(t)
    \/ Extract
    \/ LocalExecute
    \/ NetworkBlock
    \/ \E t \in Tx : PreconfSkip(t)
    \/ ProcessCommitted
    \/ CommitStepInPool
    \/ CommitStepNotInPool
    \/ CommitFinish
    \/ \E t \in Tx : RemoveSkipped(t)
    \/ \E t \in Tx : RemoveTxAndDependents(t)

Spec == Init /\ [][Next]_vars

-----------------------------------------------------------------------------
(* Type invariant.                                                         *)
TypeOK ==
    /\ pool \subseteq Tx
    /\ executable \subseteq Tx
    /\ currentGas \in Nat
    /\ currentBytes \in Nat
    /\ extractedOutputs \subseteq Tx
    /\ spentInputs \in [Tx -> SpentStates]
    /\ txStatus \in [Tx -> Statuses]
    /\ committed \subseteq Tx
    /\ inFlight \in Seq(Tx)
    /\ importQueue \in Seq(Seq(Tx))
    /\ skipQueue \subseteq Tx
    /\ pc \in {"idle", "committing"}
    /\ committing \in Seq(Tx)
    /\ toPromote \subseteq Tx
    /\ blocks \in Nat

(* The running totals current_gas and current_bytes_size equal the sums  *)
(* over the stored transactions after insert, extraction, commit and     *)
(* skip have each subtracted what they removed (spec 8.1).               *)
CountersMatch ==
    /\ currentGas = GasOf(pool)
    /\ currentBytes = BytesOf(pool)

(* Outside process_committed, the selection algorithm's executable set is *)
(* exactly the stored transactions without a stored parent: extraction,   *)
(* commit promotion and subtree eviction all keep it in step (spec 8.4).  *)
ExecutableIsRoots ==
    pc = "idle" => executable = {t \in pool : Parents(t, pool) = {}}

(* No two transactions of the pool and the block being built spend the    *)
(* same coin: collided subtrees are evicted on insert and the spent-input *)
(* cache rejects what competes with an extracted transaction.             *)
NoConflictingSpends ==
    \A t, u \in pool \cup Range(inFlight) :
        t # u => Inputs[t] \cap Inputs[u] = {}

(* Every parent of a stored transaction is stored, in the block being     *)
(* built, committed, or skipped with the skip not yet processed: the skip *)
(* cascade of remove_skipped_transaction leaves no orphan behind.         *)
NoOrphans ==
    \A t \in pool :
        Parents(t, Tx) \subseteq pool \cup Range(inFlight) \cup committed
                                   \cup skipQueue

(* A transaction whose last status is Submitted is still accounted for:   *)
(* stored, being built into a block, committed, or about to be evicted as  *)
(* skipped; every eviction path sent SqueezedOut for what it removed.     *)
NoSilentDrop ==
    \A t \in Tx :
        txStatus[t] = "Submitted" =>
            t \in pool \cup Range(inFlight) \cup committed \cup skipQueue

(* Every transaction that leaves the pool in a step is accounted for in   *)
(* that step: it moves into the block being built, it is committed, or it *)
(* is sent SqueezedOut.  In particular process_committed removes only the *)
(* committed node (remove_transaction) and promotes its dependents, and   *)
(* every eviction (insert_inner, remove_skipped_transaction, TTL pruning) *)
(* reports each transaction it evicts.                                    *)
RemovalsAccounted ==
    [][\A u \in pool \ pool' :
          u \in Range(inFlight') \cup committed' \/ txStatus'[u] = "SqueezedOut"]_vars

(* The stored transactions stay within the configured limits on gas,     *)
(* bytes and count: an insert is admitted only when it fits, or when     *)
(* find_free_space has evicted enough less-worth subtrees to make room.  *)
PoolWithinLimits ==
    /\ currentGas <= PoolMaxGas
    /\ currentBytes <= PoolMaxBytes
    /\ Cardinality(pool) <= PoolMaxTxs

(* Once every committed block has been processed, no stored transaction *)
(* spends a coin that a committed transaction spent: a pool entry is     *)
(* destroyed on the commit of its tx, and process_committed_transactions *)
(* is the only place where the pool learns of blocks from other nodes.  *)
NoStaleSpend ==
    (pc = "idle" /\ importQueue = <<>>) =>
        \A t \in pool, u \in committed :
            t # u => Inputs[t] \cap Inputs[u] = {}

(* No two stored transactions register the same blob id: the collision   *)
(* manager indexes blob ids, so inserting a blob transaction evicts the   *)
(* stored one with its id, or is refused when that one is worth more.    *)
PoolBlobsUnique == \A t, u \in pool : t # u => ~SameBlob(t, u)

(* A blob id is held by at most one transaction the node knows of: stored, *)
(* extracted into the block being built, or committed.  The spec has     *)
(* insert reject a transaction whose blob id is already known.            *)
BlobIdsUnique ==
    \A t, u \in pool \cup Range(inFlight) \cup committed :
        t # u => ~SameBlob(t, u)

(* When process_committed_transactions reaches its promotion loop, every  *)
(* queued dependent is still stored: the loop's debug_assert!(false, ...)  *)
(* on a missing entry claims this.                                        *)
PromotedStillStored ==
    (pc = "committing" /\ committing = <<>>) => toPromote \subseteq pool

(* The limits hold once t is added and its collided subtrees are removed. *)
FitsAfterCollisions(t) ==
    LET R == SubtreeOfAll(Collisions(t), pool)
    IN  /\ SatSub(currentGas, GasOf(R)) + TxGas[t] <= PoolMaxGas
        /\ SatSub(currentBytes, BytesOf(R)) + TxBytes[t] <= PoolMaxBytes
        /\ Cardinality(pool \ R) + 1 <= PoolMaxTxs

(* The doc comment of can_fit_into_pool: the pool has room when removing  *)
(* the colliding subtree is enough to make space; so an insertion that    *)
(* fits once its collisions are gone evicts nothing but those subtrees.   *)
EvictsOnlyCollided ==
    [][\A t \in pool' \ pool :
          FitsAfterCollisions(t) =>
              pool \ pool' \subseteq SubtreeOfAll(Collisions(t), pool)]_vars

=============================================================================
