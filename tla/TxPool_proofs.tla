--------------------------- MODULE TxPool_proofs ---------------------------
(***************************************************************************)
(* Proofs about the transaction pool model TxPool, for every value of    *)
(* its constants that satisfies ConstAssumption.                          *)
(***************************************************************************)
EXTENDS TxPool, TLAPS

(* A finite function from 1..n is a sequence.                             *)
LEMMA FunIsSeq ==
    ASSUME NEW S, NEW n \in Nat, NEW f \in [1..n -> S]
    PROVE  f \in Seq(S)
OBVIOUS

(* Saturating subtraction stays a natural number.                         *)
LEMMA SatSubNat ==
    ASSUME NEW x \in Nat, NEW y
    PROVE  SatSub(x, y) \in Nat
BY DEF SatSub

-----------------------------------------------------------------------------
(* The strengthening of NoConflictingSpends that is inductive: the block  *)
(* being built is tentatively spent in SpentInputs and disjoint from the  *)
(* pool; on a producing node a skipped transaction not yet processed is   *)
(* neither stored nor in the block and is still flagged spent; a         *)
(* following node never builds a block.                                   *)
SpendsInv ==
    /\ TypeOK
    /\ NoConflictingSpends
    /\ \A u \in Range(inFlight) : spentInputs[u] # "None"
    /\ pool \cap Range(inFlight) = {}
    /\ IsProducer =>
         \A u \in skipQueue :
             /\ spentInputs[u] # "None"
             /\ u \notin pool \cup Range(inFlight)
    /\ ~IsProducer => inFlight = <<>>

(* The strengthening of NoStaleSpend on a producing node: committed     *)
(* transactions are neither stored, in the block being built nor skipped, *)
(* they stay flagged in SpentInputs, and no stored transaction spends a   *)
(* coin one of them spent.                                                 *)
CommittedApart ==
    /\ committed \cap (pool \cup Range(inFlight) \cup skipQueue) = {}
    /\ \A u \in committed : spentInputs[u] # "None"
    /\ \A t \in pool, u \in committed : Inputs[t] \cap Inputs[u] = {}
ChainInv == SpendsInv /\ (IsProducer => CommittedApart)

(* The strengthening of NoSilentDrop: a transaction whose last status is  *)
(* Submitted is stored, in the block being built or committed (a skipped  *)
(* one was sent SqueezedOut by the producer's pre-confirmation or is      *)
(* still stored on a follower), and every id the importer queued for      *)
(* process_committed is committed.                                         *)
DropInv ==
    /\ TypeOK
    /\ \A t \in Tx :
         txStatus[t] = "Submitted" => t \in pool \cup Range(inFlight) \cup committed
    /\ \A i \in DOMAIN importQueue : Range(importQueue[i]) \subseteq committed
    /\ Range(committing) \subseteq committed

(* PoolBlobsUnique with the types it is stated over.                       *)
BlobsInv == TypeOK /\ PoolBlobsUnique

-----------------------------------------------------------------------------
(* One step of the pool, the producer, the executor, the importer or   *)
(* the skip path keeps every variable in its type; in particular the gas *)
(* and byte counters stay natural numbers through the saturating          *)
(* subtractions of every removal path.                                    *)
LEMMA TypeStep == TypeOK /\ [Next]_vars => TypeOK'
<1> SUFFICES ASSUME TypeOK, [Next]_vars PROVE TypeOK'
  OBVIOUS
<1> USE ConstAssumption
<1>1. ASSUME NEW t \in Tx, Insert(t) PROVE TypeOK'
  <2>1. PICK toRemove \in SpaceFor(t) : InsertInner(t, toRemove)
    BY <1>1 DEF Insert
  <2> DEFINE R == SubtreeOfAll(toRemove \cup Collisions(t), pool)
  <2>2. /\ pool' = (pool \ R) \cup {t}
        /\ currentGas' = SatSub(currentGas, GasOf(R)) + TxGas[t]
        /\ currentBytes' = SatSub(currentBytes, BytesOf(R)) + TxBytes[t]
        /\ executable' \subseteq executable \cup {t}
        /\ txStatus' = [SqueezeOut(R) EXCEPT ![t] = "Submitted"]
    BY <2>1 DEF InsertInner
  <2>3. pool' \subseteq Tx /\ executable' \subseteq Tx
    BY <2>2 DEF TypeOK
  <2>4. SatSub(currentGas, GasOf(R)) \in Nat
        /\ SatSub(currentBytes, BytesOf(R)) \in Nat
    BY SatSubNat DEF TypeOK
  <2>5. currentGas' \in Nat /\ currentBytes' \in Nat
    BY <2>2, <2>4
  <2>6. SqueezeOut(R) \in [Tx -> Statuses]
    BY DEF TypeOK, SqueezeOut, Statuses
  <2>7. txStatus' \in [Tx -> Statuses]
    BY <2>2, <2>6, Zenon DEF Statuses
  <2>8. UNCHANGED <<extractedOutputs, spentInputs, committed, inFlight,
                    importQueue, skipQueue, pc, committing, toPromote, blocks>>
    BY <1>1 DEF Insert
  <2> QED
    BY Zenon, <2>3, <2>5, <2>7, <2>8 DEF TypeOK
<1>2. CASE Extract
  <2>1. PICK s \in Selections :
              /\ pool' = pool \ Range(s)
              /\ currentGas' = SatSub(currentGas, GasOf(Range(s)))
              /\ currentBytes' = SatSub(currentBytes, BytesOf(Range(s)))
              /\ executable' \subseteq executable \cup pool
              /\ extractedOutputs' = extractedOutputs \cup Range(s)
              /\ spentInputs' = [u \in Tx |-> IF u \in Range(s) THEN "Maybe"
                                                          ELSE spentInputs[u]]
              /\ inFlight' = s
    BY <1>2 DEF Extract
  <2>2. PICK n \in 1..BlockMaxTxs : s \in [1..n -> pool]
    BY <2>1 DEF Selections
  <2>3. s \in [1..n -> Tx] /\ n \in Nat
    BY <2>2 DEF TypeOK
  <2>4. s \in Seq(Tx) /\ Range(s) \subseteq Tx
    BY <2>3, FunIsSeq DEF Range
  <2>5. currentGas' \in Nat /\ currentBytes' \in Nat
    BY <2>1, SatSubNat DEF TypeOK
  <2>6. spentInputs' \in [Tx -> SpentStates]
    BY <2>1 DEF TypeOK, SpentStates
  <2>7. UNCHANGED <<txStatus, committed, importQueue, skipQueue, pc,
                    committing, toPromote, blocks>>
    BY <1>2 DEF Extract
  <2> QED
    BY SMTT(30), <2>1, <2>4, <2>5, <2>6, <2>7 DEF TypeOK
<1>3. CASE LocalExecute
  <2>1. PICK inc \in SUBSET Range(inFlight) :
              /\ committed' = committed \cup inc
              /\ \E blk \in UNION {[1..n -> inc] : n \in 0..Len(inFlight)} :
                   importQueue' = Append(importQueue, blk)
              /\ skipQueue' = skipQueue \cup (Range(inFlight) \ inc)
              /\ txStatus' = SqueezeOut(Range(inFlight) \ inc)
    BY <1>3, Zenon DEF LocalExecute
  <2>2. Range(inFlight) \subseteq Tx
    BY DEF TypeOK, Range
  <2>3. PICK blk \in UNION {[1..n -> inc] : n \in 0..Len(inFlight)} :
              importQueue' = Append(importQueue, blk)
    BY <2>1, Zenon
  <2>4. PICK n \in 0..Len(inFlight) : blk \in [1..n -> inc]
    BY <2>3, Zenon
  <2>5. blk \in Seq(Tx)
    <3>1. n \in Nat
      BY <2>4 DEF TypeOK
    <3>2. blk \in [1..n -> Tx]
      BY <2>1, <2>2, <2>4
    <3> QED
      BY <3>1, <3>2, FunIsSeq
  <2>6. importQueue' \in Seq(Seq(Tx))
    BY <2>3, <2>5 DEF TypeOK
  <2>7. txStatus' \in [Tx -> Statuses]
    BY <2>1 DEF TypeOK, SqueezeOut, Statuses
  <2>8. /\ inFlight' = <<>>
        /\ blocks' = blocks + 1
        /\ UNCHANGED <<pool, executable, currentGas, currentBytes,
                       extractedOutputs, spentInputs, pc, committing,
                       toPromote>>
    BY <1>3 DEF LocalExecute
  <2>9. committed' \subseteq Tx /\ skipQueue' \subseteq Tx
    BY <2>1, <2>2, Zenon DEF TypeOK
  <2>10. blocks' \in Nat
    BY <2>8 DEF TypeOK
  <2> QED
    BY <2>6, <2>7, <2>8, <2>9, <2>10 DEF TypeOK
<1>4. CASE NetworkBlock
  <2>1. PICK s \in UNION {[1..n -> Tx \ committed] : n \in 1..2} :
              /\ committed' = committed \cup Range(s)
              /\ importQueue' = Append(importQueue, s)
    BY <1>4 DEF NetworkBlock
  <2>2. PICK n \in 1..2 : s \in [1..n -> Tx \ committed]
    BY <2>1
  <2>3. s \in [1..n -> Tx] /\ n \in Nat
    BY <2>2
  <2>4. s \in Seq(Tx) /\ Range(s) \subseteq Tx
    BY <2>3, FunIsSeq DEF Range
  <2>5. /\ blocks' = blocks + 1
        /\ UNCHANGED <<pool, executable, currentGas, currentBytes,
                       extractedOutputs, spentInputs, txStatus, inFlight,
                       skipQueue, pc, committing, toPromote>>
    BY <1>4 DEF NetworkBlock
  <2> QED
    BY <2>1, <2>4, <2>5 DEF TypeOK
<1>5. ASSUME NEW t \in Tx, PreconfSkip(t) PROVE TypeOK'
  BY <1>5 DEF PreconfSkip, TypeOK
<1>6. CASE ProcessCommitted
  BY SMTT(30), <1>6 DEF ProcessCommitted, TypeOK
<1>7. CASE CommitStepInPool
  <2>1. Head(committing) \in Tx
    BY <1>7 DEF CommitStepInPool, TypeOK
  <2>2. /\ SatSub(currentGas, GasOf({Head(committing)})) \in Nat
        /\ SatSub(currentBytes, BytesOf({Head(committing)})) \in Nat
    BY SatSubNat DEF TypeOK
  <2>3. Tail(committing) \in Seq(Tx)
    BY <1>7 DEF CommitStepInPool, TypeOK
  <2>4. pool' = pool \ {Head(committing)}
        /\ executable' = executable \ {Head(committing)}
    BY <1>7 DEF CommitStepInPool, RemoveFromPool
  <2>9. pool' \subseteq Tx /\ executable' \subseteq Tx
    BY <2>4 DEF TypeOK
  <2>5. currentGas' \in Nat /\ currentBytes' \in Nat
    BY <1>7, <2>2 DEF CommitStepInPool, RemoveFromPool
  <2>6. extractedOutputs' \subseteq Tx /\ toPromote' \subseteq Tx
    BY SMTT(30), <1>7, <2>1 DEF CommitStepInPool, TypeOK
  <2>7. spentInputs' \in [Tx -> SpentStates]
    BY <1>7, <2>1 DEF CommitStepInPool, TypeOK, SpentStates
  <2>8. UNCHANGED <<txStatus, committed, inFlight, importQueue, skipQueue,
                    pc, blocks>> /\ committing' = Tail(committing)
    BY <1>7 DEF CommitStepInPool
  <2> QED
    BY Zenon, <2>3, <2>9, <2>5, <2>6, <2>7, <2>8 DEF TypeOK
<1>8. CASE CommitStepNotInPool
  <2>1. Head(committing) \in Tx
    BY <1>8 DEF CommitStepNotInPool, TypeOK
  <2>2. spentInputs' \in [Tx -> SpentStates]
    <3>1. spentInputs' = IF spentInputs[Head(committing)] = "Maybe"
                           THEN [spentInputs EXCEPT ![Head(committing)] = "Spent"]
                           ELSE spentInputs
      BY <1>8 DEF CommitStepNotInPool
    <3> QED
      BY <2>1, <3>1 DEF TypeOK, SpentStates
  <2>3. committing' = Tail(committing) /\ committing # <<>>
    BY <1>8 DEF CommitStepNotInPool
  <2>4. committing' \in Seq(Tx)
    BY <2>3 DEF TypeOK
  <2>5. UNCHANGED <<pool, executable, currentGas, currentBytes,
                    extractedOutputs, txStatus, committed, inFlight,
                    importQueue, skipQueue, pc, toPromote, blocks>>
    BY <1>8 DEF CommitStepNotInPool
  <2> QED
    BY <2>2, <2>4, <2>5 DEF TypeOK
<1>9. CASE CommitFinish
  BY <1>9 DEF CommitFinish, TypeOK
<1>10. ASSUME NEW t \in Tx, RemoveSkipped(t) PROVE TypeOK'
  BY <1>10, SatSubNat DEF RemoveSkipped, RemoveFromPool, SqueezeOut, TypeOK,
     SpentStates, Statuses
<1>11. ASSUME NEW t \in Tx, RemoveTxAndDependents(t) PROVE TypeOK'
  BY SMTT(30), <1>11, SatSubNat DEF RemoveTxAndDependents, RemoveFromPool, SqueezeOut,
     TypeOK, Statuses
<1>12. CASE UNCHANGED vars
  BY <1>12 DEF vars, TypeOK
<1> QED
  BY <1>1, <1>2, <1>3, <1>4, <1>5, <1>6, <1>7, <1>8, <1>9, <1>10, <1>11,
     <1>12 DEF Next

(* Type correctness: in every reachable state of the pool and the nodes *)
(* driving it, every variable has its type.                               *)
THEOREM TypeCorrect == Spec => []TypeOK
<1>1. Init => TypeOK
  BY DEF Init, TypeOK, SpentStates, Statuses
<1> QED
  BY <1>1, TypeStep, PTL DEF Spec

-----------------------------------------------------------------------------
(* The empty block in flight has no transactions.                         *)
LEMMA RangeEmpty == Range(<<>>) = {}
BY DEF Range

(* The transactions of the block in flight are transactions.            *)
LEMMA InFlightTx == TypeOK => Range(inFlight) \subseteq Tx
BY DEF TypeOK, Range

(* Evicting the subtrees of R evicts R itself.                            *)
LEMMA RootsInSubtrees ==
    ASSUME NEW R, NEW S, R \subseteq S
    PROVE  R \subseteq SubtreeOfAll(R, S)
<1>1. \A u \in R : u \in Subtree(u, S)
  BY Zenon DEF Subtree
<1> QED
  BY <1>1, Zenon DEF SubtreeOfAll

(* insert_inner evicts every collided transaction.                        *)
LEMMA CollisionsEvicted ==
    ASSUME NEW t, NEW toRemove
    PROVE  Collisions(t) \subseteq SubtreeOfAll(toRemove \cup Collisions(t), pool)
<1>1. Collisions(t) \subseteq pool
  BY DEF Collisions
<1>2. Collisions(t) \subseteq SubtreeOfAll(Collisions(t), pool)
  BY <1>1, RootsInSubtrees
<1> QED
  BY <1>2, Zenon DEF SubtreeOfAll

(* A step that only shrinks the pool and the skip set, keeps the block in *)
(* flight and never clears a spent-input flag keeps SpendsInv.            *)
LEMMA ShrinkStep ==
    ASSUME SpendsInv, TypeOK',
           pool' \subseteq pool, inFlight' = inFlight,
           skipQueue' \subseteq skipQueue,
           \A u \in Tx : spentInputs[u] # "None" => spentInputs'[u] # "None"
    PROVE  SpendsInv'
<1>1. Range(inFlight) \subseteq Tx
  BY InFlightTx DEF SpendsInv
<1>2. NoConflictingSpends'
  BY DEF SpendsInv, NoConflictingSpends
<1>3. \A u \in Range(inFlight') : spentInputs'[u] # "None"
  BY <1>1 DEF SpendsInv
<1>4. IsProducer =>
        \A u \in skipQueue' :
            /\ spentInputs'[u] # "None"
            /\ u \notin pool' \cup Range(inFlight')
  BY DEF SpendsInv, TypeOK
<1> QED
  BY <1>2, <1>3, <1>4 DEF SpendsInv

(* Insert keeps SpendsInv: every collided transaction is evicted with its *)
(* subtree, and the spent-input cache rejects a transaction competing     *)
(* with one of the block in flight or one skipped and not yet processed.  *)
LEMMA InsertStep ==
    ASSUME SpendsInv, TypeOK', NEW t \in Tx, Insert(t)
    PROVE  SpendsInv'
<1> USE ConstAssumption
<1>1. PICK toRemove \in SpaceFor(t) : InsertInner(t, toRemove)
  BY DEF Insert
<1> DEFINE R == SubtreeOfAll(toRemove \cup Collisions(t), pool)
<1>2. pool' = (pool \ R) \cup {t}
  BY <1>1 DEF InsertInner
<1>3. UNCHANGED <<spentInputs, inFlight, skipQueue>>
  BY DEF Insert
<1>4. spentInputs[t] = "None" /\ ValidInputs(t)
  BY DEF Insert
<1>5. Range(inFlight) \subseteq Tx
  BY InFlightTx DEF SpendsInv
<1>6. Collisions(t) \subseteq R
  BY Zenon, CollisionsEvicted
<1>7. t \notin pool \cup Range(inFlight)
  BY <1>4 DEF Insert, SpendsInv
<1>8. ASSUME NEW u \in pool \ R PROVE Inputs[t] \cap Inputs[u] = {}
  BY <1>6, <1>8 DEF Collisions
<1>9. ASSUME NEW u \in Range(inFlight) PROVE Inputs[t] \cap Inputs[u] = {}
  <2>1. spentInputs[u] # "None" /\ u \in Tx
    BY <1>5 DEF SpendsInv
  <2>2. \A k \in Inputs[t] : ~IsSpentInput(k)
    BY <1>4 DEF ValidInputs
  <2> QED
    BY <2>1, <2>2 DEF IsSpentInput
<1>10. NoConflictingSpends'
  <2> SUFFICES ASSUME NEW x \in pool' \cup Range(inFlight'),
                      NEW y \in pool' \cup Range(inFlight'), x # y
               PROVE  Inputs[x] \cap Inputs[y] = {}
    BY DEF NoConflictingSpends
  <2>1. CASE x = t
    BY Zenon, <1>2, <1>3, <1>8, <1>9, <2>1
  <2>2. CASE y = t
    BY Zenon, <1>2, <1>3, <1>8, <1>9, <2>2
  <2>3. CASE x # t /\ y # t
    BY <1>2, <1>3, <2>3 DEF SpendsInv, NoConflictingSpends
  <2> QED
    BY <2>1, <2>2, <2>3
<1>11. \A u \in skipQueue : IsProducer => u # t
  BY <1>4 DEF SpendsInv
<1> QED
  BY <1>2, <1>3, <1>7, <1>10, <1>11 DEF SpendsInv

(* Extract keeps SpendsInv: the selection leaves the pool as the new      *)
(* block, each selected transaction flagged as tentatively spent.         *)
LEMMA ExtractStep ==
    ASSUME SpendsInv, TypeOK', Extract
    PROVE  SpendsInv'
<1>1. PICK s \in Selections :
            /\ pool' = pool \ Range(s)
            /\ spentInputs' = [u \in Tx |-> IF u \in Range(s) THEN "Maybe"
                                                        ELSE spentInputs[u]]
            /\ inFlight' = s
  BY DEF Extract
<1>2. Range(s) \subseteq pool
  BY DEF Selections, Range
<1>3. inFlight = <<>> /\ IsProducer /\ UNCHANGED skipQueue
  BY DEF Extract
<1>4. Range(inFlight) = {}
  BY <1>3, RangeEmpty
<1>5. pool' \cup Range(inFlight') \subseteq pool
  BY <1>1, <1>2
<1>6. Range(s) \subseteq Tx
  BY <1>2 DEF SpendsInv, TypeOK
<1>7. NoConflictingSpends'
  BY <1>4, <1>5 DEF SpendsInv, NoConflictingSpends
<1>8. \A u \in Range(inFlight') : spentInputs'[u] # "None"
  BY <1>1, <1>6
<1>9. \A u \in skipQueue' :
          /\ spentInputs'[u] # "None"
          /\ u \notin pool' \cup Range(inFlight')
  BY <1>1, <1>2, <1>3, <1>4 DEF SpendsInv, TypeOK
<1> QED
  BY <1>1, <1>3, <1>7, <1>8, <1>9 DEF SpendsInv

(* LocalExecute keeps SpendsInv: the block leaves flight and its skipped  *)
(* transactions, still flagged and not stored, join the skip set.         *)
LEMMA LocalExecuteStep ==
    ASSUME SpendsInv, TypeOK', LocalExecute
    PROVE  SpendsInv'
<1>1. PICK inc \in SUBSET Range(inFlight) :
            skipQueue' = skipQueue \cup (Range(inFlight) \ inc)
  BY Zenon DEF LocalExecute
<1>2. /\ inFlight' = <<>>
      /\ UNCHANGED <<pool, spentInputs>>
  BY DEF LocalExecute
<1>3. Range(inFlight') = {}
  BY <1>2, RangeEmpty
<1>4. NoConflictingSpends'
  BY <1>2, <1>3 DEF SpendsInv, NoConflictingSpends
<1>5. IsProducer =>
        \A u \in skipQueue' : spentInputs'[u] # "None" /\ u \notin pool'
  BY <1>1, <1>2 DEF SpendsInv
<1>6. /\ \A u \in Range(inFlight') : spentInputs'[u] # "None"
      /\ pool' \cap Range(inFlight') = {}
  BY <1>3
<1>7. IsProducer =>
        \A u \in skipQueue' :
            /\ spentInputs'[u] # "None"
            /\ u \notin pool' \cup Range(inFlight')
  BY <1>3, <1>5
<1> QED
  BY <1>2, <1>4, <1>6, <1>7 DEF SpendsInv

(* remove_skipped_transaction keeps SpendsInv: on a producing node the    *)
(* unflagged transaction is neither in flight nor stored any more; a      *)
(* following node has no block in flight.                                 *)
LEMMA RemoveSkippedStep ==
    ASSUME SpendsInv, TypeOK', NEW t \in Tx, RemoveSkipped(t)
    PROVE  SpendsInv'
<1>1. /\ pool' \subseteq pool
      /\ spentInputs' = [spentInputs EXCEPT ![t] = "None"]
      /\ skipQueue' = skipQueue \ {t}
      /\ UNCHANGED inFlight
      /\ t \in skipQueue
  BY DEF RemoveSkipped, RemoveFromPool
<1>2. Range(inFlight) \subseteq Tx
  BY InFlightTx DEF SpendsInv
<1>3. t \notin Range(inFlight)
  <2>1. CASE IsProducer
    BY <1>1, <2>1 DEF SpendsInv
  <2>2. CASE ~IsProducer
    BY <2>2, RangeEmpty DEF SpendsInv
  <2> QED
    BY <2>1, <2>2
<1>4. NoConflictingSpends'
  BY <1>1 DEF SpendsInv, NoConflictingSpends
<1>5. \A u \in Range(inFlight') : spentInputs'[u] # "None"
  BY <1>1, <1>2, <1>3 DEF SpendsInv, TypeOK
<1>6. IsProducer =>
        \A u \in skipQueue' :
            /\ spentInputs'[u] # "None"
            /\ u \notin pool' \cup Range(inFlight')
  BY <1>1 DEF SpendsInv, TypeOK
<1> QED
  BY SMTT(30), <1>1, <1>4, <1>5, <1>6 DEF SpendsInv

(* SpendsInv is inductive.                                                 *)
LEMMA SpendsStep == SpendsInv /\ [Next]_vars => SpendsInv'
<1> SUFFICES ASSUME SpendsInv, [Next]_vars PROVE SpendsInv'
  OBVIOUS
<1>0. TypeOK'
  BY TypeStep DEF SpendsInv
<1>1. ASSUME NEW t \in Tx, Insert(t) PROVE SpendsInv'
  BY <1>0, <1>1, InsertStep
<1>2. CASE Extract
  BY <1>0, <1>2, ExtractStep
<1>3. CASE LocalExecute
  BY <1>0, <1>3, LocalExecuteStep
<1>4. CASE NetworkBlock
  BY <1>0, <1>4, ShrinkStep DEF NetworkBlock
<1>5. ASSUME NEW t \in Tx, PreconfSkip(t) PROVE SpendsInv'
  BY <1>0, <1>5 DEF PreconfSkip, SpendsInv, NoConflictingSpends
<1>6. CASE ProcessCommitted
  BY <1>0, <1>6, ShrinkStep DEF ProcessCommitted
<1>7. CASE CommitStepInPool
  <2>1. /\ pool' \subseteq pool
        /\ spentInputs' = [spentInputs EXCEPT ![Head(committing)] = "Spent"]
        /\ UNCHANGED <<inFlight, skipQueue>>
    BY <1>7 DEF CommitStepInPool, RemoveFromPool
  <2> QED
    BY Zenon, <1>0, <2>1, ShrinkStep DEF SpendsInv, TypeOK
<1>8. CASE CommitStepNotInPool
  <2>1. /\ spentInputs' = IF spentInputs[Head(committing)] = "Maybe"
                            THEN [spentInputs EXCEPT ![Head(committing)] = "Spent"]
                            ELSE spentInputs
        /\ UNCHANGED <<pool, inFlight, skipQueue>>
    BY <1>8 DEF CommitStepNotInPool
  <2> QED
    BY SMTT(30), <1>0, <2>1, ShrinkStep DEF SpendsInv, TypeOK
<1>9. CASE CommitFinish
  BY <1>0, <1>9, ShrinkStep DEF CommitFinish
<1>10. ASSUME NEW t \in Tx, RemoveSkipped(t) PROVE SpendsInv'
  BY <1>0, <1>10, RemoveSkippedStep
<1>11. ASSUME NEW t \in Tx, RemoveTxAndDependents(t) PROVE SpendsInv'
  BY <1>0, <1>11, ShrinkStep DEF RemoveTxAndDependents, RemoveFromPool
<1>12. CASE UNCHANGED vars
  BY <1>12 DEF vars, SpendsInv, TypeOK, NoConflictingSpends
<1> QED
  BY <1>1, <1>2, <1>3, <1>4, <1>5, <1>6, <1>7, <1>8, <1>9, <1>10, <1>11,
     <1>12 DEF Next

(* No two transactions of the pool and the block being built spend the    *)
(* same coin, whatever the limits, the transactions and their coins: the  *)
(* collision eviction of Pool::insert and the SpentInputs cache together  *)
(* rule out a double spend in what the producer can select.               *)
THEOREM NoConflictingSpendsHolds == Spec => []NoConflictingSpends
<1>1. Init => SpendsInv
  BY RangeEmpty DEF Init, SpendsInv, TypeOK, NoConflictingSpends,
     SpentStates, Statuses
<1>2. SpendsInv => NoConflictingSpends
  BY SMTT(30) DEF SpendsInv
<1> QED
  BY <1>1, <1>2, SpendsStep, PTL DEF Spec

-----------------------------------------------------------------------------
(* Only insert adds to the pool: every other step of the pool, the block  *)
(* producer, the executor, the importer and the skip path keeps it or    *)
(* removes from it.                                                       *)
LEMMA PoolShrinks ==
    ASSUME [Next]_vars, ~\E t \in Tx : Insert(t)
    PROVE  pool' \subseteq pool
<1>1. CASE Extract
  BY <1>1 DEF Extract
<1>2. CASE CommitStepInPool
  BY SMTT(30), <1>2 DEF CommitStepInPool, RemoveFromPool
<1>3. ASSUME NEW t \in Tx, RemoveSkipped(t) PROVE pool' \subseteq pool
  BY Zenon, <1>3 DEF RemoveSkipped, RemoveFromPool
<1>4. ASSUME NEW t \in Tx, RemoveTxAndDependents(t) PROVE pool' \subseteq pool
  BY <1>4 DEF RemoveTxAndDependents, RemoveFromPool
<1> QED
  BY Zenon, <1>1, <1>2, <1>3, <1>4 DEF Next, vars, LocalExecute, NetworkBlock,
     PreconfSkip, ProcessCommitted, CommitStepNotInPool, CommitFinish

(* Insert keeps the blob ids of the pool distinct: a stored transaction   *)
(* with the newcomer's blob id is a collision, and is evicted.            *)
LEMMA BlobsInsertStep ==
    ASSUME BlobsInv, NEW t \in Tx, Insert(t)
    PROVE  PoolBlobsUnique'
<1>1. PICK toRemove \in SpaceFor(t) : InsertInner(t, toRemove)
  BY DEF Insert
<1> DEFINE R == SubtreeOfAll(toRemove \cup Collisions(t), pool)
<1>2. pool' = (pool \ R) \cup {t}
  BY <1>1 DEF InsertInner
<1>3. \A u \in pool \ R : ~SameBlob(t, u) /\ ~SameBlob(u, t)
  BY Zenon, CollisionsEvicted DEF Collisions, SameBlob
<1> QED
  BY <1>2, <1>3 DEF BlobsInv, PoolBlobsUnique

(* BlobsInv is inductive.                                                  *)
LEMMA BlobsStep == BlobsInv /\ [Next]_vars => BlobsInv'
<1> SUFFICES ASSUME BlobsInv, [Next]_vars PROVE BlobsInv'
  OBVIOUS
<1>1. TypeOK'
  BY TypeStep DEF BlobsInv
<1>2. CASE \E t \in Tx : Insert(t)
  BY <1>1, <1>2, BlobsInsertStep DEF BlobsInv
<1>3. CASE ~\E t \in Tx : Insert(t)
  BY <1>1, <1>3, PoolShrinks DEF BlobsInv, PoolBlobsUnique
<1> QED
  BY <1>2, <1>3

(* No two stored transactions register the same blob id, for every pool  *)
(* configuration and assignment of blob ids: the collision manager       *)
(* indexes blob ids, and every step other than insert only removes       *)
(* transactions from the pool.                                            *)
THEOREM PoolBlobsUniqueHolds == Spec => []PoolBlobsUnique
<1>1. Init => BlobsInv
  BY DEF Init, BlobsInv, TypeOK, PoolBlobsUnique, SpentStates, Statuses
<1>2. BlobsInv => PoolBlobsUnique
  BY DEF BlobsInv
<1> QED
  BY <1>1, <1>2, BlobsStep, PTL DEF Spec

-----------------------------------------------------------------------------
(* The ids still to be processed after the head is taken are among the   *)
(* ids before.                                                            *)
LEMMA RangeTail ==
    ASSUME NEW S, NEW q \in Seq(S), q # <<>>
    PROVE  /\ Head(q) \in Range(q)
           /\ Range(Tail(q)) \subseteq Range(q)
<1>1. Head(q) = q[1] /\ 1 \in DOMAIN q
  BY SMTT(30)
<1>2. \A i \in DOMAIN Tail(q) : Tail(q)[i] = q[i + 1] /\ i + 1 \in DOMAIN q
  BY SMTT(30)
<1>3. Head(q) \in Range(q)
  BY <1>1 DEF Range
<1>4. ASSUME NEW x \in Range(Tail(q)) PROVE x \in Range(q)
  <2>1. PICK i \in DOMAIN Tail(q) : x = Tail(q)[i]
    BY Zenon, <1>4 DEF Range
  <2>2. x = q[i + 1] /\ i + 1 \in DOMAIN q
    BY <1>2, <2>1
  <2> QED
    BY Zenon, <2>2 DEF Range
<1> QED
  BY <1>3, <1>4

(* Appending a block whose ids are committed keeps every queued block    *)
(* committed.                                                             *)
LEMMA AppendCommitted ==
    ASSUME NEW S, NEW C, NEW q \in Seq(Seq(S)), NEW blk \in Seq(S),
           \A i \in DOMAIN q : Range(q[i]) \subseteq C,
           Range(blk) \subseteq C
    PROVE  \A i \in DOMAIN Append(q, blk) : Range(Append(q, blk)[i]) \subseteq C
<1> SUFFICES ASSUME NEW i \in DOMAIN Append(q, blk)
             PROVE  Range(Append(q, blk)[i]) \subseteq C
  OBVIOUS
<1>1. CASE i \in 1..Len(q)
  <2>1. Append(q, blk)[i] = q[i] /\ i \in DOMAIN q
    BY <1>1
  <2> QED
    BY <2>1
<1>2. CASE i = Len(q) + 1
  <2>1. Append(q, blk)[i] = blk
    BY <1>2
  <2> QED
    BY <2>1
<1> QED
  BY <1>1, <1>2

(* Evicting R with a SqueezedOut for each of its transactions, and      *)
(* nothing else that DropInv is about, keeps DropInv.                     *)
LEMMA EvictStep ==
    ASSUME DropInv, TypeOK', NEW R,
           pool' = pool \ R, txStatus' = SqueezeOut(R),
           UNCHANGED <<inFlight, committed, importQueue, committing>>
    PROVE  DropInv'
<1>1. \A t \in Tx : txStatus'[t] = "Submitted" => t \notin R /\ txStatus[t] = "Submitted"
  BY DEF SqueezeOut
<1> QED
  BY <1>1 DEF DropInv

(* Insert keeps DropInv: the newcomer is stored and Submitted, every     *)
(* evicted transaction is sent SqueezedOut.                               *)
LEMMA DropInsertStep ==
    ASSUME DropInv, TypeOK', NEW t \in Tx, Insert(t)
    PROVE  DropInv'
<1>1. PICK toRemove \in SpaceFor(t) : InsertInner(t, toRemove)
  BY Zenon DEF Insert
<1> DEFINE R == SubtreeOfAll(toRemove \cup Collisions(t), pool)
<1>2. /\ pool' = (pool \ R) \cup {t}
      /\ txStatus' = [SqueezeOut(R) EXCEPT ![t] = "Submitted"]
  BY Zenon, <1>1 DEF InsertInner
<1>3. UNCHANGED <<inFlight, committed, importQueue, committing>>
  BY Zenon DEF Insert
<1>4. ASSUME NEW x \in Tx, txStatus'[x] = "Submitted"
      PROVE  x \in pool' \cup Range(inFlight') \cup committed'
  <2>1. CASE x = t
    BY <1>2, <2>1
  <2>2. CASE x # t
    <3>1. x \notin R /\ txStatus[x] = "Submitted"
      BY Zenon, <1>2, <1>4, <2>2 DEF SqueezeOut, DropInv, TypeOK
    <3> QED
      BY <1>2, <1>3, <3>1 DEF DropInv
  <2> QED
    BY <2>1, <2>2
<1> QED
  BY <1>3, <1>4 DEF DropInv

(* Extract keeps DropInv: what leaves the pool is the block in flight.    *)
LEMMA DropExtractStep ==
    ASSUME DropInv, TypeOK', Extract
    PROVE  DropInv'
<1>1. PICK s \in Selections :
            /\ pool' = pool \ Range(s)
            /\ inFlight' = s
  BY DEF Extract
<1>2. UNCHANGED <<txStatus, committed, importQueue, committing>>
  BY DEF Extract
<1>3. pool \subseteq pool' \cup Range(inFlight')
  BY <1>1
<1>4. Range(inFlight) = {}
  BY RangeEmpty DEF Extract
<1> QED
  BY <1>2, <1>3, <1>4 DEF DropInv

(* LocalExecute keeps DropInv: a transaction of the block is either      *)
(* included, hence committed and queued in the committed block, or        *)
(* skipped and pre-confirmed SqueezedOut.                                 *)
LEMMA DropLocalExecuteStep ==
    ASSUME DropInv, TypeOK', LocalExecute
    PROVE  DropInv'
<1>1. PICK inc \in SUBSET Range(inFlight) :
            /\ committed' = committed \cup inc
            /\ \E blk \in UNION {[1..n -> inc] : n \in 0..Len(inFlight)} :
                 importQueue' = Append(importQueue, blk)
            /\ txStatus' = SqueezeOut(Range(inFlight) \ inc)
  BY ZenonT(30) DEF LocalExecute
<1>2. UNCHANGED <<pool, committing>>
  BY Zenon DEF LocalExecute
<1>3. ASSUME NEW x \in Tx, txStatus'[x] = "Submitted"
      PROVE  x \in pool' \cup Range(inFlight') \cup committed'
  <2>1. x \notin Range(inFlight) \ inc /\ txStatus[x] = "Submitted"
    BY <1>1, <1>3 DEF SqueezeOut
  <2> QED
    BY <1>1, <1>2, <2>1 DEF DropInv
<1>4. PICK blk \in UNION {[1..n -> inc] : n \in 0..Len(inFlight)} :
            importQueue' = Append(importQueue, blk)
  BY <1>1, Zenon
<1>5. PICK n \in 0..Len(inFlight) : blk \in [1..n -> inc]
  BY <1>4, Zenon
<1>6. Range(inFlight) \subseteq Tx
  BY InFlightTx DEF DropInv
<1>7. blk \in Seq(Tx) /\ Range(blk) \subseteq committed'
  <2>1. n \in Nat /\ blk \in [1..n -> Tx]
    BY <1>5, <1>6 DEF DropInv, TypeOK
  <2>2. blk \in Seq(Tx)
    BY <2>1, FunIsSeq
  <2>3. Range(blk) \subseteq inc
    BY <1>5 DEF Range
  <2> QED
    BY <1>1, <2>2, <2>3
<1>8. \A i \in DOMAIN importQueue' : Range(importQueue'[i]) \subseteq committed'
  <2>1. \A i \in DOMAIN importQueue : Range(importQueue[i]) \subseteq committed'
    BY <1>1 DEF DropInv
  <2> QED
    BY SMTT(30), <1>4, <1>7, <2>1, AppendCommitted DEF DropInv, TypeOK
<1> QED
  BY Zenon, <1>1, <1>2, <1>3, <1>8 DEF DropInv

(* A follower's imported block is committed as it is queued.              *)
LEMMA DropNetworkBlockStep ==
    ASSUME DropInv, TypeOK', NetworkBlock
    PROVE  DropInv'
<1>1. PICK s \in UNION {[1..n -> Tx \ committed] : n \in 1..2} :
            /\ committed' = committed \cup Range(s)
            /\ importQueue' = Append(importQueue, s)
  BY DEF NetworkBlock
<1>2. PICK n \in 1..2 : s \in [1..n -> Tx \ committed]
  BY <1>1
<1>3. s \in Seq(Tx)
  BY <1>2, FunIsSeq
<1>4. UNCHANGED <<pool, txStatus, inFlight, committing>>
  BY DEF NetworkBlock
<1>5. \A i \in DOMAIN importQueue' : Range(importQueue'[i]) \subseteq committed'
  <2>1. \A i \in DOMAIN importQueue : Range(importQueue[i]) \subseteq committed'
    BY <1>1 DEF DropInv
  <2> QED
    BY SMTT(30), <1>1, <1>3, <2>1, AppendCommitted DEF DropInv, TypeOK
<1> QED
  BY <1>1, <1>4, <1>5 DEF DropInv

(* process_committed takes the head block of the import queue.           *)
LEMMA DropProcessCommittedStep ==
    ASSUME DropInv, TypeOK', ProcessCommitted
    PROVE  DropInv'
<1>1. /\ importQueue # <<>>
      /\ committing' = Head(importQueue)
      /\ importQueue' = Tail(importQueue)
      /\ UNCHANGED <<pool, txStatus, inFlight, committed>>
  BY DEF ProcessCommitted
<1>2. Range(committing') \subseteq committed
  BY <1>1 DEF DropInv, TypeOK
<1>3. \A i \in DOMAIN importQueue' : Range(importQueue'[i]) \subseteq committed
  BY SMTT(30), <1>1 DEF DropInv, TypeOK
<1> QED
  BY <1>1, <1>2, <1>3 DEF DropInv

(* A commit iteration removes a committed id from the pool, or none.     *)
LEMMA DropCommitStep ==
    ASSUME DropInv, TypeOK', CommitStepInPool \/ CommitStepNotInPool
    PROVE  DropInv'
<1>1. /\ committing # <<>>
      /\ committing' = Tail(committing)
      /\ pool' \in {pool, pool \ {Head(committing)}}
      /\ UNCHANGED <<txStatus, inFlight, committed, importQueue>>
  BY DEF CommitStepInPool, CommitStepNotInPool, RemoveFromPool
<1>2. Head(committing) \in committed /\ Range(committing') \subseteq committed
  BY <1>1, RangeTail DEF DropInv, TypeOK
<1>3. pool \subseteq pool' \cup committed
  BY <1>1, <1>2
<1> QED
  BY <1>1, <1>2, <1>3 DEF DropInv

(* DropInv is inductive.                                                   *)
LEMMA DropStep == DropInv /\ [Next]_vars => DropInv'
<1> SUFFICES ASSUME DropInv, [Next]_vars PROVE DropInv'
  OBVIOUS
<1>0. TypeOK'
  BY TypeStep DEF DropInv
<1>1. ASSUME NEW t \in Tx, Insert(t) PROVE DropInv'
  BY <1>0, <1>1, DropInsertStep
<1>2. CASE Extract
  BY <1>0, <1>2, DropExtractStep
<1>3. CASE LocalExecute
  BY <1>0, <1>3, DropLocalExecuteStep
<1>4. CASE NetworkBlock
  BY <1>0, <1>4, DropNetworkBlockStep
<1>5. ASSUME NEW t \in Tx, PreconfSkip(t) PROVE DropInv'
  BY <1>0, <1>5 DEF PreconfSkip, DropInv
<1>6. CASE ProcessCommitted
  BY <1>0, <1>6, DropProcessCommittedStep
<1>7. CASE CommitStepInPool \/ CommitStepNotInPool
  BY <1>0, <1>7, DropCommitStep
<1>8. CASE CommitFinish
  BY <1>0, <1>8 DEF CommitFinish, DropInv
<1>9. ASSUME NEW t \in Tx, RemoveSkipped(t) PROVE DropInv'
  <2>1. PICK R : /\ pool' = pool \ R
                 /\ txStatus' = SqueezeOut(R)
    BY <1>9, ZenonT(30) DEF RemoveSkipped, RemoveFromPool
  <2>2. UNCHANGED <<inFlight, committed, importQueue, committing>>
    BY <1>9 DEF RemoveSkipped
  <2> QED
    BY <1>0, <2>1, <2>2, EvictStep
<1>10. ASSUME NEW t \in Tx, RemoveTxAndDependents(t) PROVE DropInv'
  <2>1. PICK R : /\ pool' = pool \ R
                 /\ txStatus' = SqueezeOut(R)
    BY <1>10, Zenon DEF RemoveTxAndDependents, RemoveFromPool
  <2>2. UNCHANGED <<inFlight, committed, importQueue, committing>>
    BY SMTT(30), <1>10 DEF RemoveTxAndDependents
  <2> QED
    BY <1>0, <2>1, <2>2, EvictStep
<1>11. CASE UNCHANGED vars
  BY SMTT(30), <1>11 DEF vars, DropInv, TypeOK
<1> QED
  BY <1>1, <1>2, <1>3, <1>4, <1>5, <1>6, <1>7, <1>8, <1>9, <1>10, <1>11
     DEF Next

(* No transaction is dropped silently, whatever the limits and the       *)
(* transactions: every path that takes a Submitted transaction out of the *)
(* pool either moves it into the block being built or the chain, or      *)
(* sends it SqueezedOut (insert's evictions, the producer's skip          *)
(* pre-confirmation, remove_skipped_transaction and TTL pruning).         *)
THEOREM NoSilentDropHolds == Spec => []NoSilentDrop
<1>1. Init => DropInv
  BY RangeEmpty DEF Init, DropInv, TypeOK, SpentStates, Statuses, Range
<1>2. DropInv => NoSilentDrop
  BY DEF DropInv, NoSilentDrop
<1> QED
  BY <1>1, <1>2, DropStep, PTL DEF Spec

-----------------------------------------------------------------------------
(* A step that keeps the chain and the block in flight, only shrinks the *)
(* pool and the skip set, and clears no spent-input flag of a committed  *)
(* transaction keeps CommittedApart.                                      *)
LEMMA ApartShrinkStep ==
    ASSUME CommittedApart, pool' \subseteq pool, skipQueue' \subseteq skipQueue,
           UNCHANGED <<committed, inFlight>>,
           \A u \in committed : spentInputs[u] # "None" => spentInputs'[u] # "None"
    PROVE  CommittedApart'
BY DEF CommittedApart

(* Insert keeps CommittedApart: the newcomer is not committed, and an    *)
(* input a committed transaction spent is flagged in SpentInputs, which   *)
(* validate_inputs rejects.                                               *)
LEMMA ApartInsertStep ==
    ASSUME CommittedApart, TypeOK, NEW t \in Tx, Insert(t)
    PROVE  CommittedApart'
<1>1. PICK toRemove \in SpaceFor(t) : InsertInner(t, toRemove)
  BY Zenon DEF Insert
<1>2. pool' = (pool \ SubtreeOfAll(toRemove \cup Collisions(t), pool)) \cup {t}
  BY Zenon, <1>1 DEF InsertInner
<1>3. UNCHANGED <<committed, inFlight, skipQueue, spentInputs>>
  BY ZenonT(30) DEF Insert
<1>4. t \notin committed /\ ValidInputs(t)
  BY Zenon DEF Insert
<1>5. ASSUME NEW u \in committed PROVE Inputs[t] \cap Inputs[u] = {}
  <2>1. u \in Tx /\ spentInputs[u] # "None"
    BY DEF CommittedApart, TypeOK
  <2> QED
    BY SMTT(30), <1>4, <2>1 DEF ValidInputs, IsSpentInput
<1> QED
  BY SMTT(30), <1>2, <1>3, <1>4, <1>5 DEF CommittedApart

(* Extract keeps CommittedApart: the block is taken from the pool and    *)
(* only its own transactions get a new flag.                              *)
LEMMA ApartExtractStep ==
    ASSUME CommittedApart, TypeOK, Extract
    PROVE  CommittedApart'
<1>1. PICK s \in Selections :
            /\ pool' = pool \ Range(s)
            /\ spentInputs' = [u \in Tx |-> IF u \in Range(s) THEN "Maybe"
                                                        ELSE spentInputs[u]]
            /\ inFlight' = s
  BY SMTT(30) DEF Extract
<1>2. Range(s) \subseteq pool
  BY DEF Selections, Range
<1>3. UNCHANGED <<committed, skipQueue>>
  BY SMTT(30) DEF Extract
<1>4. \A u \in committed : spentInputs'[u] # "None"
  BY <1>1, <1>2 DEF CommittedApart, TypeOK
<1> QED
  BY <1>1, <1>2, <1>3, <1>4 DEF CommittedApart

(* LocalExecute keeps CommittedApart: the included transactions come    *)
(* from the block in flight, which is flagged, disjoint from the pool and *)
(* the skip set, and spends no coin a stored transaction spends.          *)
LEMMA ApartLocalExecuteStep ==
    ASSUME ChainInv, IsProducer, LocalExecute
    PROVE  CommittedApart'
<1>1. PICK inc \in SUBSET Range(inFlight) :
            /\ committed' = committed \cup inc
            /\ skipQueue' = skipQueue \cup (Range(inFlight) \ inc)
  BY Zenon DEF LocalExecute
<1>2. /\ inFlight' = <<>>
      /\ UNCHANGED <<pool, spentInputs>>
  BY DEF LocalExecute
<1>3. Range(inFlight') = {}
  BY <1>2, RangeEmpty
<1>4. Range(inFlight) \subseteq Tx
  BY InFlightTx DEF ChainInv, SpendsInv
<1>5. committed' \cap (pool' \cup Range(inFlight') \cup skipQueue') = {}
  BY <1>1, <1>2, <1>3 DEF ChainInv, SpendsInv, CommittedApart
<1>6. \A u \in committed' : spentInputs'[u] # "None"
  BY <1>1, <1>2 DEF ChainInv, SpendsInv, CommittedApart
<1>7. \A t \in pool', u \in committed' : Inputs[t] \cap Inputs[u] = {}
  <2> SUFFICES ASSUME NEW t \in pool, NEW u \in inc
               PROVE  Inputs[t] \cap Inputs[u] = {}
    BY <1>1, <1>2 DEF ChainInv, CommittedApart
  <2>1. t # u
    BY DEF ChainInv, SpendsInv
  <2> QED
    BY <2>1 DEF ChainInv, SpendsInv, NoConflictingSpends
<1> QED
  BY <1>5, <1>6, <1>7 DEF CommittedApart

(* ChainInv is inductive.                                                  *)
LEMMA ChainStep == ChainInv /\ [Next]_vars => ChainInv'
<1> SUFFICES ASSUME ChainInv, [Next]_vars PROVE ChainInv'
  OBVIOUS
<1>0. SpendsInv'
  BY SpendsStep DEF ChainInv
<1> SUFFICES ASSUME IsProducer PROVE CommittedApart'
  BY <1>0 DEF ChainInv
<1>a. CommittedApart /\ TypeOK
  BY DEF ChainInv, SpendsInv
<1>1. ASSUME NEW t \in Tx, Insert(t) PROVE CommittedApart'
  BY <1>a, <1>1, ApartInsertStep
<1>2. CASE Extract
  BY <1>a, <1>2, ApartExtractStep
<1>3. CASE LocalExecute
  BY <1>3, ApartLocalExecuteStep
<1>4. CASE NetworkBlock \/ \E t \in Tx : PreconfSkip(t)
  BY <1>4 DEF NetworkBlock, PreconfSkip
<1>5. CASE ProcessCommitted \/ CommitFinish
  BY <1>a, <1>5, ApartShrinkStep DEF ProcessCommitted, CommitFinish
<1>6. CASE CommitStepInPool
  <2>1. /\ pool' \subseteq pool
        /\ spentInputs' = [spentInputs EXCEPT ![Head(committing)] = "Spent"]
        /\ UNCHANGED <<committed, inFlight, skipQueue>>
    BY <1>6 DEF CommitStepInPool, RemoveFromPool
  <2> QED
    BY <1>a, <2>1, ApartShrinkStep DEF TypeOK
<1>7. CASE CommitStepNotInPool
  <2>1. /\ spentInputs' = IF spentInputs[Head(committing)] = "Maybe"
                            THEN [spentInputs EXCEPT ![Head(committing)] = "Spent"]
                            ELSE spentInputs
        /\ UNCHANGED <<pool, committed, inFlight, skipQueue>>
    BY <1>7 DEF CommitStepNotInPool
  <2> QED
    BY <1>a, <2>1, ApartShrinkStep DEF TypeOK
<1>8. ASSUME NEW t \in Tx, RemoveSkipped(t) PROVE CommittedApart'
  <2>1. /\ pool' \subseteq pool
        /\ spentInputs' = [spentInputs EXCEPT ![t] = "None"]
        /\ skipQueue' \subseteq skipQueue
        /\ UNCHANGED <<committed, inFlight>>
        /\ t \in skipQueue
    BY Zenon, <1>8 DEF RemoveSkipped, RemoveFromPool
  <2>2. t \notin committed
    BY <1>a, <2>1 DEF CommittedApart
  <2> QED
    BY SMTT(30), <1>a, <2>1, <2>2, ApartShrinkStep DEF TypeOK
<1>9. ASSUME NEW t \in Tx, RemoveTxAndDependents(t) PROVE CommittedApart'
  BY <1>a, <1>9, ApartShrinkStep DEF RemoveTxAndDependents, RemoveFromPool
<1>10. CASE UNCHANGED vars
  BY <1>a, <1>10 DEF vars, CommittedApart
<1> QED
  BY <1>1, <1>2, <1>3, <1>4, <1>5, <1>6, <1>7, <1>8, <1>9, <1>10 DEF Next

(* On a producing node no stored transaction ever spends a coin that a   *)
(* committed transaction spent, for every pool configuration: the chain  *)
(* only grows by the node's own blocks, whose transactions left the pool *)
(* flagged in SpentInputs, and insert's validate_inputs rejects a flagged *)
(* coin.  (A following node learns of other nodes' blocks only in        *)
(* process_committed; there the property fails, see the stale_spend run.) *)
THEOREM NoStaleSpendHolds ==
    ASSUME IsProducer
    PROVE  Spec => []NoStaleSpend
<1>1. Init => ChainInv
  BY RangeEmpty DEF Init, ChainInv, SpendsInv, CommittedApart, TypeOK,
     NoConflictingSpends, SpentStates, Statuses
<1>2. ChainInv => NoStaleSpend
  BY DEF ChainInv, CommittedApart, NoStaleSpend
<1> QED
  BY <1>1, <1>2, ChainStep, PTL DEF Spec

=============================================================================
