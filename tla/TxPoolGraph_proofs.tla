------------------------- MODULE TxPoolGraph_proofs -------------------------
(***************************************************************************)
(* Proofs that the pool's executable set is the set of roots of its      *)
(* dependency graph, and that no stored transaction is left without the  *)
(* transactions whose outputs it spends, for every value of the          *)
(* constants that satisfies ConstAssumption.                              *)
(*                                                                         *)
(* The argument rests on one fact about the storage graph: every removal *)
(* path (remove_node_and_dependent_sub_graph, the collision and free-     *)
(* space evictions of insert_inner, remove_skipped_transaction) removes a *)
(* set closed under dependents, and removing such a set leaves the roots  *)
(* of what remains unchanged.                                             *)
(***************************************************************************)
EXTENDS TxPool_proofs

(* The transactions of S with no parent in S.                             *)
Roots(S) == {t \in S : Parents(t, S) = {}}

(* The strengthening of ExecutableIsRoots and NoOrphans that is inductive. *)
(* Inside process_committed the executable set and the dependents queued  *)
(* for promotion together are the roots of the pool; every parent of a     *)
(* stored transaction is stored, has registered its outputs or is         *)
(* committed; a transaction whose outputs are registered is committed or  *)
(* flagged in SpentInputs, and is in the block being built, committed or *)
(* skipped.                                                                *)
PromoteIdle == pc = "idle" => toPromote = {}
RootsCovered == executable \cup (toPromote \cap pool) = Roots(pool)
ParentsKnown ==
    \A y \in pool : Parents(y, Tx) \subseteq pool \cup extractedOutputs \cup committed
ExtractedFlagged ==
    \A u \in extractedOutputs : u \in committed \/ spentInputs[u] # "None"
ExtractedTracked ==
    extractedOutputs \subseteq Range(inFlight) \cup committed \cup skipQueue
GraphInv ==
    /\ DropInv
    /\ PromoteIdle
    /\ RootsCovered
    /\ ParentsKnown
    /\ ExtractedFlagged
    /\ ExtractedTracked

-----------------------------------------------------------------------------
(* Lemmas about the storage graph.                                          *)

(* A subtree is closed under dependents: the dependents of any of its    *)
(* members are members.                                                   *)
LEMMA SubtreeClosed ==
    ASSUME NEW u, NEW S
    PROVE  DependentsClosed(Subtree(u, S), S)
<1> SUFFICES ASSUME NEW x \in Subtree(u, S), NEW y \in Children(x, S)
             PROVE  y \in Subtree(u, S)
  BY DEF DependentsClosed
<1>1. y \in S
  BY DEF Children
<1>2. \A D \in SUBSET S : Children(u, S) \subseteq D /\ DependentsClosed(D, S)
                             => y \in D
  BY Zenon DEF Subtree, Descendants, DependentsClosed
<1> QED
  BY <1>1, <1>2 DEF Subtree, Descendants

(* So is the union of subtrees.                                            *)
LEMMA SubtreeOfAllClosed ==
    ASSUME NEW R, NEW S
    PROVE  DependentsClosed(SubtreeOfAll(R, S), S)
<1>1. \A u \in R : DependentsClosed(Subtree(u, S), S)
  BY SubtreeClosed
<1> QED
  BY <1>1, Zenon DEF SubtreeOfAll, DependentsClosed

(* A subset of S closed under dependents holds the subtree of each of its *)
(* members.                                                                *)
LEMMA SubtreeWithin ==
    ASSUME NEW S, NEW C \in SUBSET S, DependentsClosed(C, S), NEW u \in C
    PROVE  Subtree(u, S) \subseteq C
BY Zenon DEF Subtree, Descendants, DependentsClosed

(* A set closed in S, together with a set closed in the rest of S, is      *)
(* closed in S.                                                            *)
LEMMA ClosedUnion ==
    ASSUME NEW S, NEW A, NEW B,
           DependentsClosed(A, S), DependentsClosed(B, S \ A)
    PROVE  DependentsClosed(A \cup B, S)
<1> SUFFICES ASSUME NEW x \in B, NEW y \in Children(x, S), y \notin A
             PROVE  y \in B
  BY DEF DependentsClosed
<1>1. x \notin A
  BY DEF DependentsClosed
<1>2. y \in Children(x, S \ A)
  BY <1>1 DEF Children, Parents
<1> QED
  BY <1>2 DEF DependentsClosed

(* Removing a set closed under dependents leaves every remaining        *)
(* transaction with the parents it had.                                   *)
LEMMA ParentsAfterRemoval ==
    ASSUME NEW S, NEW R, DependentsClosed(R, S), NEW y \in S \ R
    PROVE  Parents(y, S \ R) = Parents(y, S)
BY DEF DependentsClosed, Children, Parents

(* ... and so the roots of what remains are the roots that remain.         *)
LEMMA RootsAfterRemoval ==
    ASSUME NEW S, NEW R, DependentsClosed(R, S)
    PROVE  Roots(S \ R) = Roots(S) \ R
BY ParentsAfterRemoval DEF Roots

(* The parents of t in the pool are among its dependencies.               *)
LEMMA ParentsInAllDeps ==
    ASSUME NEW t
    PROVE  Parents(t, pool) \subseteq AllDependencies(t)
BY DEF AllDependencies, Parents

(* t has dependencies exactly when it has a parent in the pool: the empty *)
(* set is closed under parents.                                           *)
LEMMA AllDepsEmpty ==
    ASSUME NEW t
    PROVE  AllDependencies(t) = {} <=> Parents(t, pool) = {}
<1>1. Parents(t, pool) = {} => AllDependencies(t) = {}
  <2> HAVE Parents(t, pool) = {}
  <2>1. {} \in SUBSET pool /\ Parents(t, pool) \subseteq {}
        /\ AncestorsClosed({}, pool)
    BY DEF AncestorsClosed
  <2> QED
    BY <2>1, Zenon DEF AllDependencies
<1> QED
  BY <1>1, ParentsInAllDeps

(* The dependencies of t are closed under parents ...                     *)
LEMMA AllDepsAncestorsClosed ==
    ASSUME NEW t
    PROVE  AncestorsClosed(AllDependencies(t), pool)
BY Zenon DEF AllDependencies, AncestorsClosed, Parents

(* ... so the rest of the pool is closed under dependents.                *)
LEMMA AllDepsRestClosed ==
    ASSUME NEW t
    PROVE  DependentsClosed(pool \ AllDependencies(t), pool)
<1> SUFFICES ASSUME NEW x \in pool \ AllDependencies(t),
                    NEW y \in Children(x, pool), y \in AllDependencies(t)
             PROVE  FALSE
  BY DEF DependentsClosed, Children
<1>1. Parents(y, pool) \subseteq AllDependencies(t)
  BY AllDepsAncestorsClosed DEF AncestorsClosed
<1> QED
  BY <1>1 DEF Children

-----------------------------------------------------------------------------
(* Removing from the pool a set closed under dependents, outside          *)
(* process_committed, with the executable set losing the same set, keeps  *)
(* the executable set the roots.                                          *)
LEMMA RootsRemoval ==
    ASSUME RootsCovered, PromoteIdle, pc = "idle",
           NEW R, DependentsClosed(R, pool),
           pool' = pool \ R, executable' = executable \ R, toPromote' = toPromote
    PROVE  RootsCovered'
<1>1. executable = Roots(pool)
  BY DEF RootsCovered, PromoteIdle
<1> QED
  BY <1>1, RootsAfterRemoval DEF RootsCovered, PromoteIdle

(* ... and keeps every parent of a stored transaction known.              *)
LEMMA ParentsRemoval ==
    ASSUME ParentsKnown, NEW R, DependentsClosed(R, pool), pool' = pool \ R,
           extractedOutputs \subseteq extractedOutputs', committed \subseteq committed'
    PROVE  ParentsKnown'
<1> SUFFICES ASSUME NEW y \in pool', NEW z \in Parents(y, Tx), z \in R, z \in pool
             PROVE  FALSE
  BY DEF ParentsKnown
<1>1. y \in Children(z, pool)
  BY DEF Children, Parents
<1> QED
  BY <1>1 DEF DependentsClosed

(* Insert keeps the graph invariant.  The newcomer is nobody's parent:  *)
(* it is neither stored, committed nor registered (a registered          *)
(* transaction is flagged, and insert requires it unflagged).  What       *)
(* insert_inner evicts is closed under dependents; when the newcomer has *)
(* dependencies nothing is evicted to make room, and the collided         *)
(* subtrees lie outside its dependencies, so its parents stay stored.     *)
LEMMA GraphInsertStep ==
    ASSUME GraphInv, NEW t \in Tx, Insert(t)
    PROVE  RootsCovered' /\ ParentsKnown'
<1> USE DEF GraphInv
<1>1. PICK toRemove \in SpaceFor(t) : InsertInner(t, toRemove)
  BY Zenon DEF Insert
<1> DEFINE R == SubtreeOfAll(toRemove \cup Collisions(t), pool)
           P == Parents(t, pool)
<1>2. /\ pool' = (pool \ R) \cup {t}
      /\ executable' = (executable \ R)
                       \cup (IF AllDependencies(t) = {} THEN {t} ELSE {})
  BY Zenon, <1>1 DEF InsertInner
<1>3. /\ UNCHANGED <<extractedOutputs, committed, pc, toPromote>>
      /\ pc = "idle" /\ spentInputs[t] = "None" /\ t \notin committed
      /\ t \notin pool /\ ValidInputs(t)
      /\ Collisions(t) \cap AllDependencies(t) = {}
  BY Zenon DEF Insert
<1>4. DependentsClosed(R, pool)
  BY SubtreeOfAllClosed
<1>5. P \cap R = {}
  <2>1. CASE P # {}
    <3>1. AllDependencies(t) # {}
      BY <2>1, AllDepsEmpty
    <3>2. toRemove = {}
      BY <1>1, <3>1 DEF SpaceFor
    <3>3. \A u \in Collisions(t) : Subtree(u, pool) \subseteq pool \ AllDependencies(t)
      <4> SUFFICES ASSUME NEW u \in Collisions(t)
                   PROVE  Subtree(u, pool) \subseteq pool \ AllDependencies(t)
        OBVIOUS
      <4>1. u \in pool \ AllDependencies(t)
        BY <1>3 DEF Collisions
      <4> QED
        BY Zenon, <4>1, AllDepsRestClosed, SubtreeWithin
    <3>4. R \subseteq pool \ AllDependencies(t)
      BY <3>2, <3>3, Zenon DEF SubtreeOfAll
    <3> QED
      BY <3>4, ParentsInAllDeps
  <2> QED
    BY <2>1
<1>6. t \notin pool \cup extractedOutputs \cup committed
  BY <1>3 DEF ExtractedFlagged
<1>7. \A y \in pool \ R : Parents(y, pool') = Parents(y, pool)
  <2> SUFFICES ASSUME NEW y \in pool \ R PROVE Parents(y, pool') = Parents(y, pool)
    OBVIOUS
  <2>1. t \notin Parents(y, Tx)
    BY <1>6 DEF ParentsKnown
  <2>2. Parents(y, pool \ R) = Parents(y, pool)
    BY <1>4, ParentsAfterRemoval
  <2> QED
    BY Zenon, <1>2, <2>1, <2>2 DEF Parents
<1>8. Parents(t, pool') = P
  <2>1. Outputs[t] \cap Inputs[t] = {}
    BY ConstAssumption
  <2> QED
    BY Zenon, <1>2, <1>5, <2>1 DEF Parents
<1>9. RootsCovered'
  <2>1. executable = Roots(pool) /\ toPromote = {}
    BY <1>3 DEF RootsCovered, PromoteIdle
  <2>2. Roots(pool') = (Roots(pool) \ R) \cup (IF P = {} THEN {t} ELSE {})
    BY Zenon, <1>2, <1>3, <1>7, <1>8 DEF Roots
  <2> QED
    BY Zenon, <1>2, <1>3, <2>1, <2>2, AllDepsEmpty DEF RootsCovered
<1>10. ASSUME NEW z \in Parents(t, Tx)
       PROVE  z \in pool' \cup extractedOutputs' \cup committed'
  <2>1. PICK k \in Inputs[t] : k \in Outputs[z]
    BY <1>10 DEF Parents
  <2>2. z \in Tx
    BY <1>10 DEF Parents
  <2>3. \A u \in Tx : k \in Outputs[u] => u = z
    BY <2>1, <2>2, ConstAssumption
  <2>4. k \notin Genesis
    BY <2>1, <2>2, ConstAssumption
  <2>5. z \in pool \cup extractedOutputs \cup committed
    BY Zenon, <1>3, <2>1, <2>3, <2>4 DEF ValidInputs, LiveOnChain, TypeOK, DropInv
  <2>6. z \in pool => z \in P
    BY <2>1 DEF Parents
  <2> QED
    BY Zenon, <1>2, <1>3, <1>5, <2>5, <2>6
<1>11. ASSUME NEW y \in pool \ R PROVE Parents(y, Tx) \subseteq pool' \cup extractedOutputs' \cup committed'
  <2>1. \A z \in Parents(y, Tx) \cap pool : z \notin R
    BY <1>4 DEF DependentsClosed, Children, Parents
  <2> QED
    BY <1>2, <1>3, <2>1 DEF ParentsKnown
<1> QED
  BY Zenon, <1>2, <1>9, <1>10, <1>11 DEF ParentsKnown

(* Extract keeps the graph invariant: a stored transaction left without *)
(* a stored parent becomes executable, and what leaves the pool is        *)
(* registered, flagged Maybe and in flight.                               *)
LEMMA GraphExtractStep ==
    ASSUME GraphInv, Extract
    PROVE  RootsCovered' /\ ParentsKnown' /\ ExtractedFlagged' /\ ExtractedTracked'
<1> USE DEF GraphInv
<1>1. PICK s \in Selections :
        /\ pool' = pool \ Range(s)
        /\ executable' =
             (executable \ Range(s))
             \cup {d \in pool \ Range(s) : Parents(d, pool) # {}
                                            /\ Parents(d, pool \ Range(s)) = {}}
        /\ extractedOutputs' = extractedOutputs \cup Range(s)
        /\ spentInputs' = [u \in Tx |-> IF u \in Range(s) THEN "Maybe"
                                                          ELSE spentInputs[u]]
        /\ inFlight' = s
  BY Zenon DEF Extract
<1> DEFINE sel == Range(s)
           rest == pool \ sel
<1>2. /\ UNCHANGED <<committed, skipQueue, toPromote>>
      /\ pc = "idle" /\ inFlight = <<>>
  BY DEF Extract
<1>3. executable = Roots(pool) /\ toPromote = {}
  BY <1>2 DEF RootsCovered, PromoteIdle
<1>9. sel \subseteq Tx
  <2>1. PICK n \in 1..BlockMaxTxs : s \in [1..n -> pool]
    BY DEF Selections
  <2> QED
    BY <2>1 DEF Range, DropInv, TypeOK
<1>4. \A d \in rest : Parents(d, rest) \subseteq Parents(d, pool)
  BY DEF Parents
<1>5. RootsCovered'
  BY Zenon, <1>1, <1>2, <1>3, <1>4 DEF RootsCovered, Roots
<1>6. ParentsKnown'
  BY <1>1, <1>2 DEF ParentsKnown
<1>7. ExtractedFlagged'
  BY <1>1, <1>2, <1>9 DEF ExtractedFlagged, DropInv, TypeOK
<1>8. ExtractedTracked'
  BY <1>1, <1>2, RangeEmpty DEF ExtractedTracked
<1> QED
  BY <1>5, <1>6, <1>7, <1>8

(* A commit iteration on a stored id removes that node alone; the stored *)
(* dependents it leaves without a parent are queued for promotion, so    *)
(* the executable set and the queue still cover the roots.  The id is     *)
(* committed, so registering its outputs keeps the rest.                  *)
LEMMA GraphCommitInPoolStep ==
    ASSUME GraphInv, CommitStepInPool
    PROVE  RootsCovered' /\ ParentsKnown' /\ ExtractedFlagged' /\ ExtractedTracked'
<1> USE DEF GraphInv
<1> DEFINE id == Head(committing)
           N == {d \in pool \ {id} : id \in Parents(d, pool)
                                      /\ Parents(d, pool \ {id}) = {}}
<1>1. /\ committing # <<>>
      /\ id \in pool
      /\ pool' = pool \ {id}
      /\ executable' = executable \ {id}
      /\ extractedOutputs' = extractedOutputs \cup {id}
      /\ spentInputs' = [spentInputs EXCEPT ![id] = "Spent"]
      /\ toPromote' = toPromote \cup N
      /\ UNCHANGED <<committed, inFlight, skipQueue>>
  BY Zenon DEF CommitStepInPool, RemoveFromPool
<1>2. id \in committed
  BY <1>1, RangeTail DEF DropInv, TypeOK
<1>3. Roots(pool \ {id}) = (Roots(pool) \ {id}) \cup N
  BY DEF Roots, Parents
<1>4. RootsCovered'
  BY Zenon, <1>1, <1>3 DEF RootsCovered
<1>5. ParentsKnown'
  BY <1>1 DEF ParentsKnown
<1>6. ExtractedFlagged'
  BY <1>1, <1>2 DEF ExtractedFlagged
<1>7. ExtractedTracked'
  BY <1>1, <1>2 DEF ExtractedTracked
<1> QED
  BY <1>4, <1>5, <1>6, <1>7

(* remove_skipped_transaction keeps the graph invariant.  Its own subtree *)
(* and the subtrees of the stored spenders of its coins, taken in what   *)
(* remains, together are closed under dependents; every stored           *)
(* transaction spending an output of the skipped one is among them, so   *)
(* clearing its registered outputs orphans nobody.                        *)
LEMMA GraphRemoveSkippedStep ==
    ASSUME GraphInv, NEW t \in Tx, RemoveSkipped(t)
    PROVE  RootsCovered' /\ ParentsKnown' /\ ExtractedFlagged' /\ ExtractedTracked'
<1> USE DEF GraphInv
<1> DEFINE own == IF t \in pool THEN Subtree(t, pool) ELSE {}
           rest == pool \ own
           cd == {u \in rest : Inputs[u] \cap Outputs[t] # {}}
           R == own \cup SubtreeOfAll(cd, rest)
<1>1. /\ pool' = pool \ R
      /\ executable' = executable \ R
      /\ extractedOutputs' = extractedOutputs \ {t}
      /\ spentInputs' = [spentInputs EXCEPT ![t] = "None"]
      /\ skipQueue' = skipQueue \ {t}
      /\ UNCHANGED <<committed, inFlight, pc, toPromote>>
      /\ pc = "idle"
  BY Zenon DEF RemoveSkipped, RemoveFromPool
<1>2. DependentsClosed(own, pool)
  BY SubtreeClosed DEF DependentsClosed
<1>3. DependentsClosed(R, pool)
  BY Zenon, <1>2, SubtreeOfAllClosed, ClosedUnion
<1>4. RootsCovered'
  BY Zenon, <1>1, <1>3, RootsRemoval
<1>5. cd \subseteq R
  <2>1. cd \subseteq SubtreeOfAll(cd, rest)
    BY RootsInSubtrees
  <2> QED
    BY Zenon, <2>1
<1>6. ParentsKnown'
  <2> SUFFICES ASSUME NEW y \in pool', NEW z \in Parents(y, Tx)
               PROVE  z \in pool' \cup extractedOutputs' \cup committed'
    BY DEF ParentsKnown
  <2>1. z \in pool => z \notin R
    BY Zenon, <1>1, <1>3 DEF DependentsClosed, Children, Parents
  <2>2. z = t /\ t \notin pool => y \in cd
    BY <1>1 DEF Parents
  <2> QED
    BY <1>1, <1>5, <2>1, <2>2 DEF ParentsKnown
<1>7. ExtractedFlagged'
  BY <1>1 DEF ExtractedFlagged, DropInv, TypeOK
<1>8. ExtractedTracked'
  BY <1>1 DEF ExtractedTracked
<1> QED
  BY <1>4, <1>6, <1>7, <1>8

(* GraphInv is inductive.                                                  *)
LEMMA GraphStep == GraphInv /\ [Next]_vars => GraphInv'
<1> SUFFICES ASSUME GraphInv, [Next]_vars PROVE GraphInv'
  OBVIOUS
<1> USE DEF GraphInv
<1>0. DropInv'
  BY DropStep
<1>1. ASSUME NEW t \in Tx, Insert(t) PROVE GraphInv'
  <2>1. UNCHANGED <<extractedOutputs, spentInputs, committed, inFlight,
                    skipQueue, pc, toPromote>>
    BY <1>1 DEF Insert
  <2> QED
    BY <1>0, <1>1, <2>1, GraphInsertStep
       DEF PromoteIdle, ExtractedFlagged, ExtractedTracked
<1>2. CASE Extract
  <2>1. UNCHANGED <<pc, toPromote>>
    BY <1>2 DEF Extract
  <2> QED
    BY <1>0, <1>2, <2>1, GraphExtractStep DEF PromoteIdle
<1>3. CASE LocalExecute
  <2>1. PICK inc \in SUBSET Range(inFlight) :
            /\ committed' = committed \cup inc
            /\ skipQueue' = skipQueue \cup (Range(inFlight) \ inc)
    BY ZenonT(30), <1>3 DEF LocalExecute
  <2>2. UNCHANGED <<pool, executable, extractedOutputs, spentInputs, pc, toPromote>>
    BY Zenon, <1>3 DEF LocalExecute
  <2> QED
    BY <1>0, <2>1, <2>2
       DEF PromoteIdle, RootsCovered, ParentsKnown, ExtractedFlagged, ExtractedTracked
<1>4. CASE NetworkBlock
  <2>1. /\ committed \subseteq committed'
        /\ UNCHANGED <<pool, executable, extractedOutputs, spentInputs,
                       inFlight, skipQueue, pc, toPromote>>
    BY <1>4 DEF NetworkBlock
  <2> QED
    BY <1>0, <2>1
       DEF PromoteIdle, RootsCovered, ParentsKnown, ExtractedFlagged, ExtractedTracked
<1>5. ASSUME NEW t \in Tx, PreconfSkip(t) PROVE GraphInv'
  <2>1. /\ skipQueue \subseteq skipQueue'
        /\ UNCHANGED <<pool, executable, extractedOutputs, spentInputs,
                       committed, inFlight, pc, toPromote>>
    BY <1>5 DEF PreconfSkip
  <2> QED
    BY <1>0, <2>1
       DEF PromoteIdle, RootsCovered, ParentsKnown, ExtractedFlagged, ExtractedTracked
<1>6. CASE ProcessCommitted
  <2>1. /\ pc = "idle" /\ pc' = "committing" /\ toPromote' = {}
        /\ UNCHANGED <<pool, executable, extractedOutputs, spentInputs,
                       committed, inFlight, skipQueue>>
    BY <1>6 DEF ProcessCommitted
  <2> QED
    BY <1>0, <2>1
       DEF PromoteIdle, RootsCovered, ParentsKnown, ExtractedFlagged, ExtractedTracked
<1>7. CASE CommitStepInPool
  <2>1. UNCHANGED pc /\ pc = "committing"
    BY <1>7 DEF CommitStepInPool
  <2> QED
    BY <1>0, <1>7, <2>1, GraphCommitInPoolStep DEF PromoteIdle
<1>8. CASE CommitStepNotInPool
  <2>1. /\ committing # <<>>
        /\ spentInputs' = IF spentInputs[Head(committing)] = "Maybe"
                            THEN [spentInputs EXCEPT ![Head(committing)] = "Spent"]
                            ELSE spentInputs
        /\ UNCHANGED <<pool, executable, extractedOutputs, committed,
                       inFlight, skipQueue, pc, toPromote>>
    BY <1>8 DEF CommitStepNotInPool
  <2>2. ExtractedFlagged'
    BY <2>1 DEF ExtractedFlagged
  <2> QED
    BY <1>0, <2>1, <2>2 DEF PromoteIdle, RootsCovered, ParentsKnown, ExtractedTracked
<1>9. CASE CommitFinish
  <2>1. /\ executable' = executable \cup (toPromote \cap pool)
        /\ pc' = "idle" /\ toPromote' = {}
        /\ UNCHANGED <<pool, extractedOutputs, spentInputs, committed,
                       inFlight, skipQueue>>
    BY <1>9 DEF CommitFinish
  <2> QED
    BY <1>0, <2>1
       DEF PromoteIdle, RootsCovered, ParentsKnown, ExtractedFlagged, ExtractedTracked
<1>10. ASSUME NEW t \in Tx, RemoveSkipped(t) PROVE GraphInv'
  <2>1. UNCHANGED <<pc, toPromote>>
    BY <1>10 DEF RemoveSkipped
  <2> QED
    BY <1>0, <1>10, <2>1, GraphRemoveSkippedStep DEF PromoteIdle
<1>11. ASSUME NEW t \in Tx, RemoveTxAndDependents(t) PROVE GraphInv'
  <2> DEFINE R == Subtree(t, pool)
  <2>1. /\ pc = "idle"
        /\ pool' = pool \ R /\ executable' = executable \ R
        /\ UNCHANGED <<extractedOutputs, spentInputs, committed, inFlight,
                       skipQueue, pc, toPromote>>
    BY <1>11, Zenon DEF RemoveTxAndDependents, RemoveFromPool
  <2>2. DependentsClosed(R, pool)
    BY SubtreeClosed
  <2>3. RootsCovered' /\ ParentsKnown'
    BY <2>1, <2>2, RootsRemoval, ParentsRemoval
  <2> QED
    BY <1>0, <2>1, <2>3 DEF PromoteIdle, ExtractedFlagged, ExtractedTracked
<1>12. CASE UNCHANGED vars
  BY <1>0, <1>12
     DEF vars, PromoteIdle, RootsCovered, ParentsKnown, ExtractedFlagged, ExtractedTracked
<1> QED
  BY <1>1, <1>2, <1>3, <1>4, <1>5, <1>6, <1>7, <1>8, <1>9, <1>10, <1>11, <1>12
     DEF Next

-----------------------------------------------------------------------------
(* The initial state satisfies GraphInv.                                    *)
LEMMA GraphInit == Init => GraphInv
BY RangeEmpty
   DEF Init, GraphInv, DropInv, TypeOK, SpentStates, Statuses, PromoteIdle,
       RootsCovered, Roots, ParentsKnown, ExtractedFlagged, ExtractedTracked

(* Outside process_committed the selection algorithm's executable set is *)
(* exactly the stored transactions without a stored parent, whatever the *)
(* transactions and the limits: insert_inner, extract, the commit loop    *)
(* with its promotion, remove_skipped_transaction and TTL pruning all     *)
(* keep it in step with the storage graph.                                *)
THEOREM ExecutableIsRootsHolds == Spec => []ExecutableIsRoots
<1>1. GraphInv => ExecutableIsRoots
  BY DEF GraphInv, PromoteIdle, RootsCovered, Roots, ExecutableIsRoots
<1> QED
  BY <1>1, GraphInit, GraphStep, PTL DEF Spec

(* No stored transaction spends an output of a transaction that is        *)
(* neither stored, in the block being built, committed nor skipped and   *)
(* waiting for remove_skipped_transaction: no removal path leaves a      *)
(* stored dependent of what it removes.                                   *)
THEOREM NoOrphansHolds == Spec => []NoOrphans
<1>1. GraphInv => NoOrphans
  BY DEF GraphInv, ParentsKnown, ExtractedTracked, NoOrphans
<1> QED
  BY <1>1, GraphInit, GraphStep, PTL DEF Spec

-----------------------------------------------------------------------------
(* What leaves the pool in one step is accounted for in that step.        *)
RemovedAccounted ==
    \A u \in pool \ pool' :
        u \in Range(inFlight') \cup committed' \/ txStatus'[u] = "SqueezedOut"

(* An eviction that sends SqueezedOut for what it removes accounts for it. *)
LEMMA EvictAccounted ==
    ASSUME TypeOK, NEW R,
           \A u \in pool \ pool' : u \in R /\ txStatus'[u] = SqueezeOut(R)[u]
    PROVE  RemovedAccounted
BY Zenon DEF RemovedAccounted, SqueezeOut, TypeOK

(* Every step of the model accounts for what it removes from the pool;  *)
(* the one removal that sends no status, the commit loop's, removes an   *)
(* id of the block being processed, which is committed.                  *)
LEMMA RemovedStep == DropInv /\ [Next]_vars => RemovedAccounted
<1> SUFFICES ASSUME DropInv, [Next]_vars PROVE RemovedAccounted
  OBVIOUS
<1>0. TypeOK
  BY DEF DropInv
<1>1. ASSUME NEW t \in Tx, Insert(t) PROVE RemovedAccounted
  <2>1. PICK toRemove \in SpaceFor(t) : InsertInner(t, toRemove)
    BY Zenon, <1>1 DEF Insert
  <2> DEFINE R == SubtreeOfAll(toRemove \cup Collisions(t), pool)
  <2>2. /\ pool' = (pool \ R) \cup {t}
        /\ txStatus' = [SqueezeOut(R) EXCEPT ![t] = "Submitted"]
    BY Zenon, <2>1 DEF InsertInner
  <2>3. t \notin pool
    BY Zenon, <1>1 DEF Insert
  <2>4. \A u \in pool \ pool' : u \in R /\ txStatus'[u] = SqueezeOut(R)[u]
    BY Zenon, <1>0, <2>2, <2>3 DEF SqueezeOut, TypeOK
  <2> QED
    BY Zenon, <1>0, <2>4, EvictAccounted
<1>2. CASE Extract
  <2>1. PICK s \in Selections : pool' = pool \ Range(s) /\ inFlight' = s
    BY <1>2, Zenon DEF Extract
  <2> QED
    BY <2>1 DEF RemovedAccounted
<1>3. CASE CommitStepInPool
  <2>1. /\ committing # <<>>
        /\ pool' = pool \ {Head(committing)}
        /\ committed' = committed
    BY <1>3 DEF CommitStepInPool, RemoveFromPool
  <2>2. Head(committing) \in committed
    BY <1>0, <2>1, RangeTail DEF DropInv, TypeOK
  <2> QED
    BY <2>1, <2>2 DEF RemovedAccounted
<1>4. ASSUME NEW t \in Tx, RemoveSkipped(t) PROVE RemovedAccounted
  <2>1. PICK R : pool' = pool \ R /\ txStatus' = SqueezeOut(R)
    BY <1>4, ZenonT(30) DEF RemoveSkipped, RemoveFromPool
  <2>2. \A u \in pool \ pool' : u \in R /\ txStatus'[u] = SqueezeOut(R)[u]
    BY <2>1
  <2> QED
    BY <1>0, <2>2, EvictAccounted
<1>5. ASSUME NEW t \in Tx, RemoveTxAndDependents(t) PROVE RemovedAccounted
  <2>1. PICK R : pool' = pool \ R /\ txStatus' = SqueezeOut(R)
    BY <1>5, Zenon DEF RemoveTxAndDependents, RemoveFromPool
  <2>2. \A u \in pool \ pool' : u \in R /\ txStatus'[u] = SqueezeOut(R)[u]
    BY <2>1
  <2> QED
    BY <1>0, <2>2, EvictAccounted
<1>6. CASE pool' = pool
  BY <1>6 DEF RemovedAccounted
<1>7. CASE LocalExecute \/ NetworkBlock \/ ProcessCommitted
                \/ CommitStepNotInPool \/ CommitFinish
  BY Zenon, <1>7, <1>6 DEF LocalExecute, NetworkBlock, ProcessCommitted,
                    CommitStepNotInPool, CommitFinish
<1>8. ASSUME NEW t \in Tx, PreconfSkip(t) PROVE RemovedAccounted
  BY <1>8, <1>6 DEF PreconfSkip
<1>9. CASE UNCHANGED vars
  BY <1>9, <1>6 DEF vars
<1> QED
  BY <1>1, <1>2, <1>3, <1>4, <1>5, <1>7, <1>8, <1>9 DEF Next

(* No step takes a transaction out of the pool silently: the producer's  *)
(* extraction moves it into the block, process_committed removes only the *)
(* committed node itself, and every eviction path reports SqueezedOut for *)
(* each transaction it evicts, in the same step.                          *)
THEOREM RemovalsAccountedHolds == Spec => RemovalsAccounted
<1>1. Init => DropInv
  BY GraphInit DEF GraphInv
<1>2. DropInv /\ [Next]_vars => [RemovedAccounted]_vars
  BY RemovedStep
<1> QED
  BY <1>1, <1>2, DropStep, PTL DEF Spec, RemovalsAccounted, RemovedAccounted

-----------------------------------------------------------------------------
(* On a producing node the commit loop never finds a committed id stored: *)
(* the id is committed (DropInv), and committed transactions are outside  *)
(* the pool (CommittedApart).  So nothing is ever queued for promotion.   *)
LEMMA NoPromotionStep ==
    ASSUME IsProducer, ChainInv, DropInv, toPromote = {}, [Next]_vars
    PROVE  toPromote' = {}
<1>1. ~CommitStepInPool
  <2> SUFFICES ASSUME CommitStepInPool PROVE FALSE
    OBVIOUS
  <2>1. committing # <<>> /\ Head(committing) \in pool
    BY DEF CommitStepInPool
  <2>2. Head(committing) \in committed
    BY <2>1, RangeTail DEF DropInv, TypeOK
  <2> QED
    BY <2>1, <2>2 DEF ChainInv, CommittedApart
<1>2. CASE ProcessCommitted \/ CommitFinish
  BY <1>2 DEF ProcessCommitted, CommitFinish
<1>3. CASE \/ \E t \in Tx : Insert(t) \/ PreconfSkip(t) \/ RemoveSkipped(t)
                                      \/ RemoveTxAndDependents(t)
           \/ Extract \/ LocalExecute \/ NetworkBlock \/ CommitStepNotInPool
           \/ UNCHANGED vars
  BY Zenon, <1>3 DEF Insert, PreconfSkip, RemoveSkipped, RemoveTxAndDependents,
              Extract, LocalExecute, NetworkBlock, CommitStepNotInPool, vars
<1> QED
  BY <1>1, <1>2, <1>3 DEF Next

(* The debug_assert of the promotion loop in process_committed_transactions *)
(* never fires on a producing node, for all constants: there the commit   *)
(* loop only meets ids of the node's own blocks, which left the pool when *)
(* they were extracted.  The promote_assert run shows it firing on a      *)
(* following node.                                                         *)
THEOREM PromotedStillStoredOnProducer ==
    ASSUME IsProducer
    PROVE  Spec => []PromotedStillStored
<1> DEFINE PInv == ChainInv /\ DropInv /\ toPromote = {}
<1>1. Init => PInv
  BY RangeEmpty DEF Init, ChainInv, SpendsInv, CommittedApart, DropInv, TypeOK,
     NoConflictingSpends, SpentStates, Statuses, Range
<1>2. PInv /\ [Next]_vars => PInv'
  BY ChainStep, DropStep, NoPromotionStep
<1>3. PInv => PromotedStillStored
  BY DEF PromotedStillStored
<1> QED
  BY <1>1, <1>2, <1>3, PTL DEF Spec

=============================================================================
