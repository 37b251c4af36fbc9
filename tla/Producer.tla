------------------------------ MODULE Producer ------------------------------
(***************************************************************************)
(* The block producer of crates/services/producer/src/block_producer.rs   *)
(* with the parts it talks to: the callers that ask it for blocks (the    *)
(* PoA trigger loop and manual production), the relayer's finalized DA    *)
(* height, and the importer that commits what it returns.                 *)
(*                                                                         *)
(* produce_and_execute holds the production lock (try_lock: a busy        *)
(* producer fails the call) across three awaits: the transaction source, *)
(* the relayer and the executor.  The latest view is read after the      *)
(* first one, so blocks committed meanwhile are seen; the lock is dropped *)
(* when the call returns, before the importer commits the result.        *)
(***************************************************************************)
EXTENDS Naturals, FiniteSets, Functions

CONSTANTS
    Caller,       \* tasks that call produce_and_execute concurrently
    MaxHeight,    \* bound on block heights (model bound)
    MaxDa,        \* bound on the relayer's finalized DA height (model bound)
    DaCost,       \* RelayerBlockInfo.gas_cost of each DA height
    DaTxs,        \* RelayerBlockInfo.tx_count of each DA height
    GasLimit,     \* consensus parameters' block_gas_limit
    TxLimit,      \* transactions_limit, u16::MAX - 1 in the code
    MaxFailures,  \* bound on gas-price, tx-source and executor errors
    PredefinedDa, \* da_height of each predefined block, by its height
    NoHolder      \* the production lock is free

ASSUME ProducerAssumption ==
    /\ MaxHeight \in Nat
    /\ MaxDa \in Nat
    /\ DaCost \in [1..MaxDa -> Nat]
    /\ DaTxs \in [1..MaxDa -> Nat]
    /\ GasLimit \in Nat
    /\ TxLimit \in Nat
    /\ MaxFailures \in Nat
    /\ \E D \in SUBSET (1..MaxHeight) : PredefinedDa \in [D -> 0..MaxDa]
    /\ NoHolder \notin Caller

VARIABLES
    latest,      \* latest committed height (0: genesis)
    daAt,        \* da_height of each committed block
    relayer,     \* highest finalized DA height known to the relayer
    lockHolder,  \* the caller holding the production lock, or NoHolder
    phase,       \* where each caller is in produce_and_execute
    call,        \* the locals of each caller's produce_and_execute
    failures     \* errors from the gas price, tx source or executor

vars == <<latest, daAt, relayer, lockHolder, phase, call, failures>>

Heights == 0..MaxHeight
Phases == {"idle", "source", "view", "da", "execute", "produced"}
Busy == {"source", "view", "da", "execute"}

(* The locals of a call: the height asked for, the view's latest height, *)
(* the previous block's da_height, what wait_for_at_least_height         *)
(* returned, the chosen da_height, and whether the call selects its DA   *)
(* height or replays a predefined block.  They are dropped when it ends. *)
Locals == [target : Heights, view : Heights, prevDa : 0..MaxDa,
           highest : 0..MaxDa, newDa : 0..MaxDa,
           mode : {"select", "predefined"}]
NoCall == [target |-> 0, view |-> 0, prevDa |-> 0, highest |-> 0, newDa |-> 0,
           mode |-> "select"]

-----------------------------------------------------------------------------
(* Mutant: new_best is set before the limits are checked, so the height  *)
(* that breaks the loop is taken as well.                                  *)
DaLoopBestBeforeBreak(prev, highest) ==
    LET acc[h \in prev..highest] ==
          IF h = prev
            THEN [cost |-> 0, txs |-> 0, best |-> prev, stop |-> FALSE]
            ELSE LET a == acc[h - 1]
                     cost == a.cost + DaCost[h]
                     txs == a.txs + DaTxs[h]
                 IN  IF a.stop THEN a
                     ELSE [cost |-> cost, txs |-> txs, best |-> h,
                           stop |-> cost > GasLimit \/ txs > TxLimit]
    IN  acc[highest].best

(* Mutant: the totals are assigned instead of accumulated, so each DA   *)
(* height is checked on its own.                                          *)
DaLoopNotCumulative(prev, highest) ==
    LET acc[h \in prev..highest] ==
          IF h = prev
            THEN [cost |-> 0, txs |-> 0, best |-> prev, stop |-> FALSE]
            ELSE LET a == acc[h - 1]
                     cost == DaCost[h]
                     txs == DaTxs[h]
                 IN  IF a.stop \/ cost > GasLimit \/ txs > TxLimit
                       THEN [a EXCEPT !.stop = TRUE]
                       ELSE [cost |-> cost, txs |-> txs, best |-> h,
                             stop |-> FALSE]
    IN  acc[highest].best

(* The loop of select_new_da_height over previous + 1 .. highest: add    *)
(* each height's cost and transaction count, break on the first that     *)
(* exceeds a limit, otherwise make it the new best.                       *)
DaLoop(prev, highest) ==
    LET acc[h \in prev..highest] ==
          IF h = prev
            THEN [cost |-> 0, txs |-> 0, best |-> prev, stop |-> FALSE]
            ELSE LET a == acc[h - 1]
                     cost == a.cost + DaCost[h]
                     txs == a.txs + DaTxs[h]
                 IN  IF a.stop \/ cost > GasLimit \/ txs > TxLimit
                       THEN [a EXCEPT !.stop = TRUE]
                       ELSE [cost |-> cost, txs |-> txs, best |-> h,
                             stop |-> FALSE]
    IN  acc[highest].best

(* The DA heights previous + 1 .. h fit into one block.                   *)
DaFits(prev, h) ==
    /\ SumFunctionOnSet(DaCost, (prev + 1)..h) <= GasLimit
    /\ SumFunctionOnSet(DaTxs, (prev + 1)..h) <= TxLimit

(* The call of c ends with an error: the guard is dropped.                *)
Fail(c) ==
    /\ phase' = [phase EXCEPT ![c] = "idle"]
    /\ lockHolder' = NoHolder
    /\ call' = [call EXCEPT ![c] = NoCall]

-----------------------------------------------------------------------------
Init ==
    /\ latest = 0
    /\ daAt = [h \in Heights |-> 0]
    /\ relayer = 0
    /\ lockHolder = NoHolder
    /\ phase = [c \in Caller |-> "idle"]
    /\ call = [c \in Caller |-> NoCall]
    /\ failures = 0

(* Mutant: the lock is not consulted (no try_lock).                       *)
RequestNoTryLock(c, h) ==
    /\ phase[c] = "idle"
    /\ lockHolder' = c
    /\ phase' = [phase EXCEPT ![c] = "source"]
    /\ call' = [call EXCEPT ![c].target = h]
    /\ UNCHANGED <<latest, daAt, relayer, failures>>

(* A caller asks for height h, computed from a chain it read earlier (so *)
(* possibly behind), and takes the production lock with try_lock.  When  *)
(* the lock is taken the call fails at once and nothing changes.         *)
Request(c, h) ==
    /\ phase[c] = "idle"
    /\ lockHolder = NoHolder
    /\ lockHolder' = c
    /\ phase' = [phase EXCEPT ![c] = "source"]
    /\ call' = [call EXCEPT ![c].target = h]
    /\ UNCHANGED <<latest, daAt, relayer, failures>>

(* produce_and_execute_predefined replays the predefined block of height *)
(* latest + 1: try_lock, then, with no await in between, the view, the   *)
(* previous block (MissingBlock unless it is committed), the height      *)
(* check and the mint; the block's own da_height is taken as it is.  For *)
(* any other height one of those checks fails and nothing changes.       *)
RequestPredefined(c) ==
    /\ phase[c] = "idle"
    /\ lockHolder = NoHolder
    /\ latest + 1 \in DOMAIN PredefinedDa
    /\ lockHolder' = c
    /\ phase' = [phase EXCEPT ![c] = "execute"]
    /\ call' = [call EXCEPT ![c] = [target |-> latest + 1, view |-> latest,
                                    prevDa |-> daAt[latest],
                                    highest |-> PredefinedDa[latest + 1],
                                    newDa |-> PredefinedDa[latest + 1],
                                    mode |-> "predefined"]]
    /\ UNCHANGED <<latest, daAt, relayer, failures>>

(* production_gas_price and the awaited tx_source have returned.          *)
SourceReady(c) ==
    /\ phase[c] = "source"
    /\ phase' = [phase EXCEPT ![c] = "view"]
    /\ UNCHANGED <<latest, daAt, relayer, lockHolder, call, failures>>

(* latest_view, then new_header's previous_block_info: the da_height of  *)
(* the block below the target (get_block) is the starting point of the   *)
(* DA selection.  Callers never ask beyond latest + 1 and the chain only *)
(* grows, so that block is always there and the MissingBlock error of    *)
(* get_block cannot happen here.                                         *)
ReadView(c) ==
    /\ phase[c] = "view"
    /\ call' = [call EXCEPT ![c].view = latest,
                            ![c].prevDa = daAt[call[c].target - 1]]
    /\ phase' = [phase EXCEPT ![c] = "da"]
    /\ UNCHANGED <<latest, daAt, relayer, lockHolder, failures>>

(* Mutant: the check of the header's height against the view is lost.    *)
SelectDaNoHeightCheck(c) ==
    /\ phase[c] = "da"
    /\ relayer >= call[c].prevDa
    /\ LET prev == call[c].prevDa
       IN  \E best \in prev..relayer :
             /\ best = IF relayer = prev THEN prev ELSE DaLoop(prev, relayer)
             /\ \/ /\ relayer # prev
                   /\ best = prev
                   /\ Fail(c)
                \/ /\ relayer = prev \/ best # prev
                   /\ call' = [call EXCEPT ![c].highest = relayer,
                                           ![c].newDa = best]
                   /\ phase' = [phase EXCEPT ![c] = "execute"]
                   /\ UNCHANGED lockHolder
    /\ UNCHANGED <<latest, daAt, relayer, failures>>

(* new_header_with_new_da_height: select_new_da_height from the previous *)
(* block's da_height under the block gas limit and u16::MAX - 1          *)
(* transactions, after wait_for_at_least_height returned the relayer's   *)
(* height (the result is named with the range it lies in); then the check that the header's height is above    *)
(* the view's latest height.  NO_NEW_DA_HEIGHT_FOUND and a height not    *)
(* above the view both end the call with an error.                        *)
SelectDa(c) ==
    /\ phase[c] = "da"
    /\ relayer >= call[c].prevDa
    /\ LET prev == call[c].prevDa
       IN  \E best \in prev..relayer :
             /\ best = IF relayer = prev THEN prev ELSE DaLoop(prev, relayer)
             /\ \/ /\ relayer # prev
                   /\ best = prev
                   /\ Fail(c)
                \/ /\ relayer = prev \/ best # prev
                   /\ call[c].target <= call[c].view
                   /\ Fail(c)
                \/ /\ relayer = prev \/ best # prev
                   /\ call[c].target > call[c].view
                   /\ call' = [call EXCEPT ![c].highest = relayer,
                                           ![c].newDa = best]
                   /\ phase' = [phase EXCEPT ![c] = "execute"]
                   /\ UNCHANGED lockHolder
    /\ UNCHANGED <<latest, daAt, relayer, failures>>

(* produce_without_commit returns the block; the guard is dropped as    *)
(* produce_and_execute returns it to the caller.                          *)
Execute(c) ==
    /\ phase[c] = "execute"
    /\ phase' = [phase EXCEPT ![c] = "produced"]
    /\ lockHolder' = NoHolder
    /\ UNCHANGED <<latest, daAt, relayer, call, failures>>

(* Mutant: the error path keeps the production lock.                      *)
ProdFailKeepsLock(c) ==
    /\ phase[c] \in {"source", "execute"}
    /\ failures < MaxFailures
    /\ failures' = failures + 1
    /\ phase' = [phase EXCEPT ![c] = "idle"]
    /\ call' = [call EXCEPT ![c] = NoCall]
    /\ UNCHANGED <<latest, daAt, relayer, lockHolder>>

(* The gas price, the tx source or the executor fails: the call returns *)
(* the error and the guard is dropped.                                    *)
ProdFail(c) ==
    /\ phase[c] \in {"source", "execute"}
    /\ failures < MaxFailures
    /\ failures' = failures + 1
    /\ Fail(c)
    /\ UNCHANGED <<latest, daAt, relayer>>

(* Mutant: the block is stored as the next height whatever its header    *)
(* says.                                                                   *)
CommitAsNext(c) ==
    /\ phase[c] = "produced"
    /\ latest' = latest + 1
    /\ daAt' = [daAt EXCEPT ![latest + 1] = call[c].newDa]
    /\ phase' = [phase EXCEPT ![c] = "idle"]
    /\ call' = [call EXCEPT ![c] = NoCall]
    /\ UNCHANGED <<relayer, lockHolder, failures>>

(* The importer commits a produced block if it extends the chain and    *)
(* rejects it otherwise.                                                  *)
Commit(c) ==
    /\ phase[c] = "produced"
    /\ \/ /\ call[c].target = latest + 1
          /\ latest' = call[c].target
          /\ daAt' = [daAt EXCEPT ![call[c].target] = call[c].newDa]
       \/ /\ call[c].target # latest + 1
          /\ UNCHANGED <<latest, daAt>>
    /\ phase' = [phase EXCEPT ![c] = "idle"]
    /\ call' = [call EXCEPT ![c] = NoCall]
    /\ UNCHANGED <<relayer, lockHolder, failures>>

(* The relayer finalizes another DA height.                               *)
RelayerSync ==
    /\ relayer < MaxDa
    /\ relayer' = relayer + 1
    /\ UNCHANGED <<latest, daAt, lockHolder, phase, call, failures>>

(* The heights a caller may ask for: the next one, or one already taken  *)
(* when the caller's reading of the chain is behind.                      *)
Requestable == 1..(IF latest < MaxHeight THEN latest + 1 ELSE MaxHeight)

Next ==
    \/ \E c \in Caller, h \in Requestable : Request(c, h)
    \/ \E c \in Caller : RequestPredefined(c)
    \/ \E c \in Caller : SourceReady(c)
    \/ \E c \in Caller : ReadView(c)
    \/ \E c \in Caller : SelectDa(c)
    \/ \E c \in Caller : Execute(c)
    \/ \E c \in Caller : ProdFail(c)
    \/ \E c \in Caller : Commit(c)
    \/ RelayerSync

Spec == Init /\ [][Next]_vars

(* The trigger loop asks for the next height.                             *)
Trigger(c) == latest < MaxHeight /\ Request(c, latest + 1)

(* A call in progress completes: the tx source, the relayer (whose height *)
(* is already at least the one waited for) and the executor answer, and  *)
(* the importer takes what is returned.  The trigger loop retries on each *)
(* tick; try_lock fails only while another call runs, so a retry made    *)
(* again and again eventually finds the lock free (strong fairness).      *)
Fairness ==
    /\ SF_vars(\E c \in Caller : Trigger(c))
    /\ \A c \in Caller :
         /\ WF_vars(SourceReady(c))
         /\ WF_vars(ReadView(c))
         /\ WF_vars(SelectDa(c))
         /\ WF_vars(Execute(c))
         /\ WF_vars(Commit(c))

LiveSpec == Spec /\ Fairness

-----------------------------------------------------------------------------
(* Type invariant.                                                         *)
TypeOK ==
    /\ latest \in Heights
    /\ daAt \in [Heights -> 0..MaxDa]
    /\ relayer \in 0..MaxDa
    /\ lockHolder \in Caller \cup {NoHolder}
    /\ phase \in [Caller -> Phases]
    /\ call \in [Caller -> Locals]
    /\ failures \in 0..MaxFailures

(* At most one produce_and_execute runs past try_lock at a time, and it   *)
(* is the lock's holder: the production lock serializes block production. *)
AtMostOneProducing ==
    \A c, d \in Caller :
        /\ phase[c] \in Busy => lockHolder = c
        /\ (phase[c] \in Busy /\ phase[d] \in Busy) => c = d

(* A block built and not yet committed extends the view it was built on: *)
(* its height is one above the view's latest (previous_block_info and    *)
(* the height check together), and the previous block it was built on is *)
(* still the chain's block at that height, although other calls may have *)
(* committed since the view was read.                                     *)
ProducedOnView ==
    \A c \in Caller :
        phase[c] \in {"execute", "produced"} =>
            /\ call[c].target = call[c].view + 1
            /\ daAt[call[c].target - 1] = call[c].prevDa

(* Every block the importer appends was built on the tip it extends: a   *)
(* call whose block is committed read its view at the committed height   *)
(* it goes on, and took that block's da_height as its previous one, even  *)
(* though the lock was dropped when produce_and_execute returned and     *)
(* other calls may have produced and committed in between.                *)
CommitsOnTip ==
    [][\A c \in Caller :
         (phase[c] = "produced" /\ phase'[c] = "idle" /\ latest' # latest)
            => /\ call[c].view = latest
               /\ call[c].prevDa = daAt[latest]]_vars

(* The committed chain: every block's da_height is at least its           *)
(* predecessor's, and the DA blocks it adds fit the block gas limit and   *)
(* the transaction limit (spec scenario E8).                              *)
ChainDaWithinLimits ==
    \A h \in 1..latest :
        /\ daAt[h - 1] <= daAt[h]
        /\ DaFits(daAt[h - 1], daAt[h])

(* The DA height a call chose is the best the relayer allowed: the       *)
(* highest one from the previous block's up to what                       *)
(* wait_for_at_least_height returned whose DA blocks all fit the limits,  *)
(* as the reference maximum over prefix sums defines it; the loop with   *)
(* its early break and the equal-height shortcut compute exactly that.   *)
DaSelectionIsBest ==
    \A c \in Caller :
        phase[c] \in {"execute", "produced"} /\ call[c].mode = "select" =>
            LET fitting == {h \in call[c].prevDa..call[c].highest :
                                DaFits(call[c].prevDa, h)}
            IN  /\ call[c].newDa \in fitting
                /\ \A h \in fitting : h <= call[c].newDa

(* The chain the producer promises (module Chain): blocks are appended one *)
(* at a time, each with a da_height not below its predecessor's whose DA *)
(* blocks fit the gas and transaction limits; committed blocks never     *)
(* change.  Producer implements it with latest and daAt mapped to        *)
(* themselves and the locks, phases and calls hidden.                     *)
AdmissibleDa(prev, d) == prev <= d /\ DaFits(prev, d)

Abstract == INSTANCE Chain WITH Admissible <- AdmissibleDa

(* Every behaviour of the producer, its callers and the importer is one  *)
(* of the abstract chain: the lock, the re-read view, the height check   *)
(* and the importer's rejection of stale blocks together refine it.      *)
ChainRefinement == Abstract!Spec

(* Under the fairness above, block production reaches the height bound:  *)
(* no DA selection error, lock leak or stale request stops the chain.    *)
ChainGrows == <>(latest = MaxHeight)

=============================================================================
