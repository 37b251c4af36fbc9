-------------------------- MODULE Producer_proofs --------------------------
(***************************************************************************)
(* Proofs about the block producer model Producer, for every set of      *)
(* callers, every height and DA bound, every relayer cost table and every *)
(* set of predefined blocks that satisfy ProducerAssumption.              *)
(***************************************************************************)
EXTENDS Producer, TLAPS

(* What holds of one caller c: a call past try_lock has a height in      *)
(* range; until the view is read the height is at most one above the    *)
(* chain; once read, the view is not ahead of the chain, the height at   *)
(* most one above the view, and the recorded previous da_height is the   *)
(* chain's; past the height check the height is exactly one above the    *)
(* view; and a call between try_lock and its return holds the lock.      *)
CallInv(c) ==
    /\ phase[c] # "idle" => call[c].target \in 1..MaxHeight
    /\ phase[c] \in {"source", "view"} => call[c].target <= latest + 1
    /\ phase[c] \in {"da", "execute", "produced"} =>
         /\ call[c].view <= latest
         /\ call[c].target <= call[c].view + 1
         /\ daAt[call[c].target - 1] = call[c].prevDa
    /\ phase[c] \in {"execute", "produced"} =>
         call[c].target = call[c].view + 1
    /\ phase[c] \in Busy => lockHolder = c

(* The inductive invariant.                                                *)
Inv == TypeOK /\ \A c \in Caller : CallInv(c)

-----------------------------------------------------------------------------
(* The facts about the constants the proofs use.                           *)
LEMMA Bounds ==
    /\ MaxHeight \in Nat /\ MaxDa \in Nat /\ MaxFailures \in Nat
    /\ NoHolder \notin Caller
BY ProducerAssumption

(* A predefined block has a height in range and a da_height in range.     *)
LEMMA PredefinedRange ==
    \A h \in DOMAIN PredefinedDa : h \in 1..MaxHeight /\ PredefinedDa[h] \in 0..MaxDa
<1>1. PICK D \in SUBSET (1..MaxHeight) : PredefinedDa \in [D -> 0..MaxDa]
  BY ProducerAssumption
<1>. QED  BY <1>1

(* The starting state: no call in progress.                                *)
LEMMA NoCallType == NoCall \in Locals
BY Bounds DEF NoCall, Locals, Heights

(* Replacing the locals of one call keeps the locals of all calls typed. *)
LEMMA CallUpdate ==
    ASSUME NEW f \in [Caller -> Locals], NEW c \in Caller, NEW r \in Locals
    PROVE  [f EXCEPT ![c] = r] \in [Caller -> Locals]
OBVIOUS

(* The fields of a call's locals.                                          *)
LEMMA CallFields ==
    ASSUME TypeOK, NEW c \in Caller
    PROVE  /\ call[c].target \in Heights /\ call[c].view \in Heights
           /\ call[c].prevDa \in 0..MaxDa /\ call[c].newDa \in 0..MaxDa
BY Zenon DEF TypeOK, Locals

(* The field updates the producer makes to a call's locals.               *)
LEMMA LocalsUpdate ==
    ASSUME NEW r \in Locals
    PROVE  /\ \A h \in Heights : [r EXCEPT !.target = h] \in Locals
           /\ \A v \in Heights, p \in 0..MaxDa :
                [r EXCEPT !.view = v, !.prevDa = p] \in Locals
           /\ \A x, y \in 0..MaxDa :
                [r EXCEPT !.highest = x, !.newDa = y] \in Locals
BY Zenon DEF Locals

LEMMA InitInv == Init => Inv
<1> SUFFICES ASSUME Init PROVE Inv
  OBVIOUS
<1>1. daAt \in [Heights -> 0..MaxDa]
  BY Bounds DEF Init, Heights
<1>2. call \in [Caller -> Locals]
  BY NoCallType DEF Init
<1>3. TypeOK
  BY <1>1, <1>2, Bounds DEF Init, TypeOK, Heights, Phases
<1>4. \A c \in Caller : CallInv(c)
  BY DEF Init, CallInv, Busy
<1>. QED  BY <1>3, <1>4 DEF Inv

(* try_lock succeeds only when no call runs: no other caller is past it. *)
LEMMA FreeLockIdle ==
    ASSUME Inv, lockHolder = NoHolder, NEW d \in Caller
    PROVE  phase[d] \notin Busy
BY Bounds DEF Inv, CallInv

LEMMA RequestStep ==
    ASSUME Inv, NEW c \in Caller, NEW h \in Requestable, Request(c, h)
    PROVE  Inv'
<1> USE Bounds
<1>1. TypeOK'
  <2>1. h \in Heights
    BY DEF Requestable, Heights, Inv, TypeOK
  <2>2. call' = [call EXCEPT ![c] = [call[c] EXCEPT !.target = h]]
    BY Zenon DEF Request
  <2>3. call' \in [Caller -> Locals]
    BY Zenon, <2>1, <2>2, CallUpdate, LocalsUpdate DEF Inv, TypeOK
  <2>. QED
    BY <2>3 DEF Inv, TypeOK, Request, Phases
<1>2. SUFFICES ASSUME NEW d \in Caller PROVE CallInv(d)'
  BY <1>1 DEF Inv
<1>3. CASE d = c
  <2>1. call'[c].target = h
    <3>1. call'[c] = [call[c] EXCEPT !.target = h]
      BY DEF Request, Inv, TypeOK
    <3>2. call[c] \in Locals
      BY DEF Inv, TypeOK
    <3>. QED  BY <3>1, <3>2 DEF Locals
  <2>2. h \in 1..MaxHeight /\ h <= latest + 1
    BY DEF Requestable, Inv, TypeOK, Heights
  <2>3. phase'[c] = "source" /\ lockHolder' = c /\ latest' = latest
    BY DEF Request, Inv, TypeOK
  <2>4. /\ phase'[c] # "idle" /\ phase'[c] \in {"source", "view"}
        /\ phase'[c] \notin {"da", "execute", "produced"}
    BY <2>3
  <2>. QED  BY <1>3, <2>1, <2>2, <2>3, <2>4 DEF CallInv
<1>4. CASE d # c
  <2>1. phase[d] \notin Busy
    BY FreeLockIdle DEF Request
  <2>. QED
    BY <1>4, <2>1 DEF Inv, TypeOK, CallInv, Request, Busy
<1>. QED  BY <1>3, <1>4

LEMMA RequestPredefinedStep ==
    ASSUME Inv, NEW c \in Caller, RequestPredefined(c)
    PROVE  Inv'
<1> USE Bounds
<1>1. PredefinedDa[latest + 1] \in 0..MaxDa /\ latest + 1 \in 1..MaxHeight
  BY PredefinedRange DEF RequestPredefined
<1>2. TypeOK'
  BY SMTT(30), <1>1 DEF Inv, TypeOK, RequestPredefined, Locals, Heights, Phases
<1>3. SUFFICES ASSUME NEW d \in Caller PROVE CallInv(d)'
  BY <1>2 DEF Inv
<1>4. CASE d = c
  BY <1>1, <1>4 DEF Inv, TypeOK, CallInv, RequestPredefined, Busy, Locals,
                    Heights
<1>5. CASE d # c
  <2>1. phase[d] \notin Busy
    BY FreeLockIdle DEF RequestPredefined
  <2>. QED
    BY <1>5, <2>1 DEF Inv, TypeOK, CallInv, RequestPredefined, Busy
<1>. QED  BY <1>4, <1>5

LEMMA SourceReadyStep ==
    ASSUME Inv, NEW c \in Caller, SourceReady(c)
    PROVE  Inv'
BY Bounds DEF Inv, TypeOK, CallInv, SourceReady, Phases, Busy

LEMMA ReadViewStep ==
    ASSUME Inv, NEW c \in Caller, ReadView(c)
    PROVE  Inv'
<1> USE Bounds
<1>1. call[c].target \in 1..MaxHeight /\ call[c].target <= latest + 1
  BY DEF Inv, CallInv, ReadView
<1>2. daAt[call[c].target - 1] \in 0..MaxDa /\ latest \in Heights
  BY <1>1 DEF Inv, TypeOK, Heights
<1>3. call' = [call EXCEPT ![c] = [call[c] EXCEPT !.view = latest,
                               !.prevDa = daAt[call[c].target - 1]]]
  BY Zenon DEF ReadView
<1>4. TypeOK'
  <2>1. call' \in [Caller -> Locals]
    BY Zenon, <1>2, <1>3, CallUpdate, LocalsUpdate DEF Inv, TypeOK
  <2>. QED
    BY <2>1 DEF Inv, TypeOK, ReadView, Phases
<1>5. SUFFICES ASSUME NEW d \in Caller PROVE CallInv(d)'
  BY <1>4 DEF Inv
<1>6. CASE d = c
  BY <1>1, <1>3, <1>6 DEF Inv, TypeOK, CallInv, ReadView, Locals, Heights, Busy
<1>7. CASE d # c
  BY <1>3, <1>7 DEF Inv, TypeOK, CallInv, ReadView, Busy
<1>. QED  BY <1>6, <1>7

LEMMA SelectDaStep ==
    ASSUME Inv, NEW c \in Caller, SelectDa(c)
    PROVE  Inv'
<1> USE Bounds
<1>. DEFINE prev == call[c].prevDa
<1>1. PICK best \in prev..relayer :
        \/ /\ relayer # prev /\ best = prev /\ Fail(c)
        \/ /\ relayer = prev \/ best # prev
           /\ call[c].target <= call[c].view /\ Fail(c)
        \/ /\ relayer = prev \/ best # prev
           /\ call[c].target > call[c].view
           /\ call' = [call EXCEPT ![c].highest = relayer, ![c].newDa = best]
           /\ phase' = [phase EXCEPT ![c] = "execute"]
           /\ UNCHANGED lockHolder
  BY Zenon DEF SelectDa
<1>2. UNCHANGED <<latest, daAt, relayer, failures>> /\ phase[c] = "da"
  BY DEF SelectDa
<1>3. CASE Fail(c)
  <2>1. TypeOK'
    BY <1>2, <1>3, NoCallType, CallUpdate DEF Inv, TypeOK, Fail, Phases
  <2>2. SUFFICES ASSUME NEW d \in Caller PROVE CallInv(d)'
    BY <2>1 DEF Inv
  <2>3. CASE d = c
    BY <1>3, <2>3 DEF Fail, Inv, TypeOK, CallInv, Busy
  <2>4. CASE d # c
    <3>1. phase[d] \notin Busy
      BY <1>2, <2>4 DEF Inv, CallInv, Busy
    <3>. QED  BY <1>2, <1>3, <2>4, <3>1 DEF Fail, Inv, TypeOK, CallInv
  <2>. QED  BY <2>3, <2>4
<1>4. CASE /\ call[c].target > call[c].view
           /\ call' = [call EXCEPT ![c].highest = relayer, ![c].newDa = best]
           /\ phase' = [phase EXCEPT ![c] = "execute"]
           /\ UNCHANGED lockHolder
  <2>1. best \in 0..MaxDa /\ relayer \in 0..MaxDa
    BY DEF Inv, TypeOK, Locals
  <2>2. call' = [call EXCEPT ![c] = [call[c] EXCEPT !.highest = relayer,
                                                  !.newDa = best]]
    BY Zenon, <1>4
  <2>3. TypeOK'
    <3>1. call' \in [Caller -> Locals]
      BY Zenon, <2>1, <2>2, CallUpdate, LocalsUpdate DEF Inv, TypeOK
    <3>. QED
      BY <1>2, <1>4, <3>1 DEF Inv, TypeOK, Phases
  <2>4. SUFFICES ASSUME NEW d \in Caller PROVE CallInv(d)'
    BY <2>3 DEF Inv
  <2>5. CASE d = c
    <3>1. /\ call'[c].target = call[c].target
          /\ call'[c].view = call[c].view
          /\ call'[c].prevDa = call[c].prevDa
      BY <2>2 DEF Inv, TypeOK, Locals
    <3>2. call[c].target \in Nat /\ call[c].view \in Nat
      BY CallFields DEF Inv, Heights
    <3>. QED
      BY <1>2, <1>4, <2>5, <3>1, <3>2 DEF Inv, CallInv, Busy
  <2>6. CASE d # c
    BY <1>2, <1>4, <2>2, <2>6 DEF Inv, TypeOK, CallInv, Busy
  <2>. QED  BY <2>5, <2>6
<1>. QED  BY <1>1, <1>3, <1>4

LEMMA ExecuteStep ==
    ASSUME Inv, NEW c \in Caller, Execute(c)
    PROVE  Inv'
BY Bounds DEF Inv, TypeOK, CallInv, Execute, Phases, Busy

LEMMA ProdFailStep ==
    ASSUME Inv, NEW c \in Caller, ProdFail(c)
    PROVE  Inv'
BY SMTT(30), Bounds DEF Inv, TypeOK, CallInv, ProdFail, Fail, Locals, NoCall,
                          Heights, Phases, Busy

LEMMA CommitStep ==
    ASSUME Inv, NEW c \in Caller, Commit(c)
    PROVE  Inv'
<1> USE Bounds
<1>1. /\ phase' = [phase EXCEPT ![c] = "idle"]
      /\ call' = [call EXCEPT ![c] = NoCall]
      /\ UNCHANGED <<relayer, lockHolder, failures>>
      /\ call[c].target \in 1..MaxHeight
      /\ call[c].newDa \in 0..MaxDa
  BY DEF Commit, Inv, CallInv, TypeOK, Locals
<1>2. CASE /\ call[c].target = latest + 1
           /\ latest' = call[c].target
           /\ daAt' = [daAt EXCEPT ![call[c].target] = call[c].newDa]
  <2>1. TypeOK'
    <3>1. call[c].target \in Heights
      BY <1>1 DEF Heights
    <3>2. daAt' \in [Heights -> 0..MaxDa]
      BY <1>1, <1>2, <3>1 DEF Inv, TypeOK
    <3>3. call' \in [Caller -> Locals]
      BY <1>1, NoCallType, CallUpdate DEF Inv, TypeOK
    <3>. QED
      BY <1>1, <1>2, <3>1, <3>2, <3>3 DEF Inv, TypeOK, Phases
  <2>2. SUFFICES ASSUME NEW d \in Caller PROVE CallInv(d)'
    BY <2>1 DEF Inv
  <2>3. CASE d = c
    BY <1>1, <1>2, <2>3 DEF Inv, TypeOK, CallInv, Phases, Busy
  <2>4. CASE d # c
    <3>1. phase[d] \in {"da", "execute", "produced"} =>
            call[d].target - 1 \in 0..latest
      <4>1. CallInv(d) /\ TypeOK
        BY DEF Inv
      <4>2. call[d].view \in Nat /\ call[d].target \in Nat /\ latest \in Nat
        BY <4>1, CallFields DEF TypeOK, Heights
      <4>. QED  BY <4>1, <4>2 DEF CallInv
    <3>2. /\ phase'[d] = phase[d] /\ call'[d] = call[d]
          /\ \A i \in 0..latest : daAt'[i] = daAt[i]
      BY <1>1, <1>2, <2>4 DEF Inv, TypeOK, Heights
    <3>3. latest \in Nat /\ latest' = latest + 1
      BY <1>2 DEF Inv, TypeOK, Heights
    <3>. QED
      BY <1>1, <3>1, <3>2, <3>3, CallFields DEF Inv, CallInv, Heights
  <2>. QED  BY <2>3, <2>4
<1>3. CASE UNCHANGED <<latest, daAt>>
  <2>1. TypeOK'
    BY <1>1, <1>3, NoCallType, CallUpdate DEF Inv, TypeOK, Phases
  <2>2. SUFFICES ASSUME NEW d \in Caller PROVE CallInv(d)'
    BY <2>1 DEF Inv
  <2>. QED
    BY <1>1, <1>3 DEF Inv, TypeOK, CallInv, Busy
<1>. QED  BY <1>2, <1>3 DEF Commit

LEMMA RelayerSyncStep ==
    ASSUME Inv, RelayerSync
    PROVE  Inv'
BY Bounds DEF Inv, TypeOK, CallInv, RelayerSync

(* Every step of the producer, its callers, the relayer and the importer *)
(* keeps Inv.                                                              *)
LEMMA NextInv == Inv /\ [Next]_vars => Inv'
<1> SUFFICES ASSUME Inv, [Next]_vars PROVE Inv'
  OBVIOUS
<1>1. CASE UNCHANGED vars
  BY <1>1 DEF vars, Inv, TypeOK, CallInv
<1>. QED
  BY <1>1, RequestStep, RequestPredefinedStep, SourceReadyStep, ReadViewStep,
     SelectDaStep, ExecuteStep, ProdFailStep, CommitStep, RelayerSyncStep
     DEF Next

THEOREM InvHolds == Spec => []Inv
BY InitInv, NextInv, PTL DEF Spec

(* Type correctness of the producer model: the chain, the lock, the      *)
(* phases and the locals of every call stay in their types, whatever the *)
(* constants.                                                              *)
THEOREM TypeCorrect == Spec => []TypeOK
BY InvHolds, PTL DEF Inv

(* The production lock of produce_and_execute (try_lock, held until the  *)
(* call returns) serializes production: at most one call is past         *)
(* try_lock, and it holds the lock, for any number of callers.           *)
THEOREM AtMostOneProducingHolds == Spec => []AtMostOneProducing
<1>1. Inv => AtMostOneProducing
  BY DEF Inv, CallInv, AtMostOneProducing
<1>. QED  BY <1>1, InvHolds, PTL

(* A block returned by produce_and_execute is one above the view it was  *)
(* built on and on the previous block that is still committed: re-reading *)
(* the view after the tx source, and the height check, keep a stale       *)
(* request from building on a chain that has moved, for any heights.      *)
THEOREM ProducedOnViewHolds == Spec => []ProducedOnView
<1>1. Inv => ProducedOnView
  BY DEF Inv, CallInv, ProducedOnView
<1>. QED  BY <1>1, InvHolds, PTL

-----------------------------------------------------------------------------
(* Only a commit that extends the chain moves its latest height.         *)
LEMMA LatestMovesOnCommit ==
    ASSUME [Next]_vars, latest' # latest
    PROVE  \E d \in Caller : Commit(d) /\ call[d].target = latest + 1
<1>1. \A d \in Caller : Commit(d) /\ call[d].target # latest + 1 => latest' = latest
  BY DEF Commit
<1> QED
  BY Zenon, <1>1 DEF Next, vars, Request, RequestPredefined, SourceReady, ReadView,
     SelectDa, Execute, ProdFail, RelayerSync

(* The step form of CommitsOnTip follows from Inv.                        *)
LEMMA CommitsOnTipStep ==
    Inv /\ [Next]_vars =>
      [\A c \in Caller :
         (phase[c] = "produced" /\ phase'[c] = "idle" /\ latest' # latest)
            => /\ call[c].view = latest
               /\ call[c].prevDa = daAt[latest]]_vars
<1> SUFFICES ASSUME Inv, [Next]_vars, NEW c \in Caller,
                    phase[c] = "produced", phase'[c] = "idle", latest' # latest
             PROVE  /\ call[c].view = latest
                    /\ call[c].prevDa = daAt[latest]
  OBVIOUS
<1>1. PICK d \in Caller : Commit(d) /\ call[d].target = latest + 1
  BY LatestMovesOnCommit
<1>2. d = c
  <2>1. d # c => phase'[c] = phase[c]
    BY <1>1 DEF Commit, Inv, TypeOK
  <2> QED
    BY <2>1
<1>3. /\ call[c].target = call[c].view + 1
      /\ daAt[call[c].target - 1] = call[c].prevDa
  BY DEF Inv, CallInv
<1>4. call[c].view \in Nat /\ latest \in Nat
  BY CallFields DEF Inv, TypeOK, Heights
<1>5. call[c].view = latest /\ call[c].target - 1 = latest
  BY <1>1, <1>2, <1>3, <1>4
<1> QED
  BY <1>3, <1>5

(* The importer only ever appends a block built on the tip it extends:   *)
(* the call whose block is committed read its view at the current latest *)
(* height and started from that block's da_height, for any number of     *)
(* callers and any heights, although the production lock is dropped      *)
(* before the block reaches the importer.                                 *)
THEOREM CommitsOnTipHolds == Spec => CommitsOnTip
BY InvHolds, CommitsOnTipStep, PTL DEF Spec, CommitsOnTip

=============================================================================
