---------------------------- MODULE MC_Producer ----------------------------
(* Small instances of Producer: two callers (the trigger loop and manual  *)
(* production), three blocks above genesis and four DA heights.           *)
EXTENDS Producer, TLC

CONSTANTS p1, p2, none

MCCaller == {p1, p2}

(* DA heights 1..4 with their gas costs and transaction counts under a   *)
(* block gas limit of 2 and a transaction limit of 2: from 0 the tx      *)
(* limit stops the loop at 1, from 1 the gas limit stops it at 2 after   *)
(* the tx limit is reached exactly, and from 2 DA height 3 alone exceeds  *)
(* the gas limit.                                                          *)
MCDaCost == (1 :> 1) @@ (2 :> 1) @@ (3 :> 3) @@ (4 :> 1)
MCDaTxs == (1 :> 1) @@ (2 :> 2) @@ (3 :> 1) @@ (4 :> 1)

(* The same heights with a DA height 3 that fits on its own.              *)
MCDaCostFitting == (1 :> 1) @@ (2 :> 1) @@ (3 :> 2) @@ (4 :> 1)
(* Predefined blocks: one at height 1 with the genesis da_height, as a   *)
(* block produced from the same chain has; one at height 2 that keeps    *)
(* da_height 0, as a block produced from a chain whose block 1 did not   *)
(* move the DA height has; and none.                                      *)
MCPredefined == (1 :> 0)
MCPredefinedBehind == (2 :> 0)
MCNoPredefined == [h \in {} |-> 0]
=============================================================================
