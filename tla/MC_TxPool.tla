------------------------------ MODULE MC_TxPool ------------------------------
(***************************************************************************)
(* Instance of TxPool for TLC.  Four transactions over two genesis coins: *)
(*   a spends g1 and creates oa;  b spends oa (a child of a);              *)
(*   c spends g1 (collides with a, with a better tip/gas ratio);          *)
(*   d spends g2 (independent, worth the least).                           *)
(* The pool holds at most 3 transactions and 4 gas, so a full pool and    *)
(* eviction by ratio are reached; a block holds at most 2 transactions.   *)
(* In the producer runs c and d also register the same blob id.           *)
(***************************************************************************)
EXTENDS TxPool, TLC

CONSTANTS a, b, c, d

MCTx == {a, b, c, d}
MCCoin == {"g1", "g2", "oa", "ob"}
MCGenesis == {"g1", "g2"}
MCInputs == (a :> {"g1"}) @@ (b :> {"oa"}) @@ (c :> {"g1"}) @@ (d :> {"g2"})
MCOutputs == (a :> {"oa"}) @@ (b :> {"ob"}) @@ (c :> {}) @@ (d :> {})
MCTxGas == (a :> 2) @@ (b :> 1) @@ (c :> 1) @@ (d :> 1)
MCTxBytes == (a :> 1) @@ (b :> 1) @@ (c :> 1) @@ (d :> 1)
MCTxTip == (a :> 2) @@ (b :> 1) @@ (c :> 3) @@ (d :> 0)
MCBlobId == {"B"}
(* No blob transactions.                                                   *)
MCNoBlobs == [t \in MCTx |-> NoBlob]
(* c and d are blob transactions registering the same blob id.            *)
MCBlobsCD == (a :> NoBlob) @@ (b :> NoBlob) @@ (c :> "B") @@ (d :> "B")
=============================================================================
