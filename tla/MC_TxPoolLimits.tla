--------------------------- MODULE MC_TxPoolLimits ---------------------------
(***************************************************************************)
(* Instance of TxPool for the space limits.  Two roots r1 and r2 worth    *)
(* nothing, a child x, a root r3 worth a little, and a newcomer n worth   *)
(* more than all of them whose gas equals the pool's whole gas limit, so  *)
(* that find_free_space must evict every stored root to make room.  In   *)
(* the tree x spends r1's output only; in the diamond it spends the       *)
(* outputs of both r1 and r2, the shape of find_free_space's comment.     *)
(***************************************************************************)
EXTENDS TxPool, TLC

CONSTANTS r1, r2, r3, x, n

MCTx == {r1, r2, r3, x, n}
MCCoin == {"g1", "g2", "g3", "g4", "o1", "o2"}
MCGenesis == {"g1", "g2", "g3", "g4"}
MCInputsTree ==
    (r1 :> {"g1"}) @@ (r2 :> {"g2"}) @@ (r3 :> {"g3"}) @@ (x :> {"o1"})
    @@ (n :> {"g4"})
MCInputsDiamond ==
    (r1 :> {"g1"}) @@ (r2 :> {"g2"}) @@ (r3 :> {"g3"}) @@ (x :> {"o1", "o2"})
    @@ (n :> {"g4"})
MCOutputs ==
    (r1 :> {"o1"}) @@ (r2 :> {"o2"}) @@ (r3 :> {}) @@ (x :> {}) @@ (n :> {})
MCTxGas == (r1 :> 1) @@ (r2 :> 1) @@ (r3 :> 1) @@ (x :> 2) @@ (n :> 5)
MCTxBytes == [t \in MCTx |-> 1]
MCTxTip == (r1 :> 0) @@ (r2 :> 0) @@ (r3 :> 1) @@ (x :> 0) @@ (n :> 10)
MCBlobId == {"B"}
(* No blob transactions.                                                   *)
MCNoBlobs == [t \in MCTx |-> NoBlob]
=============================================================================
