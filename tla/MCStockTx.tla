------------------------------ MODULE MCStockTx ------------------------------
(* TLC instances of StockTx: one product of two variants.                     *)
EXTENDS StockTx, TLC

CONSTANTS v1, v2, p1

Symmetry == Permutations(Txs) \cup Permutations(Orders)

OneProduct == [v \in Variants |-> p1]
Ids        == [r \in Products \cup Variants |-> IF r = v2 THEN 2 ELSE 1]
=============================================================================
