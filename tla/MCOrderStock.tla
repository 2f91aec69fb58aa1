---------------------------- MODULE MCOrderStock ----------------------------
(* TLC instance of OrderStock: orders and variants are interchangeable.       *)
EXTENDS OrderStock, TLC

Symmetry == Permutations(Orders) \cup Permutations(Variants)
=============================================================================
