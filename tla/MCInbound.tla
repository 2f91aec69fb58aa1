----------------------------- MODULE MCInbound ------------------------------
(* TLC instance of Inbound; workers and messages are interchangeable.        *)
EXTENDS Inbound, TLC

Symmetry == Permutations(Workers) \cup Permutations(Messages)
=============================================================================
