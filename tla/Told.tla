-------------------------------- MODULE Told --------------------------------
(* What customer_updates promises the customer of an order: a piece of news   *)
(* is told while it is true, and told once.  It is told again only when the   *)
(* record of having told it was lost.                                         *)
EXTENDS Integers

CONSTANT News

VARIABLES
    told,   \* how often the customer was told each piece of news
    lost,   \* how often the record of that was lost
    true    \* what is true of the order

toldVars == <<told, lost, true>>

ToldInit ==
    /\ told = [n \in News |-> 0]
    /\ lost = [n \in News |-> 0]
    /\ true = {}

Tell(n) ==
    /\ n \in true
    /\ told[n] = lost[n]
    /\ told' = [told EXCEPT ![n] = @ + 1]
    /\ UNCHANGED <<lost, true>>

LoseRecord(n) ==
    /\ told[n] = lost[n] + 1
    /\ lost' = [lost EXCEPT ![n] = @ + 1]
    /\ UNCHANGED <<told, true>>

OrderChanges ==
    /\ true' \in SUBSET News
    /\ UNCHANGED <<told, lost>>

ToldNext == OrderChanges \/ \E n \in News : Tell(n) \/ LoseRecord(n)

ToldSpec == ToldInit /\ [][ToldNext]_toldVars
=============================================================================
