----------------------------- MODULE MCJobQueue -----------------------------
(* TLC instance of JobQueue: a job that may be tried twice, and one of a kind *)
(* nobody handles any more.                                                   *)
EXTENDS JobQueue

CONSTANTS reply, retired

JobLimits == [j \in Jobs |-> IF j = reply THEN 2 ELSE 1]
=============================================================================
