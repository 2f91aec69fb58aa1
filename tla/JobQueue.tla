------------------------------ MODULE JobQueue ------------------------------
(* The jobs table and the workers that share it (app/services/queue.py).      *)
(* A worker claims a row, runs its handler outside any transaction of the     *)
(* queue, and then writes down how it went.  A worker that dies leaves its    *)
(* row "running"; the row comes back once its lease has lapsed -- whether its *)
(* worker died or is merely slow.                                             *)
EXTENDS Integers, FiniteSets

CONSTANTS
    Jobs,           \* job rows
    Workers,        \* drainer threads and worker processes
    NoJob,          \* what an idle worker holds
    MaxAttempts,    \* Job.max_attempts of each row
    Unhandled,      \* rows whose kind has no registered handler
    MaxCrashes,     \* bound: worker deaths
    MaxClaims       \* bound: claims of one row

ASSUME NoJobAssumption == NoJob \notin Jobs
ASSUME MaxAttemptsAssumption == MaxAttempts \in [Jobs -> Nat \ {0}]
ASSUME WorkersAssumption == IsFiniteSet(Workers)

VARIABLES
    status,     \* Job.status; "absent" before enqueue, "pruned" once deleted
    attempts,   \* Job.attempts
    due,        \* whether Job.run_after has come
    lapsed,     \* whether Job.locked_at is older than the lease
    holds,      \* the job each worker has in hand
    pc,         \* where each worker is with it
    performed,  \* history: how often each job's handler ran to its end
    released,   \* history: how often release_stuck took each job back
    crashes     \* history: worker deaths so far

rows == <<status, attempts, due, lapsed>>
vars == <<status, attempts, due, lapsed, holds, pc, performed, released, crashes>>

Finished == {"succeeded", "failed"}
Statuses == {"absent", "pending", "running", "pruned"} \cup Finished

HeldBy(j) == {w \in Workers : holds[w] = j}

Init ==
    /\ status    = [j \in Jobs |-> "absent"]
    /\ attempts  = [j \in Jobs |-> 0]
    /\ due       = [j \in Jobs |-> FALSE]
    /\ lapsed    = [j \in Jobs |-> FALSE]
    /\ holds     = [w \in Workers |-> NoJob]
    /\ pc        = [w \in Workers |-> "idle"]
    /\ performed = [j \in Jobs |-> 0]
    /\ released  = [j \in Jobs |-> 0]
    /\ crashes   = 0

\* Visible with the commit of whatever prompted it, due at once or later.
Enqueue(j) ==
    /\ status[j] = "absent"
    /\ status' = [status EXCEPT ![j] = "pending"]
    /\ \E now \in BOOLEAN : due' = [due EXCEPT ![j] = now]
    /\ UNCHANGED <<attempts, lapsed, holds, pc, performed, released, crashes>>

BecomesDue(j) ==
    /\ status[j] = "pending"
    /\ ~due[j]
    /\ due' = [due EXCEPT ![j] = TRUE]
    /\ UNCHANGED <<status, attempts, lapsed, holds, pc, performed, released, crashes>>

\* Mutant: a claim that forgets to ask for pending rows.
DueInAnyState(j) == status[j] \notin {"absent", "pruned"} /\ due[j]

Claimable(j) == status[j] = "pending" /\ due[j]

(* SKIP LOCKED and the commit make the claim one step; it looks at the row's  *)
(* status only, never at how many attempts it has had.                        *)
Claim(w, j) ==
    /\ pc[w] = "idle"
    /\ Claimable(j)
    /\ attempts[j] < MaxClaims
    /\ status'   = [status EXCEPT ![j] = "running"]
    /\ attempts' = [attempts EXCEPT ![j] = @ + 1]
    /\ lapsed'   = [lapsed EXCEPT ![j] = FALSE]
    /\ holds'    = [holds EXCEPT ![w] = j]
    /\ pc'       = [pc EXCEPT ![w] = "running"]
    /\ UNCHANGED <<due, performed, released, crashes>>

HandlerReturns(w) ==
    /\ pc[w] = "running"
    /\ holds[w] \notin Unhandled
    /\ pc'        = [pc EXCEPT ![w] = "returned"]
    /\ performed' = [performed EXCEPT ![holds[w]] = @ + 1]
    /\ UNCHANGED <<status, attempts, due, lapsed, holds, released, crashes>>

\* Mutant: the exception escapes and the worker idles with the job in hand.
HandlerEscapes(w) ==
    /\ pc[w] = "running"
    /\ pc' = [pc EXCEPT ![w] = "idle"]
    /\ UNCHANGED <<status, attempts, due, lapsed, holds, performed, released, crashes>>

HandlerRaises(w) ==
    /\ pc[w] = "running"
    /\ holds[w] \notin Unhandled
    /\ pc' = [pc EXCEPT ![w] = "raised"]
    /\ UNCHANGED <<status, attempts, due, lapsed, holds, performed, released, crashes>>

(* _finish writes the row by its id, whoever it belongs to by then.  A row    *)
(* that was pruned meanwhile is not there to write.                           *)
Finish(w, outcome) ==
    LET j == holds[w]
    IN  /\ status' = IF status[j] = "pruned" THEN status
                     ELSE [status EXCEPT ![j] = outcome]
        /\ lapsed' = [lapsed EXCEPT ![j] = FALSE]
        /\ due'    = IF outcome = "pending" THEN [due EXCEPT ![j] = FALSE] ELSE due
        /\ holds'  = [holds EXCEPT ![w] = NoJob]
        /\ pc'     = [pc EXCEPT ![w] = "idle"]
        /\ UNCHANGED <<attempts, performed, released, crashes>>

\* Mutants: success is not written down; one attempt too many; a job nobody
\* handles passes for done.
FinishAgain(w) == pc[w] = "returned" /\ Finish(w, "pending")

FinishFailedLate(w) ==
    /\ pc[w] = "raised"
    /\ Finish(w, IF attempts[holds[w]] > MaxAttempts[holds[w]] THEN "failed" ELSE "pending")

FinishQuietly(w) ==
    /\ pc[w] = "running"
    /\ holds[w] \in Unhandled
    /\ Finish(w, "succeeded")

FinishSucceeded(w) == pc[w] = "returned" /\ Finish(w, "succeeded")

\* The row is read again after the rollback, so the attempts are the row's own.
FinishFailed(w) ==
    /\ pc[w] = "raised"
    /\ Finish(w, IF attempts[holds[w]] >= MaxAttempts[holds[w]] THEN "failed" ELSE "pending")

FinishUnhandled(w) ==
    /\ pc[w] = "running"
    /\ holds[w] \in Unhandled
    /\ Finish(w, "failed")

-----------------------------------------------------------------------------
(* A worker dies (and is started again) with a job in hand.                   *)
Crash(w) ==
    /\ pc[w] # "idle"
    /\ crashes < MaxCrashes
    /\ crashes' = crashes + 1
    /\ holds'   = [holds EXCEPT ![w] = NoJob]
    /\ pc'      = [pc EXCEPT ![w] = "idle"]
    /\ UNCHANGED <<status, attempts, due, lapsed, performed, released>>

\* Time passes; nothing renews the lease of a handler that is still running.
LeaseLapses(j) ==
    /\ status[j] = "running"
    /\ ~lapsed[j]
    /\ lapsed' = [lapsed EXCEPT ![j] = TRUE]
    /\ UNCHANGED <<status, attempts, due, holds, pc, performed, released, crashes>>

\* Mutant: release_stuck finds nothing.
NothingStuck == {}

Stuck == {j \in Jobs : status[j] = "running" /\ lapsed[j]}

ReleaseStuck ==
    /\ Stuck # {}
    /\ status' = [j \in Jobs |-> IF j \in Stuck THEN "pending" ELSE status[j]]
    /\ lapsed' = [j \in Jobs |-> IF j \in Stuck THEN FALSE ELSE lapsed[j]]
    /\ released' = [j \in Jobs |-> released[j] + IF j \in Stuck THEN 1 ELSE 0]
    /\ UNCHANGED <<attempts, due, holds, pc, performed, crashes>>

\* Retention is days, so nobody still holds a row when it is old enough.
PruneFinished(old) ==
    /\ old # {}
    /\ \A j \in old : status[j] \in Finished /\ HeldBy(j) = {}
    /\ status' = [j \in Jobs |-> IF j \in old THEN "pruned" ELSE status[j]]
    /\ UNCHANGED <<attempts, due, lapsed, holds, pc, performed, released, crashes>>

WorkerStep(w) ==
    \/ \E j \in Jobs : Claim(w, j)
    \/ HandlerReturns(w)
    \/ HandlerRaises(w)
    \/ FinishSucceeded(w)
    \/ FinishFailed(w)
    \/ FinishUnhandled(w)

Next ==
    \/ \E j \in Jobs : Enqueue(j) \/ BecomesDue(j) \/ LeaseLapses(j)
    \/ \E w \in Workers : WorkerStep(w) \/ Crash(w)
    \/ ReleaseStuck
    \/ \E old \in SUBSET Jobs : PruneFinished(old)

Spec == Init /\ [][Next]_vars

(* Clocks advance; a worker with a job in hand gets on with it; the work loop *)
(* reaps every lease period; and rows are claimed ORDER BY run_after, so a    *)
(* row that keeps becoming claimable is eventually the oldest and is taken.   *)
Fairness ==
    /\ \A j \in Jobs : WF_vars(BecomesDue(j)) /\ WF_vars(LeaseLapses(j))
    /\ \A j \in Jobs : SF_vars(\E w \in Workers : Claim(w, j))
    /\ \A w \in Workers : WF_vars(pc[w] # "idle" /\ WorkerStep(w))
    /\ WF_vars(ReleaseStuck)

FairSpec == Spec /\ Fairness

-----------------------------------------------------------------------------
(* The type of every variable.                                                *)
TypeOK ==
    /\ status    \in [Jobs -> Statuses]
    /\ attempts  \in [Jobs -> Nat]
    /\ due       \in [Jobs -> BOOLEAN]
    /\ lapsed    \in [Jobs -> BOOLEAN]
    /\ holds     \in [Workers -> Jobs \cup {NoJob}]
    /\ pc        \in [Workers -> {"idle", "running", "returned", "raised"}]
    /\ \A w \in Workers : pc[w] = "idle" <=> holds[w] = NoJob
    /\ performed \in [Jobs -> Nat]
    /\ released  \in [Jobs -> Nat]
    /\ crashes   \in Nat

(* A job is in the hands of one worker (models/job.py: the table is shared    *)
(* "without handing the same job to two of them"), and of one more for each   *)
(* time its lease lapsed and release_stuck took it back.                      *)
SharedOnlyAfterRelease == \A j \in Jobs : Cardinality(HeldBy(j)) <= 1 + released[j]

(* A job is marked succeeded only if its handler did run to its end, through  *)
(* any number of crashes, releases, retries and late outcomes.                *)
SucceededWasPerformed ==
    \A j \in Jobs : status[j] = "succeeded" => performed[j] >= 1

(* A handler runs to its end again only because the job was taken back once   *)
(* more: exactly-once while no lease lapses, at-least-once when one does.     *)
RepeatsOnlyAfterRelease == \A j \in Jobs : performed[j] <= 1 + released[j]

(* Attempts stop at max_attempts; each release adds at most one, so a job     *)
(* that kills its worker is not stopped by max_attempts at all.               *)
AttemptsAccountedFor == \A j \in Jobs : attempts[j] <= MaxAttempts[j] + released[j]

(* A finished job is never run, retried or rewritten, only pruned -- unless   *)
(* it was taken back from a worker, whose late outcome may overwrite it.      *)
FinishedStaysFinished ==
    [][\A j \in Jobs : status[j] \in Finished /\ released[j] = 0
                         => status'[j] \in {status[j], "pruned"}]_vars

(* Every job that was queued comes to an end, whatever crashes in between.    *)
EveryJobSettles ==
    \A j \in Jobs : status[j] = "pending" ~> status[j] \in Finished \cup {"pruned"}
=============================================================================
