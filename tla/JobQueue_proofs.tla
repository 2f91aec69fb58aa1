--------------------------- MODULE JobQueue_proofs ---------------------------
(* Proofs about JobQueue for any set of rows, any finite set of workers, any  *)
(* attempt limits, and handlers that may be slower than their lease.          *)
(*                                                                            *)
(* The argument counts claims to a job.  A job starts with one; whoever holds *)
(* it has one, and so has its row while it waits or is done.  A claim, a      *)
(* retry and an outcome hand the claim on; only release_stuck makes another.  *)
EXTENDS JobQueue, FiniteSetTheorems, TLAPS

Unreturned(j) == {w \in HeldBy(j) : pc[w] # "returned"}

Waiting(j) == IF status[j] = "pending" THEN 1 ELSE 0
Resting(j) == IF status[j] \in {"pending"} \cup Finished THEN 1 ELSE 0

\* Claims to the job, and claims to another run of its handler.
ClaimsBounded == \A j \in Jobs : Cardinality(HeldBy(j)) + Resting(j) <= 1 + released[j]
RunsBounded ==
    \A j \in Jobs : performed[j] + Cardinality(Unreturned(j)) + Waiting(j) <= 1 + released[j]

ReturnedWasPerformed ==
    \A w \in Workers : pc[w] = "returned" => performed[holds[w]] >= 1

\* A row that waits has an attempt to spare.
AttemptToSpare ==
    \A j \in Jobs : status[j] = "pending" => attempts[j] < MaxAttempts[j] + released[j]

AbsentIsNew ==
    \A j \in Jobs : status[j] = "absent" =>
        attempts[j] = 0 /\ performed[j] = 0 /\ HeldBy(j) = {}

IInv ==
    /\ TypeOK
    /\ ClaimsBounded
    /\ RunsBounded
    /\ ReturnedWasPerformed
    /\ SucceededWasPerformed
    /\ AttemptToSpare
    /\ AttemptsAccountedFor
    /\ AbsentIsNew

-----------------------------------------------------------------------------
(* Typing.                                                                    *)

LEMMA InitTyped == Init => TypeOK
BY NoJobAssumption DEF Init, TypeOK, Statuses, Finished

LEMMA NextTyped == TypeOK /\ [Next]_vars => TypeOK'
<1> SUFFICES ASSUME TypeOK, [Next]_vars PROVE TypeOK'
    OBVIOUS
<1> USE NoJobAssumption DEF TypeOK, Statuses, Finished
<1>1. ASSUME NEW j \in Jobs, Enqueue(j) \/ BecomesDue(j) \/ LeaseLapses(j)
      PROVE  TypeOK'
    BY <1>1 DEF Enqueue, BecomesDue, LeaseLapses
<1>2. ASSUME NEW w \in Workers, NEW j \in Jobs, Claim(w, j) PROVE TypeOK'
    BY <1>2 DEF Claim, Claimable
<1>3. ASSUME NEW w \in Workers, HandlerReturns(w) \/ HandlerRaises(w) PROVE TypeOK'
    BY <1>3 DEF HandlerReturns, HandlerRaises
<1>4. ASSUME NEW w \in Workers, NEW outcome \in {"pending", "succeeded", "failed"},
             pc[w] # "idle", Finish(w, outcome)
      PROVE  TypeOK'
  <2>1. /\ status' \in [Jobs -> {"absent", "pending", "running", "pruned", "succeeded", "failed"}]
        /\ due' \in [Jobs -> BOOLEAN]
        /\ lapsed' \in [Jobs -> BOOLEAN]
      BY <1>4 DEF Finish
  <2>2. /\ holds' \in [Workers -> Jobs \cup {NoJob}]
        /\ pc' \in [Workers -> {"idle", "running", "returned", "raised"}]
      BY <1>4 DEF Finish
  <2>4. \A x \in Workers : pc'[x] = "idle" <=> holds'[x] = NoJob
      BY <1>4 DEF Finish
  <2>3. UNCHANGED <<attempts, performed, released, crashes>>
      BY <1>4 DEF Finish
  <2> QED
      BY <2>1, <2>2, <2>3, <2>4
<1>5. ASSUME NEW w \in Workers, Crash(w) PROVE TypeOK'
  <2>1. /\ holds' \in [Workers -> Jobs \cup {NoJob}]
        /\ pc' \in [Workers -> {"idle", "running", "returned", "raised"}]
      BY <1>5 DEF Crash
  <2>2. \A x \in Workers : pc'[x] = "idle" <=> holds'[x] = NoJob
      BY <1>5 DEF Crash
  <2>3. crashes' \in Nat
      BY <1>5 DEF Crash
  <2>4. UNCHANGED <<status, attempts, due, lapsed, performed, released>>
      BY <1>5 DEF Crash
  <2> QED
      BY <2>1, <2>2, <2>3, <2>4
<1>6. CASE ReleaseStuck
  <2>1. status' \in [Jobs -> {"absent", "pending", "running", "pruned", "succeeded", "failed"}]
      BY <1>6 DEF ReleaseStuck
  <2>2. lapsed' \in [Jobs -> BOOLEAN]
      BY <1>6 DEF ReleaseStuck
  <2>3. released' \in [Jobs -> Nat]
      BY <1>6 DEF ReleaseStuck
  <2>4. UNCHANGED <<attempts, due, holds, pc, performed, crashes>>
      BY <1>6 DEF ReleaseStuck
  <2> QED
      BY <2>1, <2>2, <2>3, <2>4
<1>7. ASSUME NEW old \in SUBSET Jobs, PruneFinished(old) PROVE TypeOK'
    BY <1>7 DEF PruneFinished
<1>8. CASE UNCHANGED vars
    BY <1>8 DEF vars
<1> QED
    BY <1>1, <1>2, <1>3, <1>4, <1>5, <1>6, <1>7, <1>8
       DEF Next, WorkerStep, FinishSucceeded, FinishFailed, FinishUnhandled

-----------------------------------------------------------------------------
(* Counting holders.                                                          *)

LEMMA CountsTyped ==
    ASSUME NEW j
    PROVE  /\ IsFiniteSet(HeldBy(j)) /\ Cardinality(HeldBy(j)) \in Nat
           /\ IsFiniteSet(Unreturned(j)) /\ Cardinality(Unreturned(j)) \in Nat
<1>1. HeldBy(j) \subseteq Workers /\ Unreturned(j) \subseteq Workers
    BY DEF HeldBy, Unreturned
<1>2. IsFiniteSet(HeldBy(j)) /\ IsFiniteSet(Unreturned(j))
    BY <1>1, WorkersAssumption, FS_Subset
<1> QED
    BY <1>2, FS_CardinalityType

(* One worker more, or one fewer.                                             *)
LEMMA OneMore ==
    ASSUME NEW S, IsFiniteSet(S), NEW w, w \notin S, NEW T, T = S \cup {w}
    PROVE  Cardinality(T) = Cardinality(S) + 1
BY FS_AddElement

LEMMA OneFewer ==
    ASSUME NEW S, IsFiniteSet(S), NEW w, w \in S, NEW T, T = S \ {w}
    PROVE  Cardinality(T) = Cardinality(S) - 1
BY FS_RemoveElement

(* A worker lets go of its job: a finish or a crash.                          *)
LEMMA LettingGo ==
    ASSUME TypeOK, NEW w \in Workers, pc[w] # "idle",
           holds' = [holds EXCEPT ![w] = NoJob], pc' = [pc EXCEPT ![w] = "idle"],
           NEW j \in Jobs
    PROVE  /\ holds[w] \in Jobs
           /\ holds[w] # j => HeldBy(j)' = HeldBy(j) /\ Unreturned(j)' = Unreturned(j)
           /\ holds[w] = j => Cardinality(HeldBy(j)') = Cardinality(HeldBy(j)) - 1
           /\ holds[w] = j /\ pc[w] = "returned" => Unreturned(j)' = Unreturned(j)
           /\ holds[w] = j /\ pc[w] # "returned" =>
                 Cardinality(Unreturned(j)') = Cardinality(Unreturned(j)) - 1
<1> USE NoJobAssumption DEF TypeOK, HeldBy, Unreturned
<1>1. holds[w] \in Jobs
    OBVIOUS
<1>2. ASSUME holds[w] # j
      PROVE  HeldBy(j)' = HeldBy(j) /\ Unreturned(j)' = Unreturned(j)
    BY <1>2
<1>3. ASSUME holds[w] = j
      PROVE  Cardinality(HeldBy(j)') = Cardinality(HeldBy(j)) - 1
  <2>1. w \in HeldBy(j) /\ HeldBy(j)' = HeldBy(j) \ {w}
      BY <1>3
  <2> QED
      BY <2>1, CountsTyped, OneFewer
<1>4. ASSUME holds[w] = j, pc[w] = "returned"
      PROVE  Unreturned(j)' = Unreturned(j)
    BY <1>4
<1>5. ASSUME holds[w] = j, pc[w] # "returned"
      PROVE  Cardinality(Unreturned(j)') = Cardinality(Unreturned(j)) - 1
  <2>1. w \in Unreturned(j) /\ Unreturned(j)' = Unreturned(j) \ {w}
      BY <1>5
  <2> QED
      BY <2>1, CountsTyped, OneFewer
<1> QED
    BY <1>1, <1>2, <1>3, <1>4, <1>5

-----------------------------------------------------------------------------
(* The inductive invariant.                                                   *)

LEMMA InitIInv == Init => IInv
<1> SUFFICES ASSUME Init PROVE IInv
    OBVIOUS
<1>1. \A j \in Jobs : HeldBy(j) = {} /\ Unreturned(j) = {}
    BY NoJobAssumption DEF Init, HeldBy, Unreturned
<1>2. Cardinality({}) = 0
    BY FS_EmptySet
<1>3. ClaimsBounded /\ RunsBounded
    BY <1>1, <1>2 DEF Init, ClaimsBounded, RunsBounded, Resting, Waiting, Finished
<1> QED
    BY <1>1, <1>3, InitTyped, MaxAttemptsAssumption
       DEF Init, IInv, ReturnedWasPerformed, SucceededWasPerformed, AttemptToSpare,
           AttemptsAccountedFor, AbsentIsNew

LEMMA NumbersTyped ==
    ASSUME TypeOK, NEW j \in Jobs
    PROVE  /\ attempts[j] \in Nat /\ performed[j] \in Nat /\ released[j] \in Nat
           /\ MaxAttempts[j] \in Nat \ {0}
           /\ Waiting(j) \in {0, 1} /\ Resting(j) \in {0, 1}
BY MaxAttemptsAssumption DEF TypeOK, Waiting, Resting

(* A row appears, comes due or outlives its lease: nothing is handed over.    *)
LEMMA EnqueueOrWaitPreserves ==
    ASSUME IInv, TypeOK', NEW i \in Jobs, Enqueue(i) \/ BecomesDue(i) \/ LeaseLapses(i)
    PROVE  IInv'
<1> USE DEF IInv
<1>1. UNCHANGED <<attempts, holds, pc, performed, released>>
    BY DEF Enqueue, BecomesDue, LeaseLapses
<1>2. \A j \in Jobs : HeldBy(j)' = HeldBy(j) /\ Unreturned(j)' = Unreturned(j)
    BY <1>1 DEF HeldBy, Unreturned
<1>3. \A j \in Jobs : status'[j] = status[j] \/ (status[j] = "absent" /\ status'[j] = "pending")
    BY DEF Enqueue, BecomesDue, LeaseLapses, TypeOK
<1>4. ASSUME NEW j \in Jobs, status[j] = "absent"
      PROVE  /\ Cardinality(HeldBy(j)) = 0 /\ Cardinality(Unreturned(j)) = 0
             /\ performed[j] = 0 /\ attempts[j] = 0
  <2>1. HeldBy(j) = {} /\ Unreturned(j) = {}
      BY <1>4 DEF AbsentIsNew, Unreturned
  <2> QED
      BY <1>4, <2>1, FS_EmptySet DEF AbsentIsNew
<1>5. ClaimsBounded'
    BY <1>1, <1>2, <1>3, <1>4, NumbersTyped DEF ClaimsBounded, Resting
<1>6. RunsBounded'
    BY <1>1, <1>2, <1>3, <1>4, NumbersTyped DEF RunsBounded, Waiting
<1>7. ReturnedWasPerformed' /\ SucceededWasPerformed'
    BY <1>1, <1>3 DEF ReturnedWasPerformed, SucceededWasPerformed
<1>8. AttemptToSpare'
    BY <1>1, <1>3, <1>4, NumbersTyped DEF AttemptToSpare
<1>9. AttemptsAccountedFor' /\ AbsentIsNew'
    BY <1>1, <1>2, <1>3 DEF AttemptsAccountedFor, AbsentIsNew
<1> QED
    BY <1>5, <1>6, <1>7, <1>8, <1>9

(* The row's claim passes to the worker that takes it.                        *)
LEMMA ClaimPreserves ==
    ASSUME IInv, TypeOK', NEW w \in Workers, NEW i \in Jobs, Claim(w, i)
    PROVE  IInv'
<1> USE DEF IInv
<1>1. /\ status[i] = "pending" /\ pc[w] = "idle" /\ holds[w] = NoJob
      /\ status' = [status EXCEPT ![i] = "running"]
      /\ attempts' = [attempts EXCEPT ![i] = @ + 1]
      /\ holds' = [holds EXCEPT ![w] = i]
      /\ pc' = [pc EXCEPT ![w] = "running"]
      /\ UNCHANGED <<performed, released>>
    BY DEF Claim, Claimable, TypeOK
<1>2. ASSUME NEW j \in Jobs, j # i
      PROVE  /\ HeldBy(j)' = HeldBy(j) /\ Unreturned(j)' = Unreturned(j)
             /\ status'[j] = status[j] /\ attempts'[j] = attempts[j]
    BY <1>1, <1>2, NoJobAssumption DEF HeldBy, Unreturned, TypeOK
<1>3. Cardinality(HeldBy(i)') = Cardinality(HeldBy(i)) + 1
  <2>1. w \notin HeldBy(i) /\ HeldBy(i)' = HeldBy(i) \cup {w}
      BY <1>1, NoJobAssumption DEF HeldBy, TypeOK
  <2> QED
      BY <2>1, CountsTyped, OneMore
<1>4. Cardinality(Unreturned(i)') = Cardinality(Unreturned(i)) + 1
  <2>1. w \notin Unreturned(i) /\ Unreturned(i)' = Unreturned(i) \cup {w}
      BY <1>1, NoJobAssumption DEF HeldBy, Unreturned, TypeOK
  <2> QED
      BY <2>1, CountsTyped, OneMore
<1>5. status'[i] = "running" /\ attempts'[i] = attempts[i] + 1
    BY <1>1 DEF TypeOK
<1>6. ClaimsBounded'
  <2> SUFFICES ASSUME NEW j \in Jobs
               PROVE  Cardinality(HeldBy(j)') + Resting(j)' <= 1 + released'[j]
      BY DEF ClaimsBounded
  <2>1. Cardinality(HeldBy(j)) + Resting(j) <= 1 + released[j]
      BY DEF ClaimsBounded
  <2>2. CASE j = i
      BY <1>1, <1>3, <1>5, <2>1, <2>2, CountsTyped, NumbersTyped DEF Resting, Finished
  <2>3. CASE j # i
      BY <1>1, <1>2, <2>1, <2>3 DEF Resting
  <2> QED
      BY <2>2, <2>3
<1>7. RunsBounded'
  <2> SUFFICES ASSUME NEW j \in Jobs
               PROVE  performed'[j] + Cardinality(Unreturned(j)') + Waiting(j)' <= 1 + released'[j]
      BY DEF RunsBounded
  <2>1. performed[j] + Cardinality(Unreturned(j)) + Waiting(j) <= 1 + released[j]
      BY DEF RunsBounded
  <2>2. CASE j = i
      BY <1>1, <1>4, <1>5, <2>1, <2>2, CountsTyped, NumbersTyped DEF Waiting
  <2>3. CASE j # i
      BY <1>1, <1>2, <2>1, <2>3 DEF Waiting
  <2> QED
      BY <2>2, <2>3
<1>8. ReturnedWasPerformed' /\ SucceededWasPerformed'
    BY <1>1, <1>2, <1>5 DEF ReturnedWasPerformed, SucceededWasPerformed, TypeOK
<1>9. AttemptToSpare' /\ AbsentIsNew'
    BY <1>1, <1>2, <1>5 DEF AttemptToSpare, AbsentIsNew
<1>10. AttemptsAccountedFor'
  <2> SUFFICES ASSUME NEW j \in Jobs
               PROVE  attempts'[j] <= MaxAttempts[j] + released'[j]
      BY DEF AttemptsAccountedFor
  <2>1. CASE j = i
      BY <1>1, <1>5, <2>1, NumbersTyped DEF AttemptToSpare
  <2>2. CASE j # i
      BY <1>1, <1>2, <2>2 DEF AttemptsAccountedFor
  <2> QED
      BY <2>1, <2>2
<1> QED
    BY <1>6, <1>7, <1>8, <1>9, <1>10

(* The handler ends: a run it had a claim to is now one it performed.         *)
LEMMA HandlerPreserves ==
    ASSUME IInv, TypeOK', NEW w \in Workers, HandlerReturns(w) \/ HandlerRaises(w)
    PROVE  IInv'
<1> USE DEF IInv
<1>1. /\ pc[w] = "running" /\ holds[w] \in Jobs
      /\ UNCHANGED <<status, attempts, holds, released>>
    BY NoJobAssumption DEF HandlerReturns, HandlerRaises, TypeOK
<1>2. \A j \in Jobs : HeldBy(j)' = HeldBy(j)
    BY <1>1 DEF HeldBy
<1>3. ClaimsBounded' /\ AttemptToSpare' /\ AttemptsAccountedFor'
    BY <1>1, <1>2
       DEF ClaimsBounded, Resting, AttemptToSpare, AttemptsAccountedFor
<1>4. \A j \in Jobs : Waiting(j)' = Waiting(j)
    BY <1>1 DEF Waiting
<1>5. w \in HeldBy(holds[w])
    BY DEF HeldBy
<1>6. CASE HandlerReturns(w)
  <2>1. /\ pc' = [pc EXCEPT ![w] = "returned"]
        /\ performed' = [performed EXCEPT ![holds[w]] = @ + 1]
      BY <1>6 DEF HandlerReturns
  <2>2. ASSUME NEW j \in Jobs
        PROVE  performed'[j] + Cardinality(Unreturned(j)') + Waiting(j)' <= 1 + released'[j]
    <3>1. performed[j] + Cardinality(Unreturned(j)) + Waiting(j) <= 1 + released[j]
        BY DEF RunsBounded
    <3>2. CASE j = holds[w]
      <4>1. w \in Unreturned(j) /\ Unreturned(j)' = Unreturned(j) \ {w}
          BY <1>1, <2>1, <3>2 DEF Unreturned, HeldBy, TypeOK
      <4>2. Cardinality(Unreturned(j)') = Cardinality(Unreturned(j)) - 1
          BY <4>1, CountsTyped, OneFewer
      <4>3. performed'[j] = performed[j] + 1
          BY <2>1, <3>2 DEF TypeOK
      <4> QED
          BY <1>1, <1>4, <3>1, <4>2, <4>3, CountsTyped, NumbersTyped
    <3>3. CASE j # holds[w]
      <4>1. Unreturned(j)' = Unreturned(j) /\ performed'[j] = performed[j]
          BY <1>1, <2>1, <3>3 DEF Unreturned, HeldBy, TypeOK
      <4> QED
          BY <1>1, <1>4, <3>1, <4>1
    <3> QED
        BY <3>2, <3>3
  <2>3. \A j \in Jobs : performed'[j] >= performed[j]
      BY <2>1, NumbersTyped DEF TypeOK
  <2>4. ReturnedWasPerformed' /\ SucceededWasPerformed'
      BY <1>1, <2>1, <2>3, NumbersTyped, NoJobAssumption
         DEF ReturnedWasPerformed, SucceededWasPerformed, TypeOK
  <2>5. AbsentIsNew'
      BY <1>1, <1>2, <1>5, <2>1 DEF AbsentIsNew, TypeOK
  <2> QED
      BY <1>3, <2>2, <2>4, <2>5 DEF RunsBounded
<1>7. CASE HandlerRaises(w)
  <2>1. pc' = [pc EXCEPT ![w] = "raised"] /\ performed' = performed
      BY <1>7 DEF HandlerRaises
  <2>2. \A j \in Jobs : Unreturned(j)' = Unreturned(j)
      BY <1>1, <2>1 DEF Unreturned, HeldBy, TypeOK
  <2>3. RunsBounded'
      BY <1>1, <1>4, <2>1, <2>2 DEF RunsBounded
  <2>4. ReturnedWasPerformed' /\ SucceededWasPerformed' /\ AbsentIsNew'
      BY <1>1, <1>2, <2>1 DEF ReturnedWasPerformed, SucceededWasPerformed, AbsentIsNew, TypeOK
  <2> QED
      BY <1>3, <2>3, <2>4
<1> QED
    BY <1>6, <1>7

(* An outcome is written, by a worker that may have lost the job meanwhile.   *)
LEMMA FinishPreserves ==
    ASSUME IInv, TypeOK', NEW w \in Workers, pc[w] # "idle",
           NEW outcome \in {"pending", "succeeded", "failed"}, Finish(w, outcome),
           outcome = "succeeded" <=> pc[w] = "returned",
           outcome = "pending" => attempts[holds[w]] < MaxAttempts[holds[w]]
    PROVE  IInv'
<1> USE DEF IInv
<1>1. /\ holds' = [holds EXCEPT ![w] = NoJob] /\ pc' = [pc EXCEPT ![w] = "idle"]
      /\ UNCHANGED <<attempts, performed, released>>
    BY DEF Finish
<1>2. holds[w] \in Jobs
    BY NoJobAssumption DEF TypeOK
<1>3. \A j \in Jobs : j # holds[w] => status'[j] = status[j]
    BY <1>2 DEF Finish, TypeOK
<1>4. status[holds[w]] # "absent"
    BY <1>2 DEF AbsentIsNew, HeldBy
<1>5. status'[holds[w]] = IF status[holds[w]] = "pruned" THEN "pruned" ELSE outcome
    BY <1>2 DEF Finish, TypeOK
<1>6. ClaimsBounded'
  <2> SUFFICES ASSUME NEW j \in Jobs
               PROVE  Cardinality(HeldBy(j)') + Resting(j)' <= 1 + released'[j]
      BY DEF ClaimsBounded
  <2>1. Cardinality(HeldBy(j)) + Resting(j) <= 1 + released[j]
      BY DEF ClaimsBounded
  <2>2. Resting(j) \in {0, 1} /\ Resting(j)' \in {0, 1} /\ released[j] \in Nat
      BY NumbersTyped DEF Resting
  <2>3. CASE j = holds[w]
    <3>1. Cardinality(HeldBy(j)') = Cardinality(HeldBy(j)) - 1
        BY <1>1, <2>3, LettingGo
    <3> QED
        BY <1>1, <2>1, <2>2, <3>1, CountsTyped
  <2>4. CASE j # holds[w]
    <3>1. HeldBy(j)' = HeldBy(j)
        BY <1>1, <2>4, LettingGo
    <3> QED
        BY <1>1, <1>3, <2>1, <2>4, <3>1 DEF Resting
  <2> QED
      BY <2>3, <2>4
<1>7. RunsBounded'
  <2> SUFFICES ASSUME NEW j \in Jobs
               PROVE  performed'[j] + Cardinality(Unreturned(j)') + Waiting(j)' <= 1 + released'[j]
      BY DEF RunsBounded
  <2>1. performed[j] + Cardinality(Unreturned(j)) + Waiting(j) <= 1 + released[j]
      BY DEF RunsBounded
  <2>2. Waiting(j) \in {0, 1} /\ Waiting(j)' \in {0, 1} /\ released[j] \in Nat /\ performed[j] \in Nat
      BY NumbersTyped DEF Waiting
  <2>3. CASE j = holds[w] /\ pc[w] = "returned"
    <3>1. Unreturned(j)' = Unreturned(j)
        BY <1>1, <2>3, LettingGo
    <3>2. Waiting(j)' = 0
        BY <1>5, <2>3 DEF Waiting
    <3> QED
        BY <1>1, <2>1, <2>2, <3>1, <3>2, CountsTyped
  <2>4. CASE j = holds[w] /\ pc[w] # "returned"
    <3>1. Cardinality(Unreturned(j)') = Cardinality(Unreturned(j)) - 1
        BY <1>1, <2>4, LettingGo
    <3> QED
        BY <1>1, <2>1, <2>2, <3>1, CountsTyped
  <2>5. CASE j # holds[w]
    <3>1. Unreturned(j)' = Unreturned(j)
        BY <1>1, <2>5, LettingGo
    <3> QED
        BY <1>1, <1>3, <2>1, <2>5, <3>1 DEF Waiting
  <2> QED
      BY <2>3, <2>4, <2>5
<1>8. ReturnedWasPerformed'
    BY <1>1 DEF ReturnedWasPerformed, TypeOK
<1>9. SucceededWasPerformed'
    BY <1>1, <1>2, <1>3, <1>5 DEF SucceededWasPerformed, ReturnedWasPerformed
<1>10. AttemptToSpare'
  <2>1. ASSUME NEW j \in Jobs, status'[j] = "pending"
        PROVE  attempts[j] < MaxAttempts[j] + released[j]
    <3>1. CASE j = holds[w]
        BY <1>5, <2>1, <3>1, NumbersTyped
    <3>2. CASE j # holds[w]
        BY <1>3, <2>1, <3>2 DEF AttemptToSpare
    <3> QED
        BY <3>1, <3>2
  <2> QED
      BY <1>1, <2>1 DEF AttemptToSpare
<1>11. AttemptsAccountedFor'
    BY <1>1 DEF AttemptsAccountedFor
<1>12. AbsentIsNew'
  <2>1. ASSUME NEW j \in Jobs, status'[j] = "absent" PROVE j # holds[w]
      BY <1>5, <2>1
  <2> QED
      BY <1>1, <1>3, <2>1, LettingGo DEF AbsentIsNew
<1> QED
    BY <1>6, <1>7, <1>8, <1>9, <1>10, <1>11, <1>12

(* A death only loses claims.                                                 *)
LEMMA CrashPreserves ==
    ASSUME IInv, TypeOK', NEW w \in Workers, Crash(w)
    PROVE  IInv'
<1> USE DEF IInv
<1>1. /\ pc[w] # "idle"
      /\ holds' = [holds EXCEPT ![w] = NoJob] /\ pc' = [pc EXCEPT ![w] = "idle"]
      /\ UNCHANGED <<status, attempts, performed, released>>
    BY DEF Crash
<1>2. ASSUME NEW j \in Jobs
      PROVE  /\ Cardinality(HeldBy(j)') <= Cardinality(HeldBy(j))
             /\ Cardinality(HeldBy(j)') \in Int
             /\ Cardinality(Unreturned(j)') <= Cardinality(Unreturned(j))
             /\ Cardinality(Unreturned(j)') \in Int
  <2>1. Cardinality(HeldBy(j)) \in Nat /\ Cardinality(Unreturned(j)) \in Nat
      BY CountsTyped
  <2>2. CASE holds[w] # j
    <3>1. HeldBy(j)' = HeldBy(j) /\ Unreturned(j)' = Unreturned(j)
        BY <1>1, <2>2, LettingGo
    <3> QED
        BY <2>1, <3>1
  <2>3. CASE holds[w] = j
    <3>1. Cardinality(HeldBy(j)') = Cardinality(HeldBy(j)) - 1
        BY <1>1, <2>3, LettingGo
    <3>2. Unreturned(j)' = Unreturned(j) \/
          Cardinality(Unreturned(j)') = Cardinality(Unreturned(j)) - 1
        BY <1>1, <2>3, LettingGo
    <3> QED
        BY <2>1, <3>1, <3>2
  <2> QED
      BY <2>2, <2>3
<1>3. ClaimsBounded'
    BY <1>1, <1>2, CountsTyped, NumbersTyped DEF ClaimsBounded, Resting
<1>4. RunsBounded'
    BY <1>1, <1>2, CountsTyped, NumbersTyped DEF RunsBounded, Waiting
<1>5. ReturnedWasPerformed' /\ SucceededWasPerformed'
    BY <1>1 DEF ReturnedWasPerformed, SucceededWasPerformed, TypeOK
<1>6. AttemptToSpare' /\ AttemptsAccountedFor'
    BY <1>1 DEF AttemptToSpare, AttemptsAccountedFor
<1>7. AbsentIsNew'
    BY <1>1, NoJobAssumption DEF AbsentIsNew, HeldBy, TypeOK
<1> QED
    BY <1>3, <1>4, <1>5, <1>6, <1>7

(* Only here a job gains a claim, and the count of releases with it.          *)
LEMMA ReleaseStuckPreserves ==
    ASSUME IInv, TypeOK', ReleaseStuck
    PROVE  IInv'
<1> USE DEF IInv
<1>1. UNCHANGED <<attempts, holds, pc, performed>>
    BY DEF ReleaseStuck
<1>2. \A j \in Jobs : HeldBy(j)' = HeldBy(j) /\ Unreturned(j)' = Unreturned(j)
    BY <1>1 DEF HeldBy, Unreturned
<1>3. ASSUME NEW j \in Jobs
      PROVE  \/ status'[j] = status[j] /\ released'[j] = released[j]
             \/ status[j] = "running" /\ status'[j] = "pending" /\ released'[j] = released[j] + 1
    BY NumbersTyped DEF ReleaseStuck, Stuck
<1>4. ClaimsBounded'
    BY <1>2, <1>3, CountsTyped, NumbersTyped DEF ClaimsBounded, Resting, Finished
<1>5. RunsBounded'
    BY <1>1, <1>2, <1>3, CountsTyped, NumbersTyped DEF RunsBounded, Waiting
<1>6. ReturnedWasPerformed' /\ SucceededWasPerformed'
    BY <1>1, <1>3 DEF ReturnedWasPerformed, SucceededWasPerformed
<1>7. AttemptToSpare' /\ AttemptsAccountedFor'
    BY <1>1, <1>3, NumbersTyped DEF AttemptToSpare, AttemptsAccountedFor
<1>8. AbsentIsNew'
    BY <1>1, <1>2, <1>3 DEF AbsentIsNew
<1> QED
    BY <1>4, <1>5, <1>6, <1>7, <1>8

LEMMA PruneFinishedPreserves ==
    ASSUME IInv, TypeOK', NEW old \in SUBSET Jobs, PruneFinished(old)
    PROVE  IInv'
<1> USE DEF IInv
<1>1. UNCHANGED <<attempts, holds, pc, performed, released>>
    BY DEF PruneFinished
<1>2. \A j \in Jobs : HeldBy(j)' = HeldBy(j) /\ Unreturned(j)' = Unreturned(j)
    BY <1>1 DEF HeldBy, Unreturned
<1>3. \A j \in Jobs : status'[j] \in {status[j], "pruned"}
    BY DEF PruneFinished, TypeOK
<1>4. ClaimsBounded'
    BY <1>1, <1>2, <1>3, CountsTyped, NumbersTyped DEF ClaimsBounded, Resting, Finished
<1>5. RunsBounded'
    BY <1>1, <1>2, <1>3, CountsTyped, NumbersTyped DEF RunsBounded, Waiting
<1>6. ReturnedWasPerformed' /\ SucceededWasPerformed'
    BY <1>1, <1>3 DEF ReturnedWasPerformed, SucceededWasPerformed
<1>7. AttemptToSpare' /\ AttemptsAccountedFor' /\ AbsentIsNew'
    BY <1>1, <1>2, <1>3 DEF AttemptToSpare, AttemptsAccountedFor, AbsentIsNew
<1> QED
    BY <1>4, <1>5, <1>6, <1>7

LEMMA NextIInv == IInv /\ [Next]_vars => IInv'
<1> SUFFICES ASSUME IInv, [Next]_vars PROVE IInv'
    OBVIOUS
<1>1. TypeOK'
    BY NextTyped DEF IInv
<1>2. ASSUME NEW j \in Jobs, Enqueue(j) \/ BecomesDue(j) \/ LeaseLapses(j) PROVE IInv'
    BY <1>1, <1>2, EnqueueOrWaitPreserves
<1>3. ASSUME NEW w \in Workers, NEW j \in Jobs, Claim(w, j) PROVE IInv'
    BY <1>1, <1>3, ClaimPreserves
<1>4. ASSUME NEW w \in Workers, HandlerReturns(w) \/ HandlerRaises(w) PROVE IInv'
    BY <1>1, <1>4, HandlerPreserves
<1>5. ASSUME NEW w \in Workers, FinishSucceeded(w) PROVE IInv'
    BY <1>1, <1>5, FinishPreserves DEF FinishSucceeded
<1>6. ASSUME NEW w \in Workers, FinishFailed(w) PROVE IInv'
  <2>1. holds[w] \in Jobs
      BY <1>6, NoJobAssumption DEF FinishFailed, IInv, TypeOK
  <2>2. attempts[holds[w]] >= MaxAttempts[holds[w]] \/ attempts[holds[w]] < MaxAttempts[holds[w]]
      BY <2>1, NumbersTyped DEF IInv
  <2> QED
      BY <1>1, <1>6, <2>2, FinishPreserves DEF FinishFailed
<1>7. ASSUME NEW w \in Workers, FinishUnhandled(w) PROVE IInv'
    BY <1>1, <1>7, FinishPreserves DEF FinishUnhandled
<1>8. ASSUME NEW w \in Workers, Crash(w) PROVE IInv'
    BY <1>1, <1>8, CrashPreserves
<1>9. CASE ReleaseStuck
    BY <1>1, <1>9, ReleaseStuckPreserves
<1>10. ASSUME NEW old \in SUBSET Jobs, PruneFinished(old) PROVE IInv'
    BY <1>1, <1>10, PruneFinishedPreserves
<1>11. CASE UNCHANGED vars
    BY <1>1, <1>11 DEF IInv, vars, ClaimsBounded, RunsBounded, ReturnedWasPerformed,
       SucceededWasPerformed, AttemptToSpare, AttemptsAccountedFor, AbsentIsNew,
       HeldBy, Unreturned, Waiting, Resting
<1> QED
    BY <1>2, <1>3, <1>4, <1>5, <1>6, <1>7, <1>8, <1>9, <1>10, <1>11 DEF Next, WorkerStep

LEMMA IInvariant == Spec => []IInv
BY InitIInv, NextIInv, PTL DEF Spec

-----------------------------------------------------------------------------
(* The type of every column and of every worker's state.                      *)
THEOREM TypeCorrect == Spec => []TypeOK
BY InitTyped, NextTyped, PTL DEF Spec

(* However many workers share the table, a job is in more hands than one only *)
(* if a lease lapsed, and in no more than that explains.                      *)
THEOREM JobsAreShared == Spec => []SharedOnlyAfterRelease
<1>1. IInv => SharedOnlyAfterRelease
  <2> SUFFICES ASSUME IInv, NEW j \in Jobs
               PROVE  Cardinality(HeldBy(j)) <= 1 + released[j]
      BY DEF SharedOnlyAfterRelease
  <2> QED
      BY CountsTyped, NumbersTyped DEF IInv, ClaimsBounded
<1> QED
    BY <1>1, IInvariant, PTL

(* At least once, and at most once more than the job was taken back.          *)
THEOREM PerformedAsPromised == Spec => [](SucceededWasPerformed /\ RepeatsOnlyAfterRelease)
<1>1. IInv => SucceededWasPerformed /\ RepeatsOnlyAfterRelease
  <2> SUFFICES ASSUME IInv, NEW j \in Jobs
               PROVE  performed[j] <= 1 + released[j]
      BY DEF IInv, RepeatsOnlyAfterRelease
  <2> QED
      BY CountsTyped, NumbersTyped DEF IInv, RunsBounded
<1> QED
    BY <1>1, IInvariant, PTL

(* A job's handler runs to its end again only after the job was taken back.   *)
THEOREM RunAgainOnlyIfReleased == Spec => []RepeatsOnlyAfterRelease
<1>1. SucceededWasPerformed /\ RepeatsOnlyAfterRelease => RepeatsOnlyAfterRelease
    OBVIOUS
<1> QED
    BY <1>1, PerformedAsPromised, PTL

(* Attempts beyond max_attempts are paid for by releases.                     *)
THEOREM AttemptsAreBounded == Spec => []AttemptsAccountedFor
<1>1. IInv => AttemptsAccountedFor
    BY DEF IInv
<1> QED
    BY <1>1, IInvariant, PTL

(* A finished job that was never taken back is never taken up again.          *)
THEOREM FinishedIsFinal == Spec => FinishedStaysFinished
<1> DEFINE Final(j) == status[j] \in Finished /\ released[j] = 0
                          => status'[j] \in {status[j], "pruned"}
<1>1. ASSUME IInv, Next, NEW i \in Jobs PROVE Final(i)
  <2> SUFFICES ASSUME status[i] \in Finished, released[i] = 0
               PROVE  status'[i] \in {status[i], "pruned"}
      OBVIOUS
  <2> HIDE DEF Final
  <2>1. HeldBy(i) = {}
    <3>1. Cardinality(HeldBy(i)) + 1 <= 1 + 0
        BY <1>1 DEF IInv, ClaimsBounded, Resting
    <3>2. Cardinality(HeldBy(i)) = 0
        BY <3>1, CountsTyped
    <3> QED
        BY <3>2, CountsTyped, FS_EmptySet
  <2> USE DEF IInv, TypeOK, Finished
  <2>2. ASSUME NEW j \in Jobs, Enqueue(j) \/ BecomesDue(j) \/ LeaseLapses(j)
        PROVE  status'[i] = status[i]
      BY <1>1, <2>2 DEF Enqueue, BecomesDue, LeaseLapses
  <2>3. ASSUME NEW w \in Workers, NEW j \in Jobs, Claim(w, j) PROVE status'[i] = status[i]
      BY <1>1, <2>3 DEF Claim, Claimable
  <2>4. ASSUME NEW w \in Workers, HandlerReturns(w) \/ HandlerRaises(w)
        PROVE  status'[i] = status[i]
      BY <1>1, <2>4 DEF HandlerReturns, HandlerRaises
  <2>5. ASSUME NEW w \in Workers, NEW outcome, pc[w] # "idle", Finish(w, outcome)
        PROVE  status'[i] = status[i]
      BY <1>1, <2>1, <2>5 DEF Finish, HeldBy
  <2>6. ASSUME NEW w \in Workers, Crash(w) PROVE status'[i] = status[i]
      BY <1>1, <2>6 DEF Crash
  <2>7. CASE ReleaseStuck
      BY <1>1, <2>7 DEF ReleaseStuck, Stuck
  <2>8. ASSUME NEW old \in SUBSET Jobs, PruneFinished(old)
        PROVE  status'[i] \in {status[i], "pruned"}
      BY <1>1, <2>8 DEF PruneFinished
  <2> QED
      BY <1>1, <2>2, <2>3, <2>4, <2>5, <2>6, <2>7, <2>8
         DEF Next, WorkerStep, FinishSucceeded, FinishFailed, FinishUnhandled
<1>2. IInv /\ [Next]_vars => [\A j \in Jobs : Final(j)]_vars
    BY <1>1
<1> QED
    BY <1>2, IInvariant, PTL DEF Spec, FinishedStaysFinished
=============================================================================
