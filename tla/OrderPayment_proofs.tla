------------------------- MODULE OrderPayment_proofs -------------------------
(* Proofs about OrderPayment for any set of channels and any bounds.  Every   *)
(* step is one OrderStock has, so that what OrderStock_proofs shows of an     *)
(* order's deadline holds here without being proved again.                    *)
EXTENDS OrderPayment, FiniteSetTheorems, TLAPS

\* The event a webhook is handling is still owed.
HookHasEvent == hook # NoRead => events > 0

LEMMA HookInvariant ==
    ASSUME TypeOK, HookHasEvent, [Next]_vars
    PROVE  HookHasEvent'
<1> USE NoReadAssumption
    DEF TypeOK, HookHasEvent, vars, orderVars, stripeVars, khqrVars
<1>1. ASSUME NEW new \in Statuses, UpdateStatus(new) PROVE HookHasEvent'
    BY <1>1 DEF UpdateStatus
<1>2. CASE DeadlinePasses
    BY <1>2 DEF DeadlinePasses
<1>3. CASE ReleaseExpired
    BY <1>3 DEF ReleaseExpired, Releasable
<1>4. CASE ConfirmReceipt
    BY <1>4 DEF ConfirmReceipt, Pay
<1>5. CASE CheckoutReads
    BY <1>5 DEF CheckoutReads
<1>6. CASE CheckoutWrites
    BY <1>6 DEF CheckoutWrites
<1>7. CASE CheckoutRefused
    BY <1>7 DEF CheckoutRefused
<1>8. CASE CustomerPaysLink
    BY <1>8 DEF CustomerPaysLink
<1>9. CASE WebhookReads
    BY <1>9 DEF WebhookReads
<1>10. CASE WebhookWrites
    BY <1>10 DEF WebhookWrites, SawNotPaid, Pay
<1>11. CASE IssueKhqr
    BY <1>11 DEF IssueKhqr, NewCode, Current
<1>12. CASE AssistantReads
    BY <1>12 DEF AssistantReads
<1>13. CASE AssistantWrites
    BY <1>13 DEF AssistantWrites, NewCode
<1>14. CASE AssistantRollsBack
    BY <1>14 DEF AssistantRollsBack
<1>15. CASE CodeExpires
    BY <1>15 DEF CodeExpires
<1>16. CASE CustomerPaysCode
    BY <1>16 DEF CustomerPaysCode
<1>17. ASSUME NEW c \in Codes, RunCheck(c) PROVE HookHasEvent'
    BY <1>17 DEF RunCheck
<1>18. CASE CheckNow
    BY <1>18 DEF CheckNow
<1>19. ASSUME NEW c \in Codes, CheckRaises(c) PROVE HookHasEvent'
    BY <1>19 DEF CheckRaises
<1>20. CASE UNCHANGED vars
    BY <1>20
<1>21. CASE CustomerPaysOldCode
    BY <1>21 DEF CustomerPaysOldCode
<1> QED
    BY <1>1, <1>2, <1>3, <1>4, <1>5, <1>6, <1>7, <1>8, <1>9, <1>10, <1>11, <1>12, <1>13, <1>14, <1>15, <1>16, <1>17, <1>18, <1>19, <1>20, <1>21 DEF Next

(* What khqr_orders.apply does for each answer Bakong can give.               *)
LEMMA ApplyEffect ==
    ASSUME TypeOK, NEW found \in Answers, Apply(found)
    PROVE  \/ UNCHANGED <<khqr, payment, method, deadline>>
           \/ khqr' = "mismatch" /\ UNCHANGED <<payment, method, deadline>>
           \/ bank = "exact" /\ khqr' = "paid" /\ payment = "paid"
                 /\ UNCHANGED <<payment, method, deadline>>
           \/ bank = "exact" /\ khqr' = "paid" /\ payment # "paid"
                 /\ payment' = "paid" /\ method' = "khqr" /\ deadline' = "none"
<1>1. found \in {"unpaid", "exact", "other"} /\ found \in {bank, "unpaid"}
    BY DEF TypeOK, Answers
<1>2. CASE found = "unpaid"
    BY <1>2 DEF Apply
<1>3. CASE found = "other"
    BY <1>3 DEF Apply, Mismatch
<1>4. CASE found = "exact"
  <2>1. bank = "exact"
      BY <1>1, <1>4
  <2>2. khqr' = "paid" /\ PaidByKhqr
      BY <1>4 DEF Apply
  <2> QED
      BY <2>1, <2>2 DEF PaidByKhqr, Pay
<1> QED
    BY <1>1, <1>2, <1>3, <1>4

(* A check says one of those things of its code, or nothing of the order but  *)
(* that the code expired.                                                     *)
LEMMA CheckEffect ==
    ASSUME TypeOK, NEW c \in Codes, RunCheck(c)
    PROVE  \/ \E found \in Answers : Apply(found)
           \/ UNCHANGED <<khqr, payment, method, deadline>>
           \/ khqr' = "expired" /\ ~live /\ UNCHANGED <<payment, method, deadline>>
BY DEF RunCheck

\* What follows a check: other codes' jobs are left alone, and no more queued
\* than there is room for.
LEMMA CheckedEffect ==
    ASSUME TypeOK, NEW c \in Codes, NEW n \in {0, 1}, polls[c] > 0, Checked(c, n)
    PROVE  /\ polls' \in [Codes -> 0..MaxPolls]
           /\ polls'[c] >= n
           /\ \A d \in Codes : d # c => polls'[d] = polls[d]
<1> USE PaymentBounds DEF TypeOK
<1>1. PICK again \in {0, 1} :
         /\ polls[c] - 1 + again + n <= MaxPolls
         /\ polls' = [polls EXCEPT ![c] = @ - 1 + again + n]
    BY DEF Checked
<1> QED
    BY <1>1

LEMMA TypeInvariant ==
    ASSUME TypeOK, HookHasEvent, [Next]_vars
    PROVE  TypeOK'
<1> USE PaymentBounds, NoReadAssumption
    DEF TypeOK, vars, orderVars, stripeVars, khqrVars, Payments, Codes, KhqrStatuses
<1>1. ASSUME NEW new \in Statuses, UpdateStatus(new) PROVE TypeOK'
  <2>1. status' \in Statuses /\ deadline' \in {"none", "running", "passed"}
      BY <1>1 DEF UpdateStatus
  <2>2. expiredOut' \in BOOLEAN
      BY <1>1 DEF UpdateStatus
  <2>3. UNCHANGED <<payment, method, stripeVars, khqrVars, vouched>>
      BY <1>1 DEF UpdateStatus
  <2> QED
      BY <2>1, <2>2, <2>3
<1>2. CASE DeadlinePasses
    BY <1>2 DEF DeadlinePasses
<1>3. CASE ReleaseExpired
    BY <1>3 DEF ReleaseExpired, Releasable, Statuses
<1>4. CASE ConfirmReceipt
    BY <1>4 DEF ConfirmReceipt, Pay
<1>5. CASE CheckoutReads
    BY <1>5 DEF CheckoutReads
<1>6. CASE CheckoutWrites
    BY <1>6 DEF CheckoutWrites
<1>7. CASE CheckoutRefused
    BY <1>7 DEF CheckoutRefused
<1>8. CASE CustomerPaysLink
  <2>1. link' \in BOOLEAN
      BY <1>8 DEF CustomerPaysLink
  <2>2. events' \in 0..MaxEvents
      BY <1>8 DEF CustomerPaysLink
  <2>3. vouched' \in BOOLEAN
      BY <1>8 DEF CustomerPaysLink
  <2>4. UNCHANGED <<orderVars, checkout, hook, khqrVars>>
      BY <1>8 DEF CustomerPaysLink
  <2> QED
      BY <2>1, <2>2, <2>3, <2>4
<1>9. CASE WebhookReads
    BY <1>9 DEF WebhookReads
<1>10. CASE WebhookWrites
  <2>1. /\ payment' \in Payments
        /\ method' \in {"none", "qr", "stripe", "khqr"}
        /\ deadline' \in {"none", "running", "passed"}
      BY <1>10 DEF WebhookWrites, SawNotPaid, Pay
  <2>2. events' \in 0..MaxEvents
      BY <1>10 DEF WebhookWrites, SawNotPaid, HookHasEvent
  <2>3. hook' = NoRead /\ UNCHANGED <<status, expiredOut, checkout, link, khqrVars, vouched>>
      BY <1>10 DEF WebhookWrites, SawNotPaid
  <2> QED
      BY <2>1, <2>2, <2>3
<1>11. CASE IssueKhqr
    BY <1>11 DEF IssueKhqr, NewCode, Current
<1>12. CASE AssistantReads
    BY <1>12 DEF AssistantReads
<1>13. CASE AssistantWrites
  <2>1. abandoned' \in BOOLEAN /\ live' \in BOOLEAN
      BY <1>13 DEF AssistantWrites, NewCode
  <2>2. /\ code' \in 0..MaxCodes /\ code' > 0 /\ bank' = "unpaid"
        /\ polls' \in [Codes -> 0..MaxPolls]
      BY <1>13 DEF AssistantWrites, NewCode
  <2>3. khqr' \in KhqrStatuses
      BY <1>13 DEF AssistantWrites, NewCode
  <2>4. assistant' = NoRead /\ UNCHANGED <<orderVars, stripeVars, vouched>>
      BY <1>13 DEF AssistantWrites
  <2> QED
      BY <2>1, <2>2, <2>3, <2>4
<1>14. CASE AssistantRollsBack
    BY <1>14 DEF AssistantRollsBack
<1>15. CASE CodeExpires
  <2>1. live' \in BOOLEAN /\ ~live'
      BY <1>15 DEF CodeExpires
  <2>2. UNCHANGED <<orderVars, stripeVars, khqr, code, bank, polls, assistant, abandoned, vouched>>
      BY <1>15 DEF CodeExpires
  <2> QED
      BY <2>1, <2>2
<1>16. CASE CustomerPaysCode
    BY <1>16 DEF CustomerPaysCode
<1>17. ASSUME NEW c \in Codes, RunCheck(c) PROVE TypeOK'
  <2>1. /\ khqr' \in KhqrStatuses
        /\ payment' \in Payments
        /\ method' \in {"none", "qr", "stripe", "khqr"}
        /\ deadline' \in {"none", "running", "passed"}
      BY <1>17, CheckEffect, ApplyEffect
  <2>2. Scheduled \in {0, 1} /\ 0 \in {0, 1} /\ polls[c] > 0
      BY <1>17 DEF RunCheck, Scheduled
  <2>3. Checked(c, 0) \/ Checked(c, Scheduled)
      BY <1>17 DEF RunCheck
  <2>4. polls' \in [Codes -> 0..MaxPolls]
      BY <2>2, <2>3, CheckedEffect
  <2>5. UNCHANGED <<status, expiredOut, stripeVars, code, live, bank, assistant, vouched>>
      BY <1>17 DEF RunCheck
  <2>6. abandoned' \in BOOLEAN
      BY <1>17 DEF RunCheck
  <2> QED
      BY <2>1, <2>4, <2>5, <2>6
<1>18. CASE CheckNow
  <2>1. /\ khqr' \in KhqrStatuses
        /\ payment' \in Payments
        /\ method' \in {"none", "qr", "stripe", "khqr"}
        /\ deadline' \in {"none", "running", "passed"}
      BY <1>18, ApplyEffect DEF CheckNow
  <2>2. UNCHANGED <<status, expiredOut, stripeVars, code, live, bank, polls, assistant,
                    abandoned, vouched>>
      BY <1>18 DEF CheckNow
  <2> QED
      BY <2>1, <2>2
<1>19. ASSUME NEW c \in Codes, CheckRaises(c) PROVE TypeOK'
    BY <1>19 DEF CheckRaises
<1>20. CASE UNCHANGED vars
    BY <1>20
<1>21. CASE CustomerPaysOldCode
    BY <1>21 DEF CustomerPaysOldCode
<1> QED
    BY <1>1, <1>2, <1>3, <1>4, <1>5, <1>6, <1>7, <1>8, <1>9, <1>10, <1>11, <1>12, <1>13, <1>14, <1>15, <1>16, <1>17, <1>18, <1>19, <1>20, <1>21 DEF Next

LEMMA InitTyped == Init => TypeOK
<1> SUFFICES ASSUME Init PROVE TypeOK
    OBVIOUS
<1> USE PaymentBounds DEF Init, Statuses, Payments, Codes, KhqrStatuses
<1>1. /\ expiredOut \in BOOLEAN /\ link \in BOOLEAN /\ live \in BOOLEAN
      /\ abandoned \in BOOLEAN /\ vouched \in BOOLEAN
    OBVIOUS
<1>2. bank \in {"unpaid", "exact", "other"} /\ polls \in [Codes -> 0..MaxPolls]
    OBVIOUS
<1>3. events \in 0..MaxEvents /\ code \in 0..MaxCodes /\ (live => code > 0)
    OBVIOUS
<1> QED
    BY <1>1, <1>2, <1>3 DEF TypeOK

(* The marking of the order, and the types of its columns.                    *)
THEOREM TypeCorrect == Spec => []TypeOK
<1>1. Init => HookHasEvent
    BY DEF Init, HookHasEvent
<1> QED
    BY <1>1, InitTyped, HookInvariant, TypeInvariant, PTL DEF Spec

-----------------------------------------------------------------------------
(* Money first, then the mark.                                                *)

StripeVouches == (events > 0 \/ hook # NoRead) => vouched
BakongVouches == bank = "exact" => vouched
CauseInv      == StripeVouches /\ BakongVouches /\ PaidHasCause

LEMMA CauseInvariant ==
    ASSUME TypeOK, CauseInv, [Next]_vars
    PROVE  CauseInv'
<1> USE PaymentBounds, NoReadAssumption
    DEF TypeOK, CauseInv, StripeVouches, BakongVouches, PaidHasCause,
        vars, orderVars, stripeVars, khqrVars, Codes
<1>1. ASSUME NEW new \in Statuses, UpdateStatus(new) PROVE CauseInv'
    BY <1>1 DEF UpdateStatus
<1>2. CASE DeadlinePasses
    BY <1>2 DEF DeadlinePasses
<1>3. CASE ReleaseExpired
    BY <1>3 DEF ReleaseExpired, Releasable
<1>4. CASE ConfirmReceipt
    BY <1>4 DEF ConfirmReceipt, Pay
<1>5. CASE CheckoutReads
    BY <1>5 DEF CheckoutReads
<1>6. CASE CheckoutWrites
    BY <1>6 DEF CheckoutWrites
<1>7. CASE CheckoutRefused
    BY <1>7 DEF CheckoutRefused
<1>8. CASE CustomerPaysLink
    BY <1>8 DEF CustomerPaysLink
<1>9. CASE WebhookReads
    BY <1>9 DEF WebhookReads
<1>10. CASE WebhookWrites
    BY <1>10 DEF WebhookWrites, SawNotPaid, Pay
<1>11. CASE IssueKhqr
    BY <1>11 DEF IssueKhqr, NewCode, Current
<1>12. CASE AssistantReads
    BY <1>12 DEF AssistantReads
<1>13. CASE AssistantWrites
    BY <1>13 DEF AssistantWrites, NewCode
<1>14. CASE AssistantRollsBack
    BY <1>14 DEF AssistantRollsBack
<1>15. CASE CodeExpires
    BY <1>15 DEF CodeExpires
<1>16. CASE CustomerPaysCode
    BY <1>16 DEF CustomerPaysCode
<1>17. ASSUME NEW c \in Codes, RunCheck(c) PROVE CauseInv'
  <2>1. UNCHANGED <<stripeVars, bank, vouched>>
      BY <1>17 DEF RunCheck
  <2> QED
      BY <1>17, <2>1, CheckEffect, ApplyEffect
<1>18. CASE CheckNow
    BY <1>18, ApplyEffect DEF CheckNow
<1>19. ASSUME NEW c \in Codes, CheckRaises(c) PROVE CauseInv'
    BY <1>19 DEF CheckRaises
<1>20. CASE UNCHANGED vars
    BY <1>20
<1>21. CASE CustomerPaysOldCode
    BY <1>21 DEF CustomerPaysOldCode
<1> QED
    BY <1>1, <1>2, <1>3, <1>4, <1>5, <1>6, <1>7, <1>8, <1>9, <1>10, <1>11, <1>12, <1>13, <1>14, <1>15, <1>16, <1>17, <1>18, <1>19, <1>20, <1>21 DEF Next

(* However the handlers overlap, an order is only marked paid on account of   *)
(* money the seller has or a receipt the seller accepted.                     *)
THEOREM NothingPaidForFree == Spec => []PaidHasCause
<1>1. Init => CauseInv
    BY DEF Init, CauseInv, StripeVouches, BakongVouches, PaidHasCause
<1>2. CauseInv => PaidHasCause
    BY DEF CauseInv
<1> QED
    BY <1>1, <1>2, CauseInvariant, TypeCorrect, PTL DEF Spec

-----------------------------------------------------------------------------
(* What a payment wrote.                                                      *)

\* A step as RecordStandsUnlessOvertaken wants it.
Stands ==
    payment = "paid" /\ (payment' # payment \/ method' # method) =>
        \/ checkout # NoRead /\ checkout.payment = "unpaid" /\ checkout' = NoRead
        \/ hook # NoRead /\ hook.payment # "paid" /\ hook' = NoRead

LEMMA StepStands ==
    ASSUME TypeOK, [Next]_vars
    PROVE  Stands
<1> USE NoReadAssumption
    DEF TypeOK, Stands, vars, orderVars, stripeVars, khqrVars, Payments
<1>1. ASSUME NEW new \in Statuses, UpdateStatus(new) PROVE Stands
    BY <1>1 DEF UpdateStatus
<1>2. CASE DeadlinePasses
    BY <1>2 DEF DeadlinePasses
<1>3. CASE ReleaseExpired
    BY <1>3 DEF ReleaseExpired, Releasable
<1>4. CASE ConfirmReceipt
    BY <1>4 DEF ConfirmReceipt, Pay
<1>5. CASE CheckoutReads
    BY <1>5 DEF CheckoutReads
<1>6. CASE CheckoutWrites
    BY <1>6 DEF CheckoutWrites
<1>7. CASE CheckoutRefused
    BY <1>7 DEF CheckoutRefused
<1>8. CASE CustomerPaysLink
    BY <1>8 DEF CustomerPaysLink
<1>9. CASE WebhookReads
    BY <1>9 DEF WebhookReads
<1>10. CASE WebhookWrites
    BY <1>10 DEF WebhookWrites, SawNotPaid, Pay
<1>11. CASE IssueKhqr
    BY <1>11 DEF IssueKhqr, NewCode, Current
<1>12. CASE AssistantReads
    BY <1>12 DEF AssistantReads, Current
<1>13. CASE AssistantWrites
    BY <1>13 DEF AssistantWrites, NewCode
<1>14. CASE AssistantRollsBack
    BY <1>14 DEF AssistantRollsBack
<1>15. CASE CodeExpires
    BY <1>15 DEF CodeExpires
<1>16. CASE CustomerPaysCode
    BY <1>16 DEF CustomerPaysCode
<1>17. ASSUME NEW c \in Codes, RunCheck(c) PROVE Stands
  <2>1. UNCHANGED <<status, expiredOut, stripeVars, code, live, bank, assistant, vouched>>
      BY <1>17 DEF RunCheck
  <2> QED
      BY <1>17, <2>1, CheckEffect, ApplyEffect
<1>18. CASE CheckNow
    BY <1>18, ApplyEffect DEF CheckNow
<1>19. ASSUME NEW c \in Codes, CheckRaises(c) PROVE Stands
    BY <1>19 DEF CheckRaises
<1>20. CASE UNCHANGED vars
    BY <1>20
<1>21. CASE CustomerPaysOldCode
    BY <1>21 DEF CustomerPaysOldCode
<1> QED
    BY <1>1, <1>2, <1>3, <1>4, <1>5, <1>6, <1>7, <1>8, <1>9, <1>10, <1>11, <1>12, <1>13, <1>14, <1>15, <1>16, <1>17, <1>18, <1>19, <1>20, <1>21 DEF Next

(* However the handlers overlap, only a create_checkout or a webhook that read *)
(* the order before it was paid writes over what the payment left: checks,     *)
(* receipts and redeliveries that come later never do.                         *)
THEOREM RecordStands == Spec => RecordStandsUnlessOvertaken
<1>1. TypeOK /\ [Next]_vars =>
        [payment = "paid" /\ (payment' # payment \/ method' # method) =>
            \/ checkout # NoRead /\ checkout.payment = "unpaid" /\ checkout' = NoRead
            \/ hook # NoRead /\ hook.payment # "paid" /\ hook' = NoRead]_vars
    BY StepStands DEF Stands
<1> QED
    BY <1>1, TypeCorrect, PTL DEF Spec, RecordStandsUnlessOvertaken

-----------------------------------------------------------------------------
(* A page the customer can pay on keeps the order from expiring.              *)

\* What a checkout read is no older than the payment of an order still unpaid.
CheckoutKnowsUnpaid == checkout # NoRead /\ payment = "unpaid" => checkout.payment = "unpaid"
UnpaidOwesNothing   == payment = "unpaid" => ~link /\ events = 0 /\ hook = NoRead
ExpiryInv == CheckoutKnowsUnpaid /\ UnpaidOwesNothing

\* A step as ExpiryLeavesNoPage wants it.
LeavesNoPage == expiredOut' /\ ~expiredOut => ~link /\ events = 0 /\ hook = NoRead
ExpiryStep   == ExpiryInv' /\ LeavesNoPage

LEMMA ExpiryInvariant ==
    ASSUME TypeOK, ExpiryInv, [Next]_vars
    PROVE  ExpiryStep
<1> USE PaymentBounds, NoReadAssumption
    DEF TypeOK, ExpiryInv, CheckoutKnowsUnpaid, UnpaidOwesNothing, LeavesNoPage, ExpiryStep,
        vars, orderVars, stripeVars, khqrVars, Payments
<1>1. ASSUME NEW new \in Statuses, UpdateStatus(new) PROVE ExpiryStep
    BY <1>1 DEF UpdateStatus
<1>2. CASE DeadlinePasses
    BY <1>2 DEF DeadlinePasses
<1>3. CASE ReleaseExpired
    BY <1>3 DEF ReleaseExpired, Releasable
<1>4. CASE ConfirmReceipt
    BY <1>4 DEF ConfirmReceipt, Pay
<1>5. CASE CheckoutReads
    BY <1>5 DEF CheckoutReads
<1>6. CASE CheckoutWrites
    BY <1>6 DEF CheckoutWrites
<1>7. CASE CheckoutRefused
    BY <1>7 DEF CheckoutRefused
<1>8. CASE CustomerPaysLink
    BY <1>8 DEF CustomerPaysLink
<1>9. CASE WebhookReads
    BY <1>9 DEF WebhookReads
<1>10. CASE WebhookWrites
    BY <1>10 DEF WebhookWrites, SawNotPaid, Pay
<1>11. CASE IssueKhqr
    BY <1>11 DEF IssueKhqr, NewCode, Current
<1>12. CASE AssistantReads
    BY <1>12 DEF AssistantReads, Current
<1>13. CASE AssistantWrites
    BY <1>13 DEF AssistantWrites, NewCode
<1>14. CASE AssistantRollsBack
    BY <1>14 DEF AssistantRollsBack
<1>15. CASE CodeExpires
    BY <1>15 DEF CodeExpires
<1>16. CASE CustomerPaysCode
    BY <1>16 DEF CustomerPaysCode
<1>17. ASSUME NEW c \in Codes, RunCheck(c) PROVE ExpiryStep
  <2>1. UNCHANGED <<status, expiredOut, stripeVars, code, live, bank, assistant, vouched>>
      BY <1>17 DEF RunCheck
  <2> QED
      BY <1>17, <2>1, CheckEffect, ApplyEffect
<1>18. CASE CheckNow
    BY <1>18, ApplyEffect DEF CheckNow
<1>19. ASSUME NEW c \in Codes, CheckRaises(c) PROVE ExpiryStep
    BY <1>19 DEF CheckRaises
<1>20. CASE UNCHANGED vars
    BY <1>20
<1>21. CASE CustomerPaysOldCode
    BY <1>21 DEF CustomerPaysOldCode
<1> QED
    BY <1>1, <1>2, <1>3, <1>4, <1>5, <1>6, <1>7, <1>8, <1>9, <1>10, <1>11, <1>12, <1>13, <1>14, <1>15, <1>16, <1>17, <1>18, <1>19, <1>20, <1>21 DEF Next

(* Whatever overlaps, an order never expires with a page open on which it can *)
(* be paid or a Stripe payment under way: only a page created after that, by  *)
(* a create_checkout that began before, takes money for what was released.    *)
THEOREM ExpiryIsClean == Spec => ExpiryLeavesNoPage
<1>1. Init => ExpiryInv
    BY DEF Init, ExpiryInv, CheckoutKnowsUnpaid, UnpaidOwesNothing
<1>2. TypeOK /\ ExpiryInv /\ [Next]_vars =>
        ExpiryInv' /\ [expiredOut' /\ ~expiredOut => ~link /\ events = 0 /\ hook = NoRead]_vars
    BY ExpiryInvariant DEF ExpiryStep, LeavesNoPage
<1> QED
    BY <1>1, <1>2, TypeCorrect, PTL DEF Spec, ExpiryLeavesNoPage

-----------------------------------------------------------------------------
(* Every code a customer can pay is looked after.                             *)

KhqrTellsPayment == khqr = "paid" => payment = "paid" \/ abandoned
KhqrTellsCode    == khqr \in {"none", "expired"} => ~live \/ abandoned
CodeTellsKhqr    == code = 0 => khqr = "none"
WatchInv == KhqrTellsPayment /\ KhqrTellsCode /\ CodeTellsKhqr /\ PayableCodeIsWatched

LEMMA WatchInvariant ==
    ASSUME TypeOK, WatchInv, [Next]_vars
    PROVE  WatchInv'
<1> USE PaymentBounds, NoReadAssumption
    DEF TypeOK, WatchInv, KhqrTellsPayment, KhqrTellsCode, CodeTellsKhqr,
        PayableCodeIsWatched, vars, orderVars, stripeVars, khqrVars, Payments, Codes
<1>1. ASSUME NEW new \in Statuses, UpdateStatus(new) PROVE WatchInv'
    BY <1>1 DEF UpdateStatus
<1>2. CASE DeadlinePasses
    BY <1>2 DEF DeadlinePasses
<1>3. CASE ReleaseExpired
    BY <1>3 DEF ReleaseExpired, Releasable
<1>4. CASE ConfirmReceipt
    BY <1>4 DEF ConfirmReceipt, Pay
<1>5. CASE CheckoutReads
    BY <1>5 DEF CheckoutReads
<1>6. CASE CheckoutWrites
    BY <1>6 DEF CheckoutWrites
<1>7. CASE CheckoutRefused
    BY <1>7 DEF CheckoutRefused
<1>8. CASE CustomerPaysLink
    BY <1>8 DEF CustomerPaysLink
<1>9. CASE WebhookReads
    BY <1>9 DEF WebhookReads
<1>10. CASE WebhookWrites
    BY <1>10 DEF WebhookWrites, SawNotPaid, Pay
<1>11. CASE IssueKhqr
    BY <1>11 DEF IssueKhqr, NewCode, Current
<1>12. CASE AssistantReads
    BY <1>12 DEF AssistantReads, Current
<1>13. CASE AssistantWrites
  <2>1. /\ code' = code + 1 /\ polls' = [polls EXCEPT ![code + 1] = 1] /\ code + 1 \in Codes
        /\ payment' = payment
      BY <1>13 DEF AssistantWrites, NewCode
  <2>2. PICK shown \in KhqrStatuses : khqr' = shown /\ (abandoned' <=> shown # "issued")
      BY <1>13 DEF AssistantWrites, NewCode, KhqrStatuses
  <2>3. polls'[code'] = 1 /\ code' # 0
      BY <2>1
  <2> QED
      BY <2>2, <2>3
<1>14. CASE AssistantRollsBack
    BY <1>14 DEF AssistantRollsBack
<1>15. CASE CodeExpires
    BY <1>15 DEF CodeExpires
<1>16. CASE CustomerPaysCode
    BY <1>16 DEF CustomerPaysCode
<1>17. ASSUME NEW c \in Codes, RunCheck(c) PROVE WatchInv'
  <2>1. UNCHANGED <<code, live>> /\ polls[c] > 0 /\ Scheduled \in {0, 1}
      BY <1>17 DEF RunCheck, Scheduled
  <2>2. CASE Superseded(c) /\ Checked(c, 0) /\ UNCHANGED <<payment, khqr, abandoned>>
    <3>1. code # c \/ khqr # "issued" \/ payment = "paid"
        BY <2>2 DEF Superseded
    <3>2. code # c /\ code \in Codes => polls'[code] = polls[code]
        BY <2>1, <2>2, CheckedEffect
    <3> QED
        BY <2>1, <2>2, <3>1, <3>2
  <2>3. CASE ~live /\ ~Superseded(c) /\ khqr' = "expired" /\ UNCHANGED <<payment, abandoned>>
      BY <2>1, <2>3 DEF Superseded
  <2>4. CASE /\ Askable(c) /\ Checked(c, Scheduled) /\ UNCHANGED abandoned
             /\ \E found \in Answers : Apply(found)
    <3>1. code = c /\ khqr = "issued"
        BY <2>4 DEF Askable, Superseded
    <3>2. \/ khqr' = khqr /\ payment' = payment
          \/ khqr' = "mismatch"
          \/ khqr' = "paid" /\ payment' = "paid"
        BY <2>4, ApplyEffect
    <3>3. khqr' = "issued" => polls'[c] > 0
      <4>1. khqr' = "issued" => Scheduled = 1
          BY DEF Scheduled
      <4>2. polls' \in [Codes -> 0..MaxPolls] /\ polls'[c] >= Scheduled
          BY <2>1, <2>4, CheckedEffect
      <4> QED
          BY <4>1, <4>2
    <3> QED
        BY <2>1, <2>4, <3>1, <3>2, <3>3
  <2>5. CASE Askable(c) /\ abandoned' /\ UNCHANGED <<payment, khqr>>
      BY <2>1, <2>5 DEF Askable, Superseded
  <2> QED
      BY <1>17, <2>2, <2>3, <2>4, <2>5 DEF RunCheck
<1>18. CASE CheckNow
  <2>1. \/ khqr' = khqr /\ payment' = payment
        \/ khqr' = "mismatch"
        \/ khqr' = "paid" /\ payment' = "paid"
      BY <1>18, ApplyEffect DEF CheckNow
  <2>2. code > 0 /\ UNCHANGED <<code, live, polls, abandoned>>
      BY <1>18 DEF CheckNow
  <2> QED
      BY <2>1, <2>2
<1>19. ASSUME NEW c \in Codes, CheckRaises(c) PROVE WatchInv'
    BY <1>19 DEF CheckRaises
<1>20. CASE UNCHANGED vars
    BY <1>20
<1>21. CASE CustomerPaysOldCode
    BY <1>21 DEF CustomerPaysOldCode
<1> QED
    BY <1>1, <1>2, <1>3, <1>4, <1>5, <1>6, <1>7, <1>8, <1>9, <1>10, <1>11, <1>12, <1>13, <1>14, <1>15, <1>16, <1>17, <1>18, <1>19, <1>20, <1>21 DEF Next

(* However the handlers overlap, every code a customer can still pay has a    *)
(* check queued that will see the payment, but for the ways the code has of   *)
(* giving one up: a check that raised or had no token to ask with, a reply of *)
(* the assistant older than the order, a payment taken back.                  *)
THEOREM CodesAreWatched == Spec => []PayableCodeIsWatched
<1>1. Init => WatchInv
    BY DEF Init, WatchInv, KhqrTellsPayment, KhqrTellsCode, CodeTellsKhqr, PayableCodeIsWatched
<1>2. TypeOK /\ WatchInv /\ [Next]_vars => WatchInv'
    BY WatchInvariant
<1>3. WatchInv => PayableCodeIsWatched
    BY DEF WatchInv
<1> QED
    BY <1>1, <1>2, <1>3, TypeCorrect, PTL DEF Spec

-----------------------------------------------------------------------------
(* The order as the rest of the shop sees it.                                 *)

\* The rows of an order of no variants.
LEMMA NothingOnShelves ==
    ASSUME NEW d
    PROVE  /\ [v \in {} |-> 0] = [v \in {} |-> d]
           /\ Shop!NoItems = [v \in {} |-> 0]
BY DEF Shop!NoItems

\* A movement of no variant is allowed, and moves nothing.
LEMMA NothingMoves ==
    ASSUME NEW toShelf, NEW toReserve
    PROVE  Shop!MoveStock(toShelf, toReserve)
<1>1. [v \in {} |-> 0]' = [v \in {} |-> [w \in {} |-> 0][v] + toShelf[v]]
    OBVIOUS
<1>2. [v \in {} |-> 0]' = [v \in {} |-> [w \in {} |-> 0][v] + toReserve[v]]
    OBVIOUS
<1> QED
    BY <1>1, <1>2 DEF Shop!MoveStock

\* What the shop sees of a step that leaves three columns alone.
LEMMA UnseenByTheShop ==
    ASSUME UNCHANGED <<status, payment, deadline>>
    PROVE  UNCHANGED Shop!vars
BY DEF Shop!vars

LEMMA SellerMovesAsOrdered ==
    ASSUME TypeOK, NEW new \in Statuses, UpdateStatus(new)
    PROVE  Shop!Next
<1> USE AcceptedAssumption DEF Statuses
<1>1. /\ status \in {"pending", "confirmed", "processing", "shipped", "delivered", "cancelled"}
      /\ new \in {"pending", "confirmed", "processing", "shipped", "delivered", "cancelled"}
      /\ new # status
    BY DEF TypeOK, UpdateStatus
<1>2. status' = new /\ deadline' = (IF new = "pending" THEN "running" ELSE "none") /\ payment' = payment
    BY DEF UpdateStatus
<1>3. "order" \in Order /\ new \in Shop!Statuses
    BY <1>1 DEF Order, Shop!Statuses, Shop!Reserving, Shop!Fulfilled
<1>4. Shop!SetStatus("order", new)
  <2>1. [o \in Order |-> status]' = [[o \in Order |-> status] EXCEPT !["order"] = new]
      BY <1>2 DEF Order
  <2>2. [o \in Order |-> deadline]'
          = [[o \in Order |-> deadline] EXCEPT !["order"] = IF new = "pending" THEN "running" ELSE "none"]
      BY <1>2 DEF Order
  <2>3. UNCHANGED <<[o \in Order |-> payment], [o \in Order |-> [v \in {} |-> 0]], [v \in {} |-> 0]>>
      BY <1>2
  <2> QED
      BY <2>1, <2>2, <2>3 DEF Shop!SetStatus
<1>5. [o \in Order |-> status]["order"] = status
    BY <1>3
<1>6. CASE new = "cancelled"
  <2>1. Shop!ReleaseOrderStock("order")
      BY NothingMoves DEF Shop!ReleaseOrderStock
  <2>2. [o \in Order |-> status]["order"] \in Shop!Reserving \cup Shop!Fulfilled
      BY <1>1, <1>5, <1>6 DEF Shop!Reserving, Shop!Fulfilled
  <2>3. /\ [o \in Order |-> status]' = [[o \in Order |-> status] EXCEPT !["order"] = "cancelled"]
        /\ [o \in Order |-> deadline]' = [[o \in Order |-> deadline] EXCEPT !["order"] = "none"]
      BY <1>2, <1>6 DEF Order
  <2>4. UNCHANGED <<[o \in Order |-> payment], [o \in Order |-> [v \in {} |-> 0]], [v \in {} |-> 0]>>
      BY <1>2
  <2>5. Shop!Cancel("order")
      BY <2>1, <2>2, <2>3, <2>4 DEF Shop!Cancel
  <2> QED
      BY <1>3, <2>5 DEF Shop!Next
<1>7. CASE status = "cancelled"
  <2>1. Shop!Reopen("order", new)
      BY <1>1, <1>4, <1>5, <1>7, NothingMoves DEF Shop!Reopen
  <2> QED
      BY <1>3, <2>1 DEF Shop!Next
<1>8. CASE status \in Shop!Reserving /\ new \in Shop!Fulfilled
  <2>1. Shop!Fulfil("order", new)
      BY <1>4, <1>5, <1>8, NothingMoves DEF Shop!Fulfil
  <2> QED
      BY <1>3, <2>1 DEF Shop!Next
<1>9. CASE status \in Shop!Fulfilled /\ new \in Shop!Reserving
  <2>1. Shop!TakeBack("order", new)
      BY <1>4, <1>5, <1>9, NothingMoves DEF Shop!TakeBack
  <2> QED
      BY <1>3, <2>1 DEF Shop!Next
<1>10. CASE \/ {status, new} \subseteq Shop!Reserving
            \/ {status, new} \subseteq Shop!Fulfilled
  <2>1. Shop!Progress("order", new)
      BY <1>1, <1>4, <1>5, <1>10 DEF Shop!Progress
  <2> QED
      BY <1>3, <2>1 DEF Shop!Next
<1> QED
    BY <1>1, <1>6, <1>7, <1>8, <1>9, <1>10 DEF Shop!Reserving, Shop!Fulfilled

LEMMA ExpiryIsTheShops ==
    ASSUME ReleaseExpired
    PROVE  Shop!Next
<1>1. /\ status = "pending" /\ payment = "unpaid" /\ deadline = "passed"
      /\ status' = "cancelled" /\ deadline' = "none" /\ payment' = payment
    BY DEF ReleaseExpired, Releasable
<1>2. Order \in SUBSET Shop!Expired /\ Order # {}
    BY <1>1 DEF Shop!Expired, Order
<1>3. Shop!ReleaseExpired(Order)
    BY <1>1, <1>2, NothingMoves DEF Shop!ReleaseExpired
<1> QED
    BY <1>2, <1>3 DEF Shop!Next

\* Marking the order paid, with the deadline cleared or not, is a payment
\* reported, whatever the order was.
LEMMA MarkingIsReporting ==
    ASSUME TypeOK, status' = status, payment' = "paid", deadline' \in {"none", deadline}
    PROVE  Shop!Next
<1>1. "order" \in Order /\ [o \in Order |-> status]["order"] # "absent"
    BY AcceptedAssumption DEF Order, TypeOK, Statuses
<1>2. PICK sawDeadline \in BOOLEAN : deadline' = IF sawDeadline THEN "none" ELSE deadline
    OBVIOUS
<1>3. Shop!PaymentReported("order")
    <2>1. [o \in Order |-> payment]' = [[o \in Order |-> payment] EXCEPT !["order"] = "paid"]
        BY DEF Order
    <2>2. [o \in Order |-> deadline]'
            = [[o \in Order |-> deadline] EXCEPT !["order"] = IF sawDeadline THEN "none" ELSE @]
        BY <1>2 DEF Order
    <2>3. UNCHANGED <<[o \in Order |-> status], [o \in Order |-> [v \in {} |-> 0]],
                      [v \in {} |-> 0], [v \in {} |-> 0], [v \in {} |-> 0]>>
        OBVIOUS
    <2> QED BY <1>1, <2>1, <2>2, <2>3 DEF Shop!PaymentReported
<1> QED
    BY <1>1, <1>3 DEF Shop!Next

LEMMA CheckoutIsTheShops ==
    ASSUME TypeOK, CheckoutKnowsUnpaid, CheckoutWrites
    PROVE  Shop!Next
<1>1. "order" \in Order /\ [o \in Order |-> status]["order"] # "absent"
    BY AcceptedAssumption DEF Order, TypeOK, Statuses
<1>2. PICK sawUnpaid \in BOOLEAN : sawUnpaid = (checkout.payment = "unpaid")
    OBVIOUS
<1>3. PICK sawPending \in BOOLEAN : sawPending = checkout.pending
    BY DEF TypeOK, CheckoutWrites
<1>4. /\ payment = "unpaid" => sawUnpaid
      /\ payment' = IF sawUnpaid THEN "pending" ELSE payment
      /\ deadline' = IF sawPending THEN "running" ELSE deadline
      /\ status' = status
    BY <1>2, <1>3 DEF CheckoutWrites, CheckoutKnowsUnpaid
<1>5. Shop!CheckoutOpened("order")
    <2>1. [o \in Order |-> payment]'
            = [[o \in Order |-> payment] EXCEPT !["order"] = IF sawUnpaid THEN "pending" ELSE @]
        BY <1>4 DEF Order
    <2>2. [o \in Order |-> deadline]'
            = [[o \in Order |-> deadline] EXCEPT !["order"] = IF sawPending THEN "running" ELSE @]
        BY <1>4 DEF Order
    <2>3. [o \in Order |-> payment]["order"] = "unpaid" => sawUnpaid
        BY <1>1, <1>4
    <2>4. UNCHANGED <<[o \in Order |-> status], [o \in Order |-> [v \in {} |-> 0]],
                      [v \in {} |-> 0], [v \in {} |-> 0], [v \in {} |-> 0]>>
        BY <1>4
    <2> QED BY <1>1, <2>1, <2>2, <2>3, <2>4 DEF Shop!CheckoutOpened
<1> QED
    BY <1>1, <1>5 DEF Shop!Next

\* A step as the shop sees it.
SeenByTheShop == CheckoutKnowsUnpaid' /\ [Shop!Next]_(Shop!vars)

LEMMA ShopStep ==
    ASSUME TypeOK, CheckoutKnowsUnpaid, [Next]_vars
    PROVE  SeenByTheShop
<1> USE NoReadAssumption DEF CheckoutKnowsUnpaid, vars, orderVars, stripeVars, khqrVars
<1>0. ASSUME checkout' \in {checkout, NoRead}, payment' \in {payment, "pending", "paid"}
      PROVE  CheckoutKnowsUnpaid'
    BY <1>0
<1>1. ASSUME UNCHANGED <<status, payment, deadline, checkout>> PROVE SeenByTheShop
    BY <1>0, <1>1, UnseenByTheShop DEF SeenByTheShop
<1>2. ASSUME status' = status, payment' = "paid", deadline' \in {"none", deadline}, checkout' = checkout
      PROVE  SeenByTheShop
    BY <1>0, <1>2, MarkingIsReporting DEF SeenByTheShop
<1>3. ASSUME NEW new \in Statuses, UpdateStatus(new) PROVE SeenByTheShop
  <2>1. UNCHANGED <<payment, checkout>>
      BY <1>3 DEF UpdateStatus
  <2> QED
      BY <1>0, <1>3, <2>1, SellerMovesAsOrdered DEF SeenByTheShop
<1>4. CASE DeadlinePasses
  <2>1. /\ deadline = "running" /\ deadline' = "passed"
        /\ UNCHANGED <<status, payment, checkout>>
      BY <1>4 DEF DeadlinePasses
  <2>2. "order" \in Order /\ [o \in Order |-> deadline]["order"] = "running"
      BY <2>1 DEF Order
  <2>3. [o \in Order |-> deadline]' = [[o \in Order |-> deadline] EXCEPT !["order"] = "passed"]
      BY <2>1 DEF Order
  <2>4. Shop!DeadlinePasses("order")
      BY <2>1, <2>2, <2>3 DEF Shop!DeadlinePasses
  <2> QED
      BY <1>0, <2>1, <2>2, <2>4 DEF SeenByTheShop, Shop!Next
<1>5. CASE ReleaseExpired
  <2>1. UNCHANGED <<payment, checkout>>
      BY <1>5 DEF ReleaseExpired
  <2> QED
      BY <1>0, <1>5, <2>1, ExpiryIsTheShops DEF SeenByTheShop
<1>6. CASE ConfirmReceipt
    BY <1>2, <1>6 DEF ConfirmReceipt, Pay
<1>7. CASE CheckoutReads
  <2>1. UNCHANGED <<status, payment, deadline>> /\ checkout'.payment = payment
      BY <1>7 DEF CheckoutReads
  <2> QED
      BY <2>1, UnseenByTheShop DEF SeenByTheShop
<1>8. CASE CheckoutWrites
  <2>1. checkout' = NoRead
      BY <1>8 DEF CheckoutWrites
  <2> QED
      BY <1>8, <2>1, CheckoutIsTheShops DEF SeenByTheShop
<1>9. CASE CheckoutRefused
  <2>1. checkout' = NoRead /\ UNCHANGED <<status, payment, deadline>>
      BY <1>9 DEF CheckoutRefused
  <2> QED
      BY <1>0, <2>1, UnseenByTheShop DEF SeenByTheShop
<1>10. CASE WebhookWrites
  <2>1. CASE SawNotPaid
      BY <1>2, <1>10, <2>1 DEF WebhookWrites, Pay
  <2>2. CASE ~SawNotPaid
      BY <1>1, <1>10, <2>2 DEF WebhookWrites
  <2> QED
      BY <2>1, <2>2
<1>11. ASSUME NEW found \in Answers, Apply(found), UNCHANGED <<status, checkout>>
       PROVE  SeenByTheShop
  <2>1. \/ UNCHANGED <<payment, deadline>>
        \/ payment' = "paid" /\ deadline' = "none"
      BY <1>11, ApplyEffect
  <2> QED
      BY <1>1, <1>2, <1>11, <2>1
<1>12. ASSUME NEW c \in Codes, RunCheck(c) PROVE SeenByTheShop
  <2>1. UNCHANGED <<status, checkout>>
      BY <1>12 DEF RunCheck
  <2> QED
      BY <1>1, <1>11, <1>12, <2>1, CheckEffect
<1>13. CASE CheckNow
    BY <1>11, <1>13 DEF CheckNow
<1>14. CASE \/ CustomerPaysLink \/ WebhookReads \/ IssueKhqr \/ AssistantReads \/ AssistantWrites
            \/ AssistantRollsBack \/ CodeExpires \/ CustomerPaysCode \/ CustomerPaysOldCode
            \/ (\E c \in Codes : CheckRaises(c)) \/ UNCHANGED vars
  <2>1. UNCHANGED <<status, payment, deadline, checkout>>
      BY <1>14 DEF CustomerPaysLink, WebhookReads, IssueKhqr, AssistantReads, AssistantWrites,
                   AssistantRollsBack, CodeExpires, CustomerPaysCode, CustomerPaysOldCode, CheckRaises
  <2> QED
      BY <1>1, <2>1
<1> QED
    BY <1>3, <1>4, <1>5, <1>6, <1>7, <1>8, <1>9, <1>10, <1>12, <1>13, <1>14 DEF Next

(* Whatever handlers overlap, all that payment, the seller and the clock do   *)
(* to an order are steps of OrderStock: its theorems stand on no assumption   *)
(* about payment that OrderPayment does not keep.                             *)
THEOREM PaymentIsTheShops == Spec => PaymentKeepsTheBooks
<1>1. Init => CheckoutKnowsUnpaid
    BY DEF Init, CheckoutKnowsUnpaid
<1>2. TypeOK /\ CheckoutKnowsUnpaid /\ [Next]_vars => CheckoutKnowsUnpaid' /\ [Shop!Next]_(Shop!vars)
    BY ShopStep DEF SeenByTheShop
<1> QED
    BY <1>1, <1>2, TypeCorrect, PTL DEF Spec, PaymentKeepsTheBooks

-----------------------------------------------------------------------------
(* What OrderStock promises of one step holds of every step here.             *)
Books == INSTANCE OrderStock_proofs WITH
             Orders   <- Order, Variants <- {}, MaxQty <- 1, MaxSupply <- 0,
             status   <- [o \in Order |-> status],
             payment  <- [o \in Order |-> payment],
             deadline <- [o \in Order |-> deadline],
             qty      <- [o \in Order |-> [v \in {} |-> 0]],
             stock    <- [v \in {} |-> 0],
             reserved <- [v \in {} |-> 0],
             supplied <- [v \in {} |-> 0]

LEMMA BooksAssumed == Books!OrdersAssumption /\ Books!BoundsAssumption
<1>1. IsFiniteSet(Order)
    BY FS_Singleton DEF Order
<1> QED
    BY <1>1 DEF Books!OrdersAssumption, Books!BoundsAssumption, Books!IsFiniteSet, IsFiniteSet

LEMMA BooksMoveAsTheShop == Books!Next <=> Shop!Next
BY Zenon DEF Books!Next, Shop!Next, Books!Cart, Shop!Cart, Books!Statuses, Shop!Statuses,
       Books!Reserving, Shop!Reserving, Books!Fulfilled, Shop!Fulfilled, Books!Expired, Shop!Expired,
       Books!NoItems, Shop!NoItems, Books!Units, Shop!Units, Books!Claimed, Shop!Claimed,
       Books!Cardinality, Shop!Cardinality, Books!IsFiniteSet, Shop!IsFiniteSet,
       Books!MoveStock, Shop!MoveStock, Books!Neg, Shop!Neg, Books!ReleaseOrderStock,
       Shop!ReleaseOrderStock, Books!SetStatus, Shop!SetStatus, Books!CreateOrder, Shop!CreateOrder,
       Books!ReleaseExpired, Shop!ReleaseExpired, Books!Cancel, Shop!Cancel, Books!Reopen, Shop!Reopen,
       Books!Fulfil, Shop!Fulfil, Books!TakeBack, Shop!TakeBack, Books!Progress, Shop!Progress,
       Books!DeleteOrder, Shop!DeleteOrder, Books!AdjustStock, Shop!AdjustStock,
       Books!CheckoutOpened, Shop!CheckoutOpened, Books!PaymentReported, Shop!PaymentReported,
       Books!ReceiptConfirmed, Shop!ReceiptConfirmed, Books!DeadlinePasses, Shop!DeadlinePasses

LEMMA BooksAreTyped == TypeOK => Books!TypeOK
<1> SUFFICES ASSUME TypeOK PROVE Books!TypeOK
    OBVIOUS
<1>1. Statuses \subseteq Books!Statuses
    BY AcceptedAssumption DEF Statuses, Books!Statuses, Books!Reserving, Books!Fulfilled
<1>2. Payments = Books!Payments
    BY DEF Payments, Books!Payments
<1> QED BY <1>1, <1>2 DEF TypeOK, Books!TypeOK, Books!Cart

LEMMA BooksStep == ASSUME [Shop!Next]_(Shop!vars) PROVE [Books!Next]_(Books!vars)
<1>1. UNCHANGED Shop!vars => UNCHANGED Books!vars
    BY DEF Shop!vars, Books!vars
<1> QED BY <1>1, BooksMoveAsTheShop

(* Whoever reads before whom, an order that waits for its payment is always   *)
(* on the clock: no overlap of handlers leaves one that release_expired would *)
(* never look at.                                                             *)
THEOREM UnpaidOrdersAreTimed == Spec => [](status = "pending" /\ payment = "unpaid" => deadline # "none")
<1>1. Init => Books!UnpaidPendingHasDeadline
    BY DEF Init, Books!UnpaidPendingHasDeadline, Order
<1>2. /\ TypeOK /\ Books!UnpaidPendingHasDeadline /\ [Shop!Next]_(Shop!vars)
      => Books!UnpaidPendingHasDeadline'
    <2> SUFFICES ASSUME TypeOK, Books!UnpaidPendingHasDeadline, [Shop!Next]_(Shop!vars)
                 PROVE  Books!UnpaidPendingHasDeadline'
        OBVIOUS
    <2>1. [Books!Next]_(Books!vars)
        BY BooksStep
    <2>2. Books!TypeOK
        BY BooksAreTyped
    <2> QED BY <2>1, <2>2, BooksAssumed, Books!DeadlinesAreKept
<1>3. Books!UnpaidPendingHasDeadline => (status = "pending" /\ payment = "unpaid" => deadline # "none")
    BY DEF Books!UnpaidPendingHasDeadline, Order
<1> QED BY <1>1, <1>2, <1>3, TypeCorrect, PaymentIsTheShops, PTL DEF Spec, PaymentKeepsTheBooks
=============================================================================
