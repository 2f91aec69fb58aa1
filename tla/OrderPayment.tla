---------------------------- MODULE OrderPayment ----------------------------
(* How one order comes to be paid: a Stripe payment page and its webhook, a   *)
(* dynamic KHQR and the jobs that ask Bakong about it, a receipt the seller   *)
(* confirms -- while the seller moves the order and its reservation expires.  *)
(*                                                                            *)
(* Most handlers hold the order row FOR UPDATE until they commit and are one  *)
(* step.  Three do not: create_checkout reads the order, calls Stripe and     *)
(* writes; the Stripe webhook reads and writes; the assistant issues a KHQR   *)
(* while answering a customer.  Each of these is two steps, the second acting *)
(* on what the first one read, with any other step between them.              *)
EXTENDS Integers

CONSTANTS
    Accepted,   \* the statuses an order goes through once it is accepted
    Channels,   \* ways to pay the shop has set up
    NoRead,     \* no such handler in flight
    MaxCodes,   \* bound: KHQR codes issued for the order
    MaxEvents,  \* bound: Stripe events under way
    MaxPolls    \* bound: khqr_check jobs queued for one code

ASSUME AcceptedAssumption == Accepted \subseteq {"confirmed", "processing", "shipped", "delivered"}
ASSUME ChannelsAssumption == Channels \subseteq {"stripe", "khqr", "receipt"}
ASSUME PaymentBounds ==
    MaxCodes \in Nat \ {0} /\ MaxEvents \in Nat \ {0} /\ MaxPolls \in Nat \ {0}
ASSUME NoReadAssumption ==
    /\ NoRead \notin [payment : {"unpaid", "pending", "paid"}, pending : BOOLEAN]
    /\ NoRead \notin [payment : {"unpaid", "pending", "paid"}, deadline : BOOLEAN]
    /\ NoRead \notin {"none", "issued", "paid", "expired", "mismatch"}

VARIABLES
    status,     \* Order.status
    payment,    \* Order.payment_status
    method,     \* who wrote payment_method, paid_at and paid_amount last
    deadline,   \* Order.reservation_expires_at
    expiredOut, \* history: the cancellation in force was an expiry
    checkout,   \* what create_checkout read, or NoRead
    link,       \* a payment page the customer can still pay on
    events,     \* checkout.session.completed deliveries Stripe still owes us
    hook,       \* what the webhook read, or NoRead
    khqr,       \* Order.khqr_status
    code,       \* Order.khqr_md5: the last code issued, 0 for none
    live,       \* whether that code is not past its expiry
    bank,       \* what Bakong knows of that code
    polls,      \* khqr_check jobs queued for each code
    assistant,  \* khqr_status as the assistant read it, or NoRead
    abandoned,  \* history: the watching of the last code ended for a reason named below
    vouched     \* history: money reached the seller, or a receipt was accepted

orderVars  == <<status, payment, method, deadline, expiredOut>>
stripeVars == <<checkout, link, events, hook>>
khqrVars   == <<khqr, code, live, bank, polls, assistant, abandoned>>
vars       == <<orderVars, stripeVars, khqrVars, vouched>>

Payments == {"unpaid", "pending", "paid"}
Statuses == {"pending", "cancelled"} \cup Accepted
Codes    == 1..MaxCodes
KhqrStatuses == {"none", "issued", "paid", "expired", "mismatch"}

Init ==
    /\ status = "pending" /\ payment = "unpaid" /\ method = "none"
    /\ deadline = "running" /\ expiredOut = FALSE
    /\ checkout = NoRead /\ link = FALSE /\ events = 0 /\ hook = NoRead
    /\ khqr = "none" /\ code = 0 /\ live = FALSE
    /\ bank = "unpaid"
    /\ polls = [c \in Codes |-> 0]
    /\ assistant = NoRead
    /\ abandoned = FALSE
    /\ vouched = FALSE

Pay(how) ==
    /\ payment' = "paid"
    /\ method' = how

-----------------------------------------------------------------------------
(* The seller and the clock.                                                  *)

UpdateStatus(new) ==
    /\ new # status
    /\ status' = new
    /\ deadline' = IF new = "pending" THEN "running" ELSE "none"
    /\ expiredOut' = FALSE
    /\ UNCHANGED <<payment, method, stripeVars, khqrVars, vouched>>

DeadlinePasses ==
    /\ deadline = "running"
    /\ deadline' = "passed"
    /\ UNCHANGED <<status, payment, method, expiredOut, stripeVars, khqrVars, vouched>>

\* Mutant: as if only a payment, not an open payment page, kept an order.
ReleasableUnlessPaid == status = "pending" /\ payment # "paid" /\ deadline = "passed"

Releasable == status = "pending" /\ payment = "unpaid" /\ deadline = "passed"

ReleaseExpired ==
    /\ Releasable
    /\ status' = "cancelled"
    /\ deadline' = "none"
    /\ expiredOut' = TRUE
    /\ UNCHANGED <<payment, method, stripeVars, khqrVars, vouched>>

\* Confirming leaves the reservation's deadline as it is.
ConfirmReceipt ==
    /\ "receipt" \in Channels
    /\ status # "cancelled"
    /\ payment # "paid"
    /\ Pay("qr")
    /\ vouched' = TRUE
    /\ UNCHANGED <<status, deadline, expiredOut, stripeVars, khqrVars>>

-----------------------------------------------------------------------------
(* Stripe.                                                                    *)

CheckoutReads ==
    /\ "stripe" \in Channels
    /\ checkout = NoRead
    /\ payment # "paid"
    /\ status # "cancelled"
    /\ checkout' = [payment |-> payment, pending |-> status = "pending"]
    /\ UNCHANGED <<orderVars, link, events, hook, khqrVars, vouched>>

(* Only the columns the handler changed relative to what it read are written. *)
(* A payment made meanwhile is taken back by it, when the checks of the code  *)
(* may already have stopped on seeing the order paid.                         *)
CheckoutWrites ==
    /\ checkout # NoRead
    /\ payment' = IF checkout.payment = "unpaid" THEN "pending" ELSE payment
    /\ deadline' = IF checkout.pending THEN "running" ELSE deadline
    /\ link' = TRUE
    /\ checkout' = NoRead
    /\ abandoned' = (abandoned \/ (payment = "paid" /\ payment' # "paid"))
    /\ UNCHANGED <<status, method, expiredOut, events, hook, khqr, code, live, bank, polls,
                   assistant, vouched>>

CheckoutRefused ==
    /\ checkout # NoRead
    /\ checkout' = NoRead
    /\ UNCHANGED <<orderVars, link, events, hook, khqrVars, vouched>>

\* The customer pays on the page; Stripe owes us the event until we take it.
CustomerPaysLink ==
    /\ link
    /\ events < MaxEvents
    /\ link' = FALSE
    /\ events' = events + 1
    /\ vouched' = TRUE
    /\ UNCHANGED <<orderVars, checkout, hook, khqrVars>>

(* One API process serves the webhooks on its event loop, and nothing is      *)
(* awaited between the read and the commit: one is in flight at a time.       *)
WebhookReads ==
    /\ events > 0
    /\ hook = NoRead
    /\ hook' = [payment |-> payment, deadline |-> deadline # "none"]
    /\ UNCHANGED <<orderVars, checkout, link, events, khqrVars, vouched>>

\* Mutant: as if no order were "pending" while its page is open.
SawUnpaid == hook.payment = "unpaid"

SawNotPaid == hook.payment # "paid"

\* Mutant: as if the payment of a cancelled order brought the order back.
WebhookRevives ==
    /\ hook # NoRead
    /\ Pay("stripe")
    /\ deadline' = "none"
    /\ status' = IF status = "cancelled" THEN "pending" ELSE status
    /\ hook' = NoRead
    /\ events' \in {events - 1, events}
    /\ UNCHANGED <<expiredOut, checkout, link, khqrVars, vouched>>

\* Stripe redelivers when in doubt whether it was heard.
WebhookWrites ==
    /\ hook # NoRead
    /\ IF SawNotPaid
         THEN /\ Pay("stripe")
              /\ deadline' = IF hook.deadline THEN "none" ELSE deadline
         ELSE UNCHANGED <<payment, method, deadline>>
    /\ hook' = NoRead
    /\ events' \in {events - 1, events}
    /\ UNCHANGED <<status, expiredOut, checkout, link, khqrVars, vouched>>

-----------------------------------------------------------------------------
(* KHQR.                                                                      *)

\* khqr_orders.current: a code a customer can still pay, as the order shows it.
Current(shown) == shown = "issued" /\ live

\* khqr_orders.issue, once it decided on a fresh code.
NewCode(shown) ==
    /\ code < MaxCodes
    /\ code' = code + 1
    /\ live' = TRUE
    /\ bank' = "unpaid"
    /\ khqr' = shown
    /\ polls' = [polls EXCEPT ![code + 1] = 1]
    /\ abandoned' = (shown # "issued")

IssueKhqr ==
    /\ "khqr" \in Channels
    /\ payment # "paid"
    /\ status # "cancelled"
    /\ ~Current(khqr)
    /\ NewCode("issued")
    /\ UNCHANGED <<orderVars, stripeVars, assistant, vouched>>

(* The assistant's copy of the order is as old as its reply; khqr_status is   *)
(* only written if it differs from that copy: the new code can be left under  *)
(* the "expired" or "mismatch" of the one before, which no check looks past.  *)
AssistantReads ==
    /\ "khqr" \in Channels
    /\ assistant = NoRead
    /\ payment # "paid"
    /\ status # "cancelled"
    /\ ~Current(khqr)
    /\ assistant' = khqr
    /\ UNCHANGED <<orderVars, stripeVars, khqr, code, live, bank, polls, abandoned, vouched>>

AssistantWrites ==
    /\ assistant # NoRead
    /\ NewCode(IF assistant = "issued" THEN khqr ELSE "issued")
    /\ assistant' = NoRead
    /\ UNCHANGED <<orderVars, stripeVars, vouched>>

AssistantRollsBack ==
    /\ assistant # NoRead
    /\ assistant' = NoRead
    /\ UNCHANGED <<orderVars, stripeVars, khqr, code, live, bank, polls, abandoned, vouched>>

CodeExpires ==
    /\ live
    /\ live' = FALSE
    /\ UNCHANGED <<orderVars, stripeVars, khqr, code, bank, polls, assistant, abandoned, vouched>>

\* A payer may edit the amount.
CustomerPaysCode ==
    /\ live
    /\ bank = "unpaid"
    /\ \E what \in {"exact", "other"} :
         /\ bank' = what
         /\ vouched' = (vouched \/ what = "exact")
    /\ UNCHANGED <<orderVars, stripeVars, khqr, code, live, polls, assistant, abandoned>>

\* A code another took the place of can still be paid; nobody asks about it.
CustomerPaysOldCode ==
    /\ code > 1
    /\ vouched' = TRUE
    /\ UNCHANGED <<orderVars, stripeVars, khqrVars>>

\* Mutants: a paid order recorded as paid again; under a name nobody knows;
\* an edited amount that pays the order.
PaidAnyway     == Pay("khqr") /\ deadline' = "none"
PaidByBakong   == Pay("bakong") /\ deadline' = "none"
MismatchPays   == khqr' = "mismatch" /\ Pay("khqr") /\ deadline' = "none"

PaidByKhqr ==
    IF payment = "paid" THEN UNCHANGED <<payment, method, deadline>>
                        ELSE Pay("khqr") /\ deadline' = "none"

Mismatch == khqr' = "mismatch" /\ UNCHANGED <<payment, method, deadline>>

(* khqr_orders.apply: record what Bakong said of the order's code.            *)
Apply(found) ==
    CASE found = "exact"  -> khqr' = "paid" /\ PaidByKhqr
      [] found = "other"  -> Mismatch
      [] found = "unpaid" -> UNCHANGED <<khqr, payment, method, deadline>>

\* Bakong answers, or is down, or has not heard of the payment yet.
Answers == {bank, "unpaid"}

Superseded(c) == code # c \/ khqr # "issued" \/ payment = "paid"
Askable(c)    == ~Superseded(c) /\ live

\* Mutant: forgets to schedule the next look.
ScheduledNever == 0

Scheduled == IF khqr' = "issued" THEN 1 ELSE 0

\* The job is done and next follow it; it comes back (again) if the worker dies
\* after the commit but before marking it done, max_attempts=1 or not.
Checked(c, next) ==
    \E again \in {0, 1} :
        /\ polls[c] - 1 + again + next <= MaxPolls
        /\ polls' = [polls EXCEPT ![c] = @ - 1 + again + next]

(* A queued khqr_check runs.  Whether there is a Bakong token to ask with is  *)
(* for the seller's settings to say at that moment; without one the check     *)
(* returns and none follows.                                                  *)
RunCheck(c) ==
    /\ polls[c] > 0
    /\ \/ /\ Superseded(c)
          /\ Checked(c, 0)
          /\ UNCHANGED <<payment, method, deadline, khqr, abandoned>>
       \/ /\ ~Superseded(c)
          /\ ~live
          /\ khqr' = "expired"
          /\ Checked(c, 0)
          /\ UNCHANGED <<payment, method, deadline, abandoned>>
       \/ /\ Askable(c)
          /\ \E found \in Answers : Apply(found)
          /\ Checked(c, Scheduled)
          /\ UNCHANGED abandoned
       \/ /\ Askable(c)
          /\ Checked(c, 0)
          /\ abandoned' = TRUE
          /\ UNCHANGED <<payment, method, deadline, khqr>>
    /\ UNCHANGED <<status, expiredOut, stripeVars, code, live, bank, assistant, vouched>>

(* A check that raises -- the database, or what it calls -- rolls back, and   *)
(* its one attempt is spent: the job is marked FAILED and no other follows.   *)
CheckRaises(c) ==
    /\ polls[c] > 0
    /\ polls' = [polls EXCEPT ![c] = @ - 1]
    /\ abandoned' = (abandoned \/ c = code)
    /\ UNCHANGED <<orderVars, stripeVars, khqr, code, live, bank, assistant, vouched>>

\* The seller asks now; nothing is scheduled, and expiry is not looked at.
\* Without a Bakong token nothing is asked.
CheckNow ==
    /\ code > 0
    /\ \E found \in Answers : Apply(found)
    /\ UNCHANGED <<status, expiredOut, stripeVars, code, live, bank, polls, assistant,
                   abandoned, vouched>>

-----------------------------------------------------------------------------
Next ==
    \/ \E new \in Statuses : UpdateStatus(new)
    \/ DeadlinePasses
    \/ ReleaseExpired
    \/ ConfirmReceipt
    \/ CheckoutReads
    \/ CheckoutWrites
    \/ CheckoutRefused
    \/ CustomerPaysLink
    \/ WebhookReads
    \/ WebhookWrites
    \/ IssueKhqr
    \/ AssistantReads
    \/ AssistantWrites
    \/ AssistantRollsBack
    \/ CodeExpires
    \/ CustomerPaysCode
    \/ CustomerPaysOldCode
    \/ \E c \in Codes : RunCheck(c) \/ CheckRaises(c)
    \/ CheckNow

Spec == Init /\ [][Next]_vars

(* Stripe redelivers until it is heard, and a webhook that began does end.    *)
FairSpec == Spec /\ WF_vars(WebhookReads \/ WebhookWrites)

-----------------------------------------------------------------------------
(* Properties.                                                                *)

(* Every column and every pending call has a value the code gives it.         *)
TypeOK ==
    /\ status \in Statuses
    /\ payment \in Payments
    /\ method \in {"none", "qr", "stripe", "khqr"}
    /\ deadline \in {"none", "running", "passed"}
    /\ expiredOut \in BOOLEAN
    /\ checkout \in [payment : {"unpaid", "pending"}, pending : BOOLEAN] \cup {NoRead}
    /\ link \in BOOLEAN
    /\ events \in 0..MaxEvents
    /\ hook \in [payment : Payments, deadline : BOOLEAN] \cup {NoRead}
    /\ khqr \in KhqrStatuses
    /\ code \in 0..MaxCodes
    /\ live \in BOOLEAN /\ (live => code > 0)
    /\ bank \in {"unpaid", "exact", "other"}
    /\ polls \in [Codes -> 0..MaxPolls]
    /\ assistant \in KhqrStatuses \cup {NoRead}
    /\ abandoned \in BOOLEAN
    /\ vouched \in BOOLEAN

(* No order is marked paid unless money reached the seller through Stripe or  *)
(* Bakong, or the seller accepted a receipt -- however the handlers overlap.  *)
PaidHasCause ==
    (payment = "paid" \/ method # "none" \/ khqr = "paid") => vouched

(* What a payment left on the order -- that it is paid, how, when and how     *)
(* much -- is lost to no confirmation, redelivery or check that comes later:  *)
(* only to a create_checkout or a webhook that read the order before it was   *)
(* paid and writes after.                                                     *)
RecordStandsUnlessOvertaken ==
    [][payment = "paid" /\ (payment' # payment \/ method' # method) =>
         \/ checkout # NoRead /\ checkout.payment = "unpaid" /\ checkout' = NoRead
         \/ hook # NoRead /\ hook.payment # "paid" /\ hook' = NoRead]_vars

(* A paid order stays paid: no handler takes the payment back.                *)
PaidIsForever == [][payment = "paid" => payment' = "paid"]_vars

(* When an order expires and its stock goes back on sale, no page is open on  *)
(* which its customer could still pay, and no payment Stripe took is on its   *)
(* way: a page whose link was committed keeps the order from expiring.        *)
ExpiryLeavesNoPage ==
    [][expiredOut' /\ ~expiredOut => ~link /\ events = 0 /\ hook = NoRead]_vars

(* An order whose reservation expired, so that its stock went back on sale,   *)
(* is not paid through Stripe afterwards (inventory.py: releasing its stock   *)
(* would let a later webhook create a paid, oversold order).                  *)
NoStripePaymentAfterExpiry ==
    ~(payment = "paid" /\ method = "stripe" /\ status = "cancelled" /\ expiredOut)

(* While a customer can pay the order's code there is a check queued for it,  *)
(* unless its watching ended in one of the ways the code has for it: a check  *)
(* that raised or found no Bakong token, a reply of the assistant that left   *)
(* the code under the status of the one before, a payment taken back.         *)
PayableCodeIsWatched ==
    (live /\ ~abandoned /\ payment # "paid" /\ khqr # "mismatch")
        => khqr = "issued" /\ polls[code] > 0

(* To the shop's books the order is one of OrderStock's.  What it holds moves *)
(* with its status, which OrderStock shows; here no variant is looked at.     *)
Order == {"order"}
Shop  == INSTANCE OrderStock WITH
             Orders   <- Order, Variants <- {}, MaxQty <- 1, MaxSupply <- 0,
             status   <- [o \in Order |-> status],
             payment  <- [o \in Order |-> payment],
             deadline <- [o \in Order |-> deadline],
             qty      <- [o \in Order |-> [v \in {} |-> 0]],
             stock    <- [v \in {} |-> 0],
             reserved <- [v \in {} |-> 0],
             supplied <- [v \in {} |-> 0]

(* Whatever the handlers read and when they write, each of their steps is one *)
(* that OrderStock allows for, so what OrderStock promises of deadlines and   *)
(* of orders somebody is paying for holds of an order paid late, twice or on  *)
(* a stale page (create_checkout, stripe_webhook, apply, confirm_receipt).    *)
PaymentKeepsTheBooks == [][Shop!Next]_(Shop!vars)

(* A payment Stripe reports is recorded, whatever overlaps its webhook -- but *)
(* for a webhook that read an order as paid and answers so to Stripe after a  *)
(* stale create_checkout took that payment back.                              *)
HeardInVain == hook # NoRead /\ hook.payment = "paid" /\ payment # "paid"
ReportedMoneyIsRecorded == (events > 0 /\ ~HeardInVain) ~> (payment = "paid")
=============================================================================
