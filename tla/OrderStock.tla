----------------------------- MODULE OrderStock -----------------------------
(* One shop's orders and the stock they hold, each request one atomic step.   *)
(* An order claims units of variants; the units are on the shelf (stock),     *)
(* held for an order in a reserving status (reserved_stock), or gone out with *)
(* a fulfilled order.  StockTx shows what the row locks make of this          *)
(* atomicity, OrderPayment what happens to the payment of one order.          *)
EXTENDS Integers, FiniteSets

CONSTANTS
    Orders,     \* order ids
    Variants,   \* product variants
    MaxQty,     \* bound: units of one variant on one order
    MaxSupply   \* bound: units of one variant the shop ever has

ASSUME OrdersAssumption == IsFiniteSet(Orders)
ASSUME BoundsAssumption == MaxQty \in Nat \ {0} /\ MaxSupply \in Nat

VARIABLES
    status,     \* Order.status, "absent" before it is created and once deleted
    payment,    \* Order.payment_status
    deadline,   \* Order.reservation_expires_at: none, still ahead, or passed
    qty,        \* OrderItem.quantity by variant
    stock,      \* ProductVariant.stock
    reserved,   \* ProductVariant.reserved_stock
    supplied    \* history: units put on the shelf, less those taken off it

vars == <<status, payment, deadline, qty, stock, reserved, supplied>>

Reserving == {"pending", "confirmed", "processing"}
Fulfilled == {"shipped", "delivered"}
Statuses  == Reserving \cup Fulfilled \cup {"cancelled"}
Payments  == {"unpaid", "pending", "paid"}

Cart     == [Variants -> 0..MaxQty]
NoItems  == [v \in Variants |-> 0]

-----------------------------------------------------------------------------
(* Units claimed by a set of orders.  A claim is a set of <<order, k>> pairs, *)
(* so that its size needs no recursive sum.                                   *)
Units(S, v, q)   == {u \in S \X (1..MaxQty) : u[2] <= q[u[1]][v]}
Claimed(S, v, q) == Cardinality(Units(S, v, q))

Held == {o \in Orders : status[o] \in Reserving}
Out  == {o \in Orders : status[o] \in Fulfilled}

\* Mutant: as if only a payment, not an open payment page, kept an order.
ExpiredUnlessPaid == {o \in Orders : /\ status[o] = "pending"
                                     /\ payment[o] # "paid"
                                     /\ deadline[o] = "passed"}

Expired == {o \in Orders : /\ status[o] = "pending"
                           /\ payment[o] = "unpaid"
                           /\ deadline[o] = "passed"}

-----------------------------------------------------------------------------
\* Mutant: move_stock without its refusals.
MoveStockUnchecked(toShelf, toReserve) ==
    /\ stock'    = [v \in Variants |-> stock[v] + toShelf[v]]
    /\ reserved' = [v \in Variants |-> reserved[v] + toReserve[v]]

(* move_stock refuses a movement that would leave less than nothing on the    *)
(* shelf or in the reservation; the whole request then rolls back.            *)
MoveStock(toShelf, toReserve) ==
    /\ \A v \in Variants : stock[v] + toShelf[v] >= 0
    /\ \A v \in Variants : reserved[v] + toReserve[v] >= 0
    /\ stock'    = [v \in Variants |-> stock[v] + toShelf[v]]
    /\ reserved' = [v \in Variants |-> reserved[v] + toReserve[v]]

Neg(f) == [v \in Variants |-> -f[v]]

\* Mutants: the reservation is kept; a fulfilled order's units are forgotten.
ReleaseKeepsReservation(o) == MoveStock(qty[o], NoItems)
ReleaseHeldOnly(o) ==
    IF status[o] \in Reserving THEN MoveStock(qty[o], Neg(qty[o]))
                               ELSE UNCHANGED <<stock, reserved>>

\* A held order gives its units back from the reservation, a fulfilled one
\* only puts them on the shelf again.
ReleaseOrderStock(o) ==
    MoveStock(qty[o], IF status[o] \in Reserving THEN Neg(qty[o]) ELSE NoItems)

-----------------------------------------------------------------------------
Init ==
    /\ status   = [o \in Orders |-> "absent"]
    /\ payment  = [o \in Orders |-> "unpaid"]
    /\ deadline = [o \in Orders |-> "none"]
    /\ qty      = [o \in Orders |-> NoItems]
    /\ stock    = [v \in Variants |-> 0]
    /\ reserved = [v \in Variants |-> 0]
    /\ supplied = [v \in Variants |-> 0]

(* A new order first releases the shop's expired reservations, in the same    *)
(* transaction: the units it frees may be the ones the new order takes.  E is *)
(* what its query found; reservations may expire or be released meanwhile.    *)
CreateOrder(o, q, E) ==
    /\ status[o] = "absent"
    /\ q # NoItems
    /\ LET freed == [v \in Variants |-> Claimed(E, v, qty)]
       IN  MoveStock([v \in Variants |-> freed[v] - q[v]],
                     [v \in Variants |-> q[v] - freed[v]])
    /\ status'   = [x \in Orders |-> IF x = o THEN "pending"
                                     ELSE IF x \in E THEN "cancelled"
                                     ELSE status[x]]
    /\ deadline' = [x \in Orders |-> IF x = o THEN "running"
                                     ELSE IF x \in E THEN "none"
                                     ELSE deadline[x]]
    /\ qty'      = [qty EXCEPT ![o] = q]
    /\ payment'  = [payment EXCEPT ![o] = "unpaid"]
    /\ UNCHANGED supplied

ReleaseExpired(E) ==
    /\ E # {}
    /\ LET freed == [v \in Variants |-> Claimed(E, v, qty)]
       IN  MoveStock(freed, Neg(freed))
    /\ status'   = [x \in Orders |-> IF x \in E THEN "cancelled" ELSE status[x]]
    /\ deadline' = [x \in Orders |-> IF x \in E THEN "none" ELSE deadline[x]]
    /\ UNCHANGED <<payment, qty, supplied>>

(* The branches of update_order.                                              *)
Cancel(o) ==
    /\ status[o] \in Reserving \cup Fulfilled
    /\ ReleaseOrderStock(o)
    /\ status'   = [status EXCEPT ![o] = "cancelled"]
    /\ deadline' = [deadline EXCEPT ![o] = "none"]
    /\ UNCHANGED <<payment, qty, supplied>>

\* Mutant: a reopened order gets no deadline.
SetStatusOnly(o, new) ==
    /\ status'   = [status EXCEPT ![o] = new]
    /\ deadline' = [deadline EXCEPT ![o] = "none"]
    /\ UNCHANGED <<payment, qty, supplied>>

SetStatus(o, new) ==
    /\ status'   = [status EXCEPT ![o] = new]
    /\ deadline' = [deadline EXCEPT ![o] = IF new = "pending" THEN "running" ELSE "none"]
    /\ UNCHANGED <<payment, qty, supplied>>

Reopen(o, new) ==
    /\ status[o] = "cancelled"
    /\ new # "cancelled"
    /\ MoveStock(Neg(qty[o]), IF new \in Reserving THEN qty[o] ELSE NoItems)
    /\ SetStatus(o, new)

Fulfil(o, new) ==
    /\ status[o] \in Reserving
    /\ new \in Fulfilled
    /\ MoveStock(NoItems, Neg(qty[o]))
    /\ SetStatus(o, new)

TakeBack(o, new) ==
    /\ status[o] \in Fulfilled
    /\ new \in Reserving
    /\ MoveStock(NoItems, qty[o])
    /\ SetStatus(o, new)

\* Within one side of the reserved/fulfilled boundary no stock moves.
Progress(o, new) ==
    /\ new # status[o]
    /\ \/ {status[o], new} \subseteq Reserving
       \/ {status[o], new} \subseteq Fulfilled
    /\ SetStatus(o, new)
    /\ UNCHANGED <<stock, reserved>>

DeleteOrder(o) ==
    /\ status[o] # "absent"
    /\ IF status[o] = "cancelled" THEN UNCHANGED <<stock, reserved>>
                                  ELSE ReleaseOrderStock(o)
    /\ status'   = [status EXCEPT ![o] = "absent"]
    /\ payment'  = [payment EXCEPT ![o] = "unpaid"]
    /\ deadline' = [deadline EXCEPT ![o] = "none"]
    /\ qty'      = [qty EXCEPT ![o] = NoItems]
    /\ UNCHANGED supplied

-----------------------------------------------------------------------------
(* Stock comes and goes by itself: opening balances, adjustments, and what    *)
(* one purchase or one customer's return brings in, several variants at once. *)
AdjustStock(d) ==
    /\ d # NoItems
    /\ \A v \in Variants : supplied[v] + d[v] \in 0..MaxSupply
    /\ MoveStock(d, NoItems)
    /\ supplied' = [v \in Variants |-> supplied[v] + d[v]]
    /\ UNCHANGED <<status, payment, deadline, qty>>

(* What the payment handlers do to an order.  The values a checkout acts on   *)
(* were read before it called Stripe, and may be old: every order was once    *)
(* pending and unpaid.  So may those be that a webhook acts on, which only    *)
(* clears a deadline it saw.                                                  *)
CheckoutOpened(o) ==
    /\ status[o] # "absent"
    /\ \E sawUnpaid, sawPending \in BOOLEAN :
         /\ payment[o] = "unpaid" => sawUnpaid
         /\ payment'  = [payment EXCEPT ![o] = IF sawUnpaid THEN "pending" ELSE @]
         /\ deadline' = [deadline EXCEPT ![o] = IF sawPending THEN "running" ELSE @]
    /\ UNCHANGED <<status, qty, stock, reserved, supplied>>

PaymentReported(o) ==
    /\ status[o] # "absent"
    /\ payment'  = [payment EXCEPT ![o] = "paid"]
    /\ \E sawDeadline \in BOOLEAN :
         deadline' = [deadline EXCEPT ![o] = IF sawDeadline THEN "none" ELSE @]
    /\ UNCHANGED <<status, qty, stock, reserved, supplied>>

ReceiptConfirmed(o) ==
    /\ status[o] \notin {"absent", "cancelled"}
    /\ payment[o] # "paid"
    /\ payment' = [payment EXCEPT ![o] = "paid"]
    /\ UNCHANGED <<status, deadline, qty, stock, reserved, supplied>>

DeadlinePasses(o) ==
    /\ deadline[o] = "running"
    /\ deadline' = [deadline EXCEPT ![o] = "passed"]
    /\ UNCHANGED <<status, payment, qty, stock, reserved, supplied>>

Next ==
    \/ \E o \in Orders : \/ \E q \in Cart, E \in SUBSET Expired : CreateOrder(o, q, E)
                         \/ Cancel(o)
                         \/ \E new \in Statuses : \/ Reopen(o, new)
                                                  \/ Fulfil(o, new)
                                                  \/ TakeBack(o, new)
                                                  \/ Progress(o, new)
                         \/ DeleteOrder(o)
                         \/ CheckoutOpened(o)
                         \/ PaymentReported(o)
                         \/ ReceiptConfirmed(o)
                         \/ DeadlinePasses(o)
    \/ \E E \in SUBSET Expired : ReleaseExpired(E)
    \/ \E d \in [Variants -> -MaxSupply..MaxSupply] : AdjustStock(d)

Spec == Init /\ [][Next]_vars

-----------------------------------------------------------------------------
(* The type of every variable; in particular no count ever goes negative.     *)
TypeOK ==
    /\ status   \in [Orders -> Statuses \cup {"absent"}]
    /\ payment  \in [Orders -> Payments]
    /\ deadline \in [Orders -> {"none", "running", "passed"}]
    /\ qty      \in [Orders -> Cart]
    /\ stock    \in [Variants -> Nat]
    /\ reserved \in [Variants -> Nat]
    /\ supplied \in [Variants -> 0..MaxSupply]

(* The reserved count of a variant is exactly what its pending, confirmed and *)
(* processing orders are owed, whatever path of cancelling, reopening,        *)
(* shipping, taking back, expiring and deleting led there: no reservation     *)
(* leaks, and move_stock's "reservation is inconsistent" refusal never fires. *)
ReservedIsOwed == \A v \in Variants : reserved[v] = Claimed(Held, v, qty)

(* No unit is made or lost: shelf, reservation and goods gone out add up to   *)
(* what was supplied.  With stock >= 0 this is why a shop cannot oversell.    *)
Conservation ==
    \A v \in Variants : stock[v] + reserved[v] + Claimed(Out, v, qty) = supplied[v]

(* An unpaid pending order always carries a deadline, so no abandoned order   *)
(* can hold stock that release_expired_reservations will never consider.      *)
UnpaidPendingHasDeadline ==
    \A o \in Orders : status[o] = "pending" /\ payment[o] = "unpaid"
                        => deadline[o] # "none"

(* Once a checkout was opened for an order, only a seller's act on that very  *)
(* order gives its units back; another customer's order never does.           *)
PayingOrderKeepsItsStock ==
    [][\A o \in Orders :
          /\ status[o] \in Reserving \cup Fulfilled
          /\ payment[o] # "unpaid"
          /\ status'[o] \notin Reserving \cup Fulfilled
          => Cancel(o) \/ DeleteOrder(o)]_vars
=============================================================================
