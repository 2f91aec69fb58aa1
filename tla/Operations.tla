----------------------------- MODULE Operations -----------------------------
(* Purchasing from suppliers, returns and refunds, on top of the orders and   *)
(* stock of OrderStock.  What a purchase or a return brings in is stock that  *)
(* "comes and goes by itself" there; here it is known which paper moved it.   *)
(* A transaction that locks an order row, reads the order's other papers and  *)
(* commits is two steps, so that others can come in between.                  *)
EXTENDS Integers, FiniteSets

CONSTANTS
    Orders, Variants,
    Returns,    \* ids of sales returns
    Purchases,  \* ids of purchase orders
    None,       \* no such return
    MaxQty,     \* bound: units of one variant on one order, return or purchase
    MaxAdjust,  \* bound: units of one variant adjusted onto the shelf
    MaxRefund   \* bound: refund asked for one return; a unit costs 1

VARIABLES
    status, qty, stock, reserved,   \* as in OrderStock
    adjusted,   \* history: units put on the shelf by hand
    purchase,   \* PurchaseOrder: its status, units ordered and received
    returns,    \* SalesReturn and its items, None before it is created
    working     \* open transactions that hold the lock of one order

opsVars == <<status, qty, stock, reserved, adjusted, purchase, returns, working>>

None0  == [v \in Variants |-> 0]
Counts == [Variants -> 0..MaxQty]

\* SalesReturn and its items.
SalesReturn == [order : Orders, quantity : Counts, restock : Counts, refund : 0..MaxRefund,
                received : BOOLEAN, refunded : BOOLEAN]

ASSUME PapersAssumption ==
    /\ IsFiniteSet(Orders) /\ IsFiniteSet(Variants)
    /\ IsFiniteSet(Returns) /\ IsFiniteSet(Purchases)
    /\ MaxQty \in Nat \ {0} /\ MaxAdjust \in Nat /\ MaxRefund \in Nat
    /\ None \notin Returns \cup SalesReturn

(* Units over a set of papers, counted as <<paper, k>> pairs.                 *)
Count(S, f) == Cardinality({u \in S \X (1..MaxQty) : u[2] <= f[u[1]]})
CountTo(S, f, max) == Cardinality({u \in S \X (1..max) : u[2] <= f[u[1]]})

ReturnsOf(o) == {r \in Returns : returns[r] # None /\ returns[r].order = o}
Refunded(o)  == {r \in ReturnsOf(o) : returns[r].refunded}
Received     == {r \in Returns : returns[r] # None /\ returns[r].received}

Returned(o, v) == Count(ReturnsOf(o), [r \in ReturnsOf(o) |-> returns[r].quantity[v]])
RefundedSum(o) == CountTo(Refunded(o), [r \in Refunded(o) |-> returns[r].refund], MaxRefund)
Restocked(R, v) == Count(R, [r \in R |-> returns[r].restock[v]])
Supplied(v) == Count(Purchases, [p \in Purchases |-> purchase[p].received[v]])
Total(o) == Count(Variants, qty[o])     \* Order.total_amount

\* What OrderStock calls supplied: every unit that came in, whatever the paper.
supplied == [v \in Variants |-> adjusted[v] + Supplied(v) + Restocked(Received, v)]
MaxIn == MaxAdjust + MaxQty * (Cardinality(Purchases) + Cardinality(Returns))

Stock == INSTANCE OrderStock WITH
             payment   <- [o \in Orders |-> "unpaid"],
             deadline  <- [o \in Orders |-> IF status[o] = "pending" THEN "running" ELSE "none"],
             MaxSupply <- MaxIn

\* One status on each side of the boundaries that move stock.
Kept == {"pending", "shipped"}

-----------------------------------------------------------------------------
OpsInit ==
    /\ adjusted = None0
    /\ purchase = [p \in Purchases |-> [status |-> "absent", ordered |-> None0, received |-> None0]]
    /\ returns  = [r \in Returns |-> None]
    /\ working  = {}
    /\ Stock!Init

\* Mutant: the order row is read without FOR UPDATE.
Unlocked(o) == TRUE

LockedFree(o) == \A t \in working : t.order # o

papers == <<adjusted, purchase, returns, working>>

(* The order handlers of OrderStock, each under the order's lock.  Returns    *)
(* name their order with ON DELETE RESTRICT.                                  *)
OrderMoves(o) ==
    /\ LockedFree(o)
    /\ UNCHANGED papers
    /\ \/ \E q \in Counts : Stock!CreateOrder(o, q, {})
       \/ Stock!Cancel(o)
       \/ \E new \in Kept : Stock!Reopen(o, new) \/ Stock!Fulfil(o, new) \/ Stock!TakeBack(o, new)
       \/ ReturnsOf(o) = {} /\ Stock!DeleteOrder(o)

AdjustBalance(v, d) ==
    /\ adjusted[v] + d \in 0..MaxAdjust
    /\ Stock!MoveStock([None0 EXCEPT ![v] = d], None0)
    /\ adjusted' = [adjusted EXCEPT ![v] = @ + d]
    /\ UNCHANGED <<status, qty, purchase, returns, working>>

-----------------------------------------------------------------------------
CreatePurchase(p, ordered) ==
    /\ purchase[p].status = "absent"
    /\ ordered # None0
    /\ purchase' = [purchase EXCEPT ![p].status = "draft", ![p].ordered = ordered]
    /\ UNCHANGED <<status, qty, stock, reserved, adjusted, returns, working>>

UpdatePurchase(p, new) ==
    /\ \/ purchase[p].status = "draft"   /\ new \in {"ordered", "cancelled"}
       \/ purchase[p].status = "ordered" /\ new = "cancelled"
    /\ purchase' = [purchase EXCEPT ![p].status = new]
    /\ UNCHANGED <<status, qty, stock, reserved, adjusted, returns, working>>

\* Mutant: goods are put on the shelf, but not written on the purchase.
BringInUnwritten(p, now) ==
    /\ Stock!MoveStock(now, None0)
    /\ UNCHANGED purchase

Complete(p, got) == \A v \in Variants : got[v] = purchase[p].ordered[v]

BringIn(p, now) ==
    LET got == [v \in Variants |-> purchase[p].received[v] + now[v]]
    IN  /\ \A v \in Variants : got[v] <= purchase[p].ordered[v]
        /\ Stock!MoveStock(now, None0)
        /\ purchase' = [purchase EXCEPT
               ![p].received = got,
               ![p].status = IF Complete(p, got) THEN "received" ELSE "partially_received"]

ReceivePurchase(p, now) ==
    /\ purchase[p].status \in {"ordered", "partially_received"}
    /\ now # None0
    /\ BringIn(p, now)
    /\ UNCHANGED <<status, qty, adjusted, returns, working>>

-----------------------------------------------------------------------------
(* create_return: lock the order, sum the units its returns already name.     *)
BeginReturn(o) ==
    /\ status[o] \in Stock!Fulfilled
    /\ LockedFree(o)
    /\ working' = working \cup {[order |-> o, refunds |-> None,
                                 seen |-> [v \in Variants |-> Returned(o, v)]]}
    /\ UNCHANGED <<status, qty, stock, reserved, adjusted, purchase, returns>>

CommitReturn(t, r, q, back, refund) ==
    /\ t.refunds = None
    /\ returns[r] = None
    /\ q # None0
    /\ \A v \in Variants : back[v] <= q[v] /\ t.seen[v] + q[v] <= qty[t.order][v]
    /\ returns' = [returns EXCEPT ![r] =
           [order |-> t.order, quantity |-> q, restock |-> back, refund |-> refund,
            received |-> FALSE, refunded |-> FALSE]]
    /\ working' = working \ {t}
    /\ UNCHANGED <<status, qty, stock, reserved, adjusted, purchase>>

(* refund_return: lock the return, then its order; sum the refunds so far.    *)
BeginRefund(r) ==
    /\ returns[r] # None
    /\ ~returns[r].refunded
    /\ returns[r].refund > 0
    /\ \A t \in working : t.refunds # r
    /\ LockedFree(returns[r].order)
    /\ working' = working \cup {[order |-> returns[r].order, refunds |-> r,
                                 seen |-> RefundedSum(returns[r].order)]}
    /\ UNCHANGED <<status, qty, stock, reserved, adjusted, purchase, returns>>

CommitRefund(t) ==
    /\ t.refunds # None
    /\ t.seen + returns[t.refunds].refund <= Total(t.order)
    /\ returns' = [returns EXCEPT ![t.refunds].refunded = TRUE]
    /\ working' = working \ {t}
    /\ UNCHANGED <<status, qty, stock, reserved, adjusted, purchase>>

\* The request is refused or fails.
RollBack(t) ==
    /\ working' = working \ {t}
    /\ UNCHANGED <<status, qty, stock, reserved, adjusted, purchase, returns>>

(* receive_return locks the return and its variants, and never looks at the   *)
(* order.  SalesReturn.status is "refunded" once refunded, else "received".   *)
ReceiveReturn(r) ==
    /\ returns[r] # None
    /\ ~returns[r].received
    /\ \A t \in working : t.refunds # r
    /\ Stock!MoveStock(returns[r].restock, None0)
    /\ returns' = [returns EXCEPT ![r].received = TRUE]
    /\ UNCHANGED <<status, qty, adjusted, purchase, working>>

-----------------------------------------------------------------------------
OpsNext ==
    \/ \E o \in Orders : OrderMoves(o) \/ BeginReturn(o)
    \/ \E v \in Variants, d \in {-1, 1} : AdjustBalance(v, d)
    \/ \E p \in Purchases : \/ \E q \in Counts : CreatePurchase(p, q) \/ ReceivePurchase(p, q)
                            \/ \E new \in {"ordered", "cancelled"} : UpdatePurchase(p, new)
    \/ \E t \in working : \/ \E r \in Returns, q, back \in Counts, refund \in 0..MaxRefund :
                                CommitReturn(t, r, q, back, refund)
                          \/ CommitRefund(t)
                          \/ RollBack(t)
    \/ \E r \in Returns : BeginRefund(r) \/ ReceiveReturn(r)

OpsSpec == OpsInit /\ [][OpsNext]_opsVars

-----------------------------------------------------------------------------
(* The type of every variable.                                                *)
OpsTypeOK ==
    /\ status \in [Orders -> Stock!Statuses \cup {"absent"}]
    /\ qty \in [Orders -> Counts]
    /\ stock \in [Variants -> 0..MaxIn] /\ reserved \in [Variants -> 0..MaxIn]
    /\ adjusted \in [Variants -> 0..MaxAdjust]
    /\ purchase \in [Purchases ->
           [status : {"absent", "draft", "ordered", "partially_received", "received", "cancelled"},
            ordered : Counts, received : Counts]]
    /\ returns \in [Returns -> {None} \cup SalesReturn]
    /\ \A t \in working : t.order \in Orders /\ t.refunds \in Returns \cup {None}

(* However many returns of one order are entered at the same moment, they     *)
(* never name more units than the order sold.                                 *)
ReturnedWithinSold == \A o \in Orders, v \in Variants : Returned(o, v) <= qty[o][v]

(* Refunds recorded at the same moment never give back more than the order    *)
(* cost, although each return carries an amount of its own.                   *)
RefundedWithinTotal == \A o \in Orders : RefundedSum(o) <= Total(o)

(* A purchase says "received" exactly when every line of it has come in, over *)
(* however many deliveries, and nothing comes in on a draft or a cancelled    *)
(* one: a cancelled purchase never left goods behind.                         *)
PurchaseStatusTells ==
    \A p \in Purchases :
        LET came == purchase[p].received # None0
            all  == purchase[p].received = purchase[p].ordered
        IN  /\ came <=> purchase[p].status \in {"partially_received", "received"}
            /\ came => (all <=> purchase[p].status = "received")

(* What the papers of an order and of a purchase say adds up, however many    *)
(* requests enter them at the same moment.                                    *)
PapersAddUp == ReturnedWithinSold /\ RefundedWithinTotal /\ PurchaseStatusTells

(* Purchasing and returns are a use of OrderStock: every step is a step of it *)
(* or leaves it alone, so its books balance here too.  (Stock!Spec, with the  *)
(* stutter looked for first.)                                                 *)
PapersKeepTheBooks == Stock!Init /\ [][UNCHANGED Stock!vars \/ Stock!Next]_(Stock!vars)

(* "A cancelled order has already had its stock returned; don't restock       *)
(* twice" (orders.py): what returns put on the shelf for one order, and what  *)
(* its cancellation did, are together no more than it took off the shelf.     *)
GoodsComeBackOnce ==
    \A o \in Orders, v \in Variants :
        Restocked(ReturnsOf(o) \cap Received, v)
            + (IF status[o] = "cancelled" THEN qty[o][v] ELSE 0) <= qty[o][v]
=============================================================================
