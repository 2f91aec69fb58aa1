-------------------------- MODULE Operations_proofs --------------------------
(* The papers of orders and purchases add up, for any finite sets of variants *)
(* and returns.  Whoever enters a return or a refund holds the order's lock:  *)
(* what it summed up under the lock is still the sum when it commits.  The    *)
(* stock itself is OrderStock's: its theorems are brought in by an instance.  *)
EXTENDS Operations, FiniteSetTheorems, TLAPS

(* What the argument needs of the types; stock and its books are OrderStock's.*)
PapersTyped ==
    /\ status \in [Orders -> Stock!Statuses \cup {"absent"}]
    /\ qty \in [Orders -> Counts]
    /\ returns \in [Returns -> {None} \cup SalesReturn]
    /\ purchase \in [Purchases ->
           [status : {"absent", "draft", "ordered", "partially_received", "received", "cancelled"},
            ordered : Counts, received : Counts]]

OrderExists == \A r \in Returns : returns[r] # None => status[returns[r].order] # "absent"

OneAtATime == \A s, t \in working : s.order = t.order => s = t

SumsHold == \A t \in working :
    /\ t.order \in Orders /\ status[t.order] # "absent"
    /\ t.refunds = None => \A v \in Variants : t.seen[v] = Returned(t.order, v)
    /\ t.refunds # None =>
          /\ t.refunds \in Returns /\ returns[t.refunds] # None
          /\ returns[t.refunds].order = t.order /\ ~returns[t.refunds].refunded
          /\ t.seen = RefundedSum(t.order)

IInv == PapersTyped /\ OrderExists /\ OneAtATime /\ SumsHold /\ PapersAddUp

-----------------------------------------------------------------------------
(* Arithmetic of papers.                                                      *)
LEMMA CountFinite ==
    ASSUME NEW S, IsFiniteSet(S), NEW f, NEW max \in Nat
    PROVE  /\ IsFiniteSet({u \in S \X (1..max) : u[2] <= f[u[1]]})
           /\ CountTo(S, f, max) \in Nat
<1>1. IsFiniteSet(1..max)
    BY FS_Interval
<1>2. IsFiniteSet(S \X (1..max))
    BY <1>1, FS_Product
<1>3. IsFiniteSet({u \in S \X (1..max) : u[2] <= f[u[1]]})
    BY <1>2, FS_Subset
<1> QED BY <1>3, FS_CardinalityType DEF CountTo

LEMMA CountNone == ASSUME NEW f, NEW max PROVE CountTo({}, f, max) = 0
<1>1. {u \in {} \X (1..max) : u[2] <= f[u[1]]} = {}
    OBVIOUS
<1> QED BY <1>1, FS_EmptySet DEF CountTo

LEMMA CountFrame ==
    ASSUME NEW S, NEW f, NEW g, NEW max, \A r \in S : f[r] = g[r]
    PROVE  CountTo(S, f, max) = CountTo(S, g, max)
<1>1. {u \in S \X (1..max) : u[2] <= f[u[1]]} = {u \in S \X (1..max) : u[2] <= g[u[1]]}
    OBVIOUS
<1> QED BY <1>1 DEF CountTo

(* One more paper adds its units.                                             *)
LEMMA CountJoin ==
    ASSUME NEW S, IsFiniteSet(S), NEW r, r \notin S, NEW R, R = S \cup {r}, NEW max \in Nat,
           NEW f, NEW g, \A x \in S : f[x] = g[x], g[r] \in 0..max
    PROVE  CountTo(R, g, max) = CountTo(S, f, max) + g[r]
<1> DEFINE A == {u \in S \X (1..max) : u[2] <= f[u[1]]}
           B == {r} \X (1..g[r])
           n == g[r]
<1>1. {u \in R \X (1..max) : u[2] <= g[u[1]]} = A \cup B
    OBVIOUS
<1>2. A \cap B = {}
    OBVIOUS
<1>3. IsFiniteSet(A) /\ Cardinality(A) \in Nat
    BY CountFinite DEF CountTo
<1>4. n \in Nat /\ IsFiniteSet(1..n) /\ Cardinality(1..n) = n
    <2>1. n \in Nat /\ n \in Int /\ 1 \in Int
        OBVIOUS
    <2> HIDE DEF n
    <2>2. IsFiniteSet(1..n) /\ Cardinality(1..n) = IF 1 > n THEN 0 ELSE n - 1 + 1
        BY <2>1, FS_Interval, Zenon
    <2> QED BY <2>1, <2>2
<1>5. IsFiniteSet(B) /\ Cardinality(B) = n
    <2>1. IsFiniteSet({r}) /\ Cardinality({r}) = 1
        BY FS_Singleton
    <2>2. IsFiniteSet(B) /\ Cardinality(B) = 1 * Cardinality(1..n)
        BY <1>4, <2>1, FS_Product
    <2> QED BY <1>4, <2>2
<1> HIDE DEF A, B, n
<1>6. Cardinality(A \cup B) = Cardinality(A) + Cardinality(B) - Cardinality(A \cap B)
    BY <1>3, <1>5, FS_Union
<1>7. Cardinality(A \cap B) = 0
    BY <1>2, FS_EmptySet
<1>8. Cardinality(A \cup B) = Cardinality(A) + n
    BY <1>3, <1>4, <1>5, <1>6, <1>7
<1> QED BY <1>1, <1>8 DEF CountTo, A, n

-----------------------------------------------------------------------------
(* Sums over the returns of an order that a step does not touch.              *)
LEMMA ReturnedFrame ==
    ASSUME NEW o,
           \A r \in Returns : (returns'[r] # None /\ returns'[r].order = o)
                                <=> (returns[r] # None /\ returns[r].order = o),
           \A r \in ReturnsOf(o) : returns'[r].quantity = returns[r].quantity
    PROVE  \A v \in Variants : Returned(o, v)' = Returned(o, v)
<1> TAKE v \in Variants
<1>1. ReturnsOf(o)' = ReturnsOf(o)
    BY DEF ReturnsOf
<1>2. Returned(o, v) = CountTo(ReturnsOf(o), [r \in ReturnsOf(o) |-> returns[r].quantity[v]], MaxQty)
    BY DEF Returned, Count, CountTo
<1>3. Returned(o, v)' = CountTo(ReturnsOf(o), [r \in ReturnsOf(o) |-> returns'[r].quantity[v]], MaxQty)
    BY <1>1 DEF Returned, Count, CountTo
<1> QED BY <1>2, <1>3

LEMMA RefundedFrame ==
    ASSUME NEW o,
           \A r \in Returns : (returns'[r] # None /\ returns'[r].order = o /\ returns'[r].refunded)
                                <=> (returns[r] # None /\ returns[r].order = o /\ returns[r].refunded),
           \A r \in Refunded(o) : returns'[r].refund = returns[r].refund
    PROVE  RefundedSum(o)' = RefundedSum(o)
<1>1. Refunded(o)' = Refunded(o)
    BY DEF Refunded, ReturnsOf
<1>2. RefundedSum(o) = CountTo(Refunded(o), [r \in Refunded(o) |-> returns[r].refund], MaxRefund)
    BY DEF RefundedSum
<1>3. RefundedSum(o)' = CountTo(Refunded(o), [r \in Refunded(o) |-> returns'[r].refund], MaxRefund)
    BY <1>1 DEF RefundedSum, CountTo
<1> QED BY <1>2, <1>3

LEMMA NothingReturned ==
    ASSUME NEW o, ReturnsOf(o) = {}
    PROVE  /\ \A v \in Variants : Returned(o, v) = 0
           /\ RefundedSum(o) = 0
<1>1. Refunded(o) = {}
    BY DEF Refunded
<1>2. \A v \in Variants :
        Returned(o, v) = CountTo({}, [r \in {} |-> returns[r].quantity[v]], MaxQty)
    BY DEF Returned, Count, CountTo
<1> QED BY <1>1, <1>2, CountNone DEF RefundedSum

LEMMA TotalIsNat == ASSUME NEW o PROVE Total(o) \in Nat
BY CountFinite, PapersAssumption DEF Total, Count, CountTo

-----------------------------------------------------------------------------
LEMMA InitHolds == OpsInit => IInv
<1> SUFFICES ASSUME OpsInit PROVE IInv
    OBVIOUS
<1> USE PapersAssumption DEF OpsInit, Stock!Init
<1>1. None0 \in Counts
    BY DEF None0, Counts
<1>2. PapersTyped
    BY <1>1 DEF PapersTyped, Stock!NoItems, None0
<1>3. OrderExists /\ OneAtATime /\ SumsHold
    BY DEF OrderExists, OneAtATime, SumsHold
<1>4. \A o \in Orders : ReturnsOf(o) = {}
    BY DEF ReturnsOf
<1>5. ReturnedWithinSold
    BY <1>2, <1>4, NothingReturned DEF ReturnedWithinSold, PapersTyped, Counts
<1>6. RefundedWithinTotal
    BY <1>4, NothingReturned, TotalIsNat DEF RefundedWithinTotal
<1>7. PurchaseStatusTells
    BY DEF PurchaseStatusTells
<1> QED BY <1>2, <1>3, <1>5, <1>6, <1>7 DEF IInv, PapersAddUp

(* A handler of the order leaves others alone, and keeps one with returns.    *)
LEMMA OrderMovesOnlyItself ==
    ASSUME IInv, NEW o \in Orders, OrderMoves(o)
    PROVE  /\ status' \in [Orders -> Stock!Statuses \cup {"absent"}] /\ qty' \in [Orders -> Counts]
           /\ \A x \in Orders : x # o => status'[x] = status[x] /\ qty'[x] = qty[x]
           /\ ReturnsOf(o) # {} => status'[o] # "absent" /\ qty'[o] = qty[o]
<1> USE DEF IInv, PapersTyped
<1>a. None0 \in Counts
    BY PapersAssumption DEF None0, Counts
<1>1. ASSUME NEW q \in Counts, Stock!CreateOrder(o, q, {})
      PROVE  /\ status[o] = "absent" /\ qty' = [qty EXCEPT ![o] = q]
             /\ status' = [x \in Orders |-> IF x = o THEN "pending" ELSE status[x]]
    BY <1>1 DEF Stock!CreateOrder
<1>2. status[o] = "absent" => ReturnsOf(o) = {}
    BY DEF ReturnsOf, OrderExists
<1>3. ASSUME NEW q \in Counts, Stock!CreateOrder(o, q, {}) PROVE
           /\ status' \in [Orders -> Stock!Statuses \cup {"absent"}] /\ qty' \in [Orders -> Counts]
           /\ \A x \in Orders : x # o => status'[x] = status[x] /\ qty'[x] = qty[x]
           /\ ReturnsOf(o) # {} => status'[o] # "absent" /\ qty'[o] = qty[o]
    BY <1>1, <1>2, <1>3 DEF Stock!Statuses, Stock!Reserving
<1>4. ASSUME NEW new \in {"pending", "shipped", "cancelled"},
             status' = [status EXCEPT ![o] = new], UNCHANGED qty
      PROVE
           /\ status' \in [Orders -> Stock!Statuses \cup {"absent"}] /\ qty' \in [Orders -> Counts]
           /\ \A x \in Orders : x # o => status'[x] = status[x] /\ qty'[x] = qty[x]
           /\ ReturnsOf(o) # {} => status'[o] # "absent" /\ qty'[o] = qty[o]
    BY <1>4 DEF Stock!Statuses, Stock!Reserving, Stock!Fulfilled
<1>5. ASSUME ReturnsOf(o) = {}, Stock!DeleteOrder(o) PROVE
           /\ status' \in [Orders -> Stock!Statuses \cup {"absent"}] /\ qty' \in [Orders -> Counts]
           /\ \A x \in Orders : x # o => status'[x] = status[x] /\ qty'[x] = qty[x]
           /\ ReturnsOf(o) # {} => status'[o] # "absent" /\ qty'[o] = qty[o]
    BY <1>a, <1>5 DEF Stock!DeleteOrder, Stock!NoItems, None0
<1>6. ASSUME Stock!Cancel(o) PROVE status' = [status EXCEPT ![o] = "cancelled"] /\ UNCHANGED qty
    BY <1>6 DEF Stock!Cancel
<1>7. ASSUME NEW new \in Kept, Stock!Reopen(o, new) \/ Stock!Fulfil(o, new) \/ Stock!TakeBack(o, new)
      PROVE  status' = [status EXCEPT ![o] = new] /\ UNCHANGED qty
    BY <1>7 DEF Stock!Reopen, Stock!Fulfil, Stock!TakeBack, Stock!SetStatus
<1> QED BY <1>3, <1>4, <1>5, <1>6, <1>7 DEF OrderMoves, Kept

LEMMA PapersKept ==
    ASSUME IInv, UNCHANGED <<status, qty, returns>>
    PROVE  /\ OrderExists' /\ ReturnedWithinSold' /\ RefundedWithinTotal'
           /\ \A o \in Orders : RefundedSum(o)' = RefundedSum(o)
           /\ \A o \in Orders, v \in Variants : Returned(o, v)' = Returned(o, v)
BY DEF IInv, PapersAddUp, OrderExists, ReturnedWithinSold, RefundedWithinTotal, Returned,
       RefundedSum, ReturnsOf, Refunded, Total

LEMMA NextKeeps == IInv /\ [OpsNext]_opsVars => IInv'
<1> SUFFICES ASSUME IInv, [OpsNext]_opsVars PROVE IInv'
    OBVIOUS
<1> USE PapersAssumption DEF IInv, PapersAddUp
<1>1. ASSUME NEW o \in Orders, OrderMoves(o) PROVE IInv'
    <2>1. /\ status' \in [Orders -> Stock!Statuses \cup {"absent"}] /\ qty' \in [Orders -> Counts]
          /\ \A x \in Orders : x # o => status'[x] = status[x] /\ qty'[x] = qty[x]
          /\ ReturnsOf(o) # {} => status'[o] # "absent" /\ qty'[o] = qty[o]
        BY <1>1, OrderMovesOnlyItself
    <2>2. LockedFree(o) /\ UNCHANGED <<purchase, returns, working>>
        BY <1>1 DEF OrderMoves, papers
    <2>3. /\ \A x \in Orders : RefundedSum(x)' = RefundedSum(x) /\ ReturnsOf(x)' = ReturnsOf(x)
          /\ \A x \in Orders, v \in Variants : Returned(x, v)' = Returned(x, v)
        BY <2>2 DEF Returned, RefundedSum, ReturnsOf, Refunded
    <2>4. PapersTyped' /\ OneAtATime' /\ PurchaseStatusTells'
        BY <2>1, <2>2 DEF PapersTyped, OneAtATime, PurchaseStatusTells
    <2>5. OrderExists'
        BY <2>1, <2>2 DEF OrderExists, ReturnsOf, PapersTyped, SalesReturn
    <2>6. SumsHold'
        BY <2>1, <2>2, <2>3 DEF SumsHold, LockedFree
    <2>7. \A x \in Orders, v \in Variants : qty'[x][v] \in Nat
        BY <2>1 DEF Counts
    <2>8. ReturnedWithinSold' /\ RefundedWithinTotal'
        <3> SUFFICES ASSUME NEW x \in Orders
                     PROVE  /\ \A v \in Variants : Returned(x, v) <= qty'[x][v]
                            /\ RefundedSum(x) <= Total(x)'
            BY <2>3 DEF ReturnedWithinSold, RefundedWithinTotal
        <3>1. CASE qty'[x] = qty[x]
            BY <3>1 DEF ReturnedWithinSold, RefundedWithinTotal, Total
        <3>2. CASE ReturnsOf(x) = {}
            <4>1. Total(x)' \in Nat
                BY CountFinite DEF Total, Count, CountTo
            <4> QED BY <2>7, <3>2, <4>1, NothingReturned
        <3> QED BY <2>1, <3>1, <3>2
    <2> QED BY <2>4, <2>5, <2>6, <2>8
<1>2. ASSUME UNCHANGED <<status, qty, returns, working, purchase>> PROVE IInv'
    BY <1>2, PapersKept DEF PapersTyped, OneAtATime, SumsHold, PurchaseStatusTells
<1>3. ASSUME NEW p \in Purchases, UNCHANGED <<status, qty, returns, working>>,
             purchase' \in [Purchases ->
                 [status : {"absent", "draft", "ordered", "partially_received", "received", "cancelled"},
                  ordered : Counts, received : Counts]],
             PurchaseStatusTells'
      PROVE  IInv'
    BY <1>3, PapersKept DEF PapersTyped, OneAtATime, SumsHold
<1>4. ASSUME NEW p \in Purchases, NEW q \in Counts, CreatePurchase(p, q) PROVE IInv'
    <2>1. PurchaseStatusTells'
        BY <1>4 DEF CreatePurchase, PurchaseStatusTells, PapersTyped
    <2> QED BY <1>3, <1>4, <2>1 DEF CreatePurchase, PapersTyped
<1>5. ASSUME NEW p \in Purchases, NEW new \in {"ordered", "cancelled"}, UpdatePurchase(p, new) PROVE IInv'
    <2>1. PurchaseStatusTells'
        BY <1>5 DEF UpdatePurchase, PurchaseStatusTells, PapersTyped
    <2> QED BY <1>3, <1>5, <2>1 DEF UpdatePurchase, PapersTyped
<1>6. ASSUME NEW p \in Purchases, NEW now \in Counts, ReceivePurchase(p, now) PROVE IInv'
    <2> DEFINE got == [v \in Variants |-> purchase[p].received[v] + now[v]]
    <2>1. /\ now # None0 /\ UNCHANGED <<status, qty, returns, working>>
          /\ \A v \in Variants : got[v] <= purchase[p].ordered[v]
          /\ purchase' = [purchase EXCEPT ![p].received = got,
               ![p].status = IF Complete(p, got) THEN "received" ELSE "partially_received"]
        BY <1>6 DEF ReceivePurchase, BringIn
    <2>2. /\ purchase[p].received \in Counts /\ purchase[p].ordered \in Counts
        BY DEF PapersTyped
    <2>3. got \in Counts
        BY <2>1, <2>2 DEF Counts
    <2>4. got # None0
        BY <2>1, <2>2 DEF None0, Counts
    <2>5. Complete(p, got) <=> got = purchase[p].ordered
        BY <2>2, <2>3 DEF Complete, Counts
    <2> HIDE DEF got
    <2>6. PurchaseStatusTells'
        BY <2>1, <2>4, <2>5 DEF PurchaseStatusTells, PapersTyped
    <2> QED BY <1>3, <2>1, <2>3, <2>6 DEF PapersTyped
<1>7. ASSUME NEW o \in Orders, BeginReturn(o) PROVE IInv'
    <2> DEFINE t == [order |-> o, refunds |-> None, seen |-> [v \in Variants |-> Returned(o, v)]]
    <2>1. /\ working' = working \cup {t} /\ LockedFree(o)
          /\ status[o] # "absent" /\ UNCHANGED <<status, qty, purchase, returns>>
        BY <1>7 DEF BeginReturn, Stock!Fulfilled
    <2>2. t.order = o /\ t.refunds = None /\ \A v \in Variants : t.seen[v] = Returned(o, v)
        OBVIOUS
    <2> HIDE DEF t
    <2>3. OneAtATime' /\ SumsHold'
        BY <2>1, <2>2, PapersKept DEF OneAtATime, SumsHold, LockedFree
    <2> QED BY <2>1, <2>3, PapersKept DEF PapersTyped, PurchaseStatusTells
<1>8. ASSUME NEW t \in working, NEW r \in Returns, NEW q \in Counts, NEW back \in Counts,
             NEW refund \in 0..MaxRefund, CommitReturn(t, r, q, back, refund)
      PROVE  IInv'
    <2> DEFINE o == t.order
               new == [order |-> o, quantity |-> q, restock |-> back, refund |-> refund,
                       received |-> FALSE, refunded |-> FALSE]
    <2>1. /\ t.refunds = None /\ returns[r] = None
          /\ \A v \in Variants : t.seen[v] + q[v] <= qty[o][v]
          /\ returns' = [returns EXCEPT ![r] = new] /\ working' = working \ {t}
          /\ UNCHANGED <<status, qty, purchase>>
        BY <1>8 DEF CommitReturn
    <2>2. o \in Orders /\ status[o] # "absent" /\ \A v \in Variants : t.seen[v] = Returned(o, v)
        BY <2>1 DEF SumsHold
    <2>3. new \in SalesReturn
        BY <2>2 DEF SalesReturn
    <2>4. new # None /\ new.order = o /\ new.quantity = q /\ new.refunded = FALSE
        BY <2>3
    <2> HIDE DEF new, o
    <2>5. /\ returns' \in [Returns -> {None} \cup SalesReturn]
          /\ \A x \in Returns : returns'[x] = IF x = r THEN new ELSE returns[x]
        BY <2>1, <2>3 DEF PapersTyped
    <2>6. \A x \in Orders : RefundedSum(x)' = RefundedSum(x)
        BY <2>1, <2>4, <2>5, RefundedFrame DEF Refunded, ReturnsOf
    <2>7. \A x \in Orders : x # o => \A v \in Variants : Returned(x, v)' = Returned(x, v)
        BY <2>1, <2>4, <2>5, ReturnedFrame DEF ReturnsOf
    <2>8. \A v \in Variants : Returned(o, v)' = Returned(o, v) + q[v]
        <3> TAKE v \in Variants
        <3>1. ReturnsOf(o)' = ReturnsOf(o) \cup {r} /\ r \notin ReturnsOf(o)
            BY <2>1, <2>4, <2>5 DEF ReturnsOf
        <3>2. IsFiniteSet(ReturnsOf(o))
            BY FS_Subset DEF ReturnsOf
        <3> DEFINE f == [x \in ReturnsOf(o) |-> returns[x].quantity[v]]
                   R == ReturnsOf(o) \cup {r}
                   g == [x \in R |-> returns'[x].quantity[v]]
        <3>3. Returned(o, v) = CountTo(ReturnsOf(o), f, MaxQty)
            BY DEF Returned, Count, CountTo
        <3>4. Returned(o, v)' = CountTo(R, g, MaxQty)
            BY <3>1 DEF Returned, Count, CountTo
        <3>5. \A x \in ReturnsOf(o) : f[x] = g[x]
            BY <2>5, <3>1 DEF ReturnsOf
        <3>6. g[r] = q[v] /\ q[v] \in 0..MaxQty
            BY <2>4, <2>5 DEF Counts
        <3> HIDE DEF f, g
        <3>7. CountTo(R, g, MaxQty) = CountTo(ReturnsOf(o), f, MaxQty) + g[r]
            BY <3>1, <3>2, <3>5, <3>6, CountJoin
        <3> QED BY <3>3, <3>4, <3>6, <3>7
    <2>9. ReturnedWithinSold' /\ RefundedWithinTotal'
        BY <2>1, <2>2, <2>6, <2>7, <2>8 DEF ReturnedWithinSold, RefundedWithinTotal, Total
    <2>10. OrderExists'
        BY <2>1, <2>2, <2>4, <2>5 DEF OrderExists
    <2>11. \A s \in working' : s \in working /\ s.order # o
        BY <2>1 DEF OneAtATime, o
    <2>12. SumsHold'
        BY <2>1, <2>5, <2>6, <2>7, <2>11 DEF SumsHold
    <2> QED BY <2>1, <2>5, <2>9, <2>10, <2>11, <2>12 DEF PapersTyped, OneAtATime, PurchaseStatusTells
<1>9. ASSUME NEW r \in Returns, BeginRefund(r) PROVE IInv'
    <2> DEFINE o == returns[r].order
               t == [order |-> o, refunds |-> r, seen |-> RefundedSum(o)]
    <2>1. /\ working' = working \cup {t} /\ LockedFree(o)
          /\ returns[r] # None /\ ~returns[r].refunded
          /\ UNCHANGED <<status, qty, purchase, returns>>
        BY <1>9 DEF BeginRefund
    <2>2. o \in Orders /\ status[o] # "absent"
        BY <2>1 DEF PapersTyped, SalesReturn, OrderExists
    <2>3. t.order = o /\ t.refunds = r /\ r # None /\ t.seen = RefundedSum(o)
        OBVIOUS
    <2>4. o' = o
        BY <2>1
    <2> HIDE DEF t
    <2>5. OneAtATime' /\ SumsHold'
        BY <2>1, <2>2, <2>3, PapersKept DEF OneAtATime, SumsHold, LockedFree
    <2> QED BY <2>1, <2>5, PapersKept DEF PapersTyped, PurchaseStatusTells
<1>10. ASSUME NEW t \in working, CommitRefund(t) PROVE IInv'
    <2>0. PICK o, r : o = t.order /\ r = t.refunds
        OBVIOUS
    <2>1. /\ r # None /\ t.seen + returns[r].refund <= Total(o)
          /\ returns' = [returns EXCEPT ![r].refunded = TRUE] /\ working' = working \ {t}
          /\ UNCHANGED <<status, qty, purchase>>
        BY <1>10, <2>0 DEF CommitRefund
    <2>2. /\ o \in Orders /\ r \in Returns /\ returns[r] # None /\ returns[r].order = o
          /\ ~returns[r].refunded /\ t.seen = RefundedSum(o)
        BY <2>0, <2>1 DEF SumsHold
    <2>3. returns[r] \in SalesReturn
        BY <2>2 DEF PapersTyped
    <2>4. /\ \A x \in Returns : x # r => returns'[x] = returns[x]
          /\ returns'[r] = [returns[r] EXCEPT !.refunded = TRUE]
          /\ returns'[r] \in SalesReturn /\ returns'[r].order = o /\ returns'[r].refunded
          /\ returns'[r].quantity = returns[r].quantity /\ returns'[r].refund = returns[r].refund
          /\ returns' \in [Returns -> {None} \cup SalesReturn]
        BY <2>1, <2>2, <2>3 DEF PapersTyped, SalesReturn
    <2>4a. \A x \in Returns : /\ returns'[x] # None <=> returns[x] # None
                             /\ returns'[x].order = returns[x].order
                             /\ returns'[x].quantity = returns[x].quantity
        BY <2>2, <2>4
    <2>5. ASSUME NEW x \in Orders PROVE \A v \in Variants : Returned(x, v)' = Returned(x, v)
        BY <2>4a, ReturnedFrame DEF ReturnsOf
    <2>6. \A x \in Orders : x # o => RefundedSum(x)' = RefundedSum(x)
        BY <2>2, <2>4, RefundedFrame DEF Refunded, ReturnsOf
    <2>7. RefundedSum(o)' = RefundedSum(o) + returns[r].refund
        <3>1. Refunded(o)' = Refunded(o) \cup {r} /\ r \notin Refunded(o)
            BY <2>2, <2>4 DEF Refunded, ReturnsOf
        <3>2. IsFiniteSet(Refunded(o))
            BY FS_Subset DEF Refunded, ReturnsOf
        <3> DEFINE f == [x \in Refunded(o) |-> returns[x].refund]
                   R == Refunded(o) \cup {r}
                   g == [x \in R |-> returns'[x].refund]
        <3>3. RefundedSum(o) = CountTo(Refunded(o), f, MaxRefund)
            BY DEF RefundedSum
        <3>4. RefundedSum(o)' = CountTo(R, g, MaxRefund)
            BY <3>1 DEF RefundedSum, CountTo
        <3>5. \A x \in Refunded(o) : f[x] = g[x]
            BY <2>4, <3>1 DEF Refunded, ReturnsOf
        <3>7. g[r] = returns[r].refund /\ g[r] \in 0..MaxRefund
            BY <2>3, <2>4 DEF SalesReturn
        <3>8. R = Refunded(o) \cup {r} /\ r \notin Refunded(o) /\ MaxRefund \in Nat
            BY <3>1
        <3> HIDE DEF f, g, R
        <3>6. CountTo(R, g, MaxRefund) = CountTo(Refunded(o), f, MaxRefund) + g[r]
            BY <3>2, <3>5, <3>7, <3>8, CountJoin, SMTT(30)
        <3> QED BY <3>3, <3>4, <3>6, <3>7
    <2>8. ReturnedWithinSold' /\ RefundedWithinTotal'
        BY <2>1, <2>2, <2>5, <2>6, <2>7 DEF ReturnedWithinSold, RefundedWithinTotal, Total
    <2>9. OrderExists'
        BY <2>1, <2>2, <2>4 DEF OrderExists
    <2>10. \A s \in working' : s \in working /\ s.order # o
        BY <2>0, <2>1 DEF OneAtATime
    <2>11. SumsHold'
        BY <2>1, <2>2, <2>4, <2>5, <2>6, <2>10 DEF SumsHold
    <2> QED BY <2>1, <2>4, <2>8, <2>9, <2>10, <2>11 DEF PapersTyped, OneAtATime, PurchaseStatusTells
<1>11. ASSUME NEW t \in working, RollBack(t) PROVE IInv'
    <2>1. working' \subseteq working /\ UNCHANGED <<status, qty, purchase, returns>>
        BY <1>11 DEF RollBack
    <2>2. OneAtATime' /\ SumsHold'
        BY <2>1, PapersKept DEF OneAtATime, SumsHold
    <2> QED BY <2>1, <2>2, PapersKept DEF PapersTyped, PurchaseStatusTells
<1>12. ASSUME NEW r \in Returns, ReceiveReturn(r) PROVE IInv'
    <2>1. /\ returns[r] # None /\ returns' = [returns EXCEPT ![r].received = TRUE]
          /\ UNCHANGED <<status, qty, purchase, working>>
        BY <1>12 DEF ReceiveReturn
    <2>2. returns[r] \in SalesReturn
        BY <2>1 DEF PapersTyped
    <2>3. /\ \A x \in Returns : x # r => returns'[x] = returns[x]
          /\ returns'[r] \in SalesReturn /\ returns'[r].order = returns[r].order
          /\ returns'[r].refunded = returns[r].refunded
          /\ returns'[r].quantity = returns[r].quantity /\ returns'[r].refund = returns[r].refund
          /\ returns' \in [Returns -> {None} \cup SalesReturn]
        BY <2>1, <2>2 DEF PapersTyped, SalesReturn
    <2>3a. \A x \in Returns : /\ returns'[x] # None <=> returns[x] # None
                             /\ returns'[x].order = returns[x].order
                             /\ returns'[x].quantity = returns[x].quantity
                             /\ returns'[x].refunded = returns[x].refunded
        BY <2>1, <2>3
    <2>4. ASSUME NEW x \in Orders PROVE \A v \in Variants : Returned(x, v)' = Returned(x, v)
        BY <2>3a, ReturnedFrame DEF ReturnsOf
    <2>5. \A x \in Orders : RefundedSum(x)' = RefundedSum(x)
        BY <2>1, <2>3, RefundedFrame DEF Refunded, ReturnsOf
    <2>6. ReturnedWithinSold' /\ RefundedWithinTotal'
        BY <2>1, <2>4, <2>5 DEF ReturnedWithinSold, RefundedWithinTotal, Total
    <2>7. OrderExists'
        BY <2>1, <2>3a DEF OrderExists
    <2>8. SumsHold'
        BY <2>1, <2>3a, <2>4, <2>5 DEF SumsHold
    <2> QED BY <2>1, <2>3, <2>6, <2>7, <2>8 DEF PapersTyped, OneAtATime, PurchaseStatusTells
<1>13. ASSUME NEW v \in Variants, NEW d \in {-1, 1}, AdjustBalance(v, d) PROVE IInv'
    BY <1>2, <1>13 DEF AdjustBalance
<1>14. CASE UNCHANGED opsVars
    BY <1>2, <1>14 DEF opsVars
<1>15. CASE OpsNext
    <2>1. CASE \E t \in working :
                 \/ \E r \in Returns, q, back \in Counts, refund \in 0..MaxRefund :
                        CommitReturn(t, r, q, back, refund)
                 \/ CommitRefund(t) \/ RollBack(t)
        BY <2>1, <1>8, <1>10, <1>11
    <2>2. CASE \E p \in Purchases : \/ \E q \in Counts : CreatePurchase(p, q) \/ ReceivePurchase(p, q)
                                    \/ \E new \in {"ordered", "cancelled"} : UpdatePurchase(p, new)
        BY <2>2, <1>4, <1>5, <1>6
    <2> QED BY <1>15, <2>1, <2>2, <1>1, <1>7, <1>9, <1>12, <1>13 DEF OpsNext
<1> QED BY <1>14, <1>15

-----------------------------------------------------------------------------
(* However many returns, refunds and deliveries are entered at once: returns  *)
(* name no more than was sold, refunds give back no more than was paid, and a *)
(* purchase says "received" exactly when all of it is in.                     *)
THEOREM PapersAlwaysAddUp == OpsSpec => []PapersAddUp
<1>1. OpsInit => IInv
    BY InitHolds
<1>2. IInv /\ [OpsNext]_opsVars => IInv'
    BY NextKeeps
<1>3. IInv => PapersAddUp
    BY DEF IInv
<1> QED BY <1>1, <1>2, <1>3, PTL DEF OpsSpec

-----------------------------------------------------------------------------
(* Purchasing and returns use OrderStock: what a paper brings in is, there,   *)
(* an adjustment of the stock.                                                *)

BooksTyped ==
    /\ stock \in [Variants -> Nat] /\ reserved \in [Variants -> Nat]
    /\ adjusted \in [Variants -> 0..MaxAdjust]

LEMMA CountBound ==
    ASSUME NEW T, IsFiniteSet(T), NEW S \in SUBSET T, NEW max \in Nat, NEW f
    PROVE  CountTo(S, f, max) \in Nat /\ CountTo(S, f, max) <= Cardinality(T) * max
<1> DEFINE A == {u \in S \X (1..max) : u[2] <= f[u[1]]}
           B == T \X (1..max)
<1>1. IsFiniteSet(1..max) /\ Cardinality(1..max) = max
    <2>1. max \in Int /\ 1 \in Int
        OBVIOUS
    <2>2. IsFiniteSet(1..max) /\ Cardinality(1..max) = IF 1 > max THEN 0 ELSE max - 1 + 1
        BY <2>1, FS_Interval, Zenon
    <2> QED BY <2>2
<1>2. IsFiniteSet(B) /\ Cardinality(B) = Cardinality(T) * max
    BY <1>1, FS_Product
<1>3. A \in SUBSET B
    OBVIOUS
<1> HIDE DEF A, B
<1>4. IsFiniteSet(A) /\ Cardinality(A) <= Cardinality(B)
    BY <1>2, <1>3, FS_Subset
<1>5. Cardinality(A) \in Nat
    BY <1>4, FS_CardinalityType
<1> QED BY <1>2, <1>4, <1>5 DEF CountTo, A

(* One paper's units grow by d.                                               *)
LEMMA CountGrows ==
    ASSUME NEW S, IsFiniteSet(S), NEW p \in S, NEW max \in Nat, NEW f, NEW g, NEW d \in Nat,
           \A x \in S : x # p => f[x] = g[x],
           f[p] \in 0..max, g[p] \in 0..max, g[p] = f[p] + d
    PROVE  CountTo(S, g, max) = CountTo(S, f, max) + d
<1>0. PICK R : R = S \ {p}
    OBVIOUS
<1>1. IsFiniteSet(R) /\ p \notin R /\ S = R \cup {p} /\ \A x \in R : f[x] = g[x]
    BY <1>0, FS_Subset
<1>2. CountTo(S, f, max) = CountTo(R, f, max) + f[p]
    BY <1>1, CountJoin
<1>3. CountTo(S, g, max) = CountTo(R, f, max) + g[p]
    BY <1>1, CountJoin
<1>4. CountTo(R, f, max) \in Nat
    BY <1>1, CountFinite
<1> QED BY <1>2, <1>3, <1>4

LEMMA SuppliedBounded ==
    ASSUME PapersTyped, BooksTyped, NEW v \in Variants
    PROVE  /\ supplied[v] \in 0..MaxIn
           /\ Supplied(v) \in Nat /\ Restocked(Received, v) \in Nat
<1> USE PapersAssumption
<1>1. PICK f : Supplied(v) = CountTo(Purchases, f, MaxQty)
    BY DEF Supplied, Count, CountTo
<1>2. PICK g : Restocked(Received, v) = CountTo(Received, g, MaxQty)
    BY DEF Restocked, Count, CountTo
<1>3. Received \in SUBSET Returns
    BY DEF Received
<1>4. Supplied(v) \in Nat /\ Supplied(v) <= Cardinality(Purchases) * MaxQty
    BY <1>1, CountBound
<1>5. Restocked(Received, v) \in Nat /\ Restocked(Received, v) <= Cardinality(Returns) * MaxQty
    BY <1>2, <1>3, CountBound
<1>6. Cardinality(Purchases) \in Nat /\ Cardinality(Returns) \in Nat
    BY FS_CardinalityType
<1>7. MaxIn = MaxAdjust + Cardinality(Purchases) * MaxQty + Cardinality(Returns) * MaxQty
    BY <1>6 DEF MaxIn
<1>8. Cardinality(Purchases) * MaxQty \in Nat /\ Cardinality(Returns) * MaxQty \in Nat
    BY <1>6
<1>9. supplied[v] = adjusted[v] + Supplied(v) + Restocked(Received, v) /\ adjusted[v] \in 0..MaxAdjust
    BY DEF supplied, BooksTyped
<1> QED BY <1>4, <1>5, <1>7, <1>8, <1>9

SuppliedInRange == \A v \in Variants : supplied[v] \in 0..MaxIn

LEMMA AllSuppliedInRange == PapersTyped /\ BooksTyped => SuppliedInRange
BY SuppliedBounded DEF SuppliedInRange

\* What the books of OrderStock see of a step.
StockStep == UNCHANGED Stock!vars \/ Stock!Next

LEMMA MovedTyped ==
    ASSUME BooksTyped, UNCHANGED adjusted,
           NEW a \in [Variants -> Int], NEW b \in [Variants -> Int], Stock!MoveStock(a, b)
    PROVE  BooksTyped'
BY DEF BooksTyped, Stock!MoveStock

LEMMA OrderMovesTyped ==
    ASSUME PapersTyped, BooksTyped, NEW o \in Orders, OrderMoves(o)
    PROVE  BooksTyped'
<1> USE PapersAssumption
<1>1. qty[o] \in [Variants -> Int] /\ Stock!NoItems \in [Variants -> Int]
    BY DEF PapersTyped, Counts, Stock!NoItems
<1>2. Stock!Neg(qty[o]) \in [Variants -> Int]
    BY <1>1 DEF Stock!Neg
<1>3. UNCHANGED adjusted
    BY DEF OrderMoves, papers
<1>4. ASSUME NEW q \in Counts, Stock!CreateOrder(o, q, {}) PROVE BooksTyped'
    <2> DEFINE freed == [v \in Variants |-> Stock!Claimed({}, v, qty)]
    <2>1. Stock!MoveStock([v \in Variants |-> freed[v] - q[v]], [v \in Variants |-> q[v] - freed[v]])
        BY <1>4 DEF Stock!CreateOrder
    <2>2. \A v \in Variants : Stock!Units({}, v, qty) = {}
        BY DEF Stock!Units
    <2>3. \A v \in Variants : Stock!Claimed({}, v, qty) = 0
        <3>1. Stock!Cardinality({}) = Cardinality({})
            BY DEF Stock!Cardinality, Cardinality, Stock!IsFiniteSet, IsFiniteSet
        <3>2. Cardinality({}) = 0
            BY FS_EmptySet
        <3> QED BY <2>2, <3>1, <3>2 DEF Stock!Claimed
    <2>4. freed \in [Variants -> Int]
        BY <2>3
    <2> HIDE DEF freed
    <2>5. /\ [v \in Variants |-> freed[v] - q[v]] \in [Variants -> Int]
          /\ [v \in Variants |-> q[v] - freed[v]] \in [Variants -> Int]
        BY <2>4 DEF Counts
    <2> QED BY <1>3, <2>1, <2>5, MovedTyped
<1>5. ASSUME Stock!ReleaseOrderStock(o) PROVE BooksTyped'
    BY <1>1, <1>2, <1>3, <1>5, MovedTyped DEF Stock!ReleaseOrderStock
<1>6. ASSUME UNCHANGED <<stock, reserved>> PROVE BooksTyped'
    BY <1>3, <1>6 DEF BooksTyped
<1>7. ASSUME Stock!Cancel(o) PROVE BooksTyped'
    BY <1>5, <1>7 DEF Stock!Cancel
<1>8. ASSUME Stock!DeleteOrder(o) PROVE BooksTyped'
    BY <1>5, <1>6, <1>8 DEF Stock!DeleteOrder
<1>9. ASSUME NEW new \in Kept, Stock!Reopen(o, new) PROVE BooksTyped'
    BY <1>1, <1>2, <1>3, <1>9, MovedTyped DEF Stock!Reopen
<1>10. ASSUME NEW new \in Kept, Stock!Fulfil(o, new) \/ Stock!TakeBack(o, new) PROVE BooksTyped'
    BY <1>1, <1>2, <1>3, <1>10, MovedTyped DEF Stock!Fulfil, Stock!TakeBack
<1> QED BY <1>4, <1>7, <1>8, <1>9, <1>10 DEF OrderMoves

LEMMA OrderMovesAreOrders ==
    ASSUME NEW o \in Orders, OrderMoves(o)
    PROVE  StockStep
<1>1. Kept \subseteq Stock!Statuses /\ Counts = Stock!Cart /\ {} \in SUBSET Stock!Expired
    BY DEF Kept, Stock!Statuses, Stock!Reserving, Stock!Fulfilled, Counts, Stock!Cart
<1> QED BY <1>1 DEF OrderMoves, StockStep, Stock!Next

LEMMA BroughtIn ==
    ASSUME PapersTyped, BooksTyped, PapersTyped', BooksTyped', UNCHANGED <<status, qty>>,
           NEW d \in [Variants -> Int], Stock!MoveStock(d, None0),
           \A v \in Variants : supplied[v]' = supplied[v] + d[v]
    PROVE  StockStep
<1> USE PapersAssumption
<1>1. \A v \in Variants : supplied[v] \in 0..MaxIn /\ supplied[v]' \in 0..MaxIn
    <2>1. SuppliedInRange
        BY AllSuppliedInRange
    <2>2. SuppliedInRange'
        BY AllSuppliedInRange, PTL
    <2> QED BY <2>1, <2>2 DEF SuppliedInRange
<1>2. MaxIn \in Int
    <2>1. Cardinality(Purchases) \in Nat /\ Cardinality(Returns) \in Nat
        BY FS_CardinalityType
    <2> QED BY <2>1 DEF MaxIn
<1>3. \A v \in Variants : supplied[v]' = supplied'[v]
    OBVIOUS
<1>4. d \in [Variants -> -MaxIn..MaxIn]
    BY <1>1, <1>2
<1>5. supplied' = [v \in Variants |-> supplied[v] + d[v]]
    <2>1. supplied' = [v \in Variants |-> supplied'[v]]
        BY DEF supplied
    <2> QED BY <2>1
<1>6. None0 = Stock!NoItems
    BY DEF None0, Stock!NoItems
<1>7. CASE d = None0
    <2>1. UNCHANGED <<stock, reserved>>
        BY <1>7 DEF Stock!MoveStock, None0, BooksTyped
    <2>2. supplied' = supplied
        <3>1. supplied = [v \in Variants |-> supplied[v]]
            BY DEF supplied
        <3>2. \A v \in Variants : supplied[v] + d[v] = supplied[v]
            BY <1>1, <1>2, <1>7 DEF None0
        <3> QED BY <1>5, <3>1, <3>2
    <2> QED BY <2>1, <2>2 DEF StockStep, Stock!vars
<1>8. CASE d # None0
    <2>1. \A v \in Variants : supplied[v] + d[v] \in 0..MaxIn
        BY <1>1
    <2>2. Stock!AdjustStock(d)
        BY <1>5, <1>6, <1>8, <2>1 DEF Stock!AdjustStock
    <2> QED BY <1>4, <2>2 DEF StockStep, Stock!Next
<1> QED BY <1>7, <1>8

\* A step that moves no stock and brings nothing in.
LEMMA NothingMoved ==
    ASSUME BooksTyped, UNCHANGED <<status, qty, stock, reserved, adjusted>>,
           \A v \in Variants : Supplied(v)' = Supplied(v),
           \A v \in Variants : Restocked(Received, v)' = Restocked(Received, v)
    PROVE  BooksTyped' /\ StockStep
<1>1. BooksTyped'
    BY DEF BooksTyped
<1>2. supplied' = supplied
    BY DEF supplied
<1> QED BY <1>1, <1>2 DEF StockStep, Stock!vars

LEMMA SuppliedFrame ==
    ASSUME \A p \in Purchases : purchase'[p].received = purchase[p].received
    PROVE  \A v \in Variants : Supplied(v)' = Supplied(v)
<1> TAKE v \in Variants
<1>1. [p \in Purchases |-> purchase'[p].received[v]] = [p \in Purchases |-> purchase[p].received[v]]
    OBVIOUS
<1> QED BY <1>1 DEF Supplied, Count

LEMMA RestockedFrame ==
    ASSUME Received' = Received,
           \A r \in Received : returns'[r].restock = returns[r].restock
    PROVE  \A v \in Variants : Restocked(Received, v)' = Restocked(Received, v)
<1> TAKE v \in Variants
<1>1. [r \in Received |-> returns'[r].restock[v]] = [r \in Received |-> returns[r].restock[v]]
    OBVIOUS
<1> QED BY <1>1 DEF Restocked, Count

LEMMA StepUsesStock ==
    ASSUME IInv, BooksTyped, IInv', [OpsNext]_opsVars
    PROVE  BooksTyped' /\ StockStep
<1> DEFINE Goal == BooksTyped' /\ StockStep
<1> SUFFICES Goal
    OBVIOUS
<1>0. PapersTyped /\ PapersTyped'
    BY DEF IInv
<1>a. None0 \in [Variants -> Int]
    BY DEF None0
<1>1. ASSUME NEW o \in Orders, OrderMoves(o) PROVE Goal
    BY <1>0, <1>1, OrderMovesTyped, OrderMovesAreOrders
<1>2. ASSUME NEW v \in Variants, NEW d \in {-1, 1}, AdjustBalance(v, d) PROVE Goal
    <2>0. PICK e : e = [None0 EXCEPT ![v] = d]
        OBVIOUS
    <2>1. e \in [Variants -> Int] /\ Stock!MoveStock(e, None0)
        BY <1>a, <1>2, <2>0 DEF AdjustBalance
    <2>2. /\ adjusted' = [adjusted EXCEPT ![v] = @ + d] /\ adjusted[v] + d \in 0..MaxAdjust
          /\ UNCHANGED <<status, qty, purchase, returns, working>>
        BY <1>2 DEF AdjustBalance
    <2>3. BooksTyped'
        BY <1>a, <2>1, <2>2 DEF BooksTyped, Stock!MoveStock
    <2>4. \A w \in Variants : Supplied(w)' = Supplied(w) /\ Restocked(Received, w)' = Restocked(Received, w)
        BY <2>2 DEF Supplied, Restocked, Received, Count
    <2>5. \A w \in Variants : Supplied(w) \in Nat /\ Restocked(Received, w) \in Nat
        BY <1>0, SuppliedBounded
    <2>6. \A w \in Variants : adjusted'[w] = adjusted[w] + e[w] /\ adjusted[w] \in Int /\ e[w] \in Int
        BY <1>a, <2>0, <2>2 DEF BooksTyped, None0
    <2>7. \A w \in Variants : supplied[w]' = supplied[w] + e[w]
        BY <2>4, <2>5, <2>6 DEF supplied
    <2> QED BY <1>0, <2>1, <2>2, <2>3, <2>7, BroughtIn
<1>3. ASSUME NEW p \in Purchases, NEW q \in Counts, CreatePurchase(p, q) PROVE Goal
    <2>1. \A x \in Purchases : purchase'[x].received = purchase[x].received
        BY <1>0, <1>3 DEF CreatePurchase, PapersTyped
    <2>2. UNCHANGED <<status, qty, stock, reserved, adjusted, returns>>
        BY <1>3 DEF CreatePurchase
    <2>3. \A v \in Variants : Restocked(Received, v)' = Restocked(Received, v)
        BY <2>2 DEF Restocked, Received, Count
    <2> QED BY <2>1, <2>2, <2>3, NothingMoved, SuppliedFrame
<1>4. ASSUME NEW p \in Purchases, NEW new \in {"ordered", "cancelled"}, UpdatePurchase(p, new) PROVE Goal
    <2>1. \A x \in Purchases : purchase'[x].received = purchase[x].received
        BY <1>0, <1>4 DEF UpdatePurchase, PapersTyped
    <2>2. UNCHANGED <<status, qty, stock, reserved, adjusted, returns>>
        BY <1>4 DEF UpdatePurchase
    <2>3. \A v \in Variants : Restocked(Received, v)' = Restocked(Received, v)
        BY <2>2 DEF Restocked, Received, Count
    <2> QED BY <2>1, <2>2, <2>3, NothingMoved, SuppliedFrame
<1>5. ASSUME NEW p \in Purchases, NEW now \in Counts, ReceivePurchase(p, now) PROVE Goal
    <2>0. PICK got : got = [v \in Variants |-> purchase[p].received[v] + now[v]]
        OBVIOUS
    <2>1. /\ UNCHANGED <<status, qty, adjusted, returns, working>>
          /\ \A v \in Variants : got[v] <= purchase[p].ordered[v]
          /\ Stock!MoveStock(now, None0)
          /\ purchase' = [purchase EXCEPT ![p].received = got,
               ![p].status = IF Complete(p, got) THEN "received" ELSE "partially_received"]
        BY <1>5, <2>0 DEF ReceivePurchase, BringIn
    <2>2. /\ now \in [Variants -> Int]
          /\ \A x \in Purchases : purchase[x].received \in Counts /\ purchase[x].ordered \in Counts
        BY <1>0 DEF Counts, PapersTyped
    <2>3. BooksTyped'
        BY <1>a, <2>1, <2>2, MovedTyped
    <2>4. /\ purchase'[p].received = got
          /\ \A x \in Purchases : x # p => purchase'[x].received = purchase[x].received
        BY <1>0, <2>1 DEF PapersTyped
    <2>5. \A v \in Variants : Restocked(Received, v)' = Restocked(Received, v)
        BY <2>1 DEF Restocked, Received, Count
    <2>6. ASSUME NEW v \in Variants PROVE Supplied(v)' = Supplied(v) + now[v]
        <3>0. PICK f, g : /\ f = [x \in Purchases |-> purchase[x].received[v]]
                          /\ g = [x \in Purchases |-> purchase'[x].received[v]]
            OBVIOUS
        <3>1. Supplied(v) = CountTo(Purchases, f, MaxQty) /\ Supplied(v)' = CountTo(Purchases, g, MaxQty)
            BY <3>0 DEF Supplied, Count, CountTo
        <3>2. \A x \in Purchases : x # p => f[x] = g[x]
            BY <2>4, <3>0
        <3>3. /\ f[p] = purchase[p].received[v] /\ g[p] = purchase[p].received[v] + now[v]
              /\ purchase[p].received[v] + now[v] <= purchase[p].ordered[v]
            BY <2>0, <2>1, <2>4, <3>0
        <3>4. purchase[p].received[v] \in 0..MaxQty /\ purchase[p].ordered[v] \in 0..MaxQty /\ now[v] \in 0..MaxQty
            BY <2>2 DEF Counts
        <3>5. f[p] \in 0..MaxQty /\ g[p] \in 0..MaxQty /\ now[v] \in Nat /\ g[p] = f[p] + now[v]
            BY <3>3, <3>4, PapersAssumption
        <3>6. CountTo(Purchases, g, MaxQty) = CountTo(Purchases, f, MaxQty) + now[v]
            BY <3>2, <3>5, CountGrows, PapersAssumption
        <3> QED BY <3>1, <3>6
    <2>7. \A v \in Variants : Supplied(v) \in Nat /\ Restocked(Received, v) \in Nat
        BY <1>0, SuppliedBounded
    <2>8. \A v \in Variants : adjusted[v] \in Int /\ now[v] \in Int
        BY <2>2 DEF BooksTyped
    <2>9. \A v \in Variants : supplied[v]' = supplied[v] + now[v]
        BY <2>1, <2>5, <2>6, <2>7, <2>8 DEF supplied
    <2> QED BY <1>0, <2>1, <2>2, <2>3, <2>9, BroughtIn
<1>6. ASSUME UNCHANGED <<status, qty, stock, reserved, adjusted, purchase, returns>> PROVE Goal
    <2>1. \A v \in Variants : Supplied(v)' = Supplied(v) /\ Restocked(Received, v)' = Restocked(Received, v)
        BY <1>6 DEF Supplied, Restocked, Received, Count
    <2> QED BY <1>6, <2>1, NothingMoved
<1>7. ASSUME NEW t \in working, NEW r \in Returns, NEW q \in Counts, NEW back \in Counts,
             NEW refund \in 0..MaxRefund, CommitReturn(t, r, q, back, refund)
      PROVE  Goal
    <2>0. PICK new : new = [order |-> t.order, quantity |-> q, restock |-> back, refund |-> refund,
                            received |-> FALSE, refunded |-> FALSE]
        OBVIOUS
    <2>1. /\ returns[r] = None /\ returns' = [returns EXCEPT ![r] = new]
          /\ UNCHANGED <<status, qty, stock, reserved, adjusted, purchase>>
        BY <1>7, <2>0 DEF CommitReturn
    <2>2. \A x \in Returns : returns'[x] = IF x = r THEN new ELSE returns[x]
        BY <1>0, <2>1 DEF PapersTyped
    <2>3. ~new.received
        BY <2>0
    <2>4. Received' = Received /\ \A x \in Received : returns'[x].restock = returns[x].restock
        BY <2>1, <2>2, <2>3 DEF Received
    <2>5. \A v \in Variants : Supplied(v)' = Supplied(v)
        BY <2>1 DEF Supplied, Count
    <2> QED BY <2>1, <2>4, <2>5, NothingMoved, RestockedFrame
<1>8. ASSUME NEW t \in working, CommitRefund(t) PROVE Goal
    <2>0. PICK r : r = t.refunds
        OBVIOUS
    <2>1. /\ returns' = [returns EXCEPT ![r].refunded = TRUE]
          /\ UNCHANGED <<status, qty, stock, reserved, adjusted, purchase>>
        BY <1>8, <2>0 DEF CommitRefund
    <2>2. r \in Returns /\ returns[r] # None
        BY <1>8, <2>0 DEF CommitRefund, IInv, SumsHold
    <2>3. returns[r] \in SalesReturn
        BY <1>0, <2>2 DEF PapersTyped
    <2>4. /\ \A x \in Returns : x # r => returns'[x] = returns[x]
          /\ returns'[r] \in SalesReturn
          /\ returns'[r].received = returns[r].received /\ returns'[r].restock = returns[r].restock
        BY <1>0, <2>1, <2>2, <2>3 DEF PapersTyped, SalesReturn
    <2>5. returns'[r] # None
        BY <2>4, PapersAssumption
    <2>6. Received' = Received /\ \A x \in Received : returns'[x].restock = returns[x].restock
        BY <2>2, <2>4, <2>5 DEF Received
    <2>7. \A v \in Variants : Supplied(v)' = Supplied(v)
        BY <2>1 DEF Supplied, Count
    <2> QED BY <2>1, <2>6, <2>7, NothingMoved, RestockedFrame
<1>9. ASSUME NEW r \in Returns, ReceiveReturn(r) PROVE Goal
    <2>1. /\ returns[r] # None /\ ~returns[r].received
          /\ Stock!MoveStock(returns[r].restock, None0)
          /\ returns' = [returns EXCEPT ![r].received = TRUE]
          /\ UNCHANGED <<status, qty, adjusted, purchase, working>>
        BY <1>9 DEF ReceiveReturn
    <2>2. returns[r] \in SalesReturn
        BY <1>0, <2>1 DEF PapersTyped
    <2>3. PICK back \in Counts : back = returns[r].restock
        BY <2>2 DEF SalesReturn
    <2>4. /\ \A x \in Returns : x # r => returns'[x] = returns[x]
          /\ returns'[r] \in SalesReturn
          /\ returns'[r].received /\ returns'[r].restock = back
        BY <1>0, <2>1, <2>2, <2>3 DEF PapersTyped, SalesReturn
    <2>5. returns'[r] # None
        BY <2>4, PapersAssumption
    <2>6. Received' = Received \cup {r} /\ r \notin Received
        BY <2>1, <2>4, <2>5 DEF Received
    <2>7. back \in [Variants -> Int] /\ \A v \in Variants : back[v] \in 0..MaxQty
        BY DEF Counts
    <2>8. BooksTyped'
        BY <1>a, <2>1, <2>3, <2>7, MovedTyped
    <2>9. ASSUME NEW v \in Variants
          PROVE  Restocked(Received, v)' = Restocked(Received, v) + back[v]
        <3>0. PICK S, R, f, g : /\ S = Received /\ R = Received \cup {r}
                                /\ f = [x \in S |-> returns[x].restock[v]]
                                /\ g = [x \in R |-> returns'[x].restock[v]]
            OBVIOUS
        <3>1. Restocked(Received, v) = CountTo(S, f, MaxQty)
            BY <3>0 DEF Restocked, Count, CountTo
        <3>2. Restocked(Received, v)' = CountTo(R, g, MaxQty)
            BY <2>6, <3>0 DEF Restocked, Count, CountTo
        <3>3. \A x \in S : f[x] = g[x]
            BY <2>4, <2>6, <3>0 DEF Received
        <3>4. g[r] = back[v]
            BY <2>4, <3>0
        <3>5. IsFiniteSet(S) /\ r \notin S /\ R = S \cup {r}
            BY <2>6, <3>0, FS_Subset, PapersAssumption DEF Received
        <3>6. CountTo(R, g, MaxQty) = CountTo(S, f, MaxQty) + g[r]
            BY <2>7, <3>3, <3>4, <3>5, CountJoin, PapersAssumption
        <3> QED BY <3>1, <3>2, <3>4, <3>6
    <2>10. \A v \in Variants : Supplied(v)' = Supplied(v)
        BY <2>1 DEF Supplied, Count
    <2>11. \A v \in Variants : Supplied(v) \in Nat /\ Restocked(Received, v) \in Nat
        BY <1>0, SuppliedBounded
    <2>12. \A v \in Variants : adjusted[v] \in Int /\ back[v] \in Int
        BY <2>7 DEF BooksTyped
    <2>13. \A v \in Variants : supplied[v]' = supplied[v] + back[v]
        BY <2>1, <2>9, <2>10, <2>11, <2>12 DEF supplied
    <2>14. Stock!MoveStock(back, None0) /\ UNCHANGED <<status, qty>>
        BY <2>1, <2>3
    <2> QED BY <1>0, <2>7, <2>8, <2>13, <2>14, BroughtIn
<1>10. ASSUME NEW o \in Orders, BeginReturn(o) PROVE Goal
    BY <1>6, <1>10 DEF BeginReturn
<1>11. ASSUME NEW r \in Returns, BeginRefund(r) PROVE Goal
    BY <1>6, <1>11 DEF BeginRefund
<1>12. ASSUME NEW t \in working, RollBack(t) PROVE Goal
    BY <1>6, <1>12 DEF RollBack
<1>13. CASE UNCHANGED opsVars
    BY <1>6, <1>13 DEF opsVars
<1> HIDE DEF Goal
<1>14. CASE OpsNext
    <2>1. CASE \E t \in working :
                 \/ \E r \in Returns, q, back \in Counts, refund \in 0..MaxRefund :
                        CommitReturn(t, r, q, back, refund)
                 \/ CommitRefund(t) \/ RollBack(t)
        BY <2>1, <1>7, <1>8, <1>12
    <2>2. CASE \E p \in Purchases : \/ \E q \in Counts : CreatePurchase(p, q) \/ ReceivePurchase(p, q)
                                    \/ \E new \in {"ordered", "cancelled"} : UpdatePurchase(p, new)
        BY <2>2, <1>3, <1>4, <1>5
    <2> QED BY <1>14, <2>1, <2>2, <1>1, <1>2, <1>9, <1>10, <1>11 DEF OpsNext
<1> QED BY <1>13, <1>14

(* Purchases, returns and refunds are requests of OrderStock or leave its     *)
(* books alone, so nothing they do can unbalance what it promises: a delivery *)
(* or a return puts on the shelf what its paper says, once.                   *)
THEOREM PapersUseTheStock == OpsSpec => PapersKeepTheBooks
<1>1. OpsInit => IInv /\ BooksTyped /\ Stock!Init
    <2>1. OpsInit => BooksTyped
        BY PapersAssumption DEF OpsInit, Stock!Init, BooksTyped, None0
    <2> QED BY <2>1, InitHolds DEF OpsInit
<1>2. IInv /\ BooksTyped /\ [OpsNext]_opsVars => IInv' /\ BooksTyped'
    BY NextKeeps, StepUsesStock
<1>3. IInv /\ BooksTyped /\ [OpsNext]_opsVars => [UNCHANGED Stock!vars \/ Stock!Next]_(Stock!vars)
    BY NextKeeps, StepUsesStock DEF StockStep
<1> QED BY <1>1, <1>2, <1>3, PTL DEF OpsSpec, PapersKeepTheBooks

-----------------------------------------------------------------------------
(* What OrderStock promises of its own requests it promises of their use      *)
(* here: its theorems hold of the orders, the stock and the papers together.  *)
Books == INSTANCE OrderStock_proofs WITH
             payment   <- [o \in Orders |-> "unpaid"],
             deadline  <- [o \in Orders |-> IF status[o] = "pending" THEN "running" ELSE "none"],
             MaxSupply <- MaxIn

LEMMA BooksAssumed == Books!OrdersAssumption /\ Books!BoundsAssumption
<1>1. Cardinality(Purchases) \in Nat /\ Cardinality(Returns) \in Nat
    BY PapersAssumption, FS_CardinalityType
<1>2. PICK papersAtMost \in Nat : papersAtMost = Cardinality(Purchases) + Cardinality(Returns)
    BY <1>1
<1>3. MaxIn \in Nat
    BY <1>2, PapersAssumption DEF MaxIn
<1>4. IsFiniteSet(Orders) /\ MaxQty \in Nat \ {0}
    BY PapersAssumption
<1> QED
    BY <1>3, <1>4 DEF Books!OrdersAssumption, Books!BoundsAssumption, Books!IsFiniteSet, IsFiniteSet

\* Books and Stock are the same orders and the same stock.
LEMMA BooksAreTheStock ==
    /\ Books!vars = Stock!vars /\ (Books!Init <=> Stock!Init)
    /\ Books!ReservedIsOwed <=> Stock!ReservedIsOwed
    /\ Books!Conservation <=> Stock!Conservation
    /\ Books!TypeOK <=> Stock!TypeOK
<1> USE DEF Books!Claimed, Stock!Claimed, Books!Units, Stock!Units, Books!Cardinality, Stock!Cardinality,
            Books!IsFiniteSet, Stock!IsFiniteSet, Books!NoItems, Stock!NoItems, Books!Fulfilled,
            Stock!Fulfilled, Books!Reserving, Stock!Reserving, Books!Statuses, Stock!Statuses
<1>1. Books!vars = Stock!vars
    BY Zenon DEF Books!vars, Stock!vars
<1>2. Books!Init <=> Stock!Init
    BY Zenon DEF Books!Init, Stock!Init
<1>3. Books!ReservedIsOwed <=> Stock!ReservedIsOwed
    BY Zenon DEF Books!ReservedIsOwed, Stock!ReservedIsOwed, Books!Held, Stock!Held
<1>4. Books!Conservation <=> Stock!Conservation
    BY Zenon DEF Books!Conservation, Stock!Conservation, Books!Out, Stock!Out
<1>5. Books!TypeOK <=> Stock!TypeOK
    BY Zenon DEF Books!TypeOK, Stock!TypeOK, Books!Payments, Stock!Payments, Books!Cart, Stock!Cart
<1> QED BY <1>1, <1>2, <1>3, <1>4, <1>5

LEMMA BooksMoveAsTheStock == Books!Next <=> Stock!Next
BY Zenon DEF Books!Next, Stock!Next, Books!Cart, Stock!Cart, Books!Statuses, Stock!Statuses,
       Books!Reserving, Stock!Reserving, Books!Fulfilled, Stock!Fulfilled, Books!Expired, Stock!Expired,
       Books!NoItems, Stock!NoItems, Books!Units, Stock!Units, Books!Claimed, Stock!Claimed,
       Books!Cardinality, Stock!Cardinality, Books!IsFiniteSet, Stock!IsFiniteSet,
       Books!MoveStock, Stock!MoveStock, Books!Neg, Stock!Neg, Books!ReleaseOrderStock,
       Stock!ReleaseOrderStock, Books!SetStatus, Stock!SetStatus, Books!CreateOrder, Stock!CreateOrder,
       Books!ReleaseExpired, Stock!ReleaseExpired, Books!Cancel, Stock!Cancel, Books!Reopen, Stock!Reopen,
       Books!Fulfil, Stock!Fulfil, Books!TakeBack, Stock!TakeBack, Books!Progress, Stock!Progress,
       Books!DeleteOrder, Stock!DeleteOrder, Books!AdjustStock, Stock!AdjustStock,
       Books!CheckoutOpened, Stock!CheckoutOpened, Books!PaymentReported, Stock!PaymentReported,
       Books!ReceiptConfirmed, Stock!ReceiptConfirmed, Books!DeadlinePasses, Stock!DeadlinePasses

(* Purchases, deliveries, returns, refunds, adjustments and orders, in any    *)
(* order and from any number of requests: every unit that came in on a paper  *)
(* or by hand is on the shelf, reserved, or out with an order, and what is    *)
(* reserved is what open orders are owed.                                     *)
THEOREM PapersBalance == OpsSpec => [](Stock!ReservedIsOwed /\ Stock!Conservation /\ Stock!TypeOK)
<1>1. OpsSpec => Stock!Init /\ [][UNCHANGED Stock!vars \/ Stock!Next]_(Stock!vars)
    BY PapersUseTheStock DEF PapersKeepTheBooks
<1>2. Stock!Init => Books!Init
    BY BooksAreTheStock
<1>3. [UNCHANGED Stock!vars \/ Stock!Next]_(Stock!vars) => [Books!Next]_(Books!vars)
    <2>1. UNCHANGED Stock!vars => UNCHANGED Books!vars
        BY DEF Stock!vars, Books!vars
    <2> QED BY <2>1, BooksMoveAsTheStock
<1>4. Books!Spec => []Books!ReservedIsOwed /\ []Books!Conservation /\ []Books!TypeOK
    BY BooksAssumed, Books!NoReservationLeaks, Books!StockIsConserved, Books!TypeCorrect
<1>5. Books!ReservedIsOwed /\ Books!Conservation /\ Books!TypeOK
        => Stock!ReservedIsOwed /\ Stock!Conservation /\ Stock!TypeOK
    BY BooksAreTheStock
<1> QED BY <1>1, <1>2, <1>3, <1>4, <1>5, PTL DEF Books!Spec

\* What is on the shelf or reserved came in.
LEMMA StockIsSupplied ==
    ASSUME Stock!Conservation, Stock!TypeOK, NEW v \in Variants
    PROVE  stock[v] \in 0..MaxIn /\ reserved[v] \in 0..MaxIn
<1>1. PICK shipped \in Nat : shipped = Stock!Claimed(Stock!Out, v, qty)
    <2>1. Stock!Out \in SUBSET Orders
        BY DEF Stock!Out
    <2>2. Books!Claimed(Stock!Out, v, qty) \in Nat
        BY <2>1, BooksAssumed, Books!UnitsFinite
    <2> QED BY <2>2, Zenon DEF Books!Claimed, Stock!Claimed, Books!Units, Stock!Units,
                   Books!Cardinality, Stock!Cardinality, Books!IsFiniteSet, Stock!IsFiniteSet
<1>2. stock[v] + reserved[v] + shipped = supplied[v]
    BY <1>1 DEF Stock!Conservation
<1>3. stock[v] \in Nat /\ reserved[v] \in Nat /\ supplied[v] \in 0..MaxIn
    BY DEF Stock!TypeOK
<1> HIDE DEF supplied, MaxIn
<1>4. MaxIn \in Nat
    BY BooksAssumed DEF Books!BoundsAssumption
<1> QED BY <1>1, <1>2, <1>3, <1>4

(* The types, bounds of the shelf included: what is on it came in on a paper  *)
(* or by hand.                                                                *)
THEOREM PapersTypeCorrect == OpsSpec => []OpsTypeOK
<1>1. OpsInit => IInv /\ BooksTyped
    BY InitHolds, PapersAssumption DEF OpsInit, Stock!Init, BooksTyped, None0
<1>2. IInv /\ BooksTyped /\ [OpsNext]_opsVars => IInv' /\ BooksTyped'
    BY NextKeeps, StepUsesStock
<1>3. IInv /\ BooksTyped /\ Stock!Conservation /\ Stock!TypeOK => OpsTypeOK
    <2> SUFFICES ASSUME IInv, BooksTyped, Stock!Conservation, Stock!TypeOK PROVE OpsTypeOK
        OBVIOUS
    <2>1. stock \in [Variants -> 0..MaxIn] /\ reserved \in [Variants -> 0..MaxIn]
        BY StockIsSupplied DEF BooksTyped
    <2>2. \A t \in working : t.order \in Orders /\ t.refunds \in Returns \cup {None}
        BY DEF IInv, SumsHold
    <2> QED BY <2>1, <2>2 DEF OpsTypeOK, IInv, PapersTyped, BooksTyped
<1> QED BY <1>1, <1>2, <1>3, PapersBalance, PTL DEF OpsSpec
=============================================================================
