-------------------------- MODULE OrderStock_proofs --------------------------
(* Proofs about OrderStock for every finite set of orders, every set of       *)
(* variants and every bound.  The inductive invariant is TypeOK, the two      *)
(* equations that tie the stock columns to the orders, and the fact that an   *)
(* absent order claims nothing that a later one could inherit.                *)
EXTENDS OrderStock, FiniteSetTheorems, TLAPS

-----------------------------------------------------------------------------
(* Arithmetic of claims.                                                      *)

(* The units claimed by any set of orders are finitely many.                  *)
LEMMA UnitsFinite ==
    ASSUME NEW S \in SUBSET Orders, NEW v, NEW q
    PROVE  /\ IsFiniteSet(Units(S, v, q))
           /\ Claimed(S, v, q) \in Nat
<1>1. IsFiniteSet(S)
    BY FS_Subset, OrdersAssumption
<1>2. IsFiniteSet(1..MaxQty)
    BY FS_Interval, BoundsAssumption
<1>3. IsFiniteSet(S \X (1..MaxQty))
    BY <1>1, <1>2, FS_Product
<1>4. IsFiniteSet(Units(S, v, q))
    BY <1>3, FS_Subset DEF Units
<1> QED
    BY <1>4, FS_CardinalityType DEF Claimed

(* The size of a disjoint union is the sum of the sizes.                      *)
LEMMA CardinalityOfDisjoint ==
    ASSUME NEW A, NEW B, IsFiniteSet(A), IsFiniteSet(B), A \cap B = {}
    PROVE  Cardinality(A \cup B) = Cardinality(A) + Cardinality(B)
<1> DEFINE a == Cardinality(A)
           b == Cardinality(B)
           c == Cardinality(A \cup B)
<1>1. a \in Nat /\ b \in Nat
    BY FS_CardinalityType
<1>2. Cardinality(A \cap B) = 0
    BY FS_EmptySet, Zenon
<1>3. c = a + b - Cardinality(A \cap B)
    BY FS_Union
<1>4. c = a + b - 0
    BY <1>2, <1>3, Zenon
<1> HIDE DEF a, b, c
<1>5. c = a + b
    BY <1>1, <1>4
<1> QED
    BY <1>5 DEF a, b, c

(* Claims of disjoint sets of orders add up.                                  *)
LEMMA ClaimedUnion ==
    ASSUME NEW S \in SUBSET Orders, NEW T \in SUBSET Orders, S \cap T = {},
           NEW U, U = S \cup T, NEW v, NEW q
    PROVE  Claimed(U, v, q) = Claimed(S, v, q) + Claimed(T, v, q)
<1>1. Units(U, v, q) = Units(S, v, q) \cup Units(T, v, q)
    BY DEF Units
<1>2. Units(S, v, q) \cap Units(T, v, q) = {}
    BY DEF Units
<1>3. IsFiniteSet(Units(S, v, q)) /\ IsFiniteSet(Units(T, v, q))
    BY UnitsFinite
<1> QED
    BY <1>1, <1>2, <1>3, CardinalityOfDisjoint, Zenon DEF Claimed

(* One order claims its own quantity.                                         *)
LEMMA ClaimedSingle ==
    ASSUME NEW o \in Orders, NEW v \in Variants, NEW q \in [Orders -> Cart]
    PROVE  Claimed({o}, v, q) = q[o][v]
<1> DEFINE n == q[o][v]
           f == [k \in 1..n |-> <<o, k>>]
<1>1. n \in 0..MaxQty
    BY DEF Cart
<1>2. n \in Nat /\ n \in Int /\ 1 \in Int
    BY <1>1, BoundsAssumption
<1>3. Units({o}, v, q) = {<<o, k>> : k \in 1..n}
    BY <1>1, BoundsAssumption DEF Units
<1>4. f \in Bijection(1..n, Units({o}, v, q))
    BY <1>3 DEF Bijection, Injection, Surjection, IsInjective
<1>5. ExistsBijection(1..n, Units({o}, v, q))
    BY <1>4 DEF ExistsBijection
<1> HIDE DEF n, f
<1>6. IsFiniteSet(1..n) /\ Cardinality(1..n) = n
  <2>1. /\ IsFiniteSet(1..n)
        /\ Cardinality(1..n) = IF 1 > n THEN 0 ELSE n - 1 + 1
    BY <1>2, FS_Interval, Zenon
  <2> QED
    BY <1>2, <2>1
<1>7. Cardinality(Units({o}, v, q)) = n
    BY <1>5, <1>6, FS_Bijection
<1> QED
    BY <1>7 DEF Claimed, n

(* Only the quantities of the claiming orders matter.                         *)
LEMMA ClaimedFrame ==
    ASSUME NEW S \in SUBSET Orders, NEW v, NEW q, NEW r,
           \A o \in S : r[o][v] = q[o][v]
    PROVE  Claimed(S, v, r) = Claimed(S, v, q)
<1>1. Units(S, v, r) = Units(S, v, q)
    BY DEF Units
<1> QED
    BY <1>1 DEF Claimed

(* A set of orders, or one order, leaves the claiming orders.                 *)
LEMMA ClaimedWithout ==
    ASSUME NEW S \in SUBSET Orders, NEW T \in SUBSET S, NEW R, R = S \ T,
           NEW v, NEW q
    PROVE  Claimed(R, v, q) = Claimed(S, v, q) - Claimed(T, v, q)
<1>1. R \in SUBSET Orders /\ T \in SUBSET Orders /\ R \cap T = {} /\ S = R \cup T
    OBVIOUS
<1>2. Claimed(S, v, q) = Claimed(R, v, q) + Claimed(T, v, q)
    BY <1>1, ClaimedUnion
<1>3. Claimed(R, v, q) \in Nat /\ Claimed(T, v, q) \in Nat
    BY <1>1, UnitsFinite
<1> QED
    BY <1>2, <1>3

LEMMA ClaimedLeave ==
    ASSUME NEW S \in SUBSET Orders, NEW o \in S,
           NEW v \in Variants, NEW q \in [Orders -> Cart]
    PROVE  Claimed(S \ {o}, v, q) = Claimed(S, v, q) - q[o][v]
<1>1. Claimed(S \ {o}, v, q) = Claimed(S, v, q) - Claimed({o}, v, q)
    BY ClaimedWithout
<1>2. Claimed({o}, v, q) = q[o][v]
    BY ClaimedSingle
<1> QED
    BY <1>1, <1>2

(* One order joins the claiming orders.                                       *)
LEMMA ClaimedJoin ==
    ASSUME NEW S \in SUBSET Orders, NEW o \in Orders, o \notin S,
           NEW v \in Variants, NEW q \in [Orders -> Cart]
    PROVE  Claimed(S \cup {o}, v, q) = Claimed(S, v, q) + q[o][v]
<1>1. Claimed(S \cup {o}, v, q) = Claimed(S, v, q) + Claimed({o}, v, q)
    BY ClaimedUnion
<1>2. Claimed({o}, v, q) = q[o][v]
    BY ClaimedSingle
<1> QED
    BY <1>1, <1>2

-----------------------------------------------------------------------------
(* The inductive invariant and its preservation by each action.               *)

IInv == TypeOK /\ ReservedIsOwed /\ Conservation

(* A movement of integers that move_stock accepts leaves naturals.            *)
LEMMA MoveStockTyped ==
    ASSUME NEW a \in [Variants -> Int], NEW b \in [Variants -> Int],
           TypeOK, MoveStock(a, b)
    PROVE  /\ stock' \in [Variants -> Nat] /\ reserved' \in [Variants -> Nat]
           /\ \A v \in Variants : stock'[v] = stock[v] + a[v]
           /\ \A v \in Variants : reserved'[v] = reserved[v] + b[v]
BY DEF TypeOK, MoveStock

LEMMA NegTyped ==
    ASSUME NEW f \in [Variants -> Int]
    PROVE  Neg(f) \in [Variants -> Int] /\ \A v \in Variants : Neg(f)[v] = -f[v]
BY DEF Neg

LEMMA QtyTyped ==
    ASSUME TypeOK, NEW o \in Orders
    PROVE  /\ qty[o] \in [Variants -> Int] /\ qty[o] \in Cart
           /\ Neg(qty[o]) \in [Variants -> Int]
           /\ NoItems \in [Variants -> Int] /\ NoItems \in Cart
           /\ \A v \in Variants : /\ qty[o][v] \in Nat
                                  /\ Neg(qty[o])[v] = -qty[o][v]
                                  /\ NoItems[v] = 0
BY BoundsAssumption, NegTyped DEF TypeOK, Cart, NoItems

(* The three equations of the books, for one variant.                         *)
LEMMA BooksTyped ==
    ASSUME IInv, NEW v \in Variants
    PROVE  /\ stock[v] \in Nat /\ reserved[v] \in Nat /\ supplied[v] \in Nat
           /\ Claimed(Held, v, qty) \in Nat /\ Claimed(Out, v, qty) \in Nat
           /\ reserved[v] = Claimed(Held, v, qty)
           /\ stock[v] + reserved[v] + Claimed(Out, v, qty) = supplied[v]
<1>1. Held \in SUBSET Orders /\ Out \in SUBSET Orders
    BY DEF Held, Out
<1>2. Claimed(Held, v, qty) \in Nat /\ Claimed(Out, v, qty) \in Nat
    BY <1>1, UnitsFinite
<1>3. 0..MaxSupply \subseteq Nat
    BY BoundsAssumption
<1> QED
    BY <1>2, <1>3 DEF IInv, TypeOK, ReservedIsOwed, Conservation

(* It is enough to follow each variant's books through a step.                *)
LEMMA BooksSuffice ==
    ASSUME TypeOK',
           \A v \in Variants :
              /\ reserved'[v] = Claimed(Held', v, qty')
              /\ stock'[v] + reserved'[v] + Claimed(Out', v, qty') = supplied'[v]
    PROVE  IInv'
BY DEF IInv, ReservedIsOwed, Conservation

LEMMA BooksSufficeSameItems ==
    ASSUME TypeOK', qty' = qty, supplied' = supplied,
           \A v \in Variants :
              /\ reserved'[v] = Claimed(Held', v, qty)
              /\ stock'[v] + reserved'[v] + Claimed(Out', v, qty) = supplied[v]
    PROVE  IInv'
BY DEF IInv, ReservedIsOwed, Conservation

LEMMA CancelPreserves ==
    ASSUME IInv, NEW o \in Orders, Cancel(o)
    PROVE  IInv'
<1>1. TypeOK /\ qty' = qty /\ supplied' = supplied
    BY DEF IInv, Cancel
<1>2. Held \in SUBSET Orders /\ Out \in SUBSET Orders /\ qty \in [Orders -> Cart]
    BY <1>1 DEF Held, Out, TypeOK
<1>3. CASE status[o] \in Reserving
  <2>1. MoveStock(qty[o], Neg(qty[o]))
      BY <1>3 DEF Cancel, Reserving, Fulfilled, ReleaseOrderStock
  <2>2. TypeOK'
      BY <1>1, <2>1, MoveStockTyped, QtyTyped DEF TypeOK, Cancel, Reserving, Fulfilled, Statuses
  <2>3. o \in Held /\ Held' = Held \ {o} /\ Out' = Out
      BY <1>1, <1>3 DEF Cancel, Reserving, Fulfilled, Held, Out, TypeOK
  <2>4. ASSUME NEW v \in Variants
        PROVE  /\ reserved'[v] = Claimed(Held', v, qty)
               /\ stock'[v] + reserved'[v] + Claimed(Out', v, qty) = supplied[v]
    <3>1. Claimed(Held', v, qty) = Claimed(Held, v, qty) - qty[o][v]
      <4>1. Claimed(Held \ {o}, v, qty) = Claimed(Held, v, qty) - qty[o][v]
          BY <1>2, <2>3, ClaimedLeave
      <4> QED
          BY <4>1, <2>3
    <3>2. Claimed(Out', v, qty) = Claimed(Out, v, qty)
        BY <2>3
    <3>3. stock'[v] = stock[v] + qty[o][v] /\ reserved'[v] = reserved[v] + (-qty[o][v])
        BY <1>1, <2>1, MoveStockTyped, QtyTyped
    <3> QED
        BY <1>1, <3>1, <3>2, <3>3, BooksTyped, QtyTyped
  <2> QED
      BY <2>2, <2>4, <1>1, BooksSufficeSameItems
<1>4. CASE status[o] \in Fulfilled
  <2>1. MoveStock(qty[o], NoItems)
      BY <1>4 DEF Cancel, Reserving, Fulfilled, ReleaseOrderStock
  <2>2. TypeOK'
      BY <1>1, <2>1, MoveStockTyped, QtyTyped DEF TypeOK, Cancel, Reserving, Fulfilled, Statuses
  <2>3. o \in Out /\ Out' = Out \ {o} /\ Held' = Held
      BY <1>1, <1>4 DEF Cancel, Reserving, Fulfilled, Held, Out, TypeOK
  <2>4. ASSUME NEW v \in Variants
        PROVE  /\ reserved'[v] = Claimed(Held', v, qty)
               /\ stock'[v] + reserved'[v] + Claimed(Out', v, qty) = supplied[v]
    <3>1. Claimed(Out', v, qty) = Claimed(Out, v, qty) - qty[o][v]
      <4>1. Claimed(Out \ {o}, v, qty) = Claimed(Out, v, qty) - qty[o][v]
          BY <1>2, <2>3, ClaimedLeave
      <4> QED
          BY <4>1, <2>3
    <3>2. Claimed(Held', v, qty) = Claimed(Held, v, qty)
        BY <2>3
    <3>3. stock'[v] = stock[v] + qty[o][v] /\ reserved'[v] = reserved[v] + 0
        BY <1>1, <2>1, MoveStockTyped, QtyTyped
    <3> QED
        BY <1>1, <3>1, <3>2, <3>3, BooksTyped, QtyTyped
  <2> QED
      BY <2>2, <2>4, <1>1, BooksSufficeSameItems
<1> QED
    BY <1>3, <1>4 DEF Cancel

LEMMA ReopenPreserves ==
    ASSUME IInv, NEW o \in Orders, NEW new \in Statuses, Reopen(o, new)
    PROVE  IInv'
<1>1. TypeOK /\ qty' = qty /\ supplied' = supplied
    BY DEF IInv, Reopen, SetStatus
<1>2. Held \in SUBSET Orders /\ Out \in SUBSET Orders /\ qty \in [Orders -> Cart]
    BY <1>1 DEF Held, Out, TypeOK
<1>3. CASE new \in Reserving
  <2>1. MoveStock(Neg(qty[o]), qty[o])
      BY <1>3 DEF Reopen
  <2>2. TypeOK'
      BY <1>1, <2>1, MoveStockTyped, QtyTyped DEF TypeOK, Reopen, Reserving, Fulfilled, SetStatus, Statuses
  <2>3. o \notin Held /\ Held' = Held \cup {o} /\ Out' = Out
      BY <1>1, <1>3 DEF Reopen, Reserving, Fulfilled, SetStatus, Held, Out, TypeOK
  <2>4. ASSUME NEW v \in Variants
        PROVE  /\ reserved'[v] = Claimed(Held', v, qty)
               /\ stock'[v] + reserved'[v] + Claimed(Out', v, qty) = supplied[v]
    <3>1. Claimed(Held', v, qty) = Claimed(Held, v, qty) + qty[o][v]
      <4>1. Claimed(Held \cup {o}, v, qty) = Claimed(Held, v, qty) + qty[o][v]
          BY <1>2, <2>3, ClaimedJoin
      <4> QED
          BY <4>1, <2>3
    <3>2. Claimed(Out', v, qty) = Claimed(Out, v, qty)
        BY <2>3
    <3>3. stock'[v] = stock[v] + (-qty[o][v]) /\ reserved'[v] = reserved[v] + qty[o][v]
        BY <1>1, <2>1, MoveStockTyped, QtyTyped
    <3> QED
        BY <1>1, <3>1, <3>2, <3>3, BooksTyped, QtyTyped
  <2> QED
      BY <2>2, <2>4, <1>1, BooksSufficeSameItems
<1>4. CASE new \in Fulfilled
  <2>1. MoveStock(Neg(qty[o]), NoItems)
      BY <1>4 DEF Reopen, Reserving, Fulfilled
  <2>2. TypeOK'
      BY <1>1, <2>1, MoveStockTyped, QtyTyped DEF TypeOK, Reopen, Reserving, Fulfilled, SetStatus, Statuses
  <2>3. o \notin Out /\ Out' = Out \cup {o} /\ Held' = Held
      BY <1>1, <1>4 DEF Reopen, Reserving, Fulfilled, SetStatus, Held, Out, TypeOK
  <2>4. ASSUME NEW v \in Variants
        PROVE  /\ reserved'[v] = Claimed(Held', v, qty)
               /\ stock'[v] + reserved'[v] + Claimed(Out', v, qty) = supplied[v]
    <3>1. Claimed(Out', v, qty) = Claimed(Out, v, qty) + qty[o][v]
      <4>1. Claimed(Out \cup {o}, v, qty) = Claimed(Out, v, qty) + qty[o][v]
          BY <1>2, <2>3, ClaimedJoin
      <4> QED
          BY <4>1, <2>3
    <3>2. Claimed(Held', v, qty) = Claimed(Held, v, qty)
        BY <2>3
    <3>3. stock'[v] = stock[v] + (-qty[o][v]) /\ reserved'[v] = reserved[v] + 0
        BY <1>1, <2>1, MoveStockTyped, QtyTyped
    <3> QED
        BY <1>1, <3>1, <3>2, <3>3, BooksTyped, QtyTyped
  <2> QED
      BY <2>2, <2>4, <1>1, BooksSufficeSameItems
<1> QED
    BY <1>3, <1>4 DEF Reopen, Reserving, Fulfilled, Statuses

LEMMA FulfilPreserves ==
    ASSUME IInv, NEW o \in Orders, NEW new \in Statuses, Fulfil(o, new)
    PROVE  IInv'
<1>1. TypeOK /\ qty' = qty /\ supplied' = supplied
    BY DEF IInv, Fulfil, SetStatus
<1>2. Held \in SUBSET Orders /\ Out \in SUBSET Orders /\ qty \in [Orders -> Cart]
    BY <1>1 DEF Held, Out, TypeOK
<1>3. MoveStock(NoItems, Neg(qty[o]))
    BY DEF Fulfil
<1>4. TypeOK'
    BY <1>1, <1>3, MoveStockTyped, QtyTyped DEF TypeOK, Fulfil, Reserving, Fulfilled, SetStatus, Statuses
<1>5. o \in Held /\ Held' = Held \ {o}
    BY <1>1 DEF Fulfil, Reserving, Fulfilled, SetStatus, Held, TypeOK
<1>6. o \notin Out /\ Out' = Out \cup {o}
    BY <1>1 DEF Fulfil, Reserving, Fulfilled, SetStatus, Out, TypeOK
<1>7. ASSUME NEW v \in Variants
      PROVE  /\ reserved'[v] = Claimed(Held', v, qty)
             /\ stock'[v] + reserved'[v] + Claimed(Out', v, qty) = supplied[v]
  <2>1. Claimed(Held', v, qty) = Claimed(Held, v, qty) - qty[o][v]
    <3>1. Claimed(Held \ {o}, v, qty) = Claimed(Held, v, qty) - qty[o][v]
        BY <1>2, <1>5, ClaimedLeave
    <3> QED
        BY <3>1, <1>5
  <2>2. Claimed(Out', v, qty) = Claimed(Out, v, qty) + qty[o][v]
    <3>1. Claimed(Out \cup {o}, v, qty) = Claimed(Out, v, qty) + qty[o][v]
        BY <1>2, <1>6, ClaimedJoin
    <3> QED
        BY <3>1, <1>6
  <2>3. stock'[v] = stock[v] + 0 /\ reserved'[v] = reserved[v] + (-qty[o][v])
      BY <1>1, <1>3, MoveStockTyped, QtyTyped
  <2> QED
      BY <1>1, <2>1, <2>2, <2>3, BooksTyped, QtyTyped
<1> QED
    BY <1>4, <1>7, <1>1, BooksSufficeSameItems

LEMMA TakeBackPreserves ==
    ASSUME IInv, NEW o \in Orders, NEW new \in Statuses, TakeBack(o, new)
    PROVE  IInv'
<1>1. TypeOK /\ qty' = qty /\ supplied' = supplied
    BY DEF IInv, TakeBack, SetStatus
<1>2. Held \in SUBSET Orders /\ Out \in SUBSET Orders /\ qty \in [Orders -> Cart]
    BY <1>1 DEF Held, Out, TypeOK
<1>3. MoveStock(NoItems, qty[o])
    BY DEF TakeBack
<1>4. TypeOK'
    BY <1>1, <1>3, MoveStockTyped, QtyTyped DEF TypeOK, TakeBack, Reserving, Fulfilled, SetStatus, Statuses
<1>5. o \notin Held /\ Held' = Held \cup {o}
    BY <1>1 DEF TakeBack, Reserving, Fulfilled, SetStatus, Held, TypeOK
<1>6. o \in Out /\ Out' = Out \ {o}
    BY <1>1 DEF TakeBack, Reserving, Fulfilled, SetStatus, Out, TypeOK
<1>7. ASSUME NEW v \in Variants
      PROVE  /\ reserved'[v] = Claimed(Held', v, qty)
             /\ stock'[v] + reserved'[v] + Claimed(Out', v, qty) = supplied[v]
  <2>1. Claimed(Held', v, qty) = Claimed(Held, v, qty) + qty[o][v]
    <3>1. Claimed(Held \cup {o}, v, qty) = Claimed(Held, v, qty) + qty[o][v]
        BY <1>2, <1>5, ClaimedJoin
    <3> QED
        BY <3>1, <1>5
  <2>2. Claimed(Out', v, qty) = Claimed(Out, v, qty) - qty[o][v]
    <3>1. Claimed(Out \ {o}, v, qty) = Claimed(Out, v, qty) - qty[o][v]
        BY <1>2, <1>6, ClaimedLeave
    <3> QED
        BY <3>1, <1>6
  <2>3. stock'[v] = stock[v] + 0 /\ reserved'[v] = reserved[v] + qty[o][v]
      BY <1>1, <1>3, MoveStockTyped, QtyTyped
  <2> QED
      BY <1>1, <2>1, <2>2, <2>3, BooksTyped, QtyTyped
<1> QED
    BY <1>4, <1>7, <1>1, BooksSufficeSameItems

(* Steps that move no stock and leave every order on its side of the books.   *)
LEMMA FramePreserves ==
    ASSUME IInv, TypeOK', Held' = Held, Out' = Out,
           UNCHANGED <<qty, stock, reserved, supplied>>
    PROVE  IInv'
BY DEF IInv, ReservedIsOwed, Conservation

LEMMA ProgressPreserves ==
    ASSUME IInv, NEW o \in Orders, NEW new \in Statuses, Progress(o, new)
    PROVE  IInv'
<1>1. TypeOK'
    BY DEF IInv, TypeOK, Progress, Reserving, Fulfilled, SetStatus
<1>2. Held' = Held /\ Out' = Out
    BY DEF IInv, TypeOK, Progress, Reserving, Fulfilled, SetStatus, Held, Out
<1> QED
    BY <1>1, <1>2, FramePreserves DEF Progress, SetStatus

LEMMA PaymentPreserves ==
    ASSUME IInv, NEW o \in Orders,
           \/ CheckoutOpened(o)
           \/ PaymentReported(o)
           \/ ReceiptConfirmed(o)
           \/ DeadlinePasses(o)
    PROVE  IInv'
<1>1. status' = status /\ UNCHANGED <<qty, stock, reserved, supplied>>
    BY DEF CheckoutOpened, PaymentReported, ReceiptConfirmed, DeadlinePasses
<1>2. TypeOK'
    BY DEF IInv, TypeOK, Payments, CheckoutOpened, PaymentReported,
           ReceiptConfirmed, DeadlinePasses
<1> QED
    BY <1>1, <1>2, FramePreserves DEF Held, Out

(* What a set of orders frees is a natural number of units of each variant.   *)
LEMMA FreedTyped ==
    ASSUME NEW S \in SUBSET Orders, NEW q,
           NEW f, f = [v \in Variants |-> Claimed(S, v, q)]
    PROVE  /\ f \in [Variants -> Int]
           /\ Neg(f) \in [Variants -> Int]
           /\ \A v \in Variants : /\ f[v] = Claimed(S, v, q)
                                  /\ f[v] \in Nat
                                  /\ Neg(f)[v] = -f[v]
<1>1. \A v \in Variants : Claimed(S, v, q) \in Nat
    BY UnitsFinite
<1>2. f \in [Variants -> Int] /\ \A v \in Variants : f[v] = Claimed(S, v, q) /\ f[v] \in Nat
    BY <1>1
<1> QED
    BY <1>2, NegTyped

LEMMA ReleaseExpiredPreserves ==
    ASSUME IInv, NEW E \in SUBSET Expired, ReleaseExpired(E)
    PROVE  IInv'
<1> DEFINE freed == [v \in Variants |-> Claimed(E, v, qty)]
<1>1. TypeOK /\ qty' = qty /\ supplied' = supplied
    BY DEF IInv, ReleaseExpired
<1>2. E \in SUBSET Held /\ E \in SUBSET Orders
    BY DEF Expired, Held, Reserving
<1>3. Held \in SUBSET Orders
    BY DEF Held
<1>4. MoveStock(freed, Neg(freed))
    BY DEF ReleaseExpired
<1>5. /\ freed \in [Variants -> Int] /\ Neg(freed) \in [Variants -> Int]
      /\ \A v \in Variants : /\ freed[v] = Claimed(E, v, qty)
                             /\ freed[v] \in Nat
                             /\ Neg(freed)[v] = -freed[v]
    BY <1>2, FreedTyped
<1> HIDE DEF freed
<1>6. stock' \in [Variants -> Nat] /\ reserved' \in [Variants -> Nat]
    BY <1>1, <1>4, <1>5, MoveStockTyped
<1>7. TypeOK'
    BY <1>1, <1>6 DEF TypeOK, ReleaseExpired, Statuses
<1>8. Held' = Held \ E
    BY <1>1 DEF ReleaseExpired, Held, TypeOK, Reserving
<1>9. Out' = Out
    BY <1>1 DEF ReleaseExpired, Out, Expired, TypeOK, Fulfilled
<1>10. ASSUME NEW v \in Variants
       PROVE  /\ reserved'[v] = Claimed(Held', v, qty)
              /\ stock'[v] + reserved'[v] + Claimed(Out', v, qty) = supplied[v]
  <2>1. Claimed(Held \ E, v, qty) = Claimed(Held, v, qty) - Claimed(E, v, qty)
      BY <1>2, <1>3, ClaimedWithout
  <2>2. Claimed(Held', v, qty) = Claimed(Held, v, qty) - Claimed(E, v, qty)
      BY <2>1, <1>8
  <2>3. Claimed(Out', v, qty) = Claimed(Out, v, qty)
      BY <1>9
  <2>4. /\ stock'[v] = stock[v] + Claimed(E, v, qty)
        /\ reserved'[v] = reserved[v] + (-Claimed(E, v, qty))
      BY <1>1, <1>4, <1>5, MoveStockTyped
  <2>5. Claimed(E, v, qty) \in Nat
      BY <1>5
  <2> QED
      BY <2>2, <2>3, <2>4, <2>5, BooksTyped
<1> QED
    BY <1>7, <1>10, <1>1, BooksSufficeSameItems

(* The new order's items are counted only for itself: every other order keeps *)
(* its quantities, and the expired ones leave the reservation.                *)
LEMMA CreateOrderPreserves ==
    ASSUME IInv, NEW o \in Orders, NEW q \in Cart,
           NEW E \in SUBSET Expired, CreateOrder(o, q, E)
    PROVE  IInv'
<1> DEFINE freed == [v \in Variants |-> Claimed(E, v, qty)]
           toShelf == [v \in Variants |-> freed[v] - q[v]]
           toReserve == [v \in Variants |-> q[v] - freed[v]]
           rest == Held \ E
<1>1. TypeOK /\ supplied' = supplied
    BY DEF IInv, CreateOrder
<1>2. E \in SUBSET Held /\ E \in SUBSET Orders
    BY DEF Expired, Held, Reserving
<1>3. Held \in SUBSET Orders /\ Out \in SUBSET Orders
    BY DEF Held, Out
<1>4. MoveStock(toShelf, toReserve)
    BY DEF CreateOrder
<1>5. \A v \in Variants : freed[v] = Claimed(E, v, qty) /\ freed[v] \in Nat
    BY <1>2, FreedTyped
<1>6. \A v \in Variants : q[v] \in Nat
    BY BoundsAssumption DEF Cart
<1>7. qty' = [qty EXCEPT ![o] = q]
    BY DEF CreateOrder
<1>14. qty' \in [Orders -> Cart]
    BY <1>1, <1>7 DEF TypeOK
<1>8. /\ toShelf \in [Variants -> Int] /\ toReserve \in [Variants -> Int]
      /\ \A v \in Variants : /\ toShelf[v] = freed[v] - q[v]
                             /\ toReserve[v] = q[v] - freed[v]
    BY <1>5, <1>6
<1> HIDE DEF freed, toShelf, toReserve
<1>9. stock' \in [Variants -> Nat] /\ reserved' \in [Variants -> Nat]
    BY <1>1, <1>4, <1>8, MoveStockTyped
<1>10. TypeOK'
    BY <1>1, <1>9, <1>14 DEF TypeOK, CreateOrder, Statuses, Payments, Reserving
<1>11. rest \in SUBSET Orders /\ o \notin rest /\ Held' = rest \cup {o}
    BY <1>1 DEF CreateOrder, Held, Expired, TypeOK, Reserving
<1>12. Out' = Out /\ o \notin Out
    BY <1>1 DEF CreateOrder, Out, Expired, TypeOK, Fulfilled
<1>13. ASSUME NEW v \in Variants
       PROVE  /\ reserved'[v] = Claimed(Held', v, qty')
              /\ stock'[v] + reserved'[v] + Claimed(Out', v, qty') = supplied'[v]
  <2>1. Claimed(rest, v, qty) = Claimed(Held, v, qty) - Claimed(E, v, qty)
      BY <1>2, <1>3, ClaimedWithout
  <2>2. Claimed(rest, v, qty') = Claimed(rest, v, qty)
    <3>1. \A x \in rest : qty'[x][v] = qty[x][v]
        BY <1>1, <1>7, <1>11 DEF TypeOK
    <3> QED
        BY <1>11, <3>1, ClaimedFrame
  <2>3. Claimed(rest \cup {o}, v, qty') = Claimed(rest, v, qty') + qty'[o][v]
    <3>1. rest \in SUBSET Orders /\ o \notin rest
        BY <1>11
    <3> HIDE DEF rest
    <3> QED
        BY <3>1, <1>14, ClaimedJoin
  <2>4. qty'[o][v] = q[v]
      BY <1>1, <1>7 DEF TypeOK
  <2>5. Claimed(Out', v, qty') = Claimed(Out, v, qty)
    <3>1. \A x \in Out : qty'[x][v] = qty[x][v]
        BY <1>1, <1>3, <1>7, <1>12 DEF TypeOK
    <3>2. Claimed(Out, v, qty') = Claimed(Out, v, qty)
        BY <1>3, <3>1, ClaimedFrame
    <3> QED
        BY <1>12, <3>2
  <2>6. /\ stock'[v] = stock[v] + (freed[v] - q[v])
        /\ reserved'[v] = reserved[v] + (q[v] - freed[v])
      BY <1>1, <1>4, <1>8, MoveStockTyped
  <2>7. freed[v] = Claimed(E, v, qty) /\ freed[v] \in Nat /\ q[v] \in Nat
      BY <1>5, <1>6
  <2>8. Claimed(Held', v, qty') = Claimed(rest \cup {o}, v, qty')
      BY <1>11
  <2> HIDE DEF rest
  <2> QED
      BY <1>1, <2>1, <2>2, <2>3, <2>4, <2>5, <2>6, <2>7, <2>8, BooksTyped
<1> QED
    BY <1>10, <1>13, BooksSuffice

LEMMA AdjustStockPreserves ==
    ASSUME IInv, NEW d \in [Variants -> -MaxSupply..MaxSupply], AdjustStock(d)
    PROVE  IInv'
<1>1. TypeOK /\ qty' = qty /\ status' = status
    BY DEF IInv, AdjustStock
<1>2. d \in [Variants -> Int]
    BY BoundsAssumption
<1>3. NoItems \in [Variants -> Int] /\ \A v \in Variants : NoItems[v] = 0
    BY DEF NoItems
<1>4. MoveStock(d, NoItems)
    BY DEF AdjustStock
<1>5. \A v \in Variants : /\ supplied'[v] = supplied[v] + d[v]
                          /\ supplied'[v] \in 0..MaxSupply
    BY <1>1, <1>2 DEF AdjustStock, TypeOK
<1>6. stock' \in [Variants -> Nat] /\ reserved' \in [Variants -> Nat]
    BY <1>1, <1>3, <1>4, MoveStockTyped
<1>7. TypeOK'
    BY <1>1, <1>5, <1>6 DEF TypeOK, AdjustStock
<1>8. Held' = Held /\ Out' = Out
    BY <1>1 DEF Held, Out
<1>9. ASSUME NEW v \in Variants
      PROVE  /\ reserved'[v] = Claimed(Held', v, qty')
             /\ stock'[v] + reserved'[v] + Claimed(Out', v, qty') = supplied'[v]
  <2>1. Claimed(Held', v, qty') = Claimed(Held, v, qty)
      BY <1>1, <1>8
  <2>2. Claimed(Out', v, qty') = Claimed(Out, v, qty)
      BY <1>1, <1>8
  <2>3. stock'[v] = stock[v] + d[v] /\ reserved'[v] = reserved[v] + 0
      BY <1>1, <1>3, <1>4, MoveStockTyped
  <2> QED
      BY <1>2, <1>3, <1>5, <2>1, <2>2, <2>3, BooksTyped
<1> QED
    BY <1>7, <1>9, BooksSuffice

(* Deleting a live order releases it as a cancellation would, deleting a      *)
(* cancelled one moves nothing; either way its items stop counting.           *)
LEMMA DeleteOrderPreserves ==
    ASSUME IInv, NEW o \in Orders, DeleteOrder(o)
    PROVE  IInv'
<1>1. TypeOK /\ supplied' = supplied
    BY DEF IInv, DeleteOrder
<1>2. Held \in SUBSET Orders /\ Out \in SUBSET Orders /\ qty \in [Orders -> Cart]
    BY <1>1 DEF Held, Out, TypeOK
<1>3. Held' = Held \ {o} /\ Out' = Out \ {o}
    BY <1>1 DEF DeleteOrder, Held, Out, TypeOK, Reserving, Fulfilled
<1>4. qty' = [qty EXCEPT ![o] = NoItems] /\ NoItems \in Cart
    BY <1>1, QtyTyped DEF DeleteOrder
<1>5. ASSUME stock' \in [Variants -> Nat], reserved' \in [Variants -> Nat]
      PROVE  TypeOK'
    BY <1>1, <1>4, <1>5 DEF TypeOK, DeleteOrder, Payments
<1>6. ASSUME NEW v \in Variants
      PROVE  /\ Claimed(Held', v, qty') = Claimed(Held \ {o}, v, qty)
             /\ Claimed(Out', v, qty') = Claimed(Out \ {o}, v, qty)
  <2>1. \A x \in Orders \ {o} : qty'[x][v] = qty[x][v]
      BY <1>2, <1>4
  <2>2. Claimed(Held \ {o}, v, qty') = Claimed(Held \ {o}, v, qty)
      BY <1>2, <2>1, ClaimedFrame
  <2>3. Claimed(Out \ {o}, v, qty') = Claimed(Out \ {o}, v, qty)
      BY <1>2, <2>1, ClaimedFrame
  <2> QED
      BY <1>3, <2>2, <2>3
<1>7. CASE status[o] \in Reserving
  <2>1. MoveStock(qty[o], Neg(qty[o]))
      BY <1>7 DEF DeleteOrder, ReleaseOrderStock, Reserving
  <2>2. TypeOK'
      BY <1>1, <1>5, <2>1, MoveStockTyped, QtyTyped
  <2>3. o \in Held /\ o \notin Out
      BY <1>7 DEF Held, Out, Reserving, Fulfilled
  <2>4. ASSUME NEW v \in Variants
        PROVE  /\ reserved'[v] = Claimed(Held', v, qty')
               /\ stock'[v] + reserved'[v] + Claimed(Out', v, qty') = supplied'[v]
    <3>1. Claimed(Held \ {o}, v, qty) = Claimed(Held, v, qty) - qty[o][v]
        BY <1>2, <2>3, ClaimedLeave
    <3>2. Claimed(Out \ {o}, v, qty) = Claimed(Out, v, qty)
      <4>1. Out \ {o} = Out
          BY <2>3
      <4> QED
          BY <4>1
    <3>4. /\ Claimed(Held', v, qty') = Claimed(Held, v, qty) - qty[o][v]
          /\ Claimed(Out', v, qty') = Claimed(Out, v, qty)
        BY <1>6, <3>1, <3>2
    <3>3. stock'[v] = stock[v] + qty[o][v] /\ reserved'[v] = reserved[v] + (-qty[o][v])
        BY <1>1, <2>1, MoveStockTyped, QtyTyped
    <3> QED
        BY <1>1, <3>3, <3>4, BooksTyped, QtyTyped
  <2> QED
      BY <2>2, <2>4, BooksSuffice
<1>8. CASE status[o] \in Fulfilled
  <2>1. MoveStock(qty[o], NoItems)
      BY <1>8 DEF DeleteOrder, ReleaseOrderStock, Reserving, Fulfilled
  <2>2. TypeOK'
      BY <1>1, <1>5, <2>1, MoveStockTyped, QtyTyped
  <2>3. o \in Out /\ o \notin Held
      BY <1>8 DEF Held, Out, Reserving, Fulfilled
  <2>4. ASSUME NEW v \in Variants
        PROVE  /\ reserved'[v] = Claimed(Held', v, qty')
               /\ stock'[v] + reserved'[v] + Claimed(Out', v, qty') = supplied'[v]
    <3>1. Claimed(Out \ {o}, v, qty) = Claimed(Out, v, qty) - qty[o][v]
        BY <1>2, <2>3, ClaimedLeave
    <3>2. Claimed(Held \ {o}, v, qty) = Claimed(Held, v, qty)
      <4>1. Held \ {o} = Held
          BY <2>3
      <4> QED
          BY <4>1
    <3>4. /\ Claimed(Out', v, qty') = Claimed(Out, v, qty) - qty[o][v]
          /\ Claimed(Held', v, qty') = Claimed(Held, v, qty)
        BY <1>6, <3>1, <3>2
    <3>3. stock'[v] = stock[v] + qty[o][v] /\ reserved'[v] = reserved[v] + 0
        BY <1>1, <2>1, MoveStockTyped, QtyTyped
    <3> QED
        BY <1>1, <3>3, <3>4, BooksTyped, QtyTyped
  <2> QED
      BY <2>2, <2>4, BooksSuffice
<1>9. CASE status[o] = "cancelled"
  <2>1. stock' = stock /\ reserved' = reserved
      BY <1>9 DEF DeleteOrder
  <2>2. TypeOK'
      BY <1>1, <1>5, <2>1 DEF TypeOK
  <2>3. Held \ {o} = Held /\ Out \ {o} = Out
      BY <1>9 DEF Held, Out, Reserving, Fulfilled
  <2>4. ASSUME NEW v \in Variants
        PROVE  /\ reserved'[v] = Claimed(Held', v, qty')
               /\ stock'[v] + reserved'[v] + Claimed(Out', v, qty') = supplied'[v]
      BY <1>1, <1>6, <2>1, <2>3, BooksTyped
  <2> QED
      BY <2>2, <2>4, BooksSuffice
<1>10. status[o] \in Reserving \cup Fulfilled \cup {"cancelled"}
    BY <1>1 DEF DeleteOrder, TypeOK, Statuses
<1> QED
    BY <1>7, <1>8, <1>9, <1>10

-----------------------------------------------------------------------------
(* Before the first order and the first delivery the books balance at zero.   *)
LEMMA InitIInv == Init => IInv
<1> SUFFICES ASSUME Init PROVE IInv
    OBVIOUS
<1>1. NoItems \in Cart
    BY BoundsAssumption DEF NoItems, Cart
<1>2. TypeOK
    BY <1>1, BoundsAssumption DEF Init, TypeOK, Statuses, Payments
<1>3. Held = {} /\ Out = {}
    BY DEF Init, Held, Out, Reserving, Fulfilled
<1>4. ASSUME NEW v \in Variants PROVE Claimed({}, v, qty) = 0
  <2>1. Units({}, v, qty) = {}
      BY DEF Units
  <2> QED
      BY <2>1, FS_EmptySet DEF Claimed
<1>5. ReservedIsOwed /\ Conservation
    BY <1>3, <1>4 DEF Init, ReservedIsOwed, Conservation
<1> QED
    BY <1>2, <1>5 DEF IInv

LEMMA NextIInv == IInv /\ [Next]_vars => IInv'
<1> SUFFICES ASSUME IInv, [Next]_vars PROVE IInv'
    OBVIOUS
<1>1. ASSUME NEW o \in Orders, NEW q \in Cart, NEW E \in SUBSET Expired,
             CreateOrder(o, q, E)
      PROVE  IInv'
    BY <1>1, CreateOrderPreserves
<1>2. ASSUME NEW o \in Orders, Cancel(o) PROVE IInv'
    BY <1>2, CancelPreserves
<1>3. ASSUME NEW o \in Orders, NEW new \in Statuses,
             \/ Reopen(o, new) \/ Fulfil(o, new) \/ TakeBack(o, new) \/ Progress(o, new)
      PROVE  IInv'
    BY <1>3, ReopenPreserves, FulfilPreserves, TakeBackPreserves, ProgressPreserves
<1>4. ASSUME NEW o \in Orders, DeleteOrder(o) PROVE IInv'
    BY <1>4, DeleteOrderPreserves
<1>5. ASSUME NEW o \in Orders,
             \/ CheckoutOpened(o) \/ PaymentReported(o)
             \/ ReceiptConfirmed(o) \/ DeadlinePasses(o)
      PROVE  IInv'
    BY <1>5, PaymentPreserves
<1>6. ASSUME NEW E \in SUBSET Expired, ReleaseExpired(E) PROVE IInv'
    BY <1>6, ReleaseExpiredPreserves
<1>7. ASSUME NEW d \in [Variants -> -MaxSupply..MaxSupply], AdjustStock(d)
      PROVE  IInv'
    BY <1>7, AdjustStockPreserves
<1>8. CASE UNCHANGED vars
    BY <1>8 DEF IInv, TypeOK, ReservedIsOwed, Conservation, Held, Out, vars
<1> QED
    BY <1>1, <1>2, <1>3, <1>4, <1>5, <1>6, <1>7, <1>8 DEF Next

LEMMA IInvariant == Spec => []IInv
<1> QED
    BY InitIInv, NextIInv, PTL DEF Spec

(* Every variable keeps its type: no request ever leaves a negative count.    *)
THEOREM TypeCorrect == Spec => []TypeOK
<1>1. IInv => TypeOK
    BY DEF IInv
<1> QED
    BY <1>1, IInvariant, PTL

(* reserved_stock is exactly what the reserving orders are owed, for any      *)
(* number of orders and variants.                                             *)
THEOREM NoReservationLeaks == Spec => []ReservedIsOwed
<1>1. IInv => ReservedIsOwed
    BY DEF IInv
<1> QED
    BY <1>1, IInvariant, PTL

(* Shelf, reservation and goods gone out always add up to what was supplied.  *)
THEOREM StockIsConserved == Spec => []Conservation
<1>1. IInv => Conservation
    BY DEF IInv
<1> QED
    BY <1>1, IInvariant, PTL

LEMMA DeadlinesAreKept ==
    ASSUME TypeOK, UnpaidPendingHasDeadline, [Next]_vars
    PROVE  UnpaidPendingHasDeadline'
<1>1. ASSUME NEW o \in Orders, NEW q \in Cart, NEW E \in SUBSET Expired,
             CreateOrder(o, q, E)
      PROVE  UnpaidPendingHasDeadline'
    BY <1>1 DEF CreateOrder, UnpaidPendingHasDeadline, TypeOK
<1>2. ASSUME NEW o \in Orders, Cancel(o) \/ DeleteOrder(o)
      PROVE  UnpaidPendingHasDeadline'
    BY <1>2 DEF Cancel, DeleteOrder, UnpaidPendingHasDeadline, TypeOK
<1>3. ASSUME NEW o \in Orders, NEW new \in Statuses,
             \/ Reopen(o, new) \/ Fulfil(o, new) \/ TakeBack(o, new) \/ Progress(o, new)
      PROVE  UnpaidPendingHasDeadline'
  <2>1. SetStatus(o, new)
      BY <1>3 DEF Reopen, Fulfil, TakeBack, Progress
  <2> QED
      BY <2>1 DEF SetStatus, UnpaidPendingHasDeadline, TypeOK
<1>4. ASSUME NEW o \in Orders, CheckoutOpened(o)
      PROVE  UnpaidPendingHasDeadline'
    BY <1>4 DEF CheckoutOpened, UnpaidPendingHasDeadline, TypeOK, Payments
<1>5. ASSUME NEW o \in Orders,
             PaymentReported(o) \/ ReceiptConfirmed(o) \/ DeadlinePasses(o)
      PROVE  UnpaidPendingHasDeadline'
    BY <1>5 DEF PaymentReported, ReceiptConfirmed, DeadlinePasses,
                      UnpaidPendingHasDeadline, TypeOK
<1>6. ASSUME NEW E \in SUBSET Expired, ReleaseExpired(E) PROVE UnpaidPendingHasDeadline'
    BY <1>6 DEF ReleaseExpired, UnpaidPendingHasDeadline, TypeOK
<1>7. ASSUME NEW d \in [Variants -> -MaxSupply..MaxSupply], AdjustStock(d)
      PROVE  UnpaidPendingHasDeadline'
    BY <1>7 DEF AdjustStock, UnpaidPendingHasDeadline
<1>8. CASE UNCHANGED vars
    BY <1>8 DEF UnpaidPendingHasDeadline, vars
<1> QED
    BY <1>1, <1>2, <1>3, <1>4, <1>5, <1>6, <1>7, <1>8 DEF Next

(* An unpaid pending order always carries a deadline.                         *)
THEOREM EveryClaimCanExpire == Spec => []UnpaidPendingHasDeadline
<1>1. Init => UnpaidPendingHasDeadline
    BY DEF Init, UnpaidPendingHasDeadline
<1> QED
    BY <1>1, DeadlinesAreKept, TypeCorrect, PTL DEF Spec

\* An order that is being paid for leaves the books only by its seller's act.
OnlyItsSeller(o) ==
    /\ status[o] \in Reserving \cup Fulfilled
    /\ payment[o] # "unpaid"
    /\ status'[o] \notin Reserving \cup Fulfilled
    => Cancel(o) \/ DeleteOrder(o)

LEMMA PayingIsSafe ==
    ASSUME TypeOK, Next, NEW o \in Orders
    PROVE  OnlyItsSeller(o)
<1> USE DEF OnlyItsSeller
<1>1. ASSUME NEW x \in Orders, NEW q \in Cart, NEW E \in SUBSET Expired,
             CreateOrder(x, q, E)
      PROVE  OnlyItsSeller(o)
    BY <1>1 DEF CreateOrder, Expired, TypeOK, Reserving, Fulfilled
<1>2. ASSUME NEW x \in Orders, Cancel(x) PROVE OnlyItsSeller(o)
    BY <1>2 DEF Cancel, TypeOK
<1>3. ASSUME NEW x \in Orders, DeleteOrder(x) PROVE OnlyItsSeller(o)
    BY <1>3 DEF DeleteOrder, TypeOK
<1>4. ASSUME NEW x \in Orders, NEW new \in Statuses,
             \/ Reopen(x, new) \/ Fulfil(x, new) \/ TakeBack(x, new) \/ Progress(x, new)
      PROVE  OnlyItsSeller(o)
  <2>1. SetStatus(x, new) /\ new \in Reserving \cup Fulfilled
      BY <1>4 DEF Reopen, Fulfil, TakeBack, Progress, Statuses
  <2> QED
      BY <2>1 DEF SetStatus, TypeOK
<1>5. ASSUME NEW x \in Orders,
             \/ CheckoutOpened(x) \/ PaymentReported(x)
             \/ ReceiptConfirmed(x) \/ DeadlinePasses(x)
      PROVE  OnlyItsSeller(o)
    BY <1>5 DEF CheckoutOpened, PaymentReported, ReceiptConfirmed, DeadlinePasses
<1>6. ASSUME NEW E \in SUBSET Expired, ReleaseExpired(E) PROVE OnlyItsSeller(o)
    BY <1>6 DEF ReleaseExpired, Expired, TypeOK
<1>7. ASSUME NEW d \in [Variants -> -MaxSupply..MaxSupply], AdjustStock(d)
      PROVE  OnlyItsSeller(o)
    BY <1>7 DEF AdjustStock
<1> QED
    BY <1>1, <1>2, <1>3, <1>4, <1>5, <1>6, <1>7 DEF Next

(* Nobody but the seller, acting on that very order, takes the stock away     *)
(* from an order somebody is paying for.                                      *)
THEOREM PayingOrderIsSafe == Spec => PayingOrderKeepsItsStock
<1>1. TypeOK /\ [Next]_vars => [\A o \in Orders : OnlyItsSeller(o)]_vars
    BY PayingIsSafe
<1> QED
    BY <1>1, TypeCorrect, PTL DEF Spec, PayingOrderKeepsItsStock, OnlyItsSeller
=============================================================================
