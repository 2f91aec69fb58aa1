--------------------------- MODULE StockTx_proofs ---------------------------
(* Proofs about StockTx for any number of requests in flight, any orders and  *)
(* any finite catalogue: the locks make every commit one step of OrderStock.  *)
EXTENDS StockTx, OrderStock_proofs, WellFoundedInduction

-----------------------------------------------------------------------------
(* The inductive invariant.                                                   *)

TxKinds == {"idle", "update", "delete", "release", "create", "adjust", "receive"}
Jobs    == [order : Orders, from : Statuses \cup {"unread", "absent"},
            to : Statuses \cup {"absent"}]

TxRecords ==
    [kind : TxKinds, cart : [Variants -> Int],
     jobs : SUBSET Jobs, done : SUBSET Jobs, now : Jobs \cup {None},
     locks : SUBSET Rows, moves : SUBSET Variants,
     stock : [Variants -> Nat], reserved : [Variants -> Nat],
     total : [Products -> Nat], writes : SUBSET Products, dirty : Products \cup {None}]

TxTyped ==
    /\ total \in [Products -> Nat]
    /\ owner \in [Rows -> Txs \cup {None}]
    /\ tx \in [Txs -> TxRecords]

JobsOf(t)  == tx[t].jobs \cup tx[t].done
Settles(t) == tx[t].kind \in {"update", "delete"}
Expires(t) == tx[t].kind \in {"release", "create"}

(* The status a job starts from is the committed one, and stays it: an        *)
(* existing order is locked, an order being made is nobody else's.            *)
JobHolds(t, job) ==
    \/ /\ job.from = "unread"
       /\ Settles(t)
       /\ tx[t].locks = {job.order} /\ tx[t].jobs = {job} /\ tx[t].done = {}
    \/ /\ job.from = "absent" /\ job.to = "pending"
       /\ tx[t].kind = "create"
       /\ status[job.order] = "absent"
    \/ /\ job.from = "pending" /\ job.to = "cancelled"
       /\ Expires(t)
       /\ owner[job.order] = t
       /\ job.order \in Expired
    \/ /\ job.from \in Statuses /\ job.from # job.to
       /\ Settles(t)
       /\ owner[job.order] = t
       /\ status[job.order] = job.from

JobsHold(t) ==
    /\ \A job \in JobsOf(t) : JobHolds(t, job)
    /\ tx[t].kind = "update" => \A job \in JobsOf(t) : job.to \in Statuses
    /\ tx[t].kind = "delete" => \A job \in JobsOf(t) : job.to = "absent"
    /\ Settles(t) => \A i, j \in JobsOf(t) : i = j
    /\ Settles(t) /\ tx[t].locks \cap Orders # {}
          => \A job \in JobsOf(t) : job.from = "unread"
    /\ tx[t].kind = "create" => tx[t].cart \in Cart /\ tx[t].cart # NoItems
    /\ tx[t].kind = "idle" => JobsOf(t) = {}

(* Jobs are begun one after the other, the new order's last.                  *)
JobsInTurn(t) ==
    /\ tx[t].locks \cap Orders # {} => tx[t].done = {}
    /\ tx[t].jobs \cap tx[t].done = {}
    /\ tx[t].done # {} => tx[t].now \in tx[t].done
    /\ tx[t].moves # {} => tx[t].done # {} \/ Supplies(t)
    /\ \A job \in tx[t].done : job # tx[t].now => job.from = "pending" /\ Expires(t)
    /\ \A job \in tx[t].done : job.from = "absent" => tx[t].jobs = {}

(* What is moved is locked, and an idle transaction holds nothing.            *)
LocksHold(t) ==
    /\ \A v \in tx[t].moves : v \in tx[t].locks \/ owner[v] = t
    /\ tx[t].kind = "idle" => /\ tx[t].locks = {} /\ tx[t].moves = {}
                              /\ \A r \in Rows : owner[r] # t

SuppliesHold(t) ==
    Supplies(t) => /\ JobsOf(t) = {} /\ tx[t].locks \cap Orders = {}
                   /\ tx[t].cart \in [Variants -> -1..1] /\ tx[t].cart # NoItems
                   /\ \A v \in Variants : tx[t].cart[v] # 0 /\ v \notin tx[t].moves
                        => /\ owner[v] = t
                           /\ supplied[v] + tx[t].cart[v] \in 0..MaxSupply

(* What a transaction has changed so far: the orders behind it were expired   *)
(* ones, and of the order it is at it has moved some of the items.            *)
Behind(t) == {job.order : job \in tx[t].done \ {tx[t].now}}
NotYet(t, v) == v \in tx[t].moves \/ (~Supplies(t) /\ tx[t].done = {})
ShelfDelta(t, v) ==
    Claimed(Behind(t), v, qty) + (IF NotYet(t, v) THEN 0 ELSE ShelfChange(t, v))
ReserveDelta(t, v) ==
    (IF NotYet(t, v) THEN 0 ELSE ReserveChange(t, v)) - Claimed(Behind(t), v, qty)

MemoryHolds(t) ==
    \A v \in Variants :
        /\ owner[v] = t => /\ tx[t].stock[v] = stock[v] + ShelfDelta(t, v)
                           /\ tx[t].reserved[v] = reserved[v] + ReserveDelta(t, v)
        /\ owner[v] # t => ShelfDelta(t, v) = 0 /\ ReserveDelta(t, v) = 0

TxHolds(t) ==
    /\ JobsHold(t)
    /\ JobsInTurn(t)
    /\ LocksHold(t)
    /\ SuppliesHold(t)
    /\ MemoryHolds(t)

NewOrdersDiffer ==
    \A t, u \in Txs : \A i \in JobsOf(t), j \in JobsOf(u) :
        i.from = "absent" /\ j.from = "absent" /\ t # u => i.order # j.order

AbsentIsUnpaid == \A o \in Orders : status[o] = "absent" => payment[o] = "unpaid"

TxIInv ==
    /\ IInv
    /\ AbsentIsUnpaid
    /\ TxTyped
    /\ \A t \in Txs : TxHolds(t)
    /\ NewOrdersDiffer

-----------------------------------------------------------------------------
(* What jobs and items are.                                                   *)

LEMMA TxFields ==
    ASSUME TxTyped, NEW t \in Txs
    PROVE  /\ tx[t] \in TxRecords
           /\ tx[t].kind \in TxKinds /\ tx[t].cart \in [Variants -> Int]
           /\ tx[t].jobs \subseteq Jobs /\ tx[t].done \subseteq Jobs
           /\ JobsOf(t) \subseteq Jobs
           /\ tx[t].locks \subseteq Rows /\ tx[t].moves \subseteq Variants
           /\ tx[t].stock \in [Variants -> Nat] /\ tx[t].reserved \in [Variants -> Nat]
           /\ tx[t].total \in [Products -> Nat] /\ tx[t].writes \subseteq Products
           /\ tx[t].dirty \in Products \cup {None}
BY DEF TxTyped, TxRecords, JobsOf

LEMMA JobFields ==
    ASSUME NEW job \in Jobs
    PROVE  /\ job.order \in Orders
           /\ job.from \in Statuses \cup {"unread", "absent"}
           /\ job.to \in Statuses \cup {"absent"}
BY DEF Jobs

LEMMA RowsDiffer ==
    /\ Orders \subseteq Rows /\ Products \subseteq Rows /\ Variants \subseteq Rows
    /\ Orders \cap Products = {} /\ Orders \cap Variants = {} /\ Products \cap Variants = {}
    /\ None \notin Txs /\ None \notin Rows
BY TablesAssumption, CatalogueAssumption DEF Rows

LEMMA ChangesAreSteps ==
    ASSUME NEW job \in Jobs
    PROVE  ToShelf(job) \in {-1, 0, 1} /\ ToReserve(job) \in {-1, 0, 1}
BY DEF ToShelf, ToReserve, OnShelf, InReserve

LEMMA Times ==
    ASSUME NEW n \in Int, NEW k \in {-1, 0, 1}
    PROVE  /\ n * k \in Int
           /\ k = 1 => n * k = n
           /\ k = 0 => n * k = 0
           /\ k = -1 => n * k = -n
           /\ n = 0 => n * k = 0
<1>1. CASE k = 1
    BY <1>1
<1>2. CASE k = 0
    BY <1>2
<1>3. CASE k = -1
    BY <1>3
<1> QED
    BY <1>1, <1>2, <1>3

(* A transaction that expires an order releases all its items.                *)
LEMMA ExpiredChange ==
    ASSUME TypeOK, TxTyped, NEW t \in Txs, NEW job \in Jobs, NEW v \in Variants,
           job.from = "pending", job.to = "cancelled"
    PROVE  /\ ItemsOf(t, job)[v] * ToShelf(job) = qty[job.order][v]
           /\ ItemsOf(t, job)[v] * ToReserve(job) = -qty[job.order][v]
<1>1. ToShelf(job) = 1 /\ ToReserve(job) = -1
    BY DEF ToShelf, ToReserve, OnShelf, InReserve, Reserving
<1>2. ItemsOf(t, job) = qty[job.order]
    BY DEF ItemsOf
<1>3. qty[job.order][v] \in Int
    BY JobFields, BoundsAssumption DEF TypeOK, Cart
<1> QED
    BY <1>1, <1>2, <1>3

LEMMA ItemsTyped ==
    ASSUME TypeOK, TxTyped, NEW t \in Txs, NEW job \in Jobs, NEW v \in Variants
    PROVE  /\ ItemsOf(t, job) \in [Variants -> Int]
           /\ ItemsOf(t, job)[v] * ToShelf(job) \in Int
           /\ ItemsOf(t, job)[v] * ToReserve(job) \in Int
<1>1. qty[job.order] \in [Variants -> Int]
    BY JobFields, BoundsAssumption DEF TypeOK, Cart
<1>2. ItemsOf(t, job) \in [Variants -> Int]
    BY <1>1, TxFields DEF ItemsOf
<1>3. ItemsOf(t, job)[v] \in Int
    BY <1>2
<1> QED
    BY <1>2, <1>3, ChangesAreSteps, Times

LEMMA BehindOrders ==
    ASSUME TxTyped, NEW t \in Txs
    PROVE  /\ Behind(t) \in SUBSET Orders
           /\ \A v \in Variants : Claimed(Behind(t), v, qty) \in Nat
<1>1. Behind(t) \in SUBSET Orders
    BY TxFields, JobFields DEF Behind
<1> QED
    BY <1>1, UnitsFinite

LEMMA ClaimedNothing ==
    ASSUME NEW v, NEW q
    PROVE  Claimed({}, v, q) = 0
<1>1. Units({}, v, q) = {}
    BY DEF Units
<1> QED
    BY <1>1, FS_EmptySet DEF Claimed

LEMMA DeltasTyped ==
    ASSUME TypeOK, TxTyped, NEW t \in Txs, JobsInTurn(t), NEW v \in Variants
    PROVE  ShelfDelta(t, v) \in Int /\ ReserveDelta(t, v) \in Int
<1>1. Claimed(Behind(t), v, qty) \in Int
    BY BehindOrders
<1>2. CASE NotYet(t, v)
    BY <1>1, <1>2 DEF ShelfDelta, ReserveDelta
<1>3. CASE ~NotYet(t, v) /\ Supplies(t)
  <2>1. tx[t].cart[v] \in Int
      BY TxFields
  <2> QED
      BY <1>1, <1>3, <2>1 DEF ShelfDelta, ReserveDelta, ShelfChange, ReserveChange
<1>4. CASE ~NotYet(t, v) /\ ~Supplies(t)
  <2>1. tx[t].now \in Jobs
      BY <1>4, TxFields DEF JobsInTurn, NotYet
  <2>2. ShelfChange(t, v) \in Int /\ ReserveChange(t, v) \in Int
      BY <1>4, <2>1, ItemsTyped DEF ShelfChange, ReserveChange
  <2> QED
      BY <1>1, <1>4, <2>2 DEF ShelfDelta, ReserveDelta
<1> QED
    BY <1>2, <1>3, <1>4

-----------------------------------------------------------------------------
(* The transactions that do not take the step.                                *)

LEMMA OthersHold ==
    ASSUME TypeOK, TxTyped, NEW u \in Txs, TxHolds(u), tx'[u] = tx[u],
           \A r \in Rows : owner'[r] = u <=> owner[r] = u,
           \A job \in JobsOf(u) : job.from # "unread" =>
                /\ status'[job.order] = status[job.order]
                /\ qty'[job.order] = qty[job.order]
                /\ owner[job.order] = u /\ job.order \in Expired
                       => payment'[job.order] = payment[job.order]
                          /\ deadline'[job.order] = deadline[job.order],
           \A v \in Variants : owner[v] = u => /\ stock'[v] = stock[v]
                                               /\ reserved'[v] = reserved[v]
                                               /\ supplied'[v] = supplied[v]
    PROVE  TxHolds(u)'
<1>1. JobsOf(u)' = JobsOf(u) /\ Supplies(u)' = Supplies(u)
      /\ Settles(u)' = Settles(u) /\ Expires(u)' = Expires(u) /\ Behind(u)' = Behind(u)
    BY DEF JobsOf, Supplies, Settles, Expires, Behind
<1>2. ASSUME NEW job \in JobsOf(u) PROVE JobHolds(u, job)'
  <2>1. job \in Jobs /\ job.order \in Orders /\ job.order \in Rows
      BY <1>2, TxFields, JobFields, RowsDiffer
  <2>2. JobHolds(u, job)
      BY DEF TxHolds, JobsHold
  <2>3. job.order \in Expired /\ owner[job.order] = u /\ job.from # "unread"
          => job.order \in Expired'
      BY <2>1 DEF Expired
  <2>4. CASE job.from = "unread"
      BY <1>1, <2>2, <2>4 DEF JobHolds, Statuses, Reserving, Fulfilled
  <2>5. CASE job.from # "unread"
    <3>1. status'[job.order] = status[job.order]
        BY <1>2, <2>5
    <3> QED
        BY <1>1, <2>1, <2>2, <2>3, <2>5, <3>1 DEF JobHolds
  <2> QED
      BY <2>4, <2>5
<1>3. JobsHold(u)'
    BY <1>1, <1>2 DEF TxHolds, JobsHold
<1>4. JobsInTurn(u)'
    BY <1>1 DEF TxHolds, JobsInTurn
<1>5. LocksHold(u)'
    BY RowsDiffer, TxFields DEF TxHolds, LocksHold
<1>6. SuppliesHold(u)'
    BY <1>1, RowsDiffer DEF TxHolds, SuppliesHold
<1>7. ASSUME NEW job \in tx[u].done PROVE qty'[job.order] = qty[job.order]
  <2>1. job \in JobsOf(u) /\ tx[u].done # {}
      BY DEF JobsOf
  <2>2. job.from # "unread"
      BY <2>1 DEF TxHolds, JobsHold, JobHolds, Statuses, Reserving, Fulfilled
  <2> QED
      BY <2>1, <2>2
<1>8. ASSUME NEW v \in Variants
      PROVE  ShelfDelta(u, v)' = ShelfDelta(u, v) /\ ReserveDelta(u, v)' = ReserveDelta(u, v)
  <2>1. \A o \in Behind(u) : qty'[o][v] = qty[o][v]
      BY <1>7 DEF Behind
  <2>2. Claimed(Behind(u), v, qty') = Claimed(Behind(u), v, qty)
    <3>1. Units(Behind(u), v, qty') = Units(Behind(u), v, qty)
        BY <2>1 DEF Units
    <3> QED
        BY <3>1 DEF Claimed
  <2>3. NotYet(u, v)' = NotYet(u, v)
      BY <1>1 DEF NotYet
  <2>4. CASE NotYet(u, v)
      BY <1>1, <2>2, <2>3, <2>4 DEF ShelfDelta, ReserveDelta
  <2>5. CASE ~NotYet(u, v)
    <3>1. ~Supplies(u) => qty'[tx[u].now.order] = qty[tx[u].now.order]
        BY <1>7, <2>5 DEF NotYet, TxHolds, JobsInTurn
    <3>2. ShelfChange(u, v)' = ShelfChange(u, v) /\ ReserveChange(u, v)' = ReserveChange(u, v)
        BY <1>1, <3>1 DEF ShelfChange, ReserveChange, ItemsOf
    <3> QED
        BY <1>1, <2>2, <2>3, <3>2 DEF ShelfDelta, ReserveDelta
  <2> QED
      BY <2>4, <2>5
<1>9. MemoryHolds(u)'
    BY <1>8, RowsDiffer DEF TxHolds, MemoryHolds
<1> QED
    BY <1>3, <1>4, <1>5, <1>6, <1>9 DEF TxHolds

(* A step that changes one transaction only, and commits nothing.             *)
LEMMA OneTransaction ==
    ASSUME TxIInv, NEW t \in Txs, NEW r \in TxRecords,
           tx' = [tx EXCEPT ![t] = r], UNCHANGED <<vars, total>>,
           owner' \in [Rows -> Txs \cup {None}],
           \A row \in Rows : owner'[row] \in {owner[row], t},
           \A row \in Rows : owner[row] \in {None, t} \/ owner'[row] = owner[row]
    PROVE  /\ TypeOK /\ TxTyped /\ TxHolds(t) /\ IInv' /\ AbsentIsUnpaid' /\ TxTyped'
           /\ tx'[t] = r
           /\ \A u \in Txs \ {t} : TxHolds(u)' /\ tx'[u] = tx[u]
<1>1. TypeOK /\ TxTyped /\ IInv /\ \A u \in Txs : TxHolds(u)
    BY DEF TxIInv, IInv
<1>2. /\ status' = status /\ payment' = payment /\ deadline' = deadline /\ qty' = qty
      /\ stock' = stock /\ reserved' = reserved /\ supplied' = supplied /\ total' = total
    BY DEF vars
<1>3. IInv' /\ AbsentIsUnpaid'
    BY <1>1, <1>2, NextIInv DEF vars, AbsentIsUnpaid, TxIInv
<1>4. TxTyped' /\ tx'[t] = r /\ \A u \in Txs \ {t} : tx'[u] = tx[u]
    BY <1>1, <1>2 DEF TxTyped
<1>5. ASSUME NEW u \in Txs \ {t} PROVE TxHolds(u)'
  <2>1. \A row \in Rows : owner'[row] = u <=> owner[row] = u
      BY RowsDiffer
  <2> QED
      BY <1>1, <1>2, <1>4, <2>1, OthersHold
<1> QED
    BY <1>1, <1>3, <1>4, <1>5

(* New orders stay different when no transaction takes on another one.        *)
LEMMA NewOrdersKept ==
    ASSUME TxIInv, NEW t \in Txs,
           \A u \in Txs \ {t} : tx'[u] = tx[u],
           \A job \in JobsOf(t)' : job.from = "absent" =>
              \/ job \in JobsOf(t)
              \/ \A u \in Txs : \A j \in JobsOf(u) : j.order # job.order
    PROVE  NewOrdersDiffer'
<1>1. \A u \in Txs \ {t} : JobsOf(u)' = JobsOf(u)
    BY DEF JobsOf
<1> HIDE DEF JobsOf
<1> QED
    BY <1>1 DEF TxIInv, NewOrdersDiffer

LEMMA BeginHolds ==
    ASSUME TxIInv, NEW t \in Txs, NEW r \in TxRecords, Begin(t, r),
           r.kind # "idle", r.done = {}, r.moves \subseteq r.locks,
           r.moves # {} => r.kind \in {"adjust", "receive"},
           \A job \in r.jobs : job.from = "absent" =>
               \A u \in Txs : \A j \in JobsOf(u) : j.order # job.order,
           tx'[t] = r => JobsHold(t)' /\ SuppliesHold(t)'
    PROVE  TxIInv'
<1>1. tx' = [tx EXCEPT ![t] = r] /\ UNCHANGED <<vars, total, owner>> /\ tx[t].kind = "idle"
    BY DEF Begin
<1>2. owner \in [Rows -> Txs \cup {None}]
    BY DEF TxIInv, TxTyped
<1>3. /\ TypeOK /\ TxTyped /\ TxHolds(t) /\ IInv' /\ AbsentIsUnpaid' /\ TxTyped'
      /\ tx'[t] = r
      /\ \A u \in Txs \ {t} : TxHolds(u)' /\ tx'[u] = tx[u]
    BY <1>1, <1>2, OneTransaction
<1>4. JobsHold(t)' /\ SuppliesHold(t)'
    BY <1>3
<1>5. \A row \in Rows : owner'[row] # t
    BY <1>1, <1>3 DEF TxHolds, LocksHold
<1>6. JobsInTurn(t)'
    BY <1>3 DEF JobsInTurn, Supplies
<1>7. LocksHold(t)'
    BY <1>3 DEF LocksHold
<1>8. ASSUME NEW v \in Variants
      PROVE  ShelfDelta(t, v)' = 0 /\ ReserveDelta(t, v)' = 0
  <2>1. Behind(t)' = {}
      BY <1>3 DEF Behind
  <2>2. Claimed(Behind(t), v, qty)' = 0
      BY <2>1, ClaimedNothing
  <2>3. ~NotYet(t, v)' => Supplies(t)' /\ tx'[t].cart[v] = 0
      BY <1>3, <1>4, <1>5, RowsDiffer DEF NotYet, SuppliesHold
  <2> QED
      BY <2>2, <2>3 DEF ShelfDelta, ReserveDelta, ShelfChange, ReserveChange
<1>9. MemoryHolds(t)'
    BY <1>5, <1>8, RowsDiffer DEF MemoryHolds
<1>10. NewOrdersDiffer'
    BY <1>3, NewOrdersKept DEF JobsOf
<1> QED
    BY <1>3, <1>4, <1>6, <1>7, <1>9, <1>10 DEF TxIInv, TxHolds

LEMMA IdleTyped ==
    /\ Idle \in TxRecords
    /\ NoItems \in [Variants -> -1..1] /\ NoItems \in [Variants -> Int]
    /\ Expired \subseteq Orders
<1>1. NoItems \in [Variants -> -1..1] /\ NoItems \in [Variants -> Int]
      /\ NoItems \in [Variants -> Nat]
    BY DEF NoItems
<1>2. [p \in Products |-> 0] \in [Products -> Nat]
    OBVIOUS
<1>3. Expired \subseteq Orders
    BY DEF Expired
<1> QED
    BY <1>1, <1>2, <1>3 DEF Idle, TxRecords, TxKinds

LEMMA BeginSettling ==
    ASSUME TxIInv, NEW t \in Txs, NEW o \in Orders, NEW kind \in {"update", "delete"},
           NEW new \in Statuses \cup {"absent"},
           kind = "update" => new \in Statuses, kind = "delete" => new = "absent",
           Begin(t, [Idle EXCEPT !.kind = kind, !.locks = {o},
                          !.jobs = {[order |-> o, from |-> "unread", to |-> new]}])
    PROVE  TxIInv'
<1> DEFINE job == [order |-> o, from |-> "unread", to |-> new]
           r   == [Idle EXCEPT !.kind = kind, !.locks = {o}, !.jobs = {job}]
<1>1. job \in Jobs
    BY DEF Jobs
<1>2. job.from = "unread" /\ job.order = o /\ job.to = new
    OBVIOUS
<1> HIDE DEF job
<1>3. r \in TxRecords /\ r.kind = kind /\ r.locks = {o} /\ r.jobs = {job} /\ r.done = {}
      /\ r.moves = {}
  <2>1. kind \in TxKinds /\ {o} \in SUBSET Rows /\ {job} \in SUBSET Jobs
      BY <1>1, RowsDiffer DEF TxKinds
  <2>2. r \in TxRecords
      BY <2>1, IdleTyped DEF TxRecords
  <2> QED
      BY <2>2, IdleTyped DEF TxRecords, Idle
<1> HIDE DEF r
<1>4. ASSUME tx'[t] = r PROVE JobsHold(t)' /\ SuppliesHold(t)'
  <2>1. JobsOf(t)' = {job} /\ Settles(t)' /\ ~Supplies(t)' /\ tx'[t].kind = kind
      BY <1>3, <1>4 DEF JobsOf, Settles, Supplies
  <2>2. JobHolds(t, job)'
      BY <1>2, <1>3, <1>4, <2>1 DEF JobHolds
  <2> QED
      BY <1>2, <2>1, <2>2 DEF JobsHold, SuppliesHold
<1>5. Begin(t, r)
    BY DEF r, job
<1> QED
    BY <1>2, <1>3, <1>4, <1>5, BeginHolds

LEMMA BeginReleaseHolds ==
    ASSUME TxIInv, NEW t \in Txs, BeginRelease(t)
    PROVE  TxIInv'
<1> DEFINE r == [Idle EXCEPT !.kind = "release", !.locks = Expired]
<1>1. r \in TxRecords /\ r.kind = "release" /\ r.locks = Expired /\ r.jobs = {} /\ r.done = {}
      /\ r.moves = {}
    BY IdleTyped, RowsDiffer DEF TxRecords, TxKinds, Idle
<1> HIDE DEF r
<1>2. ASSUME tx'[t] = r PROVE JobsHold(t)' /\ SuppliesHold(t)'
    BY <1>1, <1>2 DEF JobsHold, JobsOf, Settles, SuppliesHold, Supplies
<1>3. Begin(t, r)
    BY DEF r, BeginRelease
<1> QED
    BY <1>1, <1>2, <1>3, BeginHolds

LEMMA BeginCreateHolds ==
    ASSUME TxIInv, NEW t \in Txs, NEW o \in Orders, NEW q \in Cart, BeginCreate(t, o, q)
    PROVE  TxIInv'
<1> DEFINE job == [order |-> o, from |-> "absent", to |-> "pending"]
           r   == [Idle EXCEPT !.kind = "create", !.cart = q, !.locks = Expired, !.jobs = {job}]
<1>1. job \in Jobs
    BY DEF Jobs, Statuses, Reserving
<1>2. q \in [Variants -> Int]
    BY BoundsAssumption DEF Cart
<1>3. r \in TxRecords /\ r.kind = "create" /\ r.locks = Expired /\ r.jobs = {job}
      /\ r.done = {} /\ r.moves = {} /\ r.cart = q
  <2>1. PICK free : free = Idle
      OBVIOUS
  <2>2. free \in TxRecords /\ free.done = {} /\ free.moves = {}
      BY <2>1, IdleTyped DEF Idle
  <2>3. "create" \in TxKinds /\ Expired \in SUBSET Rows /\ {job} \in SUBSET Jobs
      BY <1>1, IdleTyped, RowsDiffer DEF TxKinds
  <2>4. r = [free EXCEPT !.kind = "create", !.cart = q, !.locks = Expired, !.jobs = {job}]
      BY <2>1
  <2> HIDE DEF job, r
  <2> QED
      BY <1>2, <2>2, <2>3, <2>4 DEF TxRecords
<1>4. job.from = "absent" /\ job.order = o /\ job.to = "pending"
    OBVIOUS
<1> HIDE DEF job
<1>5. Begin(t, r) /\ q # NoItems /\ status[o] = "absent"
      /\ \A u \in Txs : \A j \in JobsOf(u) : j.order # o
    BY DEF BeginCreate, job, JobsOf
<1> HIDE DEF r
<1>6. status' = status
    BY <1>5 DEF Begin, vars
<1>7. ASSUME tx'[t] = r PROVE JobsHold(t)' /\ SuppliesHold(t)'
  <2>1. JobsOf(t)' = {job} /\ ~Settles(t)' /\ ~Supplies(t)' /\ tx'[t].kind = "create"
      BY <1>3, <1>7 DEF JobsOf, Settles, Supplies
  <2>2. JobHolds(t, job)'
      BY <1>4, <1>5, <1>6, <2>1 DEF JobHolds
  <2> QED
      BY <1>3, <1>5, <1>7, <2>1, <2>2 DEF JobsHold, SuppliesHold
<1> QED
    BY <1>3, <1>4, <1>5, <1>7, BeginHolds

(* A supply request changes one variant, which it locks.                      *)
LEMMA BeginSupplying ==
    ASSUME TxIInv, NEW t \in Txs, NEW v \in Variants, NEW kind \in {"adjust", "receive"},
           NEW d \in {-1, 1}, NEW rows \in SUBSET (Products \cup Variants), v \in rows,
           Begin(t, [Idle EXCEPT !.kind = kind, !.cart = [NoItems EXCEPT ![v] = d],
                                 !.locks = rows, !.moves = {v}])
    PROVE  TxIInv'
<1> DEFINE cart == [NoItems EXCEPT ![v] = d]
           r    == [Idle EXCEPT !.kind = kind, !.cart = cart, !.locks = rows, !.moves = {v}]
<1>1. cart \in [Variants -> -1..1] /\ cart # NoItems /\ cart \in [Variants -> Int]
      /\ \A w \in Variants \ {v} : cart[w] = 0
    BY DEF NoItems
<1> HIDE DEF cart
<1>2. r \in TxRecords /\ r.kind = kind /\ r.locks = rows /\ r.jobs = {}
      /\ r.done = {} /\ r.moves = {v} /\ r.cart = cart
  <2>1. PICK free : free = Idle
      OBVIOUS
  <2>2. free \in TxRecords /\ free.done = {} /\ free.jobs = {}
      BY <2>1, IdleTyped DEF Idle
  <2>3. kind \in TxKinds /\ rows \in SUBSET Rows /\ {v} \in SUBSET Variants
      BY RowsDiffer DEF TxKinds
  <2>4. r = [free EXCEPT !.kind = kind, !.cart = cart, !.locks = rows, !.moves = {v}]
      BY <2>1
  <2> HIDE DEF r
  <2> QED
      BY <1>1, <2>2, <2>3, <2>4 DEF TxRecords
<1> HIDE DEF r
<1>3. ASSUME tx'[t] = r PROVE JobsHold(t)' /\ SuppliesHold(t)'
  <2>1. JobsOf(t)' = {} /\ ~Settles(t)' /\ Supplies(t)' /\ tx'[t].kind = kind
      BY <1>2, <1>3 DEF JobsOf, Settles, Supplies
  <2>2. tx'[t].locks \cap Orders = {}
      BY <1>2, <1>3, RowsDiffer
  <2> QED
      BY <1>1, <1>2, <1>3, <2>1, <2>2 DEF JobsHold, SuppliesHold
<1>4. Begin(t, r)
    BY DEF r, cart
<1> QED
    BY <1>2, <1>3, <1>4, BeginHolds

LEMMA BeginsHold ==
    ASSUME TxIInv, NEW t \in Txs,
           \/ \E o \in Orders, new \in NewStatuses : BeginUpdate(t, o, new)
           \/ \E o \in Orders : BeginDelete(t, o)
           \/ BeginRelease(t)
           \/ \E o \in Orders, q \in Cart : BeginCreate(t, o, q)
           \/ \E v \in Variants, d \in {-1, 1} : BeginAdjust(t, v, d)
           \/ \E v \in Variants : BeginReceive(t, v)
    PROVE  TxIInv'
<1>1. ASSUME NEW o \in Orders, NEW new \in NewStatuses, BeginUpdate(t, o, new)
      PROVE  TxIInv'
  <2>1. new \in Statuses /\ "update" \in {"update", "delete"} /\ "update" # "delete"
      BY CatalogueAssumption
  <2> QED
      BY <1>1, <2>1, BeginSettling DEF BeginUpdate
<1>2. ASSUME NEW o \in Orders, BeginDelete(t, o) PROVE TxIInv'
  <2>1. "absent" \in Statuses \cup {"absent"} /\ "delete" \in {"update", "delete"}
      OBVIOUS
  <2> QED
      BY <1>2, <2>1, BeginSettling DEF BeginDelete
<1>3. ASSUME NEW v \in Variants, NEW d \in {-1, 1}, BeginAdjust(t, v, d) PROVE TxIInv'
  <2>1. /\ ProductsFirst({v}) \in SUBSET (Products \cup Variants)
        /\ v \in ProductsFirst({v})
      BY CatalogueAssumption DEF ProductsFirst
  <2>2. "adjust" \in {"adjust", "receive"}
      OBVIOUS
  <2> QED
      BY <1>3, <2>1, <2>2, BeginSupplying DEF BeginAdjust
<1>4. ASSUME NEW v \in Variants, BeginReceive(t, v) PROVE TxIInv'
  <2>1. {v} \in SUBSET (Products \cup Variants) /\ v \in {v} /\ 1 \in {-1, 1}
        /\ "receive" \in {"adjust", "receive"}
      OBVIOUS
  <2> QED
      BY <1>4, <2>1, BeginSupplying DEF BeginReceive
<1> QED
    BY <1>1, <1>2, <1>3, <1>4, BeginReleaseHolds, BeginCreateHolds

-----------------------------------------------------------------------------
(* Taking locks.                                                              *)

(* What a transaction has changed depends on no lock and no waiting job.      *)
LEMMA DeltasKept ==
    ASSUME NEW t \in Txs, qty' = qty,
           tx'[t].kind = tx[t].kind, tx'[t].cart = tx[t].cart, tx'[t].done = tx[t].done,
           tx'[t].now = tx[t].now, tx'[t].moves = tx[t].moves
    PROVE  \A v \in Variants : /\ ShelfDelta(t, v)' = ShelfDelta(t, v)
                               /\ ReserveDelta(t, v)' = ReserveDelta(t, v)
<1> TAKE v \in Variants
<1>1. Behind(t)' = Behind(t) /\ NotYet(t, v)' = NotYet(t, v)
    BY DEF Behind, NotYet, Supplies
<1>2. ShelfChange(t, v)' = ShelfChange(t, v) /\ ReserveChange(t, v)' = ReserveChange(t, v)
    BY DEF ShelfChange, ReserveChange, Supplies, ItemsOf
<1>3. Claimed(Behind(t), v, qty)' = Claimed(Behind(t), v, qty)
    BY <1>1 DEF Claimed, Units
<1> QED
    BY <1>1, <1>2, <1>3 DEF ShelfDelta, ReserveDelta

(* A lock changes the rows to lock, the jobs, and what is in memory of a row  *)
(* that was not yet held.                                                     *)
Relocked(t, row, r) ==
    /\ r.kind = tx[t].kind /\ r.cart = tx[t].cart /\ r.done = tx[t].done
    /\ r.now = tx[t].now /\ r.moves = tx[t].moves /\ r.locks = tx[t].locks \ {row}
    /\ \A v \in Variants : IF v = row /\ owner[v] # t
                           THEN r.stock[v] = stock[v] /\ r.reserved[v] = reserved[v]
                           ELSE r.stock[v] = tx[t].stock[v]
                                /\ r.reserved[v] = tx[t].reserved[v]
    /\ \A job \in r.jobs : job.from = "absent" => job \in tx[t].jobs
    /\ row \notin Orders => r.jobs = tx[t].jobs

LEMMA LockingHolds ==
    ASSUME TxIInv, NEW t \in Txs, NEW row \in Rows, Locking(t, row),
           NEW r \in TxRecords, tx' = [tx EXCEPT ![t] = r], Relocked(t, row, r),
           tx'[t] = r /\ owner'[row] = t => JobsHold(t)'
    PROVE  TxIInv'
<1> USE DEF Relocked
<1>1. row \in tx[t].locks /\ Free(t, row) /\ owner' = [owner EXCEPT ![row] = t]
      /\ UNCHANGED <<vars, total>>
    BY DEF Locking, NextLocks
<1>2. TxTyped /\ TypeOK /\ TxHolds(t)
    BY DEF TxIInv, IInv
<1>3. row \in Rows /\ owner[row] \in {None, t} /\ owner \in [Rows -> Txs \cup {None}]
    BY <1>1, <1>2, TxFields, RowsDiffer DEF Free, TxTyped
<1>4. /\ owner' \in [Rows -> Txs \cup {None}]
      /\ \A x \in Rows : owner'[x] \in {owner[x], t}
      /\ \A x \in Rows : owner[x] \in {None, t} \/ owner'[x] = owner[x]
      /\ owner'[row] = t /\ \A x \in Rows \ {row} : owner'[x] = owner[x]
    BY <1>1, <1>3
<1>5. /\ IInv' /\ AbsentIsUnpaid' /\ TxTyped' /\ tx'[t] = r
      /\ \A u \in Txs \ {t} : TxHolds(u)' /\ tx'[u] = tx[u]
    BY <1>1, <1>4, OneTransaction
<1>6. /\ stock' = stock /\ reserved' = reserved /\ supplied' = supplied /\ qty' = qty
    BY <1>1 DEF vars
<1>7. JobsHold(t)'
    BY <1>4, <1>5
<1>8. JobsInTurn(t)'
  <2>1. CASE row \in Orders
    <3>1. tx[t].done = {} /\ (tx[t].moves # {} => Supplies(t)')
        BY <1>1, <1>2, <1>5, <2>1 DEF TxHolds, JobsInTurn, Supplies
    <3> QED
        BY <1>5, <3>1 DEF JobsInTurn
  <2>2. CASE row \notin Orders
    <3>1. r.jobs = tx[t].jobs
        BY <2>2
    <3>2. Expires(t)' = Expires(t) /\ Supplies(t)' = Supplies(t)
        BY <1>5 DEF Expires, Supplies
    <3> QED
        BY <1>2, <1>5, <3>1, <3>2 DEF TxHolds, JobsInTurn
  <2> QED
      BY <2>1, <2>2
<1>9. tx[t].kind # "idle"
    BY <1>1, <1>2 DEF TxHolds, LocksHold
<1>10. LocksHold(t)'
    BY <1>2, <1>4, <1>5, <1>9, TxFields, RowsDiffer DEF TxHolds, LocksHold
<1>11. SuppliesHold(t)'
  <2>1. CASE Supplies(t)
    <3>1. row \notin Orders
        BY <1>1, <1>2, <2>1 DEF TxHolds, SuppliesHold
    <3>2. JobsOf(t)' = JobsOf(t) /\ Supplies(t)'
        BY <1>5, <2>1, <3>1 DEF JobsOf, Supplies
    <3> QED
        BY <1>2, <1>4, <1>5, <1>6, <2>1, <3>2, RowsDiffer DEF TxHolds, SuppliesHold
  <2>2. CASE ~Supplies(t)
      BY <1>5, <2>2 DEF SuppliesHold, Supplies
  <2> QED
      BY <2>1, <2>2
<1>12. \A v \in Variants : ShelfDelta(t, v)' = ShelfDelta(t, v)
                           /\ ReserveDelta(t, v)' = ReserveDelta(t, v)
    BY <1>5, <1>6, DeltasKept
<1>13. MemoryHolds(t)'
  <2> SUFFICES ASSUME NEW v \in Variants
               PROVE  /\ owner'[v] = t => /\ r.stock[v] = stock[v] + ShelfDelta(t, v)
                                          /\ r.reserved[v] = reserved[v] + ReserveDelta(t, v)
                      /\ owner'[v] # t => ShelfDelta(t, v) = 0 /\ ReserveDelta(t, v) = 0
      BY <1>5, <1>6, <1>12 DEF MemoryHolds
  <2>1. v \in Rows /\ stock[v] \in Nat /\ reserved[v] \in Nat
      BY <1>2, RowsDiffer DEF TypeOK
  <2>2. /\ owner[v] = t => /\ tx[t].stock[v] = stock[v] + ShelfDelta(t, v)
                           /\ tx[t].reserved[v] = reserved[v] + ReserveDelta(t, v)
        /\ owner[v] # t => ShelfDelta(t, v) = 0 /\ ReserveDelta(t, v) = 0
      BY <1>2 DEF TxHolds, MemoryHolds
  <2> QED
      BY <1>4, <2>1, <2>2
<1>14. NewOrdersDiffer'
  <2>1. \A job \in JobsOf(t)' : job.from = "absent" => job \in JobsOf(t)
      BY <1>5 DEF JobsOf
  <2> QED
      BY <1>5, <2>1, NewOrdersKept
<1> QED
    BY <1>5, <1>7, <1>8, <1>10, <1>11, <1>13, <1>14 DEF TxIInv, TxHolds

LEMMA LockOrderHolds ==
    ASSUME TxIInv, NEW t \in Txs, NEW o \in Orders, LockOrder(t, o)
    PROVE  TxIInv'
<1> DEFINE asked == {job \in tx[t].jobs : status[o] \notin {"absent", job.to}}
           jobs  == {[job EXCEPT !.from = status[o]] : job \in asked}
           r     == [tx[t] EXCEPT !.locks = @ \ {o}, !.jobs = jobs]
<1>1. TxTyped /\ TypeOK /\ TxHolds(t)
    BY DEF TxIInv, IInv
<1>2. /\ tx[t].kind \in {"update", "delete"} /\ Locking(t, o) /\ o \in tx[t].locks
      /\ o \notin Variants /\ o \in Rows /\ status' = status
    BY RowsDiffer DEF LockOrder, Locking, NextLocks, vars
<1>3. status[o] \in Statuses \cup {"absent"}
    BY <1>1 DEF TypeOK
<1>4. \A job \in tx[t].jobs : job \in Jobs /\ job.order \in Orders
    BY <1>1, TxFields, JobFields
<1>5. tx[t].done = {}
    BY <1>1, <1>2 DEF TxHolds, JobsInTurn
<1>6. ASSUME NEW job \in tx[t].jobs
      PROVE  job.from = "unread" /\ tx[t].locks = {o} /\ tx[t].jobs = {job} /\ job.order = o
  <2>1. job \in JobsOf(t) /\ Settles(t) /\ JobHolds(t, job) /\ o \in tx[t].locks \cap Orders
      BY <1>1, <1>2 DEF JobsOf, Settles, TxHolds, JobsHold
  <2>2. job.from = "unread"
      BY <1>1, <2>1 DEF TxHolds, JobsHold
  <2>3. tx[t].locks = {job.order} /\ tx[t].jobs = {job}
      BY <2>1, <2>2 DEF JobHolds, Statuses, Reserving, Fulfilled
  <2> QED
      BY <1>2, <2>2, <2>3
<1>7. ASSUME NEW j \in jobs
      PROVE  /\ j \in Jobs /\ j.from = status[o] /\ j.from \in Statuses /\ j.order = o
             /\ j.from # j.to
             /\ \E job \in tx[t].jobs : j.to = job.to /\ j = [job EXCEPT !.from = status[o]]
  <2>1. PICK job \in asked : j = [job EXCEPT !.from = status[o]]
      OBVIOUS
  <2>2. job \in tx[t].jobs /\ status[o] \in Statuses /\ status[o] # job.to
      BY <1>3
  <2>3. job.order = o /\ job \in Jobs
      BY <1>4, <1>6, <2>2
  <2> QED
      BY <2>1, <2>2, <2>3 DEF Jobs
<1>8. r \in TxRecords /\ r.kind = tx[t].kind /\ r.locks = tx[t].locks \ {o} /\ r.jobs = jobs
      /\ r.done = tx[t].done /\ r.now = tx[t].now /\ r.moves = tx[t].moves
      /\ r.cart = tx[t].cart /\ r.stock = tx[t].stock /\ r.reserved = tx[t].reserved
  <2>1. jobs \in SUBSET Jobs
      BY <1>7
  <2>2. tx[t] \in TxRecords
      BY <1>1, TxFields
  <2> HIDE DEF jobs
  <2> QED
      BY <2>1, <2>2 DEF TxRecords
<1>9. tx' = [tx EXCEPT ![t] = r]
    BY DEF LockOrder
<1>10. \A i, j \in jobs : i = j
  <2> SUFFICES ASSUME NEW i \in jobs, NEW j \in jobs PROVE i = j
      OBVIOUS
  <2>1. PICK a \in tx[t].jobs : i = [a EXCEPT !.from = status[o]]
      OBVIOUS
  <2>2. PICK b \in tx[t].jobs : j = [b EXCEPT !.from = status[o]]
      OBVIOUS
  <2>3. a = b
      BY <1>6
  <2> QED
      BY <2>1, <2>2, <2>3
<1>11. \A job \in tx[t].jobs : job \in JobsOf(t)
    BY DEF JobsOf
<1> HIDE DEF jobs, r
<1>12. ASSUME tx'[t] = r, owner'[o] = t PROVE JobsHold(t)'
  <2>1. JobsOf(t)' = jobs /\ Settles(t)' /\ tx'[t].kind = tx[t].kind
      BY <1>2, <1>5, <1>8, <1>12 DEF JobsOf, Settles
  <2>2. ASSUME NEW j \in jobs PROVE JobHolds(t, j)'
    <3>1. status'[j.order] = j.from /\ owner'[j.order] = t
        BY <1>2, <1>7, <1>12
    <3> QED
        BY <1>7, <2>1, <3>1 DEF JobHolds
  <2>3. ASSUME NEW j \in jobs
        PROVE  /\ tx[t].kind = "update" => j.to \in Statuses
               /\ tx[t].kind = "delete" => j.to = "absent"
      BY <1>1, <1>7, <1>11 DEF TxHolds, JobsHold
  <2>4. jobs # {} => tx'[t].locks = {}
    <3> SUFFICES ASSUME jobs # {} PROVE tx'[t].locks = {}
        OBVIOUS
    <3>1. tx[t].locks = {o}
        BY <1>6, <1>7
    <3> QED
        BY <1>8, <1>12, <3>1
  <2> QED
      BY <1>2, <1>10, <2>1, <2>2, <2>3, <2>4 DEF JobsHold
<1>13. \A j \in jobs : j.from # "absent"
    BY <1>7 DEF Statuses, Reserving, Fulfilled
<1> QED
  <2>1. Relocked(t, o, r)
      BY <1>2, <1>8, <1>13 DEF Relocked
  <2> QED
      BY <1>2, <1>8, <1>9, <1>12, <2>1, LockingHolds

LEMMA LockExpiredHolds ==
    ASSUME TxIInv, NEW t \in Txs, NEW o \in Orders, LockExpired(t, o)
    PROVE  TxIInv'
<1> DEFINE job == [order |-> o, from |-> "pending", to |-> "cancelled"]
           jobs == IF StillExpired(o) THEN tx[t].jobs \cup {job} ELSE tx[t].jobs
           r    == [tx[t] EXCEPT !.locks = @ \ {o}, !.jobs = jobs]
<1>1. TxTyped /\ TypeOK /\ TxHolds(t)
    BY DEF TxIInv, IInv
<1>2. /\ tx[t].kind \in {"release", "create"} /\ Locking(t, o) /\ o \in tx[t].locks
      /\ o \notin Variants /\ o \in Rows
      /\ owner' = [owner EXCEPT ![o] = t] /\ UNCHANGED <<vars, total>>
    BY RowsDiffer DEF LockExpired, Locking, NextLocks
<1>3. job \in Jobs
    BY DEF Jobs, Statuses, Reserving
<1>4. job.from = "pending" /\ job.to = "cancelled" /\ job.order = o
    OBVIOUS
<1>5. tx' = [tx EXCEPT ![t] = r]
    BY DEF LockExpired
<1> HIDE DEF job
<1>6. jobs \in SUBSET Jobs /\ tx[t] \in TxRecords
    BY <1>1, <1>3, TxFields
<1>7. \A j \in jobs : j \in tx[t].jobs \/ (j = job /\ o \in Expired)
    BY DEF StillExpired
<1> HIDE DEF jobs
<1>8. r \in TxRecords /\ r.kind = tx[t].kind /\ r.locks = tx[t].locks \ {o} /\ r.jobs = jobs
      /\ r.done = tx[t].done /\ r.now = tx[t].now /\ r.moves = tx[t].moves
      /\ r.cart = tx[t].cart /\ r.stock = tx[t].stock /\ r.reserved = tx[t].reserved
    BY <1>6 DEF TxRecords
<1>9. Expired' = Expired
    BY <1>2 DEF Expired, vars
<1>10. owner \in [Rows -> Txs \cup {None}] /\ \A x \in Rows : owner[x] = t => owner'[x] = t
    BY <1>1, <1>2 DEF TxTyped
<1>11. \A j \in JobsOf(t) : j.order \in Rows /\ JobHolds(t, j) /\ ~Settles(t)
    BY <1>1, <1>2, TxFields, JobFields, RowsDiffer DEF TxHolds, JobsHold, Settles
<1>12. tx[t].done = {} /\ o \in Rows /\ status' = status /\ ~Settles(t)
    BY <1>1, <1>2, RowsDiffer DEF TxHolds, JobsInTurn, vars, Settles
<1> HIDE DEF r
<1>13. ASSUME tx'[t] = r, owner'[o] = t PROVE JobsHold(t)'
  <2>1. JobsOf(t)' = jobs /\ ~Settles(t)' /\ Expires(t)' /\ tx'[t].kind = tx[t].kind
      BY <1>2, <1>8, <1>12, <1>13 DEF JobsOf, Settles, Expires
  <2>2. ASSUME NEW j \in jobs PROVE JobHolds(t, j)'
    <3>1. CASE j \in JobsOf(t)
        BY <1>9, <1>10, <1>11, <1>12, <2>1, <3>1 DEF JobHolds
    <3>2. CASE j = job /\ o \in Expired
        BY <1>4, <1>9, <1>13, <2>1, <3>2 DEF JobHolds
    <3> QED
        BY <1>7, <3>1, <3>2 DEF JobsOf
  <2>3. tx[t].kind = "create" => tx[t].cart \in Cart /\ tx[t].cart # NoItems
      BY <1>1 DEF TxHolds, JobsHold
  <2> QED
      BY <1>2, <1>8, <1>13, <2>1, <2>2, <2>3 DEF JobsHold
<1>14. \A j \in jobs : j.from = "absent" => j \in tx[t].jobs
    BY <1>4, <1>7
<1> QED
  <2>1. Relocked(t, o, r)
      BY <1>2, <1>8, <1>14 DEF Relocked
  <2> QED
      BY <1>2, <1>5, <1>8, <1>13, <2>1, LockingHolds

(* Jobs are not changed by the lock of a variant or a product.                *)
LEMMA JobsKept ==
    ASSUME TxIInv, NEW t \in Txs, NEW row \in Rows \ Orders, Locking(t, row),
           tx'[t].kind = tx[t].kind, tx'[t].cart = tx[t].cart, tx'[t].jobs = tx[t].jobs,
           tx'[t].done = tx[t].done, tx'[t].locks = tx[t].locks \ {row}
    PROVE  JobsHold(t)'
<1>1. TxTyped /\ TxHolds(t)
    BY DEF TxIInv
<1>2. JobsOf(t)' = JobsOf(t) /\ Settles(t)' = Settles(t) /\ Expires(t)' = Expires(t)
    BY DEF JobsOf, Settles, Expires
<1>3. Expired' = Expired /\ status' = status /\ owner' = [owner EXCEPT ![row] = t]
      /\ row \in tx[t].locks
    BY DEF Expired, vars, Locking, NextLocks
<1>4. \A o \in Orders : owner'[o] = owner[o]
    BY <1>1, <1>3, RowsDiffer DEF TxTyped
<1>5. ASSUME NEW job \in JobsOf(t) PROVE JobHolds(t, job)'
  <2>1. JobHolds(t, job) /\ job.order \in Orders
      BY <1>1, TxFields, JobFields DEF TxHolds, JobsHold
  <2>2. tx[t].locks # {job.order}
      BY <1>3, <2>1
  <2> QED
      BY <1>2, <1>3, <1>4, <2>1, <2>2 DEF JobHolds
<1> QED
    BY <1>1, <1>2, <1>5 DEF TxHolds, JobsHold

LEMMA LockVariantHolds ==
    ASSUME TxIInv, NEW t \in Txs, NEW v \in Variants, LockVariant(t, v)
    PROVE  TxIInv'
<1> DEFINE onShelf == IF owner[v] = t THEN tx[t].stock[v] ELSE stock[v]
           held    == IF owner[v] = t THEN tx[t].reserved[v] ELSE reserved[v]
           r       == [tx[t] EXCEPT !.locks = @ \ {v}, !.stock[v] = onShelf,
                                    !.reserved[v] = held]
<1>1. TxTyped /\ TypeOK
    BY DEF TxIInv, IInv
<1>2. Locking(t, v) /\ v \in Rows \ Orders /\ tx' = [tx EXCEPT ![t] = r]
    BY RowsDiffer DEF LockVariant
<1>3. onShelf \in Nat /\ held \in Nat /\ tx[t] \in TxRecords
      /\ tx[t].stock \in [Variants -> Nat] /\ tx[t].reserved \in [Variants -> Nat]
    BY <1>1, TxFields DEF TypeOK
<1>4. \A w \in Variants : IF w = v /\ owner[w] # t
                          THEN onShelf = stock[w] /\ held = reserved[w]
                          ELSE w = v => onShelf = tx[t].stock[w] /\ held = tx[t].reserved[w]
    OBVIOUS
<1> HIDE DEF onShelf, held
<1>5. r \in TxRecords /\ r.kind = tx[t].kind /\ r.locks = tx[t].locks \ {v}
      /\ r.jobs = tx[t].jobs
      /\ r.done = tx[t].done /\ r.now = tx[t].now /\ r.moves = tx[t].moves
      /\ r.cart = tx[t].cart /\ r.stock = [tx[t].stock EXCEPT ![v] = onShelf]
      /\ r.reserved = [tx[t].reserved EXCEPT ![v] = held]
    BY <1>3 DEF TxRecords
<1> HIDE DEF r
<1>6. \A w \in Variants : IF w = v /\ owner[w] # t
                          THEN r.stock[w] = stock[w] /\ r.reserved[w] = reserved[w]
                          ELSE r.stock[w] = tx[t].stock[w]
                               /\ r.reserved[w] = tx[t].reserved[w]
    BY <1>3, <1>4, <1>5
<1>7. tx'[t] = r => JobsHold(t)'
    BY <1>2, <1>5, JobsKept
<1> QED
  <2>1. Relocked(t, v, r)
      BY <1>5, <1>6 DEF Relocked
  <2> QED
      BY <1>2, <1>5, <1>7, <2>1, LockingHolds

LEMMA LockProductHolds ==
    ASSUME TxIInv, NEW t \in Txs, NEW p \in Products, LockProduct(t, p)
    PROVE  TxIInv'
<1> DEFINE r == [tx[t] EXCEPT !.locks = @ \ {p}]
<1>1. tx[t] \in TxRecords
    BY TxFields DEF TxIInv
<1>2. Locking(t, p) /\ p \in Rows \ Orders /\ p \notin Variants /\ tx' = [tx EXCEPT ![t] = r]
    BY RowsDiffer DEF LockProduct
<1>3. r \in TxRecords /\ r.kind = tx[t].kind /\ r.locks = tx[t].locks \ {p}
      /\ r.jobs = tx[t].jobs
      /\ r.done = tx[t].done /\ r.now = tx[t].now /\ r.moves = tx[t].moves
      /\ r.cart = tx[t].cart /\ r.stock = tx[t].stock /\ r.reserved = tx[t].reserved
    BY <1>1 DEF TxRecords
<1> HIDE DEF r
<1>4. tx'[t] = r => JobsHold(t)'
    BY <1>2, <1>3, JobsKept
<1> QED
  <2>1. Relocked(t, p, r)
      BY <1>2, <1>3 DEF Relocked
  <2> QED
      BY <1>2, <1>3, <1>4, <2>1, LockingHolds

-----------------------------------------------------------------------------
(* Jobs and items.                                                            *)

LEMMA NotMovedUnchanged ==
    ASSUME TypeOK, TxTyped, NEW t \in Txs, NEW job \in Jobs,
           NEW v \in Variants, v \notin Moved(t, job)
    PROVE  /\ ItemsOf(t, job)[v] * ToShelf(job) = 0
           /\ ItemsOf(t, job)[v] * ToReserve(job) = 0
<1>1. qty[job.order] \in [Variants -> Int]
    BY JobFields, BoundsAssumption DEF TypeOK, Cart
<1>2. ItemsOf(t, job)[v] \in Int
    BY <1>1, TxFields DEF ItemsOf
<1>3. ToShelf(job) \in {-1, 0, 1} /\ ToReserve(job) \in {-1, 0, 1}
    BY ChangesAreSteps
<1>4. CASE ToShelf(job) = 0 /\ ToReserve(job) = 0
    BY <1>2, <1>4, Times
<1>5. CASE ItemsOf(t, job)[v] = 0
    BY <1>2, <1>3, <1>5, Times
<1> QED
    BY <1>4, <1>5 DEF Moved

(* When all items are moved of orders that expired, they are all given back.  *)
LEMMA AllReleased ==
    ASSUME TxIInv, NEW t \in Txs, ~Supplies(t), tx[t].moves = {}, tx[t].done # {},
           \A j \in tx[t].done : j.from = "pending" /\ j.to = "cancelled",
           NEW v \in Variants
    PROVE  /\ ShelfDelta(t, v) = Claimed({j.order : j \in tx[t].done}, v, qty)
           /\ ReserveDelta(t, v) = 0 - Claimed({j.order : j \in tx[t].done}, v, qty)
<1> DEFINE now == tx[t].now
<1>1. TypeOK /\ TxTyped /\ TxHolds(t) /\ JobsInTurn(t) /\ tx[t].done \subseteq Jobs
    BY TxFields DEF TxIInv, IInv, TxHolds
<1>2. now \in tx[t].done /\ now \in Jobs /\ now.order \in Orders /\ ~NotYet(t, v)
    BY <1>1, JobFields DEF JobsInTurn, NotYet
<1>3. /\ ShelfChange(t, v) = qty[now.order][v]
      /\ ReserveChange(t, v) = -qty[now.order][v]
    BY <1>1, <1>2, ExpiredChange DEF ShelfChange, ReserveChange
<1>4. now.order \notin Behind(t)
  <2> SUFFICES ASSUME NEW j \in tx[t].done, j # now, j.order = now.order PROVE FALSE
      BY DEF Behind
  <2>1. j.from = now.from /\ j.to = now.to
      BY <1>2
  <2> QED
      BY <1>1, <1>2, <2>1 DEF Jobs
<1>5. {j.order : j \in tx[t].done} = Behind(t) \cup {now.order}
    BY <1>2 DEF Behind
<1>6. Behind(t) \in SUBSET Orders /\ Claimed(Behind(t), v, qty) \in Nat
    BY <1>1, BehindOrders
<1>7. qty \in [Orders -> Cart] /\ qty[now.order][v] \in Int
    BY <1>1, <1>2, BoundsAssumption DEF TypeOK, Cart
<1>8. Claimed(Behind(t) \cup {now.order}, v, qty)
        = Claimed(Behind(t), v, qty) + qty[now.order][v]
  <2>1. PICK before, o : before = Behind(t) /\ o = now.order
      OBVIOUS
  <2>2. before \in SUBSET Orders /\ o \in Orders /\ o \notin before
      BY <1>2, <1>4, <1>6, <2>1
  <2>3. Claimed(before \cup {o}, v, qty) = Claimed(before, v, qty) + qty[o][v]
      BY <1>7, <2>2, ClaimedJoin
  <2> QED
      BY <2>1, <2>3
<1>9. /\ ShelfDelta(t, v) = Claimed(Behind(t), v, qty) + qty[now.order][v]
      /\ ReserveDelta(t, v) = -qty[now.order][v] - Claimed(Behind(t), v, qty)
    BY <1>2, <1>3 DEF ShelfDelta, ReserveDelta
<1>10. Claimed({j.order : j \in tx[t].done}, v, qty)
         = Claimed(Behind(t), v, qty) + qty[now.order][v]
    BY <1>5, <1>8, Zenon
<1> HIDE DEF now
<1> QED
    BY <1>6, <1>7, <1>9, <1>10

(* Beginning the next job changes nothing of what was moved: the items of the *)
(* last one, an expired order, are all moved.                                 *)
LEMMA StartJobDeltas ==
    ASSUME TxIInv, NEW t \in Txs, NEW job \in tx[t].jobs, StartJob(t, job),
           tx'[t].kind = tx[t].kind, tx'[t].cart = tx[t].cart,
           tx'[t].done = tx[t].done \cup {job}, tx'[t].now = job,
           tx'[t].moves = Moved(t, job), qty' = qty,
           \A j \in tx[t].done : j.from = "pending" /\ j.to = "cancelled"
    PROVE  \A v \in Variants : /\ ShelfDelta(t, v)' = ShelfDelta(t, v)
                               /\ ReserveDelta(t, v)' = ReserveDelta(t, v)
<1> TAKE v \in Variants
<1>1. TypeOK /\ TxTyped /\ TxHolds(t) /\ JobsInTurn(t)
    BY DEF TxIInv, IInv, TxHolds
<1>2. job \in Jobs /\ tx[t].done \subseteq Jobs /\ tx[t].moves = {} /\ ~Supplies(t)
      /\ job \notin tx[t].done
    BY <1>1, TxFields DEF StartJob, Ready, TxHolds, SuppliesHold, JobsInTurn, JobsOf
<1>3. ~Supplies(t)' /\ tx'[t].done # {}
    BY <1>2 DEF Supplies
<1>4. Behind(t)' = {j.order : j \in tx[t].done}
    BY <1>2 DEF Behind
<1>5. /\ ShelfDelta(t, v)' = Claimed({j.order : j \in tx[t].done}, v, qty)
      /\ ReserveDelta(t, v)' = 0 - Claimed({j.order : j \in tx[t].done}, v, qty)
  <2>1. Claimed(Behind(t), v, qty)' = Claimed({j.order : j \in tx[t].done}, v, qty)
      BY <1>4 DEF Claimed, Units
  <2>2. ItemsOf(t, job)' = ItemsOf(t, job)
      BY DEF ItemsOf
  <2>3. v \notin Moved(t, job) => ShelfChange(t, v)' = 0 /\ ReserveChange(t, v)' = 0
      BY <1>1, <1>2, <1>3, <2>2, NotMovedUnchanged DEF ShelfChange, ReserveChange
  <2>4. NotYet(t, v)' <=> v \in Moved(t, job)
      BY <1>3 DEF NotYet
  <2>5. {j.order : j \in tx[t].done} \in SUBSET Orders
      BY <1>2, JobFields
  <2>6. Claimed({j.order : j \in tx[t].done}, v, qty) \in Nat
      BY <2>5, UnitsFinite
  <2>7. CASE v \in Moved(t, job)
      BY <2>1, <2>4, <2>6, <2>7 DEF ShelfDelta, ReserveDelta
  <2>8. CASE v \notin Moved(t, job)
      BY <2>1, <2>3, <2>4, <2>6, <2>8 DEF ShelfDelta, ReserveDelta
  <2> QED
      BY <2>7, <2>8
<1>6. CASE tx[t].done = {}
  <2>1. NotYet(t, v) /\ Behind(t) = {} /\ {j.order : j \in tx[t].done} = {}
      BY <1>2, <1>6 DEF NotYet, Behind
  <2> QED
      BY <1>5, <2>1, ClaimedNothing DEF ShelfDelta, ReserveDelta
<1>7. CASE tx[t].done # {}
    BY <1>2, <1>5, <1>7, AllReleased
<1> QED
    BY <1>6, <1>7

LEMMA StartJobHolds ==
    ASSUME TxIInv, NEW t \in Txs, NEW job \in tx[t].jobs, StartJob(t, job)
    PROVE  TxIInv'
<1> DEFINE moves == Moved(t, job)
           locks == IF job.from = "absent" THEN ProductsFirst(moves) ELSE moves
           r == [tx[t] EXCEPT !.jobs = @ \ {job}, !.done = @ \cup {job}, !.now = job,
                              !.moves = moves, !.locks = locks]
<1>1. TypeOK /\ TxTyped /\ TxHolds(t) /\ JobsInTurn(t) /\ JobsHold(t) /\ LocksHold(t)
    BY DEF TxIInv, IInv, TxHolds
<1>2. /\ tx' = [tx EXCEPT ![t] = r] /\ UNCHANGED <<vars, total, owner>>
      /\ tx[t].locks = {} /\ tx[t].moves = {}
      /\ job.from = "absent" => tx[t].jobs = {job}
    BY DEF StartJob, Ready
<1>3. /\ job \in JobsOf(t) /\ job \in Jobs /\ tx[t] \in TxRecords
      /\ \A j \in JobsOf(t) : j \in Jobs
    BY <1>1, TxFields DEF JobsOf
<1>4. /\ moves \in SUBSET Variants /\ moves \subseteq locks
      /\ locks \in SUBSET (Products \cup Variants)
      /\ locks \cap Orders = {} /\ locks \in SUBSET Rows
    BY CatalogueAssumption, RowsDiffer DEF Moved, ProductsFirst
<1> HIDE DEF moves, locks
<1>5. r \in TxRecords /\ r.kind = tx[t].kind /\ r.cart = tx[t].cart
      /\ r.jobs = tx[t].jobs \ {job} /\ r.done = tx[t].done \cup {job} /\ r.now = job
      /\ r.moves = moves /\ r.locks = locks
      /\ r.stock = tx[t].stock /\ r.reserved = tx[t].reserved
    BY <1>3, <1>4 DEF TxRecords
<1> HIDE DEF r
<1>6. owner \in [Rows -> Txs \cup {None}]
    BY <1>1 DEF TxTyped
<1>7. /\ IInv' /\ AbsentIsUnpaid' /\ TxTyped' /\ tx'[t] = r
      /\ \A u \in Txs \ {t} : TxHolds(u)' /\ tx'[u] = tx[u]
    BY <1>2, <1>5, <1>6, OneTransaction
<1>8. /\ status' = status /\ owner' = owner /\ Expired' = Expired /\ qty' = qty
      /\ stock' = stock /\ reserved' = reserved
    BY <1>2 DEF vars, Expired
<1>9. ~Supplies(t) /\ tx[t].kind # "idle" /\ tx[t].kind \in TxKinds
    BY <1>1, <1>3, TxFields DEF TxHolds, SuppliesHold, JobsHold
<1>10. JobsOf(t)' = JobsOf(t) /\ Settles(t)' = Settles(t) /\ Expires(t)' = Expires(t)
       /\ ~Supplies(t)'
    BY <1>5, <1>7, <1>9 DEF JobsOf, Settles, Expires, Supplies
<1>11. \A j \in JobsOf(t) : JobHolds(t, j) /\ j.from # "unread"
  <2> SUFFICES ASSUME NEW j \in JobsOf(t) PROVE JobHolds(t, j) /\ j.from # "unread"
      OBVIOUS
  <2>1. JobHolds(t, j) /\ tx[t].locks # {j.order}
      BY <1>1, <1>2 DEF JobsHold
  <2> QED
      BY <2>1 DEF JobHolds, Statuses, Reserving, Fulfilled
<1>12. JobsHold(t)'
  <2>1. ASSUME NEW j \in JobsOf(t) PROVE JobHolds(t, j)'
      BY <1>5, <1>7, <1>8, <1>10, <1>11 DEF JobHolds
  <2> QED
      BY <1>1, <1>4, <1>5, <1>7, <1>10, <2>1 DEF JobsHold
<1>13. ASSUME NEW j \in tx[t].done
       PROVE  j.from = "pending" /\ j.to = "cancelled" /\ Expires(t)
  <2>1. j \in JobsOf(t) /\ j # job /\ j.from # "absent"
      BY <1>1 DEF JobsInTurn, JobsOf
  <2>2. ~Settles(t)
      BY <1>1, <1>3, <2>1 DEF JobsHold
  <2> QED
      BY <1>11, <2>1, <2>2 DEF JobHolds
<1>14. JobsInTurn(t)'
    BY <1>1, <1>2, <1>4, <1>5, <1>7, <1>10, <1>13 DEF JobsInTurn
<1>15. LocksHold(t)'
    BY <1>4, <1>5, <1>7, <1>9 DEF LocksHold
<1>16. SuppliesHold(t)'
    BY <1>10 DEF SuppliesHold
<1>17. \A v \in Variants : ShelfDelta(t, v)' = ShelfDelta(t, v)
                           /\ ReserveDelta(t, v)' = ReserveDelta(t, v)
    BY <1>5, <1>7, <1>8, <1>13, StartJobDeltas DEF moves
<1>18. MemoryHolds(t)'
    BY <1>1, <1>5, <1>7, <1>8, <1>17 DEF TxHolds, MemoryHolds
<1>19. NewOrdersDiffer'
    BY <1>7, <1>10, NewOrdersKept
<1> QED
    BY <1>7, <1>12, <1>14, <1>15, <1>16, <1>18, <1>19 DEF TxIInv, TxHolds

(* A sum of counts is a count.                                                *)
LEMMA TotalTyped ==
    ASSUME NEW S \in SUBSET Variants, NEW f \in [Variants -> Nat]
    PROVE  Total(S, f) \in Nat
<1> DEFINE units(v) == {v} \X (1..f[v])
           T == {units(v) : v \in S}
           g == [v \in S |-> units(v)]
<1>1. IsFiniteSet(S)
    BY CatalogueAssumption, FS_Subset
<1>2. g \in Surjection(S, T)
    BY DEF Surjection
<1>3. IsFiniteSet(T)
    BY <1>1, <1>2, FS_Surjection
<1>4. ASSUME NEW v \in S PROVE IsFiniteSet(units(v))
  <2>1. f[v] \in Int /\ 1 \in Int
      OBVIOUS
  <2>2. IsFiniteSet(1..f[v])
      BY <2>1, FS_Interval, Zenon
  <2>3. IsFiniteSet({v})
      BY FS_Singleton
  <2> QED
      BY <2>2, <2>3, FS_Product
<1>5. IsFiniteSet(UNION T)
    BY <1>3, <1>4, FS_UNION
<1>6. Cardinality(UNION T) \in Nat
    BY <1>5, FS_CardinalityType
<1> QED
    BY <1>6 DEF Total

LEMMA MoveItemHolds ==
    ASSUME TxIInv, NEW t \in Txs, NEW v \in tx[t].moves, MoveItem(t, v)
    PROVE  TxIInv'
<1> DEFINE onShelf == LeftOnShelf(t, v)
           held    == LeftInReserve(t, v)
           r       == AfterItem(t, v)
<1>1. TypeOK /\ TxTyped /\ TxHolds(t) /\ JobsInTurn(t) /\ JobsHold(t) /\ LocksHold(t)
      /\ SuppliesHold(t) /\ MemoryHolds(t)
    BY DEF TxIInv, IInv, TxHolds
<1>2. /\ tx[t].locks = {} /\ Free(t, tx[t].dirty)
      /\ Allowed(onShelf, held)
      /\ Supplies(t) => supplied[v] + tx[t].cart[v] \in 0..MaxSupply
      /\ tx' = [tx EXCEPT ![t] = r]
      /\ owner' = IF tx[t].dirty = None THEN owner ELSE [owner EXCEPT ![tx[t].dirty] = t]
      /\ UNCHANGED <<vars, total>>
    BY DEF MoveItem
<1>3. /\ v \in Variants /\ ProductOf[v] \in Products /\ tx[t] \in TxRecords
      /\ tx[t].stock \in [Variants -> Nat] /\ tx[t].reserved \in [Variants -> Nat]
      /\ tx[t].total \in [Products -> Nat] /\ tx[t].writes \in SUBSET Products
      /\ tx[t].moves \in SUBSET Variants /\ tx[t].done \subseteq Jobs
      /\ tx[t].dirty \in Products \cup {None}
    BY <1>1, TxFields, CatalogueAssumption
<1>4. owner[v] = t /\ tx[t].kind # "idle"
    BY <1>1, <1>2 DEF LocksHold
<1>5. Supplies(t) \/ tx[t].done # {}
    BY <1>1 DEF JobsInTurn
<1>6. ShelfChange(t, v) \in Int /\ ReserveChange(t, v) \in Int
  <2>1. CASE Supplies(t)
    <3>1. tx[t].cart[v] \in Int
        BY <1>1, <1>3, TxFields
    <3> QED
        BY <2>1, <3>1 DEF ShelfChange, ReserveChange
  <2>2. CASE ~Supplies(t)
    <3>1. tx[t].now \in Jobs
        BY <1>1, <1>3, <1>5, <2>2 DEF JobsInTurn
    <3> QED
        BY <1>1, <1>3, <2>2, <3>1, ItemsTyped DEF ShelfChange, ReserveChange
  <2> QED
      BY <2>1, <2>2
<1>7. onShelf \in Nat /\ held \in Nat
    BY <1>2, <1>3, <1>6 DEF Allowed, LeftOnShelf, LeftInReserve
<1>8. Summed(t, v) \in Nat
  <2> DEFINE seen == [w \in Variants |-> IF w = v THEN LeftOnShelf(t, v)
                                         ELSE IF owner[w] = t THEN tx[t].stock[w]
                                         ELSE stock[w]]
  <2>1. seen \in [Variants -> Nat]
      BY <1>1, <1>3, <1>7 DEF TypeOK
  <2>2. VariantsOf(ProductOf[v]) \in SUBSET Variants
      BY DEF VariantsOf
  <2> HIDE DEF seen
  <2> QED
      BY <2>1, <2>2, TotalTyped DEF Summed, seen
<1>9. onShelf \in Nat /\ held \in Nat /\ tx[t].total[ProductOf[v]] \in Nat
    BY <1>3, <1>7
<1>10. r \in TxRecords /\ r.kind = tx[t].kind /\ r.cart = tx[t].cart /\ r.jobs = tx[t].jobs
       /\ r.done = tx[t].done /\ r.now = tx[t].now /\ r.locks = tx[t].locks
       /\ r.moves = tx[t].moves \ {v}
       /\ r.stock = [tx[t].stock EXCEPT ![v] = onShelf]
       /\ r.reserved = [tx[t].reserved EXCEPT ![v] = held]
  <2> DEFINE p        == ProductOf[v]
             same     == Summed(t, v) = Loaded(t, p)
             newTotal == IF same /\ p \notin tx[t].writes THEN tx[t].total[p] ELSE Summed(t, v)
             writes   == IF same THEN tx[t].writes ELSE tx[t].writes \cup {p}
  <2>1. newTotal \in Nat /\ writes \in SUBSET Products /\ p \in Products
      BY <1>3, <1>8, <1>9
  <2>2. r = [tx[t] EXCEPT !.moves = @ \ {v}, !.stock[v] = onShelf, !.reserved[v] = held,
                          !.total[p] = newTotal, !.writes = writes, !.dirty = p]
      BY DEF AfterItem
  <2> HIDE DEF onShelf, held, r, p, same, newTotal, writes
  <2>3. PICK old, left, shelf, held1, totals :
             /\ old = tx[t] /\ left = tx[t].moves \ {v}
             /\ shelf = [tx[t].stock EXCEPT ![v] = onShelf]
             /\ held1 = [tx[t].reserved EXCEPT ![v] = held]
             /\ totals = [tx[t].total EXCEPT ![p] = newTotal]
      OBVIOUS
  <2>4. /\ left \in SUBSET Variants /\ shelf \in [Variants -> Nat]
        /\ held1 \in [Variants -> Nat] /\ totals \in [Products -> Nat]
      BY <1>3, <1>7, <2>1, <2>3
  <2>5. /\ old \in TxRecords
        /\ r = [old EXCEPT !.moves = left, !.stock = shelf, !.reserved = held1,
                            !.total = totals, !.writes = writes, !.dirty = p]
      BY <1>3, <2>2, <2>3
  <2>6. /\ r \in TxRecords /\ r.kind = old.kind /\ r.cart = old.cart /\ r.jobs = old.jobs
        /\ r.done = old.done /\ r.now = old.now /\ r.locks = old.locks
        /\ r.moves = left /\ r.stock = shelf /\ r.reserved = held1
      BY <2>1, <2>4, <2>5 DEF TxRecords
  <2> QED
      BY <2>3, <2>6
<1> HIDE DEF r
<1>11. /\ owner' \in [Rows -> Txs \cup {None}]
       /\ \A x \in Rows : owner'[x] \in {owner[x], t}
       /\ \A x \in Rows : owner[x] \in {None, t} \/ owner'[x] = owner[x]
       /\ \A x \in Orders \cup Variants : owner'[x] = owner[x]
    BY <1>1, <1>2, <1>3, RowsDiffer DEF Free, TxTyped
<1>12. /\ IInv' /\ AbsentIsUnpaid' /\ TxTyped' /\ tx'[t] = r
       /\ \A u \in Txs \ {t} : TxHolds(u)' /\ tx'[u] = tx[u]
  <2>1. r \in TxRecords /\ tx' = [tx EXCEPT ![t] = r] /\ UNCHANGED <<vars, total>>
      BY <1>2, <1>10
  <2> QED
      BY <1>11, <2>1, OneTransaction
<1>13. /\ status' = status /\ Expired' = Expired /\ qty' = qty
       /\ stock' = stock /\ reserved' = reserved /\ supplied' = supplied
    BY <1>2 DEF vars, Expired
<1>14. JobsOf(t)' = JobsOf(t) /\ Settles(t)' = Settles(t) /\ Expires(t)' = Expires(t)
       /\ Supplies(t)' = Supplies(t)
    BY <1>10, <1>12 DEF JobsOf, Settles, Expires, Supplies
<1>15. JobsHold(t)'
  <2>1. ASSUME NEW job \in JobsOf(t) PROVE JobHolds(t, job)'
    <3>1. JobHolds(t, job) /\ job.order \in Orders
        BY <1>1, TxFields, JobFields DEF JobsHold
    <3> QED
        BY <1>10, <1>11, <1>12, <1>13, <1>14, <3>1 DEF JobHolds
  <2> QED
      BY <1>1, <1>10, <1>12, <1>14, <2>1 DEF JobsHold
<1>16. JobsInTurn(t)'
    BY <1>1, <1>5, <1>10, <1>12, <1>14 DEF JobsInTurn
<1>17. LocksHold(t)'
    BY <1>1, <1>3, <1>4, <1>10, <1>11, <1>12 DEF LocksHold
<1>18. SuppliesHold(t)'
    BY <1>1, <1>2, <1>3, <1>4, <1>10, <1>11, <1>12, <1>13, <1>14 DEF SuppliesHold
<1>19. Behind(t)' = Behind(t)
    BY <1>10, <1>12 DEF Behind
<1>20. ASSUME NEW w \in Variants
       PROVE  /\ Claimed(Behind(t), w, qty)' = Claimed(Behind(t), w, qty)
              /\ ShelfChange(t, w)' = ShelfChange(t, w)
              /\ ReserveChange(t, w)' = ReserveChange(t, w)
              /\ NotYet(t, w)' <=> NotYet(t, w) /\ w # v
  <2>1. Claimed(Behind(t), w, qty)' = Claimed(Behind(t), w, qty)
      BY <1>13, <1>19 DEF Claimed, Units
  <2>2. tx'[t].now = tx[t].now /\ tx'[t].cart = tx[t].cart
      BY <1>10, <1>12
  <2>3. ShelfChange(t, w)' = ShelfChange(t, w) /\ ReserveChange(t, w)' = ReserveChange(t, w)
      BY <1>13, <1>14, <2>2 DEF ShelfChange, ReserveChange, ItemsOf
  <2>4. NotYet(t, w)' <=> NotYet(t, w) /\ w # v
      BY <1>5, <1>10, <1>12, <1>14 DEF NotYet
  <2> QED
      BY <2>1, <2>3, <2>4
<1>21. MemoryHolds(t)'
  <2> SUFFICES ASSUME NEW w \in Variants
               PROVE  /\ owner'[w] = t => /\ r.stock[w] = stock[w] + ShelfDelta(t, w)'
                                          /\ r.reserved[w] = reserved[w] + ReserveDelta(t, w)'
                      /\ owner'[w] # t => ShelfDelta(t, w)' = 0 /\ ReserveDelta(t, w)' = 0
      BY <1>12, <1>13 DEF MemoryHolds
  <2>1. CASE w # v
    <3>1. ShelfDelta(t, w)' = ShelfDelta(t, w) /\ ReserveDelta(t, w)' = ReserveDelta(t, w)
        BY <1>20, <2>1 DEF ShelfDelta, ReserveDelta
    <3>2. r.stock[w] = tx[t].stock[w] /\ r.reserved[w] = tx[t].reserved[w]
        BY <1>3, <1>10, <2>1
    <3> QED
        BY <1>1, <1>11, <2>1, <3>1, <3>2 DEF MemoryHolds
  <2>2. CASE w = v
    <3> DEFINE c == Claimed(Behind(t), v, qty)
    <3>1. c \in Nat /\ stock[v] \in Nat /\ reserved[v] \in Nat
        BY <1>1, <1>3, BehindOrders DEF TypeOK
    <3>2. NotYet(t, v) /\ ~NotYet(t, v)'
        BY <1>3, <1>20 DEF NotYet
    <3>3. tx[t].stock[v] = stock[v] + c /\ tx[t].reserved[v] = reserved[v] - c
      <4>1. ShelfDelta(t, v) = c /\ ReserveDelta(t, v) = 0 - c
          BY <3>1, <3>2 DEF ShelfDelta, ReserveDelta
      <4>2. /\ tx[t].stock[v] = stock[v] + ShelfDelta(t, v)
            /\ tx[t].reserved[v] = reserved[v] + ReserveDelta(t, v)
          BY <1>1, <1>3, <1>4 DEF MemoryHolds
      <4> HIDE DEF c
      <4> QED
          BY <3>1, <4>1, <4>2
    <3>4. /\ ShelfDelta(t, v)' = c + ShelfChange(t, v)
          /\ ReserveDelta(t, v)' = ReserveChange(t, v) - c
        BY <1>3, <1>20, <3>2 DEF ShelfDelta, ReserveDelta
    <3>5. r.stock[v] = tx[t].stock[v] + ShelfChange(t, v)
          /\ r.reserved[v] = tx[t].reserved[v] + ReserveChange(t, v)
        BY <1>3, <1>10 DEF LeftOnShelf, LeftInReserve
    <3> HIDE DEF c
    <3> QED
        BY <1>3, <1>4, <1>6, <1>11, <2>2, <3>1, <3>3, <3>4, <3>5
  <2> QED
      BY <2>1, <2>2
<1>22. NewOrdersDiffer'
    BY <1>12, <1>14, NewOrdersKept
<1> QED
    BY <1>12, <1>15, <1>16, <1>17, <1>18, <1>21, <1>22 DEF TxIInv, TxHolds

-----------------------------------------------------------------------------
(* What a commit writes is a step of OrderStock.                              *)

LEMMA MoveStockBy ==
    ASSUME NEW a \in [Variants -> Int], NEW b \in [Variants -> Int],
           stock' \in [Variants -> Nat], reserved' \in [Variants -> Nat],
           \A v \in Variants : stock'[v] = stock[v] + a[v],
           \A v \in Variants : reserved'[v] = reserved[v] + b[v]
    PROVE  MoveStock(a, b)
<1>1. stock' = [v \in Variants |-> stock[v] + a[v]]
    OBVIOUS
<1>2. reserved' = [v \in Variants |-> reserved[v] + b[v]]
    OBVIOUS
<1>3. \A v \in Variants : stock'[v] >= 0 /\ reserved'[v] >= 0
    OBVIOUS
<1> QED
    BY <1>1, <1>2, <1>3 DEF MoveStock

LEMMA NoStockMoved ==
    ASSUME TypeOK, stock' \in [Variants -> Nat], reserved' \in [Variants -> Nat],
           \A v \in Variants : stock'[v] = stock[v] + 0,
           \A v \in Variants : reserved'[v] = reserved[v] + 0
    PROVE  stock' = stock /\ reserved' = reserved
<1>1. /\ stock \in [Variants -> Nat] /\ reserved \in [Variants -> Nat]
    BY DEF TypeOK
<1>2. \A v \in Variants : stock'[v] = stock[v] /\ reserved'[v] = reserved[v]
    BY <1>1
<1> QED
    BY <1>1, <1>2

(* The branches of update_order and delete_order.                             *)
LEMMA SettledStep ==
    ASSUME TypeOK, NEW o \in Orders, NEW to \in Statuses \cup {"absent"},
           status[o] \in Statuses, to # status[o],
           stock' \in [Variants -> Nat], reserved' \in [Variants -> Nat],
           \A v \in Variants :
              /\ stock'[v] = stock[v] + qty[o][v] * (OnShelf(to) - OnShelf(status[o]))
              /\ reserved'[v] = reserved[v] + qty[o][v] * (InReserve(to) - InReserve(status[o])),
           status' = [status EXCEPT ![o] = to],
           deadline' = [deadline EXCEPT ![o] = IF to = "pending" THEN "running" ELSE "none"],
           payment' = IF to = "absent" THEN [payment EXCEPT ![o] = "unpaid"] ELSE payment,
           qty' = IF to = "absent" THEN [qty EXCEPT ![o] = NoItems] ELSE qty,
           supplied' = supplied
    PROVE  Next
<1> DEFINE a == OnShelf(to) - OnShelf(status[o])
           b == InReserve(to) - InReserve(status[o])
<1>1. a \in {-1, 0, 1} /\ b \in {-1, 0, 1}
    BY DEF OnShelf, InReserve
<1>2. /\ qty[o] \in [Variants -> Int] /\ NoItems \in [Variants -> Int]
      /\ Neg(qty[o]) \in [Variants -> Int]
      /\ \A v \in Variants : Neg(qty[o])[v] = -qty[o][v] /\ NoItems[v] = 0
    BY QtyTyped
<1>3. ASSUME NEW v \in Variants
      PROVE  /\ a = 1 => stock'[v] = stock[v] + qty[o][v]
             /\ a = 0 => stock'[v] = stock[v] + 0
             /\ a = -1 => stock'[v] = stock[v] + (-qty[o][v])
             /\ b = 1 => reserved'[v] = reserved[v] + qty[o][v]
             /\ b = 0 => reserved'[v] = reserved[v] + 0
             /\ b = -1 => reserved'[v] = reserved[v] + (-qty[o][v])
  <2>1. qty[o][v] \in Int
      BY <1>2
  <2>2. stock'[v] = stock[v] + qty[o][v] * a /\ reserved'[v] = reserved[v] + qty[o][v] * b
      OBVIOUS
  <2> HIDE DEF a, b
  <2> QED
      BY <1>1, <2>1, <2>2, Times
<1>4. /\ a = 1 /\ b = -1 => MoveStock(qty[o], Neg(qty[o]))
      /\ a = 1 /\ b = 0 => MoveStock(qty[o], NoItems)
      /\ a = -1 /\ b = 1 => MoveStock(Neg(qty[o]), qty[o])
      /\ a = -1 /\ b = 0 => MoveStock(Neg(qty[o]), NoItems)
      /\ a = 0 /\ b = 1 => MoveStock(NoItems, qty[o])
      /\ a = 0 /\ b = -1 => MoveStock(NoItems, Neg(qty[o]))
      /\ a = 0 /\ b = 0 => stock' = stock /\ reserved' = reserved
  <2> HIDE DEF a, b
  <2>1. CASE a = 1 /\ b = -1
      BY <1>2, <1>3, <2>1, MoveStockBy
  <2>2. CASE a = 1 /\ b = 0
      BY <1>2, <1>3, <2>2, MoveStockBy
  <2>3. CASE a = -1 /\ b = 1
      BY <1>2, <1>3, <2>3, MoveStockBy
  <2>4. CASE a = -1 /\ b = 0
      BY <1>2, <1>3, <2>4, MoveStockBy
  <2>5. CASE a = 0 /\ b = 1
      BY <1>2, <1>3, <2>5, MoveStockBy
  <2>6. CASE a = 0 /\ b = -1
      BY <1>2, <1>3, <2>6, MoveStockBy
  <2>7. CASE a = 0 /\ b = 0
      BY <1>3, <2>7, NoStockMoved
  <2> QED
      BY <2>1, <2>2, <2>3, <2>4, <2>5, <2>6, <2>7
<1>5. /\ status[o] \in Reserving => OnShelf(status[o]) = 0 /\ InReserve(status[o]) = 1
      /\ status[o] \in Fulfilled => OnShelf(status[o]) = 0 /\ InReserve(status[o]) = 0
      /\ status[o] = "cancelled" => OnShelf(status[o]) = 1 /\ InReserve(status[o]) = 0
      /\ to \in Reserving => OnShelf(to) = 0 /\ InReserve(to) = 1
      /\ to \in Fulfilled => OnShelf(to) = 0 /\ InReserve(to) = 0
      /\ to \in {"cancelled", "absent"} => OnShelf(to) = 1 /\ InReserve(to) = 0
    BY DEF OnShelf, InReserve, Reserving, Fulfilled
<1>6. CASE to = "absent"
  <2>1. status[o] = "cancelled" => stock' = stock /\ reserved' = reserved
      BY <1>4, <1>5, <1>6
  <2>2. status[o] # "cancelled" => ReleaseOrderStock(o)
      BY <1>4, <1>5, <1>6 DEF ReleaseOrderStock, Statuses, Reserving, Fulfilled
  <2>3. DeleteOrder(o)
      BY <1>6, <2>1, <2>2 DEF DeleteOrder, Statuses, Reserving, Fulfilled
  <2> QED
      BY <2>3 DEF Next
<1>7. CASE to = "cancelled"
  <2>1. status[o] \in Reserving \cup Fulfilled
      BY <1>7 DEF Statuses
  <2>2. ReleaseOrderStock(o)
      BY <1>4, <1>5, <1>7, <2>1 DEF ReleaseOrderStock, Reserving, Fulfilled
  <2>3. Cancel(o)
      BY <1>7, <2>1, <2>2 DEF Cancel
  <2> QED
      BY <2>3 DEF Next
<1>8. CASE to \in Reserving \cup Fulfilled
  <2>1. to \in Statuses /\ SetStatus(o, to) /\ to # "cancelled"
      BY <1>8 DEF SetStatus, Statuses, Reserving, Fulfilled
  <2>2. CASE status[o] = "cancelled"
    <3>1. MoveStock(Neg(qty[o]), IF to \in Reserving THEN qty[o] ELSE NoItems)
        BY <1>4, <1>5, <1>8, <2>2 DEF Reserving, Fulfilled
    <3>2. Reopen(o, to)
        BY <2>1, <2>2, <3>1 DEF Reopen
    <3> QED
        BY <2>1, <3>2 DEF Next
  <2>3. CASE status[o] \in Reserving /\ to \in Fulfilled
    <3>1. MoveStock(NoItems, Neg(qty[o]))
        BY <1>4, <1>5, <2>3
    <3>2. Fulfil(o, to)
        BY <2>1, <2>3, <3>1 DEF Fulfil
    <3> QED
        BY <2>1, <3>2 DEF Next
  <2>4. CASE status[o] \in Fulfilled /\ to \in Reserving
    <3>1. MoveStock(NoItems, qty[o])
        BY <1>4, <1>5, <2>4
    <3>2. TakeBack(o, to)
        BY <2>1, <2>4, <3>1 DEF TakeBack
    <3> QED
        BY <2>1, <3>2 DEF Next
  <2>5. CASE {status[o], to} \subseteq Reserving \/ {status[o], to} \subseteq Fulfilled
    <3>1. stock' = stock /\ reserved' = reserved
        BY <1>4, <1>5, <2>5
    <3>2. Progress(o, to)
        BY <2>1, <2>5, <3>1 DEF Progress
    <3> QED
        BY <2>1, <3>2 DEF Next
  <2> QED
      BY <1>8, <2>2, <2>3, <2>4, <2>5 DEF Statuses
<1> QED
    BY <1>6, <1>7, <1>8 DEF Statuses

(* Of one order a transaction has begun one job at most.                      *)
LEMMA DoneOrdersDiffer ==
    ASSUME TxIInv, NEW t \in Txs, NEW i \in tx[t].done, NEW j \in tx[t].done,
           i.order = j.order
    PROVE  i = j
<1>1. TxTyped /\ JobsInTurn(t) /\ JobsHold(t) /\ i \in Jobs /\ j \in Jobs
      /\ i \in JobsOf(t) /\ j \in JobsOf(t)
    BY TxFields DEF TxIInv, TxHolds, JobsOf
<1>2. JobHolds(t, i) /\ JobHolds(t, j) /\ i.from # "unread" /\ j.from # "unread"
    BY <1>1 DEF JobsHold, JobHolds, Statuses, Reserving, Fulfilled
<1>3. CASE Expires(t)
  <2>1. \A job \in {i, j} : \/ job.from = "absent" /\ job.to = "pending"
                               /\ status[job.order] = "absent"
                            \/ job.from = "pending" /\ job.to = "cancelled"
                               /\ status[job.order] = "pending"
      BY <1>2, <1>3 DEF JobHolds, Expires, Settles, Expired
  <2>2. i.from = j.from /\ i.to = j.to
      BY <2>1
  <2> QED
      BY <1>1, <2>2 DEF Jobs
<1>4. CASE ~Expires(t)
    BY <1>1, <1>4 DEF JobsInTurn
<1> QED
    BY <1>3, <1>4

(* What is committed, row by row.                                             *)
LEMMA CommitWrites ==
    ASSUME TxIInv, NEW t \in Txs, Commit(t)
    PROVE  /\ tx[t].kind # "idle" /\ tx[t].moves = {} /\ tx[t].jobs = {} /\ tx[t].locks = {}
           /\ \A j \in tx[t].done :
                /\ j \in Jobs /\ j.order \in Orders /\ JobHolds(t, j) /\ j.from # "unread"
                /\ status'[j.order] = j.to
                /\ deadline'[j.order] = IF j.to = "pending" THEN "running" ELSE "none"
                /\ payment'[j.order] = IF j.to = "absent" THEN "unpaid" ELSE payment[j.order]
                /\ qty'[j.order] = IF j.from = "absent" THEN tx[t].cart
                                   ELSE IF j.to = "absent" THEN NoItems ELSE qty[j.order]
           /\ \A o \in Orders : (\A j \in tx[t].done : j.order # o) =>
                /\ status'[o] = status[o] /\ deadline'[o] = deadline[o]
                /\ payment'[o] = payment[o] /\ qty'[o] = qty[o]
           /\ status' = [o \in Orders |-> status'[o]]
           /\ deadline' = [o \in Orders |-> deadline'[o]]
           /\ payment' = [o \in Orders |-> payment'[o]]
           /\ qty' = [o \in Orders |-> qty'[o]]
           /\ stock' \in [Variants -> Nat] /\ reserved' \in [Variants -> Nat]
           /\ \A v \in Variants : /\ stock'[v] = stock[v] + ShelfDelta(t, v)
                                  /\ reserved'[v] = reserved[v] + ReserveDelta(t, v)
           /\ supplied' = [v \in Variants |-> supplied[v] +
                             (IF Supplies(t) THEN tx[t].cart[v] ELSE 0)]
<1> DEFINE job(o) == CHOOSE j \in tx[t].done : j.order = o
           moved  == {j.order : j \in tx[t].done}
           made   == {o \in moved : job(o).from = "absent"}
           gone   == {o \in moved : job(o).to = "absent"}
<1>1. TypeOK /\ TxTyped /\ TxHolds(t) /\ JobsInTurn(t) /\ JobsHold(t) /\ MemoryHolds(t)
    BY DEF TxIInv, IInv, TxHolds
<1>2. tx[t].kind # "idle" /\ tx[t].moves = {} /\ tx[t].jobs = {} /\ tx[t].locks = {}
    BY DEF Commit, Ready
<1>3. /\ status'   = [o \in Orders |-> IF o \in moved THEN job(o).to ELSE status[o]]
      /\ deadline' = [o \in Orders |-> IF o \notin moved THEN deadline[o]
                                       ELSE IF job(o).to = "pending" THEN "running"
                                       ELSE "none"]
      /\ payment'  = [o \in Orders |-> IF o \in gone THEN "unpaid" ELSE payment[o]]
      /\ qty'      = [o \in Orders |-> IF o \in made THEN tx[t].cart
                                       ELSE IF o \in gone THEN NoItems
                                       ELSE qty[o]]
    BY DEF Commit
<1>4. /\ stock'    = [v \in Variants |-> IF owner[v] = t THEN tx[t].stock[v] ELSE stock[v]]
      /\ reserved' = [v \in Variants |-> IF owner[v] = t THEN tx[t].reserved[v]
                                                         ELSE reserved[v]]
      /\ supplied' = [v \in Variants |-> supplied[v] +
                        (IF Supplies(t) THEN tx[t].cart[v] ELSE 0)]
    BY DEF Commit
<1>5. ASSUME NEW j \in tx[t].done
      PROVE  /\ j \in Jobs /\ j.order \in Orders /\ JobHolds(t, j) /\ j.from # "unread"
             /\ job(j.order) = j /\ j.order \in moved
  <2>1. j \in Jobs /\ j.order \in Orders /\ j \in JobsOf(t) /\ JobHolds(t, j)
      BY <1>1, TxFields, JobFields DEF JobsHold, JobsOf
  <2>2. j.from # "unread"
      BY <2>1 DEF JobHolds, Statuses, Reserving, Fulfilled
  <2>3. job(j.order) \in tx[t].done /\ job(j.order).order = j.order
      OBVIOUS
  <2>4. job(j.order) = j
      BY <2>3, DoneOrdersDiffer
  <2> QED
      BY <2>1, <2>2, <2>4
<1> HIDE DEF job
<1>6. ASSUME NEW j \in tx[t].done
      PROVE  /\ status'[j.order] = j.to
             /\ deadline'[j.order] = IF j.to = "pending" THEN "running" ELSE "none"
             /\ payment'[j.order] = IF j.to = "absent" THEN "unpaid" ELSE payment[j.order]
             /\ qty'[j.order] = IF j.from = "absent" THEN tx[t].cart
                                ELSE IF j.to = "absent" THEN NoItems ELSE qty[j.order]
    BY <1>3, <1>5
<1>7. ASSUME NEW o \in Orders, \A j \in tx[t].done : j.order # o
      PROVE  /\ status'[o] = status[o] /\ deadline'[o] = deadline[o]
             /\ payment'[o] = payment[o] /\ qty'[o] = qty[o]
  <2>1. o \notin moved
      BY <1>7
  <2> QED
      BY <1>3, <2>1
<1>8. status' = [o \in Orders |-> status'[o]] /\ deadline' = [o \in Orders |-> deadline'[o]]
      /\ payment' = [o \in Orders |-> payment'[o]] /\ qty' = [o \in Orders |-> qty'[o]]
    BY <1>3
<1>9. /\ tx[t].stock \in [Variants -> Nat] /\ tx[t].reserved \in [Variants -> Nat]
      /\ stock \in [Variants -> Nat] /\ reserved \in [Variants -> Nat]
    BY <1>1, TxFields DEF TypeOK
<1>10. stock' \in [Variants -> Nat] /\ reserved' \in [Variants -> Nat]
    BY <1>4, <1>9
<1>11. ASSUME NEW v \in Variants
       PROVE  /\ stock'[v] = stock[v] + ShelfDelta(t, v)
              /\ reserved'[v] = reserved[v] + ReserveDelta(t, v)
    BY <1>1, <1>4, <1>9 DEF MemoryHolds
<1> QED
    BY <1>2, <1>4, <1>5, <1>6, <1>7, <1>8, <1>10, <1>11

LEMMA SupplyCommits ==
    ASSUME TxIInv, NEW t \in Txs, Commit(t), Supplies(t)
    PROVE  Next
<1> DEFINE d == tx[t].cart
<1>1. /\ TypeOK /\ TxTyped /\ JobsOf(t) = {} /\ d \in [Variants -> -1..1] /\ d # NoItems
      /\ \A v \in Variants : d[v] # 0 /\ v \notin tx[t].moves
            => supplied[v] + d[v] \in 0..MaxSupply
    BY DEF TxIInv, IInv, TxHolds, SuppliesHold
<1>2. tx[t].done = {} /\ tx[t].moves = {}
    BY <1>1, CommitWrites DEF JobsOf
<1>3. /\ stock \in [Variants -> Nat] /\ reserved \in [Variants -> Nat]
      /\ supplied \in [Variants -> 0..MaxSupply] /\ qty \in [Orders -> Cart]
      /\ status \in [Orders -> Statuses \cup {"absent"}] /\ payment \in [Orders -> Payments]
      /\ deadline \in [Orders -> {"none", "running", "passed"}] /\ MaxSupply \in Nat
    BY <1>1, BoundsAssumption DEF TypeOK
<1>4. ASSUME NEW v \in Variants
      PROVE  ShelfDelta(t, v) = d[v] /\ ReserveDelta(t, v) = 0 /\ d[v] \in Int
  <2>1. Behind(t) = {}
      BY <1>2 DEF Behind
  <2>2. Claimed(Behind(t), v, qty) = 0
      BY <2>1, ClaimedNothing
  <2>3. ~NotYet(t, v) /\ d[v] \in Int
      BY <1>1, <1>2 DEF NotYet
  <2> QED
      BY <2>2, <2>3 DEF ShelfDelta, ReserveDelta, ShelfChange, ReserveChange
<1>5. /\ stock' \in [Variants -> Nat] /\ reserved' \in [Variants -> Nat]
      /\ \A v \in Variants : stock'[v] = stock[v] + d[v] /\ reserved'[v] = reserved[v] + NoItems[v]
      /\ supplied' = [v \in Variants |-> supplied[v] + d[v]]
    BY <1>4, CommitWrites DEF NoItems
<1>6. status' = status /\ deadline' = deadline /\ payment' = payment /\ qty' = qty
    BY <1>2, <1>3, CommitWrites
<1>7. ASSUME NEW v \in Variants
      PROVE  supplied[v] + d[v] \in 0..MaxSupply /\ d[v] \in -MaxSupply..MaxSupply
  <2>1. supplied[v] \in 0..MaxSupply /\ d[v] \in -1..1
      BY <1>1, <1>3
  <2>2. supplied[v] + d[v] \in 0..MaxSupply
      BY <1>1, <1>2, <2>1
  <2> HIDE DEF d
  <2> QED
      BY <1>3, <2>1, <2>2
<1>8. d \in [Variants -> Int] /\ NoItems \in [Variants -> Int]
      /\ d \in [Variants -> -MaxSupply..MaxSupply]
    BY <1>1, <1>7 DEF NoItems
<1> HIDE DEF d
<1>9. MoveStock(d, NoItems)
    BY <1>5, <1>8, MoveStockBy
<1>10. AdjustStock(d)
    BY <1>1, <1>5, <1>6, <1>7, <1>9 DEF AdjustStock
<1> QED
    BY <1>8, <1>10 DEF Next

LEMMA ReleaseCommits ==
    ASSUME TxIInv, NEW t \in Txs, Commit(t), Expires(t), tx[t].done # {},
           \A j \in tx[t].done : j.from # "absent"
    PROVE  Next
<1> DEFINE E == {j.order : j \in tx[t].done}
<1>1. /\ TypeOK /\ ~Supplies(t) /\ ~Settles(t) /\ tx[t].moves = {}
    BY CommitWrites DEF TxIInv, IInv, Expires, Supplies, Settles
<1>2. ASSUME NEW j \in tx[t].done
      PROVE  j.from = "pending" /\ j.to = "cancelled" /\ j.order \in Expired
    BY <1>1, CommitWrites DEF JobHolds
<1>3. E \in SUBSET Expired /\ E \in SUBSET Orders /\ E # {}
    BY <1>2 DEF Expired
<1>4. PICK S \in SUBSET Expired : S = E
    BY <1>3
<1>5. ASSUME NEW v \in Variants
      PROVE  /\ Claimed(S, v, qty) \in Nat
             /\ stock'[v] = stock[v] + Claimed(S, v, qty)
             /\ reserved'[v] = reserved[v] + (0 - Claimed(S, v, qty))
  <2>1. ShelfDelta(t, v) = Claimed(E, v, qty) /\ ReserveDelta(t, v) = 0 - Claimed(E, v, qty)
      BY <1>1, <1>2, AllReleased
  <2>2. Claimed(S, v, qty) = Claimed(E, v, qty) /\ Claimed(E, v, qty) \in Nat
      BY <1>3, <1>4, UnitsFinite, Zenon
  <2> HIDE DEF E
  <2> QED
      BY <2>1, <2>2, CommitWrites
<1> DEFINE freed == [v \in Variants |-> Claimed(S, v, qty)]
<1>6. /\ freed \in [Variants -> Int] /\ Neg(freed) \in [Variants -> Int]
      /\ \A v \in Variants : /\ freed[v] = Claimed(S, v, qty)
                             /\ Neg(freed)[v] = 0 - Claimed(S, v, qty)
    BY <1>5 DEF Neg
<1>7. MoveStock(freed, Neg(freed))
  <2> HIDE DEF freed
  <2>1. stock' \in [Variants -> Nat] /\ reserved' \in [Variants -> Nat]
      BY CommitWrites
  <2>2. \A v \in Variants : /\ stock'[v] = stock[v] + freed[v]
                            /\ reserved'[v] = reserved[v] + Neg(freed)[v]
      BY <1>5, <1>6
  <2> QED
      BY <1>6, <2>1, <2>2, MoveStockBy
<1>8. ASSUME NEW o \in Orders
      PROVE  /\ status'[o] = IF o \in S THEN "cancelled" ELSE status[o]
             /\ deadline'[o] = IF o \in S THEN "none" ELSE deadline[o]
             /\ payment'[o] = payment[o] /\ qty'[o] = qty[o]
  <2>1. CASE o \in S
    <3>1. PICK j \in tx[t].done : j.order = o
        BY <1>4, <2>1
    <3> QED
        BY <1>2, <2>1, <3>1, CommitWrites
  <2>2. CASE o \notin S
      BY <1>4, <2>2, CommitWrites
  <2> QED
      BY <2>1, <2>2
<1>9. /\ status' = [o \in Orders |-> status'[o]] /\ deadline' = [o \in Orders |-> deadline'[o]]
      /\ payment' = [o \in Orders |-> payment'[o]] /\ qty' = [o \in Orders |-> qty'[o]]
      /\ supplied' = [v \in Variants |-> supplied[v] + 0]
    BY <1>1, CommitWrites
<1>10. status' = [x \in Orders |-> IF x \in S THEN "cancelled" ELSE status[x]]
    BY <1>8, <1>9
<1>11. deadline' = [x \in Orders |-> IF x \in S THEN "none" ELSE deadline[x]]
    BY <1>8, <1>9
<1>12. payment' = payment /\ qty' = qty /\ supplied' = supplied
  <2>1. /\ payment = [o \in Orders |-> payment[o]] /\ qty = [o \in Orders |-> qty[o]]
        /\ supplied = [v \in Variants |-> supplied[v]]
        /\ \A v \in Variants : supplied[v] + 0 = supplied[v]
      BY <1>1, BoundsAssumption DEF TypeOK
  <2> QED
      BY <1>8, <1>9, <2>1
<1>13. S # {}
    BY <1>3, <1>4
<1> HIDE DEF E
<1>14. ReleaseExpired(S)
    BY <1>7, <1>10, <1>11, <1>12, <1>13 DEF ReleaseExpired
<1> QED
    BY <1>14 DEF Next

LEMMA CreateCommits ==
    ASSUME TxIInv, NEW t \in Txs, Commit(t), NEW now \in tx[t].done, now.from = "absent"
    PROVE  Next
<1> DEFINE q == tx[t].cart
           o == now.order
<1>1. TypeOK /\ TxTyped /\ TxHolds(t) /\ JobsInTurn(t) /\ JobsHold(t) /\ AbsentIsUnpaid
    BY DEF TxIInv, IInv, TxHolds
<1>2. now.to = "pending" /\ tx[t].kind = "create" /\ status[o] = "absent"
      /\ o \in Orders /\ now \in Jobs /\ tx[t].moves = {}
    BY CommitWrites DEF JobHolds, Statuses, Reserving, Fulfilled
<1>3. tx[t].now = now
    BY <1>1 DEF JobsInTurn
<1>4. ~Supplies(t) /\ ~Settles(t) /\ q \in Cart /\ q # NoItems
    BY <1>1, <1>2 DEF Supplies, Settles, JobsHold
<1>5. ASSUME NEW j \in tx[t].done, j # now
      PROVE  j.from = "pending" /\ j.to = "cancelled" /\ j.order \in Expired
  <2>1. j.from = "pending"
      BY <1>1, <1>3, <1>5 DEF JobsInTurn
  <2> QED
      BY <1>4, <2>1, CommitWrites DEF JobHolds
<1>6. Behind(t) \in SUBSET Expired
    BY <1>3, <1>5 DEF Behind
<1>7. PICK S \in SUBSET Expired : S = Behind(t)
    BY <1>6
<1>8. q \in [Variants -> Int]
    BY <1>4, BoundsAssumption DEF Cart
<1>9. ASSUME NEW v \in Variants
      PROVE  /\ Claimed(S, v, qty) \in Int /\ q[v] \in Int
             /\ stock'[v] = stock[v] + (Claimed(S, v, qty) - q[v])
             /\ reserved'[v] = reserved[v] + (q[v] - Claimed(S, v, qty))
  <2>1. ItemsOf(t, now) = q /\ ToShelf(now) = -1 /\ ToReserve(now) = 1
      BY <1>2 DEF ItemsOf, ToShelf, ToReserve, OnShelf, InReserve, Reserving
  <2>2. q[v] \in Int
      BY <1>8
  <2>3. ShelfChange(t, v) = -q[v] /\ ReserveChange(t, v) = q[v]
      BY <1>3, <1>4, <2>1, <2>2 DEF ShelfChange, ReserveChange
  <2>4. ~NotYet(t, v)
      BY <1>2 DEF NotYet
  <2>5. Claimed(S, v, qty) = Claimed(Behind(t), v, qty) /\ Claimed(Behind(t), v, qty) \in Nat
      BY <1>1, <1>7, BehindOrders, Zenon
  <2>6. ShelfDelta(t, v) = Claimed(S, v, qty) + (-q[v])
        /\ ReserveDelta(t, v) = q[v] - Claimed(S, v, qty)
      BY <2>3, <2>4, <2>5 DEF ShelfDelta, ReserveDelta
  <2>7. stock'[v] = stock[v] + ShelfDelta(t, v) /\ reserved'[v] = reserved[v] + ReserveDelta(t, v)
      BY CommitWrites
  <2>8. Claimed(S, v, qty) \in Int
      BY <2>5
  <2>9. Claimed(S, v, qty) + (-q[v]) = Claimed(S, v, qty) - q[v]
      BY <2>2, <2>8
  <2> QED
      BY <2>2, <2>6, <2>7, <2>8, <2>9
<1> DEFINE freed == [v \in Variants |-> Claimed(S, v, qty)]
           a     == [v \in Variants |-> freed[v] - q[v]]
           b     == [v \in Variants |-> q[v] - freed[v]]
<1>10. /\ a \in [Variants -> Int] /\ b \in [Variants -> Int]
       /\ \A v \in Variants : /\ a[v] = Claimed(S, v, qty) - q[v]
                              /\ b[v] = q[v] - Claimed(S, v, qty)
    BY <1>9
<1>11. MoveStock(a, b)
  <2> HIDE DEF a, b, freed, q
  <2> QED
      BY <1>9, <1>10, CommitWrites, MoveStockBy
<1>12. ASSUME NEW x \in Orders
       PROVE  /\ status'[x] = IF x = o THEN "pending" ELSE IF x \in S THEN "cancelled"
                                                                      ELSE status[x]
              /\ deadline'[x] = IF x = o THEN "running" ELSE IF x \in S THEN "none"
                                                                        ELSE deadline[x]
              /\ payment'[x] = IF x = o THEN "unpaid" ELSE payment[x]
              /\ qty'[x] = IF x = o THEN q ELSE qty[x]
  <2>1. CASE x = o
      BY <1>1, <1>2, <2>1, CommitWrites DEF AbsentIsUnpaid
  <2>2. CASE x # o /\ x \in S
    <3>1. PICK j \in tx[t].done : j.order = x /\ j # now
        BY <1>7, <2>2 DEF Behind
    <3> QED
        BY <1>5, <2>2, <3>1, CommitWrites
  <2>3. CASE x # o /\ x \notin S
    <3>1. \A j \in tx[t].done : j.order # x
        BY <1>3, <1>7, <2>3 DEF Behind
    <3> QED
        BY <2>3, <3>1, CommitWrites
  <2> QED
      BY <2>1, <2>2, <2>3
<1>13. /\ status' = [x \in Orders |-> status'[x]] /\ deadline' = [x \in Orders |-> deadline'[x]]
       /\ payment' = [x \in Orders |-> payment'[x]] /\ qty' = [x \in Orders |-> qty'[x]]
       /\ supplied' = [v \in Variants |-> supplied[v] + 0]
    BY <1>4, CommitWrites
<1> HIDE DEF q, o
<1>14. status' = [x \in Orders |-> IF x = o THEN "pending" ELSE IF x \in S THEN "cancelled"
                                                                  ELSE status[x]]
    BY <1>12, <1>13
<1>15. deadline' = [x \in Orders |-> IF x = o THEN "running" ELSE IF x \in S THEN "none"
                                                                    ELSE deadline[x]]
    BY <1>12, <1>13
<1>16. qty' = [qty EXCEPT ![o] = q] /\ payment' = [payment EXCEPT ![o] = "unpaid"]
  <2>1. qty \in [Orders -> Cart] /\ payment \in [Orders -> Payments]
      BY <1>1 DEF TypeOK
  <2> QED
      BY <1>12, <1>13, <2>1
<1>17. supplied' = supplied
  <2>1. supplied \in [Variants -> 0..MaxSupply]
        /\ \A v \in Variants : supplied[v] + 0 = supplied[v]
      BY <1>1, BoundsAssumption DEF TypeOK
  <2> QED
      BY <1>13, <2>1
<1>18. status[o] = "absent" /\ o \in Orders
    BY <1>2 DEF o
<1> HIDE DEF a, b
<1>19. CreateOrder(o, q, S)
    BY <1>4, <1>11, <1>14, <1>15, <1>16, <1>17, <1>18 DEF CreateOrder, a, b
<1> QED
    BY <1>4, <1>18, <1>19 DEF Next

LEMMA SettleCommits ==
    ASSUME TxIInv, NEW t \in Txs, Commit(t), Settles(t), tx[t].done # {}
    PROVE  Next
<1> DEFINE job == tx[t].now
           o   == job.order
           to  == job.to
<1>1. TypeOK /\ TxTyped /\ TxHolds(t) /\ JobsInTurn(t) /\ JobsHold(t)
    BY DEF TxIInv, IInv, TxHolds
<1>2. ~Supplies(t) /\ tx[t].moves = {} /\ tx[t].kind \in {"update", "delete"}
      /\ tx[t].kind # "create" /\ ~Expires(t)
    BY CommitWrites DEF Supplies, Settles, Expires
<1>3. job \in tx[t].done /\ tx[t].done = {job} /\ job \in Jobs /\ o \in Orders
      /\ JobHolds(t, job) /\ job.from # "unread" /\ to \in Statuses \cup {"absent"}
  <2>1. job \in tx[t].done /\ \A i, j \in tx[t].done : i = j
      BY <1>1 DEF JobsInTurn, JobsHold, JobsOf
  <2>2. tx[t].done = {job}
      BY <2>1
  <2> HIDE DEF job
  <2> QED
      BY <2>1, <2>2, CommitWrites, JobFields
<1>4. status[o] = job.from /\ job.from \in Statuses /\ job.from # to /\ job.from # "absent"
    BY <1>2, <1>3 DEF JobHolds, Statuses, Reserving, Fulfilled
<1>5. ASSUME NEW v \in Variants
      PROVE  /\ stock'[v] = stock[v] + qty[o][v] * (OnShelf(to) - OnShelf(status[o]))
             /\ reserved'[v] = reserved[v] + qty[o][v] * (InReserve(to) - InReserve(status[o]))
  <2>1. Behind(t) = {}
      BY <1>3 DEF Behind
  <2>2. Claimed(Behind(t), v, qty) = 0 /\ ~NotYet(t, v)
      BY <1>2, <1>3, <2>1, ClaimedNothing DEF NotYet
  <2>3. /\ ShelfChange(t, v) = qty[o][v] * (OnShelf(to) - OnShelf(status[o]))
        /\ ReserveChange(t, v) = qty[o][v] * (InReserve(to) - InReserve(status[o]))
      BY <1>2, <1>4 DEF ShelfChange, ReserveChange, ItemsOf, ToShelf, ToReserve
  <2>4. ShelfChange(t, v) \in Int /\ ReserveChange(t, v) \in Int
      BY <1>1, <1>2, <1>3, ItemsTyped DEF ShelfChange, ReserveChange
  <2>5. ShelfDelta(t, v) = ShelfChange(t, v) /\ ReserveDelta(t, v) = ReserveChange(t, v)
      BY <2>2, <2>4 DEF ShelfDelta, ReserveDelta
  <2>6. /\ stock'[v] = stock[v] + ShelfDelta(t, v)
        /\ reserved'[v] = reserved[v] + ReserveDelta(t, v)
      BY CommitWrites
  <2> HIDE DEF job, o, to
  <2> QED
      BY <2>3, <2>5, <2>6
<1>6. /\ status'[o] = to
      /\ deadline'[o] = IF to = "pending" THEN "running" ELSE "none"
      /\ payment'[o] = IF to = "absent" THEN "unpaid" ELSE payment[o]
      /\ qty'[o] = IF to = "absent" THEN NoItems ELSE qty[o]
    BY <1>3, <1>4, CommitWrites
<1>7. ASSUME NEW x \in Orders, x # o
      PROVE  /\ status'[x] = status[x] /\ deadline'[x] = deadline[x]
             /\ payment'[x] = payment[x] /\ qty'[x] = qty[x]
    BY <1>3, <1>7, CommitWrites
<1>8. /\ status' = [x \in Orders |-> status'[x]] /\ deadline' = [x \in Orders |-> deadline'[x]]
      /\ payment' = [x \in Orders |-> payment'[x]] /\ qty' = [x \in Orders |-> qty'[x]]
      /\ supplied' = [v \in Variants |-> supplied[v] + 0]
      /\ stock' \in [Variants -> Nat] /\ reserved' \in [Variants -> Nat]
    BY <1>2, CommitWrites
<1>9. /\ status \in [Orders -> Statuses \cup {"absent"}] /\ payment \in [Orders -> Payments]
      /\ deadline \in [Orders -> {"none", "running", "passed"}]
      /\ qty \in [Orders -> Cart] /\ supplied \in [Variants -> 0..MaxSupply]
    BY <1>1 DEF TypeOK
<1>10. supplied' = supplied
  <2>1. \A v \in Variants : supplied[v] + 0 = supplied[v]
      BY <1>9, BoundsAssumption
  <2> QED
      BY <1>8, <1>9, <2>1
<1>11. o \in Orders /\ to \in Statuses \cup {"absent"} /\ status[o] \in Statuses
       /\ to # status[o]
    BY <1>3, <1>4
<1> HIDE DEF job, o, to
<1>12. status' = [status EXCEPT ![o] = to]
    BY <1>6, <1>7, <1>8, <1>9
<1>13. deadline' = [deadline EXCEPT ![o] = IF to = "pending" THEN "running" ELSE "none"]
    BY <1>6, <1>7, <1>8, <1>9
<1>14. payment' = IF to = "absent" THEN [payment EXCEPT ![o] = "unpaid"] ELSE payment
    BY <1>6, <1>7, <1>8, <1>9
<1>15. qty' = IF to = "absent" THEN [qty EXCEPT ![o] = NoItems] ELSE qty
    BY <1>6, <1>7, <1>8, <1>9
<1> QED
    BY <1>1, <1>5, <1>8, <1>10, <1>11, <1>12, <1>13, <1>14, <1>15, SettledStep

LEMMA NothingCommits ==
    ASSUME TxIInv, NEW t \in Txs, Commit(t), ~Supplies(t), tx[t].done = {}
    PROVE  UNCHANGED vars
<1>1. TypeOK /\ tx[t].moves = {}
    BY CommitWrites DEF TxIInv, IInv
<1>2. ASSUME NEW v \in Variants
      PROVE  stock'[v] = stock[v] + 0 /\ reserved'[v] = reserved[v] + 0
  <2>1. Behind(t) = {} /\ NotYet(t, v)
      BY DEF Behind, NotYet
  <2>2. Claimed(Behind(t), v, qty) = 0
      BY <2>1, ClaimedNothing
  <2>3. ShelfDelta(t, v) = 0 /\ ReserveDelta(t, v) = 0
      BY <2>1, <2>2 DEF ShelfDelta, ReserveDelta
  <2> QED
      BY <2>3, CommitWrites
<1>3. stock' \in [Variants -> Nat] /\ reserved' \in [Variants -> Nat]
    BY CommitWrites
<1>4. stock' = stock /\ reserved' = reserved
    BY <1>1, <1>2, <1>3, NoStockMoved
<1>5. status' = status /\ deadline' = deadline /\ payment' = payment /\ qty' = qty
    BY <1>1, CommitWrites DEF TypeOK
<1>6. supplied' = supplied
  <2>1. supplied \in [Variants -> 0..MaxSupply]
        /\ \A v \in Variants : supplied[v] + 0 = supplied[v]
      BY <1>1, BoundsAssumption DEF TypeOK
  <2>2. supplied' = [v \in Variants |-> supplied[v] + 0]
      BY CommitWrites
  <2> QED
      BY <2>1, <2>2
<1> QED
    BY <1>4, <1>5, <1>6 DEF vars

LEMMA CommitImplements ==
    ASSUME TxIInv, NEW t \in Txs, Commit(t)
    PROVE  [Next]_vars
<1>1. Supplies(t) \/ Settles(t) \/ Expires(t)
  <2>1. tx[t].kind \in TxKinds /\ tx[t].kind # "idle"
      BY TxFields, CommitWrites DEF TxIInv
  <2> QED
      BY <2>1 DEF TxKinds, Supplies, Settles, Expires
<1>2. CASE Supplies(t)
    BY <1>2, SupplyCommits
<1>3. CASE ~Supplies(t) /\ tx[t].done = {}
    BY <1>3, NothingCommits
<1>4. CASE Settles(t) /\ tx[t].done # {}
    BY <1>4, SettleCommits
<1>5. CASE Expires(t) /\ tx[t].done # {}
    BY <1>5, ReleaseCommits, CreateCommits
<1> QED
    BY <1>1, <1>2, <1>3, <1>4, <1>5

-----------------------------------------------------------------------------
(* Commits, rollbacks and the steps that need no transaction.                 *)

(* A transaction that ended holds nothing.                                    *)
LEMMA EndHolds ==
    ASSUME TxIInv, NEW t \in Txs, tx' = [tx EXCEPT ![t] = Idle], owner' = Released(t),
           total' \in [Products -> Nat], IInv', AbsentIsUnpaid',
           \A u \in Txs \ {t} :
              /\ \A job \in JobsOf(u) : job.from # "unread" =>
                    /\ status'[job.order] = status[job.order]
                    /\ qty'[job.order] = qty[job.order]
                    /\ payment'[job.order] = payment[job.order]
                    /\ deadline'[job.order] = deadline[job.order]
              /\ \A v \in Variants : owner[v] = u => /\ stock'[v] = stock[v]
                                                     /\ reserved'[v] = reserved[v]
                                                     /\ supplied'[v] = supplied[v]
    PROVE  TxIInv'
<1>1. TypeOK /\ TxTyped /\ \A u \in Txs : TxHolds(u)
    BY DEF TxIInv, IInv
<1>2. /\ owner' \in [Rows -> Txs \cup {None}]
      /\ \A row \in Rows : owner'[row] # t
      /\ \A u \in Txs \ {t} : \A row \in Rows : owner'[row] = u <=> owner[row] = u
    BY <1>1, RowsDiffer DEF Released, TxTyped
<1>3. TxTyped' /\ tx'[t] = Idle /\ \A u \in Txs \ {t} : tx'[u] = tx[u]
    BY <1>1, <1>2, IdleTyped DEF TxTyped
<1>4. /\ tx'[t].kind = "idle" /\ tx'[t].locks = {} /\ tx'[t].moves = {} /\ tx'[t].jobs = {}
      /\ tx'[t].done = {}
    BY <1>3 DEF Idle
<1>5. JobsOf(t)' = {} /\ ~Supplies(t)' /\ ~Settles(t)' /\ Behind(t)' = {}
    BY <1>4 DEF JobsOf, Supplies, Settles, Behind
<1>6. \A v \in Variants : ShelfDelta(t, v)' = 0 /\ ReserveDelta(t, v)' = 0
  <2> TAKE v \in Variants
  <2>1. Claimed(Behind(t), v, qty)' = 0
      BY <1>5, ClaimedNothing
  <2>2. NotYet(t, v)'
      BY <1>4, <1>5 DEF NotYet
  <2> QED
      BY <2>1, <2>2 DEF ShelfDelta, ReserveDelta
<1>7. TxHolds(t)'
    BY <1>2, <1>4, <1>5, <1>6, RowsDiffer
       DEF TxHolds, JobsHold, JobsInTurn, LocksHold, SuppliesHold, MemoryHolds
<1>8. ASSUME NEW u \in Txs \ {t} PROVE TxHolds(u)'
    BY <1>1, <1>2, <1>3, OthersHold
<1>9. NewOrdersDiffer'
    BY <1>3, <1>5, NewOrdersKept
<1> QED
    BY <1>3, <1>7, <1>8, <1>9 DEF TxIInv

LEMMA RollbackHolds ==
    ASSUME TxIInv, NEW t \in Txs, Rollback(t)
    PROVE  TxIInv' /\ UNCHANGED vars
<1>1. /\ tx' = [tx EXCEPT ![t] = Idle] /\ owner' = Released(t) /\ UNCHANGED <<vars, total>>
    BY DEF Rollback
<1>2. /\ status' = status /\ payment' = payment /\ deadline' = deadline /\ qty' = qty
      /\ stock' = stock /\ reserved' = reserved /\ supplied' = supplied /\ total' = total
    BY <1>1 DEF vars
<1>3. IInv' /\ AbsentIsUnpaid' /\ total' \in [Products -> Nat]
    BY <1>2, NextIInv DEF vars, AbsentIsUnpaid, TxIInv, TxTyped
<1> QED
    BY <1>1, <1>2, <1>3, EndHolds

(* Two transactions never work on the same order.                             *)
LEMMA OrdersApart ==
    ASSUME TxIInv, NEW t \in Txs, NEW u \in Txs, t # u,
           NEW i \in JobsOf(t), NEW j \in JobsOf(u),
           i.from # "unread", j.from # "unread"
    PROVE  i.order # j.order
<1>1. TypeOK /\ JobHolds(t, i) /\ JobHolds(u, j) /\ NewOrdersDiffer
    BY DEF TxIInv, IInv, TxHolds, JobsHold
<1>2. CASE i.from = "absent" /\ j.from = "absent"
    BY <1>1, <1>2 DEF NewOrdersDiffer
<1>3. i.from = "absent" \/ (owner[i.order] = t /\ status[i.order] \in Statuses)
    BY <1>1 DEF JobHolds, Expired, Statuses, Reserving
<1>4. j.from = "absent" \/ (owner[j.order] = u /\ status[j.order] \in Statuses)
    BY <1>1 DEF JobHolds, Expired, Statuses, Reserving
<1>5. /\ i.from = "absent" => status[i.order] = "absent"
      /\ j.from = "absent" => status[j.order] = "absent"
    BY <1>1 DEF JobHolds, Statuses, Reserving, Fulfilled
<1>6. "absent" \notin Statuses
    BY DEF Statuses, Reserving, Fulfilled
<1> QED
    BY <1>2, <1>3, <1>4, <1>5, <1>6

LEMMA CommitHolds ==
    ASSUME TxIInv, NEW t \in Txs, Commit(t)
    PROVE  TxIInv'
<1>1. TypeOK /\ TxTyped /\ \A u \in Txs : TxHolds(u)
    BY DEF TxIInv, IInv
<1>2. IInv'
    BY CommitImplements, NextIInv DEF TxIInv
<1>3. AbsentIsUnpaid'
  <2> SUFFICES ASSUME NEW o \in Orders, status'[o] = "absent" PROVE payment'[o] = "unpaid"
      BY DEF AbsentIsUnpaid
  <2>1. CASE \E j \in tx[t].done : j.order = o
      BY <2>1, CommitWrites
  <2>2. CASE \A j \in tx[t].done : j.order # o
      BY <2>2, CommitWrites DEF TxIInv, AbsentIsUnpaid
  <2> QED
      BY <2>1, <2>2
<1>4. /\ tx' = [tx EXCEPT ![t] = Idle] /\ owner' = Released(t)
      /\ total' = [p \in Products |-> IF p \in tx[t].writes THEN tx[t].total[p] ELSE total[p]]
    BY DEF Commit
<1>5. total' \in [Products -> Nat]
    BY <1>1, <1>4, TxFields DEF TxTyped
<1>6. ASSUME NEW u \in Txs \ {t}, NEW job \in JobsOf(u), job.from # "unread"
      PROVE  /\ status'[job.order] = status[job.order] /\ qty'[job.order] = qty[job.order]
             /\ payment'[job.order] = payment[job.order]
             /\ deadline'[job.order] = deadline[job.order]
  <2>1. job.order \in Orders
      BY <1>1, TxFields, JobFields
  <2>2. ASSUME NEW j \in tx[t].done PROVE j.order # job.order
    <3>1. j \in JobsOf(t) /\ j.from # "unread"
        BY CommitWrites DEF JobsOf
    <3> QED
        BY <1>6, <3>1, OrdersApart
  <2> QED
      BY <2>1, <2>2, CommitWrites
<1>7. ASSUME NEW u \in Txs \ {t}, NEW v \in Variants, owner[v] = u
      PROVE  stock'[v] = stock[v] /\ reserved'[v] = reserved[v] /\ supplied'[v] = supplied[v]
  <2>1. owner[v] # t
      BY <1>7
  <2>2. ShelfDelta(t, v) = 0 /\ ReserveDelta(t, v) = 0
      BY <1>1, <2>1 DEF TxHolds, MemoryHolds
  <2>3. stock[v] \in Nat /\ reserved[v] \in Nat /\ supplied[v] \in Int
      BY <1>1, BoundsAssumption DEF TypeOK
  <2>4. stock'[v] = stock[v] + 0 /\ reserved'[v] = reserved[v] + 0
      BY <2>2, CommitWrites
  <2>5. Supplies(t) => tx[t].cart[v] = 0
      BY <1>1, <2>1, CommitWrites DEF TxHolds, SuppliesHold
  <2>6. supplied'[v] = supplied[v] + 0
      BY <2>5, CommitWrites
  <2> QED
      BY <2>3, <2>4, <2>6
<1> QED
    BY <1>2, <1>3, <1>4, <1>5, <1>6, <1>7, EndHolds

(* A payment step writes an order that nobody has locked, and time makes no   *)
(* expired reservation young again.                                           *)
LEMMA NoTransactionHolds ==
    ASSUME TxIInv, PaymentStep \/ Tick
    PROVE  TxIInv' /\ Next
<1>1. TypeOK /\ TxTyped /\ \A u \in Txs : TxHolds(u)
    BY DEF TxIInv, IInv
<1>2. PICK o \in Orders :
        \/ /\ owner[o] = None
           /\ CheckoutOpened(o) \/ PaymentReported(o) \/ ReceiptConfirmed(o)
        \/ DeadlinePasses(o)
    BY DEF PaymentStep, Tick
<1>3. Next
    BY <1>2 DEF Next
<1>4. IInv'
    BY <1>3, NextIInv DEF TxIInv
<1>5. /\ status' = status /\ qty' = qty /\ stock' = stock /\ reserved' = reserved
      /\ supplied' = supplied
    BY <1>2 DEF CheckoutOpened, PaymentReported, ReceiptConfirmed, DeadlinePasses
<1>6. total' = total /\ owner' = owner /\ tx' = tx
    BY DEF PaymentStep, Tick
<1>7. \A x \in Orders : \/ payment'[x] = payment[x] /\ deadline'[x] = deadline[x]
                        \/ x = o /\ owner[o] = None /\ status[o] # "absent"
                        \/ x = o /\ deadline[o] # "passed" /\ payment'[x] = payment[x]
  <2>1. payment \in [Orders -> Payments] /\ deadline \in [Orders -> {"none", "running", "passed"}]
      BY <1>1 DEF TypeOK
  <2>2. CASE DeadlinePasses(o)
      BY <2>1, <2>2 DEF DeadlinePasses
  <2>3. CASE CheckoutOpened(o) /\ owner[o] = None
    <3>1. \E a, b : /\ payment' = [payment EXCEPT ![o] = a]
                    /\ deadline' = [deadline EXCEPT ![o] = b]
        BY <2>3 DEF CheckoutOpened
    <3> QED
        BY <2>1, <2>3, <3>1 DEF CheckoutOpened
  <2>4. CASE (PaymentReported(o) \/ ReceiptConfirmed(o)) /\ owner[o] = None
      BY <2>1, <2>4 DEF PaymentReported, ReceiptConfirmed
  <2> QED
      BY <1>2, <2>2, <2>3, <2>4
<1>8. AbsentIsUnpaid'
    BY <1>5, <1>7 DEF AbsentIsUnpaid, TxIInv
<1>9. TxTyped' /\ NewOrdersDiffer'
    BY <1>6 DEF TxIInv, TxTyped, NewOrdersDiffer, JobsOf
<1>10. ASSUME NEW u \in Txs PROVE TxHolds(u)'
  <2>1. ASSUME NEW job \in JobsOf(u), owner[job.order] = u, job.order \in Expired
        PROVE  payment'[job.order] = payment[job.order]
               /\ deadline'[job.order] = deadline[job.order]
    <3>1. job.order \in Orders /\ u # None
        BY <1>1, TxFields, JobFields, RowsDiffer
    <3> QED
        BY <1>7, <2>1, <3>1 DEF Expired
  <2> QED
      BY <1>1, <1>5, <1>6, <2>1, OthersHold
<1> QED
    BY <1>3, <1>4, <1>8, <1>9, <1>10 DEF TxIInv

-----------------------------------------------------------------------------
(* The theorems.                                                              *)

LEMMA InitTxIInv == TxInit => TxIInv
<1> SUFFICES ASSUME TxInit PROVE TxIInv
    OBVIOUS
<1>1. IInv /\ TypeOK
    BY InitIInv DEF TxInit, IInv
<1>2. AbsentIsUnpaid
    BY DEF TxInit, Init, AbsentIsUnpaid
<1>3. /\ total = [p \in Products |-> 0] /\ owner = [r \in Rows |-> None]
      /\ tx = [t \in Txs |-> Idle]
    BY DEF TxInit
<1>4. TxTyped
    BY <1>3, IdleTyped DEF TxTyped
<1>5. ASSUME NEW t \in Txs PROVE TxHolds(t) /\ JobsOf(t) = {}
  <2>1. /\ tx[t].kind = "idle" /\ tx[t].locks = {} /\ tx[t].moves = {} /\ tx[t].jobs = {}
        /\ tx[t].done = {} /\ \A r \in Rows : owner[r] # t
      BY <1>3, RowsDiffer DEF Idle
  <2>2. JobsOf(t) = {} /\ ~Supplies(t) /\ ~Settles(t) /\ Behind(t) = {}
      BY <2>1 DEF JobsOf, Supplies, Settles, Behind
  <2>3. ASSUME NEW v \in Variants PROVE ShelfDelta(t, v) = 0 /\ ReserveDelta(t, v) = 0
    <3>1. Claimed(Behind(t), v, qty) = 0 /\ NotYet(t, v)
        BY <2>1, <2>2, ClaimedNothing DEF NotYet
    <3> QED
        BY <3>1 DEF ShelfDelta, ReserveDelta
  <2> QED
      BY <2>1, <2>2, <2>3, RowsDiffer
         DEF TxHolds, JobsHold, JobsInTurn, LocksHold, SuppliesHold, MemoryHolds
<1>6. NewOrdersDiffer
    BY <1>5 DEF NewOrdersDiffer
<1> QED
    BY <1>1, <1>2, <1>4, <1>5, <1>6 DEF TxIInv

LEMMA StutterTxIInv ==
    ASSUME TxIInv, UNCHANGED txVars
    PROVE  TxIInv'
<1>1. /\ status' = status /\ payment' = payment /\ deadline' = deadline /\ qty' = qty
      /\ stock' = stock /\ reserved' = reserved /\ supplied' = supplied
      /\ total' = total /\ owner' = owner /\ tx' = tx
    BY DEF txVars, vars
<1>2. IInv'
    BY <1>1, NextIInv DEF TxIInv, vars
<1>3. AbsentIsUnpaid' /\ TxTyped' /\ NewOrdersDiffer'
    BY <1>1 DEF TxIInv, AbsentIsUnpaid, TxTyped, NewOrdersDiffer, JobsOf
<1>4. ASSUME NEW u \in Txs PROVE TxHolds(u)'
    BY <1>1, OthersHold DEF TxIInv, IInv
<1> QED
    BY <1>2, <1>3, <1>4 DEF TxIInv

(* Every step of a transaction keeps the invariant, and is a step of          *)
(* OrderStock only when it commits.                                           *)
LEMMA TxStep == TxIInv /\ [TxNext]_txVars => TxIInv' /\ [Next]_vars
<1> DEFINE Goal == TxIInv' /\ [Next]_vars
<1> SUFFICES ASSUME TxIInv, [TxNext]_txVars PROVE Goal
    OBVIOUS
<1>1. ASSUME NEW t \in Txs,
             \/ \E o \in Orders, new \in NewStatuses : BeginUpdate(t, o, new)
             \/ \E o \in Orders : BeginDelete(t, o)
             \/ BeginRelease(t)
             \/ \E o \in Orders, q \in Cart : BeginCreate(t, o, q)
             \/ \E v \in Variants, d \in {-1, 1} : BeginAdjust(t, v, d)
             \/ \E v \in Variants : BeginReceive(t, v)
      PROVE  Goal
  <2>1. TxIInv'
      BY <1>1, BeginsHold
  <2>2. UNCHANGED vars
      BY <1>1 DEF Begin, BeginUpdate, BeginDelete, BeginRelease, BeginCreate, BeginAdjust,
                  BeginReceive
  <2> QED
      BY <2>1, <2>2
<1>2. ASSUME NEW t \in Txs,
             \/ \E o \in Orders : LockOrder(t, o) \/ LockExpired(t, o)
             \/ \E v \in Variants : LockVariant(t, v)
             \/ \E p \in Products : LockProduct(t, p)
      PROVE  Goal
  <2>1. TxIInv'
      BY <1>2, LockOrderHolds, LockExpiredHolds, LockVariantHolds, LockProductHolds
  <2>2. UNCHANGED vars
      BY <1>2 DEF LockOrder, LockExpired, LockVariant, LockProduct, Locking
  <2> QED
      BY <2>1, <2>2
<1>3. ASSUME NEW t \in Txs, NEW job \in tx[t].jobs, StartJob(t, job) PROVE Goal
    BY <1>3, StartJobHolds DEF StartJob
<1>4. ASSUME NEW t \in Txs, NEW v \in tx[t].moves, MoveItem(t, v) PROVE Goal
    BY <1>4, MoveItemHolds DEF MoveItem
<1>5. ASSUME NEW t \in Txs, Commit(t) PROVE Goal
    BY <1>5, CommitHolds, CommitImplements
<1>6. ASSUME NEW t \in Txs, Rollback(t) PROVE Goal
    BY <1>6, RollbackHolds
<1>7. CASE PaymentStep \/ Tick
    BY <1>7, NoTransactionHolds
<1>8. CASE UNCHANGED txVars
    BY <1>8, StutterTxIInv DEF txVars
<1> HIDE DEF Goal
<1> QED
    BY <1>1, <1>2, <1>3, <1>4, <1>5, <1>6, <1>7, <1>8 DEF TxNext

LEMMA TxInvariant == TxSpec => []TxIInv
<1>1. TxIInv /\ [TxNext]_txVars => TxIInv'
    BY TxStep
<1> QED
    BY <1>1, InitTxIInv, PTL DEF TxSpec

(* The locks, the plans and the memory of every transaction stay well formed; *)
(* none ever works with less than nothing on the shelf or in the reservation. *)
THEOREM TransactionsAreTyped == TxSpec => []TxTypeOK
<1>1. TxIInv => TxTypeOK
  <2> SUFFICES ASSUME TxIInv PROVE TxTypeOK
      OBVIOUS
  <2>1. total \in [Products -> Nat] /\ owner \in [Rows -> Txs \cup {None}]
      BY DEF TxIInv, TxTyped
  <2> QED
      BY <2>1, TxFields DEF TxIInv, TxTypeOK, TxKinds, Jobs, JobsOf
<1> QED
    BY <1>1, TxInvariant, PTL

(* However requests lock, wait, move items and roll back among each other,    *)
(* what they commit is what OrderStock does one request at a time.            *)
THEOREM LocksMakeRequestsAtomic == TxSpec => TransactionsAreAtomic
<1>1. TxInit => Init
    BY DEF TxInit
<1>2. TxIInv /\ [TxNext]_txVars => [Next]_vars
    BY TxStep
<1>3. TxSpec => Spec
    BY <1>1, <1>2, TxInvariant, PTL DEF TxSpec, Spec
<1> QED
    BY <1>3 DEF TransactionsAreAtomic

(* So the committed books of the interleaved requests always balance too.     *)
THEOREM CommittedBooksBalance == TxSpec => [](ReservedIsOwed /\ Conservation)
<1>1. TxSpec => Spec
    BY LocksMakeRequestsAtomic DEF TransactionsAreAtomic
<1> QED
    BY <1>1, NoReservationLeaks, StockIsConserved, PTL

-----------------------------------------------------------------------------
(* The order of locks.                                                        *)

(* A transaction about one placed order, or about what comes in, has locked   *)
(* smaller ids than it has still to lock, and starts with no variant at all.  *)
Climbs(t) ==
    Settles(t) \/ Supplies(t) =>
        /\ \A w, v \in Variants : owner[w] = t /\ v \in tx[t].locks => Id[w] < Id[v]
        /\ Settles(t) /\ tx[t].done = {}
              => \A v \in Variants : owner[v] # t /\ v \notin tx[t].locks

LEMMA OthersClimb ==
    ASSUME NEW u \in Txs, Climbs(u), tx'[u] = tx[u],
           \A v \in Variants : owner'[v] = u <=> owner[v] = u
    PROVE  Climbs(u)'
BY DEF Climbs, Settles, Supplies

LEMMA BeginClimbs ==
    ASSUME TxIInv, NEW t \in Txs, NEW r, Begin(t, r),
           r.kind \in {"update", "delete"} => r.locks \cap Variants = {}
    PROVE  Climbs(t)'
<1>1. /\ tx' = [tx EXCEPT ![t] = r] /\ owner' = owner /\ TxHolds(t) /\ TxTyped
      /\ tx[t].kind = "idle"
    BY DEF Begin, TxIInv
<1>2. tx'[t] = r /\ \A v \in Variants : owner'[v] # t
    BY <1>1, RowsDiffer DEF TxTyped, TxHolds, LocksHold
<1> QED
    BY <1>2 DEF Climbs, Settles

LEMMA LockClimbs ==
    ASSUME TxIInv, NEW t \in Txs, Climbs(t), NEW row \in Rows, Locking(t, row),
           tx'[t].kind = tx[t].kind, tx'[t].done = tx[t].done,
           tx'[t].locks = tx[t].locks \ {row}
    PROVE  Climbs(t)'
<1>1. /\ row \in NextLocks(t) /\ row \in tx[t].locks /\ owner' = [owner EXCEPT ![row] = t]
      /\ TxTyped
    BY DEF Locking, NextLocks, TxIInv
<1>2. /\ \A x \in Rows : owner'[x] = IF x = row THEN t ELSE owner[x]
      /\ Settles(t)' = Settles(t) /\ Supplies(t)' = Supplies(t)
    BY <1>1 DEF TxTyped, Settles, Supplies
<1>3. ASSUME Settles(t) \/ Supplies(t), NEW w \in Variants, NEW v \in Variants,
             owner'[w] = t, v \in tx'[t].locks
      PROVE  Id[w] < Id[v]
  <2>1. v \in tx[t].locks /\ v # row
      BY <1>3
  <2>2. CASE w # row
      BY <1>2, <1>3, <2>1, <2>2, RowsDiffer DEF Climbs
  <2>3. CASE w = row
    <3>1. ~Before(v, w)
        BY <1>1, <2>1, <2>3 DEF NextLocks
    <3>2. Id[v] \in Nat /\ Id[w] \in Nat /\ Id[v] # Id[w]
        BY <2>1, <2>3, CatalogueAssumption
    <3> QED
        BY <3>1, <3>2 DEF Before
  <2> QED
      BY <2>2, <2>3
<1>4. ASSUME Settles(t), tx[t].done = {}, NEW v \in Variants
      PROVE  owner'[v] # t /\ v \notin tx'[t].locks
    BY <1>1, <1>2, <1>4, RowsDiffer DEF Climbs
<1> QED
    BY <1>2, <1>3, <1>4 DEF Climbs

LEMMA StartJobClimbs ==
    ASSUME TxIInv, NEW t \in Txs, Climbs(t), NEW job \in tx[t].jobs, owner' = owner,
           tx'[t].kind = tx[t].kind, tx'[t].done = tx[t].done \cup {job}
    PROVE  Climbs(t)'
<1>1. JobsInTurn(t) /\ JobsHold(t) /\ SuppliesHold(t) /\ job \in JobsOf(t)
    BY DEF TxIInv, TxHolds, JobsOf
<1>2. ~Supplies(t) /\ Settles(t)' = Settles(t) /\ Supplies(t)' = Supplies(t)
    BY <1>1 DEF SuppliesHold, Settles, Supplies
<1>3. Settles(t) => tx[t].done = {}
    BY <1>1 DEF JobsHold, JobsInTurn, JobsOf
<1> QED
    BY <1>2, <1>3 DEF Climbs

LEMMA ClimbsStep ==
    TxIInv /\ (\A t \in Txs : Climbs(t)) /\ [TxNext]_txVars => (\A t \in Txs : Climbs(t))'
<1> DEFINE All == \A t \in Txs : Climbs(t)
           Goal == All'
<1> SUFFICES ASSUME TxIInv, All, [TxNext]_txVars PROVE Goal
    OBVIOUS
<1>1. TxTyped /\ owner \in [Rows -> Txs \cup {None}] /\ tx \in [Txs -> TxRecords]
      /\ \A t \in Txs : tx[t] \in TxRecords /\ TxHolds(t)
    BY DEF TxIInv, TxTyped
<1>2. ASSUME NEW t \in Txs, NEW r, tx' = [tx EXCEPT ![t] = r], Climbs(t)',
             \A u \in Txs \ {t} : \A v \in Variants : owner'[v] = u <=> owner[v] = u
      PROVE  Goal
  <2>1. \A u \in Txs \ {t} : tx'[u] = tx[u]
      BY <1>1, <1>2
  <2>2. ASSUME NEW u \in Txs \ {t} PROVE Climbs(u)'
      BY <1>2, <2>1, OthersClimb
  <2> QED
      BY <1>2, <2>2
<1>3. ASSUME NEW t \in Txs, NEW r, Begin(t, r),
             r.kind \in {"update", "delete"} => r.locks \cap Variants = {}
      PROVE  Goal
  <2>1. Climbs(t)'
      BY <1>3, BeginClimbs
  <2>2. tx' = [tx EXCEPT ![t] = r] /\ owner' = owner
      BY <1>3 DEF Begin
  <2> QED
      BY <1>2, <2>1, <2>2
<1>4. ASSUME NEW t \in Txs, NEW o \in Orders, NEW kind, NEW to,
             Begin(t, [Idle EXCEPT !.kind = kind, !.locks = {o},
                            !.jobs = {[order |-> o, from |-> "unread", to |-> to]}])
      PROVE  Goal
  <2> DEFINE r == [Idle EXCEPT !.kind = kind, !.locks = {o},
                               !.jobs = {[order |-> o, from |-> "unread", to |-> to]}]
  <2>1. r.locks \cap Variants = {}
      BY RowsDiffer DEF Idle
  <2> HIDE DEF r
  <2>2. Begin(t, r)
      BY <1>4 DEF r
  <2> QED
      BY <1>3, <2>1, <2>2
<1>5. ASSUME NEW t \in Txs,
             \/ \E o \in Orders, new \in NewStatuses : BeginUpdate(t, o, new)
             \/ \E o \in Orders : BeginDelete(t, o)
      PROVE  Goal
    BY <1>4, <1>5 DEF BeginUpdate, BeginDelete
<1>6. ASSUME NEW t \in Txs,
             \/ BeginRelease(t)
             \/ \E o \in Orders, q \in Cart : BeginCreate(t, o, q)
             \/ \E v \in Variants, d \in {-1, 1} : BeginAdjust(t, v, d)
             \/ \E v \in Variants : BeginReceive(t, v)
      PROVE  Goal
  <2>1. PICK r : Begin(t, r) /\ r.kind \notin {"update", "delete"}
    <3>1. CASE BeginRelease(t)
      <4> DEFINE r == [Idle EXCEPT !.kind = "release", !.locks = Expired]
      <4>1. r.kind = "release"
          BY DEF Idle
      <4>2. Begin(t, r)
          BY <3>1 DEF BeginRelease
      <4> HIDE DEF r
      <4> QED
          BY <4>1, <4>2
    <3>2. CASE \E o \in Orders, q \in Cart : BeginCreate(t, o, q)
      <4>1. PICK o \in Orders, q \in Cart : BeginCreate(t, o, q)
          BY <3>2
      <4> DEFINE r == [Idle EXCEPT !.kind = "create", !.cart = q, !.locks = Expired,
                         !.jobs = {[order |-> o, from |-> "absent", to |-> "pending"]}]
      <4>2. r.kind = "create"
          BY DEF Idle
      <4>3. Begin(t, r)
          BY <4>1 DEF BeginCreate
      <4> HIDE DEF r
      <4> QED
          BY <4>2, <4>3
    <3>3. CASE \E v \in Variants, d \in {-1, 1} : BeginAdjust(t, v, d)
      <4>1. PICK v \in Variants, d \in {-1, 1} : BeginAdjust(t, v, d)
          BY <3>3
      <4> DEFINE r == [Idle EXCEPT !.kind = "adjust", !.cart = [NoItems EXCEPT ![v] = d],
                                   !.locks = ProductsFirst({v}), !.moves = {v}]
      <4>2. r.kind = "adjust"
          BY DEF Idle
      <4>3. Begin(t, r)
          BY <4>1 DEF BeginAdjust
      <4> HIDE DEF r
      <4> QED
          BY <4>2, <4>3
    <3>4. CASE \E v \in Variants : BeginReceive(t, v)
      <4>1. PICK v \in Variants : BeginReceive(t, v)
          BY <3>4
      <4> DEFINE r == [Idle EXCEPT !.kind = "receive", !.cart = [NoItems EXCEPT ![v] = 1],
                                   !.locks = {v}, !.moves = {v}]
      <4>2. r.kind = "receive"
          BY DEF Idle
      <4>3. Begin(t, r)
          BY <4>1 DEF BeginReceive
      <4> HIDE DEF r
      <4> QED
          BY <4>2, <4>3
    <3> QED
        BY <1>6, <3>1, <3>2, <3>3, <3>4
  <2> QED
      BY <1>3, <2>1
<1>7. ASSUME NEW t \in Txs, NEW row \in Rows, Locking(t, row), NEW r,
             tx' = [tx EXCEPT ![t] = r], r.kind = tx[t].kind, r.done = tx[t].done,
             r.locks = tx[t].locks \ {row}
      PROVE  Goal
  <2>1. tx'[t] = r
      BY <1>1, <1>7
  <2>2. Climbs(t)'
      BY <1>7, <2>1, LockClimbs
  <2>3. owner' = [owner EXCEPT ![row] = t] /\ owner[row] \in {None, t}
      BY <1>7, RowsDiffer DEF Locking, Free
  <2>4. \A u \in Txs \ {t} : \A v \in Variants : owner'[v] = u <=> owner[v] = u
      BY <1>1, <2>3, RowsDiffer
  <2> QED
      BY <1>2, <1>7, <2>2, <2>4
<1>8. ASSUME NEW t \in Txs,
             \/ \E o \in Orders : LockOrder(t, o) \/ LockExpired(t, o)
             \/ \E p \in Products : LockProduct(t, p)
             \/ \E v \in Variants : LockVariant(t, v)
      PROVE  Goal
  <2>1. \E row \in Rows : \E r : /\ Locking(t, row) /\ tx' = [tx EXCEPT ![t] = r]
                                 /\ r.kind = tx[t].kind /\ r.done = tx[t].done
                                 /\ r.locks = tx[t].locks \ {row}
    <3>1. CASE \E o \in Orders : LockOrder(t, o)
      <4>1. PICK o \in Orders : LockOrder(t, o)
          BY <3>1
      <4>2. PICK jobs : tx' = [tx EXCEPT ![t].locks = @ \ {o}, ![t].jobs = jobs]
          BY <4>1 DEF LockOrder
      <4> DEFINE r == [tx[t] EXCEPT !.locks = @ \ {o}, !.jobs = jobs]
      <4>3. tx' = [tx EXCEPT ![t] = r] /\ r.kind = tx[t].kind /\ r.done = tx[t].done
            /\ r.locks = tx[t].locks \ {o}
          BY <1>1, <4>2 DEF TxRecords
      <4> QED
          BY <4>1, <4>3, RowsDiffer DEF LockOrder
    <3>2. CASE \E o \in Orders : LockExpired(t, o)
      <4>1. PICK o \in Orders : LockExpired(t, o)
          BY <3>2
      <4>2. PICK jobs : tx' = [tx EXCEPT ![t].locks = @ \ {o}, ![t].jobs = jobs]
          BY <4>1 DEF LockExpired
      <4> DEFINE r == [tx[t] EXCEPT !.locks = @ \ {o}, !.jobs = jobs]
      <4>3. tx' = [tx EXCEPT ![t] = r] /\ r.kind = tx[t].kind /\ r.done = tx[t].done
            /\ r.locks = tx[t].locks \ {o}
          BY <1>1, <4>2 DEF TxRecords
      <4> QED
          BY <4>1, <4>3, RowsDiffer DEF LockExpired
    <3>3. CASE \E p \in Products : LockProduct(t, p)
      <4>1. PICK p \in Products : LockProduct(t, p)
          BY <3>3
      <4> DEFINE r == [tx[t] EXCEPT !.locks = @ \ {p}]
      <4>2. tx' = [tx EXCEPT ![t] = r] /\ r.kind = tx[t].kind /\ r.done = tx[t].done
            /\ r.locks = tx[t].locks \ {p}
          BY <1>1, <4>1 DEF TxRecords, LockProduct
      <4> QED
          BY <4>1, <4>2, RowsDiffer DEF LockProduct
    <3>4. CASE \E v \in Variants : LockVariant(t, v)
      <4>1. PICK v \in Variants : LockVariant(t, v)
          BY <3>4
      <4>2. PICK a, b : tx' = [tx EXCEPT ![t].locks = @ \ {v}, ![t].stock[v] = a,
                                         ![t].reserved[v] = b]
          BY <4>1 DEF LockVariant
      <4> DEFINE r == [tx[t] EXCEPT !.locks = @ \ {v}, !.stock[v] = a, !.reserved[v] = b]
      <4>3. tx' = [tx EXCEPT ![t] = r] /\ r.kind = tx[t].kind /\ r.done = tx[t].done
            /\ r.locks = tx[t].locks \ {v}
          BY <1>1, <4>2 DEF TxRecords
      <4> QED
          BY <4>1, <4>3, RowsDiffer DEF LockVariant
    <3> QED
        BY <1>8, <3>1, <3>2, <3>3, <3>4
  <2> QED
      BY <1>7, <2>1
<1>9. ASSUME NEW t \in Txs, NEW job \in tx[t].jobs, StartJob(t, job) PROVE Goal
  <2> DEFINE moves == Moved(t, job)
             locks == IF job.from = "absent" THEN ProductsFirst(moves) ELSE moves
             r == [tx[t] EXCEPT !.jobs = @ \ {job}, !.done = @ \cup {job}, !.now = job,
                                !.moves = moves, !.locks = locks]
  <2>1. tx' = [tx EXCEPT ![t] = r] /\ owner' = owner
      BY <1>9 DEF StartJob
  <2> HIDE DEF moves, locks
  <2>2. r.kind = tx[t].kind /\ r.done = tx[t].done \cup {job}
      BY <1>1 DEF TxRecords
  <2> HIDE DEF r
  <2>3. tx'[t] = r
      BY <1>1, <2>1
  <2>4. Climbs(t)'
      BY <1>9, <2>1, <2>2, <2>3, StartJobClimbs
  <2> QED
      BY <1>2, <2>1, <2>4
<1>10. ASSUME NEW t \in Txs, NEW v \in tx[t].moves, MoveItem(t, v) PROVE Goal
  <2> DEFINE r == AfterItem(t, v)
  <2>1. /\ tx' = [tx EXCEPT ![t] = r] /\ Free(t, tx[t].dirty)
        /\ owner' = IF tx[t].dirty = None THEN owner ELSE [owner EXCEPT ![tx[t].dirty] = t]
      BY <1>10 DEF MoveItem
  <2>2. r.kind = tx[t].kind /\ r.done = tx[t].done /\ r.locks = tx[t].locks
      BY <1>1 DEF AfterItem, TxRecords
  <2>3. \A w \in Variants : owner'[w] = owner[w]
      BY <1>1, <2>1, TxFields, RowsDiffer
  <2> HIDE DEF r
  <2>4. tx'[t] = r
      BY <1>1, <2>1
  <2>5. Climbs(t)'
      BY <2>2, <2>3, <2>4 DEF Climbs, Settles, Supplies
  <2> QED
      BY <1>2, <2>1, <2>3, <2>5
<1>11. ASSUME NEW t \in Txs, Commit(t) \/ Rollback(t) PROVE Goal
  <2>1. tx' = [tx EXCEPT ![t] = Idle] /\ owner' = Released(t)
      BY <1>11 DEF Commit, Rollback
  <2>2. tx'[t].kind = "idle"
      BY <1>1, <2>1 DEF Idle
  <2>3. Climbs(t)'
      BY <2>2 DEF Climbs, Settles, Supplies
  <2>4. \A u \in Txs \ {t} : \A v \in Variants : owner'[v] = u <=> owner[v] = u
      BY <2>1, RowsDiffer DEF Released
  <2> QED
      BY <1>2, <2>1, <2>3, <2>4
<1>12. CASE PaymentStep \/ Tick \/ UNCHANGED txVars
  <2>1. owner' = owner /\ tx' = tx
      BY <1>12 DEF PaymentStep, Tick, txVars
  <2> QED
      BY <2>1, OthersClimb
<1> HIDE DEF Goal, All
<1> QED
    BY <1>5, <1>6, <1>8, <1>9, <1>10, <1>11, <1>12 DEF TxNext

(* A finite set of ids has a largest one.                                     *)
LEMMA LargestOf ==
    ASSUME NEW S \in SUBSET Nat, IsFiniteSet(S), S # {}
    PROVE  \E m \in S : \A n \in S : n <= m
<1> DEFINE above(m) == {n \in S : n > m}
           size == [m \in S |-> Cardinality(above(m))]
           sizes == {size[m] : m \in S}
<1>1. \A m \in S : IsFiniteSet(above(m)) /\ Cardinality(above(m)) \in Nat
    BY FS_Subset, FS_CardinalityType
<1>2. sizes \subseteq Nat /\ sizes # {}
    BY <1>1
<1>3. PICK c \in sizes : \A d \in sizes : ~(<<d, c>> \in OpToRel(<, Nat))
    BY <1>2, NatLessThanWellFounded, WFMin
<1>4. PICK m \in S : c = size[m]
    OBVIOUS
<1>5. \A n \in S : ~(size[n] < size[m])
    BY <1>2, <1>3, <1>4 DEF OpToRel
<1>6. SUFFICES ASSUME NEW n \in S, n > m PROVE FALSE
    OBVIOUS
<1>7. above(n) \in SUBSET above(m) /\ n \in above(m) /\ n \notin above(n)
  <2>1. m \in Nat /\ n \in Nat /\ n > m /\ ~(n > n) /\ n \in S
      BY <1>6
  <2>2. ASSUME NEW x \in S, x > n PROVE x > m
      BY <2>1, <2>2
  <2> QED
      BY <2>1, <2>2
<1>8. above(n) # above(m) /\ IsFiniteSet(above(m)) /\ IsFiniteSet(above(n))
    BY <1>1, <1>7
<1>9. size[n] = Cardinality(above(n)) /\ size[m] = Cardinality(above(m))
    OBVIOUS
<1>10. size[n] \in Nat /\ size[m] \in Nat
    BY <1>1
<1> HIDE DEF above, size
<1>11. Cardinality(above(n)) <= Cardinality(above(m))
       /\ Cardinality(above(n)) # Cardinality(above(m))
    BY <1>7, <1>8, FS_Subset
<1> QED
    BY <1>5, <1>9, <1>10, <1>11

(* However many requests about placed orders and about their supply are in    *)
(* flight, none of them waits for a variant in a circle.                      *)
THEOREM NoDeadlockOnVariants == TxSpec => []VariantsAreLockedInOrder
<1> DEFINE All == \A t \in Txs : Climbs(t)
<1>1. TxIInv /\ All => VariantsAreLockedInOrder
  <2> SUFFICES ASSUME TxIInv, All,
                      NEW S \in (SUBSET {t \in Txs : tx[t].kind \in
                                          {"update", "delete", "adjust", "receive"}}) \ {{}},
                      \A t \in S : \E u \in S : WaitsForVariantOf(t, u)
               PROVE  FALSE
      BY DEF VariantsAreLockedInOrder
  <2>1. \A t \in S : t \in Txs /\ (Settles(t) \/ Supplies(t))
      BY DEF Settles, Supplies
  <2>2. ASSUME NEW t \in S, NEW u, WaitsForVariantOf(t, u)
        PROVE  \E v \in Variants : v \in tx[t].locks /\ owner[v] = u
    <3>1. tx[t].dirty \notin Variants
        BY <2>1, TxFields, RowsDiffer DEF TxIInv
    <3> QED
        BY <2>2, <3>1 DEF WaitsForVariantOf, Wants, NextLocks
  <2> DEFINE waited == {v \in Variants : \E t \in S, u \in S : v \in tx[t].locks /\ owner[v] = u}
             ids    == {Id[v] : v \in waited}
  <2>3. IsFiniteSet(ids) /\ ids # {} /\ ids \in SUBSET Nat
    <3>1. IsFiniteSet(waited)
        BY FS_Subset, CatalogueAssumption
    <3> DEFINE f == [v \in waited |-> Id[v]]
    <3>2. f \in Surjection(waited, ids)
        BY DEF Surjection
    <3>3. PICK t \in S, u \in S : WaitsForVariantOf(t, u)
        OBVIOUS
    <3>4. waited # {}
        BY <2>2, <3>3
    <3>5. ids \in SUBSET Nat
        BY CatalogueAssumption
    <3> QED
        BY <3>1, <3>2, <3>4, <3>5, FS_Surjection
  <2> HIDE DEF ids
  <2>4. PICK m \in ids : \A n \in ids : n <= m
      BY <2>3, LargestOf
  <2>5. PICK v \in waited : m = Id[v]
      BY DEF ids
  <2>6. PICK u \in S : owner[v] = u
      OBVIOUS
  <2>7. PICK w \in Variants : w \in tx[u].locks /\ owner[w] \in S
      BY <2>2
  <2>8. Id[w] \in ids
      BY <2>7 DEF ids
  <2>9. Id[v] < Id[w]
      BY <2>1, <2>6, <2>7 DEF Climbs
  <2>10. Id[v] \in Nat /\ Id[w] \in Nat
      BY <2>3, <2>5, <2>8
  <2> QED
      BY <2>4, <2>5, <2>8, <2>9, <2>10
<1>2. TxInit => All
  <2> SUFFICES ASSUME TxInit, NEW t \in Txs PROVE Climbs(t)
      OBVIOUS
  <2>1. tx[t].kind = "idle"
      BY DEF TxInit, Idle
  <2> QED
      BY <2>1 DEF Climbs, Settles, Supplies
<1>3. TxIInv /\ All /\ [TxNext]_txVars => All'
    BY ClimbsStep
<1> HIDE DEF All
<1> QED
    BY <1>1, <1>2, <1>3, TxInvariant, PTL DEF TxSpec
=============================================================================
