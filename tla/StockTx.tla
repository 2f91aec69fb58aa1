------------------------------- MODULE StockTx -------------------------------
(* The requests of OrderStock as what they are: database transactions that    *)
(* lock one row after another, work on what they read under those locks, and  *)
(* commit or roll back as a whole.  Below OrderStock's committed columns this *)
(* adds the totals every product keeps of its variants, which are read        *)
(* without a lock.  Spec of OrderStock is what these transactions implement.  *)
EXTENDS OrderStock

CONSTANTS
    Txs,         \* requests in flight, one per thread
    Products,
    ProductOf,   \* the product of each variant
    Id,          \* the ids that products and variants are ordered by
    Kinds,       \* the requests that may overlap
    Alone,       \* bound: the requests made only while nothing else is in flight
    NewStatuses, \* bound: the statuses update_order is asked for
    None

ASSUME CatalogueAssumption ==
    /\ IsFiniteSet(Variants)
    /\ ProductOf \in [Variants -> Products]
    /\ Id \in [Products \cup Variants -> Nat]
    /\ \A r, s \in Variants : Id[r] = Id[s] => r = s
    /\ \A r, s \in Products : Id[r] = Id[s] => r = s
    /\ NewStatuses \subseteq Statuses
    /\ None \notin Txs \cup Products \cup Variants \cup Orders

\* Rows of different tables are different rows.
ASSUME TablesAssumption ==
    /\ Orders \cap Products = {}
    /\ Orders \cap Variants = {}
    /\ Products \cap Variants = {}

VARIABLES
    total,  \* Product.stock, the sum its variants should have
    owner,  \* which transaction holds each row's lock
    tx      \* the transactions

txVars == <<vars, total, owner, tx>>

Rows == Orders \cup Products \cup Variants

(* jobs are the orders a transaction has still to move, done those it began   *)
(* to move and now the last of these; locks the rows it has still to lock and *)
(* moves the items it has still to move for the latter; stock, reserved and   *)
(* total what it has in memory; dirty the product whose UPDATE the next flush *)
(* sends, and writes those whose stock column is among the changes.           *)
Idle == [kind |-> "idle", cart |-> NoItems, jobs |-> {}, done |-> {}, now |-> None,
         locks |-> {}, moves |-> {}, stock |-> NoItems, reserved |-> NoItems,
         total |-> [p \in Products |-> 0], writes |-> {}, dirty |-> None]

TxInit ==
    /\ Init
    /\ total = [p \in Products |-> 0]
    /\ owner = [r \in Rows |-> None]
    /\ tx = [t \in Txs |-> Idle]

-----------------------------------------------------------------------------
VariantsOf(p) == {v \in Variants : ProductOf[v] = p}

\* A sum as the size of a set of <<variant, k>> pairs, like the claims.
Total(S, onShelf) == Cardinality(UNION {{v} \X (1..onShelf[v]) : v \in S})

Ready(t)      == tx[t].locks = {} /\ tx[t].moves = {}

\* Mutant: variants are read without FOR UPDATE.
FreeToRead(t, row) == row \in Orders \cup Products => owner[row] \in {None, t}

Free(t, row) == row # None => owner[row] \in {None, t}

\* What an order's units count as in a status.
OnShelf(s)   == IF s \in {"cancelled", "absent"} THEN 1 ELSE 0
InReserve(s) == IF s \in Reserving THEN 1 ELSE 0

ToShelf(job)   == OnShelf(job.to) - OnShelf(job.from)
ToReserve(job) == InReserve(job.to) - InReserve(job.from)
ItemsOf(t, job) == IF job.from = "absent" THEN tx[t].cart ELSE qty[job.order]

\* Mutant: lock_order_variants without its ORDER BY.
BeforeByTable(r, s) == r \in Products /\ s \in Variants

\* create_order and the adjustment lock products before their variants; both
\* they and lock_order_variants lock the rows of a table by id.
Before(r, s) ==
    \/ r \in Products /\ s \in Variants
    \/ /\ {r, s} \subseteq Products \/ {r, s} \subseteq Variants
       /\ Id[r] < Id[s]

NextLocks(t) == {r \in tx[t].locks : \A s \in tx[t].locks : ~Before(s, r)}

ProductsFirst(items) ==
    LET products == {ProductOf[v] : v \in items}
    IN  products \cup {v \in Variants : ProductOf[v] \in products}

Moved(t, job) ==
    IF ToShelf(job) = 0 /\ ToReserve(job) = 0 THEN {}
    ELSE {v \in Variants : ItemsOf(t, job)[v] # 0}

-----------------------------------------------------------------------------
(* A request arrives.                                                         *)

Begin(t, request) ==
    /\ tx[t].kind = "idle"
    /\ \/ request.kind \in Kinds /\ \A u \in Txs : tx[u].kind \notin Alone
       \/ request.kind \in Alone /\ \A u \in Txs : tx[u].kind = "idle"
    /\ tx' = [tx EXCEPT ![t] = request]
    /\ UNCHANGED <<vars, total, owner>>

BeginUpdate(t, o, new) ==
    Begin(t, [Idle EXCEPT !.kind = "update", !.locks = {o},
                          !.jobs = {[order |-> o, from |-> "unread", to |-> new]}])

BeginDelete(t, o) ==
    Begin(t, [Idle EXCEPT !.kind = "delete", !.locks = {o},
                          !.jobs = {[order |-> o, from |-> "unread", to |-> "absent"]}])

\* The query for expired reservations names no order for the rows it locks.
BeginRelease(t) ==
    Begin(t, [Idle EXCEPT !.kind = "release", !.locks = Expired])

BeginCreate(t, o, q) ==
    /\ status[o] = "absent"
    /\ \A u \in Txs : \A job \in tx[u].jobs \cup tx[u].done : job.order # o
    /\ q # NoItems
    /\ Begin(t, [Idle EXCEPT !.kind = "create", !.cart = q, !.locks = Expired,
                             !.jobs = {[order |-> o, from |-> "absent", to |-> "pending"]}])

BeginAdjust(t, v, d) ==
    Begin(t, [Idle EXCEPT !.kind = "adjust", !.cart = [NoItems EXCEPT ![v] = d],
                          !.locks = ProductsFirst({v}), !.moves = {v}])

\* receive_purchase and receive_return lock variants only.
BeginReceive(t, v) ==
    Begin(t, [Idle EXCEPT !.kind = "receive", !.cart = [NoItems EXCEPT ![v] = 1],
                          !.locks = {v}, !.moves = {v}])

-----------------------------------------------------------------------------
(* It takes its locks.                                                        *)

Locking(t, row) ==
    /\ row \in NextLocks(t)
    /\ Free(t, row)
    /\ owner' = [owner EXCEPT ![row] = t]
    /\ UNCHANGED <<vars, total>>

(* The status is read under the lock.  An order that is gone, or already in   *)
(* the status asked for, leaves nothing to do.                                *)
LockOrder(t, o) ==
    /\ tx[t].kind \in {"update", "delete"}
    /\ Locking(t, o)
    /\ LET asked == {job \in tx[t].jobs : status[o] \notin {"absent", job.to}}
       IN  tx' = [tx EXCEPT ![t].locks = @ \ {o},
                            ![t].jobs = {[job EXCEPT !.from = status[o]] : job \in asked}]

StillExpired(o) == o \in Expired

\* Having waited for a row, the query looks again whether it still matches.
LockExpired(t, o) ==
    /\ tx[t].kind \in {"release", "create"}
    /\ Locking(t, o)
    /\ LET job == [order |-> o, from |-> "pending", to |-> "cancelled"]
       IN  tx' = [tx EXCEPT ![t].locks = @ \ {o},
                            ![t].jobs = IF StillExpired(o) THEN @ \cup {job} ELSE @]

LockVariant(t, v) ==
    /\ Locking(t, v)
    /\ tx' = [tx EXCEPT ![t].locks = @ \ {v},
                        ![t].stock[v]    = IF owner[v] = t THEN @ ELSE stock[v],
                        ![t].reserved[v] = IF owner[v] = t THEN @ ELSE reserved[v]]

LockProduct(t, p) ==
    /\ Locking(t, p)
    /\ tx' = [tx EXCEPT ![t].locks = @ \ {p}]

\* A new order is made when every expired one is released.
StartJob(t, job) ==
    /\ Ready(t)
    /\ job.from = "absent" => tx[t].jobs = {job}
    /\ tx' = [tx EXCEPT ![t].jobs = @ \ {job},
                        ![t].done = @ \cup {job},
                        ![t].now = job,
                        ![t].moves = Moved(t, job),
                        ![t].locks = IF job.from = "absent" THEN ProductsFirst(Moved(t, job))
                                                            ELSE Moved(t, job)]
    /\ UNCHANGED <<vars, total, owner>>

-----------------------------------------------------------------------------
\* Mutant: takes what is not there.
AllowedOnCredit(onShelf, held) == held >= 0

\* What move_stock refuses rolls the whole request back.
Allowed(onShelf, held) == onShelf >= 0 /\ held >= 0

Supplies(t) == tx[t].kind \in {"adjust", "receive"}

\* What the item adds to the shelf and to the reservation.
ShelfChange(t, v) ==
    IF Supplies(t) THEN tx[t].cart[v] ELSE ItemsOf(t, tx[t].now)[v] * ToShelf(tx[t].now)
ReserveChange(t, v) ==
    IF Supplies(t) THEN 0 ELSE ItemsOf(t, tx[t].now)[v] * ToReserve(tx[t].now)

LeftOnShelf(t, v)   == tx[t].stock[v] + ShelfChange(t, v)
LeftInReserve(t, v) == tx[t].reserved[v] + ReserveChange(t, v)

(* sync_product_totals sums the product's variants as this transaction sees   *)
(* them: its own as it left them, the others as last committed.               *)
Summed(t, v) ==
    LET seen == [w \in Variants |-> IF w = v THEN LeftOnShelf(t, v)
                                    ELSE IF owner[w] = t THEN tx[t].stock[w]
                                    ELSE stock[w]]
    IN  Total(VariantsOf(ProductOf[v]), seen)

Loaded(t, p) == IF p \in tx[t].writes THEN tx[t].total[p] ELSE total[p]

\* An unchanged sum sends no UPDATE.
AfterItem(t, v) ==
    LET p    == ProductOf[v]
        same == Summed(t, v) = Loaded(t, p)
    IN  [tx[t] EXCEPT !.moves = @ \ {v},
                      !.stock[v] = LeftOnShelf(t, v),
                      !.reserved[v] = LeftInReserve(t, v),
                      !.total[p] = IF same /\ p \notin tx[t].writes THEN @ ELSE Summed(t, v),
                      !.writes = IF same THEN @ ELSE @ \cup {p},
                      !.dirty = p]

(* It moves stock: move_stock and, in it, sync_product_totals.  The flush     *)
(* before that sends the UPDATE of the product summed before.                 *)
MoveItem(t, v) ==
    /\ tx[t].locks = {}
    /\ Free(t, tx[t].dirty)
    /\ Allowed(LeftOnShelf(t, v), LeftInReserve(t, v))
    /\ Supplies(t) => supplied[v] + tx[t].cart[v] \in 0..MaxSupply
    /\ tx' = [tx EXCEPT ![t] = AfterItem(t, v)]
    /\ owner' = IF tx[t].dirty = None THEN owner ELSE [owner EXCEPT ![tx[t].dirty] = t]
    /\ UNCHANGED <<vars, total>>

Released(t) == [r \in Rows |-> IF owner[r] = t THEN None ELSE owner[r]]

(* The last flush and the commit.                                             *)
Commit(t) ==
    /\ tx[t].kind # "idle"
    /\ Ready(t)
    /\ tx[t].jobs = {}
    /\ Free(t, tx[t].dirty)
    /\ LET job(o) == CHOOSE j \in tx[t].done : j.order = o
           moved  == {j.order : j \in tx[t].done}
           made   == {o \in moved : job(o).from = "absent"}
           gone   == {o \in moved : job(o).to = "absent"}
       IN  /\ status'   = [o \in Orders |-> IF o \in moved THEN job(o).to ELSE status[o]]
           /\ deadline' = [o \in Orders |-> IF o \notin moved THEN deadline[o]
                                            ELSE IF job(o).to = "pending" THEN "running"
                                            ELSE "none"]
           /\ payment'  = [o \in Orders |-> IF o \in gone THEN "unpaid" ELSE payment[o]]
           /\ qty'      = [o \in Orders |-> IF o \in made THEN tx[t].cart
                                            ELSE IF o \in gone THEN NoItems
                                            ELSE qty[o]]
    /\ stock'    = [v \in Variants |-> IF owner[v] = t THEN tx[t].stock[v] ELSE stock[v]]
    /\ reserved' = [v \in Variants |-> IF owner[v] = t THEN tx[t].reserved[v] ELSE reserved[v]]
    /\ supplied' = [v \in Variants |-> supplied[v] +
                      (IF Supplies(t) THEN tx[t].cart[v] ELSE 0)]
    /\ total'    = [p \in Products |-> IF p \in tx[t].writes THEN tx[t].total[p] ELSE total[p]]
    /\ owner'    = Released(t)
    /\ tx'       = [tx EXCEPT ![t] = Idle]

\* A refusal, a deadlock's victim, a lost connection: everything is undone.
Rollback(t) ==
    /\ tx[t].kind # "idle"
    /\ owner' = Released(t)
    /\ tx'    = [tx EXCEPT ![t] = Idle]
    /\ UNCHANGED <<vars, total>>

\* The payment handlers write one order's row, so they wait for its lock.
PaymentStep ==
    /\ \E o \in Orders : /\ owner[o] = None
                         /\ CheckoutOpened(o) \/ PaymentReported(o) \/ ReceiptConfirmed(o)
    /\ UNCHANGED <<total, owner, tx>>

Tick == (\E o \in Orders : DeadlinePasses(o)) /\ UNCHANGED <<total, owner, tx>>

TxNext ==
    \/ \E t \in Txs :
         \/ \E o \in Orders, new \in NewStatuses : BeginUpdate(t, o, new)
         \/ \E o \in Orders : BeginDelete(t, o)
         \/ BeginRelease(t)
         \/ \E o \in Orders, q \in Cart : BeginCreate(t, o, q)
         \/ \E v \in Variants, d \in {-1, 1} : BeginAdjust(t, v, d)
         \/ \E v \in Variants : BeginReceive(t, v)
         \/ \E o \in Orders : LockOrder(t, o) \/ LockExpired(t, o)
         \/ \E v \in Variants : LockVariant(t, v)
         \/ \E p \in Products : LockProduct(t, p)
         \/ \E job \in tx[t].jobs : StartJob(t, job)
         \/ \E v \in tx[t].moves : MoveItem(t, v)
         \/ Commit(t)
         \/ Rollback(t)
    \/ PaymentStep
    \/ Tick

TxSpec == TxInit /\ [][TxNext]_txVars

-----------------------------------------------------------------------------
(* Properties.                                                                *)

(* The locks, the plans and the memory of the transactions are well formed;   *)
(* in particular no transaction works with less than nothing on the shelf.    *)
TxTypeOK ==
    /\ total \in [Products -> Nat]
    /\ owner \in [Rows -> Txs \cup {None}]
    /\ \A t \in Txs :
         /\ tx[t].kind \in {"idle", "update", "delete", "release", "create", "adjust", "receive"}
         /\ tx[t].locks \subseteq Rows
         /\ tx[t].moves \subseteq Variants
         /\ tx[t].jobs \cup tx[t].done \subseteq
                [order : Orders, from : Statuses \cup {"unread", "absent"},
                 to : Statuses \cup {"absent"}]
         /\ tx[t].stock \in [Variants -> Nat] /\ tx[t].reserved \in [Variants -> Nat]
         /\ tx[t].writes \subseteq Products
         /\ tx[t].dirty \in Products \cup {None}

(* However transactions interleave, what they commit is what one request at a *)
(* time would have done: each commit is one step of OrderStock, or none.      *)
TransactionsAreAtomic == Spec

(* While no transaction holds any of its rows, a product's stock is the sum   *)
(* of its variants'.                                                          *)
TotalsAreSums ==
    \A p \in Products :
        (\A r \in {p} \cup VariantsOf(p) : owner[r] = None)
            => total[p] = Total(VariantsOf(p), stock)

\* The rows of which a transaction needs one next.
Wants(t) ==
    IF tx[t].kind = "idle" \/ (Ready(t) /\ tx[t].jobs # {}) THEN {}
    ELSE IF tx[t].locks # {} THEN NextLocks(t)
    ELSE {tx[t].dirty} \ {None}

WaitsForVariantOf(t, u) == t # u /\ \E v \in Wants(t) \cap Variants : owner[v] = u

(* Requests about placed orders, and the supply that comes in for them, never *)
(* wait for each other's variants in a circle: both lock variants by id.      *)
VariantsAreLockedInOrder ==
    \A S \in (SUBSET {t \in Txs :
                      tx[t].kind \in {"update", "delete", "adjust", "receive"}}) \ {{}} :
        \E t \in S : \A u \in S : ~WaitsForVariantOf(t, u)
=============================================================================
