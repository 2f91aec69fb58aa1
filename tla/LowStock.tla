------------------------------ MODULE LowStock ------------------------------
(* One product: its variants as the seller edits them, and the alert each     *)
(* variant has open while it is low.  Orders, purchases and adjustments move  *)
(* its units (OrderStock, Operations); every movement judges the alert.       *)
EXTENDS Integers, FiniteSets

CONSTANTS
    Goods,      \* ids of the variants of the product
    MaxShelf    \* bound: units of one variant on the shelf, or held

ASSUME ShelfAssumption == MaxShelf \in Nat \ {0}

VARIABLES
    listing,    \* a variant is absent, active or inactive
    shelf, held,    \* ProductVariant.stock, reserved_stock
    threshold,  \* ProductVariant.low_stock_threshold
    sold,       \* an order names the variant
    archived,   \* not Product.is_active
    alert,      \* the variant has an unresolved LowStockAlert
    scan        \* GET /alerts between reading the variants and its commit

lowStockVars == <<listing, shelf, held, threshold, sold, archived, alert, scan>>

Idle   == [g \in {} |-> FALSE]
Listed == {g \in Goods : listing[g] # "absent"}

IsLow(g) == ~archived /\ listing[g] = "active" /\ shelf[g] <= threshold[g]

(* evaluate_low_stock on the variants a transaction touched, as they now are. *)
Judge(S) == alert' = [g \in Goods |-> IF g \in S THEN IsLow(g)' ELSE alert[g]]

LowStockInit ==
    /\ listing   = [g \in Goods |-> "absent"]
    /\ shelf     = [g \in Goods |-> 0] /\ held = [g \in Goods |-> 0]
    /\ threshold = [g \in Goods |-> 0]
    /\ sold      = [g \in Goods |-> FALSE]
    /\ archived  = FALSE
    /\ alert     = [g \in Goods |-> FALSE]
    /\ scan      = Idle

-----------------------------------------------------------------------------
(* create_product with its variants, and create_product_variant: the opening  *)
(* balance is a movement, and a variant without one is judged all the same.   *)
AddVariants(S, n, low, how) ==
    /\ S # {} /\ S \cap Listed = {}
    /\ listing'   = [g \in Goods |-> IF g \in S THEN how ELSE listing[g]]
    /\ shelf'     = [g \in Goods |-> IF g \in S THEN n ELSE shelf[g]]
    /\ threshold' = [g \in Goods |-> IF g \in S THEN low ELSE threshold[g]]
    /\ UNCHANGED <<held, sold, archived, scan>>
    /\ Judge(S)

\* Mutant: the variant editor does not judge the alert.
UpdateVariantUnjudged(g, low, how) ==
    /\ g \in Listed
    /\ listing' = [listing EXCEPT ![g] = how]
    /\ threshold' = [threshold EXCEPT ![g] = low]
    /\ UNCHANGED <<shelf, held, sold, archived, scan, alert>>

UpdateVariant(g, low, how) ==
    /\ g \in Listed
    /\ listing' = [listing EXCEPT ![g] = how]
    /\ threshold' = [threshold EXCEPT ![g] = low]
    /\ UNCHANGED <<shelf, held, sold, archived, scan>>
    /\ Judge({g})

\* What goes with a variant; ON DELETE CASCADE takes its alerts along.
Drop(S) ==
    /\ listing'   = [g \in Goods |-> IF g \in S THEN "absent" ELSE listing[g]]
    /\ shelf'     = [g \in Goods |-> IF g \in S THEN 0 ELSE shelf[g]]
    /\ threshold' = [g \in Goods |-> IF g \in S THEN 0 ELSE threshold[g]]
    /\ alert'     = [g \in Goods |-> alert[g] /\ g \notin S]
    /\ UNCHANGED <<held, sold, scan>>

\* ON DELETE RESTRICT: order items, purchase and return lines keep a variant.
Unreferenced(S) == \A g \in S : ~sold[g]

DeleteVariant(g) ==
    /\ g \in Listed /\ Cardinality(Listed) > 1
    /\ shelf[g] = 0 /\ held[g] = 0
    /\ Unreferenced({g})
    /\ Drop({g})
    /\ UNCHANGED archived

(* delete_product looks at no stock: what is on the shelf goes with it.       *)
DeleteProduct ==
    /\ Listed # {}
    /\ Unreferenced(Listed)
    /\ Drop(Listed)
    /\ archived' = FALSE

(* update_product: the stock and threshold of a lone variant may be edited    *)
(* here, with several that is refused.  A changed balance is judged as it     *)
(* moves, before the same request's threshold and archive flag are set; those *)
(* two are not judged.                                                        *)
UpdateProduct(n, low, put) ==
    /\ Listed # {}
    /\ Cardinality(Listed) > 1 => n = 0 /\ low = 0     \* neither is given
    /\ LET alone == IF Cardinality(Listed) = 1 THEN Listed ELSE {}
       IN  /\ shelf'     = [g \in Goods |-> IF g \in alone THEN n ELSE shelf[g]]
           /\ threshold' = [g \in Goods |-> IF g \in alone THEN low ELSE threshold[g]]
    /\ archived'  = put
    /\ alert'     = [g \in Goods |->
           IF shelf'[g] # shelf[g]
           THEN ~archived /\ listing[g] = "active" /\ n <= threshold[g]
           ELSE alert[g]]
    /\ UNCHANGED <<listing, held, sold, scan>>

-----------------------------------------------------------------------------
(* move_stock, for whichever order, purchase, return or adjustment.           *)
Move(g, toShelf, toHeld) ==
    /\ g \in Listed
    /\ shelf[g] + toShelf \in 0..MaxShelf
    /\ held[g] + toHeld \in 0..MaxShelf
    /\ shelf' = [shelf EXCEPT ![g] = @ + toShelf]
    /\ held'  = [held EXCEPT ![g] = @ + toHeld]
    /\ UNCHANGED <<listing, threshold, archived, scan>>
    /\ Judge({g})

Reserve(g)   == listing[g] = "active" /\ ~archived /\ Move(g, -1, 1)
                /\ sold' = [sold EXCEPT ![g] = TRUE]
GiveBack(g)  == Move(g, 1, -1) /\ UNCHANGED sold
Ship(g)      == Move(g, 0, -1) /\ UNCHANGED sold
Adjust(g, d) == Move(g, d, 0) /\ UNCHANGED sold

\* The last order that names the variant is deleted.
Forget(g) ==
    /\ sold[g] /\ held[g] = 0
    /\ sold' = [sold EXCEPT ![g] = FALSE]
    /\ UNCHANGED <<listing, shelf, held, threshold, archived, alert, scan>>

-----------------------------------------------------------------------------
(* scan_low_stock locks nothing: it judges what it read.  An insert that      *)
(* meets another open alert, or a variant gone meanwhile, fails the request.  *)
ScanReads ==
    /\ scan = Idle /\ Listed # {}
    /\ scan' = [g \in Listed |-> IsLow(g)]
    /\ UNCHANGED <<listing, shelf, held, threshold, sold, archived, alert>>

ScanWrites ==
    /\ scan # Idle
    /\ \A g \in DOMAIN scan : scan[g] => g \in Listed
    /\ alert' = [g \in Goods |-> IF g \in DOMAIN scan THEN scan[g] ELSE alert[g]]
    /\ scan'  = Idle
    /\ UNCHANGED <<listing, shelf, held, threshold, sold, archived>>

ScanFails ==
    /\ scan # Idle
    /\ scan' = Idle
    /\ UNCHANGED <<listing, shelf, held, threshold, sold, archived, alert>>

LowStockNext ==
    \/ \E low \in 0..1, how \in {"active", "inactive"} :
         \/ \E S \in SUBSET Goods, n \in 0..1 : AddVariants(S, n, low, how)
         \/ \E g \in Goods : UpdateVariant(g, low, how)
    \/ \E n \in 0..MaxShelf, low \in 0..1, put \in BOOLEAN : UpdateProduct(n, low, put)
    \/ DeleteProduct
    \/ \E g \in Goods : \/ DeleteVariant(g) \/ Reserve(g) \/ GiveBack(g) \/ Ship(g) \/ Forget(g)
                        \/ \E d \in {-1, 1} : Adjust(g, d)
    \/ ScanReads \/ ScanWrites \/ ScanFails

LowStockSpec == LowStockInit /\ [][LowStockNext]_lowStockVars

-----------------------------------------------------------------------------
(* The type of every variable.                                                *)
LowStockTypeOK ==
    /\ listing \in [Goods -> {"absent", "active", "inactive"}]
    /\ shelf \in [Goods -> 0..MaxShelf] /\ held \in [Goods -> 0..MaxShelf]
    /\ threshold \in [Goods -> 0..1]
    /\ sold \in [Goods -> BOOLEAN] /\ alert \in [Goods -> BOOLEAN]
    /\ archived \in BOOLEAN
    /\ scan \in UNION {[S -> BOOLEAN] : S \in SUBSET Goods}

(* An alert that tells the truth about its variant stops doing so only when   *)
(* the seller edits the product itself, or when a scan commits what it read   *)
(* before someone else moved the stock: no movement, however many handlers    *)
(* make one, leaves an alert behind.                                          *)
AlertGoesWrongOnlyUnjudged ==
    [][\A g \in Goods :
          /\ alert[g] = IsLow(g)
          /\ alert'[g] # IsLow(g)'
          => \/ \E n \in 0..MaxShelf, low \in 0..1, put \in BOOLEAN : UpdateProduct(n, low, put)
             \/ scan # Idle /\ g \in DOMAIN scan /\ scan[g] # IsLow(g)]_lowStockVars
=============================================================================
