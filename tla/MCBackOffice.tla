---------------------------- MODULE MCBackOffice ----------------------------
(* The components around orders, each explored on its own from the shop as it *)
(* starts: they share no state, so a behaviour of one says nothing about      *)
(* another, and `focus` says which of them moves.  Where a component is two   *)
(* matters that meet in few variables, each matter is a focus.                *)
EXTENDS Operations, LowStock, Realtime, Media, Gallery, Accounts, Customers, Receipts,
        SellerAlerts, Assistant, TLC

CONSTANT Foci

VARIABLE focus

MCInit ==
    /\ focus \in Foci
    /\ OpsInit /\ LowStockInit /\ RealtimeInit /\ GalleryInit
    /\ MediaInit /\ (focus # "media" => toBucket)
    /\ AccountsInit /\ (focus \notin {"codes", "invites", "logins", "team"} => verified = {})
    /\ CustomersInit /\ ReceiptsInit
    /\ AlertsInit /\ (focus # "alerts" => Links = {})
                  /\ (focus # "low_stock_alerts" => ~switchedOn /\ (focus # "alerts" => chat = NoChat))
    /\ AssistantInit
    /\ focus # "drafting" => offered = Saleable
    /\ focus # "rehearsal" => pictured = {} /\ ~hasQr
    /\ focus \notin {"drafting", "rehearsal"} => onSale = {}

\* Where readings of a picture overlap, no order is paid meanwhile and every
\* picture is a receipt for the order's amount: neither bears on what is filed.
Exact == \A a \in Attached : picture[a].shows.amount = "exact"

\* What a focus leaves alone.
Rest(names, vars) == IF focus \in names THEN TRUE ELSE UNCHANGED vars

MCNext ==
    /\ \/ focus = "operations" /\ OpsNext
       \/ focus = "low_stock" /\ LowStockNext
       \/ focus = "realtime"  /\ RealtimeNext
       \/ focus = "media"     /\ MediaNext
       \/ focus = "gallery"   /\ GalleryNext
       \/ focus = "codes"     /\ (MembershipNext \/ CodesNext \/ LinksNext \/ OtpNext)
       \/ focus = "invites"   /\ (MembershipNext \/ InvitesNext \/ CodesNext)
       \/ focus = "logins"    /\ (MembershipNext \/ InvitesNext \/ LinksNext \/ LoginsNext)
       \/ focus = "team"      /\ (MembershipNext \/ InvitesNext \/ AssignNext)
       \/ focus = "customers" /\ (InboundNext \/ PeopleDeskNext \/ Erase)
       \/ focus = "threads"   /\ (InboundNext \/ ThreadDeskNext \/ Erase)
       \/ focus = "receipts"  /\ (ScanNext \/ RescanNext) /\ paid' = paid /\ Exact
       \/ focus = "scans"     /\ (ScanNext \/ LossNext)
       \/ focus = "links"     /\ (BotsNext \/ IssueNext \/ ClaimNext)
       \/ focus = "alerts"    /\ (BotsNext \/ ClaimNext \/ DeliverNext)
       \/ focus = "low_stock_alerts" /\ (BotsNext \/ Unlink \/ Switch \/ LowNext)
       \/ focus = "rehearsal" /\ (ShopWrites("assistant") \/ CloseThread \/ RehearseNext)
       \/ focus = "drafting"  /\ (EditProduct \/ EditVariant \/ DraftNext \/ (thread = <<>> /\ ShopWrites("seller")))
    /\ UNCHANGED focus
    /\ Rest({"operations"}, opsVars) /\ Rest({"low_stock"}, lowStockVars)
    /\ Rest({"realtime"}, realtimeVars) /\ Rest({"media"}, mediaVars) /\ Rest({"gallery"}, galleryVars)
    /\ Rest({"codes", "invites", "logins", "team"}, accountVars)
    /\ Rest({"customers", "threads"}, customersVars) /\ Rest({"receipts", "scans"}, receiptsVars)
    /\ Rest({"links", "alerts", "low_stock_alerts"}, alertVars)
    /\ Rest({"rehearsal", "drafting"}, assistantVars)

(* The configuration gives the interchangeable ids of every component one of  *)
(* two pairs of values; swapping a pair swaps it in all of them at once.      *)
Symmetry == Permutations(Goods) \cup Permutations(Returns)
=============================================================================
