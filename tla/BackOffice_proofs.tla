------------------------- MODULE BackOffice_proofs --------------------------
(* Proofs about the components around orders, one section each, for any       *)
(* number of rows, people and requests.  The components share no state; what  *)
(* the galleries' section says of numberings serves the assistant's too.      *)
EXTENDS LowStock, Realtime, Media, Gallery, Assistant, Receipts, SellerAlerts,
        FiniteSetTheorems, SequenceTheorems, WellFoundedInduction, TLAPS

-----------------------------------------------------------------------------
(* LowStock.  Whatever moves a variant's units judges its alert.              *)

\* What move_stock and the editor leave behind them is judged.
LEMMA JudgedTellsTheTruth ==
    ASSUME NEW S, Judge(S), NEW g \in Goods, alert[g] = IsLow(g), alert'[g] # IsLow(g)',
           UNCHANGED archived,
           g \notin S => UNCHANGED <<listing[g], shelf[g], threshold[g]>>
    PROVE  FALSE
BY DEF Judge, IsLow

LEMMA LowIsBoolean == \A g : IsLow(g) \in BOOLEAN
BY DEF IsLow

LEMMA JudgedTyped == ASSUME NEW S, Judge(S), alert \in [Goods -> BOOLEAN] PROVE alert' \in [Goods -> BOOLEAN]
<1>1. \A g \in Goods : IsLow(g)' \in BOOLEAN
    BY DEF IsLow
<1> QED BY <1>1 DEF Judge

LEMMA MoveTyped ==
    ASSUME LowStockTypeOK, NEW g \in Goods, NEW a \in Int, NEW b \in Int, Move(g, a, b), sold' \in [Goods -> BOOLEAN]
    PROVE  LowStockTypeOK'
<1>1. alert' \in [Goods -> BOOLEAN]
    BY JudgedTyped DEF Move, LowStockTypeOK
<1> QED BY <1>1 DEF Move, LowStockTypeOK

LEMMA DropTyped ==
    ASSUME LowStockTypeOK, NEW S, Drop(S), archived' \in BOOLEAN
    PROVE  LowStockTypeOK'
BY ShelfAssumption DEF Drop, LowStockTypeOK

(* Whatever edits, movements and scans overlap, every count stays between 0   *)
(* and its bound, and a scan remembers alerts of variants there are.          *)
THEOREM LowStockTyped == LowStockSpec => []LowStockTypeOK
<1>1. LowStockInit => LowStockTypeOK
    <2>1. Idle \in [{} -> BOOLEAN] /\ {} \in SUBSET Goods
        BY DEF Idle
    <2>2. Idle \in UNION {[S -> BOOLEAN] : S \in SUBSET Goods}
        BY <2>1
    <2>3. 0 \in 0..MaxShelf /\ 0 \in 0..1
        BY ShelfAssumption
    <2> SUFFICES ASSUME LowStockInit PROVE LowStockTypeOK
        OBVIOUS
    <2>4. scan \in UNION {[S -> BOOLEAN] : S \in SUBSET Goods}
        BY <2>2, Zenon DEF LowStockInit
    <2> QED BY <2>3, <2>4 DEF LowStockInit, LowStockTypeOK
<1>2. LowStockTypeOK /\ [LowStockNext]_lowStockVars => LowStockTypeOK'
    <2> SUFFICES ASSUME LowStockTypeOK, [LowStockNext]_lowStockVars PROVE LowStockTypeOK'
        OBVIOUS
    <2>0. Idle \in UNION {[S -> BOOLEAN] : S \in SUBSET Goods}
        <3>1. Idle \in [{} -> BOOLEAN] /\ {} \in SUBSET Goods
            BY DEF Idle
        <3> QED BY <3>1
    <2>1. ASSUME NEW low \in 0..1, NEW how \in {"active", "inactive"}, NEW S \in SUBSET Goods,
                 NEW n \in 0..1, AddVariants(S, n, low, how)
          PROVE  LowStockTypeOK'
        <3>1. alert' \in [Goods -> BOOLEAN]
            BY <2>1, JudgedTyped DEF AddVariants, LowStockTypeOK
        <3> QED BY <2>1, <3>1, ShelfAssumption DEF AddVariants, LowStockTypeOK
    <2>2. ASSUME NEW low \in 0..1, NEW how \in {"active", "inactive"}, NEW g \in Goods, UpdateVariant(g, low, how)
          PROVE  LowStockTypeOK'
        <3>1. alert' \in [Goods -> BOOLEAN]
            BY <2>2, JudgedTyped DEF UpdateVariant, LowStockTypeOK
        <3> QED BY <2>2, <3>1 DEF UpdateVariant, LowStockTypeOK
    <2>3. ASSUME NEW n \in 0..MaxShelf, NEW low \in 0..1, NEW put \in BOOLEAN, UpdateProduct(n, low, put)
          PROVE  LowStockTypeOK'
        <3>1. alert' \in [Goods -> BOOLEAN]
            BY <2>3 DEF UpdateProduct, LowStockTypeOK
        <3>2. UNCHANGED <<listing, held, sold, scan>> /\ archived' \in BOOLEAN
            BY <2>3 DEF UpdateProduct
        <3>3. shelf' \in [Goods -> 0..MaxShelf] /\ threshold' \in [Goods -> 0..1]
            BY <2>3 DEF UpdateProduct, LowStockTypeOK
        <3> QED BY <3>1, <3>2, <3>3 DEF LowStockTypeOK
    <2>4. CASE DeleteProduct
        BY <2>4, DropTyped DEF DeleteProduct
    <2>5. ASSUME NEW g \in Goods, DeleteVariant(g) PROVE LowStockTypeOK'
        BY <2>5, DropTyped DEF DeleteVariant, LowStockTypeOK
    <2>6. ASSUME NEW g \in Goods, Reserve(g) PROVE LowStockTypeOK'
        <3>1. Move(g, -1, 1) /\ sold' \in [Goods -> BOOLEAN]
            BY <2>6 DEF Reserve, LowStockTypeOK
        <3> QED BY <3>1, MoveTyped
    <2>7. ASSUME NEW g \in Goods, GiveBack(g) \/ Ship(g) \/ \E d \in {-1, 1} : Adjust(g, d)
          PROVE  LowStockTypeOK'
        <3>1. sold' \in [Goods -> BOOLEAN]
            BY <2>7 DEF GiveBack, Ship, Adjust, LowStockTypeOK
        <3>2. PICK a \in Int, b \in Int : Move(g, a, b)
            BY <2>7 DEF GiveBack, Ship, Adjust
        <3> QED BY <3>1, <3>2, MoveTyped
    <2>8. ASSUME NEW g \in Goods, Forget(g) PROVE LowStockTypeOK'
        BY <2>8 DEF Forget, LowStockTypeOK
    <2>9. CASE ScanReads
        <3>1. \A g \in Listed : IsLow(g) \in BOOLEAN
            BY LowIsBoolean
        <3>2. scan' \in [Listed -> BOOLEAN] /\ Listed \in SUBSET Goods
            BY <2>9, <3>1 DEF ScanReads, Listed
        <3> QED BY <2>9, <3>2 DEF ScanReads, LowStockTypeOK
    <2>10. CASE ScanWrites
        <3>1. PICK S \in SUBSET Goods : scan \in [S -> BOOLEAN]
            BY DEF LowStockTypeOK
        <3>2. alert' \in [Goods -> BOOLEAN]
            BY <2>10, <3>1 DEF ScanWrites, LowStockTypeOK
        <3> QED BY <2>0, <2>10, <3>2 DEF ScanWrites, LowStockTypeOK
    <2>11. CASE ScanFails
        BY <2>0, <2>11 DEF ScanFails, LowStockTypeOK
    <2>12. CASE UNCHANGED lowStockVars
        BY <2>12 DEF lowStockVars, LowStockTypeOK
    <2> QED
        BY <2>1, <2>2, <2>3, <2>4, <2>5, <2>6, <2>7, <2>8, <2>9, <2>10, <2>11, <2>12 DEF LowStockNext
<1> QED BY <1>1, <1>2, PTL DEF LowStockSpec

(* An alert that tells the truth stops doing so only by an edit of the        *)
(* product itself or by a scan that commits what it read before, whatever     *)
(* moves the stock and however often.                                         *)
THEOREM MovementsKeepAlertsTrue == LowStockSpec => AlertGoesWrongOnlyUnjudged
<1> DEFINE Unjudged(g) ==
       \/ \E n \in 0..MaxShelf, low \in 0..1, put \in BOOLEAN : UpdateProduct(n, low, put)
       \/ scan # Idle /\ g \in DOMAIN scan /\ scan[g] # IsLow(g)
<1>1. ASSUME [LowStockNext]_lowStockVars, NEW g \in Goods, alert[g] = IsLow(g), alert'[g] # IsLow(g)'
      PROVE  Unjudged(g)
    <2>1. ASSUME NEW S, NEW n, NEW low, NEW how, AddVariants(S, n, low, how) PROVE FALSE
        BY <1>1, <2>1, JudgedTellsTheTruth DEF AddVariants
    <2>2. ASSUME NEW h, NEW low, NEW how, UpdateVariant(h, low, how) PROVE FALSE
        BY <1>1, <2>2, JudgedTellsTheTruth DEF UpdateVariant
    <2>3. ASSUME NEW h, NEW a, NEW b, Move(h, a, b) PROVE FALSE
        BY <1>1, <2>3, JudgedTellsTheTruth DEF Move
    <2>4. ASSUME NEW S, Drop(S), (archived' = archived) \/ S = Listed PROVE FALSE
        <3>1. CASE g \in S
            BY <1>1, <2>4, <3>1 DEF Drop, IsLow
        <3>2. CASE g \notin S
            <4>1. UNCHANGED <<listing[g], shelf[g], threshold[g]>> /\ alert'[g] = alert[g]
                BY <1>1, <2>4, <3>2 DEF Drop, IsLow
            <4>2. S = Listed => listing[g] = "absent"
                BY <3>2 DEF Listed
            <4> QED BY <1>1, <2>4, <4>1, <4>2 DEF IsLow
        <3> QED BY <3>1, <3>2
    <2>5. ASSUME NEW h, DeleteVariant(h) PROVE FALSE
        BY <2>4, <2>5 DEF DeleteVariant
    <2>6. CASE DeleteProduct
        BY <2>4, <2>6 DEF DeleteProduct
    <2>7. ASSUME NEW h, Reserve(h) \/ GiveBack(h) \/ Ship(h) \/ \E d \in {-1, 1} : Adjust(h, d)
          PROVE FALSE
        BY <2>3, <2>7 DEF Reserve, GiveBack, Ship, Adjust
    <2>8. ASSUME NEW h, Forget(h) PROVE FALSE
        BY <1>1, <2>8 DEF Forget, IsLow
    <2>9. CASE ScanReads \/ ScanFails \/ UNCHANGED lowStockVars
        BY <1>1, <2>9 DEF ScanReads, ScanFails, lowStockVars, IsLow
    <2>10. CASE ScanWrites
        <3>1. /\ scan # Idle /\ IsLow(g)' = IsLow(g)
              /\ alert'[g] = IF g \in DOMAIN scan THEN scan[g] ELSE alert[g]
            BY <2>10 DEF ScanWrites, IsLow
        <3> QED BY <1>1, <3>1
    <2> QED
        BY <1>1, <2>1, <2>2, <2>5, <2>6, <2>7, <2>8, <2>9, <2>10 DEF LowStockNext
<1>2. [LowStockNext]_lowStockVars =>
      [\A g \in Goods :
          /\ alert[g] = IsLow(g)
          /\ alert'[g] # IsLow(g)'
          => \/ \E n \in 0..MaxShelf, low \in 0..1, put \in BOOLEAN : UpdateProduct(n, low, put)
             \/ scan # Idle /\ g \in DOMAIN scan /\ scan[g] # IsLow(g)]_lowStockVars
    BY <1>1
<1> QED
    BY <1>2, PTL DEF LowStockSpec, AlertGoesWrongOnlyUnjudged

-----------------------------------------------------------------------------
(* Realtime.  The invariant is OldNewsIsOnItsWay itself: what carries it is   *)
(* that news only leaves the wire into every queue, a queue into the browser, *)
(* and a full queue into a refetch of everything.                             *)

Announced == Threads \cup {Everything}

RealtimeInv == RealtimeTypeOK /\ OldNewsIsOnItsWay

\* e is in the queue, or all there is will be fetched anyway.
WillLearn(q, e) == Contains(q, e) \/ Contains(q, Everything)

-----------------------------------------------------------------------------
LEMMA ContainsAppend ==
    ASSUME NEW T, NEW q \in Seq(T), NEW e \in T
    PROVE  /\ Append(q, e) \in Seq(T) /\ Len(Append(q, e)) = Len(q) + 1
           /\ \A d : Contains(Append(q, e), d) <=> (d = e \/ Contains(q, d))
BY AppendProperties DEF Contains

LEMMA ContainsTail ==
    ASSUME NEW T, NEW q \in Seq(T), q # <<>>
    PROVE  /\ Head(q) \in T
           /\ Tail(q) \in Seq(T) /\ Len(Tail(q)) = Len(q) - 1
           /\ \A d : Contains(q, d) => d = Head(q) \/ Contains(Tail(q), d)
<1>1. /\ Head(q) \in T /\ Head(q) = q[1] /\ Tail(q) \in Seq(T) /\ Len(Tail(q)) = Len(q) - 1
      /\ \A i \in 1 .. Len(Tail(q)) : Tail(q)[i] = q[i + 1]
    BY HeadTailProperties
<1>2. ASSUME NEW d, NEW i \in 1..Len(q), q[i] = d, d # Head(q) PROVE Contains(Tail(q), d)
    <2>1. i - 1 \in 1..Len(Tail(q)) /\ Tail(q)[i - 1] = d
        BY <1>1, <1>2
    <2> QED BY <2>1 DEF Contains
<1> QED BY <1>1, <1>2 DEF Contains

(* _offer keeps to its limit, takes the event in and forgets no news.         *)
LEMMA OfferLosesNothing ==
    ASSUME NEW q \in Seq(Announced), Len(q) <= QueueLimit, NEW e \in Announced
    PROVE  /\ Offer(q, e) \in Seq(Announced) /\ Len(Offer(q, e)) <= QueueLimit
           /\ WillLearn(Offer(q, e), e)
           /\ \A d : WillLearn(q, d) => WillLearn(Offer(q, e), d)
<1>1. CASE Len(q) < QueueLimit
    <2>1. Len(q) \in Nat
        BY LenProperties
    <2>2. Offer(q, e) = Append(q, e)
        BY <1>1 DEF Offer
    <2> QED BY <1>1, <2>1, <2>2, ContainsAppend, BoundsAssumption DEF WillLearn
<1>2. CASE ~(Len(q) < QueueLimit)
    <2>1. Offer(q, e) = <<Everything>> /\ <<Everything>> \in Seq(Announced) /\ Len(<<Everything>>) = 1
        BY <1>2 DEF Offer, Announced
    <2>2. Contains(<<Everything>>, Everything)
        BY DEF Contains
    <2> QED BY <2>1, <2>2, BoundsAssumption DEF WillLearn
<1> QED BY <1>1, <1>2

LEMMA RealtimeInitHolds == RealtimeInit => RealtimeInv
BY BoundsAssumption DEF RealtimeInit, RealtimeInv, RealtimeTypeOK, OldNewsIsOnItsWay, Unread

LEMMA PublishReachesEveryStream ==
    ASSUME RealtimeInv, NEW e \in Announced, Publish(e), UNCHANGED stream
    PROVE  /\ backlog' \in [Streams -> Seq(Announced)]
           /\ \A s \in Streams :
                /\ Len(backlog'[s]) <= QueueLimit
                /\ stream[s] = "open" =>
                     /\ WillLearn(backlog'[s], e)
                     /\ \A d : WillLearn(backlog[s], d) => WillLearn(backlog'[s], d)
<1>0. SUFFICES ASSUME NEW s \in Streams
      PROVE  /\ backlog'[s] \in Seq(Announced) /\ Len(backlog'[s]) <= QueueLimit
             /\ stream[s] = "open" =>
                  /\ WillLearn(backlog'[s], e)
                  /\ \A d : WillLearn(backlog[s], d) => WillLearn(backlog'[s], d)
    BY DEF Publish
<1>1. backlog[s] \in Seq(Announced) /\ Len(backlog[s]) <= QueueLimit
    BY DEF RealtimeInv, RealtimeTypeOK, Announced
<1>2. CASE stream[s] = "closed"
    BY <1>2, BoundsAssumption DEF Publish
<1>3. CASE stream[s] # "closed"
    <2>1. backlog'[s] = Offer(backlog[s], e)
        BY <1>3 DEF Publish
    <2> QED BY <1>1, <2>1, OfferLosesNothing
<1> QED BY <1>2, <1>3

LEMMA RealtimeNextKeeps == RealtimeInv /\ [RealtimeNext]_realtimeVars => RealtimeInv'
<1> SUFFICES ASSUME RealtimeInv, [RealtimeNext]_realtimeVars PROVE RealtimeInv'
    OBVIOUS
<1> USE BoundsAssumption DEF RealtimeInv
<1> DEFINE Typed == RealtimeTypeOK'
           News == OldNewsIsOnItsWay'
<1>1. ASSUME NEW t \in Threads, Change(t) PROVE RealtimeInv'
    <2>1. /\ version' = [version EXCEPT ![t] = @ + 1] /\ version[t] < MaxVersion
          /\ UNCHANGED <<listener, stream, backlog, shown>>
          /\ wire' = IF listener = "down" THEN wire ELSE Append(wire, t)
        BY <1>1 DEF Change
    <2>2. /\ Append(wire, t) \in Seq(Threads)
          /\ \A d : Contains(Append(wire, t), d) <=> (d = t \/ Contains(wire, d))
        BY ContainsAppend DEF RealtimeTypeOK
    <2>3. Typed
        BY <2>1, <2>2 DEF RealtimeTypeOK
    <2>4. News
        BY <2>1, <2>2 DEF OldNewsIsOnItsWay, RealtimeTypeOK
    <2> QED BY <2>3, <2>4
<1>2. CASE Poll
    <2>1. /\ listener = "up" /\ wire # <<>> /\ Publish(Head(wire)) /\ wire' = Tail(wire)
          /\ UNCHANGED <<version, listener, stream, shown>>
        BY <1>2 DEF Poll
    <2>2. /\ Head(wire) \in Announced /\ Tail(wire) \in Seq(Threads)
          /\ \A d : Contains(wire, d) => d = Head(wire) \/ Contains(Tail(wire), d)
        BY <2>1, ContainsTail DEF RealtimeTypeOK, Announced
    <2>3. /\ backlog' \in [Streams -> Seq(Announced)]
          /\ \A s \in Streams :
               /\ Len(backlog'[s]) <= QueueLimit
               /\ stream[s] = "open" =>
                  /\ WillLearn(backlog'[s], Head(wire))
                  /\ \A d : WillLearn(backlog[s], d) => WillLearn(backlog'[s], d)
        BY <2>1, <2>2, PublishReachesEveryStream
    <2>4. Typed
        BY <2>1, <2>2, <2>3 DEF RealtimeTypeOK, Announced
    <2>5. News
        BY <2>1, <2>2, <2>3 DEF OldNewsIsOnItsWay, WillLearn
    <2> QED BY <2>4, <2>5
<1>3. CASE ListenerFails
    BY <1>3 DEF ListenerFails, RealtimeTypeOK, OldNewsIsOnItsWay
<1>4. CASE Listen
    BY <1>4 DEF Listen, RealtimeTypeOK, OldNewsIsOnItsWay
<1>5. CASE Resync
    <2>1. Publish(Everything) /\ listener' = "up" /\ UNCHANGED <<version, wire, stream, shown>>
        BY <1>5 DEF Resync
    <2>2. /\ backlog' \in [Streams -> Seq(Announced)]
          /\ \A s \in Streams :
               /\ Len(backlog'[s]) <= QueueLimit
               /\ stream[s] = "open" => Contains(backlog'[s], Everything)
        BY <2>1, PublishReachesEveryStream DEF Announced, WillLearn
    <2>3. Typed
        BY <2>1, <2>2 DEF RealtimeTypeOK, Announced
    <2>4. News
        BY <2>1, <2>2 DEF OldNewsIsOnItsWay
    <2> QED BY <2>3, <2>4
<1>6. ASSUME NEW s \in Streams, Subscribe(s) PROVE RealtimeInv'
    BY <1>6 DEF Subscribe, RealtimeTypeOK, OldNewsIsOnItsWay
<1>7. ASSUME NEW s \in Streams, Greet(s) PROVE RealtimeInv'
    <2>1. /\ \A r \in Streams : r # s => shown'[r] = shown[r] /\ stream'[r] = stream[r]
          /\ \A t \in Threads : shown'[s][t] = version[t]
          /\ UNCHANGED <<version, wire, listener, backlog>>
        BY <1>7 DEF Greet, Fetch, RealtimeTypeOK
    <2>2. Typed
        BY <1>7 DEF Greet, Fetch, RealtimeTypeOK
    <2>3. News
        BY <2>1 DEF OldNewsIsOnItsWay
    <2> QED BY <2>2, <2>3
<1>8. ASSUME NEW s \in Streams, Send(s) PROVE RealtimeInv'
    <2> DEFINE e == Head(backlog[s])
    <2>1. /\ backlog[s] # <<>> /\ Fetch(s, e) /\ backlog' = [backlog EXCEPT ![s] = Tail(@)]
          /\ UNCHANGED <<version, wire, listener, stream>>
          /\ backlog[s] \in Seq(Announced) /\ Len(backlog[s]) <= QueueLimit
        BY <1>8 DEF Send, RealtimeTypeOK, Announced
    <2>2. /\ Tail(backlog[s]) \in Seq(Announced) /\ Len(Tail(backlog[s])) <= QueueLimit
          /\ \A d : Contains(backlog[s], d) => d = e \/ Contains(Tail(backlog[s]), d)
        <3>1. Len(backlog[s]) \in Nat
            BY <2>1, LenProperties
        <3> QED BY <2>1, <3>1, ContainsTail
    <2>3. /\ \A r \in Streams : r # s => shown'[r] = shown[r]
          /\ \A t \in Threads : shown'[s][t] = IF e \in {t, Everything} THEN version[t] ELSE shown[s][t]
        BY <2>1 DEF Fetch, RealtimeTypeOK
    <2>4. shown' \in [Streams -> [Threads -> 0..MaxVersion]]
        BY <2>1 DEF Fetch, RealtimeTypeOK
    <2>5. \A r \in Streams : r # s => backlog'[r] = backlog[r]
        BY <2>1
    <2>6. backlog' \in [Streams -> Seq(Announced)] /\ backlog'[s] = Tail(backlog[s])
        BY <2>1, <2>2 DEF RealtimeTypeOK, Announced
    <2>7. Typed
        BY <2>1, <2>2, <2>4, <2>5, <2>6 DEF RealtimeTypeOK, Announced
    <2>8. News
        BY <2>1, <2>2, <2>3, <2>5, <2>6 DEF OldNewsIsOnItsWay
    <2> QED BY <2>7, <2>8
<1>9. ASSUME NEW s \in Streams, Disconnect(s) PROVE RealtimeInv'
    <2>1. /\ stream' = [stream EXCEPT ![s] = "closed"] /\ backlog' = [backlog EXCEPT ![s] = <<>>]
          /\ UNCHANGED <<version, wire, listener, shown>>
        BY <1>9 DEF Disconnect
    <2>2. \A r \in Streams : r # s => stream'[r] = stream[r] /\ backlog'[r] = backlog[r]
        BY <2>1
    <2>3. Typed /\ News
        BY <2>1, <2>2 DEF RealtimeTypeOK, OldNewsIsOnItsWay
    <2> QED BY <2>3
<1>10. CASE UNCHANGED realtimeVars
    BY <1>10 DEF realtimeVars, RealtimeTypeOK, OldNewsIsOnItsWay
<1> QED BY <1>1, <1>2, <1>3, <1>4, <1>5, <1>6, <1>7, <1>8, <1>9, <1>10 DEF RealtimeNext

-----------------------------------------------------------------------------
(* News on its way, together with the types, is kept by every step.           *)
THEOREM RealtimeInvariant == RealtimeSpec => []RealtimeInv
BY RealtimeInitHolds, RealtimeNextKeeps, PTL DEF RealtimeSpec

(* No queue is longer than its limit, whoever publishes and whoever reads.    *)
THEOREM RealtimeTyped == RealtimeSpec => []RealtimeTypeOK
<1>1. RealtimeInv => RealtimeTypeOK
    BY DEF RealtimeInv
<1> QED BY <1>1, RealtimeInvariant, PTL

(* However streams come and go, queues fill up and the listener reconnects,   *)
(* an open inbox that shows something old is about to learn of it.            *)
THEOREM NoNewsIsLost == RealtimeSpec => []OldNewsIsOnItsWay
<1>1. RealtimeInv => OldNewsIsOnItsWay
    BY DEF RealtimeInv
<1> QED BY <1>1, RealtimeInvariant, PTL

-----------------------------------------------------------------------------
(* Media.  The argument is one of ownership.  A key that was given out is     *)
(* owned by one row, one upload or one script that is taking a blob out; an   *)
(* owned key has its object and no tombstone.  A script that is taking a blob *)
(* in owns nothing: its key is that of its row, or nobody's.                  *)

OnlyKeptHasKey == \A p \in Pictures : row[p].life # "kept" => row[p].key = NoKey

RowsOwn ==
    \A p, q \in Pictures : row[p].key # NoKey /\ row[p].key = row[q].key => p = q

\* An object that is there and that no row names yet.
FreshKey(k) == k \in bucket \ tombstones /\ \A q \in Pictures : row[q].key # k

UploadsOwn ==
    \A p \in Pictures : upload[p] # NoKey =>
        /\ row[p].life = "new" /\ FreshKey(upload[p])
        /\ \A q \in Pictures : upload[q] = upload[p] => q = p

OutsOwn ==
    \A m \in Movers : mover[m].does = "out" =>
        /\ mover[m].row \in Pictures /\ FreshKey(mover[m].key)
        /\ \A p \in Pictures : upload[p] # mover[m].key
        /\ \A n \in Movers : mover[n].key = mover[m].key => n = m

InsOwnNothing ==
    \A m \in Movers : mover[m].does = "in" =>
        /\ mover[m].row \in Pictures
        /\ \A q \in Pictures : q # mover[m].row => row[q].key # mover[m].key
        /\ \A p \in Pictures : upload[p] # mover[m].key

MoversTyped ==
    \A m \in Movers : IF mover[m].does = "rest" THEN mover[m] = AtRest ELSE mover[m].key \in given

\* As ObjectsAccountedFor, with no script that is taking a blob in.
ObjectsOwned ==
    \A k \in bucket : \/ k \in tombstones \cup stranded
                      \/ \E p \in Pictures : row[p].key = k \/ upload[p] = k
                      \/ \E m \in Movers : mover[m].does = "out" /\ mover[m].key = k

MediaInv ==
    /\ MediaTypeOK /\ MoversTyped
    /\ OnlyKeptHasKey /\ RowsOwn /\ UploadsOwn /\ OutsOwn /\ InsOwnNothing
    /\ BytesReachable
    /\ ObjectsOwned

-----------------------------------------------------------------------------
LEMMA MediaInitHolds == MediaInit => MediaInv
BY KeyAssumption
DEF MediaInit, MediaInv, MediaTypeOK, MoversTyped, OnlyKeptHasKey, RowsOwn, UploadsOwn, OutsOwn,
    InsOwnNothing, BytesReachable, ObjectsOwned, New, AtRest, FreshKey

(* A stretch of typing that every action below needs.                         *)
LEMMA MediaNextTyped == MediaInv /\ [MediaNext]_mediaVars => MediaTypeOK' /\ MoversTyped'
<1> SUFFICES ASSUME MediaInv, [MediaNext]_mediaVars PROVE MediaTypeOK' /\ MoversTyped'
    OBVIOUS
<1> USE KeyAssumption DEF MediaInv, MediaTypeOK, MoversTyped
<1>1. ASSUME NEW p \in Pictures, NEW k \in Keys, StartUpload(p, k)
      PROVE  MediaTypeOK' /\ MoversTyped'
    BY <1>1 DEF StartUpload, Put
<1>2a. ASSUME NEW p \in Pictures, FinishUpload(p) PROVE MediaTypeOK' /\ MoversTyped'
    <2> DEFINE k == upload[p]
    <2>1. k \in given
        BY <1>2a DEF FinishUpload
    <2>2. /\ row' \in {row, [row EXCEPT ![p] = At(k)]}
          /\ stranded' \in {stranded, stranded \cup {k}}
          /\ upload' = [upload EXCEPT ![p] = NoKey]
          /\ UNCHANGED <<bucket, tombstones, given, mover, toBucket>>
        BY <1>2a DEF FinishUpload
    <2> HIDE DEF k
    <2>3. row' \in [Pictures -> [life : {"new", "kept", "gone"}, blob : BOOLEAN, key : Keys \cup {NoKey}]]
      <3>1. At(k) \in [life : {"new", "kept", "gone"}, blob : BOOLEAN, key : Keys \cup {NoKey}]
        BY <2>1 DEF At
      <3> QED BY <3>1, <2>2
    <2> QED BY <2>1, <2>2, <2>3
<1>2b. ASSUME NEW p \in Pictures, StoreInRow(p) PROVE MediaTypeOK' /\ MoversTyped'
    BY <1>2b DEF StoreInRow, InRow
<1>3. ASSUME NEW p \in Pictures, Delete(p)
      PROVE  MediaTypeOK' /\ MoversTyped'
    <2>1. row[p].key \in given \cup {NoKey}
        BY <1>3 DEF Delete, BytesReachable
    <2> QED BY <1>3, <2>1 DEF Delete, Tombstone, Gone
<1>4. ASSUME NEW S \in SUBSET Keys, Sweep(S) PROVE MediaTypeOK' /\ MoversTyped'
    BY <1>4 DEF Sweep
<1>5. ASSUME NEW m \in Movers, NEW p \in Pictures, TakeIn(m, p)
      PROVE  MediaTypeOK' /\ MoversTyped'
    BY <1>5 DEF TakeIn, AtRest
<1>6. ASSUME NEW m \in Movers, NEW p \in Pictures, NEW k \in Keys, TakeOut(m, p, k)
      PROVE  MediaTypeOK' /\ MoversTyped'
    BY <1>6 DEF TakeOut, Put, AtRest
<1>7. ASSUME NEW m \in Movers, CommitMove(m) PROVE MediaTypeOK' /\ MoversTyped'
    <2> DEFINE w == mover[m]
    <2>1. w.does \in {"out", "in"} /\ w.row \in Pictures /\ w.key \in given
        BY <1>7 DEF CommitMove, OutsOwn, InsOwnNothing
    <2>2. row[w.row].key \in given \cup {NoKey}
        BY <1>7, <2>1 DEF CommitMove, BytesReachable
    <2> QED BY <1>7, <2>1, <2>2 DEF CommitMove, Moved, At, InRow, Tombstone, AtRest
<1>8. ASSUME NEW m \in Movers, StopMover(m) PROVE MediaTypeOK' /\ MoversTyped'
    BY <1>8 DEF StopMover, AtRest
<1>9. CASE SwitchBackend \/ UNCHANGED mediaVars
    BY <1>9 DEF SwitchBackend, mediaVars
<1> QED BY <1>1, <1>2a, <1>2b, <1>3, <1>4, <1>5, <1>6, <1>7, <1>8, <1>9 DEF MediaNext

-----------------------------------------------------------------------------
Ownership == RowsOwn /\ UploadsOwn /\ OutsOwn /\ InsOwnNothing

(* A new key is nobody's: whoever puts its object may own it.                 *)
LEMMA NewKeyIsFree ==
    ASSUME MediaInv, NEW k, Put(k), UNCHANGED <<row, tombstones>>
    PROVE  /\ FreshKey(k)' /\ k # NoKey
           /\ \A p \in Pictures : row[p].key # k /\ upload[p] # k
           /\ \A m \in Movers : mover[m].key # k
           /\ \A j : FreshKey(j) => FreshKey(j)'
<1> USE DEF MediaInv, MediaTypeOK, MoversTyped
<1>1. k \in Keys /\ k \notin given /\ k # NoKey /\ bucket' = bucket \cup {k}
    BY KeyAssumption DEF Put
<1>2. \A p \in Pictures : row[p].key \in given \cup {NoKey}
    <2> TAKE p \in Pictures
    <2>1. CASE row[p].life # "kept"
        BY <2>1 DEF OnlyKeptHasKey
    <2>2. CASE row[p].life = "kept"
        BY <2>2 DEF BytesReachable
    <2> QED BY <2>1, <2>2
<1>3. \A m \in Movers : mover[m].key \in given \cup {NoKey}
    BY DEF AtRest
<1> QED BY <1>1, <1>2, <1>3 DEF FreshKey

LEMMA MediaNextKeeps == MediaInv /\ [MediaNext]_mediaVars => MediaInv'
<1> SUFFICES ASSUME MediaInv, [MediaNext]_mediaVars PROVE MediaInv'
    OBVIOUS
<1> DEFINE Rest == OnlyKeptHasKey /\ Ownership /\ BytesReachable /\ ObjectsOwned
<1>0. MediaTypeOK' /\ MoversTyped'
    BY MediaNextTyped
<1> SUFFICES Rest'
    BY <1>0 DEF MediaInv, Ownership
<1> USE KeyAssumption DEF MediaInv
<1>a. \A k \in bucket : k # NoKey
    BY DEF MediaTypeOK
<1>b. \A m \in Movers : mover[m].does # "rest" => mover[m].key # NoKey
    BY DEF MoversTyped, MediaTypeOK
<1>1. ASSUME NEW p \in Pictures, NEW k \in Keys, StartUpload(p, k) PROVE Rest'
    <2>1. /\ FreshKey(k)' /\ k # NoKey /\ \A j : FreshKey(j) => FreshKey(j)'
          /\ \A q \in Pictures : row[q].key # k /\ upload[q] # k
          /\ \A m \in Movers : mover[m].key # k
        BY <1>1, NewKeyIsFree DEF StartUpload
    <2>2. /\ upload \in [Pictures -> given \cup {NoKey}] /\ upload[p] = NoKey
          /\ row[p].life = "new" /\ upload' = [upload EXCEPT ![p] = k] /\ bucket' = bucket \cup {k}
          /\ UNCHANGED <<row, tombstones, mover, stranded>>
        BY <1>1 DEF StartUpload, Put, MediaTypeOK
    <2>3. OnlyKeptHasKey' /\ RowsOwn' /\ BytesReachable'
        BY <2>2 DEF OnlyKeptHasKey, RowsOwn, BytesReachable
    <2>4. UploadsOwn'
        BY <2>1, <2>2 DEF UploadsOwn, FreshKey
    <2>5. OutsOwn' /\ InsOwnNothing'
        BY <2>1, <2>2 DEF OutsOwn, InsOwnNothing, FreshKey
    <2>6. ObjectsOwned'
      <3>1. upload'[p] = k /\ \A q \in Pictures : q # p => upload'[q] = upload[q]
        BY <2>2
      <3> QED BY <1>a, <2>2, <3>1 DEF ObjectsOwned
    <2> QED BY <2>3, <2>4, <2>5, <2>6 DEF Ownership
<1>2. ASSUME NEW p \in Pictures, FinishUpload(p) PROVE Rest'
    <2>1. /\ upload[p] # NoKey /\ upload \in [Pictures -> given \cup {NoKey}]
          /\ upload' = [upload EXCEPT ![p] = NoKey]
          /\ UNCHANGED <<bucket, tombstones, mover>>
        BY <1>2 DEF FinishUpload, MediaTypeOK
    <2>2. CASE stranded' = stranded \cup {upload[p]} /\ UNCHANGED row
        <3>1. OnlyKeptHasKey' /\ RowsOwn' /\ BytesReachable'
            BY <2>1, <2>2 DEF OnlyKeptHasKey, RowsOwn, BytesReachable
        <3>2. UploadsOwn'
            BY <2>1, <2>2 DEF UploadsOwn, FreshKey
        <3>4. OutsOwn'
            BY <1>b, <2>1, <2>2 DEF OutsOwn, FreshKey
        <3>5. InsOwnNothing'
            BY <1>b, <2>1, <2>2 DEF InsOwnNothing
        <3>3. ObjectsOwned'
            BY <1>a, <2>1, <2>2 DEF ObjectsOwned
        <3> QED BY <3>1, <3>2, <3>3, <3>4, <3>5 DEF Ownership
    <2>3. CASE row' = [row EXCEPT ![p] = At(upload[p])] /\ UNCHANGED stranded
        <3>1. /\ \A q \in Pictures : row'[q] = IF q = p THEN At(upload[p]) ELSE row[q]
              /\ FreshKey(upload[p])
            BY <2>1, <2>3 DEF MediaTypeOK, UploadsOwn
        <3>2. row'[p].key = upload[p] /\ row'[p].life = "kept" /\ row'[p].blob = FALSE
            BY <3>1 DEF At
        <3>3. OnlyKeptHasKey' /\ RowsOwn'
            BY <3>1, <3>2 DEF OnlyKeptHasKey, RowsOwn, FreshKey
        <3>4. BytesReachable'
            BY <2>1, <3>1, <3>2 DEF BytesReachable, FreshKey
        <3>5. UploadsOwn'
            BY <2>1, <3>1, <3>2 DEF UploadsOwn, FreshKey
        <3>6. /\ \A m \in Movers : mover[m].does # "rest" => mover[m].key # upload[p]
              /\ \A q \in Pictures : row'[q].key = row[q].key \/ (q = p /\ row'[q].key = upload[p])
              /\ \A q \in Pictures : upload'[q] = upload[q] \/ upload'[q] = NoKey
            BY <2>1, <3>1, <3>2 DEF OutsOwn, InsOwnNothing, MediaTypeOK
        <3>9. OutsOwn'
            BY <1>b, <2>1, <3>6 DEF OutsOwn, FreshKey
        <3>10. InsOwnNothing'
            BY <1>b, <2>1, <3>6 DEF InsOwnNothing
        <3>7. ASSUME NEW q \in Pictures, row[q].key # NoKey PROVE row'[q].key = row[q].key
            <4>1. q # p
                BY <2>1, <3>7 DEF UploadsOwn, OnlyKeptHasKey
            <4> QED BY <4>1, <3>1
        <3>8. ObjectsOwned'
            BY <2>1, <2>3, <3>2, <3>7 DEF ObjectsOwned, MediaTypeOK
        <3> QED BY <3>3, <3>4, <3>5, <3>8, <3>9, <3>10 DEF Ownership
    <2> QED BY <1>2, <2>2, <2>3 DEF FinishUpload
<1>3. ASSUME NEW p \in Pictures, StoreInRow(p) PROVE Rest'
    <2>1. /\ row[p].life = "new" /\ upload[p] = NoKey
          /\ \A q \in Pictures : row'[q] = IF q = p THEN InRow ELSE row[q]
          /\ UNCHANGED <<bucket, tombstones, upload, mover, stranded>>
        BY <1>3 DEF StoreInRow, MediaTypeOK
    <2>2. /\ row'[p].life = "kept" /\ row'[p].blob = TRUE /\ row'[p].key = NoKey
          /\ row[p].key = NoKey
        BY <2>1 DEF InRow, OnlyKeptHasKey
    <2>3. OnlyKeptHasKey' /\ RowsOwn' /\ BytesReachable'
        BY <2>1, <2>2 DEF OnlyKeptHasKey, RowsOwn, BytesReachable
    <2>4. \A q \in Pictures : row'[q].key = row[q].key
        BY <2>1, <2>2
    <2>5. UploadsOwn'
        BY <2>1, <2>4 DEF UploadsOwn, FreshKey
    <2>6. OutsOwn' /\ InsOwnNothing'
        BY <2>1, <2>4 DEF OutsOwn, InsOwnNothing, FreshKey
    <2>7. ObjectsOwned'
        BY <2>1, <2>4 DEF ObjectsOwned
    <2> QED BY <2>3, <2>5, <2>6, <2>7 DEF Ownership
<1>4. ASSUME NEW p \in Pictures, Delete(p) PROVE Rest'
    <2>1. /\ row[p].life = "kept"
          /\ \A q \in Pictures : row'[q] = IF q = p THEN Gone ELSE row[q]
          /\ tombstones' = tombstones \cup ({row[p].key} \ {NoKey})
          /\ UNCHANGED <<bucket, upload, mover, stranded>>
        BY <1>4 DEF Delete, Tombstone, MediaTypeOK
    <2>2. row'[p].life = "gone" /\ row'[p].key = NoKey
        BY <2>1 DEF Gone
    <2>3. OnlyKeptHasKey' /\ RowsOwn'
        BY <2>1, <2>2 DEF OnlyKeptHasKey, RowsOwn
    <2>4. BytesReachable'
        BY <1>a, <2>1, <2>2 DEF BytesReachable, RowsOwn
    <2>5. \A j : j # NoKey /\ FreshKey(j) => /\ j \in bucket' \ tombstones'
                                         /\ \A q \in Pictures : row'[q].key # j
        BY <2>1, <2>2 DEF FreshKey
    <2>6. UploadsOwn'
        BY <2>1, <2>5 DEF UploadsOwn, FreshKey
    <2>7. OutsOwn'
        BY <1>b, <2>1, <2>5 DEF OutsOwn, FreshKey
    <2>8. InsOwnNothing'
        BY <1>b, <2>1, <2>2 DEF InsOwnNothing
    <2>9. ObjectsOwned'
        BY <1>a, <2>1, <2>2 DEF ObjectsOwned
    <2> QED BY <2>3, <2>4, <2>6, <2>7, <2>8, <2>9 DEF Ownership
<1>5. ASSUME NEW S \in SUBSET Keys, Sweep(S) PROVE Rest'
    <2>1. /\ S \subseteq tombstones /\ bucket' = bucket \ S
          /\ tombstones \ S \subseteq tombstones' /\ tombstones' \subseteq tombstones
          /\ UNCHANGED <<row, upload, mover, stranded>>
        BY <1>5 DEF Sweep
    <2>2. bucket' \ tombstones' = bucket \ tombstones
        BY <2>1
    <2>3. OnlyKeptHasKey' /\ RowsOwn' /\ InsOwnNothing'
        BY <2>1 DEF OnlyKeptHasKey, RowsOwn, InsOwnNothing
    <2>4. BytesReachable' /\ UploadsOwn' /\ OutsOwn'
        BY <2>1, <2>2 DEF BytesReachable, UploadsOwn, OutsOwn, FreshKey
    <2>5. ObjectsOwned'
        BY <2>1 DEF ObjectsOwned
    <2> QED BY <2>3, <2>4, <2>5 DEF Ownership
<1>6. ASSUME NEW m \in Movers, NEW p \in Pictures, NEW k \in Keys, TakeOut(m, p, k) PROVE Rest'
    <2>1. /\ FreshKey(k)' /\ k # NoKey /\ \A j : FreshKey(j) => FreshKey(j)'
          /\ \A q \in Pictures : row[q].key # k /\ upload[q] # k
          /\ \A n \in Movers : mover[n].key # k
        BY <1>6, NewKeyIsFree DEF TakeOut
    <2>2. /\ bucket' = bucket \cup {k} /\ UNCHANGED <<row, tombstones, upload, stranded>>
          /\ mover[m].does = "rest"
          /\ \A n \in Movers : mover'[n] = IF n = m THEN [does |-> "out", row |-> p, key |-> k] ELSE mover[n]
        BY <1>6 DEF TakeOut, Put, MediaTypeOK, AtRest
    <2>3. OnlyKeptHasKey' /\ RowsOwn' /\ BytesReachable'
        BY <2>2 DEF OnlyKeptHasKey, RowsOwn, BytesReachable
    <2>4. UploadsOwn'
        BY <2>1, <2>2 DEF UploadsOwn, FreshKey
    <2>5. OutsOwn'
        BY <2>1, <2>2 DEF OutsOwn, FreshKey
    <2>6. InsOwnNothing'
        BY <2>2 DEF InsOwnNothing
    <2>7. ObjectsOwned'
        BY <2>2 DEF ObjectsOwned
    <2> QED BY <2>3, <2>4, <2>5, <2>6, <2>7 DEF Ownership
<1>7. ASSUME NEW m \in Movers, NEW p \in Pictures, TakeIn(m, p) PROVE Rest'
    <2>1. /\ row[p].key \in bucket /\ UNCHANGED <<row, bucket, tombstones, upload, stranded>>
          /\ mover[m].does = "rest"
          /\ \A n \in Movers :
               mover'[n] = IF n = m THEN [does |-> "in", row |-> p, key |-> row[p].key] ELSE mover[n]
        BY <1>7 DEF TakeIn, MediaTypeOK, AtRest
    <2>2. OnlyKeptHasKey' /\ RowsOwn' /\ BytesReachable'
        BY <2>1 DEF OnlyKeptHasKey, RowsOwn, BytesReachable
    <2>3. UploadsOwn'
        BY <2>1 DEF UploadsOwn, FreshKey
    <2>4. OutsOwn'
        BY <2>1 DEF OutsOwn, FreshKey
    <2>5. InsOwnNothing'
        BY <1>a, <2>1 DEF InsOwnNothing, RowsOwn, UploadsOwn, FreshKey
    <2>6. ObjectsOwned'
        BY <2>1 DEF ObjectsOwned
    <2> QED BY <2>2, <2>3, <2>4, <2>5, <2>6 DEF Ownership
<1>8. ASSUME NEW m \in Movers, CommitMove(m) PROVE Rest'
    <2> DEFINE w == mover[m]
               p == w.row
    <2>0. w.does \in {"out", "in"} /\ p \in Pictures /\ w.key # NoKey
        BY <1>8, <1>b DEF CommitMove, MoversTyped, MediaTypeOK, OutsOwn, InsOwnNothing
    <2>1. /\ w.does \in {"out", "in"} /\ p \in Pictures /\ w.key # NoKey
          /\ row[p].life = "kept"
          /\ \A q \in Pictures : row'[q] = IF q = p THEN Moved(p, w) ELSE row[q]
          /\ stranded' = stranded \cup ({row[p].key} \ {NoKey, w.key})
          /\ tombstones' = IF w.does = "in" THEN tombstones \cup {w.key} ELSE tombstones
          /\ mover'[m].does = "rest" /\ mover'[m].key = NoKey
          /\ \A n \in Movers : n # m => mover'[n] = mover[n]
          /\ UNCHANGED <<bucket, upload>>
        BY <1>8, <2>0 DEF CommitMove, Tombstone, MediaTypeOK, AtRest
    <2>2. upload[p] = NoKey
        BY <2>1 DEF UploadsOwn
    <2>3. CASE w.does = "out"
        <3>1. /\ row'[p].life = "kept" /\ row'[p].blob = FALSE /\ row'[p].key = w.key
              /\ \A q \in Pictures : q # p => row'[q] = row[q]
              /\ tombstones' = tombstones
            BY <2>1, <2>3 DEF Moved, At
        <3>2. /\ FreshKey(w.key) /\ \A q \in Pictures : upload[q] # w.key
              /\ \A n \in Movers : mover[n].key = w.key => n = m
            BY <2>3 DEF OutsOwn
        <3> HIDE DEF w, p
        <3>3. OnlyKeptHasKey' /\ RowsOwn' /\ BytesReachable'
            BY <2>1, <3>1, <3>2 DEF OnlyKeptHasKey, RowsOwn, BytesReachable, FreshKey
        <3>4. UploadsOwn'
            BY <2>1, <2>2, <3>1, <3>2 DEF UploadsOwn, FreshKey
        <3>5. \A n \in Movers : mover'[n].does # "rest" => mover'[n] = mover[n] /\ mover[n].key # w.key
            BY <2>1, <3>2
        <3>6. OutsOwn'
            BY <2>1, <3>1, <3>5, <1>b DEF OutsOwn, FreshKey
        <3>7. InsOwnNothing'
            BY <2>1, <3>1, <3>5 DEF InsOwnNothing
        <3>8. ObjectsOwned'
            BY <2>1, <3>1, <1>a DEF ObjectsOwned, p, w
        <3> QED BY <3>3, <3>4, <3>6, <3>7, <3>8 DEF Ownership
    <2>4. CASE w.does = "in"
        <3>1. /\ row'[p].life = "kept" /\ row'[p].blob = TRUE /\ row'[p].key = NoKey
              /\ \A q \in Pictures : q # p => row'[q] = row[q]
              /\ tombstones' = tombstones \cup {w.key}
            BY <2>1, <2>4 DEF Moved, InRow
        <3>2. /\ \A q \in Pictures : q # p => row[q].key # w.key
              /\ \A q \in Pictures : upload[q] # w.key
              /\ \A n \in Movers : mover[n].does = "out" => mover[n].key # w.key
            BY <2>4 DEF OutsOwn, InsOwnNothing
        <3> HIDE DEF w, p
        <3>3. OnlyKeptHasKey' /\ RowsOwn' /\ BytesReachable'
            BY <2>1, <3>1, <3>2 DEF OnlyKeptHasKey, RowsOwn, BytesReachable
        <3>4. \A j : FreshKey(j) /\ j # w.key /\ j # NoKey => FreshKey(j)'
            BY <2>1, <3>1 DEF FreshKey
        <3>5. UploadsOwn'
            BY <2>1, <2>2, <3>1, <3>2, <3>4 DEF UploadsOwn
        <3>6. OutsOwn'
            BY <2>1, <3>1, <3>2, <3>4, <1>b DEF OutsOwn
        <3>7. InsOwnNothing'
            BY <2>1, <3>1, <1>b DEF InsOwnNothing
        <3>8. ObjectsOwned'
            <4> SUFFICES ASSUME NEW k \in bucket, k \notin tombstones' \cup stranded'
                         PROVE  \/ \E q \in Pictures : row'[q].key = k \/ upload[q] = k
                                \/ \E n \in Movers : mover'[n].does = "out" /\ mover'[n].key = k
                BY <2>1 DEF ObjectsOwned
            <4>1. k # w.key /\ k # row[p].key /\ k \notin tombstones \cup stranded
                BY <2>1, <3>1, <1>a
            <4>2. CASE \E q \in Pictures : row[q].key = k \/ upload[q] = k
                BY <4>1, <4>2, <3>1
            <4>3. CASE \E n \in Movers : mover[n].does = "out" /\ mover[n].key = k
                BY <4>1, <4>3, <2>1 DEF w
            <4> QED BY <4>1, <4>2, <4>3 DEF ObjectsOwned
        <3> QED BY <3>3, <3>5, <3>6, <3>7, <3>8 DEF Ownership
    <2> QED BY <2>1, <2>3, <2>4
<1>9. ASSUME NEW m \in Movers, StopMover(m) PROVE Rest'
    <2>1. /\ stranded' = IF mover[m].does = "out" THEN stranded \cup {mover[m].key} ELSE stranded
          /\ mover'[m].does = "rest" /\ mover'[m].key = NoKey
          /\ \A n \in Movers : n # m => mover'[n] = mover[n]
          /\ UNCHANGED <<row, bucket, tombstones, upload>>
        BY <1>9 DEF StopMover, MediaTypeOK, AtRest
    <2>2. OnlyKeptHasKey' /\ RowsOwn' /\ BytesReachable'
        BY <2>1 DEF OnlyKeptHasKey, RowsOwn, BytesReachable
    <2>3. UploadsOwn'
        BY <2>1 DEF UploadsOwn, FreshKey
    <2>4. OutsOwn'
        BY <2>1, <1>b DEF OutsOwn, FreshKey
    <2>5. InsOwnNothing'
        BY <2>1 DEF InsOwnNothing
    <2>6. ObjectsOwned'
        BY <2>1 DEF ObjectsOwned
    <2> QED BY <2>2, <2>3, <2>4, <2>5, <2>6 DEF Ownership
<1>10. CASE SwitchBackend \/ UNCHANGED mediaVars
    <2>1. UNCHANGED <<row, bucket, tombstones, upload, mover, stranded>>
        BY <1>10 DEF SwitchBackend, mediaVars
    <2> QED BY <2>1 DEF Ownership, OnlyKeptHasKey, RowsOwn, UploadsOwn, OutsOwn, InsOwnNothing,
                        BytesReachable, ObjectsOwned, FreshKey
<1> QED BY <1>1, <1>2, <1>3, <1>4, <1>5, <1>6, <1>7, <1>8, <1>9, <1>10 DEF MediaNext

-----------------------------------------------------------------------------
(* Every behaviour of storage and its scripts keeps the inductive invariant.  *)
THEOREM KeysAreOwned == MediaSpec => []MediaInv
<1>1. MediaInit => MediaInv
    BY MediaInitHolds
<1>2. MediaInv /\ [MediaNext]_mediaVars => MediaInv'
    BY MediaNextKeeps
<1> QED BY <1>1, <1>2, PTL DEF MediaSpec

(* The variables of storage keep their types.                                 *)
THEOREM MediaTypeCorrect == MediaSpec => []MediaTypeOK
<1>1. MediaInv => MediaTypeOK
    BY DEF MediaInv
<1> QED BY <1>1, KeysAreOwned, PTL

(* However many uploads, deletes, sweeps and move_media scripts overlap, the  *)
(* bytes of a kept picture can be read, and no object stays in the bucket     *)
(* that neither a row, a request, a script nor a tombstone names, but those   *)
(* a commit that failed, a stopped script or two scripts on one row stranded. *)
THEOREM PicturesAreKept == MediaSpec => []PicturesKept
<1>1. MediaInv => PicturesKept
    BY DEF MediaInv, PicturesKept, ObjectsOwned, ObjectsAccountedFor
<1> QED BY <1>1, KeysAreOwned, PTL

-----------------------------------------------------------------------------
(* Galleries.  Positions number the images from zero, each once, and one is   *)
(* the cover; what is default is one active code.                             *)

\* Numbered from zero, each once: all the numbers below the size are taken.
Numbers(f, S) ==
    /\ f \in [S -> Nat] /\ \A i \in S : f[i] < Cardinality(S)
    /\ \A i, j \in S : f[i] = f[j] => i = j

AlbumHolds ==
    /\ HasImages \subseteq Images /\ Numbers(position, HasImages)
    /\ primary \subseteq HasImages /\ \A i, j \in primary : i = j
    /\ HasImages # {} => primary # {}

ShopQrsHold ==
    /\ qrs \in Seq(Qrs) /\ IsInjective(qrs)
    /\ active \subseteq Mine /\ default \subseteq active
    /\ \A p, q \in default : p = q

GalleryInv == AlbumHolds /\ ShopQrsHold

-----------------------------------------------------------------------------
LEMMA AllAreTaken ==
    ASSUME NEW S, IsFiniteSet(S), NEW f, Numbers(f, S)
    PROVE  /\ {f[i] : i \in S} = 0..Cardinality(S) - 1
           /\ S # {} => \E i \in S : f[i] = 0
<1>1. PICK n \in Nat : n = Cardinality(S)
    BY FS_CardinalityType
<1>2. IsFiniteSet(0..n - 1) /\ Cardinality(0..n - 1) = n
    <2>1. 0 \in Int /\ n - 1 \in Int
        BY <1>1
    <2>2. IsFiniteSet(0..n - 1) /\ Cardinality(0..n - 1) = IF 0 > n - 1 THEN 0 ELSE n - 1 - 0 + 1
        BY <2>1, FS_Interval
    <2> QED BY <1>1, <2>2
<1>3. f \in [S -> 0..n - 1]
    <2>1. \A i \in S : f[i] \in 0..n - 1
        BY <1>1 DEF Numbers
    <2> QED BY <2>1 DEF Numbers
<1>4. f \in Injection(S, 0..n - 1)
    BY <1>3 DEF Injection, IsInjective, Numbers
<1>5. f \in Surjection(S, 0..n - 1)
    BY <1>1, <1>2, <1>4, FS_Injection
<1>6. {f[i] : i \in S} = 0..n - 1
    BY <1>3, <1>5 DEF Surjection
<1>7. ASSUME S # {} PROVE \E i \in S : f[i] = 0
    <2>1. n # 0
        BY <1>1, <1>7, FS_EmptySet
    <2>2. 0 \in 0..n - 1
        BY <1>1, <2>1
    <2> QED BY <1>6, <2>2
<1> QED BY <1>1, <1>6, <1>7

LEMMA ImagesAreFinite ==
    ASSUME NEW S \in SUBSET Images
    PROVE  IsFiniteSet(S) /\ Cardinality(S) \in Nat
BY GalleryAssumption, FS_Subset, FS_CardinalityType

\* A list of images, each once, numbers them.
LEMMA ListNumbers ==
    ASSUME NEW n \in Nat, NEW s \in [1..n -> Images], IsInjective(s)
    PROVE  /\ Numbers(Numbered(s), ToSet(s)) /\ Cardinality(ToSet(s)) = n
           /\ ToSet(s) \subseteq Images
<1>1. ToSet(s) \subseteq Images /\ DOMAIN s = 1..n
    BY DEF ToSet
<1>2. Cardinality(ToSet(s)) = n
    <2>1. s \in Bijection(1..n, ToSet(s))
        BY <1>1 DEF Bijection, Injection, Surjection, IsInjective, ToSet
    <2>2. ExistsBijection(1..n, ToSet(s))
        BY <2>1 DEF ExistsBijection
    <2> QED BY <2>2, FS_CountingElements
<1>3. ASSUME NEW i \in ToSet(s)
      PROVE  \E k \in 1..n : s[k] = i /\ Numbered(s)[i] = k - 1
    <2>1. PICK k \in 1..n : s[k] = i
        BY <1>1 DEF ToSet
    <2>2. \A m \in 1..n : s[m] = i => m = k
        BY <1>1, <2>1 DEF IsInjective
    <2>3. (CHOOSE m \in DOMAIN s : s[m] = i) = k
        BY <1>1, <2>1, <2>2
    <2> QED BY <2>1, <2>3 DEF Numbered
<1>4. Numbers(Numbered(s), ToSet(s))
    <2>1. DOMAIN Numbered(s) = ToSet(s) /\ Numbered(s) = [i \in ToSet(s) |-> Numbered(s)[i]]
        BY DEF Numbered
    <2>2. \A i \in ToSet(s) : Numbered(s)[i] \in Nat /\ Numbered(s)[i] < n
        BY <1>3
    <2>3. \A i, j \in ToSet(s) : Numbered(s)[i] = Numbered(s)[j] => i = j
        <3> SUFFICES ASSUME NEW i \in ToSet(s), NEW j \in ToSet(s), Numbered(s)[i] = Numbered(s)[j]
            PROVE  i = j
            OBVIOUS
        <3>1. PICK k \in 1..n : s[k] = i /\ Numbered(s)[i] = k - 1
            BY <1>3
        <3>2. PICK m \in 1..n : s[m] = j /\ Numbered(s)[j] = m - 1
            BY <1>3
        <3>3. k - 1 = m - 1
            BY <3>1, <3>2, Zenon
        <3>4. k = m
            BY <3>3
        <3> QED BY <3>1, <3>2, <3>4
    <2>4. Numbered(s) \in [ToSet(s) -> Nat]
        BY <2>1, <2>2
    <2> QED BY <1>2, <2>2, <2>3, <2>4 DEF Numbers
<1> QED BY <1>1, <1>2, <1>4

\* Ranks number what is left.
LEMMA RanksNumber ==
    ASSUME NEW S, IsFiniteSet(S), NEW f, \A i \in S : f[i] \in Nat, \A i, j \in S : f[i] = f[j] => i = j
    PROVE  Numbers([j \in S |-> Cardinality({k \in S : f[k] < f[j]})], S)
<1> DEFINE Below(j) == {k \in S : f[k] < f[j]}
<1>1. \A j \in S : IsFiniteSet(Below(j)) /\ Cardinality(Below(j)) \in Nat
    <2>1. \A j \in S : Below(j) \in SUBSET S
        OBVIOUS
    <2> QED BY <2>1, FS_Subset, FS_CardinalityType
<1>2. \A j \in S : Cardinality(Below(j)) < Cardinality(S)
    <2> SUFFICES ASSUME NEW j \in S PROVE Cardinality(Below(j)) < Cardinality(S)
        OBVIOUS
    <2>1. Below(j) \in SUBSET S /\ j \notin Below(j)
        OBVIOUS
    <2>2. Cardinality(Below(j)) <= Cardinality(S) /\ Cardinality(S) # Cardinality(Below(j))
        BY <2>1, FS_Subset
    <2> HIDE DEF Below
    <2>3. Cardinality(S) \in Nat /\ Cardinality(Below(j)) \in Nat
        BY <1>1, FS_CardinalityType
    <2> QED BY <2>2, <2>3
<1>3. \A i, j \in S : f[i] < f[j] => Cardinality(Below(i)) < Cardinality(Below(j))
    <2> SUFFICES ASSUME NEW i \in S, NEW j \in S, f[i] < f[j]
        PROVE  Cardinality(Below(i)) < Cardinality(Below(j))
        OBVIOUS
    <2>1. Below(i) \in SUBSET Below(j) /\ i \in Below(j) /\ i \notin Below(i)
        OBVIOUS
    <2>2. /\ IsFiniteSet(Below(j)) /\ Cardinality(Below(i)) \in Nat /\ Cardinality(Below(j)) \in Nat
        BY <1>1
    <2>3. Cardinality(Below(i)) <= Cardinality(Below(j)) /\ Cardinality(Below(j)) # Cardinality(Below(i))
        BY <2>1, <2>2, FS_Subset
    <2> HIDE DEF Below
    <2> QED BY <2>2, <2>3
<1>4. \A i, j \in S : Cardinality(Below(i)) = Cardinality(Below(j)) => i = j
    <2> SUFFICES ASSUME NEW i \in S, NEW j \in S, i # j
        PROVE  Cardinality(Below(i)) # Cardinality(Below(j))
        OBVIOUS
    <2>1. f[i] < f[j] \/ f[j] < f[i]
        OBVIOUS
    <2>2. Cardinality(Below(i)) \in Nat /\ Cardinality(Below(j)) \in Nat
        BY <1>1
    <2> HIDE DEF Below
    <2> QED BY <1>3, <2>1, <2>2
<1>5. PICK rank : rank = [j \in S |-> Cardinality(Below(j))]
    OBVIOUS
<1> HIDE DEF Below
<1>6. rank \in [S -> Nat] /\ \A j \in S : rank[j] = Cardinality(Below(j))
    BY <1>1, <1>5
<1>7. Numbers(rank, S)
    BY <1>2, <1>4, <1>6 DEF Numbers
<1> QED BY <1>5, <1>7 DEF Below

-----------------------------------------------------------------------------
LEMMA UploadKeeps ==
    ASSUME AlbumHolds, NEW n \in Nat, NEW files \in [1..n -> Images], IsInjective(files), UploadImages(files)
    PROVE  AlbumHolds'
<1>1. PICK S, F, N : S = HasImages /\ F = ToSet(files) /\ N = Numbered(files)
    OBVIOUS
<1>2. /\ F \cap S = {} /\ files # <<>>
      /\ position' = [i \in S \cup F |-> IF i \in S THEN position[i] ELSE Cardinality(S) + N[i]]
      /\ primary' = IF S = {} THEN {Head(files)} ELSE primary
    BY <1>1 DEF UploadImages
<1>3. Numbers(N, F) /\ Cardinality(F) = n /\ F \subseteq Images
    BY <1>1, ListNumbers
<1>4. S \subseteq Images /\ Numbers(position, S)
    BY <1>1 DEF AlbumHolds
<1>5. /\ IsFiniteSet(S) /\ Cardinality(S) \in Nat /\ IsFiniteSet(F)
      /\ Cardinality(S \cup F) = Cardinality(S) + n
    <2>1. /\ IsFiniteSet(S) /\ Cardinality(S) \in Nat /\ IsFiniteSet(F)
        BY <1>3, <1>4, ImagesAreFinite
    <2>2. Cardinality(S \cup F) = Cardinality(S) + Cardinality(F) - Cardinality(S \cap F)
        BY <2>1, FS_Union
    <2>3. Cardinality(S \cap F) = 0
        BY <1>2, FS_EmptySet
    <2> QED BY <1>3, <2>1, <2>2, <2>3
<1>6. HasImages' = S \cup F
    BY <1>2 DEF HasImages
<1>7. Numbers(position', S \cup F)
    <2>1. \A i \in S : position'[i] = position[i] /\ position[i] \in Nat /\ position[i] < Cardinality(S)
        BY <1>2, <1>4 DEF Numbers
    <2>2. \A i \in F : position'[i] = Cardinality(S) + N[i] /\ N[i] \in Nat /\ N[i] < n
        BY <1>2, <1>3 DEF Numbers
    <2>3. \A i \in S \cup F : position'[i] \in Nat /\ position'[i] < Cardinality(S) + n
        BY <1>5, <2>1, <2>2
    <2>4. \A i, j \in S \cup F : position'[i] = position'[j] => i = j
        <3>1. \A i, j \in S : position'[i] = position'[j] => i = j
            BY <1>4, <2>1 DEF Numbers
        <3>2. \A i, j \in F : position'[i] = position'[j] => i = j
            <4>1. \A i, j \in F : Cardinality(S) + N[i] = Cardinality(S) + N[j] => N[i] = N[j]
                BY <1>5, <2>2
            <4> QED BY <1>3, <2>2, <4>1 DEF Numbers
        <3>3. \A i \in S, j \in F : position'[i] # position'[j]
            BY <1>5, <2>1, <2>2
        <3> QED BY <3>1, <3>2, <3>3
    <2>5. position' \in [S \cup F -> Nat]
        <3>1. DOMAIN position' = S \cup F /\ position' = [i \in S \cup F |-> position'[i]]
            BY <1>2
        <3> QED BY <2>3, <3>1
    <2> QED BY <1>5, <2>3, <2>4, <2>5 DEF Numbers
<1>8. /\ primary' \subseteq S \cup F /\ \A i, j \in primary' : i = j
      /\ primary' # {}
    <2>1. CASE S = {}
        <3>1. n # 0
            BY <1>2
        <3>2. files \in Seq(Images) /\ Head(files) = files[1] /\ 1 \in DOMAIN files
            BY <1>2, <3>1
        <3>3. Head(files) \in F
            BY <1>1, <3>2 DEF ToSet
        <3> QED BY <1>2, <2>1, <3>3
    <2>2. CASE S # {}
        BY <1>1, <1>2, <2>2 DEF AlbumHolds
    <2> QED BY <2>1, <2>2
<1> QED BY <1>3, <1>4, <1>6, <1>7, <1>8 DEF AlbumHolds

LEMMA OrderKeeps ==
    ASSUME AlbumHolds, NEW n \in Nat, NEW order \in [1..n -> Images], IsInjective(order),
           NEW i \in Images, OrderImages(order, i)
    PROVE  AlbumHolds'
<1>1. PICK F, N : F = ToSet(order) /\ N = Numbered(order)
    OBVIOUS
<1>2. i \in F /\ position' = N /\ primary' = {i}
    BY <1>1 DEF OrderImages
<1>3. Numbers(N, F) /\ F \subseteq Images
    BY <1>1, ListNumbers
<1>4. HasImages' = F
    BY <1>2, <1>3 DEF HasImages, Numbers
<1> QED BY <1>2, <1>3, <1>4 DEF AlbumHolds

LEMMA DeleteImageKeeps ==
    ASSUME AlbumHolds, NEW i \in Images, DeleteImage(i)
    PROVE  AlbumHolds'
<1>1. PICK S : S = HasImages \ {i}
    OBVIOUS
<1>2. /\ i \in HasImages
      /\ position' = [j \in S |-> Cardinality({k \in S : position[k] < position[j]})]
      /\ primary' = IF i \in primary THEN {j \in HasImages' : position'[j] = 0} ELSE primary
    BY <1>1 DEF DeleteImage
<1>3. S \subseteq Images /\ IsFiniteSet(S)
    BY <1>1, ImagesAreFinite DEF AlbumHolds
<1>4. HasImages' = S
    BY <1>2 DEF HasImages
<1>5. Numbers(position', S)
    <2>1. (\A j \in S : position[j] \in Nat) /\ \A j, k \in S : position[j] = position[k] => j = k
        BY <1>1 DEF AlbumHolds, Numbers
    <2> QED BY <1>2, <1>3, <2>1, RanksNumber
<1>6. CASE i \in primary
    <2>1. primary' = {j \in S : position'[j] = 0}
        BY <1>2, <1>4, <1>6
    <2>2. \A j, k \in primary' : j = k
        BY <1>5, <2>1 DEF Numbers
    <2>3. S # {} => primary' # {}
        BY <1>3, <1>5, <2>1, AllAreTaken
    <2> QED BY <1>3, <1>4, <1>5, <2>1, <2>2, <2>3 DEF AlbumHolds
<1>7. CASE i \notin primary
    <2>1. primary' = primary /\ primary \subseteq S /\ primary # {}
        BY <1>1, <1>2, <1>7 DEF AlbumHolds
    <2> QED BY <1>3, <1>4, <1>5, <2>1 DEF AlbumHolds
<1> QED BY <1>6, <1>7

-----------------------------------------------------------------------------
\* The oldest active code: one, if any is active.
LEMMA OldestIsOne ==
    ASSUME NEW s \in Seq(Qrs), NEW on, on \subseteq ToSet(s)
    PROVE  /\ FirstActive(s, on) \subseteq on /\ \A p, q \in FirstActive(s, on) : p = q
           /\ on # {} => FirstActive(s, on) # {}
<1>1. PICK D : D = {n \in DOMAIN s : s[n] \in on}
    OBVIOUS
<1>2. D \in SUBSET Nat /\ DOMAIN s = 1..Len(s) /\ Len(s) \in Nat
    BY <1>1
<1>3. \A p \in FirstActive(s, on) : \E n \in D : p = s[n] /\ \A m \in 1..n-1 : s[m] \notin on
    BY <1>1 DEF FirstActive
<1>4. FirstActive(s, on) \subseteq on
    BY <1>1, <1>3
<1>5. \A p, q \in FirstActive(s, on) : p = q
    <2> SUFFICES ASSUME NEW p \in FirstActive(s, on), NEW q \in FirstActive(s, on) PROVE p = q
        OBVIOUS
    <2>1. PICK n \in D : p = s[n] /\ \A m \in 1..n-1 : s[m] \notin on
        BY <1>3
    <2>2. PICK k \in D : q = s[k] /\ \A m \in 1..k-1 : s[m] \notin on
        BY <1>3
    <2>3. n \in 1..Len(s) /\ k \in 1..Len(s) /\ s[n] \in on /\ s[k] \in on
        BY <1>1, <1>2
    <2>4. ~(n < k) /\ ~(k < n)
        BY <1>2, <2>1, <2>2, <2>3
    <2>5. n = k
        BY <1>2, <2>3, <2>4
    <2> QED BY <2>1, <2>2, <2>5
<1>6. ASSUME on # {} PROVE FirstActive(s, on) # {}
    <2>1. D # {}
        BY <1>1, <1>6 DEF ToSet
    <2>2. PICK n \in D : \A m \in D : ~(<<m, n>> \in OpToRel(<, Nat))
        BY <1>2, <2>1, NatLessThanWellFounded, WFMin
    <2>3. \A m \in D : ~(m < n)
        BY <1>2, <2>2 DEF OpToRel
    <2>4. \A m \in 1..n-1 : s[m] \notin on
        <3> SUFFICES ASSUME NEW m \in 1..n-1, s[m] \in on PROVE FALSE
            OBVIOUS
        <3>1. n \in 1..Len(s)
            BY <1>1, <1>2
        <3>2. m \in DOMAIN s /\ m < n
            BY <1>2, <3>1
        <3> QED BY <1>1, <2>3, <3>2
    <2>5. n \in DOMAIN s /\ s[n] \in on
        BY <1>1
    <2>6. s[n] \in FirstActive(s, on)
        BY <2>4, <2>5 DEF FirstActive
    <2> QED BY <2>6
<1> QED BY <1>4, <1>5, <1>6

LEMMA CreateQrKeeps ==
    ASSUME ShopQrsHold, NEW q \in Qrs, NEW asked \in BOOLEAN, CreateQr(q, asked)
    PROVE  ShopQrsHold'
<1>1. /\ q \notin Mine /\ qrs' = Append(qrs, q) /\ active' = active \cup {q}
      /\ default' = IF asked \/ qrs = <<>> THEN {q} ELSE default
    BY DEF CreateQr
<1>2. qrs \in Seq(Qrs) /\ IsInjective(qrs)
    BY DEF ShopQrsHold
<1>3. /\ qrs' \in Seq(Qrs) /\ DOMAIN qrs' = 1..(Len(qrs) + 1) /\ qrs'[Len(qrs) + 1] = q
      /\ Len(qrs) \in Nat /\ DOMAIN qrs = 1..Len(qrs) /\ \A n \in 1..Len(qrs) : qrs'[n] = qrs[n]
    BY <1>1, <1>2
<1>4. \A n \in 1..Len(qrs) : qrs[n] # q
    BY <1>1, <1>3 DEF Mine, ToSet
<1>5. IsInjective(qrs')
    <2> SUFFICES ASSUME NEW n \in 1..(Len(qrs) + 1), NEW m \in 1..(Len(qrs) + 1), qrs'[n] = qrs'[m]
        PROVE  n = m
        BY <1>3 DEF IsInjective
    <2>1. n \in 1..Len(qrs) \/ n = Len(qrs) + 1
        BY <1>3
    <2>2. m \in 1..Len(qrs) \/ m = Len(qrs) + 1
        BY <1>3
    <2> QED BY <1>2, <1>3, <1>4, <2>1, <2>2 DEF IsInjective
<1>6. Mine \subseteq Mine' /\ q \in Mine'
    BY <1>3 DEF Mine, ToSet
<1> QED BY <1>1, <1>3, <1>5, <1>6 DEF ShopQrsHold

LEMMA UpdateQrKeeps ==
    ASSUME ShopQrsHold, NEW q \in Qrs, NEW on \in BOOLEAN, NEW chosen \in BOOLEAN, UpdateQr(q, on, chosen)
    PROVE  ShopQrsHold'
<1>1. PICK left : left = DefaultAfter(q, on, chosen)
    OBVIOUS
<1>2. /\ q \in Mine /\ (chosen => on) /\ qrs' = qrs
      /\ active' = IF on THEN active \cup {q} ELSE active \ {q}
      /\ default' = IF active' # {} /\ left \cap active' = {} THEN left \cup FirstActive(qrs, active') ELSE left
    BY <1>1 DEF UpdateQr
<1>3. left \subseteq active' /\ \A p, r \in left : p = r
    BY <1>1, <1>2 DEF DefaultAfter, ShopQrsHold
<1>4. active' \subseteq Mine /\ Mine' = Mine
    BY <1>2 DEF ShopQrsHold, Mine
<1>5. FirstActive(qrs, active') \subseteq active' /\ \A p, r \in FirstActive(qrs, active') : p = r
    BY <1>4, OldestIsOne DEF ShopQrsHold, Mine
<1>6. default' \subseteq active' /\ \A p, r \in default' : p = r
    BY <1>2, <1>3, <1>5
<1> QED BY <1>2, <1>4, <1>6 DEF ShopQrsHold

LEMMA ReleaseKeeps ==
    ASSUME ShopQrsHold, NEW q \in Qrs, ReleaseDefault(q)
    PROVE  ShopQrsHold'
<1>1. default' = FirstActive(qrs, active) /\ UNCHANGED <<qrs, active>>
    BY DEF ReleaseDefault
<1>2. FirstActive(qrs, active) \subseteq active /\ \A p, r \in FirstActive(qrs, active) : p = r
    BY OldestIsOne DEF ShopQrsHold, Mine
<1> QED BY <1>1, <1>2 DEF ShopQrsHold, Mine

LEMMA DeleteQrKeeps ==
    ASSUME ShopQrsHold, NEW q \in Qrs, DeleteQr(q)
    PROVE  ShopQrsHold'
<1>1. PICK n \in DOMAIN qrs : qrs[n] = q /\ qrs' = RemoveAt(qrs, n)
    BY DEF DeleteQr
<1>2. /\ active' = active \ {q}
      /\ default' = IF q \in default THEN FirstActive(qrs', active') ELSE default
    BY DEF DeleteQr
<1>3. /\ qrs \in Seq(Qrs) /\ IsInjective(qrs) /\ Len(qrs) \in Nat /\ DOMAIN qrs = 1..Len(qrs)
      /\ n \in 1..Len(qrs)
    BY <1>1 DEF ShopQrsHold
<1>4. /\ qrs' \in Seq(Qrs) /\ DOMAIN qrs' = 1..(Len(qrs) - 1)
      /\ \A m \in 1..(Len(qrs) - 1) : qrs'[m] = IF m < n THEN qrs[m] ELSE qrs[m + 1]
    <2>1. PICK a, b : a = SubSeq(qrs, 1, n - 1) /\ b = SubSeq(qrs, n + 1, Len(qrs))
        OBVIOUS
    <2>2. a \in Seq(Qrs) /\ Len(a) = n - 1 /\ \A m \in 1..(n - 1) : a[m] = qrs[m]
        BY <1>3, <2>1
    <2>3. b \in Seq(Qrs) /\ Len(b) = Len(qrs) - n /\ \A m \in 1..(Len(qrs) - n) : b[m] = qrs[n + m]
        BY <1>3, <2>1
    <2>4. qrs' = a \o b
        BY <1>1, <2>1 DEF RemoveAt
    <2>5. /\ qrs' \in Seq(Qrs) /\ Len(qrs') = Len(a) + Len(b)
          /\ \A m \in 1..Len(a) + Len(b) : qrs'[m] = IF m <= Len(a) THEN a[m] ELSE b[m - Len(a)]
        BY <2>2, <2>3, <2>4, ConcatProperties
    <2>6. ASSUME NEW m \in 1..(Len(qrs) - 1) PROVE qrs'[m] = IF m < n THEN qrs[m] ELSE qrs[m + 1]
        <3>1. m \in 1..Len(a) + Len(b)
            BY <1>3, <2>2, <2>3
        <3>2. CASE m < n
            <4>1. m <= Len(a) /\ m \in 1..(n - 1)
                BY <1>3, <2>2, <3>2
            <4> QED BY <2>2, <2>5, <3>1, <3>2, <4>1
        <3>3. CASE ~(m < n)
            <4>1. PICK k : k = m - (n - 1)
                OBVIOUS
            <4>2. k \in 1..(Len(qrs) - n) /\ n + k = m + 1 /\ ~(m <= Len(a)) /\ m - Len(a) = k
                BY <1>3, <2>2, <3>3, <4>1
            <4>3. qrs'[m] = b[k] /\ b[k] = qrs[n + k]
                BY <2>3, <2>5, <3>1, <4>2
            <4> QED BY <3>3, <4>2, <4>3
        <3> QED BY <3>2, <3>3
    <2>7. Len(qrs') = Len(qrs) - 1
        BY <1>3, <2>2, <2>3, <2>5
    <2>8. DOMAIN qrs' = 1..Len(qrs')
        BY <2>5
    <2> QED BY <2>5, <2>6, <2>7, <2>8
<1>5. \A m \in 1..(Len(qrs) - 1) : \E k \in 1..Len(qrs) \ {n} : /\ qrs'[m] = qrs[k]
                                                                /\ k = IF m < n THEN m ELSE m + 1
    <2> SUFFICES ASSUME NEW m \in 1..(Len(qrs) - 1)
        PROVE  \E k \in 1..Len(qrs) \ {n} : qrs'[m] = qrs[k] /\ k = IF m < n THEN m ELSE m + 1
        OBVIOUS
    <2>1. PICK k : k = IF m < n THEN m ELSE m + 1
        OBVIOUS
    <2>2. k \in 1..Len(qrs) /\ k # n
        BY <1>3, <2>1
    <2>3. qrs'[m] = qrs[k]
        BY <1>4, <2>1
    <2> QED BY <2>1, <2>2, <2>3
<1>6. IsInjective(qrs')
    <2> SUFFICES ASSUME NEW m \in 1..(Len(qrs) - 1), NEW l \in 1..(Len(qrs) - 1), qrs'[m] = qrs'[l]
        PROVE  m = l
        BY <1>4 DEF IsInjective
    <2>1. PICK k \in 1..Len(qrs) : qrs'[m] = qrs[k] /\ k = IF m < n THEN m ELSE m + 1
        BY <1>5
    <2>2. PICK j \in 1..Len(qrs) : qrs'[l] = qrs[j] /\ j = IF l < n THEN l ELSE l + 1
        BY <1>5
    <2>3. k = j
        BY <1>3, <2>1, <2>2 DEF IsInjective
    <2> QED BY <1>3, <2>1, <2>2, <2>3
<1>7. Mine' = Mine \ {q}
    <2>1. \A p \in Mine' : p \in Mine /\ p # q
        <3> SUFFICES ASSUME NEW p \in Mine' PROVE p \in Mine /\ p # q
            OBVIOUS
        <3>1. PICK m \in 1..(Len(qrs) - 1) : p = qrs'[m]
            BY <1>4 DEF Mine, ToSet
        <3>2. PICK k \in 1..Len(qrs) \ {n} : p = qrs[k]
            BY <1>5, <3>1
        <3> QED BY <1>1, <1>3, <3>2 DEF Mine, ToSet, IsInjective
    <2>2. \A p \in Mine \ {q} : p \in Mine'
        <3> SUFFICES ASSUME NEW p \in Mine \ {q} PROVE p \in Mine'
            OBVIOUS
        <3>1. PICK k \in 1..Len(qrs) : p = qrs[k] /\ k # n
            BY <1>1, <1>3 DEF Mine, ToSet
        <3>2. PICK m : m = IF k < n THEN k ELSE k - 1
            OBVIOUS
        <3>3. m \in 1..(Len(qrs) - 1) /\ (IF m < n THEN m ELSE m + 1) = k
            BY <1>3, <3>1, <3>2
        <3>4. qrs'[m] = p
            BY <1>4, <3>1, <3>3
        <3> QED BY <1>4, <3>3, <3>4 DEF Mine, ToSet
    <2> QED BY <2>1, <2>2
<1>8. active' \subseteq Mine'
    BY <1>2, <1>7 DEF ShopQrsHold
<1>9. default' \subseteq active' /\ \A p, r \in default' : p = r
    <2>1. CASE q \in default
        <3>1. FirstActive(qrs', active') \subseteq active' /\ \A p, r \in FirstActive(qrs', active') : p = r
            BY <1>4, <1>8, OldestIsOne DEF Mine
        <3> QED BY <1>2, <2>1, <3>1
    <2>2. CASE q \notin default
        BY <1>2, <2>2 DEF ShopQrsHold
    <2> QED BY <2>1, <2>2
<1> QED BY <1>4, <1>6, <1>8, <1>9 DEF ShopQrsHold

-----------------------------------------------------------------------------
LEMMA GalleryStart == GalleryInit => GalleryInv
<1> SUFFICES ASSUME GalleryInit PROVE GalleryInv
    OBVIOUS
<1>1. HasImages = {} /\ primary = {} /\ qrs = <<>> /\ active = {} /\ default = {}
    BY DEF GalleryInit, HasImages
<1>2. position \in [{} -> Nat]
    BY DEF GalleryInit
<1>3. AlbumHolds
    BY <1>1, <1>2 DEF AlbumHolds, Numbers
<1>4. ShopQrsHold
    BY <1>1 DEF ShopQrsHold, IsInjective
<1> QED BY <1>3, <1>4 DEF GalleryInv

LEMMA AlbumStays == AlbumHolds /\ UNCHANGED album => AlbumHolds'
BY DEF AlbumHolds, album, HasImages, Numbers

LEMMA ShopQrsStay == ShopQrsHold /\ UNCHANGED shopQrs => ShopQrsHold'
BY DEF ShopQrsHold, shopQrs, Mine

LEMMA GalleryStep == GalleryInv /\ [GalleryNext]_galleryVars => GalleryInv'
<1> SUFFICES ASSUME AlbumHolds, ShopQrsHold, [GalleryNext]_galleryVars PROVE GalleryInv'
    BY DEF GalleryInv
<1>1. ASSUME NEW n \in 1..Cardinality(Images), NEW files \in [1..n -> Images], IsInjective(files),
             UploadImages(files) \/ \E i \in Images : OrderImages(files, i)
      PROVE  GalleryInv'
    <2>1. n \in Nat
        BY GalleryAssumption, FS_CardinalityType
    <2>2. AlbumHolds'
        BY <1>1, <2>1, UploadKeeps, OrderKeeps
    <2>3. UNCHANGED shopQrs
        BY <1>1 DEF UploadImages, OrderImages
    <2> QED BY <2>2, <2>3, ShopQrsStay DEF GalleryInv
<1>2. ASSUME NEW i \in Images, DeleteImage(i) PROVE GalleryInv'
    <2>1. UNCHANGED shopQrs
        BY <1>2 DEF DeleteImage
    <2> QED BY <1>2, <2>1, DeleteImageKeeps, ShopQrsStay DEF GalleryInv
<1>3. ASSUME NEW q \in Qrs,
             \/ \E asked \in BOOLEAN : CreateQr(q, asked)
             \/ \E on, chosen \in BOOLEAN : UpdateQr(q, on, chosen)
             \/ ReleaseDefault(q) \/ DeleteQr(q)
      PROVE  GalleryInv'
    <2>1. ShopQrsHold'
        BY <1>3, CreateQrKeeps, UpdateQrKeeps, ReleaseKeeps, DeleteQrKeeps
    <2>2. UNCHANGED album
        BY <1>3 DEF CreateQr, UpdateQr, ReleaseDefault, DeleteQr
    <2> QED BY <2>1, <2>2, AlbumStays DEF GalleryInv
<1>4. CASE UNCHANGED galleryVars
    BY <1>4, AlbumStays, ShopQrsStay DEF galleryVars, album, shopQrs, GalleryInv
<1> QED BY <1>1, <1>2, <1>3, <1>4 DEF GalleryNext

LEMMA GalleryInvariant == GallerySpec => []GalleryInv
<1> QED BY GalleryStart, GalleryStep, PTL DEF GallerySpec

(* Both galleries are well formed, for any number of images and codes.        *)
THEOREM GalleryTyped == GallerySpec => []GalleryTypeOK
<1>1. GalleryInv => GalleryTypeOK
    BY DEF GalleryInv, AlbumHolds, ShopQrsHold, GalleryTypeOK, Numbers, Mine, ToSet
<1> QED BY <1>1, GalleryInvariant, PTL

(* Images are numbered without a gap under one cover, and one active code is  *)
(* there to send while any is, through any sequence of edits.                 *)
THEOREM GalleriesAlwaysHold == GallerySpec => []GalleriesHold
<1>1. GalleryInv => GalleriesHold
    <2> SUFFICES ASSUME GalleryInv PROVE GalleriesHold
        OBVIOUS
    <2>1. GalleryInOrder
        <3>1. {position[i] : i \in HasImages} = 0..Cardinality(HasImages) - 1
            BY ImagesAreFinite, AllAreTaken DEF GalleryInv, AlbumHolds
        <3>2. HasImages # {} => Cardinality(primary) = 1
            <4> SUFFICES ASSUME HasImages # {} PROVE Cardinality(primary) = 1
                OBVIOUS
            <4>1. PICK i : primary = {i}
                BY DEF GalleryInv, AlbumHolds
            <4> QED BY <4>1, FS_Singleton
        <3> QED BY <3>1, <3>2 DEF GalleryInOrder
    <2>2. ActiveQrIsSent
        <3>1. default \subseteq active /\ \A p, q \in default : p = q
            BY DEF GalleryInv, ShopQrsHold
        <3>2. Cardinality(default) <= 1
            <4>1. CASE default = {}
                <5>1. Cardinality(default) = 0
                    BY <4>1, FS_EmptySet
                <5> QED BY <5>1
            <4>2. CASE default # {}
                <5>1. PICK q : default = {q}
                    BY <3>1, <4>2
                <5>2. Cardinality(default) = 1
                    BY <5>1, FS_Singleton
                <5> QED BY <5>2
            <4> QED BY <4>1, <4>2
        <3>3. active # {} => Cardinality(Sent) = 1
            <4> SUFFICES ASSUME active # {} PROVE Cardinality(Sent) = 1
                OBVIOUS
            <4>1. /\ \A p, q \in FirstActive(qrs, active) : p = q
                  /\ FirstActive(qrs, active) # {}
                BY OldestIsOne DEF GalleryInv, ShopQrsHold, Mine
            <4>2. (\A p, q \in Sent : p = q) /\ Sent # {}
                BY <3>1, <4>1 DEF Sent
            <4>3. PICK q : Sent = {q}
                BY <4>2
            <4> QED BY <4>3, FS_Singleton
        <3> QED BY <3>1, <3>2, <3>3 DEF ActiveQrIsSent
    <2> QED BY <2>1, <2>2 DEF GalleriesHold
<1> QED BY <1>1, GalleryInvariant, PTL

-----------------------------------------------------------------------------
(* The assistant.  Positions in a reply and in the thread stand in the order  *)
(* their ranks number; what was said stays where it was said.                 *)
SaidIn(s) == {i \in DOMAIN s : s[i].sender = "customer"}

Continues(before, after) == \A i \in DOMAIN before : i \in DOMAIN after /\ after[i] = before[i]

CatalogueTyped ==
    /\ onSale \subseteq Products /\ offered \subseteq Saleable /\ pictured \subseteq Products
    /\ hasQr \in BOOLEAN /\ open \in BOOLEAN

ThreadHolds ==
    /\ thread \in Seq(Utterances)
    /\ accepted \in Nat /\ Cardinality(SaidIn(thread)) = accepted

Turns == [at : {"idle", "taken", "asked", "drafting"}, message : Nat,
          selected : SUBSET Products, rendered : SUBSET Products, variants : SUBSET Saleable]

\* A message taken is where it was put in the thread, and has words; the
\* variants in hand are of products selected.
TurnsHold ==
    /\ turn \in [Tabs -> Turns]
    /\ \A r \in Tabs : turn[r].at = "taken" =>
         turn[r].message \in DOMAIN thread /\ thread[turn[r].message].kind = "text"
    /\ \A r \in Tabs : turn[r].at = "drafting" => \A v \in turn[r].variants : v[1] \in turn[r].selected

\* Every call was spent before it was made.
SpendingHolds ==
    /\ replies \in 0..(ReplyLimit + 1) /\ drafts \in 0..(DraftLimit + 1)
    /\ calls \in [reply : Nat, draft : Nat]
    /\ calls.reply <= replies /\ calls.reply <= ReplyLimit
    /\ calls.draft <= drafts /\ calls.draft <= DraftLimit

PromptHolds  == prompt \in [turns : Seq({"user", "assistant"}), heard : BOOLEAN] /\ CustomerSpeaksFirst
OutcomeHolds == PhotosWereSelected /\ DraftAddsUp

AssistantInv ==
    CatalogueTyped /\ ThreadHolds /\ TurnsHold /\ SpendingHolds /\ PromptHolds /\ OutcomeHolds

-----------------------------------------------------------------------------
\* The n-th position of a set is one of it, and each is so once.
LEMMA InOrderPicks ==
    ASSUME NEW S \in SUBSET Nat, IsFiniteSet(S)
    PROVE  /\ Cardinality(S) \in Nat
           /\ \A n \in 1..Cardinality(S) : InOrder(S)[n] \in S
           /\ \A n, m \in 1..Cardinality(S) : InOrder(S)[n] = InOrder(S)[m] => n = m
<1>1. PICK id : id = [i \in S |-> i]
    OBVIOUS
<1>2. Numbers([j \in S |-> Cardinality({k \in S : id[k] < id[j]})], S)
    <2>1. \A i \in S : id[i] \in Nat
        BY <1>1
    <2>2. \A i, j \in S : id[i] = id[j] => i = j
        BY <1>1
    <2> QED BY <2>1, <2>2, RanksNumber
<1>3. PICK rank : rank = [j \in S |-> Cardinality({k \in S : id[k] < id[j]})]
    OBVIOUS
<1>4. \A j \in S : rank[j] = Cardinality({i \in S : i < j})
    <2> SUFFICES ASSUME NEW j \in S PROVE rank[j] = Cardinality({i \in S : i < j})
        OBVIOUS
    <2>1. {k \in S : id[k] < id[j]} = {i \in S : i < j}
        BY <1>1
    <2> QED BY <1>3, <2>1
<1>5. {rank[i] : i \in S} = 0..Cardinality(S) - 1
    <2>1. Numbers(rank, S)
        BY <1>2, <1>3
    <2> HIDE DEF Numbers
    <2> QED BY <2>1, AllAreTaken
<1>6. Cardinality(S) \in Nat
    BY FS_CardinalityType
<1>7. ASSUME NEW n \in 1..Cardinality(S)
      PROVE  InOrder(S)[n] \in S /\ rank[InOrder(S)[n]] = n - 1
    <2>1. n - 1 \in 0..Cardinality(S) - 1
        BY <1>6
    <2>2. PICK i \in S : rank[i] = n - 1
        BY <1>5, <2>1
    <2>3. \E j \in S : Cardinality({k \in S : k < j}) = n - 1
        BY <1>4, <2>2
    <2>4. InOrder(S)[n] = CHOOSE j \in S : Cardinality({k \in S : k < j}) = n - 1
        BY DEF InOrder
    <2>5. InOrder(S)[n] \in S /\ Cardinality({k \in S : k < InOrder(S)[n]}) = n - 1
        BY <2>3, <2>4
    <2> QED BY <1>4, <2>5
<1>8. ASSUME NEW n \in 1..Cardinality(S), NEW m \in 1..Cardinality(S), InOrder(S)[n] = InOrder(S)[m]
      PROVE  n = m
    <2>1. n - 1 = m - 1
        BY <1>7, <1>8
    <2> QED BY <1>6, <2>1
<1> QED BY <1>6, <1>7, <1>8

LEMMA PositionsAreFinite ==
    ASSUME NEW n \in Nat, NEW S \in SUBSET (1..n)
    PROVE  S \in SUBSET Nat /\ IsFiniteSet(S) /\ Cardinality(S) \in Nat
<1>1. IsFiniteSet(1..n)
    BY FS_Interval
<1>2. IsFiniteSet(S)
    BY <1>1, FS_Subset
<1> QED BY <1>2, FS_CardinalityType

\* Words in the window open with the customer, or are introduced.
LEMMA OpensWithTheCustomer ==
    ASSUME NEW history \in Seq(Utterances)
    PROVE  /\ TurnsSent(history) \in Seq({"user", "assistant"})
           /\ TurnsSent(history) # <<>> => Head(TurnsSent(history)) = "user"
           /\ Spoken(history) # {} => TurnsSent(history) # <<>>
<1>1. PICK n \in Nat : n = Cardinality(Spoken(history)) /\ (Spoken(history) # {} => n > 0)
    <2>1. Len(history) \in Nat /\ Spoken(history) \in SUBSET (1..Len(history))
        BY DEF Spoken
    <2>2. IsFiniteSet(Spoken(history)) /\ Cardinality(Spoken(history)) \in Nat
        BY <2>1, PositionsAreFinite
    <2>3. Spoken(history) # {} => Cardinality(Spoken(history)) # 0
        BY <2>2, FS_EmptySet
    <2> QED BY <2>2, <2>3
<1>2. PICK said : said = TurnsOf(history)
    OBVIOUS
<1>3. \A k \in 1..n : said[k] \in {"user", "assistant"}
    BY <1>1, <1>2 DEF TurnsOf, Role
<1>4. said = [k \in 1..n |-> said[k]]
    BY <1>1, <1>2 DEF TurnsOf
<1>5. said \in Seq({"user", "assistant"}) /\ Len(said) = n
    BY <1>3, <1>4
<1>6. (n > 0 => said # <<>>) /\ (said # <<>> => Head(said) \in {"user", "assistant"})
    BY <1>1, <1>5
<1>7. CASE said # <<>> /\ Head(said) = "assistant"
    <2>1. TurnsSent(history) = <<"user">> \o said
        BY <1>2, <1>7 DEF TurnsSent
    <2>2. <<"user">> \in Seq({"user", "assistant"}) /\ Len(<<"user">>) = 1 /\ <<"user">>[1] = "user"
        OBVIOUS
    <2>3. <<"user">> \o said \in Seq({"user", "assistant"}) /\ Len(<<"user">> \o said) = 1 + n
          /\ (<<"user">> \o said)[1] = "user"
        BY <1>5, <2>2
    <2> QED BY <1>1, <2>1, <2>3
<1>8. CASE said = <<>> \/ Head(said) = "user"
    <2>1. TurnsSent(history) = said
        BY <1>2, <1>8 DEF TurnsSent
    <2> QED BY <1>1, <1>5, <1>6, <1>8, <2>1
<1> QED BY <1>6, <1>7, <1>8

\* A message with words that the window holds is among its words.
LEMMA WordsAreInSight ==
    ASSUME thread \in Seq(Utterances)
    PROVE  /\ Recent \in Seq(Utterances) /\ WindowStart \in Nat
           /\ \A m \in DOMAIN thread :
                thread[m].kind = "text" /\ m >= WindowStart => Spoken(Recent) # {}
<1>1. PICK n \in Nat : n = Len(thread)
    OBVIOUS
<1>2. PICK first \in Nat \ {0} : first = WindowStart /\ first <= n + 1
    <2>1. CASE n > HistoryLimit
        <3>1. n - HistoryLimit + 1 \in Nat \ {0} /\ n - HistoryLimit + 1 <= n + 1
            BY <1>1, <2>1, WindowAssumption
        <3>2. WindowStart = n - HistoryLimit + 1
            BY <1>1, <2>1 DEF WindowStart
        <3> QED BY <3>1, <3>2
    <2>2. CASE ~(n > HistoryLimit)
        <3>1. WindowStart = 1
            BY <1>1, <2>2 DEF WindowStart
        <3> QED BY <3>1
    <2> QED BY <2>1, <2>2
<1>3. Recent = [k \in 1..(n - first + 1) |-> thread[k + first - 1]]
    BY <1>1, <1>2 DEF Recent
<1>4. \A k \in 1..(n - first + 1) : k + first - 1 \in 1..n
    BY <1>1, <1>2
<1>5. n - first + 1 \in Nat /\ \A k \in 1..n : thread[k] \in Utterances
    BY <1>1, <1>2
<1>6. Recent \in Seq(Utterances)
    BY <1>3, <1>4, <1>5
<1>7. ASSUME NEW m \in 1..n, thread[m].kind = "text", m >= first PROVE Spoken(Recent) # {}
    <2>1. m - first + 1 \in 1..(n - first + 1) /\ (m - first + 1) + first - 1 = m
        BY <1>2, <1>7
    <2>2. Recent[m - first + 1] = thread[m] /\ m - first + 1 \in DOMAIN Recent
        BY <1>3, <2>1
    <2> QED BY <1>7, <2>2 DEF Spoken, Wordless
<1>8. DOMAIN thread = 1..n
    BY <1>1
<1> QED BY <1>2, <1>6, <1>7, <1>8

-----------------------------------------------------------------------------
\* What is said grows.  The shop's words and pictures change nothing the
\* customer said.
LEMMA ShopGrows ==
    ASSUME NEW s \in Seq(Utterances), NEW more \in Seq(Utterances),
           \A i \in DOMAIN more : more[i].sender # "customer"
    PROVE  /\ s \o more \in Seq(Utterances) /\ SaidIn(s \o more) = SaidIn(s)
           /\ Continues(s, s \o more)
<1>1. PICK n \in Nat, k \in Nat : n = Len(s) /\ k = Len(more)
    OBVIOUS
<1>2. PICK all : all = s \o more
    OBVIOUS
<1>3. /\ all \in Seq(Utterances) /\ Len(all) = n + k
      /\ \A i \in 1..n : all[i] = s[i]
      /\ \A i \in (n + 1)..(n + k) : all[i] = more[i - n] /\ i - n \in 1..k
    BY <1>1, <1>2, ConcatProperties
<1>4. DOMAIN all = 1..(n + k) /\ DOMAIN s = 1..n /\ DOMAIN more = 1..k
    BY <1>1, <1>3
<1>5. \A i \in (n + 1)..(n + k) : all[i].sender # "customer"
    BY <1>3, <1>4
<1>6. SaidIn(all) = SaidIn(s)
    <2>1. SaidIn(all) = {i \in 1..(n + k) : all[i].sender = "customer"}
        BY <1>4 DEF SaidIn
    <2>2. SaidIn(s) = {i \in 1..n : s[i].sender = "customer"}
        BY <1>4 DEF SaidIn
    <2>3. \A i \in 1..(n + k) : i \in 1..n \/ i \in (n + 1)..(n + k)
        OBVIOUS
    <2> QED BY <1>3, <1>5, <2>1, <2>2, <2>3
<1>7. Continues(s, all)
    <2>1. \A i \in 1..n : i \in 1..(n + k)
        OBVIOUS
    <2> QED BY <1>3, <1>4, <2>1 DEF Continues
<1> QED BY <1>2, <1>3, <1>6, <1>7

LEMMA OneMore ==
    ASSUME NEW s \in Seq(Utterances), NEW m \in Utterances
    PROVE  /\ Append(s, m) \in Seq(Utterances)
           /\ Len(s) + 1 \in DOMAIN Append(s, m) /\ Append(s, m)[Len(s) + 1] = m
           /\ SaidIn(Append(s, m)) = IF m.sender = "customer" THEN SaidIn(s) \cup {Len(s) + 1} ELSE SaidIn(s)
           /\ Continues(s, Append(s, m))
<1>1. PICK n \in Nat : n = Len(s)
    OBVIOUS
<1>2. PICK all : all = Append(s, m)
    OBVIOUS
<1>3. all \in Seq(Utterances) /\ Len(all) = n + 1 /\ all[n + 1] = m /\ \A i \in 1..n : all[i] = s[i]
    BY <1>1, <1>2
<1>4. DOMAIN all = 1..(n + 1) /\ DOMAIN s = 1..n
    BY <1>1, <1>3
<1>5. SaidIn(all) = IF m.sender = "customer" THEN SaidIn(s) \cup {n + 1} ELSE SaidIn(s)
    <2>1. SaidIn(all) = {i \in 1..(n + 1) : all[i].sender = "customer"}
        BY <1>4 DEF SaidIn
    <2>2. SaidIn(s) = {i \in 1..n : s[i].sender = "customer"}
        BY <1>4 DEF SaidIn
    <2> QED BY <1>3, <2>1, <2>2
<1>6. Continues(s, all)
    <2>1. \A i \in 1..n : i \in 1..(n + 1)
        OBVIOUS
    <2> QED BY <1>3, <1>4, <2>1 DEF Continues
<1>7. n + 1 \in DOMAIN all
    BY <1>4
<1> QED BY <1>1, <1>2, <1>3, <1>5, <1>6, <1>7

LEMMA TextIsSaid ==
    ASSUME NEW sender \in {"customer", "assistant", "seller"}
    PROVE  Text(sender) \in Utterances /\ Text(sender).kind = "text" /\ Text(sender).sender = sender
BY DEF Text, Utterances

\* The shop's messages are no words of the customer's, and his are counted.
LEMMA ShopIsHeard ==
    ASSUME ThreadHolds, NEW sender \in {"assistant", "seller"}, thread' = Append(thread, Text(sender)),
           accepted' = accepted
    PROVE  ThreadHolds' /\ Continues(thread, thread')
<1>1. Text(sender) \in Utterances /\ Text(sender).sender = sender
    BY TextIsSaid
<1>2. thread' \in Seq(Utterances) /\ SaidIn(thread') = SaidIn(thread) /\ Continues(thread, thread')
    BY <1>1, OneMore DEF ThreadHolds
<1> QED BY <1>2 DEF ThreadHolds, SaidIn

LEMMA CustomerIsHeard ==
    ASSUME ThreadHolds, thread' = Append(thread, Text("customer")), accepted' = accepted + 1
    PROVE  /\ ThreadHolds' /\ Continues(thread, thread')
           /\ Len(thread) + 1 \in DOMAIN thread' /\ thread'[Len(thread) + 1] = Text("customer")
<1>1. Text("customer") \in Utterances /\ Text("customer").sender = "customer"
    BY TextIsSaid
<1>2. /\ thread' \in Seq(Utterances) /\ Continues(thread, thread')
      /\ Len(thread) + 1 \in DOMAIN thread' /\ thread'[Len(thread) + 1] = Text("customer")
      /\ SaidIn(thread') = SaidIn(thread) \cup {Len(thread) + 1}
    BY <1>1, OneMore DEF ThreadHolds
<1>3. Len(thread) \in Nat /\ SaidIn(thread) \in SUBSET (1..Len(thread)) /\ Len(thread) + 1 \notin 1..Len(thread)
    BY DEF ThreadHolds, SaidIn
<1>4. IsFiniteSet(SaidIn(thread)) /\ Len(thread) + 1 \notin SaidIn(thread)
    BY <1>3, PositionsAreFinite
<1>5. Cardinality(SaidIn(thread')) = Cardinality(SaidIn(thread)) + 1
    BY <1>2, <1>4, FS_AddElement
<1>6. Cardinality(SaidIn(thread')) = accepted' /\ accepted' \in Nat
    BY <1>5 DEF ThreadHolds
<1> QED BY <1>2, <1>6 DEF ThreadHolds, SaidIn

\* A reply, its photos and the QR at the end.
LEMMA ReplyIsHeard ==
    ASSUME ThreadHolds, NEW words \in Seq(Utterances), NEW images \in Seq(Utterances),
           NEW qr \in Seq(Utterances),
           \A i \in DOMAIN words : words[i].sender = "assistant",
           \A i \in DOMAIN images : images[i].sender = "assistant",
           \A i \in DOMAIN qr : qr[i].sender = "assistant",
           thread' = thread \o words \o images \o qr, accepted' = accepted
    PROVE  ThreadHolds' /\ Continues(thread, thread')
<1>1. PICK s1 : s1 = thread \o words
    OBVIOUS
<1>2. s1 \in Seq(Utterances) /\ SaidIn(s1) = SaidIn(thread) /\ Continues(thread, s1)
    <2>1. \A i \in DOMAIN words : words[i].sender # "customer"
        OBVIOUS
    <2> QED BY <1>1, <2>1, ShopGrows DEF ThreadHolds
<1>3. PICK s2 : s2 = s1 \o images
    OBVIOUS
<1>4. s2 \in Seq(Utterances) /\ SaidIn(s2) = SaidIn(thread) /\ Continues(s1, s2)
    <2>1. \A i \in DOMAIN images : images[i].sender # "customer"
        OBVIOUS
    <2> QED BY <1>2, <1>3, <2>1, ShopGrows
<1>5. thread' = s2 \o qr
    BY <1>1, <1>3
<1>6. thread' \in Seq(Utterances) /\ SaidIn(thread') = SaidIn(thread) /\ Continues(s2, thread')
    <2>1. \A i \in DOMAIN qr : qr[i].sender # "customer"
        OBVIOUS
    <2> QED BY <1>4, <1>5, <2>1, ShopGrows
<1>7. Continues(thread, thread')
    BY <1>2, <1>4, <1>6 DEF Continues
<1> QED BY <1>6, <1>7 DEF ThreadHolds, SaidIn

-----------------------------------------------------------------------------
\* The photos of a reply are positions of it in order, each the first to ask.
LEMMA PhotosArePicked ==
    ASSUME pictured \subseteq Products, NEW reply \in Replies, NEW inSight \in SUBSET Products,
           NEW photos, photos = PhotosOf(reply, inSight)
    PROVE  /\ photos \in Seq(Products) /\ Len(photos) <= MaxPhotos
           /\ \A i \in DOMAIN photos :
                photos[i] \in inSight \cap pictured /\ photos[i] \in {p \in Products : Asks(reply, Photo(p))}
           /\ \A i, j \in DOMAIN photos : photos[i] = photos[j] => i = j
<1>1. PICK length \in Nat : reply \in [1..length -> Tokens]
    BY DEF Replies
<1>2. PICK S \in SUBSET (1..length) : S = Wanted(reply, inSight)
    BY <1>1 DEF Wanted
<1>3. S \in SUBSET Nat /\ IsFiniteSet(S)
    BY PositionsAreFinite
<1>4. PICK at : at = InOrder(S)
    OBVIOUS
<1>5. PICK many \in Nat : many = Cardinality(S)
    BY <1>3, FS_CardinalityType
<1>6. /\ \A m \in 1..many : at[m] \in S
      /\ \A m, k \in 1..many : at[m] = at[k] => m = k
    BY <1>3, <1>4, <1>5, InOrderPicks
<1>7. PICK n \in Nat : n = (IF many <= MaxPhotos THEN many ELSE MaxPhotos) /\ n <= many /\ n <= MaxPhotos
    BY WindowAssumption
<1>8. photos = [m \in 1..n |-> reply[at[m]][2]]
    BY <1>2, <1>4, <1>5, <1>7 DEF PhotosOf
<1>9. \A i \in S : \E p \in inSight \cap pictured : reply[i] = Photo(p) /\ reply[i][2] = p
    BY <1>2 DEF Wanted, MaySend, Photo
<1>10. ASSUME NEW m \in 1..n
       PROVE  /\ m \in 1..many /\ at[m] \in S /\ at[m] \in DOMAIN reply
              /\ photos[m] \in inSight \cap pictured /\ reply[at[m]] = Photo(photos[m])
    <2>1. m \in 1..many /\ at[m] \in S /\ photos[m] = reply[at[m]][2]
        BY <1>6, <1>7, <1>8
    <2>2. at[m] \in DOMAIN reply
        BY <1>1, <2>1
    <2>3. PICK p \in inSight \cap pictured : reply[at[m]] = Photo(p) /\ reply[at[m]][2] = p
        BY <1>9, <2>1
    <2> QED BY <2>1, <2>2, <2>3
<1>11. photos \in Seq(Products) /\ Len(photos) = n /\ DOMAIN photos = 1..n
    BY <1>8, <1>10
<1>12. \A m \in 1..n : photos[m] \in {p \in Products : Asks(reply, Photo(p))}
    BY <1>10 DEF Asks
<1>13. ASSUME NEW m \in 1..n, NEW k \in 1..n, photos[m] = photos[k] PROVE m = k
    <2>1. reply[at[m]] = reply[at[k]]
        BY <1>10, <1>13
    <2>2. at[m] <= at[k] /\ at[k] <= at[m]
        BY <1>2, <1>10, <2>1 DEF Wanted
    <2>3. at[m] \in 1..length /\ at[k] \in 1..length
        BY <1>10
    <2>4. at[m] = at[k]
        BY <2>2, <2>3
    <2> QED BY <1>6, <1>10, <2>4
<1> QED BY <1>7, <1>10, <1>11, <1>12, <1>13

-----------------------------------------------------------------------------
\* What an extracted item means of the variants in hand.
Meant(item, variants) ==
    {v \in variants : /\ v[1] = item.product
                      /\ item.variant = v \/ (item.variant = NoVariant
                            /\ \A u \in variants : u[1] = v[1] => u = v)}

LEMMA SelectedIsMeant ==
    ASSUME NEW item \in Items, NEW inSight, NEW variants \in SUBSET Saleable, \A v \in variants : v[1] \in inSight
    PROVE  Selected(item, inSight, variants) = Meant(item, variants)
<1>1. \A v \in variants : v # NoVariant
    <2>1. \A v \in Saleable : Len(v) = 2
        BY DEF Saleable
    <2>2. Len(NoVariant) = 1
        BY DEF NoVariant
    <2> QED BY <2>1, <2>2
<1>2. CASE item.product \notin inSight
    <2>1. Selected(item, inSight, variants) = {}
        BY <1>2 DEF Selected
    <2> QED BY <1>2, <2>1 DEF Meant
<1>3. CASE item.product \in inSight /\ item.variant # NoVariant
    <2>1. Selected(item, inSight, variants) = {v \in variants : v = item.variant /\ v[1] = item.product}
        BY <1>3 DEF Selected
    <2> QED BY <1>3, <2>1 DEF Meant
<1>4. CASE item.product \in inSight /\ item.variant = NoVariant
    <2>1. PICK choice \in SUBSET variants : choice = {v \in variants : v[1] = item.product}
        OBVIOUS
    <2>2. Selected(item, inSight, variants) = IF Cardinality(choice) = 1 THEN choice ELSE {}
        BY <1>4, <2>1 DEF Selected, OnlyVariant
    <2>3. IsFiniteSet(Saleable)
        BY ShopAssumption, FS_Product DEF Saleable
    <2>4. IsFiniteSet(choice)
        BY <2>3, FS_Subset
    <2>5. Cardinality(choice) = 1 <=> \E x : choice = {x}
        BY <2>4, FS_Singleton
    <2>6. Meant(item, variants) = {v \in choice : \A u \in choice : u = v}
        BY <1>1, <1>4, <2>1 DEF Meant
    <2> QED BY <2>2, <2>5, <2>6
<1> QED BY <1>2, <1>3, <1>4

LEMMA NothingAsked == \A items : Pieces({}, items) = 0
<1> SUFFICES ASSUME NEW items PROVE Pieces({}, items) = 0
    OBVIOUS
<1>1. {u \in {} \X (1..MaxQuantity) : u[2] <= items[u[1]].quantity} = {}
    OBVIOUS
<1> QED BY <1>1, FS_EmptySet DEF Pieces

\* The lines of a draft are of variants the items mean, with all that was asked.
LEMMA LinesAddUp ==
    ASSUME NEW items \in Extracts, NEW inSight, NEW variants \in SUBSET Saleable,
           \A v \in variants : v[1] \in inSight, NEW lines, lines = Lines(items, inSight, variants)
    PROVE  /\ \A v \in DOMAIN lines : lines[v] = Pieces({i \in DOMAIN items : v \in Meant(items[i], variants)}, items)
           /\ \A v \in variants \ DOMAIN lines :
                Pieces({i \in DOMAIN items : v \in Meant(items[i], variants)}, items) = 0
           /\ DOMAIN lines \subseteq variants
<1>1. \A i \in DOMAIN items : items[i] \in Items
    BY DEF Extracts
<1>2. \A i \in DOMAIN items : Selected(items[i], inSight, variants) = Meant(items[i], variants)
    BY <1>1, SelectedIsMeant
<1>3. PICK by : by = [v \in variants |-> {i \in DOMAIN items : v \in Meant(items[i], variants)}]
    OBVIOUS
<1>4. \A i \in DOMAIN items : Meant(items[i], variants) \subseteq variants
    BY DEF Meant
<1>5. UNION {Selected(items[i], inSight, variants) : i \in DOMAIN items} = {v \in variants : by[v] # {}}
    BY <1>2, <1>3, <1>4
<1>6. lines = [v \in {w \in variants : by[w] # {}} |->
                 Pieces({i \in DOMAIN items : v \in Selected(items[i], inSight, variants)}, items)]
    BY <1>5 DEF Lines
<1>7. DOMAIN lines = {w \in variants : by[w] # {}}
    BY <1>6
<1>8. ASSUME NEW v \in DOMAIN lines
      PROVE  lines[v] = Pieces({i \in DOMAIN items : v \in Meant(items[i], variants)}, items)
    <2>1. lines[v] = Pieces({i \in DOMAIN items : v \in Selected(items[i], inSight, variants)}, items)
        BY <1>6, <1>7
    <2>2. {i \in DOMAIN items : v \in Selected(items[i], inSight, variants)}
            = {i \in DOMAIN items : v \in Meant(items[i], variants)}
        BY <1>2
    <2> QED BY <2>1, <2>2
<1>9. ASSUME NEW v \in variants \ DOMAIN lines
      PROVE  Pieces({i \in DOMAIN items : v \in Meant(items[i], variants)}, items) = 0
    <2>1. {i \in DOMAIN items : v \in Meant(items[i], variants)} = {}
        BY <1>3, <1>7
    <2> QED BY <2>1, NothingAsked
<1> QED BY <1>7, <1>8, <1>9

\* A step that tells nothing has nothing to answer for.
LEMMA NothingIsShown == ASSUME outcome' = Nothing PROVE OutcomeHolds'
BY DEF OutcomeHolds, PhotosWereSelected, DraftAddsUp, Nothing

\* A turn moves on; its message stays where it is in the thread.
LEMMA TurnMoves ==
    ASSUME TurnsHold, NEW r \in Tabs, NEW to \in Turns, turn' = [turn EXCEPT ![r] = to],
           Continues(thread, thread'),
           to.at = "taken" => to.message \in DOMAIN thread' /\ thread'[to.message].kind = "text",
           to.at = "drafting" => \A v \in to.variants : v[1] \in to.selected
    PROVE  TurnsHold'
<1>1. turn' \in [Tabs -> Turns]
    BY DEF TurnsHold
<1>2. \A q \in Tabs : turn'[q] = IF q = r THEN to ELSE turn[q]
    BY DEF TurnsHold
<1>3. \A q \in Tabs : turn'[q].at = "taken" =>
        turn'[q].message \in DOMAIN thread' /\ thread'[turn'[q].message].kind = "text"
    BY <1>2 DEF TurnsHold, Continues
<1>4. \A q \in Tabs : turn'[q].at = "drafting" => \A v \in turn'[q].variants : v[1] \in turn'[q].selected
    BY <1>2 DEF TurnsHold
<1> QED BY <1>1, <1>3, <1>4 DEF TurnsHold

LEMMA NothingIsUnsaid == UNCHANGED thread => Continues(thread, thread')
BY DEF Continues

LEMMA QuietIsATurn == Quiet \in Turns /\ Quiet.at = "idle"
BY DEF Quiet, Turns

LEMMA TurnsStay ==
    ASSUME TurnsHold, UNCHANGED turn, Continues(thread, thread') PROVE TurnsHold'
BY DEF TurnsHold, Continues

LEMMA ThreadStays == ASSUME ThreadHolds, UNCHANGED <<thread, accepted>> PROVE ThreadHolds'
BY DEF ThreadHolds, SaidIn

LEMMA RestStays ==
    /\ CatalogueTyped /\ UNCHANGED ShopVars /\ UNCHANGED open => CatalogueTyped'
    /\ SpendingHolds /\ UNCHANGED <<replies, drafts, calls>> => SpendingHolds'
    /\ PromptHolds /\ UNCHANGED prompt => PromptHolds'
BY DEF CatalogueTyped, ShopVars, SpendingHolds, PromptHolds, CustomerSpeaksFirst

LEMMA ShopWritesKeeps ==
    ASSUME AssistantInv, NEW sender \in {"assistant", "seller"}, ShopWrites(sender) PROVE AssistantInv'
<1>1. ThreadHolds' /\ Continues(thread, thread')
    BY ShopIsHeard DEF AssistantInv, ShopWrites
<1> QED BY <1>1, NothingIsShown, RestStays, TurnsStay DEF AssistantInv, ShopWrites

LEMMA CloseThreadKeeps == ASSUME AssistantInv, CloseThread PROVE AssistantInv'
<1>1. CatalogueTyped'
    BY DEF AssistantInv, CloseThread, CatalogueTyped, ShopVars
<1> QED BY <1>1, NothingIsShown, NothingIsUnsaid, RestStays, ThreadStays, TurnsStay DEF AssistantInv, CloseThread

LEMMA EditKeeps == ASSUME AssistantInv, EditProduct \/ EditVariant PROVE AssistantInv'
<1>1. CatalogueTyped'
    <2>1. CASE EditProduct
        BY <2>1 DEF AssistantInv, EditProduct, CatalogueTyped
    <2>2. CASE EditVariant
        BY <2>2 DEF AssistantInv, EditVariant, CatalogueTyped
    <2> QED BY <2>1, <2>2
<1>2. outcome' = Nothing /\ UNCHANGED <<thread, turn, replies, drafts, calls, accepted, prompt>>
    BY DEF EditProduct, EditVariant
<1> QED BY <1>1, <1>2, NothingIsShown, NothingIsUnsaid, RestStays, ThreadStays, TurnsStay DEF AssistantInv

LEMMA TakeMessageKeeps == ASSUME AssistantInv, NEW r \in Tabs, TakeMessage(r) PROVE AssistantInv'
<1>1. /\ ThreadHolds' /\ Continues(thread, thread')
      /\ Len(thread) + 1 \in DOMAIN thread' /\ thread'[Len(thread) + 1].kind = "text"
    BY CustomerIsHeard, TextIsSaid DEF AssistantInv, TakeMessage
<1>2. TurnsHold'
    <2>1. turn[r] \in Turns /\ Len(thread) + 1 \in Nat
        BY DEF AssistantInv, TurnsHold, ThreadHolds
    <2>2. PICK to : to = [turn[r] EXCEPT !.at = "taken", !.message = Len(thread) + 1]
        OBVIOUS
    <2>3. to \in Turns /\ to.at = "taken" /\ to.message = Len(thread) + 1
        BY <2>1, <2>2 DEF Turns
    <2>4. turn' = [turn EXCEPT ![r] = to]
        BY <2>1, <2>2 DEF TakeMessage, AssistantInv, TurnsHold
    <2> QED BY <1>1, <2>3, <2>4, TurnMoves DEF AssistantInv
<1> QED BY <1>1, <1>2, NothingIsShown, RestStays DEF AssistantInv, TakeMessage

\* An allowance is spent up to the limit and one over.
LEMMA AllowanceIsSpent ==
    ASSUME NEW limit \in Nat, NEW used \in 0..(limit + 1)
    PROVE  /\ SpendOne(used, limit) \in 0..(limit + 1) /\ used <= SpendOne(used, limit)
           /\ WithinLimit(used, limit) => used + 1 <= limit /\ SpendOne(used, limit) = used + 1
BY DEF SpendOne, WithinLimit

LEMMA SelectionsAreShown == ASSUME CatalogueTyped, NEW inSight \in Selections PROVE inSight \in SUBSET Products
BY DEF CatalogueTyped, Selections

LEMMA AskKeeps == ASSUME AssistantInv, NEW r \in Tabs, Ask(r) PROVE AssistantInv'
<1>1. UNCHANGED <<thread, open, drafts, accepted>> /\ UNCHANGED ShopVars /\ outcome' = Nothing
    BY DEF Ask
<1>2. /\ replies' \in 0..(ReplyLimit + 1) /\ replies <= replies'
      /\ WithinLimit(replies, ReplyLimit) => replies + 1 <= ReplyLimit /\ replies' = replies + 1
    BY AllowanceAssumption, AllowanceIsSpent DEF Ask, AssistantInv, SpendingHolds
<1>3. /\ turn[r] \in Turns /\ turn[r].at = "taken" /\ turn[r].message \in DOMAIN thread
      /\ thread[turn[r].message].kind = "text" /\ Continues(thread, thread')
    BY <1>1, NothingIsUnsaid DEF Ask, AssistantInv, TurnsHold
<1>4. SpendingHolds'
    <2>1. calls \in [reply : Nat, draft : Nat] /\ calls.reply <= replies
        BY DEF AssistantInv, SpendingHolds
    <2>2. CASE WithinLimit(replies, ReplyLimit)
        <3>1. calls' = [calls EXCEPT !.reply = @ + 1]
            BY <2>2 DEF Ask
        <3>2. /\ calls' \in [reply : Nat, draft : Nat]
              /\ calls'.reply = calls.reply + 1 /\ calls'.draft = calls.draft
            BY <2>1, <3>1
        <3> QED BY <1>1, <1>2, <2>1, <2>2, <3>2, AllowanceAssumption DEF AssistantInv, SpendingHolds
    <2>3. CASE ~WithinLimit(replies, ReplyLimit)
        <3>1. calls' = calls
            BY <2>3 DEF Ask
        <3> QED BY <1>1, <1>2, <2>1, <3>1, AllowanceAssumption DEF AssistantInv, SpendingHolds
    <2> QED BY <2>2, <2>3
<1>5. TurnsHold'
    <2>1. CASE WithinLimit(replies, ReplyLimit)
        <3>1. PICK inSight \in Selections : turn' = [turn EXCEPT ![r].at = "asked", ![r].selected = inSight]
            BY <2>1 DEF Ask
        <3>2. inSight \in SUBSET Products
            BY SelectionsAreShown DEF AssistantInv
        <3>3. PICK to : to = [turn[r] EXCEPT !.at = "asked", !.selected = inSight]
            OBVIOUS
        <3>4. to \in Turns /\ to.at = "asked"
            BY <1>3, <3>2, <3>3 DEF Turns
        <3>5. turn' = [turn EXCEPT ![r] = to]
            BY <1>3, <3>1, <3>3 DEF AssistantInv, TurnsHold
        <3> QED BY <1>3, <3>4, <3>5, TurnMoves DEF AssistantInv
    <2>2. CASE ~WithinLimit(replies, ReplyLimit)
        <3>1. turn' = [turn EXCEPT ![r] = Quiet]
            BY <2>2 DEF Ask
        <3> QED BY <1>3, <3>1, QuietIsATurn, TurnMoves DEF AssistantInv
    <2> QED BY <2>1, <2>2
<1>6. PromptHolds'
    <2>1. CASE WithinLimit(replies, ReplyLimit)
        <3>1. PICK turns : turns = TurnsSent(Recent)
            OBVIOUS
        <3>2. \E inWindow \in BOOLEAN : inWindow = (turn[r].message >= WindowStart)
            <4>1. PICK message \in Int, start \in Int : message = turn[r].message /\ start = WindowStart
                BY <1>3, WordsAreInSight DEF AssistantInv, ThreadHolds, Turns
            <4>2. (message >= start) \in BOOLEAN
                BY SMT
            <4> QED BY Zenon, <4>1, <4>2
        <3>3. PICK inWindow \in BOOLEAN : inWindow = (turn[r].message >= WindowStart)
            BY <3>2
        <3>4. prompt' = [turns |-> turns, heard |-> inWindow]
            BY <2>1, <3>1, <3>3 DEF Ask
        <3>5. Recent \in Seq(Utterances) /\ (inWindow => Spoken(Recent) # {})
            BY <1>3, <3>3, WordsAreInSight DEF AssistantInv, ThreadHolds
        <3>6. /\ turns \in Seq({"user", "assistant"}) /\ (turns # <<>> => Head(turns) = "user")
              /\ Spoken(Recent) # {} => turns # <<>>
            BY <3>1, <3>5, OpensWithTheCustomer
        <3>7. /\ prompt' \in [turns : Seq({"user", "assistant"}), heard : BOOLEAN]
              /\ prompt'.turns = turns /\ prompt'.heard = inWindow
            BY <3>4, <3>6
        <3> QED BY <3>5, <3>6, <3>7 DEF PromptHolds, CustomerSpeaksFirst
    <2>2. CASE ~WithinLimit(replies, ReplyLimit)
        <3>1. UNCHANGED prompt
            BY <2>2 DEF Ask
        <3> QED BY <3>1, RestStays DEF AssistantInv
    <2> QED BY <2>1, <2>2
<1> QED BY <1>1, <1>4, <1>5, <1>6, NothingIsShown, RestStays, ThreadStays DEF AssistantInv

LEMMA AnswerKeeps ==
    ASSUME AssistantInv, NEW r \in Tabs, NEW reply \in Replies, Answer(r, reply) PROVE AssistantInv'
<1>1. PICK photos : photos = PhotosOf(reply, turn[r].selected)
    OBVIOUS
<1>2. turn[r] \in Turns /\ turn[r].selected \in SUBSET Products /\ pictured \subseteq Products
    BY DEF AssistantInv, TurnsHold, Turns, CatalogueTyped
<1>3. /\ photos \in Seq(Products) /\ Len(photos) <= MaxPhotos
      /\ \A i \in DOMAIN photos :
           photos[i] \in turn[r].selected \cap pictured /\ photos[i] \in {p \in Products : Asks(reply, Photo(p))}
      /\ \A i, j \in DOMAIN photos : photos[i] = photos[j] => i = j
    BY <1>1, <1>2, PhotosArePicked
<1>4. PICK images : images = [i \in 1..Len(photos) |-> [sender |-> "assistant", kind |-> "photo"]]
    OBVIOUS
<1>5. PICK qr : qr = IF Asks(reply, QrMarker) /\ hasQr THEN <<[sender |-> "assistant", kind |-> "qr"]>> ELSE <<>>
    OBVIOUS
<1>6. PICK asked : asked = {p \in Products : Asks(reply, Photo(p))}
    OBVIOUS
<1>7. /\ thread' = thread \o <<WordsOf(reply)>> \o images \o qr
      /\ turn' = [turn EXCEPT ![r] = Quiet]
      /\ outcome' = [is |-> "reply", photos |-> photos, asked |-> asked, selected |-> turn[r].selected]
      /\ UNCHANGED <<open, replies, drafts, calls, accepted, prompt>> /\ UNCHANGED ShopVars
    BY <1>1, <1>4, <1>5, <1>6 DEF Answer
<1>8. ThreadHolds' /\ Continues(thread, thread')
    <2>1. images \in Seq(Utterances) /\ \A i \in DOMAIN images : images[i].sender = "assistant"
        <3>1. PICK photo \in Utterances : photo = [sender |-> "assistant", kind |-> "photo"]
            BY DEF Utterances
        <3>2. images = [i \in 1..Len(photos) |-> photo] /\ Len(photos) \in Nat
            BY <1>3, <1>4, <3>1
        <3> QED BY <3>1, <3>2
    <2>2. qr \in Seq(Utterances) /\ \A i \in DOMAIN qr : qr[i].sender = "assistant"
        <3>1. PICK code \in Utterances : code = [sender |-> "assistant", kind |-> "qr"]
            BY DEF Utterances, Wordless
        <3>2. CASE Asks(reply, QrMarker) /\ hasQr
            <4>1. qr = <<code>>
                BY <1>5, <3>1, <3>2
            <4> QED BY <3>1, <4>1
        <3>3. CASE ~(Asks(reply, QrMarker) /\ hasQr)
            <4>1. qr = <<>>
                BY <1>5, <3>3
            <4> QED BY <4>1
        <3> QED BY <3>2, <3>3
    <2>3. WordsOf(reply) \in Utterances /\ WordsOf(reply).sender = "assistant"
        BY DEF WordsOf, Utterances, Wordless
    <2>4. PICK words : words = <<WordsOf(reply)>>
        OBVIOUS
    <2>5. words \in Seq(Utterances) /\ \A i \in DOMAIN words : words[i].sender = "assistant"
        BY <2>3, <2>4
    <2> QED BY <1>7, <2>1, <2>2, <2>4, <2>5, ReplyIsHeard DEF AssistantInv
<1>9. TurnsHold'
    BY <1>7, <1>8, QuietIsATurn, TurnMoves DEF AssistantInv
<1>10. OutcomeHolds'
    <2>1. /\ outcome'.is = "reply" /\ outcome'.photos = photos
          /\ outcome'.asked = asked /\ outcome'.selected = turn[r].selected
        BY <1>7
    <2>2. pictured' = pictured
        BY <1>7 DEF ShopVars
    <2>3. PhotosWereSelected'
        BY <1>3, <1>6, <2>1, <2>2 DEF PhotosWereSelected
    <2>4. DraftAddsUp'
        BY <2>1 DEF DraftAddsUp
    <2> QED BY <2>3, <2>4 DEF OutcomeHolds
<1> QED BY <1>7, <1>8, <1>9, <1>10, RestStays DEF AssistantInv

LEMMA FailKeeps == ASSUME AssistantInv, NEW r \in Tabs, Fail(r) PROVE AssistantInv'
<1>1. /\ turn' = [turn EXCEPT ![r] = Quiet] /\ outcome' = Nothing
      /\ UNCHANGED <<thread, open, replies, drafts, calls, accepted, prompt>> /\ UNCHANGED ShopVars
    BY DEF Fail
<1>2. TurnsHold'
    BY <1>1, NothingIsUnsaid, QuietIsATurn, TurnMoves DEF AssistantInv
<1> QED BY <1>1, <1>2, NothingIsShown, RestStays, ThreadStays DEF AssistantInv

LEMMA StartDraftKeeps == ASSUME AssistantInv, NEW r \in Tabs, StartDraft(r) PROVE AssistantInv'
<1>1. UNCHANGED <<thread, open, replies, accepted>> /\ UNCHANGED ShopVars /\ outcome' = Nothing
    BY DEF StartDraft
<1>2. /\ drafts' \in 0..(DraftLimit + 1) /\ drafts <= drafts'
      /\ WithinLimit(drafts, DraftLimit) => drafts + 1 <= DraftLimit /\ drafts' = drafts + 1
    BY AllowanceAssumption, AllowanceIsSpent DEF StartDraft, AssistantInv, SpendingHolds
<1>3. SpendingHolds'
    <2>1. calls \in [reply : Nat, draft : Nat] /\ calls.draft <= drafts
        BY DEF AssistantInv, SpendingHolds
    <2>2. CASE WithinLimit(drafts, DraftLimit)
        <3>1. calls' = [calls EXCEPT !.draft = @ + 1]
            BY <2>2 DEF StartDraft
        <3>2. /\ calls' \in [reply : Nat, draft : Nat]
              /\ calls'.draft = calls.draft + 1 /\ calls'.reply = calls.reply
            BY <2>1, <3>1
        <3> QED BY <1>1, <1>2, <2>1, <2>2, <3>2, AllowanceAssumption DEF AssistantInv, SpendingHolds
    <2>3. CASE ~WithinLimit(drafts, DraftLimit)
        <3>1. calls' = calls
            BY <2>3 DEF StartDraft
        <3> QED BY <1>1, <1>2, <2>1, <3>1, AllowanceAssumption DEF AssistantInv, SpendingHolds
    <2> QED BY <2>2, <2>3
<1>4. TurnsHold' /\ PromptHolds'
    <2>1. CASE WithinLimit(drafts, DraftLimit)
        <3>1. PICK inSight \in Selections : \E rendered \in Renderings(inSight) :
                turn' = [turn EXCEPT ![r] =
                    [at |-> "drafting", message |-> 0, selected |-> inSight, rendered |-> rendered,
                     variants |-> {v \in offered : v[1] \in rendered}]]
            BY <2>1 DEF StartDraft
        <3>2. PICK rendered \in Renderings(inSight) :
                turn' = [turn EXCEPT ![r] =
                    [at |-> "drafting", message |-> 0, selected |-> inSight, rendered |-> rendered,
                     variants |-> {v \in offered : v[1] \in rendered}]]
            BY <3>1
        <3>3. inSight \in SUBSET Products /\ rendered \in SUBSET inSight /\ offered \subseteq Saleable
            BY SelectionsAreShown DEF AssistantInv, CatalogueTyped, Renderings
        <3>4. PICK variants : variants = {v \in offered : v[1] \in rendered}
            OBVIOUS
        <3>5. PICK to : to = [at |-> "drafting", message |-> 0, selected |-> inSight, rendered |-> rendered,
                              variants |-> variants]
            OBVIOUS
        <3>6. to \in Turns /\ to.at = "drafting" /\ \A v \in to.variants : v[1] \in to.selected
            BY <3>3, <3>4, <3>5 DEF Turns
        <3>7. turn' = [turn EXCEPT ![r] = to]
            BY <3>2, <3>4, <3>5
        <3>8. TurnsHold'
            BY <1>1, <3>6, <3>7, NothingIsUnsaid, TurnMoves DEF AssistantInv
        <3>9. prompt' = [turns |-> <<"user">>, heard |-> TRUE]
            BY <2>1 DEF StartDraft
        <3> QED BY <3>8, <3>9 DEF PromptHolds, CustomerSpeaksFirst
    <2>2. CASE ~WithinLimit(drafts, DraftLimit)
        <3>1. UNCHANGED <<turn, prompt>>
            BY <2>2 DEF StartDraft
        <3> QED BY <1>1, <3>1, NothingIsUnsaid, TurnsStay, RestStays DEF AssistantInv
    <2> QED BY <2>1, <2>2
<1> QED BY <1>1, <1>3, <1>4, NothingIsShown, RestStays, ThreadStays DEF AssistantInv

LEMMA FinishDraftKeeps ==
    ASSUME AssistantInv, NEW r \in Tabs, NEW items \in Extracts, FinishDraft(r, items) PROVE AssistantInv'
<1>1. PICK variants : variants = turn[r].variants \cup {v \in offered : v[1] \in turn[r].selected \ turn[r].rendered}
    OBVIOUS
<1>2. PICK lines : lines = Lines(items, turn[r].selected, variants)
    OBVIOUS
<1>3. /\ turn[r].at = "drafting" /\ turn' = [turn EXCEPT ![r] = Quiet]
      /\ outcome' = [is |-> "draft", extract |-> items, selected |-> turn[r].selected,
                     variants |-> variants, lines |-> lines]
      /\ UNCHANGED <<thread, open, replies, drafts, calls, accepted, prompt>> /\ UNCHANGED ShopVars
    BY <1>1, <1>2 DEF FinishDraft
<1>4. variants \in SUBSET Saleable /\ \A v \in variants : v[1] \in turn[r].selected
    BY <1>1, <1>3 DEF AssistantInv, CatalogueTyped, TurnsHold, Turns
<1>5. /\ \A v \in DOMAIN lines : lines[v] = Pieces({i \in DOMAIN items : v \in Meant(items[i], variants)}, items)
      /\ \A v \in variants \ DOMAIN lines :
           Pieces({i \in DOMAIN items : v \in Meant(items[i], variants)}, items) = 0
      /\ DOMAIN lines \subseteq variants
    BY <1>2, <1>4, LinesAddUp
<1>6. TurnsHold'
    BY <1>3, NothingIsUnsaid, QuietIsATurn, TurnMoves DEF AssistantInv
<1>7. /\ outcome'.is = "draft" /\ outcome'.extract = items
      /\ outcome'.variants = variants /\ outcome'.lines = lines
    BY <1>3
<1>8. DraftAddsUp'
    BY <1>5, <1>7 DEF DraftAddsUp, Meant
<1>9. PhotosWereSelected'
    BY <1>7 DEF PhotosWereSelected
<1> QED BY <1>3, <1>6, <1>8, <1>9, RestStays, ThreadStays DEF AssistantInv, OutcomeHolds

(* The thread, the turns under way, the allowances and what was last sent to  *)
(* the model fit together after every step.                                   *)
THEOREM AssistantInvariant == AssistantSpec => []AssistantInv
<1>1. AssistantInit => AssistantInv
    <2> SUFFICES ASSUME AssistantInit PROVE AssistantInv
        OBVIOUS
    <2>1. CatalogueTyped
        BY DEF AssistantInit, CatalogueTyped
    <2>2. ThreadHolds
        <3>1. thread = <<>> /\ thread \in Seq(Utterances) /\ DOMAIN thread = {} /\ accepted = 0
            BY DEF AssistantInit
        <3>2. SaidIn(thread) = {}
            BY <3>1 DEF SaidIn
        <3> QED BY <3>1, <3>2, FS_EmptySet DEF ThreadHolds
    <2>3. TurnsHold
        BY QuietIsATurn DEF AssistantInit, TurnsHold
    <2>4. SpendingHolds
        BY AllowanceAssumption DEF AssistantInit, SpendingHolds
    <2>5. PromptHolds
        BY DEF AssistantInit, PromptHolds, CustomerSpeaksFirst
    <2>6. OutcomeHolds
        BY DEF AssistantInit, OutcomeHolds, PhotosWereSelected, DraftAddsUp, Nothing
    <2> QED BY <2>1, <2>2, <2>3, <2>4, <2>5, <2>6 DEF AssistantInv
<1>2. AssistantInv /\ [AssistantNext]_assistantVars => AssistantInv'
    <2> SUFFICES ASSUME AssistantInv, [AssistantNext]_assistantVars PROVE AssistantInv'
        OBVIOUS
    <2>1. CASE EditProduct \/ EditVariant
        BY <2>1, EditKeeps
    <2>2. CASE ThreadNext
        BY <2>2, CloseThreadKeeps, ShopWritesKeeps DEF ThreadNext
    <2>3. CASE RehearseNext
        BY <2>3, TakeMessageKeeps, AskKeeps, FailKeeps, AnswerKeeps DEF RehearseNext
    <2>4. CASE DraftNext
        BY <2>4, StartDraftKeeps, FailKeeps, FinishDraftKeeps DEF DraftNext
    <2>5. CASE UNCHANGED assistantVars
        <3>1. /\ UNCHANGED <<thread, open, turn, replies, drafts, calls, accepted, prompt>>
              /\ UNCHANGED ShopVars /\ UNCHANGED outcome
            BY <2>5 DEF assistantVars, ShopVars
        <3>2. OutcomeHolds'
            BY <3>1 DEF AssistantInv, OutcomeHolds, PhotosWereSelected, DraftAddsUp, ShopVars
        <3> QED BY <3>1, <3>2, NothingIsUnsaid, RestStays, ThreadStays, TurnsStay DEF AssistantInv
    <2> QED BY <2>1, <2>2, <2>3, <2>4, <2>5 DEF AssistantNext
<1> QED BY <1>1, <1>2, PTL DEF AssistantSpec

(* What turns have read is of the catalogue, and counters stop one above the  *)
(* allowance.                                                                 *)
THEOREM AssistantTyped == AssistantSpec => []AssistantTypeOK
<1>1. AssistantInv => AssistantTypeOK
    BY DEF AssistantInv, CatalogueTyped, ThreadHolds, TurnsHold, Turns, SpendingHolds, PromptHolds, AssistantTypeOK
<1> QED BY <1>1, AssistantInvariant, PTL

(* The assistant keeps to what was selected and to what it may spend: what    *)
(* the model is sent opens with the customer, whoever opened the thread and   *)
(* wherever the window cut it, and is not empty while the window holds the    *)
(* message to answer; calls stay within the allowances; every word taken is   *)
(* in the thread; a reply sends what was selected and asked for, once each    *)
(* and no more than the limit; a draft adds up what its items stand for.      *)
THEOREM AssistantAlwaysKeepsToTheShop == AssistantSpec => []AssistantKeepsToTheShop
<1>1. AssistantInv => AssistantKeepsToTheShop
    BY DEF AssistantInv, ThreadHolds, SpendingHolds, PromptHolds, OutcomeHolds, WordsAreKept, SaidIn,
           AskedWithinLimits, AssistantKeepsToTheShop
<1> QED BY <1>1, AssistantInvariant, PTL

-----------------------------------------------------------------------------
(* Receipts.  What a reading leaves on a picture is the reference the picture *)
(* shows, or none; a reading that stands has left it, or has found it there   *)
(* and written nothing.  So a copy that reads as a match has no earlier       *)
(* reading that stands.  Each call of the model is  *)
(* paid for by a count made before it, and each alert too many by a loss.     *)

Readings == [status : {"unscanned", "failed", "not_receipt", "read"},
             reference : {"none"} \cup References]

PictureRows == [order : Sales, shows : Shows, file : Readings, stands : BOOLEAN]

PictureHolds(a) ==
    /\ picture[a] \in PictureRows
    /\ picture[a].file.reference \in {"none", picture[a].shows.reference}
    /\ picture[a].stands => picture[a].file.reference = picture[a].shows.reference

PicturesNumbered ==
    /\ IsFiniteSet(Attached) /\ Attached = 1..Cardinality(Attached)
    /\ Attached \subseteq 1..MaxPictures

PicturesHold == PicturesNumbered /\ \A a \in Attached : PictureHolds(a)

\* What a job or a request may file.
Fileable(holds) == \A a \in DOMAIN holds : a \in Attached => holds[a].read \in {Failed, Reading(a)}

HeldRows == [found : Readings \cup {Expired}, read : Readings]

Stages == {"none", "due", "scan", "reading", "filed", "alerted", "done"}
Runs   == [at : Stages, left : SUBSET (1..MaxPictures),
           holds : UNION {[S -> HeldRows] : S \in SUBSET (1..MaxPictures)}]

JobHolds(o) ==
    /\ job[o].left \subseteq PicturesOf(o)
    /\ DOMAIN job[o].holds \subseteq PicturesOf(o)
    /\ job[o].at # "reading" => Fileable(job[o].holds)
    /\ job[o].at = "reading" => job[o].left # {} /\ DOMAIN job[o].holds = {First(job[o].left)}
    /\ job[o].at # "none" => PicturesOf(o) # {}

JobsHold == job \in [Sales -> Runs] /\ \A o \in Sales : JobHolds(o)

BeingRead == {o \in Sales : job[o].at = "reading"}

\* A request holds nothing, or what it found of one picture.
HeldOfOne(kept) == kept = NoReadings \/ \E a \in Attached : kept \in [{a} -> HeldRows]

RescansHold == DOMAIN rescan = Rescans /\ \A c \in Rescans : HeldOfOne(rescan[c])

BeingReread == {c \in Rescans : rescan[c] # NoReadings}

\* Calls paid for that are still to come.
CallsDue == Cardinality(BeingRead) + Cardinality(BeingReread)

CallsArePaid ==
    /\ RescansHold
    /\ spent \in Nat /\ readings \in Nat /\ IsFiniteSet(BeingRead) /\ IsFiniteSet(BeingReread)
    /\ readings + CallsDue <= spent /\ readings + CallsDue <= MaxScans

TellingHolds ==
    /\ told \in [Sales -> Nat] /\ losses \in Nat
    /\ \A o \in Sales :
         /\ told[o] <= losses + (IF job[o].at \in {"alerted", "done"} THEN 1 ELSE 0)
         /\ job[o].at \in {"alerted", "done"} /\ o \notin paid => told[o] >= 1

ReceiptsInv == PicturesHold /\ JobsHold /\ CallsArePaid /\ TellingHolds /\ missed = {}

-----------------------------------------------------------------------------
\* The first of some pictures is one of them, and before the others.
LEMMA FirstIsOne ==
    ASSUME NEW S \in SUBSET Nat, S # {}
    PROVE  First(S) \in S /\ \A b \in S : First(S) <= b
<1>1. PICK a \in S : \A b \in S : ~(<<b, a>> \in OpToRel(<, Nat))
    BY NatLessThanWellFounded, WFMin
<1>2. \A b \in S : ~(b < a)
    BY <1>1 DEF OpToRel
<1>3. \A b \in S : a <= b
    BY <1>2
<1> QED BY <1>3 DEF First

LEMMA ReadingsTyped ==
    /\ Unscanned \in Readings /\ Failed \in Readings
    /\ \A a \in Attached : PictureHolds(a) =>
         /\ Reading(a) \in Readings /\ Reading(a).reference = picture[a].shows.reference
         /\ Reading(a).status \in {"not_receipt", "read"}
<1>1. Unscanned \in Readings /\ Failed \in Readings
    BY DEF Unscanned, Failed, Readings
<1>2. ASSUME NEW a \in Attached, PictureHolds(a) PROVE picture[a].shows.reference \in {"none"} \cup References
    <2>1. picture[a].shows \in Shows
        BY <1>2 DEF PictureHolds, PictureRows
    <2> QED BY <2>1 DEF Shows, Junk
<1> QED BY <1>1, <1>2 DEF Reading, Readings

LEMMA FoundIsHeld ==
    ASSUME NEW a \in Attached, PictureHolds(a)
    PROVE  Found(a) \in [{a} -> HeldRows]
<1>1. PICK file : file = Unscan(picture[a].file)
    OBVIOUS
<1>2. file \in Readings
    <2>1. picture[a].file \in Readings
        BY DEF PictureHolds, PictureRows
    <2> QED BY <1>1, <2>1 DEF Unscan, Readings
<1>3. [found |-> file, read |-> file] \in HeldRows
    BY <1>2 DEF HeldRows
<1> QED BY <1>1, <1>3 DEF Found

(* Filing what was read, or failed, keeps the pictures and their order.       *)
LEMMA FilingKeepsPictures ==
    ASSUME PicturesHold, NEW holds, Fileable(holds), picture' = Filed(holds)
    PROVE  /\ PicturesHold' /\ Attached' = Attached
           /\ \A a \in Attached : /\ picture'[a].order = picture[a].order
                                  /\ picture'[a].shows = picture[a].shows
<1>1. Attached' = Attached
    BY DEF Filed, Attached
<1>2. ASSUME NEW a \in Attached
      PROVE  /\ PictureHolds(a)'
             /\ picture'[a].order = picture[a].order /\ picture'[a].shows = picture[a].shows
    <2>1. PictureHolds(a)
        BY DEF PicturesHold
    <2>2. CASE a \notin DOMAIN holds
        <3>1. picture'[a] = picture[a]
            BY <2>2 DEF Filed
        <3> QED BY <2>1, <3>1 DEF PictureHolds
    <2>3. CASE a \in DOMAIN holds
        <3>1. PICK kept, file : kept = holds[a] /\ file = Written(picture[a].file, kept)
            OBVIOUS
        <3>2. PICK stands \in BOOLEAN : stands = Stands(a, kept)
            BY DEF Stands
        <3>3. kept = holds[a] /\ file = Written(picture[a].file, kept) /\ stands = Stands(a, kept)
            BY <3>1, <3>2
        <3>4. picture'[a] = [picture[a] EXCEPT !.file = file, !.stands = stands]
            BY <2>3, <3>3 DEF Filed
        <3>5. /\ kept.read \in Readings
              /\ \/ kept.read.status = "failed" /\ kept.read.reference = "none"
                 \/ kept.read.reference = picture[a].shows.reference
            BY <2>1, <2>3, <3>3, ReadingsTyped DEF Fileable, Failed
        <3>6. /\ picture[a].file \in Readings
              /\ picture[a].file.reference \in {"none", picture[a].shows.reference}
            BY <2>1 DEF PictureHolds, PictureRows
        <3>7. file \in Readings /\ file.reference \in {"none", picture[a].shows.reference}
            BY <3>3, <3>5, <3>6 DEF Written, Readings
        <3>8. ASSUME stands PROVE file.reference = picture[a].shows.reference
            <4>1. kept.read.reference = picture[a].shows.reference
                BY <3>3, <3>5, <3>8 DEF Stands
            <4>2. CASE kept.found.reference # picture[a].shows.reference
                BY <3>3, <4>1, <4>2 DEF Written
            <4>3. CASE kept.found.reference = picture[a].shows.reference
                <5>1. picture[a].file.reference = picture[a].shows.reference
                    BY <2>1, <3>3, <3>8, <4>3 DEF Stands, PictureHolds
                <5> QED BY <3>3, <4>1, <4>3, <5>1 DEF Written
            <4> QED BY <4>2, <4>3
        <3> HIDE <3>3
        <3> QED BY <2>1, <3>4, <3>7, <3>8 DEF PictureHolds, PictureRows
    <2> QED BY <2>2, <2>3
<1>3. PicturesNumbered'
    BY <1>1 DEF PicturesHold, PicturesNumbered
<1> QED BY <1>1, <1>2, <1>3 DEF PicturesHold

\* What was read of a picture stays true of it as long as it shows the same.
LEMMA JobsKeepPictures ==
    ASSUME Attached' = Attached,
           \A a \in Attached : /\ picture'[a].order = picture[a].order
                               /\ picture'[a].shows = picture[a].shows
    PROVE  /\ \A o \in Sales : PicturesOf(o)' = PicturesOf(o)
           /\ \A a \in Attached : Reading(a)' = Reading(a)
BY DEF PicturesOf, Reading

LEMMA RunsTyped ==
    /\ \A at \in Stages, left \in SUBSET (1..MaxPictures) : Run(at, left, NoReadings) \in Runs
    /\ \A at \in Stages, left, S \in SUBSET (1..MaxPictures) :
         \A holds \in [S -> HeldRows] : Run(at, left, holds) \in Runs
<1>1. {} \in SUBSET (1..MaxPictures) /\ NoReadings \in [{} -> HeldRows]
    BY DEF NoReadings
<1>2. ASSUME NEW S \in SUBSET (1..MaxPictures), NEW holds \in [S -> HeldRows]
      PROVE  holds \in UNION {[T -> HeldRows] : T \in SUBSET (1..MaxPictures)}
    OBVIOUS
<1> QED BY <1>1, <1>2 DEF Run, Runs

LEMMA ReceiptsInitHolds == ReceiptsInit => ReceiptsInv
<1> SUFFICES ASSUME ReceiptsInit PROVE ReceiptsInv
    OBVIOUS
<1> USE ReceiptsAssumption DEF ReceiptsInit
<1>1. Attached = {} /\ BeingRead = {} /\ BeingReread = {}
    BY DEF Attached, BeingRead, BeingReread, Run
<1>2. PicturesHold
    <2>1. 1..0 = {} /\ IsFiniteSet({}) /\ Cardinality({}) = 0
        BY FS_EmptySet
    <2> QED BY <1>1, <2>1 DEF PicturesHold, PicturesNumbered
<1>3. JobsHold
    <2>1. Run("none", {}, NoReadings) \in Runs
        BY RunsTyped DEF Stages
    <2>2. job = [o \in Sales |-> Run("none", {}, NoReadings)] /\ DOMAIN NoReadings = {}
        BY DEF NoReadings
    <2> QED BY <2>1, <2>2 DEF JobsHold, JobHolds, Fileable, Run
<1>4. CallsArePaid
    BY <1>1, FS_EmptySet DEF CallsArePaid, CallsDue, RescansHold, HeldOfOne
<1>5. TellingHolds
    BY DEF TellingHolds, Run
<1> QED BY <1>2, <1>3, <1>4, <1>5 DEF ReceiptsInv

-----------------------------------------------------------------------------
\* The pictures there are, and what they show.
SamePictures ==
    /\ Attached' = Attached
    /\ \A a \in Attached : /\ picture'[a].order = picture[a].order
                           /\ picture'[a].shows = picture[a].shows

LEMMA OneJobMoves ==
    ASSUME JobsHold, SamePictures, NEW o \in Sales, NEW run \in Runs,
           job' = [job EXCEPT ![o] = run],
           run.left \subseteq PicturesOf(o), DOMAIN run.holds \subseteq PicturesOf(o),
           run.at # "reading" => Fileable(run.holds),
           run.at = "reading" => run.left # {} /\ DOMAIN run.holds = {First(run.left)},
           PicturesOf(o) # {}
    PROVE  JobsHold'
<1>1. /\ Attached' = Attached
      /\ \A p \in Sales : PicturesOf(p)' = PicturesOf(p)
      /\ \A a \in Attached : Reading(a)' = Reading(a)
    BY JobsKeepPictures DEF SamePictures
<1>2. job' \in [Sales -> Runs] /\ job'[o] = run /\ \A p \in Sales \ {o} : job'[p] = job[p]
    BY DEF JobsHold
<1>3. JobHolds(o)'
    BY <1>1, <1>2 DEF JobHolds, Fileable
<1>4. ASSUME NEW p \in Sales, p # o PROVE JobHolds(p)'
    <2>1. JobHolds(p) /\ job'[p] = job[p] /\ PicturesOf(p)' = PicturesOf(p)
        BY <1>1, <1>2, <1>4 DEF JobsHold
    <2> QED BY <1>1, <2>1 DEF JobHolds, Fileable
<1> QED BY <1>2, <1>3, <1>4 DEF JobsHold

LEMMA JobsAreKept == JobsHold /\ SamePictures /\ UNCHANGED job => JobsHold'
<1> SUFFICES ASSUME JobsHold, SamePictures, UNCHANGED job PROVE JobsHold'
    OBVIOUS
<1>1. /\ Attached' = Attached
      /\ \A p \in Sales : PicturesOf(p)' = PicturesOf(p)
      /\ \A a \in Attached : Reading(a)' = Reading(a)
    BY JobsKeepPictures DEF SamePictures
<1>2. ASSUME NEW p \in Sales PROVE JobHolds(p)'
    <2>1. JobHolds(p) /\ job'[p] = job[p] /\ PicturesOf(p)' = PicturesOf(p)
        BY <1>1 DEF JobsHold
    <2> QED BY <1>1, <2>1 DEF JobHolds, Fileable
<1> QED BY <1>2 DEF JobsHold

LEMMA NothingFiled == UNCHANGED picture => SamePictures /\ (PicturesHold => PicturesHold')
BY DEF SamePictures, Attached, PicturesHold, PicturesNumbered, PictureHolds

(* The calls stay paid for: none starts, one ends, or one starts that a count *)
(* within the allowance has been made for.                                    *)
LEMMA RescansMove ==
    ASSUME RescansHold, Attached \subseteq Attached', NEW c \in Rescans, NEW kept, HeldOfOne(kept),
           rescan' = [rescan EXCEPT ![c] = kept]
    PROVE  /\ RescansHold'
           /\ kept = NoReadings => BeingReread' = BeingReread \ {c}
           /\ kept # NoReadings => BeingReread' = BeingReread \cup {c}
<1>1. DOMAIN rescan' = Rescans /\ rescan'[c] = kept /\ \A d \in Rescans \ {c} : rescan'[d] = rescan[d]
    BY DEF RescansHold
<1>2. \A d \in Rescans : HeldOfOne(rescan[d])
    BY DEF RescansHold
<1>3. \A d \in Rescans : HeldOfOne(rescan[d])'
    BY <1>1, <1>2 DEF HeldOfOne
<1> QED BY <1>1, <1>3 DEF RescansHold, BeingReread

LEMMA RescansStay ==
    RescansHold /\ Attached \subseteq Attached' /\ rescan' = rescan
        => RescansHold' /\ BeingReread' = BeingReread
BY DEF RescansHold, HeldOfOne, BeingReread

LEMMA NoCallStarts ==
    ASSUME CallsArePaid, BeingRead' \subseteq BeingRead, Attached \subseteq Attached',
           rescan' = rescan \/ \E c \in Rescans : rescan' = [rescan EXCEPT ![c] = NoReadings],
           spent' \in Nat, spent' >= spent, readings' = readings
    PROVE  CallsArePaid'
<1>1. /\ IsFiniteSet(BeingRead) /\ IsFiniteSet(BeingRead')
      /\ Cardinality(BeingRead) \in Nat /\ Cardinality(BeingRead') \in Nat
      /\ Cardinality(BeingRead') <= Cardinality(BeingRead)
    BY FS_Subset, FS_CardinalityType DEF CallsArePaid
<1>2. RescansHold' /\ BeingReread' \subseteq BeingReread
    BY RescansMove, RescansStay DEF CallsArePaid, HeldOfOne
<1>3. /\ IsFiniteSet(BeingReread) /\ IsFiniteSet(BeingReread')
      /\ Cardinality(BeingReread) \in Nat /\ Cardinality(BeingReread') \in Nat
      /\ Cardinality(BeingReread') <= Cardinality(BeingReread)
    BY <1>2, FS_Subset, FS_CardinalityType DEF CallsArePaid
<1> QED BY <1>1, <1>2, <1>3, ReceiptsAssumption DEF CallsArePaid, CallsDue

LEMMA CallEnds ==
    ASSUME CallsArePaid, NEW called \in {0, 1}, readings' = readings + called, spent' = spent,
           Attached' = Attached,
           \/ /\ \E o \in BeingRead : BeingRead' = BeingRead \ {o}
              /\ rescan' = rescan
           \/ /\ \E c \in BeingReread : rescan' = [rescan EXCEPT ![c] = NoReadings]
              /\ BeingRead' = BeingRead
    PROVE  CallsArePaid'
<1>1. /\ IsFiniteSet(BeingRead) /\ Cardinality(BeingRead) \in Nat
      /\ IsFiniteSet(BeingReread) /\ Cardinality(BeingReread) \in Nat
    BY FS_CardinalityType DEF CallsArePaid
<1>2. CASE (\E o \in BeingRead : BeingRead' = BeingRead \ {o}) /\ rescan' = rescan
    <2>1. /\ IsFiniteSet(BeingRead') /\ Cardinality(BeingRead') \in Nat
          /\ Cardinality(BeingRead') = Cardinality(BeingRead) - 1
        BY <1>1, <1>2, FS_RemoveElement, FS_CardinalityType
    <2>2. RescansHold' /\ BeingReread' = BeingReread
        BY <1>2, RescansStay DEF CallsArePaid
    <2>3. Cardinality(BeingReread') = Cardinality(BeingReread) /\ IsFiniteSet(BeingReread')
        BY <1>1, <2>2
    <2> QED BY <1>1, <2>1, <2>2, <2>3, ReceiptsAssumption DEF CallsArePaid, CallsDue
<1>3. CASE /\ \E c \in BeingReread : rescan' = [rescan EXCEPT ![c] = NoReadings]
           /\ BeingRead' = BeingRead
    <2>1. PICK c \in BeingReread : rescan' = [rescan EXCEPT ![c] = NoReadings]
        BY <1>3
    <2>2. RescansHold' /\ BeingReread' = BeingReread \ {c}
        BY <2>1, RescansMove DEF CallsArePaid, HeldOfOne, BeingReread
    <2>3. /\ IsFiniteSet(BeingReread') /\ Cardinality(BeingReread') \in Nat
          /\ Cardinality(BeingReread') = Cardinality(BeingReread) - 1
        BY <1>1, <2>2, FS_RemoveElement, FS_CardinalityType
    <2>4. Cardinality(BeingRead') = Cardinality(BeingRead) /\ IsFiniteSet(BeingRead')
        BY <1>1, <1>3
    <2> QED BY <1>1, <2>2, <2>3, <2>4, ReceiptsAssumption DEF CallsArePaid, CallsDue
<1> QED BY <1>2, <1>3

LEMMA CallStarts ==
    ASSUME CallsArePaid, WithinAllowance, spent' = spent + 1, readings' = readings,
           Attached' = Attached,
           \/ /\ \E o \in Sales \ BeingRead : BeingRead' = BeingRead \cup {o}
              /\ rescan' = rescan
           \/ /\ \E c \in Rescans \ BeingReread, a \in Attached :
                   \E kept \in [{a} -> HeldRows] : rescan' = [rescan EXCEPT ![c] = kept]
              /\ BeingRead' = BeingRead
    PROVE  CallsArePaid'
<1>1. /\ IsFiniteSet(BeingRead) /\ Cardinality(BeingRead) \in Nat
      /\ IsFiniteSet(BeingReread) /\ Cardinality(BeingReread) \in Nat
    BY FS_CardinalityType DEF CallsArePaid
<1>2. spent < MaxScans /\ spent \in Nat /\ readings \in Nat
    BY DEF WithinAllowance, CallsArePaid
<1>3. CASE (\E o \in Sales \ BeingRead : BeingRead' = BeingRead \cup {o}) /\ rescan' = rescan
    <2>1. /\ IsFiniteSet(BeingRead') /\ Cardinality(BeingRead') \in Nat
          /\ Cardinality(BeingRead') = Cardinality(BeingRead) + 1
        BY <1>1, <1>3, FS_AddElement, FS_CardinalityType
    <2>2. RescansHold' /\ BeingReread' = BeingReread
        BY <1>3, RescansStay DEF CallsArePaid
    <2>3. Cardinality(BeingReread') = Cardinality(BeingReread) /\ IsFiniteSet(BeingReread')
        BY <1>1, <2>2
    <2> QED BY <1>1, <1>2, <2>1, <2>2, <2>3, ReceiptsAssumption DEF CallsArePaid, CallsDue
<1>4. CASE /\ \E c \in Rescans \ BeingReread, a \in Attached :
                 \E kept \in [{a} -> HeldRows] : rescan' = [rescan EXCEPT ![c] = kept]
           /\ BeingRead' = BeingRead
    <2>1. PICK c \in Rescans \ BeingReread, a \in Attached :
             \E kept \in [{a} -> HeldRows] : rescan' = [rescan EXCEPT ![c] = kept]
        BY <1>4
    <2>2. PICK kept \in [{a} -> HeldRows] : rescan' = [rescan EXCEPT ![c] = kept]
        BY <2>1
    <2>3. kept # NoReadings /\ HeldOfOne(kept)
        <3>1. a \in DOMAIN kept /\ a \notin DOMAIN NoReadings
            BY DEF NoReadings
        <3> QED BY <3>1 DEF HeldOfOne
    <2>4. RescansHold' /\ BeingReread' = BeingReread \cup {c}
        BY <2>2, <2>3, RescansMove DEF CallsArePaid
    <2>5. /\ IsFiniteSet(BeingReread') /\ Cardinality(BeingReread') \in Nat
          /\ Cardinality(BeingReread') = Cardinality(BeingReread) + 1
        BY <1>1, <2>4, FS_AddElement, FS_CardinalityType
    <2>6. Cardinality(BeingRead') = Cardinality(BeingRead) /\ IsFiniteSet(BeingRead')
        BY <1>1, <1>4
    <2> QED BY <1>1, <1>2, <2>4, <2>5, <2>6, ReceiptsAssumption DEF CallsArePaid, CallsDue
<1> QED BY <1>3, <1>4

-----------------------------------------------------------------------------
LEMMA ArriveKeeps ==
    ASSUME ReceiptsInv, NEW o \in Sales, NEW sent \in Arrivals, Arrive(o, sent)
    PROVE  ReceiptsInv'
<1>1. PICK n, k : n = Cardinality(Attached) /\ k = Len(sent)
    OBVIOUS
<1>2. n \in Nat /\ Attached = 1..n
    BY <1>1, FS_CardinalityType DEF ReceiptsInv, PicturesHold, PicturesNumbered
<1>3. k \in {1, 2} /\ \A i \in 1..k : sent[i] \in Shows
    BY <1>1 DEF Arrivals
<1>4. /\ job[o].at = "none" /\ o \notin paid /\ n + k <= MaxPictures
      /\ picture' = [a \in 1..(n + k) |-> IF a <= n THEN picture[a]
               ELSE [order |-> o, shows |-> sent[a - n], file |-> Unscanned, stands |-> FALSE]]
      /\ job' = [job EXCEPT ![o].at = "due"]
      /\ UNCHANGED <<rescan, spent, readings, paid, missed, told, losses>>
    BY <1>1 DEF Arrive
<1>5. Attached' = 1..(n + k) /\ Attached \subseteq Attached' /\ n + 1 \in Attached'
    BY <1>2, <1>3, <1>4 DEF Attached
<1>6. \A a \in Attached : picture'[a] = picture[a] /\ PictureHolds(a)
    BY <1>2, <1>3, <1>4 DEF ReceiptsInv, PicturesHold
<1>7. ASSUME NEW a \in Attached', a \notin Attached
      PROVE  PictureHolds(a)' /\ picture'[a].order = o
    <2>1. a - n \in 1..k /\ a \in 1..(n + k) /\ ~(a <= n)
        BY <1>2, <1>3, <1>5, <1>7
    <2>2. picture'[a] = [order |-> o, shows |-> sent[a - n], file |-> Unscanned, stands |-> FALSE]
        BY <1>4, <2>1
    <2>3. Unscanned \in Readings /\ Unscanned.reference = "none" /\ Unscanned.status = "unscanned"
        BY DEF Unscanned, Readings
    <2> QED BY <1>3, <2>1, <2>2, <2>3 DEF PictureHolds, PictureRows
<1>8. PicturesHold'
    <2>1. IsFiniteSet(1..(n + k)) /\ Cardinality(1..(n + k)) = n + k
        BY <1>2, <1>3, FS_Interval
    <2>2. PicturesNumbered'
        BY <1>2, <1>3, <1>4, <1>5, <2>1, ReceiptsAssumption DEF PicturesNumbered
    <2>3. \A a \in Attached : PictureHolds(a)'
        BY <1>6 DEF PictureHolds
    <2> QED BY <1>7, <2>2, <2>3 DEF PicturesHold
<1>9. /\ PicturesOf(o) \subseteq PicturesOf(o)' /\ PicturesOf(o)' # {}
      /\ \A p \in Sales \ {o} : PicturesOf(p)' = PicturesOf(p)
    <2>1. \A a \in Attached : picture'[a].order = picture[a].order
        BY <1>6
    <2>2. n + 1 \notin Attached
        BY <1>2
    <2> QED BY <1>5, <1>7, <2>1, <2>2 DEF PicturesOf
<1>10. \A a \in Attached : Reading(a)' = Reading(a)
    BY <1>6 DEF Reading
<1>11. JobsHold'
    <2>1. /\ job \in [Sales -> Runs] /\ \A p \in Sales : JobHolds(p)
        BY DEF ReceiptsInv, JobsHold
    <2>2. /\ job' \in [Sales -> Runs] /\ \A p \in Sales \ {o} : job'[p] = job[p]
          /\ job'[o].left = job[o].left /\ job'[o].holds = job[o].holds /\ job'[o].at = "due"
        BY <1>4, <2>1 DEF Runs, Stages
    <2>3. \A p \in Sales : /\ PicturesOf(p) \subseteq PicturesOf(p)' /\ job'[p].left = job[p].left
                           /\ job'[p].holds = job[p].holds
        BY <1>9, <2>2
    <2>4. \A p \in Sales : DOMAIN job[p].holds \subseteq Attached
        BY <2>1 DEF JobHolds, PicturesOf
    <2>5. ASSUME NEW p \in Sales PROVE JobHolds(p)'
        <3>1. /\ job[p].at # "reading" => Fileable(job[p].holds)
              /\ job'[p].at # "reading" => job[p].at # "reading"
              /\ DOMAIN job[p].holds \subseteq Attached
            BY <1>4, <2>1, <2>2, <2>4 DEF JobHolds
        <3>2. job'[p].at # "reading" =>
                \A a \in DOMAIN job'[p].holds : job'[p].holds[a].read \in {Failed, Reading(a)'}
            BY <1>10, <2>3, <3>1 DEF Fileable
        <3>3. /\ job'[p].left \subseteq PicturesOf(p)' /\ DOMAIN job'[p].holds \subseteq PicturesOf(p)'
              /\ job'[p].at = "reading" =>
                   job'[p].left # {} /\ DOMAIN job'[p].holds = {First(job'[p].left)}
              /\ job'[p].at # "none" => PicturesOf(p)' # {}
            BY <1>9, <2>1, <2>2, <2>3 DEF JobHolds
        <3> QED BY <3>2, <3>3 DEF JobHolds, Fileable
    <2> QED BY <2>2, <2>5 DEF JobsHold
<1>12. CallsArePaid'
    <2>1. BeingRead' \subseteq BeingRead
        BY <1>4 DEF BeingRead, ReceiptsInv, JobsHold, Runs
    <2>2. CallsArePaid
        BY DEF ReceiptsInv
    <2> QED BY <1>4, <1>5, <2>1, <2>2, NoCallStarts DEF CallsArePaid
<1>13. TellingHolds'
    BY <1>4 DEF ReceiptsInv, JobsHold, Runs, TellingHolds
<1> QED BY <1>4, <1>8, <1>11, <1>12, <1>13 DEF ReceiptsInv

(* The steps of a job that only change what it has left to look at.           *)
LEMMA LookingKeeps ==
    ASSUME ReceiptsInv, NEW o \in Sales, TakeScan(o) \/ Skip(o)
    PROVE  ReceiptsInv'
<1>1. /\ JobsHold /\ JobHolds(o) /\ job \in [Sales -> Runs]
      /\ PicturesHold /\ CallsArePaid /\ TellingHolds
    BY DEF ReceiptsInv, JobsHold
<1>2. UNCHANGED <<picture, rescan, spent, readings, paid, missed, told, losses>>
    BY DEF TakeScan, Skip
<1>3. PICK run \in Runs :
         /\ job' = [job EXCEPT ![o] = run]
         /\ run.at = "scan" /\ job[o].at \in {"due", "scan"}
         /\ run.left \subseteq PicturesOf(o) /\ DOMAIN run.holds \subseteq PicturesOf(o)
         /\ Fileable(run.holds)
    <2>1. CASE TakeScan(o)
        <3>1. PicturesOf(o) \in SUBSET (1..MaxPictures)
            BY <1>1 DEF PicturesOf, PicturesHold, PicturesNumbered
        <3>2. PICK run : run = Run("scan", PicturesOf(o), NoReadings)
            OBVIOUS
        <3>3. run \in Runs
            BY <3>1, <3>2, RunsTyped DEF Stages
        <3>4. run.at = "scan" /\ run.left = PicturesOf(o) /\ DOMAIN run.holds = {}
            BY <3>2 DEF Run, NoReadings
        <3> QED BY <2>1, <3>2, <3>3, <3>4 DEF TakeScan, Fileable
    <2>2. CASE Skip(o)
        <3>1. PICK run : run = [job[o] EXCEPT !.left = @ \ {First(job[o].left)}]
            OBVIOUS
        <3>2. job' = [job EXCEPT ![o] = run] /\ job[o].at = "scan"
            BY <1>1, <2>2, <3>1 DEF Skip
        <3>3. /\ run \in Runs /\ run.at = "scan" /\ run.left \subseteq job[o].left
              /\ run.holds = job[o].holds
            BY <1>1, <3>1, <3>2 DEF Runs
        <3> QED BY <1>1, <3>2, <3>3 DEF JobHolds
    <2> QED BY <2>1, <2>2
<1>4. PicturesHold' /\ SamePictures
    BY <1>1, <1>2, NothingFiled
<1>5. PicturesOf(o) # {}
    BY <1>1, <1>3 DEF JobHolds
<1>6. JobsHold'
    BY <1>1, <1>3, <1>4, <1>5, OneJobMoves
<1>7. job'[o] = run /\ \A p \in Sales \ {o} : job'[p] = job[p]
    BY <1>1, <1>3
<1>8. CallsArePaid'
    <2>1. BeingRead' \subseteq BeingRead
        BY <1>3, <1>7 DEF BeingRead
    <2> QED BY <1>1, <1>2, <1>4, <2>1, NoCallStarts DEF CallsArePaid, SamePictures
<1>9. TellingHolds'
    BY <1>1, <1>2, <1>3, <1>7 DEF TellingHolds
<1> QED BY <1>2, <1>4, <1>6, <1>8, <1>9 DEF ReceiptsInv

LEMMA SpendScanKeeps ==
    ASSUME ReceiptsInv, NEW o \in Sales, SpendScan(o)
    PROVE  ReceiptsInv'
<1> DEFINE a == First(job[o].left)
<1>1. /\ JobsHold /\ JobHolds(o) /\ job \in [Sales -> Runs]
      /\ PicturesHold /\ CallsArePaid /\ TellingHolds
    BY DEF ReceiptsInv, JobsHold
<1>2. /\ job[o].at = "scan" /\ job[o].left # {} /\ spent' = Counted
      /\ picture' = Filed(job[o].holds)
      /\ UNCHANGED <<rescan, readings, paid, missed, told, losses>>
    BY DEF SpendScan
<1>3. a \in job[o].left /\ a \in PicturesOf(o) /\ a \in 1..MaxPictures
    <2>1. job[o].left \in SUBSET Nat
        BY <1>1, ReceiptsAssumption DEF Runs
    <2> QED BY <1>1, <1>2, <2>1, FirstIsOne DEF JobHolds, Runs
<1>4. PicturesHold' /\ SamePictures
    BY <1>1, <1>2, FilingKeepsPictures DEF JobHolds, SamePictures
<1> HIDE DEF a
<1>5. CASE WithinAllowance
    <2>1. PICK run : run = Run("reading", job[o].left, Found(a))
        OBVIOUS
    <2>2. job' = [job EXCEPT ![o] = run]
        BY <1>5, <2>1 DEF SpendScan, a
    <2>3. run \in Runs /\ run.at = "reading" /\ run.left = job[o].left /\ DOMAIN run.holds = {a}
        <3>1. job[o].left \in SUBSET (1..MaxPictures) /\ {a} \in SUBSET (1..MaxPictures)
            BY <1>1, <1>3 DEF Runs
        <3>2. Found(a) \in [{a} -> HeldRows]
            BY <1>1, <1>3, FoundIsHeld DEF PicturesOf, PicturesHold
        <3>3. run \in Runs
            BY <2>1, <3>1, <3>2, RunsTyped DEF Stages
        <3> QED BY <2>1, <3>2, <3>3 DEF Run
    <2>4. JobsHold'
        <3>1. /\ PicturesOf(o) # {} /\ DOMAIN run.holds \subseteq PicturesOf(o)
              /\ DOMAIN run.holds = {First(run.left)}
            BY <1>3, <2>3 DEF a
        <3> QED BY <1>1, <1>2, <1>4, <2>2, <2>3, <3>1, OneJobMoves DEF JobHolds
    <2>5. job'[o] = run /\ \A p \in Sales \ {o} : job'[p] = job[p]
        BY <1>1, <2>2
    <2>6. o \in Sales \ BeingRead /\ BeingRead' = BeingRead \cup {o}
        BY <1>2, <2>3, <2>5 DEF BeingRead
    <2>7. spent' = spent + 1
        BY <1>1, <1>2, <1>5, ReceiptsAssumption DEF Counted, WithinAllowance, CallsArePaid
    <2>8. CallsArePaid'
        BY <1>1, <1>2, <1>4, <1>5, <2>6, <2>7, CallStarts DEF SamePictures, CallsArePaid
    <2>9. TellingHolds'
        BY <1>1, <1>2, <2>3, <2>5 DEF TellingHolds
    <2> QED BY <1>2, <1>4, <2>4, <2>8, <2>9 DEF ReceiptsInv
<1>6. CASE ~WithinAllowance
    <2>1. PICK run : run = Run("scan", job[o].left \ {a}, [b \in {a} |-> [found |-> Expired, read |-> Failed]])
        OBVIOUS
    <2>2. job' = [job EXCEPT ![o] = run]
        BY <1>6, <2>1 DEF SpendScan, a
    <2>3. /\ run \in Runs /\ run.at = "scan" /\ run.left \subseteq job[o].left
          /\ DOMAIN run.holds = {a} /\ run.holds[a].read = Failed
        <3>1. job[o].left \ {a} \in SUBSET (1..MaxPictures) /\ {a} \in SUBSET (1..MaxPictures)
            BY <1>1, <1>3 DEF Runs
        <3>2. [b \in {a} |-> [found |-> Expired, read |-> Failed]] \in [{a} -> HeldRows]
            BY ReadingsTyped DEF HeldRows
        <3>3. run \in Runs
            BY <2>1, <3>1, <3>2, RunsTyped DEF Stages
        <3> QED BY <2>1, <3>3 DEF Run
    <2>4. JobsHold'
        <3>1. /\ PicturesOf(o) # {} /\ Fileable(run.holds)
              /\ DOMAIN run.holds \subseteq PicturesOf(o)
            BY <1>3, <2>3 DEF Fileable
        <3> QED BY <1>1, <1>2, <1>4, <2>2, <2>3, <3>1, OneJobMoves DEF JobHolds
    <2>5. job'[o] = run /\ \A p \in Sales \ {o} : job'[p] = job[p]
        BY <1>1, <2>2
    <2>6. BeingRead' \subseteq BeingRead
        BY <2>3, <2>5 DEF BeingRead
    <2>7. spent' \in Nat /\ spent' >= spent
        BY <1>1, <1>2, ReceiptsAssumption DEF Counted, CallsArePaid
    <2>8. CallsArePaid'
        BY <1>1, <1>2, <1>4, <2>6, <2>7, NoCallStarts DEF SamePictures, CallsArePaid
    <2>9. TellingHolds'
        BY <1>1, <1>2, <2>3, <2>5 DEF TellingHolds
    <2> QED BY <1>2, <1>4, <2>4, <2>8, <2>9 DEF ReceiptsInv
<1> QED BY <1>5, <1>6

LEMMA HeldIsRead ==
    ASSUME NEW a, NEW kept \in [{a} -> HeldRows], NEW r \in Readings
    PROVE  /\ [kept EXCEPT ![a].read = r] \in [{a} -> HeldRows]
           /\ [kept EXCEPT ![a].read = r][a].read = r
<1>1. PICK entry \in HeldRows : entry = kept[a]
    OBVIOUS
<1>2. [entry EXCEPT !.read = r] \in HeldRows /\ [entry EXCEPT !.read = r].read = r
    BY DEF HeldRows
<1>3. [kept EXCEPT ![a].read = r] = [kept EXCEPT ![a] = [entry EXCEPT !.read = r]]
    BY <1>1
<1> QED BY <1>2, <1>3

LEMMA ReadKeeps ==
    ASSUME ReceiptsInv, NEW o \in Sales, Read(o)
    PROVE  ReceiptsInv'
<1>1. /\ JobsHold /\ JobHolds(o) /\ job \in [Sales -> Runs]
      /\ PicturesHold /\ CallsArePaid /\ TellingHolds
    BY DEF ReceiptsInv, JobsHold
<1>2. PICK a : a = First(job[o].left)
    OBVIOUS
<1>3. PICK called \in {0, 1}, r \in {Failed, Reading(a)} :
         /\ readings' = readings + called
         /\ job' = [job EXCEPT ![o] = Run("scan", job[o].left \ {a}, [job[o].holds EXCEPT ![a].read = r])]
    BY <1>1, <1>2 DEF Read
<1>4. job[o].at = "reading" /\ UNCHANGED <<picture, rescan, spent, paid, missed, told, losses>>
    BY DEF Read
<1>5. a \in job[o].left /\ a \in PicturesOf(o) /\ a \in 1..MaxPictures /\ a \in Attached
    <2>1. job[o].left \in SUBSET Nat /\ job[o].left # {}
        BY <1>1, <1>4, ReceiptsAssumption DEF Runs, JobHolds
    <2> QED BY <1>1, <1>2, <2>1, FirstIsOne DEF JobHolds, Runs, PicturesOf
<1>6. PicturesHold' /\ SamePictures
    BY <1>1, <1>4, NothingFiled
<1>7. PICK holds : holds = [job[o].holds EXCEPT ![a].read = r]
    OBVIOUS
<1>8. PICK S : S = {a}
    OBVIOUS
<1>9. /\ DOMAIN holds = S /\ S \subseteq PicturesOf(o) /\ S \in SUBSET (1..MaxPictures)
      /\ Fileable(holds) /\ holds \in [S -> HeldRows]
    <2>1. DOMAIN job[o].holds = {a}
        BY <1>1, <1>2, <1>4 DEF JobHolds
    <2>2. r \in {Failed, Reading(a)} /\ r \in Readings
        BY <1>1, <1>5, ReadingsTyped DEF PicturesHold
    <2>3. job[o].holds \in [{a} -> HeldRows]
        <3>1. job[o].holds \in UNION {[T -> HeldRows] : T \in SUBSET (1..MaxPictures)}
            BY <1>1 DEF Runs
        <3> QED BY <2>1, <3>1
    <2>4. holds \in [{a} -> HeldRows] /\ holds[a].read = r
        BY <1>7, <2>2, <2>3, HeldIsRead
    <2>5. Fileable(holds)
        BY <2>2, <2>4 DEF Fileable
    <2> QED BY <1>5, <1>8, <2>4, <2>5
<1>10. PICK run : run = Run("scan", job[o].left \ {a}, holds)
    OBVIOUS
<1>11. /\ run \in Runs /\ run.at = "scan" /\ run.left \subseteq job[o].left /\ run.holds = holds
    <2>1. job[o].left \ {a} \in SUBSET (1..MaxPictures)
        BY <1>1 DEF Runs
    <2>2. run \in Runs
        BY <1>9, <1>10, <2>1, RunsTyped DEF Stages
    <2> QED BY <1>10, <2>2 DEF Run
<1>12. job' = [job EXCEPT ![o] = run]
    BY <1>3, <1>7, <1>10
<1>13. JobsHold'
    BY <1>1, <1>5, <1>6, <1>9, <1>11, <1>12, OneJobMoves DEF JobHolds
<1>14. job'[o] = run /\ \A p \in Sales \ {o} : job'[p] = job[p]
    BY <1>1, <1>12
<1>15. o \in BeingRead /\ BeingRead' = BeingRead \ {o}
    BY <1>4, <1>11, <1>14 DEF BeingRead
<1>16. CallsArePaid'
    BY <1>1, <1>3, <1>4, <1>6, <1>15, CallEnds DEF SamePictures
<1>17. TellingHolds'
    BY <1>1, <1>4, <1>11, <1>14 DEF TellingHolds
<1> QED BY <1>4, <1>6, <1>13, <1>16, <1>17 DEF ReceiptsInv

(* The steps after which nothing is left to look at.                          *)
LEMMA JobComesTo ==
    ASSUME JobsHold, SamePictures, NEW o \in Sales, NEW at \in Stages \ {"none", "reading"},
           job[o].at # "none",
           \/ job' = [job EXCEPT ![o] = Run(at, {}, NoReadings)]
           \/ job' = [job EXCEPT ![o].at = at],
           job[o].at = "reading" => job' = [job EXCEPT ![o] = Run(at, {}, NoReadings)]
    PROVE  /\ JobsHold' /\ BeingRead' \subseteq BeingRead
           /\ job'[o].at = at /\ \A p \in Sales \ {o} : job'[p] = job[p]
<1>1. JobHolds(o) /\ job \in [Sales -> Runs]
    BY DEF JobsHold
<1>2. PICK run \in Runs : /\ job' = [job EXCEPT ![o] = run] /\ run.at = at
                          /\ run.left \subseteq PicturesOf(o) /\ DOMAIN run.holds \subseteq PicturesOf(o)
                          /\ Fileable(run.holds)
    <2>1. CASE job' = [job EXCEPT ![o] = Run(at, {}, NoReadings)]
        <3>1. PICK run : run = Run(at, {}, NoReadings)
            OBVIOUS
        <3>2. run \in Runs
            BY <3>1, RunsTyped
        <3>3. run.at = at /\ run.left = {} /\ DOMAIN run.holds = {}
            BY <3>1 DEF Run, NoReadings
        <3> QED BY <2>1, <3>1, <3>2, <3>3 DEF Fileable
    <2>2. CASE job[o].at # "reading" /\ job' = [job EXCEPT ![o].at = at]
        <3>1. PICK run : run = [job[o] EXCEPT !.at = at]
            OBVIOUS
        <3>2. job' = [job EXCEPT ![o] = run]
            BY <1>1, <2>2, <3>1
        <3>3. run \in Runs /\ run.at = at /\ run.left = job[o].left /\ run.holds = job[o].holds
            BY <1>1, <3>1 DEF Runs
        <3> QED BY <1>1, <2>2, <3>2, <3>3 DEF JobHolds
    <2> QED BY <2>1, <2>2
<1>3. JobsHold'
    BY <1>1, <1>2, OneJobMoves DEF JobHolds
<1>4. job'[o] = run /\ \A p \in Sales \ {o} : job'[p] = job[p]
    BY <1>1, <1>2
<1> QED BY <1>2, <1>3, <1>4 DEF BeingRead

LEMMA EndingsKeep ==
    ASSUME ReceiptsInv, NEW o \in Sales, File(o) \/ CompleteScan(o) \/ Lose(o) \/ BePaid(o)
    PROVE  ReceiptsInv'
<1>1. JobsHold /\ JobHolds(o) /\ PicturesHold /\ CallsArePaid /\ TellingHolds
    BY DEF ReceiptsInv, JobsHold
<1>2. CASE File(o)
    <2>1. /\ job[o].at = "scan" /\ picture' = Filed(job[o].holds)
          /\ job' = [job EXCEPT ![o] = Run("filed", {}, NoReadings)]
          /\ UNCHANGED <<rescan, spent, readings, paid, missed, told, losses>>
        BY <1>2 DEF File
    <2>2. PicturesHold' /\ SamePictures
        BY <1>1, <2>1, FilingKeepsPictures DEF JobHolds, SamePictures
    <2>3. /\ JobsHold' /\ BeingRead' \subseteq BeingRead
          /\ job'[o].at = "filed" /\ \A p \in Sales \ {o} : job'[p] = job[p]
        BY <1>1, <2>1, <2>2, JobComesTo DEF Stages
    <2>4. CallsArePaid'
        BY <1>1, <2>1, <2>2, <2>3, NoCallStarts DEF CallsArePaid, SamePictures
    <2>5. TellingHolds'
        BY <1>1, <2>1, <2>3 DEF TellingHolds
    <2> QED BY <2>1, <2>2, <2>3, <2>4, <2>5 DEF ReceiptsInv
<1>3. CASE CompleteScan(o)
    <2>1. /\ job[o].at = "alerted" /\ job' = [job EXCEPT ![o].at = "done"]
          /\ UNCHANGED <<picture, rescan, spent, readings, paid, missed, told, losses>>
        BY <1>3 DEF CompleteScan
    <2>2. PicturesHold' /\ SamePictures
        BY <1>1, <2>1, NothingFiled
    <2>3. /\ JobsHold' /\ BeingRead' \subseteq BeingRead
          /\ job'[o].at = "done" /\ \A p \in Sales \ {o} : job'[p] = job[p]
        BY <1>1, <2>1, <2>2, JobComesTo DEF Stages
    <2>4. CallsArePaid'
        BY <1>1, <2>1, <2>2, <2>3, NoCallStarts DEF CallsArePaid, SamePictures
    <2>5. TellingHolds'
        BY <1>1, <2>1, <2>3 DEF TellingHolds
    <2> QED BY <2>1, <2>2, <2>3, <2>4, <2>5 DEF ReceiptsInv
<1>4. CASE Lose(o)
    <2>1. /\ job[o].at \notin {"none", "due", "done"}
          /\ job' = [job EXCEPT ![o] = Run("due", {}, NoReadings)] /\ losses' = losses + 1
          /\ UNCHANGED <<picture, rescan, spent, readings, paid, missed, told>>
        BY <1>4 DEF Lose
    <2>2. PicturesHold' /\ SamePictures
        BY <1>1, <2>1, NothingFiled
    <2>3. /\ JobsHold' /\ BeingRead' \subseteq BeingRead
          /\ job'[o].at = "due" /\ \A p \in Sales \ {o} : job'[p] = job[p]
        BY <1>1, <2>1, <2>2, JobComesTo DEF Stages
    <2>4. CallsArePaid'
        BY <1>1, <2>1, <2>2, <2>3, NoCallStarts DEF CallsArePaid, SamePictures
    <2>5. TellingHolds'
        BY <1>1, <2>1, <2>3 DEF TellingHolds
    <2> QED BY <2>1, <2>2, <2>3, <2>4, <2>5 DEF ReceiptsInv
<1>5. CASE BePaid(o)
    <2>1. /\ job[o].at = "filed" /\ paid' = paid \cup {o}
          /\ UNCHANGED <<picture, job, rescan, spent, readings, missed, told, losses>>
        BY <1>5 DEF BePaid
    <2>2. PicturesHold' /\ SamePictures /\ JobsHold'
        BY <1>1, <2>1, NothingFiled, JobsAreKept
    <2>3. CallsArePaid'
        BY <1>1, <2>1, <2>2, RescansStay DEF CallsArePaid, CallsDue, BeingRead, SamePictures
    <2>4. TellingHolds'
        BY <1>1, <2>1 DEF TellingHolds
    <2> QED BY <2>1, <2>2, <2>3, <2>4 DEF ReceiptsInv
<1> QED BY <1>2, <1>3, <1>4, <1>5

(* A match has no earlier picture of the same transfer whose reading stands.  *)
LEMMA MatchHasNoOriginal ==
    ASSUME PicturesHold, NEW a \in Attached, NEW near \in BOOLEAN, Assess(a, near) = "match"
    PROVE  Originals(a) = {}
<1>1. SUFFICES ASSUME NEW b \in Originals(a) PROVE FALSE
    OBVIOUS
<1>2. /\ b \in Attached /\ b < a /\ picture[b].shows.reference = picture[a].shows.reference
      /\ picture[a].shows # Junk /\ picture[b].stands
    BY <1>1 DEF Originals
<1>3. PictureHolds(a) /\ PictureHolds(b)
    BY <1>2 DEF PicturesHold
<1>4. a \in Nat /\ b \in Nat
    BY <1>2, ReceiptsAssumption DEF PicturesHold, PicturesNumbered
<1>5. picture[b].file.reference = picture[a].shows.reference
    BY <1>2, <1>3 DEF PictureHolds
<1>6. picture[a].file.status = "read" \/ Assess(a, near) = NoVerdict[picture[a].file.status]
    BY DEF Assess
<1>7. picture[a].file.status = "read"
    <2>1. picture[a].file.status \in {"unscanned", "failed", "read", "not_receipt"}
        BY <1>3 DEF PictureHolds, PictureRows, Readings
    <2> QED BY <2>1, <1>6 DEF NoVerdict
<1>8. picture[a].file.reference = picture[a].shows.reference
    <2>1. picture[a].file.reference # "none"
        BY <1>7 DEF Assess
    <2> QED BY <1>3, <2>1 DEF PictureHolds
<1>9. picture[a].shows.reference # "none"
    <2>1. picture[a].shows \in [reference : References, amount : {"exact", "other"}]
        BY <1>2, <1>3 DEF PictureHolds, PictureRows, Shows
    <2> QED BY <2>1, ReceiptsAssumption
<1>10. b \in DuplicateOf(a)
    BY <1>2, <1>4, <1>5, <1>8, <1>9 DEF DuplicateOf, SameReference
<1>11. DuplicateOf(a) = {}
    BY <1>7 DEF Assess
<1> QED BY <1>10, <1>11

LEMMA AlertKeeps ==
    ASSUME ReceiptsInv, NEW o \in Sales, Alert(o)
    PROVE  ReceiptsInv'
<1>1. JobsHold /\ JobHolds(o) /\ PicturesHold /\ CallsArePaid /\ TellingHolds /\ missed = {}
    BY DEF ReceiptsInv, JobsHold
<1>2. /\ job[o].at = "filed" /\ job' = [job EXCEPT ![o].at = "alerted"]
      /\ UNCHANGED <<picture, rescan, spent, readings, paid, losses>>
    BY DEF Alert
<1>3. PicturesHold' /\ SamePictures
    BY <1>1, <1>2, NothingFiled
<1>4. /\ JobsHold' /\ BeingRead' \subseteq BeingRead
      /\ job'[o].at = "alerted" /\ \A p \in Sales \ {o} : job'[p] = job[p]
    BY <1>1, <1>2, <1>3, JobComesTo DEF Stages
<1>5. CallsArePaid'
    BY <1>1, <1>2, <1>3, <1>4, NoCallStarts DEF CallsArePaid, SamePictures
<1>6. First(PicturesOf(o)) \in Attached
    <2>1. PicturesOf(o) # {} /\ PicturesOf(o) \in SUBSET Nat
        BY <1>1, <1>2, ReceiptsAssumption DEF JobHolds, PicturesOf, PicturesHold, PicturesNumbered
    <2> QED BY <2>1, FirstIsOne DEF PicturesOf
<1>7. missed' = {}
    BY <1>1, <1>6, MatchHasNoOriginal DEF Alert
<1>8. TellingHolds'
    <2>1. CASE o \in paid
        BY <1>1, <1>2, <1>4, <2>1 DEF Alert, TellingHolds
    <2>2. CASE o \notin paid
        <3>1. told' = [told EXCEPT ![o] = @ + 1]
            BY <2>2 DEF Alert
        <3> QED BY <1>1, <1>2, <1>4, <3>1 DEF TellingHolds
    <2> QED BY <2>1, <2>2
<1> QED BY <1>3, <1>4, <1>5, <1>7, <1>8 DEF ReceiptsInv

(* Reading a picture again.  Its stale reading goes on to stand.              *)
LEMMA RescanKeeps ==
    ASSUME ReceiptsInv, RescanNext
    PROVE  ReceiptsInv'
<1>1. JobsHold /\ PicturesHold /\ CallsArePaid /\ TellingHolds /\ missed = {}
    BY DEF ReceiptsInv
<1>2. UNCHANGED <<job, paid, missed, told, losses>>
    BY DEF RescanNext, StartRescan, FinishRescan, LoseRescan
<1>3. BeingRead' = BeingRead /\ TellingHolds'
    BY <1>1, <1>2 DEF BeingRead, TellingHolds
<1>4. ASSUME NEW c \in Rescans, NEW a \in Attached, StartRescan(c, a) PROVE ReceiptsInv'
    <2>1. /\ rescan[c] = NoReadings /\ spent' = Counted /\ readings' = readings
          /\ rescan' = IF WithinAllowance THEN [rescan EXCEPT ![c] = Found(a)] ELSE rescan
          /\ picture' = [picture EXCEPT ![a].file = IF WithinAllowance THEN Unscan(@) ELSE Failed,
                                        ![a].stands = @ /\ WithinAllowance]
        BY <1>4 DEF StartRescan
    <2>2. /\ Attached' = Attached /\ \A b \in Attached \ {a} : picture'[b] = picture[b]
          /\ picture'[a] = [picture[a] EXCEPT !.file = IF WithinAllowance THEN Unscan(@) ELSE Failed,
                                              !.stands = @ /\ WithinAllowance]
        BY <2>1 DEF Attached
    <2>3. /\ picture'[a].order = picture[a].order /\ picture'[a].shows = picture[a].shows
          /\ PictureHolds(a)'
        <3>1. PictureHolds(a)
            BY <1>1 DEF PicturesHold
        <3>2. CASE WithinAllowance
            <4>1. picture'[a] = [picture[a] EXCEPT !.file = Unscan(picture[a].file),
                                                   !.stands = picture[a].stands /\ WithinAllowance]
                BY <2>2, <3>2
            <4>2. /\ Unscan(picture[a].file) \in Readings
                  /\ Unscan(picture[a].file).reference = picture[a].file.reference
                  /\ Unscan(picture[a].file).status = "unscanned"
                BY <3>1 DEF Unscan, PictureHolds, PictureRows, Readings
            <4> QED BY <3>1, <3>2, <4>1, <4>2 DEF PictureHolds, PictureRows
        <3>3. CASE ~WithinAllowance
            <4>1. picture'[a] = [picture[a] EXCEPT !.file = Failed,
                                                   !.stands = picture[a].stands /\ WithinAllowance]
                BY <2>2, <3>3
            <4>2. Failed \in Readings /\ Failed.reference = "none" /\ Failed.status = "failed"
                BY DEF Failed, Readings
            <4> QED BY <3>1, <3>3, <4>1, <4>2 DEF PictureHolds, PictureRows
        <3> QED BY <3>2, <3>3
    <2>4. PicturesHold' /\ SamePictures
        <3>1. \A b \in Attached \ {a} : PictureHolds(b)'
            BY <1>1, <2>2 DEF PicturesHold, PictureHolds
        <3>2. PicturesNumbered'
            BY <1>1, <2>2 DEF PicturesHold, PicturesNumbered
        <3> QED BY <2>2, <2>3, <3>1, <3>2 DEF PicturesHold, SamePictures
    <2>5. JobsHold'
        BY <1>1, <1>2, <2>4, JobsAreKept
    <2>6. CallsArePaid'
        <3>1. CASE WithinAllowance
            <4>1. spent' = spent + 1
                BY <1>1, <2>1, <3>1, ReceiptsAssumption DEF Counted, WithinAllowance, CallsArePaid
            <4>2. Found(a) \in [{a} -> HeldRows]
                BY <1>1, FoundIsHeld DEF PicturesHold
            <4>3. c \in Rescans \ BeingReread /\ rescan' = [rescan EXCEPT ![c] = Found(a)]
                BY <2>1, <3>1 DEF BeingReread
            <4> QED BY <1>1, <1>3, <2>1, <2>2, <3>1, <4>1, <4>2, <4>3, CallStarts
        <3>2. CASE ~WithinAllowance
            <4>1. spent' \in Nat /\ spent' >= spent
                BY <1>1, <2>1, ReceiptsAssumption DEF Counted, CallsArePaid
            <4> QED BY <1>1, <1>3, <2>1, <2>2, <3>2, <4>1, NoCallStarts
        <3> QED BY <3>1, <3>2
    <2> QED BY <1>1, <1>2, <1>3, <2>4, <2>5, <2>6 DEF ReceiptsInv
<1>5. ASSUME NEW c \in Rescans, FinishRescan(c) PROVE ReceiptsInv'
    <2>1. PICK a \in DOMAIN rescan[c] : \E called \in {0, 1}, r \in {Failed, Reading(a)} :
            readings' = readings + called /\ picture' = Filed([rescan[c] EXCEPT ![a].read = r])
        BY <1>5 DEF FinishRescan
    <2>2. PICK called \in {0, 1}, r \in {Failed, Reading(a)} :
            readings' = readings + called /\ picture' = Filed([rescan[c] EXCEPT ![a].read = r])
        BY <2>1
    <2>3. rescan' = [rescan EXCEPT ![c] = NoReadings] /\ spent' = spent
        BY <1>5 DEF FinishRescan
    <2>4. c \in BeingReread /\ a \in Attached /\ rescan[c] \in [{a} -> HeldRows]
        <3>1. HeldOfOne(rescan[c]) /\ rescan[c] # NoReadings
            BY <1>1, <2>1 DEF CallsArePaid, RescansHold, NoReadings
        <3> QED BY <2>1, <3>1 DEF HeldOfOne, BeingReread
    <2>5. PICK holds : holds = [rescan[c] EXCEPT ![a].read = r]
        OBVIOUS
    <2>6. Fileable(holds) /\ picture' = Filed(holds)
        <3>1. r \in Readings
            BY <1>1, <2>4, ReadingsTyped DEF PicturesHold
        <3>2. holds \in [{a} -> HeldRows] /\ holds[a].read = r
            BY <2>4, <2>5, <3>1, HeldIsRead
        <3> QED BY <2>2, <2>5, <3>2 DEF Fileable
    <2>7. PicturesHold' /\ SamePictures
        BY <1>1, <2>6, FilingKeepsPictures DEF SamePictures
    <2>8. CallsArePaid'
        BY <1>1, <1>3, <2>2, <2>3, <2>4, <2>7, CallEnds DEF SamePictures
    <2>9. JobsHold'
        BY <1>1, <1>2, <2>7, JobsAreKept
    <2> QED BY <1>1, <1>2, <1>3, <2>7, <2>8, <2>9 DEF ReceiptsInv
<1>6. ASSUME NEW c \in Rescans, LoseRescan(c) PROVE ReceiptsInv'
    <2>1. rescan' = [rescan EXCEPT ![c] = NoReadings] /\ UNCHANGED <<picture, spent, readings>>
        BY <1>6 DEF LoseRescan
    <2>2. PicturesHold' /\ SamePictures
        BY <1>1, <2>1, NothingFiled
    <2>3. JobsHold'
        BY <1>1, <1>2, <2>2, JobsAreKept
    <2>4. CallsArePaid'
        <3>1. spent' \in Nat /\ spent' >= spent /\ Attached \subseteq Attached'
            BY <1>1, <2>1, <2>2 DEF CallsArePaid, SamePictures
        <3> QED BY <1>1, <1>3, <2>1, <3>1, NoCallStarts
    <2> QED BY <1>1, <1>2, <1>3, <2>2, <2>3, <2>4 DEF ReceiptsInv
<1> QED BY <1>4, <1>5, <1>6 DEF RescanNext

-----------------------------------------------------------------------------
LEMMA ReceiptsInvariant == ReceiptsSpec => []ReceiptsInv
<1>1. ASSUME ReceiptsInv, [ReceiptsNext]_receiptsVars PROVE ReceiptsInv'
    <2>1. ASSUME NEW o \in Sales, NEW sent \in Arrivals, Arrive(o, sent) PROVE ReceiptsInv'
        BY <1>1, <2>1, ArriveKeeps
    <2>2. ASSUME NEW o \in Sales, TakeScan(o) \/ Skip(o) PROVE ReceiptsInv'
        BY <1>1, <2>2, LookingKeeps
    <2>3. ASSUME NEW o \in Sales, SpendScan(o) PROVE ReceiptsInv'
        BY <1>1, <2>3, SpendScanKeeps
    <2>4. ASSUME NEW o \in Sales, Read(o) PROVE ReceiptsInv'
        BY <1>1, <2>4, ReadKeeps
    <2>5. ASSUME NEW o \in Sales, File(o) \/ CompleteScan(o) \/ Lose(o) \/ BePaid(o) PROVE ReceiptsInv'
        BY <1>1, <2>5, EndingsKeep
    <2>6. ASSUME NEW o \in Sales, Alert(o) PROVE ReceiptsInv'
        BY <1>1, <2>6, AlertKeeps
    <2>7. CASE RescanNext
        BY <1>1, <2>7, RescanKeeps
    <2>8. CASE UNCHANGED receiptsVars
        <3>1. /\ UNCHANGED <<picture, job, rescan, spent, readings, paid, missed, told, losses>>
              /\ JobsHold /\ PicturesHold /\ CallsArePaid /\ TellingHolds
            BY <1>1, <2>8 DEF receiptsVars, ReceiptsInv
        <3>2. PicturesHold' /\ SamePictures
            BY <3>1, NothingFiled
        <3>3. JobsHold'
            BY <3>1, <3>2, JobsAreKept
        <3>4. CallsArePaid' /\ TellingHolds'
            BY <3>1, <3>2, RescansStay DEF CallsArePaid, CallsDue, BeingRead, SamePictures, TellingHolds
        <3> QED BY <1>1, <3>1, <3>2, <3>3, <3>4 DEF ReceiptsInv
    <2> QED BY <1>1, <2>1, <2>2, <2>3, <2>4, <2>5, <2>6, <2>7, <2>8 DEF ReceiptsNext, ScanNext, LossNext
<1> QED BY <1>1, ReceiptsInitHolds, PTL DEF ReceiptsSpec

(* Pictures are numbered as they come, and jobs and requests look only at     *)
(* pictures there are, of their own order.                                    *)
THEOREM ReceiptsTyped == ReceiptsSpec => []ReceiptsTypeOK
<1>1. ASSUME ReceiptsInv PROVE ReceiptsTypeOK
    <2>1. \A a \in Attached : picture[a].order \in Sales /\ picture[a].shows \in Shows
        BY <1>1 DEF ReceiptsInv, PicturesHold, PictureHolds, PictureRows
    <2>2. DOMAIN rescan = Rescans /\ \A c \in Rescans : DOMAIN rescan[c] \subseteq Attached
        BY <1>1 DEF ReceiptsInv, CallsArePaid, RescansHold, HeldOfOne, NoReadings
    <2> QED BY <1>1, <2>1, <2>2 DEF ReceiptsInv, PicturesHold, PicturesNumbered, JobsHold, JobHolds,
               ReceiptsTypeOK
<1> QED BY <1>1, ReceiptsInvariant, PTL

(* However many receipts come, are read again and are lost half read: the     *)
(* first picture of a transfer is never judged a copy, a copy never matches   *)
(* while the original's reading stands, the model is asked no more often than *)
(* allowed, and the seller is told once of each message but for losses.       *)
THEOREM ReceiptsAreAlwaysJudged == ReceiptsSpec => []ReceiptsAreJudged
<1>1. ASSUME ReceiptsInv PROVE ReceiptsAreJudged
    <2>1. PicturesHold /\ CallsArePaid /\ TellingHolds /\ missed = {}
        BY <1>1 DEF ReceiptsInv
    <2>2. FirstStaysClean
        <3> SUFFICES ASSUME NEW a \in Attached, NEW near \in BOOLEAN,
                            \A b \in 1..(a - 1) : picture[b].shows.reference # picture[a].shows.reference
            PROVE  Assess(a, near) # "duplicate"
            BY DEF FirstStaysClean
        <3>1. DuplicateOf(a) = {}
            <4> SUFFICES ASSUME NEW b \in DuplicateOf(a) PROVE FALSE
                OBVIOUS
            <4>1. /\ b \in Attached /\ b # a /\ b <= a
                  /\ picture[a].file.reference # "none"
                  /\ picture[b].file.reference = picture[a].file.reference
                BY DEF DuplicateOf, SameReference
            <4>2. PictureHolds(a) /\ PictureHolds(b)
                BY <2>1, <4>1 DEF PicturesHold
            <4>3. picture[b].shows.reference = picture[a].shows.reference
                BY <4>1, <4>2 DEF PictureHolds
            <4>4. b \in 1..(a - 1)
                <5>1. a \in 1..MaxPictures /\ b \in 1..MaxPictures
                    BY <2>1, <4>1 DEF PicturesHold, PicturesNumbered
                <5> QED BY <4>1, <5>1
            <4> QED BY <4>3, <4>4
        <3>2. picture[a].file.status \in {"unscanned", "failed", "read", "not_receipt"}
            BY <2>1 DEF PicturesHold, PictureHolds, PictureRows, Readings
        <3>3. picture[a].file.status # "read" => NoVerdict[picture[a].file.status] # "duplicate"
            BY <3>2 DEF NoVerdict
        <3> QED BY <3>1, <3>3 DEF Assess
    <2>3. ReadingsArePaidFor
        <3>1. Cardinality(BeingRead) \in Nat /\ Cardinality(BeingReread) \in Nat
            BY <2>1, FS_CardinalityType DEF CallsArePaid
        <3> QED BY <2>1, <3>1, ReceiptsAssumption DEF CallsArePaid, CallsDue, ReadingsArePaidFor
    <2>4. CopyIsNoMatch /\ ToldOncePerMessage
        BY <2>1 DEF CopyIsNoMatch, ToldOncePerMessage, TellingHolds
    <2> QED BY <2>2, <2>3, <2>4 DEF ReceiptsAreJudged
<1> QED BY <1>1, ReceiptsInvariant, PTL

-----------------------------------------------------------------------------
(* SellerAlerts.  The links and the deliveries share no variable that either  *)
(* writes for the other, so each has an invariant of its own.  A code that is *)
(* used is not live any more, and one that two chats did not open together    *)
(* has one chat that is opening it or has used it.  Of each alert a channel   *)
(* carried, one is accounted for by what the job remembers, the others by     *)
(* what was lost.                                                             *)

LinkRecords == [live : BOOLEAN, usedBy : SUBSET Chats, met : BOOLEAN]

\* The chats that have used a code or are about to.
Opening(c) == {k \in Chats : opening[k] = c}
Takers(c)  == links[c].usedBy \cup Opening(c)

LinksNumbered == IsFiniteSet(Links) /\ Links = 1..Cardinality(Links)

LinkInv ==
    /\ bots \subseteq Bots
    /\ LinksNumbered
    /\ \A c \in Links : links[c] \in LinkRecords
    /\ opening \in [Chats -> Links \cup {0}]
    /\ chat \in Chats \cup {NoChat}
    /\ \A c \in Links :
          /\ links[c].usedBy # {} => ~links[c].live
          /\ ~links[c].met => \A j, k \in Takers(c) : j = k

AlertJobs ==
    [at : {"none", "due", "sending", "sent", "done", "failed"}, tries : 0..MaxAttempts]

LowJobs ==
    [at : {"none", "due", "emailed", "told", "done", "failed"},
     told : SUBSET Channels, failed : BOOLEAN, tries : 0..MaxAttempts]

\* What of a channel's messages is not accounted for by losses.
Remembered(h) ==
    IF h = "alert" THEN alertJob.at \in {"sent", "done"} ELSE h \in lowJob.told \cup stamped

JobInv ==
    /\ alertJob \in AlertJobs /\ lowJob \in LowJobs
    /\ stamped \subseteq Channels
    /\ heard \in [{"alert"} \cup Channels -> Nat] /\ lost \in Nat
    /\ alertJob.at # "failed" => alertJob.tries < MaxAttempts
    /\ lowJob.at # "failed" => lowJob.tries < MaxAttempts
    /\ lowJob.at \in {"none", "due"} => lowJob.told = {}
    /\ lowJob.at = "emailed" => lowJob.told \subseteq {"email"}
    /\ lowJob.at \in {"emailed", "told"} => lowJob.failed \/ "email" \in lowJob.told \cup stamped
    /\ lowJob.at = "done" => "email" \in stamped
    /\ "email" \in lowJob.told \cup stamped => heard["email"] >= 1
    /\ \A h \in {"alert"} \cup Channels : heard[h] <= lost + (IF Remembered(h) THEN 1 ELSE 0)

-----------------------------------------------------------------------------
LEMMA UpToIsFinite == ASSUME NEW n \in Nat PROVE IsFiniteSet(1..n) /\ Cardinality(1..n) = n
BY FS_Interval

LEMMA AlertsInitHolds == AlertsInit => LinkInv /\ JobInv
<1> SUFFICES ASSUME AlertsInit PROVE LinkInv /\ JobInv
    OBVIOUS
<1> USE DEF AlertsInit
<1>1. LinkInv
    <2>1. PICK n \in 0..1 : links = [c \in 1..n |-> [live |-> TRUE, usedBy |-> {}, met |-> FALSE]]
        OBVIOUS
    <2>2. Links = 1..n /\ IsFiniteSet(1..n) /\ Cardinality(1..n) = n
        BY <2>1, UpToIsFinite DEF Links
    <2>3. 0 \notin 1..n
        OBVIOUS
    <2>4. \A c \in Links : Takers(c) = {}
        BY <2>1, <2>2, <2>3 DEF Takers, Opening
    <2>5. \A c \in Links : links[c] \in LinkRecords /\ links[c].usedBy = {}
        BY <2>1, <2>2 DEF LinkRecords
    <2>6. LinksNumbered
        BY <2>2 DEF LinksNumbered
    <2>7. opening \in [Chats -> Links \cup {0}]
        OBVIOUS
    <2> QED BY <2>4, <2>5, <2>6, <2>7 DEF LinkInv
<1>2. JobInv
    BY AttemptsAssumption DEF JobInv, AlertJobs, LowJobs, NoJob, NoLow, Channels, Remembered
<1> QED BY <1>1, <1>2

LEMMA LinksStay == LinkInv /\ UNCHANGED LinkVars => LinkInv'
BY DEF LinkVars, LinkInv, LinksNumbered, Links, LinkRecords, Takers, Opening

LEMMA JobsStay == JobInv /\ UNCHANGED JobVars => JobInv'
BY DEF JobVars, JobInv, Remembered

(* A link's row changes, and nothing about who takes which code.              *)
LEMMA LinksRetired ==
    ASSUME LinkInv, DOMAIN links' = Links, UNCHANGED <<bots, opening, chat>>,
           \A c \in Links : /\ links'[c] \in LinkRecords
                            /\ links'[c].usedBy = links[c].usedBy /\ links'[c].met = links[c].met
                            /\ links'[c].live => links[c].live
    PROVE  LinkInv'
<1>1. Links' = Links
    BY DEF Links
<1>2. \A c \in Links : Takers(c)' = Takers(c)
    BY DEF Takers, Opening
<1> QED BY <1>1, <1>2 DEF LinkInv, LinksNumbered

LEMMA LinkStep ==
    ASSUME LinkInv, BotsNext \/ IssueNext \/ ClaimNext \/ Switch
    PROVE  LinkInv' /\ UNCHANGED JobVars
<1>1. ASSUME NEW b \in Bots, SetBot(b) PROVE LinkInv' /\ UNCHANGED JobVars
    BY <1>1 DEF SetBot, LinkInv, LinksNumbered, Links, LinkRecords, Takers, Opening
<1>2. ASSUME NEW w \in Windows, OpenWindow(w) PROVE LinkInv' /\ UNCHANGED JobVars
    BY <1>2 DEF OpenWindow, LinkInv, LinksNumbered, Links, LinkRecords, Takers, Opening
<1>3. ASSUME NEW w \in Windows, Issue(w) PROVE LinkInv' /\ UNCHANGED JobVars
    <2>1. PICK n : n = Cardinality(Links) + 1
        OBVIOUS
    <2>2. n \in Nat \ {0} /\ Links = 1..(n - 1)
        BY <2>1, FS_CardinalityType DEF LinkInv, LinksNumbered
    <2>3. /\ links' = [c \in 1..n |->
                IF c = n THEN [live |-> TRUE, usedBy |-> {}, met |-> FALSE]
                ELSE [links[c] EXCEPT !.live = @ /\ c \notin window[w].retires]]
          /\ UNCHANGED <<bots, opening, chat>> /\ UNCHANGED JobVars
        BY <1>3, <2>1 DEF Issue
    <2>4. Links' = 1..n /\ IsFiniteSet(1..n) /\ Cardinality(1..n) = n
        BY <2>2, <2>3, FS_Interval DEF Links
    <2>5. \A c \in Links : /\ links'[c] \in LinkRecords
                           /\ links'[c].usedBy = links[c].usedBy /\ links'[c].met = links[c].met
                           /\ links'[c].live => links[c].live
        <3> SUFFICES ASSUME NEW c \in Links
            PROVE  /\ links'[c] \in LinkRecords
                   /\ links'[c].usedBy = links[c].usedBy /\ links'[c].met = links[c].met
                   /\ links'[c].live => links[c].live
            OBVIOUS
        <3>1. links'[c] = [links[c] EXCEPT !.live = @ /\ c \notin window[w].retires]
            BY <2>2, <2>3
        <3>2. links[c] \in LinkRecords
            BY DEF LinkInv
        <3> QED BY <3>1, <3>2 DEF LinkRecords
    <2>6. \A c \in Links : Takers(c)' = Takers(c)
        BY <2>3, <2>5 DEF Takers, Opening
    <2>7. links'[n] \in LinkRecords /\ Takers(n)' = {} /\ links'[n].usedBy = {}
        <3>1. links'[n] = [live |-> TRUE, usedBy |-> {}, met |-> FALSE]
            BY <2>2, <2>3
        <3>2. Opening(n)' = {}
            BY <2>2, <2>3 DEF Opening, LinkInv
        <3> QED BY <3>1, <3>2 DEF Takers, LinkRecords
    <2>8. \A c \in 1..n : c = n \/ c \in Links
        BY <2>2
    <2>9. opening' \in [Chats -> 1..n \cup {0}]
        BY <2>2, <2>3 DEF LinkInv
    <2>10. \A c \in 1..n : /\ links'[c] \in LinkRecords
                           /\ links'[c].usedBy # {} => ~links'[c].live
                           /\ ~links'[c].met => \A j, k \in Takers(c)' : j = k
        BY <2>5, <2>6, <2>7, <2>8 DEF LinkInv
    <2>11. LinksNumbered'
        BY <2>4 DEF LinksNumbered
    <2>12. opening' \in [Chats -> Links' \cup {0}]
        BY <2>4, <2>9
    <2>13. bots' \subseteq Bots /\ chat' \in Chats \cup {NoChat}
        BY <2>3 DEF LinkInv
    <2>14. \A c \in Links' : /\ links'[c] \in LinkRecords
                             /\ links'[c].usedBy # {} => ~links'[c].live
                             /\ ~links'[c].met => \A j, k \in Takers(c)' : j = k
        BY <2>4, <2>10
    <2>15. LinkInv'
        BY <2>11, <2>12, <2>13, <2>14 DEF LinkInv
    <2> QED BY <2>3, <2>15
<1>4. ASSUME NEW c \in Links, Expire(c) PROVE LinkInv' /\ UNCHANGED JobVars
    <2>1. /\ links' = [links EXCEPT ![c].live = FALSE]
          /\ UNCHANGED <<bots, opening, chat>> /\ UNCHANGED JobVars
        BY <1>4 DEF Expire
    <2>2. /\ DOMAIN links' = Links
          /\ \A d \in Links : links[d] \in LinkRecords /\ (d # c => links'[d] = links[d])
          /\ links'[c] = [links[c] EXCEPT !.live = FALSE]
        BY <2>1 DEF LinkInv, Links
    <2>3. \A d \in Links : /\ links'[d] \in LinkRecords
                           /\ links'[d].usedBy = links[d].usedBy /\ links'[d].met = links[d].met
                           /\ links'[d].live => links[d].live
        <3>1. PICK old : old = links[c]
            OBVIOUS
        <3>2. old \in LinkRecords /\ links'[c] = [old EXCEPT !.live = FALSE]
            BY <1>4, <2>2, <3>1 DEF LinkInv
        <3>3. /\ links'[c] \in LinkRecords /\ ~links'[c].live
              /\ links'[c].usedBy = old.usedBy /\ links'[c].met = old.met
            BY <3>2 DEF LinkRecords
        <3> QED BY <2>2, <3>1, <3>3
    <2> QED BY <2>1, <2>2, <2>3, LinksRetired
<1>5. ASSUME NEW k \in Chats, NEW c \in Links, StartClaim(k, c) PROVE LinkInv' /\ UNCHANGED JobVars
    <2>1. /\ opening[k] = 0 /\ c \in OnScreen
          /\ opening' = [opening EXCEPT ![k] = c]
          /\ links' = [links EXCEPT ![c].met = @ \/ \E o \in Chats : opening[o] = c]
          /\ UNCHANGED <<bots, chat>> /\ UNCHANGED JobVars
        BY <1>5 DEF StartClaim
    <2>2. links[c].live
        BY <2>1 DEF OnScreen, LiveLinks
    <2>3. /\ opening'[k] = c
          /\ \A o \in Chats \ {k} : opening'[o] = opening[o]
          /\ opening' \in [Chats -> Links \cup {0}]
        BY <2>1 DEF LinkInv
    <2>4. /\ Links' = Links
          /\ \A d \in Links \ {c} : links'[d] = links[d]
          /\ links'[c] \in LinkRecords
          /\ links'[c].usedBy = links[c].usedBy /\ links'[c].live = links[c].live
          /\ ~links'[c].met => \A o \in Chats : opening[o] # c
        BY <2>1 DEF Links, LinkInv, LinkRecords
    <2>5. \A d \in Links : d # c => Takers(d)' \subseteq Takers(d)
        BY <2>3, <2>4 DEF Takers, Opening
    <2>6. ~links'[c].met => Takers(c)' \subseteq {k}
        <3>1. links[c].usedBy = {}
            BY <2>2 DEF LinkInv
        <3> QED BY <2>3, <2>4, <3>1 DEF Takers, Opening
    <2>7. \A d \in Links : ~links'[d].met => \A i, j \in Takers(d)' : i = j
        BY <2>4, <2>5, <2>6 DEF LinkInv
    <2>8. \A d \in Links : links'[d] \in LinkRecords /\ (links'[d].usedBy # {} => ~links'[d].live)
        BY <2>4 DEF LinkInv
    <2> QED BY <2>1, <2>3, <2>4, <2>7, <2>8 DEF LinkInv, LinksNumbered
<1>6. ASSUME NEW k \in Chats, FinishClaim(k) PROVE LinkInv' /\ UNCHANGED JobVars
    <2>1. PICK c : c = opening[k]
        OBVIOUS
    <2>2. /\ c \in Links
          /\ links' = [links EXCEPT ![c].live = FALSE, ![c].usedBy = @ \cup {k}]
          /\ chat' = k
          /\ opening' = [opening EXCEPT ![k] = 0]
          /\ UNCHANGED bots /\ UNCHANGED JobVars
        BY <1>6, <2>1 DEF FinishClaim, LinkInv
    <2>3. /\ opening'[k] = 0
          /\ \A o \in Chats \ {k} : opening'[o] = opening[o]
          /\ opening' \in [Chats -> Links \cup {0}]
        BY <2>2 DEF LinkInv
    <2>4. /\ Links' = Links
          /\ \A d \in Links \ {c} : links'[d] = links[d]
          /\ links'[c] \in LinkRecords
          /\ links'[c].usedBy = links[c].usedBy \cup {k} /\ ~links'[c].live
          /\ links'[c].met = links[c].met
        <3>1. /\ Links' = Links /\ \A d \in Links \ {c} : links'[d] = links[d]
              /\ links'[c] = [links[c] EXCEPT !.live = FALSE, !.usedBy = @ \cup {k}]
              /\ links[c] \in LinkRecords
            BY <2>2 DEF Links, LinkInv
        <3>2. PICK old : old = links[c]
            OBVIOUS
        <3>3. old \in LinkRecords /\ links'[c] = [old EXCEPT !.live = FALSE, !.usedBy = @ \cup {k}]
            BY <3>1, <3>2
        <3>4. /\ links'[c] \in LinkRecords /\ ~links'[c].live
              /\ links'[c].usedBy = old.usedBy \cup {k} /\ links'[c].met = old.met
            BY <3>3 DEF LinkRecords
        <3> QED BY <3>1, <3>2, <3>4
    <2>5. \A d \in Links : Takers(d)' \subseteq Takers(d)
        <3>1. \A d \in Links : Opening(d)' \subseteq Opening(d)
            <4> SUFFICES ASSUME NEW d \in Links, NEW o \in Chats, opening'[o] = d
                PROVE  opening[o] = d
                BY DEF Opening
            <4>1. d # 0
                BY FS_CardinalityType DEF LinkInv, LinksNumbered
            <4> QED BY <2>3, <4>1
        <3>2. k \in Opening(c)
            BY <2>1 DEF Opening
        <3> QED BY <2>4, <3>1, <3>2 DEF Takers
    <2>6. \A d \in Links : /\ links'[d] \in LinkRecords /\ (links'[d].usedBy # {} => ~links'[d].live)
                           /\ ~links'[d].met => \A i, j \in Takers(d)' : i = j
        BY <2>4, <2>5 DEF LinkInv
    <2> QED BY <2>2, <2>3, <2>4, <2>6 DEF LinkInv, LinksNumbered
<1>7. CASE Unlink \/ Switch
    BY <1>7 DEF Unlink, Switch, LinkInv, LinksNumbered, Links, LinkRecords, Takers, Opening
<1> QED BY <1>1, <1>2, <1>3, <1>4, <1>5, <1>6, <1>7 DEF BotsNext, IssueNext, ClaimNext

-----------------------------------------------------------------------------
\* A job handed back, or out of attempts.
LEMMA TriedAgainStaysTyped ==
    ASSUME JobInv
    PROVE  /\ alertJob.at # "failed" =>
                /\ TriedAgain(alertJob) \in AlertJobs /\ TriedAgain(alertJob).at \in {"due", "failed"}
                /\ TriedAgain(alertJob).at # "failed" => TriedAgain(alertJob).tries < MaxAttempts
           /\ lowJob.at # "failed" =>
                LET again == TriedAgain([NoLow EXCEPT !.tries = lowJob.tries])
                IN  /\ again \in LowJobs /\ again.at \in {"due", "failed"} /\ again.told = {}
                    /\ again.at # "failed" => again.tries < MaxAttempts
<1>1. ASSUME alertJob.at # "failed"
      PROVE  /\ TriedAgain(alertJob) \in AlertJobs /\ TriedAgain(alertJob).at \in {"due", "failed"}
             /\ TriedAgain(alertJob).at # "failed" => TriedAgain(alertJob).tries < MaxAttempts
    <2>1. alertJob.tries \in Nat /\ alertJob.tries < MaxAttempts /\ alertJob \in AlertJobs
        BY <1>1, AttemptsAssumption DEF JobInv, AlertJobs
    <2>2. PICK n : n = alertJob.tries + 1
        OBVIOUS
    <2>3. n \in 0..MaxAttempts /\ (n # MaxAttempts => n < MaxAttempts)
        BY <2>1, <2>2, AttemptsAssumption
    <2>4. TriedAgain(alertJob) =
              [alertJob EXCEPT !.tries = n, !.at = IF n = MaxAttempts THEN "failed" ELSE "due"]
        BY <2>2 DEF TriedAgain
    <2> QED BY <2>1, <2>3, <2>4 DEF AlertJobs
<1>2. ASSUME lowJob.at # "failed", NEW again, again = TriedAgain([NoLow EXCEPT !.tries = lowJob.tries])
      PROVE  /\ again \in LowJobs /\ again.at \in {"due", "failed"} /\ again.told = {}
             /\ again.at # "failed" => again.tries < MaxAttempts
    <2>1. lowJob.tries \in Nat /\ lowJob.tries < MaxAttempts
        BY <1>2, AttemptsAssumption DEF JobInv, LowJobs
    <2>2. PICK n : n = lowJob.tries + 1
        OBVIOUS
    <2>3. n \in 0..MaxAttempts /\ (n # MaxAttempts => n < MaxAttempts)
        BY <2>1, <2>2, AttemptsAssumption
    <2>4. again = [at |-> IF n = MaxAttempts THEN "failed" ELSE "due",
                 told |-> {}, failed |-> FALSE, tries |-> n]
        BY <1>2, <2>2 DEF TriedAgain, NoLow
    <2> QED BY <2>3, <2>4 DEF LowJobs
<1> QED BY <1>1, <1>2

LEMMA AlertStep ==
    ASSUME JobInv, Raise \/ StartDeliver \/ SendAlert \/ EndDeliver
    PROVE  JobInv'
<1> USE DEF JobInv, Remembered
<1>1. CASE Raise
    <2>1. /\ alertJob.at = "none"
          /\ alertJob' = [at |-> "due", tries |-> 0]
          /\ UNCHANGED <<lowJob, stamped, heard, lost>>
        BY <1>1 DEF Raise, NoJob
    <2>2. alertJob' \in AlertJobs /\ alertJob'.at = "due" /\ alertJob'.tries < MaxAttempts
        BY <2>1, AttemptsAssumption DEF AlertJobs
    <2> QED BY <2>1, <2>2 DEF Channels
<1>2. CASE StartDeliver
    <2>1. /\ alertJob.at = "due" /\ UNCHANGED <<lowJob, stamped, heard, lost>>
          /\ \/ alertJob' = [alertJob EXCEPT !.at = "sending"]
             \/ alertJob' = [alertJob EXCEPT !.at = "done"]
        BY <1>2 DEF StartDeliver
    <2>2. /\ alertJob' \in AlertJobs /\ alertJob'.at \in {"sending", "done"}
          /\ alertJob'.tries = alertJob.tries
        BY <2>1 DEF AlertJobs
    <2> QED BY <2>1, <2>2 DEF Channels
<1>3. CASE SendAlert
    <2>1. PICK arrived, answered \in BOOLEAN :
             /\ answered => arrived
             /\ Outcome("alert", arrived, answered)
             /\ alertJob' = IF answered THEN [alertJob EXCEPT !.at = "sent"] ELSE TriedAgain(alertJob)
        BY <1>3 DEF SendAlert
    <2>2. alertJob.at = "sending" /\ UNCHANGED <<lowJob, stamped>>
        BY <1>3 DEF SendAlert
    <2>3. /\ alertJob' \in AlertJobs
          /\ alertJob'.at = (IF answered THEN "sent" ELSE alertJob'.at)
          /\ ~answered => alertJob'.at \in {"due", "failed"}
          /\ alertJob'.at # "failed" => alertJob'.tries < MaxAttempts
        BY <2>1, <2>2, TriedAgainStaysTyped DEF AlertJobs
    <2>4. /\ heard' = [heard EXCEPT !["alert"] = IF arrived THEN @ + 1 ELSE @]
          /\ lost' = IF arrived /\ ~answered THEN lost + 1 ELSE lost
        BY <2>1 DEF Outcome
    <2>5. "alert" \notin Channels
        BY DEF Channels
    <2> QED BY <2>1, <2>2, <2>3, <2>4, <2>5 DEF Channels
<1>4. CASE EndDeliver
    <2>1. alertJob.at = "sent" /\ UNCHANGED <<lowJob, stamped, heard>>
        BY <1>4 DEF EndDeliver
    <2>2. CASE alertJob' = [alertJob EXCEPT !.at = "done"] /\ UNCHANGED lost
        BY <2>1, <2>2 DEF AlertJobs, Channels
    <2>3. CASE alertJob' = TriedAgain(alertJob) /\ lost' = lost + 1
        BY <2>1, <2>3, TriedAgainStaysTyped DEF Channels
    <2> QED BY <1>4, <2>2, <2>3 DEF EndDeliver
<1> QED BY <1>1, <1>2, <1>3, <1>4

LEMMA LowStep == JobInv /\ LowNext => JobInv'
<1> SUFFICES ASSUME JobInv, LowNext PROVE JobInv'
    OBVIOUS
<1> USE DEF JobInv, Remembered
<1>1. CASE OpenLow
    <2>1. /\ lowJob.at = "none" /\ UNCHANGED <<alertJob, stamped, heard, lost>>
          /\ lowJob' = [at |-> "due", told |-> {}, failed |-> FALSE, tries |-> 0]
        BY <1>1 DEF OpenLow, NoLow
    <2>2. lowJob' \in LowJobs
        BY <2>1, AttemptsAssumption DEF LowJobs
    <2>3. lowJob.told = {}
        BY <2>1
    <2> QED BY <2>1, <2>2, <2>3, AttemptsAssumption DEF Channels
<1>2. ASSUME NEW channel \in Channels, NEW from, NEW then, TellLow(from, channel, then),
             \/ from = "due" /\ channel = "email" /\ then = "emailed"
             \/ from = "emailed" /\ channel = "telegram" /\ then = "told"
      PROVE  JobInv'
    <2>1. lowJob.at = from /\ UNCHANGED <<alertJob, stamped>>
        BY <1>2 DEF TellLow
    <2>2. CASE lowJob' = [lowJob EXCEPT !.at = then] /\ UNCHANGED <<heard, lost>>
               /\ (channel = "email" => "email" \in stamped)
        BY <1>2, <2>1, <2>2 DEF LowJobs, Channels
    <2>3. ASSUME ~AlreadyTold(channel),
                 \E arrived, answered \in BOOLEAN :
                    /\ answered => arrived
                    /\ Outcome(channel, arrived, answered)
                    /\ lowJob' = [lowJob EXCEPT !.at = then, !.failed = @ \/ ~answered,
                                      !.told = IF answered THEN @ \cup {channel} ELSE @]
          PROVE JobInv'
        <3>1. PICK arrived, answered \in BOOLEAN :
                    /\ answered => arrived
                    /\ Outcome(channel, arrived, answered)
                    /\ lowJob' = [lowJob EXCEPT !.at = then, !.failed = @ \/ ~answered,
                                      !.told = IF answered THEN @ \cup {channel} ELSE @]
            BY <2>3
        <3>2. /\ heard' = [heard EXCEPT ![channel] = IF arrived THEN @ + 1 ELSE @]
              /\ lost' = IF arrived /\ ~answered THEN lost + 1 ELSE lost
            BY <3>1 DEF Outcome
        <3>3. channel \notin lowJob.told \cup stamped
            BY <1>2, <2>1, <2>3 DEF AlreadyTold
        <3>4. /\ lowJob' \in LowJobs /\ lowJob'.at = then /\ lowJob'.tries = lowJob.tries
              /\ lowJob'.told = IF answered THEN lowJob.told \cup {channel} ELSE lowJob.told
              /\ lowJob'.failed = (lowJob.failed \/ ~answered)
            BY <1>2, <3>1 DEF LowJobs
        <3>5. \A h \in {"alert"} \cup Channels :
                 heard'[h] <= lost' + (IF Remembered(h)' THEN 1 ELSE 0)
            BY <1>2, <2>1, <3>1, <3>2, <3>3, <3>4 DEF Channels
        <3>6. /\ heard' \in [{"alert"} \cup Channels -> Nat] /\ lost' \in Nat
              /\ "email" \in lowJob'.told \cup stamped => heard'["email"] >= 1
            BY <1>2, <3>1, <3>2, <3>4 DEF Channels
        <3>7. /\ lowJob'.at = "emailed" => lowJob'.told \subseteq {"email"}
              /\ lowJob'.at \in {"emailed", "told"} => lowJob'.failed \/ "email" \in lowJob'.told \cup stamped
            BY <1>2, <2>1, <3>4
        <3> QED BY <1>2, <2>1, <3>4, <3>5, <3>6, <3>7
    <2> QED BY <1>2, <2>2, <2>3 DEF TellLow, AlreadyTold
<1>3. CASE CommitLow
    <2>1. /\ lowJob.at = "told" /\ stamped' = stamped \cup lowJob.told
          /\ lowJob' = IF lowJob.failed THEN TriedAgain([NoLow EXCEPT !.tries = lowJob.tries])
                       ELSE [lowJob EXCEPT !.at = "done"]
          /\ UNCHANGED <<alertJob, heard, lost>>
        BY <1>3 DEF CommitLow, Stamp
    <2>2. /\ lowJob' \in LowJobs /\ lowJob'.at \in {"due", "failed", "done"}
          /\ lowJob'.told \subseteq lowJob.told
          /\ lowJob'.at = "due" => lowJob'.told = {}
          /\ lowJob'.at = "done" => ~lowJob.failed
          /\ lowJob'.at # "failed" => lowJob'.tries < MaxAttempts
        <3>1. CASE lowJob.failed
            BY <2>1, <3>1, TriedAgainStaysTyped
        <3>2. CASE ~lowJob.failed
            BY <2>1, <3>2 DEF LowJobs
        <3> QED BY <3>1, <3>2
    <2>3. lowJob'.told \cup stamped' = lowJob.told \cup stamped
        BY <2>1, <2>2
    <2>4. stamped' \subseteq Channels
        BY <2>1 DEF LowJobs
    <2> QED BY <2>1, <2>2, <2>3, <2>4
<1>4. CASE LoseLow
    <2>1. /\ lowJob.at \in {"emailed", "told"} /\ lost' = lost + 1
          /\ lowJob' = TriedAgain([NoLow EXCEPT !.tries = lowJob.tries])
          /\ UNCHANGED <<alertJob, stamped, heard>>
        BY <1>4 DEF LoseLow
    <2>2. /\ lowJob' \in LowJobs /\ lowJob'.at \in {"due", "failed"} /\ lowJob'.told = {}
          /\ lowJob'.at # "failed" => lowJob'.tries < MaxAttempts
        BY <2>1, TriedAgainStaysTyped
    <2> QED BY <2>1, <2>2 DEF Channels
<1> HIDE DEF JobInv, Remembered
<1>5. ASSUME TellLow("due", "email", "emailed") \/ TellLow("emailed", "telegram", "told") PROVE JobInv'
    <2>1. "email" \in Channels /\ "telegram" \in Channels
        BY DEF Channels
    <2>2. CASE TellLow("due", "email", "emailed")
        BY <1>2, <2>1, <2>2
    <2>3. CASE TellLow("emailed", "telegram", "told")
        BY <1>2, <2>1, <2>3
    <2> QED BY <1>5, <2>2, <2>3
<1> QED BY <1>1, <1>3, <1>4, <1>5 DEF LowNext

-----------------------------------------------------------------------------
LEMMA AlertsInvariant == AlertsSpec => [](LinkInv /\ JobInv)
<1>1. LinkInv /\ JobInv /\ [AlertsNext]_alertVars => (LinkInv /\ JobInv)'
    <2> SUFFICES ASSUME LinkInv, JobInv, [AlertsNext]_alertVars PROVE LinkInv' /\ JobInv'
        OBVIOUS
    <2>1. CASE BotsNext \/ IssueNext \/ ClaimNext \/ Switch
        BY <2>1, LinkStep, JobsStay
    <2>2. CASE Raise \/ StartDeliver \/ SendAlert \/ EndDeliver
        <3>1. UNCHANGED LinkVars
            BY <2>2 DEF Raise, StartDeliver, SendAlert, EndDeliver
        <3> QED BY <2>2, <3>1, AlertStep, LinksStay
    <2>3. CASE LowNext
        <3>1. UNCHANGED LinkVars
            BY <2>3 DEF LowNext, OpenLow, TellLow, CommitLow, LoseLow
        <3> QED BY <2>3, <3>1, LowStep, LinksStay
    <2>4. CASE UNCHANGED alertVars
        BY <2>4, LinksStay, JobsStay DEF alertVars, LinkVars, JobVars
    <2> QED BY <2>1, <2>2, <2>3, <2>4 DEF AlertsNext, DeliverNext
<1> QED BY <1>1, AlertsInitHolds, PTL DEF AlertsSpec

(* The rows of links and the jobs stay well formed, however often links are   *)
(* asked for and deliveries fail.                                             *)
THEOREM AlertsTyped == AlertsSpec => []AlertsTypeOK
<1>1. LinkInv /\ JobInv => AlertsTypeOK
    BY AttemptsAssumption DEF LinkInv, LinksNumbered, JobInv, AlertsTypeOK, LinkRecords, AlertJobs, LowJobs
<1> QED BY <1>1, AlertsInvariant, PTL

(* A link joins one chat unless two open it together, and no channel repeats  *)
(* an alert but for what was lost.                                            *)
THEOREM SellersAreAlwaysReached == AlertsSpec => []SellersAreReached
<1>1. ASSUME LinkInv, JobInv PROVE SellersAreReached
    <2>1. ASSUME NEW c \in Links, ~links[c].met PROVE Cardinality(links[c].usedBy) <= 1
        <3>1. \A j, k \in links[c].usedBy : j = k
            BY <1>1, <2>1 DEF LinkInv, Takers
        <3>2. CASE links[c].usedBy = {}
            BY <3>2, FS_EmptySet
        <3>3. CASE links[c].usedBy # {}
            <4>1. PICK k : links[c].usedBy = {k}
                BY <3>1, <3>3
            <4>2. Cardinality({k}) = 1
                BY FS_Singleton
            <4> QED BY <4>1, <4>2
        <3> QED BY <3>2, <3>3
    <2>2. OneChatPerLink
        BY <2>1 DEF OneChatPerLink
    <2>3. ToldOncePerChannel
        BY <1>1 DEF JobInv, ToldOncePerChannel, Channels
    <2> QED BY <2>2, <2>3 DEF SellersAreReached
<1> QED BY <1>1, AlertsInvariant, PTL
=============================================================================
