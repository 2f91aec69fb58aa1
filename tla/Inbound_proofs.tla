--------------------------- MODULE Inbound_proofs ----------------------------
(* Proofs about Inbound for any messages, threads and workers.                *)
(*                                                                            *)
(* A worker that stored a message owns it: the unique index let nobody else   *)
(* store it, so nobody else will answer it, and as long as the worker is at   *)
(* it, it is not answered yet.                                                *)
EXTENDS Inbound, TLAPS

Owns(w, m) == work[w].msg = m /\ work[w].pc \in Stages \ {"received"}

OwnersAreAtTheThread ==
    \A w \in Workers, m \in Messages : Owns(w, m) => Stored(m) /\ where[m] = work[w].th

OneOwner ==
    \A v, w \in Workers, m \in Messages : Owns(v, m) /\ Owns(w, m) => v = w

OwnedIsUnanswered ==
    \A w \in Workers, m \in Messages : Owns(w, m) =>
        IF work[w].pc = "sent" THEN sent[m] = 1 ELSE sent[m] = 0

\* What a worker remembers of a call is so: the message was on the thread.
CallIsRemembered ==
    \A w \in Workers : work[w].called => Owns(w, work[w].msg) /\ work[w].msg \in noticed

StoredIsLookedAfter ==
    \A m \in Messages : Stored(m) =>
        \/ sent[m] > 0
        \/ m \in noticed \cup dropped \cup receipts
        \/ \E w \in Workers : Owns(w, m)

\* Where a worker says nothing to the customer and will not.
Quiet == {"stored", "heard", "flagging"}

\* A message hushed is only ever on its way to the seller.
HushedGoesToSeller ==
    \A m \in hushed :
        /\ Stored(m) /\ sent[m] = 0
        /\ InPersonsHands(thread[where[m]]) /\ ~Due(thread[where[m]])
        /\ \A w \in Workers : Owns(w, m) => work[w].pc \in Quiet

IInv ==
    /\ TypeOK
    /\ OneReplyPerMessage
    /\ OwnersAreAtTheThread
    /\ OneOwner
    /\ OwnedIsUnanswered
    /\ CallIsRemembered
    /\ StoredIsLookedAfter
    /\ HushedGoesToSeller

-----------------------------------------------------------------------------
(* Typing.                                                                    *)

LEMMA InitTyped == Init => TypeOK
BY DeliveriesAssumption DEF Init, TypeOK, Rows, Row

LEMMA WitnessTyped ==
    ASSUME where' \in [Messages -> Threads \cup {NoThread}], noticed \subseteq Messages, Witnessed
    PROVE  noticed' \subseteq Messages /\ hushed' \subseteq Messages /\ noticed \subseteq noticed'
BY DEF Witnessed, On

LEMMA CalledTyped ==
    ASSUME thread \in [Threads -> Rows], NEW t \in Threads, NEW called \in BOOLEAN
    PROVE  Called(t, called) \in [Threads -> Rows]
<1>1. PICK old, flag : old = thread[t] /\ flag = (old.attention \/ ~called)
    OBVIOUS
<1>2. old \in Rows /\ flag \in BOOLEAN
    BY <1>1 DEF Rows
<1>3. [old EXCEPT !.attention = flag] \in Rows
    BY <1>2 DEF Rows
<1>4. Called(t, called) = [thread EXCEPT ![t] = [old EXCEPT !.attention = flag]]
    BY <1>1 DEF Called
<1> QED BY <1>3, <1>4

LEMMA NextTyped == TypeOK /\ [Next]_vars => TypeOK'
<1> SUFFICES ASSUME TypeOK, [Next]_vars PROVE TypeOK'
    OBVIOUS
<1> DEFINE Typed == /\ jobs   \in [Messages -> 0..MaxDeliveries]
                    /\ where  \in [Messages -> Threads \cup {NoThread}]
                    /\ thread \in [Threads -> Rows]
                    /\ work   \in [Workers -> {Nothing} \cup
                        [pc : Stages, msg : Messages, th : Threads, called : BOOLEAN]]
                    /\ seller \in {NoRequest} \cup [doing : Requests, th : Threads, copy : Rows]
                    /\ sent \in [Messages -> Nat]
                    /\ dropped \subseteq Messages /\ receipts \subseteq Messages
                    /\ pressed \subseteq Threads
<1>0. Typed /\ noticed \subseteq Messages /\ hushed \subseteq Messages
    BY DEF TypeOK
<1>. USE <1>0
<1>1. ASSUME NEW m \in Messages, Deliver(m) PROVE Typed'
    BY <1>1, DeliveriesAssumption DEF Deliver
<1>2. ASSUME NEW w \in Workers, NEW m \in Messages, Take(w, m) PROVE Typed'
    <2>1. jobs' \in [Messages -> 0..MaxDeliveries]
        BY <1>2, DeliveriesAssumption DEF Take
    <2>2. ASSUME NEW t \in Threads
          PROVE  [pc |-> "received", msg |-> m, th |-> t, called |-> FALSE]
                     \in [pc : Stages, msg : Messages, th : Threads, called : BOOLEAN]
        BY DEF Stages
    <2>3. UNCHANGED work \/ \E t \in Threads :
              work' = [work EXCEPT ![w] = [pc |-> "received", msg |-> m, th |-> t, called |-> FALSE]]
        BY <1>2 DEF Take, Unused, Open
    <2>4. work' \in [Workers -> {Nothing} \cup
              [pc : Stages, msg : Messages, th : Threads, called : BOOLEAN]]
        <3>1. CASE UNCHANGED work
            BY <3>1
        <3>2. ASSUME NEW t \in Threads, work' = [work EXCEPT ![w] =
                        [pc |-> "received", msg |-> m, th |-> t, called |-> FALSE]]
              PROVE  work' \in [Workers -> {Nothing} \cup
                         [pc : Stages, msg : Messages, th : Threads, called : BOOLEAN]]
            BY <2>2, <3>2
        <3> QED BY <2>3, <3>1, <3>2
    <2> QED BY <1>2, <2>1, <2>4 DEF Take
<1>3. ASSUME NEW w \in Workers, work[w].pc # "idle"
      PROVE  /\ work[w] \in [pc : Stages, msg : Messages, th : Threads, called : BOOLEAN]
             /\ Done(w) => work' \in [Workers -> {Nothing} \cup
                    [pc : Stages, msg : Messages, th : Threads, called : BOOLEAN]]
             /\ \A s \in Stages : Goes(w, s) \/ Reads(w, s) => work' \in [Workers -> {Nothing} \cup
                    [pc : Stages, msg : Messages, th : Threads, called : BOOLEAN]]
    BY <1>3 DEF Nothing, Done, Goes, Reads, Rows
<1>4. ASSUME NEW w \in Workers, StoreMessage(w) PROVE Typed'
    <2>1. Row("open", "auto", "none") \in Rows
        BY DEF Row, Rows
    <2> QED BY <1>3, <1>4, <2>1 DEF StoreMessage, Stages
<1>5. ASSUME NEW w \in Workers,
             \/ ResumeBegins(w) \/ LeftToSeller(w) \/ ReceiptLeftToReader(w)
             \/ ModelAsked(w) \/ PhotoLost(w)
      PROVE  Typed'
    BY <1>3, <1>5 DEF ResumeBegins, LeftToSeller, ReceiptLeftToReader, ModelAsked, PhotoLost,
                      Judging, Stages
<1>6. ASSUME NEW w \in Workers, Heard(w) \/ NeedsSeller(w) \/ RecordAnswer(w) PROVE Typed'
    <2>1. thread' \in [Threads -> Rows]
        <3>1. work[w].th \in Threads /\ work[w].called \in BOOLEAN
            BY <1>3, <1>6 DEF Heard, NeedsSeller, RecordAnswer
        <3>2. thread[work[w].th].attention \in BOOLEAN
            BY <3>1 DEF Rows
        <3> QED BY <1>6, <3>1, <3>2, CalledTyped DEF Heard, NeedsSeller, RecordAnswer
    <2> QED BY <1>3, <1>6, <2>1 DEF Heard, NeedsSeller, RecordAnswer, Stages
<1>7. ASSUME NEW w \in Workers, Resume(w) PROVE Typed'
    <2>0. ASSUME NEW r \in Rows PROVE [r EXCEPT !.mode = "auto", !.source = "none"] \in Rows
        BY DEF Rows
    <2>1. thread' \in [Threads -> Rows]
        <3>1. work[w].th \in Threads
            BY <1>3, <1>7 DEF Resume
        <3>2. PICK r \in Rows : thread' = [thread EXCEPT ![work[w].th] =
                  [r EXCEPT !.mode = "auto", !.source = "none"]]
            BY <1>7, <3>1 DEF Resume
        <3> QED BY <2>0, <3>1, <3>2
    <2> QED BY <1>3, <1>7, <2>1 DEF Resume, Stages
<1>8. ASSUME NEW w \in Workers, AnswerFails(w) \/ AnswerSent(w) \/ AnswerEmpty(w) PROVE Typed'
    BY <1>3, <1>8 DEF AnswerFails, AnswerSent, AnswerEmpty, Stages
<1>9. ASSUME NEW w \in Workers, Abandon(w) PROVE Typed'
    BY <1>3, <1>9, DeliveriesAssumption DEF Abandon
<1>10. ASSUME NEW t \in Threads, NEW what \in Requests, SellerReads(t, what) PROVE Typed'
    BY <1>10 DEF SellerReads
<1>11. ASSUME NEW t \in Threads, QuietPasses(t) PROVE Typed'
    <2>1. ASSUME NEW r \in Rows PROVE [r EXCEPT !.quiet = TRUE] \in Rows
        BY DEF Rows
    <2> QED BY <1>11, <2>1 DEF QuietPasses
<1>12. ASSUME SellerWrites PROVE Typed'
    <2>1. seller \in [doing : Requests, th : Threads, copy : Rows]
        BY <1>12 DEF SellerWrites
    <2>2. thread' \in [Threads -> Rows]
        <3> DEFINE row == thread[seller.th]
                   copy == seller.copy
        <3>1. row \in Rows /\ copy \in Rows
            BY <2>1
        <3>2. ASSUME NEW source \in {"reply", "explicit"} PROVE TakenOver(row, copy, source) \in Rows
            BY <3>1 DEF TakenOver, Set, Rows
        <3>3. HandedBack(row, copy) \in Rows
            BY <3>1 DEF HandedBack, Set, Rows
        <3>4. ASSUME NEW r \in Rows
              PROVE  /\ AttentionCleared(r, copy) \in Rows
                     /\ [r EXCEPT !.quiet = FALSE] \in Rows
                     /\ [r EXCEPT !.status = "closed"] \in Rows
                     /\ [r EXCEPT !.status = "open"] \in Rows
            BY <3>1 DEF AttentionCleared, Set, Rows
        <3> HIDE DEF row, copy
        <3>5. \E r \in Rows : thread' = [thread EXCEPT ![seller.th] = r]
            <4>1. seller.doing \in Requests
                BY <2>1
            <4>2. [AttentionCleared(TakenOver(row, copy, "reply"), copy) EXCEPT !.quiet = FALSE] \in Rows
                BY <3>2, <3>4
            <4>3. [AttentionCleared(row, copy) EXCEPT !.status = "closed"] \in Rows
                BY <3>1, <3>4
            <4>4. TakenOver(row, copy, "explicit") \in Rows /\ [row EXCEPT !.status = "open"] \in Rows
                BY <3>1, <3>2, <3>4
            <4> QED BY <1>12, <3>3, <4>1, <4>2, <4>3, <4>4 DEF SellerWrites, Requests, row, copy
        <3> QED BY <2>1, <3>5
    <2>3. pressed' \subseteq Threads
        BY <1>12, <2>1 DEF SellerWrites, Requests
    <2> QED BY <1>12, <2>2, <2>3 DEF SellerWrites
<1>13. ASSUME SellerRefused PROVE Typed'
    BY <1>13 DEF SellerRefused
<1>14. CASE Next
    <2>1. Typed'
        BY <1>1, <1>2, <1>4, <1>5, <1>6, <1>7, <1>8, <1>9, <1>10, <1>11, <1>12, <1>13, <1>14
           DEF Next, Step
    <2> QED BY <1>14, <2>1, WitnessTyped DEF Next, TypeOK
<1>15. CASE UNCHANGED vars
    BY <1>15 DEF vars, TypeOK
<1> QED BY <1>14, <1>15

(* Every column, worker and request keeps its type, for any number of them.   *)
THEOREM TypeCorrect == Spec => []TypeOK
BY InitTyped, NextTyped, PTL DEF Spec

-----------------------------------------------------------------------------
(* What a step is to the messages: nothing, or a worker stores one, goes on   *)
(* with one it owns, or is done with it.                                      *)

Others(w) == \A v \in Workers \ {w} : work'[v] = work[v]

NothingHappens ==
    /\ UNCHANGED <<where, sent, dropped, receipts>>
    /\ \A v \in Workers :
         /\ \A m \in Messages : (Owns(v, m)' <=> Owns(v, m)) /\ (Owns(v, m) => work'[v] = work[v])
         /\ work'[v].called => work'[v] = work[v]

Stores(w, m) ==
    /\ Others(w)
    /\ ~Stored(m) /\ work[w].msg = m /\ work[w].pc = "received" /\ work[w].th \in Threads
    /\ where' = [where EXCEPT ![m] = work[w].th]
    /\ UNCHANGED <<sent, dropped, receipts>>
    /\ work'[w] = [work[w] EXCEPT !.pc = "stored"]

GoesOn(w, m) ==
    /\ Others(w)
    /\ Owns(w, m) /\ Owns(w, m)' /\ work'[w].th = work[w].th
    /\ UNCHANGED <<where, dropped, receipts>>
    /\ \/ UNCHANGED sent /\ work[w].pc # "sent" /\ work'[w].pc # "sent"
       \/ /\ work[w].pc = "asking" /\ work'[w].pc = "sent"
          /\ sent' = [sent EXCEPT ![m] = @ + 1]
    /\ work'[w].called => work[w].called \/ thread'[work[w].th].attention
    /\ \/ work'[w].pc \in Quiet
       \/ work[w].pc \notin Quiet
       \/ Due(thread[work[w].th]) \/ ~InPersonsHands(thread[work[w].th])

Ends(w, m) ==
    /\ Others(w)
    /\ Owns(w, m) /\ work'[w] = Nothing
    /\ UNCHANGED <<where, sent>>
    /\ \/ dropped' = dropped \cup {m} /\ UNCHANGED receipts
       \/ receipts' = receipts \cup {m} /\ UNCHANGED dropped
       \/ /\ UNCHANGED <<dropped, receipts>>
          /\ work[w].pc = "sent" \/ work[w].called \/ thread'[work[w].th].attention

InHand == [pc : Stages, msg : Messages, th : Threads, called : BOOLEAN]

LEMMA WorkTyped ==
    ASSUME TypeOK, NEW w \in Workers
    PROVE  work[w] = Nothing \/ work[w] \in InHand
BY DEF TypeOK, InHand

LEMMA OwnerTyped ==
    ASSUME TypeOK, NEW w \in Workers, work[w].pc \in Stages \ {"received"}
    PROVE  /\ work[w] \in InHand
           /\ work[w].msg \in Messages /\ work[w].th \in Threads
           /\ Owns(w, work[w].msg)
BY WorkTyped DEF Owns, Nothing, InHand, Stages

LEMMA WorkChanges ==
    ASSUME TypeOK, NEW w \in Workers
    PROVE  /\ Done(w) => Others(w) /\ work'[w] = Nothing
           /\ \A s \in Stages : Goes(w, s) =>
                  Others(w) /\ work'[w] = [work[w] EXCEPT !.pc = s]
           /\ \A s \in Stages : Reads(w, s) => Others(w) /\
                  work'[w] = [work[w] EXCEPT !.pc = s, !.called = thread[work[w].th].attention]
BY DEF TypeOK, Done, Goes, Reads, Others

LEMMA IdleKinds ==
    ASSUME TypeOK, UNCHANGED <<where, sent, dropped, receipts>>, NEW w \in Workers, Others(w),
           work[w].pc \in {"idle", "received"},
           work'[w].pc \in {"idle", "received"} /\ ~work'[w].called
    PROVE  NothingHappens
BY DEF Others, NothingHappens, Owns, Stages

LEMMA StepKinds ==
    ASSUME TypeOK, Step
    PROVE  NothingHappens \/ \E w \in Workers, m \in Messages :
               Stores(w, m) \/ GoesOn(w, m) \/ Ends(w, m)
<1>1. ASSUME UNCHANGED <<where, work, sent, dropped, receipts>> PROVE NothingHappens
    BY <1>1 DEF NothingHappens, Owns
<1>2. ASSUME NEW m \in Messages, Deliver(m) PROVE NothingHappens
    BY <1>1, <1>2 DEF Deliver
<1>3. ASSUME NEW t \in Threads, QuietPasses(t) \/ \E what \in Requests : SellerReads(t, what)
      PROVE  NothingHappens
    BY <1>1, <1>3 DEF QuietPasses, SellerReads
<1>4. ASSUME SellerWrites \/ SellerRefused PROVE NothingHappens
    BY <1>1, <1>4 DEF SellerWrites, SellerRefused
<1>5. ASSUME NEW w \in Workers, NEW m \in Messages, Take(w, m) PROVE NothingHappens
    <2>1. CASE UNCHANGED work
        BY <1>1, <1>5, <2>1 DEF Take
    <2>2. ASSUME NEW t, work' = [work EXCEPT ![w] =
                    [pc |-> "received", msg |-> m, th |-> t, called |-> FALSE]]
          PROVE  NothingHappens
        <3>1. /\ Others(w)
              /\ work'[w] = [pc |-> "received", msg |-> m, th |-> t, called |-> FALSE]
            BY <2>2 DEF TypeOK, Others
        <3> QED BY <1>5, <3>1, IdleKinds DEF Take
    <2> QED BY <1>5, <2>1, <2>2 DEF Take
<1>6. ASSUME NEW w \in Workers, StoreMessage(w)
      PROVE  NothingHappens \/ \E m \in Messages : Stores(w, m)
    <2>1. work[w] \in InHand
        BY <1>6, WorkTyped DEF StoreMessage, Nothing
    <2>2. CASE AlreadyHandled(work[w].msg)
        <3>1. Others(w) /\ work'[w] = Nothing
            BY <1>6, <2>2, WorkChanges DEF StoreMessage
        <3> QED BY <1>6, <2>2, <3>1, IdleKinds DEF StoreMessage, Nothing
    <2>3. CASE ~AlreadyHandled(work[w].msg)
        BY <1>6, <2>1, <2>3, WorkChanges DEF StoreMessage, Stores, AlreadyHandled, InHand, Stages
    <2> QED BY <2>2, <2>3
<1>7. ASSUME NEW w \in Workers, Abandon(w)
      PROVE  NothingHappens \/ \E m \in Messages : Ends(w, m)
    <2>1. Others(w) /\ work'[w] = Nothing
        BY <1>7, WorkChanges DEF Abandon
    <2>2. CASE work[w].pc = "received"
        BY <1>7, <2>1, <2>2, IdleKinds DEF Abandon, Nothing
    <2>3. CASE work[w].pc # "received"
        <3>1. work[w].pc \in Stages \ {"received"}
            BY <1>7, <2>3, WorkTyped DEF Abandon, Nothing, InHand
        <3> QED BY <1>7, <2>1, <2>3, <3>1, OwnerTyped DEF Abandon, Ends
    <2> QED BY <2>2, <2>3
<1>8. ASSUME NEW w \in Workers, Heard(w) \/ Resume(w) \/ AnswerFails(w) \/ ResumeBegins(w)
      PROVE  \E m \in Messages : GoesOn(w, m)
    <2>1. work[w].pc \in Stages \ {"received", "sent"}
        BY <1>8 DEF Heard, Resume, AnswerFails, ResumeBegins, Stages
    <2>2. PICK s \in {"heard", "resuming", "resumed", "flagging"} :
              /\ Goes(w, s)
              /\ s = "resuming" => ResumeBegins(w)
              /\ s = "resumed" => Resume(w)
        BY <1>8 DEF Heard, Resume, AnswerFails, ResumeBegins
    <2> s \in Stages
        BY DEF Stages
    <2>3. Others(w) /\ work'[w] = [work[w] EXCEPT !.pc = s]
        BY <2>2, WorkChanges
    <2>4. /\ work[w] \in InHand /\ work[w].msg \in Messages /\ Owns(w, work[w].msg)
        BY <2>1, OwnerTyped
    <2>5. /\ work'[w].pc = s /\ work'[w].msg = work[w].msg /\ work'[w].th = work[w].th
          /\ work'[w].called = work[w].called
        BY <2>3, <2>4 DEF InHand
    <2>6. Owns(w, work[w].msg)'
        BY <2>5 DEF Owns, Stages
    <2>7. \/ s \in Quiet \/ work[w].pc \notin Quiet \/ Due(thread[work[w].th])
        BY <2>2 DEF Resume, ResumeBegins, Quiet
    <2>8. UNCHANGED <<where, sent, dropped, receipts>>
        BY <1>8 DEF Heard, Resume, AnswerFails, ResumeBegins
    <2>9. GoesOn(w, work[w].msg)
        BY <2>1, <2>3, <2>4, <2>5, <2>6, <2>7, <2>8 DEF GoesOn
    <2> QED BY <2>4, <2>9
<1>9. ASSUME NEW w \in Workers, LeftToSeller(w) \/ ModelAsked(w)
      PROVE  \E m \in Messages : GoesOn(w, m)
    <2>1. work[w].pc \in Stages \ {"received", "sent"}
        BY <1>9 DEF LeftToSeller, ModelAsked, Judging, Stages
    <2>2. PICK s \in {"flagging", "asking"} : Reads(w, s) /\ (s = "asking" => ModelAsked(w))
        BY <1>9 DEF LeftToSeller, ModelAsked
    <2>3. Others(w) /\ work'[w] = [work[w] EXCEPT !.pc = s, !.called = thread[work[w].th].attention]
        <3>1. s \in Stages /\ Reads(w, s)
            BY <2>2 DEF Stages
        <3> QED BY <3>1, WorkChanges
    <2>4. /\ work[w] \in InHand /\ work[w].msg \in Messages /\ Owns(w, work[w].msg)
        BY <2>1, OwnerTyped
    <2>5. /\ work'[w].pc = s /\ work'[w].msg = work[w].msg /\ work'[w].th = work[w].th
          /\ work'[w].called = thread[work[w].th].attention
        BY <2>3, <2>4 DEF InHand
    <2>6. Owns(w, work[w].msg)'
        BY <2>5 DEF Owns, Stages
    <2>7. s \in Quiet \/ ~InPersonsHands(thread[work[w].th])
        BY <2>2 DEF ModelAsked, Quiet
    <2>8. UNCHANGED <<where, thread, sent, dropped, receipts>>
        BY <1>9 DEF LeftToSeller, ModelAsked
    <2> QED BY <2>1, <2>3, <2>4, <2>5, <2>6, <2>7, <2>8 DEF GoesOn
<1>10. ASSUME NEW w \in Workers, AnswerSent(w) PROVE \E m \in Messages : GoesOn(w, m)
    <2>1. work[w].pc = "asking" /\ Others(w) /\ work'[w] = [work[w] EXCEPT !.pc = "sent"]
        BY <1>10, WorkChanges DEF AnswerSent, Stages
    <2>2. /\ work[w] \in InHand /\ work[w].msg \in Messages /\ Owns(w, work[w].msg)
        BY <2>1, OwnerTyped DEF Stages
    <2>3. /\ work'[w].pc = "sent" /\ work'[w].msg = work[w].msg /\ work'[w].th = work[w].th
          /\ work'[w].called = work[w].called
        BY <2>1, <2>2 DEF InHand
    <2>4. Owns(w, work[w].msg)'
        BY <2>3 DEF Owns, Stages
    <2> QED BY <1>10, <2>1, <2>2, <2>3, <2>4 DEF GoesOn, AnswerSent, Quiet
<1>11. ASSUME NEW w \in Workers, PhotoLost(w) \/ AnswerEmpty(w) \/ ReceiptLeftToReader(w)
       PROVE  \E m \in Messages : Ends(w, m)
    <2>1. Others(w) /\ work'[w] = Nothing
        BY <1>11, WorkChanges DEF PhotoLost, AnswerEmpty, ReceiptLeftToReader
    <2>2. work[w].pc \in Stages \ {"received"}
        BY <1>11 DEF PhotoLost, AnswerEmpty, ReceiptLeftToReader, Judging, Stages
    <2> QED BY <1>11, <2>1, <2>2, OwnerTyped DEF PhotoLost, AnswerEmpty, ReceiptLeftToReader, Ends
<1>12. ASSUME NEW w \in Workers, NeedsSeller(w) \/ RecordAnswer(w)
       PROVE  \E m \in Messages : Ends(w, m)
    <2>1. Others(w) /\ work'[w] = Nothing
        BY <1>12, WorkChanges DEF NeedsSeller, RecordAnswer
    <2>2. work[w].pc \in Stages \ {"received"}
        BY <1>12 DEF NeedsSeller, RecordAnswer, Stages
    <2>3. work[w].pc = "sent" \/ work[w].called \/ thread'[work[w].th].attention
        <3>1. CASE RecordAnswer(w)
            BY <3>1 DEF RecordAnswer
        <3>2. CASE NeedsSeller(w)
            <4>1. work[w].th \in Threads /\ work[w].called \in BOOLEAN
                BY <2>2, OwnerTyped DEF InHand
            <4>2. thread[work[w].th] \in Rows
                BY <4>1 DEF TypeOK
            <4>3. ~work[w].called => thread'[work[w].th].attention
                BY <3>2, <4>1, <4>2 DEF NeedsSeller, Called, TypeOK, Rows
            <4> QED BY <4>3
        <3> QED BY <1>12, <3>1, <3>2
    <2>4. UNCHANGED <<where, sent, dropped, receipts>>
        BY <1>12 DEF NeedsSeller, RecordAnswer
    <2> QED BY <2>1, <2>2, <2>3, <2>4, OwnerTyped DEF Ends
<1> QED BY <1>2, <1>3, <1>4, <1>5, <1>6, <1>7, <1>8, <1>9, <1>10, <1>11, <1>12 DEF Step

-----------------------------------------------------------------------------
(* What the histories record.                                                 *)

LEMMA SeenIsNoticed ==
    ASSUME Witnessed, NEW m \in Messages, NEW t \in Threads,
           where'[m] = t, thread'[t].attention
    PROVE  m \in noticed'
BY DEF Witnessed, On

LEMMA HushedNow ==
    ASSUME Witnessed, NEW m \in hushed'
    PROVE  /\ m \in Messages /\ Stored(m)' /\ (m \in hushed \/ ~Stored(m))
           /\ InPersonsHands(thread'[where'[m]]) /\ ~Due(thread'[where'[m]])
BY DEF Witnessed, InPersonsHands

-----------------------------------------------------------------------------
LEMMA InitInv == Init => IInv
<1> SUFFICES ASSUME Init PROVE IInv
    OBVIOUS
<1>1. \A w \in Workers : work[w].pc = "idle" /\ ~work[w].called
    BY DEF Init, Nothing
<1>2. \A m \in Messages : sent[m] = 0 /\ ~Stored(m)
    BY DEF Init, Stored
<1>3. hushed = {}
    BY DEF Init
<1> QED
    BY <1>1, <1>2, <1>3, InitTyped
       DEF IInv, OneReplyPerMessage, OwnersAreAtTheThread, OneOwner, OwnedIsUnanswered,
           CallIsRemembered, StoredIsLookedAfter, HushedGoesToSeller, Owns, Stages

LEMMA NothingKeepsInv ==
    ASSUME IInv, TypeOK', Witnessed, NothingHappens PROVE IInv'
<1>1. noticed \subseteq noticed'
    BY DEF Witnessed
<1>2. OneReplyPerMessage'
    BY DEF IInv, OneReplyPerMessage, NothingHappens, Stored
<1>3. OwnersAreAtTheThread'
    BY DEF IInv, OwnersAreAtTheThread, NothingHappens, Stored
<1>4. OneOwner'
    BY DEF IInv, OneOwner, NothingHappens
<1>5. OwnedIsUnanswered'
    BY DEF IInv, OwnedIsUnanswered, NothingHappens
<1>6. CallIsRemembered'
    BY <1>1 DEF IInv, CallIsRemembered, NothingHappens, Owns
<1>7. StoredIsLookedAfter'
    BY <1>1 DEF IInv, StoredIsLookedAfter, NothingHappens, Stored
<1>8. HushedGoesToSeller'
    <2> SUFFICES ASSUME NEW m \in hushed'
                 PROVE  /\ Stored(m)' /\ sent'[m] = 0
                        /\ InPersonsHands(thread'[where'[m]]) /\ ~Due(thread'[where'[m]])
                        /\ \A w \in Workers : Owns(w, m)' => work'[w].pc \in Quiet
        BY DEF HushedGoesToSeller
    <2>1. m \in Messages /\ m \in hushed
        BY HushedNow DEF NothingHappens, Stored
    <2> QED BY <2>1, HushedNow DEF IInv, HushedGoesToSeller, NothingHappens
<1> QED BY <1>2, <1>3, <1>4, <1>5, <1>6, <1>7, <1>8 DEF IInv

LEMMA StoringKeepsInv ==
    ASSUME IInv, TypeOK', Witnessed, NEW w \in Workers, NEW m \in Messages, Stores(w, m)
    PROVE  IInv'
<1>1. noticed \subseteq noticed'
    BY DEF Witnessed
<1>2. /\ work[w] \in InHand /\ work'[w].pc = "stored" /\ work'[w].msg = m
      /\ work'[w].th = work[w].th /\ work'[w].called = work[w].called
    BY WorkTyped DEF IInv, Stores, InHand, Nothing
<1>3. /\ where'[m] = work[w].th /\ Stored(m)'
      /\ \A k \in Messages \ {m} : where'[k] = where[k] /\ (Stored(k)' <=> Stored(k))
    BY ThreadsAssumption DEF IInv, TypeOK, Stores, Stored
<1>4. sent' = sent /\ dropped' = dropped /\ receipts' = receipts /\ sent[m] = 0 /\ ~Stored(m)
    BY DEF IInv, OneReplyPerMessage, TypeOK, Stores
<1>5. \A v \in Workers : ~Owns(v, m)
    BY <1>4 DEF IInv, OwnersAreAtTheThread
<1>6. ~work[w].called
    BY DEF IInv, CallIsRemembered, Stores, Owns
<1>7. /\ Owns(w, m)'
      /\ \A v \in Workers, k \in Messages : Owns(v, k)' <=> Owns(v, k) \/ (v = w /\ k = m)
      /\ \A v \in Workers \ {w} : work'[v] = work[v]
    BY <1>2 DEF Stores, Others, Owns, Stages
<1>8. OneReplyPerMessage'
    BY <1>3, <1>4 DEF IInv, TypeOK, OneReplyPerMessage
<1>9. OwnersAreAtTheThread'
    BY <1>2, <1>3, <1>4, <1>7 DEF IInv, OwnersAreAtTheThread
<1>10. OneOwner'
    BY <1>5, <1>7 DEF IInv, OneOwner
<1>11. OwnedIsUnanswered'
    <2> SUFFICES ASSUME NEW v \in Workers, NEW k \in Messages, Owns(v, k)'
                 PROVE  IF work'[v].pc = "sent" THEN sent'[k] = 1 ELSE sent'[k] = 0
        BY DEF OwnedIsUnanswered
    <2>1. CASE v = w
        BY <1>2, <1>4, <2>1 DEF Owns
    <2>2. CASE v # w
        <3>1. Owns(v, k) /\ work'[v] = work[v]
            BY <1>7, <2>2
        <3> QED BY <1>4, <3>1 DEF IInv, OwnedIsUnanswered
    <2> QED BY <2>1, <2>2
<1>12. CallIsRemembered'
    BY <1>1, <1>2, <1>6, <1>7 DEF IInv, CallIsRemembered, Owns
<1>13. StoredIsLookedAfter'
    BY <1>1, <1>3, <1>4, <1>7 DEF IInv, StoredIsLookedAfter
<1>14. HushedGoesToSeller'
    <2> SUFFICES ASSUME NEW k \in hushed'
                 PROVE  /\ Stored(k)' /\ sent'[k] = 0
                        /\ InPersonsHands(thread'[where'[k]]) /\ ~Due(thread'[where'[k]])
                        /\ \A v \in Workers : Owns(v, k)' => work'[v].pc \in Quiet
        BY DEF HushedGoesToSeller
    <2>1. k \in Messages
        BY HushedNow
    <2>2. CASE k = m
        BY <1>2, <1>4, <1>5, <1>7, <2>2, HushedNow DEF Quiet
    <2>3. CASE k # m
        <3>1. k \in hushed
            BY <1>3, <2>1, <2>3, HushedNow
        <3>2. \A v \in Workers : Owns(v, k)' => Owns(v, k) /\ v # w
            BY <1>2, <1>7, <2>1, <2>3 DEF Owns
        <3> QED BY <1>4, <1>7, <2>1, <3>1, <3>2, HushedNow DEF IInv, HushedGoesToSeller
    <2> QED BY <2>2, <2>3
<1> QED BY <1>8, <1>9, <1>10, <1>11, <1>12, <1>13, <1>14 DEF IInv

LEMMA GoingOnKeepsInv ==
    ASSUME IInv, TypeOK', Witnessed, NEW w \in Workers, NEW m \in Messages, GoesOn(w, m)
    PROVE  IInv'
<1>1. noticed \subseteq noticed'
    BY DEF Witnessed
<1>2. /\ Owns(w, m) /\ Owns(w, m)' /\ work'[w].th = work[w].th
      /\ where' = where /\ dropped' = dropped /\ receipts' = receipts
      /\ \A v \in Workers \ {w} : work'[v] = work[v]
    BY DEF GoesOn, Others
<1>3. \A v \in Workers, k \in Messages : Owns(v, k)' <=> Owns(v, k)
    BY <1>2 DEF Owns
<1>4. Stored(m) /\ where[m] = work[w].th /\ work[w].th \in Threads /\ work[w].msg = m
    <2>1. work[w].pc \in Stages \ {"received"}
        BY <1>2 DEF Owns
    <2> QED BY <1>2, <2>1, OwnerTyped DEF IInv, OwnersAreAtTheThread, Owns
<1>5. /\ sent[m] = 0 \/ (work[w].pc = "sent" /\ UNCHANGED sent)
      /\ \A k \in Messages \ {m} : sent'[k] = sent[k]
      /\ IF work'[w].pc = "sent" THEN sent'[m] = 1 ELSE sent'[m] = 0
      /\ sent'[m] <= 1
    BY <1>2 DEF IInv, OwnedIsUnanswered, TypeOK, GoesOn
<1>6. OneReplyPerMessage'
    BY <1>2, <1>4, <1>5 DEF IInv, OneReplyPerMessage, Stored
<1>7. OwnersAreAtTheThread'
    BY <1>2, <1>3 DEF IInv, OwnersAreAtTheThread, Stored
<1>8. OneOwner'
    BY <1>3 DEF IInv, OneOwner
<1>9. OwnedIsUnanswered'
    <2> SUFFICES ASSUME NEW v \in Workers, NEW k \in Messages, Owns(v, k)'
                 PROVE  IF work'[v].pc = "sent" THEN sent'[k] = 1 ELSE sent'[k] = 0
        BY DEF OwnedIsUnanswered
    <2>1. Owns(v, k)
        BY <1>3
    <2>2. CASE k = m
        BY <1>2, <1>5, <2>1, <2>2 DEF IInv, OneOwner
    <2>3. CASE k # m
        BY <1>2, <1>5, <2>1, <2>3 DEF IInv, OwnedIsUnanswered, Owns
    <2> QED BY <2>2, <2>3
<1>10. CallIsRemembered'
    <2> SUFFICES ASSUME NEW v \in Workers, work'[v].called
                 PROVE  Owns(v, work[v].msg)' /\ work'[v].msg \in noticed' /\ work'[v].msg = work[v].msg
        BY DEF CallIsRemembered, Owns
    <2>1. CASE v = w
        <3>1. work'[w].msg = m
            BY <1>2 DEF Owns
        <3>2. work[w].called \/ thread'[work[w].th].attention
            BY <2>1 DEF GoesOn
        <3>3. CASE work[w].called
            BY <1>1, <1>2, <1>4, <2>1, <3>1, <3>3 DEF IInv, CallIsRemembered
        <3>4. CASE thread'[work[w].th].attention
            BY <1>2, <1>4, <2>1, <3>1, <3>4, SeenIsNoticed
        <3> QED BY <3>2, <3>3, <3>4
    <2>2. CASE v # w
        BY <1>1, <1>2, <2>2 DEF IInv, CallIsRemembered, Owns
    <2> QED BY <2>1, <2>2
<1>11. StoredIsLookedAfter'
    BY <1>1, <1>2, <1>3, <1>5 DEF IInv, StoredIsLookedAfter, Stored
<1>12. HushedGoesToSeller'
    <2> SUFFICES ASSUME NEW k \in hushed'
                 PROVE  /\ Stored(k)' /\ sent'[k] = 0
                        /\ InPersonsHands(thread'[where'[k]]) /\ ~Due(thread'[where'[k]])
                        /\ \A v \in Workers : Owns(v, k)' => work'[v].pc \in Quiet
        BY DEF HushedGoesToSeller
    <2>1. k \in Messages /\ k \in hushed
        BY <1>2, HushedNow DEF Stored
    <2>2. /\ InPersonsHands(thread[where[k]]) /\ ~Due(thread[where[k]]) /\ sent[k] = 0
          /\ \A v \in Workers : Owns(v, k) => work[v].pc \in Quiet
        BY <2>1 DEF IInv, HushedGoesToSeller
    <2>3. CASE k = m
        <3>1. work[w].pc \in Quiet /\ work'[w].pc \in Quiet
            BY <1>2, <1>4, <2>2, <2>3 DEF GoesOn
        <3>2. \A v \in Workers : Owns(v, m) => v = w
            BY <1>2 DEF IInv, OneOwner
        <3> QED BY <1>3, <1>5, <2>3, <3>1, <3>2, HushedNow DEF Quiet
    <2>4. CASE k # m
        <3>1. \A v \in Workers : Owns(v, k)' => Owns(v, k) /\ v # w
            BY <1>2, <1>3, <2>1, <2>4 DEF Owns
        <3> QED BY <1>2, <1>5, <2>1, <2>2, <2>4, <3>1, HushedNow
    <2> QED BY <2>3, <2>4
<1> QED BY <1>6, <1>7, <1>8, <1>9, <1>10, <1>11, <1>12 DEF IInv

LEMMA EndingKeepsInv ==
    ASSUME IInv, TypeOK', Witnessed, NEW w \in Workers, NEW m \in Messages, Ends(w, m)
    PROVE  IInv'
<1>1. noticed \subseteq noticed' /\ dropped \subseteq dropped' /\ receipts \subseteq receipts'
    BY DEF Witnessed, Ends
<1>2. /\ Owns(w, m) /\ where' = where /\ sent' = sent /\ work'[w] = Nothing
      /\ \A v \in Workers \ {w} : work'[v] = work[v]
    BY DEF Ends, Others
<1>3. \A v \in Workers, k \in Messages : Owns(v, k)' <=> Owns(v, k) /\ v # w
    BY <1>2 DEF Owns, Nothing, Stages
<1>4. Stored(m) /\ where[m] = work[w].th /\ work[w].th \in Threads /\ work[w].msg = m
    <2>1. work[w].pc \in Stages \ {"received"}
        BY <1>2 DEF Owns
    <2> QED BY <1>2, <2>1, OwnerTyped DEF IInv, OwnersAreAtTheThread, Owns
<1>5. m \in dropped' \cup receipts' \/ sent[m] = 1 \/ m \in noticed'
    <2>1. CASE dropped' = dropped \cup {m} \/ receipts' = receipts \cup {m}
        BY <2>1
    <2>2. CASE work[w].pc = "sent"
        BY <1>2, <2>2 DEF IInv, OwnedIsUnanswered
    <2>3. CASE work[w].called
        BY <1>1, <1>4, <2>3 DEF IInv, CallIsRemembered
    <2>4. CASE thread'[work[w].th].attention
        BY <1>2, <1>4, <2>4, SeenIsNoticed
    <2> QED BY <2>1, <2>2, <2>3, <2>4 DEF Ends
<1>6. OneReplyPerMessage'
    BY <1>2 DEF IInv, OneReplyPerMessage, Stored
<1>7. OwnersAreAtTheThread'
    BY <1>2, <1>3 DEF IInv, OwnersAreAtTheThread, Stored
<1>8. OneOwner'
    BY <1>3 DEF IInv, OneOwner
<1>9. OwnedIsUnanswered'
    BY <1>2, <1>3 DEF IInv, OwnedIsUnanswered
<1>10. CallIsRemembered'
    BY <1>1, <1>2 DEF IInv, CallIsRemembered, Owns, Nothing
<1>11. StoredIsLookedAfter'
    <2> SUFFICES ASSUME NEW k \in Messages, Stored(k)
                 PROVE  \/ sent[k] > 0
                        \/ k \in noticed' \cup dropped' \cup receipts'
                        \/ \E v \in Workers : Owns(v, k)'
        BY <1>2 DEF StoredIsLookedAfter, Stored
    <2>1. CASE k = m
        BY <1>5, <2>1
    <2>2. CASE k # m
        <3>1. \A v \in Workers : Owns(v, k) => v # w
            BY <1>4, <2>2 DEF Owns
        <3> QED BY <1>1, <1>3, <3>1 DEF IInv, StoredIsLookedAfter
    <2> QED BY <2>1, <2>2
<1>12. HushedGoesToSeller'
    <2> SUFFICES ASSUME NEW k \in hushed'
                 PROVE  /\ Stored(k)' /\ sent'[k] = 0
                        /\ InPersonsHands(thread'[where'[k]]) /\ ~Due(thread'[where'[k]])
                        /\ \A v \in Workers : Owns(v, k)' => work'[v].pc \in Quiet
        BY DEF HushedGoesToSeller
    <2>1. k \in Messages /\ k \in hushed
        BY <1>2, HushedNow DEF Stored
    <2>2. \A v \in Workers : Owns(v, k)' => Owns(v, k) /\ work'[v] = work[v]
        BY <1>2, <1>3, <2>1
    <2> QED BY <1>2, <2>1, <2>2, HushedNow DEF IInv, HushedGoesToSeller
<1> QED BY <1>6, <1>7, <1>8, <1>9, <1>10, <1>11, <1>12 DEF IInv

LEMMA NextInv == IInv /\ [Next]_vars => IInv'
<1> SUFFICES ASSUME IInv, [Next]_vars PROVE IInv'
    OBVIOUS
<1>1. TypeOK /\ TypeOK'
    BY NextTyped DEF IInv
<1>2. CASE Next
    <2>1. Step /\ Witnessed
        BY <1>2 DEF Next
    <2>2. NothingHappens \/ \E w \in Workers, m \in Messages :
              Stores(w, m) \/ GoesOn(w, m) \/ Ends(w, m)
        BY <1>1, <2>1, StepKinds
    <2> QED BY <1>1, <2>1, <2>2, NothingKeepsInv, StoringKeepsInv, GoingOnKeepsInv, EndingKeepsInv
<1>3. CASE UNCHANGED vars
    BY <1>3 DEF vars, IInv, TypeOK, OneReplyPerMessage, OwnersAreAtTheThread, OneOwner,
        OwnedIsUnanswered, CallIsRemembered, StoredIsLookedAfter, HushedGoesToSeller,
        Owns, Stored, Due, InPersonsHands
<1> QED BY <1>2, <1>3

LEMMA Invariant == Spec => []IInv
BY InitInv, NextInv, PTL DEF Spec

-----------------------------------------------------------------------------
(* Whatever is redelivered, dies or runs twice, a customer's message gets at  *)
(* most one reply from the assistant, and none before it is stored.           *)
THEOREM RepeatsAreNoOps == Spec => []OneReplyPerMessage
<1>1. IInv => OneReplyPerMessage
    BY DEF IInv
<1> QED BY <1>1, Invariant, PTL

(* A stored message whose handling ran to its end was answered, or the seller *)
(* was called to it or there, or it was handed to the job that reads receipts *)
(* to tell of.                                                                *)
THEOREM EveryMessageIsSeen == Spec => []NobodyLeftInSilence
<1>1. IInv => NobodyLeftInSilence
    <2> SUFFICES ASSUME IInv, NEW m \in Messages, Stored(m),
                        \A w \in Workers : work[w].msg # m \/ work[w].pc = "received"
                 PROVE  sent[m] > 0 \/ m \in noticed \cup dropped \cup receipts
        BY DEF NobodyLeftInSilence
    <2>1. \A w \in Workers : ~Owns(w, m)
        BY DEF Owns
    <2> QED BY <2>1 DEF IInv, StoredIsLookedAfter
<1> QED BY <1>1, Invariant, PTL

(* While a person has the thread, what the customer writes to it is never     *)
(* answered by the assistant.                                                 *)
THEOREM PersonIsLeftAlone == Spec => []PersonNotTalkedOver
<1>1. IInv => PersonNotTalkedOver
    BY DEF IInv, HushedGoesToSeller, PersonNotTalkedOver
<1> QED BY <1>1, Invariant, PTL
=============================================================================
