------------------------------- MODULE Inbound -------------------------------
(* What becomes of one customer's messages: each arrives as a job that may be *)
(* delivered again, is stored once, and is answered by the assistant or left  *)
(* to the seller, who reads, answers and takes over the same thread meanwhile.*)
(*                                                                            *)
(* A worker's copy of the thread is as old as its transaction: the one it     *)
(* has when it flags the thread may date from before the model was asked.     *)
EXTENDS Naturals

CONSTANTS
    Messages,       \* what the customer wrote, by the platform's message id
    Threads,        \* conversations
    Workers,        \* drainer threads and worker processes
    NoThread,       \* where a message is that is not stored
    NoMessage,      \* what a worker is at that has nothing to do
    ResumeOverlaps, \* whether the seller acts while a thread is being resumed
    MaxDeliveries   \* bound: jobs queued for one message

ASSUME ThreadsAssumption == NoThread \notin Threads
ASSUME OverlapAssumption == ResumeOverlaps \in BOOLEAN
ASSUME DeliveriesAssumption == MaxDeliveries \in Nat \ {0}

VARIABLES
    jobs,    \* inbound_message jobs queued for each message
    where,   \* the thread each message is stored in
    thread,  \* the conversation rows
    work,    \* the workers: what each is at, its message and thread, and whether its
             \* copy of the thread shows that the seller was called already
    seller,  \* the request the seller has under way
    sent,    \* history: replies the platform took for each message
    noticed, \* history: messages that waited on a thread the seller was called to
    dropped, \* history: messages given up by a crash, an error, an empty reply or a lost photo
    receipts,\* history: photos without a word left to the job that reads receipts
    hushed,  \* history: messages that came while a person had the thread
    pressed  \* history: threads taken over and not handed back

vars == <<jobs, where, thread, work, seller, sent, noticed, dropped, receipts, hushed, pressed>>

Row(status, mode, source) ==
    [status |-> status, mode |-> mode, source |-> source, attention |-> FALSE, quiet |-> FALSE]

Rows == [status : {"absent", "open", "closed"}, mode : {"auto", "manual"},
         source : {"none", "reply", "explicit"}, attention : BOOLEAN, quiet : BOOLEAN]

Stages   == {"received", "stored", "heard", "resuming", "resumed", "flagging", "asking", "sent"}
Requests == {"reply", "takeOver", "handBack", "close", "open"}

Nothing   == [pc |-> "idle", msg |-> NoMessage, th |-> NoThread, called |-> FALSE]
NoRequest == [doing |-> "nothing", th |-> NoThread, copy |-> Row("absent", "auto", "none")]

Init ==
    /\ jobs    = [m \in Messages |-> 0]
    /\ where   = [m \in Messages |-> NoThread]
    /\ thread  = [t \in Threads |-> Row("absent", "auto", "none")]
    /\ work    = [w \in Workers |-> Nothing]
    /\ seller  = NoRequest
    /\ sent    = [m \in Messages |-> 0]
    /\ noticed = {} /\ dropped = {} /\ receipts = {} /\ hushed = {} /\ pressed = {}

-----------------------------------------------------------------------------
Stored(m) == where[m] # NoThread
Open      == {t \in Threads : thread[t].status = "open"}

\* A worker that found no open thread is about to insert one.
Unused == {t \in Threads : /\ thread[t].status = "absent"
                           /\ \A w \in Workers : work[w].th # t}

\* resume_due: only a reply expires.
Due(row) == row.mode = "manual" /\ row.source = "reply" /\ row.quiet

Goes(w, pc) == work' = [work EXCEPT ![w].pc = pc]

\* With the row as it is now in hand.
Reads(w, pc) == work' = [work EXCEPT ![w].pc = pc, ![w].called = thread[work[w].th].attention]

\* Mutant: the session is left open on the message.
LeftOpen(w) == work' = [work EXCEPT ![w].pc = "idle"]

Done(w) == work' = [work EXCEPT ![w] = Nothing]

(* The webhook queues each delivery and is acknowledged; it looks at nothing. *)
Deliver(m) ==
    /\ jobs[m] < MaxDeliveries
    /\ jobs' = [jobs EXCEPT ![m] = @ + 1]
    /\ UNCHANGED <<where, thread, work, seller, sent, dropped, receipts, pressed>>

-----------------------------------------------------------------------------
(* handle_inbound.                                                            *)

\* Mutant: redeliveries are not recognised.
NeverHandled(m) == FALSE

AlreadyHandled(m) == Stored(m)

Take(w, m) ==
    /\ work[w].pc = "idle"
    /\ jobs[m] > 0
    /\ jobs' = [jobs EXCEPT ![m] = @ - 1]
    /\ \/ UNCHANGED work  \* the connection is gone, or the message is known
       \/ /\ ~AlreadyHandled(m)
          /\ \E t \in IF Open = {} THEN Unused ELSE Open :
                work' = [work EXCEPT ![w] = [pc |-> "received", msg |-> m, th |-> t,
                                             called |-> FALSE]]
    /\ UNCHANGED <<where, thread, seller, sent, dropped, receipts, pressed>>

\* The unique index on (connection, external id) has the last word.
StoreMessage(w) ==
    /\ work[w].pc = "received"
    /\ LET m == work[w].msg
           t == work[w].th
       IN  IF AlreadyHandled(m)
             THEN /\ Done(w)
                  /\ UNCHANGED <<where, thread>>
             ELSE /\ where' = [where EXCEPT ![m] = t]
                  /\ thread' = IF thread[t].status = "absent"
                                 THEN [thread EXCEPT ![t] = Row("open", "auto", "none")]
                                 ELSE thread
                  /\ Goes(w, "stored")
    /\ UNCHANGED <<jobs, seller, sent, dropped, receipts, pressed>>

\* Mutant: the seller is called only to a thread no person has.
CalledUnlessManual(t, called) ==
    [thread EXCEPT ![t].attention = @ \/ (~called /\ thread[t].mode = "auto")]

\* flag_attention: only the transition counts, as the worker's copy shows it.
Called(t, called) == [thread EXCEPT ![t].attention = @ \/ ~called]

(* A voice note is the seller's to answer, whatever its caption then gets.    *)
Heard(w) ==
    /\ work[w].pc = "stored"
    /\ thread' = Called(work[w].th, thread[work[w].th].attention)
    /\ Goes(w, "heard")
    /\ UNCHANGED <<jobs, where, seller, sent, dropped, receipts, pressed>>

Judging(w) == work[w].pc \in {"stored", "heard", "resumed"}

\* hand_back begins: the row is due as this worker reads it.
ResumeBegins(w) ==
    /\ work[w].pc \in {"stored", "heard"}
    /\ Due(thread[work[w].th])
    /\ ResumeOverlaps \/ seller = NoRequest
    /\ Goes(w, "resuming")
    /\ UNCHANGED <<jobs, where, thread, seller, sent, dropped, receipts, pressed>>

\* hand_back commits; the row is read again after it.
Resume(w) ==
    /\ work[w].pc = "resuming"
    /\ thread' = [thread EXCEPT ![work[w].th].mode = "auto", ![work[w].th].source = "none"]
    /\ Goes(w, "resumed")
    /\ UNCHANGED <<jobs, where, seller, sent, dropped, receipts, pressed>>

(* The seller is called: to a sticker or a note without words, to what a      *)
(* manual thread or a connection without auto_reply gets, to a photo that is  *)
(* no receipt, a spent budget.                                                *)
LeftToSeller(w) ==
    /\ Judging(w)
    /\ work[w].pc = "heard" => ~Due(thread[work[w].th])
    /\ Reads(w, "flagging")
    /\ UNCHANGED <<jobs, where, thread, seller, sent, dropped, receipts, pressed>>

(* A photo without a word while an order of the thread awaits payment: it is  *)
(* queued to be read as a receipt, and that job's alert is all the seller     *)
(* gets.  The thread is not flagged, whoever has it.                          *)
ReceiptLeftToReader(w) ==
    /\ work[w].pc \in {"stored", "resumed"}
    /\ work[w].pc = "stored" => ~Due(thread[work[w].th])
    /\ receipts' = receipts \cup {work[w].msg}
    /\ Done(w)
    /\ UNCHANGED <<jobs, where, thread, seller, sent, dropped, pressed>>

\* Mutant: a takeover only counts if it was pressed.
IgnoresReplies(row) == row.mode = "manual" /\ row.source = "explicit"

InPersonsHands(row) == row.mode = "manual"

ModelAsked(w) ==
    /\ Judging(w)
    /\ ~InPersonsHands(thread[work[w].th])
    /\ Reads(w, "asking")
    /\ UNCHANGED <<jobs, where, thread, seller, sent, dropped, receipts, pressed>>

\* A photo that could not be fetched, without a word: nobody is told of it.
PhotoLost(w) ==
    /\ Judging(w)
    /\ ~InPersonsHands(thread[work[w].th])
    /\ dropped' = dropped \cup {work[w].msg}
    /\ Done(w)
    /\ UNCHANGED <<jobs, where, thread, seller, sent, receipts, pressed>>

NeedsSeller(w) ==
    /\ work[w].pc = "flagging"
    /\ thread' = Called(work[w].th, work[w].called)
    /\ Done(w)
    /\ UNCHANGED <<jobs, where, seller, sent, dropped, receipts, pressed>>

\* No reply from the model, or none the platform would take.
AnswerFails(w) ==
    /\ work[w].pc = "asking"
    /\ Goes(w, "flagging")
    /\ UNCHANGED <<jobs, where, thread, seller, sent, dropped, receipts, pressed>>

AnswerSent(w) ==
    /\ work[w].pc = "asking"
    /\ sent' = [sent EXCEPT ![work[w].msg] = @ + 1]
    /\ Goes(w, "sent")
    /\ UNCHANGED <<jobs, where, thread, seller, dropped, receipts, pressed>>

\* Nothing but markers: there is nothing to deliver, so nothing is recorded,
\* not even that the model asked for the seller.
AnswerEmpty(w) ==
    /\ work[w].pc = "asking"
    /\ dropped' = dropped \cup {work[w].msg}
    /\ Done(w)
    /\ UNCHANGED <<jobs, where, thread, seller, sent, receipts, pressed>>

RecordAnswer(w) ==
    /\ work[w].pc = "sent"
    /\ \E wantsSeller \in BOOLEAN :
          thread' = IF wantsSeller THEN Called(work[w].th, work[w].called) ELSE thread
    /\ Done(w)
    /\ UNCHANGED <<jobs, where, seller, sent, dropped, receipts, pressed>>

(* An error ends the job, for it is swallowed; a dead worker's job comes back.*)
Abandon(w) ==
    /\ work[w].pc # "idle"
    /\ \E back \in {0, 1} :
         /\ jobs[work[w].msg] + back <= MaxDeliveries
         /\ jobs' = [jobs EXCEPT ![work[w].msg] = @ + back]
    /\ dropped' = IF work[w].pc = "received" THEN dropped ELSE dropped \cup {work[w].msg}
    /\ Done(w)
    /\ UNCHANGED <<where, thread, seller, sent, receipts, pressed>>

-----------------------------------------------------------------------------
(* The seller: send_message, which reads the thread, sends on the platform    *)
(* and then writes, and update_conversation.                                  *)

SellerReads(t, what) ==
    /\ seller = NoRequest
    /\ thread[t].status # "absent"
    /\ what = "reply" => thread[t].status = "open"
    /\ ResumeOverlaps \/ \A w \in Workers : work[w].pc # "resuming"
    /\ seller' = [doing |-> what, th |-> t, copy |-> thread[t]]
    /\ UNCHANGED <<jobs, where, thread, work, sent, dropped, receipts, pressed>>

\* A column is written when it differs from the copy.
Set(column, copy, value) == IF copy = value THEN column ELSE value

TakenOver(row, copy, source) ==
    [row EXCEPT !.mode = Set(@, copy.mode, "manual"), !.source = Set(@, copy.source, source)]

HandedBack(row, copy) ==
    [row EXCEPT !.mode = Set(@, copy.mode, "auto"), !.source = Set(@, copy.source, "none")]

AttentionCleared(row, copy) == [row EXCEPT !.attention = Set(@, copy.attention, FALSE)]

SellerWrites ==
    /\ seller # NoRequest
    /\ LET t    == seller.th
           row  == thread[t]
           copy == seller.copy
       IN  thread' = [thread EXCEPT ![t] =
             CASE seller.doing = "reply"    ->
                    [AttentionCleared(TakenOver(row, copy, "reply"), copy) EXCEPT !.quiet = FALSE]
               [] seller.doing = "takeOver" -> TakenOver(row, copy, "explicit")
               [] seller.doing = "handBack" -> HandedBack(row, copy)
               [] seller.doing = "close"    ->
                    [AttentionCleared(row, copy) EXCEPT !.status = "closed"]
               [] seller.doing = "open"     -> [row EXCEPT !.status = "open"]]
    /\ pressed' = CASE seller.doing = "takeOver" -> pressed \cup {seller.th}
                    [] seller.doing = "handBack" -> pressed \ {seller.th}
                    [] OTHER -> pressed
    /\ seller' = NoRequest
    /\ UNCHANGED <<jobs, where, work, sent, dropped, receipts>>

SellerRefused ==
    /\ seller.doing = "reply"
    /\ seller' = NoRequest
    /\ UNCHANGED <<jobs, where, thread, work, sent, dropped, receipts, pressed>>

\* manual_timeout_hours have passed since the seller last wrote.
QuietPasses(t) ==
    /\ thread[t].mode = "manual" /\ thread[t].source = "reply" /\ ~thread[t].quiet
    /\ thread' = [thread EXCEPT ![t].quiet = TRUE]
    /\ UNCHANGED <<jobs, where, work, seller, sent, dropped, receipts, pressed>>

-----------------------------------------------------------------------------
On(t) == {m \in Messages : where'[m] = t}

\* What the histories record of a step: who was called or answered while a
\* message waited, and who had the thread when it came.
Witnessed ==
    /\ noticed' = noticed \cup
         UNION {On(t) : t \in {u \in Threads : \/ thread'[u].attention
                                               \/ /\ seller.th = u /\ seller' = NoRequest
                                                  /\ seller.doing \in {"reply", "close"}}}
    /\ hushed' = {m \in Messages :
         /\ Stored(m)' /\ (m \in hushed \/ ~Stored(m))
         /\ thread'[where'[m]].mode = "manual" /\ ~Due(thread'[where'[m]])}

Step ==
    \/ \E m \in Messages : Deliver(m)
    \/ \E w \in Workers : \/ \E m \in Messages : Take(w, m)
                          \/ StoreMessage(w)
                          \/ Heard(w)
                          \/ ResumeBegins(w)
                          \/ Resume(w)
                          \/ LeftToSeller(w)
                          \/ ReceiptLeftToReader(w)
                          \/ ModelAsked(w)
                          \/ PhotoLost(w)
                          \/ NeedsSeller(w)
                          \/ AnswerFails(w)
                          \/ AnswerSent(w)
                          \/ AnswerEmpty(w)
                          \/ RecordAnswer(w)
                          \/ Abandon(w)
    \/ \E t \in Threads : \/ \E what \in Requests : SellerReads(t, what)
                          \/ QuietPasses(t)
    \/ SellerWrites
    \/ SellerRefused

Next == Step /\ Witnessed

Spec == Init /\ [][Next]_vars

-----------------------------------------------------------------------------
(* The type of every variable; a worker has a message in hand exactly while   *)
(* it is at something, and what the seller saw is a row.                      *)
TypeOK ==
    /\ jobs   \in [Messages -> 0..MaxDeliveries]
    /\ where  \in [Messages -> Threads \cup {NoThread}]
    /\ thread \in [Threads -> Rows]
    /\ work   \in [Workers -> {Nothing} \cup
                   [pc : Stages, msg : Messages, th : Threads, called : BOOLEAN]]
    /\ seller \in {NoRequest} \cup [doing : Requests, th : Threads, copy : Rows]
    /\ sent \in [Messages -> Nat]
    /\ noticed \subseteq Messages /\ dropped \subseteq Messages
    /\ receipts \subseteq Messages /\ hushed \subseteq Messages
    /\ pressed \subseteq Threads

(* However often a message is delivered, whatever dies or runs twice, the     *)
(* customer gets at most one reply to it, and none to one that is not stored  *)
(* ("the external message id is what makes a repeat a no-op rather than a     *)
(* second reply").                                                            *)
OneReplyPerMessage == \A m \in Messages : sent[m] <= IF Stored(m) THEN 1 ELSE 0

(* A stored message nobody is at any more was answered, or the seller was     *)
(* called to its thread or was there -- unless its handling was cut short, or *)
(* it is a photo handed to the job that reads receipts, whose alert is then   *)
(* the only word of it.                                                       *)
NobodyLeftInSilence ==
    \A m \in Messages :
        Stored(m) /\ (\A w \in Workers : work[w].msg # m \/ work[w].pc = "received")
            => sent[m] > 0 \/ m \in noticed \cup dropped \cup receipts

(* A message that came while a person had the thread is not answered by the   *)
(* assistant, unless the thread was since handed back or fell quiet.          *)
PersonNotTalkedOver == \A m \in hushed : sent[m] = 0

(* Pressing Take over stands until the thread is handed back (README).        *)
TakeoverStands == \A t \in pressed : thread[t].mode = "manual"
=============================================================================
