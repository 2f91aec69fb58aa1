------------------------------ MODULE Customers ------------------------------
(* One person writing to a shop over one channel: the customers and threads   *)
(* the workers open for them, what the seller does with those by hand, and    *)
(* the person asking Meta to be forgotten.  No index keeps a person to one    *)
(* customer, and no row is locked between being read and being written.       *)
EXTENDS Integers, FiniteSets

CONSTANTS
    Messages,       \* what the person sends; each is one job
    Desks,          \* requests of the seller's staff under way at once
    MaxCustomers, MaxThreads    \* bounds: rows ever inserted, numbered in order

ASSUME CustomersAssumption == IsFiniteSet(Messages) /\ MaxCustomers \in Nat /\ MaxThreads \in Nat

VARIABLES
    customers,  \* Customer rows
    threads,    \* Conversation rows
    keptIn,     \* the thread each message is stored in, 0 if in none
    inbound,    \* handle_inbound of each message: what it has read so far
    desk,       \* each request between its reads and its commit
    overlapped, \* history: two were about to insert the person at once
    forgotten   \* history: messages on file when the person asked to be forgotten,
                \* or swept away with a customer the seller deleted

customersVars == <<customers, threads, keptIn, inbound, desk, overlapped, forgotten>>

Rows(f)      == {i \in DOMAIN f : f[i].row = "live"}
Unused(f)    == {i \in DOMAIN f : f[i].row = "unused"}
NextRow(f)   == CHOOSE i \in Unused(f) : \A k \in Unused(f) : i <= k
Known        == {c \in Rows(customers) : customers[c].known}
ThreadsOf(c) == {t \in Rows(threads) : threads[t].of = c}
Said(t)      == {m \in Messages : keptIn[m] = t}

NewCustomer(name) == [row |-> "live", known |-> TRUE, name |-> name, late |-> FALSE]
NewThread(c, channel) ==
    [row |-> "live", of |-> c, channel |-> channel, open |-> TRUE, unread |-> 0, fresh |-> {}]

DueNow == [at |-> "due", customer |-> 0, thread |-> 0, renames |-> FALSE, saw |-> 0]
DeskIdle == [does |-> "nothing", of |-> 0, saw |-> 0]

CustomersInit ==
    /\ customers  = [c \in 1..MaxCustomers |-> [NewCustomer("none") EXCEPT !.row = "unused"]]
    /\ threads    = [t \in 1..MaxThreads |-> [NewThread(0, FALSE) EXCEPT !.row = "unused"]]
    /\ keptIn     = [m \in Messages |-> 0]
    /\ inbound    = [m \in Messages |-> DueNow]
    /\ desk       = [d \in Desks |-> DeskIdle]
    /\ overlapped = FALSE
    /\ forgotten  = {}

-----------------------------------------------------------------------------
\* Those who found nobody and will insert the person as a new customer.
Inserting ==
    {m \in Messages : inbound[m].at \in {"found", "threaded"} /\ inbound[m].customer = 0}
        \cup {d \in Desks : desk[d].does = "add"}

(* _customer_for: the customer with the sender's platform id, any of them, or *)
(* none; a placeholder name is to be replaced by the one the message brings.  *)
Find(m) ==
    /\ inbound[m].at = "due"
    /\ \E c \in IF Known = {} THEN {0} ELSE Known, named \in BOOLEAN :
         /\ inbound' = [inbound EXCEPT ![m].at = "found", ![m].customer = c,
                ![m].renames = named /\ (c = 0 \/ customers[c].name = "placeholder")]
         /\ overlapped' = (overlapped \/ (c = 0 /\ Inserting # {}))
    /\ UNCHANGED <<customers, threads, keptIn, desk, forgotten>>

\* handle_inbound logs what the database refuses and returns: nothing of the
\* message was committed, the job has succeeded, and the message is lost.  Any
\* other error ends so too (Inbound's Abandon); here are those of other requests.
LoseMessage(m) ==
    /\ inbound' = [inbound EXCEPT ![m].at = "lost"]
    /\ UNCHANGED <<customers, threads, keptIn, desk, overlapped, forgotten>>

\* Open or pending.  A rehearsal is no thread of the channel.
OpenThreads(c) == {t \in ThreadsOf(c) : threads[t].open}
Reusable(c)    == {t \in OpenThreads(c) : threads[t].channel}

(* _conversation_for: an open thread of that customer, or a new one, flushed  *)
(* and so refused when the customer is gone; the unread count came with it.   *)
FindThread(m) ==
    LET c == inbound[m].customer
    IN  /\ inbound[m].at = "found"
        /\ IF c # 0 /\ c \notin Rows(customers) THEN LoseMessage(m)
           ELSE /\ \E t \in IF c = 0 \/ Reusable(c) = {} THEN {0} ELSE Reusable(c) :
                     inbound' = [inbound EXCEPT ![m].at = "threaded", ![m].thread = t,
                         ![m].saw = IF t = 0 THEN 0 ELSE threads[t].unread]
                /\ UNCHANGED <<customers, threads, keptIn, desk, overlapped, forgotten>>

OneMore(n) == n + 1

(* The commit: the message, one more unread, and the rows that were new; it   *)
(* fails when the thread has been deleted.                                    *)
Store(m) ==
    LET w     == inbound[m]
        c     == IF w.customer = 0 THEN NextRow(customers) ELSE w.customer
        t     == IF w.thread = 0 THEN NextRow(threads) ELSE w.thread
        named == IF w.renames THEN "given" ELSE "placeholder"
        row   == IF w.thread = 0 THEN NewThread(c, TRUE) ELSE threads[t]
    IN  /\ w.at = "threaded"
        /\ w.customer = 0 => Unused(customers) # {}
        /\ w.thread = 0 => Unused(threads) # {}
        /\ IF w.thread # 0 /\ w.thread \notin Rows(threads) THEN LoseMessage(m)
           ELSE /\ customers' = IF w.customer = 0
                                THEN [customers EXCEPT ![c] = NewCustomer(named)]
                                ELSE [customers EXCEPT ![c].name = IF w.renames THEN "given" ELSE @]
                /\ threads' = [threads EXCEPT ![t] =
                       [row EXCEPT !.unread = OneMore(w.saw), !.fresh = @ \cup {m}]]
                /\ keptIn' = [keptIn EXCEPT ![m] = t]
                /\ inbound' = [inbound EXCEPT ![m] = [DueNow EXCEPT !.at = "done"]]
                /\ UNCHANGED <<desk, overlapped, forgotten>>

-----------------------------------------------------------------------------
\* A new thread that is flushed and not committed holds its customer's row; so
\* does a new name, which is flushed with it.
Pins(m, c)  == inbound[m].at = "threaded" /\ inbound[m].customer = c /\ inbound[m].thread = 0
Pinned(c)   == \E m \in Messages : Pins(m, c)
Renaming(c) == \E m \in Messages : Pins(m, c) /\ inbound[m].renames

DeskStart(d, does, of, saw) ==
    /\ desk[d] = DeskIdle
    /\ desk' = [desk EXCEPT ![d] = [does |-> does, of |-> of, saw |-> saw]]
    /\ UNCHANGED <<customers, threads, keptIn, inbound, forgotten>>

DeskEnd(d) == desk' = [desk EXCEPT ![d] = DeskIdle]

(* create_customer by platform id, and create_conversation, a rehearsal: each *)
(* answers with the row that is there, and otherwise inserts one.             *)
StartAdd(d) ==
    /\ Known = {}
    /\ DeskStart(d, "add", 0, 0)
    /\ overlapped' = (overlapped \/ Inserting # {})

FinishAdd(d) ==
    /\ desk[d].does = "add" /\ Unused(customers) # {}
    /\ customers' = [customers EXCEPT ![NextRow(customers)] = NewCustomer("given")]
    /\ DeskEnd(d)
    /\ UNCHANGED <<threads, keptIn, inbound, overlapped, forgotten>>

StartRehearsal(d, c) ==
    /\ OpenThreads(c) = {}
    /\ DeskStart(d, "rehearse", c, 0)
    /\ UNCHANGED overlapped

FinishRehearsal(d) ==
    /\ desk[d].does = "rehearse"
    /\ desk[d].of \in Rows(customers) => Unused(threads) # {}
    /\ threads' = IF desk[d].of \in Rows(customers)
                  THEN [threads EXCEPT ![NextRow(threads)] = NewThread(desk[d].of, FALSE)] ELSE threads
    /\ DeskEnd(d)
    /\ UNCHANGED <<customers, keptIn, inbound, overlapped, forgotten>>

(* mark_conversation_read: zero is written only over a count read as not zero. *)
StartRead(d, t) ==
    /\ DeskStart(d, "read", t, threads[t].unread)
    /\ UNCHANGED overlapped

FinishRead(d) ==
    LET t == desk[d].of
    IN  /\ desk[d].does = "read"
        /\ threads' = IF t \notin Rows(threads) THEN threads
                      ELSE [threads EXCEPT ![t].unread = IF desk[d].saw # 0 THEN 0 ELSE @, ![t].fresh = {}]
        /\ DeskEnd(d)
        /\ UNCHANGED <<customers, keptIn, inbound, overlapped, forgotten>>

\* update_conversation closes a thread or opens it again.
SetOpen(t, open) ==
    /\ threads[t].open # open
    /\ threads' = [threads EXCEPT ![t].open = open]
    /\ UNCHANGED <<customers, keptIn, inbound, desk, overlapped, forgotten>>

(* delete_customer: the ORM loads the threads and orders, whose customer may  *)
(* not be nulled; with none it deletes the row, and the database cascades to  *)
(* a thread committed since.  Orders do no more here than have it refused.    *)
StartDelete(d, c) ==
    /\ ThreadsOf(c) = {}
    /\ DeskStart(d, "delete", c, 0)
    /\ UNCHANGED overlapped

FinishDelete(d) ==
    LET c == desk[d].of
    IN  /\ desk[d].does = "delete"
        /\ ~Pinned(c)
        /\ DeskEnd(d)
        /\ customers' = [customers EXCEPT ![c].row = "gone", ![c].known = FALSE]
        /\ threads' = [t \in DOMAIN threads |-> IF t \in ThreadsOf(c) THEN [threads[t] EXCEPT !.row = "gone"] ELSE threads[t]]
        /\ keptIn' = [m \in Messages |-> IF keptIn[m] \in ThreadsOf(c) THEN 0 ELSE keptIn[m]]
        /\ forgotten' = forgotten \cup {m \in Messages : keptIn[m] \in ThreadsOf(c)}
        /\ UNCHANGED <<inbound, overlapped>>

-----------------------------------------------------------------------------
\* Mutant: one customer of the person is erased, not all of them.
ErasedFirst == {CHOOSE c \in Known : TRUE}

Erased == Known

(* meta_data_deletion and erase_customer: of every customer with that id the  *)
(* threads go, the name and the id are struck out, and the orders stay, less  *)
(* their address.  History: for a worker that had found it, it is late.       *)
Erase ==
    LET gone == UNION {ThreadsOf(c) : c \in Erased}
        held == {c \in Erased : \E m \in Messages : inbound[m].customer = c}
    IN  /\ Known # {} /\ ~\E c \in Erased : Renaming(c)
        /\ customers' = [c \in DOMAIN customers |->
               IF c \notin Erased THEN customers[c]
               ELSE [customers[c] EXCEPT !.known = FALSE, !.name = "anonymous", !.late = c \in held]]
        /\ threads' = [t \in DOMAIN threads |-> IF t \in gone THEN [threads[t] EXCEPT !.row = "gone"] ELSE threads[t]]
        /\ forgotten' = forgotten \cup {m \in Messages : keptIn[m] # 0 /\ threads[keptIn[m]].of \in Known}
        /\ keptIn' = [m \in Messages |-> IF keptIn[m] \in gone THEN 0 ELSE keptIn[m]]
        /\ UNCHANGED <<inbound, desk, overlapped>>

InboundNext == \E m \in Messages : Find(m) \/ FindThread(m) \/ Store(m)

PeopleDeskNext ==
    \E d \in Desks :
        \/ StartAdd(d) \/ FinishAdd(d) \/ FinishDelete(d)
        \/ \E c \in Rows(customers) : StartDelete(d, c)

ThreadDeskNext ==
    \/ \E d \in Desks :
        \/ FinishRehearsal(d) \/ FinishRead(d)
        \/ \E c \in Rows(customers) : StartRehearsal(d, c)
        \/ \E t \in Rows(threads) : StartRead(d, t)
    \/ \E t \in Rows(threads), open \in BOOLEAN : SetOpen(t, open)

CustomersNext == InboundNext \/ PeopleDeskNext \/ ThreadDeskNext \/ Erase

CustomersSpec == CustomersInit /\ [][CustomersNext]_customersVars

-----------------------------------------------------------------------------
(* The type of every variable.                                                *)
CustomersTypeOK ==
    /\ \A c \in DOMAIN customers : customers[c] \in
           [row : {"unused", "live", "gone"}, known : BOOLEAN,
            name : {"none", "placeholder", "given", "anonymous"}, late : BOOLEAN]
    /\ \A t \in DOMAIN threads : threads[t].of \in 0..MaxCustomers /\ threads[t].unread \in 0..Cardinality(Messages)
    /\ keptIn \in [Messages -> 0..MaxThreads]
    /\ forgotten \subseteq Messages

(* A person is two customers only when two requests were about to insert the  *)
(* person at the same time (_customer_for, create_customer).                  *)
OnePersonOneCustomer == ~overlapped => Cardinality(Known) <= 1

\* Deleted, or forgotten while a worker had it.
Left(c) == customers[c].row = "gone" \/ customers[c].late

(* A message that has been stored stays in a thread of a customer there is,   *)
(* until the person asks to be forgotten or the customer is deleted with it;  *)
(* and a job that succeeded without storing its message, as handle_inbound    *)
(* does when the database refuses it, had found a customer who was deleted or *)
(* forgotten while it ran.                                                    *)
HandledIsKept ==
    \A m \in Messages :
        /\ inbound[m].at = "done" /\ m \notin forgotten =>
               keptIn[m] \in Rows(threads) /\ threads[keptIn[m]].of \in Rows(customers)
        /\ inbound[m].at = "lost" => Left(inbound[m].customer)

(* What the person had said when asking to be forgotten is gone, and of one   *)
(* forgotten nothing is on file again, unless a worker had found the customer *)
(* just before: a new message starts a new customer (erase_customer).         *)
ForgottenStaysSo ==
    /\ \A m \in forgotten : keptIn[m] = 0
    /\ \A c \in Rows(customers) : ~customers[c].known /\ ~customers[c].late =>
           /\ \A t \in ThreadsOf(c) : Said(t) = {}
           /\ customers[c].name = "anonymous"

(* A thread counts nothing unread only when nothing came since it was last    *)
(* marked read, and never more than was said in it, though the count is       *)
(* written from a stale read by workers and by the seller.                    *)
UnreadTells ==
    \A t \in Rows(threads) :
        /\ threads[t].unread = 0 => threads[t].fresh = {}
        /\ threads[t].unread <= Cardinality(Said(t))

PeopleAreKept == OnePersonOneCustomer /\ HandledIsKept /\ ForgottenStaysSo /\ UnreadTells
=============================================================================
