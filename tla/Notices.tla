------------------------------- MODULE Notices -------------------------------
(* Telling the customer what happened to one order                            *)
(* (services/customer_updates.py): the change and the job that announces it   *)
(* commit together; a worker sends the message and then records that it did.  *)
(* JobQueue models the queue itself; here a job is waiting, in the hands of   *)
(* a worker that holds the order's row lock, or over.                         *)
EXTENDS Integers, FiniteSets

CONSTANTS
    Jobs,           \* ids of customer_update jobs
    MaxAttempts,    \* Job.max_attempts
    MaxLosses       \* bound: handlers that die or fail after their order lock

StatusEvents == {"confirmed", "shipped", "delivered", "cancelled"}
Events       == StatusEvents \cup {"paid"}

VARIABLES
    status,     \* Order.status
    paid,       \* Order.payment_status is paid
    notified,   \* Order.customer_notified_events
    wanted,     \* User.customer_updates_enabled
    channel,    \* PlatformConnection.is_active of the thread's channel
    job,        \* each job: its event, where it is, attempts begun
    heard,      \* history: messages the customer received, by event
    lost,       \* history: of those, how many were not recorded
    losses      \* history: handlers that died so far

shop == <<status, paid, wanted, channel>>
noticeVars == <<status, paid, notified, wanted, channel, job, heard, lost, losses>>

NoJob == [event |-> "none", at |-> "absent", tries |-> 0]

NoticesInit ==
    /\ status = "pending" /\ paid = FALSE /\ notified = {}
    /\ wanted = TRUE /\ channel = TRUE
    /\ job   = [j \in Jobs |-> NoJob]
    /\ heard = [e \in Events |-> 0]
    /\ lost  = [e \in Events |-> 0]
    /\ losses = 0

InHand == {j \in Jobs : job[j].at \in {"sending", "sent"}}

\* Mutant: deliver reads the order without FOR UPDATE.
OrderNotLocked == TRUE

\* Whoever changes or announces an order waits for its row.
OrderFree == InHand = {}

\* What deliver asks of the order; a payment it takes as it was queued.
Still(e) == e \in StatusEvents => status = e

(* notify: queued with the change, unless it is not news, was already told,   *)
(* or the seller has updates switched off.                                    *)
Announce(e) ==
    IF e \in Events \ notified /\ wanted
    THEN \E j \in Jobs :
           /\ job[j].at = "absent"
           /\ job' = [job EXCEPT ![j] = [event |-> e, at |-> "waiting", tries |-> 0]]
    ELSE UNCHANGED job

(* update_order; the seller may ask that the customer is not told.            *)
ChangeStatus(new, tell) ==
    /\ OrderFree
    /\ new # status
    /\ status' = new
    /\ IF tell THEN Announce(new) ELSE UNCHANGED job
    /\ UNCHANGED <<paid, notified, wanted, channel, heard, lost, losses>>

Pay ==
    /\ OrderFree
    /\ ~paid
    /\ paid' = TRUE
    /\ Announce("paid")
    /\ UNCHANGED <<status, notified, wanted, channel, heard, lost, losses>>

\* The seller's settings and channels; a disconnected channel may come back.
Configure ==
    /\ \/ wanted' = ~wanted /\ UNCHANGED channel
       \/ channel' = ~channel /\ UNCHANGED wanted
    /\ UNCHANGED <<status, paid, notified, job, heard, lost, losses>>

-----------------------------------------------------------------------------
Due(e) == e \notin notified /\ Still(e) /\ channel

Move(j, to) == job' = [job EXCEPT ![j].at = to]

(* deliver takes the order's lock and looks: only what is still true, and not *)
(* told yet, goes out; anything else ends the job.                            *)
Deliver(j) ==
    /\ job[j].at = "waiting"
    /\ OrderFree
    /\ job' = [job EXCEPT ![j].at = IF Due(job[j].event) THEN "sending" ELSE "done",
                          ![j].tries = @ + 1]
    /\ UNCHANGED <<shop, notified, heard, lost, losses>>

PlatformAccepts(j) ==
    /\ job[j].at = "sending"
    /\ Move(j, "sent")
    /\ heard' = [heard EXCEPT ![job[j].event] = @ + 1]
    /\ UNCHANGED <<shop, notified, lost, losses>>

\* Mutant: the job is taken for done.
Dropped(j) == "done"

\* An exception hands the job back until its attempts run out.
AfterFailure(j) == IF job[j].tries >= MaxAttempts THEN "failed" ELSE "waiting"

PlatformRefuses(j) ==
    /\ job[j].at = "sending"
    /\ Move(j, AfterFailure(j))
    /\ UNCHANGED <<shop, notified, heard, lost, losses>>

Record(j) ==
    /\ job[j].at = "sent"
    /\ Move(j, "done")
    /\ notified' = notified \cup {job[j].event}
    /\ UNCHANGED <<shop, heard, lost, losses>>

\* The worker dies, or its commit fails, with the job in hand.  A dead
\* worker's job comes back whatever its attempts.
Lose(j) ==
    /\ job[j].at \in {"sending", "sent"}
    /\ losses < MaxLosses
    /\ \/ Move(j, "waiting")
       \/ job[j].at = "sent" /\ Move(j, AfterFailure(j))
    /\ lost' = IF job[j].at = "sent" THEN [lost EXCEPT ![job[j].event] = @ + 1] ELSE lost
    /\ losses' = losses + 1
    /\ UNCHANGED <<shop, notified, heard>>

NoticesNext ==
    \/ \E new \in {"pending", "confirmed", "shipped"}, tell \in BOOLEAN : ChangeStatus(new, tell)
    \/ Pay \/ Configure
    \/ \E j \in Jobs : \/ Deliver(j) \/ PlatformAccepts(j) \/ PlatformRefuses(j)
                       \/ Record(j) \/ Lose(j)

(* The queue goes on claiming due jobs, and every call to a platform ends:    *)
(* send_reply has a timeout.  No fairness for the seller or for failures.     *)
NoticesSpec ==
    /\ NoticesInit /\ [][NoticesNext]_noticeVars
    /\ \A j \in Jobs : /\ WF_noticeVars(Deliver(j)) /\ WF_noticeVars(Record(j))
                       /\ WF_noticeVars(PlatformAccepts(j) \/ PlatformRefuses(j))

-----------------------------------------------------------------------------
\* What is true of the order.
Facts == {e \in Events : IF e = "paid" THEN paid ELSE status = e}

Promise == INSTANCE Told WITH
               News <- Events,
               told <- heard,
               true <- Facts

(* What the customer experiences is Told: nothing is announced that is not    *)
(* true as it is sent, and an event announced twice -- by two jobs queued for *)
(* it, by a retry, by a second worker -- is one whose first record was lost.  *)
ToldAsPromised == Promise!ToldSpec

(* News that stays true with the channel open reaches the customer, unless    *)
(* the platform refused it until the attempts ran out.                        *)
LastingNewsArrives ==
    \A j \in Jobs, e \in Events :
        (job[j].at = "waiting" /\ job[j].event = e)
            ~> (heard[e] > 0 \/ job[j].at = "failed" \/ e \notin Facts \/ ~channel)
=============================================================================
