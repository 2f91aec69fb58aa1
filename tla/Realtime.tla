------------------------------ MODULE Realtime ------------------------------
(* The open inboxes of one shop (services/realtime.py): a trigger announces   *)
(* each committed change on a channel, one thread of the API process listens  *)
(* and hands the announcement to every open stream, and the browser refetches *)
(* whatever it names.  Streams, listener and writers run at the same time.    *)
EXTENDS Integers, Sequences, SequencesExt

CONSTANTS
    Streams,    \* open or closed event streams, one browser each
    Threads,    \* rows the inbox shows: conversations, with messages and orders
    QueueLimit, \* QUEUE_LIMIT
    MaxVersion  \* bound: changes of one row

ASSUME BoundsAssumption == QueueLimit \in Nat \ {0} /\ MaxVersion \in Nat

Everything == "resync"

VARIABLES
    version,    \* how often the watched columns of each row have changed
    wire,       \* announcements the database holds for the listener
    listener,   \* down, listening (LISTEN done, resync not yet), or up
    stream,     \* closed, greeting (subscribed, before "ready"), or open
    backlog,    \* the stream's queue
    shown       \* what the browser last fetched

realtimeVars == <<version, wire, listener, stream, backlog, shown>>

Unread == [t \in Threads |-> 0]

RealtimeInit ==
    /\ version  = Unread
    /\ wire     = <<>>
    /\ listener = "down"
    /\ stream   = [s \in Streams |-> "closed"]
    /\ backlog  = [s \in Streams |-> <<>>]
    /\ shown    = [s \in Streams |-> Unread]

(* A commit of an insert, or of an update of a watched column.  NOTIFY        *)
(* reaches only connections that have said LISTEN.                            *)
Change(t) ==
    /\ version[t] < MaxVersion
    /\ version' = [version EXCEPT ![t] = @ + 1]
    /\ wire' = IF listener = "down" THEN wire ELSE Append(wire, t)
    /\ UNCHANGED <<listener, stream, backlog, shown>>

-----------------------------------------------------------------------------
\* Mutant: the queue is emptied and only the event that did not fit put in.
OfferOrReplace(q, e) == IF Len(q) < QueueLimit THEN Append(q, e) ELSE <<e>>

\* _offer: a stream that far behind is told to refetch everything instead.
Offer(q, e) == IF Len(q) < QueueLimit THEN Append(q, e) ELSE <<Everything>>

Publish(e) ==
    backlog' = [s \in Streams |-> IF stream[s] = "closed" THEN <<>> ELSE Offer(backlog[s], e)]

Poll ==
    /\ listener = "up"
    /\ wire # <<>>
    /\ Publish(Head(wire))
    /\ wire' = Tail(wire)
    /\ UNCHANGED <<version, listener, stream, shown>>

ListenerFails ==
    /\ listener # "down"
    /\ listener' = "down"
    /\ wire' = <<>>
    /\ UNCHANGED <<version, stream, backlog, shown>>

Listen ==
    /\ listener = "down"
    /\ listener' = "listening"
    /\ UNCHANGED <<version, wire, stream, backlog, shown>>

\* Whatever was missed while disconnected.
Resync ==
    /\ listener = "listening"
    /\ Publish(Everything)
    /\ listener' = "up"
    /\ UNCHANGED <<version, wire, stream, shown>>

-----------------------------------------------------------------------------
\* inbox_events: into the hub first, then "ready".
Subscribe(s) ==
    /\ stream[s] = "closed"
    /\ stream' = [stream EXCEPT ![s] = "greeting"]
    /\ UNCHANGED <<version, wire, listener, backlog, shown>>

Fetch(s, e) ==
    shown' = [shown EXCEPT ![s] = [t \in Threads |-> IF e \in {t, Everything} THEN version[t] ELSE @[t]]]

Greet(s) ==
    /\ stream[s] = "greeting"
    /\ stream' = [stream EXCEPT ![s] = "open"]
    /\ Fetch(s, Everything)
    /\ UNCHANGED <<version, wire, listener, backlog>>

Send(s) ==
    /\ stream[s] = "open"
    /\ backlog[s] # <<>>
    /\ Fetch(s, Head(backlog[s]))
    /\ backlog' = [backlog EXCEPT ![s] = Tail(@)]
    /\ UNCHANGED <<version, wire, listener, stream>>

\* The browser goes away or the connection drops; it will come back.
Disconnect(s) ==
    /\ stream[s] # "closed"
    /\ stream'  = [stream EXCEPT ![s] = "closed"]
    /\ backlog' = [backlog EXCEPT ![s] = <<>>]
    /\ UNCHANGED <<version, wire, listener, shown>>

RealtimeNext ==
    \/ \E t \in Threads : Change(t)
    \/ Poll \/ ListenerFails \/ Listen \/ Resync
    \/ \E s \in Streams : Subscribe(s) \/ Greet(s) \/ Send(s) \/ Disconnect(s)

RealtimeSpec == RealtimeInit /\ [][RealtimeNext]_realtimeVars

-----------------------------------------------------------------------------
(* The type of every variable.                                                *)
RealtimeTypeOK ==
    /\ version \in [Threads -> 0..MaxVersion]
    /\ wire \in Seq(Threads)
    /\ listener \in {"down", "listening", "up"}
    /\ stream \in [Streams -> {"closed", "greeting", "open"}]
    /\ backlog \in [Streams -> Seq(Threads \cup {Everything})]
    /\ \A s \in Streams : Len(backlog[s]) <= QueueLimit
    /\ shown \in [Streams -> [Threads -> 0..MaxVersion]]

(* An open inbox that shows something old is always about to learn of it: the *)
(* event or a resync is in its queue, the announcement is on its way, or a    *)
(* greeting or the listener's resync is still to come.  No event is lost to a *)
(* full queue, a reconnecting listener or a stream opened at the wrong time.  *)
OldNewsIsOnItsWay ==
    \A s \in Streams, t \in Threads :
        stream[s] = "open" /\ shown[s][t] # version[t] =>
            \/ listener # "up"
            \/ Contains(wire, t)
            \/ Contains(backlog[s], t) \/ Contains(backlog[s], Everything)
=============================================================================
