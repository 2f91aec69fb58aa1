---------------------------- MODULE SellerAlerts ----------------------------
(* Reaching the seller: the bots of the shop, the link by which one of them   *)
(* learns the seller's chat, and the two kinds of alert that are delivered    *)
(* there by queued jobs, one that is only sent and one, of low stock, that    *)
(* is also emailed and remembers on its row which channel has been told.      *)
EXTENDS Integers, FiniteSets

CONSTANTS
    Bots,           \* Telegram connections
    Chats,          \* Telegram chats that open a link
    Windows,        \* requests for a link under way at once
    MaxLinks,       \* bound: codes ever issued, numbered in that order
    MaxAttempts,    \* how often a job is tried
    MaxLosses,      \* bound: jobs lost to a crash, and answers of a channel lost
    NoChat

ASSUME AttemptsAssumption == MaxAttempts \in Nat \ {0}

Channels == {"email", "telegram"}

VARIABLES
    bots,       \* the connections that are there and active
    links,      \* VerificationCode rows of purpose telegram_link
    window,     \* the codes each request is about to retire
    opening,    \* each chat's /start message: the code it was matched with, or 0
    chat,       \* User.telegram_chat_id
    switchedOn, \* whether the seller takes such alerts on Telegram
    alertJob,   \* deliver: one alert
    lowJob,     \* deliver_low_stock: one LowStockAlert
    stamped,    \* its email_sent_at and telegram_sent_at
    heard,      \* history: how often each channel carried each alert
    lost        \* jobs and answers lost so far

alertVars == <<bots, links, window, opening, chat, switchedOn, alertJob, lowJob, stamped, heard, lost>>

LinkVars == <<bots, links, window, opening, chat, switchedOn>>
JobVars  == <<alertJob, lowJob, stamped, heard, lost>>

NoWindow  == [open |-> FALSE, retires |-> {}]
NoJob     == [at |-> "none", tries |-> 0]
NoLow     == [at |-> "none", told |-> {}, failed |-> FALSE, tries |-> 0]

AlertsInit ==
    /\ bots       = {}
    /\ \E n \in 0..1 : links = [c \in 1..n |-> [live |-> TRUE, usedBy |-> {}, met |-> FALSE]]
    /\ window     = [w \in Windows |-> NoWindow]
    /\ opening    = [k \in Chats |-> 0]
    /\ chat       \in Chats \cup {NoChat}
    /\ switchedOn \in BOOLEAN
    /\ alertJob   = NoJob
    /\ lowJob     = NoLow
    /\ stamped    = {}
    /\ heard      = [h \in {"alert"} \cup Channels |-> 0]
    /\ lost       = 0

-----------------------------------------------------------------------------
(* create_integration and update_integration make a bot active;               *)
(* update_integration and delete_integration make it not so.                  *)
SetBot(b) ==
    /\ bots' = (bots \ {b}) \cup ({b} \ bots)
    /\ UNCHANGED <<links, window, opening, chat, switchedOn>> /\ UNCHANGED JobVars

Links      == DOMAIN links
LiveLinks  == {c \in Links : links[c].live}

(* start_telegram_link and issue: with a bot that is active, the codes out-   *)
(* standing are retired and a new one is inserted, in one commit.             *)
OpenWindow(w) ==
    /\ ~window[w].open /\ bots # {}
    /\ window' = [window EXCEPT ![w] = [open |-> TRUE, retires |-> LiveLinks]]
    /\ UNCHANGED <<bots, links, opening, chat, switchedOn>> /\ UNCHANGED JobVars

Issue(w) ==
    LET n == Cardinality(Links) + 1
    IN  /\ window[w].open /\ n <= MaxLinks
        /\ links' = [c \in 1..n |->
               IF c = n THEN [live |-> TRUE, usedBy |-> {}, met |-> FALSE]
               ELSE [links[c] EXCEPT !.live = @ /\ c \notin window[w].retires]]
        /\ window' = [window EXCEPT ![w] = NoWindow]
        /\ UNCHANGED <<bots, opening, chat, switchedOn>> /\ UNCHANGED JobVars

Expire(c) ==
    /\ links[c].live
    /\ links' = [links EXCEPT ![c].live = FALSE]
    /\ UNCHANGED <<bots, window, opening, chat, switchedOn>> /\ UNCHANGED JobVars

\* The outstanding code a /start is compared with.
OnScreen == {c \in LiveLinks : \A d \in LiveLinks : d <= c}

(* claim: a chat sends a code to one of the shop's bots.  One that is not the *)
(* newest outstanding is answered as expired.  History: other chats that are  *)
(* claiming the same code.                                                    *)
StartClaim(k, c) ==
    /\ opening[k] = 0 /\ c \in OnScreen /\ bots # {}
    /\ opening' = [opening EXCEPT ![k] = c]
    /\ links' = [links EXCEPT ![c].met = @ \/ \E o \in Chats : opening[o] = c]
    /\ UNCHANGED <<bots, window, chat, switchedOn>> /\ UNCHANGED JobVars

FinishClaim(k) ==
    LET c == opening[k]
    IN  /\ c # 0
        /\ links' = [links EXCEPT ![c].live = FALSE, ![c].usedBy = @ \cup {k}]
        /\ chat' = k
        /\ opening' = [opening EXCEPT ![k] = 0]
        /\ UNCHANGED <<bots, window, switchedOn>> /\ UNCHANGED JobVars

Unlink ==
    /\ chat # NoChat
    /\ chat' = NoChat
    /\ UNCHANGED <<bots, links, window, opening, switchedOn>> /\ UNCHANGED JobVars

Switch ==
    /\ switchedOn' = ~switchedOn
    /\ UNCHANGED <<bots, links, window, opening, chat>> /\ UNCHANGED JobVars

-----------------------------------------------------------------------------
\* telegram_target: a linked chat, and a bot that is active.
Reachable == chat # NoChat /\ bots # {}

(* alert: a job is written only when it could be delivered now.               *)
Raise ==
    /\ alertJob.at = "none"
    /\ switchedOn /\ Reachable
    /\ alertJob' = [NoJob EXCEPT !.at = "due"]
    /\ UNCHANGED <<lowJob, stamped, heard, lost>> /\ UNCHANGED LinkVars

(* deliver looks again at the switch, the chat and the bots.                  *)
StartDeliver ==
    /\ alertJob.at = "due"
    /\ alertJob' = [alertJob EXCEPT !.at = IF switchedOn /\ Reachable THEN "sending" ELSE "done"]
    /\ UNCHANGED <<lowJob, stamped, heard, lost>> /\ UNCHANGED LinkVars

TriedAgain(job) == [job EXCEPT !.tries = @ + 1, !.at = IF job.tries + 1 = MaxAttempts THEN "failed" ELSE "due"]

\* What becomes of a message: it arrives, it does not, or it does and the
\* answer is lost, which looks like failure.
Outcome(kind, arrived, answered) ==
    /\ heard' = [heard EXCEPT ![kind] = IF arrived THEN @ + 1 ELSE @]
    /\ arrived /\ ~answered => lost < MaxLosses
    /\ lost' = IF arrived /\ ~answered THEN lost + 1 ELSE lost

SendAlert ==
    /\ alertJob.at = "sending"
    /\ \E arrived, answered \in BOOLEAN :
         /\ answered => arrived
         /\ Outcome("alert", arrived, answered)
         /\ alertJob' = IF answered THEN [alertJob EXCEPT !.at = "sent"] ELSE TriedAgain(alertJob)
    /\ UNCHANGED <<lowJob, stamped>> /\ UNCHANGED LinkVars

\* The job is completed, or its worker is lost and it is delivered again.
EndDeliver ==
    /\ alertJob.at = "sent"
    /\ \/ alertJob' = [alertJob EXCEPT !.at = "done"] /\ UNCHANGED lost
       \/ alertJob' = TriedAgain(alertJob) /\ lost < MaxLosses /\ lost' = lost + 1
    /\ UNCHANGED <<lowJob, stamped, heard>> /\ UNCHANGED LinkVars

-----------------------------------------------------------------------------
(* evaluate_low_stock opened an alert; the email switch stays on here.        *)
OpenLow ==
    /\ lowJob.at = "none"
    /\ lowJob' = [NoLow EXCEPT !.at = "due"]
    /\ UNCHANGED <<alertJob, stamped, heard, lost>> /\ UNCHANGED LinkVars

AlreadyTold(channel) == channel \in stamped

(* One channel of deliver_low_stock: skipped when told before or switched     *)
(* off, sent otherwise; without a bot the sending fails.  The email is first. *)
TellLow(from, channel, then) ==
    /\ lowJob.at = from
    /\ IF AlreadyTold(channel) \/ (channel = "telegram" /\ (~switchedOn \/ chat = NoChat))
       THEN lowJob' = [lowJob EXCEPT !.at = then] /\ UNCHANGED <<heard, lost>>
       ELSE \E arrived, answered \in BOOLEAN :
              /\ answered => arrived
              /\ arrived => channel = "email" \/ bots # {}
              /\ Outcome(channel, arrived, answered)
              /\ lowJob' = [lowJob EXCEPT !.at = then, !.failed = @ \/ ~answered,
                                !.told = IF answered THEN @ \cup {channel} ELSE @]
    /\ UNCHANGED <<alertJob, stamped>> /\ UNCHANGED LinkVars

\* Mutant: a delivery that failed in part is rolled back.
StampAllOrNothing == IF lowJob.failed THEN stamped ELSE stamped \cup lowJob.told

Stamp == stamped \cup lowJob.told

(* The stamps are committed, and then a channel that failed fails the job.    *)
CommitLow ==
    /\ lowJob.at = "told"
    /\ stamped' = Stamp
    /\ lowJob' = IF lowJob.failed THEN TriedAgain([NoLow EXCEPT !.tries = lowJob.tries])
                 ELSE [lowJob EXCEPT !.at = "done"]
    /\ UNCHANGED <<alertJob, heard, lost>> /\ UNCHANGED LinkVars

LoseLow ==
    /\ lowJob.at \in {"emailed", "told"} /\ lost < MaxLosses
    /\ lost' = lost + 1
    /\ lowJob' = TriedAgain([NoLow EXCEPT !.tries = lowJob.tries])
    /\ UNCHANGED <<alertJob, stamped, heard>> /\ UNCHANGED LinkVars

BotsNext == \E b \in Bots : SetBot(b)

IssueNext == (\E w \in Windows : OpenWindow(w) \/ Issue(w)) \/ \E c \in Links : Expire(c)

ClaimNext == (\E k \in Chats : FinishClaim(k) \/ \E c \in Links : StartClaim(k, c)) \/ Unlink

DeliverNext == Switch \/ Raise \/ StartDeliver \/ SendAlert \/ EndDeliver

LowNext ==
    \/ OpenLow \/ TellLow("due", "email", "emailed") \/ TellLow("emailed", "telegram", "told")
    \/ CommitLow \/ LoseLow

AlertsNext == BotsNext \/ IssueNext \/ ClaimNext \/ DeliverNext \/ LowNext

AlertsSpec == AlertsInit /\ [][AlertsNext]_alertVars

-----------------------------------------------------------------------------
(* The type of every variable.                                                *)
AlertsTypeOK ==
    /\ bots \subseteq Bots
    /\ Links = 1..Cardinality(Links)
    /\ \A c \in Links : links[c] \in [live : BOOLEAN, usedBy : SUBSET Chats, met : BOOLEAN]
    /\ chat \in Chats \cup {NoChat}
    /\ stamped \subseteq Channels
    /\ alertJob.tries \in 0..MaxAttempts /\ lowJob.tries \in 0..MaxAttempts

(* A code links one chat, unless two opened it at the same moment, whatever   *)
(* is retired, expires or is issued meanwhile (telegram_link.claim).          *)
OneChatPerLink == \A c \in Links : ~links[c].met => Cardinality(links[c].usedBy) <= 1

(* A channel carries an alert once, and again only for a worker or an answer  *)
(* that was lost; a low-stock job that is done has told by email              *)
(* (deliver_low_stock).                                                       *)
ToldOncePerChannel ==
    /\ \A h \in DOMAIN heard : heard[h] <= 1 + lost
    /\ lowJob.at = "done" => heard["email"] >= 1

SellersAreReached == OneChatPerLink /\ ToldOncePerChannel
=============================================================================
