------------------------------ MODULE Receipts ------------------------------
(* Receipts that customers send for their orders: each message queues one job *)
(* that has its pictures read, judges the first one against the order and     *)
(* alerts the seller; the seller can have a picture read again, and no lock    *)
(* keeps two requests, or a request and the job, off one picture; a job that  *)
(* is lost runs again.  The readings of a day are paid from one allowance.    *)
EXTENDS Integers, FiniteSets, Sequences

CONSTANTS
    Sales,         \* each of another conversation
    References,     \* transaction references printed on receipts
    MaxPictures,    \* bound: attachments, numbered in the order they arrived
    Rescans,        \* bound: requests of the seller at one time
    MaxScans,       \* AI_DAILY_RECEIPT_LIMIT
    MaxScanLosses       \* bound: jobs lost to a crash

ASSUME ReceiptsAssumption == MaxPictures \in Nat /\ MaxScans \in Nat /\ "none" \notin References

\* What a picture shows: the reference, and the amount, the order's total or
\* another.  A picture of something else shows none.
Junk  == [reference |-> "none", amount |-> "none"]
Shows == {Junk} \cup [reference : References, amount : {"exact", "other"}]

\* A message brings one picture or two.
Arrivals == {<<s>> : s \in Shows} \cup (Shows \X Shows)

\* Attachment.ocr_status, and ocr_reference with ocr_amount, which are written
\* and wiped together: the amount on file is the one shown.
Unscanned == [status |-> "unscanned", reference |-> "none"]
Failed    == [status |-> "failed", reference |-> "none"]

\* A row not loaded since the last commit: it equals nothing that is written.
Expired   == [status |-> "expired", reference |-> "expired"]

VARIABLES
    picture,    \* attachments: the order, what it shows, the reading on file,
                \* and (history) whether a reading of it stands
    job,        \* run_scan for each order's message: where it is, the pictures
                \* still to look at, and what it holds uncommitted: what it
                \* found on file, and what it read
    rescan,     \* what each request of the seller holds, likewise
    spent,      \* AiUsage.receipt_count
    readings,   \* history: calls of the vision model
    paid,       \* orders that are paid
    missed,     \* history: originals of pictures the seller was told match
    told,       \* history: how many alerts each message has queued
    losses      \* how often a job was lost

receiptsVars == <<picture, job, rescan, spent, readings, paid, missed, told, losses>>

Attached == DOMAIN picture
PicturesOf(o)    == {a \in Attached : picture[a].order = o}
First(S) == CHOOSE a \in S : \A b \in S : a <= b

Run(at, left, holds) == [at |-> at, left |-> left, holds |-> holds]
NoReadings == [a \in {} |-> Failed]

ReceiptsInit ==
    /\ picture  = [a \in {} |-> Junk]
    /\ job      = [o \in Sales |-> Run("none", {}, NoReadings)]
    /\ rescan   = [c \in Rescans |-> NoReadings]
    /\ spent    = 0
    /\ readings = 0
    /\ paid     = {}
    /\ missed   = {}
    /\ told     = [o \in Sales |-> 0]
    /\ losses   = 0

-----------------------------------------------------------------------------
\* A message with one or two pictures for an order still to be paid; the job
\* is committed with it (queue_scan).
Arrive(o, shown) ==
    LET n == Cardinality(Attached)
        k == Len(shown)
    IN  /\ job[o].at = "none" /\ o \notin paid
        /\ n + k <= MaxPictures
        /\ picture' = [a \in 1..(n + k) |-> IF a <= n THEN picture[a]
               ELSE [order |-> o, shows |-> shown[a - n], file |-> Unscanned, stands |-> FALSE]]
        /\ job' = [job EXCEPT ![o].at = "due"]
        /\ UNCHANGED <<rescan, spent, readings, paid, missed, told, losses>>

\* What apply_reading records: the model reads what is shown.
Reading(a) ==
    [status |-> IF picture[a].shows = Junk THEN "not_receipt" ELSE "read",
     reference |-> picture[a].shows.reference]

Unscan(file) == [file EXCEPT !.status = "unscanned"]

\* The row as the session loads it before the model is asked.
Found(a) == LET file == Unscan(picture[a].file) IN [b \in {a} |-> [found |-> file, read |-> file]]

\* An UPDATE writes the columns that differ from what the session found.
Written(file, held) ==
    [status    |-> IF held.read.status # held.found.status THEN held.read.status ELSE file.status,
     reference |-> IF held.read.reference # held.found.reference
                   THEN held.read.reference ELSE file.reference]

\* A reading stands until one that failed is filed; and a reading does not
\* make good what was wiped while it was made.
Stands(a, held) ==
    /\ held.read.status # "failed"
    /\ picture[a].stands \/ held.found.reference = picture[a].file.reference

\* A commit of readings.
Filed(holds) ==
    [a \in Attached |-> IF a \notin DOMAIN holds THEN picture[a]
       ELSE [picture[a] EXCEPT !.file = Written(@, holds[a]), !.stands = Stands(a, holds[a])]]

(* run_scan begins: the message's pictures, in the order they came.           *)
TakeScan(o) ==
    /\ job[o].at = "due"
    /\ job' = [job EXCEPT ![o] = Run("scan", PicturesOf(o), NoReadings)]
    /\ UNCHANGED <<picture, rescan, spent, readings, paid, missed, told, losses>>

\* A picture that has been scanned already is left alone.
Skip(o) ==
    LET a == First(job[o].left)
    IN  /\ job[o].at = "scan" /\ job[o].left # {}
        /\ picture[a].file.status # "unscanned"
        /\ job' = [job EXCEPT ![o].left = @ \ {a}]
        /\ UNCHANGED <<picture, rescan, spent, readings, paid, missed, told, losses>>

\* The count goes on over the limit; bound: one over is as good as any.
Counted == IF spent > MaxScans THEN spent ELSE spent + 1

WithinAllowance == spent < MaxScans

(* spend_receipt counts first, in one statement, and commits: what the job    *)
(* had read so far goes with it.  Over the limit the picture is marked failed.*)
SpendScan(o) ==
    LET a == First(job[o].left)
    IN  /\ job[o].at = "scan" /\ job[o].left # {}
        /\ picture[a].file.status = "unscanned"
        /\ spent' = Counted
        /\ picture' = Filed(job[o].holds)
        /\ job' = [job EXCEPT ![o] =
               IF WithinAllowance THEN Run("reading", @.left, Found(a))
               ELSE Run("scan", @.left \ {a}, [b \in {a} |-> [found |-> Expired, read |-> Failed]])]
        /\ UNCHANGED <<rescan, readings, paid, missed, told, losses>>

(* read_receipt answers or fails; a picture that cannot be fetched fails      *)
(* before the model is asked.  Either is recorded on the attachment.          *)
Read(o) ==
    LET a == First(job[o].left)
    IN  /\ job[o].at = "reading"
        /\ \E called \in {0, 1}, r \in {Failed, Reading(a)} :
             /\ r # Failed => called = 1
             /\ readings' = readings + called
             /\ job' = [job EXCEPT ![o] = Run("scan", @.left \ {a}, [@.holds EXCEPT ![a].read = r])]
        /\ UNCHANGED <<picture, rescan, spent, paid, missed, told, losses>>

File(o) ==
    /\ job[o].at = "scan" /\ job[o].left = {}
    /\ picture' = Filed(job[o].holds)
    /\ job' = [job EXCEPT ![o] = Run("filed", {}, NoReadings)]
    /\ UNCHANGED <<rescan, spent, readings, paid, missed, told, losses>>

-----------------------------------------------------------------------------
SameReference(a) ==
    {b \in Attached \ {a} : picture[a].file.reference # "none"
                            /\ picture[b].file.reference = picture[a].file.reference}

\* Mutant: any other picture with the reference, whichever came first.
AnyOther(a) == SameReference(a)

\* duplicate_of: only what came before.
DuplicateOf(a) == {b \in SameReference(a) : b <= a}

NoVerdict == [unscanned |-> "none", failed |-> "unreadable", not_receipt |-> "not_a_receipt"]

(* assess.  `near`: another amount is in the other currency, the shop has set *)
(* its riel rate, and at that rate it is within RATE_TOLERANCE of the total.  *)
Assess(a, near) ==
    IF picture[a].file.status # "read" THEN NoVerdict[picture[a].file.status]
    ELSE IF DuplicateOf(a) # {} THEN "duplicate"
    ELSE IF picture[a].file.reference = "none" THEN "unreadable"
    ELSE IF picture[a].shows.amount = "exact" \/ near THEN "match"
    ELSE "differs"      \* amount_mismatch, currency_differs

\* Those that came before, show the same reference, and of which a reading
\* stands.
Originals(a) ==
    {b \in Attached : b < a /\ picture[b].shows.reference = picture[a].shows.reference
                      /\ picture[a].shows # Junk /\ picture[b].stands}

(* The rest of run_scan: nothing for an order that is paid by now, otherwise  *)
(* one alert with the verdict on the first picture.                           *)
Alert(o) ==
    /\ job[o].at = "filed"
    /\ job' = [job EXCEPT ![o].at = "alerted"]
    /\ IF o \in paid THEN UNCHANGED <<missed, told>>
       ELSE /\ \E near \in BOOLEAN :
                 missed' = IF Assess(First(PicturesOf(o)), near) = "match"
                           THEN missed \cup Originals(First(PicturesOf(o))) ELSE missed
            /\ told' = [told EXCEPT ![o] = @ + 1]
    /\ UNCHANGED <<picture, rescan, spent, readings, paid, losses>>

\* The queue is told; or the worker is lost before, and the job is due again.
CompleteScan(o) ==
    /\ job[o].at = "alerted"
    /\ job' = [job EXCEPT ![o].at = "done"]
    /\ UNCHANGED <<picture, rescan, spent, readings, paid, missed, told, losses>>

Lose(o) ==
    /\ job[o].at \notin {"none", "due", "done"} /\ losses < MaxScanLosses
    /\ job' = [job EXCEPT ![o] = Run("due", {}, NoReadings)]
    /\ losses' = losses + 1
    /\ UNCHANGED <<picture, rescan, spent, readings, paid, missed, told>>

-----------------------------------------------------------------------------
(* scan_order_receipt: the status is reset and one reading is counted in one  *)
(* commit, the row loaded anew, and the outcome committed.  A request that is *)
(* lost leaves the picture unscanned.                                         *)
StartRescan(c, a) ==
    /\ rescan[c] = NoReadings
    /\ spent' = Counted
    /\ picture' = [picture EXCEPT ![a].file =
           IF WithinAllowance THEN Unscan(@) ELSE Failed, ![a].stands = @ /\ WithinAllowance]
    /\ rescan' = IF WithinAllowance THEN [rescan EXCEPT ![c] = Found(a)] ELSE rescan
    /\ UNCHANGED <<job, readings, paid, missed, told, losses>>

FinishRescan(c) ==
    \E a \in DOMAIN rescan[c] :
        /\ \E called \in {0, 1}, r \in {Failed, Reading(a)} :
             /\ r # Failed => called = 1
             /\ readings' = readings + called
             /\ picture' = Filed([rescan[c] EXCEPT ![a].read = r])
        /\ rescan' = [rescan EXCEPT ![c] = NoReadings]
        /\ UNCHANGED <<job, spent, paid, missed, told, losses>>

LoseRescan(c) ==
    /\ rescan[c] # NoReadings
    /\ rescan' = [rescan EXCEPT ![c] = NoReadings]
    /\ UNCHANGED <<picture, job, spent, readings, paid, missed, told, losses>>

\* The order is paid, by this receipt or otherwise (OrderPayment), at any time
\* until the job looks whether it is.
BePaid(o) ==
    /\ o \notin paid /\ job[o].at = "filed"
    /\ paid' = paid \cup {o}
    /\ UNCHANGED <<picture, job, rescan, spent, readings, missed, told, losses>>

ScanNext ==
    \E o \in Sales :
        \/ \E shown \in Arrivals : Arrive(o, shown)
        \/ TakeScan(o) \/ Skip(o) \/ SpendScan(o) \/ Read(o) \/ File(o) \/ Alert(o) \/ CompleteScan(o)
        \/ BePaid(o)

RescanNext ==
    \E c \in Rescans : (\E a \in Attached : StartRescan(c, a)) \/ FinishRescan(c) \/ LoseRescan(c)

LossNext == \E o \in Sales : Lose(o)

ReceiptsNext == ScanNext \/ RescanNext \/ LossNext

ReceiptsSpec == ReceiptsInit /\ [][ReceiptsNext]_receiptsVars

-----------------------------------------------------------------------------
(* The type of every variable.                                                *)
ReceiptsTypeOK ==
    /\ Attached = 1..Cardinality(Attached) /\ Attached \subseteq 1..MaxPictures
    /\ \A a \in Attached : picture[a].order \in Sales /\ picture[a].shows \in Shows
    /\ DOMAIN rescan = Rescans /\ \A c \in Rescans : DOMAIN rescan[c] \subseteq Attached
    /\ \A o \in Sales : job[o].left \subseteq PicturesOf(o) /\ DOMAIN job[o].holds \subseteq PicturesOf(o)

(* Of the pictures that show one transfer the first to arrive is never judged *)
(* a copy, whatever is read when (duplicate_of).                              *)
FirstStaysClean ==
    \A a \in Attached : (\A b \in 1..(a - 1) : picture[b].shows.reference # picture[a].shows.reference)
        => \A near \in BOOLEAN : Assess(a, near) # "duplicate"

(* The seller is not told that a copy matches while a reading of the original *)
(* stands, even one that is being repeated; it no longer stands once a failed *)
(* one was filed, not even if another ends well that had begun before.        *)
CopyIsNoMatch == missed = {}

(* The vision model is asked no more often than the day's allowance, whoever  *)
(* asks and whatever is lost.                                                 *)
ReadingsArePaidFor == readings <= MaxScans

(* A message is told of once, and once more only for a job that was lost; a   *)
(* job that is done has told of it unless the order was paid.                 *)
ToldOncePerMessage ==
    \A o \in Sales : told[o] <= 1 + losses /\ (job[o].at = "done" /\ o \notin paid => told[o] >= 1)

ReceiptsAreJudged == FirstStaysClean /\ CopyIsNoMatch /\ ReadingsArePaidFor /\ ToldOncePerMessage
=============================================================================
