# Apsara Assistant backend: specification and proofs

Apsara is a shop assistant: customers write on Messenger or Telegram, a model
answers them from the shop's catalogue, orders reserve stock, customers pay by
Stripe, KHQR (Bakong) or a bank receipt, and the seller works the same inbox and
orders by hand. These modules describe the parts of it in which several
requests, jobs and outside services meet on the same rows, check them on small
instances with TLC and prove the central invariants with TLAPS.

Paths below are relative to `src/app`.

## 1. The system

| component | state | operations | meets | what makes it correct |
|---|---|---|---|---|
| orders and reserved stock (`endpoints/orders.py`, `services/inventory.py`) | `orders`, `order_items`, `product_variants.stock`, `.reserved_stock`, reservation deadline | create (releases expired orders first), status change, delete, release expired, adjust | payment, returns, products | no oversell, no leaked reservation, no unit lost, an order being paid for keeps its units |
| stock transactions (`services/inventory.py`, `variants.py`) | row locks, product totals | lock orders, products, variants; move; sum; commit or roll back | every stock request | a request is atomic, no circular waits, totals are sums |
| payment (`endpoints/orders.py`, `webhooks.py`, `services/khqr_orders.py`, `khqr.py`, `stripe_gateway.py`) | payment status, method, time, amount; KHQR code and status | checkout, Stripe event, issue code, poll, check now, confirm receipt | orders, job queue, Stripe, Bakong, assistant | nothing paid without cause, no record of a payment lost, a reported payment is recorded, no payment for stock that was released, a payable code is watched |
| job queue (`services/queue.py`, `worker.py`) | `jobs` | enqueue, claim, finish, release stuck, prune | every deferred piece of work | one worker at a time, bounded attempts, every job ends |
| inbound messages and assistant (`services/inbound.py`, `handoff.py`, `quota.py`, `ai_service.py`) | customers, conversations, messages, manual mode, daily quota | store message, resume, spend, ask model, deliver | queue, conversations, payment | each message handled once, no reply while a person answers, one customer a person, the model asked within its allowance |
| conversations and drafts (`endpoints/conversations.py`, `chat.py`) | manual mode, unread, assignment, tags | send, take over, hand back, mark read, rehearse, draft order | inbound, accounts | counts and mode agree with what happened, a draft is what was asked for |
| customer updates, seller alerts, low stock (`services/customer_updates.py`, `seller_alerts.py`, `alerts.py`) | events told, alert episodes and their stamps | notify, deliver, open, resolve, scan | queue, orders, stock, the linked chat | told once, only what is true, and in the end |
| purchasing, returns, refunds (`endpoints/operations.py`) | purchase orders, returns | order, receive, return, refund | stock, orders | never receive more than ordered, return more than sold, refund more than paid |
| products, variants, images (`endpoints/products.py`, `services/catalogue.py`) | catalogue, thresholds, image order and cover | create, edit, delete | stock, alerts, the prompt | alerts follow the stock, one cover, positions without a gap |
| accounts (`endpoints/auth.py`, `staff.py`, `services/verification.py`, `throttle.py`) | users, codes, attempts | sign up, verify, sign in, reset, invite, deactivate | e-mail, conversations | codes single use, attempts bounded, threads held by people who are there |
| payment QR images (`endpoints/payment_qrs.py`) | codes, active, default | create, change, delete | assistant | one code to send while one is active |
| media (`services/storage.py`, `scripts/move_media.py`, `models/storage_tombstone.py`) | rows, objects, tombstones | store, delete, sweep, move | bucket | no row without its bytes, no object for ever without a row |
| receipt reading (`services/receipts.py`) | attachments and their readings, allowance | queue scan, scan, assess, read again | payment, queue, alerts | no copy told as a match while the original is on file, the original never taken for a copy, the seller is told |
| realtime (`services/realtime.py`, `endpoints/events.py`) | the listener, a bounded queue per stream | publish, resync, subscribe | all writers | an old view is always about to be refreshed |
| integrations (`endpoints/integrations.py`, `services/telegram_link.py`, `platforms.py`) | connections, the seller's linked chat | connect, switch off, link, unlink | seller alerts | a code links one chat |
| customers and privacy (`endpoints/customers.py`, `privacy.py`, `services/data_deletion.py`) | customers | add, edit, delete, erase | inbound, media, accounts | a person forgotten is forgotten |
| configuration, logging, schemas, migrations | none of their own | | | |

How the processes share this: the API is one uvicorn process. Order and
catalogue endpoints are plain functions and run in a thread pool, so any two
requests overlap; webhooks are coroutines that await nothing between reading an
order and committing. Jobs run in the API's drainer thread or in worker
processes. Sessions are READ COMMITTED, do not flush before queries
(`autoflush=False`), and an UPDATE names only the columns that differ from what
was loaded. What is hard follows from that: values read before a network call
and written after it, locks taken in different orders, unlocked reads under
locked writes, workers that die or outlive their lease, events delivered twice
or late. `PROJECT.json` lists these hazards, each at its line, with the
properties aimed at it.

## 2. The modules

    OrderStock       <- OrderStock_proofs         MCOrderStock
      ^ refined by  StockTx  <- StockTx_proofs    MCStockTx
      ^ used by     Operations <- Operations_proofs     MCBackOffice, MCOperations.cfg
      ^ refined by  OrderPayment <- OrderPayment_proofs
    JobQueue         <- JobQueue_proofs           MCJobQueue
    Inbound          <- Inbound_proofs            MCInbound
    Told  <- refined by  Notices                  MCNotices.cfg
    Notices  Accounts  Customers                       <- People_proofs
    LowStock  Realtime  Media  Gallery
    Receipts  SellerAlerts                             <- BackOffice_proofs
    Assistant
    (all of these but Told and Notices)           MCBackOffice

**OrderStock** is the abstract specification of orders and stock: every request
is one step on the committed columns. `status`, `payment`, `deadline` and `qty`
are the order's columns, `stock` and `reserved` the variant's, and `supplied`
is a history variable, the units put on the shelf minus those taken off it by
anything but an order. `update_order` has one action for each branch (`Cancel`,
`Reopen`, `Fulfil`, `TakeBack`, `Progress`). `CreateOrder(o, q, E)` releases the
expired orders `E` its query found and takes the new order's units in the same
step, as the code does in one transaction. Purchases, returns, opening balances
and adjustments are `AdjustStock(d)`, any change of the shelf the balance allows; Operations says which paper made it. A deadline that is `"running"` passes at any
time (`DeadlinePasses`). What the payment handlers do to these columns is
`CheckoutOpened`, `PaymentReported` and `ReceiptConfirmed`, in their most
general form, late and repeated ones included; OrderPayment has the detail, and is
proved to do nothing else to them.

**StockTx** is the same requests as database transactions: `tx[t]` is what a
transaction still has to lock and to move, and what it has in memory, `owner`
the row locks, `total` the products' stock. `LockOrder` reads the status under
the lock. `LockExpired` is the `FOR UPDATE` query of
`release_expired_reservations`: it found orders before it had their locks, in
no stated order, and checks each again when it gets one. `MoveItem` is
`move_stock` with `sync_product_totals`; the flush of a later statement sends
the previous product's UPDATE, which waits for that row. `Rollback` may strike
at any point. A product is locked whenever it is flushed, since its reserved
total changes or a movement row refers to it. What a transaction has still to do are sets, not lists:
rows of one table are locked by ascending `Id` (`ORDER BY`), orders that expired and the items of an order in any
order, since the query and the relationship name none. The `Kinds` of requests overlap
freely; the `Alone` kinds only set the scene, one at a time.
`TransactionsAreAtomic == Spec` is the refinement: OrderStock's variables are
StockTx's own, so every commit must be one OrderStock step.

**OrderPayment** follows one order. Three handlers do not hold the order's lock
between their read and their write and are two steps each: `create_checkout`
(`CheckoutReads`, `CheckoutWrites` or `CheckoutRefused`), the Stripe webhook
(`WebhookReads`, `WebhookWrites`) and the assistant's KHQR (`AssistantReads`,
`AssistantWrites` or `AssistantRollsBack`). The second step writes exactly the columns
that differ from what the first one saw, and any other step may come between. `RunCheck(c)` is the whole `khqr_check` job
with the next one it schedules, and `CheckRaises(c)` one that raises: its one attempt (`max_attempts=1`, `khqr_orders.py:87`) is
spent, the queue marks it FAILED (`queue.py:98`) and no other follows. Whether there is a Bakong token is open at each check. `bank` is what
Bakong knows of the last code, and a poll may always come back empty. `events` are the
deliveries Stripe still owes us; an acknowledged event may come again.
`vouched`, `expiredOut` and `abandoned` are history: money that reached the seller or a receipt the seller
accepted; that the cancellation in force was an expiry; that the watching of the last code ended in one of four ways, which are a check
that raised, a check without a token, a reply of the assistant that left the new code under the status of the one before
(`AssistantWrites`), and a `create_checkout` that took back a payment the checks had seen. `Accepted` is the set of statuses that
differ from pending and cancelled in nothing payment looks at: any of the four, so that a run may take one of them and
the proofs take all. `method` stands for `payment_method`,
`paid_at` and `paid_amount`, which are always written together. `Shop` is an instance of OrderStock
for this one order, and `PaymentKeepsTheBooks` the refinement: whatever a handler read and whenever it writes, the
step is one OrderStock has, or leaves the order alone.

**JobQueue** is the jobs table with its workers. `Claim` is the
`FOR UPDATE SKIP LOCKED` query and its commit. The handler ends (`HandlerReturns`,
`HandlerRaises`) outside any transaction of the queue; `Finish` then writes the
row by id, whoever holds it by then. `Crash` is a worker dying with a job in
hand, `LeaseLapses` time passing, for live workers as for dead ones.
`released` counts how often `release_stuck` took a job back.

**Inbound** follows one customer's messages. The queue is reduced to what JobQueue
proves of it: a job may be handled again (`jobs`, `Abandon` with the job back) and
`Deliver` adds jobs for a message while another worker handles it. `handle_inbound` is cut where it
commits or waits: `Take` (the duplicate check and the thread), `StoreMessage` (the
insert, on which the unique index has the last word), `Heard` (a voice note's call to
the seller), `ResumeBegins` and `Resume`, then `LeftToSeller`, `ReceiptLeftToReader` (a photo without a word while an order
awaits payment: nobody is called, a scan is queued), `ModelAsked` or `PhotoLost`, and after
the model's answer `AnswerSent` and `RecordAnswer`, `AnswerFails` and `NeedsSeller`, or
`AnswerEmpty`. `Abandon` is both a swallowed exception (the job is done) and a death
(it comes back). A worker remembers, in `called`, whether the seller had been called when it
last read the thread. The seller's requests (`send_message`, `update_conversation`) read the
thread (`SellerReads`) and write the columns that differ from what they read
(`SellerWrites`); the platform may refuse an answer in between. `quiet` says that
`manual_timeout_hours` have passed since the seller's last word. `sent`, `noticed`, `dropped`, `receipts`,
`hushed` and `pressed` are history: replies the platform took, messages whose
thread the seller was called to or answered, messages given up, photos left to the receipt reader, messages that came while a person had
the thread, and threads taken over by the button.
`ResumeOverlaps` says whether the seller may act in the middle of a resume.

**Operations** puts papers to what OrderStock calls supply. `INSTANCE OrderStock` (as `Stock`)
gives it the order handlers themselves, which here also wait for the lock of the order
(`LockedFree`) and may not delete an order with a return; `supplied` is defined, not kept: hand
adjustments, plus what purchases and returns have received. `create_return` and `refund_return`
lock the order, sum its other papers, and commit: two steps (`BeginReturn`, `CommitReturn`,
`BeginRefund`, `CommitRefund`), with `working` the open transactions. `receive_return` locks the
return only. `PapersKeepTheBooks` is the refinement: each step is a step of OrderStock.

**LowStock** is one product with its variants as the editor, the movements and the low-stock
alerts see them. `Judge` is `evaluate_low_stock` on what the transaction leaves; the handlers that do not
call it (`UpdateProduct` for threshold and archive flag) do not judge. `GET /alerts` reads
(`ScanReads`) and later writes (`ScanWrites`) or fails on a unique index (`ScanFails`).

**Told** is what customer updates promise: a piece of news is told while it is true, and again only
after the record of having told it was lost. **Notices** is how: `notify` queues a job with the
change (`Announce`), `deliver` locks the order and looks again (`Deliver`), the platform accepts or refuses, and
the record is committed (`Record`) or lost with its worker (`Lose`). `ToldAsPromised` maps
`heard` and `lost`, histories of what the customer received, and the order itself to Told. Jobs are as JobQueue
leaves them: given back, retried until the attempts run out, or given back whatever the attempts.

**SellerAlerts** is the way to the seller. `OpenWindow` and `Issue` are one request for a link code:
the codes outstanding are read, then retired with the commit of the new one. `StartClaim` and
`FinishClaim` are a chat opening a code. A direct alert (`Raise`, `StartDeliver`, `SendAlert`,
`EndDeliver`) is sent and not recorded; a low-stock alert (`TellLow`, `CommitLow`) goes to two channels and stamps the ones
that took it before a failure fails the job.

**Receipts** follows the pictures customers send for orders. A job takes its message's pictures, pays for a
reading (which commits what it has, as `spend_receipt` does), reads, files, and alerts with the verdict on the
first picture; `Lose` gives it back at any of these points. `StartRescan`, `FinishRescan` and `LoseRescan` are the seller
having a picture read again, with a commit in between; no lock keeps such requests apart, from each other or from the job. A session holds what
it found of the row and what it read (`Found`), and its commit writes the columns in which the two differ (`Written`), so a reading that
repeats what was found writes no reference, whatever became of it meanwhile. `Assess` is `assess` with its order of cases, and `DuplicateOf`
looks back only. A reading stands (`Stands`) until a failed one is filed, and is not made good by one that began before. `stands`, `missed`, `readings` and `told` are histories.

**Customers** is one person writing over one channel. `Find`, `FindThread` and `Store` are `handle_inbound` up to its first
commit. When the customer or the thread is deleted under it the database refuses, `handle_inbound` logs and returns (`inbound.py:248`, `:364`), the job has succeeded and the message is
lost (`LoseMessage`). Beside it the seller adds, deletes and reads (each a request of two steps, `desk`), rehearses, closes and
opens threads, and the person asks Meta to be forgotten (`Erase`). A flushed and uncommitted thread holds
its customer's row (`Pins`, `Pinned`, `Renaming`). `late` marks a customer forgotten while a worker had it.

**Accounts** is the people of one shop and the codes e-mailed to them. Nothing there locks a row, so
every handler is a request that reads (`Start...`) and commits (`Finish...`) what it decided. Two requests under way
about one matter of one person have met (`met`, `excused`: histories): what the code promises, it keeps
for requests that have not. A reset outdates the codes there are (`Outdate`) and has met the requests that had read a one-time code
(`EndReset`); `after` marks a code that was redeemed once outdated.

**Media** keeps `row`, `bucket` and `tombstones` apart, since nothing commits in both; `Delete` is any way
a row goes, cascades included, with the trigger. **Gallery** is product images and payment QRs, one request at a
time under their owner's lock: `position` is the column, `qrs` the codes in the order of `created_at`. **Realtime** is the trigger's announcements (`wire`), the listener, each stream's
queue and what the browser last fetched. **Assistant** is a rehearsal (`chat.chat`) and a draft (`chat.draft_order`): the window of the
history, the choice of products, the allowance, a model that answers anything, and what `split_photos`,
`split_payment_qr` and the selection of variants make of its answer. A reply of markers only leaves empty text (`WordsOf`), which is stored and is no turn of a later prompt
(`Wordless`). What the draft's prompt renders of the selection stops at `RowLimit` rows (`Renderings`): the variants of what was rendered are those read before the model is asked, those of the rest
are read after. A choice from a sequence is the set of positions
chosen (`Spoken`, `Wanted`), and `InOrder` puts them in a row again; a quantity is a set of pieces (`Pieces`).

**MCBackOffice** EXTENDS the ten modules that have no run of their own. They share no variable and no action, so
every behaviour of one is a behaviour of the shop in which the others rest, and exploring them side by side would
only multiply their states. `focus` picks, in the initial state, the component that moves, or one of
its matters where two matters meet in few variables (codes, invites, sign-ins and assignments of Accounts; people and threads of
Customers; receipts with re-reading and with lost jobs; links, alerts and low-stock alerts; rehearsal and drafting). What a focus leaves out is
only combined with itself: a sign-in is not interleaved with an invitation's code, but both are with members coming and going. The initial
states of what rests are narrowed to one, so that they are not counted again and again. Interchangeable ids of all components take one
of two pairs of model values, which makes swapping a pair a symmetry of all of them.

## 3. What the runs check

| run | instance | result |
|---|---|---|
| `order_stock` | 2 orders, 2 variants, up to 2 units a line, 3 units supplied | `TypeOK`, `ReservedIsOwed`, `Conservation`, `UnpaidPendingHasDeadline`, `PayingOrderKeepsItsStock` hold |
| `stock_tx` | 2 transactions, 2 orders, 2 variants of one product; creating and status changes overlap | `TxTypeOK`, `VariantsAreLockedInOrder`, `TransactionsAreAtomic` hold |
| `stock_drift` | the same rows, supplies and adjustments overlapping too | `TotalsAreSums` is violated |
| `payment` | 3 ways to pay, 1 accepted status, 2 codes, 1 poll and 1 event under way; everything overlaps | `TypeOK`, `PaidHasCause`, `PayableCodeIsWatched`, `RecordStandsUnlessOvertaken`, `ExpiryLeavesNoPage`, `ReportedMoneyIsRecorded`, `PaymentKeepsTheBooks` hold |
| `payment_stale` | the same with 1 code | `PaidIsForever` is violated |
| `payment_expired` | the same with 1 code | `NoStripePaymentAfterExpiry` is violated |
| `job_queue` | 2 workers, a job tried twice and one nobody handles, 2 crashes, 5 claims of a row | `TypeOK`, `SharedOnlyAfterRelease`, `SucceededWasPerformed`, `RepeatsOnlyAfterRelease`, `AttemptsAccountedFor`, `FinishedStaysFinished`, `EveryJobSettles` hold |
| `inbound` | 2 messages, 2 workers, 1 thread, everything overlapping | `TypeOK`, `OneReplyPerMessage`, `NobodyLeftInSilence`, `PersonNotTalkedOver` hold |
| `inbound_takeover` | 1 message, 1 worker, no overlap within a resume | `TakeoverStands` is violated |
| `backoffice` | ten components, each by itself, 18 foci; the bounds below | the eleven properties below hold |
| `notices` | 2 jobs tried twice, 1 loss, 3 of the statuses and the payment | `ToldAsPromised`, `LastingNewsArrives` hold |
| `goods_back_twice` | 1 order, 1 variant, 2 returns, 1 purchase of 1 unit | `GoodsComeBackOnce` is violated |

| property of `backoffice` | what it says |
|---|---|
| `PapersAddUp` | overlapping returns never name more than was sold, overlapping refunds never more than the order cost, and a purchase says what has come in |
| `PapersKeepTheBooks` | purchasing and returns are steps of OrderStock, whose balances therefore hold here |
| `AlertGoesWrongOnlyUnjudged` | an alert that is right turns wrong only by the product editor, or by a scan that commits what it read before a movement |
| `PicturesKept` | a kept picture's bytes are in its row or under its key; an object nobody names has a tombstone, or was stranded by a failed commit, a stopped script or two scripts on a row |
| `GalleriesHold` | no gap, one cover; one code to send while one is active, and the default is one |
| `OldNewsIsOnItsWay` | an open inbox showing something old has an event, a resync, an announcement or a reconnect before it |
| `AccountsHold` | one live code of a kind, used once, no more guesses than allowed, not redeemed after a reset that ended it, no thread with a leaver, no team too large -- unless two requests met; no code a reset ended is live |
| `PeopleAreKept` | one customer a person unless two were inserted at once; a stored message stays until erased or deleted; a message is refused and lost only with a customer deleted or forgotten under its worker; a person erased stays so unless a worker had just found them; unread says nothing only when nothing is |
| `ReceiptsAreJudged` | the first picture of a transfer is never a copy, no copy is told as a match while a reading of the original stands, readings stay in the allowance, each message is told of |
| `SellersAreReached` | a code links one chat unless two opened it together; each channel is told once, and again only for a loss |
| `AssistantKeepsToTheShop` | the customer speaks first, calls stay in the allowances, no words are lost, photos are of products selected and asked for, a draft adds up |

Why the bounds are enough: the core. Two orders and two variants have all of: an order
released to make room for another, orders competing for the last unit, an order
with two lines. `MaxSupply` 3 lets one order be full and the other short. In
StockTx one unit of each variant is enough to meet every refusal, and two
transactions are enough for each pair of requests to interleave; a third adds
waiting, and no new pair. In OrderPayment one code reaches every status and two
reach superseding, the assistant's included; one accepted status is enough, since payment looks only at pending and cancelled; one event has
a second page opened and paid after the first is heard, and an event delivered again; one poll for each code leaves room for the next or for the one that comes back. `MaxClaims` 5 is above `MaxAttempts` plus the
number of releases that two crashes cause, and leaves room for leases that lapse
under live workers; the bound only stops claims of a row that was released that
often. In Inbound one job per message is queued at a time and another arrives as soon as it is
taken, so a message is handled by both workers at once and any number of times. With one
thread a customer who writes after it was closed is not served; the same
properties were checked with two threads (7.4 million states, too long for a
regular run). Deadlock is checked except in `job_queue`, `notices`, `backoffice` and `goods_back_twice`, where
everything may be done: no job, key or code is left, and nothing changes any more.

The back office. One order of up to 2 units of one variant with two returns has every partial return and refund, two of
them at once, and cancellation around them; one purchase comes in two deliveries. Two variants of one product make it have
and lose its lone variant; `MaxShelf` 1 with thresholds 0 and 1 crosses the threshold both ways. A queue of 2 events overflows with
changes of two rows. Two pictures, two scripts and three keys let a script overtake another on one row. Three images and three
codes reach every reordering and promotion. Two requests give every pair; `OtpMaxAttempts`, `LoginMaxAttempts` and `MaxStaff` 1 put each ceiling
within reach, and two codes are the one outstanding and the one asked for. Two messages, two desks, two customers and two threads make a person two customers, and
have each row deleted under a worker. Two pictures with one reference are an original and its copy, in one message or two; two requests re-read one picture at once, and four readings are enough for that and run out when a job is repeated. Three link codes put a retired one beside two live ones. `HistoryLimit` 2 cuts a thread of
three, `CatalogueLimit` 2 with `RowLimit` 1 selects products the prompt has no room for, two replies put photos, a QR or an empty answer in the window of the second, and two tokens or items name one thing twice. In `notices` two jobs announce the same event; a third loss adds only
repetition.

Fairness. `JobQueue`: clocks advance, a worker goes on with its job, the work
loop reaps every lease period (`queue.work`), and, because rows are claimed in
order of `run_after`, a row that is claimable again and again is claimed in the end
(strong fairness; a worker is not always idle). `OrderPayment`: Stripe redelivers until it is
heard and a webhook that began ends, so its two steps are weakly fair: while an event is owed, one of them can be taken. No fairness is assumed of
customers, the seller, Bakong or the KHQR jobs. `Notices`: a waiting job is delivered (what `EveryJobSettles` shows of the
queue), its record is written, and a call to a platform ends, since `send_reply` has a timeout; whether it ends well is
left open, as are the seller's changes and losses. Whoever holds the order's lock commits, so weak fairness is enough:
the jobs that wait for it do not find it taken for ever.

## 4. Where the code and its documentation disagree

Five runs show it, and `PROJECT.json` describes them under "findings":

- `payment_stale`: `create_checkout` (`endpoints/orders.py:424`) turns an order that was
  paid during its call to Stripe back to "pending".
- `payment_expired`: the same line hands out a payment page for an order that expired during the call, whose units are
  on sale again; the customer pays, and the webhook makes it the "paid, oversold order" that `inventory.py:133` means to prevent.
- `stock_drift`: two transactions on different variants of a product lose one of
  the two changes in the product's total (`services/variants.py:37`).
- `inbound_takeover`: answering on a thread that was taken over by the button makes it a
  takeover that expires (`endpoints/conversations.py:514`), so the assistant resumes a
  thread nobody handed back.
- `goods_back_twice`: a return is received into stock whatever became of its order (`endpoints/operations.py:217`), so goods
  that were returned and whose order is cancelled are put back twice.

Seen while modelling, with instances or properties not kept as runs:

- A receipt confirmed or a KHQR found paid between the webhook's read and its write is overwritten with "stripe" and
  a new time (`webhooks.py:185-211`), against "Writing only on the transition keeps paid_at the time of the payment"
  (`webhooks.py:198`). `RecordStandsUnlessOvertaken` allows exactly that and the stale checkout.
- A webhook that read the order as paid answers so to Stripe, even if a stale `create_checkout` has just taken that payment back: the
  second payment is then recorded by nobody (`HeardInVain`).
- An order with a live KHQR stays "unpaid", so its reservation expires and its units
  are sold; `run_check` then marks the cancelled order paid. The comment at
  `services/inventory.py:133` reasons about payment links only.
- "One look at Bakong; schedules the next until paid or expired" (`khqr_orders.py:138`): a check that raises has spent its one
  attempt and nothing follows it; one without a token ends its chain (`khqr_orders.py:152`), and a token that
  returns does not start it again; the assistant, issuing a code on a copy
  of the order in which the previous one was still "issued", leaves the new one marked
  "expired" and unwatched; and after `create_checkout` has taken a KHQR payment back nobody looks again. `PayableCodeIsWatched`
  allows exactly these four (`abandoned`).
- A code another has replaced can still be paid at the bank, and nobody asks about it (`CustomerPaysOldCode`).
- Requests do deadlock (PostgreSQL then aborts one): `create_order` locks product before
  variants, a status change variants before the product; an expiry locks one order's
  variants after another's; two changes on disjoint variants of two products
  meet those products in opposite orders. `VariantsAreLockedInOrder` is what stable order
  does give.
- A photo that could not be fetched and has no caption calls nobody on an automatic
  thread (`inbound.py:289`), and a reply that is nothing but markers is dropped together with
  its request for the seller (`inbound.py:353`). Inbound counts both as `dropped`.
- A photo without a word while an order awaits payment calls nobody (`inbound.py:283-292`), although "the seller is told straight away"
  (`inbound.py:257`): the scan's alert goes to a linked chat, and a seller without one learns of it by looking. Inbound keeps such messages in `receipts`.
- A seller's answer during a resume changes no column, since the copy shows the
  thread manual already: the resume stands.
- "Each is sent once" (`README.md:34`): a customer update is sent and then recorded (`customer_updates.py:141-152`), and a worker
  that dies in between has it sent again. `ToldAsPromised` allows exactly that.
- "Only one code of a given kind is ever live per user" (`verification.py:67`): two requests for a code that overlap each retire
  what they saw and leave two. `CodesAreSingle` allows exactly that.
- A password reset retires one-time codes (`auth.py:314`), but a request that read a code or a link before the reset committed redeems it
  after, and signs in (`verification.py:132-154`): `after` and `met` in Accounts.
- A message whose customer or thread is deleted under its worker is lost, and its job succeeds (`inbound.py:364`): `LoseMessage` in Customers.
  So is one whose handling meets any other error before the first commit; Customers has the errors that other requests cause, Inbound's `Abandon` all of them.
- A worker that had found a customer before they were erased stores its message with the anonymised customer
  (`data_deletion.py:48`, `inbound.py:57`): `late` in Customers.
- A reading of a receipt that is repeated and fails takes the reference off the file, and a copy then reads as a match
  (`receipts.py:153`, `orders.py:522`): `stands` in Receipts. Two re-readings that overlap, of which one fails
  and the other reads what was there before, leave the status "read" and no reference.
- "Only ids of products rendered in the prompt are honoured" (`ai_service.py:50`): the prompt stops at `CATALOGUE_VARIANT_LIMIT` rows, and
  `split_photos` honours every product that was selected; a draft likewise accepts every active variant of the selection.
- A reply of markers only is stored as an empty message (`chat.py:228`), which later prompts skip.
- The product editor changes a threshold or the archive flag without judging the alerts (`products.py:417`), and a scan of
  the alerts may write what is no longer so.

## 5. What is proved

For every set of orders and variants and every bound:

- `OrderStock_proofs`: `TypeCorrect`, `NoReservationLeaks`, `StockIsConserved`, `EveryClaimCanExpire`,
  `PayingOrderIsSafe`. The inductive invariant is type correctness together with the
  two balance equations: a movement's refusals alone do not keep `reserved` right,
  and the equations alone do not keep counts natural. Claims are sets of
  `<<order, k>>` pairs, so the sum over orders is a cardinality; the lemmas
  say how it changes when one order or a set of orders joins or leaves, and every action
  is an instance of one of them.
- `OrderPayment_proofs`, all of it whatever overlaps: `TypeCorrect`, `NothingPaidForFree`, `RecordStands`, `ExpiryIsClean`,
  `CodesAreWatched`. `RecordStands` is a property of each step: whoever rewrites a payment is a handler that read the order
  before it was paid. `ExpiryIsClean` needs that an unpaid order owes nothing (`UnpaidOwesNothing`: no page, no event, no webhook under way),
  which `create_checkout` keeps because it writes "pending" with the page. `WatchInv` adds to `PayableCodeIsWatched` that
  a code shown as paid was paid for and one shown as expired is dead at the bank, unless its watching was given up; what gives it up is in
  the model (`abandoned`), so nothing is assumed of tokens, failures or overlap.
  `PaymentIsTheShops` is the refinement `PaymentKeepsTheBooks` whatever overlaps, the checkout included. A page opened on what
  was read before the call is a `CheckoutOpened`, because a handler that read another status than "unpaid" cannot be
  writing on an unpaid order (`CheckoutKnowsUnpaid`: no handler makes an order unpaid again). What OrderStock_proofs shows of a step therefore holds
  here: `UnpaidOrdersAreTimed` takes it over through an instance, that no overlap leaves a pending, unpaid order without a deadline.
- `JobQueue_proofs`: `TypeCorrect`, `JobsAreShared`, `PerformedAsPromised`, `RunAgainOnlyIfReleased`, `AttemptsAreBounded`,
  `FinishedIsFinal`. The
  argument counts claims: the workers holding a row, plus one if it lies claimable, exceed one only by the times it was released.
- `Inbound_proofs`: `TypeCorrect`, `RepeatsAreNoOps`, `EveryMessageIsSeen`, `PersonIsLeftAlone`. A worker that stored a
  message owns it. The invariant says that a message has one owner at most, that it is unanswered as long as its owner
  has not sent, that a call the owner remembers did reach the message, and that a hushed message is on its way to the
  seller. `StepKinds` reduces the actions to four kinds: nothing happens to messages, one is stored, its owner goes
  on, or is done with it; each kind keeps the invariant. Being done with it includes leaving a photo to the receipt reader.
- `Operations_proofs`: `PapersAlwaysAddUp`, for finite sets of variants and returns (`PapersAssumption`). Between its two
  steps a transaction remembers a sum; the invariant says that at most one transaction holds an order's lock, and that what it
  remembers is still the sum. An order with returns keeps its quantities, since the order handlers wait for the lock and
  a delete is refused; so the bounds carry over. `CountJoin` is what one more paper does to a cardinality. `PapersUseTheStock` is the refinement
  `PapersKeepTheBooks`: a delivery or a received return changes the sums that `supplied` is defined by as much as it changes the
  shelf, so it is an `AdjustStock`; the order handlers are OrderStock's own under one more guard, and the rest stutters.
  Through an instance of OrderStock_proofs (`Books`) this brings OrderStock's theorems to the shop with purchases and returns: `PapersBalance` says
  that reservations are what open orders hold and that no unit is lost, with what the papers say for supply. `PapersTypeCorrect` needs that balance:
  the shelf has no bound of its own, it is what came in less what is out.
- `StockTx_proofs`: `LocksMakeRequestsAtomic` is the refinement, that transactions which lock row after row and work on what
  they have in memory implement OrderStock; with it OrderStock's own invariants hold of what is committed
  (`CommittedBooksBalance`). `TxIInv` says that the status a transaction read is the committed one as long as it holds the
  order's lock, and that what it has in memory of a variant it holds is what is committed plus what it has moved of
  the orders behind it and of the one it is at (`MemoryHolds`); what it does not hold it has not moved. A commit then is the
  OrderStock request of its `kind`, and everything else a stutter. `NoDeadlockOnVariants` needs `Climbs`: an update, a
  deletion or a supply holds smaller ids than it has still to lock. A circle among such requests has
  one that holds the largest id (`LargestOf`), and it waits for nobody in the circle. `TransactionsAreTyped` includes that no
  transaction works with less than nothing on the shelf. Assumed: a finite catalogue with ids
  (`CatalogueAssumption`), and that rows of different tables differ (`TablesAssumption`).
- `People_proofs`, three components:
  - Accounts: `AccountsTyped`, `AccountsAlwaysHold`. Requests here read, and commit what they decided without a lock, so what a
    request read may be gone. The invariant says when it is not: two requests under way about one matter of one person have
    both met (`Meets`), and what a request that met nobody has read is still so: the code it redeems is unused
    and has as many attempts, the codes it does not retire are not live, the team has room, the assignee is there. An unmet
    request thus keeps every promise, and one that met is excused. A reset outdates codes and meets the requests that read them, so a code
    redeemed once outdated has met. Sign-ins pass their ceiling by at most those under way, since
    failures and sign-ins under way together stay below it (`LoginsHold`).
  - Customers: `CustomersTyped`, `PeopleAreAlwaysKept`. A row once used is never unused again, a thread's customer never
    changes and what was said in a thread only grows, so what a worker read stays good enough. Unless an insertion overlapped another, there is
    one known customer, or one request that is about to insert one (`OneHolds`); a customer forgotten is held by no
    worker unless it was held at the time (`late`), so nothing is stored with it. A thread is gone only with its customer, so a
    worker that finds neither, and loses its message, had a customer who was deleted or forgotten (`Left`).
  - Notices: `NoticesKeepPromise`, that Notices implements Told, with no assumption on its constants. At most one job holds the
    order; its news is true and unrecorded; and an event was heard once for its record, once for each record lost, and once
    if it is on its way to being recorded. `PlatformAccepts` is then a `Tell`, losing a sent update a `LoseRecord`, and the
    rest `OrderChanges` or a stutter.
- `BackOffice_proofs`, seven components:
  - LowStock: `LowStockTyped`, and `MovementsKeepAlertsTrue`, an action property: whatever `Judge` left behind tells the truth
    (`JudgedTellsTheTruth`).
  - Realtime: `RealtimeTyped`, `NoNewsIsLost`. `OldNewsIsOnItsWay` is inductive with the types, given a queue of at least one event
    (`BoundsAssumption`); `OfferLosesNothing` is the heart of it.
  - Media: `MediaTypeCorrect` and `PicturesAreKept`, if the absence of a key is no key (`KeyAssumption`). Each key given out
    is owned by one row, one upload or one script that is moving a blob out, and an owned key has its object and no tombstone;
    a script that is moving a blob in owns nothing, so committing it entombs only what no other owner has.
  - Gallery: `GalleryTyped`, `GalleriesAlwaysHold`. Positions number the images from zero, each once (`Numbers`), so all
    numbers below the size are taken (`AllAreTaken`); ranks among what a deletion leaves number it again. At most one code is
    the default, and it is active.
  - Assistant: `AssistantTyped`, `AssistantAlwaysKeepsToTheShop`. `InOrder` is shown to name each position of a finite set
    once, so that words, photos and lines can be argued about as sets. A message that was taken stays where it was put and keeps its
    words, so while it is within the window the prompt has a turn (`WordsAreInSight`), whatever empty answers, photos and codes surround it. Between its steps a turn keeps variants of the products selected, so a draft's lines are of those; pieces
    asked for a variant are counted over the items that mean it, whether the code or the promise picks them. A call of the
    model is counted before it is made, so there are never more calls than counted, and none past its limit.
  - Receipts: `ReceiptsTyped`, `ReceiptsAreAlwaysJudged`. A file names the reference its picture shows or none, whichever columns a commit writes, and a reading
    that stands has left it there, so a copy that reads as a match has no earlier reading that stands. A call of the model is paid for
    before it is made, by jobs and by any number of requests (`CallsArePaid`), and a message is told of once more than there were losses at most.
  - SellerAlerts: `AlertsTyped`, `SellersAreAlwaysReached`. A code used is not live, and one that no two chats opened together
    has one chat that uses it or is about to (`Takers`). Of the alerts a channel carried, the job or a stamp remembers
    one, and losses account for the others.

Each `...Assumption` says no more than that the program's tables are finite, its limits are natural numbers (a limit on attempts is
not 0), and that a value standing for absence is none of the values. A proof module assumes those of every component it
EXTENDS; the argument of a component uses only its own.

Four proofs changed the model. `Assess` was a CASE with overlapping guards, of which TLA+ takes any, while
`receipts.assess` takes the first that holds: it is now a chain of IFs with the statuses that need no reading in
`NoVerdict`. `DeleteImage` now gives each image the rank its position has among those left, which is what renumbering
the list that the query sorts comes to, and needs no sequence to be chosen. `PaymentIsTheShops` failed on OrderStock's
`PaymentReported`: it knew only of a first payment that clears the deadline it finds, while a webhook that read the order before
a checkout gave it a deadline leaves that deadline, and one that read before another payment pays again; OrderStock was
proved anew with the wider action. Assistant's folds over a reply and a thread became sets of positions, the same choice without
an order of evaluation, which its theorems needed.

Only model-checked:

- The liveness properties `EveryJobSettles`, `ReportedMoneyIsRecorded` and `LastingNewsArrives`: TLAPS here has no rules for
  fairness. Every other property of a passing run, types, invariants, action properties and refinements, is a theorem.
- The five properties the code violates.

## 6. What is left out, and the plan

Not modelled, and why:

- Configuration, logging, schemas, migrations, `core/`, `email.py`, `fake_ai.py`: no state that outlives a call.
- Parsing and sending in `services/platforms.py`, KHQR payloads, Stripe's signature, prompts, texts and languages: formats. That a
  message is refused, repeated, late or lost is in the modules that send or receive it.
- Prices, currencies and totals in money (a unit costs 1 in Operations), tags, notes, suppliers, contact fields and profile
  fields: single rows that one request writes and no other rule reads. Reports and lists read only.
- Which variant an image is tagged with (`products.py:323`), and the ceilings per network address beside the ones per
  account (`throttle.py`), which work the same way.
- Inactive variants in product totals (StockTx); the locks taken by the product and variant editor.
- An order deleted under payment, or with an update queued (OrderPayment, Notices): the handlers then find no order and end.
- Photos and QR codes that the channel path sends (`inbound.py`) are in Assistant as `chat.py` sends them.

What would be worth doing next, most important first:

1. How long a code can stay unwatched once its watching was given up, and that the customer's next request for a code or the seller's
   "check now" still finds the money.
2. The editor's locks (`products.py`) in StockTx, so that `NoDeadlockOnVariants` says which pairs it can deadlock with.
