------------------------------ MODULE Assistant ------------------------------
(* The assistant as the seller rehearses it and as it drafts an order: what   *)
(* is taken of the catalogue and of the thread, and what is made of the       *)
(* model's answer.  The model may answer anything; the catalogue and the thread   *)
(* change while it thinks.                                                    *)
EXTENDS Integers, FiniteSets, Sequences

CONSTANTS
    Products, VariantNumbers,   \* each product has a variant of each number
    Tabs,                   \* requests of the dashboard under way at once
    HistoryLimit, CatalogueLimit, RowLimit, MaxPhotos,
        \* HISTORY_LIMIT, CATALOGUE_LIMIT, CATALOGUE_VARIANT_LIMIT, MAX_PHOTOS_PER_REPLY
    ReplyLimit, DraftLimit,     \* AI_DAILY_REPLY_LIMIT, AI_DAILY_DRAFT_LIMIT
    MaxMessages, MaxTokens, MaxItems, MaxQuantity   \* bounds: the thread, and the model's answers

ASSUME ShopAssumption == IsFiniteSet(Products) /\ IsFiniteSet(VariantNumbers)
ASSUME WindowAssumption == HistoryLimit \in Nat \ {0, 1} /\ MaxPhotos \in Nat
ASSUME AllowanceAssumption == ReplyLimit \in Nat /\ DraftLimit \in Nat

Saleable == Products \X VariantNumbers

\* A reply is words and markers; a marker may name any product, shown or not.
Word         == <<"word">>
QrMarker     == <<"qr">>
SellerMarker == <<"seller">>
Photo(p)     == <<"photo", p>>
Tokens       == {Word, QrMarker, SellerMarker} \cup {Photo(p) : p \in Products}
Replies      == UNION {[1..n -> Tokens] : n \in 1..MaxTokens}

\* What the model extracts: a product, a variant of it or of another or none,
\* and a quantity.
NoVariant == <<"none">>
Items     == [product : Products, variant : Saleable \cup {NoVariant}, quantity : 1..MaxQuantity]
Extracts  == UNION {[1..n -> Items] : n \in 0..MaxItems}

VARIABLES
    onSale,     \* active products
    offered,    \* active variants
    pictured,   \* products with a photo
    hasQr,      \* whether the shop has a default payment QR
    thread,     \* the conversation's messages: who sent it and what it is
    open,       \* the conversation is not closed
    turn,       \* what each request has read, and where its message stands
    replies, drafts,    \* AiUsage.count and draft_count
    calls,      \* history: the model calls of each kind
    accepted,   \* history: customer messages taken
    prompt,     \* history: the turns the model was last sent, and whether the
                \* message it was to answer was within the window
    outcome     \* history: the last reply or draft, next to what it was made from

assistantVars == <<onSale, offered, pictured, hasQr, thread, open, turn, replies, drafts,
                   calls, accepted, prompt, outcome>>

ShopVars == <<onSale, offered, pictured, hasQr>>

\* A QR has no words, and a reply of nothing but markers leaves none.
Wordless   == {"empty", "qr"}
Utterances == [sender : {"customer", "assistant", "seller"}, kind : {"text", "photo"} \cup Wordless]
Text(sender) == [sender |-> sender, kind |-> "text"]
Quiet == [at |-> "idle", message |-> 0, selected |-> {}, rendered |-> {}, variants |-> {}]
Nothing == [is |-> "none"]

AssistantInit ==
    /\ onSale \in SUBSET Products /\ offered \in SUBSET Saleable
    /\ pictured \in SUBSET Products /\ hasQr \in BOOLEAN
    /\ thread   = <<>> /\ open = TRUE
    /\ turn  = [r \in Tabs |-> Quiet]
    /\ replies  = 0 /\ drafts = 0
    /\ calls    = [reply |-> 0, draft |-> 0]
    /\ accepted = 0 /\ prompt = [turns |-> <<"user">>, heard |-> TRUE]
    /\ outcome  = Nothing

-----------------------------------------------------------------------------
\* Positions in a sequence, from the first to the last.
InOrder(S) == [n \in 1..Cardinality(S) |-> CHOOSE i \in S : Cardinality({j \in S : j < i}) = n - 1]

\* The last HistoryLimit messages, oldest first.
WindowStart == IF Len(thread) > HistoryLimit THEN Len(thread) - HistoryLimit + 1 ELSE 1

Recent == SubSeq(thread, WindowStart, Len(thread))

\* ROLE_BY_SENDER; a message without words is no turn.
Role(m) == IF m.sender = "customer" THEN "user" ELSE "assistant"

Spoken(history) == {i \in DOMAIN history : history[i].kind \notin Wordless}

TurnsOf(history) ==
    [n \in 1..Cardinality(Spoken(history)) |-> Role(history[InOrder(Spoken(history))[n]])]

(* build_messages: the customer speaks first; words of the shop that open the *)
(* window are introduced.                                                     *)
TurnsSent(history) ==
    IF TurnsOf(history) # <<>> /\ Head(TurnsOf(history)) = "assistant"
    THEN <<"user">> \o TurnsOf(history) ELSE TurnsOf(history)

(* select_products: all that is active while it fits, and otherwise some      *)
(* CatalogueLimit of it, by a score of what was said.                         *)
Selections ==
    IF Cardinality(onSale) <= CatalogueLimit THEN {onSale}
    ELSE {S \in SUBSET onSale : Cardinality(S) = CatalogueLimit}

\* The prompt's rows stop within the product that fills RowLimit; which come
\* before is a matter of age or score.
PromptRows(S) == Cardinality({v \in offered : v[1] \in S})

Renderings(selected) ==
    {S \in SUBSET selected :
        /\ S = {} \/ \E last \in S : PromptRows(S \ {last}) < RowLimit
        /\ S = selected \/ PromptRows(S) >= RowLimit}

-----------------------------------------------------------------------------
\* The shop writes in the thread: an order update, or the seller.
ShopWrites(sender) ==
    /\ Len(thread) < MaxMessages
    /\ thread' = Append(thread, Text(sender))
    /\ outcome' = Nothing
    /\ UNCHANGED <<open, turn, replies, drafts, calls, accepted, prompt>> /\ UNCHANGED ShopVars

CloseThread ==
    /\ open
    /\ open' = FALSE
    /\ outcome' = Nothing
    /\ UNCHANGED <<thread, turn, replies, drafts, calls, accepted, prompt>> /\ UNCHANGED ShopVars

\* The seller puts products and variants on sale, and takes them off.
EditProduct ==
    /\ \E p \in Products : onSale' = (onSale \ {p}) \cup ({p} \ onSale)
    /\ outcome' = Nothing
    /\ UNCHANGED <<offered, pictured, hasQr, thread, open, turn, replies, drafts, calls, accepted, prompt>>

EditVariant ==
    /\ \E v \in Saleable : offered' = (offered \ {v}) \cup ({v} \ offered)
    /\ outcome' = Nothing
    /\ UNCHANGED <<onSale, pictured, hasQr, thread, open, turn, replies, drafts, calls, accepted, prompt>>

(* chat: the customer's message is committed before anything else.            *)
TakeMessage(r) ==
    /\ turn[r].at = "idle" /\ open /\ Len(thread) < MaxMessages
    /\ thread' = Append(thread, Text("customer"))
    /\ accepted' = accepted + 1
    /\ turn' = [turn EXCEPT ![r].at = "taken", ![r].message = Len(thread) + 1]
    /\ outcome' = Nothing
    /\ UNCHANGED <<open, replies, drafts, calls, prompt>> /\ UNCHANGED ShopVars

\* The count goes on over the limit; bound: one over is as good as any.
SpendOne(used, limit) == IF used > limit THEN used ELSE used + 1

WithinLimit(used, limit) == used < limit

(* The history, the selection and the allowance, and then the model; over the *)
(* limit the turn ends there (429).  What of the selection the prompt renders *)
(* has no bearing: the model may answer anything.                             *)
Ask(r) ==
    /\ turn[r].at = "taken"
    /\ replies' = SpendOne(replies, ReplyLimit)
    /\ IF WithinLimit(replies, ReplyLimit)
       THEN \E selected \in Selections :
              /\ turn' = [turn EXCEPT ![r].at = "asked", ![r].selected = selected]
              /\ calls' = [calls EXCEPT !.reply = @ + 1]
              /\ prompt' = [turns |-> TurnsSent(Recent), heard |-> turn[r].message >= WindowStart]
       ELSE turn' = [turn EXCEPT ![r] = Quiet] /\ UNCHANGED <<calls, prompt>>
    /\ outcome' = Nothing
    /\ UNCHANGED <<thread, open, drafts, accepted>> /\ UNCHANGED ShopVars

Asks(reply, token) == \E i \in DOMAIN reply : reply[i] = token

MaySend(selected) == selected \cap pictured

(* split_photos: of what was selected, rendered in the prompt or not, what    *)
(* has a photo, once each, up to MaxPhotos, in the order asked.               *)
Wanted(reply, selected) ==
    {i \in DOMAIN reply : /\ \E p \in MaySend(selected) : reply[i] = Photo(p)
                          /\ \A j \in DOMAIN reply : reply[j] = reply[i] => i <= j}

PhotosOf(reply, selected) ==
    LET at   == InOrder(Wanted(reply, selected))
        many == Cardinality(Wanted(reply, selected))
    IN  [n \in 1..(IF many <= MaxPhotos THEN many ELSE MaxPhotos) |-> reply[at[n]][2]]

\* What is left of a reply without its markers.
WordsOf(reply) == [sender |-> "assistant", kind |-> IF Asks(reply, Word) THEN "text" ELSE "empty"]

(* The reply is stored as it reads without markers, if only as empty text,    *)
(* then a message for each photo, and the QR when it is asked for and the     *)
(* shop has one.                                                              *)
Answer(r, reply) ==
    LET photos == PhotosOf(reply, turn[r].selected)
        images == [i \in 1..Len(photos) |-> [sender |-> "assistant", kind |-> "photo"]]
        qr     == IF Asks(reply, QrMarker) /\ hasQr THEN <<[sender |-> "assistant", kind |-> "qr"]>> ELSE <<>>
    IN  /\ turn[r].at = "asked"
        /\ thread' = thread \o <<WordsOf(reply)>> \o images \o qr
        /\ turn' = [turn EXCEPT ![r] = Quiet]
        /\ outcome' = [is |-> "reply", photos |-> photos, asked |-> {p \in Products : Asks(reply, Photo(p))},
                       selected |-> turn[r].selected]
        /\ UNCHANGED <<open, replies, drafts, calls, accepted, prompt>> /\ UNCHANGED ShopVars

\* AIError: the turn ends (503), and what was committed stays.
Fail(r) ==
    /\ turn[r].at \in {"asked", "drafting"}
    /\ turn' = [turn EXCEPT ![r] = Quiet]
    /\ outcome' = Nothing
    /\ UNCHANGED <<thread, open, replies, drafts, calls, accepted, prompt>> /\ UNCHANGED ShopVars

-----------------------------------------------------------------------------
(* draft_order: with words in the history and a product on sale.  The         *)
(* allowance is committed before the variants are read for the prompt; those  *)
(* of a product the prompt has no room for are read after the answer.         *)
StartDraft(r) ==
    /\ turn[r].at = "idle"
    /\ Spoken(Recent) # {}
    /\ onSale # {}
    /\ drafts' = SpendOne(drafts, DraftLimit)
    /\ IF WithinLimit(drafts, DraftLimit)
       THEN \E selected \in Selections : \E rendered \in Renderings(selected) :
              /\ turn' = [turn EXCEPT ![r] =
                    [at |-> "drafting", message |-> 0, selected |-> selected, rendered |-> rendered,
                     variants |-> {v \in offered : v[1] \in rendered}]]
              /\ calls' = [calls EXCEPT !.draft = @ + 1]
              /\ prompt' = [turns |-> <<"user">>, heard |-> TRUE]
       ELSE UNCHANGED <<turn, calls, prompt>>
    /\ outcome' = Nothing
    /\ UNCHANGED <<thread, open, replies, accepted>> /\ UNCHANGED ShopVars

\* Mutant: the first variant stands for a product of several.
FirstOf(item, variants) == {v \in variants : v[1] = item.product /\ v[2] = 1}

\* A product named without a variant means its only active one.
OnlyVariant(item, variants) ==
    LET active == {v \in variants : v[1] = item.product}
    IN  IF Cardinality(active) = 1 THEN active ELSE {}

\* The variant an extracted item stands for, if any: an active one of the
\* product it names, when that was selected.
Selected(item, selected, variants) ==
    IF item.product \notin selected THEN {}
    ELSE IF item.variant = NoVariant THEN OnlyVariant(item, variants)
    ELSE {v \in variants : v = item.variant /\ v[1] = item.product}

\* How many pieces some of the extracted items come to.
Pieces(S, items) == Cardinality({u \in S \X (1..MaxQuantity) : u[2] <= items[u[1]].quantity})

\* Lines of one variant are added up; the rest are warnings.
Lines(extract, selected, variants) ==
    [v \in UNION {Selected(extract[i], selected, variants) : i \in DOMAIN extract} |->
        Pieces({i \in DOMAIN extract : v \in Selected(extract[i], selected, variants)}, extract)]

FinishDraft(r, extract) ==
    LET q == turn[r]
        variants == q.variants \cup {v \in offered : v[1] \in q.selected \ q.rendered}
    IN  /\ q.at = "drafting"
        /\ outcome' = [is |-> "draft", extract |-> extract, selected |-> q.selected, variants |-> variants,
                       lines |-> Lines(extract, q.selected, variants)]
        /\ turn' = [turn EXCEPT ![r] = Quiet]
        /\ UNCHANGED <<thread, open, replies, drafts, calls, accepted, prompt>> /\ UNCHANGED ShopVars

ThreadNext == CloseThread \/ \E sender \in {"assistant", "seller"} : ShopWrites(sender)

RehearseNext ==
    \E r \in Tabs :
        \/ TakeMessage(r) \/ Ask(r) \/ Fail(r)
        \/ \E reply \in Replies : Answer(r, reply)

DraftNext ==
    \E r \in Tabs :
        \/ StartDraft(r) \/ Fail(r)
        \/ \E extract \in Extracts : FinishDraft(r, extract)

AssistantNext == EditProduct \/ EditVariant \/ ThreadNext \/ RehearseNext \/ DraftNext

AssistantSpec == AssistantInit /\ [][AssistantNext]_assistantVars

-----------------------------------------------------------------------------
(* The type of every variable.                                                *)
AssistantTypeOK ==
    /\ onSale \subseteq Products /\ offered \subseteq Saleable /\ pictured \subseteq Products
    /\ hasQr \in BOOLEAN /\ open \in BOOLEAN
    /\ thread \in Seq(Utterances)
    /\ turn \in [Tabs -> [at : {"idle", "taken", "asked", "drafting"}, message : Nat,
                         selected : SUBSET Products, rendered : SUBSET Products,
                         variants : SUBSET Saleable]]
    /\ replies \in 0..(ReplyLimit + 1) /\ drafts \in 0..(DraftLimit + 1)
    /\ calls \in [reply : Nat, draft : Nat] /\ accepted \in Nat
    /\ prompt \in [turns : Seq({"user", "assistant"}), heard : BOOLEAN]

(* What the model is sent opens with the customer, whoever opened the thread  *)
(* and wherever the history was cut; and while the message to be answered is  *)
(* within the window, it is not sent an empty conversation (build_messages).  *)
CustomerSpeaksFirst ==
    /\ prompt.turns # <<>> => Head(prompt.turns) = "user"
    /\ prompt.heard => prompt.turns # <<>>

(* The model is asked no more often than the two allowances say, by however   *)
(* many requests at once (spend_reply, spend_draft).                          *)
AskedWithinLimits == calls.reply <= ReplyLimit /\ calls.draft <= DraftLimit

(* What a customer wrote is in the thread whether or not an answer came of it.*)
WordsAreKept == Cardinality({i \in DOMAIN thread : thread[i].sender = "customer"}) = accepted

(* A reply sends photos of products that were selected for it, once each, no  *)
(* more than MaxPhotos, each of which it asked for (split_photos).            *)
PhotosWereSelected ==
    outcome.is = "reply" =>
        /\ \A i \in DOMAIN outcome.photos :
             outcome.photos[i] \in outcome.selected \cap pictured /\ outcome.photos[i] \in outcome.asked
        /\ \A i, j \in DOMAIN outcome.photos : outcome.photos[i] = outcome.photos[j] => i = j
        /\ Len(outcome.photos) <= MaxPhotos

(* A draft has a line for each variant the extracted items stand for, with    *)
(* all that was asked of it; an item of a product that was not selected, or   *)
(* of one with a choice of variants and none named, stands for nothing        *)
(* (draft_order).                                                             *)
DraftAddsUp ==
    outcome.is = "draft" =>
        LET items == outcome.extract
            Means(i, v) == /\ v \in outcome.variants /\ v[1] = items[i].product
                           /\ items[i].variant = v \/ (items[i].variant = NoVariant
                                /\ \A u \in outcome.variants : u[1] = v[1] => u = v)
            Asked(v) == Pieces({i \in DOMAIN items : Means(i, v)}, items)
        IN  /\ \A v \in DOMAIN outcome.lines : outcome.lines[v] = Asked(v)
            /\ \A v \in outcome.variants \ DOMAIN outcome.lines : Asked(v) = 0
            /\ DOMAIN outcome.lines \subseteq outcome.variants

AssistantKeepsToTheShop ==
    CustomerSpeaksFirst /\ AskedWithinLimits /\ WordsAreKept /\ PhotosWereSelected /\ DraftAddsUp
=============================================================================
