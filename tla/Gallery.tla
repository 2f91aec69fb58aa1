------------------------------ MODULE Gallery ------------------------------
(* Two ordered sets of pictures the seller edits one request at a time, under *)
(* the lock of their owner's row: the images of a product, one of them        *)
(* primary, and the payment QR codes of a shop, one of them the default the   *)
(* assistant sends.                                                           *)
EXTENDS Integers, Sequences, FiniteSets, SequencesExt

CONSTANTS
    Images,     \* ids of product images
    Qrs,        \* ids of payment QR codes
    MaxImages,  \* MAX_PRODUCT_IMAGES
    MaxQrs      \* MAX_PAYMENT_QRS

ASSUME GalleryAssumption == IsFiniteSet(Images)

VARIABLES
    position,   \* ProductImage.position of the images the product has
    primary,    \* images with is_primary
    qrs,        \* the shop's QR codes by created_at
    active, default     \* those with is_active, is_default

galleryVars == <<position, primary, qrs, active, default>>

GalleryInit ==
    /\ position = [i \in {} |-> 0]
    /\ primary = {}
    /\ qrs = <<>> /\ active = {} /\ default = {}

shopQrs == <<qrs, active, default>>
album   == <<position, primary>>

-----------------------------------------------------------------------------
HasImages   == DOMAIN position
Numbered(s) == [i \in ToSet(s) |-> (CHOOSE n \in DOMAIN s : s[n] = i) - 1]

(* upload_product_images: appended; the first image of a product is primary.  *)
UploadImages(files) ==
    /\ files # <<>> /\ ToSet(files) \cap HasImages = {}
    /\ Cardinality(HasImages) + Len(files) <= MaxImages
    /\ position' = [i \in HasImages \cup ToSet(files) |->
           IF i \in HasImages THEN position[i]
           ELSE Cardinality(HasImages) + Numbered(files)[i]]
    /\ primary' = IF HasImages = {} THEN {Head(files)} ELSE primary
    /\ UNCHANGED shopQrs

(* order_product_images: every image once, the primary one among them.        *)
OrderImages(order, chosen) ==
    /\ order # <<>> /\ ToSet(order) = HasImages
    /\ chosen \in ToSet(order)
    /\ position' = Numbered(order)
    /\ primary' = {chosen}
    /\ UNCHANGED shopQrs

\* The remaining images close ranks; the first of them takes over.
DeleteImage(i) ==
    /\ i \in HasImages
    /\ LET rest == HasImages \ {i}
       IN  position' = [j \in rest |-> Cardinality({k \in rest : position[k] < position[j]})]
    /\ primary' = IF i \in primary THEN {j \in HasImages' : position'[j] = 0} ELSE primary
    /\ UNCHANGED shopQrs

-----------------------------------------------------------------------------
Mine == ToSet(qrs)
FirstActive(s, on) == {s[n] : n \in {n \in DOMAIN s : s[n] \in on /\ \A m \in 1..n-1 : s[m] \notin on}}

(* create_payment_qr: active from the start; the default if asked for, or if  *)
(* it is the first.                                                           *)
CreateQr(q, asked) ==
    /\ q \notin Mine /\ Len(qrs) < MaxQrs
    /\ qrs' = Append(qrs, q)
    /\ active' = active \cup {q}
    /\ default' = IF asked \/ qrs = <<>> THEN {q} ELSE default
    /\ UNCHANGED album

\* Mutant: a QR code switched off stays the default.
DefaultWhateverActive(q, on, chosen) == IF chosen THEN {q} ELSE default

DefaultAfter(q, on, chosen) ==
    IF chosen THEN {q} ELSE IF on THEN default ELSE default \ {q}

(* update_payment_qr, with is_active or is_default in the request: making it  *)
(* the default activates it, switching it off ends that; if an active one is  *)
(* left and none is the default, the oldest active one becomes it.            *)
UpdateQr(q, on, chosen) ==
    /\ q \in Mine
    /\ chosen => on
    /\ active' = IF on THEN active \cup {q} ELSE active \ {q}
    /\ LET left == DefaultAfter(q, on, chosen)
       IN  default' = IF active' # {} /\ left \cap active' = {} THEN left \cup FirstActive(qrs, active')
                                                               ELSE left
    /\ UNCHANGED <<qrs, album>>

\* is_default false alone: the oldest active code becomes the default again.
ReleaseDefault(q) ==
    /\ q \in default
    /\ default' = FirstActive(qrs, active)
    /\ UNCHANGED <<qrs, active, album>>

DeleteQr(q) ==
    /\ \E n \in DOMAIN qrs : qrs[n] = q /\ qrs' = RemoveAt(qrs, n)
    /\ active' = active \ {q}
    /\ default' = IF q \in default THEN FirstActive(qrs', active') ELSE default
    /\ UNCHANGED album

GalleryNext ==
    \/ \E n \in 1..Cardinality(Images) : \E files \in [1..n -> Images] :
          IsInjective(files) /\ (UploadImages(files) \/ \E i \in Images : OrderImages(files, i))
    \/ \E i \in Images : DeleteImage(i)
    \/ \E q \in Qrs : \/ \E asked \in BOOLEAN : CreateQr(q, asked)
                      \/ \E on, chosen \in BOOLEAN : UpdateQr(q, on, chosen)
                      \/ ReleaseDefault(q) \/ DeleteQr(q)

GallerySpec == GalleryInit /\ [][GalleryNext]_galleryVars

-----------------------------------------------------------------------------
(* default_payment_qr_url: the default if it is active, else the oldest       *)
(* active code.                                                               *)
Sent == IF default \cap active # {} THEN default \cap active ELSE FirstActive(qrs, active)

(* The type of every variable.                                                *)
GalleryTypeOK ==
    /\ HasImages \subseteq Images /\ \A i \in HasImages : position[i] \in Nat
    /\ primary \subseteq HasImages
    /\ Mine \subseteq Qrs /\ IsInjective(qrs)
    /\ active \subseteq Mine /\ default \subseteq Mine

(* Uploads, reorderings and deletions in any sequence leave a product's       *)
(* images numbered without a gap, and exactly one of them the cover; the      *)
(* unique indexes never turn a request away.                                  *)
GalleryInOrder ==
    /\ {position[i] : i \in HasImages} = 0..Cardinality(HasImages) - 1
    /\ HasImages # {} => Cardinality(primary) = 1

(* However codes are switched, replaced and deleted, the assistant always has *)
(* one code to send while one is active, never one that is switched off, and  *)
(* the default it prefers is one the seller's last choice did not end.        *)
ActiveQrIsSent ==
    /\ Cardinality(default) <= 1 /\ default \subseteq active
    /\ active # {} => Cardinality(Sent) = 1

(* Both galleries stay presentable through any sequence of edits.             *)
GalleriesHold == GalleryInOrder /\ ActiveQrIsSent
=============================================================================
