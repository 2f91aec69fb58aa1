------------------------------- MODULE Media -------------------------------
(* Where the bytes of pictures are: in their row, or in a bucket under a key  *)
(* the row names (services/storage.py).  Uploads, cascading deletes, the      *)
(* sweep and scripts.move_media run side by side, and nothing commits in the  *)
(* database and the bucket together.                                          *)
EXTENDS FiniteSets

CONSTANTS
    Pictures,   \* ids of attachments, product images and payment QRs
    Keys,       \* bound: keys ever given out
    Movers,     \* running copies of scripts.move_media
    NoKey

ASSUME KeyAssumption == NoKey \notin Keys

VARIABLES
    row,        \* the picture's row: not there yet, kept or gone; blob and key
    bucket,     \* objects in the bucket
    tombstones, \* StorageTombstone.storage_key
    given,      \* history: keys given out; a uuid is never given twice
    upload,     \* a request between its put and its commit: the key it has
    mover,      \* a script between reading one row and committing it
    stranded,   \* history: objects whose put was never committed, or undone
    toBucket    \* MEDIA_STORAGE is s3

mediaVars == <<row, bucket, tombstones, given, upload, mover, stranded, toBucket>>

New    == [life |-> "new", blob |-> FALSE, key |-> NoKey]
Gone   == [life |-> "gone", blob |-> FALSE, key |-> NoKey]
InRow  == [life |-> "kept", blob |-> TRUE, key |-> NoKey]
At(k)  == [life |-> "kept", blob |-> FALSE, key |-> k]
AtRest == [does |-> "rest", row |-> NoKey, key |-> NoKey]

MediaInit ==
    /\ row = [p \in Pictures |-> New]
    /\ bucket = {} /\ tombstones = {} /\ given = {} /\ stranded = {}
    /\ upload = [p \in Pictures |-> NoKey]
    /\ mover = [m \in Movers |-> AtRest]
    /\ toBucket \in BOOLEAN

Put(k) ==
    /\ k \in Keys \ given
    /\ given'  = given \cup {k}
    /\ bucket' = bucket \cup {k}

-----------------------------------------------------------------------------
(* store: the object is there before the row that names it commits.           *)
StartUpload(p, k) ==
    /\ row[p].life = "new" /\ upload[p] = NoKey
    /\ toBucket
    /\ Put(k)
    /\ upload' = [upload EXCEPT ![p] = k]
    /\ UNCHANGED <<row, tombstones, mover, stranded, toBucket>>

FinishUpload(p) ==
    /\ upload[p] # NoKey
    /\ \/ row' = [row EXCEPT ![p] = At(upload[p])] /\ UNCHANGED stranded
       \/ stranded' = stranded \cup {upload[p]} /\ UNCHANGED row
    /\ upload' = [upload EXCEPT ![p] = NoKey]
    /\ UNCHANGED <<bucket, tombstones, given, mover, toBucket>>

StoreInRow(p) ==
    /\ row[p].life = "new" /\ upload[p] = NoKey
    /\ ~toBucket
    /\ row' = [row EXCEPT ![p] = InRow]
    /\ UNCHANGED <<bucket, tombstones, given, upload, mover, stranded, toBucket>>

Tombstone(k) == tombstones \cup ({k} \ {NoKey})

(* A row goes by itself or in a cascade -- of its product, conversation or    *)
(* shop, or of an erased customer; the trigger notes the key it held.         *)
Delete(p) ==
    /\ row[p].life = "kept"
    /\ tombstones' = Tombstone(row[p].key)
    /\ row' = [row EXCEPT ![p] = Gone]
    /\ UNCHANGED <<bucket, given, upload, mover, stranded, toBucket>>

(* sweep_tombstones: objects that could not be removed keep their tombstone;  *)
(* if the commit fails, removed objects keep theirs and are removed again.    *)
Sweep(S) ==
    /\ toBucket
    /\ S # {} /\ S \subseteq tombstones
    /\ bucket' = bucket \ S
    /\ tombstones' \in {tombstones, tombstones \ S}
    /\ UNCHANGED <<row, given, upload, mover, stranded, toBucket>>

-----------------------------------------------------------------------------
(* to_bucket reads a blob and puts it; to_database gets an object.  Neither   *)
(* locks the row while it does.                                               *)
TakeOut(m, p, k) ==
    /\ mover[m] = AtRest
    /\ row[p].blob
    /\ Put(k)
    /\ mover' = [mover EXCEPT ![m] = [does |-> "out", row |-> p, key |-> k]]
    /\ UNCHANGED <<row, tombstones, upload, stranded, toBucket>>

TakeIn(m, p) ==
    /\ mover[m] = AtRest
    /\ row[p].key \in bucket
    /\ mover' = [mover EXCEPT ![m] = [does |-> "in", row |-> p, key |-> row[p].key]]
    /\ UNCHANGED <<row, bucket, tombstones, given, upload, stranded, toBucket>>

\* Mutant: the key is entombed, but stays on the row as well.
KeepKey(p, w) == IF w.does = "out" THEN At(w.key) ELSE [row[p] EXCEPT !.blob = TRUE]

Moved(p, w) == IF w.does = "out" THEN At(w.key) ELSE InRow

(* The update overwrites whatever key another script put there meanwhile.     *)
CommitMove(m) ==
    LET w == mover[m]  p == w.row
    IN  /\ w # AtRest
        /\ row[p].life = "kept"
        /\ row' = [row EXCEPT ![p] = Moved(p, w)]
        /\ tombstones' = IF w.does = "in" THEN Tombstone(w.key) ELSE tombstones
        /\ stranded' = stranded \cup ({row[p].key} \ {NoKey, w.key})
        /\ mover' = [mover EXCEPT ![m] = AtRest]
        /\ UNCHANGED <<bucket, given, upload, toBucket>>

\* The script is stopped, or stops because its row is gone or was moved.
StopMover(m) ==
    LET w == mover[m]
    IN  /\ w # AtRest
        /\ stranded' = IF w.does = "out" THEN stranded \cup {w.key} ELSE stranded
        /\ mover' = [mover EXCEPT ![m] = AtRest]
        /\ UNCHANGED <<row, bucket, tombstones, given, upload, toBucket>>

\* Deployed with the other MEDIA_STORAGE; requests in flight end first.
SwitchBackend ==
    /\ \A p \in Pictures : upload[p] = NoKey
    /\ toBucket' = ~toBucket
    /\ UNCHANGED <<row, bucket, tombstones, given, upload, mover, stranded>>

MediaNext ==
    \/ \E p \in Pictures : \/ \E k \in Keys : StartUpload(p, k)
                           \/ FinishUpload(p) \/ StoreInRow(p) \/ Delete(p)
    \/ \E S \in SUBSET Keys : Sweep(S)
    \/ \E m \in Movers : \/ \E p \in Pictures : TakeIn(m, p) \/ \E k \in Keys : TakeOut(m, p, k)
                         \/ CommitMove(m) \/ StopMover(m)
    \/ SwitchBackend

MediaSpec == MediaInit /\ [][MediaNext]_mediaVars

-----------------------------------------------------------------------------
(* The type of every variable.                                                *)
MediaTypeOK ==
    /\ row \in [Pictures -> [life : {"new", "kept", "gone"}, blob : BOOLEAN, key : Keys \cup {NoKey}]]
    /\ bucket \subseteq given /\ given \subseteq Keys
    /\ tombstones \subseteq given /\ stranded \subseteq given
    /\ upload \in [Pictures -> given \cup {NoKey}]
    /\ mover \in [Movers -> [does : {"rest", "out", "in"},
                             row : Pictures \cup {NoKey}, key : Keys \cup {NoKey}]]
    /\ toBucket \in BOOLEAN

(* Whatever scripts, sweeps and deletes overlap, a picture's bytes are in its *)
(* row, or in the bucket under its key with no sweep about to take them.      *)
BytesReachable ==
    \A p \in Pictures : row[p].life = "kept" =>
        IF row[p].blob THEN row[p].key = NoKey
                       ELSE row[p].key \in bucket \ tombstones

(* No object stays in the bucket unnoticed: a row, a request or a script      *)
(* names it, or a tombstone does -- unless a commit that failed, a stopped    *)
(* script or two scripts on one row stranded it.                              *)
ObjectsAccountedFor ==
    \A k \in bucket : \/ k \in tombstones \cup stranded
                      \/ \E p \in Pictures : row[p].key = k \/ upload[p] = k
                      \/ \E m \in Movers : mover[m].key = k

(* A picture is never lost, and nothing is kept of one that was deleted.      *)
PicturesKept == BytesReachable /\ ObjectsAccountedFor
=============================================================================
