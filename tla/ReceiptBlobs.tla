---------------------------- MODULE ReceiptBlobs ----------------------------
(***************************************************************************)
(* Receipt images and their blobs                                          *)
(* (store/adapters/sqlite/blob_storage.go, blob_schema.go, receipts.go,    *)
(* receipt_images.go).                                                     *)
(*                                                                         *)
(* The bytes of an image live in a provider that shares no transaction     *)
(* with SQLite.  A table blob_objects makes the two agree: an upload first *)
(* stores a row 'staged' with a lease, then puts the bytes, then publishes *)
(* the row and points a receipt at it in one transaction.  Triggers queue  *)
(* a blob as 'deleting' when its last receipt lets go of it, and garbage   *)
(* collection deletes bytes first and the row afterwards.  Uploads,        *)
(* collectors and readers interleave between statements, provider calls    *)
(* fail, and the process can stop anywhere.                                *)
(*                                                                         *)
(* Keys are generated once and never reused; so are receipt ids.           *)
(***************************************************************************)
EXTENDS Naturals, FiniteSets

CONSTANTS
    Keys,         \* blob keys
    Receipts,     \* receipt ids
    Uploads,      \* concurrent CreateReceipt / ReplaceReceiptImage calls
    Collectors,   \* concurrent CollectBlobGarbage passes
    Readers,      \* concurrent GetReceiptImage calls
    Nil,          \* no blob key, no receipt
    MaxReads,  \* read attempts of GetReceiptImage (5 in the code)
    MaxBlobRevision,  \* bound on a receipt's revision
    MaxStops    \* bound on process stops

ASSUME BlobsAssumption ==
    /\ Nil \notin Keys /\ Nil \notin Receipts
    /\ MaxReads \in Nat \ {0}
    /\ MaxBlobRevision \in Nat
    /\ MaxStops \in Nat

VARIABLES
    blob,      \* blob_objects.state, "unused" before and "forgotten" after the row
    leased,    \* whether the lease of a staged row still runs
    bytes,     \* keys the provider holds an object for
    ref,       \* receipts.blob_key, Nil without a receipt row
    revision,  \* receipts.revision, 0 before the receipt is created
    up,        \* uploads
    gc,        \* collectors
    rd,        \* readers
    stops

blobsVars == <<blob, leased, bytes, ref, revision, up, gc, rd, stops>>

BlobStates == {"unused", "staged", "live", "deleting", "forgotten"}

IdleUpload == [pc |-> "idle", key |-> Nil, receipt |-> Nil, expected |-> 0]
IdleCollector == [pc |-> "idle", key |-> Nil, batch |-> {}]
IdleReader == [pc |-> "idle", key |-> Nil, receipt |-> Nil, attempt |-> 0]

BlobsInit ==
    /\ blob = [k \in Keys |-> "unused"]
    /\ leased = [k \in Keys |-> FALSE]
    /\ bytes = {}
    /\ ref = [r \in Receipts |-> Nil]
    /\ revision = [r \in Receipts |-> 0]
    /\ up = [u \in Uploads |-> IdleUpload]
    /\ gc = [c \in Collectors |-> IdleCollector]
    /\ rd = [x \in Readers |-> IdleReader]
    /\ stops = 0
-----------------------------------------------------------------------------
(* Uploads.                                                                *)

\* The precondition of CreateReceipt (revision 0: the receipt is new) and of
\* ReplaceReceiptImage (the receipt exists at the expected revision).
Accepted(r, expected) ==
    /\ revision[r] = expected
    /\ expected > 0 => ref[r] # Nil
    /\ expected < MaxBlobRevision

\* The first check, then the staged row with its lease.
StageBlob(u, r, k) ==
    /\ up[u].pc = "idle"
    /\ Accepted(r, revision[r])
    /\ blob[k] = "unused"
    /\ blob' = [blob EXCEPT ![k] = "staged"]
    /\ leased' = [leased EXCEPT ![k] = TRUE]
    /\ up' = [up EXCEPT ![u] = [pc |-> "put", key |-> k, receipt |-> r,
                                expected |-> revision[r]]]
    /\ UNCHANGED <<bytes, ref, revision, gc, rd, stops>>

PutBlob(u) ==
    /\ up[u].pc = "put"
    /\ bytes' = bytes \cup {up[u].key}
    /\ up' = [up EXCEPT ![u].pc = "commit"]
    /\ UNCHANGED <<blob, leased, ref, revision, gc, rd, stops>>

\* An uncertain provider write: the bytes may have landed; the lease stays.
PutFails(u, landed) ==
    /\ up[u].pc = "put"
    /\ bytes' = IF landed THEN bytes \cup {up[u].key} ELSE bytes
    /\ up' = [up EXCEPT ![u] = IdleUpload]
    /\ UNCHANGED <<blob, leased, ref, revision, gc, rd, stops>>

\* (mutant) publish whatever became of the staged row.
PublishableAnyway(k) == blob[k] # "unused"

\* publishBlob: only a staged row under a running lease becomes live.
Publishable(k) == blob[k] = "staged" /\ leased[k]

\* The triggers receipt_blob_delete and receipt_blob_replace: queue the blob
\* receipt r lets go of unless another receipt still holds it.
Release(b, old, r) ==
    IF old = Nil \/ \E s \in Receipts \ {r} : ref[s] = old
    THEN b ELSE [b EXCEPT ![old] = "deleting"]

\* The transaction: the check again, publish, and the receipt row.
Publish(u) ==
    LET k == up[u].key
        r == up[u].receipt
    IN  /\ up[u].pc = "commit"
        /\ Accepted(r, up[u].expected)
        /\ Publishable(k)
        /\ blob' = Release([blob EXCEPT ![k] = "live"], ref[r], r)
        /\ leased' = [leased EXCEPT ![k] = FALSE]
        /\ ref' = [ref EXCEPT ![r] = k]
        /\ revision' = [revision EXCEPT ![r] = @ + 1]
        /\ up' = [up EXCEPT ![u].pc = "finish"]
        /\ UNCHANGED <<bytes, gc, rd, stops>>

\* The transaction rolls back: a check fails, the lease is over or the caller
\* is gone.
RollBack(u) ==
    /\ up[u].pc = "commit"
    /\ up' = [up EXCEPT ![u].pc = "finish"]
    /\ UNCHANGED <<blob, leased, bytes, ref, revision, gc, rd, stops>>

\* finishBlobWrite: discardBlob retires the key unless it became live.  The
\* collection it starts is one of the Collectors.
FinishBlobWrite(u) ==
    LET k == up[u].key IN
    /\ up[u].pc = "finish"
    /\ blob' = [blob EXCEPT ![k] = IF @ = "staged" THEN "deleting" ELSE @]
    /\ leased' = [leased EXCEPT ![k] = FALSE]
    /\ up' = [up EXCEPT ![u] = IdleUpload]
    /\ UNCHANGED <<bytes, ref, revision, gc, rd, stops>>

\* The lease of five minutes runs out.  A provider write is cut off after 45
\* seconds, so it cannot be in progress any more.
LeaseExpires(k) ==
    /\ blob[k] = "staged"
    /\ leased[k]
    /\ \A u \in Uploads : ~(up[u].pc = "put" /\ up[u].key = k)
    /\ leased' = [leased EXCEPT ![k] = FALSE]
    /\ UNCHANGED <<blob, bytes, ref, revision, up, gc, rd, stops>>
-----------------------------------------------------------------------------
(* Receipts.                                                               *)

\* SaveReceipt: metadata only, a new revision.
SaveReceipt(r) ==
    /\ ref[r] # Nil
    /\ revision[r] < MaxBlobRevision
    /\ revision' = [revision EXCEPT ![r] = @ + 1]
    /\ UNCHANGED <<blob, leased, bytes, ref, up, gc, rd, stops>>

\* DeleteReceipt, and the cascade of a deleted transaction.
DeleteReceiptAndBlob(r) ==
    /\ ref[r] # Nil
    /\ blob' = Release(blob, ref[r], r)
    /\ ref' = [ref EXCEPT ![r] = Nil]
    /\ UNCHANGED <<leased, bytes, revision, up, gc, rd, stops>>
-----------------------------------------------------------------------------
(* CollectBlobGarbage, run by the cleanup loop and after every write.      *)

\* (mutant) abandoned uploads are not garbage.
OnlyDeleting(k) == blob[k] = "deleting"

Garbage(k) == blob[k] = "deleting" \/ (blob[k] = "staged" /\ ~leased[k])

ListGarbage(c) ==
    /\ gc[c].pc = "idle"
    /\ \E k \in Keys : Garbage(k)
    /\ gc' = [gc EXCEPT ![c] = [pc |-> "mark", key |-> Nil,
                                batch |-> {k \in Keys : Garbage(k)}]]
    /\ UNCHANGED <<blob, leased, bytes, ref, revision, up, rd, stops>>

\* The collector after it is done with its current key.
NextKey(c, k) ==
    IF gc[c].batch \ {k} = {} THEN IdleCollector
    ELSE [pc |-> "mark", key |-> Nil, batch |-> gc[c].batch \ {k}]

\* The conditional UPDATE claims the key or skips it.
MarkDeleting(c, k) ==
    /\ gc[c].pc = "mark"
    /\ k \in gc[c].batch
    /\ IF Garbage(k) /\ \A r \in Receipts : ref[r] # k
       THEN /\ blob' = [blob EXCEPT ![k] = "deleting"]
            /\ gc' = [gc EXCEPT ![c].pc = "delete", ![c].key = k]
       ELSE /\ UNCHANGED blob
            /\ gc' = [gc EXCEPT ![c] = NextKey(c, k)]
    /\ UNCHANGED <<leased, bytes, ref, revision, up, rd, stops>>

\* (mutant) the row goes first and the bytes are left behind.
ForgetBeforeDelete(c) ==
    /\ gc[c].pc = "delete"
    /\ blob' = [blob EXCEPT ![gc[c].key] = "forgotten"]
    /\ gc' = [gc EXCEPT ![c].pc = "forget"]
    /\ UNCHANGED <<leased, bytes, ref, revision, up, rd, stops>>

DeleteObject(c) ==
    /\ gc[c].pc = "delete"
    /\ bytes' = bytes \ {gc[c].key}
    /\ gc' = [gc EXCEPT ![c].pc = "forget"]
    /\ UNCHANGED <<blob, leased, ref, revision, up, rd, stops>>

\* The provider refuses; the row stays for a later pass.
DeleteFails(c) ==
    /\ gc[c].pc = "delete"
    /\ gc' = [gc EXCEPT ![c] = NextKey(c, gc[c].key)]
    /\ UNCHANGED <<blob, leased, bytes, ref, revision, up, rd, stops>>

ForgetRow(c) ==
    LET k == gc[c].key IN
    /\ gc[c].pc = "forget"
    /\ blob' = [blob EXCEPT ![k] = IF @ = "deleting" THEN "forgotten" ELSE @]
    /\ gc' = [gc EXCEPT ![c] = NextKey(c, k)]
    /\ UNCHANGED <<leased, bytes, ref, revision, up, rd, stops>>
-----------------------------------------------------------------------------
(* GetReceiptImage.                                                        *)

\* The receipt's current key, or not found.
CaptureKey(x, r) ==
    /\ rd[x].pc = "idle" \/ (rd[x].pc = "retry" /\ rd[x].receipt = r)
    /\ rd' = [rd EXCEPT ![x] =
                IF ref[r] = Nil THEN IdleReader
                ELSE [pc |-> "open", key |-> ref[r], receipt |-> r,
                      attempt |-> rd[x].attempt + 1]]
    /\ UNCHANGED <<blob, leased, bytes, ref, revision, up, gc, stops>>

OpenBlob(x) ==
    /\ rd[x].pc = "open"
    /\ rd' = [rd EXCEPT ![x] = IF rd[x].key \in bytes THEN IdleReader
                               ELSE [@ EXCEPT !.pc = "recheck"]]
    /\ UNCHANGED <<blob, leased, bytes, ref, revision, up, gc, stops>>

\* (mutant) a missing object is an error whatever the receipt says by now.
FailOnMissing(x) ==
    /\ rd[x].pc = "recheck"
    /\ rd' = [rd EXCEPT ![x].pc = "broken"]
    /\ UNCHANGED <<blob, leased, bytes, ref, revision, up, gc, stops>>

\* The object is gone: retry when the receipt moved on, fail when it did not.
RecheckKey(x) ==
    LET r == rd[x].receipt IN
    /\ rd[x].pc = "recheck"
    /\ rd' = [rd EXCEPT ![x] =
                IF ref[r] = Nil \/ (ref[r] # rd[x].key /\ rd[x].attempt >= MaxReads)
                THEN IdleReader
                ELSE [@ EXCEPT !.pc = IF ref[r] = rd[x].key THEN "broken" ELSE "retry"]]
    /\ UNCHANGED <<blob, leased, bytes, ref, revision, up, gc, stops>>
-----------------------------------------------------------------------------
\* The process stops.  A provider write in progress may still land.
BlobsCrash ==
    /\ stops < MaxStops
    /\ stops' = stops + 1
    /\ \E landed \in SUBSET {up[u].key : u \in {w \in Uploads : up[w].pc = "put"}} :
         bytes' = bytes \cup landed
    /\ up' = [u \in Uploads |-> IdleUpload]
    /\ gc' = [c \in Collectors |-> IdleCollector]
    /\ rd' = [x \in Readers |-> IdleReader]
    /\ UNCHANGED <<blob, leased, ref, revision>>

Upload(u) ==
    \/ \E r \in Receipts, k \in Keys : StageBlob(u, r, k)
    \/ PutBlob(u)
    \/ \E landed \in BOOLEAN : PutFails(u, landed)
    \/ Publish(u)
    \/ RollBack(u)
    \/ FinishBlobWrite(u)

Collect(c) ==
    \/ ListGarbage(c)
    \/ \E k \in Keys : MarkDeleting(c, k)
    \/ DeleteObject(c)
    \/ DeleteFails(c)
    \/ ForgetRow(c)

ReadImage(x) ==
    \/ \E r \in Receipts : CaptureKey(x, r)
    \/ OpenBlob(x)
    \/ RecheckKey(x)

BlobsNext ==
    \/ \E u \in Uploads : Upload(u)
    \/ \E k \in Keys : LeaseExpires(k)
    \/ \E r \in Receipts : SaveReceipt(r) \/ DeleteReceiptAndBlob(r)
    \/ \E c \in Collectors : Collect(c)
    \/ \E x \in Readers : ReadImage(x)
    \/ BlobsCrash

BlobsSpec == BlobsInit /\ [][BlobsNext]_blobsVars

\* Time passes, the cleanup loop runs every minute and an upload in progress
\* moves on.  The provider may fail, but not every time it is asked.
Fairness ==
    /\ \A k \in Keys : WF_blobsVars(LeaseExpires(k))
    /\ \A c \in Collectors :
         /\ WF_blobsVars(ListGarbage(c))
         /\ WF_blobsVars(\E k \in Keys : MarkDeleting(c, k))
         /\ SF_blobsVars(DeleteObject(c))
         /\ WF_blobsVars(ForgetRow(c))
    /\ \A u \in Uploads :
         /\ WF_blobsVars(PutBlob(u))
         /\ WF_blobsVars(Publish(u) \/ RollBack(u))
         /\ WF_blobsVars(FinishBlobWrite(u))

FairSpec == BlobsSpec /\ Fairness
-----------------------------------------------------------------------------
(* Properties.                                                             *)

UploadType == [pc : {"idle", "put", "commit", "finish"}, key : Keys \cup {Nil},
               receipt : Receipts \cup {Nil}, expected : Nat]
CollectorType == [pc : {"idle", "mark", "delete", "forget"},
                  key : Keys \cup {Nil}, batch : SUBSET Keys]
ReaderType == [pc : {"idle", "open", "recheck", "retry", "broken"},
               key : Keys \cup {Nil}, receipt : Receipts \cup {Nil}, attempt : Nat]

\* The type of every variable; a busy process carries a key.
BlobsTypeOK ==
    /\ blob \in [Keys -> BlobStates]
    /\ leased \in [Keys -> BOOLEAN]
    /\ bytes \in SUBSET Keys
    /\ ref \in [Receipts -> Keys \cup {Nil}]
    /\ revision \in [Receipts -> Nat]
    /\ up \in [Uploads -> UploadType]
    /\ gc \in [Collectors -> CollectorType]
    /\ rd \in [Readers -> ReaderType]
    /\ stops \in Nat
    /\ \A u \in Uploads : up[u].pc # "idle" => up[u].key # Nil /\ up[u].receipt # Nil
    /\ \A c \in Collectors : gc[c].pc \in {"delete", "forget"} => gc[c].key # Nil
    /\ \A x \in Readers : rd[x].pc # "idle" => rd[x].key # Nil /\ rd[x].receipt # Nil

\* A receipt always points at a live blob whose bytes the provider holds,
\* however uploads, replacements, deletions, collectors and crashes interleave.
ReceiptBacked ==
    \A r \in Receipts : ref[r] # Nil => blob[ref[r]] = "live" /\ ref[r] \in bytes

\* A live blob belongs to exactly one receipt: nothing live is leaked, and no
\* two receipts share pixels that one of them may release.
LiveHasOneReceipt ==
    \A k \in Keys :
        blob[k] = "live" => \E r \in Receipts :
            ref[r] = k /\ \A s \in Receipts \ {r} : ref[s] # k

\* The provider holds nothing that blob_objects does not know: cleanup needs
\* no listing of the bucket.
NoUntrackedObject ==
    \A k \in bytes : blob[k] \in {"staged", "live", "deleting"}

\* GetReceiptImage never finds the bytes of a receipt missing while the
\* receipt still points at them.
NoBrokenRead == \A x \in Readers : rd[x].pc # "broken"

\* Every key that is neither live nor being uploaded is given back: the row
\* and its bytes disappear.
Reclaimed ==
    \A k \in Keys :
        /\ blob[k] = "deleting" ~> blob[k] = "forgotten" /\ k \notin bytes
        /\ blob[k] = "staged" ~> blob[k] # "staged"

\* The store and the provider agree in both directions: no receipt without its
\* bytes, no bytes without their row.
BytesAccounted == ReceiptBacked /\ NoUntrackedObject
=============================================================================
