---------------------------- MODULE ReceiptProofs ----------------------------
(***************************************************************************)
(* Proofs about receipts: ReceiptBlobs, for every number of keys,          *)
(* receipts, uploads, collectors and readers, and ReceiptExtraction, for   *)
(* every number of calls, clients and slots.  The two specifications share *)
(* no variable; a name of the first that the second has too starts with    *)
(* Blobs.                                                                  *)
(***************************************************************************)
EXTENDS ReceiptBlobs, ReceiptExtraction, TLAPS

-----------------------------------------------------------------------------
(* Images and their blobs.                                                 *)

(* The inductive invariant.                                                *)

\* Two uploads in progress never carry the same key, and a key in use is not
\* handed out again.
UploadsOwnKeys ==
    /\ \A u, w \in Uploads :
         u # w /\ up[u].pc # "idle" /\ up[w].pc # "idle" => up[u].key # up[w].key
    /\ \A u \in Uploads : up[u].pc # "idle" => blob[up[u].key] # "unused"

\* While the bytes travel the row is staged and its lease runs; afterwards a
\* row that is still staged has its bytes.
UploadsHold ==
    /\ \A u \in Uploads :
         up[u].pc = "put" => blob[up[u].key] = "staged" /\ leased[up[u].key]
    /\ \A u \in Uploads :
         up[u].pc = "commit" /\ blob[up[u].key] = "staged" => up[u].key \in bytes

\* A key a collector has claimed never comes back, and its bytes are gone
\* before its row.
CollectorsClaim ==
    \A c \in Collectors :
        /\ gc[c].pc \in {"delete", "forget"} =>
               blob[gc[c].key] \in {"deleting", "forgotten"}
        /\ gc[c].pc = "forget" => gc[c].key \notin bytes

\* A reader's key was live when it was captured; when its object was missing
\* it no longer is.
ReadersCaptured ==
    \A x \in Readers :
        /\ rd[x].pc # "idle" => blob[rd[x].key] \in {"live", "deleting", "forgotten"}
        /\ rd[x].pc = "recheck" => blob[rd[x].key] # "live"

BlobsIndInv ==
    /\ BlobsTypeOK
    /\ ReceiptBacked
    /\ LiveHasOneReceipt
    /\ NoUntrackedObject
    /\ NoBrokenRead
    /\ UploadsOwnKeys
    /\ UploadsHold
    /\ CollectorsClaim
    /\ ReadersCaptured
-----------------------------------------------------------------------------
(* Types.                                                                  *)

\* Every step keeps the types: no handler stores a key, receipt or state the
\* tables have no column value for, and a busy handler carries its key.
LEMMA BlobsTypeStep == BlobsTypeOK /\ [BlobsNext]_blobsVars => BlobsTypeOK'
<1> SUFFICES ASSUME BlobsTypeOK, [BlobsNext]_blobsVars PROVE BlobsTypeOK'
    OBVIOUS
<1> USE BlobsAssumption
<1>1. ASSUME NEW u \in Uploads, NEW r \in Receipts, NEW k \in Keys,
             StageBlob(u, r, k)
      PROVE  BlobsTypeOK'
    BY <1>1 DEF BlobsTypeOK, StageBlob, UploadType, BlobStates
<1>2. ASSUME NEW u \in Uploads, PutBlob(u) PROVE BlobsTypeOK'
    BY <1>2 DEF BlobsTypeOK, PutBlob, UploadType
<1>3. ASSUME NEW u \in Uploads, NEW landed \in BOOLEAN,
             PutFails(u, landed) PROVE BlobsTypeOK'
    BY <1>3 DEF BlobsTypeOK, PutFails, UploadType, IdleUpload
<1>4. ASSUME NEW u \in Uploads, Publish(u) PROVE BlobsTypeOK'
    BY <1>4 DEF BlobsTypeOK, Publish, UploadType, BlobStates, Release, Accepted
<1>5. ASSUME NEW u \in Uploads, RollBack(u) PROVE BlobsTypeOK'
    BY <1>5 DEF BlobsTypeOK, RollBack, UploadType
<1>6. ASSUME NEW u \in Uploads, FinishBlobWrite(u) PROVE BlobsTypeOK'
    BY <1>6 DEF BlobsTypeOK, FinishBlobWrite, UploadType, IdleUpload, BlobStates
<1>7. ASSUME NEW k \in Keys, LeaseExpires(k) PROVE BlobsTypeOK'
    BY <1>7 DEF BlobsTypeOK, LeaseExpires
<1>8. ASSUME NEW r \in Receipts, SaveReceipt(r) PROVE BlobsTypeOK'
    BY <1>8 DEF BlobsTypeOK, SaveReceipt
<1>9. ASSUME NEW r \in Receipts, DeleteReceiptAndBlob(r) PROVE BlobsTypeOK'
    BY <1>9 DEF BlobsTypeOK, DeleteReceiptAndBlob, Release, BlobStates
<1>10. ASSUME NEW c \in Collectors, ListGarbage(c) PROVE BlobsTypeOK'
    BY <1>10 DEF BlobsTypeOK, ListGarbage, CollectorType
<1>11. ASSUME NEW c \in Collectors, NEW k \in Keys, MarkDeleting(c, k) PROVE BlobsTypeOK'
    BY <1>11 DEF BlobsTypeOK, MarkDeleting, CollectorType, BlobStates, NextKey, IdleCollector
<1>12. ASSUME NEW c \in Collectors, DeleteObject(c) PROVE BlobsTypeOK'
    BY <1>12 DEF BlobsTypeOK, DeleteObject, CollectorType
<1>13. ASSUME NEW c \in Collectors, DeleteFails(c) PROVE BlobsTypeOK'
    BY <1>13 DEF BlobsTypeOK, DeleteFails, CollectorType, NextKey, IdleCollector
<1>14. ASSUME NEW c \in Collectors, ForgetRow(c) PROVE BlobsTypeOK'
    BY <1>14 DEF BlobsTypeOK, ForgetRow, CollectorType, BlobStates, NextKey, IdleCollector
<1>15. ASSUME NEW x \in Readers, NEW r \in Receipts, CaptureKey(x, r) PROVE BlobsTypeOK'
    BY <1>15 DEF BlobsTypeOK, CaptureKey, ReaderType, IdleReader
<1>16. ASSUME NEW x \in Readers, OpenBlob(x) PROVE BlobsTypeOK'
    BY <1>16 DEF BlobsTypeOK, OpenBlob, ReaderType, IdleReader
<1>17. ASSUME NEW x \in Readers, RecheckKey(x) PROVE BlobsTypeOK'
    BY <1>17 DEF BlobsTypeOK, RecheckKey, ReaderType, IdleReader
<1>18. CASE BlobsCrash
    BY <1>18 DEF BlobsTypeOK, BlobsCrash, UploadType, CollectorType, ReaderType,
        IdleUpload, IdleCollector, IdleReader
<1>19. CASE UNCHANGED blobsVars
    BY <1>19 DEF BlobsTypeOK, blobsVars
<1> QED BY <1>1, <1>2, <1>3, <1>4, <1>5, <1>6, <1>7, <1>8, <1>9, <1>10,
            <1>11, <1>12, <1>13, <1>14, <1>15, <1>16, <1>17, <1>18, <1>19
         DEF BlobsNext, Upload, Collect, ReadImage

LEMMA BlobsTypeInit == BlobsInit => BlobsTypeOK
BY BlobsAssumption DEF BlobsInit, BlobsTypeOK, BlobStates, UploadType, CollectorType,
   ReaderType, IdleUpload, IdleCollector, IdleReader

\* Type correctness of the blob store for every instance: rows, uploads,
\* collectors and readers only ever hold values of their columns.
THEOREM BlobsTypeCorrect == BlobsSpec => []BlobsTypeOK
BY BlobsTypeInit, BlobsTypeStep, PTL DEF BlobsSpec
-----------------------------------------------------------------------------
(* Every step keeps the invariant.                                         *)

\* One step per handler, and under it one per part the handler can disturb.
LEMMA InvariantStep == BlobsIndInv /\ [BlobsNext]_blobsVars => BlobsIndInv'
<1> SUFFICES ASSUME BlobsIndInv, [BlobsNext]_blobsVars PROVE BlobsIndInv'
    OBVIOUS
<1> USE BlobsAssumption
<1>0. BlobsTypeOK'
    BY BlobsTypeStep DEF BlobsIndInv
<1>1. ASSUME NEW u \in Uploads, NEW r \in Receipts, NEW k \in Keys,
             StageBlob(u, r, k) PROVE BlobsIndInv'
  <2>1. NoBrokenRead'
    BY <1>1 DEF BlobsIndInv, NoBrokenRead, StageBlob
  <2>2. ReceiptBacked'
    BY <1>1 DEF BlobsIndInv, BlobsTypeOK, ReceiptBacked, StageBlob
  <2>3. LiveHasOneReceipt'
    BY <1>1 DEF BlobsIndInv, BlobsTypeOK, LiveHasOneReceipt, StageBlob
  <2>4. NoUntrackedObject'
    BY <1>1 DEF BlobsIndInv, BlobsTypeOK, NoUntrackedObject, StageBlob
  <2>5. UploadsOwnKeys'
    BY <1>1 DEF BlobsIndInv, BlobsTypeOK, UploadType, UploadsOwnKeys, StageBlob
  <2>6. UploadsHold'
    BY <1>1 DEF BlobsIndInv, BlobsTypeOK, UploadType, UploadsOwnKeys, UploadsHold,
       StageBlob
  <2>7. CollectorsClaim'
    BY <1>1 DEF BlobsIndInv, BlobsTypeOK, CollectorType, CollectorsClaim, StageBlob
  <2>8. ReadersCaptured'
    BY <1>1 DEF BlobsIndInv, BlobsTypeOK, ReaderType, ReadersCaptured, StageBlob
  <2> QED BY <1>0, <2>1, <2>2, <2>3, <2>4, <2>5, <2>6, <2>7, <2>8 DEF BlobsIndInv
<1>2. ASSUME NEW u \in Uploads, PutBlob(u) PROVE BlobsIndInv'
  <2>1. LiveHasOneReceipt' /\ NoBrokenRead' /\ ReadersCaptured'
    BY <1>2 DEF BlobsIndInv, LiveHasOneReceipt, NoBrokenRead, ReadersCaptured,
       PutBlob
  <2>2. ReceiptBacked'
    BY <1>2 DEF BlobsIndInv, BlobsTypeOK, ReceiptBacked, PutBlob
  <2>3. NoUntrackedObject'
    BY <1>2 DEF BlobsIndInv, BlobsTypeOK, UploadType, UploadsHold, NoUntrackedObject,
       PutBlob
  <2>4. UploadsOwnKeys'
    BY <1>2 DEF BlobsIndInv, BlobsTypeOK, UploadType, UploadsOwnKeys, PutBlob
  <2>5. UploadsHold'
    BY <1>2 DEF BlobsIndInv, BlobsTypeOK, UploadType, UploadsHold, PutBlob
  <2>6. CollectorsClaim'
    BY <1>2 DEF BlobsIndInv, BlobsTypeOK, UploadType, CollectorType, UploadsHold,
       CollectorsClaim, PutBlob
  <2> QED BY <1>0, <2>1, <2>2, <2>3, <2>4, <2>5, <2>6 DEF BlobsIndInv
<1>3. ASSUME NEW u \in Uploads, NEW landed \in BOOLEAN,
             PutFails(u, landed) PROVE BlobsIndInv'
  <2>1. LiveHasOneReceipt' /\ NoBrokenRead' /\ ReadersCaptured'
    BY <1>3 DEF BlobsIndInv, LiveHasOneReceipt, NoBrokenRead, ReadersCaptured,
       PutFails
  <2>2. ReceiptBacked'
    BY <1>3 DEF BlobsIndInv, BlobsTypeOK, ReceiptBacked, PutFails, IdleUpload
  <2>3. NoUntrackedObject'
    BY <1>3 DEF BlobsIndInv, BlobsTypeOK, UploadType, UploadsHold, NoUntrackedObject,
       PutFails, IdleUpload
  <2>4. UploadsOwnKeys'
    BY <1>3 DEF BlobsIndInv, BlobsTypeOK, UploadType, UploadsOwnKeys, PutFails,
       IdleUpload
  <2>5. UploadsHold'
    BY <1>3 DEF BlobsIndInv, BlobsTypeOK, UploadType, UploadsHold, PutFails, IdleUpload
  <2>6. CollectorsClaim'
    BY <1>3 DEF BlobsIndInv, BlobsTypeOK, UploadType, CollectorType, UploadsHold,
       CollectorsClaim, PutFails, IdleUpload
  <2> QED BY <1>0, <2>1, <2>2, <2>3, <2>4, <2>5, <2>6 DEF BlobsIndInv
<1>4. ASSUME NEW u \in Uploads, Publish(u) PROVE BlobsIndInv'
  <2>1. NoBrokenRead'
    BY <1>4 DEF BlobsIndInv, NoBrokenRead, Publish
  <2>2. ReceiptBacked'
    BY <1>4 DEF BlobsIndInv, BlobsTypeOK, UploadType, UploadsHold, ReceiptBacked,
       Publish, Release, Publishable
  <2>3. LiveHasOneReceipt'
    BY <1>4 DEF BlobsIndInv, BlobsTypeOK, UploadType, ReceiptBacked, LiveHasOneReceipt,
       Publish, Release, Publishable
  <2>4. NoUntrackedObject'
    BY <1>4 DEF BlobsIndInv, BlobsTypeOK, NoUntrackedObject, Publish, Release,
       Publishable
  <2>5. UploadsOwnKeys'
    BY <1>4 DEF BlobsIndInv, BlobsTypeOK, UploadType, UploadsOwnKeys, Publish, Release,
       Publishable
  <2>6. UploadsHold'
    BY <1>4 DEF BlobsIndInv, BlobsTypeOK, UploadType, UploadsOwnKeys, UploadsHold,
       ReceiptBacked, Publish, Release, Publishable
  <2>7. CollectorsClaim'
    BY <1>4 DEF BlobsIndInv, BlobsTypeOK, CollectorType, CollectorsClaim, Publish,
       Release, Publishable
  <2>8. ReadersCaptured'
    BY <1>4 DEF BlobsIndInv, BlobsTypeOK, ReaderType, ReadersCaptured, Publish, Release,
       Publishable
  <2> QED BY <1>0, <2>1, <2>2, <2>3, <2>4, <2>5, <2>6, <2>7, <2>8 DEF BlobsIndInv
<1>5. ASSUME NEW u \in Uploads, RollBack(u) PROVE BlobsIndInv'
  <2>1. /\ ReceiptBacked'
         /\ LiveHasOneReceipt'
         /\ NoUntrackedObject'
         /\ NoBrokenRead'
         /\ CollectorsClaim'
         /\ ReadersCaptured'
    BY <1>5 DEF BlobsIndInv, ReceiptBacked, LiveHasOneReceipt, NoUntrackedObject,
       NoBrokenRead, CollectorsClaim, ReadersCaptured, RollBack
  <2>2. UploadsOwnKeys'
    BY <1>5 DEF BlobsIndInv, BlobsTypeOK, UploadType, UploadsOwnKeys, RollBack
  <2>3. UploadsHold'
    BY <1>5 DEF BlobsIndInv, BlobsTypeOK, UploadType, UploadsHold, RollBack
  <2> QED BY <1>0, <2>1, <2>2, <2>3 DEF BlobsIndInv
<1>6. ASSUME NEW u \in Uploads, FinishBlobWrite(u) PROVE BlobsIndInv'
  <2>1. NoBrokenRead'
    BY <1>6 DEF BlobsIndInv, NoBrokenRead, FinishBlobWrite
  <2>2. ReceiptBacked'
    BY <1>6 DEF BlobsIndInv, BlobsTypeOK, ReceiptBacked, FinishBlobWrite, IdleUpload
  <2>3. LiveHasOneReceipt'
    BY <1>6 DEF BlobsIndInv, BlobsTypeOK, LiveHasOneReceipt, FinishBlobWrite, IdleUpload
  <2>4. NoUntrackedObject'
    BY <1>6 DEF BlobsIndInv, BlobsTypeOK, NoUntrackedObject, FinishBlobWrite, IdleUpload
  <2>5. UploadsOwnKeys'
    BY <1>6 DEF BlobsIndInv, BlobsTypeOK, UploadType, UploadsOwnKeys, FinishBlobWrite,
       IdleUpload
  <2>6. UploadsHold'
    BY <1>6 DEF BlobsIndInv, BlobsTypeOK, UploadType, UploadsOwnKeys, UploadsHold,
       FinishBlobWrite, IdleUpload
  <2>7. CollectorsClaim'
    BY <1>6 DEF BlobsIndInv, BlobsTypeOK, CollectorType, CollectorsClaim,
       FinishBlobWrite, IdleUpload
  <2>8. ReadersCaptured'
    BY <1>6 DEF BlobsIndInv, BlobsTypeOK, ReaderType, ReadersCaptured, FinishBlobWrite,
       IdleUpload
  <2> QED BY <1>0, <2>1, <2>2, <2>3, <2>4, <2>5, <2>6, <2>7, <2>8 DEF BlobsIndInv
<1>7. ASSUME NEW k \in Keys, LeaseExpires(k) PROVE BlobsIndInv'
  <2>1. /\ ReceiptBacked'
         /\ LiveHasOneReceipt'
         /\ NoUntrackedObject'
         /\ NoBrokenRead'
         /\ UploadsOwnKeys'
         /\ CollectorsClaim'
         /\ ReadersCaptured'
    BY <1>7 DEF BlobsIndInv, ReceiptBacked, LiveHasOneReceipt, NoUntrackedObject,
       NoBrokenRead, UploadsOwnKeys, CollectorsClaim, ReadersCaptured,
       LeaseExpires
  <2>2. UploadsHold'
    BY <1>7 DEF BlobsIndInv, BlobsTypeOK, UploadType, UploadsHold, LeaseExpires
  <2> QED BY <1>0, <2>1, <2>2 DEF BlobsIndInv
<1>8. ASSUME NEW r \in Receipts, SaveReceipt(r) PROVE BlobsIndInv'
  <2>1. /\ ReceiptBacked'
         /\ LiveHasOneReceipt'
         /\ NoUntrackedObject'
         /\ NoBrokenRead'
         /\ UploadsOwnKeys'
         /\ UploadsHold'
         /\ CollectorsClaim'
         /\ ReadersCaptured'
    BY <1>8 DEF BlobsIndInv, ReceiptBacked, LiveHasOneReceipt, NoUntrackedObject,
       NoBrokenRead, UploadsOwnKeys, UploadsHold, CollectorsClaim,
       ReadersCaptured, SaveReceipt
  <2> QED BY <1>0, <2>1 DEF BlobsIndInv
<1>9. ASSUME NEW r \in Receipts, DeleteReceiptAndBlob(r) PROVE BlobsIndInv'
  <2>1. NoBrokenRead'
    BY <1>9 DEF BlobsIndInv, NoBrokenRead, DeleteReceiptAndBlob
  <2>2. ReceiptBacked'
    BY <1>9 DEF BlobsIndInv, BlobsTypeOK, ReceiptBacked, DeleteReceiptAndBlob, Release
  <2>3. LiveHasOneReceipt'
    BY <1>9 DEF BlobsIndInv, BlobsTypeOK, LiveHasOneReceipt, DeleteReceiptAndBlob, Release
  <2>4. NoUntrackedObject'
    BY <1>9 DEF BlobsIndInv, BlobsTypeOK, NoUntrackedObject, DeleteReceiptAndBlob, Release
  <2>5. UploadsOwnKeys'
    BY <1>9 DEF BlobsIndInv, BlobsTypeOK, UploadType, UploadsOwnKeys, DeleteReceiptAndBlob,
       Release
  <2>6. UploadsHold'
    BY <1>9 DEF BlobsIndInv, BlobsTypeOK, UploadType, ReceiptBacked, UploadsHold,
       DeleteReceiptAndBlob, Release
  <2>7. CollectorsClaim'
    BY <1>9 DEF BlobsIndInv, BlobsTypeOK, CollectorType, CollectorsClaim, DeleteReceiptAndBlob,
       Release
  <2>8. ReadersCaptured'
    BY <1>9 DEF BlobsIndInv, BlobsTypeOK, ReaderType, ReadersCaptured, DeleteReceiptAndBlob,
       Release
  <2> QED BY <1>0, <2>1, <2>2, <2>3, <2>4, <2>5, <2>6, <2>7, <2>8 DEF BlobsIndInv
<1>10. ASSUME NEW c \in Collectors, ListGarbage(c) PROVE BlobsIndInv'
  <2>1. /\ ReceiptBacked'
         /\ LiveHasOneReceipt'
         /\ NoUntrackedObject'
         /\ NoBrokenRead'
         /\ UploadsOwnKeys'
         /\ UploadsHold'
         /\ ReadersCaptured'
    BY <1>10 DEF BlobsIndInv, ReceiptBacked, LiveHasOneReceipt, NoUntrackedObject,
       NoBrokenRead, UploadsOwnKeys, UploadsHold, ReadersCaptured, ListGarbage
  <2>2. CollectorsClaim'
    BY <1>10 DEF BlobsIndInv, BlobsTypeOK, CollectorType, CollectorsClaim, ListGarbage
  <2> QED BY <1>0, <2>1, <2>2 DEF BlobsIndInv
<1>11. ASSUME NEW c \in Collectors, NEW k \in Keys, MarkDeleting(c, k) PROVE BlobsIndInv'
  <2>1. NoBrokenRead'
    BY <1>11 DEF BlobsIndInv, NoBrokenRead, MarkDeleting
  <2>2. ReceiptBacked'
    BY <1>11 DEF BlobsIndInv, BlobsTypeOK, ReceiptBacked, MarkDeleting, Garbage,
       NextKey, IdleCollector
  <2>3. LiveHasOneReceipt'
    BY <1>11 DEF BlobsIndInv, BlobsTypeOK, LiveHasOneReceipt, MarkDeleting, Garbage,
       NextKey, IdleCollector
  <2>4. NoUntrackedObject'
    BY <1>11 DEF BlobsIndInv, BlobsTypeOK, NoUntrackedObject, MarkDeleting, Garbage,
       NextKey, IdleCollector
  <2>5. UploadsOwnKeys'
    BY <1>11 DEF BlobsIndInv, BlobsTypeOK, UploadType, UploadsOwnKeys, MarkDeleting,
       Garbage, NextKey, IdleCollector
  <2>6. UploadsHold'
    BY <1>11 DEF BlobsIndInv, BlobsTypeOK, UploadType, UploadsHold, MarkDeleting,
       Garbage, NextKey, IdleCollector
  <2>7. CollectorsClaim'
    BY <1>11 DEF BlobsIndInv, BlobsTypeOK, CollectorType, CollectorsClaim, MarkDeleting,
       Garbage, NextKey, IdleCollector
  <2>8. ReadersCaptured'
    BY <1>11 DEF BlobsIndInv, BlobsTypeOK, ReaderType, ReadersCaptured, MarkDeleting,
       Garbage, NextKey, IdleCollector
  <2> QED BY <1>0, <2>1, <2>2, <2>3, <2>4, <2>5, <2>6, <2>7, <2>8 DEF BlobsIndInv
<1>12. ASSUME NEW c \in Collectors, DeleteObject(c) PROVE BlobsIndInv'
  <2>1. /\ LiveHasOneReceipt'
         /\ NoBrokenRead'
         /\ UploadsOwnKeys'
         /\ ReadersCaptured'
    BY <1>12 DEF BlobsIndInv, LiveHasOneReceipt, NoBrokenRead, UploadsOwnKeys,
       ReadersCaptured, DeleteObject
  <2>2. ReceiptBacked'
    BY <1>12 DEF BlobsIndInv, BlobsTypeOK, CollectorType, CollectorsClaim,
       ReceiptBacked, DeleteObject
  <2>3. NoUntrackedObject'
    BY <1>12 DEF BlobsIndInv, BlobsTypeOK, NoUntrackedObject, DeleteObject
  <2>4. UploadsHold'
    BY <1>12 DEF BlobsIndInv, BlobsTypeOK, UploadType, CollectorType, CollectorsClaim,
       UploadsHold, DeleteObject
  <2>5. CollectorsClaim'
    BY <1>12 DEF BlobsIndInv, BlobsTypeOK, CollectorType, CollectorsClaim, DeleteObject
  <2> QED BY <1>0, <2>1, <2>2, <2>3, <2>4, <2>5 DEF BlobsIndInv
<1>13. ASSUME NEW c \in Collectors, DeleteFails(c) PROVE BlobsIndInv'
  <2>1. /\ ReceiptBacked'
         /\ LiveHasOneReceipt'
         /\ NoUntrackedObject'
         /\ NoBrokenRead'
         /\ UploadsOwnKeys'
         /\ UploadsHold'
         /\ ReadersCaptured'
    BY <1>13 DEF BlobsIndInv, ReceiptBacked, LiveHasOneReceipt, NoUntrackedObject,
       NoBrokenRead, UploadsOwnKeys, UploadsHold, ReadersCaptured, DeleteFails
  <2>2. CollectorsClaim'
    BY <1>13 DEF BlobsIndInv, BlobsTypeOK, CollectorType, CollectorsClaim, DeleteFails,
       NextKey, IdleCollector
  <2> QED BY <1>0, <2>1, <2>2 DEF BlobsIndInv
<1>14. ASSUME NEW c \in Collectors, ForgetRow(c) PROVE BlobsIndInv'
  <2>1. NoBrokenRead'
    BY <1>14 DEF BlobsIndInv, NoBrokenRead, ForgetRow
  <2>2. ReceiptBacked'
    BY <1>14 DEF BlobsIndInv, BlobsTypeOK, ReceiptBacked, ForgetRow, NextKey,
       IdleCollector
  <2>3. LiveHasOneReceipt'
    BY <1>14 DEF BlobsIndInv, BlobsTypeOK, LiveHasOneReceipt, ForgetRow, NextKey,
       IdleCollector
  <2>4. NoUntrackedObject'
    BY <1>14 DEF BlobsIndInv, BlobsTypeOK, CollectorType, CollectorsClaim,
       NoUntrackedObject, ForgetRow, NextKey, IdleCollector
  <2>5. UploadsOwnKeys'
    BY <1>14 DEF BlobsIndInv, BlobsTypeOK, UploadType, UploadsOwnKeys, ForgetRow,
       NextKey, IdleCollector
  <2>6. UploadsHold'
    BY <1>14 DEF BlobsIndInv, BlobsTypeOK, UploadType, UploadsHold, ForgetRow, NextKey,
       IdleCollector
  <2>7. CollectorsClaim'
    BY <1>14 DEF BlobsIndInv, BlobsTypeOK, CollectorType, CollectorsClaim, ForgetRow,
       NextKey, IdleCollector
  <2>8. ReadersCaptured'
    BY <1>14 DEF BlobsIndInv, BlobsTypeOK, ReaderType, ReadersCaptured, ForgetRow,
       NextKey, IdleCollector
  <2> QED BY <1>0, <2>1, <2>2, <2>3, <2>4, <2>5, <2>6, <2>7, <2>8 DEF BlobsIndInv
<1>15. ASSUME NEW x \in Readers, NEW r \in Receipts, CaptureKey(x, r) PROVE BlobsIndInv'
  <2>1. /\ ReceiptBacked'
         /\ LiveHasOneReceipt'
         /\ NoUntrackedObject'
         /\ UploadsOwnKeys'
         /\ UploadsHold'
         /\ CollectorsClaim'
    BY <1>15 DEF BlobsIndInv, ReceiptBacked, LiveHasOneReceipt, NoUntrackedObject,
       UploadsOwnKeys, UploadsHold, CollectorsClaim, CaptureKey
  <2>2. NoBrokenRead'
    BY <1>15 DEF BlobsIndInv, BlobsTypeOK, ReaderType, NoBrokenRead, CaptureKey,
       IdleReader
  <2>3. ReadersCaptured'
    BY <1>15 DEF BlobsIndInv, BlobsTypeOK, ReaderType, ReceiptBacked, ReadersCaptured,
       CaptureKey, IdleReader
  <2> QED BY <1>0, <2>1, <2>2, <2>3 DEF BlobsIndInv
<1>16. ASSUME NEW x \in Readers, OpenBlob(x) PROVE BlobsIndInv'
  <2>1. /\ ReceiptBacked'
         /\ LiveHasOneReceipt'
         /\ NoUntrackedObject'
         /\ UploadsOwnKeys'
         /\ UploadsHold'
         /\ CollectorsClaim'
    BY <1>16 DEF BlobsIndInv, ReceiptBacked, LiveHasOneReceipt, NoUntrackedObject,
       UploadsOwnKeys, UploadsHold, CollectorsClaim, OpenBlob
  <2>2. NoBrokenRead'
    BY <1>16 DEF BlobsIndInv, BlobsTypeOK, ReaderType, NoBrokenRead, OpenBlob,
       IdleReader
  <2>3. ReadersCaptured'
    BY <1>16 DEF BlobsIndInv, BlobsTypeOK, ReaderType, ReceiptBacked, LiveHasOneReceipt,
       ReadersCaptured, OpenBlob, IdleReader
  <2> QED BY <1>0, <2>1, <2>2, <2>3 DEF BlobsIndInv
<1>17. ASSUME NEW x \in Readers, RecheckKey(x) PROVE BlobsIndInv'
  <2>1. /\ ReceiptBacked'
         /\ LiveHasOneReceipt'
         /\ NoUntrackedObject'
         /\ UploadsOwnKeys'
         /\ UploadsHold'
         /\ CollectorsClaim'
    BY <1>17 DEF BlobsIndInv, ReceiptBacked, LiveHasOneReceipt, NoUntrackedObject,
       UploadsOwnKeys, UploadsHold, CollectorsClaim, RecheckKey
  <2>2. NoBrokenRead'
    BY <1>17 DEF BlobsIndInv, BlobsTypeOK, ReaderType, ReceiptBacked, ReadersCaptured,
       NoBrokenRead, RecheckKey, IdleReader
  <2>3. ReadersCaptured'
    BY <1>17 DEF BlobsIndInv, BlobsTypeOK, ReaderType, ReadersCaptured, RecheckKey,
       IdleReader
  <2> QED BY <1>0, <2>1, <2>2, <2>3 DEF BlobsIndInv
<1>18. CASE BlobsCrash
  <2>1. LiveHasOneReceipt'
    BY <1>18 DEF BlobsIndInv, LiveHasOneReceipt, BlobsCrash
  <2>2. ReceiptBacked'
    BY <1>18 DEF BlobsIndInv, BlobsTypeOK, ReceiptBacked, BlobsCrash, IdleUpload,
       IdleCollector, IdleReader
  <2>3. NoUntrackedObject'
    BY <1>18 DEF BlobsIndInv, BlobsTypeOK, UploadType, UploadsHold, NoUntrackedObject,
       BlobsCrash, IdleUpload, IdleCollector, IdleReader
  <2>4. NoBrokenRead'
    BY <1>18 DEF BlobsIndInv, BlobsTypeOK, ReaderType, NoBrokenRead, BlobsCrash, IdleUpload,
       IdleCollector, IdleReader
  <2>5. UploadsOwnKeys'
    BY <1>18 DEF BlobsIndInv, BlobsTypeOK, UploadType, UploadsOwnKeys, BlobsCrash,
       IdleUpload, IdleCollector, IdleReader
  <2>6. UploadsHold'
    BY <1>18 DEF BlobsIndInv, BlobsTypeOK, UploadType, UploadsHold, BlobsCrash, IdleUpload,
       IdleCollector, IdleReader
  <2>7. CollectorsClaim'
    BY <1>18 DEF BlobsIndInv, BlobsTypeOK, CollectorType, CollectorsClaim, BlobsCrash,
       IdleUpload, IdleCollector, IdleReader
  <2>8. ReadersCaptured'
    BY <1>18 DEF BlobsIndInv, BlobsTypeOK, ReaderType, ReadersCaptured, BlobsCrash,
       IdleUpload, IdleCollector, IdleReader
  <2> QED BY <1>0, <2>1, <2>2, <2>3, <2>4, <2>5, <2>6, <2>7, <2>8 DEF BlobsIndInv
<1>19. CASE UNCHANGED blobsVars
    BY <1>0, <1>19 DEF BlobsIndInv, ReceiptBacked, LiveHasOneReceipt,
       NoUntrackedObject, NoBrokenRead, UploadsOwnKeys, UploadsHold,
       CollectorsClaim, ReadersCaptured, blobsVars
<1> QED BY <1>1, <1>2, <1>3, <1>4, <1>5, <1>6, <1>7, <1>8, <1>9, <1>10, <1>11,
       <1>12, <1>13, <1>14, <1>15, <1>16, <1>17, <1>18, <1>19
       DEF BlobsNext, Upload, Collect, ReadImage

LEMMA InvariantInit == BlobsInit => BlobsIndInv
BY BlobsTypeInit, BlobsAssumption DEF BlobsInit, BlobsIndInv, IdleUpload, IdleCollector,
   IdleReader, ReceiptBacked, LiveHasOneReceipt, NoUntrackedObject, NoBrokenRead,
   UploadsOwnKeys, UploadsHold, CollectorsClaim, ReadersCaptured

LEMMA BlobsInvariant == BlobsSpec => []BlobsIndInv
BY InvariantInit, InvariantStep, PTL DEF BlobsSpec

\* No interleaving of uploads, replacements, deletions, collectors, failed
\* provider calls and crashes leaves a receipt without its live blob and bytes.
THEOREM ReceiptAlwaysBacked == BlobsSpec => []ReceiptBacked
<1>1. BlobsIndInv => ReceiptBacked
    BY DEF BlobsIndInv
<1> QED BY <1>1, BlobsInvariant, PTL

\* A live blob has exactly one receipt: the triggers leak nothing and share
\* nothing.
THEOREM LiveNeverLeaked == BlobsSpec => []LiveHasOneReceipt
<1>1. BlobsIndInv => LiveHasOneReceipt
    BY DEF BlobsIndInv
<1> QED BY <1>1, BlobsInvariant, PTL

\* Whatever the provider holds has a row that leads the collector to it, at
\* every point between a provider call and the statement that records it.
THEOREM ProviderNeverUntracked == BlobsSpec => []NoUntrackedObject
<1>1. BlobsIndInv => NoUntrackedObject
    BY DEF BlobsIndInv
<1> QED BY <1>1, BlobsInvariant, PTL

\* GetReceiptImage never reports a missing object for a key the receipt still
\* points at: its second look at the receipt tells a replacement from a loss.
THEOREM ReadsNeverBroken == BlobsSpec => []NoBrokenRead
<1>1. BlobsIndInv => NoBrokenRead
    BY DEF BlobsIndInv
<1> QED BY <1>1, BlobsInvariant, PTL

\* No receipt is without its bytes and no bytes without their row, for any
\* number of uploads, collectors, readers and crashes.
THEOREM BytesAlwaysAccounted == BlobsSpec => []BytesAccounted
BY ReceiptAlwaysBacked, ProviderNeverUntracked, PTL DEF BytesAccounted

-----------------------------------------------------------------------------
(* Extraction and review.                                                  *)

-----------------------------------------------------------------------------
(* The inductive invariant.                                                *)

\* A copy is never newer than the row, and at the row's revision it is the row.
Faithful(r) ==
    rec.live => r.revision <= rec.revision /\ (r.revision = rec.revision => r = rec)

\* The row itself.
RowInv ==
    /\ rec.live => rec.image > 0
    /\ rec.status # "extracting" => rec.startedAt = 0
    /\ clock > 0

\* The copies of Extract calls, what the first one was checked for and what
\* the last one was checked for.
CopiesInv ==
    \A x \in Extractors :
        /\ ex[x].pc \in {"image", "save", "mergeSave"} => Faithful(ex[x].loaded)
        /\ ex[x].pc = "image" /\ ex[x].loaded.status = "extracting"
             => clock - ex[x].loaded.startedAt >= Lease
        /\ ex[x].pc = "save" /\ ex[x].loaded.status = "extracting"
             => ex[x].started - ex[x].loaded.startedAt >= Lease
        /\ ex[x].pc = "save" /\ rec.live /\ ex[x].loaded.revision = rec.revision
             => ex[x].image = rec.image
        /\ ex[x].pc = "mergeSave"
             => ex[x].loaded.startedAt = ex[x].started /\ ex[x].loaded.digest = ex[x].digest

\* The copies of reviews, and what their clients were shown.
ReviewsInv ==
    \A v \in Reviewers :
        /\ rv[v].pc = "save" => /\ Faithful(rv[v].loaded)
                                /\ rv[v].loaded.revision = rv[v].revision
        /\ rv[v].pc # "idle" /\ rec.live
             => /\ rv[v].revision <= rec.revision
                /\ rv[v].revision = rec.revision => rv[v].shown = rec.extraction.by

\* A call has stamped the receipt.
HasStamped(x) == ex[x].pc \in {"wait", "call", "merge", "mergeSave"}

\* Stamps are taken before the call, and the call ends before the lease does.
TimesInv ==
    \A x \in Extractors :
        /\ ex[x].pc = "save" => /\ ex[x].started <= clock
                                /\ clock <= ex[x].started + SaveDelay
        /\ InCall(x) => /\ ex[x].since <= ex[x].started + SaveDelay
                        /\ clock <= ex[x].since + Timeout
        /\ ex[x].pc = "save" \/ HasStamped(x) => ex[x].started > 0

\* The receipt waits for the attempt of x.
Owns(x) ==
    /\ ex[x].image = rec.image
    /\ rec.status = "extracting"
    /\ rec.startedAt = ex[x].started

\* The receipt has moved on from the attempt of x and cannot come back to it.
Superseded(x) ==
    /\ clock > ex[x].started
    /\ rec.startedAt = 0 \/ rec.startedAt > ex[x].started
    /\ ex[x].image <= rec.image
    /\ ~(InCall(x) /\ ex[x].image = rec.image)

AttemptsInv ==
    \A x \in Extractors : HasStamped(x) /\ rec.live => Owns(x) \/ Superseded(x)

\* A stamp about to be written is later than every stamp written.
LaterInv ==
    \A x, y \in Extractors :
        ex[x].pc = "save" /\ rec.live /\ ex[x].loaded.revision = rec.revision /\ HasStamped(y)
            => ex[x].started > ex[y].started

\* No two attempts carry the same stamp.
StampsInv ==
    \A x, y \in Extractors :
        x # y /\ HasStamped(x) /\ HasStamped(y) => ex[x].started # ex[y].started

IndInv ==
    /\ TypeOK
    /\ RowInv
    /\ CopiesInv
    /\ ReviewsInv
    /\ TimesInv
    /\ AttemptsInv
    /\ LaterInv
    /\ StampsInv
    /\ OneCallPerImage
    /\ ExtractionOfImage
    /\ ConfirmedFromDraft
-----------------------------------------------------------------------------
(* Types.                                                                  *)

LEMMA BlankTypes ==
    /\ Blank \in Payload
    /\ 0 < MaxAttempts => IdleExtractor(Blank) \in Extracting
    /\ IdleReviewer(Blank) \in Reviewing
<1>1. Blank \in Payload
    BY DEF Blank, Attached, Payload, Statuses
<1>2. 0 < MaxAttempts => IdleExtractor(Blank) \in Extracting
    BY <1>1, ConstantsAssumption DEF IdleExtractor, Extracting
<1>3. IdleReviewer(Blank) \in Reviewing
    BY <1>1 DEF IdleReviewer, Reviewing
<1> QED BY <1>1, <1>2, <1>3

\* The initial states have the types of TypeOK.
LEMMA TypeInit == Init => TypeOK
<1> SUFFICES ASSUME Init PROVE TypeOK
    OBVIOUS
<1>1. rec \in Payload
    BY DEF Init, Attached, Payload, Statuses
<1>2. ex \in [Extractors -> Extracting] /\ rv \in [Reviewers -> Reviewing]
    BY BlankTypes, ConstantsAssumption DEF Init
<1> QED BY <1>1, <1>2 DEF Init, TypeOK

\* Every step keeps the types, the merge counter included.
LEMMA TypeStep == TypeOK /\ [Next]_vars => TypeOK'
<1> SUFFICES ASSUME TypeOK, [Next]_vars PROVE TypeOK'
    OBVIOUS
<1> USE ConstantsAssumption
<1>T. /\ rec \in Payload /\ clock \in Nat
      /\ \A x \in Extractors : ex[x] \in Extracting
      /\ \A v \in Reviewers : rv[v] \in Reviewing
    BY DEF TypeOK
<1>R. /\ rec.revision \in Nat /\ rec.image \in Nat /\ rec.digest \in Digests \cup {None}
      /\ rec.extraction.by \in Sources \cup {None}
    BY <1>T DEF Payload
<1>0. /\ Blank \in Payload
      /\ IdleExtractor(Blank) \in Extracting
      /\ IdleReviewer(Blank) \in Reviewing
    BY BlankTypes
<1>1. ASSUME NEW x \in Extractors, LoadReceipt(x) PROVE TypeOK'
  <2>1. [ex[x] EXCEPT !.pc = "image", !.loaded = rec] \in Extracting
    BY <1>T DEF Extracting
  <2> QED BY <1>1, <2>1 DEF TypeOK, LoadReceipt
<1>2. ASSUME NEW x \in Extractors, LoadImage(x) PROVE TypeOK'
  <2>1. [ex[x] EXCEPT !.pc = "save", !.digest = rec.digest, !.image = rec.image,
                      !.started = clock] \in Extracting
    BY <1>T, <1>R DEF Extracting
  <2> QED BY <1>2, <2>1 DEF TypeOK, LoadImage
<1>3. ASSUME NEW x \in Extractors, SaveExtracting(x) PROVE TypeOK'
  <2> ex[x].loaded \in Payload /\ ex[x].started \in Nat
    BY <1>T DEF Extracting
  <2>a. ex[x].loaded.revision \in Nat
    BY DEF Payload
  <2>b. Stamped(x) \in Payload
    BY DEF Stamped, Payload, Statuses
  <2>1. Saved(Stamped(x), ex[x].loaded.revision) \in Payload
    BY <2>a, <2>b DEF Saved, Payload
  <2>c. [ex[x] EXCEPT !.pc = "wait", !.loaded = Blank, !.since = clock] \in Extracting
    BY <1>T, <1>0 DEF Extracting
  <2>2. rec' \in Payload
    BY <1>3, <2>1 DEF TypeOK, SaveExtracting
  <2>3. ex' \in [Extractors -> Extracting]
    BY <1>3, <1>0, <2>c DEF TypeOK, SaveExtracting
  <2> QED BY <1>3, <2>2, <2>3 DEF TypeOK, SaveExtracting
<1>4. ASSUME NEW x \in Extractors, TakeSlot(x) PROVE TypeOK'
  <2>1. [ex[x] EXCEPT !.pc = "call"] \in Extracting
    BY <1>T DEF Extracting
  <2> QED BY <1>4, <2>1 DEF TypeOK, TakeSlot
<1>5. ASSUME NEW x \in Extractors, NEW ok \in BOOLEAN, CallEnds(x, ok) PROVE TypeOK'
  <2>1. [ex[x] EXCEPT !.pc = "merge", !.answered = ok] \in Extracting
    BY <1>T DEF Extracting
  <2> QED BY <1>5, <2>1 DEF TypeOK, CallEnds
<1>6. ASSUME NEW x \in Extractors, MergeLoad(x) PROVE TypeOK'
  <2>1. [ex[x] EXCEPT !.pc = "mergeSave", !.loaded = rec] \in Extracting
    BY <1>T DEF Extracting
  <2> QED BY <1>6, <1>0, <2>1 DEF TypeOK, MergeLoad
<1>7. ASSUME NEW x \in Extractors, MergeSave(x) PROVE TypeOK'
  <2> /\ ex[x].loaded \in Payload /\ ex[x].digest \in Digests \cup {None}
      /\ ex[x].attempt \in 0 .. MaxAttempts - 1 /\ ex[x] \in Extracting
    BY <1>T DEF Extracting
  <2>a. ex[x].loaded.revision \in Nat
    BY DEF Payload
  <2>d. [ex[x].loaded EXCEPT !.status = "failed", !.startedAt = 0] \in Payload
    BY DEF Payload, Statuses
  <2>e. [by |-> source, of |-> ex[x].digest]
            \in [by : Sources \cup {None}, of : Digests \cup {None}]
    BY DEF TypeOK
  <2>f. [ex[x].loaded EXCEPT !.status = "ready", !.startedAt = 0,
             !.extraction = [by |-> source, of |-> ex[x].digest]] \in Payload
    BY <2>e DEF Payload, Statuses
  <2>b. Merged(x) \in Payload
    BY <2>d, <2>f DEF Merged
  <2>1. Saved(Merged(x), ex[x].loaded.revision) \in Payload
    BY <2>a, <2>b DEF Saved, Payload
  <2>c. ASSUME ex[x].attempt + 1 < MaxAttempts
        PROVE  [ex[x] EXCEPT !.pc = "merge", !.loaded = Blank, !.attempt = @ + 1] \in Extracting
    <3>1. ex[x].attempt + 1 \in 0 .. MaxAttempts - 1
      BY <2>c
    <3> HIDE ConstantsAssumption
    <3> QED BY <1>0, <3>1 DEF Extracting
  <2>2. Retry(x) \in Extracting
    BY <1>0, <2>c DEF Retry
  <2>3. rec' \in Payload
    BY <1>7, <2>1 DEF TypeOK, MergeSave
  <2>4. ex' \in [Extractors -> Extracting]
    BY <1>7, <1>0, <2>2 DEF TypeOK, MergeSave
  <2> QED BY <1>7, <2>3, <2>4 DEF TypeOK, MergeSave
<1>8. ASSUME NEW x \in Extractors, ExtractFails(x) PROVE TypeOK'
    BY <1>8, <1>0 DEF TypeOK, ExtractFails
<1>9. ASSUME NEW v \in Reviewers, ReadReceipt(v) PROVE TypeOK'
  <2>1. [rv[v] EXCEPT !.pc = "edit", !.revision = rec.revision,
                      !.shown = rec.extraction.by] \in Reviewing
    BY <1>T, <1>R DEF Reviewing
  <2> QED BY <1>9, <2>1 DEF TypeOK, ReadReceipt
<1>10. ASSUME NEW v \in Reviewers, ReviewLoad(v) PROVE TypeOK'
  <2>1. [rv[v] EXCEPT !.pc = "save", !.loaded = rec] \in Reviewing
    BY <1>T DEF Reviewing
  <2> QED BY <1>10, <1>0, <2>1 DEF TypeOK, ReviewLoad
<1>11. ASSUME NEW v \in Reviewers, NEW c \in BOOLEAN, ReviewSave(v, c) PROVE TypeOK'
  <2>1. rv[v].loaded \in Payload /\ rv[v].revision \in Nat
    BY DEF TypeOK, Reviewing
  <2>2. DraftProvenance(rv[v].loaded) \in Sources \cup {None}
    BY <2>1 DEF DraftProvenance, Payload
  <2>4. Reviewed(v, c) \in Payload
    <3>1. /\ (IF c THEN v ELSE rv[v].loaded.confirmed) \in Reviewers \cup {None}
          /\ (IF c THEN DraftProvenance(rv[v].loaded) ELSE rv[v].loaded.confirmedProvenance)
                \in Sources \cup {None}
      BY <2>1, <2>2 DEF Payload
    <3> QED BY <3>1, <2>1, <2>2 DEF Reviewed, Payload
  <2>3. Saved(Reviewed(v, c), rv[v].revision) \in Payload
    BY <2>1, <2>2, <2>4 DEF Saved, Payload
  <2> QED BY <1>11, <1>0, <2>3 DEF TypeOK, ReviewSave
<1>12. ASSUME NEW d \in Digests, ReplaceImage(d) PROVE TypeOK'
  <2>1. Replaced(d) \in Payload
    BY <1>R DEF Replaced, Attached, Payload, Statuses
  <2> QED BY <1>12, <2>1 DEF TypeOK, ReplaceImage
<1>13. CASE DeleteReceipt
    BY <1>13, <1>0 DEF TypeOK, DeleteReceipt
<1>14. CASE Tick
    BY <1>14 DEF TypeOK, Tick
<1>15. CASE Crash
  <2>1. rv' \in [Reviewers -> Reviewing]
    BY <1>15, <1>0, <1>T DEF Crash
  <2> QED BY <1>15, <1>0, <2>1 DEF TypeOK, Crash
<1>16. CASE UNCHANGED vars
    BY <1>16 DEF TypeOK, vars
<1> QED BY <1>1, <1>2, <1>3, <1>4, <1>5, <1>6, <1>7, <1>8, <1>9, <1>10, <1>11,
           <1>12, <1>13, <1>14, <1>15, <1>16 DEF Next, Extract, Review
-----------------------------------------------------------------------------
(* The numbers TypeOK speaks of.                                           *)

Numbers ==
    /\ rec.revision \in Nat /\ rec.image \in Nat /\ rec.startedAt \in Nat /\ clock \in Nat
    /\ \A x \in Extractors :
         /\ ex[x].image \in Nat /\ ex[x].started \in Nat /\ ex[x].since \in Nat
         /\ ex[x].loaded.revision \in Nat /\ ex[x].loaded.startedAt \in Nat
    /\ \A v \in Reviewers : rv[v].revision \in Nat /\ rv[v].loaded.revision \in Nat

LEMMA TypedNumbers == TypeOK => Numbers
<1> SUFFICES ASSUME TypeOK PROVE Numbers
    OBVIOUS
<1>1. \A r \in Payload : r.revision \in Nat /\ r.image \in Nat /\ r.startedAt \in Nat
    BY DEF Payload
<1>2. \A x \in Extractors :
         /\ ex[x].image \in Nat /\ ex[x].started \in Nat /\ ex[x].since \in Nat
         /\ ex[x].loaded \in Payload
    BY DEF TypeOK, Extracting
<1>3. \A v \in Reviewers : rv[v].revision \in Nat /\ rv[v].loaded \in Payload
    BY DEF TypeOK, Reviewing
<1> QED BY <1>1, <1>2, <1>3 DEF TypeOK, Numbers

LEMMA Constants ==
    /\ Timeout \in Nat \ {0} /\ Lease \in Nat \ {0} /\ SaveDelay \in Nat \ {0}
    /\ SaveDelay + Timeout < Lease
BY ConstantsAssumption

\* What the invariant says of calls; the rest is about the row and reviews.
CallsInv ==
    CopiesInv /\ TimesInv /\ AttemptsInv /\ LaterInv /\ StampsInv /\ OneCallPerImage

\* A call that ends, successful or not, disturbs no other call.
LEMMA EndStep ==
    ASSUME TypeOK, CallsInv, NEW x \in Extractors,
           ex' = [ex EXCEPT ![x] = IdleExtractor(Blank)], rec' = rec, clock' = clock
    PROVE  CallsInv'
<1>1. ex'[x].pc = "idle"
    BY DEF TypeOK, IdleExtractor
<1>2. \A y \in Extractors : y # x => ex'[y] = ex[y]
    BY DEF TypeOK
<1>3. \A y \in Extractors : ex'[y].pc # "idle" => ex'[y] = ex[y]
    BY <1>1, <1>2
<1>4. CopiesInv'
    BY <1>3 DEF CallsInv, CopiesInv, Faithful
<1>5. TimesInv'
    BY <1>3 DEF CallsInv, TimesInv, InCall, HasStamped
<1>6. AttemptsInv'
    BY <1>3 DEF CallsInv, AttemptsInv, HasStamped, Owns, Superseded, InCall
<1>7. LaterInv' /\ StampsInv' /\ OneCallPerImage'
    BY <1>3 DEF CallsInv, LaterInv, StampsInv, OneCallPerImage, HasStamped, InCall
<1> QED BY <1>4, <1>5, <1>6, <1>7 DEF CallsInv

\* The steps of Extract that leave the row alone.
LEMMA LocalStep ==
    ASSUME TypeOK, Numbers, RowInv, CallsInv, NEW x \in Extractors,
           \/ LoadReceipt(x) \/ LoadImage(x) \/ TakeSlot(x)
           \/ \E ok \in BOOLEAN : CallEnds(x, ok)
           \/ MergeLoad(x) \/ ExtractFails(x)
    PROVE  CallsInv'
<1> USE Constants
<1>1. CASE LoadReceipt(x)
  <2>1. /\ \A y \in Extractors : y # x => ex'[y] = ex[y]
        /\ ex'[x].pc = "image" /\ ex'[x].loaded = rec
        /\ rec' = rec /\ clock' = clock
    BY <1>1 DEF TypeOK, LoadReceipt, Extracting
  <2>2. rec.status = "extracting" => clock - rec.startedAt >= Lease
    BY <1>1 DEF LoadReceipt, LeaseOver, Numbers
  <2>3. CopiesInv'
    BY <2>1, <2>2 DEF CallsInv, CopiesInv, Faithful, Numbers
  <2>4. TimesInv' /\ LaterInv' /\ StampsInv' /\ OneCallPerImage'
    BY <2>1 DEF CallsInv, TimesInv, LaterInv, StampsInv, OneCallPerImage, HasStamped, InCall
  <2>5. AttemptsInv'
    BY <2>1 DEF CallsInv, AttemptsInv, HasStamped, Owns, Superseded, InCall
  <2> QED BY <2>3, <2>4, <2>5 DEF CallsInv
<1>2. CASE LoadImage(x)
  <2>1. /\ \A y \in Extractors : y # x => ex'[y] = ex[y]
        /\ ex[x].pc = "image"
        /\ ex'[x].pc = "save" /\ ex'[x].loaded = ex[x].loaded
        /\ ex'[x].image = rec.image /\ ex'[x].started = clock
        /\ rec' = rec /\ clock' = clock
    BY <1>2 DEF TypeOK, LoadImage, Extracting
  <2>3. CopiesInv'
    BY <2>1 DEF CallsInv, CopiesInv, Faithful, Numbers
  <2>4. TimesInv'
    BY <2>1 DEF CallsInv, TimesInv, HasStamped, InCall, Numbers, RowInv
  <2>5. AttemptsInv'
    BY <2>1 DEF CallsInv, AttemptsInv, HasStamped, Owns, Superseded, InCall
  <2>6. LaterInv'
    <3>1. ASSUME NEW y \in Extractors, HasStamped(y), rec.live,
                 ex[x].loaded.revision = rec.revision
          PROVE  clock > ex[y].started
      <4>1. ex[x].loaded = rec
        BY <3>1, <2>1 DEF CallsInv, CopiesInv, Faithful
      <4>2. CASE Owns(y)
        BY <4>1, <4>2, <2>1 DEF CallsInv, CopiesInv, Owns, Numbers
      <4>3. CASE Superseded(y)
        BY <4>3 DEF Superseded
      <4> QED BY <3>1, <4>2, <4>3 DEF CallsInv, AttemptsInv
    <3> QED BY <2>1, <3>1 DEF CallsInv, LaterInv, HasStamped
  <2>7. StampsInv' /\ OneCallPerImage'
    BY <2>1 DEF CallsInv, StampsInv, OneCallPerImage, HasStamped, InCall
  <2> QED BY <2>3, <2>4, <2>5, <2>6, <2>7 DEF CallsInv
<1>3. CASE TakeSlot(x) \/ \E ok \in BOOLEAN : CallEnds(x, ok)
  <2>1. /\ \A y \in Extractors : y # x => ex'[y] = ex[y]
        /\ InCall(x) /\ HasStamped(x)
        /\ ex'[x].pc \in {"call", "merge"} /\ ex'[x].loaded = ex[x].loaded
        /\ ex'[x].image = ex[x].image /\ ex'[x].started = ex[x].started
        /\ ex'[x].since = ex[x].since
        /\ rec' = rec /\ clock' = clock
    <3>1. CASE TakeSlot(x)
      BY <3>1 DEF TypeOK, TakeSlot, Extracting, InCall, HasStamped
    <3>2. ASSUME NEW ok \in BOOLEAN, CallEnds(x, ok) PROVE <2>1
      BY <3>2 DEF TypeOK, CallEnds, Extracting, InCall, HasStamped
    <3> QED BY <1>3, <3>1, <3>2
  <2>3. CopiesInv'
    BY <2>1 DEF CallsInv, CopiesInv, Faithful, InCall
  <2>4. TimesInv'
    BY <2>1 DEF CallsInv, TimesInv, HasStamped, InCall
  <2>5. AttemptsInv'
    BY <2>1 DEF CallsInv, AttemptsInv, HasStamped, Owns, Superseded, InCall
  <2>6. LaterInv' /\ StampsInv' /\ OneCallPerImage'
    BY <2>1 DEF CallsInv, LaterInv, StampsInv, OneCallPerImage, HasStamped, InCall
  <2> QED BY <2>3, <2>4, <2>5, <2>6 DEF CallsInv
<1>4. CASE MergeLoad(x)
  <2>1. CASE rec.live /\ StillOwn(x)
    <3>1. /\ \A y \in Extractors : y # x => ex'[y] = ex[y]
          /\ ex[x].pc = "merge" /\ HasStamped(x)
          /\ ex'[x].pc = "mergeSave" /\ ex'[x].loaded = rec
          /\ ex'[x].image = ex[x].image /\ ex'[x].started = ex[x].started
          /\ ex'[x].digest = ex[x].digest
          /\ rec' = rec /\ clock' = clock
      BY <1>4, <2>1 DEF TypeOK, MergeLoad, Extracting, HasStamped
    <3>2. rec.startedAt = ex[x].started /\ rec.digest = ex[x].digest
      BY <2>1 DEF StillOwn
    <3>3. CopiesInv'
      BY <3>1, <3>2 DEF CallsInv, CopiesInv, Faithful, Numbers
    <3>4. TimesInv'
      BY <3>1 DEF CallsInv, TimesInv, HasStamped, InCall
    <3>5. AttemptsInv'
      BY <3>1 DEF CallsInv, AttemptsInv, HasStamped, Owns, Superseded, InCall
    <3>6. LaterInv' /\ StampsInv' /\ OneCallPerImage'
      BY <3>1 DEF CallsInv, LaterInv, StampsInv, OneCallPerImage, HasStamped, InCall
    <3> QED BY <3>3, <3>4, <3>5, <3>6 DEF CallsInv
  <2>2. CASE ~(rec.live /\ StillOwn(x))
    BY <1>4, <2>2, EndStep DEF MergeLoad
  <2> QED BY <2>1, <2>2
<1>5. CASE ExtractFails(x)
    BY <1>5, EndStep DEF ExtractFails
<1> QED BY <1>1, <1>2, <1>3, <1>4, <1>5

\* A save that finds its revision writes a changed copy of the row itself.
LEMMA SaveExtractingStep ==
    ASSUME TypeOK, Numbers, RowInv, CallsInv, NEW x \in Extractors,
           SaveExtracting(x), Current(ex[x].loaded.revision)
    PROVE  /\ CallsInv'
           /\ rec' = [rec EXCEPT !.status = "extracting", !.startedAt = ex[x].started,
                                 !.revision = rec.revision + 1]
<1> USE Constants
<1>1. /\ rec.live /\ ex[x].loaded.revision = rec.revision
      /\ ex[x].pc = "save" /\ ex[x].loaded = rec
    BY DEF SaveExtracting, Current, CallsInv, CopiesInv, Faithful
<1>2. rec' = [rec EXCEPT !.status = "extracting", !.startedAt = ex[x].started,
                         !.revision = rec.revision + 1]
    BY <1>1 DEF SaveExtracting, Saved, Stamped
<1>3. /\ rec'.live = rec.live /\ rec'.image = rec.image
      /\ rec'.status = "extracting" /\ rec'.startedAt = ex[x].started
      /\ rec'.revision = rec.revision + 1
    BY <1>2 DEF TypeOK, Payload
<1>4. /\ \A y \in Extractors : y # x => ex'[y] = ex[y]
      /\ ex'[x].pc = "wait" /\ ex'[x].started = ex[x].started
      /\ ex'[x].image = ex[x].image /\ ex'[x].since = clock
      /\ clock' = clock
  <2>1. /\ ex' = [ex EXCEPT ![x] = [ex[x] EXCEPT !.pc = "wait", !.loaded = Blank,
                                                !.since = clock]]
        /\ clock' = clock
    BY <1>1 DEF SaveExtracting, Current
  <2>2. ex \in [Extractors -> Extracting]
    BY DEF TypeOK
  <2>3. ex[x] \in Extracting
    BY <2>2
  <2>. QED  BY <2>1, <2>2, <2>3 DEF Extracting
<1>5. ex[x].image = rec.image
    BY <1>1 DEF CallsInv, CopiesInv
<1>6. /\ ex[x].started <= clock /\ clock <= ex[x].started + SaveDelay
      /\ ex[x].started > 0
    BY <1>1 DEF CallsInv, TimesInv
<1>7. \A y \in Extractors : HasStamped(y) => ex[x].started > ex[y].started
    BY <1>1 DEF CallsInv, LaterInv
<1>8. ASSUME NEW y \in Extractors, InCall(y), ex[y].image = rec.image PROVE FALSE
  <2>1. HasStamped(y)
    BY <1>8 DEF InCall, HasStamped
  <2>2. Owns(y)
    BY <1>1, <1>8, <2>1 DEF CallsInv, AttemptsInv, Superseded
  <2>3. ex[x].started - rec.startedAt >= Lease
    BY <1>1, <2>2 DEF CallsInv, CopiesInv, Owns
  <2>4. clock <= ex[y].started + SaveDelay + Timeout
    BY <1>8 DEF CallsInv, TimesInv, Numbers
  <2> QED BY <1>6, <2>2, <2>3, <2>4 DEF Owns, Numbers
<1>9. CopiesInv'
    BY <1>3, <1>4 DEF CallsInv, CopiesInv, Faithful, Numbers
<1>10. TimesInv'
    BY <1>4, <1>6 DEF CallsInv, TimesInv, HasStamped, InCall, Numbers
<1>11. AttemptsInv'
  <2>1. Owns(x)'
    BY <1>3, <1>4, <1>5 DEF Owns
  <2>2. ASSUME NEW y \in Extractors, y # x, HasStamped(y)' PROVE Superseded(y)'
    <3>1. HasStamped(y) /\ ex'[y] = ex[y]
      BY <1>4, <2>2 DEF HasStamped
    <3>2. ex[y].image <= rec.image
      BY <1>1, <3>1 DEF CallsInv, AttemptsInv, Owns, Superseded, Numbers
    <3>3. clock > ex[y].started /\ rec'.startedAt > ex[y].started
      BY <1>3, <1>6, <1>7, <3>1 DEF Numbers
    <3>4. ~(InCall(y) /\ ex[y].image = rec.image)
      BY <1>8
    <3> QED BY <1>3, <1>4, <3>1, <3>2, <3>3, <3>4 DEF Superseded, InCall
  <2> QED BY <2>1, <2>2 DEF AttemptsInv
<1>12. LaterInv'
  <2>1. \A y \in Extractors : ex'[y].pc = "save" /\ rec.live
            => ex'[y].loaded.revision # rec'.revision
    BY <1>3, <1>4 DEF CallsInv, CopiesInv, Faithful, Numbers
  <2> QED BY <1>3, <2>1 DEF LaterInv
<1>13. StampsInv'
    BY <1>4, <1>7 DEF CallsInv, StampsInv, HasStamped, Numbers
<1>14. OneCallPerImage'
    BY <1>4, <1>5, <1>8 DEF CallsInv, OneCallPerImage, InCall
<1> QED BY <1>2, <1>9, <1>10, <1>11, <1>12, <1>13, <1>14 DEF CallsInv

\* A merge that finds its revision ends the attempt the receipt waits for.
LEMMA MergeSaveStep ==
    ASSUME TypeOK, Numbers, RowInv, CallsInv, NEW x \in Extractors,
           MergeSave(x), Current(ex[x].loaded.revision)
    PROVE  /\ CallsInv'
           /\ Owns(x) /\ ex[x].loaded = rec /\ rec.digest = ex[x].digest
           /\ rec' = Saved(Merged(x), rec.revision)
<1>1. /\ rec.live /\ ex[x].loaded.revision = rec.revision
      /\ ex[x].pc = "mergeSave" /\ ex[x].loaded = rec /\ HasStamped(x)
    BY DEF MergeSave, Current, CallsInv, CopiesInv, Faithful, HasStamped
<1>2. rec.startedAt = ex[x].started /\ rec.digest = ex[x].digest /\ ex[x].started > 0
    BY <1>1 DEF CallsInv, CopiesInv, TimesInv
<1>3. Owns(x)
    BY <1>1, <1>2 DEF CallsInv, AttemptsInv, Superseded, Numbers
<1>4. rec' = Saved(Merged(x), rec.revision)
    BY <1>1 DEF MergeSave
<1>5. /\ rec'.live = rec.live /\ rec'.image = rec.image
      /\ rec'.startedAt = 0 /\ rec'.revision = rec.revision + 1
    BY <1>1, <1>4 DEF Saved, Merged, TypeOK, Payload
<1>6. /\ \A y \in Extractors : y # x => ex'[y] = ex[y]
      /\ ex'[x].pc = "idle"
      /\ clock' = clock
    BY DEF MergeSave, TypeOK, IdleExtractor
<1>7. CopiesInv'
    BY <1>5, <1>6 DEF CallsInv, CopiesInv, Faithful, Numbers
<1>8. TimesInv' /\ StampsInv' /\ OneCallPerImage'
    BY <1>6 DEF CallsInv, TimesInv, StampsInv, OneCallPerImage, HasStamped, InCall
<1>9. AttemptsInv'
  <2>1. ASSUME NEW y \in Extractors, HasStamped(y)' PROVE Superseded(y)'
    <3>1. y # x /\ HasStamped(y) /\ ex'[y] = ex[y]
      BY <1>6, <2>1 DEF HasStamped
    <3>2. ex[y].started # ex[x].started
      BY <1>1, <3>1 DEF CallsInv, StampsInv
    <3>3. Superseded(y)
      BY <1>1, <1>2, <3>1, <3>2 DEF CallsInv, AttemptsInv, Owns
    <3> QED BY <1>5, <1>6, <3>1, <3>3 DEF Superseded, InCall
  <2> QED BY <2>1 DEF AttemptsInv
<1>10. LaterInv'
  <2>1. \A y \in Extractors : ex'[y].pc = "save" /\ rec.live
            => ex'[y].loaded.revision # rec'.revision
    BY <1>5, <1>6 DEF CallsInv, CopiesInv, Faithful, Numbers
  <2> QED BY <1>5, <2>1 DEF LaterInv
<1> QED BY <1>1, <1>2, <1>3, <1>4, <1>7, <1>8, <1>9, <1>10 DEF CallsInv

\* A new revision of the row, by a review or a new image, leaves every call a
\* copy that is too old.
LEMMA NewRevisionStep ==
    ASSUME TypeOK, Numbers, CallsInv, rec.live,
           rec'.live, rec'.revision = rec.revision + 1,
           ex' = ex, clock' = clock, AttemptsInv'
    PROVE  CallsInv'
<1>1. CopiesInv'
    BY DEF CallsInv, CopiesInv, Faithful, Numbers
<1>2. TimesInv' /\ StampsInv' /\ OneCallPerImage'
    BY DEF CallsInv, TimesInv, StampsInv, OneCallPerImage, HasStamped, InCall
<1>3. LaterInv'
  <2>1. \A y \in Extractors : ex[y].pc = "save" => ex[y].loaded.revision # rec'.revision
    BY DEF CallsInv, CopiesInv, Faithful, Numbers
  <2> QED BY <2>1 DEF LaterInv
<1> QED BY <1>1, <1>2, <1>3 DEF CallsInv

\* A review that finds its revision changes the review of the row itself.
LEMMA ReviewSaveStep ==
    ASSUME TypeOK, Numbers, CallsInv, ReviewsInv, ConfirmedFromDraft,
           NEW v \in Reviewers, NEW c \in BOOLEAN, ReviewSave(v, c), Current(rv[v].revision)
    PROVE  /\ CallsInv'
           /\ rec.live /\ rec'.live /\ rec'.revision = rec.revision + 1
           /\ rec'.image = rec.image /\ rec'.digest = rec.digest
           /\ rec'.status = rec.status /\ rec'.startedAt = rec.startedAt
           /\ rec'.extraction = rec.extraction
           /\ rec'.draft = v
           /\ rec'.draftProvenance = IF rec.draft # None THEN rec.draftProvenance
                                     ELSE rv[v].shown
           /\ rec'.confirmed = IF c THEN v ELSE rec.confirmed
           /\ rec'.confirmedProvenance = IF c THEN rec'.draftProvenance
                                         ELSE rec.confirmedProvenance
<1>1. /\ rec.live /\ rv[v].revision = rec.revision /\ rv[v].loaded = rec
      /\ rv[v].shown = rec.extraction.by
    BY DEF ReviewSave, Current, ReviewsInv, Faithful
<1>2. rec' = Saved(Reviewed(v, c), rec.revision) /\ ex' = ex /\ clock' = clock
    BY <1>1 DEF ReviewSave
<1>3. Reviewed(v, c) =
        [rec EXCEPT !.draft = v, !.draftProvenance = DraftProvenance(rec),
                    !.confirmed = IF c THEN v ELSE @,
                    !.confirmedProvenance = IF c THEN DraftProvenance(rec) ELSE @]
    BY <1>1 DEF Reviewed
<1>4. DraftProvenance(rec) = IF rec.draft # None THEN rec.draftProvenance ELSE rv[v].shown
    BY <1>1 DEF DraftProvenance, ConfirmedFromDraft
<1>5. /\ rec'.live /\ rec'.revision = rec.revision + 1
      /\ rec'.image = rec.image /\ rec'.digest = rec.digest
      /\ rec'.status = rec.status /\ rec'.startedAt = rec.startedAt
      /\ rec'.extraction = rec.extraction
      /\ rec'.draft = v /\ rec'.draftProvenance = DraftProvenance(rec)
      /\ rec'.confirmed = IF c THEN v ELSE rec.confirmed
      /\ rec'.confirmedProvenance = IF c THEN DraftProvenance(rec)
                                    ELSE rec.confirmedProvenance
    BY <1>1, <1>2, <1>3 DEF Saved, TypeOK, Payload
<1>6. AttemptsInv'
    BY <1>1, <1>2, <1>5 DEF CallsInv, AttemptsInv, HasStamped, Owns, Superseded, InCall
<1> QED BY <1>1, <1>2, <1>4, <1>5, <1>6, NewRevisionStep

\* A new image supersedes every attempt.
LEMMA ReplaceImageStep ==
    ASSUME TypeOK, Numbers, CallsInv, NEW d \in Digests, ReplaceImage(d)
    PROVE  /\ CallsInv'
           /\ rec.live /\ rec'.live /\ rec'.revision = rec.revision + 1
           /\ rec'.image = rec.image + 1
           /\ rec'.status = "attached" /\ rec'.startedAt = 0
           /\ rec'.extraction.by = None /\ rec'.confirmed = None
<1>1. /\ rec.live /\ rec.startedAt < clock /\ ex' = ex /\ clock' = clock
      /\ rec'.live /\ rec'.revision = rec.revision + 1
      /\ rec'.image = rec.image + 1
      /\ rec'.status = "attached" /\ rec'.startedAt = 0
      /\ rec'.extraction.by = None /\ rec'.confirmed = None
    BY DEF ReplaceImage, Replaced, Attached
<1>2. AttemptsInv'
  <2>1. ASSUME NEW y \in Extractors, HasStamped(y) PROVE Superseded(y)'
    <3>1. clock > ex[y].started /\ ex[y].image <= rec.image
      BY <1>1, <2>1 DEF CallsInv, AttemptsInv, Owns, Superseded, Numbers
    <3> QED BY <1>1, <3>1 DEF Superseded, InCall, Numbers
  <2> QED BY <1>1, <2>1 DEF AttemptsInv, HasStamped
<1> QED BY <1>1, <1>2, NewRevisionStep
-----------------------------------------------------------------------------
(* The invariant is inductive.                                             *)

LEMMA IndInit == Init => IndInv
<1> SUFFICES ASSUME Init PROVE IndInv
    OBVIOUS
<1>1. /\ \A x \in Extractors : ex[x].pc = "idle"
      /\ \A v \in Reviewers : rv[v].pc = "idle"
    BY DEF Init, IdleExtractor, IdleReviewer
<1>2. RowInv /\ ExtractionOfImage /\ ConfirmedFromDraft
    BY DEF Init, Attached, RowInv, ExtractionOfImage, ConfirmedFromDraft
<1>3. CopiesInv /\ ReviewsInv /\ TimesInv /\ AttemptsInv /\ LaterInv /\ StampsInv
      /\ OneCallPerImage
    BY <1>1 DEF CopiesInv, ReviewsInv, TimesInv, AttemptsInv, LaterInv, StampsInv,
                OneCallPerImage, HasStamped, InCall
<1> QED BY <1>2, <1>3, TypeInit DEF IndInv

LEMMA IndStep == IndInv /\ [Next]_vars => IndInv'
<1> SUFFICES ASSUME IndInv, [Next]_vars PROVE IndInv'
    OBVIOUS
<1> USE Constants
<1>0. /\ TypeOK /\ TypeOK' /\ RowInv /\ CallsInv /\ ReviewsInv /\ Numbers
      /\ ExtractionOfImage /\ ConfirmedFromDraft
    BY TypeStep, TypedNumbers DEF IndInv, CallsInv
<1>Q. SUFFICES RowInv' /\ CallsInv' /\ ReviewsInv' /\ ExtractionOfImage' /\ ConfirmedFromDraft'
    BY <1>0 DEF IndInv, CallsInv
<1>R. ASSUME rec' = rec, rv' = rv, clock' = clock
      PROVE  RowInv' /\ ReviewsInv' /\ ExtractionOfImage' /\ ConfirmedFromDraft'
    BY <1>0, <1>R DEF RowInv, ReviewsInv, Faithful, ExtractionOfImage, ConfirmedFromDraft
<1>V. ASSUME rec'.live => rec.live /\ rec'.revision = rec.revision + 1, rv' = rv
      PROVE  ReviewsInv'
    BY <1>0, <1>V DEF ReviewsInv, Faithful, Numbers
<1>1. ASSUME NEW x \in Extractors,
             \/ LoadReceipt(x) \/ LoadImage(x) \/ TakeSlot(x)
             \/ \E ok \in BOOLEAN : CallEnds(x, ok)
             \/ MergeLoad(x) \/ ExtractFails(x)
      PROVE  RowInv' /\ CallsInv' /\ ReviewsInv' /\ ExtractionOfImage' /\ ConfirmedFromDraft'
  <2>1. rec' = rec /\ rv' = rv /\ clock' = clock
    BY <1>1 DEF LoadReceipt, LoadImage, TakeSlot, CallEnds, MergeLoad, ExtractFails
  <2> QED BY <1>0, <1>1, <1>R, <2>1, LocalStep
<1>2. ASSUME NEW x \in Extractors, SaveExtracting(x)
      PROVE  RowInv' /\ CallsInv' /\ ReviewsInv' /\ ExtractionOfImage' /\ ConfirmedFromDraft'
  <2>1. CASE Current(ex[x].loaded.revision)
    <3>1. CallsInv' /\ rv' = rv /\ clock' = clock
      BY <1>0, <1>2, <2>1, SaveExtractingStep DEF SaveExtracting
    <3>2. rec' = [rec EXCEPT !.status = "extracting", !.startedAt = ex[x].started,
                             !.revision = rec.revision + 1]
      BY <1>0, <1>2, <2>1, SaveExtractingStep
    <3>3. /\ rec'.live = rec.live /\ rec'.image = rec.image /\ rec'.digest = rec.digest
          /\ rec'.status = "extracting" /\ rec'.revision = rec.revision + 1
          /\ rec'.extraction = rec.extraction
          /\ rec'.draft = rec.draft /\ rec'.confirmed = rec.confirmed
          /\ rec'.draftProvenance = rec.draftProvenance
          /\ rec'.confirmedProvenance = rec.confirmedProvenance
      BY <1>0, <3>2 DEF TypeOK, Payload
    <3>4. RowInv' /\ ExtractionOfImage' /\ ConfirmedFromDraft'
      BY <1>0, <3>1, <3>3 DEF RowInv, ExtractionOfImage, ConfirmedFromDraft
    <3> QED BY <1>V, <3>1, <3>3, <3>4
  <2>2. CASE ~Current(ex[x].loaded.revision)
    BY <1>0, <1>2, <1>R, <2>2, EndStep DEF SaveExtracting
  <2> QED BY <2>1, <2>2
<1>3. ASSUME NEW x \in Extractors, MergeSave(x)
      PROVE  RowInv' /\ CallsInv' /\ ReviewsInv' /\ ExtractionOfImage' /\ ConfirmedFromDraft'
  <2>1. CASE Current(ex[x].loaded.revision)
    <3>1. CallsInv' /\ rv' = rv /\ clock' = clock
      BY <1>0, <1>3, <2>1, MergeSaveStep DEF MergeSave
    <3>2. /\ rec' = Saved(Merged(x), rec.revision) /\ ex[x].loaded = rec
          /\ rec.digest = ex[x].digest
      BY <1>0, <1>3, <2>1, MergeSaveStep
    <3>3. /\ rec'.live = rec.live /\ rec'.image = rec.image /\ rec'.digest = rec.digest
          /\ rec'.startedAt = 0 /\ rec'.revision = rec.revision + 1
          /\ rec'.extraction \in {rec.extraction, [by |-> source, of |-> ex[x].digest]}
          /\ rec'.draft = rec.draft /\ rec'.confirmed = rec.confirmed
          /\ rec'.draftProvenance = rec.draftProvenance
          /\ rec'.confirmedProvenance = rec.confirmedProvenance
      BY <1>0, <3>2 DEF TypeOK, Payload, Saved, Merged
    <3>4. RowInv' /\ ExtractionOfImage' /\ ConfirmedFromDraft'
      BY <1>0, <3>1, <3>2, <3>3 DEF RowInv, ExtractionOfImage, ConfirmedFromDraft
    <3> QED BY <1>V, <3>1, <3>3, <3>4
  <2>2. CASE ~Current(ex[x].loaded.revision) /\ ex' = [ex EXCEPT ![x] = IdleExtractor(Blank)]
    BY <1>0, <1>3, <1>R, <2>2, EndStep DEF MergeSave
  <2>3. CASE /\ ~Current(ex[x].loaded.revision)
             /\ ex' = [ex EXCEPT ![x] = [ex[x] EXCEPT !.pc = "merge", !.loaded = Blank,
                                                      !.attempt = @ + 1]]
    <3>1. /\ \A y \in Extractors : y # x => ex'[y] = ex[y]
          /\ ex[x].pc = "mergeSave" /\ ex'[x].pc = "merge"
          /\ ex'[x].image = ex[x].image /\ ex'[x].started = ex[x].started
          /\ rec' = rec /\ clock' = clock /\ rv' = rv
      BY <1>0, <1>3, <2>3 DEF MergeSave, TypeOK, Extracting
    <3>2. CopiesInv'
      BY <1>0, <3>1 DEF CallsInv, CopiesInv, Faithful
    <3>3. TimesInv'
      BY <1>0, <3>1 DEF CallsInv, TimesInv, HasStamped, InCall
    <3>4. AttemptsInv'
      BY <1>0, <3>1 DEF CallsInv, AttemptsInv, HasStamped, Owns, Superseded, InCall
    <3>5. LaterInv' /\ StampsInv' /\ OneCallPerImage'
      BY <1>0, <3>1 DEF CallsInv, LaterInv, StampsInv, OneCallPerImage, HasStamped, InCall
    <3> QED BY <1>R, <3>1, <3>2, <3>3, <3>4, <3>5 DEF CallsInv
  <2> QED BY <1>3, <2>1, <2>2, <2>3 DEF MergeSave, Retry
<1>4. ASSUME NEW v \in Reviewers, ReadReceipt(v) \/ ReviewLoad(v)
      PROVE  RowInv' /\ CallsInv' /\ ReviewsInv' /\ ExtractionOfImage' /\ ConfirmedFromDraft'
  <2>1. rec' = rec /\ clock' = clock /\ ex' = ex
    BY <1>4 DEF ReadReceipt, ReviewLoad
  <2>2. RowInv' /\ ExtractionOfImage' /\ ConfirmedFromDraft'
    BY <1>0, <2>1 DEF RowInv, ExtractionOfImage, ConfirmedFromDraft
  <2>3. CallsInv'
    BY <1>0, <2>1 DEF CallsInv, CopiesInv, TimesInv, AttemptsInv, LaterInv, StampsInv,
                      OneCallPerImage, HasStamped, InCall, Faithful, Owns, Superseded
  <2>4. CASE ReadReceipt(v)
    <3>1. /\ \A w \in Reviewers : w # v => rv'[w] = rv[w]
          /\ rv'[v].pc = "edit" /\ rv'[v].revision = rec.revision
          /\ rv'[v].shown = rec.extraction.by
      BY <1>0, <2>4 DEF ReadReceipt, TypeOK, Reviewing
    <3>2. ReviewsInv'
      BY <1>0, <2>1, <3>1 DEF ReviewsInv, Faithful, Numbers
    <3> QED BY <2>2, <2>3, <3>2
  <2>5. CASE ReviewLoad(v)
    <3>1. /\ \A w \in Reviewers : w # v => rv'[w] = rv[w]
          /\ \/ rv'[v].pc = "idle"
             \/ /\ rv[v].pc = "edit" /\ rv'[v].pc = "save" /\ rv'[v].loaded = rec
                /\ rec.revision = rv[v].revision
                /\ rv'[v].revision = rv[v].revision /\ rv'[v].shown = rv[v].shown
      BY <1>0, <2>5 DEF ReviewLoad, TypeOK, Reviewing, IdleReviewer
    <3>2. ReviewsInv'
      BY <1>0, <2>1, <3>1 DEF ReviewsInv, Faithful, Numbers
    <3> QED BY <2>2, <2>3, <3>2
  <2> QED BY <1>4, <2>4, <2>5
<1>5. ASSUME NEW v \in Reviewers, NEW c \in BOOLEAN, ReviewSave(v, c)
      PROVE  RowInv' /\ CallsInv' /\ ReviewsInv' /\ ExtractionOfImage' /\ ConfirmedFromDraft'
  <2>1. /\ \A w \in Reviewers : w # v => rv'[w] = rv[w]
        /\ rv'[v].pc = "idle" /\ clock' = clock /\ ex' = ex
    BY <1>0, <1>5 DEF ReviewSave, TypeOK, IdleReviewer
  <2>2. CASE Current(rv[v].revision)
    <3>1. /\ CallsInv'
          /\ rec.live /\ rec'.live /\ rec'.revision = rec.revision + 1
          /\ rec'.image = rec.image /\ rec'.digest = rec.digest
          /\ rec'.status = rec.status /\ rec'.startedAt = rec.startedAt
          /\ rec'.extraction = rec.extraction /\ rec'.draft = v
      BY <1>0, <1>5, <2>2, ReviewSaveStep
    <3>2. /\ rec'.draftProvenance = IF rec.draft # None THEN rec.draftProvenance
                                    ELSE rv[v].shown
          /\ rec'.confirmed = IF c THEN v ELSE rec.confirmed
          /\ rec'.confirmedProvenance = IF c THEN rec'.draftProvenance
                                        ELSE rec.confirmedProvenance
      BY <1>0, <1>5, <2>2, ReviewSaveStep
    <3>3. RowInv' /\ ExtractionOfImage'
      BY <1>0, <2>1, <3>1 DEF RowInv, ExtractionOfImage
    <3>4. ConfirmedFromDraft'
      BY <1>0, <3>1, <3>2, ConstantsAssumption DEF ConfirmedFromDraft
    <3>5. ReviewsInv'
      BY <1>0, <2>1, <3>1 DEF ReviewsInv, Faithful, Numbers
    <3> QED BY <3>1, <3>3, <3>4, <3>5
  <2>3. CASE ~Current(rv[v].revision)
    <3>1. rec' = rec
      BY <1>5, <2>3 DEF ReviewSave
    <3>2. RowInv' /\ ExtractionOfImage' /\ ConfirmedFromDraft'
      BY <1>0, <2>1, <3>1 DEF RowInv, ExtractionOfImage, ConfirmedFromDraft
    <3>3. CallsInv'
      BY <1>0, <2>1, <3>1 DEF CallsInv, CopiesInv, TimesInv, AttemptsInv, LaterInv, StampsInv,
                        OneCallPerImage, HasStamped, InCall, Faithful, Owns, Superseded
    <3>4. ReviewsInv'
      BY <1>0, <2>1, <3>1 DEF ReviewsInv, Faithful
    <3> QED BY <3>2, <3>3, <3>4
  <2> QED BY <2>2, <2>3
<1>6. ASSUME NEW d \in Digests, ReplaceImage(d)
      PROVE  RowInv' /\ CallsInv' /\ ReviewsInv' /\ ExtractionOfImage' /\ ConfirmedFromDraft'
  <2>1. /\ CallsInv' /\ rv' = rv /\ clock' = clock
        /\ rec.live /\ rec'.live /\ rec'.revision = rec.revision + 1
        /\ rec'.image = rec.image + 1
        /\ rec'.status = "attached" /\ rec'.startedAt = 0
        /\ rec'.extraction.by = None /\ rec'.confirmed = None
    BY <1>0, <1>6, ReplaceImageStep DEF ReplaceImage
  <2>2. RowInv' /\ ExtractionOfImage' /\ ConfirmedFromDraft'
    BY <1>0, <2>1 DEF RowInv, ExtractionOfImage, ConfirmedFromDraft, Numbers
  <2> QED BY <1>V, <2>1, <2>2
<1>7. CASE DeleteReceipt
  <2>1. /\ ~rec'.live /\ rec'.startedAt = 0 /\ rec'.extraction.by = None
        /\ rec'.confirmed = None /\ rec'.image = 0
        /\ rv' = rv /\ clock' = clock /\ ex' = ex
    BY <1>7 DEF DeleteReceipt, Blank, Attached
  <2>2. RowInv' /\ ExtractionOfImage' /\ ConfirmedFromDraft'
    BY <1>0, <2>1 DEF RowInv, ExtractionOfImage, ConfirmedFromDraft
  <2>3. CopiesInv' /\ AttemptsInv' /\ LaterInv'
    BY <1>0, <2>1 DEF CallsInv, CopiesInv, AttemptsInv, LaterInv, Faithful
  <2>4. TimesInv' /\ StampsInv' /\ OneCallPerImage'
    BY <1>0, <2>1 DEF CallsInv, TimesInv, StampsInv, OneCallPerImage, HasStamped, InCall
  <2> QED BY <1>V, <2>1, <2>2, <2>3, <2>4 DEF CallsInv
<1>8. CASE Tick
  <2>1. /\ rec' = rec /\ rv' = rv /\ ex' = ex /\ clock' = clock + 1
        /\ \A x \in Extractors :
              /\ ex[x].pc = "save" => clock - ex[x].started < SaveDelay
              /\ ex[x].pc \in {"wait", "call"} => clock - ex[x].since < Timeout
    BY <1>8 DEF Tick
  <2>2. RowInv' /\ ExtractionOfImage' /\ ConfirmedFromDraft' /\ ReviewsInv'
    BY <1>0, <2>1 DEF RowInv, ExtractionOfImage, ConfirmedFromDraft, ReviewsInv, Faithful, Numbers
  <2>3. CopiesInv'
    BY <1>0, <2>1 DEF CallsInv, CopiesInv, Faithful, Numbers
  <2>4. TimesInv'
    BY <1>0, <2>1 DEF CallsInv, TimesInv, HasStamped, InCall, Numbers
  <2>5. AttemptsInv'
    BY <1>0, <2>1 DEF CallsInv, AttemptsInv, HasStamped, Owns, Superseded, InCall, Numbers
  <2>6. LaterInv' /\ StampsInv' /\ OneCallPerImage'
    BY <1>0, <2>1 DEF CallsInv, LaterInv, StampsInv, OneCallPerImage, HasStamped, InCall
  <2> QED BY <2>2, <2>3, <2>4, <2>5, <2>6 DEF CallsInv
<1>9. CASE Crash
  <2>1. /\ rec' = rec /\ clock' = clock
        /\ \A x \in Extractors : ex'[x].pc = "idle"
        /\ \A v \in Reviewers : rv'[v].pc = "idle" \/ (rv'[v] = rv[v] /\ rv[v].pc # "save")
    BY <1>9 DEF Crash, IdleExtractor, IdleReviewer
  <2>2. RowInv' /\ ExtractionOfImage' /\ ConfirmedFromDraft'
    BY <1>0, <2>1 DEF RowInv, ExtractionOfImage, ConfirmedFromDraft
  <2>3. ReviewsInv'
    BY <1>0, <2>1 DEF ReviewsInv, Faithful
  <2>4. CallsInv'
    BY <2>1 DEF CallsInv, CopiesInv, TimesInv, AttemptsInv, LaterInv, StampsInv,
                OneCallPerImage, HasStamped, InCall
  <2> QED BY <2>2, <2>3, <2>4
<1>10. CASE UNCHANGED vars
  <2>1. rec' = rec /\ clock' = clock /\ ex' = ex /\ rv' = rv
    BY <1>10 DEF vars
  <2>2. CallsInv'
    BY <1>0, <2>1 DEF CallsInv, CopiesInv, TimesInv, AttemptsInv, LaterInv, StampsInv,
                      OneCallPerImage, HasStamped, InCall, Faithful, Owns, Superseded
  <2> QED BY <1>R, <2>1, <2>2
<1> QED BY <1>1, <1>2, <1>3, <1>4, <1>5, <1>6, <1>7, <1>8, <1>9, <1>10
        DEF Next, Extract, Review
-----------------------------------------------------------------------------
(* What a step may change.                                                 *)

\* Every step that changes the row is one of five.
LEMMA RowChanges ==
    ASSUME IndInv, [Next]_vars, rec' # rec
    PROVE  \/ \E x \in Extractors : SaveExtracting(x) /\ Current(ex[x].loaded.revision)
           \/ \E x \in Extractors : MergeSave(x) /\ Current(ex[x].loaded.revision)
           \/ \E v \in Reviewers, c \in BOOLEAN :
                ReviewSave(v, c) /\ Current(rv[v].revision)
           \/ \E d \in Digests : ReplaceImage(d)
           \/ DeleteReceipt
<1>1. ASSUME NEW x \in Extractors, Extract(x)
      PROVE  (SaveExtracting(x) \/ MergeSave(x)) /\ Current(ex[x].loaded.revision)
    BY <1>1 DEF Extract, LoadReceipt, LoadImage, SaveExtracting, TakeSlot, CallEnds,
                MergeLoad, MergeSave, ExtractFails
<1>2. ASSUME NEW v \in Reviewers, Review(v)
      PROVE  \E c \in BOOLEAN : ReviewSave(v, c) /\ Current(rv[v].revision)
    BY <1>2 DEF Review, ReadReceipt, ReviewLoad, ReviewSave
<1> QED BY <1>1, <1>2 DEF Next, vars, Tick, Crash

\* The parts of the row that each of the five may change.
LEMMA RowEffects ==
    ASSUME IndInv, [Next]_vars, rec' # rec
    PROVE  \/ /\ Replaces /\ rec'.draft = None /\ rec'.confirmed = None
              /\ \A y \in Extractors : ex'[y] = ex[y]
           \/ /\ rec'.draft = rec.draft /\ rec'.confirmed = rec.confirmed
              /\ rec'.draftProvenance = rec.draftProvenance
              /\ rec'.extraction = rec.extraction
              /\ \A y \in Extractors : ex[y].pc = "mergeSave" => ex'[y] = ex[y]
           \/ /\ rec'.draft = rec.draft /\ rec'.confirmed = rec.confirmed
              /\ rec'.draftProvenance = rec.draftProvenance
              /\ \E x \in Extractors :
                    /\ ex[x].pc = "mergeSave" /\ ex'[x].pc = "idle"
                    /\ Owns(x) /\ rec.digest = ex[x].digest
                    /\ \A y \in Extractors : y # x => ex'[y] = ex[y]
           \/ /\ rec'.extraction = rec.extraction
              /\ \A y \in Extractors : ex'[y] = ex[y]
              /\ \E v \in Reviewers :
                    /\ rv[v].pc = "save" /\ rv'[v].pc = "idle"
                    /\ rec'.draft = v
                    /\ rec'.draftProvenance = IF rec.draft # None THEN rec.draftProvenance
                                              ELSE rv[v].shown
<1>0. /\ TypeOK /\ Numbers /\ RowInv /\ CallsInv /\ ReviewsInv /\ ConfirmedFromDraft
    BY TypedNumbers DEF IndInv, CallsInv
<1>1. ASSUME NEW x \in Extractors, SaveExtracting(x), Current(ex[x].loaded.revision)
      PROVE  /\ rec'.draft = rec.draft /\ rec'.confirmed = rec.confirmed
             /\ rec'.draftProvenance = rec.draftProvenance
             /\ rec'.extraction = rec.extraction
             /\ \A y \in Extractors : ex[y].pc = "mergeSave" => ex'[y] = ex[y]
  <2>1. rec' = [rec EXCEPT !.status = "extracting", !.startedAt = ex[x].started,
                           !.revision = rec.revision + 1]
    BY <1>0, <1>1, SaveExtractingStep
  <2>2. \A y \in Extractors : ex[y].pc = "mergeSave" => ex'[y] = ex[y]
    BY <1>0, <1>1 DEF SaveExtracting, TypeOK
  <2> QED BY <1>0, <2>1, <2>2 DEF TypeOK, Payload
<1>2. ASSUME NEW x \in Extractors, MergeSave(x), Current(ex[x].loaded.revision)
      PROVE  /\ rec'.draft = rec.draft /\ rec'.confirmed = rec.confirmed
             /\ rec'.draftProvenance = rec.draftProvenance
             /\ ex[x].pc = "mergeSave" /\ ex'[x].pc = "idle"
             /\ Owns(x) /\ rec.digest = ex[x].digest
             /\ \A y \in Extractors : y # x => ex'[y] = ex[y]
  <2>1. /\ Owns(x) /\ ex[x].loaded = rec /\ rec.digest = ex[x].digest
        /\ rec' = Saved(Merged(x), rec.revision)
    BY <1>0, <1>2, MergeSaveStep
  <2>2. /\ rec'.draft = rec.draft /\ rec'.confirmed = rec.confirmed
        /\ rec'.draftProvenance = rec.draftProvenance
    BY <1>0, <2>1 DEF Saved, Merged, TypeOK, Payload
  <2>3. /\ ex[x].pc = "mergeSave" /\ ex'[x].pc = "idle"
        /\ \A y \in Extractors : y # x => ex'[y] = ex[y]
    BY <1>0, <1>2 DEF MergeSave, TypeOK, IdleExtractor
  <2> QED BY <2>1, <2>2, <2>3
<1>3. ASSUME NEW v \in Reviewers, NEW c \in BOOLEAN, ReviewSave(v, c), Current(rv[v].revision)
      PROVE  /\ rec'.extraction = rec.extraction
             /\ \A y \in Extractors : ex'[y] = ex[y]
             /\ rv[v].pc = "save" /\ rv'[v].pc = "idle"
             /\ rec'.draft = v
             /\ rec'.draftProvenance = IF rec.draft # None THEN rec.draftProvenance
                                       ELSE rv[v].shown
  <2>1. /\ rec'.extraction = rec.extraction /\ rec'.draft = v
        /\ rec'.draftProvenance = IF rec.draft # None THEN rec.draftProvenance
                                  ELSE rv[v].shown
    BY <1>0, <1>3, ReviewSaveStep
  <2>2. rv[v].pc = "save" /\ rv'[v].pc = "idle" /\ ex' = ex
    BY <1>0, <1>3 DEF ReviewSave, TypeOK, IdleReviewer
  <2> QED BY <2>1, <2>2
<1>4. ASSUME NEW d \in Digests, ReplaceImage(d)
      PROVE  /\ Replaces /\ rec'.draft = None /\ rec'.confirmed = None
             /\ \A y \in Extractors : ex'[y] = ex[y]
  <2>1. rec'.image = rec.image + 1 /\ ex' = ex /\ rec'.draft = None /\ rec'.confirmed = None
    BY <1>4 DEF ReplaceImage, Replaced, Attached
  <2> QED BY <1>0, <2>1 DEF Replaces, Numbers
<1>5. ASSUME DeleteReceipt
      PROVE  /\ Replaces /\ rec'.draft = None /\ rec'.confirmed = None
             /\ \A y \in Extractors : ex'[y] = ex[y]
  <2>1. /\ rec'.image = 0 /\ rec.live /\ ex' = ex
        /\ rec'.draft = None /\ rec'.confirmed = None
    BY <1>5 DEF DeleteReceipt, Blank, Attached
  <2> QED BY <1>0, <2>1 DEF Replaces, RowInv, Numbers
<1> QED BY <1>1, <1>2, <1>3, <1>4, <1>5, RowChanges
-----------------------------------------------------------------------------
(* The theorems.                                                           *)

\* Every reachable state of the extraction service is typed; a merge is tried
\* MaxAttempts times at most (the loop of Extract).
THEOREM TypeCorrect == Spec => []TypeOK
<1>1. Init => TypeOK
    BY TypeInit
<1>2. TypeOK /\ [Next]_vars => TypeOK'
    BY TypeStep
<1> QED BY <1>1, <1>2, PTL DEF Spec

LEMMA Invariant == Spec => []IndInv
BY IndInit, IndStep, PTL DEF Spec

\* For every lease that outlives a call and its save: an image is at the
\* provider at most once at a time, whatever is stamped, replaced, merged late
\* or started again (Extract).
THEOREM OneCall == Spec => []OneCallPerImage
<1>1. IndInv => OneCallPerImage
    BY DEF IndInv
<1> QED BY <1>1, Invariant, PTL

\* Extracted details always belong to the pixels the receipt shows (Extract
\* against ReplaceReceiptImage).
THEOREM DetailsOfImage == Spec => []ExtractionOfImage
<1>1. IndInv => ExtractionOfImage
    BY DEF IndInv
<1> QED BY <1>1, Invariant, PTL

\* A confirmation has a draft and its provenance: the branch of Review for a
\* confirmed receipt without a draft is never taken.
THEOREM ConfirmedHasDraft == Spec => []ConfirmedFromDraft
<1>1. IndInv => ConfirmedFromDraft
    BY DEF IndInv
<1> QED BY <1>1, Invariant, PTL

\* No save writes an older review or an older extraction back (SaveReceipt).
THEOREM NoLostUpdate == Spec => NothingWrittenBack
<1>1. ASSUME IndInv, [Next]_vars
      PROVE  [ /\ rec'.draft # rec.draft \/ rec'.confirmed # rec.confirmed
                    => Reviews \/ Replaces
               /\ rec'.extraction # rec.extraction
                    => Replaces \/ \E x \in Extractors : Merges(x) ]_vars
  <2>1. CASE rec' = rec
    BY <2>1
  <2>2. CASE rec' # rec
    BY <1>1, <2>2, RowEffects DEF Reviews, Merges
  <2> QED BY <2>1, <2>2
<1> QED BY <1>1, Invariant, PTL DEF Spec, NothingWrittenBack

\* The receipt waits for the attempt that is merged, at the moment of the merge
\* (the stamp and digest checks of Extract hold through SaveReceipt).
THEOREM MergeIsOwn == Spec => MergeEndsOwnAttempt
<1>1. ASSUME IndInv, [Next]_vars
      PROVE  [ \A x \in Extractors : Merges(x) =>
                    /\ rec.status = "extracting"
                    /\ rec.startedAt = ex[x].started
                    /\ rec.digest = ex[x].digest ]_vars
  <2>1. CASE rec' = rec
    BY <2>1 DEF Merges
  <2>2. CASE rec' # rec
    BY <1>1, <2>2, RowEffects DEF Merges, Owns
  <2> QED BY <2>1, <2>2
<1> QED BY <1>1, Invariant, PTL DEF Spec, MergeEndsOwnAttempt

\* A first draft carries the provenance of what its author saw, for good
\* (Review against a concurrent or a later Extract).
THEOREM ProvenanceHonest == Spec => ProvenanceShown
<1>1. ASSUME IndInv, [Next]_vars
      PROVE  [ \A v \in Reviewers :
                 /\ rec.draft = None /\ rec'.draft = v
                      => rec'.draftProvenance = rv[v].shown
                 /\ rec.draft # None /\ ~Replaces
                      => rec'.draftProvenance = rec.draftProvenance ]_vars
  <2>1. CASE rec' = rec
    BY <2>1, ConstantsAssumption
  <2>2. CASE rec' # rec
    BY <1>1, <2>2, RowEffects, ConstantsAssumption
  <2> QED BY <2>1, <2>2
<1> QED BY <1>1, Invariant, PTL DEF Spec, ProvenanceShown

\* No write brings older state of a receipt back, and no attempt but the one it
\* waits for is merged, for any number of calls, clients and stops.
THEOREM WritesAlwaysCurrent == Spec => WritesStayCurrent
BY NoLostUpdate, MergeIsOwn DEF WritesStayCurrent
=============================================================================
