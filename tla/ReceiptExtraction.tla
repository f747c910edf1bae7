-------------------------- MODULE ReceiptExtraction --------------------------
(***************************************************************************)
(* Review and extraction of one receipt (receipts/service.go, extractor.go *)
(* and SaveReceipt of store/adapters/sqlite/receipts.go).                  *)
(*                                                                         *)
(* A receipt is one payload with a revision.  Every operation reads the    *)
(* payload, changes its copy and writes the copy back if the revision is   *)
(* still the one it read.  Extract does so twice: once to stamp the        *)
(* receipt as being extracted, and once, after a provider call of up to 45 *)
(* seconds, to merge the answer into whatever the receipt is by then.      *)
(* Reviews, image replacements, deletions, other extractions and process   *)
(* stops fall between any two of these steps.  A stamp older than the      *)
(* lease of a minute no longer keeps another extraction out.               *)
(*                                                                         *)
(* Receipts share nothing but the two provider slots.  The comparison with *)
(* the parent transaction (fingerprint, stale) is left out.                *)
(***************************************************************************)
EXTENDS Integers, FiniteSets

CONSTANTS
    Digests,      \* image contents
    Sources,      \* identities (producer and version) of the configured source
    Extractors,   \* concurrent Extract calls
    Reviewers,    \* clients that read the receipt and then save a review
    None,         \* no source, image or review
    Slots,        \* provider calls at a time (2 in the code)
    MaxAttempts,  \* merge attempts (5 in the code)
    Timeout,      \* of a provider call (45 seconds)
    Lease,        \* of a stamp (60 seconds)
    SaveDelay,    \* longest wait for the database (busy_timeout, 5 seconds)
    MaxClock,     \* bound on time
    MaxRevision,  \* bound on the receipt's revision
    MaxCrashes    \* bound on process stops

ASSUME ConstantsAssumption ==
    /\ None \notin Digests /\ None \notin Sources /\ None \notin Reviewers
    /\ {Slots, MaxAttempts, Timeout, Lease, SaveDelay} \subseteq Nat \ {0}
    /\ {MaxClock, MaxRevision, MaxCrashes} \subseteq Nat
    /\ SaveDelay + Timeout < Lease

VARIABLES
    rec,      \* the receipts row
    source,   \* identity of the source this process was started with
    clock,
    ex,       \* Extract calls
    rv,       \* clients
    crashes

vars == <<rec, source, clock, ex, rv, crashes>>

Statuses == {"attached", "extracting", "ready", "failed"}

\* What a receipt with new pixels starts from: CreateReceipt and
\* ReplaceReceiptImage keep nothing that was derived from earlier pixels.
\* image counts the images of the receipt; extraction is the source and the
\* pixels the extracted details come from.
Attached(d, revision, image) ==
    [live |-> TRUE, revision |-> revision, digest |-> d, image |-> image,
     status |-> "attached", startedAt |-> 0,
     extraction |-> [by |-> None, of |-> None],
     draft |-> None, confirmed |-> None,
     draftProvenance |-> None, confirmedProvenance |-> None]

\* (mutant) the details of the earlier pixels stay.
ReplacedKeepingExtraction(d) ==
    [Attached(d, rec.revision + 1, rec.image + 1) EXCEPT !.extraction = rec.extraction]

\* The row ReplaceReceiptImage writes.
Replaced(d) == Attached(d, rec.revision + 1, rec.image + 1)

IdleExtractor(r) == [pc |-> "idle", loaded |-> r, digest |-> None, image |-> 0,
                     started |-> 0, since |-> 0, answered |-> FALSE, attempt |-> 0]
IdleReviewer(r) == [pc |-> "idle", loaded |-> r, revision |-> 0, shown |-> None]

\* No row, and no copy of one.
Blank == [Attached(None, 0, 0) EXCEPT !.live = FALSE]

Init ==
    /\ \E d \in Digests : rec = Attached(d, 1, 1)
    /\ source \in Sources \cup {None}
    /\ clock = 1
    /\ ex = [x \in Extractors |-> IdleExtractor(Blank)]
    /\ rv = [v \in Reviewers |-> IdleReviewer(Blank)]
    /\ crashes = 0
-----------------------------------------------------------------------------
(* SaveReceipt.                                                            *)

\* (mutant) the last writer wins.
CurrentIfLive(revision) == rec.live

\* The row still exists at the revision the caller expects.
Current(revision) == rec.live /\ rec.revision = revision

\* The written row: the caller's copy at the next revision.
Saved(r, revision) ==
    [r EXCEPT !.revision = revision + 1]
-----------------------------------------------------------------------------
(* Extract.                                                                *)

\* (mutant) the stamp stops counting when the provider call has timed out.
LeaseOverAfterTimeout(r) == clock - r.startedAt >= Timeout

\* The stamp of r keeps nobody out any more.
LeaseOver(r) == clock - r.startedAt >= Lease

\* The first read.  Nothing happens without a source, while another attempt
\* holds the lease, or when this source's details are already there.
LoadReceipt(x) ==
    /\ ex[x].pc = "idle"
    /\ rec.live
    /\ source # None
    /\ ~(rec.status = "extracting" /\ ~LeaseOver(rec))
    /\ rec.extraction.by # source
    /\ ex' = [ex EXCEPT ![x] = [@ EXCEPT !.pc = "image", !.loaded = rec]]
    /\ UNCHANGED <<rec, source, clock, rv, crashes>>

\* GetReceiptImage reads the pixels of the moment; then the stamp is taken.
LoadImage(x) ==
    /\ ex[x].pc = "image"
    /\ rec.live
    /\ ex' = [ex EXCEPT ![x] = [@ EXCEPT !.pc = "save", !.digest = rec.digest,
                                         !.image = rec.image, !.started = clock]]
    /\ UNCHANGED <<rec, source, clock, rv, crashes>>

Stamped(x) ==
    [ex[x].loaded EXCEPT !.status = "extracting", !.startedAt = ex[x].started]

\* SaveReceipt of the stamped receipt, a conflict when the revision moved on.
SaveExtracting(x) ==
    LET n == ex[x].loaded.revision IN
    /\ ex[x].pc = "save"
    /\ n < MaxRevision
    /\ IF Current(n)
       THEN /\ rec' = Saved(Stamped(x), n)
            /\ ex' = [ex EXCEPT ![x] = [@ EXCEPT !.pc = "wait", !.loaded = Blank,
                                                 !.since = clock]]
       ELSE /\ ex' = [ex EXCEPT ![x] = IdleExtractor(Blank)]
            /\ UNCHANGED rec
    /\ UNCHANGED <<source, clock, rv, crashes>>

SlotFree == Cardinality({y \in Extractors : ex[y].pc = "call"}) < Slots

\* Source.extract takes a slot, and calls the provider.
TakeSlot(x) ==
    /\ ex[x].pc = "wait"
    /\ SlotFree
    /\ ex' = [ex EXCEPT ![x] = [@ EXCEPT !.pc = "call"]]
    /\ UNCHANGED <<rec, source, clock, rv, crashes>>

\* The call returns a valid result, or fails, times out or is cancelled; the
\* last two also while it waits for a slot.
CallEnds(x, ok) ==
    /\ ex[x].pc = "call" \/ (ex[x].pc = "wait" /\ ~ok)
    /\ ex' = [ex EXCEPT ![x] = [@ EXCEPT !.pc = "merge", !.answered = ok]]
    /\ UNCHANGED <<rec, source, clock, rv, crashes>>

\* (mutant) the pixels alone decide whose receipt it is.
OwnPixels(x) == rec.digest = ex[x].digest

\* The receipt still waits for this attempt, on these pixels.
StillOwn(x) == rec.startedAt = ex[x].started /\ rec.digest = ex[x].digest

\* The read before the merge: not found and conflict end the call.
MergeLoad(x) ==
    /\ ex[x].pc = "merge"
    /\ ex' = [ex EXCEPT ![x] = IF rec.live /\ StillOwn(x)
                               THEN [@ EXCEPT !.pc = "mergeSave", !.loaded = rec]
                               ELSE IdleExtractor(Blank)]
    /\ UNCHANGED <<rec, source, clock, rv, crashes>>

Merged(x) ==
    IF ex[x].answered
    THEN [ex[x].loaded EXCEPT !.status = "ready", !.startedAt = 0,
              !.extraction = [by |-> source, of |-> ex[x].digest]]
    ELSE [ex[x].loaded EXCEPT !.status = "failed", !.startedAt = 0]

\* A conflict reads again, five times at most.
Retry(x) ==
    IF ex[x].attempt + 1 < MaxAttempts
    THEN [ex[x] EXCEPT !.pc = "merge", !.loaded = Blank, !.attempt = @ + 1]
    ELSE IdleExtractor(Blank)

MergeSave(x) ==
    LET n == ex[x].loaded.revision IN
    /\ ex[x].pc = "mergeSave"
    /\ n < MaxRevision
    /\ IF Current(n)
       THEN /\ rec' = Saved(Merged(x), n)
            /\ ex' = [ex EXCEPT ![x] = IdleExtractor(Blank)]
       ELSE /\ ex' = [ex EXCEPT ![x] = IF rec.live THEN Retry(x)
                                       ELSE IdleExtractor(Blank)]
            /\ UNCHANGED rec
    /\ UNCHANGED <<source, clock, rv, crashes>>

\* A store call fails: the call ends where it is, the stamp stays.
ExtractFails(x) ==
    /\ ex[x].pc \in {"image", "save", "merge", "mergeSave"}
    /\ ex' = [ex EXCEPT ![x] = IdleExtractor(Blank)]
    /\ UNCHANGED <<rec, source, clock, rv, crashes>>
-----------------------------------------------------------------------------
(* Review.                                                                 *)

\* The client reads the receipt and edits what it was shown.
ReadReceipt(v) ==
    /\ rv[v].pc = "idle"
    /\ rec.live
    /\ rv' = [rv EXCEPT ![v] = [@ EXCEPT !.pc = "edit", !.revision = rec.revision,
                                         !.shown = rec.extraction.by]]
    /\ UNCHANGED <<rec, source, clock, ex, crashes>>

\* The first read of Review and its check of the client's revision.
ReviewLoad(v) ==
    /\ rv[v].pc = "edit"
    /\ rv' = [rv EXCEPT ![v] = IF rec.live /\ rec.revision = rv[v].revision
                               THEN [@ EXCEPT !.pc = "save", !.loaded = rec]
                               ELSE IdleReviewer(Blank)]
    /\ UNCHANGED <<rec, source, clock, ex, crashes>>

\* A first draft takes the provenance of what it was made from.
DraftProvenance(r) ==
    IF r.draft # None THEN r.draftProvenance
    ELSE IF r.confirmed # None THEN r.confirmedProvenance
    ELSE r.extraction.by

\* The receipt with the review of v, confirmed or not.
Reviewed(v, confirm) ==
    LET r == rv[v].loaded IN
    [r EXCEPT !.draft = v, !.draftProvenance = DraftProvenance(r),
              !.confirmed = IF confirm THEN v ELSE @,
              !.confirmedProvenance = IF confirm THEN DraftProvenance(r) ELSE @]

ReviewSave(v, confirm) ==
    LET n == rv[v].revision IN
    /\ rv[v].pc = "save"
    /\ n < MaxRevision
    /\ rec' = IF Current(n) THEN Saved(Reviewed(v, confirm), n) ELSE rec
    /\ rv' = [rv EXCEPT ![v] = IdleReviewer(Blank)]
    /\ UNCHANGED <<source, clock, ex, crashes>>
-----------------------------------------------------------------------------
(* The rest of the program.                                                *)

\* The transaction of ReplaceReceiptImage that finds the expected revision.
\* Its client learned that revision from a response, later than the stamp.
ReplaceImage(d) ==
    /\ rec.live
    /\ rec.startedAt < clock
    /\ rec.revision < MaxRevision
    /\ rec' = Replaced(d)
    /\ UNCHANGED <<source, clock, ex, rv, crashes>>

DeleteReceipt ==
    /\ rec.live
    /\ rec' = Blank
    /\ UNCHANGED <<source, clock, ex, rv, crashes>>

\* Time passes.  The context of a provider call ends it in time, and a write
\* waits for the database no longer than its busy timeout.
Tick ==
    /\ clock < MaxClock
    /\ \A x \in Extractors :
         /\ ex[x].pc = "save" => clock - ex[x].started < SaveDelay
         /\ ex[x].pc \in {"wait", "call"} => clock - ex[x].since < Timeout
    /\ clock' = clock + 1
    /\ UNCHANGED <<rec, source, ex, rv, crashes>>

\* The process stops; the next one may be configured with another source.
Crash ==
    /\ crashes < MaxCrashes
    /\ crashes' = crashes + 1
    /\ source' \in Sources \cup {None}
    /\ ex' = [x \in Extractors |-> IdleExtractor(Blank)]
    /\ rv' = [v \in Reviewers |-> IF rv[v].pc = "save" THEN IdleReviewer(Blank) ELSE rv[v]]
    /\ UNCHANGED <<rec, clock>>

Extract(x) ==
    \/ LoadReceipt(x)
    \/ LoadImage(x)
    \/ SaveExtracting(x)
    \/ TakeSlot(x)
    \/ \E ok \in BOOLEAN : CallEnds(x, ok)
    \/ MergeLoad(x)
    \/ MergeSave(x)
    \/ ExtractFails(x)

Review(v) ==
    \/ ReadReceipt(v)
    \/ ReviewLoad(v)
    \/ \E confirm \in BOOLEAN : ReviewSave(v, confirm)

Next ==
    \/ \E x \in Extractors : Extract(x)
    \/ \E v \in Reviewers : Review(v)
    \/ \E d \in Digests : ReplaceImage(d)
    \/ DeleteReceipt
    \/ Tick
    \/ Crash

Spec == Init /\ [][Next]_vars
-----------------------------------------------------------------------------
(* Properties.                                                             *)

Payload == [live : BOOLEAN, revision : Nat, digest : Digests \cup {None},
            image : Nat, status : Statuses, startedAt : Nat,
            extraction : [by : Sources \cup {None}, of : Digests \cup {None}],
            draft : Reviewers \cup {None}, confirmed : Reviewers \cup {None},
            draftProvenance : Sources \cup {None},
            confirmedProvenance : Sources \cup {None}]

Extracting == [pc : {"idle", "image", "save", "wait", "call", "merge", "mergeSave"},
               loaded : Payload, digest : Digests \cup {None}, image : Nat,
               started : Nat, since : Nat, answered : BOOLEAN,
               attempt : 0 .. MaxAttempts - 1]

Reviewing == [pc : {"idle", "edit", "save"}, loaded : Payload, revision : Nat,
              shown : Sources \cup {None}]

\* The type of every variable; a merge is tried MaxAttempts times at most.
TypeOK ==
    /\ rec \in Payload
    /\ source \in Sources \cup {None}
    /\ clock \in Nat
    /\ ex \in [Extractors -> Extracting]
    /\ rv \in [Reviewers -> Reviewing]
    /\ crashes \in Nat

\* The extracted details of a receipt come from the pixels it shows, whatever
\* image was replaced while a provider call was running or merging.
ExtractionOfImage ==
    rec.extraction.by # None => rec.extraction.of = rec.digest

InCall(x) == ex[x].pc \in {"wait", "call"}

\* The provider is asked about an image by one Extract call at a time: the
\* lease outlives the call, and two calls cannot both stamp the receipt.
OneCallPerImage ==
    \A x, y \in Extractors :
        x # y /\ InCall(x) /\ InCall(y) => ex[x].image # ex[y].image

\* The steps that may change the named parts of a live receipt.
Reviews == \E v \in Reviewers : rv[v].pc = "save" /\ rv'[v].pc = "idle"
Replaces == rec'.image # rec.image  \* or deletes
Merges(x) == ex[x].pc = "mergeSave" /\ rec' # rec /\ ex'[x] # ex[x]

\* A saved review stays until a later review, a new image or deletion: neither the merge
\* of an extraction nor a stamp writes an older draft or confirmation back.
\* Nor does a review write an older extraction back.
NothingWrittenBack ==
    [][ /\ rec'.draft # rec.draft \/ rec'.confirmed # rec.confirmed
             => Reviews \/ Replaces
        /\ rec'.extraction # rec.extraction
             => Replaces \/ \E x \in Extractors : Merges(x) ]_vars

\* At the moment an extraction is merged the receipt waits for that attempt and
\* still shows the pixels that were sent, not only when it was read before.
MergeEndsOwnAttempt ==
    [][ \A x \in Extractors : Merges(x) =>
            /\ rec.status = "extracting"
            /\ rec.startedAt = ex[x].started
            /\ rec.digest = ex[x].digest ]_vars

\* The provenance of a first draft is the extraction its author was shown, and
\* it stays with the draft and the confirmation through every re-extraction.
ProvenanceShown ==
    [][ \A v \in Reviewers :
          /\ rec.draft = None /\ rec'.draft = v => rec'.draftProvenance = rv[v].shown
          /\ rec.draft # None /\ ~Replaces
               => rec'.draftProvenance = rec.draftProvenance ]_vars

\* What is confirmed was a draft and carries the provenance of that draft.
ConfirmedFromDraft ==
    rec.confirmed # None =>
        rec.draft # None /\ rec.confirmedProvenance = rec.draftProvenance

\* Every write of a receipt is of the state it is made on: nothing older comes
\* back, and a merge is of the attempt the receipt waits for.
WritesStayCurrent == NothingWrittenBack /\ MergeEndsOwnAttempt
=============================================================================
