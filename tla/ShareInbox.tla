------------------------------ MODULE ShareInbox ------------------------------
(***************************************************************************)
(* One shared transaction and one recipient: the owner's grants and        *)
(* exclusions, the read-time access check, the copy the recipient saves,   *)
(* the provenance link and idempotency key that commit apart from the      *)
(* copy, and the inbox decisions that call the copy.                       *)
(*                                                                         *)
(* The store has one connection: a statement, or a transaction, is one     *)
(* step, and the handlers of the recipient interleave between steps.  The  *)
(* access check, several reads in the code, is one step.  Audit rows       *)
(* commit with the link or grant they describe and are left out.           *)
(***************************************************************************)
EXTENDS Integers, FiniteSets

CONSTANTS
  Handler,    \* requests of the recipient that may be in progress at once
  Key,        \* client request ids of the copy route
  Scopes,     \* what the owner, the clock and the server do, see Scope
  MaxCopies,  \* copies ever written
  None

Intent == {"none", "shared", "excluded"}

(* A behaviour stays within one scope: the audiences the owner decides     *)
(* about, whether a policy may be switched, whether the recipient lists    *)
(* and flags, how often the source is revised, the seconds that pass, the  *)
(* restarts and the calls of the store that fail.                          *)
Scope == [audience : SUBSET {"user", "group", "all"}, automatic : BOOLEAN,
          lists : BOOLEAN, revs : Nat \ {0}, time : Nat \ {0}, crashes : Nat,
          errors : Nat]

ASSUME ShareAssumption ==
  /\ Scopes \subseteq Scope
  /\ MaxCopies \in Nat \ {0}
  /\ None \notin 1..MaxCopies /\ None \notin Key

VARIABLES
  scope,    \* the scope of this behaviour
  rev,      \* the source transaction: its revision, 0 once it is deleted
  grant,    \* sharing_grants: audience -> "none", "shared" or "excluded"
  since,    \* created_at of the group's row
  member,   \* the recipient is in the group (the owner always is)
  policy,   \* an enabled policy of the group covers the source
  copies,   \* live copies in the recipient's model: id -> revision copied
  link,     \* sharing_copies: the copy the triple's link names, or None
  keys,     \* sharing_requests of the recipient: key -> copy, or None
  inbox,    \* inbox_share_state: status, copy_transaction_id, decided_at
  now,
  req,      \* what each handler is doing
  made,     \* copies ever written
  crashes,
  errors,   \* calls of the store that failed
  linked,   \* history: copies a link was recorded for
  lost,     \* history: copies a restart or a failed call left behind
  vouched   \* history: copies in flight that were once authorized and current

consent == <<rev, grant, since, member, policy>>
saved   == <<copies, link, keys, made, linked>>
vars    == <<scope, consent, saved, inbox, now, req, crashes, errors, lost, vouched>>

CopyId == 1..MaxCopies
Live   == {c \in CopyId : copies[c] # 0}

Absent == [status |-> "absent", copy |-> None, at |-> 0]
Idle   == [pc |-> "idle", accept |-> FALSE, key |-> None, rev |-> 0,
           copy |-> None, minted |-> FALSE, seen |-> FALSE, at |-> 0,
           then |-> "fail"]

-----------------------------------------------------------------------------
(* Access and the grant a link records.                                    *)

Excluded ==
  \/ grant["all"] = "excluded"
  \/ grant["user"] = "excluded"
  \/ grant["group"] = "excluded" /\ member

(* sharingLinkGrant knows direct and group grants, not policies.           *)
LinkGrant == grant["user"] = "shared" \/ (grant["group"] = "shared" /\ member)

CheckSharedTransactionAccess ==
  rev # 0 /\ ~Excluded /\ (LinkGrant \/ (policy /\ member))

(* A direct grant always counts; a group grant when it is newer than the   *)
(* decision.                                                               *)
FreshAuthorizingGrant(at) ==
  \/ grant["user"] = "shared"
  \/ grant["group"] = "shared" /\ since > at /\ member

-----------------------------------------------------------------------------
(* Handlers.                                                               *)

At(h, pc)    == req[h].pc = pc
Go(h, r)     == req' = [req EXCEPT ![h] = r]
Step(h, pc)  == Go(h, [req[h] EXCEPT !.pc = pc])
Ends(h)      == Go(h, Idle)

(* CopySharedTransaction returns a copy: the copy route answers it, the    *)
(* inbox goes on to record the decision and takes the copy for its own.    *)
CopyReturns(h, c) ==
  IF req[h].accept
  THEN Go(h, [req[h] EXCEPT !.pc = "decide", !.copy = c, !.minted = TRUE])
  ELSE Ends(h)

(* Mutant: a failed check leaves the copy in place.                         *)
DropForgotten(h, then) ==
  IF then = "fail" THEN Ends(h)
  ELSE Go(h, [req[h] EXCEPT !.pc = "drop", !.rev = 0, !.then = then])

Drop(h, then) == Go(h, [req[h] EXCEPT !.pc = "drop", !.rev = 0, !.then = then])

(* A recorded key replays its outcome and changes nothing.                 *)
StartCopy(h, k) ==
  /\ At(h, "idle") /\ keys[k] = None
  /\ Go(h, [Idle EXCEPT !.pc = "read", !.key = k])
  /\ UNCHANGED <<consent, saved, inbox>>

ReadShared(h) ==
  /\ At(h, "read")
  /\ IF CheckSharedTransactionAccess
     THEN Go(h, [req[h] EXCEPT !.pc = "find", !.rev = rev])
     ELSE Ends(h)
  /\ UNCHANGED <<consent, saved, inbox>>

(* findSharingCopy, called before the copy is written and by the heal of a *)
(* lost race.  A link whose copy is gone is dropped.                       *)
FindSharingCopy(h) ==
  /\ At(h, "find") \/ At(h, "heal")
  /\ IF link \in Live
     THEN Go(h, [req[h] EXCEPT !.pc = "record", !.copy = link]) /\ UNCHANGED link
     ELSE /\ link' = None
          /\ IF At(h, "find") THEN Step(h, "create") ELSE Ends(h)
  /\ UNCHANGED <<consent, copies, keys, made, linked, inbox>>

(* CreateTransaction commits the copy by itself.                           *)
CreateTransaction(h) ==
  /\ At(h, "create") /\ made < MaxCopies
  /\ made' = made + 1
  /\ copies' = [copies EXCEPT ![made + 1] = req[h].rev]
  /\ UNCHANGED <<consent, link, keys, linked, inbox>>

CreateCopy(h) ==
  /\ CreateTransaction(h)
  /\ Go(h, [req[h] EXCEPT !.pc = "verify", !.copy = made + 1])

(* Mutant: the re-check after the copy compares the revision only.          *)
VerifyRevisionOnly(h) ==
  /\ At(h, "verify")
  /\ IF rev = req[h].rev
     THEN Go(h, [req[h] EXCEPT !.pc = "grant", !.rev = 0])
     ELSE Drop(h, "fail")
  /\ UNCHANGED <<consent, saved, inbox>>

VerifySharingSourceCurrent(h) ==
  /\ At(h, "verify")
  /\ IF CheckSharedTransactionAccess /\ rev = req[h].rev
     THEN Go(h, [req[h] EXCEPT !.pc = "grant", !.rev = 0])
     ELSE Drop(h, "fail")
  /\ UNCHANGED <<consent, saved, inbox>>

SharingLinkGrant(h) ==
  /\ At(h, "grant")
  /\ IF LinkGrant THEN Step(h, "link") ELSE Drop(h, "fail")
  /\ UNCHANGED <<consent, saved, inbox>>

KeyTaken(h) == req[h].key # None /\ keys[req[h].key] # None

KeyRecorded(h, c) ==
  keys' = IF req[h].key = None THEN keys ELSE [keys EXCEPT ![req[h].key] = c]

(* Mutant: no unique index, the later link replaces the earlier.            *)
LinkReplaces(h) ==
  /\ At(h, "link")
  /\ IF ~KeyTaken(h)
     THEN /\ link' = req[h].copy
          /\ linked' = linked \cup {req[h].copy}
          /\ KeyRecorded(h, req[h].copy)
          /\ CopyReturns(h, req[h].copy)
     ELSE Drop(h, "replay") /\ UNCHANGED <<link, linked, keys>>
  /\ UNCHANGED <<consent, copies, made, inbox>>

(* Link and key in one transaction; either unique index may refuse it.     *)
RecordLink(h) ==
  /\ At(h, "link")
  /\ IF link = None /\ ~KeyTaken(h)
     THEN /\ link' = req[h].copy
          /\ linked' = linked \cup {req[h].copy}
          /\ KeyRecorded(h, req[h].copy)
          /\ CopyReturns(h, req[h].copy)
     ELSE /\ Drop(h, IF link # None THEN "heal" ELSE "replay")
          /\ UNCHANGED <<link, linked, keys>>
  /\ UNCHANGED <<consent, copies, made, inbox>>

(* DeleteTransaction: the provenance of the row goes with it.              *)
DeleteTransaction(c) ==
  /\ copies' = [copies EXCEPT ![c] = 0]
  /\ link' = IF link = c THEN None ELSE link
  /\ UNCHANGED <<keys, made, linked>>

(* The copy the recipient already deleted fails the cleanup.               *)
DropCopy(h) ==
  /\ At(h, "drop")
  /\ IF req[h].copy \in Live
     THEN /\ DeleteTransaction(req[h].copy)
          /\ IF req[h].then = "fail" THEN Ends(h) ELSE Step(h, req[h].then)
     ELSE Ends(h) /\ UNCHANGED saved
  /\ UNCHANGED <<consent, inbox>>

(* The existing copy is returned under the request's key.                  *)
RecordKey(h) ==
  /\ At(h, "record")
  /\ IF KeyTaken(h)
     THEN Step(h, "replay") /\ UNCHANGED keys
     ELSE KeyRecorded(h, req[h].copy) /\ CopyReturns(h, req[h].copy)
  /\ UNCHANGED <<consent, copies, link, made, linked, inbox>>

ReplaySharingCopy(h) ==
  /\ At(h, "replay")
  /\ IF keys[req[h].key] # None THEN CopyReturns(h, keys[req[h].key]) ELSE Ends(h)
  /\ UNCHANGED <<consent, saved, inbox>>

-----------------------------------------------------------------------------
(* AcceptInboxShare.                                                       *)

StartAccept(h) ==
  /\ At(h, "idle") /\ inbox.status # "accepted"
  /\ Go(h, [Idle EXCEPT !.pc = "authorize", !.accept = TRUE, !.copy = inbox.copy])
  /\ UNCHANGED <<consent, saved, inbox>>

AcceptAuthorize(h) ==
  /\ At(h, "authorize")
  /\ IF CheckSharedTransactionAccess THEN Step(h, "existing") ELSE Ends(h)
  /\ UNCHANGED <<consent, saved, inbox>>

(* A copy of an earlier attempt is adopted; otherwise the copy runs under  *)
(* a fresh server key.                                                     *)
ExistingCopyForSource(h) ==
  /\ At(h, "existing")
  /\ IF req[h].copy # None THEN Step(h, "decide")
     ELSE IF link \in Live
     THEN Go(h, [req[h] EXCEPT !.pc = "decide", !.copy = link])
     ELSE Step(h, "read")
  /\ UNCHANGED <<consent, saved, inbox>>

Lost(h) == inbox.status = "accepted" /\ inbox.copy # req[h].copy

RecordAccept(h) ==
  /\ At(h, "decide")
  /\ IF Lost(h)
     THEN /\ IF req[h].minted THEN Step(h, "loser") ELSE Ends(h)
          /\ UNCHANGED inbox
     ELSE /\ inbox' = [status |-> "accepted", copy |-> req[h].copy, at |-> now]
          /\ Ends(h)
  /\ UNCHANGED <<consent, saved>>

RemoveLosingCopy(h) ==
  /\ At(h, "loser")
  /\ DeleteTransaction(req[h].copy)
  /\ Ends(h)
  /\ UNCHANGED <<consent, inbox>>

-----------------------------------------------------------------------------
(* A call of the store that fails ends the request.                        *)

(* Nothing is written: the statement or the transaction failed.  The       *)
(* result of removing a losing copy is ignored.                            *)
CallFails(h) ==
  /\ req[h].pc \notin {"idle", "verify", "grant", "link", "drop"}
  /\ Ends(h)
  /\ UNCHANGED <<consent, saved, inbox, lost>>

(* Between the copy and its provenance every failure removes the copy.     *)
RecordFails(h) ==
  /\ At(h, "verify") \/ At(h, "grant") \/ At(h, "link")
  /\ Drop(h, "fail")
  /\ UNCHANGED <<consent, saved, inbox, lost>>

(* CreateTransaction commits the row, then fails to mark the projections:  *)
(* CopySharedTransaction has no id to remove.                              *)
CreateUnmarked(h) ==
  /\ CreateTransaction(h)
  /\ Ends(h)
  /\ lost' = lost \cup {made + 1}

(* The cleanup fails before its commit, or after it when it marks.         *)
DropFails(h) ==
  /\ At(h, "drop")
  /\ \/ lost' = lost \cup {req[h].copy} /\ UNCHANGED saved
     \/ req[h].copy \in Live /\ DeleteTransaction(req[h].copy) /\ UNCHANGED lost
  /\ Ends(h)
  /\ UNCHANGED <<consent, inbox>>

StoreError(h) ==
  /\ errors < scope.errors
  /\ errors' = errors + 1
  /\ CallFails(h) \/ RecordFails(h) \/ CreateUnmarked(h) \/ DropFails(h)
  /\ UNCHANGED <<now, crashes>>

-----------------------------------------------------------------------------
(* DeclineInboxShare.                                                      *)

StartDecline(h) ==
  /\ At(h, "idle") /\ inbox.status \in {"absent", "pending"}
  /\ Go(h, [Idle EXCEPT !.pc = "declining", !.seen = inbox.status # "absent"])
  /\ UNCHANGED <<consent, saved, inbox>>

DeclineAuthorize(h) ==
  /\ At(h, "declining")
  /\ IF CheckSharedTransactionAccess \/ req[h].seen
     THEN Step(h, "refuse") ELSE Ends(h)
  /\ UNCHANGED <<consent, saved, inbox>>

(* Mutant: the decline trusts the state read before its transaction.        *)
RefusalAlways == TRUE

(* An accept that was recorded first stands, and so does the grant.        *)
RefusalStands == inbox.status # "accepted"

RecordDecline(h) ==
  /\ At(h, "refuse")
  /\ Ends(h)
  /\ IF RefusalStands
     THEN /\ grant' = [grant EXCEPT !["user"] = IF @ = "shared" THEN "none" ELSE @]
          /\ inbox' = [inbox EXCEPT !.status = "declined", !.at = now]
     ELSE UNCHANGED <<grant, inbox>>
  /\ UNCHANGED <<rev, since, member, policy, saved>>

-----------------------------------------------------------------------------
(* ListInboxItems and setInboxFlag.                                        *)

StartList(h) ==
  /\ At(h, "idle") /\ scope.lists
  /\ Go(h, [Idle EXCEPT !.pc = "sight", !.seen = CheckSharedTransactionAccess])
  /\ UNCHANGED <<consent, saved, inbox>>

Sighted == [Absent EXCEPT !.status = "pending"]

RecordInboxSighting(h) ==
  /\ At(h, "sight")
  /\ inbox' = IF req[h].seen /\ inbox.status = "absent" THEN Sighted ELSE inbox
  /\ IF inbox'.status = "absent" THEN Ends(h) ELSE Step(h, "state")
  /\ UNCHANGED <<consent, saved>>

ReadInboxState(h) ==
  /\ At(h, "state")
  /\ IF inbox.status = "declined"
     THEN Go(h, [req[h] EXCEPT !.pc = "fresh", !.at = inbox.at]) ELSE Ends(h)
  /\ UNCHANGED <<consent, saved, inbox>>

CheckFresh(h) ==
  /\ At(h, "fresh")
  /\ IF FreshAuthorizingGrant(req[h].at) THEN Step(h, "reopen") ELSE Ends(h)
  /\ UNCHANGED <<consent, saved, inbox>>

StillDeclined == inbox.status = "declined"

ReopenDeclined(h) ==
  /\ At(h, "reopen")
  /\ inbox' = IF StillDeclined
              THEN [inbox EXCEPT !.status = "pending", !.at = 0] ELSE inbox
  /\ Ends(h)
  /\ UNCHANGED <<consent, saved>>

(* Reading or dismissing a share records its sighting when there is no row; *)
(* only an unseen share needs access.  The flags themselves are left out.  *)
StartFlag(h) ==
  /\ At(h, "idle") /\ scope.lists
  /\ inbox.status # "absent" \/ CheckSharedTransactionAccess
  /\ Step(h, "flag")
  /\ UNCHANGED <<consent, saved, inbox>>

WriteFlag(h) ==
  /\ At(h, "flag")
  /\ inbox' = IF inbox.status = "absent" THEN Sighted ELSE inbox
  /\ Ends(h)
  /\ UNCHANGED <<consent, saved>>

-----------------------------------------------------------------------------
(* The owner, the group and the recipient's own model.  The owner's        *)
(* mutations are single transactions; a replayed key changes nothing.      *)

Decide(a, from, to) ==
  /\ rev # 0 \/ to = "none"
  /\ grant[a] = from
  /\ grant' = [grant EXCEPT ![a] = to]
  /\ since' = IF a = "group" THEN (IF to = "none" THEN 0 ELSE now) ELSE since
  /\ UNCHANGED <<rev, member, policy, saved, inbox, req>>

GrantSharedTransaction(a)   == a # "all" /\ Decide(a, "none", "shared")
RevokeSharedTransaction(a)  == Decide(a, "shared", "none")
ExcludeSharedTransaction(a) == Decide(a, "none", "excluded")
RemoveSharedExclusion(a)    == Decide(a, "excluded", "none")

ReviseSource ==
  /\ rev \in 1..(scope.revs - 1)
  /\ rev' = rev + 1
  /\ UNCHANGED <<grant, since, member, policy, saved, inbox, req>>

(* deleteSharingForTransaction: consent and links go, copies stay.         *)
DeleteSource ==
  /\ rev # 0
  /\ rev' = 0
  /\ grant' = [a \in DOMAIN grant |-> "none"] /\ since' = 0
  /\ link' = None
  /\ UNCHANGED <<member, policy, copies, keys, made, linked, inbox, req>>

SetPolicy ==
  /\ scope.automatic
  /\ policy' = ~policy
  /\ UNCHANGED <<rev, grant, since, member, saved, inbox, req>>

ChangeMembership ==
  /\ member' = ~member
  /\ UNCHANGED <<rev, grant, since, policy, saved, inbox, req>>

DeleteCopy ==
  /\ \E c \in Live : DeleteTransaction(c)
  /\ UNCHANGED <<consent, inbox, req>>

(* clearSharingForUser, with the model rows it clears beside.              *)
ClearRecipient ==
  /\ copies' = [c \in CopyId |-> 0]
  /\ link' = None
  /\ keys' = [k \in Key |-> None]
  /\ inbox' = Absent
  /\ UNCHANGED <<consent, made, linked, req>>

-----------------------------------------------------------------------------
Init ==
  /\ scope \in Scopes
  /\ rev = 1
  /\ grant = [a \in {"user", "group", "all"} |-> "none"] /\ since = 0
  /\ member = TRUE /\ policy = FALSE
  /\ copies = [c \in CopyId |-> 0] /\ link = None
  /\ keys = [k \in Key |-> None]
  /\ inbox = Absent
  /\ now = 1
  /\ req = [h \in Handler |-> Idle]
  /\ made = 0 /\ crashes = 0 /\ errors = 0
  /\ linked = {} /\ lost = {} /\ vouched = {}

CopySteps(h) ==
  \/ \E k \in Key : StartCopy(h, k)
  \/ ReadShared(h) \/ FindSharingCopy(h) \/ CreateCopy(h)
  \/ VerifySharingSourceCurrent(h) \/ SharingLinkGrant(h) \/ RecordLink(h)
  \/ DropCopy(h) \/ RecordKey(h) \/ ReplaySharingCopy(h)

InboxSteps(h) ==
  \/ StartAccept(h) \/ AcceptAuthorize(h) \/ ExistingCopyForSource(h)
  \/ RecordAccept(h) \/ RemoveLosingCopy(h)
  \/ StartDecline(h) \/ DeclineAuthorize(h) \/ RecordDecline(h)
  \/ StartList(h) \/ RecordInboxSighting(h) \/ ReadInboxState(h)
  \/ CheckFresh(h) \/ ReopenDeclined(h)
  \/ StartFlag(h) \/ WriteFlag(h)

OwnerSteps ==
  \/ \E a \in scope.audience : \/ GrantSharedTransaction(a) \/ RevokeSharedTransaction(a)
                         \/ ExcludeSharedTransaction(a) \/ RemoveSharedExclusion(a)
  \/ ReviseSource \/ DeleteSource \/ SetPolicy \/ ChangeMembership

RecipientSteps == DeleteCopy \/ ClearRecipient

Tick ==
  /\ now < scope.time
  /\ now' = now + 1
  /\ UNCHANGED <<consent, saved, inbox, req, crashes, errors, lost>>

(* A copy is in flight from its commit to the one of its provenance.       *)
InFlight == {req[h].copy : h \in {g \in Handler :
               req[g].pc \in {"verify", "grant", "link", "drop"}}}

Crash ==
  /\ crashes < scope.crashes
  /\ crashes' = crashes + 1
  /\ req' = [h \in Handler |-> Idle]
  /\ lost' = lost \cup InFlight
  /\ UNCHANGED <<consent, saved, inbox, now, errors>>

(* Nothing expires: the owner, the recipient and the clock move at will.   *)
Next ==
  /\ \/ /\ \/ \E h \in Handler : CopySteps(h) \/ InboxSteps(h)
           \/ OwnerSteps \/ RecipientSteps
        /\ UNCHANGED <<now, crashes, errors, lost>>
     \/ \E h \in Handler : StoreError(h)
     \/ Tick \/ Crash
  /\ UNCHANGED scope
  /\ vouched' = {c \in InFlight' \cap Live' :
                    c \in vouched \/ (copies'[c] = rev' /\ CheckSharedTransactionAccess')}

Spec == Init /\ [][Next]_vars

-----------------------------------------------------------------------------
(* Types.  A decision that is not an acceptance carries no copy: decline   *)
(* and reopen keep copy_transaction_id, and neither ever finds one.        *)
InboxType == [status : {"absent", "pending", "accepted", "declined"},
              copy : CopyId \cup {None}, at : Nat]

RequestType ==
  [pc : {"idle", "read", "find", "create", "verify", "grant", "link", "drop", "heal", "record",
         "replay", "authorize", "existing", "decide", "loser", "declining", "refuse", "sight",
         "state", "fresh", "reopen", "flag"},
   accept : BOOLEAN, key : Key \cup {None}, rev : Nat, copy : CopyId \cup {None},
   minted : BOOLEAN, seen : BOOLEAN, at : Nat, then : {"fail", "heal", "replay"}]

TypeOK ==
  /\ scope \in Scopes
  /\ rev \in 0..scope.revs
  /\ grant \in [{"user", "group", "all"} -> Intent]
  /\ since \in 0..scope.time /\ now \in 1..scope.time
  /\ member \in BOOLEAN /\ policy \in BOOLEAN
  /\ made \in 0..MaxCopies /\ linked \subseteq 1..made
  /\ copies \in [CopyId -> Nat] /\ \A c \in CopyId : copies[c] # 0 => c <= made
  /\ link \in CopyId \cup {None}
  /\ keys \in [Key -> CopyId \cup {None}]
  /\ inbox \in InboxType /\ (inbox.copy # None <=> inbox.status = "accepted")
  /\ req \in [Handler -> RequestType]

(* CopySharedTransaction commits the copy before its provenance: a copy    *)
(* without a recorded link is in flight, or a restart hit that window, or  *)
(* the call that wrote or removed it failed; no refusal, race or           *)
(* revocation leaves one behind.                                           *)
NoOrphanCopy == Live \subseteq linked \cup InFlight \cup lost

(* However accepts and copies race, while the source stands the recipient  *)
(* holds at most one copy that was ever linked to it.                      *)
OneCopyWhileShared == rev # 0 => Cardinality(Live \cap linked) <= 1

(* What an accept records, a key replays or a link names is a copy whose   *)
(* provenance committed, never a losing one that was dropped.              *)
RecordedCopyLinked ==
  /\ inbox.copy # None => inbox.copy \in linked
  /\ \A k \in Key : keys[k] # None => keys[k] \in linked
  /\ \A h \in Handler : At(h, "decide") => req[h].copy \in linked

(* Every copy is accounted for, and everything that names a copy names one *)
(* whose provenance was recorded: a refusal, race or revocation whose      *)
(* calls succeed, in a server that stays up, leaves no orphan.             *)
CopiesAccounted == NoOrphanCopy /\ RecordedCopyLinked

(* However accepts, copies, refusals and revocations race, and whatever    *)
(* calls fail: one linked copy, and an orphan only from a restart or a     *)
(* failed call of the store.                                               *)
OneCopyAccounted == CopiesAccounted /\ OneCopyWhileShared

(* Fail-closed revocation: a copy that stays was authorized and of the     *)
(* current revision at a moment after it was written.                      *)
CopyVouched ==
  [][\A c \in (linked' \ linked) \cap Live : c \in vouched]_vars

(* A recorded acceptance is never turned into another decision, nor given  *)
(* another copy; only the recipient's own Clear removes it.                *)
AcceptedStays ==
  [][inbox.status = "accepted" =>
       \/ inbox'.status = "accepted" /\ inbox'.copy = inbox.copy
       \/ ClearRecipient]_vars

(* Both parties' decisions count: the owner's when they revoke, the        *)
(* recipient's when they accept.                                           *)
DecisionsHold == CopyVouched /\ AcceptedStays

(* The comments of reopenDeclined and ListInboxItems: a concurrent decision *)
(* wins over a stale list.  A list that re-opens a declined share re-opens *)
(* the decline it read, not one the recipient recorded after it.           *)
StaleListYields ==
  [][\A h \in Handler :
       At(h, "reopen") /\ req'[h] = Idle /\ StillDeclined => inbox.at = req[h].at]_vars

=============================================================================
