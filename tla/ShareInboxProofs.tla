--------------------------- MODULE ShareInboxProofs ---------------------------
(***************************************************************************)
(* Proofs about ShareInbox, for any number of requests in progress, of     *)
(* client keys, of copies and of revisions of the source.                  *)
(***************************************************************************)
EXTENDS ShareInbox, FiniteSetTheorems, TLAPS

-----------------------------------------------------------------------------
(* The inductive invariant.                                                *)

(* While the source stands, a copy that was linked and is still there is   *)
(* the one its link names.                                                 *)
OnlyLinked == rev # 0 => Live \cap linked \subseteq {link}

LinkLinked == link # None => link \in linked

NamesLinked ==
  /\ inbox.copy # None => inbox.copy \in linked
  /\ \A k \in Key : keys[k] # None => keys[k] \in linked

Flying == {"verify", "grant", "link", "drop"}

(* What a request holds: a copy in flight is of the revision it read until *)
(* that is verified, and once verified it was authorized and current; a    *)
(* copy it takes for the outcome has its provenance; only a request with a *)
(* key replays one.                                                        *)
Holds(r) ==
  /\ r.pc \in Flying => r.copy \in 1..made
  /\ r.pc = "verify" /\ r.copy \in Live => copies[r.copy] = r.rev
  /\ r.pc \in {"grant", "link"} /\ r.copy \in Live => r.copy \in vouched
  /\ r.pc \in {"record", "decide"} => r.copy \in linked
  /\ r.pc \in {"authorize", "existing"} /\ r.copy # None => r.copy \in linked
  /\ r.pc = "replay" \/ (r.pc = "drop" /\ r.then = "replay") => r.key # None

RequestsHold == \A h \in Handler : Holds(req[h])

IndInv ==
  /\ TypeOK /\ OnlyLinked /\ LinkLinked /\ NamesLinked /\ RequestsHold /\ NoOrphanCopy

-----------------------------------------------------------------------------
(* The tables.                                                             *)

(* What TypeOK says of everything but the requests, with the names that    *)
(* the tables keep.                                                        *)
TablesOK ==
  /\ rev \in 0..scope.revs
  /\ grant \in [{"user", "group", "all"} -> Intent]
  /\ since \in 0..scope.time /\ now \in 1..scope.time
  /\ member \in BOOLEAN /\ policy \in BOOLEAN
  /\ made \in 0..MaxCopies /\ linked \subseteq 1..made
  /\ copies \in [CopyId -> Nat] /\ \A c \in CopyId : copies[c] # 0 => c <= made
  /\ link \in CopyId \cup {None}
  /\ keys \in [Key -> CopyId \cup {None}]
  /\ inbox \in InboxType /\ (inbox.copy # None <=> inbox.status = "accepted")
  /\ OnlyLinked /\ LinkLinked /\ NamesLinked

LEMMA Parts ==
  IndInv <=> /\ scope \in Scopes /\ TablesOK /\ req \in [Handler -> RequestType]
             /\ RequestsHold /\ NoOrphanCopy
BY DEF IndInv, TypeOK, TablesOK

LEMMA TablesKept ==
  ASSUME TablesOK, UNCHANGED <<scope, consent, saved, inbox, now>> PROVE TablesOK'
<1> USE DEF consent, saved
<1>1. OnlyLinked' /\ LinkLinked' /\ NamesLinked'
  BY DEF TablesOK, OnlyLinked, LinkLinked, NamesLinked, Live
<1> QED BY <1>1 DEF TablesOK

(* What a step may do to the copies that are there: none but a new id is   *)
(* written, and no provenance is taken back.                               *)
CopiesGrow ==
  /\ made' \in Nat /\ made <= made' /\ linked \subseteq linked'
  /\ \A c \in 1..made : copies'[c] = copies[c] \/ copies'[c] = 0

Vouching ==
  vouched' = {c \in InFlight' \cap Live' :
                c \in vouched \/ (copies'[c] = rev' /\ CheckSharedTransactionAccess')}

LEMMA HoldsKept ==
  ASSUME TablesOK, CopiesGrow, Vouching, NEW g \in Handler, req[g] \in RequestType,
         Holds(req[g]), UNCHANGED req[g]
  PROVE  Holds(req[g])'
<1>1. made \in Nat /\ made' \in Nat /\ made <= made' /\ made <= MaxCopies
  BY ShareAssumption DEF TablesOK, CopiesGrow
<1>2. req[g].pc \in Flying => req[g].copy \in 1..made /\ req[g].copy \in CopyId
  <2>1. 1..made \subseteq CopyId
    BY <1>1, ShareAssumption DEF CopyId
  <2>2. req[g].pc \in Flying => req[g].copy \in 1..made
    BY DEF Holds
  <2> QED BY <2>1, <2>2
<1>3. req[g].pc \in Flying /\ req[g].copy \in Live' =>
        copies'[req[g].copy] = copies[req[g].copy] /\ req[g].copy \in Live
  BY <1>2 DEF CopiesGrow, Live
<1>4. req[g].pc \in Flying => req[g].copy \in InFlight'
  BY DEF InFlight, Flying
<1>5. req[g].pc \in {"grant", "link"} /\ req[g].copy \in Live' => req[g].copy \in vouched'
  BY <1>3, <1>4 DEF Vouching, Holds, Flying
<1> DEFINE r == req[g]
<1>6. /\ r.pc \in Flying => r.copy \in 1..made'
      /\ r.pc = "verify" /\ r.copy \in Live' => copies'[r.copy] = r.rev
      /\ r.pc \in {"grant", "link"} /\ r.copy \in Live' => r.copy \in vouched'
      /\ r.pc \in {"record", "decide"} => r.copy \in linked'
      /\ r.pc \in {"authorize", "existing"} /\ r.copy # None => r.copy \in linked'
      /\ r.pc = "replay" \/ (r.pc = "drop" /\ r.then = "replay") => r.key # None
  BY <1>1, <1>2, <1>3, <1>5 DEF CopiesGrow, Holds, Flying
<1> QED BY <1>6 DEF Holds

(* A request ends, or goes on holding what it should, and the copy it had  *)
(* in flight stays so, has its provenance, is left behind by a failed      *)
(* call, or is gone.                                                       *)
Passes(old, r) ==
  old.pc \in Flying => \/ r.pc \in Flying /\ r.copy = old.copy
                       \/ old.copy \in linked' \cup lost'
                       \/ old.copy \notin Live'

LEMMA StepKeeps ==
  ASSUME IndInv, NEW h \in Handler, NEW r \in RequestType, req' = [req EXCEPT ![h] = r],
         UNCHANGED scope, lost \subseteq lost', TablesOK', CopiesGrow, Vouching,
         Holds(req[h])', Passes(req[h], r),
         \A c \in Live' : c \in Live \/ c \in lost' \/ (r.pc \in Flying /\ r.copy = c)
  PROVE  IndInv'
<1>1. /\ TablesOK /\ req \in [Handler -> RequestType] /\ RequestsHold /\ NoOrphanCopy
      /\ scope \in Scopes
  BY Parts
<1>2. req' \in [Handler -> RequestType] /\ req'[h] = r
  BY <1>1
<1>3. RequestsHold'
  <2> SUFFICES ASSUME NEW g \in Handler PROVE Holds(req[g])'
    BY DEF RequestsHold
  <2>1. CASE g = h
    BY <2>1
  <2>2. CASE g # h
    <3>1. req'[g] = req[g] /\ req[g] \in RequestType /\ Holds(req[g])
      BY <1>1, <2>2 DEF RequestsHold
    <3> QED BY <1>1, <3>1, HoldsKept
  <2> QED BY <2>1, <2>2
<1>4. NoOrphanCopy'
  <2> SUFFICES ASSUME NEW c \in Live', c \notin linked', c \notin lost'
               PROVE  c \in InFlight'
    BY DEF NoOrphanCopy
  <2>1. CASE r.pc \in Flying /\ r.copy = c
    BY <1>2, <2>1 DEF InFlight, Flying
  <2>2. CASE c \in Live
    <3>0. c \notin lost /\ c \notin linked
      BY DEF CopiesGrow
    <3>1. c \in InFlight
      BY <1>1, <2>2, <3>0 DEF NoOrphanCopy
    <3>2. PICK g \in Handler : req[g].pc \in Flying /\ req[g].copy = c
      BY <3>1 DEF InFlight, Flying
    <3>3. CASE g # h
      <4>1. req'[g] = req[g]
        BY <1>1, <3>3
      <4> QED BY <3>2, <4>1 DEF InFlight, Flying
    <3>4. CASE g = h
      BY <1>2, <3>2, <3>4 DEF Passes, InFlight, Flying
    <3> QED BY <3>3, <3>4
  <2> QED BY <2>1, <2>2
<1>5. TypeOK' /\ OnlyLinked' /\ LinkLinked' /\ NamesLinked'
  BY <1>1, <1>2 DEF TablesOK, TypeOK
<1> QED BY <1>3, <1>4, <1>5 DEF IndInv

-----------------------------------------------------------------------------
(* Steps of a request that write nothing but what it is doing.             *)

(* What a request may go on to without a copy in flight, S the copies with *)
(* provenance.                                                             *)
Lands(r, S) ==
  /\ r.pc \notin Flying
  /\ r.pc \in {"record", "decide"} => r.copy \in S
  /\ r.pc \in {"authorize", "existing"} /\ r.copy # None => r.copy \in S
  /\ r.pc = "replay" => r.key # None

LEMMA Quiet ==
  ASSUME TablesOK, UNCHANGED <<scope, consent, saved, inbox, now>>
  PROVE  TablesOK' /\ CopiesGrow /\ Live' = Live /\ linked' = linked
<1>1. TablesOK'
  BY TablesKept
<1>2. CopiesGrow /\ Live' = Live /\ linked' = linked
  BY DEF TablesOK, CopiesGrow, Live, saved
<1> QED BY <1>1, <1>2

LEMMA QuietStep ==
  ASSUME IndInv, NEW h \in Handler, NEW r \in RequestType, req' = [req EXCEPT ![h] = r],
         UNCHANGED <<scope, lost, consent, saved, inbox, now>>, Vouching,
         Lands(r, linked), req[h].pc \notin Flying
  PROVE  IndInv'
<1>1. TablesOK /\ req \in [Handler -> RequestType]
  BY Parts
<1>2. TablesOK' /\ CopiesGrow /\ Live' = Live /\ linked' = linked
  BY <1>1, Quiet
<1>3. req'[h] = r
  BY <1>1
<1>4. Holds(req[h])'
  BY <1>2, <1>3 DEF Lands, Holds, Flying
<1>5. Passes(req[h], r)
  BY DEF Passes
<1> QED BY <1>2, <1>4, <1>5, StepKeeps

LEMMA RequestParts ==
  ASSUME NEW r \in RequestType
  PROVE  /\ r.accept \in BOOLEAN /\ r.key \in Key \cup {None} /\ r.rev \in Nat
         /\ r.copy \in CopyId \cup {None} /\ r.minted \in BOOLEAN /\ r.seen \in BOOLEAN
         /\ r.at \in Nat /\ r.then \in {"fail", "heal", "replay"}
BY DEF RequestType

LEMMA IdleLands ==
  ASSUME NEW S PROVE Idle \in RequestType /\ Lands(Idle, S)
BY DEF Idle, RequestType, Lands, Flying

MayLand(h, S) == \E r \in RequestType : req' = [req EXCEPT ![h] = r] /\ Lands(r, S)

QuietAction(h) ==
  \/ \E k \in Key : StartCopy(h, k)
  \/ ReadShared(h) \/ ReplaySharingCopy(h)
  \/ StartAccept(h) \/ AcceptAuthorize(h) \/ ExistingCopyForSource(h)
  \/ StartDecline(h) \/ DeclineAuthorize(h)
  \/ StartList(h) \/ ReadInboxState(h) \/ CheckFresh(h) \/ StartFlag(h)

LEMMA Facts ==
  ASSUME IndInv, NEW h \in Handler
  PROVE  /\ TablesOK /\ req \in [Handler -> RequestType] /\ req[h] \in RequestType
         /\ Holds(req[h])
BY Parts DEF RequestsHold

LEMMA EndsLands ==
  ASSUME NEW h \in Handler, NEW S, Ends(h) PROVE MayLand(h, S)
BY IdleLands DEF Ends, Go, MayLand

(* CopySharedTransaction answers with a copy that has its provenance.      *)
LEMMA ReturnsLand ==
  ASSUME NEW h \in Handler, req[h] \in RequestType, NEW S, NEW c \in S, c \in CopyId,
         CopyReturns(h, c)
  PROVE  MayLand(h, S)
<1>1. CASE req[h].accept
  <2> DEFINE r == [req[h] EXCEPT !.pc = "decide", !.copy = c, !.minted = TRUE]
  <2>1. r \in RequestType /\ Lands(r, S)
    BY DEF RequestType, Lands, Flying
  <2>2. req' = [req EXCEPT ![h] = r]
    BY <1>1 DEF CopyReturns, Go
  <2> HIDE DEF r
  <2> QED BY <2>1, <2>2 DEF MayLand
<1>2. CASE ~req[h].accept
  BY <1>2, EndsLands DEF CopyReturns
<1> QED BY <1>1, <1>2

LEMMA MovesOn ==
  ASSUME NEW h \in Handler, NEW S, req[h] \in RequestType,
         NEW pc \in {"find", "create", "existing", "read", "decide", "loser", "refuse",
                     "state", "reopen", "flag", "replay", "heal", "record"},
         pc \in {"decide", "record"} => req[h].copy \in S,
         pc = "existing" /\ req[h].copy # None => req[h].copy \in S,
         pc = "replay" => req[h].key # None,
         Step(h, pc)
  PROVE  MayLand(h, S)
<1> DEFINE r == [req[h] EXCEPT !.pc = pc]
<1>1. r \in RequestType /\ Lands(r, S)
  BY DEF RequestType, Lands, Flying
<1>2. req' = [req EXCEPT ![h] = r]
  BY DEF Step, Go
<1> HIDE DEF r
<1> QED BY <1>1, <1>2 DEF MayLand

LEMMA QuietLands ==
  ASSUME IndInv, NEW h \in Handler, QuietAction(h)
  PROVE  MayLand(h, linked) /\ req[h].pc \notin Flying
<1>0. /\ TablesOK /\ req \in [Handler -> RequestType] /\ req[h] \in RequestType
      /\ Holds(req[h])
  BY Facts
<1>1. CASE \E k \in Key : StartCopy(h, k)
  <2> PICK k \in Key : StartCopy(h, k)
    BY <1>1
  <2> DEFINE r == [Idle EXCEPT !.pc = "read", !.key = k]
  <2>1. r \in RequestType /\ Lands(r, linked)
    BY DEF Idle, RequestType, Lands, Flying
  <2>2. req' = [req EXCEPT ![h] = r] /\ req[h].pc = "idle"
    BY DEF StartCopy, Go, At
  <2> HIDE DEF r
  <2> QED BY <2>1, <2>2 DEF MayLand, Flying
<1>2. CASE ReadShared(h)
  <2>1. CASE Ends(h)
    BY <1>2, <2>1, EndsLands DEF ReadShared, At, Flying
  <2>2. CASE Go(h, [req[h] EXCEPT !.pc = "find", !.rev = rev])
    <3> DEFINE r == [req[h] EXCEPT !.pc = "find", !.rev = rev]
    <3>0. rev \in Nat
      <4>1. scope.revs \in Nat
        BY Parts, ShareAssumption DEF Scope
      <4> QED BY <1>0, <4>1 DEF TablesOK
    <3>1. r \in RequestType /\ Lands(r, linked)
      BY <1>0, <3>0 DEF RequestType, Lands, Flying
    <3>2. req' = [req EXCEPT ![h] = r] /\ req[h].pc = "read"
      BY <1>2, <2>2 DEF ReadShared, Go, At
    <3> HIDE DEF r
    <3> QED BY <3>1, <3>2 DEF MayLand, Flying
  <2> QED BY <1>2, <2>1, <2>2 DEF ReadShared
<1>3. CASE ReplaySharingCopy(h)
  <2>1. CASE Ends(h)
    BY <1>3, <2>1, EndsLands DEF ReplaySharingCopy, At, Flying
  <2>2. CASE keys[req[h].key] # None /\ CopyReturns(h, keys[req[h].key])
    <3>1. req[h].key \in Key /\ req[h].pc = "replay"
      BY <1>0, <1>3, RequestParts DEF Holds, ReplaySharingCopy, At
    <3>2. keys[req[h].key] \in linked /\ keys[req[h].key] \in CopyId
      BY <1>0, <2>2, <3>1 DEF TablesOK, NamesLinked
    <3> QED BY <1>0, <2>2, <3>1, <3>2, ReturnsLand DEF Flying
  <2> QED BY <1>3, <2>1, <2>2 DEF ReplaySharingCopy
<1>4. CASE StartAccept(h)
  <2> DEFINE r == [Idle EXCEPT !.pc = "authorize", !.accept = TRUE, !.copy = inbox.copy]
  <2>0. inbox.copy \in CopyId \cup {None} /\ (inbox.copy # None => inbox.copy \in linked)
    BY <1>0 DEF TablesOK, InboxType, NamesLinked
  <2>1. r \in RequestType /\ Lands(r, linked)
    BY <2>0 DEF Idle, RequestType, Lands, Flying
  <2>2. req' = [req EXCEPT ![h] = r] /\ req[h].pc = "idle"
    BY <1>4 DEF StartAccept, Go, At
  <2> HIDE DEF r
  <2> QED BY <2>1, <2>2 DEF MayLand, Flying
<1>5. CASE AcceptAuthorize(h)
  <2>1. req[h].pc = "authorize" /\ (req[h].copy # None => req[h].copy \in linked)
    BY <1>0, <1>5 DEF AcceptAuthorize, At, Holds
  <2>2. CASE Ends(h)
    BY <2>1, <2>2, EndsLands DEF Flying
  <2>3. CASE Step(h, "existing")
    BY <1>0, <2>1, <2>3, MovesOn DEF Flying
  <2> QED BY <1>5, <2>2, <2>3 DEF AcceptAuthorize
<1>6. CASE ExistingCopyForSource(h)
  <2>1. req[h].pc = "existing" /\ (req[h].copy # None => req[h].copy \in linked)
    BY <1>0, <1>6 DEF ExistingCopyForSource, At, Holds
  <2>2. CASE req[h].copy # None /\ Step(h, "decide")
    BY <1>0, <2>1, <2>2, MovesOn DEF Flying
  <2>3. CASE link \in Live /\ Go(h, [req[h] EXCEPT !.pc = "decide", !.copy = link])
    <3> DEFINE r == [req[h] EXCEPT !.pc = "decide", !.copy = link]
    <3>0. link \in CopyId /\ link \in linked
      BY <1>0, <2>3, ShareAssumption DEF TablesOK, LinkLinked, Live, CopyId
    <3>1. r \in RequestType /\ Lands(r, linked)
      BY <1>0, <3>0 DEF RequestType, Lands, Flying
    <3>2. req' = [req EXCEPT ![h] = r]
      BY <2>3 DEF Go
    <3> HIDE DEF r
    <3> QED BY <2>1, <3>1, <3>2 DEF MayLand, Flying
  <2>4. CASE Step(h, "read")
    BY <1>0, <2>1, <2>4, MovesOn DEF Flying
  <2> QED BY <1>6, <2>2, <2>3, <2>4 DEF ExistingCopyForSource
<1>7. CASE StartDecline(h)
  <2> DEFINE r == [Idle EXCEPT !.pc = "declining", !.seen = inbox.status # "absent"]
  <2>1. r \in RequestType /\ Lands(r, linked)
    BY DEF Idle, RequestType, Lands, Flying
  <2>2. req' = [req EXCEPT ![h] = r] /\ req[h].pc = "idle"
    BY <1>7 DEF StartDecline, Go, At
  <2> HIDE DEF r
  <2> QED BY <2>1, <2>2 DEF MayLand, Flying
<1>8. CASE DeclineAuthorize(h)
  <2>1. req[h].pc = "declining"
    BY <1>8 DEF DeclineAuthorize, At
  <2>2. CASE Ends(h)
    BY <2>1, <2>2, EndsLands DEF Flying
  <2>3. CASE Step(h, "refuse")
    BY <1>0, <2>1, <2>3, MovesOn DEF Flying
  <2> QED BY <1>8, <2>2, <2>3 DEF DeclineAuthorize
<1>9. CASE StartList(h)
  <2> DEFINE r == [Idle EXCEPT !.pc = "sight", !.seen = CheckSharedTransactionAccess]
  <2>0. CheckSharedTransactionAccess \in BOOLEAN
    BY <1>0 DEF CheckSharedTransactionAccess, Excluded, LinkGrant, TablesOK
  <2>1. r \in RequestType /\ Lands(r, linked)
    BY <2>0 DEF Idle, RequestType, Lands, Flying
  <2>2. req' = [req EXCEPT ![h] = r] /\ req[h].pc = "idle"
    BY <1>9 DEF StartList, Go, At
  <2> HIDE DEF r
  <2> QED BY <2>1, <2>2 DEF MayLand, Flying
<1>10. CASE ReadInboxState(h)
  <2>1. req[h].pc = "state"
    BY <1>10 DEF ReadInboxState, At
  <2>2. CASE Ends(h)
    BY <2>1, <2>2, EndsLands DEF Flying
  <2>3. CASE Go(h, [req[h] EXCEPT !.pc = "fresh", !.at = inbox.at])
    <3> DEFINE r == [req[h] EXCEPT !.pc = "fresh", !.at = inbox.at]
    <3>0. inbox.at \in Nat
      BY <1>0 DEF TablesOK, InboxType
    <3>1. r \in RequestType /\ Lands(r, linked)
      BY <1>0, <3>0 DEF RequestType, Lands, Flying
    <3>2. req' = [req EXCEPT ![h] = r]
      BY <2>3 DEF Go
    <3> HIDE DEF r
    <3> QED BY <2>1, <3>1, <3>2 DEF MayLand, Flying
  <2> QED BY <1>10, <2>2, <2>3 DEF ReadInboxState
<1>11. CASE CheckFresh(h)
  <2>1. req[h].pc = "fresh"
    BY <1>11 DEF CheckFresh, At
  <2>2. CASE Ends(h)
    BY <2>1, <2>2, EndsLands DEF Flying
  <2>3. CASE Step(h, "reopen")
    BY <1>0, <2>1, <2>3, MovesOn DEF Flying
  <2> QED BY <1>11, <2>2, <2>3 DEF CheckFresh
<1>12. CASE StartFlag(h)
  BY <1>0, <1>12, MovesOn DEF StartFlag, At, Flying
<1> QED BY <1>1, <1>2, <1>3, <1>4, <1>5, <1>6, <1>7, <1>8, <1>9, <1>10, <1>11, <1>12
        DEF QuietAction

LEMMA QuietUnchanged ==
  ASSUME NEW h \in Handler, QuietAction(h) PROVE UNCHANGED <<consent, saved, inbox>>
BY DEF QuietAction, StartCopy, ReadShared, ReplaySharingCopy, StartAccept, AcceptAuthorize,
       ExistingCopyForSource, StartDecline, DeclineAuthorize, StartList, ReadInboxState,
       CheckFresh, StartFlag

LEMMA QuietActionKeeps ==
  ASSUME IndInv, NEW h \in Handler, QuietAction(h), UNCHANGED <<scope, lost, now>>, Vouching
  PROVE  IndInv'
<1>1. PICK r \in RequestType : req' = [req EXCEPT ![h] = r] /\ Lands(r, linked)
  BY QuietLands DEF MayLand
<1> QED BY <1>1, QuietLands, QuietUnchanged, QuietStep

-----------------------------------------------------------------------------
(* Steps of a request that write.                                          *)

LEMMA LandStep ==
  ASSUME IndInv, NEW h \in Handler, MayLand(h, linked'),
         UNCHANGED scope, lost \subseteq lost', TablesOK', CopiesGrow, Vouching,
         Live' \subseteq Live \cup lost',
         \/ req[h].pc \notin Flying
         \/ req[h].copy \in linked' \cup lost'
         \/ req[h].copy \notin Live'
  PROVE  IndInv'
<1>1. PICK r \in RequestType : req' = [req EXCEPT ![h] = r] /\ Lands(r, linked')
  BY DEF MayLand
<1>2. req'[h] = r
  BY <1>1, Facts
<1>3. Holds(req[h])'
  BY <1>1, <1>2 DEF Lands, Holds, Flying
<1>4. Passes(req[h], r)
  BY DEF Passes
<1> QED BY <1>1, <1>3, <1>4, StepKeeps

(* Writing or dropping what names a copy, the copies as they are.          *)
LEMMA NamesOnly ==
  ASSUME TablesOK, UNCHANGED <<scope, copies, made, linked>>
  PROVE  CopiesGrow /\ Live' = Live
BY DEF TablesOK, CopiesGrow, Live

LEMMA FindKeeps ==
  ASSUME IndInv, NEW h \in Handler, FindSharingCopy(h), UNCHANGED <<scope, lost, now>>, Vouching
  PROVE  IndInv'
<1>0. /\ TablesOK /\ req \in [Handler -> RequestType] /\ req[h] \in RequestType
      /\ Holds(req[h])
  BY Facts
<1>1. /\ UNCHANGED <<consent, copies, keys, made, linked, inbox>>
      /\ req[h].pc \in {"find", "heal"}
  BY DEF FindSharingCopy, At
<1>2. CopiesGrow /\ Live' = Live /\ linked' = linked
  BY <1>0, <1>1, NamesOnly
<1>3. CASE link \in Live
  <2> DEFINE r == [req[h] EXCEPT !.pc = "record", !.copy = link]
  <2>0. link \in CopyId /\ link \in linked
    BY <1>0, <1>3, ShareAssumption DEF TablesOK, LinkLinked, Live, CopyId
  <2>1. r \in RequestType /\ Lands(r, linked')
    BY <1>0, <1>2, <2>0 DEF RequestType, Lands, Flying
  <2>2. req' = [req EXCEPT ![h] = r] /\ UNCHANGED link
    BY <1>3 DEF FindSharingCopy, Go
  <2> HIDE DEF r
  <2>3. MayLand(h, linked')
    BY <2>1, <2>2 DEF MayLand
  <2>4. TablesOK'
    BY <1>0, <1>1, <2>2, TablesKept DEF saved
  <2> QED BY <1>1, <1>2, <2>3, <2>4, LandStep DEF Flying
<1>4. CASE link \notin Live
  <2>1. link' = None /\ (Ends(h) \/ Step(h, "create"))
    BY <1>4 DEF FindSharingCopy
  <2>2. MayLand(h, linked')
    BY <1>0, <2>1, EndsLands, MovesOn
  <2>3. Live \cap linked = {} \/ rev = 0
    BY <1>0, <1>4 DEF TablesOK, OnlyLinked
  <2>4. OnlyLinked' /\ LinkLinked' /\ NamesLinked'
    BY <1>0, <1>1, <1>2, <2>1, <2>3 DEF OnlyLinked, LinkLinked, NamesLinked, TablesOK, consent
  <2>5. TablesOK'
    BY <1>0, <1>1, <2>1, <2>4 DEF TablesOK, consent
  <2> QED BY <1>1, <1>2, <2>2, <2>5, LandStep DEF Flying
<1> QED BY <1>3, <1>4

(* The copy is written under an id nothing names yet.                      *)
LEMMA Creating ==
  ASSUME TablesOK, NEW h \in Handler, req[h] \in RequestType, CreateTransaction(h),
         UNCHANGED <<scope, inbox, now>>
  PROVE  /\ TablesOK' /\ CopiesGrow /\ made + 1 \in CopyId /\ made + 1 \in 1..made'
         /\ copies'[made + 1] = req[h].rev
         /\ \A c \in Live' : c \in Live \/ c = made + 1
<1>1. /\ made \in Nat /\ made' = made + 1 /\ made + 1 \in CopyId /\ made' \in 0..MaxCopies
  BY ShareAssumption DEF CreateTransaction, TablesOK, CopyId
<1>2. /\ copies' = [copies EXCEPT ![made + 1] = req[h].rev] /\ req[h].rev \in Nat
      /\ UNCHANGED <<consent, link, keys, linked, inbox>>
  BY DEF CreateTransaction, RequestType
<1>3. copies' \in [CopyId -> Nat] /\ copies'[made + 1] = req[h].rev
      /\ \A c \in CopyId : c # made + 1 => copies'[c] = copies[c]
  BY <1>1, <1>2 DEF TablesOK
<1>4. CopiesGrow
  <2>1. 1..made \subseteq CopyId
    BY <1>1, ShareAssumption DEF CopyId
  <2> QED BY <1>1, <1>2, <1>3, <2>1 DEF CopiesGrow
<1>5. made + 1 \notin linked /\ linked \subseteq 1..made'
  BY <1>1 DEF TablesOK
<1>6. Live' \cap linked \subseteq Live /\ \A c \in Live' : c \in Live \/ c = made + 1
  BY <1>3, <1>5 DEF Live
<1>7. OnlyLinked' /\ LinkLinked' /\ NamesLinked'
  BY <1>2, <1>6 DEF TablesOK, OnlyLinked, LinkLinked, NamesLinked, consent
<1>8. \A c \in CopyId : copies'[c] # 0 => c <= made'
  BY <1>1, <1>3 DEF TablesOK, CopyId
<1>9. TablesOK'
  BY <1>1, <1>2, <1>3, <1>5, <1>7, <1>8 DEF TablesOK, consent
<1> QED BY <1>1, <1>3, <1>4, <1>6, <1>9

LEMMA CreateKeeps ==
  ASSUME IndInv, NEW h \in Handler, CreateCopy(h), UNCHANGED <<scope, lost, now>>, Vouching
  PROVE  IndInv'
<1>0. /\ TablesOK /\ req \in [Handler -> RequestType] /\ req[h] \in RequestType
  BY Facts
<1> DEFINE r == [req[h] EXCEPT !.pc = "verify", !.copy = made + 1]
<1>1. /\ req[h].pc = "create" /\ req' = [req EXCEPT ![h] = r] /\ UNCHANGED inbox
      /\ CreateTransaction(h)
  BY DEF CreateCopy, CreateTransaction, At, Go
<1>2. /\ TablesOK' /\ CopiesGrow /\ made + 1 \in CopyId /\ made + 1 \in 1..made'
      /\ copies'[made + 1] = req[h].rev
      /\ \A c \in Live' : c \in Live \/ c = made + 1
  BY <1>0, <1>1, Creating
<1>3. r \in RequestType /\ r.copy = made + 1 /\ r.pc = "verify" /\ r.rev = req[h].rev
      /\ req'[h] = r
  BY <1>0, <1>1, <1>2 DEF RequestType
<1> HIDE DEF r
<1>4. Holds(req[h])'
  BY <1>2, <1>3 DEF Holds, Flying
<1>5. Passes(req[h], r)
  BY <1>1 DEF Passes, Flying
<1> QED BY <1>1, <1>2, <1>3, <1>4, <1>5, StepKeeps DEF Flying

(* The copy, after it was written: refused, it is dropped; authorized and  *)
(* current, it goes on to its provenance.                                  *)
LEMMA DropHolds ==
  ASSUME IndInv, NEW h \in Handler, NEW then \in {"fail", "heal", "replay"}, Drop(h, then),
         then = "replay" => req[h].key # None, req[h].pc \in Flying,
         UNCHANGED <<scope, lost, consent, saved, inbox, now>>, Vouching
  PROVE  IndInv'
<1> DEFINE r == [req[h] EXCEPT !.pc = "drop", !.rev = 0, !.then = then]
<1>0. /\ TablesOK /\ req \in [Handler -> RequestType] /\ req[h] \in RequestType
      /\ Holds(req[h])
  BY Facts
<1>1. r \in RequestType /\ r.pc = "drop" /\ r.copy = req[h].copy /\ r.then = then
      /\ r.key = req[h].key
  BY <1>0 DEF RequestType
<1>2. req' = [req EXCEPT ![h] = r]
  BY DEF Drop, Go
<1> HIDE DEF r
<1>3. TablesOK' /\ CopiesGrow /\ Live' = Live /\ linked' = linked
  BY <1>0, Quiet
<1>4. req[h].copy \in 1..made /\ made' = made /\ req'[h] = r
  BY <1>0, <1>2 DEF Holds, saved
<1>5. Holds(req[h])'
  BY <1>1, <1>4 DEF Holds, Flying
<1>6. Passes(req[h], r)
  BY <1>1 DEF Passes, Flying
<1> QED BY <1>1, <1>2, <1>3, <1>5, <1>6, StepKeeps

LEMMA VerifyKeeps ==
  ASSUME IndInv, NEW h \in Handler, VerifySharingSourceCurrent(h),
         UNCHANGED <<scope, lost, now>>, Vouching
  PROVE  IndInv'
<1>0. /\ TablesOK /\ req \in [Handler -> RequestType] /\ req[h] \in RequestType
      /\ Holds(req[h])
  BY Facts
<1>1. req[h].pc = "verify" /\ UNCHANGED <<consent, saved, inbox>>
  BY DEF VerifySharingSourceCurrent, At
<1>2. CASE Drop(h, "fail")
  BY <1>1, <1>2, DropHolds DEF Flying
<1>3. CASE /\ CheckSharedTransactionAccess /\ rev = req[h].rev
           /\ Go(h, [req[h] EXCEPT !.pc = "grant", !.rev = 0])
  <2> DEFINE r == [req[h] EXCEPT !.pc = "grant", !.rev = 0]
  <2>1. r \in RequestType /\ r.pc = "grant" /\ r.copy = req[h].copy
    BY <1>0 DEF RequestType
  <2>2. req' = [req EXCEPT ![h] = r]
    BY <1>3 DEF Go
  <2> HIDE DEF r
  <2>3. TablesOK' /\ CopiesGrow /\ Live' = Live /\ linked' = linked
    BY <1>0, <1>1, Quiet
  <2>4. req[h].copy \in 1..made /\ made' = made /\ req'[h] = r /\ copies' = copies
        /\ rev' = rev
    BY <1>0, <1>1, <2>2 DEF Holds, saved, consent, Flying
  <2>5. CheckSharedTransactionAccess'
    BY <1>1, <1>3 DEF CheckSharedTransactionAccess, Excluded, LinkGrant, consent
  <2>6. r.copy \in Live' => r.copy \in vouched'
    <3>1. r.copy \in InFlight'
      BY <2>1, <2>4 DEF InFlight
    <3>2. r.copy \in Live' => copies'[r.copy] = rev'
      BY <1>0, <1>1, <1>3, <2>1, <2>3, <2>4 DEF Holds
    <3> QED BY <2>5, <3>1, <3>2 DEF Vouching
  <2>7. Holds(req[h])'
    BY <2>1, <2>4, <2>6 DEF Holds, Flying
  <2>8. Passes(req[h], r)
    BY <2>1 DEF Passes, Flying
  <2> QED BY <2>1, <2>2, <2>3, <2>7, <2>8, StepKeeps
<1> QED BY <1>2, <1>3 DEF VerifySharingSourceCurrent

LEMMA GrantKeeps ==
  ASSUME IndInv, NEW h \in Handler, SharingLinkGrant(h), UNCHANGED <<scope, lost, now>>, Vouching
  PROVE  IndInv'
<1>0. /\ TablesOK /\ req \in [Handler -> RequestType] /\ req[h] \in RequestType
      /\ Holds(req[h])
  BY Facts
<1>1. req[h].pc = "grant" /\ UNCHANGED <<consent, saved, inbox>>
  BY DEF SharingLinkGrant, At
<1>2. CASE Drop(h, "fail")
  BY <1>1, <1>2, DropHolds DEF Flying
<1>3. CASE Step(h, "link")
  <2> DEFINE r == [req[h] EXCEPT !.pc = "link"]
  <2>1. r \in RequestType /\ r.pc = "link" /\ r.copy = req[h].copy
    BY <1>0 DEF RequestType
  <2>2. req' = [req EXCEPT ![h] = r]
    BY <1>3 DEF Step, Go
  <2> HIDE DEF r
  <2>3. TablesOK' /\ CopiesGrow /\ Live' = Live /\ linked' = linked
    BY <1>0, <1>1, Quiet
  <2>4. req[h].copy \in 1..made /\ made' = made /\ req'[h] = r
    BY <1>0, <1>1, <2>2 DEF Holds, saved, Flying
  <2>5. r.copy \in Live' => r.copy \in vouched'
    <3>1. r.copy \in InFlight'
      BY <2>1, <2>4 DEF InFlight
    <3> QED BY <1>0, <1>1, <2>1, <2>3, <3>1 DEF Vouching, Holds
  <2>6. Holds(req[h])'
    BY <2>1, <2>4, <2>5 DEF Holds, Flying
  <2>7. Passes(req[h], r)
    BY <2>1 DEF Passes, Flying
  <2> QED BY <2>1, <2>2, <2>3, <2>6, <2>7, StepKeeps
<1> QED BY <1>2, <1>3 DEF SharingLinkGrant

LEMMA KeysTyped ==
  ASSUME TablesOK, NEW h \in Handler, req[h] \in RequestType, NEW c \in CopyId,
         KeyRecorded(h, c)
  PROVE  /\ keys' \in [Key -> CopyId \cup {None}]
         /\ \A k \in Key : keys'[k] = keys[k] \/ keys'[k] = c
BY RequestParts DEF TablesOK, KeyRecorded

LEMMA RecordLinkKeeps ==
  ASSUME IndInv, NEW h \in Handler, RecordLink(h), UNCHANGED <<scope, lost, now>>, Vouching
  PROVE  IndInv'
<1>0. /\ TablesOK /\ req \in [Handler -> RequestType] /\ req[h] \in RequestType
      /\ Holds(req[h])
  BY Facts
<1>1. /\ req[h].pc = "link" /\ UNCHANGED <<consent, copies, made, inbox>>
      /\ req[h].copy \in 1..made
  BY <1>0 DEF RecordLink, At, Holds, Flying
<1>2. CASE link = None /\ ~KeyTaken(h)
  <2> DEFINE c == req[h].copy
  <2>0. c \in CopyId
    <3>1. 1..made \subseteq CopyId
      BY <1>0, ShareAssumption DEF TablesOK, CopyId
    <3> QED BY <1>1, <3>1
  <2>1. /\ link' = c /\ linked' = linked \cup {c} /\ KeyRecorded(h, c) /\ CopyReturns(h, c)
    BY <1>2 DEF RecordLink
  <2>2. MayLand(h, linked')
    BY <1>0, <2>0, <2>1, ReturnsLand
  <2>3. CopiesGrow /\ Live' = Live
    BY <1>0, <1>1, <2>1 DEF TablesOK, CopiesGrow, Live
  <2>4. keys' \in [Key -> CopyId \cup {None}] /\ \A k \in Key : keys'[k] \in {keys[k], c}
    BY <1>0, <2>0, <2>1, KeysTyped
  <2>5. rev # 0 => Live \cap linked = {}
    BY <1>0, <1>2, ShareAssumption DEF TablesOK, OnlyLinked, Live, CopyId
  <2>6. OnlyLinked' /\ LinkLinked' /\ NamesLinked'
    <3>1. OnlyLinked'
      BY <1>1, <2>1, <2>3, <2>5 DEF OnlyLinked, consent
    <3>2. LinkLinked'
      BY <2>1 DEF LinkLinked
    <3>3. NamesLinked'
      BY <1>0, <1>1, <2>1, <2>4 DEF TablesOK, NamesLinked
    <3> QED BY <3>1, <3>2, <3>3
  <2>7. TablesOK'
    BY <1>0, <1>1, <2>0, <2>1, <2>4, <2>6 DEF TablesOK, consent
  <2> QED BY <2>1, <2>2, <2>3, <2>7, LandStep
<1>3. CASE ~(link = None /\ ~KeyTaken(h))
  <2> DEFINE then == IF link # None THEN "heal" ELSE "replay"
  <2>1. Drop(h, then) /\ UNCHANGED <<consent, saved, inbox>>
    BY <1>1, <1>3 DEF RecordLink, saved
  <2>2. then = "replay" => req[h].key # None
    BY <1>3 DEF KeyTaken
  <2>3. then \in {"fail", "heal", "replay"}
    OBVIOUS
  <2> HIDE DEF then
  <2> QED BY <1>1, <2>1, <2>2, <2>3, DropHolds DEF Flying
<1> QED BY <1>2, <1>3

(* Whoever deletes a copy, the names that are kept stay sound.             *)
LEMMA Deleting ==
  ASSUME TablesOK, NEW c \in CopyId \cup {None}, DeleteTransaction(c),
         UNCHANGED <<scope, consent, inbox, now>>
  PROVE  TablesOK' /\ CopiesGrow /\ Live' = Live \ {c} /\ linked' = linked
<1>1. /\ copies' = [copies EXCEPT ![c] = 0] /\ link' = IF link = c THEN None ELSE link
      /\ UNCHANGED <<keys, made, linked>>
  BY DEF DeleteTransaction
<1>2. copies' \in [CopyId -> Nat] /\ \A d \in CopyId : copies'[d] = IF d = c THEN 0 ELSE copies[d]
  BY <1>1 DEF TablesOK
<1>3. Live' = Live \ {c}
  BY <1>2 DEF Live
<1>4. CopiesGrow
  <2>1. 1..made \subseteq CopyId
    BY ShareAssumption DEF TablesOK, CopyId
  <2> QED BY <1>1, <1>2, <2>1 DEF TablesOK, CopiesGrow
<1>5. OnlyLinked' /\ LinkLinked' /\ NamesLinked'
  BY <1>1, <1>3 DEF TablesOK, OnlyLinked, LinkLinked, NamesLinked, consent
<1>6. \A d \in CopyId : copies'[d] # 0 => d <= made'
  BY <1>1, <1>2 DEF TablesOK
<1>7. link' \in CopyId \cup {None}
  BY <1>1 DEF TablesOK
<1>8. TablesOK'
  BY <1>1, <1>2, <1>5, <1>6, <1>7 DEF TablesOK, consent
<1> QED BY <1>1, <1>3, <1>4, <1>8

LEMMA DropKeeps ==
  ASSUME IndInv, NEW h \in Handler, DropCopy(h), UNCHANGED <<scope, lost, now>>, Vouching
  PROVE  IndInv'
<1>0. /\ TablesOK /\ req \in [Handler -> RequestType] /\ req[h] \in RequestType
      /\ Holds(req[h])
  BY Facts
<1>1. req[h].pc = "drop" /\ UNCHANGED <<consent, inbox>>
      /\ req[h].copy \in CopyId \cup {None}
  BY <1>0, RequestParts DEF DropCopy, At
<1>2. CASE req[h].copy \in Live
  <2>1. DeleteTransaction(req[h].copy) /\ (Ends(h) \/ Step(h, req[h].then))
    BY <1>2 DEF DropCopy
  <2>2. TablesOK' /\ CopiesGrow /\ Live' = Live \ {req[h].copy} /\ linked' = linked
    BY <1>0, <1>1, <2>1, Deleting
  <2>3. MayLand(h, linked')
    <3>1. CASE Ends(h)
      BY <3>1, EndsLands
    <3>2. CASE req[h].then # "fail" /\ Step(h, req[h].then)
      <4>1. req[h].then \in {"heal", "replay"}
        BY <1>0, <3>2, RequestParts
      <4>2. req[h].then = "replay" => req[h].key # None
        BY <1>0, <1>1 DEF Holds
      <4> QED BY <1>0, <3>2, <4>1, <4>2, MovesOn
    <3> QED BY <1>2, <3>1, <3>2 DEF DropCopy
  <2> QED BY <2>2, <2>3, LandStep
<1>3. CASE req[h].copy \notin Live
  <2>1. Ends(h) /\ UNCHANGED saved
    BY <1>3 DEF DropCopy
  <2>2. TablesOK' /\ CopiesGrow /\ Live' = Live /\ linked' = linked
    BY <1>0, <1>1, <2>1, Quiet
  <2>3. MayLand(h, linked')
    BY <2>1, EndsLands
  <2> QED BY <1>3, <2>2, <2>3, LandStep
<1> QED BY <1>2, <1>3

(* A failed call of the store: what it leaves behind is remembered.        *)
LEMMA ErrorKeeps ==
  ASSUME IndInv, NEW h \in Handler, StoreError(h), UNCHANGED scope, Vouching
  PROVE  IndInv'
<1>0. /\ TablesOK /\ req \in [Handler -> RequestType] /\ req[h] \in RequestType
      /\ UNCHANGED now
  BY Facts DEF StoreError
<1>1. CASE CallFails(h)
  <2>1. /\ Ends(h) /\ UNCHANGED <<consent, saved, inbox, lost>> /\ req[h].pc \notin Flying
    BY <1>1 DEF CallFails, Flying
  <2>2. Idle \in RequestType /\ Lands(Idle, linked) /\ req' = [req EXCEPT ![h] = Idle]
    BY <2>1, IdleLands DEF Ends, Go
  <2> QED BY <1>0, <2>1, <2>2, QuietStep
<1>2. CASE RecordFails(h)
  <2>1. /\ Drop(h, "fail") /\ UNCHANGED <<consent, saved, inbox, lost>>
        /\ req[h].pc \in Flying
    BY <1>2 DEF RecordFails, At, Flying
  <2> QED BY <1>0, <2>1, DropHolds
<1>3. CASE CreateUnmarked(h)
  <2>1. /\ req[h].pc = "create" /\ Ends(h) /\ UNCHANGED inbox /\ CreateTransaction(h)
        /\ lost' = lost \cup {made + 1}
    BY <1>3 DEF CreateUnmarked, CreateTransaction, At
  <2>2. /\ TablesOK' /\ CopiesGrow /\ \A c \in Live' : c \in Live \/ c = made + 1
    BY <1>0, <2>1, Creating
  <2>3. MayLand(h, linked')
    BY <2>1, EndsLands
  <2> QED BY <2>1, <2>2, <2>3, LandStep DEF Flying
<1>4. CASE DropFails(h)
  <2>1. /\ Ends(h) /\ UNCHANGED <<consent, inbox>> /\ req[h].copy \in CopyId \cup {None}
    BY <1>0, <1>4, RequestParts DEF DropFails
  <2>2. MayLand(h, linked')
    BY <2>1, EndsLands
  <2>3. CASE lost' = lost \cup {req[h].copy} /\ UNCHANGED saved
    <3>1. TablesOK' /\ CopiesGrow /\ Live' = Live
      BY <1>0, <2>1, <2>3, Quiet
    <3> QED BY <2>2, <2>3, <3>1, LandStep
  <2>4. CASE DeleteTransaction(req[h].copy) /\ UNCHANGED lost
    <3>1. TablesOK' /\ CopiesGrow /\ Live' = Live \ {req[h].copy}
      BY <1>0, <2>1, <2>4, Deleting
    <3> QED BY <2>2, <2>4, <3>1, LandStep
  <2> QED BY <1>4, <2>3, <2>4 DEF DropFails
<1> QED BY <1>1, <1>2, <1>3, <1>4 DEF StoreError

LEMMA RecordKeyKeeps ==
  ASSUME IndInv, NEW h \in Handler, RecordKey(h), UNCHANGED <<scope, lost, now>>, Vouching
  PROVE  IndInv'
<1>0. /\ TablesOK /\ req \in [Handler -> RequestType] /\ req[h] \in RequestType
      /\ Holds(req[h])
  BY Facts
<1> DEFINE c == req[h].copy
<1>1. /\ req[h].pc = "record" /\ UNCHANGED <<consent, copies, link, made, linked, inbox>>
      /\ c \in linked /\ c \in CopyId
  <2>1. linked \subseteq CopyId
    BY <1>0, ShareAssumption DEF TablesOK, CopyId
  <2> QED BY <1>0, <2>1 DEF RecordKey, At, Holds
<1>2. CopiesGrow /\ Live' = Live /\ linked' = linked
  BY <1>0, <1>1, NamesOnly
<1>3. CASE KeyTaken(h)
  <2>1. Step(h, "replay") /\ UNCHANGED saved
    BY <1>1, <1>3 DEF RecordKey, saved
  <2>2. MayLand(h, linked')
    BY <1>0, <1>3, <2>1, MovesOn DEF KeyTaken
  <2>3. TablesOK'
    BY <1>0, <1>1, <2>1, Quiet
  <2> QED BY <1>1, <1>2, <2>2, <2>3, LandStep DEF Flying
<1>4. CASE ~KeyTaken(h)
  <2>1. KeyRecorded(h, c) /\ CopyReturns(h, c)
    BY <1>4 DEF RecordKey
  <2>2. MayLand(h, linked')
    BY <1>0, <1>1, <1>2, <2>1, ReturnsLand
  <2>3. keys' \in [Key -> CopyId \cup {None}] /\ \A k \in Key : keys'[k] \in {keys[k], c}
    BY <1>0, <1>1, <2>1, KeysTyped
  <2>4. OnlyLinked' /\ LinkLinked' /\ NamesLinked'
    BY <1>0, <1>1, <1>2, <2>3 DEF TablesOK, OnlyLinked, LinkLinked, NamesLinked, consent
  <2>5. TablesOK'
    BY <1>0, <1>1, <2>3, <2>4 DEF TablesOK, consent
  <2> QED BY <1>1, <1>2, <2>2, <2>5, LandStep DEF Flying
<1> QED BY <1>3, <1>4

-----------------------------------------------------------------------------
(* Decisions of the recipient.                                             *)

(* A step of a request that writes the inbox row and nothing else.         *)
LEMMA InboxStep ==
  ASSUME IndInv, NEW h \in Handler, MayLand(h, linked), req[h].pc \notin Flying,
         UNCHANGED <<scope, lost, consent, saved, now>>, Vouching,
         inbox' \in InboxType, inbox'.copy # None <=> inbox'.status = "accepted",
         inbox'.copy # None => inbox'.copy \in linked
  PROVE  IndInv'
<1>1. TablesOK
  BY Facts
<1>2. CopiesGrow /\ Live' = Live /\ linked' = linked
  BY <1>1, NamesOnly DEF saved
<1>3. OnlyLinked' /\ LinkLinked' /\ NamesLinked'
  BY <1>1, <1>2 DEF TablesOK, OnlyLinked, LinkLinked, NamesLinked, consent, saved
<1>4. TablesOK'
  BY <1>1, <1>3 DEF TablesOK, consent, saved
<1> QED BY <1>2, <1>4, LandStep

LEMMA AbsentTyped ==
  /\ Absent \in InboxType /\ Absent.copy = None /\ Absent.status = "absent"
  /\ Sighted \in InboxType /\ Sighted.copy = None /\ Sighted.status = "pending"
BY DEF Absent, Sighted, InboxType

LEMMA AcceptKeeps ==
  ASSUME IndInv, NEW h \in Handler, RecordAccept(h), UNCHANGED <<scope, lost, now>>, Vouching
  PROVE  IndInv'
<1>0. /\ TablesOK /\ req \in [Handler -> RequestType] /\ req[h] \in RequestType
      /\ Holds(req[h])
  BY Facts
<1>1. req[h].pc = "decide" /\ req[h].copy \in linked /\ UNCHANGED <<consent, saved>>
  BY <1>0 DEF RecordAccept, At, Holds
<1>2. CASE Lost(h)
  <2>1. (Ends(h) \/ Step(h, "loser")) /\ UNCHANGED inbox
    BY <1>2 DEF RecordAccept
  <2>2. MayLand(h, linked)
    BY <1>0, <2>1, EndsLands, MovesOn
  <2>3. /\ inbox \in InboxType /\ (inbox.copy # None <=> inbox.status = "accepted")
        /\ (inbox.copy # None => inbox.copy \in linked)
    BY <1>0 DEF TablesOK, NamesLinked
  <2> QED BY <1>1, <2>1, <2>2, <2>3, InboxStep DEF Flying
<1>3. CASE ~Lost(h)
  <2>1. inbox' = [status |-> "accepted", copy |-> req[h].copy, at |-> now] /\ Ends(h)
    BY <1>3 DEF RecordAccept
  <2>2. req[h].copy \in CopyId /\ req[h].copy # None
    <3>1. linked \subseteq CopyId /\ None \notin CopyId
      BY <1>0, ShareAssumption DEF TablesOK, CopyId
    <3> QED BY <1>1, <3>1
  <2>3. now \in Nat
    BY <1>0 DEF TablesOK
  <2>4. /\ inbox' \in InboxType /\ inbox'.copy = req[h].copy /\ inbox'.status = "accepted"
    BY <2>1, <2>2, <2>3 DEF InboxType
  <2>5. MayLand(h, linked)
    BY <2>1, EndsLands
  <2> QED BY <1>1, <2>2, <2>4, <2>5, InboxStep DEF Flying
<1> QED BY <1>2, <1>3

LEMMA LoserKeeps ==
  ASSUME IndInv, NEW h \in Handler, RemoveLosingCopy(h), UNCHANGED <<scope, lost, now>>, Vouching
  PROVE  IndInv'
<1>0. /\ TablesOK /\ req \in [Handler -> RequestType] /\ req[h] \in RequestType
  BY Facts
<1>1. /\ req[h].pc = "loser" /\ req[h].copy \in CopyId \cup {None}
      /\ DeleteTransaction(req[h].copy) /\ Ends(h) /\ UNCHANGED <<consent, inbox>>
  BY <1>0, RequestParts DEF RemoveLosingCopy, At
<1>2. TablesOK' /\ CopiesGrow /\ Live' = Live \ {req[h].copy} /\ linked' = linked
  BY <1>0, <1>1, Deleting
<1>3. MayLand(h, linked')
  BY <1>1, EndsLands
<1> QED BY <1>1, <1>2, <1>3, LandStep DEF Flying

LEMMA DeclineKeeps ==
  ASSUME IndInv, NEW h \in Handler, RecordDecline(h), UNCHANGED <<scope, lost, now>>, Vouching
  PROVE  IndInv'
<1>0. TablesOK
  BY Facts
<1>1. req[h].pc = "refuse" /\ Ends(h) /\ UNCHANGED <<rev, since, member, policy, saved>>
  BY DEF RecordDecline, At
<1>2. /\ grant' \in [{"user", "group", "all"} -> Intent]
      /\ inbox' \in InboxType /\ (inbox'.copy # None <=> inbox'.status = "accepted")
      /\ inbox'.copy = inbox.copy
  <2>1. CASE RefusalStands
    <3>1. /\ grant' = [grant EXCEPT !["user"] = IF @ = "shared" THEN "none" ELSE @]
          /\ inbox' = [inbox EXCEPT !.status = "declined", !.at = now]
      BY <2>1 DEF RecordDecline
    <3>2. grant' \in [{"user", "group", "all"} -> Intent]
      BY <1>0, <3>1 DEF TablesOK, Intent
    <3>3. now \in Nat /\ inbox \in InboxType /\ inbox.copy = None
      BY <1>0, <2>1 DEF TablesOK, RefusalStands
    <3> QED BY <3>1, <3>2, <3>3 DEF InboxType
  <2>2. CASE ~RefusalStands
    BY <1>0, <2>2 DEF RecordDecline, TablesOK
  <2> QED BY <2>1, <2>2
<1>3. CopiesGrow /\ Live' = Live /\ linked' = linked
  BY <1>0, <1>1, NamesOnly DEF saved
<1>4. OnlyLinked' /\ LinkLinked' /\ NamesLinked'
  BY <1>0, <1>1, <1>2, <1>3 DEF TablesOK, OnlyLinked, LinkLinked, NamesLinked, saved
<1>5. TablesOK'
  BY <1>0, <1>1, <1>2, <1>4 DEF TablesOK, saved
<1>6. MayLand(h, linked')
  BY <1>1, EndsLands
<1> QED BY <1>1, <1>3, <1>5, <1>6, LandStep DEF Flying

LEMMA ListingKeeps ==
  ASSUME IndInv, NEW h \in Handler, UNCHANGED <<scope, lost, now>>, Vouching,
         RecordInboxSighting(h) \/ ReopenDeclined(h) \/ WriteFlag(h)
  PROVE  IndInv'
<1>0. /\ TablesOK /\ req \in [Handler -> RequestType] /\ req[h] \in RequestType
  BY Facts
<1>1. /\ req[h].pc \in {"sight", "reopen", "flag"} /\ UNCHANGED <<consent, saved>>
      /\ Ends(h) \/ Step(h, "state")
  BY DEF RecordInboxSighting, ReopenDeclined, WriteFlag, At
<1>2. MayLand(h, linked)
  BY <1>0, <1>1, EndsLands, MovesOn
<1>3. /\ inbox \in InboxType /\ (inbox.copy # None <=> inbox.status = "accepted")
      /\ (inbox.copy # None => inbox.copy \in linked)
  BY <1>0 DEF TablesOK, NamesLinked
<1>4. /\ inbox' \in InboxType /\ (inbox'.copy # None <=> inbox'.status = "accepted")
      /\ (inbox'.copy # None => inbox'.copy \in linked)
  <2>1. CASE inbox' = inbox
    BY <1>3, <2>1
  <2>2. CASE inbox' = Sighted
    BY <2>2, AbsentTyped
  <2>3. CASE StillDeclined /\ inbox' = [inbox EXCEPT !.status = "pending", !.at = 0]
    BY <1>3, <2>3 DEF StillDeclined, InboxType
  <2> QED BY <2>1, <2>2, <2>3 DEF RecordInboxSighting, ReopenDeclined, WriteFlag
<1> QED BY <1>1, <1>2, <1>4, InboxStep DEF Flying

LEMMA HandlerKeeps ==
  ASSUME IndInv, NEW h \in Handler, CopySteps(h) \/ InboxSteps(h),
         UNCHANGED <<scope, lost, now>>, Vouching
  PROVE  IndInv'
BY QuietActionKeeps, FindKeeps, CreateKeeps, VerifyKeeps, GrantKeeps, RecordLinkKeeps,
   DropKeeps, RecordKeyKeeps, AcceptKeeps, LoserKeeps, DeclineKeeps, ListingKeeps
   DEF CopySteps, InboxSteps, QuietAction

-----------------------------------------------------------------------------
(* The owner, the recipient's own model, the clock and a restart.          *)

LEMMA StandStep ==
  ASSUME IndInv, UNCHANGED <<req, scope, lost>>, TablesOK', CopiesGrow, Vouching,
         Live' \subseteq Live
  PROVE  IndInv'
<1>1. /\ TablesOK /\ req \in [Handler -> RequestType] /\ RequestsHold /\ NoOrphanCopy
      /\ scope \in Scopes
  BY Parts
<1>2. RequestsHold'
  BY <1>1, HoldsKept DEF RequestsHold
<1>3. NoOrphanCopy'
  BY <1>1 DEF NoOrphanCopy, CopiesGrow, InFlight
<1>4. TypeOK' /\ OnlyLinked' /\ LinkLinked' /\ NamesLinked'
  BY <1>1 DEF TablesOK, TypeOK
<1> QED BY <1>2, <1>3, <1>4 DEF IndInv

(* What the owner, the group and the clock change, the copies apart.       *)
LEMMA ConsentStep ==
  ASSUME IndInv, UNCHANGED <<req, scope, lost, saved, inbox>>, Vouching,
         rev' # 0 => rev # 0, rev' \in 0..scope.revs,
         grant' \in [{"user", "group", "all"} -> Intent],
         since' \in 0..scope.time, now' \in 1..scope.time,
         member' \in BOOLEAN, policy' \in BOOLEAN
  PROVE  IndInv'
<1>1. TablesOK
  BY Parts
<1>2. CopiesGrow /\ Live' = Live /\ linked' = linked
  BY <1>1, NamesOnly DEF saved
<1>3. OnlyLinked' /\ LinkLinked' /\ NamesLinked'
  BY <1>1, <1>2 DEF TablesOK, OnlyLinked, LinkLinked, NamesLinked, saved
<1>4. TablesOK'
  BY <1>1, <1>3 DEF TablesOK, saved
<1> QED BY <1>2, <1>4, StandStep

LEMMA DecidingTyped ==
  ASSUME IndInv, NEW a, NEW from \in Intent, NEW to \in Intent, Decide(a, from, to),
         UNCHANGED <<scope, lost, now>>, Vouching
  PROVE  IndInv'
<1>1. TablesOK
  BY Parts
<1>2. scope.time \in Nat
  BY Parts, ShareAssumption DEF Scope
<1>3. /\ UNCHANGED <<rev, member, policy, saved, inbox, req>>
      /\ grant' = [grant EXCEPT ![a] = to]
      /\ since' \in {0, now, since}
  BY DEF Decide
<1>4. grant' \in [{"user", "group", "all"} -> Intent]
  BY <1>1, <1>3 DEF TablesOK
<1>5. since' \in 0..scope.time
  BY <1>1, <1>2, <1>3 DEF TablesOK
<1> QED BY <1>1, <1>3, <1>4, <1>5, ConsentStep DEF TablesOK

LEMMA OwnerKeeps ==
  ASSUME IndInv, OwnerSteps, UNCHANGED <<scope, lost, now>>, Vouching
  PROVE  IndInv'
<1>1. TablesOK
  BY Parts
<1>2. scope.time \in Nat /\ scope.revs \in Nat
  BY Parts, ShareAssumption DEF Scope
<1>3. CASE \E a \in scope.audience :
             \/ GrantSharedTransaction(a) \/ RevokeSharedTransaction(a)
             \/ ExcludeSharedTransaction(a) \/ RemoveSharedExclusion(a)
  <2>1. PICK a : \/ Decide(a, "none", "shared") \/ Decide(a, "shared", "none")
                 \/ Decide(a, "none", "excluded") \/ Decide(a, "excluded", "none")
    BY <1>3 DEF GrantSharedTransaction, RevokeSharedTransaction, ExcludeSharedTransaction,
                RemoveSharedExclusion
  <2>2. "none" \in Intent /\ "shared" \in Intent /\ "excluded" \in Intent
    BY DEF Intent
  <2> QED BY <2>1, <2>2, DecidingTyped
<1>4. CASE ReviseSource
  <2>1. rev # 0 /\ rev' \in 0..scope.revs
    BY <1>2, <1>4 DEF ReviseSource
  <2> QED BY <1>1, <1>4, <2>1, ConsentStep DEF ReviseSource, TablesOK
<1>5. CASE DeleteSource
  <2>1. /\ rev' = 0 /\ grant' = [a \in DOMAIN grant |-> "none"] /\ since' = 0 /\ link' = None
        /\ UNCHANGED <<member, policy, copies, keys, made, linked, inbox, req>>
    BY <1>5 DEF DeleteSource
  <2>2. CopiesGrow /\ Live' = Live
    BY <1>1, <2>1, NamesOnly
  <2>3. grant' \in [{"user", "group", "all"} -> Intent]
    BY <1>1, <2>1 DEF TablesOK, Intent
  <2>4. OnlyLinked' /\ LinkLinked' /\ NamesLinked'
    BY <1>1, <2>1 DEF TablesOK, OnlyLinked, LinkLinked, NamesLinked
  <2>5. TablesOK'
    BY <1>1, <1>2, <2>1, <2>3, <2>4 DEF TablesOK
  <2> QED BY <2>1, <2>2, <2>5, StandStep
<1>6. CASE SetPolicy
  BY <1>1, <1>6, ConsentStep DEF SetPolicy, TablesOK
<1>7. CASE ChangeMembership
  BY <1>1, <1>7, ConsentStep DEF ChangeMembership, TablesOK
<1> QED BY <1>3, <1>4, <1>5, <1>6, <1>7 DEF OwnerSteps

LEMMA RecipientKeeps ==
  ASSUME IndInv, RecipientSteps, UNCHANGED <<scope, lost, now>>, Vouching
  PROVE  IndInv'
<1>1. TablesOK
  BY Parts
<1>2. CASE DeleteCopy
  <2>1. PICK c \in Live : DeleteTransaction(c)
    BY <1>2 DEF DeleteCopy
  <2>2. c \in CopyId \cup {None} /\ UNCHANGED <<consent, inbox, req>>
    BY <1>2 DEF Live, DeleteCopy
  <2>3. TablesOK' /\ CopiesGrow /\ Live' = Live \ {c} /\ linked' = linked
    BY <1>1, <2>1, <2>2, Deleting
  <2> QED BY <2>2, <2>3, StandStep
<1>3. CASE ClearRecipient
  <2>1. /\ copies' = [c \in CopyId |-> 0] /\ link' = None /\ keys' = [k \in Key |-> None]
        /\ inbox' = Absent /\ UNCHANGED <<consent, made, linked, req>>
    BY <1>3 DEF ClearRecipient
  <2>2. Live' = {} /\ copies' \in [CopyId -> Nat] /\ \A c \in CopyId : copies'[c] = 0
    BY <2>1 DEF Live
  <2>3. CopiesGrow
    <3>1. 1..made \subseteq CopyId
      BY <1>1, ShareAssumption DEF TablesOK, CopyId
    <3> QED BY <1>1, <2>1, <2>2, <3>1 DEF TablesOK, CopiesGrow
  <2>4. OnlyLinked' /\ LinkLinked' /\ NamesLinked'
    BY <2>1, <2>2, AbsentTyped DEF OnlyLinked, LinkLinked, NamesLinked
  <2>5. TablesOK'
    BY <1>1, <2>1, <2>2, <2>4, AbsentTyped DEF TablesOK, consent
  <2> QED BY <2>1, <2>2, <2>3, <2>5, StandStep
<1> QED BY <1>2, <1>3 DEF RecipientSteps

LEMMA TickKeeps ==
  ASSUME IndInv, Tick, UNCHANGED scope, Vouching PROVE IndInv'
<1>1. TablesOK
  BY Parts
<1>2. scope.time \in Nat
  BY Parts, ShareAssumption DEF Scope
<1>3. now' \in 1..scope.time
  BY <1>1, <1>2 DEF Tick, TablesOK
<1> QED BY <1>1, <1>3, ConsentStep DEF Tick, TablesOK, consent

(* A restart forgets every request; what was in flight it may leave        *)
(* without provenance.                                                     *)
LEMMA CrashKeeps ==
  ASSUME IndInv, Crash, UNCHANGED scope PROVE IndInv'
<1>1. TablesOK /\ NoOrphanCopy /\ scope \in Scopes
  BY Parts
<1>2. /\ UNCHANGED <<consent, saved, inbox, now>> /\ req' = [h \in Handler |-> Idle]
      /\ lost' = lost \cup InFlight
  BY DEF Crash
<1>3. TablesOK' /\ Live' = Live /\ linked' = linked
  BY <1>1, <1>2, Quiet
<1>4. RequestsHold'
  BY <1>2 DEF RequestsHold, Holds, Flying, Idle
<1>5. NoOrphanCopy'
  BY <1>1, <1>2, <1>3 DEF NoOrphanCopy
<1>6. req' \in [Handler -> RequestType]
  BY <1>2, IdleLands
<1>7. TypeOK' /\ OnlyLinked' /\ LinkLinked' /\ NamesLinked'
  BY <1>1, <1>3, <1>6 DEF TablesOK, TypeOK
<1> QED BY <1>4, <1>5, <1>7 DEF IndInv

LEMMA StandStill ==
  ASSUME IndInv, UNCHANGED vars PROVE IndInv'
<1>1. TablesOK /\ req \in [Handler -> RequestType] /\ RequestsHold /\ NoOrphanCopy
  BY Parts
<1>2. TablesOK' /\ CopiesGrow /\ Live' = Live /\ linked' = linked
  BY <1>1, Quiet DEF vars
<1>3. RequestsHold'
  BY <1>1, <1>2 DEF vars, saved, RequestsHold, Holds
<1>4. NoOrphanCopy'
  BY <1>1, <1>2 DEF NoOrphanCopy, InFlight, vars
<1>5. TypeOK' /\ OnlyLinked' /\ LinkLinked' /\ NamesLinked'
  BY <1>1, <1>2, Parts DEF TablesOK, TypeOK, vars
<1> QED BY <1>3, <1>4, <1>5 DEF IndInv

-----------------------------------------------------------------------------
(* The theorems.                                                           *)

LEMMA Initially == Init => IndInv
<1> SUFFICES ASSUME Init PROVE IndInv
  OBVIOUS
<1>1. scope \in Scopes /\ scope.revs \in Nat \ {0} /\ scope.time \in Nat \ {0}
  BY ShareAssumption DEF Init, Scope
<1>2. copies \in [CopyId -> Nat] /\ (\A c \in CopyId : copies[c] = 0) /\ Live = {}
  BY DEF Init, Live
<1>3. req \in [Handler -> RequestType] /\ RequestsHold
  BY IdleLands DEF Init, RequestsHold, Holds, Flying, Idle
<1>4. OnlyLinked /\ LinkLinked /\ NamesLinked /\ NoOrphanCopy
  BY <1>2, AbsentTyped DEF Init, OnlyLinked, LinkLinked, NamesLinked, NoOrphanCopy
<1>5. grant \in [{"user", "group", "all"} -> Intent] /\ keys \in [Key -> CopyId \cup {None}]
  BY DEF Init, Intent
<1>6. TypeOK
  <2>1. /\ scope \in Scopes /\ rev \in 0..scope.revs /\ since \in 0..scope.time
        /\ now \in 1..scope.time /\ member \in BOOLEAN /\ policy \in BOOLEAN
    <3>1. rev = 1 /\ since = 0 /\ now = 1 /\ member = TRUE /\ policy = FALSE
      BY DEF Init
    <3>2. rev \in 0..scope.revs /\ since \in 0..scope.time /\ now \in 1..scope.time
      BY <1>1, <3>1
    <3>3. member \in BOOLEAN /\ policy \in BOOLEAN
      BY <3>1
    <3> QED BY <1>1, <3>2, <3>3
  <2>2. made \in 0..MaxCopies /\ linked \subseteq 1..made /\ link \in CopyId \cup {None}
    BY ShareAssumption DEF Init
  <2>3. inbox \in InboxType /\ (inbox.copy # None <=> inbox.status = "accepted")
    BY AbsentTyped DEF Init
  <2> QED BY <1>2, <1>3, <1>5, <2>1, <2>2, <2>3 DEF TypeOK
<1> QED BY <1>3, <1>4, <1>6 DEF IndInv

LEMMA Inductive == IndInv /\ [Next]_vars => IndInv'
<1> SUFFICES ASSUME IndInv, [Next]_vars PROVE IndInv'
  OBVIOUS
<1>1. CASE Next
  <2>1. UNCHANGED scope /\ Vouching
    BY <1>1 DEF Next, Vouching
  <2>2. CASE Tick
    BY <2>1, <2>2, TickKeeps
  <2>3. CASE Crash
    BY <2>1, <2>3, CrashKeeps
  <2>4. CASE \E h \in Handler : StoreError(h)
    BY <2>1, <2>4, ErrorKeeps
  <2>5. CASE /\ (\E h \in Handler : CopySteps(h) \/ InboxSteps(h)) \/ OwnerSteps \/ RecipientSteps
             /\ UNCHANGED <<now, crashes, errors, lost>>
    BY <2>1, <2>5, HandlerKeeps, OwnerKeeps, RecipientKeeps
  <2> QED BY <1>1, <2>2, <2>3, <2>4, <2>5 DEF Next
<1>2. CASE UNCHANGED vars
  BY <1>2, StandStill
<1> QED BY <1>1, <1>2

LEMMA AlwaysIndInv == Spec => []IndInv
BY Initially, Inductive, PTL DEF Spec

(* Every request, row and copy keeps the shape its handlers rely on, and   *)
(* only an accepted inbox row names a copy.                                *)
THEOREM TypeCorrect == Spec => []TypeOK
<1>1. IndInv => TypeOK
  BY DEF IndInv
<1> QED BY <1>1, AlwaysIndInv, PTL

LEMMA OneCopy == IndInv => OneCopyAccounted
<1> SUFFICES ASSUME IndInv PROVE OneCopyAccounted
  OBVIOUS
<1>1. NoOrphanCopy /\ RecordedCopyLinked
  BY DEF IndInv, NamesLinked, RecordedCopyLinked, RequestsHold, Holds, At
<1>2. OneCopyWhileShared
  <2> SUFFICES ASSUME rev # 0 PROVE Cardinality(Live \cap linked) <= 1
    BY DEF OneCopyWhileShared
  <2>1. Live \cap linked \subseteq {link}
    BY DEF IndInv, OnlyLinked
  <2>2. IsFiniteSet({link}) /\ Cardinality({link}) = 1
    BY FS_Singleton
  <2>3. Cardinality(Live \cap linked) <= Cardinality({link})
    BY <2>1, <2>2, FS_Subset
  <2> QED BY <2>2, <2>3
<1> QED BY <1>1, <1>2 DEF OneCopyAccounted, CopiesAccounted

(* CopySharedTransaction and AcceptInboxShare, however they race with      *)
(* revocations, refusals, a deleted source, restarts and failing calls of  *)
(* the store: while the source stands the recipient has one linked copy at *)
(* most, what a key, an inbox row or an accept in progress names has its   *)
(* provenance, and a copy without it is in flight, or was left by a        *)
(* restart, by CreateTransaction failing after its commit or by a failed   *)
(* cleanup.                                                                *)
THEOREM OneCopyAlways == Spec => []OneCopyAccounted
BY OneCopy, AlwaysIndInv, PTL

LEMMA OnlyLinkWrites ==
  ASSUME [Next]_vars, linked' # linked PROVE \E h \in Handler : RecordLink(h)
<1>1. ~UNCHANGED vars /\ ~Tick /\ ~Crash
  BY DEF vars, saved, Tick, Crash
<1>2. ~OwnerSteps
  BY DEF OwnerSteps, GrantSharedTransaction, RevokeSharedTransaction, ExcludeSharedTransaction,
         RemoveSharedExclusion, Decide, ReviseSource, DeleteSource, SetPolicy, ChangeMembership,
         saved
<1>3. ~RecipientSteps
  BY DEF RecipientSteps, DeleteCopy, ClearRecipient, DeleteTransaction
<1>4. ~\E h \in Handler : StoreError(h)
  BY DEF StoreError, CallFails, RecordFails, CreateUnmarked, CreateTransaction, DropFails,
         DeleteTransaction, saved
<1>5. PICK h \in Handler : CopySteps(h) \/ InboxSteps(h)
  BY <1>1, <1>2, <1>3, <1>4 DEF Next
<1>6. ~QuietAction(h)
  BY QuietUnchanged DEF saved
<1>7. ~FindSharingCopy(h) /\ ~CreateCopy(h) /\ ~VerifySharingSourceCurrent(h)
      /\ ~SharingLinkGrant(h) /\ ~RecordKey(h)
  BY DEF FindSharingCopy, CreateCopy, CreateTransaction, VerifySharingSourceCurrent,
         SharingLinkGrant, RecordKey, saved
<1>8. ~DropCopy(h) /\ ~RemoveLosingCopy(h)
  BY DEF DropCopy, RemoveLosingCopy, DeleteTransaction, saved
<1>9. ~RecordAccept(h) /\ ~RecordDecline(h) /\ ~RecordInboxSighting(h) /\ ~ReopenDeclined(h)
      /\ ~WriteFlag(h)
  BY DEF RecordAccept, RecordDecline, RecordInboxSighting, ReopenDeclined, WriteFlag, saved
<1> QED BY <1>5, <1>6, <1>7, <1>8, <1>9 DEF CopySteps, InboxSteps, QuietAction

LEMMA VouchedStep ==
  ASSUME IndInv, [Next]_vars, NEW c \in (linked' \ linked) \cap Live PROVE c \in vouched
<1>1. PICK h \in Handler : RecordLink(h)
  BY OnlyLinkWrites
<1>2. linked' \subseteq linked \cup {req[h].copy} /\ req[h].pc = "link"
  BY <1>1 DEF RecordLink, At
<1> QED BY <1>2, Facts DEF Holds

LEMMA AcceptedStep ==
  ASSUME [Next]_vars, inbox.status = "accepted", ~ClearRecipient
  PROVE  inbox'.status = "accepted" /\ inbox'.copy = inbox.copy
<1>1. CASE UNCHANGED vars \/ Tick \/ Crash
  BY <1>1 DEF vars, Tick, Crash
<1>2. CASE OwnerSteps
  BY <1>2 DEF OwnerSteps, GrantSharedTransaction, RevokeSharedTransaction, RemoveSharedExclusion,
              ExcludeSharedTransaction, Decide, ReviseSource, DeleteSource, SetPolicy,
              ChangeMembership
<1>3. CASE RecipientSteps
  BY <1>3 DEF RecipientSteps, DeleteCopy
<1>4. CASE \E h \in Handler : CopySteps(h) \/ InboxSteps(h)
  <2> PICK h \in Handler : CopySteps(h) \/ InboxSteps(h)
    BY <1>4
  <2>1. CASE QuietAction(h)
    BY <2>1, QuietUnchanged
  <2>2. CASE \/ FindSharingCopy(h) \/ CreateCopy(h) \/ VerifySharingSourceCurrent(h)
             \/ SharingLinkGrant(h) \/ RecordLink(h) \/ RecordKey(h)
    BY <2>2 DEF FindSharingCopy, CreateCopy, CreateTransaction, VerifySharingSourceCurrent,
                SharingLinkGrant, RecordLink, RecordKey
  <2>3. CASE DropCopy(h) \/ RemoveLosingCopy(h)
    BY <2>3 DEF DropCopy, RemoveLosingCopy
  <2>4. CASE RecordAccept(h)
    BY <2>4 DEF RecordAccept, Lost
  <2>5. CASE RecordDecline(h)
    BY <2>5 DEF RecordDecline, RefusalStands
  <2>6. CASE RecordInboxSighting(h) \/ ReopenDeclined(h) \/ WriteFlag(h)
    BY <2>6 DEF RecordInboxSighting, ReopenDeclined, WriteFlag, StillDeclined
  <2> QED BY <2>1, <2>2, <2>3, <2>4, <2>5, <2>6 DEF CopySteps, InboxSteps, QuietAction
<1>5. CASE \E h \in Handler : StoreError(h)
  BY <1>5 DEF StoreError, CallFails, RecordFails, CreateUnmarked, CreateTransaction, DropFails
<1> QED BY <1>1, <1>2, <1>3, <1>4, <1>5 DEF Next

(* VerifySharingSourceCurrent and RecordLink: no copy is given its         *)
(* provenance that was not, after it was written, one the owner shared and *)
(* of the current revision.  RecordAccept, RecordDecline and               *)
(* reopenDeclined: an acceptance stands, with its copy, until the          *)
(* recipient clears the model.                                             *)
THEOREM DecisionsAlwaysHold == Spec => DecisionsHold
<1>1. IndInv /\ [Next]_vars => [\A c \in (linked' \ linked) \cap Live : c \in vouched]_vars
  BY VouchedStep
<1>2. [Next]_vars => [inbox.status = "accepted" =>
                        \/ inbox'.status = "accepted" /\ inbox'.copy = inbox.copy
                        \/ ClearRecipient]_vars
  BY AcceptedStep
<1> QED BY <1>1, <1>2, AlwaysIndInv, PTL DEF Spec, DecisionsHold, CopyVouched, AcceptedStays
=============================================================================
