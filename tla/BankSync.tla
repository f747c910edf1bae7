------------------------------- MODULE BankSync -------------------------------
(***************************************************************************)
(* Bank sync of one user: the runner that guards the Bridge, the ingest    *)
(* orchestrator that fetches, plans and applies in separate steps, the     *)
(* reconciliation of a fetched feed with the stored bank rows, the         *)
(* transaction that applies the plan, and the owner who edits the same     *)
(* rows at any moment in between.                                          *)
(*                                                                         *)
(* The charges of the model are one merchant, one account, one direction   *)
(* and one settlement window: charges that differ in any of these never    *)
(* meet in a join.  A row carries the values of one charge, as authorized  *)
(* or as posted; amounts are integers (cents).                             *)
(***************************************************************************)
EXTENDS Integers, FiniteSets

CONSTANTS
  Charge,       \* purchases the bank may report
  Key,          \* bank transaction ids
  authKey,      \* charge -> id of its authorization
  postKey,      \* charge -> id of its posted charge (may be the same)
  authAmount,   \* charge -> authorized amount
  postAmount,   \* charge -> posted amount
  AutoConvert,  \* charges whose merchant profile may convert by itself
  Tolerance,    \* amount band of the merchant profile
  EnabledInputs,\* the enabled flags an owner's edit may carry
  MaxAttempts,  \* fetch attempts of one run
  Generations,  \* rows one bank id may have been inserted under
  None

ASSUME BankAssumption ==
  /\ authKey \in [Charge -> Key] /\ postKey \in [Charge -> Key]
  /\ authAmount \in [Charge -> Nat] /\ postAmount \in [Charge -> Nat]
  /\ AutoConvert \subseteq Charge
  /\ Tolerance \in Nat
  /\ EnabledInputs \subseteq BOOLEAN
  /\ MaxAttempts \in Nat \ {0}
  /\ Generations \in Nat \ {0}

(* The bank never gives two charges the same id.                           *)
ASSUME KeysDistinct ==
  \A c, d \in Charge :
    c # d => {authKey[c], postKey[c]} \cap {authKey[d], postKey[d]} = {}

(* The scheduler calls Sync, the HTTP handler calls Trigger.               *)
Caller == {"scheduler", "owner"}

(* A row inserted for bank id k is named after k; the name stays when the  *)
(* row is converted to another id, as the UUID of the code does.           *)
RowId == Key \X (1..Generations)

Value == [charge : Charge, posted : BOOLEAN]

Row == [val : Value, pending : BOOLEAN, void : BOOLEAN,
        enabled : BOOLEAN, claim : BOOLEAN]

ASSUME NoneAssumption == None \notin RowId \cup Row

VARIABLES
  bank,        \* environment: where each charge is at the bank
  rows,        \* transactions of source bank_sync, by id
  keyRow,      \* transaction_sync_keys: bank id -> row
  suppressed,  \* suppressed_sync_keys
  inFlight,    \* Runner.inFlight
  blackout,    \* now is before Runner.limitedUntil
  recent,      \* the last successful Trigger is within the interval
  flight       \* what each caller is doing

table  == <<rows, keyRow, suppressed>>
runner == <<inFlight, blackout, recent>>
vars   == <<bank, rows, keyRow, suppressed, inFlight, blackout, recent, flight>>

-----------------------------------------------------------------------------
(* The bank.  A charge is authorized, posts or lapses, and later leaves    *)
(* the lookback window; a lapsed authorization may still post.             *)

BankMove(from, to) ==
  <<from, to>> \in {<<"new", "hold">>, <<"new", "posted">>, <<"hold", "lapsed">>,
                    <<"hold", "posted">>, <<"lapsed", "posted">>,
                    <<"posted", "aged">>}

BankState == {"new", "hold", "lapsed", "posted", "aged"}

BankReports(c) ==
  /\ \E to \in BankState : BankMove(bank[c], to) /\ bank' = [bank EXCEPT ![c] = to]
  /\ UNCHANGED <<table, runner, flight>>

(* Translate: what one fetch yields.  An account the Bridge excludes, or   *)
(* whose link is stale, contributes nothing and is not covered.            *)
Translate(covered) ==
  [covered |-> covered,
   pending |-> {c \in Charge : covered /\ bank[c] = "hold"},
   settled |-> {c \in Charge : covered /\ bank[c] = "posted"}]

-----------------------------------------------------------------------------
(* The join of a stored row with a posted charge.                          *)

Authorized(c) == [charge |-> c, posted |-> FALSE]
Posted(c)     == [charge |-> c, posted |-> TRUE]

Amount(v) == IF v.posted THEN postAmount[v.charge] ELSE authAmount[v.charge]

(* Same merchant, both amounts positive, equal cents.                      *)
SettleMatch(v, c) ==
  Amount(v) > 0 /\ postAmount[c] > 0 /\ Amount(v) = postAmount[c]

(* The merchant profile of the stored row decides the band.                *)
SettleMatchTolerant(v, c) ==
  /\ Amount(v) > 0 /\ postAmount[c] > 0
  /\ postAmount[c] \in (Amount(v) - Tolerance)..(Amount(v) + Tolerance)

Stored == {i \in RowId : rows[i] # None}
KeysOf(i) == {k \in Key : keyRow[k] = i}
HasKey == {i \in Stored : KeysOf(i) # {}}
Settled(i) == ~rows[i].pending /\ ~rows[i].void

-----------------------------------------------------------------------------
(* Reconcile: the directives for one feed, against the rows as they are    *)
(* when LoadBankTransactions reads them.                                   *)

FeedKeys(f) == {authKey[c] : c \in f.pending} \cup {postKey[c] : c \in f.settled}

RecordedSettled(c) == keyRow[postKey[c]] # None /\ Settled(keyRow[postKey[c]])

(* A claimed occurrence never suppresses.                                  *)
DuplicateSuppressed(c) ==
  \E i \in HasKey : Settled(i) /\ ~rows[i].claim /\ SettleMatch(rows[i].val, c)

(* Vanished holds, and vanished rows the owner recorded.                   *)
ConvertTargets(f) ==
  {i \in HasKey : /\ f.covered
                  /\ KeysOf(i) \cap FeedKeys(f) = {}
                  /\ rows[i].pending \/ (rows[i].claim /\ ~rows[i].void)}

(* Posted charges of a covered account not yet imported.                   *)
Candidates(f) == {c \in f.settled : ~RecordedSettled(c) /\ ~DuplicateSuppressed(c)}

Matches(f) ==
  {m \in ConvertTargets(f) \X {c \in Candidates(f) : keyRow[postKey[c]] = None} :
     /\ rows[m[1]].val.charge \in AutoConvert
     /\ SettleMatchTolerant(rows[m[1]].val, m[2])}

(* Only a pair that is unique both ways converts.                          *)
Conversions(f) ==
  {m \in Matches(f) : \A n \in Matches(f) : n[1] = m[1] \/ n[2] = m[2] => n = m}

Voids(f) ==
  {i \in HasKey : /\ f.covered /\ rows[i].pending
                  /\ KeysOf(i) \cap {authKey[c] : c \in f.pending} = {}
                  /\ i \notin {m[1] : m \in Conversions(f)}
                  /\ KeysOf(i) \cap {postKey[c] : c \in Candidates(f)} = {}}

Reconcile(f) ==
  [seeds    |-> f.pending,
   converts |-> Conversions(f),
   voids    |-> Voids(f),
   posts    |-> Candidates(f) \ {m[2] : m \in Conversions(f)}]

NoFeed == [covered |-> FALSE, pending |-> {}, settled |-> {}]
NoPlan == [seeds |-> {}, converts |-> {}, voids |-> {}, posts |-> {}]

-----------------------------------------------------------------------------
(* ApplySync: one transaction over the rows as they are now.               *)

(* Mutant: every refresh enables the row.                                  *)
WriteEnabled(r, v) ==
  [r EXCEPT !.val = v, !.void = FALSE,
            !.pending = ~v.posted /\ ~r.claim, !.enabled = TRUE]

(* writeBankValues: the feed's values land on the row; a row the owner     *)
(* recorded as an occurrence stays settled and enabled.                    *)
WriteBankValues(r, v) ==
  [r EXCEPT !.val = v, !.void = FALSE,
            !.pending = ~v.posted /\ ~r.claim, !.enabled = v.posted \/ r.claim]

InsertedRow(v) == [val |-> v, pending |-> ~v.posted, void |-> FALSE,
                   enabled |-> v.posted, claim |-> FALSE]

(* Mutant: the do-not-import list is not consulted.                        *)
NeverSuppressed(u) == FALSE

(* The do-not-import list filters upserts, and only upserts.               *)
SuppressedUpsert(u) == u.key \in suppressed

Upserts(p) ==
  {u \in {[key |-> authKey[c], val |-> Authorized(c)] : c \in p.seeds}
           \cup {[key |-> postKey[c], val |-> Posted(c)] : c \in p.posts} :
     ~SuppressedUpsert(u)}

FreeNames(k) == {n \in 1..Generations : rows[<<k, n>>] = None}
NewRowId(k) == <<k, CHOOSE n \in FreeNames(k) : \A o \in FreeNames(k) : n <= o>>

UpsertTarget(u) == IF keyRow[u.key] = None THEN NewRowId(u.key) ELSE keyRow[u.key]

(* A row removed after the snapshot was read takes no conversion.          *)
LiveConverts(p) == {m \in p.converts : rows[m[1]] # None}

ConvertedRow(i, p) ==
  WriteBankValues(rows[i], Posted((CHOOSE m \in LiveConverts(p) : m[1] = i)[2]))

UpsertedRow(i, p) ==
  LET u == CHOOSE w \in Upserts(p) : UpsertTarget(w) = i
  IN  IF rows[i] = None THEN InsertedRow(u.val) ELSE WriteBankValues(rows[i], u.val)

(* Mutant: the void is written although the hold was settled meanwhile.    *)
VoidedAnyway(i) ==
  IF rows[i] # None
  THEN [rows[i] EXCEPT !.pending = FALSE, !.void = TRUE, !.enabled = FALSE]
  ELSE rows[i]

(* A hold the owner settled in the meantime is not voided.                 *)
VoidedRow(i) ==
  IF rows[i] # None /\ rows[i].pending
  THEN [rows[i] EXCEPT !.pending = FALSE, !.void = TRUE, !.enabled = FALSE]
  ELSE rows[i]

ApplyRow(i, p) ==
  IF i \in {UpsertTarget(u) : u \in Upserts(p)} THEN UpsertedRow(i, p)
  ELSE IF i \in {m[1] : m \in LiveConverts(p)} THEN ConvertedRow(i, p)
  ELSE IF i \in p.voids THEN VoidedRow(i) ELSE rows[i]

(* Mutant: a conversion drops the old ids and records none.                *)
ApplyKeyForgets(k, p) ==
  IF k \in {u.key : u \in Upserts(p)}
  THEN UpsertTarget(CHOOSE u \in Upserts(p) : u.key = k)
  ELSE IF keyRow[k] \in {m[1] : m \in LiveConverts(p)} THEN None ELSE keyRow[k]

(* A conversion drops the row's old ids and records the posted one.        *)
ApplyKey(k, p) ==
  IF k \in {postKey[m[2]] : m \in LiveConverts(p)}
  THEN (CHOOSE m \in LiveConverts(p) : postKey[m[2]] = k)[1]
  ELSE IF k \in {u.key : u \in Upserts(p)}
  THEN UpsertTarget(CHOOSE u \in Upserts(p) : u.key = k)
  ELSE IF keyRow[k] \in {m[1] : m \in LiveConverts(p)} THEN None ELSE keyRow[k]

ApplyBankDirectives(p) ==
  /\ \A u \in Upserts(p) : keyRow[u.key] = None => FreeNames(u.key) # {}
  /\ rows' = [i \in RowId |-> ApplyRow(i, p)]
  /\ keyRow' = [k \in Key |-> ApplyKey(k, p)]
  /\ UNCHANGED suppressed

-----------------------------------------------------------------------------
(* The runner and the ingest orchestrator, one step per call that lets     *)
(* another actor in.                                                       *)

Idle == [phase |-> "idle", attempt |-> 0, feed |-> NoFeed, plan |-> NoPlan,
         result |-> "none"]

Moves(c, f) == flight' = [flight EXCEPT ![c] = f]

(* Mutant: the in-flight test is forgotten.                                *)
AdmittedAnyTime(c) == ~blackout /\ (c = "owner" => ~recent)

(* Sync refuses while a run is in flight or the blackout lasts; Trigger    *)
(* refuses within the interval of its last success too.  A refusal changes *)
(* nothing.                                                                *)
Admitted(c) == ~inFlight /\ ~blackout /\ (c = "owner" => ~recent)

Begin(c) ==
  /\ flight[c].phase = "idle"
  /\ Admitted(c)
  /\ inFlight' = TRUE
  /\ Moves(c, [Idle EXCEPT !.phase = "fetch", !.attempt = 1])
  /\ UNCHANGED <<bank, table, blackout, recent>>

(* fetchWithRetry: the Bridge answers, fails for good (a missing           *)
(* credential, a 4xx, a cancelled caller), reports its quota exhausted, or *)
(* fails in a way worth another attempt while the budget lasts.            *)
FetchAnswered(c) ==
  /\ flight[c].phase = "fetch"
  /\ \E covered \in BOOLEAN :
       Moves(c, [Idle EXCEPT !.phase = "plan", !.feed = Translate(covered)])
  /\ UNCHANGED <<bank, table, runner>>

FetchFailed(c) ==
  /\ flight[c].phase = "fetch"
  /\ \E why \in {"error", "limited"} :
       Moves(c, [Idle EXCEPT !.phase = "finish", !.result = why])
  /\ UNCHANGED <<bank, table, runner>>

FetchRetried(c) ==
  /\ flight[c].phase = "fetch"
  /\ flight[c].attempt < MaxAttempts
  /\ Moves(c, [flight[c] EXCEPT !.attempt = @ + 1])
  /\ UNCHANGED <<bank, table, runner>>

(* Adapter.Translate: the rows are read and the plan is made.              *)
Plan(c) ==
  /\ flight[c].phase = "plan"
  /\ Moves(c, [flight[c] EXCEPT !.phase = "apply", !.plan = Reconcile(flight[c].feed)])
  /\ UNCHANGED <<bank, table, runner>>

(* ApplySync, then SetLastSyncTime: the second may fail after the first    *)
(* committed, and the run then counts as failed.                           *)
Apply(c) ==
  /\ flight[c].phase = "apply"
  /\ ApplyBankDirectives(flight[c].plan)
  /\ \E result \in {"ok", "error"} :
       Moves(c, [Idle EXCEPT !.phase = "finish", !.result = result])
  /\ UNCHANGED <<bank, runner>>

(* Any call of the store before the commit may fail.                       *)
StoreFailed(c) ==
  /\ flight[c].phase \in {"plan", "apply"}
  /\ Moves(c, [Idle EXCEPT !.phase = "finish", !.result = "error"])
  /\ UNCHANGED <<bank, table, runner>>

(* Mutant: the guard is released on success only.                          *)
FinishOnSuccess(c) ==
  /\ flight[c].phase = "finish"
  /\ inFlight' = (flight[c].result # "ok")
  /\ blackout' = (blackout \/ flight[c].result = "limited")
  /\ recent' = (recent \/ (c = "owner" /\ flight[c].result = "ok"))
  /\ Moves(c, Idle)
  /\ UNCHANGED <<bank, table>>

(* Back under the lock: only a successful Trigger stamps the interval.     *)
Finish(c) ==
  /\ flight[c].phase = "finish"
  /\ inFlight' = FALSE
  /\ blackout' = (blackout \/ flight[c].result = "limited")
  /\ recent' = (recent \/ (c = "owner" /\ flight[c].result = "ok"))
  /\ Moves(c, Idle)
  /\ UNCHANGED <<bank, table>>

(* Time passes: the blackout or the interval ends.                         *)
Elapse ==
  /\ \/ blackout /\ blackout' = FALSE /\ UNCHANGED recent
     \/ recent /\ recent' = FALSE /\ UNCHANGED blackout
  /\ UNCHANGED <<bank, table, inFlight, flight>>

(* The process dies and starts again: the runner forgets, the store does   *)
(* not.                                                                    *)
Restart ==
  /\ inFlight' = FALSE /\ blackout' = FALSE /\ recent' = FALSE
  /\ flight' = [c \in Caller |-> Idle]
  /\ UNCHANGED <<bank, table>>

-----------------------------------------------------------------------------
(* The owner's writes to bank rows.                                        *)

(* SetTransactionClaims: claiming a hold settles it; a void row keeps its  *)
(* flag.                                                                   *)
SetTransactionClaim(i) ==
  /\ rows[i] # None
  /\ LET claiming == rows[i].pending /\ ~rows[i].claim
     IN rows' = [rows EXCEPT ![i].claim = TRUE,
                             ![i].pending = @ /\ ~claiming,
                             ![i].enabled = @ \/ claiming]
  /\ UNCHANGED <<bank, keyRow, suppressed, runner, flight>>

(* UpdateTransaction: pending and void are clear-only; clearing either, or *)
(* claiming a hold, settles and enables the row.  claim = FALSE drops the  *)
(* claim.                                                                  *)
UpdateTransaction(i, pending, void, enabled, claim) ==
  /\ rows[i] # None
  /\ LET r == rows[i]
         claiming == r.pending /\ claim /\ ~r.claim
         settles == claiming \/ (r.pending /\ ~pending) \/ (r.void /\ ~void)
     IN rows' = [rows EXCEPT
                   ![i].pending = r.pending /\ pending /\ ~settles,
                   ![i].void    = r.void /\ void /\ ~settles,
                   ![i].enabled = enabled \/ settles,
                   ![i].claim   = claim]
  /\ UNCHANGED <<bank, keyRow, suppressed, runner, flight>>

(* DeleteTransaction: the bank ids of a row that is not void go onto the   *)
(* do-not-import list before they leave with the row.                      *)
DeleteTransaction(i) ==
  /\ rows[i] # None
  /\ suppressed' = IF rows[i].void THEN suppressed ELSE suppressed \cup KeysOf(i)
  /\ rows' = [rows EXCEPT ![i] = None]
  /\ keyRow' = [k \in Key |-> IF keyRow[k] = i THEN None ELSE keyRow[k]]
  /\ UNCHANGED <<bank, runner, flight>>

-----------------------------------------------------------------------------
Init ==
  /\ bank = [c \in Charge |-> "new"]
  /\ rows = [i \in RowId |-> None]
  /\ keyRow = [k \in Key |-> None]
  /\ suppressed = {}
  /\ inFlight = FALSE /\ blackout = FALSE /\ recent = FALSE
  /\ flight = [c \in Caller |-> Idle]

Run(c) ==
  \/ FetchAnswered(c) \/ FetchFailed(c) \/ FetchRetried(c)
  \/ Plan(c) \/ Apply(c) \/ StoreFailed(c) \/ Finish(c)

OwnerStep ==
  \E i \in RowId :
    \/ SetTransactionClaim(i)
    \/ \E pending, void, claim \in BOOLEAN, enabled \in EnabledInputs :
         UpdateTransaction(i, pending, void, enabled, claim)
    \/ DeleteTransaction(i)

Next ==
  \/ \E c \in Charge : BankReports(c)
  \/ \E c \in Caller : Begin(c) \/ Run(c)
  \/ Elapse \/ Restart
  \/ OwnerStep

(* A run in flight keeps going: every call it makes returns, the fetch has *)
(* a budget, and nothing else is assumed of the Bridge or the owner.       *)
Spec == Init /\ [][Next]_vars /\ \A c \in Caller : WF_vars(Run(c))

-----------------------------------------------------------------------------
(* Properties.                                                             *)

FeedType == [covered : BOOLEAN, pending : SUBSET Charge, settled : SUBSET Charge]

PlanType == [seeds : SUBSET Charge, converts : SUBSET (RowId \X Charge),
             voids : SUBSET RowId, posts : SUBSET Charge]

FlightType == [phase : {"idle", "fetch", "plan", "apply", "finish"},
               attempt : 0..MaxAttempts, feed : FeedType, plan : PlanType,
               result : {"none", "ok", "error", "limited"}]

(* The tables and the runner hold what they should, and a bank id points   *)
(* only at a stored row (transaction_sync_keys cascades with its row).     *)
TypeOK ==
  /\ bank \in [Charge -> BankState]
  /\ rows \in [RowId -> Row \cup {None}]
  /\ keyRow \in [Key -> RowId \cup {None}]
  /\ \A k \in Key : keyRow[k] # None => rows[keyRow[k]] # None
  /\ suppressed \subseteq Key
  /\ inFlight \in BOOLEAN /\ blackout \in BOOLEAN /\ recent \in BOOLEAN
  /\ flight \in [Caller -> FlightType]

(* A scheduled run and a manual trigger never talk to the Bridge or write  *)
(* the store at the same time, although the guard is left before the fetch *)
(* and taken again after the apply, and no run fetches during a blackout.  *)
BridgeGuarded ==
  \A c \in Caller : flight[c].phase # "idle" =>
    /\ inFlight /\ ~blackout
    /\ \A d \in Caller : flight[d].phase # "idle" => d = c

(* A posted charge is in the ledger at most once, whichever of upsert and  *)
(* conversion brought it in and whatever the owner did meanwhile: two rows *)
(* never carry the posted values of one charge.                            *)
PostedOnce ==
  \A i, j \in Stored :
    rows[i].val.posted /\ rows[i].val = rows[j].val => i = j

(* Sync lets money count only when it has posted: what an applied plan     *)
(* leaves enabled was enabled before, carries posted values, or is the     *)
(* owner's recorded occurrence.                                            *)
SyncCountsOnlyPosted ==
  [][(\E c \in Caller : Apply(c)) =>
       \A i \in RowId : rows'[i] # None /\ rows'[i].enabled =>
         \/ rows'[i] = rows[i]
         \/ rows'[i].val.posted
         \/ rows'[i].claim]_vars

(* A charge the owner removed never comes back as a new row, even when the *)
(* removal falls between the plan and its application.                     *)
RemovedNotReinserted ==
  [][\A k \in suppressed :
       keyRow[k] = None /\ keyRow'[k] # None => rows[keyRow'[k]] # None]_vars

(* Sync respects what it may not decide: whether money has moved, and what *)
(* the owner removed.                                                      *)
SyncKeepsToTheFeed == SyncCountsOnlyPosted /\ RemovedNotReinserted

(* The detailed sync keeps the lifecycle promised to the owner: no sync    *)
(* demotes a recorded occurrence, drops a row or a claim, and no owner     *)
(* write makes a hold or a void, under every interleaving.                 *)
StatusOf(r) == IF r = None THEN "none"
               ELSE IF r.pending THEN "hold" ELSE IF r.void THEN "void" ELSE "settled"

Lifecycle == INSTANCE HoldLifecycle WITH
  status  <- [i \in RowId |-> StatusOf(rows[i])],
  claimed <- {i \in Stored : rows[i].claim}

LifecycleSpec == Lifecycle!LifeSpec

(* The single-flight guard is always released: no failure, retry or lost   *)
(* answer leaves the runner refusing every later sync.                     *)
GuardReleased == inFlight ~> ~inFlight

(* The single-flight guard as a whole: exclusive while held, and never     *)
(* held for ever.                                                          *)
SingleFlight == []BridgeGuarded /\ GuardReleased

(* The comment on writeBankValues: for a claimed row "the feed still       *)
(* delivers its values (same-key settles and converts land here)".  When a *)
(* plan made from a feed with the posted charge is applied, a claimed row  *)
(* with the values of its authorization, under the same bank id, takes the *)
(* posted values.                                                          *)
SameIdSettles ==
  [][\A c \in Caller : Apply(c) =>
       \A h \in flight[c].feed.settled :
         LET i == keyRow[postKey[h]]
         IN  i # None /\ rows[i].claim /\ rows[i].val = Authorized(h)
               => rows'[i].val = Posted(h)]_vars
=============================================================================
