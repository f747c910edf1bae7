----------------------------- MODULE ModelRows -----------------------------
(***************************************************************************)
(* The store's writes of model rows: backend/internal/store/adapters/      *)
(* sqlite rows.go, transaction_rows.go, schedule_actions.go,               *)
(* planned_purchases.go, account_display.go, account_supersede*.go and the *)
(* marks of projection_dirty.go.  A call is one SQL transaction on the     *)
(* rows of one user and, after its commit, a mark on the projection.       *)
(*                                                                         *)
(* Rows are those of Kernel; a transaction also has source, pending and    *)
(* void, an account its kind, and the model                                *)
(*   listed <<account ids>>                     the order accounts show in *)
(*   loans  id -> [interest, charge, payment]   principal account to its   *)
(*                                              second account and rules   *)
(*   evals  <<[id, accounts]>>                  evaluations, the accounts  *)
(*                                              their settings name        *)
(*   links  {account id}                        accounts of a bank feed    *)
(***************************************************************************)
EXTENDS ModelValidation

-----------------------------------------------------------------------------
(* Marks: the earliest instant a write affects, FromStart for the whole    *)
(* projection.                                                             *)

NoMark == 0
FromStart == 1

markDirty(at) == IF at <= 0 THEN FromStart ELSE at

(* Mutant: the mark forgets that a charge is executed before it posts. *)
dirtyTransactionPosted(t) == t.posted

dirtyTransaction(t) ==
  IF t.posted <= 0 THEN t.at ELSE IF t.at <= 0 \/ t.at >= t.posted THEN t.posted ELSE t.at

(* What a call leaves: the new model and its mark, or nothing and why.     *)
Done(m, mark) == [error |-> "", model |-> m, mark |-> mark]
Failed(why) == [error |-> why, model |-> <<>>, mark |-> NoMark]

(* The commit of a transaction: foreign keys are checked last, and the     *)
(* destinations of a row are not among them.                               *)
References(m) ==
  /\ \A i \in DOMAIN m.txs : /\ m.txs[i].src \in DOMAIN m.accounts \cup {NoAccount}
                             /\ HasClaim(m.txs[i]) => m.txs[i].claim.rule \in IdsOf(m.rules)
  /\ \A i \in DOMAIN m.rules : m.rules[i].src \in DOMAIN m.accounts \cup {NoAccount}
  /\ \A i \in DOMAIN m.checks : m.checks[i].account \in DOMAIN m.accounts
  /\ \A i \in DOMAIN m.purchases : m.purchases[i].src \in DOMAIN m.accounts
  /\ DOMAIN m.terms \subseteq DOMAIN m.accounts

Commit(m, mark) == IF References(m) THEN Done(m, mark) ELSE Failed("foreign key")

-----------------------------------------------------------------------------
(* Rows in stored order.                                                   *)

EntityIds(m) == Ids(m) \cup DOMAIN m.accounts \cup IdsOf(m.evals)

(* A map with one entry written, and with those of another map.            *)
WithEntry(map, key, value) == [k \in DOMAIN map \cup {key} |-> IF k = key THEN value ELSE map[k]]
Overlaid(map, new) == [k \in DOMAIN map \cup DOMAIN new |-> IF k \in DOMAIN new THEN new[k] ELSE map[k]]

RowAt(rows, id) == CHOOSE i \in DOMAIN rows : rows[i].id = id
RowOf(rows, id) == rows[RowAt(rows, id)]

(* The elements at some places, in order: a loop over the rows that        *)
(* appends those it keeps.                                                 *)
Picked(rows, places) ==
  LET kept[n \in 0 .. Len(rows)] ==
        IF n = 0 THEN <<>> ELSE IF n \in places THEN Append(kept[n - 1], rows[n]) ELSE kept[n - 1]
  IN  kept[Len(rows)]

Without(rows, id) == Picked(rows, {i \in DOMAIN rows : rows[i].id # id})
Leaving(ids, gone) == Picked(ids, {i \in DOMAIN ids : ids[i] \notin gone})
Of(checks, accounts) == {i \in DOMAIN checks : checks[i].account \in accounts}
Changed(rows, row) == [i \in DOMAIN rows |-> IF rows[i].id = row.id THEN row ELSE rows[i]]
Unclaimed(txs, rule) ==
  [i \in DOMAIN txs |-> IF txs[i].claim.rule = rule THEN [txs[i] EXCEPT !.claim = NoClaim] ELSE txs[i]]

MaxPriority(rows) == Max({rows[i].priority : i \in DOMAIN rows} \cup {-1})

(* One id put before another, or last. *)
InsertedBefore(ids, id, before) ==
  IF before = "" THEN Append(ids, id) ELSE InsertAt(ids, CHOOSE i \in DOMAIN ids : ids[i] = before, id)

moveIds(ids, id, before) == InsertedBefore(Leaving(ids, {id}), id, before)

MovableIn(ids, id, before) == id \in Range(ids) /\ before \in (Range(ids) \ {id}) \cup {""}

RowIds(rows) == [i \in DOMAIN rows |-> rows[i].id]
InOrder(rows, ids) == [i \in DOMAIN ids |-> RowOf(rows, ids[i])]
moveRow(rows, id, before) == InOrder(rows, moveIds(RowIds(rows), id, before))

-----------------------------------------------------------------------------
(* Accounts and checkpoints.                                               *)

WithAccount(m, id, account) == [m EXCEPT !.accounts = WithEntry(@, id, account)]
insertAccountTx(m, id, account) == [WithAccount(m, id, account) EXCEPT !.listed = Append(@, id)]

(* An observation replaces the one of its account and instant. *)
upsertCheckpointTx(checks, check) ==
  LET same == {i \in DOMAIN checks : checks[i].account = check.account /\ checks[i].at = check.at}
  IN  IF same = {} THEN Append(checks, check)
      ELSE [i \in DOMAIN checks |-> IF i \in same THEN check ELSE checks[i]]

upsertCheckpoints(m, checks) == [m EXCEPT !.checks = FoldLeft(upsertCheckpointTx, @, checks)]

CreateAccountWithBalance(m, id, account, checks) ==
  IF id \in EntityIds(m) THEN Failed("id conflict")
  ELSE Commit(upsertCheckpoints(insertAccountTx(m, id, account), checks),
              IF checks = <<>> THEN NoMark ELSE markDirty(checks[1].at))

UpdateAccountWithBalance(m, id, account, checks) ==
  IF id \notin DOMAIN m.accounts THEN Failed("not found")
  ELSE Commit(upsertCheckpoints(WithAccount(m, id, account), checks), FromStart)

RemoveAccounts(m, ids) ==
  [m EXCEPT !.accounts = Restrict(@, DOMAIN @ \ ids), !.listed = Leaving(@, ids),
            !.loans = Restrict(@, DOMAIN @ \ ids)]

DeleteAccount(m, id) ==
  IF id \notin DOMAIN m.accounts THEN Failed("not found") ELSE Commit(RemoveAccounts(m, {id}), FromStart)

MoveAccount(m, id, before) ==
  IF ~MovableIn(m.listed, id, before) THEN Failed("not found")
  ELSE Commit([m EXCEPT !.listed = moveIds(@, id, before)], NoMark)

SaveCheckpoint(m, check) == Commit(upsertCheckpoints(m, <<[check EXCEPT !.owner = TRUE]>>), markDirty(check.at))

DeleteCheckpointAt(m, account, at) ==
  LET kept == Picked(m.checks, {i \in DOMAIN m.checks : m.checks[i].account # account \/ m.checks[i].at # at})
  IN  IF kept = m.checks THEN Failed("not found") ELSE Commit([m EXCEPT !.checks = kept], markDirty(at))

-----------------------------------------------------------------------------
(* Transactions.                                                           *)

Recorded(t) == [t EXCEPT !.source = "user", !.pending = FALSE, !.void = FALSE, !.order = 0]

CreateTransaction(m, t) ==
  IF t.id \in EntityIds(m) THEN Failed("id conflict")
  ELSE Commit([m EXCEPT !.txs = Append(@, Recorded(t))], markDirty(dirtyTransaction(t)))

(* An owner's row is never pending or void.  The owner of a bank row may   *)
(* only clear these flags; clearing one, or claiming a pending row, makes  *)
(* it a settled, enabled row.                                              *)
Promoted(t) ==
  [t EXCEPT !.pending = FALSE, !.void = FALSE, !.enabled = TRUE, !.posted = IF @ <= 0 THEN t.at ELSE @]

OwnerWrite(stored, t) ==
  LET kept == [t EXCEPT !.source = stored.source, !.order = stored.order,
                        !.pending = stored.source # "user" /\ stored.pending /\ t.pending,
                        !.void = stored.source # "user" /\ stored.void /\ t.void]
      claiming == stored.pending /\ HasClaim(t) /\ ~HasClaim(stored)
  IN  IF /\ stored.source # "user"
         /\ claiming \/ (stored.pending /\ ~kept.pending) \/ (stored.void /\ ~kept.void)
      THEN Promoted(kept) ELSE kept

UpdateTransaction(m, t) ==
  IF t.id \notin IdsOf(m.txs) THEN Failed("not found")
  ELSE Commit([m EXCEPT !.txs = Changed(@, OwnerWrite(RowOf(@, t.id), t))], FromStart)

DeleteTransaction(m, id) ==
  IF id \notin IdsOf(m.txs) THEN Failed("not found")
  ELSE Commit([m EXCEPT !.txs = Without(@, id)], FromStart)

MoveTransaction(m, id, before) ==
  IF ~MovableIn(RowIds(m.txs), id, before) THEN Failed("not found")
  ELSE Commit([m EXCEPT !.txs = moveRow(@, id, before)], FromStart)

-----------------------------------------------------------------------------
(* Schedules.                                                              *)

CreateSchedule(m, rule) ==
  IF rule.id \in EntityIds(m) THEN Failed("id conflict")
  ELSE Commit([m EXCEPT !.rules = Append(@, rule)], markDirty(Midnight(rule.start)))

(* The row is deleted and inserted at its position: claims of it survive.  *)
UpdateSchedule(m, rule) ==
  IF rule.id \notin IdsOf(m.rules) THEN Failed("not found")
  ELSE Commit([m EXCEPT !.rules = Changed(@, rule)], FromStart)

RemoveSchedule(m, id) == [m EXCEPT !.rules = Without(@, id), !.txs = Unclaimed(@, id)]

DeleteSchedule(m, id) ==
  IF id \notin IdsOf(m.rules) THEN Failed("not found") ELSE Commit(RemoveSchedule(m, id), FromStart)

MoveSchedule(m, id, before) ==
  IF ~MovableIn(RowIds(m.rules), id, before) THEN Failed("not found")
  ELSE Commit([m EXCEPT !.rules = moveRow(@, id, before)], FromStart)

CreateScheduleClaimingTransaction(m, rule, tx, date) ==
  IF tx \notin IdsOf(m.txs) THEN Failed("not found")
  ELSE IF rule.id \in EntityIds(m) THEN Failed("id conflict")
  ELSE Commit([m EXCEPT !.rules = Append(@, rule),
                        !.txs = Changed(@, [RowOf(@, tx) EXCEPT !.claim = [rule |-> rule.id, date |-> date]])],
              markDirty(Midnight(rule.start)))

DeleteScheduleCreatingTransaction(m, id, t) ==
  IF id \notin IdsOf(m.rules) THEN Failed("not found")
  ELSE IF t.id \in EntityIds(m) \ {id} THEN Failed("id conflict")
  ELSE Commit([RemoveSchedule(m, id) EXCEPT !.txs = Append(@, [t EXCEPT !.source = "user"])], FromStart)

-----------------------------------------------------------------------------
(* Planned purchases, payment terms, evaluations.                          *)

CreatePlannedPurchase(m, p) ==
  IF p.id \in EntityIds(m) THEN Failed("id conflict")
  ELSE Commit([m EXCEPT !.purchases = Append(@, p)], markDirty(Midnight(p.earliest)))

UpdatePlannedPurchase(m, p) ==
  IF p.id \notin IdsOf(m.purchases) THEN Failed("not found")
  ELSE Commit([m EXCEPT !.purchases = Changed(@, p)], FromStart)

DeletePlannedPurchase(m, id) ==
  IF id \notin IdsOf(m.purchases) THEN Failed("not found")
  ELSE Commit([m EXCEPT !.purchases = Without(@, id)], FromStart)

(* Purchases are read by priority, then position; a move renumbers both.   *)
ByPriority(rows) ==
  LET before(i, j) == rows[i].priority < rows[j].priority \/ (rows[i].priority = rows[j].priority /\ i < j)
  IN  LET places == SortSeq([i \in DOMAIN rows |-> i], before) IN [i \in DOMAIN rows |-> rows[places[i]]]

Renumbered(rows) == [i \in DOMAIN rows |-> [rows[i] EXCEPT !.priority = i - 1]]

MovePlannedPurchase(m, id, before) ==
  IF id \notin IdsOf(m.purchases) \/ before \notin IdsOf(m.purchases) \cup {""} THEN Failed("not found")
  ELSE Commit(IF id = before THEN m
              ELSE [m EXCEPT !.purchases = Renumbered(moveRow(ByPriority(@), id, before))], FromStart)

SavePaymentTerms(m, account, terms) == Commit([m EXCEPT !.terms = WithEntry(@, account, terms)], FromStart)

DeletePaymentTerms(m, account) ==
  IF account \notin DOMAIN m.terms THEN Failed("not found")
  ELSE Commit([m EXCEPT !.terms = Restrict(@, DOMAIN @ \ {account})], FromStart)

CreateEvaluation(m, e) ==
  IF e.id \in EntityIds(m) THEN Failed("id conflict") ELSE Commit([m EXCEPT !.evals = Append(@, e)], NoMark)

UpdateEvaluation(m, e) ==
  IF e.id \notin IdsOf(m.evals) THEN Failed("not found") ELSE Commit([m EXCEPT !.evals = Changed(@, e)], NoMark)

DeleteEvaluation(m, id) ==
  IF id \notin IdsOf(m.evals) THEN Failed("not found") ELSE Commit([m EXCEPT !.evals = Without(@, id)], NoMark)

(* Evaluations of one kind keep an order of their own. *)
MoveEvaluation(m, id, before) ==
  IF ~MovableIn(RowIds(m.evals), id, before) THEN Failed("not found")
  ELSE Commit([m EXCEPT !.evals = moveRow(@, id, before)], NoMark)

-----------------------------------------------------------------------------
(* Loans: a principal and an interest account, the rule that charges       *)
(* interest and the rule that pays, written and removed together.          *)

(* A bundle is [id, loan, accounts, rules, checks]. *)
BundleAccounts(m, bundle) ==
  [m EXCEPT !.accounts = Overlaid(@, bundle.accounts),
            !.listed = @ \o Leaving(<<bundle.id, bundle.loan.interest>>, DOMAIN m.accounts),
            !.loans = WithEntry(@, bundle.id, bundle.loan)]

(* The rows of a bundle in place of those with their ids, each with the    *)
(* priority its row had.                                                   *)
Rewritten(rows, new) ==
  [i \in DOMAIN rows |-> IF rows[i].id \in IdsOf(new) THEN [RowOf(new, rows[i].id) EXCEPT !.priority = rows[i].priority]
                         ELSE rows[i]]

SaveLoan(m, bundle, create) ==
  LET ids == {bundle.id, bundle.loan.interest, bundle.loan.charge, bundle.loan.payment}
      written == upsertCheckpoints(BundleAccounts(m, bundle), bundle.checks)
  IN  IF create
      THEN IF ids \cap EntityIds(m) # {} THEN Failed("id conflict")
           ELSE Commit([written EXCEPT !.rules = @ \o bundle.rules], FromStart)
      ELSE IF ~({bundle.id, bundle.loan.interest} \subseteq DOMAIN m.accounts
                /\ {bundle.loan.charge, bundle.loan.payment} \subseteq IdsOf(m.rules)) THEN Failed("not found")
           ELSE Commit([written EXCEPT !.rules = Rewritten(@, bundle.rules)], FromStart)

WithoutLoan(m, id) ==
  LET loan == m.loans[id]
      members == {id, loan.interest}
  IN  [RemoveAccounts(RemoveSchedule(RemoveSchedule(m, loan.charge), loan.payment), members)
         EXCEPT !.checks = Picked(@, DOMAIN @ \ Of(@, members))]

DeleteLoan(m, id) ==
  IF id \notin DOMAIN m.loans THEN Failed("not found") ELSE Commit(WithoutLoan(m, id), FromStart)

-----------------------------------------------------------------------------
(* A manual account retired in favor of a bank's account.                  *)

Touches(row, account) == row.src = account \/ account \in Range(row.dests)

(* Destinations with one id put for another, each id once. *)
supersedeReplaceIDs(ids, old, new) ==
  IF old \notin Range(ids) THEN ids
  ELSE FoldLeft(LAMBDA out, a : LET b == IF a = old THEN new ELSE a
                                IN  IF b \in Range(out) THEN out ELSE Append(out, b), <<>>, ids)

supersedeRoute(row, manual, synced) ==
  [row EXCEPT !.src = IF @ = manual THEN synced ELSE @, !.dests = supersedeReplaceIDs(@, manual, synced)]

supersedeAmount(row, manual, synced) ==
  IF row.amount.id = manual THEN [row EXCEPT !.amount.id = synced] ELSE row

supersedeCheckPreconditions(m, manual, synced) ==
  /\ \A id \in DOMAIN m.loans : {id, m.loans[id].interest} \cap {manual, synced} = {}
  /\ \A i \in DOMAIN m.checks : m.checks[i].account = manual => m.checks[i].owner
  /\ \A i \in DOMAIN m.txs : Touches(m.txs[i], manual) => m.txs[i].source = "user"
  /\ manual \notin m.links
  /\ synced \in m.links
  /\ ~({manual, synced} \subseteq DOMAIN m.terms)

(* Everything that named the manual account names the bank's; its own      *)
(* transactions and observations go, and so does a rule that would now     *)
(* move money to where it comes from.                                      *)
Superseded(m, manual, synced) ==
  LET selfTransfer(rule) ==
        Touches(rule, manual) /\ supersedeRoute(rule, manual, synced).src
                                   \in Range(supersedeRoute(rule, manual, synced).dests)
      gone == {m.rules[i].id : i \in {j \in DOMAIN m.rules : selfTransfer(m.rules[j])}}
      released(t) == IF t.claim.rule \in gone THEN [t EXCEPT !.claim = NoClaim] ELSE t
      rules == Picked(m.rules, {i \in DOMAIN m.rules : m.rules[i].id \notin gone})
      txs == Picked(m.txs, {i \in DOMAIN m.txs : ~Touches(m.txs[i], manual)})
      profile == [m.accounts[synced] EXCEPT !.min = m.accounts[manual].min, !.max = m.accounts[manual].max,
                                            !.kind = m.accounts[manual].kind]
      place(id) == IF id = manual THEN synced ELSE id
  IN  [m EXCEPT
         !.accounts = WithEntry(Restrict(@, DOMAIN @ \ {manual}), synced, profile),
         !.listed = [i \in 1 .. Len(@) - 1 |-> place(Leaving(@, {synced})[i])],
         !.rules = [i \in DOMAIN rules |-> supersedeAmount(supersedeRoute(rules[i], manual, synced), manual, synced)],
         !.txs = [i \in DOMAIN txs |-> supersedeAmount(released(txs[i]), manual, synced)],
         !.checks = Picked(@, DOMAIN @ \ Of(@, {manual})),
         !.purchases = [i \in DOMAIN @ |-> [@[i] EXCEPT !.src = place(@)]],
         !.terms = IF manual \in DOMAIN @ THEN WithEntry(Restrict(@, DOMAIN @ \ {manual}), synced, @[manual]) ELSE @,
         !.evals = [i \in DOMAIN @ |-> [@[i] EXCEPT !.accounts = {place(a) : a \in @}]]]

SupersedeAccount(m, manual, synced) ==
  IF ~{manual, synced} \subseteq DOMAIN m.accounts THEN Failed("not found")
  ELSE IF ~supersedeCheckPreconditions(m, manual, synced) THEN Failed("invalid")
  ELSE IF ~ValidFinanceWriteChange(m, Superseded(m, manual, synced)) THEN Failed("invalid")
  ELSE Commit(Superseded(m, manual, synced), FromStart)
=============================================================================
