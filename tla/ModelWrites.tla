---------------------------- MODULE ModelWrites -----------------------------
(***************************************************************************)
(* The requests that change a model, in flight together:                   *)
(* backend/internal/api/model writes.go and its handlers,                  *)
(* import_model.go, and the supersede route.  A request loads the model,   *)
(* applies its change to that copy, validates the copy, and then writes    *)
(* its row through calls of the store (ModelRows), each with its mark on   *)
(* the projection; nothing holds the model between the steps.  The         *)
(* projection keeps its rows in slices of a year and rebuilds those from   *)
(* the mark on (ProjectionCache has its steps; one build is one step       *)
(* here).                                                                  *)
(***************************************************************************)
EXTENDS ModelRows, Projection

CONSTANTS
  Clients,
  Scopes,    \* [model, requests, left]: an initial model, the requests made of it, how many
  Start,     \* the day the projection starts
  Horizon    \* the years it covers

VARIABLES
  model,      \* the stored rows
  dirty,      \* the earliest instant marked, NoMark when none is
  shown,      \* the projected rows last stored, by slice
  due,        \* [ok, rows]: what a projection of the stored model gives
  client,     \* [phase, req, row, calls, mark]: "idle", "loaded", "saving"
  scope,
  left,       \* requests still to be made
  overlapped, \* a write landed while another request was under way
  late,       \* history: slices a claim changed although its mark is later
  resettled   \* history: pending rows of a document that were created settled

exceptions == <<overlapped, late, resettled>>
vars == <<model, dirty, shown, due, client, scope, left, exceptions>>

-----------------------------------------------------------------------------
(* The projection of a model, in slices: a slice covers one year and the   *)
(* last one the final day as well.                                         *)

Slices == 1 .. Horizon
ToAt(k) == Midnight(AddYearsClamped(Start, k))

InSlice(k, d) ==
  /\ k = 1 \/ Midnight(d) >= ToAt(k - 1)
  /\ Midnight(d) < ToAt(k) \/ (k = Horizon /\ Midnight(d) = ToAt(k))

RunOf(m) == [model |-> m, start |-> Start, cut |-> DayClose(Start), horizon |-> Horizon, draws |-> <<>>]

Simulated(request, r) == IF r.ok THEN Simulate(request, [r EXCEPT !.base = r.st], {}, {}) ELSE r

SlicedRows(r) ==
  [ok |-> r.ok,
   rows |-> [k \in Slices |-> SelectSeq(r.rows, LAMBDA row : ~row.historical /\ InSlice(k, row.date))]]

Fresh(m) == SlicedRows(Simulated(RunOf(m), Replay(m, Start, DayClose(Start), Years(RunOf(m)))))

-----------------------------------------------------------------------------
(* The copy of the model a request changes and validates.                  *)

replaceByID(rows, row) == IF row.id \in IdsOf(rows) THEN Changed(rows, row) ELSE Append(rows, row)

(* The copy is moved in place: only a row that came last is still there to *)
(* be put before another.                                                  *)
moveBeforeID(rows, id, before) ==
  IF rows = <<>> \/ Last(rows).id # id \/ before \notin (IdsOf(rows) \ {id}) \cup {""} THEN Without(rows, id)
  ELSE InOrder(rows, moveIds(RowIds(rows), id, before))

(* A loan named as the one destination stands for its interest first.      *)
displayDestinations(m, dests) ==
  IF Len(dests) = 1 /\ dests[1] \in DOMAIN m.loans THEN <<m.loans[dests[1]].interest, dests[1]>> ELSE dests

Routed(m, row) == [row EXCEPT !.dests = displayDestinations(m, @)]

Rerouted(m, rows, row) ==
  IF row.id \in IdsOf(rows) /\ RowOf(rows, row.id).dests # row.dests THEN Routed(m, row) ELSE row

requireOrdinaryAccount(m, id) == \A loan \in DOMAIN m.loans : id \notin {loan, m.loans[loan].interest}

(* Mutant: a loan's rule is amended like any other. *)
requireOrdinaryScheduleNever(m, id) == TRUE

requireOrdinarySchedule(m, id) ==
  \A loan \in DOMAIN m.loans : id \notin {m.loans[loan].charge, m.loans[loan].payment}

WithTx(m, t) == [m EXCEPT !.txs = replaceByID(@, t)]
WithRule(m, rule) == [m EXCEPT !.rules = replaceByID(@, rule)]

(* What a request is to do: its guard, the changed copy, how the copy is   *)
(* validated, and the calls that store it.  A call that finds no row fails *)
(* the request, is skipped, or gives way to the call that creates the row. *)
Call(do, id, row) == [do |-> do, id |-> id, row |-> row, absent |-> "fail"]
Optional(do, id) == [do |-> do, id |-> id, row |-> <<>>, absent |-> "skip"]

Plan(guard, copy, check, calls) == [guard |-> guard, copy |-> copy, check |-> check, calls |-> calls]
Finance(copy, do, id, row) == Plan(TRUE, copy, "finance", <<Call(do, id, row)>>)
Full(copy, do, id, row) == Plan(TRUE, copy, "full", <<Call(do, id, row)>>)
Guarded(guard, plan) == [plan EXCEPT !.guard = guard]

Accepted(m, plan) ==
  /\ plan.guard
  /\ CASE plan.check = "finance" -> ValidFinanceWriteChange(m, plan.copy)
       [] plan.check = "full" -> ValidFinancialModel(plan.copy)
       [] plan.check = "store" -> TRUE

-----------------------------------------------------------------------------
(* Transactions and schedules.                                             *)

recordTransaction(m, t) == Finance(WithTx(m, t), "CreateTransaction", t.id, t)
saveTransaction(m, t) == Finance(WithTx(m, t), "UpdateTransaction", t.id, t)

deleteTransaction(m, id) == Finance([m EXCEPT !.txs = Without(@, id)], "DeleteTransaction", id, <<>>)
moveTransaction(m, id, before) ==
  Finance([m EXCEPT !.txs = moveBeforeID(@, id, before)], "MoveTransaction", id, before)

createSchedule(m, rule) == Finance(WithRule(m, rule), "CreateSchedule", rule.id, rule)
Prioritized(m, rule) == IF rule.priority >= 0 THEN rule ELSE [rule EXCEPT !.priority = MaxPriority(m.rules) + 1]

saveSchedule(m, rule) ==
  Guarded(requireOrdinarySchedule(m, rule.id), Finance(WithRule(m, rule), "UpdateSchedule", rule.id, rule))

deleteSchedule(m, id) == Finance(RemoveSchedule(m, id), "DeleteSchedule", id, <<>>)
moveSchedule(m, id, before) ==
  Finance([m EXCEPT !.rules = moveBeforeID(@, id, before)], "MoveSchedule", id, before)

(* The schedule takes the route and the amount of the transaction, which   *)
(* becomes its first occurrence.                                           *)
startSchedule(m, t, rule) ==
  LET claim == [rule |-> rule.id, date |-> rule.start]
      copy == [WithRule(m, rule) EXCEPT !.txs = [i \in DOMAIN @ |-> IF @[i].id = t.id THEN [@[i] EXCEPT !.claim = claim]
                                                                     ELSE @[i]]]
  IN  Finance(copy, "CreateScheduleClaimingTransaction", t.id, rule)

endSchedule(m, id, t) == Finance(WithTx(RemoveSchedule(m, id), t), "DeleteScheduleCreatingTransaction", id, t)

Copied(row, from) ==
  [row EXCEPT !.src = from.src, !.dests = from.dests, !.amount = from.amount, !.enabled = from.enabled]

-----------------------------------------------------------------------------
(* Accounts, observations and payment terms.                               *)

SaveAccount(m, do, id, entry) ==
  Finance(upsertCheckpoints(WithAccount(m, id, entry.account), entry.checks), do, id, entry)

updateAccount(m, id, entry) ==
  Guarded(requireOrdinaryAccount(m, id), SaveAccount(m, "UpdateAccountWithBalance", id, entry))

WithoutAccount(m, id) == [m EXCEPT !.accounts = Restrict(@, DOMAIN @ \ {id}), !.loans = Restrict(@, DOMAIN @ \ {id})]

deleteAccount(m, id) ==
  Guarded(requireOrdinaryAccount(m, id), Finance(WithoutAccount(m, id), "DeleteAccount", id, <<>>))

moveAccount(m, id, before) ==
  Finance(IF Last(m.listed) = id /\ MovableIn(m.listed, id, before) THEN m ELSE WithoutAccount(m, id),
          "MoveAccount", id, before)

saveCheckpoint(m, check) == Finance(upsertCheckpoints(m, <<check>>), "SaveCheckpoint", check.account, check)

deleteCheckpoint(m, check) ==
  Finance([m EXCEPT !.checks = Picked(@, {i \in DOMAIN @ : @[i].account # check.account \/ @[i].at # check.at})],
          "DeleteCheckpointAt", check.account, check)

savePaymentTerms(m, id, terms) == Finance([m EXCEPT !.terms = WithEntry(@, id, terms)], "SavePaymentTerms", id, terms)
deletePaymentTerms(m, id) ==
  Finance([m EXCEPT !.terms = Restrict(@, DOMAIN @ \ {id})], "DeletePaymentTerms", id, <<>>)

-----------------------------------------------------------------------------
(* Planned purchases and evaluations.                                      *)

WithPurchase(m, p) == [m EXCEPT !.purchases = replaceByID(@, p)]

createPlannedPurchase(m, p) == Finance(WithPurchase(m, p), "CreatePlannedPurchase", p.id, p)
updatePlannedPurchase(m, p) == Finance(WithPurchase(m, p), "UpdatePlannedPurchase", p.id, p)
deletePlannedPurchase(m, id) ==
  Finance([m EXCEPT !.purchases = Without(@, id)], "DeletePlannedPurchase", id, <<>>)
movePlannedPurchase(m, id, before) ==
  Finance([m EXCEPT !.purchases = Renumbered(moveBeforeID(ByPriority(@), id, before))],
          "MovePlannedPurchase", id, before)

(* A new purchase goes last, an edited one keeps its place, unless the     *)
(* request gives one.                                                      *)
Queued(m, p) == IF p.priority >= 0 THEN p ELSE [p EXCEPT !.priority = MaxPriority(m.purchases) + 1]
Requeued(m, p) ==
  IF p.priority >= 0 THEN p
  ELSE [p EXCEPT !.priority = IF p.id \in IdsOf(m.purchases) THEN RowOf(m.purchases, p.id).priority ELSE 0]

createEvaluation(m, e) == Full([m EXCEPT !.evals = replaceByID(@, e)], "CreateEvaluation", e.id, e)
updateEvaluation(m, e) == Full([m EXCEPT !.evals = Append(Without(@, e.id), e)], "UpdateEvaluation", e.id, e)
deleteEvaluation(m, id) == Full([m EXCEPT !.evals = Without(@, id)], "DeleteEvaluation", id, <<>>)
moveEvaluation(m, id, before) == Full([m EXCEPT !.evals = moveBeforeID(@, id, before)], "MoveEvaluation", id, before)

-----------------------------------------------------------------------------
(* Loans.  terms is [rate, payment, freq, start, funding, enabled, owed,   *)
(* interest, at, record].                                                  *)

BuildLoan(id, loan, terms) ==
  LET account == [min |-> -Unlimited, max |-> 0, kind |-> "debt", enabled |-> terms.enabled]
      rule(r, src, dests, by, value, of, priority) ==
        [id |-> r, src |-> src, dests |-> dests, amount |-> [by |-> by, value |-> value, id |-> of, volatility |-> 0],
         freq |-> terms.freq, start |-> terms.start, end |-> 0, cap |-> Unlimited, priority |-> priority,
         enabled |-> terms.enabled]
      charge == rule(loan.charge, loan.interest, <<>>, "loan-interest", terms.rate, id, 6)
      payment == rule(loan.payment, terms.funding, <<loan.interest, id>>, "literal", terms.payment, "", 7)
      check(a, owed) == [account |-> a, balance |-> -owed, at |-> terms.at, owner |-> TRUE]
  IN  [id |-> id, loan |-> loan, accounts |-> [a \in {id, loan.interest} |-> account],
       rules |-> <<charge, payment>>,
       checks |-> <<check(id, terms.owed), check(loan.interest, terms.interest)>>]

(* An update keeps the accounts' floors, and its balances only when asked. *)
Kept(m, bundle, terms) ==
  [bundle EXCEPT !.accounts = [a \in DOMAIN @ |-> [@[a] EXCEPT !.min = m.accounts[a].min]],
                 !.checks = IF terms.record THEN @ ELSE <<>>]

InPlace(m, bundle, create) ==
  LET priority(i, rule) ==
        IF create THEN MaxPriority(m.rules) + i
        ELSE IF rule.id \in IdsOf(m.rules) THEN RowOf(m.rules, rule.id).priority ELSE rule.priority
  IN  [bundle EXCEPT !.rules = [i \in DOMAIN @ |-> [@[i] EXCEPT !.priority = priority(i, bundle.rules[i])]]]

saveLoan(m, bundle, do) ==
  LET copy == BundleAccounts(m, bundle)
  IN  Finance(upsertCheckpoints([copy EXCEPT !.rules = FoldLeft(replaceByID, @, bundle.rules)], bundle.checks),
              do, bundle.id, bundle)

(* The copy keeps the claims on the rules it drops. *)
deleteLoan(m, id) ==
  Finance(IF id \in DOMAIN m.loans THEN [WithoutLoan(m, id) EXCEPT !.txs = m.txs] ELSE m, "DeleteLoan", id, <<>>)

-----------------------------------------------------------------------------
(* The import of a whole document.                                         *)

(* What the server owns stays as stored. *)
mergeStoredLifecycle(doc, m) ==
  LET owned(t) == IF t.id \notin IdsOf(m.txs) THEN t
                  ELSE LET stored == RowOf(m.txs, t.id)
                       IN  [t EXCEPT !.source = stored.source, !.pending = stored.pending, !.void = stored.void,
                                     !.order = stored.order]
  IN  [doc EXCEPT !.txs = [i \in DOMAIN @ |-> owned(@[i])]]

Each(rows, F(_)) == [i \in DOMAIN rows |-> F(rows[i])]
Missing(rows, doc) == Picked(rows, {i \in DOMAIN rows : rows[i].id \notin IdsOf(doc)})
DeleteMissing(do, rows, doc) == Each(Missing(rows, doc), LAMBDA row : Optional(do, row.id))
Upserts(kind, stored, rows) ==
  Each(rows, LAMBDA row : Call((IF row.id \in IdsOf(stored) THEN "Update" ELSE "Create") \o kind, row.id, row))

(* From the end, each row before the one that follows it. *)
reorderIDs(do, ids) ==
  Each(Reverse([i \in DOMAIN ids |-> i]),
       LAMBDA i : Call(do, ids[i], IF i = Len(ids) THEN "" ELSE ids[i + 1]))

ImportDeletes(m, doc) ==
  DeleteMissing("DeleteTransaction", m.txs, doc.txs)
  \o Each(SelectSeq(m.checks, LAMBDA c : \A i \in DOMAIN doc.checks :
                                          doc.checks[i].account # c.account \/ doc.checks[i].at # c.at),
          LAMBDA c : [Optional("DeleteCheckpointAt", c.account) EXCEPT !.row = c])
  \o DeleteMissing("DeletePlannedPurchase", m.purchases, doc.purchases)
  \o DeleteMissing("DeleteEvaluation", m.evals, doc.evals)

ImportRows(m, doc) ==
  Each(doc.listed, LAMBDA a : Call(IF a \in DOMAIN m.accounts THEN "UpdateAccountWithBalance"
                                   ELSE "CreateAccountWithBalance", a, [account |-> doc.accounts[a], checks |-> <<>>]))
  \o Upserts("Schedule", m.rules, doc.rules)
  \o Upserts("Transaction", m.txs, doc.txs)

DeleteMissingAccounts(m, doc) ==
  Each(Leaving(m.listed, DOMAIN doc.accounts), LAMBDA a : Optional("DeleteAccount", a))

ImportRest(m, doc) ==
  Each(doc.checks, LAMBDA c : Call("SaveCheckpoint", c.account, c))
  \o Upserts("PlannedPurchase", m.purchases, doc.purchases)
  \o Each(doc.evals, LAMBDA e : [Call("UpdateEvaluation", e.id, e) EXCEPT !.absent = "create"])
  \o reorderIDs("MoveAccount", doc.listed)
  \o reorderIDs("MoveTransaction", RowIds(doc.txs))
  \o reorderIDs("MoveSchedule", RowIds(doc.rules))
  \o reorderIDs("MovePlannedPurchase", RowIds(doc.purchases))

(* Mutant: accounts go before the rows that refer to them. *)
applyImportedModelAccountsFirst(m, doc) ==
  ImportDeletes(m, doc) \o DeleteMissingAccounts(m, doc) \o ImportRows(m, doc)
    \o DeleteMissing("DeleteSchedule", m.rules, doc.rules) \o ImportRest(m, doc)

applyImportedModel(m, doc) ==
  ImportDeletes(m, doc) \o ImportRows(m, doc) \o DeleteMissing("DeleteSchedule", m.rules, doc.rules)
    \o DeleteMissingAccounts(m, doc) \o ImportRest(m, doc)

importModel(m, doc) == Plan(TRUE, doc, "full", applyImportedModel(m, doc))

-----------------------------------------------------------------------------
(* Requests.                                                               *)

(* Some requests first read the row they amend, in a load of their own.    *)
ReadsFirst(r) == r.op \in {"amend", "amend rule", "start rule", "end rule", "update loan"}

(* A stored row with the fields an amendment gives: its id is not one.     *)
Amended(row, fields) == Overlaid(row, WithEntry(fields, "id", row.id))

(* What that load finds, <<>> for a row that is not there.                 *)
FirstRead(m, r) ==
  CASE r.op \in {"amend", "start rule"} ->
         IF r.id \notin IdsOf(m.txs) \/ (r.op = "start rule" /\ HasClaim(RowOf(m.txs, r.id))) THEN <<>>
         ELSE IF r.op = "amend" THEN Amended(RowOf(m.txs, r.id), r.row)
         ELSE RowOf(m.txs, r.id)
    [] r.op \in {"amend rule", "end rule"} ->
         IF r.id \notin IdsOf(m.rules) THEN <<>>
         ELSE IF r.op = "amend rule" THEN Amended(RowOf(m.rules, r.id), r.row)
         ELSE Copied(r.row, RowOf(m.rules, r.id))
    [] r.op = "update loan" ->
         IF r.id \notin DOMAIN m.loans THEN <<>> ELSE Kept(m, BuildLoan(r.id, m.loans[r.id], r.row), r.row)

TransactionPlan(m, r, row) ==
  CASE r.op = "record" -> recordTransaction(m, Routed(m, r.row))
    [] r.op = "amend" -> saveTransaction(m, Rerouted(m, m.txs, row))
    [] r.op = "delete" -> deleteTransaction(m, r.id)
    [] r.op = "move" -> moveTransaction(m, r.id, r.row)
    [] r.op = "start rule" -> startSchedule(m, row, Copied([r.row EXCEPT !.priority = MaxPriority(m.rules) + 1], row))
    [] r.op = "create rule" -> createSchedule(m, Routed(m, Prioritized(m, r.row)))
    [] r.op = "amend rule" -> saveSchedule(m, Rerouted(m, m.rules, row))
    [] r.op = "delete rule" -> deleteSchedule(m, r.id)
    [] r.op = "move rule" -> moveSchedule(m, r.id, r.row)
    [] r.op = "end rule" -> endSchedule(m, r.id, row)

AccountPlan(m, r, row) ==
  CASE r.op = "create account" -> SaveAccount(m, "CreateAccountWithBalance", r.id, r.row)
    [] r.op = "update account" -> updateAccount(m, r.id, r.row)
    [] r.op = "delete account" -> deleteAccount(m, r.id)
    [] r.op = "move account" -> moveAccount(m, r.id, r.row)
    [] r.op = "save check" -> saveCheckpoint(m, r.row)
    [] r.op = "delete check" -> deleteCheckpoint(m, r.row)
    [] r.op = "save terms" -> savePaymentTerms(m, r.id, r.row)
    [] r.op = "delete terms" -> deletePaymentTerms(m, r.id)
    [] r.op = "create loan" -> saveLoan(m, InPlace(m, BuildLoan(r.id, r.loan, r.row), TRUE), "CreateLoan")
    [] r.op = "update loan" -> saveLoan(m, InPlace(m, row, FALSE), "UpdateLoan")
    [] r.op = "delete loan" -> deleteLoan(m, r.id)

ListPlan(m, r) ==
  CASE r.op = "create purchase" -> createPlannedPurchase(m, Queued(m, r.row))
    [] r.op = "update purchase" -> updatePlannedPurchase(m, Requeued(m, r.row))
    [] r.op = "delete purchase" -> deletePlannedPurchase(m, r.id)
    [] r.op = "move purchase" -> movePlannedPurchase(m, r.id, r.row)
    [] r.op = "create evaluation" -> createEvaluation(m, r.row)
    [] r.op = "update evaluation" -> updateEvaluation(m, r.row)
    [] r.op = "delete evaluation" -> deleteEvaluation(m, r.id)
    [] r.op = "move evaluation" -> moveEvaluation(m, r.id, r.row)
    [] r.op = "import" -> importModel(m, mergeStoredLifecycle(r.row, m))
    [] r.op = "supersede" -> Plan(TRUE, m, "store", <<Call("SupersedeAccount", r.id, r.row)>>)

TransactionOps ==
  {"record", "amend", "delete", "move", "start rule", "create rule", "amend rule", "delete rule", "move rule", "end rule"}
AccountOps ==
  {"create account", "update account", "delete account", "move account", "save check", "delete check", "save terms",
   "delete terms", "create loan", "update loan", "delete loan"}
ListOps ==
  {"create purchase", "update purchase", "delete purchase", "move purchase", "create evaluation",
   "update evaluation", "delete evaluation", "move evaluation", "import", "supersede"}

PlanOf(m, r, row) ==
  IF r.op \in TransactionOps THEN TransactionPlan(m, r, row)
  ELSE IF r.op \in ListOps THEN ListPlan(m, r) ELSE AccountPlan(m, r, row)

(* The loans of a model and those that requests create, as <<id, loan>>.   *)
Existing(m) == {<<id, m.loans[id]>> : id \in DOMAIN m.loans}
Created(requests) == {<<r.id, r.loan>> : r \in {q \in requests : q.op = "create loan"}}
AccountsOf(l) == {l[1], l[2].interest}
RulesOf(l) == {l[2].charge, l[2].payment}
LoanIds(l) == AccountsOf(l) \cup RulesOf(l)

(* Requests start from a valid model.  createLoan draws four new ids       *)
(* (loans.go), so that no request can name those of a loan still to be     *)
(* created; createAccount draws one unless the client sends a new one,     *)
(* which is never that of a loan (accounts.go).  BuildLoan refuses a       *)
(* negative payment.                                                       *)
NewIds(s, l) ==
  /\ l[1] # l[2].interest /\ l[2].charge # l[2].payment
  /\ LoanIds(l) \cap EntityIds(s.model) = {}
  /\ \A k \in Existing(s.model) \cup Created(s.requests) : k = l \/ LoanIds(k) \cap LoanIds(l) = {}
  /\ \A r \in s.requests :
       r.op \in {"create account", "update account", "delete account", "amend rule", "delete rule", "end rule"} =>
         r.id \notin LoanIds(l)

RequestRight(s, r) ==
  /\ r.op \in TransactionOps \cup AccountOps \cup ListOps
  /\ r.op = "create account" => r.id \notin DOMAIN s.model.loans
  /\ r.op \in {"create loan", "update loan"} => r.row.payment >= 0

ASSUME ScopesAssumption ==
  \A s \in Scopes :
    /\ {"accounts", "rules", "loans"} \subseteq DOMAIN s.model
    /\ s.model.rules \in Seq(Range(s.model.rules))
    /\ ValidFinancialModel(s.model)
    /\ \A l \in Created(s.requests) : NewIds(s, l)
    /\ \A r \in s.requests : RequestRight(s, r)

(* One call of the store. *)
TransactionCall(m, c) ==
  CASE c.do = "CreateTransaction" -> CreateTransaction(m, c.row)
    [] c.do = "UpdateTransaction" -> UpdateTransaction(m, c.row)
    [] c.do = "DeleteTransaction" -> DeleteTransaction(m, c.id)
    [] c.do = "MoveTransaction" -> MoveTransaction(m, c.id, c.row)
    [] c.do = "CreateSchedule" -> CreateSchedule(m, c.row)
    [] c.do = "UpdateSchedule" -> UpdateSchedule(m, c.row)
    [] c.do = "DeleteSchedule" -> DeleteSchedule(m, c.id)
    [] c.do = "MoveSchedule" -> MoveSchedule(m, c.id, c.row)
    [] c.do = "CreateScheduleClaimingTransaction" -> CreateScheduleClaimingTransaction(m, c.row, c.id, c.row.start)
    [] c.do = "DeleteScheduleCreatingTransaction" -> DeleteScheduleCreatingTransaction(m, c.id, c.row)

AccountCall(m, c) ==
  CASE c.do = "CreateAccountWithBalance" -> CreateAccountWithBalance(m, c.id, c.row.account, c.row.checks)
    [] c.do = "UpdateAccountWithBalance" -> UpdateAccountWithBalance(m, c.id, c.row.account, c.row.checks)
    [] c.do = "DeleteAccount" -> DeleteAccount(m, c.id)
    [] c.do = "MoveAccount" -> MoveAccount(m, c.id, c.row)
    [] c.do = "SaveCheckpoint" -> SaveCheckpoint(m, c.row)
    [] c.do = "DeleteCheckpointAt" -> DeleteCheckpointAt(m, c.row.account, c.row.at)
    [] c.do = "SavePaymentTerms" -> SavePaymentTerms(m, c.id, c.row)
    [] c.do = "DeletePaymentTerms" -> DeletePaymentTerms(m, c.id)
    [] c.do \in {"CreateLoan", "UpdateLoan"} -> SaveLoan(m, c.row, c.do = "CreateLoan")
    [] c.do = "DeleteLoan" -> DeleteLoan(m, c.id)
    [] c.do = "SupersedeAccount" -> SupersedeAccount(m, c.id, c.row)

ListCall(m, c) ==
  CASE c.do = "CreatePlannedPurchase" -> CreatePlannedPurchase(m, c.row)
    [] c.do = "UpdatePlannedPurchase" -> UpdatePlannedPurchase(m, c.row)
    [] c.do = "DeletePlannedPurchase" -> DeletePlannedPurchase(m, c.id)
    [] c.do = "MovePlannedPurchase" -> MovePlannedPurchase(m, c.id, c.row)
    [] c.do = "CreateEvaluation" -> CreateEvaluation(m, c.row)
    [] c.do = "UpdateEvaluation" -> UpdateEvaluation(m, c.row)
    [] c.do = "DeleteEvaluation" -> DeleteEvaluation(m, c.id)
    [] c.do = "MoveEvaluation" -> MoveEvaluation(m, c.id, c.row)

TransactionCalls ==
  {"CreateTransaction", "UpdateTransaction", "DeleteTransaction", "MoveTransaction", "CreateSchedule",
   "UpdateSchedule", "DeleteSchedule", "MoveSchedule", "CreateScheduleClaimingTransaction",
   "DeleteScheduleCreatingTransaction"}
ListCalls ==
  {"CreatePlannedPurchase", "UpdatePlannedPurchase", "DeletePlannedPurchase", "MovePlannedPurchase",
   "CreateEvaluation", "UpdateEvaluation", "DeleteEvaluation", "MoveEvaluation"}

Stored(m, c) ==
  IF c.do \in TransactionCalls THEN TransactionCall(m, c)
  ELSE IF c.do \in ListCalls THEN ListCall(m, c) ELSE AccountCall(m, c)

-----------------------------------------------------------------------------
Idle == [phase |-> "idle", req |-> <<>>, row |-> <<>>, calls |-> <<>>, mark |-> NoMark]

InitialRows(s, f) ==
  /\ scope = s
  /\ model = s.model
  /\ left = s.left
  /\ due = f
  /\ shown = f.rows

Init ==
  /\ \E s \in Scopes : InitialRows(s, Fresh(s.model))
  /\ dirty = NoMark
  /\ client = [c \in Clients |-> Idle]
  /\ overlapped = FALSE /\ late = {} /\ resettled = {}

(* The answer of a request that has nothing more to do goes out. *)
Continue(entry) == IF entry.calls = <<>> /\ entry.mark = NoMark THEN Idle ELSE entry

Read(c, r, row) ==
  client' = [client EXCEPT ![c] = IF row = <<>> THEN Idle ELSE [Idle EXCEPT !.phase = "loaded", !.req = r, !.row = row]]

(* Validation and the calls that follow from it. *)
Validated(c, r, plan) ==
  client' = [client EXCEPT ![c] =
    IF Accepted(model, plan) THEN Continue([Idle EXCEPT !.phase = "saving", !.req = r, !.calls = plan.calls]) ELSE Idle]

Begin(c) ==
  /\ client[c].phase = "idle"
  /\ left > 0
  /\ \E r \in scope.requests :
       IF ReadsFirst(r) THEN Read(c, r, FirstRead(model, r)) ELSE Validated(c, r, PlanOf(model, r, <<>>))
  /\ left' = left - 1
  /\ UNCHANGED <<model, dirty, shown, due, scope, exceptions>>

Validate(c) ==
  /\ client[c].phase = "loaded"
  /\ Validated(c, client[c].req, PlanOf(model, client[c].req, client[c].row))
  /\ UNCHANGED <<model, dirty, shown, due, scope, left, exceptions>>

Busy(c) == \E d \in Clients \ {c} : client[d].phase # "idle"

(* The request without the call it has just made. *)
Taken(entry) == [entry EXCEPT !.calls = Tail(entry.calls)]

(* A claim empties its occurrence on the claimed day, the mark of a new    *)
(* row is its own time.                                                    *)
ClaimedBefore(call, mark) ==
  IF call.do = "CreateTransaction" /\ HasClaim(call.row)
  THEN {k \in Slices : Midnight(call.row.claim.date) <= ToAt(k) /\ ToAt(k) < mark} ELSE {}

(* CreateTransaction clears the pending of a row that has not posted yet.  *)
Resettled(call) ==
  IF call.do = "CreateTransaction" /\ call.row.pending /\ call.row.posted <= 0 THEN {call.id} ELSE {}

Saved(c, done) ==
  /\ done.error = ""
  /\ model' = done.model
  /\ due' = IF done.model = model THEN due ELSE Fresh(done.model)
  /\ overlapped' = (overlapped \/ Busy(c))
  /\ late' = late \cup ClaimedBefore(Head(client[c].calls), done.mark)
  /\ resettled' = resettled \cup Resettled(Head(client[c].calls))
  /\ client' = [client EXCEPT ![c] = Continue([Taken(client[c]) EXCEPT !.mark = done.mark])]

(* A failed call ends its request, what it stored before it stays; a row   *)
(* an import finds gone, or not there yet, does not.                       *)
Unsaved(c, done) ==
  LET call == Head(client[c].calls)
  IN  /\ done.error # ""
      /\ client' = [client EXCEPT ![c] =
           IF done.error = "not found" /\ call.absent = "skip" THEN Continue(Taken(client[c]))
           ELSE IF done.error = "not found" /\ call.absent = "create"
           THEN [@ EXCEPT !.calls = <<Call("CreateEvaluation", call.id, call.row)>> \o Tail(@)]
           ELSE Idle]
      /\ UNCHANGED <<model, due, exceptions>>

SaveRow(c) ==
  /\ client[c].calls # <<>>
  /\ client[c].mark = NoMark
  /\ \E done \in {Stored(model, Head(client[c].calls))} : Saved(c, done) \/ Unsaved(c, done)
  /\ UNCHANGED <<dirty, shown, scope, left>>

(* The mark is a statement of its own after the commit. *)
MarkDirty(c) ==
  /\ client[c].mark # NoMark
  /\ dirty' = IF dirty = NoMark THEN client[c].mark ELSE Least(dirty, client[c].mark)
  /\ client' = [client EXCEPT ![c] = Continue([@ EXCEPT !.mark = NoMark])]
  /\ UNCHANGED <<model, shown, due, scope, left, exceptions>>

(* A model the engine refuses is not built. *)
Build ==
  /\ dirty # NoMark
  /\ due.ok
  /\ shown' = [k \in Slices |-> IF ToAt(k) >= dirty THEN due.rows[k] ELSE shown[k]]
  /\ dirty' = NoMark
  /\ late' = {k \in late : ToAt(k) < dirty}
  /\ UNCHANGED <<model, due, client, scope, left, overlapped, resettled>>

Next ==
  \/ \E c \in Clients : Begin(c) \/ Validate(c) \/ SaveRow(c) \/ MarkDirty(c)
  \/ Build

Spec == Init /\ [][Next]_vars

-----------------------------------------------------------------------------
(* Properties.                                                             *)

TypeOK ==
  /\ model.accounts \in [Range(model.listed) -> [min : Int, max : Int, kind : {"cash", "debt"}, enabled : BOOLEAN]]
  /\ dirty >= 0
  /\ \A c \in Clients : client[c].phase \in {"idle", "loaded", "saving"}

SameRows(a, b) ==
  /\ Len(a) = Len(b)
  /\ \A n \in DOMAIN a : /\ a[n].date = b[n].date
                         /\ \A id \in DOMAIN a[n].bal \cap DOMAIN b[n].bal : a[n].bal[id] = b[n].bal[id]

SlicesCurrent(slices) ==
  due.ok /\ (\A c \in Clients : client[c].mark = NoMark) =>
    \A k \in slices : dirty = NoMark \/ ToAt(k) < dirty => SameRows(shown[k], due.rows[k])

(* Once every mark is made, a slice that no mark reaches still holds what  *)
(* the stored model projects: the instant a write reports is never later   *)
(* than the first day it changes (projection_dirty.go: "maps every model   *)
(* write to the earliest affected Unix instant").  The one exception is a  *)
(* transaction created with a claim on an earlier day: it is marked at its *)
(* own time (transaction_rows.go:70), and the slices from the claimed day  *)
(* up to that mark are stale until a build reaches them.                   *)
RowsCurrent == SlicesCurrent(Slices \ late)

Undated(t) == t.id \in resettled /\ t.posted <= 0
Dated(m) ==
  [m EXCEPT !.txs = [i \in DOMAIN @ |-> LET t == @[i] IN IF Undated(t) THEN [t EXCEPT !.posted = t.at] ELSE t]]

(* Requests that do not overlap leave a valid model, evaluations included, *)
(* although what is validated is a copy the handler changed and what is    *)
(* stored is what the store made of the row: cascades, cleared claims,     *)
(* kept fields and new positions (writes.go: "persists only when no        *)
(* error-severity issue exists").  The one exception is an import that     *)
(* creates a row its document calls pending: the row is stored settled     *)
(* without a posted day (transaction_rows.go:55-56), and that day is all   *)
(* that the model then lacks.                                              *)
WritesSound ==
  ~overlapped /\ (\A c \in Clients : client[c].phase # "saving") => ValidFinancialModel(Dated(model))

(* However requests overlap, a loan stays whole: its two accounts and its  *)
(* two rules exist, agree and route as its form says, or are all gone      *)
(* (display_routing.go: "Edit this rule through its loan form").  An       *)
(* import writes row by row and is not among these requests.               *)
LoanWhole ==
  (\A r \in scope.requests : r.op # "import") => ValidAccountDisplays(model)

Authored(rows) == [i \in DOMAIN rows |-> [f \in DOMAIN rows[i] \ {"source", "pending", "void", "order"} |-> rows[i][f]]]
Unranked(rows) == [i \in DOMAIN rows |-> [f \in DOMAIN rows[i] \ {"priority"} |-> rows[i][f]]]
Observed(checks) == {<<checks[i].account, checks[i].at, checks[i].balance>> : i \in DOMAIN checks}

Landed(m, doc) ==
  /\ m.accounts = doc.accounts /\ m.listed = doc.listed
  /\ m.rules = doc.rules
  /\ Authored(m.txs) = Authored(doc.txs)
  /\ Observed(m.checks) = Observed(doc.checks)
  /\ Unranked(ByPriority(m.purchases)) = Unranked(doc.purchases)
  /\ Range(m.evals) = Range(doc.evals)

(* A removed account still has payment terms, or a purchase the document   *)
(* keeps still pays from it: its removal violates a foreign key, because   *)
(* terms are never removed and purchases are rewritten later.              *)
Pinned(m, doc) ==
  \E a \in DOMAIN m.accounts \ DOMAIN doc.accounts :
    \/ a \in DOMAIN m.terms
    \/ \E i \in DOMAIN m.purchases : m.purchases[i].src = a /\ m.purchases[i].id \in IdsOf(doc.purchases)

ImportsEnd(excused(_, _)) ==
  \A c \in Clients :
    client[c].phase = "saving" /\ client'[c].phase = "idle" /\ client[c].req.op = "import" /\ ~overlapped' =>
      Landed(model', client[c].req.row) \/ excused(model', client[c].req.row)

(* An import that validates and that nothing overlaps ends with exactly    *)
(* the document's rows in the document's order: none of its calls is       *)
(* refused for a row another still refers to, and none undoes another      *)
(* (import_model.go: "Deletions run children-first").  The one exception   *)
(* is a document that removes a pinned account: that import stops halfway. *)
(* Payment terms and account displays are not compared: an import over a   *)
(* stored model writes neither (import_model.go:109-229).                  *)
ImportLands == [][ImportsEnd(Pinned)]_vars

(* Moving a row of a valid model is never refused: the order of the rules  *)
(* is no part of what makes a model valid (writes.go, moveBeforeID).       *)
MovesAccepted ==
  ValidFinancialModel(model) =>
    \A r \in scope.requests :
      r.op = "move rule" /\ MovableIn(RowIds(model.rules), r.id, r.row) => Accepted(model, PlanOf(model, r, <<>>))
=============================================================================
