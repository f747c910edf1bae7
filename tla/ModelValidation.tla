-------------------------- MODULE ModelValidation ---------------------------
(***************************************************************************)
(* What makes a stored model valid: backend/internal/domain validation.go, *)
(* purchase_validation.go and payment_terms.go.  Issues are abstracted to  *)
(* whether an error is reported; warnings, wording and the checks of       *)
(* malformed JSON (dates, numbers, kinds) are left out.                    *)
(***************************************************************************)
EXTENDS Kernel

IdsOf(rows) == {rows[i].id : i \in DOMAIN rows}
Distinct(rows) == \A i, j \in DOMAIN rows : rows[i].id = rows[j].id => i = j

(* Accounts, transactions, schedules and purchases share one namespace. *)
ValidIds(m) ==
  /\ Distinct(m.txs) /\ Distinct(m.rules) /\ Distinct(m.purchases)
  /\ IdsOf(m.txs) \cap IdsOf(m.rules) = {}
  /\ IdsOf(m.purchases) \cap (IdsOf(m.txs) \cup IdsOf(m.rules)) = {}
  /\ DOMAIN m.accounts \cap Ids(m) = {}

ValidCheckpoints(m) ==
  /\ \A i \in DOMAIN m.checks : m.checks[i].account \in DOMAIN m.accounts /\ m.checks[i].at > 0
  /\ \A i, j \in DOMAIN m.checks :
       m.checks[i].account = m.checks[j].account /\ m.checks[i].at = m.checks[j].at => i = j

(* The accounts and transactions an amount refers to exist. *)
ValidAmount(m, amount) ==
  CASE amount.by = "literal" -> TRUE
    [] amount.by = "model-value" -> amount.id \in Ids(m) \cup DOMAIN m.accounts
    [] amount.by = "late-fee" -> amount.payment \in Ids(m) /\ amount.id \in DOMAIN m.accounts
    [] OTHER -> amount.id \in DOMAIN m.accounts

(* The transactions an amount waits for. *)
DependsOn(m, amount) ==
  CASE amount.by = "model-value" -> {amount.id} \cap Ids(m)
    [] amount.by = "late-fee" -> {amount.payment} \cap Ids(m)
    [] OTHER -> {}

ValidTransactionAmounts(m) ==
  /\ \A i \in DOMAIN m.txs : ValidAmount(m, m.txs[i].amount)
  /\ \A i \in DOMAIN m.rules : ValidAmount(m, m.rules[i].amount)

Dependencies(m, ids) ==
  UNION {DependsOn(m, m.txs[i].amount) : i \in {j \in DOMAIN m.txs : m.txs[j].id \in ids}}
  \cup UNION {DependsOn(m, m.rules[i].amount) : i \in {j \in DOMAIN m.rules : m.rules[j].id \in ids}}

(* No amount leads back to itself through the amounts it waits for. *)
ValidTransactionDependencies(m) ==
  LET reach(i) == FoldLeft(LAMBDA S, n : S \cup Dependencies(m, S), Dependencies(m, {i}),
                           [n \in 1 .. Cardinality(Ids(m)) |-> n])
  IN  \A i \in Ids(m) : i \notin reach(i)

ValidRoute(m, row) ==
  /\ row.src = NoAccount \/ row.src \in DOMAIN m.accounts
  /\ \A n \in DOMAIN row.dests : row.dests[n] \in DOMAIN m.accounts
  /\ \A n, k \in DOMAIN row.dests : row.dests[n] = row.dests[k] => n = k
  /\ row.src # NoAccount \/ row.dests # <<>>
  /\ \A n \in DOMAIN row.dests : row.dests[n] # row.src

(* A pending charge or a void hold has no posted date. *)
ValidTransactionRoutes(m) ==
  \A i \in DOMAIN m.txs : /\ ValidRoute(m, m.txs[i])
                          /\ m.txs[i].at > 0
                          /\ m.txs[i].posted > 0 \/ m.txs[i].pending \/ m.txs[i].void

ValidSchedules(m) ==
  \A i \in DOMAIN m.rules :
    /\ ValidRoute(m, m.rules[i])
    /\ m.rules[i].freq \in Frequencies
    /\ m.rules[i].end = 0 \/ m.rules[i].end >= m.rules[i].start

NoClaim == [rule |-> "", date |-> 0]
HasClaim(t) == t.claim # NoClaim

(* A claim names a date of an existing schedule, no two claims the same. *)
ValidTransactionClaims(m) ==
  LET claims == {i \in DOMAIN m.txs : HasClaim(m.txs[i])}
  IN  /\ \A i \in claims : \E r \in DOMAIN m.rules :
           m.rules[r].id = m.txs[i].claim.rule /\ RuleOccursOn(m.rules[r], m.txs[i].claim.date)
      /\ \A i, j \in claims : m.txs[i].claim = m.txs[j].claim => i = j

ValidAccountBounds(m) == \A a \in DOMAIN m.accounts : m.accounts[a].min <= m.accounts[a].max

(* Purchases have a cost and a funding account, and no amount waits for    *)
(* one.                                                                    *)
ValidPurchases(m) ==
  /\ \A i \in DOMAIN m.purchases :
       m.purchases[i].cost > 0 /\ m.purchases[i].priority >= 0 /\ m.purchases[i].src \in DOMAIN m.accounts
  /\ \A i \in DOMAIN m.txs : DependsOn(m, m.txs[i].amount) \cap IdsOf(m.purchases) = {}
  /\ \A i \in DOMAIN m.rules : DependsOn(m, m.rules[i].amount) \cap IdsOf(m.purchases) = {}

ValidPaymentTerms(m) == \A a \in DOMAIN m.terms : a \in DOMAIN m.accounts /\ m.accounts[a].kind = "debt"

(* The rules of a loan: periodic interest on the principal and a fixed     *)
(* payment, without end or cap.                                            *)
LoanRuleTerms(id, charge, payment) ==
  /\ charge.end = 0 /\ payment.end = 0
  /\ charge.cap = Unlimited /\ payment.cap = Unlimited
  /\ charge.amount.by = "loan-interest" /\ charge.amount.id = id
  /\ payment.amount.by = "literal" /\ payment.amount.value >= 0

(* A loan is two debt accounts of no other loan, and its two rules: one    *)
(* takes interest from the second, one pays the second and then the first. *)
ValidAccountDisplays(m) ==
  \A id \in DOMAIN m.loans :
    LET loan == m.loans[id]
        members == {id, loan.interest}
        rule(r) == m.rules[CHOOSE i \in DOMAIN m.rules : m.rules[i].id = r]
    IN  /\ loan.interest # id
        /\ members \subseteq DOMAIN m.accounts
        /\ \A a \in members : /\ m.accounts[a].kind = "debt"
                              /\ m.accounts[a].max = 0
                              /\ m.accounts[a].enabled = m.accounts[id].enabled
                              /\ a \in DOMAIN m.loans => a = id
                              /\ \A other \in DOMAIN m.loans \ {id} : a # m.loans[other].interest
        /\ {loan.charge, loan.payment} \subseteq IdsOf(m.rules)
        /\ LoanRuleTerms(id, rule(loan.charge), rule(loan.payment))
        /\ \A r \in {loan.charge, loan.payment} : rule(r).enabled = m.accounts[id].enabled
        /\ rule(loan.charge).src = loan.interest /\ rule(loan.charge).dests = <<>>
        /\ rule(loan.payment).dests = <<loan.interest, id>>

ValidFinanceModel(m) ==
  /\ ValidIds(m)
  /\ ValidCheckpoints(m)
  /\ ValidTransactionAmounts(m)
  /\ ValidPurchases(m)
  /\ ValidTransactionDependencies(m)
  /\ ValidTransactionRoutes(m)
  /\ ValidSchedules(m)
  /\ ValidTransactionClaims(m)
  /\ ValidAccountBounds(m)
  /\ ValidPaymentTerms(m)
  /\ ValidAccountDisplays(m)

(* The accounts evaluations name that the model does not have. *)
EvaluationReferenceIssues(m) ==
  UNION {{<<m.evals[i].id, a>> : a \in m.evals[i].accounts \ DOMAIN m.accounts} : i \in DOMAIN m.evals}

ValidFinancialModel(m) == ValidFinanceModel(m) /\ Distinct(m.evals) /\ EvaluationReferenceIssues(m) = {}

(* Mutant: a finance write is validated without the evaluations. *)
ValidFinanceWriteChangeAlone(baseline, candidate) == ValidFinanceModel(candidate)

(* A finance write may not break an evaluation; one already broken does    *)
(* not stop it.                                                            *)
ValidFinanceWriteChange(baseline, candidate) ==
  ValidFinanceModel(candidate) /\ EvaluationReferenceIssues(candidate) \subseteq EvaluationReferenceIssues(baseline)
=============================================================================
