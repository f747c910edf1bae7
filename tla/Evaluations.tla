---------------------------- MODULE Evaluations -----------------------------
(***************************************************************************)
(* The evaluations answered from a finished projection:                    *)
(* backend/internal/domain evaluation_fi.go, evaluation_fi_bounds.go,      *)
(* evaluation_fi_result.go, evaluation_cycle.go, evaluation_fulfillment.go *)
(* and evaluation_whatif.go.                                               *)
(*                                                                         *)
(* Financial independence asks, for each monthly start date, whether the   *)
(* chosen assets and cashflows carry the expenses for some years.  It      *)
(* branches from the projection: the ledger at the date is rebuilt from    *)
(* the projection's rows and events, the continuing transactions are       *)
(* executed again, the cashflows are read from the projection and every    *)
(* month the rest of the expenses is withdrawn from the assets.  A plan is *)
(*   [sources    <<[type, id, included, rate]>>  (type asset or cashflow,  *)
(*                                                rate 0: the plan's)      *)
(*    rate, continuing, target, growth, basis, minimum, years, policy]     *)
(* and comes with the request (req.plan, NoPlan for none).  Percentages    *)
(* are rounded down; the growth of expenses is linear in days, in the code *)
(* compound.                                                               *)
(***************************************************************************)
EXTENDS Funding

CONSTANT NoPlan

VARIABLE fi   \* [stage, rows, outcomes]: the candidate rows and their outcomes

fiEpsilon == 1    \* FIShortfallTolerance, one unit of money

-----------------------------------------------------------------------------
(* The plan.                                                               *)

(* Sources and continuing ids that still exist. *)
AvailableFIPlan(m, plan) ==
  [plan EXCEPT
     !.sources = SelectSeq(@, LAMBDA s : s.id \in (IF s.type = "asset" THEN DOMAIN m.accounts ELSE Ids(m))),
     !.continuing = @ \cap Ids(m)]

(* Monthly start dates whose whole test fits into the projection. *)
BuildFICandidateDates(start, end, years) ==
  {d \in {AddMonthsClamped(start, n) : n \in 0 .. MonthsApart(start, end)} : AddYearsClamped(d, years) <= end}

(* The withdrawal rate of each selected asset: its last included entry. *)
SelectedAssetRates(plan) ==
  LET entries(a) == {n \in DOMAIN plan.sources :
                       plan.sources[n].type = "asset" /\ plan.sources[n].included /\ plan.sources[n].id = a}
      last(a) == CHOOSE n \in entries(a) : \A k \in entries(a) : k <= n
      rate(n) == IF plan.sources[n].rate > 0 THEN plan.sources[n].rate ELSE plan.rate
  IN  [a \in {plan.sources[n].id : n \in {k \in DOMAIN plan.sources : entries(plan.sources[k].id) # {}}} |->
         rate(last(a))]

SelectedAssetOrder(plan) ==
  LET rates == SelectedAssetRates(plan)
  IN  FoldLeft(LAMBDA s, x : IF x.id \in DOMAIN rates /\ ~Contains(s, x.id) THEN Append(s, x.id) ELSE s,
               <<>>, plan.sources)

SelectedCashflowIds(plan) ==
  {plan.sources[n].id : n \in {k \in DOMAIN plan.sources :
                                 plan.sources[k].type = "cashflow" /\ plan.sources[k].included}}

ExpenseAt(plan, start, candidate, d) ==
  LET days == Most(0, DaysBetween(IF plan.basis = "projection-start" THEN start ELSE candidate, d))
  IN  plan.target + (plan.target * plan.growth * days) \div 36525

-----------------------------------------------------------------------------
(* Reading the projection.                                                 *)

BalancesAt(m, rows, d) ==
  LET before == {n \in DOMAIN rows : rows[n].date <= d}
  IN  IF before = {} THEN [a \in DOMAIN m.accounts |-> 0]
      ELSE rows[CHOOSE n \in before : \A k \in before : k <= n].bal

RealizedBetween(log, ids, after, upTo) ==
  FoldLeft(LAMBDA total, e : total + (IF e.id \in ids /\ e.date > after /\ e.date <= upTo THEN e.realized ELSE 0),
           0, log)

SumOver(order, f(_)) == FoldLeft(LAMBDA total, a : total + f(a), 0, order)

(* What the assets and cashflows cover on a start date. *)
FIRow(m, r, start, plan, d) ==
  LET bal == BalancesAt(m, r.rows, d)
      order == SelectedAssetOrder(plan)
      rates == SelectedAssetRates(plan)
      capacity == SumOver(order, LAMBDA a : (Most(0, bal[a]) * rates[a]) \div 100)
      income == RealizedBetween(r.log, SelectedCashflowIds(plan), d, AddYearsClamped(d, 1))
      target == ExpenseAt(plan, start, d, d)
      covered == target > 0 /\ income + capacity >= target
  IN  [date |-> d, capacity |-> capacity, covered |-> covered,
       assets |-> SumOver(order, LAMBDA a : Most(0, bal[a])),
       eligible |-> covered /\ NetWorth(m, bal) >= plan.minimum]

-----------------------------------------------------------------------------
(* The branch.                                                             *)

(* Cashflows are observed from the projection, continuing ids executed     *)
(* again, everything else left out.                                        *)
BranchModel(m, kept) ==
  [m EXCEPT !.txs = SelectSeq(@, LAMBDA t : t.enabled /\ t.id \in kept),
            !.rules = SelectSeq(@, LAMBDA t : t.enabled /\ t.id \in kept)]

(* The ledger on a date: the one the simulation started with and the       *)
(* events up to the date; a loss does not consume the cap.                 *)
(* Mutant: a loss gives the cap back. *)
InitializeBranchStateLoss(m, r, d) ==
  LET observe(st, e) ==
        IF e.date > d THEN st
        ELSE [st EXCEPT !.known = @ \cup {e.id}, !.latest[e.id] = e.realized, !.latestDate[e.id] = e.date,
                        !.year[e.id][YearOf(e.date)] = @ + e.realized]
  IN  FoldLeft(observe, [r.base EXCEPT !.bal = BalancesAt(m, r.rows, d)], r.log)

InitializeBranchState(m, r, d) ==
  LET observe(st, e) ==
        IF e.date > d THEN st
        ELSE [st EXCEPT !.known = @ \cup {e.id}, !.latest[e.id] = e.realized, !.latestDate[e.id] = e.date,
                        !.year[e.id][YearOf(e.date)] = @ + Most(0, e.realized)]
  IN  FoldLeft(observe, [r.base EXCEPT !.bal = BalancesAt(m, r.rows, d)], r.log)

BranchEvents(m, kept, after, upTo) ==
  SortSeq(Listed({o \in ResolveOccurrences(BranchModel(m, kept), after, upTo) : o.date > after}), ByDate)

BaseRealized(log, o) ==
  LET same == {n \in DOMAIN log : log[n].id = o.id /\ log[n].date = o.date}
  IN  IF same = {} THEN 0 ELSE log[CHOOSE n \in same : \A k \in same : k <= n].realized

(* b is [st, income, ok, ...]. *)
BranchExecuted(b, done) == IF done.ok THEN [b EXCEPT !.st = done.st] ELSE [b EXCEPT !.ok = FALSE]

ApplyBranchEvent(m, r, start, cashflows, b, o) ==
  LET base == BaseRealized(r.log, o)
  IN  IF ~b.ok THEN b
      ELSE IF o.id \in cashflows
      THEN [b EXCEPT !.st = Observe(b.st, o, base, b.st.bal), !.income = @ + base]
      ELSE BranchExecuted(b, ExecuteTransaction(m, r.sample, start, b.st, o, FALSE))

(* One withdrawal from an asset: no more than its floor, its balance and   *)
(* what the year still allows leave.                                       *)
Withdraw(m, b, a, requested, limit) ==
  LET o == [src |-> a, dests |-> <<>>]
      realized == ResolveAccountTransaction(m, b.st.bal, o, requested, limit)
  IN  [b EXCEPT !.st.bal = ApplyAccountTransaction(m, b.st.bal, o, realized),
                !.allowance[a] = Most(0, @ - realized), !.due = @ - realized]

(* The rest of a month's expenses is asked of the assets in proportion to  *)
(* what each can give, the last taking what is left.                       *)
CapacityOf(m, b, a) == Least(WithdrawableAmount(m, b.st.bal, a), Least(Most(0, b.st.bal[a]), b.allowance[a]))

WithdrawShares(m, order, b, total) ==
  LET share(a) == IF total > 0 THEN (b.due * CapacityOf(m, b, a)) \div total ELSE b.due \div Len(order)
      requested(n) == IF n = Len(order) THEN b.due - SumOver(Front(order), share) ELSE share(order[n])
  IN  FoldLeft(LAMBDA x, n : Withdraw(m, x, order[n], requested(n),
                                      Least(Most(0, b.st.bal[order[n]]), b.allowance[order[n]])),
               b, [n \in DOMAIN order |-> n])

PayMonth(m, order, from, b) ==
  LET paid == WithdrawShares(m, order, b, SumOver(order, LAMBDA a : CapacityOf(m, b, a)))
  IN  [paid EXCEPT !.short = IF paid.due > fiEpsilon /\ @ = 0 THEN from ELSE @]

SettleMonth(m, start, plan, candidate, from, b) ==
  IF ~b.ok THEN b
  ELSE PayMonth(m, SelectedAssetOrder(plan), from,
                [b EXCEPT !.due = Most(0, ExpenseAt(plan, start, candidate, from) \div 12 - b.income)])

RenewAllowances(b, rates) ==
  [b EXCEPT !.allowance = [a \in DOMAIN rates |-> (Most(0, b.st.bal[a]) * rates[a]) \div 100]]

(* One month: each twelfth month renews the allowances, the events of the  *)
(* month happen, and what the income leaves of the expenses is withdrawn.  *)
AdvanceMonth(m, r, start, plan, candidate, events, b, month) ==
  LET from == AddMonthsClamped(candidate, month)
      to == AddMonthsClamped(candidate, month + 1)
      renewed == IF month % 12 # 0 THEN b ELSE RenewAllowances(b, SelectedAssetRates(plan))
  IN  SettleMonth(m, start, plan, candidate, from,
                  FoldLeft(LAMBDA x, o : ApplyBranchEvent(m, r, start, SelectedCashflowIds(plan), x, o),
                           [renewed EXCEPT !.income = 0],
                           SelectSeq(events, LAMBDA o : o.date > from /\ o.date <= to)))

(* The whole cycle, stopped by an error, and by a shortfall in the summary *)
(* pass.                                                                   *)
RunCycle(m, r, start, plan, candidate, summary) ==
  LET kept == SelectedCashflowIds(plan) \cup plan.continuing
      events == BranchEvents(m, kept, candidate, AddYearsClamped(candidate, plan.years))
  IN  FoldLeft(LAMBDA b, n : IF ~b.ok \/ (summary /\ b.short # 0) THEN b
                             ELSE AdvanceMonth(m, r, start, plan, candidate, events, b, n - 1),
               [st |-> InitializeBranchState(m, r, candidate), income |-> 0, allowance |-> <<>>, due |-> 0,
                short |-> 0, ok |-> TRUE],
               [n \in 1 .. plan.years * 12 |-> n])

PrincipalKept(plan, before, after) ==
  CASE plan.policy = "allow-drawdown" -> TRUE
    [] plan.policy = "preserve-nominal" -> after + fiEpsilon >= before
    [] plan.policy = "preserve-real" -> (after * 100) \div (100 + plan.growth * plan.years) + fiEpsilon >= before

-----------------------------------------------------------------------------
(* Bounds that reject a start date without running its cycle.              *)

(* Mutant: the cashflows of the year are forgotten. *)
MinimumAnnualExpenses(r, start, plan, candidate) ==
  LET month(n) == Most(0, ExpenseAt(plan, start, candidate, AddMonthsClamped(candidate, n)) \div 12 - fiEpsilon)
  IN  [y \in 1 .. plan.years |-> SumOver([n \in 1 .. 12 |-> 12 * (y - 1) + n - 1], month)]

MinimumAnnualWithdrawals(r, start, plan, candidate) ==
  LET month(n) == Most(0, ExpenseAt(plan, start, candidate, AddMonthsClamped(candidate, n)) \div 12 - fiEpsilon
                          - RealizedBetween(r.log, SelectedCashflowIds(plan), AddMonthsClamped(candidate, n),
                                            AddMonthsClamped(candidate, n + 1)))
  IN  [y \in 1 .. plan.years |-> SumOver([n \in 1 .. 12 |-> 12 * (y - 1) + n - 1], month)]

OptimisticLaterCapacity(m, bal, plan) ==
  LET rates == SelectedAssetRates(plan)
      best(a) == LET upper == Most(bal[a], m.accounts[a].max)
                 IN  IF rates[a] = 0 THEN 0
                     ELSE Least(Most(0, upper - m.accounts[a].min), (Most(0, upper) * rates[a]) \div 100)
  IN  SumOver(SelectedAssetOrder(plan), best)

HasInsufficientOptimisticCapacity(m, r, start, plan, row) ==
  LET needed == MinimumAnnualWithdrawals(r, start, plan, row.date)
      later == OptimisticLaterCapacity(m, BalancesAt(m, r.rows, row.date), plan)
  IN  \E y \in DOMAIN needed : needed[y] > (IF y = 1 THEN row.capacity ELSE later)

Outcome(row, status, attempted, short, established) ==
  [date |-> row.date, status |-> status, attempted |-> attempted, short |-> short, established |-> established]

(* A start date tested: not at all when it is not eligible, by the bounds  *)
(* first in the summary pass, and by its cycle.  An ineligible date is     *)
(* still run for the detailed pass of an unsampled projection.             *)
CycleOutcome(plan, row, summary, b) ==
  LET ending == SumOver(SelectedAssetOrder(plan), LAMBDA a : Most(0, b.st.bal[a]))
      held == row.eligible /\ b.short = 0 /\ PrincipalKept(plan, row.assets, ending)
  IN  IF ~b.ok THEN Outcome(row, "error", TRUE, 0, FALSE)
      ELSE Outcome(row, IF summary THEN "summary" ELSE IF row.eligible THEN "evaluated" ELSE "ineligible",
                   TRUE, b.short, held)

EvaluateCycle(m, r, start, plan, row, summary) ==
  IF ~row.eligible /\ (summary \/ r.sample.on) THEN Outcome(row, "ineligible", FALSE, 0, FALSE)
  ELSE IF summary /\ HasInsufficientOptimisticCapacity(m, r, start, plan, row)
  THEN Outcome(row, "summary", FALSE, 0, FALSE)
  ELSE CycleOutcome(plan, row, summary, RunCycle(m, r, start, plan, row.date, summary))

(* The date shown in detail: the first established, else the last that was *)
(* tried, else the last.                                                   *)
SelectFIOutcomeIndex(outcomes) ==
  LET good == {n \in DOMAIN outcomes : outcomes[n].established}
      tried == {n \in DOMAIN outcomes : outcomes[n].status # "ineligible"}
      best(S, T) == CHOOSE n \in S : \A k \in S : k = n \/ (IF T THEN n < k ELSE k < n)
  IN  IF good # {} THEN best(good, TRUE) ELSE IF tried # {} THEN best(tried, FALSE) ELSE Len(outcomes)

FirstSelfSustainingDate(outcomes) ==
  LET good == {n \in DOMAIN outcomes : outcomes[n].established}
  IN  IF good = {} THEN 0 ELSE outcomes[CHOOSE n \in good : \A k \in good : n <= k].date

-----------------------------------------------------------------------------
(* The evaluation, one start date a step.                                  *)

evaluationVars == <<engineVars, purchaseVars, fi>>

Plan == AvailableFIPlan(req.model, req.plan)

EvaluationsInit ==
  /\ FundingInit
  /\ fi = [stage |-> "none", rows |-> <<>>, outcomes |-> <<>>]

StartIndependence ==
  /\ phase = "done"
  /\ req.plan # NoPlan
  /\ fi.stage = "none"
  /\ fi' = [stage |-> "summary",
            rows |-> LET dates == BuildFICandidateDates(req.start, LastDay(req), Plan.years)
                         order == SortSeq(Listed(dates), <)
                     IN  [n \in DOMAIN order |-> FIRow(req.model, run, req.start, Plan, order[n])],
            outcomes |-> <<>>]
  /\ UNCHANGED <<engineVars, purchaseVars>>

CycleSummary ==
  /\ fi.stage = "summary"
  /\ Len(fi.outcomes) < Len(fi.rows)
  /\ \E outcome \in {EvaluateCycle(req.model, run, req.start, Plan, fi.rows[Len(fi.outcomes) + 1], TRUE)} :
         fi' = [fi EXCEPT !.outcomes = Append(@, outcome),
                          !.stage = IF outcome.status = "error" THEN "failed"
                                    ELSE IF outcome.established THEN "detail" ELSE @]
  /\ UNCHANGED <<engineVars, purchaseVars>>

(* A sampled run keeps the summary; otherwise the selected date is run     *)
(* again in detail.                                                        *)
CycleDetail ==
  /\ \/ fi.stage = "detail"
     \/ fi.stage = "summary" /\ Len(fi.outcomes) = Len(fi.rows)
  /\ LET n == SelectFIOutcomeIndex(fi.outcomes)
         outcome == EvaluateCycle(req.model, run, req.start, Plan, fi.rows[n], FALSE)
     IN  fi' = IF run.sample.on \/ fi.outcomes = <<>> THEN [fi EXCEPT !.stage = "ended"]
               ELSE [fi EXCEPT !.outcomes[n] = outcome,
                               !.stage = IF outcome.status = "error" THEN "failed" ELSE "ended"]
  /\ UNCHANGED <<engineVars, purchaseVars>>

EvaluationsNext ==
  \/ FundingNext /\ UNCHANGED fi
  \/ StartIndependence
  \/ CycleSummary
  \/ CycleDetail

EvaluationsSpec == EvaluationsInit /\ [][EvaluationsNext]_evaluationVars

-----------------------------------------------------------------------------
(* Evaluations that only read.                                             *)

FirstDate(dates) == IF dates = {} THEN 0 ELSE CHOOSE d \in dates : \A e \in dates : d <= e

FirstUnderfulfilledDate(m, r) ==
  FirstDate({r.log[n].date : n \in {k \in DOMAIN r.log : EvaluateTransactionEvent(m, r, k).shortfall > 0}})

(* The statement cycle a day lies in; statement days end at the 28th. *)
ResolveStatementCycle(today, statementDay) ==
  LET day == Least(28, Most(1, statementDay))
      this == Date(YearOf(today), MonthOf(today), day)
      from == IF DayOfMonth(today) < day THEN AddMonthsClamped(this, -1) ELSE this
  IN  [from |-> from, to |-> AddMonthsClamped(from, 1)]

CycleOutflow(e, accounts) ==
  -FoldSet(LAMBDA a, total : total + Least(0, e.moved[a]), 0, accounts \cap DOMAIN e.moved)

(* Spend of a cycle: the transactions up to the start from the ledger the  *)
(* simulation began with, those of the start day the simulation executed   *)
(* left out, and the outflow of the simulated events.                      *)
CycleSpend(m, r, start, accounts, statementDay) ==
  LET cycle == ResolveStatementCycle(start, statementDay)
      onStart == {r.log[n].id : n \in {k \in DOMAIN r.log : r.log[k].date = start}}
      day(i) == DayOf(TransactionInstant(m.txs[i]))
      recorded == {i \in DOMAIN m.txs :
                     /\ m.txs[i].enabled /\ m.txs[i].src \in accounts
                     /\ day(i) \in cycle.from .. start
                     /\ ~(day(i) = start /\ m.txs[i].id \in onStart)}
      window == SelectSeq(r.log, LAMBDA e : e.date >= Most(cycle.from, start) /\ e.date < cycle.to)
  IN  FoldSet(LAMBDA i, total : total + Most(0, r.base.year[m.txs[i].id][YearOf(day(i))]), 0, recorded)
      + FoldLeft(LAMBDA total, e : total + CycleOutflow(e, accounts), 0, window)

(* A what-if disables rows of the model and adds schedules, and simulates  *)
(* it from the state the projection started with.  The verdict reads a field of the events   *)
(* that only the public copy of a path fills, so it is always funded.      *)
WithIds(st, ids, years) ==
  [st EXCEPT !.latest = [i \in ids |-> 0] @@ @, !.latestDate = [i \in ids |-> 0] @@ @,
             !.year = [i \in ids |-> [y \in years |-> 0]] @@ @]

Overlaid(m, disabled, added) ==
  [m EXCEPT !.txs = [n \in DOMAIN @ |-> [@[n] EXCEPT !.enabled = @ /\ m.txs[n].id \notin disabled]],
            !.rules = [n \in DOMAIN @ |-> [@[n] EXCEPT !.enabled = @ /\ m.rules[n].id \notin disabled]] \o added]

EvaluateWhatIf(request, r, disabled, added) ==
  LET effective == Overlaid(request.model, disabled, added)
      start == WithIds(r.base, {added[n].id : n \in DOMAIN added}, Years(request))
      branch == Simulate([request EXCEPT !.model = effective], [r EXCEPT !.base = start, !.ok = TRUE], {}, {})
  IN  [funded |-> TRUE, events |-> Len(branch.log), worth |-> SumFunction(branch.st.bal), branch |-> branch]

-----------------------------------------------------------------------------
(* Properties.                                                             *)

(* The branch rebuilt on any date with an event goes on exactly as the     *)
(* projection did: with every transaction continuing and nothing           *)
(* withdrawn, the balances of the last day, the amounts last realized and  *)
(* the cap ledgers are the projection's (evaluation_fi.go: "Branch state   *)
(* only; never a fresh Prepare").                                          *)
BranchContinues ==
  phase = "done" /\ fi.stage = "none" =>
    LET m == req.model
        branch(d) ==
          FoldLeft(LAMBDA b, o : ApplyBranchEvent(m, run, req.start, {}, b, o),
                   [st |-> InitializeBranchState(m, run, d), income |-> 0, ok |-> TRUE],
                   BranchEvents(m, Ids(m), d, LastDay(req))).st
    IN  \A d \in {run.log[n].date : n \in DOMAIN run.log} \cup {req.start} :
          /\ branch(d).bal = run.st.bal
          /\ branch(d).latest = run.st.latest
          /\ branch(d).year = run.st.year

(* The reported date is the first from which the plan really holds: the    *)
(* cycle of every earlier date, run in full and without the bounds, fails, *)
(* and that of the reported date holds in both passes; when no date is     *)
(* reported none holds.  Assets whose floor is above zero are left out:    *)
(* the bounds underestimate them.                                          *)
SustainedEarliest ==
  fi.stage = "ended" /\ (\A a \in DOMAIN SelectedAssetRates(Plan) : req.model.accounts[a].min <= 0) =>
    LET first == FirstSelfSustainingDate(fi.outcomes)
        holds(row) == EvaluateCycle(req.model, run, req.start, Plan, row, FALSE).established
    IN  \A n \in DOMAIN fi.rows :
          /\ first = 0 \/ fi.rows[n].date < first => ~holds(fi.rows[n])
          /\ fi.rows[n].date = first => holds(fi.rows[n])

(* The bounds only reject hopeless dates, whatever the floors              *)
(* (evaluation_fi_bounds.go: "reports a hopeless candidate").              *)
HopelessIsHopeless ==
  fi.stage = "ended" =>
    \A n \in DOMAIN fi.rows :
      HasInsufficientOptimisticCapacity(req.model, run, req.start, Plan, fi.rows[n]) =>
        ~EvaluateCycle(req.model, run, req.start, Plan, fi.rows[n], FALSE).established

(* The spend of the statement cycle counts every recorded transaction of   *)
(* it and every simulated movement of it exactly once, wherever the cut    *)
(* falls in the start day (evaluation_cycle.go: "skipped to avoid double   *)
(* counting").                                                             *)
SpendCountedOnce ==
  phase = "done" =>
    \A accounts \in {{"cash"}, {"cash", "card"}}, day \in {10, 31} :
      LET cycle == ResolveStatementCycle(req.start, day)
          paid(e) == \E i \in DOMAIN req.model.txs : req.model.txs[i].id = e.id /\ req.model.txs[i].src \in accounts
          before == SelectSeq(run.past, LAMBDA e : e.kind = "tx" /\ e.date >= cycle.from /\ paid(e))
          later == SelectSeq(run.log, LAMBDA e : e.date >= cycle.from /\ e.date < cycle.to)
      IN  CycleSpend(req.model, run, req.start, accounts, day)
            = FoldLeft(LAMBDA total, e : total + e.realized, 0, before)
              + FoldLeft(LAMBDA total, e : total + CycleOutflow(e, accounts), 0, later)

(* What is shown of the events: the evidence of each and the spend of the  *)
(* statement cycle.                                                        *)
ReportsExact == EvidenceExact /\ SpendCountedOnce

(* A what-if that says everything is funded leaves nothing unfunded. *)
WhatIfHonest ==
  phase = "done" =>
    LET w == EvaluateWhatIf(req, run, {}, <<>>)
    IN  w.funded => FirstUnderfulfilledDate(req.model, w.branch) = 0
=============================================================================
