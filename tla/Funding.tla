------------------------------ MODULE Funding -------------------------------
(***************************************************************************)
(* The evidence behind a projection and the planned purchases scheduled on *)
(* it: backend/internal/domain funding.go, evaluation_constraints.go,      *)
(* purchases.go and evaluation_purchases.go.  The evidence of an event     *)
(* (the balances before it, what its cap left, which constraint bound) is  *)
(* not recorded by the simulation: it is reconstructed from the rows and   *)
(* the events afterwards.                                                  *)
(***************************************************************************)
EXTENDS Engine

VARIABLES
  buying,    \* the purchases not yet tried, by priority
  bought,    \* the accepted ones: [purchase, date]
  accepted,  \* the run with the accepted purchases
  blocked    \* the queue has stopped at a purchase

purchaseVars == <<buying, bought, accepted, blocked>>

-----------------------------------------------------------------------------
(* Evidence.                                                               *)

(* The transaction or schedule behind an event; a planned purchase is      *)
(* neither.                                                                *)
TransactionOf(m, id) ==
  LET rows == m.txs \o m.rules
  IN  IF \E i \in DOMAIN rows : rows[i].id = id
      THEN rows[CHOOSE i \in DOMAIN rows : rows[i].id = id]
      ELSE [id |-> "", src |-> NoAccount, dests |-> <<>>]

CapOf(m, id) ==
  IF \E i \in DOMAIN m.rules : m.rules[i].id = id
  THEN m.rules[CHOOSE i \in DOMAIN m.rules : m.rules[i].id = id].cap ELSE Unlimited

(* Balances before an event: the projected row of its date, with the       *)
(* events of that date from this one on taken back.                        *)
BalancesBefore(r, n) ==
  LET d == r.log[n].date
      row == CHOOSE i \in DOMAIN r.rows : ~r.rows[i].historical /\ r.rows[i].date = d
      later == {k \in n .. Len(r.log) : r.log[k].date = d}
  IN  [a \in DOMAIN r.rows[row].bal |->
         r.rows[row].bal[a] - FoldSet(LAMBDA k, total : total + r.log[k].moved[a], 0, later)]

(* What the cap left before an event: the ledger the simulation started    *)
(* with and the events since; a loss consumes nothing.                     *)
(* Mutant: the year's ledger before the simulation is forgotten. *)
CapRemainingFresh(m, r, n) ==
  LET e == r.log[n]
      earlier == {k \in 1 .. n - 1 : r.log[k].id = e.id /\ YearOf(r.log[k].date) = YearOf(e.date)}
      used == FoldSet(LAMBDA k, total : total + Most(0, r.log[k].realized), 0, earlier)
  IN  IF Infinite(CapOf(m, e.id)) THEN Unlimited ELSE Most(0, CapOf(m, e.id) - used)

CapRemaining(m, r, n) ==
  LET e == r.log[n]
      earlier == {k \in 1 .. n - 1 : r.log[k].id = e.id /\ YearOf(r.log[k].date) = YearOf(e.date)}
      used == FoldSet(LAMBDA k, total : total + Most(0, r.log[k].realized),
                      r.base.year[e.id][YearOf(e.date)], earlier)
  IN  IF Infinite(CapOf(m, e.id)) THEN Unlimited ELSE Most(0, CapOf(m, e.id) - used)

(* The constraints that bound an event that moved less than asked. *)
ClassifyTransactionConstraints(m, o, e, before, limit) ==
  IF e.requested <= e.realized THEN {}
  ELSE IF o.src # NoAccount /\ o.src \notin DOMAIN m.accounts THEN {"source-unavailable"}
  ELSE {c \in {"source-floor", "destination-ceiling", "action-limit"} :
          CASE c = "source-floor" -> o.src # NoAccount /\ WithdrawableAmount(m, before, o.src) = e.realized
            [] c = "destination-ceiling" -> /\ o.dests # <<>>
                                            /\ TotalDestinationHeadroom(m, before, o.dests) = e.realized
            [] c = "action-limit" -> ~Infinite(limit) /\ limit = e.realized}

AvailableAmount(m, o, before, limit) ==
  LET source == IF o.src = NoAccount THEN Unlimited ELSE WithdrawableAmount(m, before, o.src)
      room == IF o.dests = <<>> THEN Unlimited ELSE TotalDestinationHeadroom(m, before, o.dests)
  IN  Least(limit, Least(source, room))

(* One event assessed: a shortfall counts against funding unless a         *)
(* destination's ceiling bound it.                                         *)
EvaluateTransactionEvent(m, r, n) ==
  LET e == r.log[n]
      o == TransactionOf(m, e.id)
      known == o.id # ""
      before == BalancesBefore(r, n)
      limit == IF known THEN CapRemaining(m, r, n) ELSE Unlimited
      binding == IF known THEN ClassifyTransactionConstraints(m, o, e, before, limit) ELSE {}
      short == Most(0, e.requested - e.realized)
      atCeiling == "destination-ceiling" \in binding
  IN  [id |-> e.id, date |-> e.date, before |-> before, binding |-> binding, limit |-> limit,
       available |-> IF binding = {} THEN Unlimited ELSE AvailableAmount(m, o, before, limit),
       destinationLimited |-> IF atCeiling THEN short ELSE 0,
       shortfall |-> IF atCeiling THEN 0 ELSE short]

HasFundingGapAfter(m, r, n) ==
  \E k \in n + 1 .. Len(r.log) : EvaluateTransactionEvent(m, r, k).shortfall > 0

-----------------------------------------------------------------------------
(* Planned purchases.                                                      *)

FundingInit ==
  /\ EngineInit
  /\ buying = <<>>
  /\ bought = <<>>
  /\ accepted = NewRun(req.model, Years(req))
  /\ blocked = FALSE

PurchaseQueue(m) ==
  LET enabled == {i \in DOMAIN m.purchases : m.purchases[i].enabled}
      before(i, j) == \/ m.purchases[i].priority < m.purchases[j].priority
                      \/ m.purchases[i].priority = m.purchases[j].priority /\ i < j
      order == SortSeq(Listed(enabled), before)
  IN  [n \in DOMAIN order |-> m.purchases[order[n]]]

(* The dates a purchase may fall on: every date with an event, the start   *)
(* and the earliest dates of the purchases.                                *)
CandidateDates(request) ==
  {d \in {p.earliest : p \in Range(PurchaseQueue(request.model))} : d \in request.start .. LastDay(request)}
  \cup {request.start}
  \cup {o.date : o \in ResolveOccurrences(request.model, request.start, LastDay(request))}

Scheduled(list) == {PurchaseOccurrence(list[n].purchase, list[n].date, n) : n \in DOMAIN list}

CandidateRun(list) == Simulate(req, run, Scheduled(list), CandidateDates(req))

LastBought == IF bought = <<>> THEN req.start ELSE Last(bought).date

(* The event of a purchase that moved its whole cost, 0 when there is none *)
FullyFunded(r, id) ==
  LET events == {n \in DOMAIN r.log : r.log[n].id = id /\ r.log[n].requested <= r.log[n].realized}
  IN  IF events = {} THEN 0 ELSE CHOOSE n \in events : \A k \in events : n <= k

Funds(r, p) == FullyFunded(r, p.id) # 0 /\ ~HasFundingGapAfter(req.model, r, FullyFunded(r, p.id))

(* A date is taken when its balance can buy the whole item and the run     *)
(* with the purchase on it funds it and everything after it.               *)
(* Mutant: what comes after the purchase is not looked at. *)
AcceptableOnAlone(p, row) ==
  /\ ~row.historical
  /\ row.date >= LastBought
  /\ row.date >= p.earliest
  /\ WithdrawableAmount(req.model, row.bal, p.src) >= p.cost
  /\ FullyFunded(CandidateRun(Append(bought, [purchase |-> p, date |-> row.date])), p.id) # 0

AcceptableOn(p, row) ==
  /\ ~row.historical
  /\ row.date >= LastBought
  /\ row.date >= p.earliest
  /\ WithdrawableAmount(req.model, row.bal, p.src) >= p.cost
  /\ Funds(CandidateRun(Append(bought, [purchase |-> p, date |-> row.date])), p)

StartPurchases ==
  /\ phase = "done"
  /\ phase' = "buying"
  /\ buying' = PurchaseQueue(req.model)
  /\ accepted' = CandidateRun(<<>>)
  /\ UNCHANGED <<req, queue, run, bought, blocked>>

(* The first purchase of the queue goes to the first date that takes it. *)
AcceptPurchase ==
  /\ phase = "buying"
  /\ ~blocked
  /\ buying # <<>>
  /\ \E n \in DOMAIN accepted.rows :
       /\ AcceptableOn(Head(buying), accepted.rows[n])
       /\ \A k \in 1 .. n - 1 : ~AcceptableOn(Head(buying), accepted.rows[k])
       /\ bought' = Append(bought, [purchase |-> Head(buying), date |-> accepted.rows[n].date])
  /\ accepted' = CandidateRun(bought')
  /\ buying' = Tail(buying)
  /\ UNCHANGED <<req, phase, queue, run, blocked>>

(* A purchase no date takes stops the queue. *)
StopQueue ==
  /\ phase = "buying"
  /\ ~blocked
  /\ buying # <<>>
  /\ \A n \in DOMAIN accepted.rows : ~AcceptableOn(Head(buying), accepted.rows[n])
  /\ blocked' = TRUE
  /\ UNCHANGED <<req, phase, queue, run, buying, bought, accepted>>

FundingNext ==
  \/ EngineNext /\ UNCHANGED purchaseVars
  \/ StartPurchases
  \/ AcceptPurchase
  \/ StopQueue

FundingSpec == FundingInit /\ [][FundingNext]_<<engineVars, purchaseVars>>

(* What the evaluation reports for a purchase: its date in the accepted    *)
(* run, 0 when it was not bought.                                          *)
PurchaseOutcome(p) ==
  IF FullyFunded(accepted, p.id) = 0 THEN 0 ELSE accepted.log[FullyFunded(accepted, p.id)].date

-----------------------------------------------------------------------------
(* Properties.                                                             *)

(* The balances the simulation had before an event, by running forward     *)
(* from its start.                                                         *)
RunningBalances(r, n) ==
  [a \in DOMAIN r.base.bal |->
     r.base.bal[a] + FoldSet(LAMBDA k, total : total + r.log[k].moved[a], 0, 1 .. n - 1)]

(* The evidence shown for an event is what the simulation met: the         *)
(* reconstructed balances are the ones it ran with, an event moved exactly *)
(* the lesser of the request and the available amount, and a shortfall of  *)
(* a transaction or schedule names a constraint (funding.go: "Display      *)
(* callers format from this result without re-deriving balances").         *)
EvidenceExact ==
  phase = "done" =>
    \A n \in DOMAIN run.log :
      LET e == run.log[n]
          v == EvaluateTransactionEvent(req.model, run, n)
      IN  /\ v.before = RunningBalances(run, n)
          /\ e.requested > e.realized => v.binding # {} /\ v.available = e.realized
          /\ e.requested >= 0 =>
               e.realized = Least(e.requested, AvailableAmount(req.model, TransactionOf(req.model, e.id), v.before, v.limit))

(* A purchase accepted for a date is funded in full and leaves everything  *)
(* after it funded, later acceptances included; purchases are bought in    *)
(* the order of the queue on dates that never go back; each takes the      *)
(* first date that any run would take, and the accepted run differs from   *)
(* the projection only from the first purchase on.                         *)
PurchasesSound ==
  phase = "buying" =>
    LET m == req.model
        first == FullyFunded(accepted, bought[1].purchase.id)
        plain == SelectSeq(accepted.log, LAMBDA e : e.kind # "purchase")
    IN  /\ \A n \in DOMAIN bought : bought[n].purchase = PurchaseQueue(m)[n]
        /\ \A n \in DOMAIN bought : PurchaseOutcome(bought[n].purchase) = bought[n].date
        /\ \A n \in DOMAIN bought : bought[n].date >= bought[n].purchase.earliest
        /\ \A n \in 1 .. Len(bought) - 1 : bought[n].date <= bought[n + 1].date
        /\ bought # <<>> =>
             /\ ~HasFundingGapAfter(m, accepted, first - 1)
             /\ SubSeq(accepted.log, 1, first - 1) = SubSeq(run.log, 1, first - 1)
        /\ bought = <<>> => accepted.log = run.log
        /\ Len(plain) = Len(run.log)

(* The last purchase could not have been bought on an earlier date: with   *)
(* the ones before it kept, every earlier date from its predecessor's on   *)
(* leaves it or something after it unfunded.                               *)
BoughtEarliest ==
  phase = "buying" /\ bought # <<>> =>
    LET p == Last(bought).purchase
        kept == Front(bought)
        from == IF kept = <<>> THEN req.start ELSE Last(kept).date
    IN  \A d \in {x \in CandidateDates(req) : x >= from /\ x >= p.earliest /\ x < Last(bought).date} :
          LET r == CandidateRun(Append(kept, [purchase |-> p, date |-> d]))
          IN  FullyFunded(r, p.id) = 0 \/ HasFundingGapAfter(req.model, r, FullyFunded(r, p.id))

(* The purchase queue is right: what is bought is funded, and as early as  *)
(* it can be.                                                              *)
PurchaseQueueRight == PurchasesSound /\ BoughtEarliest
=============================================================================
