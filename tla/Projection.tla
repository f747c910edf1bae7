----------------------------- MODULE Projection -----------------------------
(***************************************************************************)
(* The occurrences of a model and what replaying and simulating them       *)
(* leaves: backend/internal/domain recurrence.go, prepare.go, chrono.go,   *)
(* simulate.go, path.go and position.go, as operators.  History replays as *)
(* one stream of occurrences and balance observations ordered by instant;  *)
(* then every later occurrence executes date by date.  A request is        *)
(* [model, start, cut, horizon, draws]: the day the projection starts, the *)
(* instant history ends, the years it covers and the rates drawn for one   *)
(* sample, <<>> when the projection is deterministic.  A run is            *)
(* [st, base, rows, past, log, day, sample, ok]: the state, the state the  *)
(* simulation started from, the rows, the events of history and of the     *)
(* simulation, the open day, the sampled rates, no error met.              *)
(***************************************************************************)
EXTENDS Kernel

-----------------------------------------------------------------------------
(* Occurrences.                                                            *)

TransactionInstant(t) == IF t.at > 0 THEN t.at ELSE t.posted

Claims(m, rule) ==
  {m.txs[i].claim.date : i \in {j \in DOMAIN m.txs : m.txs[j].enabled /\ m.txs[j].claim.rule = rule}}

TransactionOccurrence(m, i) ==
  LET t == m.txs[i]
  IN  [id |-> t.id, src |-> t.src, dests |-> t.dests, amount |-> t.amount, kind |-> "tx",
       date |-> DayOf(TransactionInstant(t)), at |-> TransactionInstant(t), divisor |-> 1,
       cap |-> Unlimited, rank |-> <<0, t.at, t.posted, t.order, i>>]

RuleOccurrence(m, i, d) ==
  LET r == m.rules[i]
  IN  [id |-> r.id, src |-> r.src, dests |-> r.dests, amount |-> r.amount, kind |-> "rule",
       date |-> d, at |-> DayClose(d), divisor |-> FrequencyDivisor(r.freq),
       cap |-> r.cap, rank |-> <<1, r.priority, i, 0, 0>>]

(* An accepted purchase executes after everything else of its date. *)
PurchaseOccurrence(p, d, index) ==
  [id |-> p.id, src |-> p.src, dests |-> <<>>, amount |-> [by |-> "literal", value |-> p.cost],
   kind |-> "purchase", date |-> d, at |-> Midnight(p.earliest), divisor |-> 1,
   cap |-> Unlimited, rank |-> <<2, p.priority, index, 0, 0>>]

(* Everything enabled that falls between two days: each transaction on its *)
(* own day, each schedule on its dates but the claimed ones.               *)
ResolveOccurrences(m, from, to) ==
  UNION {{RuleOccurrence(m, i, d) :
            d \in {x \in RuleScheduleDates(m.rules[i], to) : x >= from /\ x \notin Claims(m, m.rules[i].id)}} :
           i \in {j \in DOMAIN m.rules : m.rules[j].enabled}}
  \cup
  {TransactionOccurrence(m, i) :
     i \in {j \in DOMAIN m.txs : /\ m.txs[j].enabled
                                 /\ TransactionInstant(m.txs[j]) > 0
                                 /\ DayOf(TransactionInstant(m.txs[j])) \in from .. to}}

(* The earliest day of an observation, or the start: schedules expand from *)
(* there.                                                                  *)
EarliestDay(m, start) ==
  LET days == {DayOf(m.checks[i].at) : i \in DOMAIN m.checks} \cup {start}
  IN  CHOOSE d \in days : \A e \in days : d <= e

(* Observations SET a balance.  Their rank puts them after the movements   *)
(* of the same instant, the owner's last.                                  *)
(* Mutant: an observation applies before the movements of its instant. *)
ObservationFirst(c, i) ==
  [kind |-> "observation", id |-> c.account, balance |-> c.balance, date |-> DayOf(c.at), at |-> c.at,
   rank |-> <<-1, IF c.owner THEN 1 ELSE 0, i, 0, 0>>]

Observation(c, i) ==
  [kind |-> "observation", id |-> c.account, balance |-> c.balance, date |-> DayOf(c.at), at |-> c.at,
   rank |-> <<3, IF c.owner THEN 1 ELSE 0, i, 0, 0>>]

HistoryEvents(m, start, cut) ==
  {o \in ResolveOccurrences(m, EarliestDay(m, start), start) : o.at <= cut}
  \cup
  {TransactionOccurrence(m, i) :
     i \in {j \in DOMAIN m.txs : /\ m.txs[j].enabled
                                 /\ TransactionInstant(m.txs[j]) \in 1 .. cut
                                 /\ DayOf(TransactionInstant(m.txs[j])) <= start}}
  \cup
  {Observation(m.checks[i], i) : i \in {j \in DOMAIN m.checks : m.checks[j].at <= cut}}

LastDay(request) == AddYearsClamped(request.start, request.horizon)

Years(request) == YearOf(request.start) - 1 .. YearOf(LastDay(request))

(* How many annual rates a volatile id needs: one per year of the horizon, *)
(* more when an occurrence falls in a later block of 365 days.             *)
SampleCount(request, id) ==
  Max({ProjectionYearIndex(request.start, o.date) + 1 :
         o \in {x \in ResolveOccurrences(request.model, request.start, LastDay(request)) : x.id = id}}
      \cup {request.horizon})

Volatile(m) ==
  {m.rules[i].id : i \in {j \in DOMAIN m.rules : m.rules[j].enabled /\ VolatileRate(m.rules[j].amount)}}
  \cup {m.txs[i].id : i \in {j \in DOMAIN m.txs : m.txs[j].enabled /\ VolatileRate(m.txs[j].amount)}}

(* The sample of one Monte Carlo run; a request without draws is the       *)
(* deterministic projection.                                               *)
Sample(request) ==
  [on |-> request.draws # <<>>,
   rates |-> [id \in (IF request.draws = <<>> THEN {} ELSE Volatile(request.model)) |->
                [n \in 1 .. SampleCount(request, id) |-> request.draws[((n - 1) % Len(request.draws)) + 1]]]]

(* The events of a simulation: what the cut has not replayed, the accepted *)
(* purchases, and the close of every date that has an event.               *)
Close(d) == [kind |-> "close", id |-> "", date |-> d, at |-> DayClose(d), rank |-> <<3, 0, 0, 0, 0>>]

(* Mutant: the cut belongs to both sides. *)
WithClosesAtCut(cut, occurrences, purchases, candidates) ==
  {o \in occurrences : o.at >= cut} \cup purchases
    \cup {Close(d) : d \in {o.date : o \in occurrences \cup purchases} \cup candidates}

WithCloses(cut, occurrences, purchases, candidates) ==
  {o \in occurrences : o.at > cut} \cup purchases
    \cup {Close(d) : d \in {o.date : o \in occurrences \cup purchases} \cup candidates}

SimulationEvents(request, purchases, candidates) ==
  WithCloses(request.cut, ResolveOccurrences(request.model, request.start, LastDay(request)), purchases, candidates)

Lexical(a, b) ==
  \E i \in DOMAIN a : a[i] < b[i] /\ \A j \in 1 .. i - 1 : a[j] = b[j]

(* History is ordered by instant, a simulation by date; then both by the   *)
(* one order of occurrences: transactions by time, posted time and         *)
(* execution order, schedules by priority, purchases by priority.          *)
ByInstant(e, f) == Lexical(<<e.at>> \o e.rank, <<f.at>> \o f.rank)
ByDate(e, f) == Lexical(<<e.date>> \o e.rank, <<f.date>> \o f.rank)

Listed(S) == FoldSet(LAMBDA e, s : Append(s, e), <<>>, S)

-----------------------------------------------------------------------------
(* Steps.                                                                  *)

Row(historical, d, bal) == [historical |-> historical, date |-> d, bal |-> bal]

(* A day of history is sampled once, when the next begins. *)
FlushDay(r) ==
  IF r.day = 0 THEN r ELSE [r EXCEPT !.rows = Append(@, Row(TRUE, r.day, r.st.bal)), !.day = 0]

(* A balance observation sets its account; anything else executes, a       *)
(* stored transaction as the actual it is.                                 *)
Executed(r, done, historical) ==
  IF ~done.ok THEN [r EXCEPT !.ok = FALSE]
  ELSE IF historical THEN [r EXCEPT !.st = done.st, !.past = Append(@, done.event)]
  ELSE [r EXCEPT !.st = done.st, !.log = Append(@, done.event)]

ReplayOn(m, start, r, e) ==
  IF e.kind = "observation" THEN [r EXCEPT !.st.bal[e.id] = e.balance]
  ELSE Executed(r, ExecuteTransaction(m, r.sample, start, r.st, e, e.kind = "tx"), TRUE)

ReplayEvent(m, start, r, e) ==
  ReplayOn(m, start, [(IF r.day # e.date THEN FlushDay(r) ELSE r) EXCEPT !.day = e.date], e)

SimulateEvent(m, start, r, e) ==
  IF e.kind = "close" THEN [r EXCEPT !.rows = Append(@, Row(FALSE, e.date, r.st.bal))]
  ELSE Executed(r, ExecuteTransaction(m, r.sample, start, r.st, e, FALSE), FALSE)

NoSample == [on |-> FALSE, rates |-> <<>>]

NewRun(m, years) ==
  [st |-> InitialState(m, years), base |-> InitialState(m, years), rows |-> <<>>, past |-> <<>>, log |-> <<>>, day |-> 0,
   sample |-> NoSample, ok |-> TRUE]

(* Whole replays and simulations, as the engine's other readers run them:  *)
(* r is a run whose history has been replayed.                             *)
Replay(m, start, cut, years) ==
  FlushDay(FoldLeft(LAMBDA r, e : IF r.ok THEN ReplayEvent(m, start, r, e) ELSE r,
                    NewRun(m, years), SortSeq(Listed(HistoryEvents(m, start, cut)), ByInstant)))

Simulate(request, r, purchases, candidates) ==
  FoldLeft(LAMBDA s, e : IF s.ok THEN SimulateEvent(request.model, request.start, s, e) ELSE s,
           [r EXCEPT !.st = r.base, !.log = <<>>, !.rows = SelectSeq(@, LAMBDA row : row.historical)],
           SortSeq(Listed(SimulationEvents(request, purchases, candidates)), ByDate))

(* A read of the position at an instant: observations after it are put     *)
(* aside, so a read of the past never fails on them.                       *)
Position(m, cut, years) ==
  LET seen == SelectSeq(m.checks, LAMBDA c : c.at <= cut)
  IN  Replay([m EXCEPT !.checks = seen], DayOf(cut), cut, years)
=============================================================================
