------------------------------- MODULE Engine -------------------------------
(***************************************************************************)
(* One projection, step by step: backend/internal/domain prepare.go,       *)
(* chrono.go, simulate.go and path.go.  A request is prepared; history     *)
(* replays event by event, then the simulation executes event by event.    *)
(***************************************************************************)
EXTENDS Projection

CONSTANT Requests     \* the requests a projection is prepared from

VARIABLES
  req,     \* [model, start, cut, horizon, draws, plan, session]: draws <<>> when not sampled
  phase,   \* "prepare", "replay", "simulate", "done", "refused"; "buying" in Funding,
           \* "sampling" in MonteCarlo
  queue,   \* the events still to execute, in order
  run      \* [st, base, rows, past, log, day, sample, ok]: the state, the state the
           \* simulation started from, the rows, the events of history and of the
           \* simulation, the open day, the sampled rates, no error met

engineVars == <<req, phase, queue, run>>

-----------------------------------------------------------------------------
(* The projection.                                                         *)

EngineInit ==
  /\ req \in Requests
  /\ phase = "prepare"
  /\ queue = <<>>
  /\ run = NewRun(req.model, Years(req))

(* A request whose cut is not on its start day, or with an observation     *)
(* after that day, is refused.                                             *)
PrepareRefused ==
  /\ phase = "prepare"
  /\ \/ DayOf(req.cut) # req.start
     \/ \E i \in DOMAIN req.model.checks : DayOf(req.model.checks[i].at) > req.start
  /\ phase' = "refused"
  /\ UNCHANGED <<req, queue, run>>

Prepare ==
  /\ phase = "prepare"
  /\ DayOf(req.cut) = req.start
  /\ \A i \in DOMAIN req.model.checks : DayOf(req.model.checks[i].at) <= req.start
  /\ phase' = "replay"
  /\ queue' = SortSeq(Listed(HistoryEvents(req.model, req.start, req.cut)), ByInstant)
  /\ UNCHANGED <<req, run>>

ReplayNext ==
  /\ phase = "replay"
  /\ queue # <<>>
  /\ run' = ReplayEvent(req.model, req.start, run, Head(queue))
  /\ phase' = IF run'.ok THEN "replay" ELSE "refused"
  /\ queue' = Tail(queue)
  /\ UNCHANGED req

StartSimulation ==
  /\ phase = "replay"
  /\ queue = <<>>
  /\ run' = [FlushDay(run) EXCEPT !.base = run.st, !.sample = Sample(req)]
  /\ phase' = "simulate"
  /\ queue' = SortSeq(Listed(SimulationEvents(req, {}, {})), ByDate)
  /\ UNCHANGED req

SimulateNext ==
  /\ phase = "simulate"
  /\ queue # <<>>
  /\ run' = SimulateEvent(req.model, req.start, run, Head(queue))
  /\ phase' = IF run'.ok THEN "simulate" ELSE "refused"
  /\ queue' = Tail(queue)
  /\ UNCHANGED req

Finish ==
  /\ phase = "simulate"
  /\ queue = <<>>
  /\ phase' = "done"
  /\ UNCHANGED <<req, queue, run>>

EngineNext ==
  \/ PrepareRefused
  \/ Prepare
  \/ ReplayNext
  \/ StartSimulation
  \/ SimulateNext
  \/ Finish

EngineSpec == EngineInit /\ [][EngineNext]_engineVars

-----------------------------------------------------------------------------
(* Properties.                                                             *)

RunTypeOK ==
  /\ phase \in {"prepare", "replay", "simulate", "done", "refused", "buying", "sampling"}
  /\ DOMAIN run.st.bal = DOMAIN req.model.accounts
  /\ run.ok \in BOOLEAN

(* A reference for a schedule's dates that never advances a date: the days *)
(* of the calendar that fit its period.                                    *)
CalendarDays(from, to) ==
  {d \in {Date(y, m, n) : y \in YearOf(from) .. YearOf(to), m \in 1 .. 12, n \in 1 .. 31} :
     d \in from .. to /\ DayOfMonth(d) <= DaysInMonth(YearOf(d), MonthOf(d))}

MonthsApart(a, b) == (YearOf(b) - YearOf(a)) * 12 + MonthOf(b) - MonthOf(a)

OnPeriod(rule, d) ==
  LET inMonth(n) == /\ MonthsApart(rule.start, d) % n = 0
                    /\ DayOfMonth(d) = Least(DayOfMonth(rule.start), DaysInMonth(YearOf(d), MonthOf(d)))
  IN  /\ d >= rule.start
      /\ rule.end = 0 \/ d <= rule.end
      /\ CASE rule.freq = "daily" -> TRUE
           [] rule.freq = "weekly" -> DaysBetween(rule.start, d) % 7 = 0
           [] rule.freq = "monthly" -> inMonth(1)
           [] rule.freq = "quarterly" -> inMonth(3)
           [] rule.freq = "annual" -> inMonth(12)

Times(events, id, d) == Cardinality({n \in DOMAIN events : events[n].id = id /\ events[n].date = d})

(* Between them the replay of history and the simulation execute every     *)
(* enabled transaction up to the last day exactly once, on its day, and    *)
(* every unclaimed date of an enabled schedule from the first observation  *)
(* on exactly once: history what is at or before the cut, the simulation   *)
(* what is after it, and neither anything else.  The cut may fall inside   *)
(* the start day (simulate.go, prepare.go: "so nothing executes twice").   *)
ExecutedOnce ==
  phase = "done" =>
    LET m == req.model
        due(at) == IF at <= req.cut THEN run.past ELSE run.log
        other(at) == IF at <= req.cut THEN run.log ELSE run.past
        txs == {i \in DOMAIN m.txs : m.txs[i].enabled /\ m.txs[i].at > 0 /\ DayOf(m.txs[i].at) <= LastDay(req)}
        dates(i) == {d \in CalendarDays(EarliestDay(m, req.start), LastDay(req)) :
                       OnPeriod(m.rules[i], d) /\ d \notin Claims(m, m.rules[i].id)}
        rules == {i \in DOMAIN m.rules : m.rules[i].enabled}
    IN  /\ \A i \in txs : /\ Times(due(m.txs[i].at), m.txs[i].id, DayOf(m.txs[i].at)) = 1
                          /\ Times(other(m.txs[i].at), m.txs[i].id, DayOf(m.txs[i].at)) = 0
        /\ \A i \in rules : \A d \in dates(i) :
             /\ Times(due(DayClose(d)), m.rules[i].id, d) = 1
             /\ Times(other(DayClose(d)), m.rules[i].id, d) = 0
        /\ Len(run.past) + Len(run.log)
             = Cardinality(txs) + Cardinality(UNION {{<<i, d>> : d \in dates(i)} : i \in rules})

(* A simulated step moves at most what was asked, never takes an account   *)
(* further below its floor or above its ceiling, keeps a schedule within   *)
(* its annual cap, history included, and loses no money: a transfer        *)
(* balances, an inflow or outflow moves exactly what it realizes.          *)
MoneyMoves ==
  [][phase = "simulate" /\ Len(run'.log) > Len(run.log) =>
       LET e == Last(run'.log)
           o == Head(queue)
           total == SumFunction(e.moved)
       IN  /\ e.requested >= 0 => e.realized \in 0 .. e.requested
           /\ e.requested < 0 => e.realized \in e.requested .. 0
           /\ \A a \in DOMAIN e.moved :
                /\ e.moved[a] < 0 => run'.st.bal[a] >= req.model.accounts[a].min
                /\ e.moved[a] > 0 => run'.st.bal[a] <= req.model.accounts[a].max
           /\ total = IF IsInternalTransfer(o) THEN 0
                      ELSE IF IsExternalInflow(o) THEN e.realized ELSE -e.realized
           /\ ~Infinite(o.cap) => \A y \in Years(req) : run'.st.year[o.id][y] <= Most(o.cap, run.st.year[o.id][y])
    ]_engineVars

(* Sum of what events after an instant moved on an account. *)
MovedAfter(events, a, at) ==
  FoldLeft(LAMBDA total, e : total + (IF e.at > at THEN e.moved[a] ELSE 0), 0, events)

(* The balance history ends with is the latest observation of the account  *)
(* plus what moved after it, whatever order the observations were stored   *)
(* in; at one instant the owner's observation wins over a synced one, and  *)
(* movements of that instant come before it (prepare.go: "a backdated      *)
(* observation cannot roll the latest state back").                        *)
AnchorHolds ==
  phase = "replay" /\ queue = <<>> =>
    \A a \in DOMAIN req.model.accounts :
      LET checks == req.model.checks
          seen == {i \in DOMAIN checks : checks[i].account = a /\ checks[i].at <= req.cut}
          rank(i) == <<checks[i].at, IF checks[i].owner THEN 1 ELSE 0, i>>
          last == CHOOSE i \in seen : \A j \in seen \ {i} : Lexical(rank(j), rank(i))
      IN  seen # {} =>
            run.st.bal[a] = checks[last].balance + MovedAfter(run.past, a, checks[last].at)

(* A read of the past agrees with the projection: the position at the      *)
(* close of a historical day, from the first observation on, is that day's *)
(* row, and the position at the cut is the state the simulation started    *)
(* from (position.go: "identical to the projection baseline at the same    *)
(* cut").                                                                  *)
PositionAgrees ==
  phase = "simulate" /\ run.log = <<>> =>
    LET m == req.model
    IN  /\ Position(m, req.cut, Years(req)).st = run.st
        /\ \A n \in DOMAIN run.rows :
             LET cut == Least(DayClose(run.rows[n].date), req.cut)
             IN  run.rows[n].historical /\ (\E i \in DOMAIN m.checks : m.checks[i].at <= cut) =>
                   Position(m, cut, Years(req)).st.bal = run.rows[n].bal

(* A sampled run never meets a year without a rate: it is refused only     *)
(* where the same request without a sample is, although a horizon of years *)
(* holds more than 365 days a year (transitions.go: "a missing entry is a  *)
(* preparation defect").                                                   *)
SampleCovers ==
  phase = "refused" /\ run.sample.on => ~Simulate(req, [run EXCEPT !.sample = NoSample, !.ok = TRUE], {}, {}).ok

(* What is executed, in full: once each, and nothing refused for want of a *)
(* sampled rate.                                                           *)
EverythingExecuted == ExecutedOnce /\ SampleCovers

(* What is recorded of the past: both halves of history.                   *)
HistoryExact == AnchorHolds /\ PositionAgrees
=============================================================================
