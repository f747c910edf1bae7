----------------------------- MODULE MonteCarlo -----------------------------
(***************************************************************************)
(* The stochastic session over a finished projection:                      *)
(* backend/internal/domain stochastic.go, stochastic_session.go,           *)
(* sampler.go, evaluation_runtime.go, evaluation_threshold.go and          *)
(* evaluation_account_balance.go.                                          *)
(*                                                                         *)
(* A producer draws the samples in order and hands each to a worker of a   *)
(* pool; workers simulate and send the path to a bounded channel; the      *)
(* coordinator puts the paths back in order, lets every evaluation read    *)
(* each of them, folds their values into sorted buffers and closes a batch *)
(* with a partial result.  A request's session is                          *)
(*   [runs, draws, bad, instances]   (NoSession: none asked for)           *)
(* bad names the runs whose simulation meets an arithmetic error, which    *)
(* the kernel of the model leaves out.  Readers of other requests share    *)
(* the process-wide guard against simulations started by a reader.         *)
(***************************************************************************)
EXTENDS Evaluations

CONSTANTS
  NoSession,
  Workers,    \* the pool
  Batch       \* runs between two partial results, 50 in the code

ASSUME BatchAssumption == Batch \in Nat \ {0}
ASSUME WorkersAssumption == IsFiniteSet(Workers) /\ Workers # {}

VARIABLES
  ses,     \* the session: see NewSession
  pool,    \* worker -> [at, index, sample, ok]
  guest    \* a reader evaluation of another request is running

sessionVars == <<ses, pool, guest>>
mcVars == <<evaluationVars, sessionVars>>

Session == req.session

-----------------------------------------------------------------------------
(* Samples.                                                                *)

(* Volatile ids in the order they are drawn: rules, then transactions. *)
SamplingParamsByID(m) ==
  LET ids(rows) == [n \in DOMAIN rows |-> rows[n].id]
      volatile(rows) == ids(SelectSeq(rows, LAMBDA x : x.enabled /\ VolatileRate(x.amount)))
  IN  volatile(m.rules) \o volatile(m.txs)

NormalizeRunCount(n) == IF n < 1 THEN 1 ELSE IF n > 10000 THEN 10000 ELSE n

(* The rates of one sample: the generator is read on from where the sample *)
(* before it stopped.                                                      *)
BuildStochasticRates(request, sample) ==
  LET order == SamplingParamsByID(request.model)
      draws == request.session.draws
      count(id) == SampleCount(request, id)
      before(k) == sample * SumOver(order, count) + SumOver(SubSeq(order, 1, k - 1), count)
      place(id) == CHOOSE k \in DOMAIN order : order[k] = id
  IN  [id \in Range(order) |->
         [n \in 1 .. count(id) |-> draws[((before(place(id)) + n - 1) % Len(draws)) + 1]]]

Sampled(sample) == [run EXCEPT !.sample = [on |-> TRUE, rates |-> BuildStochasticRates(req, sample)]]

(* One path-only projection. *)
ProjectSample(sample) == Simulate(req, Sampled(sample), {}, {})

-----------------------------------------------------------------------------
(* Evaluations over a path, and their accumulators.                        *)

(* The first projected date with enough net worth, or enough on one        *)
(* account; 0 when there is none.                                          *)
EvaluateNetWorthThreshold(rows, target) ==
  FirstDate({rows[n].date : n \in {k \in DOMAIN rows : ~rows[k].historical /\ NetWorth(req.model, rows[k].bal) >= target}})

EvaluateAccountBalance(rows, account, target) ==
  FirstDate({rows[n].date : n \in {k \in DOMAIN rows : /\ ~rows[k].historical
                                                       /\ account \in DOMAIN rows[k].bal
                                                       /\ rows[k].bal[account] >= target}})

IsSimulator(instance) == instance.type = "what-if"

(* One instance on one path: [ok, date].  A what-if branches with the      *)
(* sample of the path, so a volatile schedule it adds has no rate.         *)
EvaluatePath(instance, rows, sample) ==
  CASE instance.type = "net-worth-threshold" -> [ok |-> TRUE, date |-> EvaluateNetWorthThreshold(rows, instance.target)]
    [] instance.type = "account-balance" ->
         [ok |-> TRUE, date |-> EvaluateAccountBalance(rows, instance.account, instance.target)]
    [] instance.type = "what-if" ->
         LET w == EvaluateWhatIf(req, Sampled(sample), instance.disabled, instance.added)
         IN  [ok |-> w.branch.ok, date |-> IF w.funded THEN req.start ELSE 0]

NewAccumulator == [dates |-> <<>>, total |-> 0, failed |-> FALSE]

AccumulateReachedDate(acc, result) ==
  IF ~result.ok THEN [acc EXCEPT !.failed = TRUE]
  ELSE [acc EXCEPT !.total = @ + 1, !.dates = IF result.date = 0 THEN @ ELSE Append(@, result.date)]

(* The share of runs that reach the target, and the dates at the tenth,    *)
(* the middle and the ninth decile; nothing for a failed instance.         *)
DatePercentile(dates, decile) ==
  IF dates = <<>> THEN 0 ELSE dates[((Len(dates) - 1) * decile + 5) \div 10 + 1]

FinalizeReachedDates(acc) ==
  LET dates == SortSeq(acc.dates, <)
  IN  IF acc.failed THEN <<>>
      ELSE <<Len(dates), acc.total, DatePercentile(dates, 1), DatePercentile(dates, 5), DatePercentile(dates, 9)>>

(* Ten times a quantile of sorted values, interpolated. *)
Quantile(sorted, decile) ==
  LET pos == decile * (Len(sorted) - 1)
      low == pos \div 10
      high == IF pos % 10 = 0 THEN low ELSE low + 1
  IN  sorted[low + 1] * (10 - (pos % 10)) + sorted[high + 1] * (pos % 10)

Percentiles(sorted) == IF sorted = <<>> THEN <<>> ELSE [q \in {1, 5, 9} |-> Quantile(sorted, q)]

(* Two ascending sequences into one. *)
MergeSorted(a, b) ==
  LET merge[i \in 1 .. Len(a) + 1, j \in 1 .. Len(b) + 1] ==
        IF i > Len(a) THEN SubSeq(b, j, Len(b))
        ELSE IF j > Len(b) THEN SubSeq(a, i, Len(a))
        ELSE IF a[i] <= b[j] THEN <<a[i]>> \o merge[i + 1, j] ELSE <<b[j]>> \o merge[i, j + 1]
  IN  merge[1, 1]

(* All of a path the session uses: the value it folds (the last row's      *)
(* stands for every date's) and the result of each evaluation.  Both are   *)
(* functions of the sample alone.                                          *)
PathOf(sample) ==
  LET path == ProjectSample(sample)
      instances == req.session.instances
  IN  [ok |-> path.ok, worth |-> NetWorth(req.model, Last(path.rows).bal),
       results |-> [n \in DOMAIN instances |-> EvaluatePath(instances[n], path.rows, sample)]]

-----------------------------------------------------------------------------
(* The guard: a simulation is refused while a reader evaluates, unless an  *)
(* orchestrator's simulation or a simulator evaluation is in flight.  The  *)
(* counters are process-wide.                                              *)

Evaluating(kind) ==
  /\ ses.stage = "run"
  /\ ses.step \in DOMAIN Session.instances
  /\ ~ses.acc[ses.step].failed
  /\ IsSimulator(Session.instances[ses.step]) = (kind = "simulator")

ReaderGuard == guest \/ Evaluating("reader")
OrchestratorDepth == Cardinality({w \in Workers : pool[w].at = "simulate"})

ReaderSimulationBlocked == ReaderGuard /\ OrchestratorDepth = 0 /\ ~Evaluating("simulator")

-----------------------------------------------------------------------------
(* The session.                                                            *)

Idle == [at |-> "idle", index |-> 0, sample |-> 0, ok |-> TRUE]

(* paths: the path of each sample; taken: samples drawn; next: the run the *)
(* producer is at; open: the jobs channel; results: the results channel; pending:      *)
(* paths that arrived early; step: the instance that evaluates, 0 while    *)
(* the coordinator waits; done: the runs consumed; fresh: values since the *)
(* last batch; sorted: the percentile buffer; stop: the session's context  *)
(* is cancelled.                                                           *)
NewSession(stage) ==
  [stage |-> stage, outcome |-> "", paths |-> <<>>, taken |-> 0, next |-> 1, open |-> TRUE, results |-> <<>>, pending |-> {},
   step |-> 0, done |-> <<>>, fresh |-> <<>>, sorted |-> <<>>,
   acc |-> <<>>, partials |-> <<>>, stop |-> FALSE]

SessionOff == NewSession("off")

MonteCarloInit ==
  /\ EvaluationsInit
  /\ ses = SessionOff
  /\ pool = [w \in Workers |-> Idle]
  /\ guest = FALSE

Runs == NormalizeRunCount(Session.runs)
Unsampled == SamplingParamsByID(req.model) = <<>>

(* The deterministic evaluations have been answered: accumulators are      *)
(* created and the pool starts.  A model with nothing to sample is         *)
(* simulated once and its path folded into every run.                      *)
StartSession ==
  /\ phase = "done"
  /\ Session # NoSession
  /\ phase' = "sampling"
  /\ ses' = [NewSession("run") EXCEPT
               !.acc = [n \in DOMAIN Session.instances |-> NewAccumulator],
               !.paths = [k \in 0 .. (IF Unsampled THEN 0 ELSE Runs - 1) |-> PathOf(k)],
               !.pending = IF Unsampled THEN {[index |-> n, sample |-> 0, ok |-> TRUE] : n \in 1 .. Runs} ELSE {},
               !.open = ~Unsampled,
               !.stage = IF Unsampled /\ 1 \in Session.bad THEN "leave" ELSE "run",
               !.outcome = IF Unsampled /\ 1 \in Session.bad THEN "failed" ELSE ""]
  /\ pool' = IF Unsampled THEN [w \in Workers |-> [Idle EXCEPT !.at = "gone"]] ELSE pool
  /\ UNCHANGED <<req, queue, run, purchaseVars, fi, guest>>

rest == <<engineVars, purchaseVars, fi, guest>>

(* The producer draws a sample and hands it to a waiting worker. *)
ProduceJob(w) ==
  /\ ses.stage # "off" /\ ses.open /\ ses.next <= Runs
  /\ pool[w].at = "idle"
  /\ pool' = [pool EXCEPT ![w] = [Idle EXCEPT !.at = "job", !.index = ses.next, !.sample = ses.taken]]
  /\ ses' = [ses EXCEPT !.next = @ + 1, !.taken = @ + 1]
  /\ UNCHANGED rest

(* It closes the channel when all are handed out or the session stops. *)
CloseJobs ==
  /\ ses.stage # "off" /\ ses.open
  /\ ses.next > Runs \/ ses.stop
  /\ ses' = [ses EXCEPT !.open = FALSE]
  /\ UNCHANGED <<rest, pool>>

(* A worker with a job stops when the session has, and simulates else. *)
StartJob(w) ==
  /\ pool[w].at = "job"
  /\ pool' = [pool EXCEPT ![w].at = IF ses.stop THEN "gone" ELSE "simulate"]
  /\ UNCHANGED <<rest, ses>>

(* The guard is asked within the orchestrator's own depth.  A refusal is   *)
(* retried for a second, so the wait may outlast the reader or not.        *)
FinishJob(w) ==
  /\ pool[w].at = "simulate"
  /\ \E allowed \in (IF ReaderSimulationBlocked THEN BOOLEAN ELSE {TRUE}) :
       pool' = [pool EXCEPT ![w].at = "send",
                            ![w].ok = allowed /\ ses.paths[pool[w].sample].ok /\ pool[w].index \notin Session.bad]
  /\ UNCHANGED <<rest, ses>>

SendResult(w) ==
  /\ pool[w].at = "send"
  /\ Len(ses.results) < 2 * Cardinality(Workers)
  /\ ses' = [ses EXCEPT !.results = Append(@, [index |-> pool[w].index, sample |-> pool[w].sample, ok |-> pool[w].ok])]
  /\ pool' = [pool EXCEPT ![w] = Idle]
  /\ UNCHANGED rest

(* Mutant: a send is only ever taken. *)
LeaveIdleWorker(w) ==
  /\ pool[w].at = "idle" /\ ses.stage # "off" /\ ~ses.open
  /\ pool' = [pool EXCEPT ![w] = [Idle EXCEPT !.at = "gone"]]
  /\ UNCHANGED <<rest, ses>>

(* A worker leaves: at a send nobody will take, or when the jobs end. *)
LeaveWorker(w) ==
  /\ \/ pool[w].at = "send" /\ ses.stop
     \/ pool[w].at = "idle" /\ ses.stage # "off" /\ ~ses.open
  /\ pool' = [pool EXCEPT ![w] = [Idle EXCEPT !.at = "gone"]]
  /\ UNCHANGED <<rest, ses>>

NextRun == Len(ses.done) + 1
(* Mutant: paths are consumed as they arrive. *)
AnyPending == ses.pending

NextPending == {r \in ses.pending : r.index = NextRun}

(* An early return of the coordinator cancels the session's context. *)
Return(outcome) == [ses EXCEPT !.stage = "leave", !.outcome = outcome, !.stop = TRUE]

ReceiveResult ==
  /\ ses.stage = "run" /\ ses.step = 0 /\ NextRun <= Runs /\ NextPending = {}
  /\ ses.results # <<>>
  /\ ses' = IF Head(ses.results).ok
            THEN [ses EXCEPT !.pending = @ \cup {Head(ses.results)}, !.results = Tail(@)]
            ELSE [Return("failed") EXCEPT !.results = Tail(@)]
  /\ UNCHANGED <<rest, pool>>

(* The context is looked at where the coordinator waits, and before every  *)
(* run of an unsampled session.                                            *)
SeeCancelled ==
  /\ ses.stage = "run" /\ ses.step = 0 /\ NextRun <= Runs /\ (Unsampled \/ NextPending = {})
  /\ ses.stop
  /\ ses' = Return("cancelled")
  /\ UNCHANGED <<rest, pool>>

StartConsume ==
  /\ ses.stage = "run" /\ ses.step = 0 /\ NextPending # {}
  /\ Unsampled => ~ses.stop
  /\ ses' = [ses EXCEPT !.step = 1]
  /\ UNCHANGED <<rest, pool>>

(* One instance reads the path; one that failed before is left alone. *)
ConsumeInstance ==
  /\ ses.stage = "run" /\ ses.step \in DOMAIN Session.instances
  /\ \E r \in NextPending :
       LET n == ses.step
           result == ses.paths[r.sample].results[n]
       IN  ses' = [ses EXCEPT !.acc[n] = IF @.failed THEN @ ELSE AccumulateReachedDate(@, result),
                              !.step = n + 1]
  /\ UNCHANGED <<rest, pool>>

Partial(s, sorted) ==
  [runs |-> Len(s.done) + 1, band |-> Percentiles(sorted),
   results |-> [n \in DOMAIN s.acc |-> FinalizeReachedDates(s.acc[n])]]

(* The values of the run are kept; a full batch, or the last, is merged    *)
(* into the sorted buffer and reported.                                    *)
FoldRun ==
  /\ ses.stage = "run" /\ ses.step = Len(Session.instances) + 1
  /\ \E r \in NextPending :
       LET fresh == Append(ses.fresh, ses.paths[r.sample].worth)
           full == NextRun % Batch = 0 \/ NextRun = Runs
           sorted == IF full THEN MergeSorted(ses.sorted, SortSeq(fresh, <)) ELSE ses.sorted
       IN  ses' = [ses EXCEPT !.pending = @ \ {r}, !.done = Append(@, r.index), !.step = 0,
                              !.fresh = IF full THEN <<>> ELSE fresh, !.sorted = sorted,
                              !.partials = IF full THEN Append(@, Partial(ses, sorted)) ELSE @]
  /\ UNCHANGED <<rest, pool>>

(* Every run is consumed: the deferred cancel, as after an early return. *)
FinishSession ==
  /\ ses.stage = "run" /\ ses.step = 0 /\ NextRun > Runs
  /\ ses' = Return("ok")
  /\ UNCHANGED <<rest, pool>>

(* The coordinator waits for its workers. *)
WaitWorkers ==
  /\ ses.stage = "leave"
  /\ \A w \in Workers : pool[w].at = "gone"
  /\ ses' = [ses EXCEPT !.stage = "ended", !.pending = {}, !.results = <<>>]
  /\ UNCHANGED <<rest, pool>>

(* The request is cancelled. *)
CancelSession ==
  /\ ses.stage = "run" /\ ~ses.stop
  /\ ses' = [ses EXCEPT !.stop = TRUE]
  /\ UNCHANGED <<rest, pool>>

(* A reader evaluation of another request begins or ends. *)
GuestReader ==
  /\ ses.stage = "run"
  /\ guest' = ~guest
  /\ UNCHANGED <<engineVars, purchaseVars, fi, ses, pool>>

Producer == CloseJobs \/ \E w \in Workers : ProduceJob(w)
Worker(w) == StartJob(w) \/ FinishJob(w) \/ SendResult(w) \/ LeaveWorker(w)
Coordinator ==
  \/ ReceiveResult
  \/ SeeCancelled
  \/ StartConsume
  \/ ConsumeInstance
  \/ FoldRun
  \/ FinishSession
  \/ WaitWorkers

MonteCarloNext ==
  \/ EvaluationsNext /\ UNCHANGED sessionVars
  \/ StartSession
  \/ Producer
  \/ \E w \in Workers : Worker(w)
  \/ Coordinator
  \/ CancelSession
  \/ GuestReader

MonteCarloSpec ==
  /\ MonteCarloInit
  /\ [][MonteCarloNext]_mcVars
  /\ WF_mcVars(Producer)
  /\ \A w \in Workers : WF_mcVars(Worker(w))
  /\ WF_mcVars(Coordinator)

-----------------------------------------------------------------------------
(* Properties.                                                             *)

(* What one thread running the samples one after the other would have, n   *)
(* runs in.                                                                *)
SequentialPath(n) == ses.paths[IF Unsampled THEN 0 ELSE n - 1]
SequentialWorth(n) == SortSeq([k \in 1 .. n |-> SequentialPath(k).worth], <)
SequentialAcc(i, n) ==
  FoldLeft(LAMBDA acc, k : IF acc.failed THEN acc ELSE AccumulateReachedDate(acc, SequentialPath(k).results[i]),
           NewAccumulator, [k \in 1 .. n |-> k])

(* A session that succeeds has exactly the result of running its samples   *)
(* one after the other, whatever the workers' speed: every partial covers  *)
(* the first runs, as many as it says, and the last covers all             *)
(* (stochastic_session.go: "bit-identical to sequential execution").  A    *)
(* session fails only for a run that cannot be simulated, and never        *)
(* because some reader evaluation was under way; one that is cancelled was *)
(* asked to be.                                                            *)
SessionExact ==
  ses.stage = "ended" =>
    /\ ses.outcome = "failed" => Session.bad # {}
    /\ ses.outcome = "ok" =>
         /\ Session.bad \cap 1 .. Runs = {}
         /\ ses.partials # <<>> /\ Last(ses.partials).runs = Runs
         /\ ses.sorted = SequentialWorth(Runs)
    /\ \A k \in DOMAIN ses.partials :
         LET n == ses.partials[k].runs
         IN  /\ n = IF k * Batch < Runs THEN k * Batch ELSE Runs
             /\ ses.partials[k].band = Percentiles(SequentialWorth(n))
             /\ \A i \in DOMAIN Session.instances :
                  ses.partials[k].results[i] = FinalizeReachedDates(SequentialAcc(i, n))

(* Whatever fails or is cancelled, the session returns and leaves no       *)
(* goroutine behind: nobody waits for a channel that nobody reads.         *)
SessionEnds == (ses.stage = "run") ~> (ses.stage = "ended" /\ ~ses.open)
=============================================================================
