----------------------------- MODULE SharedRuns -----------------------------
(***************************************************************************)
(* Shared stochastic runs and the SSE streams attached to them             *)
(* (backend/internal/api/projections/runs.go, stochastic.go).              *)
(*                                                                         *)
(* A process-wide registry maps the exact content of a seeded request to   *)
(* the run that computes it.  The request that creates the run owns it and *)
(* starts its goroutine; later identical requests attach.  A run publishes *)
(* cumulative progress without blocking, stores its outcome, closes done   *)
(* and only then leaves the registry.  A stream may disconnect at any time *)
(* and a run never waits for its streams.                                  *)
(***************************************************************************)
EXTENDS Naturals, Sequences, FiniteSets

CONSTANTS
    Keys,          \* request contents
    Streams,       \* SSE connections
    Runs,          \* run identities
    NoRun,         \* no run registered
    Buffer,        \* sharedRunSubscriberBuffer (16 in the code)
    MaxProgress    \* bound on the progress events of a run

ASSUME RunsAssumption ==
    /\ Keys # {}
    /\ NoRun \notin Runs
    /\ Buffer \in Nat \ {0}
    /\ MaxProgress \in Nat

VARIABLES
    byKey,    \* the registry
    phase,    \* of each run: "unused", "created", "computing", "done", "evicted",
              \* or "stranded" when nothing will ever compute it
    keyOf,    \* the key a run was created for
    latest,   \* the run's latest snapshot, 0 before the first one
    outcome,  \* "none", "result" or "error"
    stage,       \* of each stream
    run,      \* the run a stream is attached to
    owner,    \* whether the stream created that run
    ch,       \* the stream's channel
    shown,    \* the last progress written to the stream
    final,    \* the terminal event written to the stream, "none" before
    missed    \* history: an event found the stream's channel full

sharedVars == <<byKey, phase, keyOf, latest, outcome, stage, run, owner, ch, shown, final,
                missed>>
runVars == <<byKey, phase, keyOf, latest, outcome>>

RunsInit ==
    /\ byKey = [k \in Keys |-> NoRun]
    /\ phase = [r \in Runs |-> "unused"]
    /\ keyOf = [r \in Runs |-> CHOOSE k \in Keys : TRUE]
    /\ latest = [r \in Runs |-> 0]
    /\ outcome = [r \in Runs |-> "none"]
    /\ stage = [s \in Streams |-> "idle"]
    /\ run = [s \in Streams |-> NoRun]
    /\ owner = [s \in Streams |-> FALSE]
    /\ ch = [s \in Streams |-> <<>>]
    /\ shown = [s \in Streams |-> 0]
    /\ final = [s \in Streams |-> "none"]
    /\ missed = [s \in Streams |-> FALSE]

Finished(r) == phase[r] \in {"done", "evicted"}

\* The streams in run.subscribers.
Subscribed(s, r) == stage[s] = "listening" /\ run[s] = r
-----------------------------------------------------------------------------
(* Requests.                                                               *)

\* getOrStartSharedRun under the registry lock: attach, or create and own.
Attach(s, k) ==
    /\ stage[s] = "idle"
    /\ byKey[k] # NoRun
    /\ run' = [run EXCEPT ![s] = byKey[k]]
    /\ owner' = [owner EXCEPT ![s] = FALSE]
    /\ stage' = [stage EXCEPT ![s] = "body"]
    /\ UNCHANGED <<runVars, ch, shown, final, missed>>

Create(s, k, r) ==
    /\ stage[s] = "idle"
    /\ byKey[k] = NoRun
    /\ phase[r] = "unused"
    /\ byKey' = [byKey EXCEPT ![k] = r]
    /\ phase' = [phase EXCEPT ![r] = "created"]
    /\ keyOf' = [keyOf EXCEPT ![r] = k]
    /\ run' = [run EXCEPT ![s] = r]
    /\ owner' = [owner EXCEPT ![s] = TRUE]
    /\ stage' = [stage EXCEPT ![s] = "body"]
    /\ UNCHANGED <<latest, outcome, ch, shown, final, missed>>

\* The stream body: the owner starts the goroutine, detached from its request.
StartBody(s) ==
    /\ stage[s] = "body"
    /\ phase' = IF owner[s] THEN [phase EXCEPT ![run[s]] = "computing"] ELSE phase
    /\ stage' = [stage EXCEPT ![s] = "subscribe"]
    /\ UNCHANGED <<byKey, keyOf, latest, outcome, run, owner, ch, shown, final, missed>>

\* A response writer that cannot flush is refused before the body runs: a run
\* whose owner is refused stays registered, and no goroutine will compute it.
RefuseBody(s) ==
    /\ stage[s] = "body"
    /\ phase' = IF owner[s] THEN [phase EXCEPT ![run[s]] = "stranded"] ELSE phase
    /\ stage' = [stage EXCEPT ![s] = "detached"]
    /\ UNCHANGED <<byKey, keyOf, latest, outcome, run, owner, ch, shown, final, missed>>

\* (mutant) the snapshot is not replayed to a stream that attaches.
SubscribeWithoutSnapshot(s) ==
    /\ stage[s] = "subscribe"
    /\ IF Finished(run[s])
       THEN /\ final' = [final EXCEPT ![s] = outcome[run[s]]]
            /\ stage' = [stage EXCEPT ![s] = "closed"]
            /\ UNCHANGED shown
       ELSE /\ stage' = [stage EXCEPT ![s] = "listening"]
            /\ UNCHANGED <<shown, final>>
    /\ UNCHANGED <<runVars, run, owner, ch, missed>>

\* subscribe: the outcome of a finished run at once; otherwise the channel and
\* the snapshot to replay, under the run's lock.
Subscribe(s) ==
    /\ stage[s] = "subscribe"
    /\ IF Finished(run[s])
       THEN /\ final' = [final EXCEPT ![s] = outcome[run[s]]]
            /\ stage' = [stage EXCEPT ![s] = "closed"]
            /\ UNCHANGED shown
       ELSE /\ stage' = [stage EXCEPT ![s] = "listening"]
            /\ shown' = [shown EXCEPT ![s] = latest[run[s]]]
            /\ UNCHANGED final
    /\ UNCHANGED <<runVars, run, owner, ch, missed>>
-----------------------------------------------------------------------------
(* The select loop of an attached stream: any ready case may be chosen.    *)

Receive(s) ==
    /\ stage[s] = "listening"
    /\ ch[s] # <<>>
    /\ shown' = [shown EXCEPT ![s] = Head(ch[s])]
    /\ ch' = [ch EXCEPT ![s] = Tail(@)]
    /\ UNCHANGED <<runVars, stage, run, owner, final, missed>>

\* done is closed: write the outcome, whatever is still buffered.
Terminate(s) ==
    /\ stage[s] = "listening"
    /\ Finished(run[s])
    /\ final' = [final EXCEPT ![s] = outcome[run[s]]]
    /\ stage' = [stage EXCEPT ![s] = "closed"]
    /\ ch' = [ch EXCEPT ![s] = <<>>]
    /\ UNCHANGED <<runVars, run, owner, shown, missed>>

\* (mutant) the computation inherits the request's context and ends with it.
DisconnectStopsRun(s) ==
    /\ stage[s] = "listening"
    /\ stage' = [stage EXCEPT ![s] = "detached"]
    /\ ch' = [ch EXCEPT ![s] = <<>>]
    /\ phase' = IF owner[s] /\ phase[run[s]] = "computing"
                THEN [phase EXCEPT ![run[s]] = "created"] ELSE phase
    /\ UNCHANGED <<byKey, keyOf, latest, outcome, run, owner, shown, final, missed>>

\* The client goes away: unsubscribe and return, the run goes on.
Disconnect(s) ==
    /\ stage[s] = "listening"
    /\ stage' = [stage EXCEPT ![s] = "detached"]
    /\ ch' = [ch EXCEPT ![s] = <<>>]
    /\ UNCHANGED <<runVars, run, owner, shown, final, missed>>

\* The connection is reused for another request.
Reuse(s) ==
    /\ stage[s] \in {"closed", "detached"}
    /\ stage' = [stage EXCEPT ![s] = "idle"]
    /\ run' = [run EXCEPT ![s] = NoRun]
    /\ owner' = [owner EXCEPT ![s] = FALSE]
    /\ shown' = [shown EXCEPT ![s] = 0]
    /\ final' = [final EXCEPT ![s] = "none"]
    /\ missed' = [missed EXCEPT ![s] = FALSE]
    /\ UNCHANGED <<runVars, ch>>
-----------------------------------------------------------------------------
(* The computation.                                                        *)

\* (mutant) the newest event overtakes what is buffered.
Deliver_Front(s, event) ==
    IF Len(ch[s]) < Buffer THEN <<event>> \o ch[s] ELSE ch[s]

\* publish never blocks: a full channel misses the event.
Deliver(s, event) ==
    IF Len(ch[s]) < Buffer THEN Append(ch[s], event) ELSE ch[s]

\* publish: progress only comes from the inline fallback of a run.
Publish(r) ==
    /\ phase[r] = "computing"
    /\ latest[r] < MaxProgress
    /\ latest' = [latest EXCEPT ![r] = @ + 1]
    /\ ch' = [s \in Streams |->
                IF Subscribed(s, r) THEN Deliver(s, latest[r] + 1) ELSE ch[s]]
    /\ missed' = [s \in Streams |->
                    missed[s] \/ (Subscribed(s, r) /\ Len(ch[s]) >= Buffer)]
    /\ UNCHANGED <<byKey, phase, keyOf, outcome, stage, run, owner, shown, final>>

\* (mutant) done closes before the outcome is stored.
FinishEarly(r, o) ==
    /\ phase[r] = "computing"
    /\ phase' = [phase EXCEPT ![r] = "done"]
    /\ UNCHANGED <<byKey, keyOf, latest, outcome, stage, run, owner, ch, shown, final,
                   missed>>

\* finish: outcome and close(done) under the run's lock.
Finish(r, o) ==
    /\ phase[r] = "computing"
    /\ outcome' = [outcome EXCEPT ![r] = o]
    /\ phase' = [phase EXCEPT ![r] = "done"]
    /\ UNCHANGED <<byKey, keyOf, latest, stage, run, owner, ch, shown, final, missed>>

\* removeSharedRun under the registry lock, only if the key still maps to r.
RemoveSharedRun(r) ==
    /\ phase[r] = "done"
    /\ phase' = [phase EXCEPT ![r] = "evicted"]
    /\ byKey' = IF byKey[keyOf[r]] = r THEN [byKey EXCEPT ![keyOf[r]] = NoRun]
                ELSE byKey
    /\ UNCHANGED <<keyOf, latest, outcome, stage, run, owner, ch, shown, final, missed>>

Stream(s) ==
    \/ StartBody(s) \/ RefuseBody(s) \/ Subscribe(s) \/ Receive(s) \/ Terminate(s)

Compute(r) ==
    \/ Publish(r)
    \/ \E o \in {"result", "error"} : Finish(r, o)
    \/ RemoveSharedRun(r)

RunsNext ==
    \/ \E s \in Streams : \/ \E k \in Keys : Attach(s, k)
                          \/ \E k \in Keys, r \in Runs : Create(s, k, r)
                          \/ Stream(s) \/ Disconnect(s) \/ Reuse(s)
    \/ \E r \in Runs : Compute(r)

RunsSpec == RunsInit /\ [][RunsNext]_sharedVars

\* Goroutines run: a stream body that is ready moves on, and a computation
\* publishes finitely often and returns.
RunsFairness ==
    /\ \A s \in Streams : WF_sharedVars(Stream(s))
    /\ \A r \in Runs : WF_sharedVars(Compute(r))

RunsFairSpec == RunsSpec /\ RunsFairness
-----------------------------------------------------------------------------
(* Properties.                                                             *)

Phases == {"unused", "created", "stranded", "computing", "done", "evicted"}
StreamPcs == {"idle", "body", "subscribe", "listening", "closed", "detached"}
Outcomes == {"none", "result", "error"}

\* The type of every variable; a busy stream is attached to a run.
RunsTypeOK ==
    /\ byKey \in [Keys -> Runs \cup {NoRun}]
    /\ phase \in [Runs -> Phases]
    /\ keyOf \in [Runs -> Keys]
    /\ latest \in [Runs -> Nat]
    /\ outcome \in [Runs -> Outcomes]
    /\ stage \in [Streams -> StreamPcs]
    /\ run \in [Streams -> Runs \cup {NoRun}]
    /\ owner \in [Streams -> BOOLEAN]
    /\ ch \in [Streams -> Seq(Nat)]
    /\ shown \in [Streams -> Nat]
    /\ final \in [Streams -> Outcomes]
    /\ missed \in [Streams -> BOOLEAN]
    /\ \A s \in Streams : stage[s] # "idle" => run[s] # NoRun

Active(r) == phase[r] \in {"created", "stranded", "computing"}

\* The registry knows every run that is still to be computed, under its own
\* key: two identical requests never compute twice at the same time.
ActiveRegistered == \A r \in Runs : Active(r) => byKey[keyOf[r]] = r

\* A run is never removed from under a stream that will still ask it: the
\* terminal event of a stream is the stored outcome of its run, never "none".
TerminalIsOutcome ==
    \A s \in Streams :
        stage[s] = "closed" => final[s] = outcome[run[s]] /\ final[s] # "none"

\* Progress reaches a stream in order and without repetition, and the snapshot
\* replayed on attach is never older than what follows it.
ProgressInOrder ==
    \A s \in Streams : stage[s] = "listening" =>
        /\ \A i \in DOMAIN ch[s] : shown[s] < ch[s][i] /\ ch[s][i] <= latest[run[s]]
        /\ \A i, j \in DOMAIN ch[s] : i < j => ch[s][i] < ch[s][j]

\* Only a full channel misses an event: a listener whose channel had room at
\* every publication has been shown, or still holds, the snapshot it attached
\* to and every later event up to the newest, without a gap.
OnlyFullChannelsMiss ==
    \A s \in Streams : stage[s] = "listening" /\ ~missed[s] =>
        /\ Len(ch[s]) = latest[run[s]] - shown[s]
        /\ \A i \in 1..Len(ch[s]) : ch[s][i] = shown[s] + i

\* The run of a stream will never be computed, because its owner was refused.
Stranded(s) == run[s] # NoRun /\ phase[run[s]] = "stranded"

\* Every stream that is attached ends or is detached, whoever else leaves,
\* unless the writer of the run's owner could not flush.
EveryStreamEnds ==
    \A s \in Streams : stage[s] # "idle" ~> (stage[s] \in {"closed", "detached"} \/ Stranded(s))

\* Every run that was created leaves the registry, even when every stream
\* that asked for it is gone, unless its owner was refused.
EveryRunEvicted ==
    \A r \in Runs : phase[r] = "created" ~> phase[r] \in {"evicted", "stranded"}

\* However streams lag, leave and come back, every stream ends and every run
\* leaves the registry; the exception is a run whose owner's writer cannot
\* flush, which keeps its place for good (stochastic.go:83-91).
RunsAndStreamsEnd == EveryStreamEnds /\ EveryRunEvicted

\* What a stream is told is true of its run, from the replayed snapshot to the
\* terminal event.
StreamsFaithful == TerminalIsOutcome /\ ProgressInOrder
=============================================================================
