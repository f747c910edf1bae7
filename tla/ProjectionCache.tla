-------------------------- MODULE ProjectionCache --------------------------
(***************************************************************************)
(* The unified projection cache of the Go backend                          *)
(* (backend/internal/api/projections/builder.go on top of                  *)
(* store/adapters/sqlite/projection_unified.go).                           *)
(*                                                                         *)
(* One state row per user carries a revision, the published revision, the  *)
(* earliest dirty instant, the frozen window and the fingerprints of the   *)
(* evaluation tables.  The window is cut into yearly slices, each stamped  *)
(* with the revision it was built at.  A request or a build is a sequence  *)
(* of store calls without a transaction around them, and the calls of      *)
(* different requests interleave.  A step is one store call; the calls of  *)
(* deleteSliceRows, of the row writer and of the output writer are one     *)
(* step each.                                                              *)
(*                                                                         *)
(* Abstraction of the data.  The financial model is the sequence of its    *)
(* committed writes, each with the first calendar day whose projection it  *)
(* can change.  What a projection says about a day is therefore the number *)
(* of the last write that reaches that day (Content).  Timeline rows and   *)
(* generated transactions of one day are one entry of rows.                *)
(***************************************************************************)
EXTENDS Integers, Sequences, FiniteSets, FiniteSetsExt

CONSTANTS
    Requests,       \* concurrent HTTP requests and detached stochastic runs
    NoRequest,      \* owner of an empty build flight
    Evals,          \* evaluation tables a request may carry
    EmptyEval,      \* the tables without a single instance
    Years,          \* yearly slices of the canonical window
    Kinds,          \* request kinds in play: "det", "stoch"
    Seeds,          \* seeds a stochastic request may carry
    NoSeed,         \* no seed frozen yet
    OwnModels,      \* may a request bring its own model? subset of BOOLEAN
    WriteInstants,  \* instants of created rows; 0 is an edit or a deletion
    MaxWrites,      \* bound on committed model writes
    MaxCrashes,     \* bound on process crashes
    Overlap,        \* may a model write overlap a request?
    LoseMarks       \* may a crash fall between a commit and its dirty mark?

ASSUME ConstantsAssumption ==
    /\ NoRequest \notin Requests
    /\ EmptyEval \in Evals
    /\ Years \in Nat \ {0}
    /\ Kinds \subseteq {"det", "stoch"}
    /\ NoSeed \notin Seeds
    /\ OwnModels \subseteq BOOLEAN
    /\ WriteInstants \subseteq Nat
    /\ MaxWrites \in Nat
    /\ MaxCrashes \in Nat
    /\ Overlap \in BOOLEAN
    /\ LoseMarks \in BOOLEAN

VARIABLES
    model,    \* committed writes: the first day each one changes
    marks,    \* committed writes whose dirty mark has not been stored yet
    state,    \* the projection_states row
    slices,   \* built_revision of each yearly slice, NoRev when absent
    rows,     \* projection_rows and generated transactions per day
    stats,    \* monte_carlo_statistics per day
    outputs,  \* stored evaluation outputs per kind
    flight,   \* owner of the singleflight build, or NoRequest
    pc,       \* the next store call of each request
    loc,      \* the local variables of each request
    crashes   \* crashes so far

vars == <<model, marks, state, slices, rows, stats, outputs, flight, pc, loc,
          crashes>>
-----------------------------------------------------------------------------
(* Calendar.  Day 1 is the frozen projection start.  A day has two         *)
(* instants, its midnight and a later one; 0 is "no instant".              *)

Midnight(d) == 2 * d
DayOf(i) == i \div 2
Slices == 1..Years
End == Years + 1                 \* the horizon end, a date of the last slice
Days == 1..End
FromAt(k) == Midnight(k)
ToAt(k) == Midnight(k + 1)

NoRev == -1
Missing == -1                    \* no stored row for the day
Foreign == -2                    \* computed from a model the request brought
NoEval == <<>>

\* sliceForDate: half-open slices, and the horizon end in the last one.
SliceOf(d) == IF d = End THEN Years ELSE d

\* What the projection of model version v says about day d.
Content(v, d) ==
    IF v = Foreign THEN Foreign
    ELSE Max({0} \cup {i \in 1..v : model[i] <= d})

Version == Len(model)
-----------------------------------------------------------------------------
(* Pure helpers of the builder and the reader.                             *)

Listed(sl) == {k \in Slices : sl[k] # NoRev}

slicesCover(sl) == Listed(sl) = Slices

currentRevision(sl, revision) ==
    Listed(sl) # {} /\ \A k \in Listed(sl) : sl[k] = revision

\* (mutant) a slice is invalid only when it starts at or after the instant.
SuffixByStart(sl, dirty) ==
    IF dirty <= 0 THEN {} ELSE {k \in Listed(sl) : FromAt(k) >= dirty}

\* FindFirstInvalidSlice and suffixSlices: slices end in order, so the suffix
\* from the first invalid slice is the set of the invalid ones.
Suffix(sl, dirty) ==
    IF dirty <= 0 THEN {} ELSE {k \in Listed(sl) : ToAt(k) >= dirty}

Prefix(sl, dirty) == Listed(sl) \ Suffix(sl, dirty)

suffixFrom(sl, dirty) ==
    IF Suffix(sl, dirty) = {} THEN FromAt(1) ELSE FromAt(Min(Suffix(sl, dirty)))

\* Only the first slice that is stored can end at or after a dirty instant
\* that every stored slice precedes: the manifest then needs no rebuild.
BeyondHorizon(sl, dirty) ==
    dirty > 0 /\ Listed(sl) # {} /\ Suffix(sl, dirty) = {}

complete(st, sl) ==
    st.dirty = 0 /\ slicesCover(sl) /\ currentRevision(sl, st.revision)

\* (mutant) stored outputs are served whatever their revision.
OutputsOfAnyRevision(kind, eval, revision) ==
    eval = EmptyEval \/ outputs[kind].eval \notin {EmptyEval, NoEval}

\* assembleEvaluations: empty tables need no rows; other tables need as many
\* rows as they have instances, every one of the revision.
outputsSatisfy(kind, eval, revision) ==
    \/ eval = EmptyEval
    \/ outputs[kind].eval # EmptyEval /\ outputs[kind].revision = revision

EarlierOf(dirty, instant) ==
    IF dirty = 0 \/ dirty > instant THEN instant ELSE dirty
-----------------------------------------------------------------------------
(* Request locals.                                                         *)

NoState == [revision |-> 0, published |-> 0, dirty |-> 0, frozen |-> FALSE,
            detEval |-> NoEval, stochEval |-> NoEval, seed |-> NoSeed]

NoSlices == [k \in Slices |-> NoRev]
NoRows == [d \in Days |-> Missing]
NoOutputs == [eval |-> NoEval, content |-> Missing, revision |-> NoRev]

NoLocal == [kind |-> "det", model |-> 0, eval |-> EmptyEval, seed |-> NoSeed,
            other |-> FALSE, built |-> FALSE, snap |-> NoState, seen |-> NoSlices,
            todo |-> {}, got |-> NoRows, out |-> NoOutputs]

Goto(p, l) == pc' = [pc EXCEPT ![p] = l]

\* The request ends; whatever it computed directly touches no shared state.
Leave(p) == Goto(p, "idle") /\ loc' = [loc EXCEPT ![p] = NoLocal]

Init ==
    /\ model = <<>>
    /\ marks = {}
    /\ state = NoState
    /\ slices = NoSlices
    /\ rows = NoRows
    /\ stats = NoRows
    /\ outputs = [k \in {"det", "stoch"} |-> NoOutputs]
    /\ flight = NoRequest
    /\ pc = [p \in Requests |-> "idle"]
    /\ loc = [p \in Requests |-> NoLocal]
    /\ crashes = 0

store == <<slices, rows, stats, outputs>>
-----------------------------------------------------------------------------
(* Model writes: the row transaction commits, and the dirty mark follows   *)
(* as a statement of its own.                                              *)

\* A create touches the day of its instant and marks that instant; an edit or
\* a deletion may touch any day and marks the projection start.
CommitWrite(i) ==
    /\ Version < MaxWrites
    /\ Overlap \/ (marks = {} /\ \A p \in Requests : pc[p] = "idle")
    /\ model' = Append(model, DayOf(i))
    /\ marks' = marks \cup {<<Version + 1, i>>}
    /\ UNCHANGED <<state, store, flight, pc, loc, crashes>>

\* MarkProjectionDirty: one UPDATE bumps the revision and keeps the earliest
\* instant; without a frozen start an edit only bumps the revision.
MarkProjectionDirty(m) ==
    LET instant == IF m[2] > 0 THEN m[2] ELSE IF state.frozen THEN FromAt(1) ELSE 0
    IN  /\ marks' = marks \ {m}
        /\ state' = [state EXCEPT
                       !.revision = @ + 1,
                       !.dirty = IF instant = 0 THEN @ ELSE EarlierOf(@, instant)]
        /\ UNCHANGED <<model, store, flight, pc, loc, crashes>>
-----------------------------------------------------------------------------
(* ensureCanonicalState: the first request freezes the window.  Its        *)
(* conditional UPDATEs make concurrent first requests agree, so the read   *)
(* and the freeze are one step.                                            *)

Canonical ==
    IF state.frozen THEN state
    ELSE [state EXCEPT !.frozen = TRUE, !.revision = @ + 1,
                       !.dirty = EarlierOf(@, FromAt(1))]

\* resolveModel, before anything is known about the projection state.
\* A deterministic request with a model of its own never comes near the store.
LoadModel(p, kind, eval, seed, own, other) ==
    /\ pc[p] = "idle"
    /\ Overlap \/ marks = {}
    /\ IF kind = "stoch" THEN seed \in Seeds ELSE seed = NoSeed /\ ~own
    /\ Goto(p, IF kind = "det" THEN "canon" ELSE "read")
    /\ loc' = [loc EXCEPT ![p] = [NoLocal EXCEPT
                 !.kind = kind, !.eval = eval, !.seed = seed, !.other = other,
                 !.model = IF own THEN Foreign ELSE Version]]
    /\ UNCHANGED <<model, marks, state, store, flight, crashes>>

\* Freeze the window if nobody has; an as-of cut or another window, run count
\* or horizon does not address it and is computed directly.
EnsureCanonicalState(p) ==
    /\ pc[p] = "canon"
    /\ state' = Canonical
    /\ IF loc[p].other THEN Leave(p) ELSE Goto(p, "read") /\ UNCHANGED loc
    /\ UNCHANGED <<model, marks, store, flight, crashes>>
-----------------------------------------------------------------------------
(* readDeterministic and readStochastic: four statements, no transaction.  *)

\* A miss leads to a build the first time and to direct compute afterwards.
Miss(p) ==
    IF loc[p].built
    THEN Leave(p)
    ELSE /\ Goto(p, IF loc[p].kind = "det" THEN "build" ELSE "sState")
         /\ loc' = [loc EXCEPT ![p].got = NoRows, ![p].snap = NoState]

Fingerprint(st, kind) == IF kind = "det" THEN st.detEval ELSE st.stochEval

ReadState(p) ==
    /\ pc[p] = "read"
    /\ LET st == Canonical IN
         /\ state' = st
         /\ IF loc[p].other THEN Leave(p)
            ELSE IF /\ st.dirty = 0
                    /\ Fingerprint(st, loc[p].kind) = loc[p].eval
                    /\ loc[p].kind = "stoch" => st.seed = loc[p].seed
            THEN Goto(p, "readSlices") /\ loc' = [loc EXCEPT ![p].snap = st]
            ELSE Miss(p)
    /\ UNCHANGED <<model, marks, store, flight, crashes>>

ReadSlices(p) ==
    /\ pc[p] = "readSlices"
    /\ IF slicesCover(slices) /\ currentRevision(slices, loc[p].snap.revision)
       THEN Goto(p, "readRows") /\ UNCHANGED loc
       ELSE Miss(p)
    /\ UNCHANGED <<model, marks, state, store, flight, crashes>>

\* The statistics must not be empty altogether; rows are taken as they are.
ReadRows(p) ==
    /\ pc[p] = "readRows"
    /\ LET table == IF loc[p].kind = "det" THEN rows ELSE stats IN
         IF loc[p].kind = "det" \/ table # NoRows
         THEN Goto(p, "readOutputs") /\ loc' = [loc EXCEPT ![p].got = table]
         ELSE Miss(p)
    /\ UNCHANGED <<model, marks, state, store, flight, crashes>>

ReadOutputs(p) ==
    /\ pc[p] = "readOutputs"
    /\ IF outputsSatisfy(loc[p].kind, loc[p].eval, loc[p].snap.revision)
       THEN /\ Goto(p, "served")
            /\ loc' = [loc EXCEPT ![p].out =
                         IF loc[p].eval = EmptyEval THEN NoOutputs
                         ELSE outputs[loc[p].kind]]
       ELSE Miss(p)
    /\ UNCHANGED <<model, marks, state, store, flight, crashes>>

ReadSteps == {"canon", "read", "readSlices", "readRows", "readOutputs"}

\* A store call of the reader may fail: the request is answered with an error,
\* or computed directly when it fails after a build.
ReadFail(p) ==
    /\ pc[p] \in ReadSteps
    /\ Leave(p)
    /\ UNCHANGED <<model, marks, state, store, flight, crashes>>

\* The response leaves the server.
Respond(p) ==
    /\ pc[p] = "served"
    /\ Leave(p)
    /\ UNCHANGED <<model, marks, state, store, flight, crashes>>
-----------------------------------------------------------------------------
(* buildDeterministic.  The flight admits one build per user; a caller     *)
(* that finds it taken waits for its outcome, whatever model it carries.   *)

\* (mutant) every caller builds.
BuildWithoutFlight(p) ==
    /\ pc[p] = "build"
    /\ flight' = p
    /\ Goto(p, "bState")
    /\ UNCHANGED <<model, marks, state, store, loc, crashes>>

JoinFlight(p) ==
    /\ pc[p] = "build"
    /\ IF flight = NoRequest
       THEN flight' = p /\ Goto(p, "bState")
       ELSE UNCHANGED flight /\ Goto(p, "wait")
    /\ UNCHANGED <<model, marks, state, store, loc, crashes>>

AfterBuild(q, ok) ==
    IF ~ok THEN "idle" ELSE IF loc[q].kind = "det" THEN "read" ELSE "sReload"

\* (mutant) only the owner learns that the build is over.
WakeOwnerOnly(p, ok) ==
    /\ flight' = NoRequest
    /\ Goto(p, AfterBuild(p, ok))
    /\ loc' = [loc EXCEPT ![p] = IF ok THEN [@ EXCEPT !.built = TRUE] ELSE NoLocal]

\* The build returns to its owner and to every caller that joined it.
EndFlight(p, ok) ==
    LET caller(q) == q = p \/ pc[q] = "wait" IN
    /\ flight' = NoRequest
    /\ pc' = [q \in Requests |-> IF caller(q) THEN AfterBuild(q, ok) ELSE pc[q]]
    /\ loc' = [q \in Requests |->
                 IF ~caller(q) THEN loc[q]
                 ELSE IF ~ok THEN NoLocal
                 ELSE [loc[q] EXCEPT !.built = TRUE, !.snap = NoState,
                                     !.seen = NoSlices, !.todo = {}]]

BuildState(p) ==
    /\ pc[p] = "bState"
    /\ state' = Canonical
    /\ loc' = [loc EXCEPT ![p].snap = Canonical]
    /\ Goto(p, "bSlices")
    /\ UNCHANGED <<model, marks, store, flight, crashes>>

\* Served already, outputs only, or a rebuild of the invalid suffix.
BuildSlices(p) ==
    /\ pc[p] = "bSlices"
    /\ LET st == loc[p].snap IN
         IF /\ complete(st, slices)
            /\ loc[p].eval = st.detEval
            /\ outputsSatisfy("det", loc[p].eval, st.revision)
         THEN EndFlight(p, TRUE)
         ELSE /\ Goto(p, IF complete(st, slices) THEN "bOutputsOnly" ELSE "bRecheck")
              /\ loc' = [loc EXCEPT ![p].seen = slices]
              /\ UNCHANGED flight
    /\ UNCHANGED <<model, marks, state, store, crashes>>

\* writeEvaluationOutputs for the model the request loaded.
WriteOutputs(p, kind) ==
    outputs' = [outputs EXCEPT ![kind] =
                  [eval |-> loc[p].eval, content |-> Content(loc[p].model, End),
                   revision |-> loc[p].snap.revision]]

BuildOutputsOnly(p) ==
    /\ pc[p] = "bOutputsOnly"
    /\ WriteOutputs(p, "det")
    /\ Goto(p, "bFingerprintOnly")
    /\ UNCHANGED <<model, marks, state, slices, rows, stats, flight, loc, crashes>>

\* SaveDeterministicEvaluations is conditional on the revision.
PersistFingerprint(p) ==
    state' = IF state.revision = loc[p].snap.revision
             THEN [state EXCEPT !.detEval = loc[p].eval] ELSE state

BuildFingerprintOnly(p) ==
    /\ pc[p] = "bFingerprintOnly"
    /\ PersistFingerprint(p)
    /\ EndFlight(p, state.revision = loc[p].snap.revision)
    /\ UNCHANGED <<model, marks, store, crashes>>

\* The projection is computed from the request's model; then the state is read
\* again and a build whose state moved gives up.
BuildRecheck(p) ==
    /\ pc[p] = "bRecheck"
    /\ LET st == loc[p].snap IN
         IF state.revision # st.revision \/ state.dirty # st.dirty
         THEN EndFlight(p, FALSE)
         ELSE /\ Goto(p, IF BeyondHorizon(loc[p].seen, st.dirty)
                         THEN "bOutputs" ELSE "bDelete")
              /\ UNCHANGED <<loc, flight>>
    /\ UNCHANGED <<model, marks, state, store, crashes>>

\* deleteSliceRows for the suffix.
BuildDelete(p) ==
    /\ pc[p] = "bDelete"
    /\ LET gone == Suffix(loc[p].seen, loc[p].snap.dirty)
           first == suffixFrom(loc[p].seen, loc[p].snap.dirty)
       IN  /\ rows' = [d \in Days |-> IF SliceOf(d) \in gone THEN Missing ELSE rows[d]]
           /\ stats' = [d \in Days |-> IF SliceOf(d) \in gone THEN Missing ELSE stats[d]]
           /\ loc' = [loc EXCEPT ![p].todo = {k \in Slices : FromAt(k) >= first}]
    /\ Goto(p, "bManifest")
    /\ UNCHANGED <<model, marks, state, slices, outputs, flight, crashes>>

\* ensureSuffixManifest saves one slice per statement, in order.
BuildManifest(p) ==
    /\ pc[p] = "bManifest"
    /\ LET k == Min(loc[p].todo) IN
         /\ slices' = [slices EXCEPT ![k] = loc[p].snap.revision]
         /\ loc' = [loc EXCEPT ![p].todo = @ \ {k}]
         /\ Goto(p, IF loc[p].todo = {k} THEN "bRows" ELSE "bManifest")
    /\ UNCHANGED <<model, marks, state, rows, stats, outputs, flight, crashes>>

\* writeDeterministicRows ranges over a Go map of the slices: unless the last
\* slice comes last in that order, the row of the horizon end finds no slice
\* and is skipped.
BuildRows(p) ==
    /\ pc[p] = "bRows"
    /\ LET from == suffixFrom(loc[p].seen, loc[p].snap.dirty) IN
       \E endKept \in (IF Years = 1 THEN {TRUE} ELSE BOOLEAN) :
         rows' = [d \in Days |->
                    IF Midnight(d) < from \/ (d = End /\ ~endKept) THEN rows[d]
                    ELSE Content(loc[p].model, d)]
    /\ Goto(p, "bOutputs")
    /\ UNCHANGED <<model, marks, state, slices, stats, outputs, flight, loc, crashes>>

BuildOutputs(p) ==
    LET adopt == {k \in Prefix(loc[p].seen, loc[p].snap.dirty) :
                     loc[p].seen[k] # loc[p].snap.revision} IN
    /\ pc[p] = "bOutputs"
    /\ WriteOutputs(p, "det")
    /\ loc' = [loc EXCEPT ![p].todo = adopt]
    /\ Goto(p, IF adopt = {} THEN "bFingerprint" ELSE "bAdopt")
    /\ UNCHANGED <<model, marks, state, slices, rows, stats, flight, crashes>>

\* adoptSlices carries one prefix slice per statement onto the revision.
BuildAdopt(p) ==
    /\ pc[p] = "bAdopt"
    /\ LET k == Min(loc[p].todo) IN
         /\ slices' = [slices EXCEPT ![k] = loc[p].snap.revision]
         /\ loc' = [loc EXCEPT ![p].todo = @ \ {k}]
         /\ Goto(p, IF loc[p].todo = {k} THEN "bFingerprint" ELSE "bAdopt")
    /\ UNCHANGED <<model, marks, state, rows, stats, outputs, flight, crashes>>

BuildFingerprint(p) ==
    /\ pc[p] = "bFingerprint"
    /\ PersistFingerprint(p)
    /\ IF state.revision = loc[p].snap.revision
       THEN Goto(p, "bPublish") /\ UNCHANGED <<loc, flight>>
       ELSE EndFlight(p, FALSE)
    /\ UNCHANGED <<model, marks, store, crashes>>

\* (mutant) publish whatever has been marked since.
PublishAlways(revision) == [state EXCEPT !.published = revision, !.dirty = 0]

\* PublishProjection clears dirty_from only while the revision still stands.
Published(revision) ==
    IF state.revision = revision
    THEN [state EXCEPT !.published = revision, !.dirty = 0] ELSE state

BuildPublish(p) ==
    /\ pc[p] = "bPublish"
    /\ state' = Published(loc[p].snap.revision)
    /\ EndFlight(p, TRUE)
    /\ UNCHANGED <<model, marks, store, crashes>>

BuildSteps == {"bState", "bSlices", "bOutputsOnly", "bFingerprintOnly", "bRecheck",
               "bDelete", "bManifest", "bRows", "bOutputs", "bAdopt",
               "bFingerprint", "bPublish"}

\* Any store call of a build may fail; every caller then computes directly.
BuildFail(p) ==
    /\ pc[p] \in BuildSteps
    /\ EndFlight(p, FALSE)
    /\ UNCHANGED <<model, marks, state, store, crashes>>
-----------------------------------------------------------------------------
(* buildStochastic, run by the owner of a shared run.                      *)

StochSteps == {"sState", "sReload", "sSeed", "sSlices", "sDelete", "sStats",
               "sOutputs", "sRecheck", "sSave", "sPublish"}

\* Whether the run works in the builder, a deterministic rebuild included.
InBuilder(p) ==
    loc[p].kind = "stoch" /\ pc[p] \in StochSteps \cup BuildSteps \cup {"build", "wait"}

\* The shared-run registry: a request whose exact content is being computed
\* attaches to that run and stores nothing itself.
Twin(p) ==
    \E q \in Requests \ {p} :
        /\ InBuilder(q)
        /\ loc[q].model = loc[p].model
        /\ loc[q].eval = loc[p].eval
        /\ loc[q].seed = loc[p].seed

\* (mutant) a dirty state is not rebuilt before the run.
StochSkipsRebuild(p) ==
    /\ pc[p] = "sState"
    /\ state' = Canonical
    /\ IF Twin(p) THEN Leave(p)
       ELSE loc' = [loc EXCEPT ![p].snap = Canonical] /\ Goto(p, "sSeed")
    /\ UNCHANGED <<model, marks, store, flight, crashes>>

StochState(p) ==
    /\ pc[p] = "sState"
    /\ state' = Canonical
    /\ IF Twin(p) THEN Leave(p)
       ELSE /\ loc' = [loc EXCEPT ![p].snap = Canonical]
            /\ Goto(p, IF Canonical.dirty > 0 THEN "build" ELSE "sSeed")
    /\ UNCHANGED <<model, marks, store, flight, crashes>>

\* After the deterministic rebuild the state is read again.
StochReload(p) ==
    /\ pc[p] = "sReload"
    /\ loc' = [loc EXCEPT ![p].snap = state]
    /\ Goto(p, "sSeed")
    /\ UNCHANGED <<model, marks, state, store, flight, crashes>>

\* Another seed than the frozen one is refused.  The first run freezes its
\* seed with SaveProjectionState, which writes the whole row back as the run
\* read it.
StochSeed(p) ==
    /\ pc[p] = "sSeed"
    /\ LET st == loc[p].snap
           saved == [st EXCEPT !.seed = loc[p].seed]
       IN  IF st.seed \notin {NoSeed, loc[p].seed}
           THEN Leave(p) /\ UNCHANGED state
           ELSE /\ state' = IF st.seed = NoSeed THEN saved ELSE state
                /\ loc' = [loc EXCEPT ![p].snap = saved]
                /\ Goto(p, "sSlices")
    /\ UNCHANGED <<model, marks, store, flight, crashes>>

\* ListProjectionSlices.  The branch that creates a missing manifest here is
\* dead code: StochFindsManifest below shows that the slices always cover.
StochSlices(p) ==
    /\ pc[p] = "sSlices"
    /\ slicesCover(slices)
    /\ Goto(p, "sDelete")
    /\ UNCHANGED <<model, marks, state, store, flight, loc, crashes>>

StochDelete(p) ==
    /\ pc[p] = "sDelete"
    /\ stats' = NoRows
    /\ Goto(p, "sStats")
    /\ UNCHANGED <<model, marks, state, slices, rows, outputs, flight, loc, crashes>>

\* Statistics never carry the request's overrides, but they do carry its model.
StochStats(p) ==
    /\ pc[p] = "sStats"
    /\ stats' = [d \in Days |-> Content(loc[p].model, d)]
    /\ Goto(p, "sOutputs")
    /\ UNCHANGED <<model, marks, state, slices, rows, outputs, flight, loc, crashes>>

StochOutputs(p) ==
    /\ pc[p] = "sOutputs"
    /\ WriteOutputs(p, "stoch")
    /\ Goto(p, "sRecheck")
    /\ UNCHANGED <<model, marks, state, slices, rows, stats, flight, loc, crashes>>

StochRecheck(p) ==
    /\ pc[p] = "sRecheck"
    /\ IF state.revision # loc[p].snap.revision \/ state.dirty # loc[p].snap.dirty
       THEN Leave(p)
       ELSE Goto(p, "sSave") /\ UNCHANGED loc
    /\ UNCHANGED <<model, marks, state, store, flight, crashes>>

\* SaveProjectionState again: the whole row, not only the fingerprint.
StochSave(p) ==
    /\ pc[p] = "sSave"
    /\ state' = [loc[p].snap EXCEPT !.stochEval = loc[p].eval]
    /\ Goto(p, "sPublish")
    /\ UNCHANGED <<model, marks, store, flight, loc, crashes>>

StochPublish(p) ==
    /\ pc[p] = "sPublish"
    /\ state' = Published(loc[p].snap.revision)
    /\ Leave(p)
    /\ UNCHANGED <<model, marks, store, flight, crashes>>

\* Any store call of a run may fail; the run then computes inline.
StochFail(p) ==
    /\ pc[p] \in StochSteps
    /\ Leave(p)
    /\ UNCHANGED <<model, marks, state, store, flight, crashes>>
-----------------------------------------------------------------------------
\* The process dies: requests, the flight and pending marks are gone, every
\* statement that ran is kept.
Crash ==
    /\ crashes < MaxCrashes
    /\ LoseMarks \/ marks = {}
    /\ crashes' = crashes + 1
    /\ marks' = {}
    /\ flight' = NoRequest
    /\ pc' = [p \in Requests |-> "idle"]
    /\ loc' = [p \in Requests |-> NoLocal]
    /\ UNCHANGED <<model, state, store>>

Start(p) ==
    \E kind \in Kinds, eval \in Evals, seed \in Seeds \cup {NoSeed},
       own \in OwnModels, other \in BOOLEAN :
        LoadModel(p, kind, eval, seed, own, other)

Read(p) ==
    \/ EnsureCanonicalState(p) \/ ReadState(p) \/ ReadSlices(p)
    \/ ReadRows(p) \/ ReadOutputs(p) \/ Respond(p)

Build(p) ==
    \/ JoinFlight(p) \/ BuildState(p) \/ BuildSlices(p)
    \/ BuildOutputsOnly(p) \/ BuildFingerprintOnly(p) \/ BuildRecheck(p)
    \/ BuildDelete(p) \/ BuildManifest(p) \/ BuildRows(p) \/ BuildOutputs(p)
    \/ BuildAdopt(p) \/ BuildFingerprint(p) \/ BuildPublish(p)

Stoch(p) ==
    \/ StochState(p) \/ StochReload(p) \/ StochSeed(p) \/ StochSlices(p)
    \/ StochDelete(p) \/ StochStats(p) \/ StochOutputs(p)
    \/ StochRecheck(p) \/ StochSave(p) \/ StochPublish(p)

Step(p) == Read(p) \/ Build(p) \/ Stoch(p)

Next ==
    \/ \E i \in WriteInstants : CommitWrite(i)
    \/ \E m \in marks : MarkProjectionDirty(m)
    \/ \E p \in Requests : \/ Start(p) \/ Step(p)
                           \/ ReadFail(p) \/ BuildFail(p) \/ StochFail(p)
    \/ Crash

Spec == Init /\ [][Next]_vars

\* Every request goroutine and every writer keeps running until a crash.
Fairness ==
    /\ \A p \in Requests : WF_vars(Step(p))
    /\ WF_vars(\E m \in marks : MarkProjectionDirty(m))

FairSpec == Spec /\ Fairness
-----------------------------------------------------------------------------
(* Properties.                                                             *)

Contents == {Missing, Foreign} \cup Nat
Revisions == {NoRev} \cup Nat
EvalPrints == Evals \cup {NoEval}
RequestKinds == {"det", "stoch"}

StateType == [revision : Nat, published : Nat, dirty : Nat, frozen : BOOLEAN,
              detEval : EvalPrints, stochEval : EvalPrints, seed : Seeds \cup {NoSeed}]

OutputType == [eval : EvalPrints, content : Contents, revision : Revisions]

LocalType == [kind : RequestKinds, model : {Foreign} \cup Nat, eval : Evals,
              seed : Seeds \cup {NoSeed}, other : BOOLEAN, built : BOOLEAN,
              snap : StateType, seen : [Slices -> Revisions],
              todo : SUBSET Slices, got : [Days -> Contents], out : OutputType]

Labels == {"idle", "canon", "read", "readSlices", "readRows", "readOutputs",
           "served", "build", "wait"} \cup BuildSteps \cup StochSteps

\* The type of every variable: the row, the tables and the request locals.
TypeOK ==
    /\ model \in Seq(Nat)
    /\ marks \in SUBSET (Nat \X Nat)
    /\ state \in StateType
    /\ slices \in [Slices -> Revisions]
    /\ rows \in [Days -> Contents]
    /\ stats \in [Days -> Contents]
    /\ outputs \in [RequestKinds -> OutputType]
    /\ flight \in Requests \cup {NoRequest}
    /\ pc \in [Requests -> Labels]
    /\ loc \in [Requests -> LocalType]
    /\ crashes \in Nat

\* The guard of the reader, over the stored state.
Servable(kind, eval) ==
    /\ complete(state, slices)
    /\ Fingerprint(state, kind) = eval
    /\ outputsSatisfy(kind, eval, state.revision)

\* What a response says about the days before the horizon end, and its
\* evaluations, is what the current model says.
CurrentResponse(p) ==
    /\ \A d \in Days \ {End} : loc[p].got[d] = Content(Version, d)
    /\ loc[p].eval # EmptyEval => /\ loc[p].out.eval = loc[p].eval
                                  /\ loc[p].out.content = Content(Version, End)

\* While no model write overlaps a request, a response served from the store
\* is the projection of the current model: suffix rebuilds, prefix adoption,
\* the beyond-horizon shortcut, failed and crashed builds and retries never
\* leave a stale day behind a clean state.
ServedExact ==
    \A p \in Requests :
        pc[p] = "served" /\ (loc[p].kind = "det" \/ loc[p].eval # EmptyEval)
            => CurrentResponse(p)

\* Whatever passes the reader's guard has a row for every day before the
\* horizon end: a build that is interrupted, fails or is overtaken by a dirty
\* mark never leaves a deleted suffix behind a clean state.
ServableComplete ==
    \A eval \in Evals :
        Servable("det", eval) => \A d \in Days \ {End} : rows[d] # Missing

\* A frozen, clean state is exactly a published one: PublishProjection is the
\* only way to clear dirty_from, and every later dirty mark sets it again.
CleanIsPublished ==
    /\ state.published <= state.revision
    /\ state.frozen /\ state.dirty = 0 => state.published = state.revision

\* buildFlight: one build at a time, owned by the flight, and a caller that
\* joined never waits for a flight that is already over.
OneBuildPerUser ==
    /\ \A p \in Requests : pc[p] \in BuildSteps <=> flight = p
    /\ \A p \in Requests : pc[p] = "wait" => flight # NoRequest

\* buildStochastic always finds a manifest that covers the window: the state
\* it works on was published by a build at least once.
StochFindsManifest ==
    \A p \in Requests : pc[p] = "sSlices" => slicesCover(slices)

\* A stored revision never goes back: readers compare slices and outputs with
\* it by equality only.
RevisionMonotone == [][state'.revision >= state.revision]_vars

\* Every request is answered, the ones that joined a build included.
EveryRequestEnds == \A p \in Requests : pc[p] # "idle" ~> pc[p] = "idle"
-----------------------------------------------------------------------------
(* What the documentation promises and the code does not keep.             *)

Quiet == marks = {} /\ \A p \in Requests : pc[p] = "idle"

\* docs/unified-projection.md: each write invalidates, and a concurrent model
\* write wins over a build.  At rest, what the reader would serve is current.
ServableCurrent ==
    Quiet => \A eval \in Evals :
        Servable("det", eval) =>
            \A d \in Days \ {End} : rows[d] = Content(Version, d)

\* Stored and computed responses agree: a response read from the store, its
\* bands included, has every day of the window before the horizon end.
ServedComplete ==
    \A p \in Requests :
        pc[p] = "served" => \A d \in Days \ {End} : loc[p].got[d] # Missing

\* The horizon end equals the last slice's to_at and belongs to it: a servable
\* projection has that row.
HorizonRowStored ==
    \A eval \in Evals : Servable("det", eval) => rows[End] # Missing

\* What a read may serve as clean is whole, and of the revision it claims.
CleanIsWhole == ServableComplete /\ CleanIsPublished
=============================================================================
