------------------------------ MODULE Analysis ------------------------------
(***************************************************************************)
(* The analysis runner, the findings it publishes and the owner's answers  *)
(* to them, for one user and one analysis (the recurring detector).  A     *)
(* worker claims a run in one transaction, computes outside any, and       *)
(* publishes in another; a run's lease lets another worker take over.      *)
(***************************************************************************)
EXTENDS Evidence

CONSTANTS
  Worker,        \* server processes that run the analysis loop
  MaxRun,        \* bound on run ids
  KeepRuns,      \* the run log keeps this many recent runs (128 in the code)
  MaxFault       \* bound on crashes, failed computations and expired leases

Act == {"confirm", "reject", "hide", "restore"}
Review == {none, "confirmed", "rejected"}

Run == [state : {"running", "succeeded", "failed", "superseded"}, input : Nat, leased : BOOLEAN, cooling : BOOLEAN,
        snapshot : Snapshots]
Job == [run : Nat, snapshot : Snapshots]
Finding == [run : Nat, occ : SUBSET Row, status : {"active", "withdrawn"}, review : Review, answers : Nat,
            dismissed : BOOLEAN]
Event == [row : Row, nr : Nat, act : Act, run : Nat, occ : SUBSET Row, review : Review, dismissed : BOOLEAN]
Seen == [row : Row, run : Nat, answers : Nat, occ : SUBSET Row]

ASSUME AnalysisAssumption ==
  /\ MaxRun \in Nat /\ KeepRuns \in Nat \ {0} /\ MaxFault \in Nat
  /\ none \notin Job /\ none \notin Finding /\ none \notin Seen

VARIABLES
  runs,      \* analysis_runs: id -> descriptor with its input snapshot
  issued,    \* run ids handed out
  work,      \* what each worker computes: its run and its input
  findings,  \* analysis_findings: at most one for a row
  feedback,  \* analysis_feedback: the answers to findings that still exist
  screen,    \* the finding the owner looks at, as it was listed
  faults     \* faults so far

inference == <<runs, issued, work, findings, feedback, screen, faults>>

Latest == Max(DOMAIN runs)

-----------------------------------------------------------------------------
(* Detection.  The rows the pattern needs are posted, regular and at least *)
(* two; each carries a finding that lists all of them.                     *)

Occurrences(snapshot) ==
  {r \in DOMAIN snapshot : snapshot[r].row = "posted" /\ snapshot[r].fact.regular}

Analyze(snapshot) ==
  LET occ == Occurrences(snapshot)
  IN [r \in IF Cardinality(occ) >= 2 THEN occ ELSE {} |-> occ]

-----------------------------------------------------------------------------
(* Runs.                                                                   *)

SettledFor(run, rev) == run.input = rev /\ (run.state = "succeeded" \/ (run.state = "failed" /\ run.cooling))

(* Mutant: a run whose lease has ended is left alone.                      *)
ClaimableFinished ==
  IF runs = <<>> THEN TRUE
  ELSE runs[Latest].state # "running" /\ ~SettledFor(runs[Latest], revision)

(* A live lease blocks; so does a run of this revision that succeeded, or  *)
(* that failed less than 30 seconds ago.                                   *)
Claimable ==
  IF runs = <<>> THEN TRUE
  ELSE IF runs[Latest].state = "running" THEN ~runs[Latest].leased
  ELSE ~SettledFor(runs[Latest], revision)

Ended(run, state) == [run EXCEPT !.state = state, !.leased = FALSE, !.cooling = (state = "failed")]

ClaimAnalysis(w) ==
  /\ work[w] = none
  /\ revision > 0 /\ issued < MaxRun
  /\ Claimable
  /\ issued' = issued + 1
  /\ runs' = [id \in DOMAIN runs \cup {issued + 1} |->
                IF id = issued + 1
                THEN [state |-> "running", input |-> revision, leased |-> TRUE, cooling |-> FALSE,
                      snapshot |-> LoadAnalysisSnapshot]
                ELSE IF runs[id].state = "running" THEN Ended(runs[id], "failed") ELSE runs[id]]
  /\ work' = [work EXCEPT ![w] = [run |-> issued + 1, snapshot |-> LoadAnalysisSnapshot]]
  /\ UNCHANGED <<evidence, findings, feedback, screen, faults>>

(* The stored run must exist (a clear removes it) and be running (another  *)
(* worker that took over has failed it).                                   *)
StillRunning(id) == id \in DOMAIN runs /\ runs[id].state = "running"

Outcome(id, failed) ==
  IF revision # runs[id].input THEN "superseded"
  ELSE IF failed THEN "failed" ELSE "succeeded"

(* The upsert of one detection keeps the answers.                          *)
Published(r, id, occ) ==
  IF findings[r] = none
  THEN [run |-> id, occ |-> occ, status |-> "active", review |-> none, answers |-> 0, dismissed |-> FALSE]
  ELSE [findings[r] EXCEPT !.run = id, !.occ = occ, !.status = "active"]

Withdrawn(r) ==
  IF findings[r] = none THEN none ELSE [findings[r] EXCEPT !.status = "withdrawn"]

Publish(id, found) ==
  findings' = [r \in Row |-> IF r \in DOMAIN found THEN Published(r, id, found[r]) ELSE Withdrawn(r)]

(* Mutant: only the runs of findings survive the pruning.                  *)
ReferencedByFindings(id) == \E r \in Row : findings'[r] # none /\ findings'[r].run = id

Referenced(id) ==
  \/ \E r \in Row : findings'[r] # none /\ findings'[r].run = id
  \/ \E e \in feedback : e.run = id

(* The recent runs, the running ones and the referenced ones stay.         *)
Pruned(log) ==
  LET recent == {id \in DOMAIN log : Cardinality({x \in DOMAIN log : x > id}) < KeepRuns}
  IN [id \in {x \in DOMAIN log : log[x].state = "running" \/ x \in recent \/ Referenced(x)} |-> log[id]]

(* A computation that ends, in an error or with its detections.  Findings  *)
(* of rows without facts cannot occur: a deletion advances the revision.   *)
CompleteAnalysis(w, failed) ==
  /\ work[w] # none
  /\ failed => faults < MaxFault
  /\ faults' = faults + One(failed)
  /\ work' = [work EXCEPT ![w] = none]
  /\ LET id == work[w].run
         out == Outcome(id, failed)
     IN IF StillRunning(id)
        THEN /\ IF out = "succeeded"
                THEN Publish(id, Analyze(work[w].snapshot))
                ELSE UNCHANGED findings
             /\ runs' = Pruned([runs EXCEPT ![id] = Ended(@, out)])
        ELSE UNCHANGED <<runs, findings>>
  /\ UNCHANGED <<evidence, issued, feedback, screen>>

(* A process stops; what it computed is lost, its run stays "running".     *)
Crash(w) ==
  /\ work[w] # none
  /\ faults < MaxFault
  /\ faults' = faults + 1
  /\ work' = [work EXCEPT ![w] = none]
  /\ UNCHANGED <<evidence, runs, issued, findings, feedback, screen>>

(* Sixty seconds after the claim the lease has ended, whether the worker   *)
(* is gone or late.  A late worker counts as a fault.                      *)
LeaseEnds ==
  \E id \in DOMAIN runs :
    LET late == \E w \in Worker : work[w] # none /\ work[w].run = id
    IN /\ runs[id].leased
       /\ late => faults < MaxFault
       /\ faults' = faults + One(late)
       /\ runs' = [runs EXCEPT ![id].leased = FALSE]
       /\ UNCHANGED <<evidence, issued, work, findings, feedback, screen>>

(* Thirty seconds after the latest run failed.                             *)
CooldownEnds ==
  /\ runs # <<>> /\ runs[Latest].cooling
  /\ runs' = [runs EXCEPT ![Latest].cooling = FALSE]
  /\ UNCHANGED <<evidence, issued, work, findings, feedback, screen, faults>>

-----------------------------------------------------------------------------
(* The owner's answers.                                                    *)

ListAnalysisFindings(r) ==
  /\ findings[r] # none
  /\ screen' = [row |-> r, run |-> findings[r].run, answers |-> findings[r].answers, occ |-> findings[r].occ]
  /\ screen' # screen
  /\ UNCHANGED <<evidence, runs, issued, work, findings, feedback, faults>>

(* Mutant: only the number of answers is compared.                         *)
SameAnswers(f, seen) == seen.answers = f.answers

(* The prediction and the answers must be the ones the request names.      *)
SeenByOwner(f, seen) == seen.run = f.run /\ seen.answers = f.answers

(* Confirm and reject: a settled row, a prediction that is not withdrawn   *)
(* unless it was answered before, and inputs that have not changed.        *)
Answerable(r) ==
  /\ row[r] = "posted"
  /\ findings[r].review = none => findings[r].status = "active"
  /\ runs[findings[r].run].input = revision

Answer(r, act) ==
  LET f == findings[r]
      review == CASE act = "confirm" -> "confirmed"
                  [] act = "reject" -> "rejected"
                  [] act = "restore" /\ f.review = "rejected" -> none
                  [] OTHER -> f.review
      dismissed == act \in {"reject", "hide"}
  IN /\ findings' = [findings EXCEPT ![r] =
                       [f EXCEPT !.review = review, !.answers = @ + 1, !.dismissed = dismissed]]
     /\ feedback' = feedback \cup
                      {[row |-> r, nr |-> f.answers + 1, act |-> act, run |-> f.run, occ |-> f.occ,
                        review |-> review, dismissed |-> dismissed]}
     /\ UNCHANGED <<evidence, runs, issued, work, screen, faults>>

(* A review names what the owner saw.  A retry under the same request id   *)
(* is answered from the event it wrote and changes nothing.                *)
ReviewAnalysisFinding(act) ==
  /\ screen # none
  /\ findings[screen.row] # none
  /\ SeenByOwner(findings[screen.row], screen)
  /\ act \in {"confirm", "reject"} => Answerable(screen.row)
  /\ Answer(screen.row, act)

(* Hiding from the list takes the finding as it is.                        *)
DismissAnalysisFinding(r, act) ==
  /\ findings[r] # none
  /\ act \in {"hide", "restore"}
  /\ Answer(r, act)

(* Deleting a row deletes its finding and the answers to it.               *)
DropFindings(R) ==
  /\ findings' = [r \in Row |-> IF r \in R THEN none ELSE findings[r]]
  /\ feedback' = {e \in feedback : e.row \notin R}

(* A clear deletes the runs too; workers go on computing theirs.           *)
ClearAnalysis ==
  /\ DropFindings(Row)
  /\ runs' = <<>>
  /\ UNCHANGED <<issued, work, screen, faults>>

DropAnalysis(r) ==
  /\ DropFindings({r})
  /\ UNCHANGED <<runs, issued, work, screen, faults>>

AnalysisInit ==
  /\ runs = <<>> /\ issued = 0
  /\ work = [w \in Worker |-> none]
  /\ findings = [r \in Row |-> none]
  /\ feedback = {} /\ screen = none /\ faults = 0

-----------------------------------------------------------------------------
(* Properties.                                                             *)

(* The saved evidence has been analysed.                                   *)
CaughtUp == revision > 0 => runs # <<>> /\ runs[Latest].state = "succeeded" /\ runs[Latest].input = revision

(* The list flags an active finding as stale when its run read another     *)
(* revision.  One that is not flagged is what the detector says of the     *)
(* saved evidence now, and once a run of this revision has succeeded       *)
(* nothing it says is missing: no trigger is missing, and a worker that    *)
(* comes back late withdraws nothing and publishes nothing of its own.     *)
FreshIsCurrent ==
  LET now == Analyze(LoadAnalysisSnapshot)
      active == {r \in Row : findings[r] # none /\ findings[r].status = "active"}
  IN /\ \A r \in active :
          findings[r].run \in DOMAIN runs /\ runs[findings[r].run].input = revision
          => r \in DOMAIN now /\ findings[r].occ = now[r]
     /\ CaughtUp => active = DOMAIN now

(* The run behind a finding or an answer is still in the log, and its      *)
(* input snapshot reproduces the prediction: pruning and take-overs never  *)
(* cut a finding from its evidence (the list joins runs and would hide it).*)
Reproducible ==
  LET from(x, r) == /\ x.run \in DOMAIN runs
                    /\ LET was == Analyze(runs[x.run].snapshot) IN r \in DOMAIN was /\ x.occ = was[r]
  IN /\ \A r \in Row : findings[r] # none => from(findings[r], r)
     /\ \A e \in feedback : from(e, e.row)

(* The review a finding shows is the one its last answer left, however     *)
(* often the detector ran, withdrew and found it again since.              *)
ReviewIsLastAnswer ==
  \A r \in Row : findings[r] # none =>
    LET mine == {e \in feedback : e.row = r}
    IN /\ Cardinality(mine) = findings[r].answers
       /\ IF mine = {} THEN findings[r].review = none
          ELSE \E e \in mine : e.nr = findings[r].answers /\ e.review = findings[r].review

(* Findings, runs and answers stay joined: see the two parts above.        *)
FindingsBacked == Reproducible /\ ReviewIsLastAnswer

(* A verdict labels the prediction that was on the owner's screen, and     *)
(* that prediction follows from the evidence at that moment: a run or a    *)
(* sync in between refuses it.                                             *)
VerdictOnSeen ==
  [][\A e \in feedback' \ feedback : e.act \in {"confirm", "reject"} =>
       /\ screen # none /\ e.occ = screen.occ
       /\ LET now == Analyze(LoadAnalysisSnapshot) IN e.row \in DOMAIN now /\ e.occ = now[e.row]]_<<evidence, inference>>

(* Whatever crashes, fails or changes in between, the worker comes back to *)
(* a successful run of the latest evidence.                                *)
EvidenceAnalyzed == []<>CaughtUp

AnalysisTypeOK ==
  /\ issued \in 0..MaxRun /\ DOMAIN runs \subseteq 1..issued
  /\ runs \in [DOMAIN runs -> Run]
  /\ work \in [Worker -> Job \cup {none}]
  /\ findings \in [Row -> Finding \cup {none}]
  /\ feedback \subseteq Event /\ IsFiniteSet(feedback)
  /\ screen \in Seen \cup {none}
  /\ faults \in Nat
  /\ \A id \in DOMAIN runs : runs[id].input <= revision
  /\ \A w \in Worker : work[w] # none => work[w].run \in 1..issued
  /\ \A r \in Row : findings[r] # none => Present(r)
=============================================================================
