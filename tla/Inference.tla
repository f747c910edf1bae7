------------------------------ MODULE Inference ------------------------------
(***************************************************************************)
(* The background workers over one user's bank evidence: the analysis      *)
(* runner with its findings, answers and generated schedules, and the      *)
(* category worker.  They meet in the rows a sync writes and the owner     *)
(* deletes, each in one transaction.                                       *)
(***************************************************************************)
EXTENDS PatternSchedule, Categories

CONSTANT Scopes   \* what a behaviour is about, see Scope

(* A behaviour stays within one scope: the rows that were posted before,   *)
(* the facts the bank sends, with holds or without, the revisions and      *)
(* faults it has room for, the workers that run, the owner's answers and   *)
(* their number, and whether schedules and categories are in use.          *)
Scope == [posted : SUBSET Row, facts : SUBSET Fact, arrives : SUBSET {"pending", "posted"},
          revisions : 0..MaxRevision, faults : 0..MaxFault, workers : SUBSET Worker,
          acts : SUBSET Act, answers : Nat,
          schedules : BOOLEAN, categories : BOOLEAN]

ASSUME ScopesAssumption == Scopes \subseteq Scope

VARIABLE scope

vars == <<scope, evidence, inference, planning, categories>>

Init ==
  /\ scope \in Scopes
  /\ \E f \in scope.facts : EvidenceInit(scope.posted, f)
  /\ AnalysisInit /\ PlanningInit /\ CategoriesInit

-----------------------------------------------------------------------------
(* Transactions that write rows.                                           *)

Observe(r, f, s) ==
  /\ ObserveBankTransaction(r, f, s)
  /\ SetBankTransactionCategory(r, f)
  /\ UNCHANGED <<results, inference, planning>>

Void(r) ==
  /\ VoidRow(r)
  /\ UNCHANGED <<inference, planning, categories>>

UpdateTransaction(r) ==
  /\ UpdateRow(r)
  /\ UNCHANGED <<inference, planning, categories>>

DeleteTransaction(r) ==
  /\ DeleteRow(r)
  /\ DropAnalysis(r)
  /\ DropCategories({r})
  /\ UNCHANGED planning

ClearModel ==
  /\ ClearRows
  /\ ClearAnalysis
  /\ ClearSchedules
  /\ DropCategories(Row)

(* Rows are numbered in the order in which the bank first reports them.    *)
InOrder(r) == \A x \in Row : x < r => row[x] # "new"

RowWrite ==
  /\ \/ \E r \in Row, f \in scope.facts, s \in scope.arrives : InOrder(r) /\ Observe(r, f, s)
     \/ \E r \in Row : Void(r) \/ UpdateTransaction(r) \/ DeleteTransaction(r)
     \/ ClearModel
  /\ revision' <= scope.revisions

-----------------------------------------------------------------------------
(* The parts on their own.                                                 *)

RunnerStep ==
  \E w \in scope.workers :
    \/ ClaimAnalysis(w)
    \/ CompleteAnalysis(w, FALSE)

RunnerFault ==
  /\ \/ \E w \in scope.workers : CompleteAnalysis(w, TRUE) \/ Crash(w)
     \/ LeaseEnds
     \/ CooldownEnds
  /\ faults' <= scope.faults

OwnerStep ==
  \/ scope.acts # {} /\ \E r \in Row : ListAnalysisFindings(r)
  \/ /\ Cardinality(feedback) < scope.answers
     /\ \E act \in scope.acts :
          \/ ReviewAnalysisFinding(act)
          \/ \E r \in Row : DismissAnalysisFinding(r, act)

ScheduleStep ==
  /\ scope.schedules
  /\ \/ \E r \in Row : PreviewPatternToNewSchedule(r)
     \/ RecordPatternToNewSchedule
     \/ PersistFinanceSchedule
     \/ (PersistFails \/ ApprovalLost) /\ faults' <= scope.faults
     \/ \E s \in Sched : DisableSchedule(s) \/ EnableSchedule(s) \/ DeleteSchedule(s)

CategoryStep ==
  /\ scope.categories
  /\ \/ StartPass
     \/ \E r \in Row : SetInferredTransactionCategory(r)
     \/ PassEnds
     \/ \E r \in Row : SetUserTransactionCategory(r, "rent") \/ ClearUserCategory(r)

Next ==
  /\ UNCHANGED scope
  /\ \/ RowWrite
     \/ (RunnerStep \/ RunnerFault \/ OwnerStep) /\ UNCHANGED <<planning, categories>>
     \/ ScheduleStep /\ UNCHANGED categories
     \/ CategoryStep /\ UNCHANGED <<inference, planning>>

(* The tickers of both workers keep firing, a computation ends (its        *)
(* context has a deadline), leases and cool-downs run out with time, and   *)
(* the worker's writes do not fail for ever: the result of a row that      *)
(* every pass recognises is stored once.                                   *)
Fairness ==
  /\ \A w \in Worker : WF_vars(w \in scope.workers /\ ClaimAnalysis(w) /\ UNCHANGED <<scope, planning, categories>>)
  /\ \A w \in Worker : WF_vars(CompleteAnalysis(w, FALSE) /\ UNCHANGED <<scope, planning, categories>>)
  /\ WF_vars(LeaseEnds /\ faults' = faults /\ UNCHANGED <<scope, planning, categories>>)
  /\ WF_vars(CooldownEnds /\ UNCHANGED <<scope, planning, categories>>)
  /\ WF_vars(scope.categories /\ StartPass /\ UNCHANGED <<scope, inference, planning>>)
  /\ \A r \in Row : SF_vars(SetInferredTransactionCategory(r) /\ UNCHANGED <<scope, inference, planning>>)

Spec == Init /\ [][Next]_vars /\ Fairness

-----------------------------------------------------------------------------
(* Properties of the composition.                                          *)

(* The rows, runs, findings, schedules and categories are well formed, and *)
(* what belongs to a row goes when the row does.                           *)
TypeOK == EvidenceTypeOK /\ AnalysisTypeOK /\ PlanningTypeOK /\ CategoriesTypeOK

(* What is derived from the rows says what the rows say now: findings that *)
(* are not flagged stale, and categories the bank supplies.                *)
DerivedIsCurrent == FreshIsCurrent /\ BankValueShows

(* Findings and what is generated from them stay joined to their evidence. *)
GeneratedIsBacked == FindingsBacked /\ OneScheduleUntilRevived

(* The owner's answers label what the owner saw, and their choices outlive *)
(* every later run, pass and sync.                                         *)
OwnerHeard == VerdictOnSeen /\ OwnerChoiceStays

(* Where an analysis worker runs, it comes back to a successful run of the *)
(* latest evidence, whatever crashed, failed or changed in between; where  *)
(* the category worker runs and the owner stops clearing categories, a row *)
(* whose text the classifier recognises is categorized, voided or deleted  *)
(* in the end, except behind as many newer uncategorized rows that it does *)
(* not recognise as a pass takes.                                          *)
WorkersCatchUp ==
  /\ scope.workers # {} => EvidenceAnalyzed
  /\ scope.categories => RecognizedGetsCategory
=============================================================================
