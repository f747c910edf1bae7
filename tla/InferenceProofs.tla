-------------------------- MODULE InferenceProofs --------------------------
(***************************************************************************)
(* Proofs about Inference, for every scope, any rows, workers and          *)
(* schedules: the types, and all its safety properties.                    *)
(***************************************************************************)
EXTENDS Inference, FiniteSetTheorems, WellFoundedInduction, TLAPS

(* The evidence a run read is the evidence that stands, as long as no      *)
(* trigger has fired since.                                                *)
Aligned == \A id \in DOMAIN runs : runs[id].input = revision => runs[id].snapshot = LoadAnalysisSnapshot

(* A claim ends every earlier run: only the latest can be running.         *)
OnlyLatestRuns == \A id, x \in DOMAIN runs : runs[id].state = "running" => x <= id

(* A worker computes on the snapshot of its run.                           *)
JobsAreRuns ==
  \A w \in Worker : work[w] # none /\ work[w].run \in DOMAIN runs => work[w].snapshot = runs[work[w].run].snapshot

(* Before the first fact there is nothing to analyse.                      *)
NothingYet ==
  revision = 0 => /\ runs = <<>>
                  /\ \A r \in Row : facts[r] = none /\ findings[r] = none

RunsSound == Aligned /\ OnlyLatestRuns /\ JobsAreRuns /\ NothingYet

(* What a prediction says follows from the snapshot of its run.            *)
From(x, r) ==
  /\ x.run \in DOMAIN runs
  /\ r \in DOMAIN Analyze(runs[x.run].snapshot)
  /\ x.occ = Analyze(runs[x.run].snapshot)[r]

ActiveRows == {r \in Row : findings[r] # none /\ findings[r].status = "active"}

(* Once the latest run has succeeded on what stands, the active findings   *)
(* are the ones it made.                                                   *)
SucceededIsShown ==
  runs # <<>> /\ runs[Latest].state = "succeeded" /\ runs[Latest].input = revision
    => ActiveRows = DOMAIN Analyze(runs[Latest].snapshot)

(* The finding on the screen was predicted by its run, if that is in the   *)
(* log; ids are not used again.                                            *)
ScreenFollows ==
  screen # none => /\ screen.run \in 1..issued
                   /\ screen.run \in DOMAIN runs => From(screen, screen.row)

(* Answers belong to findings and are numbered.                            *)
AnswersNumbered ==
  \A e \in feedback : findings[e.row] # none /\ e.nr <= findings[e.row].answers

AnswersTo(r) == {e \in feedback : e.row = r}

LastAnswerShows(r) ==
  /\ Cardinality(AnswersTo(r)) = findings[r].answers
  /\ IF AnswersTo(r) = {} THEN findings[r].review = none
     ELSE \E e \in AnswersTo(r) : e.nr = findings[r].answers /\ e.review = findings[r].review

FindingsSound == Reproducible /\ SucceededIsShown /\ ScreenFollows /\ AnswersNumbered /\ ReviewIsLastAnswer

(* A schedule that is enabled and was never revived is the one its         *)
(* pattern's link names; while an approval is under way its pattern has    *)
(* none, and its link stands until a clear takes its accounts too.         *)
LinkNamesActive ==
  \A s \in Sched : schedules[s] # none /\ schedules[s].enabled /\ ~schedules[s].revived
    => promotions[schedules[s].key] = s

ApprovalAlone ==
  approval # none =>
    /\ \A s \in Sched : schedules[s] # none /\ schedules[s].key = approval.key /\ schedules[s].enabled
         => schedules[s].revived
    /\ approval.at = "create" /\ approval.accounts => promotions[approval.key] = approval.id

SchedulesSound == LinkNamesActive /\ ApprovalAlone

IndInv == TypeOK /\ RunsSound /\ FindingsSound /\ SchedulesSound /\ BankValueShows

-----------------------------------------------------------------------------
(* Largest ids.                                                            *)

(* A nonempty set of naturals has a least element.                         *)
LEMMA LeastElement ==
  ASSUME NEW T \in SUBSET Nat, T # {}
  PROVE  \E m \in T : \A n \in T : m <= n
<1>1. \E m \in T : \A n \in T : ~(<<n, m>> \in OpToRel(<, Nat))
  BY NatLessThanWellFounded, WFMin
<1>2. PICK m \in T : \A n \in T : ~(<<n, m>> \in OpToRel(<, Nat))
  BY <1>1
<1>3. ASSUME NEW n \in T PROVE ~(n < m)
  <2>1. n < m => <<n, m>> \in {ss \in Nat \X Nat : ss[1] < ss[2]}
    OBVIOUS
  <2> QED BY <1>2, <2>1 DEF OpToRel
<1>4. \A n \in T : m <= n
  BY <1>3
<1> QED BY <1>4

(* The largest of a nonempty bounded set of naturals is in it.             *)
LEMMA LargestElement ==
  ASSUME NEW S \in SUBSET Nat, S # {}, NEW bound \in Nat, \A y \in S : y <= bound
  PROVE  Max(S) \in S /\ \A y \in S : y <= Max(S)
<1> DEFINE T == {n \in Nat : bound - n \in S}
<1>1. T \in SUBSET Nat /\ T # {}
  <2>1. PICK y \in S : TRUE
    OBVIOUS
  <2>2. bound - y \in Nat /\ bound - (bound - y) = y
    OBVIOUS
  <2> QED BY <2>1, <2>2
<1>2. \A y \in S : bound - y \in T
  OBVIOUS
<1>3. \A n \in T : \E y \in S : n = bound - y
  OBVIOUS
<1> HIDE DEF T
<1>4. PICK m \in T : \A n \in T : m <= n
  BY <1>1, LeastElement
<1>5. PICK x \in S : m = bound - x
  BY <1>3
<1>6. \A y \in S : x >= y
  BY <1>2, <1>4, <1>5
<1> QED BY <1>6 DEF Max

(* The latest run is in the log.                                           *)
LEMMA LatestIsLast ==
  ASSUME AnalysisTypeOK, runs # <<>>
  PROVE  Latest \in DOMAIN runs /\ \A id \in DOMAIN runs : id <= Latest
<1>1. DOMAIN runs # {}
  BY DEF AnalysisTypeOK
<1>2. DOMAIN runs \in SUBSET Nat /\ issued \in Nat /\ \A id \in DOMAIN runs : id <= issued
  BY AnalysisAssumption DEF AnalysisTypeOK
<1> QED BY <1>1, <1>2, LargestElement DEF Latest

-----------------------------------------------------------------------------
(* The answers to one finding at a time.                                   *)
LEMMA AnswersRowByRow ==
  ReviewIsLastAnswer <=> \A r \in Row : findings[r] # none => LastAnswerShows(r)
BY DEF ReviewIsLastAnswer, LastAnswerShows, AnswersTo

LEMMA AnswersRowByRowNext ==
  ReviewIsLastAnswer' <=> \A r \in Row : findings'[r] # none => LastAnswerShows(r)'
BY DEF ReviewIsLastAnswer, LastAnswerShows, AnswersTo

(* What a write of rows does to the rest: the rows in R go, and their      *)
(* findings and answers with them; any change raises the revision.         *)

RowsChange(R) ==
  /\ EvidenceTypeOK'
  /\ revision' >= revision /\ (revision' = revision => row' = row /\ facts' = facts)
  /\ R = {} \/ revision' > revision
  /\ \A r \in Row \ R : Present(r) => Present(r)'
  /\ DropFindings(R)
  /\ runs' = runs \/ (R = Row /\ runs' = <<>>)
  /\ UNCHANGED <<issued, work, screen, faults>>

(* Nothing is dropped when findings and answers stay.                      *)
LEMMA DropsNothing ==
  ASSUME AnalysisTypeOK, UNCHANGED inference
  PROVE  DropFindings({}) /\ runs' = runs /\ UNCHANGED <<issued, work, screen, faults>>
BY DEF AnalysisTypeOK, DropFindings, inference

LEMMA ObserveChanges ==
  ASSUME TypeOK, NEW r \in Row, NEW f \in Fact, NEW s \in {"pending", "posted"}, Observe(r, f, s)
  PROVE  RowsChange({})
<1> USE DEF Observe, ObserveBankTransaction, TypeOK, Bump, Bumps, One
<1>1. DropFindings({}) /\ runs' = runs /\ UNCHANGED <<issued, work, screen, faults>>
  BY DropsNothing
<1>2. row' \in [Row -> Listed \cup {"new", "gone"}] /\ facts' \in [Row -> Fact \cup {none}]
  BY DEF EvidenceTypeOK, Listed
<1>3. row[r] \in Listed \cup {"new", "gone"} /\ facts[r] \in Fact \cup {none} /\ f # none
  BY EvidenceAssumption DEF EvidenceTypeOK
<1>4. row'[r] = s /\ facts'[r] = f /\ \A x \in Row \ {r} : row'[x] = row[x] /\ facts'[x] = facts[x]
  BY DEF EvidenceTypeOK
<1>5. revision \in Nat /\ revision' \in Nat /\ revision' >= revision
  BY DEF EvidenceTypeOK
<1>6. \A x \in Row : Present(x)' <=> facts'[x] # none
  BY <1>3, <1>4 DEF EvidenceTypeOK, Present, Listed
<1>7. revision' = revision => row' = row /\ facts' = facts
  <2>1. SUFFICES ASSUME revision' = revision PROVE row'[r] = row[r] /\ facts'[r] = facts[r]
    BY <1>2, <1>4 DEF EvidenceTypeOK
  <2>2. facts[r] = f /\ ~(Present(r) /\ row[r] # s)
    BY <1>5, <2>1
  <2>3. Present(r)
    BY <1>3, <2>2 DEF EvidenceTypeOK
  <2> QED BY <1>4, <2>2, <2>3
<1>8. \A x \in Row : Present(x) => Present(x)'
  BY <1>4 DEF Present, Listed
<1> QED BY <1>1, <1>2, <1>5, <1>6, <1>7, <1>8 DEF RowsChange, EvidenceTypeOK

LEMMA VoidChanges ==
  ASSUME TypeOK, NEW r \in Row, Void(r)
  PROVE  RowsChange({})
<1> USE DEF Void, VoidRow, TypeOK, Bump, Bumps
<1>1. DropFindings({}) /\ runs' = runs /\ UNCHANGED <<issued, work, screen, faults>>
  BY DropsNothing
<1>2. row' \in [Row -> Listed \cup {"new", "gone"}] /\ facts' = facts
  BY DEF EvidenceTypeOK, Listed
<1>3. row'[r] = "void" /\ row[r] = "pending" /\ \A x \in Row \ {r} : row'[x] = row[x]
  BY DEF EvidenceTypeOK
<1>4. revision \in Nat /\ revision' = revision + 1
  BY DEF EvidenceTypeOK
<1>5. \A x \in Row : Present(x)' <=> Present(x)
  BY <1>3 DEF Present, Listed
<1>6. EvidenceTypeOK'
  BY <1>2, <1>4, <1>5 DEF EvidenceTypeOK
<1> QED BY <1>1, <1>4, <1>5, <1>6 DEF RowsChange

LEMMA UpdateChanges ==
  ASSUME TypeOK, NEW r \in Row, UpdateTransaction(r)
  PROVE  RowsChange({})
<1> USE DEF UpdateTransaction, UpdateRow, TypeOK, Bump, Bumps
<1>1. DropFindings({}) /\ runs' = runs /\ UNCHANGED <<issued, work, screen, faults>>
  BY DropsNothing
<1>2. row' \in [Row -> Listed \cup {"new", "gone"}] /\ facts' = facts
  BY DEF EvidenceTypeOK, Listed
<1>3. row'[r] \in Listed /\ row[r] \in Listed /\ \A x \in Row \ {r} : row'[x] = row[x]
  BY DEF EvidenceTypeOK, Present, Listed
<1>4. revision \in Nat /\ revision' = revision + 1
  BY DEF EvidenceTypeOK
<1>5. \A x \in Row : Present(x)' <=> Present(x)
  BY <1>3 DEF Present
<1>6. EvidenceTypeOK'
  BY <1>2, <1>4, <1>5 DEF EvidenceTypeOK
<1> QED BY <1>1, <1>4, <1>5, <1>6 DEF RowsChange

LEMMA DeleteChanges ==
  ASSUME TypeOK, NEW r \in Row, DeleteTransaction(r)
  PROVE  RowsChange({r})
<1> USE DEF DeleteTransaction, DeleteRow, DropAnalysis, TypeOK, Bump, Bumps
<1>1. row' \in [Row -> Listed \cup {"new", "gone"}] /\ facts' \in [Row -> Fact \cup {none}]
  BY DEF EvidenceTypeOK, Listed
<1>2. row'[r] = "gone" /\ facts'[r] = none /\ \A x \in Row \ {r} : row'[x] = row[x] /\ facts'[x] = facts[x]
  BY DEF EvidenceTypeOK
<1>3. revision \in Nat /\ revision' = revision + 1
  BY DEF EvidenceTypeOK
<1>4. \A x \in Row : Present(x)' <=> facts'[x] # none
  BY <1>2 DEF EvidenceTypeOK, Present, Listed
<1>5. \A x \in Row \ {r} : Present(x) => Present(x)'
  BY <1>2 DEF Present
<1> QED BY <1>1, <1>3, <1>4, <1>5 DEF RowsChange, EvidenceTypeOK

LEMMA ClearChanges ==
  ASSUME TypeOK, ClearModel
  PROVE  RowsChange(Row)
<1> USE DEF ClearModel, ClearRows, ClearAnalysis, TypeOK, Bump, Bumps
<1> DEFINE known == {r \in Row : facts[r] # none}
<1>1. row' \in [Row -> Listed \cup {"new", "gone"}] /\ facts' \in [Row -> Fact \cup {none}]
  BY DEF EvidenceTypeOK, Listed, Present
<1>2. known # {}
  BY DEF EvidenceTypeOK
<1>3. Cardinality(known) \in Nat \ {0}
  <2>1. IsFiniteSet(known)
    BY EvidenceAssumption, FS_Subset
  <2> HIDE DEF known
  <2> QED BY <1>2, <2>1, FS_CardinalityType, FS_EmptySet
<1>4. revision \in Nat /\ revision' = revision + Cardinality(known)
  BY <1>3 DEF EvidenceTypeOK
<1> HIDE DEF known
<1>5. \A x \in Row : ~Present(x)' /\ facts'[x] = none
  BY DEF Present, Listed
<1>6. revision' \in Nat /\ revision' > revision
  BY <1>3, <1>4
<1> QED BY <1>1, <1>5, <1>6 DEF RowsChange, EvidenceTypeOK

(* Every write of rows is one of these.                                    *)
LEMMA RowWriteChanges ==
  ASSUME TypeOK, scope \in Scope, RowWrite
  PROVE  \E R \in SUBSET Row : RowsChange(R)
<1>1. ASSUME NEW r \in Row, NEW f \in scope.facts, NEW s \in scope.arrives, Observe(r, f, s)
      PROVE  RowsChange({})
  <2>1. f \in Fact /\ s \in {"pending", "posted"}
    BY DEF Scope
  <2> QED BY <1>1, <2>1, ObserveChanges
<1>2. ASSUME NEW r \in Row, Void(r) \/ UpdateTransaction(r) \/ DeleteTransaction(r)
      PROVE  RowsChange({}) \/ RowsChange({r})
  BY <1>2, VoidChanges, UpdateChanges, DeleteChanges
<1>3. ClearModel => RowsChange(Row)
  BY ClearChanges
<1> QED BY <1>1, <1>2, <1>3 DEF RowWrite

-----------------------------------------------------------------------------
(* A write of rows keeps the parts sound.                                  *)

LEMMA RowsKeepTypes ==
  ASSUME TypeOK, NEW R \in SUBSET Row, RowsChange(R)
  PROVE  AnalysisTypeOK'
<1> USE DEF TypeOK, RowsChange, DropFindings
<1>1. runs' \in [DOMAIN runs' -> Run] /\ DOMAIN runs' \subseteq 1..issued'
  <2>1. CASE runs' = runs
    BY <2>1 DEF AnalysisTypeOK
  <2>2. CASE runs' = <<>>
    BY <2>2
  <2> QED BY <2>1, <2>2
<1>2. findings' \in [Row -> Finding \cup {none}]
  BY DEF AnalysisTypeOK
<1>3. feedback' \subseteq Event /\ IsFiniteSet(feedback')
  BY FS_Subset DEF AnalysisTypeOK
<1>4. \A r \in Row : findings'[r] # none => Present(r)'
  BY DEF AnalysisTypeOK
<1>5. \A id \in DOMAIN runs' : runs'[id].input <= revision'
  <2>1. ASSUME NEW id \in DOMAIN runs' PROVE runs' = runs /\ id \in DOMAIN runs
    BY <2>1
  <2>2. ASSUME NEW id \in DOMAIN runs PROVE runs[id].input <= revision'
    BY DEF AnalysisTypeOK, Run, EvidenceTypeOK
  <2> QED BY <2>1, <2>2
<1> QED BY <1>1, <1>2, <1>3, <1>4, <1>5 DEF AnalysisTypeOK

LEMMA RowsKeepRuns ==
  ASSUME TypeOK, RunsSound, NEW R \in SUBSET Row, RowsChange(R)
  PROVE  RunsSound'
<1> USE DEF TypeOK, RowsChange
<1>1. \A id \in DOMAIN runs' : runs' = runs /\ id \in DOMAIN runs
  OBVIOUS
<1>2. revision \in Nat /\ revision' \in Nat
  BY DEF EvidenceTypeOK
<1>3. Aligned'
  <2>1. SUFFICES ASSUME NEW id \in DOMAIN runs, runs' = runs, runs[id].input = revision'
                 PROVE  runs[id].snapshot = LoadAnalysisSnapshot'
    BY <1>1 DEF Aligned
  <2>2. runs[id].input <= revision
    BY DEF AnalysisTypeOK
  <2>3. revision' = revision
    BY <1>2, <2>1, <2>2
  <2>4. LoadAnalysisSnapshot' = LoadAnalysisSnapshot
    BY <2>3 DEF LoadAnalysisSnapshot
  <2> QED BY <2>1, <2>3, <2>4 DEF RunsSound, Aligned
<1>4. OnlyLatestRuns'
  BY <1>1 DEF RunsSound, OnlyLatestRuns
<1>5. JobsAreRuns'
  BY <1>1 DEF RunsSound, JobsAreRuns
<1>6. NothingYet'
  <2>1. SUFFICES ASSUME revision' = 0
                 PROVE  runs' = <<>> /\ \A r \in Row : facts'[r] = none /\ findings'[r] = none
    BY DEF NothingYet
  <2>2. revision = 0 /\ facts' = facts
    BY <1>2, <2>1
  <2> QED BY <2>2 DEF RunsSound, NothingYet, DropFindings
<1> QED BY <1>3, <1>4, <1>5, <1>6 DEF RunsSound

LEMMA RowsKeepFindings ==
  ASSUME TypeOK, RunsSound, FindingsSound, NEW R \in SUBSET Row, RowsChange(R)
  PROVE  FindingsSound'
<1> USE DEF TypeOK, RowsChange
<1>1. \A r \in Row : findings'[r] # none => r \notin R /\ findings'[r] = findings[r] /\ findings[r] # none
  BY DEF DropFindings
<1>2. \A e : e \in feedback' <=> e \in feedback /\ e.row \notin R
  BY DEF DropFindings
<1>3. feedback \subseteq Event /\ \A e \in feedback : e.row \in Row
  BY DEF AnalysisTypeOK, Event
<1>4. R # Row => runs' = runs
  OBVIOUS
<1>5. Reproducible'
  <2>1. ASSUME NEW r \in Row, findings'[r] # none PROVE From(findings[r], r)' /\ findings'[r] = findings[r]
    BY <1>1, <1>4, <2>1 DEF FindingsSound, Reproducible, From
  <2>2. ASSUME NEW e \in feedback' PROVE From(e, e.row)'
    BY <1>2, <1>3, <1>4 DEF FindingsSound, Reproducible, From
  <2> QED BY <2>1, <2>2 DEF Reproducible, From
<1>6. SucceededIsShown'
  <2>1. SUFFICES ASSUME runs' # <<>>, runs'[Latest'].input = revision', runs'[Latest'].state = "succeeded"
                 PROVE  ActiveRows' = DOMAIN Analyze(runs'[Latest'].snapshot)
    BY DEF SucceededIsShown
  <2>2. runs' = runs /\ Latest' = Latest /\ runs # <<>>
    BY <2>1 DEF Latest
  <2>3. runs[Latest].input <= revision
    BY <2>2, LatestIsLast DEF AnalysisTypeOK
  <2>4. revision' = revision
    BY <2>1, <2>2, <2>3 DEF EvidenceTypeOK
  <2>5. R = {}
    BY <2>4 DEF EvidenceTypeOK
  <2>6. findings' = findings
    BY <2>5 DEF DropFindings, AnalysisTypeOK
  <2> QED BY <2>1, <2>2, <2>4, <2>6 DEF FindingsSound, SucceededIsShown, ActiveRows
<1>7. ScreenFollows'
  BY DEF FindingsSound, ScreenFollows, From
<1>8. AnswersNumbered'
  BY <1>2, <1>3 DEF FindingsSound, AnswersNumbered, DropFindings
<1>9. ReviewIsLastAnswer'
  <2>1. ASSUME NEW r \in Row, findings'[r] # none PROVE LastAnswerShows(r)'
    <3>1. AnswersTo(r)' = AnswersTo(r)
      BY <1>1, <1>2, <2>1 DEF AnswersTo
    <3>2. LastAnswerShows(r)
      BY <1>1, <2>1, AnswersRowByRow DEF FindingsSound
    <3> QED BY <1>1, <2>1, <3>1, <3>2 DEF LastAnswerShows
  <2> QED BY <2>1, AnswersRowByRowNext
<1> QED BY <1>5, <1>6, <1>7, <1>8, <1>9 DEF FindingsSound

-----------------------------------------------------------------------------
(* Schedules.                                                              *)

LEMMA ScheduleUnmoved ==
  ASSUME PlanningTypeOK, SchedulesSound, UNCHANGED planning
  PROVE  PlanningTypeOK' /\ SchedulesSound'
BY DEF planning, PlanningTypeOK, SchedulesSound, LinkNamesActive, ApprovalAlone

LEMMA ClearKeepsSchedules ==
  ASSUME PlanningTypeOK, ClearSchedules
  PROVE  PlanningTypeOK' /\ SchedulesSound'
<1> USE DEF ClearSchedules
<1>1. approval' = none \/ (approval \in Approval /\ approval' = [approval EXCEPT !.accounts = FALSE])
  BY DEF PlanningTypeOK
<1>2. approval' = none \/ (approval' \in Approval /\ ~approval'.accounts)
  BY <1>1 DEF Approval
<1>3. PlanningTypeOK'
  BY <1>2 DEF PlanningTypeOK
<1>4. SchedulesSound'
  BY <1>2 DEF SchedulesSound, LinkNamesActive, ApprovalAlone
<1> QED BY <1>3, <1>4

LEMMA PreviewKeepsSchedules ==
  ASSUME TypeOK, SchedulesSound, NEW r \in Row, PreviewPatternToNewSchedule(r)
  PROVE  PlanningTypeOK' /\ SchedulesSound'
<1> USE DEF TypeOK, PreviewPatternToNewSchedule
<1> DEFINE k == findings[r].occ
<1>1. findings[r] \in Finding /\ k \in Keys
  BY DEF Creatable, AnalysisTypeOK, Finding, Keys
<1>2. PICK s \in Unused : approval' = [at |-> "record", key |-> k, id |-> s, accounts |-> TRUE]
  OBVIOUS
<1>3. approval' \in Approval
  BY <1>1, <1>2 DEF Approval, Unused
<1>4. approval'.key = k /\ approval'.at = "record"
  BY <1>2
<1> HIDE DEF k
<1>5. PlanningTypeOK'
  BY <1>3 DEF PlanningTypeOK
<1>6. ASSUME NEW x \in Sched, schedules[x] # none, schedules[x].key = k, schedules[x].enabled
      PROVE  schedules[x].revived
  <2>1. ExistingSchedule(k) = none
    BY DEF Creatable, k
  <2>2. promotions[k] # x
    BY <1>6, <2>1, ScheduleAssumption DEF ExistingSchedule
  <2> QED BY <1>6, <2>2 DEF SchedulesSound, LinkNamesActive
<1>7. SchedulesSound'
  BY <1>4, <1>6 DEF SchedulesSound, LinkNamesActive, ApprovalAlone
<1> QED BY <1>5, <1>7

LEMMA RecordKeepsSchedules ==
  ASSUME PlanningTypeOK, SchedulesSound, RecordPatternToNewSchedule
  PROVE  PlanningTypeOK' /\ SchedulesSound'
<1> USE DEF RecordPatternToNewSchedule
<1>1. approval \in Approval /\ approval' = [approval EXCEPT !.at = "create"]
  BY DEF PlanningTypeOK
<1>2. approval' \in Approval /\ approval'.key = approval.key /\ approval'.id = approval.id
  BY <1>1 DEF Approval
<1>3. approval.key \in Keys /\ approval.id \in Sched
  BY <1>1 DEF Approval
<1>4. promotions' \in [Keys -> Sched \cup {none}] /\ promotions'[approval.key] = approval.id
      /\ \A k \in Keys \ {approval.key} : promotions'[k] = promotions[k]
  BY <1>3 DEF PlanningTypeOK
<1>5. PlanningTypeOK'
  BY <1>2, <1>4 DEF PlanningTypeOK
<1>6. LinkNamesActive'
  <2>1. SUFFICES ASSUME NEW s \in Sched, schedules[s] # none, schedules[s].enabled, ~schedules[s].revived
                 PROVE  promotions'[schedules[s].key] = s
    BY DEF LinkNamesActive
  <2>2. schedules[s].key # approval.key
    BY <2>1 DEF SchedulesSound, ApprovalAlone
  <2>3. schedules[s].key \in Keys
    BY <2>1 DEF PlanningTypeOK, Schedule
  <2> QED BY <1>4, <2>1, <2>2, <2>3 DEF SchedulesSound, LinkNamesActive
<1>7. ApprovalAlone'
  BY <1>2, <1>4 DEF SchedulesSound, ApprovalAlone
<1> QED BY <1>5, <1>6, <1>7 DEF SchedulesSound

LEMMA PersistKeepsSchedules ==
  ASSUME PlanningTypeOK, SchedulesSound, PersistFinanceSchedule
  PROVE  PlanningTypeOK' /\ SchedulesSound'
<1> USE DEF PersistFinanceSchedule
<1> DEFINE new == [key |-> approval.key, enabled |-> TRUE, revived |-> FALSE]
<1>1. approval \in Approval /\ approval.key \in Keys /\ approval.id \in Sched
  BY DEF PlanningTypeOK, Approval
<1>2. new \in Schedule /\ new # none
  <2>1. new \in Schedule
    BY <1>1 DEF Schedule
  <2> QED BY <2>1, ScheduleAssumption
<1>3. new.key = approval.key
  OBVIOUS
<1>4. schedules'[approval.id] = new /\ \A s \in Sched \ {approval.id} : schedules'[s] = schedules[s]
  BY <1>1 DEF PlanningTypeOK
<1>5. PlanningTypeOK'
  BY <1>1, <1>2 DEF PlanningTypeOK
<1> HIDE DEF new
<1>6. promotions[approval.key] = approval.id
  BY DEF SchedulesSound, ApprovalAlone
<1>7. LinkNamesActive'
  BY <1>3, <1>4, <1>6 DEF SchedulesSound, LinkNamesActive
<1>8. ApprovalAlone'
  BY DEF ApprovalAlone
<1> QED BY <1>5, <1>7, <1>8 DEF SchedulesSound

LEMMA FailureKeepsSchedules ==
  ASSUME PlanningTypeOK, SchedulesSound, PersistFails \/ ApprovalLost
  PROVE  PlanningTypeOK' /\ SchedulesSound'
<1>1. CASE PersistFails
  <2> USE <1>1 DEF PersistFails
  <2>1. approval \in Approval /\ approval.key \in Keys /\ approval.id \in Sched
    BY DEF PlanningTypeOK, Approval
  <2>2. PlanningTypeOK'
    BY <2>1 DEF PlanningTypeOK
  <2>3. LinkNamesActive'
    <3>1. SUFFICES ASSUME NEW s \in Sched, schedules[s] # none, schedules[s].enabled, ~schedules[s].revived
                   PROVE  promotions'[schedules[s].key] = s
      BY DEF LinkNamesActive
    <3>2. schedules[s].key # approval.key
      BY <3>1 DEF SchedulesSound, ApprovalAlone
    <3>3. schedules[s].key \in Keys
      BY <3>1 DEF PlanningTypeOK, Schedule
    <3> QED BY <2>1, <3>1, <3>2, <3>3 DEF SchedulesSound, LinkNamesActive, PlanningTypeOK
  <2> QED BY <2>2, <2>3 DEF SchedulesSound, ApprovalAlone
<1>2. CASE ApprovalLost
  BY <1>2 DEF ApprovalLost, PlanningTypeOK, SchedulesSound, LinkNamesActive, ApprovalAlone
<1> QED BY <1>1, <1>2

LEMMA EditKeepsSchedules ==
  ASSUME PlanningTypeOK, SchedulesSound, NEW s \in Sched,
         DisableSchedule(s) \/ EnableSchedule(s) \/ DeleteSchedule(s)
  PROVE  PlanningTypeOK' /\ SchedulesSound'
<1>1. promotions' = promotions /\ approval' = approval
  BY DEF DisableSchedule, EnableSchedule, DeleteSchedule
<1>2. schedules' \in [Sched -> Schedule \cup {none}]
  <2>1. PICK v \in Schedule \cup {none} : schedules' = [schedules EXCEPT ![s] = v]
    <3>1. CASE DeleteSchedule(s)
      BY <3>1 DEF DeleteSchedule
    <3>2. CASE ~DeleteSchedule(s)
      <4>1. schedules[s] \in Schedule
        BY <3>2 DEF DisableSchedule, EnableSchedule, PlanningTypeOK
      <4>2. [schedules[s] EXCEPT !.enabled = FALSE] \in Schedule
            /\ [schedules[s] EXCEPT !.enabled = TRUE, !.revived = TRUE] \in Schedule
        BY <4>1 DEF Schedule
      <4> QED BY <3>2, <4>2 DEF DisableSchedule, EnableSchedule
    <3> QED BY <3>1, <3>2
  <2> QED BY <2>1 DEF PlanningTypeOK
<1>3. \A x \in Sched : schedules'[x] # none /\ schedules'[x].enabled
        => schedules'[x].revived \/ schedules'[x] = schedules[x]
  BY DEF PlanningTypeOK, DisableSchedule, EnableSchedule, DeleteSchedule, Schedule
<1> QED BY <1>1, <1>2, <1>3 DEF PlanningTypeOK, SchedulesSound, LinkNamesActive, ApprovalAlone

-----------------------------------------------------------------------------
(* Categories.                                                             *)

CategoriesSound == CategoriesTypeOK /\ BankValueShows

LEMMA ObserveKeepsCategories ==
  ASSUME TypeOK, BankValueShows, NEW r \in Row, NEW f \in Fact, NEW s \in {"pending", "posted"}, Observe(r, f, s)
  PROVE  CategoriesSound'
<1> USE DEF TypeOK, Observe, ObserveBankTransaction
<1>1. cats[r] \in Assignment \cup {none} /\ f.hint \in {"", "odd", "food"}
  BY EvidenceAssumption DEF CategoriesTypeOK, FactType
<1>2. \A x \in Row \ {r} : cats'[x] = cats[x] /\ facts'[x] = facts[x] /\ (Present(x) <=> Present(x)')
  BY DEF SetBankTransactionCategory, CategoriesTypeOK, EvidenceTypeOK, Present
<1>3. facts'[r] = f /\ Present(r)'
  BY DEF EvidenceTypeOK, Present, Listed
<1>4. Assigned("food", "bank") \in Assignment
  BY DEF Assigned, Assignment, Category
<1>5. cats'[r] = CASE f.hint = "food" -> IF cats[r] # none /\ cats[r].source = "user" THEN cats[r] ELSE Assigned("food", "bank")
                   [] f.hint = "odd"  -> IF cats[r] # none /\ cats[r].source = "bank" THEN none ELSE cats[r]
                   [] OTHER           -> cats[r]
  BY DEF SetBankTransactionCategory, CategoriesTypeOK
<1>6. cats'[r] \in Assignment \cup {none}
  BY <1>1, <1>4, <1>5
<1>7. cats' \in [Row -> Assignment \cup {none}]
  BY <1>2, <1>6 DEF SetBankTransactionCategory, CategoriesTypeOK
<1>8. f.hint = "food" => cats'[r] # none /\ (cats'[r].source = "user" \/ cats'[r] = Assigned("food", "bank"))
  BY <1>4, <1>5, CategoriesAssumption
<1>9. f.hint = "odd" => cats'[r] = none \/ cats'[r].source # "bank"
  BY <1>5
<1>10. results' = results
  OBVIOUS
<1>11. CategoriesTypeOK'
  BY <1>2, <1>3, <1>7, <1>10 DEF CategoriesTypeOK
<1>12. BankValueShows'
  BY <1>2, <1>3, <1>8, <1>9 DEF BankValueShows
<1> QED BY <1>11, <1>12 DEF CategoriesSound

LEMMA OtherRowsKeepCategories ==
  ASSUME TypeOK, BankValueShows, NEW r \in Row, Void(r) \/ UpdateTransaction(r) \/ DeleteTransaction(r) \/ ClearModel
  PROVE  CategoriesSound'
<1> USE DEF TypeOK
<1>1. CASE Void(r)
  <2>1. cats' = cats /\ results' = results /\ facts' = facts
    BY <1>1 DEF Void, VoidRow, categories
  <2>2. \A x \in Row : Present(x) => Present(x)'
    BY <1>1 DEF Void, VoidRow, Present, Listed, EvidenceTypeOK
  <2> QED BY <2>1, <2>2 DEF CategoriesSound, CategoriesTypeOK, BankValueShows
<1>2. CASE DeleteTransaction(r)
  <2> USE <1>2 DEF DeleteTransaction, DeleteRow, DropCategories
  <2>1. results' = results /\ cats' \in [Row -> Assignment \cup {none}]
    BY DEF CategoriesTypeOK
  <2>2. \A x \in Row : IF x = r THEN cats'[x] = none /\ facts'[x] = none
                       ELSE cats'[x] = cats[x] /\ facts'[x] = facts[x] /\ (Present(x) => Present(x)')
    BY DEF EvidenceTypeOK, Present
  <2> QED BY <2>1, <2>2 DEF CategoriesSound, CategoriesTypeOK, BankValueShows
<1>3. CASE ClearModel
  <2>1. results' = results /\ cats' = [x \in Row |-> none] /\ facts' = [x \in Row |-> none]
    BY <1>3 DEF ClearModel, ClearRows, DropCategories
  <2> QED BY <2>1 DEF CategoriesSound, CategoriesTypeOK, BankValueShows
<1>4. CASE UpdateTransaction(r)
  <2>1. cats' = cats /\ results' = results /\ facts' = facts
    BY <1>4 DEF UpdateTransaction, UpdateRow, categories
  <2>2. \A x \in Row : Present(x) => Present(x)'
    BY <1>4 DEF UpdateTransaction, UpdateRow, Present, Listed, EvidenceTypeOK
  <2> QED BY <2>1, <2>2 DEF CategoriesSound, CategoriesTypeOK, BankValueShows
<1> QED BY <1>1, <1>2, <1>3, <1>4

LEMMA UserKeepsCategories ==
  ASSUME TypeOK, BankValueShows, NEW r \in Row, SetUserTransactionCategory(r, "rent") \/ ClearUserCategory(r)
  PROVE  CategoriesSound'
<1> USE DEF TypeOK
<1>1. results' = results /\ row' = row /\ facts' = facts /\ Present(r)
  BY DEF SetUserTransactionCategory, ClearUserCategory, evidence
<1>2. PICK a \in Assignment \cup {none} :
        /\ cats' = [cats EXCEPT ![r] = a]
        /\ a = Assigned("rent", "user") \/ a = (IF facts[r].hint = "food" THEN Assigned("food", "bank") ELSE none)
  BY DEF SetUserTransactionCategory, ClearUserCategory, Assigned, Assignment, Category
<1>3. Assigned("rent", "user") \in Assignment /\ Assigned("food", "bank") \in Assignment
      /\ Assigned("rent", "user").source = "user"
  BY DEF Assigned, Assignment, Category
<1>4. cats'[r] = a /\ \A x \in Row \ {r} : cats'[x] = cats[x]
  BY <1>2 DEF CategoriesTypeOK
<1>5. CategoriesTypeOK'
  BY <1>1, <1>2, <1>4 DEF CategoriesTypeOK, Present
<1>6. BankValueShows'
  BY <1>1, <1>2, <1>3, <1>4, CategoriesAssumption DEF BankValueShows
<1> QED BY <1>5, <1>6 DEF CategoriesSound

LEMMA PassKeepsCategories ==
  ASSUME TypeOK, BankValueShows, StartPass \/ PassEnds
  PROVE  CategoriesSound'
<1> USE DEF TypeOK
<1>1. cats' = cats /\ row' = row /\ facts' = facts
  BY DEF StartPass, PassEnds, evidence
<1>2. CASE PassEnds
  BY <1>1, <1>2 DEF PassEnds, CategoriesSound, CategoriesTypeOK, BankValueShows, Present
<1>3. CASE StartPass
  <2>1. Candidates \subseteq Row /\ \A r \in Candidates : facts[r] \in Fact
    BY DEF Candidates, Uncategorized, EvidenceTypeOK, Present, Listed
  <2>2. \A r \in Candidates : facts[r].text # "" => facts[r].text \in Category
    BY <2>1, EvidenceAssumption DEF FactType, Category
  <2>3. DOMAIN results' \subseteq Row /\ results' \in [DOMAIN results' -> Category]
    BY <1>3, <2>1, <2>2 DEF StartPass, Classify
  <2> QED BY <1>1, <2>3 DEF CategoriesSound, CategoriesTypeOK, BankValueShows, Present
<1> QED BY <1>2, <1>3

LEMMA InferredKeepsCategories ==
  ASSUME TypeOK, BankValueShows, NEW r \in Row, SetInferredTransactionCategory(r)
  PROVE  CategoriesSound'
<1> USE DEF TypeOK, SetInferredTransactionCategory
<1>1. row' = row /\ facts' = facts
  BY DEF evidence
<1> DEFINE a == Assigned(results[r], "inferred")
<1>2. a \in Assignment /\ a.source = "inferred"
  BY DEF CategoriesTypeOK, Assigned, Assignment
<1> HIDE DEF a
<1>3. cats' = cats \/ (cats' = [cats EXCEPT ![r] = a] /\ Present(r) /\ GivesWay(cats[r]))
  BY DEF a
<1>4. \A x \in Row : cats'[x] = cats[x] \/ (x = r /\ cats'[x] = a /\ Present(r) /\ GivesWay(cats[r]))
  BY <1>3 DEF CategoriesTypeOK
<1>5. cats' \in [Row -> Assignment \cup {none}]
  BY <1>2, <1>3 DEF CategoriesTypeOK
<1>6. results' # none => DOMAIN results' \subseteq Row /\ results' \in [DOMAIN results' -> Category]
  BY DEF Rest, CategoriesTypeOK
<1>7. CategoriesTypeOK'
  BY <1>1, <1>4, <1>5, <1>6 DEF CategoriesTypeOK, Present
<1>8. GivesWay(cats[r]) => facts[r] = none \/ facts[r].hint # "food"
  BY DEF BankValueShows, GivesWay, Assigned
<1>9. BankValueShows'
  BY <1>1, <1>2, <1>4, <1>8 DEF BankValueShows
<1> QED BY <1>7, <1>9 DEF CategoriesSound

-----------------------------------------------------------------------------
(* Snapshots, detections and records of runs.                              *)

LEMMA LoadedSnapshot ==
  ASSUME EvidenceTypeOK
  PROVE  /\ LoadAnalysisSnapshot \in Snapshots
         /\ \A r \in DOMAIN LoadAnalysisSnapshot : r \in Row /\ Present(r)
<1> DEFINE R == {x \in Row : facts[x] # none}
<1>1. R \in SUBSET Row /\ \A r \in R : row[r] \in Listed /\ facts[r] \in Fact
  BY DEF EvidenceTypeOK, Present
<1>2. LoadAnalysisSnapshot \in [R -> [row : Listed, fact : Fact]]
  BY <1>1 DEF LoadAnalysisSnapshot
<1>3. DOMAIN LoadAnalysisSnapshot = R
  BY DEF LoadAnalysisSnapshot
<1> HIDE DEF R
<1> QED BY <1>1, <1>2, <1>3 DEF Snapshots, Present

LEMMA AnalyzeType ==
  ASSUME NEW s \in Snapshots
  PROVE  /\ DOMAIN Analyze(s) \subseteq DOMAIN s
         /\ DOMAIN Analyze(s) \subseteq Row
         /\ \A r \in DOMAIN Analyze(s) : Analyze(s)[r] \in SUBSET Row
<1>1. PICK R \in SUBSET Row : s \in [R -> [row : Listed, fact : Fact]]
  BY DEF Snapshots
<1>2. DOMAIN s \subseteq Row
  BY <1>1
<1>3. Occurrences(s) \subseteq DOMAIN s
  BY DEF Occurrences
<1> QED BY <1>2, <1>3 DEF Analyze

LEMMA EndedRun ==
  ASSUME NEW r \in Run, NEW s \in {"succeeded", "failed", "superseded"}
  PROVE  /\ Ended(r, s) \in Run
         /\ Ended(r, s).state = s /\ Ended(r, s).input = r.input /\ Ended(r, s).snapshot = r.snapshot
BY DEF Ended, Run

LEMMA NewRun ==
  ASSUME EvidenceTypeOK
  PROVE  LET run == [state |-> "running", input |-> revision, leased |-> TRUE, cooling |-> FALSE,
                     snapshot |-> LoadAnalysisSnapshot]
         IN  run \in Run
BY LoadedSnapshot DEF Run, EvidenceTypeOK

LEMMA EmptyFunction ==
  ASSUME NEW f, NEW S, f \in [DOMAIN f -> S], DOMAIN f = {}
  PROVE  f = <<>>
<1>1. <<>> \in [{} -> S] /\ f \in [{} -> S]
  OBVIOUS
<1> QED BY <1>1

(* What does not touch the evidence, the log's snapshots or the jobs it    *)
(* still has keeps runs sound: the rest are steps that remove runs, end    *)
(* them or let time pass.                                                  *)
LogKept ==
  /\ UNCHANGED evidence /\ issued' = issued
  /\ runs' \in [DOMAIN runs' -> Run] /\ DOMAIN runs' \subseteq DOMAIN runs
  /\ \A id \in DOMAIN runs' :
       /\ runs'[id].input = runs[id].input /\ runs'[id].snapshot = runs[id].snapshot
       /\ runs'[id].state = "running" => runs[id].state = "running"
  /\ work' \in [Worker -> Job \cup {none}]
  /\ \A w \in Worker : work'[w] = none \/ work'[w] = work[w]

LEMMA LogKeptSound ==
  ASSUME TypeOK, RunsSound, LogKept, revision = 0 => \A r \in Row : findings'[r] = none
  PROVE  RunsSound'
<1> USE DEF TypeOK, LogKept, evidence
<1>1. Aligned'
  BY DEF RunsSound, Aligned, LoadAnalysisSnapshot
<1>2. OnlyLatestRuns'
  BY DEF RunsSound, OnlyLatestRuns
<1>3. JobsAreRuns'
  BY DEF RunsSound, JobsAreRuns
<1>4. NothingYet'
  <2>1. SUFFICES ASSUME revision = 0 PROVE runs' = <<>>
    BY DEF RunsSound, NothingYet
  <2>2. runs = <<>>
    BY <2>1 DEF RunsSound, NothingYet
  <2>3. DOMAIN runs = {}
    BY <2>2
  <2>4. DOMAIN runs' = {} /\ runs' \in [DOMAIN runs' -> Run]
    BY <2>3
  <2> QED BY <2>4, EmptyFunction
<1> QED BY <1>1, <1>2, <1>3, <1>4 DEF RunsSound

LEMMA ClaimKeeps ==
  ASSUME TypeOK, RunsSound, FindingsSound, NEW w \in Worker, ClaimAnalysis(w)
  PROVE  AnalysisTypeOK' /\ RunsSound' /\ FindingsSound'
<1> USE DEF TypeOK, ClaimAnalysis
<1> DEFINE new == [state |-> "running", input |-> revision, leased |-> TRUE, cooling |-> FALSE,
                   snapshot |-> LoadAnalysisSnapshot]
           job == [run |-> issued + 1, snapshot |-> LoadAnalysisSnapshot]
           n == issued + 1
<1>1. issued \in Nat /\ DOMAIN runs \subseteq 1..issued /\ n \in Nat /\ n > issued
  BY AnalysisAssumption DEF AnalysisTypeOK
<1>2. new \in Run /\ new.state = "running" /\ new.input = revision /\ new.snapshot = LoadAnalysisSnapshot
  BY NewRun
<1>3. job \in Job /\ job.run = n /\ job.snapshot = LoadAnalysisSnapshot
  BY <1>1, LoadedSnapshot DEF Job
<1>4. DOMAIN runs' = DOMAIN runs \cup {n}
  OBVIOUS
<1>5. runs'[n] = new
  OBVIOUS
<1>6. ASSUME NEW id \in DOMAIN runs
      PROVE  /\ id \in 1..issued /\ id # n /\ runs'[id] \in Run
             /\ runs'[id].input = runs[id].input /\ runs'[id].snapshot = runs[id].snapshot
             /\ runs'[id].state # "running"
  <2>1. id \in 1..issued /\ id # n /\ runs[id] \in Run
    BY <1>1 DEF AnalysisTypeOK
  <2>2. runs'[id] = IF runs[id].state = "running" THEN Ended(runs[id], "failed") ELSE runs[id]
    BY <2>1
  <2> QED BY <2>1, <2>2, EndedRun
<1>7. row' = row /\ facts' = facts /\ revision' = revision /\ findings' = findings /\ feedback' = feedback
      /\ screen' = screen /\ faults' = faults /\ issued' = n
  BY DEF evidence
<1>8. work' = [work EXCEPT ![w] = job]
  OBVIOUS
<1>9. revision > 0 /\ issued < MaxRun
  OBVIOUS
<1> DEFINE r1 == runs'
<1>10. runs' = [id \in DOMAIN runs' |-> runs'[id]]
  OBVIOUS
<1> HIDE DEF new, job, n, ClaimAnalysis
<1>11. AnalysisTypeOK'
  <2>1. runs' \in [DOMAIN runs' -> Run]
    BY <1>2, <1>4, <1>5, <1>6, <1>10
  <2>2. DOMAIN runs' \subseteq 1..n /\ n \in 0..MaxRun
    BY <1>1, <1>4, <1>9, AnalysisAssumption DEF n
  <2>3. \A id \in DOMAIN runs' : runs'[id].input <= revision
    BY <1>2, <1>4, <1>5, <1>6 DEF AnalysisTypeOK, EvidenceTypeOK
  <2>4. work' \in [Worker -> Job \cup {none}] /\ \A x \in Worker : work'[x] # none => work'[x].run \in 1..n
    BY <1>1, <1>3, <1>8 DEF AnalysisTypeOK
  <2> QED BY <1>7, <2>1, <2>2, <2>3, <2>4 DEF AnalysisTypeOK, Present
<1>12. Aligned'
  BY <1>2, <1>4, <1>5, <1>6, <1>7 DEF RunsSound, Aligned, LoadAnalysisSnapshot
<1>13. OnlyLatestRuns'
  BY <1>1, <1>4, <1>6 DEF OnlyLatestRuns
<1>14. JobsAreRuns'
  <2>1. SUFFICES ASSUME NEW x \in Worker, work'[x] # none, work'[x].run \in DOMAIN runs'
                 PROVE  work'[x].snapshot = runs'[work'[x].run].snapshot
    BY DEF JobsAreRuns
  <2>2. CASE x = w
    BY <1>2, <1>3, <1>5, <1>8, <2>2 DEF AnalysisTypeOK
  <2>3. CASE x # w
    <3>1. work'[x] = work[x]
      BY <1>8, <2>3 DEF AnalysisTypeOK
    <3>2. work[x].run \in DOMAIN runs
      BY <1>1, <1>4, <2>1, <3>1 DEF AnalysisTypeOK
    <3> QED BY <1>6, <2>1, <3>1, <3>2 DEF RunsSound, JobsAreRuns
  <2> QED BY <2>2, <2>3
<1>15. RunsSound'
  BY <1>7, <1>9, <1>12, <1>13, <1>14 DEF RunsSound, NothingYet
<1>17. Reproducible'
  <2>1. ASSUME NEW r \in Row, findings[r] # none PROVE From(findings[r], r)'
    BY <1>4, <1>6, <1>7, <2>1 DEF FindingsSound, Reproducible, From
  <2>2. ASSUME NEW e \in feedback PROVE From(e, e.row)'
    BY <1>4, <1>6 DEF FindingsSound, Reproducible, From
  <2> QED BY <1>7, <2>1, <2>2 DEF Reproducible, From
<1>18. SucceededIsShown'
  <2>1. Max(DOMAIN runs') \in DOMAIN runs' /\ \A y \in DOMAIN runs' : y <= Max(DOMAIN runs')
    BY <1>1, <1>4, LargestElement
  <2>2. Latest' = n
    BY <1>1, <1>4, <2>1 DEF Latest
  <2> QED BY <1>2, <1>5, <2>2 DEF SucceededIsShown
<1>19. ScreenFollows'
  BY <1>1, <1>4, <1>6, <1>7 DEF FindingsSound, ScreenFollows, From
<1>20. AnswersNumbered' /\ ReviewIsLastAnswer'
  BY <1>7 DEF FindingsSound, AnswersNumbered, ReviewIsLastAnswer
<1> QED BY <1>11, <1>15, <1>17, <1>18, <1>19, <1>20 DEF FindingsSound

-----------------------------------------------------------------------------
(* Time passes, a process stops, the owner lists.                          *)

(* Runs lose a lease or a cool-down.                                       *)
LEMMA TimeKeeps ==
  ASSUME TypeOK, RunsSound, FindingsSound, LeaseEnds \/ CooldownEnds
  PROVE  AnalysisTypeOK' /\ RunsSound' /\ FindingsSound'
<1> USE DEF TypeOK
<1>1. PICK id \in DOMAIN runs :
        runs' = [runs EXCEPT ![id].leased = FALSE] \/ runs' = [runs EXCEPT ![id].cooling = FALSE]
  <2>1. CASE LeaseEnds
    BY <2>1 DEF LeaseEnds
  <2>2. CASE CooldownEnds
    BY <2>2, LatestIsLast DEF CooldownEnds
  <2> QED BY <2>1, <2>2
<1>2. row' = row /\ facts' = facts /\ revision' = revision /\ issued' = issued /\ work' = work
      /\ findings' = findings /\ feedback' = feedback /\ screen' = screen
  BY DEF LeaseEnds, CooldownEnds, evidence
<1>3. faults' \in Nat
  BY DEF LeaseEnds, CooldownEnds, One, AnalysisTypeOK
<1>4. runs' \in [DOMAIN runs -> Run]
  <2>1. runs[id] \in Run
    BY DEF AnalysisTypeOK
  <2>2. [runs[id] EXCEPT !.leased = FALSE] \in Run /\ [runs[id] EXCEPT !.cooling = FALSE] \in Run
    BY <2>1 DEF Run
  <2> QED BY <1>1, <2>2 DEF AnalysisTypeOK
<1>5. DOMAIN runs' = DOMAIN runs
  BY <1>4
<1>6. \A x \in DOMAIN runs :
        runs'[x].state = runs[x].state /\ runs'[x].input = runs[x].input /\ runs'[x].snapshot = runs[x].snapshot
  BY <1>1 DEF AnalysisTypeOK, Run
<1>7. AnalysisTypeOK'
  BY <1>2, <1>3, <1>4, <1>5, <1>6 DEF AnalysisTypeOK, Present
<1>8. RunsSound'
  <2>1. LogKept
    BY <1>2, <1>4, <1>5, <1>6 DEF LogKept, evidence, AnalysisTypeOK
  <2>2. revision = 0 => \A r \in Row : findings'[r] = none
    BY <1>2 DEF RunsSound, NothingYet
  <2> QED BY <2>1, <2>2, LogKeptSound
<1>9. Reproducible'
  BY <1>2, <1>5, <1>6 DEF FindingsSound, Reproducible
<1>10. SucceededIsShown'
  <2>1. Latest' = Latest /\ ActiveRows' = ActiveRows
    BY <1>2, <1>5 DEF Latest, ActiveRows
  <2>2. Latest \in DOMAIN runs
    <3>1. runs # <<>>
      BY <1>1
    <3> QED BY <3>1, LatestIsLast
  <2>3. runs # <<>>
    BY <1>1
  <2> QED BY <1>2, <1>6, <2>1, <2>2, <2>3 DEF FindingsSound, SucceededIsShown
<1>11. ScreenFollows'
  BY <1>2, <1>5, <1>6 DEF FindingsSound, ScreenFollows, From
<1>12. AnswersNumbered' /\ ReviewIsLastAnswer'
  BY <1>2 DEF FindingsSound, AnswersNumbered, ReviewIsLastAnswer
<1> QED BY <1>7, <1>8, <1>9, <1>10, <1>11, <1>12 DEF FindingsSound

(* A job is given up.                                                      *)
LEMMA GivenUpKeeps ==
  ASSUME TypeOK, RunsSound, FindingsSound, NEW w \in Worker, faults' \in Nat,
         UNCHANGED <<evidence, runs, issued, findings, feedback, screen>>, work' = [work EXCEPT ![w] = none]
  PROVE  AnalysisTypeOK' /\ RunsSound' /\ FindingsSound'
<1> USE DEF TypeOK
<1>1. row' = row /\ facts' = facts /\ revision' = revision /\ issued' = issued /\ runs' = runs
      /\ findings' = findings /\ feedback' = feedback /\ screen' = screen
  BY DEF evidence
<1>2. AnalysisTypeOK'
  BY <1>1 DEF AnalysisTypeOK, Present
<1>3. LogKept
  BY <1>1 DEF LogKept, evidence, AnalysisTypeOK
<1>4. RunsSound'
  BY <1>1, <1>3, LogKeptSound DEF RunsSound, NothingYet
<1>5. Reproducible' /\ AnswersNumbered' /\ ReviewIsLastAnswer'
  BY <1>1 DEF FindingsSound, Reproducible, AnswersNumbered, ReviewIsLastAnswer
<1>6. ScreenFollows'
  BY <1>1 DEF FindingsSound, ScreenFollows, From
<1>7. SucceededIsShown'
  BY <1>1 DEF FindingsSound, SucceededIsShown, ActiveRows, Latest
<1> QED BY <1>2, <1>4, <1>5, <1>6, <1>7 DEF FindingsSound

LEMMA CrashKeeps ==
  ASSUME TypeOK, RunsSound, FindingsSound, NEW w \in Worker, Crash(w)
  PROVE  AnalysisTypeOK' /\ RunsSound' /\ FindingsSound'
<1>1. faults' \in Nat
  BY DEF Crash, TypeOK, AnalysisTypeOK
<1> QED BY <1>1, GivenUpKeeps DEF Crash

LEMMA ListKeeps ==
  ASSUME TypeOK, RunsSound, FindingsSound, NEW r \in Row, ListAnalysisFindings(r)
  PROVE  AnalysisTypeOK' /\ RunsSound' /\ FindingsSound'
<1> USE DEF TypeOK
<1> DEFINE seen == [row |-> r, run |-> findings[r].run, answers |-> findings[r].answers, occ |-> findings[r].occ]
<1>1. row' = row /\ facts' = facts /\ revision' = revision /\ issued' = issued /\ runs' = runs /\ work' = work
      /\ findings' = findings /\ feedback' = feedback /\ faults' = faults /\ screen' = seen /\ findings[r] # none
  BY DEF ListAnalysisFindings, evidence
<1>2. findings[r] \in Finding
  BY <1>1 DEF AnalysisTypeOK
<1>3. seen \in Seen
  BY <1>2 DEF Finding, Seen
<1>4. seen.row = r /\ seen.run = findings[r].run /\ seen.occ = findings[r].occ
  OBVIOUS
<1> HIDE DEF seen
<1>5. AnalysisTypeOK'
  BY <1>1, <1>3 DEF AnalysisTypeOK, Present
<1>6. LogKept
  BY <1>1 DEF LogKept, evidence, AnalysisTypeOK
<1>7. RunsSound'
  BY <1>1, <1>6, LogKeptSound DEF RunsSound, NothingYet
<1>8. ScreenFollows'
  <2>1. From(findings[r], r)
    BY <1>1 DEF FindingsSound, Reproducible, From
  <2> QED BY <1>1, <1>4, <2>1 DEF ScreenFollows, From, AnalysisTypeOK
<1>9. FindingsSound'
  BY <1>1, <1>8 DEF FindingsSound, Reproducible, SucceededIsShown, ActiveRows, Latest,
              AnswersNumbered, ReviewIsLastAnswer
<1> QED BY <1>5, <1>7, <1>9

-----------------------------------------------------------------------------
(* Answers.                                                                *)

LEMMA AnswerKeeps ==
  ASSUME TypeOK, RunsSound, FindingsSound, NEW r \in Row, NEW act \in Act, findings[r] # none, Answer(r, act)
  PROVE  AnalysisTypeOK' /\ RunsSound' /\ FindingsSound'
<1> USE DEF TypeOK
<1>1. row' = row /\ facts' = facts /\ revision' = revision /\ issued' = issued /\ runs' = runs /\ work' = work
      /\ screen' = screen /\ faults' = faults
  BY DEF Answer, evidence
<1>2. PICK f \in Finding : f = findings[r]
  BY DEF AnalysisTypeOK
<1>3. PICK v \in Review, d \in BOOLEAN :
        /\ findings' = [findings EXCEPT ![r] = [f EXCEPT !.review = v, !.answers = @ + 1, !.dismissed = d]]
        /\ feedback' = feedback \cup {[row |-> r, nr |-> f.answers + 1, act |-> act, run |-> f.run, occ |-> f.occ,
                                      review |-> v, dismissed |-> d]}
  <2> DEFINE v == CASE act = "confirm" -> "confirmed"
                    [] act = "reject" -> "rejected"
                    [] act = "restore" /\ f.review = "rejected" -> none
                    [] OTHER -> f.review
             d == act \in {"reject", "hide"}
  <2>1. v \in Review
    BY DEF Review, Finding
  <2>2. d \in BOOLEAN
    OBVIOUS
  <2>3. /\ findings' = [findings EXCEPT ![r] = [f EXCEPT !.review = v, !.answers = @ + 1, !.dismissed = d]]
        /\ feedback' = feedback \cup {[row |-> r, nr |-> f.answers + 1, act |-> act, run |-> f.run, occ |-> f.occ,
                                      review |-> v, dismissed |-> d]}
    BY <1>2, Zenon DEF Answer
  <2> HIDE DEF v, d
  <2> QED BY <2>1, <2>2, <2>3
<1>4. PICK n \in Nat : n = f.answers + 1
  BY DEF Finding
<1>5. PICK g \in Finding :
        /\ g.run = f.run /\ g.occ = f.occ /\ g.status = f.status /\ g.review = v /\ g.answers = n
        /\ findings' = [findings EXCEPT ![r] = g]
  <2> DEFINE h == [f EXCEPT !.review = v, !.answers = n, !.dismissed = d]
  <2>1. h \in Finding /\ h.run = f.run /\ h.occ = f.occ /\ h.status = f.status /\ h.review = v /\ h.answers = n
    BY DEF Finding
  <2>2. findings' = [findings EXCEPT ![r] = h]
    BY <1>3, <1>4
  <2> HIDE DEF h
  <2> QED BY <2>1, <2>2
<1>6. PICK e \in Event :
        /\ e.row = r /\ e.nr = n /\ e.run = f.run /\ e.occ = f.occ /\ e.review = v
        /\ feedback' = feedback \cup {e}
  BY <1>3, <1>4 DEF Finding, Event
<1>7. f.answers \in Nat
  BY DEF Finding
<1>8. g # none
  BY AnalysisAssumption
<1>9. findings'[r] = g /\ \A x \in Row \ {r} : findings'[x] = findings[x]
  BY <1>5 DEF AnalysisTypeOK
<1>10. f = findings[r] /\ n = f.answers + 1 /\ n > f.answers
  BY <1>2, <1>4, <1>7
<1>11. AnalysisTypeOK'
  <2>1. findings' \in [Row -> Finding \cup {none}]
    BY <1>1, <1>5 DEF AnalysisTypeOK
  <2>2. feedback' \subseteq Event /\ IsFiniteSet(feedback')
    BY <1>1, <1>6, FS_AddElement DEF AnalysisTypeOK
  <2>3. \A x \in Row : findings'[x] # none => Present(x)
    BY <1>9 DEF AnalysisTypeOK
  <2> QED BY <1>1, <2>1, <2>2, <2>3 DEF AnalysisTypeOK, Present
<1>12. RunsSound'
  <2>1. LogKept
    BY <1>1 DEF LogKept, evidence, AnalysisTypeOK
  <2>2. revision # 0
    BY DEF RunsSound, NothingYet
  <2> QED BY <2>1, <2>2, LogKeptSound
<1>13. From(f, r)
  BY <1>10 DEF FindingsSound, Reproducible, From
<1>14. Reproducible'
  <2>1. ASSUME NEW x \in Row, findings'[x] # none
        PROVE  From(findings'[x], x)
    BY <1>5, <1>9, <1>13, <2>1 DEF FindingsSound, Reproducible, From
  <2>2. ASSUME NEW a \in feedback' PROVE From(a, a.row)
    BY <1>1, <1>6, <1>13 DEF FindingsSound, Reproducible, From
  <2> QED BY <1>1, <2>1, <2>2 DEF Reproducible, From
<1>15. SucceededIsShown'
  <2>1. ActiveRows' = ActiveRows
    BY <1>5, <1>8, <1>9, <1>10 DEF ActiveRows
  <2> QED BY <1>1, <2>1 DEF FindingsSound, SucceededIsShown, Latest
<1>16. ScreenFollows'
  BY <1>1 DEF FindingsSound, ScreenFollows, From
<1>17. AnswersNumbered'
  <2>1. \A a \in feedback : a.row \in Row /\ a.nr \in Nat
    BY DEF AnalysisTypeOK, Event
  <2> QED BY <1>1, <1>5, <1>6, <1>7, <1>8, <1>9, <1>10, <2>1 DEF FindingsSound, AnswersNumbered
<1>18. ReviewIsLastAnswer'
  <2>1. ASSUME NEW x \in Row, findings'[x] # none PROVE LastAnswerShows(x)'
    <3>1. CASE x # r
      <4>1. AnswersTo(x)' = AnswersTo(x)
        BY <1>1, <1>6, <3>1 DEF AnswersTo
      <4>2. LastAnswerShows(x)
        BY <1>9, <2>1, <3>1, AnswersRowByRow DEF FindingsSound
      <4> QED BY <1>9, <3>1, <4>1, <4>2 DEF LastAnswerShows
    <3>2. CASE x = r
      <4>1. AnswersTo(r)' = AnswersTo(r) \cup {e}
        BY <1>1, <1>6 DEF AnswersTo
      <4>2. e \notin AnswersTo(r)
        BY <1>6, <1>7, <1>10 DEF AnswersTo, FindingsSound, AnswersNumbered
      <4>3. IsFiniteSet(AnswersTo(r))
        BY FS_Subset DEF AnswersTo, AnalysisTypeOK
      <4>4. Cardinality(AnswersTo(r)) = f.answers
        BY <1>10, AnswersRowByRow DEF FindingsSound, LastAnswerShows
      <4>5. Cardinality(AnswersTo(r)') = f.answers + 1
        <5>1. Cardinality(AnswersTo(r) \cup {e}) = Cardinality(AnswersTo(r)) + 1
          BY <4>2, <4>3, FS_AddElement
        <5> QED BY <4>1, <4>4, <5>1
      <4>6. findings'[r].answers = n /\ findings'[r].review = v
        BY <1>5, <1>9
      <4>7. \E a \in AnswersTo(r)' : a.nr = findings'[r].answers /\ a.review = findings'[r].review
        BY <1>6, <4>1, <4>6
      <4>8. Cardinality(AnswersTo(r)') = findings'[r].answers
        BY <1>10, <4>5, <4>6
      <4>9. Cardinality(AnswersTo(r))' = findings'[r].answers
        BY <4>8
      <4> QED BY <3>2, <4>7, <4>9 DEF LastAnswerShows
    <3> QED BY <3>1, <3>2
  <2> QED BY <2>1, AnswersRowByRowNext
<1> QED BY <1>11, <1>12, <1>14, <1>15, <1>16, <1>17, <1>18 DEF FindingsSound

-----------------------------------------------------------------------------
(* A computation ends.                                                     *)

(* The run that ends is the latest; it stays in the log, with every run    *)
(* that something refers to.                                               *)
RunEnds(id, out) ==
  /\ id \in DOMAIN runs /\ id \in Nat /\ runs[id].state = "running"
  /\ out \in {"succeeded", "failed", "superseded"}
  /\ out = "succeeded" => runs[id].input = revision
  /\ id \in DOMAIN runs' /\ runs'[id].state = out
  /\ runs' # <<>> /\ Latest' = id
  /\ \A x \in DOMAIN runs : Referenced(x) => x \in DOMAIN runs'

LEMMA CompleteEndsRun ==
  ASSUME TypeOK, RunsSound, NEW w \in Worker, NEW failed \in BOOLEAN, CompleteAnalysis(w, failed),
         StillRunning(work[w].run)
  PROVE  RunEnds(work[w].run, Outcome(work[w].run, failed)) /\ LogKept
<1> USE DEF TypeOK
<1> DEFINE id == work[w].run
           out == Outcome(id, failed)
           log == [runs EXCEPT ![id] = Ended(@, out)]
           recent == {x \in DOMAIN log : Cardinality({y \in DOMAIN log : y > x}) < KeepRuns}
<1>1. id \in DOMAIN runs /\ runs[id].state = "running"
  BY DEF StillRunning
<1>2. out \in {"succeeded", "failed", "superseded"} /\ (out = "succeeded" => runs[id].input = revision)
  BY DEF Outcome
<1>3. runs' = Pruned(log)
  BY Zenon DEF CompleteAnalysis
<1>4. UNCHANGED <<evidence, issued>> /\ work' = [work EXCEPT ![w] = none]
  BY DEF CompleteAnalysis
<1> HIDE DEF id, out
<1>5. DOMAIN runs \subseteq 1..issued /\ issued \in Nat /\ id \in Nat /\ \A x \in DOMAIN runs : runs[x] \in Run /\ x \in Nat
  BY <1>1, AnalysisAssumption DEF AnalysisTypeOK
<1>6. \A x \in DOMAIN runs : x <= id
  BY <1>1 DEF RunsSound, OnlyLatestRuns
<1>7. DOMAIN log = DOMAIN runs /\ \A x \in DOMAIN runs :
        /\ log[x] \in Run /\ log[x].input = runs[x].input /\ log[x].snapshot = runs[x].snapshot
        /\ log[x].state = IF x = id THEN out ELSE runs[x].state
  <2>1. ASSUME NEW x \in DOMAIN runs PROVE log[x] = IF x = id THEN Ended(runs[id], out) ELSE runs[x]
    OBVIOUS
  <2>2. Ended(runs[id], out) \in Run /\ Ended(runs[id], out).state = out
        /\ Ended(runs[id], out).input = runs[id].input /\ Ended(runs[id], out).snapshot = runs[id].snapshot
    BY <1>1, <1>2, <1>5, EndedRun
  <2> HIDE DEF log
  <2>3. DOMAIN log = DOMAIN runs
    BY DEF log
  <2> QED BY <1>5, <2>1, <2>2, <2>3
<1>8. id \in recent
  <2>1. {y \in DOMAIN log : y > id} = {}
    BY <1>5, <1>6, <1>7
  <2>2. Cardinality({y \in DOMAIN log : y > id}) = 0
    BY <2>1, FS_EmptySet
  <2> QED BY <1>1, <1>7, <2>2, AnalysisAssumption
<1>9. runs' = [x \in {y \in DOMAIN log : log[y].state = "running" \/ y \in recent \/ Referenced(y)} |-> log[x]]
  BY <1>3 DEF Pruned
<1> HIDE DEF log, recent
<1>10. /\ DOMAIN runs' \subseteq DOMAIN runs /\ id \in DOMAIN runs'
       /\ \A x \in DOMAIN runs' : runs'[x] = log[x]
       /\ \A x \in DOMAIN runs : Referenced(x) => x \in DOMAIN runs'
  BY <1>1, <1>7, <1>8, <1>9
<1>11. runs' \in [DOMAIN runs' -> Run]
  BY <1>7, <1>9, <1>10
<1>12. Latest' = id
  <2>1. DOMAIN runs' \in SUBSET Nat /\ \A x \in DOMAIN runs' : x <= id
    BY <1>5, <1>6, <1>10
  <2>2. Max(DOMAIN runs') \in DOMAIN runs' /\ \A x \in DOMAIN runs' : x <= Max(DOMAIN runs')
    BY <1>5, <1>10, <2>1, LargestElement
  <2> QED BY <1>5, <1>10, <2>1, <2>2 DEF Latest
<1>13. runs' # <<>>
  BY <1>10
<1>14. runs'[id].state = out
  BY <1>1, <1>7, <1>10
<1>15. RunEnds(id, out)
  BY <1>1, <1>2, <1>5, <1>10, <1>12, <1>13, <1>14 DEF RunEnds
<1>16. LogKept
  <2>1. \A x \in DOMAIN runs' :
          /\ runs'[x].input = runs[x].input /\ runs'[x].snapshot = runs[x].snapshot
          /\ runs'[x].state = "running" => runs[x].state = "running"
    BY <1>1, <1>2, <1>7, <1>10
  <2>2. work' \in [Worker -> Job \cup {none}] /\ \A x \in Worker : work'[x] = none \/ work'[x] = work[x]
    BY <1>4 DEF AnalysisTypeOK
  <2> QED BY <1>4, <1>10, <1>11, <2>1, <2>2 DEF LogKept
<1> QED BY <1>15, <1>16 DEF id, out

LEMMA PublishedFinding ==
  ASSUME AnalysisTypeOK, NEW r \in Row, NEW id \in Nat, NEW occ \in SUBSET Row
  PROVE  LET g == Published(r, id, occ)
         IN  /\ g \in Finding /\ g.run = id /\ g.occ = occ /\ g.status = "active"
             /\ IF findings[r] = none THEN g.answers = 0 /\ g.review = none
                ELSE g.answers = findings[r].answers /\ g.review = findings[r].review
<1>1. CASE findings[r] = none
  BY <1>1 DEF Published, Finding, Review
<1>2. CASE findings[r] # none
  <2>1. PICK f \in Finding : f = findings[r]
    BY <1>2 DEF AnalysisTypeOK
  <2>2. Published(r, id, occ) = [f EXCEPT !.run = id, !.occ = occ, !.status = "active"]
    BY <1>2, <2>1 DEF Published
  <2>3. LET g == [f EXCEPT !.run = id, !.occ = occ, !.status = "active"]
        IN  /\ g \in Finding /\ g.run = id /\ g.occ = occ /\ g.status = "active"
            /\ g.answers = f.answers /\ g.review = f.review
    BY DEF Finding
  <2> QED BY <1>2, <2>1, <2>2, <2>3
<1> QED BY <1>1, <1>2

LEMMA WithdrawnFinding ==
  ASSUME AnalysisTypeOK, NEW r \in Row, findings[r] # none
  PROVE  LET g == Withdrawn(r)
         IN  /\ g \in Finding /\ g.run = findings[r].run /\ g.occ = findings[r].occ /\ g.status = "withdrawn"
             /\ g.answers = findings[r].answers /\ g.review = findings[r].review
<1>1. PICK f \in Finding : f = findings[r]
  BY DEF AnalysisTypeOK
<1>2. Withdrawn(r) = [f EXCEPT !.status = "withdrawn"]
  BY <1>1 DEF Withdrawn
<1>3. LET g == [f EXCEPT !.status = "withdrawn"]
      IN  /\ g \in Finding /\ g.run = f.run /\ g.occ = f.occ /\ g.status = "withdrawn"
          /\ g.answers = f.answers /\ g.review = f.review
  BY DEF Finding
<1> QED BY <1>1, <1>2, <1>3

(* The findings that are left follow from runs that are left, and keep     *)
(* their answers.                                                          *)
FindingsLeft ==
  /\ findings' \in [Row -> Finding \cup {none}]
  /\ \A r \in Row :
       /\ findings'[r] # none => Present(r) /\ From(findings[r], r)'
       /\ findings[r] # none => /\ findings'[r] # none
                                /\ findings'[r].answers = findings[r].answers
                                /\ findings'[r].review = findings[r].review
       /\ findings[r] = none /\ findings'[r] # none => findings'[r].answers = 0 /\ findings'[r].review = none
  /\ SucceededIsShown'

(* A run that does not succeed leaves the findings as they were.           *)
LEMMA NothingPublished ==
  ASSUME TypeOK, RunsSound, FindingsSound, LogKept, findings' = findings,
         NEW id, NEW out, RunEnds(id, out), out # "succeeded"
  PROVE  FindingsLeft
<1> USE DEF TypeOK
<1>1. ASSUME NEW r \in Row, findings[r] # none PROVE Present(r) /\ From(findings[r], r)'
  <2>1. findings[r].run \in DOMAIN runs /\ From(findings[r], r)
    BY <1>1 DEF FindingsSound, Reproducible, From
  <2>2. findings[r].run \in DOMAIN runs'
    BY <1>1, <2>1 DEF RunEnds, Referenced
  <2>3. runs'[findings[r].run].snapshot = runs[findings[r].run].snapshot
    BY <2>2 DEF LogKept
  <2> QED BY <1>1, <2>1, <2>2, <2>3 DEF From, AnalysisTypeOK
<1>2. SucceededIsShown'
  BY DEF RunEnds, SucceededIsShown
<1>3. findings \in [Row -> Finding \cup {none}]
  BY DEF AnalysisTypeOK
<1> QED BY <1>1, <1>2, <1>3 DEF FindingsLeft

(* A run that succeeds publishes what follows from its snapshot, which is  *)
(* the evidence that stands.                                               *)
LEMMA FoundPublished ==
  ASSUME TypeOK, RunsSound, FindingsSound, LogKept, NEW id, RunEnds(id, "succeeded"),
         Publish(id, Analyze(runs[id].snapshot))
  PROVE  FindingsLeft
<1> USE DEF TypeOK
<1> DEFINE found == Analyze(runs[id].snapshot)
<1>1. id \in DOMAIN runs /\ id \in Nat /\ runs[id].input = revision /\ id \in DOMAIN runs'
      /\ runs' # <<>> /\ Latest' = id /\ runs'[id].state = "succeeded"
  BY DEF RunEnds
<1>2. runs[id].snapshot = LoadAnalysisSnapshot
  BY <1>1 DEF RunsSound, Aligned
<1>3. DOMAIN found \subseteq Row /\ \A r \in DOMAIN found : found[r] \in SUBSET Row /\ Present(r)
  BY <1>2, LoadedSnapshot, AnalyzeType
<1>4. runs'[id].snapshot = runs[id].snapshot
  BY <1>1 DEF LogKept
<1>5. \A r \in Row : findings'[r] = IF r \in DOMAIN found THEN Published(r, id, found[r]) ELSE Withdrawn(r)
  BY DEF Publish
<1>6. findings' = [r \in Row |-> findings'[r]]
  BY DEF Publish
<1>7. ASSUME NEW r \in DOMAIN found
      PROVE  /\ findings'[r] \in Finding /\ findings'[r].run = id /\ findings'[r].occ = found[r]
             /\ findings'[r].status = "active"
             /\ IF findings[r] = none THEN findings'[r].answers = 0 /\ findings'[r].review = none
                ELSE findings'[r].answers = findings[r].answers /\ findings'[r].review = findings[r].review
  BY <1>1, <1>3, <1>5, PublishedFinding
<1>8. ASSUME NEW r \in Row \ DOMAIN found, findings[r] # none
      PROVE  /\ findings'[r] \in Finding /\ findings'[r].run = findings[r].run /\ findings'[r].occ = findings[r].occ
             /\ findings'[r].status = "withdrawn"
             /\ findings'[r].answers = findings[r].answers /\ findings'[r].review = findings[r].review
  BY <1>5, <1>8, WithdrawnFinding
<1>9. \A r \in Row \ DOMAIN found : findings[r] = none => findings'[r] = none
  BY <1>5 DEF Withdrawn
<1>10. none \notin Finding
  BY AnalysisAssumption
<1>11. ASSUME NEW r \in DOMAIN found PROVE From(findings[r], r)'
  BY <1>1, <1>4, <1>7 DEF From
<1>12. ASSUME NEW r \in Row \ DOMAIN found, findings[r] # none PROVE Present(r) /\ From(findings[r], r)'
  <2>1. findings[r].run \in DOMAIN runs /\ From(findings[r], r)
    BY <1>12 DEF FindingsSound, Reproducible, From
  <2>2. findings'[r] # none /\ findings'[r].run = findings[r].run /\ findings'[r].occ = findings[r].occ
    BY <1>8, <1>10, <1>12
  <2>3. findings[r].run \in DOMAIN runs'
    BY <2>1, <2>2 DEF RunEnds, Referenced
  <2>4. runs'[findings[r].run].snapshot = runs[findings[r].run].snapshot
    BY <2>3 DEF LogKept
  <2> QED BY <1>12, <2>1, <2>2, <2>3, <2>4 DEF From, AnalysisTypeOK
<1>13. SucceededIsShown'
  <2>1. \A r \in Row : findings'[r] # none /\ findings'[r].status = "active" <=> r \in DOMAIN found
    BY <1>3, <1>7, <1>8, <1>9, <1>10
  <2>2. ActiveRows' = DOMAIN found
    BY <1>3, <2>1 DEF ActiveRows
  <2> QED BY <1>1, <1>4, <2>2 DEF SucceededIsShown
<1> HIDE DEF found
<1>14. findings' \in [Row -> Finding \cup {none}]
  BY <1>3, <1>6, <1>7, <1>8, <1>9
<1>15. ASSUME NEW r \in Row
       PROVE  /\ findings'[r] # none => Present(r) /\ From(findings[r], r)'
              /\ findings[r] # none => /\ findings'[r] # none
                                       /\ findings'[r].answers = findings[r].answers
                                       /\ findings'[r].review = findings[r].review
              /\ findings[r] = none /\ findings'[r] # none => findings'[r].answers = 0 /\ findings'[r].review = none
  <2>1. CASE r \in DOMAIN found
    BY <1>3, <1>7, <1>10, <1>11, <2>1
  <2>2. CASE r \notin DOMAIN found
    BY <1>8, <1>9, <1>10, <1>12, <2>2
  <2> QED BY <2>1, <2>2
<1> QED BY <1>13, <1>14, <1>15 DEF FindingsLeft

LEMMA CompleteKeeps ==
  ASSUME TypeOK, RunsSound, FindingsSound, NEW w \in Worker, NEW failed \in BOOLEAN, CompleteAnalysis(w, failed)
  PROVE  AnalysisTypeOK' /\ RunsSound' /\ FindingsSound'
<1> USE DEF TypeOK
<1> DEFINE id == work[w].run
           out == Outcome(id, failed)
<1>1. UNCHANGED <<evidence, issued, feedback, screen>> /\ faults' \in Nat /\ work[w] # none
      /\ work' = [work EXCEPT ![w] = none]
  BY DEF CompleteAnalysis, One, AnalysisTypeOK
<1>2. CASE ~StillRunning(id)
  <2>1. UNCHANGED <<runs, findings>>
    BY <1>2 DEF CompleteAnalysis
  <2> QED BY <1>1, <2>1, GivenUpKeeps
<1>3. CASE StillRunning(id)
  <2>1. RunEnds(id, out) /\ LogKept
    BY <1>3, CompleteEndsRun
  <2>2. IF out = "succeeded" THEN Publish(id, Analyze(work[w].snapshot)) ELSE findings' = findings
    BY <1>3 DEF CompleteAnalysis
  <2> HIDE DEF id, out
  <2>3. FindingsLeft
    <3>1. CASE out = "succeeded"
      <4>1. work[w].snapshot = runs[id].snapshot
        BY <1>1, <2>1 DEF RunsSound, JobsAreRuns, RunEnds, id
      <4> QED BY <2>1, <2>2, <3>1, <4>1, FoundPublished
    <3>2. CASE out # "succeeded"
      BY <2>1, <2>2, <3>2, NothingPublished
    <3> QED BY <3>1, <3>2
  <2>4. row' = row /\ facts' = facts /\ revision' = revision /\ issued' = issued /\ feedback' = feedback
        /\ screen' = screen
    BY <1>1 DEF evidence
  <2>5. DOMAIN runs' \subseteq DOMAIN runs /\ \A x \in DOMAIN runs' : runs'[x].input = runs[x].input
        /\ runs'[x].snapshot = runs[x].snapshot
    BY <2>1 DEF LogKept
  <2>6. AnalysisTypeOK'
    <3>1. runs' \in [DOMAIN runs' -> Run] /\ DOMAIN runs' \subseteq 1..issued'
      BY <2>1, <2>4, <2>5 DEF LogKept, AnalysisTypeOK
    <3>2. work' \in [Worker -> Job \cup {none}] /\ \A x \in Worker : work'[x] # none => work'[x].run \in 1..issued'
      BY <1>1, <2>4 DEF AnalysisTypeOK
    <3>3. \A x \in DOMAIN runs' : runs'[x].input <= revision'
      BY <2>4, <2>5 DEF AnalysisTypeOK
    <3>4. findings' \in [Row -> Finding \cup {none}] /\ \A r \in Row : findings'[r] # none => Present(r)'
      BY <2>3, <2>4 DEF FindingsLeft, Present
    <3> QED BY <1>1, <2>4, <3>1, <3>2, <3>3, <3>4 DEF AnalysisTypeOK
  <2>7. RunsSound'
    <3>1. revision # 0
      BY <2>1 DEF RunEnds, RunsSound, NothingYet
    <3> QED BY <2>1, <3>1, LogKeptSound
  <2>8. Reproducible'
    <3>1. ASSUME NEW e \in feedback PROVE From(e, e.row)'
      <4>1. e.run \in DOMAIN runs /\ From(e, e.row)
        BY DEF FindingsSound, Reproducible, From
      <4>2. e.run \in DOMAIN runs'
        BY <2>1, <4>1 DEF RunEnds, Referenced
      <4> QED BY <2>5, <4>1, <4>2 DEF From
    <3> QED BY <2>3, <2>4, <3>1 DEF FindingsLeft, Reproducible, From
  <2>9. ScreenFollows'
    BY <2>4, <2>5 DEF FindingsSound, ScreenFollows, From
  <2>10. AnswersNumbered'
    <3>1. \A e \in feedback : e.row \in Row
      BY DEF AnalysisTypeOK, Event
    <3> QED BY <2>3, <2>4, <3>1 DEF FindingsSound, AnswersNumbered, FindingsLeft
  <2>11. ReviewIsLastAnswer'
    <3>1. ASSUME NEW r \in Row, findings'[r] # none PROVE LastAnswerShows(r)'
      <4>1. AnswersTo(r)' = AnswersTo(r)
        BY <2>4 DEF AnswersTo
      <4>2. CASE findings[r] # none
        <5>1. LastAnswerShows(r)
          BY <4>2, AnswersRowByRow DEF FindingsSound
        <5> QED BY <2>3, <4>1, <4>2, <5>1 DEF LastAnswerShows, FindingsLeft
      <4>3. CASE findings[r] = none
        <5>1. AnswersTo(r) = {}
          BY <4>3 DEF AnswersTo, FindingsSound, AnswersNumbered
        <5>2. Cardinality(AnswersTo(r)') = 0
          BY <4>1, <5>1, FS_EmptySet
        <5>3. findings'[r].answers = 0 /\ findings'[r].review = none
          BY <2>3, <3>1, <4>3 DEF FindingsLeft
        <5> QED BY <4>1, <5>1, <5>2, <5>3 DEF LastAnswerShows
      <4> QED BY <4>2, <4>3
    <3> QED BY <3>1, AnswersRowByRowNext
  <2>12. SucceededIsShown'
    BY <2>3 DEF FindingsLeft
  <2> QED BY <2>6, <2>7, <2>8, <2>9, <2>10, <2>11, <2>12 DEF FindingsSound
<1> QED BY <1>2, <1>3

-----------------------------------------------------------------------------
(* All together.                                                           *)

LEMMA InferenceUnmoved ==
  ASSUME TypeOK, RunsSound, FindingsSound, faults' \in Nat,
         UNCHANGED <<evidence, runs, issued, work, findings, feedback, screen>>
  PROVE  AnalysisTypeOK' /\ RunsSound' /\ FindingsSound'
<1> USE DEF TypeOK
<1>1. row' = row /\ facts' = facts /\ revision' = revision /\ issued' = issued /\ runs' = runs /\ work' = work
      /\ findings' = findings /\ feedback' = feedback /\ screen' = screen
  BY DEF evidence
<1>2. AnalysisTypeOK'
  BY <1>1 DEF AnalysisTypeOK, Present
<1>3. RunsSound'
  BY <1>1 DEF RunsSound, Aligned, OnlyLatestRuns, JobsAreRuns, NothingYet, LoadAnalysisSnapshot
<1>4. Reproducible' /\ AnswersNumbered' /\ ReviewIsLastAnswer'
  BY <1>1 DEF FindingsSound, Reproducible, AnswersNumbered, ReviewIsLastAnswer
<1>5. ScreenFollows'
  BY <1>1 DEF FindingsSound, ScreenFollows, From
<1>6. SucceededIsShown'
  BY <1>1 DEF FindingsSound, SucceededIsShown, ActiveRows, Latest
<1> QED BY <1>2, <1>3, <1>4, <1>5, <1>6 DEF FindingsSound

LEMMA EvidenceUnmoved ==
  ASSUME EvidenceTypeOK, UNCHANGED evidence
  PROVE  EvidenceTypeOK'
BY DEF EvidenceTypeOK, evidence, Present

LEMMA CategoriesUnmoved ==
  ASSUME CategoriesTypeOK, BankValueShows, UNCHANGED <<evidence, categories>>
  PROVE  CategoriesSound'
BY DEF CategoriesSound, CategoriesTypeOK, BankValueShows, evidence, categories, Present

LEMMA RowsKeep ==
  ASSUME IndInv, scope \in Scope, RowWrite
  PROVE  IndInv'
<1> USE DEF IndInv
<1>1. EvidenceTypeOK' /\ AnalysisTypeOK' /\ RunsSound' /\ FindingsSound'
  <2>1. PICK R \in SUBSET Row : RowsChange(R)
    BY RowWriteChanges
  <2> QED BY <2>1, RowsKeepTypes, RowsKeepRuns, RowsKeepFindings DEF RowsChange
<1>2. PlanningTypeOK' /\ SchedulesSound'
  <2>1. CASE ClearModel
    BY <2>1, ClearKeepsSchedules DEF ClearModel, TypeOK
  <2>2. CASE ~ClearModel
    <3>1. UNCHANGED planning
      BY <2>2 DEF RowWrite, Observe, Void, UpdateTransaction, DeleteTransaction
    <3> QED BY <3>1, ScheduleUnmoved DEF TypeOK
  <2> QED BY <2>1, <2>2
<1>3. CategoriesSound'
  <2>1. ASSUME NEW r \in Row, NEW f \in scope.facts, NEW s \in scope.arrives, Observe(r, f, s)
        PROVE  CategoriesSound'
    <3>1. f \in Fact /\ s \in {"pending", "posted"}
      BY DEF Scope
    <3> QED BY <2>1, <3>1, ObserveKeepsCategories
  <2>2. ASSUME NEW r \in Row, Void(r) \/ UpdateTransaction(r) \/ DeleteTransaction(r)
        PROVE  CategoriesSound'
    BY <2>2, OtherRowsKeepCategories
  <2>3. CASE ClearModel
    <3>1. PICK r \in Row : TRUE
      BY <2>3 DEF ClearModel, ClearRows
    <3> QED BY <2>3, <3>1, OtherRowsKeepCategories
  <2> QED BY <2>1, <2>2, <2>3 DEF RowWrite
<1> QED BY <1>1, <1>2, <1>3 DEF TypeOK, CategoriesSound

LEMMA RunnerAndOwnerKeep ==
  ASSUME IndInv, scope \in Scope, RunnerStep \/ RunnerFault \/ OwnerStep, UNCHANGED <<planning, categories>>
  PROVE  IndInv'
<1> USE DEF IndInv
<1>1. scope.workers \subseteq Worker /\ scope.acts \subseteq Act
  BY DEF Scope
<1>2. UNCHANGED evidence
  BY DEF RunnerStep, RunnerFault, OwnerStep, ClaimAnalysis, CompleteAnalysis, Crash, LeaseEnds, CooldownEnds,
         ListAnalysisFindings, ReviewAnalysisFinding, DismissAnalysisFinding, Answer
<1>3. AnalysisTypeOK' /\ RunsSound' /\ FindingsSound'
  <2>1. CASE RunnerStep
    BY <1>1, <2>1, ClaimKeeps, CompleteKeeps DEF RunnerStep
  <2>2. CASE RunnerFault
    BY <1>1, <2>2, CompleteKeeps, CrashKeeps, TimeKeeps DEF RunnerFault
  <2>3. CASE OwnerStep
    <3>1. ASSUME NEW act \in Act, ReviewAnalysisFinding(act)
          PROVE  AnalysisTypeOK' /\ RunsSound' /\ FindingsSound'
      <4>1. screen.row \in Row /\ findings[screen.row] # none /\ Answer(screen.row, act)
        BY <3>1 DEF ReviewAnalysisFinding, TypeOK, AnalysisTypeOK, Seen
      <4> QED BY <4>1, AnswerKeeps
    <3>2. ASSUME NEW act \in Act, NEW r \in Row, DismissAnalysisFinding(r, act)
          PROVE  AnalysisTypeOK' /\ RunsSound' /\ FindingsSound'
      BY <3>2, AnswerKeeps DEF DismissAnalysisFinding
    <3> QED BY <1>1, <2>3, <3>1, <3>2, ListKeeps DEF OwnerStep
  <2> QED BY <2>1, <2>2, <2>3
<1>4. EvidenceTypeOK' /\ PlanningTypeOK' /\ SchedulesSound' /\ CategoriesSound'
  BY <1>2, EvidenceUnmoved, ScheduleUnmoved, CategoriesUnmoved DEF TypeOK
<1> QED BY <1>3, <1>4 DEF TypeOK, CategoriesSound

LEMMA SchedulesKeep ==
  ASSUME IndInv, ScheduleStep, UNCHANGED categories
  PROVE  IndInv'
<1> USE DEF IndInv
<1>1. PlanningTypeOK' /\ SchedulesSound'
  BY PreviewKeepsSchedules, RecordKeepsSchedules, PersistKeepsSchedules, FailureKeepsSchedules, EditKeepsSchedules
     DEF ScheduleStep, TypeOK
<1>2. UNCHANGED <<evidence, runs, issued, work, findings, feedback, screen>> /\ faults' \in Nat
  <2>1. faults \in Nat
    BY DEF TypeOK, AnalysisTypeOK
  <2>2. ASSUME PersistFails \/ ApprovalLost
        PROVE  UNCHANGED <<evidence, runs, issued, work, findings, feedback, screen>> /\ faults' = faults + 1
    BY <2>2 DEF PersistFails, ApprovalLost
  <2>3. PersistFails \/ ApprovalLost \/ UNCHANGED <<evidence, inference>>
    BY DEF ScheduleStep, PreviewPatternToNewSchedule, RecordPatternToNewSchedule, PersistFinanceSchedule,
           DisableSchedule, EnableSchedule, DeleteSchedule
  <2> QED BY <2>1, <2>2, <2>3 DEF inference
<1>3. EvidenceTypeOK' /\ AnalysisTypeOK' /\ RunsSound' /\ FindingsSound' /\ CategoriesSound'
  BY <1>2, EvidenceUnmoved, InferenceUnmoved, CategoriesUnmoved DEF TypeOK
<1> QED BY <1>1, <1>3 DEF TypeOK, CategoriesSound

LEMMA CategoriesKeep ==
  ASSUME IndInv, CategoryStep, UNCHANGED <<inference, planning>>
  PROVE  IndInv'
<1> USE DEF IndInv
<1>1. CategoriesSound'
  BY PassKeepsCategories, InferredKeepsCategories, UserKeepsCategories DEF CategoryStep
<1>2. UNCHANGED evidence
  BY DEF CategoryStep, StartPass, SetInferredTransactionCategory, PassEnds, SetUserTransactionCategory, ClearUserCategory
<1>3. UNCHANGED <<evidence, runs, issued, work, findings, feedback, screen>> /\ faults' \in Nat
  BY <1>2 DEF inference, TypeOK, AnalysisTypeOK
<1>4. EvidenceTypeOK' /\ AnalysisTypeOK' /\ RunsSound' /\ FindingsSound' /\ PlanningTypeOK' /\ SchedulesSound'
  BY <1>2, <1>3, EvidenceUnmoved, InferenceUnmoved, ScheduleUnmoved DEF TypeOK
<1> QED BY <1>1, <1>4 DEF TypeOK, CategoriesSound

LEMMA NextSound ==
  ASSUME IndInv, scope \in Scope, [Next]_vars
  PROVE  IndInv' /\ scope' \in Scope
<1>1. CASE Next
  <2>1. scope' = scope
    BY <1>1 DEF Next
  <2> QED BY <1>1, <2>1, RowsKeep, RunnerAndOwnerKeep, SchedulesKeep, CategoriesKeep DEF Next
<1>2. CASE UNCHANGED vars
  <2>1. scope' = scope /\ UNCHANGED <<evidence, inference, planning, categories>>
    BY <1>2 DEF vars
  <2>2. UNCHANGED <<evidence, runs, issued, work, findings, feedback, screen>> /\ faults' \in Nat
    BY <2>1 DEF inference, IndInv, TypeOK, AnalysisTypeOK
  <2> QED BY <2>1, <2>2, EvidenceUnmoved, InferenceUnmoved, ScheduleUnmoved, CategoriesUnmoved
          DEF IndInv, TypeOK, CategoriesSound
<1> QED BY <1>1, <1>2

LEMMA InitSound ==
  ASSUME Init
  PROVE  IndInv /\ scope \in Scope
<1> USE DEF Init, AnalysisInit, PlanningInit, CategoriesInit
<1>1. scope \in Scope /\ scope.posted \subseteq Row /\ scope.facts \subseteq Fact
  BY ScopesAssumption DEF Scope
<1>2. PICK f \in Fact : EvidenceInit(scope.posted, f)
  BY <1>1
<1>3. IsFiniteSet(scope.posted) /\ Cardinality(scope.posted) \in Nat
  BY <1>1, EvidenceAssumption, FS_Subset, FS_CardinalityType
<1>4. f # none
  BY EvidenceAssumption
<1>5. EvidenceTypeOK
  BY <1>1, <1>2, <1>3, <1>4 DEF EvidenceInit, EvidenceTypeOK, Present, Listed
<1>6. AnalysisTypeOK
  <2>1. DOMAIN runs = {} /\ runs \in [{} -> Run] /\ issued = 0
    OBVIOUS
  <2>2. IsFiniteSet(feedback) /\ feedback = {}
    BY FS_EmptySet
  <2> QED BY <2>1, <2>2, AnalysisAssumption DEF AnalysisTypeOK
<1>7. PlanningTypeOK /\ SchedulesSound
  BY DEF PlanningTypeOK, SchedulesSound, LinkNamesActive, ApprovalAlone
<1>8. CategoriesTypeOK /\ BankValueShows
  <2>1. Assigned("food", "bank") \in Assignment
    BY DEF Assigned, Assignment, Category
  <2>2. \A r \in Row : facts[r] # none => facts[r].hint # "food" \/ facts[r].hint # "odd"
    OBVIOUS
  <2> QED BY <1>5, <2>1, CategoriesAssumption DEF CategoriesTypeOK, BankValueShows, EvidenceTypeOK
<1>9. RunsSound
  <2>1. revision = 0 => scope.posted = {}
    BY <1>2, <1>3, FS_EmptySet DEF EvidenceInit
  <2>2. NothingYet
    BY <1>2, <2>1 DEF EvidenceInit, NothingYet
  <2> QED BY <2>2 DEF RunsSound, Aligned, OnlyLatestRuns, JobsAreRuns
<1>10. FindingsSound
  BY DEF FindingsSound, Reproducible, SucceededIsShown, ScreenFollows, AnswersNumbered, ReviewIsLastAnswer
<1> QED BY <1>1, <1>5, <1>6, <1>7, <1>8, <1>9, <1>10 DEF IndInv, TypeOK

-----------------------------------------------------------------------------
(* What follows from the invariant.                                        *)

LEMMA SoundIsCurrent ==
  ASSUME IndInv
  PROVE  DerivedIsCurrent
<1> USE DEF IndInv
<1> DEFINE now == Analyze(LoadAnalysisSnapshot)
<1>1. ASSUME NEW r \in ActiveRows, runs[findings[r].run].input = revision
      PROVE  r \in DOMAIN now /\ findings[r].occ = now[r]
  <2>1. From(findings[r], r)
    BY DEF FindingsSound, Reproducible, From, ActiveRows
  <2>2. runs[findings[r].run].snapshot = LoadAnalysisSnapshot
    BY <1>1, <2>1 DEF RunsSound, Aligned, From
  <2> QED BY <2>1, <2>2 DEF From
<1>2. ASSUME CaughtUp PROVE ActiveRows = DOMAIN now
  <2>1. CASE revision > 0
    <3>1. runs # <<>> /\ runs[Latest].state = "succeeded" /\ runs[Latest].input = revision
      BY <1>2, <2>1 DEF CaughtUp
    <3>2. Latest \in DOMAIN runs
      BY <3>1, LatestIsLast DEF TypeOK
    <3>3. runs[Latest].snapshot = LoadAnalysisSnapshot
      BY <3>1, <3>2 DEF RunsSound, Aligned
    <3> QED BY <3>1, <3>3 DEF FindingsSound, SucceededIsShown
  <2>2. CASE ~(revision > 0)
    <3>1. revision = 0
      BY <2>2 DEF TypeOK, EvidenceTypeOK
    <3>2. ActiveRows = {} /\ {x \in Row : facts[x] # none} = {}
      BY <3>1 DEF RunsSound, NothingYet, ActiveRows
    <3>3. DOMAIN LoadAnalysisSnapshot = {}
      BY <3>2 DEF LoadAnalysisSnapshot
    <3>4. Occurrences(LoadAnalysisSnapshot) = {}
      BY <3>3 DEF Occurrences
    <3>5. DOMAIN now = {}
      BY <3>4 DEF Analyze
    <3> QED BY <3>2, <3>5
  <2> QED BY <2>1, <2>2
<1>3. FreshIsCurrent
  BY <1>1, <1>2, Zenon DEF FreshIsCurrent, ActiveRows
<1> QED BY <1>3 DEF DerivedIsCurrent

LEMMA SoundIsBacked ==
  ASSUME IndInv
  PROVE  GeneratedIsBacked
<1> USE DEF IndInv
<1>1. FindingsBacked
  BY DEF FindingsBacked, FindingsSound
<1>2. ASSUME NEW k \in Keys PROVE Cardinality({s \in Active(k) : ~schedules[s].revived}) <= 1
  <2> DEFINE S == {s \in Active(k) : ~schedules[s].revived}
  <2>1. \A s \in S : promotions[k] = s
    BY DEF SchedulesSound, LinkNamesActive, Active
  <2> HIDE DEF S
  <2>2. S = {} \/ S = {promotions[k]}
    BY <2>1
  <2>3. Cardinality(S) \in {0, 1}
    BY <2>2, FS_EmptySet, FS_Singleton
  <2> QED BY <2>3 DEF S
<1> QED BY <1>1, <1>2 DEF GeneratedIsBacked, OneScheduleUntilRevived

(* Only answers add to the feedback.                                       *)
LEMMA OnlyAnswersAdd ==
  ASSUME IndInv, scope \in Scope, [Next]_vars, NEW e \in feedback' \ feedback, e.act \in {"confirm", "reject"}
  PROVE  \E act \in Act : ReviewAnalysisFinding(act)
<1>1. Next
  BY DEF vars, inference
<1>2. ~RowWrite
  <2>1. ASSUME RowWrite PROVE FALSE
    <3>1. PICK R \in SUBSET Row : RowsChange(R)
      BY <2>1, RowWriteChanges DEF IndInv
    <3> QED BY <3>1 DEF RowsChange, DropFindings
  <2> QED BY <2>1
<1>3. ~RunnerStep /\ ~RunnerFault
  BY DEF RunnerStep, RunnerFault, ClaimAnalysis, CompleteAnalysis, Crash, LeaseEnds, CooldownEnds
<1>4. ~ScheduleStep
  BY DEF ScheduleStep, PreviewPatternToNewSchedule, RecordPatternToNewSchedule, PersistFinanceSchedule,
         PersistFails, ApprovalLost, DisableSchedule, EnableSchedule, DeleteSchedule, inference
<1>5. OwnerStep
  BY <1>1, <1>2, <1>3, <1>4 DEF Next, inference
<1>6. ASSUME NEW r \in Row, NEW act \in scope.acts, DismissAnalysisFinding(r, act) PROVE FALSE
  BY <1>6 DEF DismissAnalysisFinding, Answer
<1>7. ASSUME NEW r \in Row, ListAnalysisFindings(r) PROVE FALSE
  BY <1>7 DEF ListAnalysisFindings
<1> QED BY <1>5, <1>6, <1>7 DEF OwnerStep, Scope

LEMMA VerdictStep ==
  ASSUME IndInv, scope \in Scope, [Next]_vars, NEW e \in feedback' \ feedback, e.act \in {"confirm", "reject"}
  PROVE  /\ screen # none /\ e.occ = screen.occ
         /\ LET now == Analyze(LoadAnalysisSnapshot) IN e.row \in DOMAIN now /\ e.occ = now[e.row]
<1> USE DEF IndInv
<1> DEFINE f == findings[screen.row]
<1>1. PICK act \in Act : ReviewAnalysisFinding(act)
  BY OnlyAnswersAdd
<1>2. screen # none /\ screen.row \in Row /\ f # none /\ screen.run = f.run
  BY <1>1 DEF ReviewAnalysisFinding, SeenByOwner, TypeOK, AnalysisTypeOK, Seen
<1>3. e.row = screen.row /\ e.act = act /\ e.occ = f.occ
  BY <1>1 DEF ReviewAnalysisFinding, Answer
<1>4. runs[f.run].input = revision
  BY <1>1, <1>3 DEF ReviewAnalysisFinding, Answerable
<1>5. From(f, screen.row)
  BY <1>2 DEF FindingsSound, Reproducible, From
<1>6. screen.occ = f.occ
  BY <1>2, <1>5 DEF FindingsSound, ScreenFollows, From
<1>7. runs[f.run].snapshot = LoadAnalysisSnapshot
  BY <1>4, <1>5 DEF RunsSound, Aligned, From
<1> QED BY <1>2, <1>3, <1>5, <1>6, <1>7 DEF From

LEMMA OwnerChoiceStep ==
  ASSUME IndInv, scope \in Scope, [Next]_vars, NEW r \in Row, cats[r] # none, cats[r].source = "user",
         evidence' # evidence \/ results' # results
  PROVE  cats'[r] = cats[r] \/ row'[r] = "gone"
<1> USE DEF IndInv
<1>1. CASE cats' = cats
  BY <1>1
<1>2. ASSUME NEW x \in Row, NEW f \in scope.facts, NEW s \in scope.arrives, Observe(x, f, s)
      PROVE  cats'[r] = cats[r]
  <2>1. f.hint \in {"", "odd", "food"}
    BY EvidenceAssumption DEF Scope, FactType
  <2> QED BY <1>2, <2>1 DEF Observe, SetBankTransactionCategory, TypeOK, CategoriesTypeOK
<1>3. ASSUME NEW x \in Row, DeleteTransaction(x)
      PROVE  cats'[r] = cats[r] \/ row'[r] = "gone"
  BY <1>3 DEF DeleteTransaction, DeleteRow, DropCategories, TypeOK, EvidenceTypeOK
<1>4. ASSUME ClearModel PROVE row'[r] = "gone"
  BY <1>4 DEF ClearModel, ClearRows, TypeOK, CategoriesTypeOK
<1>5. CASE RowWrite
  BY <1>1, <1>2, <1>3, <1>4, <1>5 DEF RowWrite, Void, UpdateTransaction, categories
<1>6. ASSUME NEW x \in Row, SetInferredTransactionCategory(x)
      PROVE  cats'[r] = cats[r]
  BY <1>6 DEF SetInferredTransactionCategory, GivesWay, TypeOK, CategoriesTypeOK
<1>7. ASSUME NEW x \in Row, SetUserTransactionCategory(x, "rent") \/ ClearUserCategory(x)
      PROVE  FALSE
  BY <1>7 DEF SetUserTransactionCategory, ClearUserCategory
<1>8. CASE CategoryStep
  BY <1>1, <1>6, <1>7, <1>8 DEF CategoryStep, StartPass, PassEnds
<1> QED BY <1>1, <1>5, <1>8 DEF Next, vars, categories

-----------------------------------------------------------------------------
(* The theorems.                                                           *)

LEMMA Invariant == Spec => [](IndInv /\ scope \in Scope)
<1>1. Init => IndInv /\ scope \in Scope
  BY InitSound
<1>2. IndInv /\ scope \in Scope /\ [Next]_vars => (IndInv /\ scope \in Scope)'
  BY NextSound
<1> QED BY <1>1, <1>2, PTL DEF Spec

(* The rows, the log of runs, findings, answers, schedules and categories  *)
(* are well formed in every state, and what belongs to a row (its finding, *)
(* its category) is gone when the row is.                                  *)
THEOREM TypeCorrect == Spec => []TypeOK
<1>1. IndInv => TypeOK
  BY DEF IndInv
<1> QED BY <1>1, Invariant, PTL

(* Whatever syncs, owners and workers do in between, a finding that is not *)
(* flagged stale is what the detector says of the saved evidence, nothing  *)
(* it says is missing once the latest run succeeded, and a category shows  *)
(* what the bank says unless the owner set another.                        *)
THEOREM DerivedAlwaysCurrent == Spec => []DerivedIsCurrent
<1>1. IndInv => DerivedIsCurrent
  BY SoundIsCurrent
<1> QED BY <1>1, Invariant, PTL

(* The run behind a finding or an answer is never pruned and reproduces    *)
(* it, a finding shows the review of its last answer, and a pattern has    *)
(* one active schedule that the owner did not switch back on.              *)
THEOREM GeneratedAlwaysBacked == Spec => []GeneratedIsBacked
<1>1. IndInv => GeneratedIsBacked
  BY SoundIsBacked
<1> QED BY <1>1, Invariant, PTL

(* A confirm or reject labels the prediction on the owner's screen, which  *)
(* follows from the evidence at that moment, and no sync or pass changes a *)
(* category the owner set.                                                 *)
THEOREM OwnerAlwaysHeard == Spec => OwnerHeard
<1>1. ASSUME IndInv, scope \in Scope, [Next]_vars
      PROVE  \A e \in feedback' \ feedback : e.act \in {"confirm", "reject"} =>
               /\ screen # none /\ e.occ = screen.occ
               /\ LET now == Analyze(LoadAnalysisSnapshot) IN e.row \in DOMAIN now /\ e.occ = now[e.row]
  BY <1>1, VerdictStep
<1>2. ASSUME IndInv, scope \in Scope, [Next]_vars
      PROVE  \A r \in Row : cats[r] # none /\ cats[r].source = "user" /\ (evidence' # evidence \/ results' # results)
               => \/ cats'[r] = cats[r]
                  \/ row'[r] = "gone"
  BY <1>2, OwnerChoiceStep
<1>3. Spec => VerdictOnSeen
  BY <1>1, Invariant, PTL DEF VerdictOnSeen, Spec
<1>4. Spec => OwnerChoiceStays
  BY <1>2, Invariant, PTL DEF OwnerChoiceStays, Spec
<1> QED BY <1>3, <1>4 DEF OwnerHeard
=============================================================================
