-------------------------- MODULE PatternSchedule --------------------------
(***************************************************************************)
(* A confirmed recurring pattern becomes a schedule: preview, record the   *)
(* link from the pattern to the schedule, create the schedule row.  The    *)
(* three are separate store calls under one process-wide mutex; edits of   *)
(* the schedule and a clear of the model take no part in it.               *)
(***************************************************************************)
EXTENDS Analysis

CONSTANT Sched    \* ids of generated schedules

VARIABLES
  schedules,   \* recurrence_rules made from a pattern
  promotions,  \* analysis_promotions: pattern key -> schedule
  approval     \* the approval that holds the mutex

planning == <<schedules, promotions, approval>>

(* A key is the cadence and the set of recorded occurrences.               *)
Keys == SUBSET Row

Schedule == [key : Keys, enabled : BOOLEAN, revived : BOOLEAN]
Approval == [at : {"record", "create"}, key : Keys, id : Sched, accounts : BOOLEAN]

ASSUME ScheduleAssumption == none \notin Sched /\ none \notin Schedule /\ none \notin Approval

(* Mutant: only a schedule that is in the model counts, whatever the link. *)
NoneActive(k) == none

(* The link's schedule, if it exists and is enabled.                       *)
ExistingSchedule(k) ==
  LET s == promotions[k]
  IN IF s # none /\ schedules[s] # none /\ schedules[s].enabled THEN s ELSE none

(* The finding is active and confirmed, and every occurrence is still a    *)
(* settled row.                                                            *)
Creatable(r) ==
  /\ findings[r] # none /\ findings[r].status = "active" /\ findings[r].review = "confirmed"
  /\ \A x \in findings[r].occ : row[x] = "posted"
  /\ ExistingSchedule(findings[r].occ) = none

Unused == {s \in Sched : schedules[s] = none /\ (\A k \in Keys : promotions[k] # s)}

PreviewPatternToNewSchedule(r) ==
  /\ approval = none
  /\ Creatable(r)
  /\ \E s \in Unused : approval' = [at |-> "record", key |-> findings[r].occ, id |-> s, accounts |-> TRUE]
  /\ UNCHANGED <<evidence, inference, schedules, promotions>>

RecordPatternToNewSchedule ==
  /\ approval # none /\ approval.at = "record"
  /\ promotions' = [promotions EXCEPT ![approval.key] = approval.id]
  /\ approval' = [approval EXCEPT !.at = "create"]
  /\ UNCHANGED <<evidence, inference, schedules>>

(* Validation needs the accounts the preview routed the schedule between.  *)
PersistFinanceSchedule ==
  /\ approval # none /\ approval.at = "create" /\ approval.accounts
  /\ schedules' = [schedules EXCEPT ![approval.id] = [key |-> approval.key, enabled |-> TRUE, revived |-> FALSE]]
  /\ approval' = none
  /\ UNCHANGED <<evidence, inference, promotions>>

(* The write fails; only this approval's own link is removed.              *)
PersistFails ==
  /\ approval # none /\ approval.at = "create"
  /\ faults < MaxFault
  /\ promotions' = [promotions EXCEPT ![approval.key] = IF @ = approval.id THEN none ELSE @]
  /\ approval' = none
  /\ faults' = faults + 1
  /\ UNCHANGED <<evidence, runs, issued, work, findings, feedback, screen, schedules>>

(* The server stops in the middle of an approval.                          *)
ApprovalLost ==
  /\ approval # none
  /\ faults < MaxFault
  /\ approval' = none
  /\ faults' = faults + 1
  /\ UNCHANGED <<evidence, runs, issued, work, findings, feedback, screen, schedules, promotions>>

DisableSchedule(s) ==
  /\ schedules[s] # none /\ schedules[s].enabled
  /\ schedules' = [schedules EXCEPT ![s].enabled = FALSE]
  /\ UNCHANGED <<evidence, inference, promotions, approval>>

EnableSchedule(s) ==
  /\ schedules[s] # none /\ ~schedules[s].enabled
  /\ schedules' = [schedules EXCEPT ![s].enabled = TRUE, ![s].revived = TRUE]
  /\ UNCHANGED <<evidence, inference, promotions, approval>>

DeleteSchedule(s) ==
  /\ schedules[s] # none
  /\ schedules' = [schedules EXCEPT ![s] = none]
  /\ UNCHANGED <<evidence, inference, promotions, approval>>

(* A clear removes schedules, links and accounts.                          *)
ClearSchedules ==
  /\ schedules' = [s \in Sched |-> none]
  /\ promotions' = [k \in Keys |-> none]
  /\ approval' = IF approval = none THEN none ELSE [approval EXCEPT !.accounts = FALSE]

PlanningInit ==
  /\ schedules = [s \in Sched |-> none]
  /\ promotions = [k \in Keys |-> none]
  /\ approval = none

-----------------------------------------------------------------------------
(* Properties.                                                             *)

Active(k) == {s \in Sched : schedules[s] # none /\ schedules[s].key = k /\ schedules[s].enabled}

(* However approvals fail, crash, are retried and race the owner's edits,  *)
(* a pattern has one active schedule, setting aside the ones the owner     *)
(* switched back on.                                                       *)
OneScheduleUntilRevived ==
  \A k \in Keys : Cardinality({s \in Active(k) : ~schedules[s].revived}) <= 1

(* "One active generated schedule belongs to one confirmed source pattern" *)
(* (docs/analyses.md).                                                     *)
OneActiveSchedule == \A k \in Keys : Cardinality(Active(k)) <= 1

PlanningTypeOK ==
  /\ promotions \in [Keys -> Sched \cup {none}]
  /\ schedules \in [Sched -> Schedule \cup {none}]
  /\ approval \in Approval \cup {none}
=============================================================================
