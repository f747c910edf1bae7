------------------------------ MODULE Evidence ------------------------------
(***************************************************************************)
(* The bank evidence of one user that the background workers read: bank    *)
(* transactions, the source facts saved beside them, and the input         *)
(* revision that database triggers advance on every change of a fact or of *)
(* a row's pending, void or enabled flag.                                  *)
(***************************************************************************)
EXTENDS Naturals, FiniteSets, FiniteSetsExt

CONSTANTS
  Row,        \* bank transactions, newest last
  Fact,       \* what the bank says of one: records, see FactType
  MaxRevision, \* bound on the input revision
  none

(* A fact is told apart by three things: whether the recurring detector    *)
(* takes it into the pattern, the category the bank sends ("" for none,    *)
(* "odd" for one the server does not support) and the category the keyword *)
(* classifier reads in its text ("" for none).                             *)
FactType == [regular : BOOLEAN, hint : {"", "odd", "food"}, text : {"", "food", "travel"}]

ASSUME EvidenceAssumption ==
  /\ Row \subseteq Nat /\ IsFiniteSet(Row)
  /\ Fact \subseteq FactType
  /\ MaxRevision \in Nat
  /\ none \notin Row /\ none \notin Fact

VARIABLES
  row,       \* transactions: "new" before the bank reports it, "gone" once deleted
  facts,     \* transaction_source_facts
  revision   \* analysis_inputs

evidence == <<row, facts, revision>>

Listed == {"pending", "posted", "void"}

(* What a run of the analysis reads of the rows.                           *)
Snapshots == UNION {[R -> [row : Listed, fact : Fact]] : R \in SUBSET Row}

Present(r) == row[r] \in Listed

-----------------------------------------------------------------------------
(* The triggers.                                                           *)

(* Mutant: the trigger on the row's flags is missing.                      *)
FactChangesOnly(factChanges, flagChanges) == factChanges

(* One bump for each inserted, updated or deleted fact, one for a change   *)
(* of the flags of a row that has facts (a write that changes two flags    *)
(* bumps twice, which nothing tells from once).                            *)
Bumps(factChanges, flagChanges) == factChanges + flagChanges

One(b) == IF b THEN 1 ELSE 0

Bump(factChanges, flagChanges) ==
  /\ revision' = revision + Bumps(factChanges, flagChanges)
  /\ revision' <= MaxRevision

-----------------------------------------------------------------------------
(* Writes.                                                                 *)

(* A sync delivers a charge: a new row, or an update of one it has, whose  *)
(* flags become the feed's again: a voided row comes back, and a row that  *)
(* the owner settled is pending while the bank still reports the hold.     *)
(* Equal facts are not written again.                                      *)
ObserveBankTransaction(r, f, s) ==
  /\ row[r] # "gone"
  /\ row' = [row EXCEPT ![r] = s]
  /\ facts' = [facts EXCEPT ![r] = f]
  /\ Bump(One(facts[r] # f), One(Present(r) /\ row[r] # s))

(* A hold that left the feed is voided.                                    *)
VoidRow(r) ==
  /\ row[r] = "pending"
  /\ row' = [row EXCEPT ![r] = "void"]
  /\ Bump(0, 1)
  /\ UNCHANGED facts

(* The owner settles a hold, restores a voided row, or turns the row on or *)
(* off in the simulation, which the analysis does not read.                *)
UpdateRow(r) ==
  /\ Present(r)
  /\ row' \in {row, [row EXCEPT ![r] = "posted"]}
  /\ Bump(0, 1)
  /\ UNCHANGED facts

(* The owner deletes a row; its facts go with it.                          *)
DeleteRow(r) ==
  /\ Present(r)
  /\ row' = [row EXCEPT ![r] = "gone"]
  /\ facts' = [facts EXCEPT ![r] = none]
  /\ Bump(1, 0)

(* The owner clears the model.  The revision stays.                        *)
ClearRows ==
  /\ \E r \in Row : Present(r)
  /\ row' = [r \in Row |-> IF Present(r) THEN "gone" ELSE row[r]]
  /\ facts' = [r \in Row |-> none]
  /\ Bump(Cardinality({r \in Row : facts[r] # none}), 0)

(* loadAnalysisSnapshot: every row that has facts, with its flags.         *)
LoadAnalysisSnapshot == [r \in {x \in Row : facts[x] # none} |-> [row |-> row[r], fact |-> facts[r]]]

(* Some rows were posted before, one revision each.                        *)
EvidenceInit(posted, f) ==
  /\ row = [r \in Row |-> IF r \in posted THEN "posted" ELSE "new"]
  /\ facts = [r \in Row |-> IF r \in posted THEN f ELSE none]
  /\ revision = Cardinality(posted)

EvidenceTypeOK ==
  /\ row \in [Row -> Listed \cup {"new", "gone"}]
  /\ facts \in [Row -> Fact \cup {none}]
  /\ \A r \in Row : Present(r) <=> facts[r] # none
  /\ revision \in Nat
=============================================================================
