----------------------------- MODULE Categories -----------------------------
(***************************************************************************)
(* The category of each bank row: set by the owner, sent by the bank, or   *)
(* inferred by a background worker that lists uncategorized rows, runs the *)
(* classifier outside any transaction and stores its results one by one.   *)
(***************************************************************************)
EXTENDS Evidence

CONSTANT Limit     \* candidates of one pass (100 in the code)

Category == {"food", "travel", "rent"}
Assignment == [category : Category, source : {"user", "bank", "inferred"}]

ASSUME CategoriesAssumption == Limit \in Nat \ {0} /\ none \notin Assignment

VARIABLES
  cats,     \* transaction_categories
  results   \* the worker's pass: row -> category still to store, or none

categories == <<cats, results>>

Assigned(c, s) == [category |-> c, source |-> s]

-----------------------------------------------------------------------------
(* Assignments.                                                            *)

(* The bank's value with the facts: a supported one replaces what is not   *)
(* the owner's, an unsupported one removes the bank's own, none is silent. *)
SetBankTransactionCategory(r, f) ==
  LET c == cats[r]
      theirs == c # none /\ c.source = "user"
  IN cats' = [cats EXCEPT ![r] =
                CASE f.hint = "food" -> IF theirs THEN c ELSE Assigned("food", "bank")
                  [] f.hint = "odd"  -> IF c # none /\ c.source = "bank" THEN none ELSE c
                  [] OTHER           -> c]

SetUserTransactionCategory(r, c) ==
  /\ Present(r)
  /\ cats' = [cats EXCEPT ![r] = Assigned(c, "user")]
  /\ UNCHANGED <<evidence, results>>

(* Clearing goes back to the bank's value, if the facts have one.          *)
ClearUserCategory(r) ==
  /\ Present(r)
  /\ cats' = [cats EXCEPT ![r] = IF facts[r].hint = "food" THEN Assigned("food", "bank") ELSE none]
  /\ UNCHANGED <<evidence, results>>

DropCategories(R) ==
  /\ cats' = [r \in Row |-> IF r \in R THEN none ELSE cats[r]]
  /\ UNCHANGED results

-----------------------------------------------------------------------------
(* The worker.                                                             *)

Uncategorized(r) == row[r] \in {"pending", "posted"} /\ cats[r] = none

(* The newest uncategorized rows that are not void.                        *)
Candidates ==
  LET open == {r \in Row : Uncategorized(r)}
  IN {r \in open : Cardinality({x \in open : x > r}) < Limit}

(* The classifier answers for the rows whose text it recognises.           *)
Classify(R) == [r \in {x \in R : facts[x].text # ""} |-> facts[r].text]

StartPass ==
  /\ results = none
  /\ Classify(Candidates) # <<>>
  /\ results' = Classify(Candidates)
  /\ UNCHANGED <<evidence, cats>>

(* Mutant: a bank value gives way to an inferred one.                      *)
GivesWayButUser(c) == c = none \/ c.source # "user"

(* Mutant: every assignment gives way to an inferred one.                  *)
GivesWayAlways(c) == TRUE

GivesWay(c) == c = none \/ c.source = "inferred"

Rest(f, r) == LET R == DOMAIN f \ {r} IN IF R = {} THEN none ELSE [x \in R |-> f[x]]

(* One result is stored; a row that is gone is skipped.                    *)
SetInferredTransactionCategory(r) ==
  /\ results # none /\ r \in DOMAIN results
  /\ cats' = IF Present(r) /\ GivesWay(cats[r])
             THEN [cats EXCEPT ![r] = Assigned(results[r], "inferred")] ELSE cats
  /\ results' = Rest(results, r)
  /\ UNCHANGED evidence

(* A failed write, or a stop of the server, ends the pass.                 *)
PassEnds ==
  /\ results # none
  /\ results' = none
  /\ UNCHANGED <<evidence, cats>>

(* Rows that were posted before have the bank's value.                     *)
CategoriesInit ==
  /\ cats = [r \in Row |-> IF facts[r] # none /\ facts[r].hint = "food" THEN Assigned("food", "bank") ELSE none]
  /\ results = none

-----------------------------------------------------------------------------
(* Properties.                                                             *)

(* A supported value in the bank's latest facts shows unless the owner set *)
(* another, and an assignment marked as the bank's is not one the bank has *)
(* since replaced: results that a pass computed before the bank's value    *)
(* arrived never cover it.                                                 *)
BankValueShows ==
  \A r \in Row : facts[r] # none =>
    /\ facts[r].hint = "food" =>
         cats[r] # none /\ (cats[r].source = "user" \/ cats[r] = Assigned("food", "bank"))
    /\ facts[r].hint = "odd" => cats[r] = none \/ cats[r].source # "bank"

(* What the owner set is not changed by a sync or by the worker, whatever  *)
(* they read before.                                                       *)
OwnerChoiceStays ==
  [][\A r \in Row : cats[r] # none /\ cats[r].source = "user" /\ (evidence' # evidence \/ results' # results)
       => \/ cats'[r] = cats[r]
          \/ row'[r] = "gone"]_<<evidence, categories>>

(* A row whose text the classifier recognises and that no one categorized. *)
Waits(r) == Uncategorized(r) /\ facts[r].text # ""

(* Newer rows that no pass ever categorizes fill every pass.               *)
Starved(r) == Cardinality({x \in Row : x > r /\ Uncategorized(x) /\ ~Waits(x)}) >= Limit

(* From some time on no row that stays loses its category.                 *)
NoMoreClears ==
  <>[][\A r \in Row : cats[r] # none /\ row'[r] # "gone" => cats'[r] # none]_<<evidence, categories>>

(* Unless the owner keeps clearing categories, a row that waits gets one   *)
(* in the end, or is voided or deleted, or it is starved: unrecognised     *)
(* rows stay uncategorized and a pass lists the newest.                    *)
RecognizedGetsCategory ==
  NoMoreClears => \A r \in Row : Waits(r) ~> (~Waits(r) \/ Starved(r))

CategoriesTypeOK ==
  /\ cats \in [Row -> Assignment \cup {none}]
  /\ \A r \in Row : cats[r] # none => Present(r)
  /\ results # none => DOMAIN results \subseteq Row /\ results \in [DOMAIN results -> Category]
=============================================================================
