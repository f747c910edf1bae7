----------------------------- MODULE MCShareInbox -----------------------------
(* Instances of ShareInbox; handlers are interchangeable.                  *)
EXTENDS ShareInbox, TLC

Handlers == Permutations(Handler)

Base == [audience |-> {"user"}, automatic |-> FALSE, lists |-> FALSE,
         revs |-> 1, time |-> 1, crashes |-> 0, errors |-> 0]

(* A direct grant and revisions; a group grant and a policy; a group grant, *)
(* lists and the clock; two audiences and lists; a restart; a failed call   *)
(* or two.                                                                 *)
EachHazard ==
  {[Base EXCEPT !.revs = 2],
   [Base EXCEPT !.audience = {"group"}, !.automatic = TRUE],
   [Base EXCEPT !.audience = {"group"}, !.lists = TRUE, !.time = 2],
   [Base EXCEPT !.audience = {"user", "all"}, !.lists = TRUE],
   [Base EXCEPT !.crashes = 1],
   [Base EXCEPT !.errors = 2]}

DirectOverTime == {[Base EXCEPT !.lists = TRUE, !.time = 2]}
=============================================================================
