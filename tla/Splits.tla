------------------------------- MODULE Splits -------------------------------
(***************************************************************************)
(* Splits of one shared transaction and the settlements recorded against   *)
(* them.  A split is a row of immutable versions; creating, revising and   *)
(* accepting one carries a request key that is looked up before the write  *)
(* and recorded in it, and a revision reads the split before the           *)
(* transaction that appends to it.  Settlements are one transaction each.  *)
(***************************************************************************)
EXTENDS Integers, Sequences, FiniteSets, FiniteSetsExt

CONSTANTS
  User, srcOwner,    \* srcOwner owns the shared transaction
  Split, Key, Handler,
  Scopes,            \* what a behaviour is about, see Scope
  Payment,           \* transactions a settlement can name
  Total,             \* totals of a proposal
  Paid,              \* amounts of a settlement
  none

(* A behaviour stays within one scope: how many calls are in progress at   *)
(* once, the splits that were proposed earlier, under keys nobody retries, *)
(* the ids of new ones, the keys and override amounts in use, how many     *)
(* versions a split gets and how many settlements are recorded, and        *)
(* whether access to the source changes.                                   *)
Scope == [calls : 1..Cardinality(Handler), old : SUBSET Split, fresh : SUBSET Split,
          keys : SUBSET Key, override : SUBSET Nat, versions : Nat, settled : Nat,
          access : BOOLEAN]

(* A share for each of some users, and what a key records.                 *)
Shares    == UNION {[P -> Nat] : P \in (SUBSET User) \ {{}}}
Operation == {"create", "update", "accept"}
KeyRecord == [op : Operation, split : Split, version : Nat \ {0}, shares : Shares]

ASSUME SplitsAssumption ==
  /\ IsFiniteSet(User) /\ srcOwner \in User
  /\ Scopes \subseteq Scope
  /\ Total \subseteq Nat /\ Paid \subseteq Nat \ {0}
  /\ none \notin Payment \cup Nat \cup Split \cup KeyRecord

VARIABLES
  scope,     \* the scope of this behaviour
  access,    \* users who may read the shared transaction
  versions,  \* splits, split_allocations: the versions of each split
  born,      \* split ids that were ever issued
  keys,      \* sharing_requests: the outcome under each user's key
  ledger,    \* split_settlements
  issued,    \* settlement ids that were ever issued
  skeys,     \* split_settlement_requests
  pc, req,   \* calls in progress
  told,      \* history: successful answers
  commits,   \* history: writes committed under a key since it was cleared
  reset      \* history: users whose keys were cleared

social == <<versions, born, keys, told, commits>>
money  == <<ledger, issued, skeys>>
calls  == <<pc, req>>
vars   == <<scope, access, social, money, calls, reset>>

Sum(f) == MapThenSumSet(LAMBDA x : f[x], DOMAIN f)

Live(s)    == versions[s] # <<>>
Current(s) == versions[s][Len(versions[s])]

-----------------------------------------------------------------------------
(* Shares.                                                                 *)

(* An equal share each, the remainder to the initiator.                    *)
EqualShares(total, init, P) ==
  [u \in P |-> (total \div Cardinality(P))
               + (IF u = init THEN total % Cardinality(P) ELSE 0)]

(* What a proposal can come to: equal shares, or amounts for everyone that *)
(* sum to the total.                                                       *)
AllocateSplit(init) ==
  {a \in UNION {[total : {t}, shares : {EqualShares(t, init, P)} \cup [P -> scope.override]] :
                  t \in Total, P \in {Q \in SUBSET User : init \in Q}} :
     a.shares = EqualShares(a.total, init, DOMAIN a.shares) \/ Sum(a.shares) = a.total}

(* A call that proposes shares, for a new split or a new version.          *)
Proposal(op, u, k, s, e, a) ==
  [op |-> op, who |-> u, key |-> k, split |-> s, expect |-> e,
   total |-> a.total, shares |-> a.shares]

-----------------------------------------------------------------------------
(* Request keys.                                                           *)

Recorded(r) == keys[r.who][r.key] # none

(* The version a call asked for, and what it was answered.                 *)
Asked(r) == IF r.op = "accept" THEN r.expect ELSE r.expect + 1

Answer(r, s, shares) ==
  [who |-> r.who, op |-> r.op, split |-> s, version |-> Asked(r), shares |-> shares]

(* A key answers again only for the operation it completed.                *)
SameRequest(r, rec) ==
  /\ rec.op = r.op
  /\ r.op # "create" =>
       /\ Live(r.split) /\ rec.split = r.split
       /\ rec.version = Asked(r)

Replay(r) ==
  LET rec == keys[r.who][r.key]
  IN told' = told \cup (IF SameRequest(r, rec)
                        THEN {Answer(r, rec.split, rec.shares)} ELSE {})

(* Mutant: the key is overwritten when it is already there.                *)
KeyFreeAlways(r) == TRUE

(* recordSharingRequest inserts: an existing key fails the transaction.    *)
KeyFree(r) == ~Recorded(r)

Commits(r, s, v, shares) ==
  /\ keys' = [keys EXCEPT ![r.who][r.key] =
                [op |-> r.op, split |-> s, version |-> v, shares |-> shares]]
  /\ commits' = [commits EXCEPT ![r.who][r.key] = @ + 1]
  /\ told' = told \cup {Answer(r, s, shares)}

-----------------------------------------------------------------------------
(* Calls.                                                                  *)

Idle(h) == pc' = [pc EXCEPT ![h] = "idle"] /\ req' = [req EXCEPT ![h] = none]

(* A call looks its key up first.                                          *)
Begin(h, r) ==
  /\ pc[h] = "idle"
  /\ Cardinality({g \in Handler : pc[g] # "idle"}) < scope.calls
  /\ \/ /\ Recorded(r) /\ Replay(r) /\ UNCHANGED calls
     \/ /\ ~Recorded(r)
        /\ pc' = [pc EXCEPT ![h] = IF r.op = "accept" THEN "commit" ELSE "authorize"]
        /\ req' = [req EXCEPT ![h] = r]
        /\ UNCHANGED told
  /\ UNCHANGED <<access, versions, born, keys, commits, money, reset>>

(* Every participant needs access; a revision is the initiator's, of the   *)
(* version that is current.                                                *)
MayPropose(r) ==
  /\ DOMAIN r.shares \subseteq access
  /\ r.op = "update" => /\ Live(r.split) /\ Len(versions[r.split]) = r.expect
                        /\ Current(r.split).init = r.who

Authorize(h) ==
  /\ pc[h] = "authorize"
  /\ IF MayPropose(req[h]) THEN pc' = [pc EXCEPT ![h] = "commit"] /\ UNCHANGED req
     ELSE Idle(h)
  /\ UNCHANGED <<access, social, money, reset>>

Version(r, from) ==
  [init |-> r.who, total |-> r.total, shares |-> r.shares, accepted |-> {},
   status |-> "proposed", from |-> from]

CreateSplit(h) ==
  LET r == req[h]
  IN /\ pc[h] = "commit" /\ r.op = "create"
     /\ \/ \E s \in scope.fresh \ born :
             /\ KeyFree(r)
             /\ versions' = [versions EXCEPT ![s] = <<Version(r, 0)>>]
             /\ born' = born \cup {s}
             /\ Commits(r, s, 1, r.shares)
        \/ Recorded(r) /\ Replay(r) /\ UNCHANGED <<versions, born, keys, commits>>
     /\ Idle(h)
     /\ UNCHANGED <<access, money, reset>>

(* Mutant: the revision goes behind whatever is latest.                    *)
AppendsToLatest(r) == Live(r.split)

(* The check of the version inside the transaction.                        *)
StillExpected(r) == Live(r.split) /\ Len(versions[r.split]) = r.expect

UpdateSplit(h) ==
  LET r == req[h]
      v == Len(versions[r.split]) + 1
  IN /\ pc[h] = "commit" /\ r.op = "update"
     /\ \/ /\ StillExpected(r) /\ KeyFree(r)
           /\ versions' = [versions EXCEPT ![r.split] = Append(@, Version(r, r.expect))]
           /\ Commits(r, r.split, v, r.shares)
        \/ /\ StillExpected(r) /\ Recorded(r) /\ Replay(r)
           /\ UNCHANGED <<versions, keys, commits>>
        \/ ~StillExpected(r) /\ UNCHANGED <<versions, keys, told, commits>>
     /\ Idle(h)
     /\ UNCHANGED <<access, born, money, reset>>

StatusOf(cur, accepted) == IF accepted = DOMAIN cur.shares THEN "accepted" ELSE cur.status

(* Only a participant accepts, only the version that was named.            *)
MayAccept(r) == StillExpected(r) /\ r.who \in DOMAIN Current(r.split).shares

AcceptSplit(h) ==
  LET r   == req[h]
      v   == Len(versions[r.split])
      cur == Current(r.split)
      all == cur.accepted \cup {r.who}
  IN /\ pc[h] = "commit" /\ r.op = "accept"
     /\ \/ /\ MayAccept(r) /\ KeyFree(r)
           /\ versions' = [versions EXCEPT ![r.split][v] =
                [cur EXCEPT !.accepted = all, !.status = StatusOf(cur, all)]]
           /\ Commits(r, r.split, r.expect, cur.shares)
        \/ MayAccept(r) /\ Recorded(r) /\ Replay(r) /\ UNCHANGED <<versions, keys, commits>>
        \/ ~MayAccept(r) /\ UNCHANGED <<versions, keys, told, commits>>
     /\ Idle(h)
     /\ UNCHANGED <<access, born, money, reset>>

-----------------------------------------------------------------------------
(* Settlements.                                                            *)

(* Mutant: the link is unique for each split only.                         *)
LinkFreeInSplit(in) == in.link = none \/ \A x \in ledger : x.split = in.split => x.link # in.link

(* split_settlements_link: a payment backs one settlement of any split.    *)
LinkFree(in) == in.link = none \/ \A x \in ledger : x.link # in.link

Settlement(actor, key, in) ==
  [id |-> issued + 1, actor |-> actor, key |-> key,
   split |-> in.split, who |-> in.who, amount |-> in.amount, link |-> in.link]

(* One transaction.  A recorded key replays or conflicts and writes        *)
(* nothing; the split need not exist and anyone may record.                *)
RecordSettlement(actor, key, in) ==
  /\ skeys[actor][key] = none
  /\ LinkFree(in) /\ issued < scope.settled
  /\ issued' = issued + 1
  /\ ledger' = ledger \cup {Settlement(actor, key, in)}
  /\ skeys' = [skeys EXCEPT ![actor][key] = issued + 1]
  /\ UNCHANGED <<access, social, calls, reset>>

-----------------------------------------------------------------------------
(* The rest of the store.                                                  *)

(* Grants, policies and memberships, or the transaction's deletion.        *)
ChangeAccess(u) ==
  /\ scope.access
  /\ access' = IF u \in access THEN access \ {u} ELSE access \cup {u}
  /\ UNCHANGED <<social, money, calls, reset>>

Touches(s, u) ==
  Live(s) /\ (u \in {srcOwner, Current(s).init}
              \/ \E v \in DOMAIN versions[s] : u \in DOMAIN versions[s][v].shares)

LedgerLeft(u, left) == {x \in ledger : x.split \in left}

(* Clear or model import: splits that touch the user go whole, settlements *)
(* go with their split, and so do the user's own keys.                     *)
ClearModel(u) ==
  LET left == {s \in Split : Live(s) /\ ~Touches(s, u)}
      ids  == {x.id : x \in LedgerLeft(u, left)}
  IN /\ versions' = [s \in Split |-> IF s \in left THEN versions[s] ELSE <<>>]
     /\ ledger' = LedgerLeft(u, left)
     /\ skeys' = [w \in User |-> [k \in Key |->
                    IF w = u \/ skeys[w][k] \notin ids THEN none ELSE skeys[w][k]]]
     /\ keys' = [keys EXCEPT ![u] = [k \in Key |-> none]]
     /\ commits' = [commits EXCEPT ![u] = [k \in Key |-> 0]]
     /\ reset' = reset \cup {u}
     /\ told' = {a \in told : a.split \in left}
     /\ UNCHANGED <<access, born, issued, calls>>

(* The server restarts: calls end, committed rows stay.                    *)
Restart ==
  /\ pc' = [h \in Handler |-> "idle"] /\ req' = [h \in Handler |-> none]
  /\ UNCHANGED <<access, social, money, reset>>

-----------------------------------------------------------------------------
Init ==
  /\ scope \in Scopes
  /\ access \in {A \in SUBSET User : srcOwner \in A}
  /\ born = scope.old
  /\ versions \in [Split -> {<<>>} \cup {<<Version(Proposal("create", srcOwner, none, none, 0, a), 0)>> :
                                            a \in AllocateSplit(srcOwner)}]
  /\ \A s \in Split : Live(s) <=> s \in born
  /\ keys = [u \in User |-> [k \in Key |-> none]]
  /\ ledger = {} /\ issued = 0
  /\ skeys = [u \in User |-> [k \in Key |-> none]]
  /\ pc = [h \in Handler |-> "idle"] /\ req = [h \in Handler |-> none]
  /\ told = {} /\ reset = {}
  /\ commits = [u \in User |-> [k \in Key |-> 0]]

Requests(u, k) ==
  {Proposal("create", u, k, none, 0, a) : a \in AllocateSplit(u)}
  \cup {Proposal("update", u, k, s, e, a) :
          s \in born, e \in 1..(scope.versions - 1), a \in AllocateSplit(u)}
  \cup {[op |-> "accept", who |-> u, key |-> k, split |-> s, expect |-> e] :
          s \in born, e \in 1..scope.versions}

SettlementInputs ==
  [split : born, who : User, amount : Paid, link : Payment \cup {none}]

Step ==
  \/ \E h \in Handler :
       \/ \E u \in User, k \in scope.keys : \E r \in Requests(u, k) : Begin(h, r)
       \/ Authorize(h) \/ CreateSplit(h) \/ UpdateSplit(h) \/ AcceptSplit(h)
  \/ \E u \in User, k \in scope.keys : \E in \in SettlementInputs : RecordSettlement(u, k, in)
  \/ \E u \in User : ChangeAccess(u) \/ ClearModel(u)
  \/ Restart

Next == Step /\ UNCHANGED scope

Spec == Init /\ [][Next]_vars

-----------------------------------------------------------------------------
(* Types.                                                                  *)
VersionType == [init : User, total : Nat, shares : Shares, accepted : SUBSET User,
                status : {"proposed", "accepted"}, from : Nat]

Creation   == [op : {"create"}, who : User, key : Key, split : {none}, expect : {0},
               total : Nat, shares : Shares]
Revision   == [op : {"update"}, who : User, key : Key, split : Split, expect : Nat \ {0},
               total : Nat, shares : Shares]
Acceptance == [op : {"accept"}, who : User, key : Key, split : Split, expect : Nat \ {0}]

SettlementType == [id : Nat \ {0}, actor : User, key : Key, split : Split, who : User,
                   amount : Paid, link : Payment \cup {none}]

AnswerType == [who : User, op : Operation, split : Split, version : Nat \ {0},
               shares : Shares]

(* A call in progress carries its request: an acceptance is not authorized *)
(* apart.  A settlement key names a settlement that still exists.          *)
TypeOK ==
  /\ scope \in Scopes
  /\ access \subseteq User /\ reset \subseteq User
  /\ versions \in [Split -> Seq(VersionType)]
  /\ born \subseteq Split /\ \A s \in Split : Live(s) => s \in born
  /\ keys \in [User -> [Key -> KeyRecord \cup {none}]]
  /\ commits \in [User -> [Key -> Nat]]
  /\ told \subseteq AnswerType
  /\ issued \in Nat
  /\ ledger \subseteq SettlementType /\ \A x \in ledger : x.id <= issued
  /\ skeys \in [User -> [Key -> {x.id : x \in ledger} \cup {none}]]
  /\ pc \in [Handler -> {"idle", "authorize", "commit"}]
  /\ req \in [Handler -> Creation \cup Revision \cup Acceptance \cup {none}]
  /\ \A h \in Handler :
       /\ pc[h] = "authorize" => req[h] \in Creation \cup Revision
       /\ pc[h] = "commit" => req[h] \in Creation \cup Revision \cup Acceptance

(* docs/authorization.md: stale expected versions never fork history.      *)
(* However calls of several devices interleave, each version replaces the  *)
(* very version its author had read.                                       *)
RevisionFollowsRead ==
  \A s \in Split : \A v \in DOMAIN versions[s] :
    versions[s][v].from = v - 1

(* The shares of every version, equal or not, sum to its total.            *)
SharesSum ==
  \A s \in Split : \A v \in DOMAIN versions[s] :
    Sum(versions[s][v].shares) = versions[s][v].total

(* A version is accepted exactly when everyone it binds has accepted it.   *)
AcceptedByAll ==
  \A s \in Split : \A v \in DOMAIN versions[s] :
    versions[s][v].status = "accepted" <=>
      versions[s][v].accepted = DOMAIN versions[s][v].shares

(* What a call was told stays true while the split exists: the version it  *)
(* was given has the shares it was shown, and an accept, first answered or *)
(* replayed, is on record at the version the caller named.                 *)
AnswersKept ==
  \A a \in told : Live(a.split) =>
    /\ a.version <= Len(versions[a.split])
    /\ versions[a.split][a.version].shares = a.shares
    /\ a.op = "accept" => a.who \in versions[a.split][a.version].accepted

(* One key, one write: two calls with the same key, both past the lookup,  *)
(* never both commit.                                                      *)
KeyCommitsOnce == \A u \in User, k \in Key : commits[u][k] <= 1

(* The versions of a split are one history: each replaces the version its  *)
(* author had read, binds its participants to the whole total, and is      *)
(* accepted when all of them accepted it.                                  *)
VersionsSound == RevisionFollowsRead /\ SharesSum /\ AcceptedByAll

(* Retries are safe: a key commits one write, and what its calls were told *)
(* stays true.                                                             *)
RetriesSafe == KeyCommitsOnce /\ AnswersKept

(* Nothing is counted twice: no payment backs two settlements, and no key  *)
(* recorded two, unless its user cleared the model in between.             *)
CountedOnce ==
  \A x, y \in ledger : x # y =>
    /\ x.link # none => x.link # y.link
    /\ <<x.actor, x.key>> = <<y.actor, y.key>> => x.actor \in reset

(* The history of a split and the settlements over it, across calls that   *)
(* race, retry and stop half way.                                          *)
HistorySound == VersionsSound /\ CountedOnce
=============================================================================
