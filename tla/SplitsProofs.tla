----------------------------- MODULE SplitsProofs -----------------------------
(***************************************************************************)
(* Proofs about Splits, for every finite number of users and any number of *)
(* splits, keys, calls, versions and settlements.                          *)
(***************************************************************************)
EXTENDS Splits, FiniteSetTheorems, SequenceTheorems, WellFoundedInduction, TLAPS

-----------------------------------------------------------------------------
(* The inductive invariant.                                                *)

(* A split id is issued once, so what a key or an answer says of a split   *)
(* that is gone never speaks of another one.                               *)
BornOnce ==
  /\ \A u \in User, k \in Key : keys[u][k] # none => keys[u][k].split \in born
  /\ \A a \in told : a.split \in born

(* What a key records about a split that exists is still so.               *)
KeyHolds(u, rec) ==
  /\ rec.op = "create" => rec.version = 1
  /\ Live(rec.split) =>
       /\ rec.version <= Len(versions[rec.split])
       /\ versions[rec.split][rec.version].shares = rec.shares
       /\ rec.op = "accept" => u \in versions[rec.split][rec.version].accepted

KeysHold == \A u \in User, k \in Key : keys[u][k] # none => KeyHolds(u, keys[u][k])

(* A key is recorded in the transaction of the one write it stands for.    *)
KeyCounted == \A u \in User, k \in Key : commits[u][k] = IF keys[u][k] = none THEN 0 ELSE 1

(* The settlement under a key that was never cleared.                      *)
LedgerKeyed == \A x \in ledger : x.actor \notin reset => skeys[x.actor][x.key] = x.id

IndInv ==
  /\ TypeOK /\ BornOnce /\ KeysHold /\ KeyCounted /\ AnswersKept
  /\ RevisionFollowsRead /\ AcceptedByAll
  /\ LedgerKeyed /\ CountedOnce

-----------------------------------------------------------------------------
(* What the calls carry.                                                   *)

Request == Creation \cup Revision \cup Acceptance

LEMMA EqualSharesType ==
  ASSUME NEW t \in Nat, NEW u \in User, NEW P \in SUBSET User, u \in P
  PROVE  EqualShares(t, u, P) \in [P -> Nat]
<1>1. IsFiniteSet(P)
  BY SplitsAssumption, FS_Subset
<1>2. Cardinality(P) \in Nat /\ Cardinality(P) # 0
  BY <1>1, FS_CardinalityType, FS_EmptySet
<1> DEFINE n == Cardinality(P)
<1> HIDE DEF n
<1>3. t \div n \in Nat /\ t % n \in Nat
  BY <1>2 DEF n
<1> QED BY <1>3 DEF EqualShares, n

LEMMA AllocationType ==
  ASSUME scope \in Scopes, NEW u \in User, NEW a \in AllocateSplit(u)
  PROVE  a.total \in Nat /\ a.shares \in Shares
<1>1. PICK t \in Total, P \in {Q \in SUBSET User : u \in Q} :
        a \in [total : {t}, shares : {EqualShares(t, u, P)} \cup [P -> scope.override]]
  <2> DEFINE alloc(t, P) ==
               [total : {t}, shares : {EqualShares(t, u, P)} \cup [P -> scope.override]]
  <2>1. a \in UNION {alloc(t, P) : t \in Total, P \in {Q \in SUBSET User : u \in Q}}
    BY DEF AllocateSplit
  <2> HIDE DEF alloc
  <2>2. \E t \in Total, P \in {Q \in SUBSET User : u \in Q} : a \in alloc(t, P)
    BY <2>1
  <2> QED BY <2>2 DEF alloc
<1>2. t \in Nat /\ scope.override \subseteq Nat
  BY SplitsAssumption DEF Scope
<1>3. a.total = t /\ (a.shares = EqualShares(t, u, P) \/ a.shares \in [P -> scope.override])
  BY <1>1
<1>4. EqualShares(t, u, P) \in [P -> Nat]
  BY <1>2, EqualSharesType
<1>5. a.shares \in [P -> Nat]
  BY <1>2, <1>3, <1>4
<1>6. P \in (SUBSET User) \ {{}}
  OBVIOUS
<1> QED BY <1>2, <1>3, <1>5, <1>6 DEF Shares

LEMMA RequestTyped ==
  ASSUME TypeOK, NEW u \in User, NEW k \in Key, NEW r \in Requests(u, k)
  PROVE  r \in Request /\ r.who = u /\ r.key = k
<1>1. CASE r \in {Proposal("create", u, k, none, 0, a) : a \in AllocateSplit(u)}
  <2>1. PICK a \in AllocateSplit(u) : r = Proposal("create", u, k, none, 0, a)
    BY <1>1
  <2>2. a.total \in Nat /\ a.shares \in Shares
    BY AllocationType DEF TypeOK
  <2> QED BY <2>1, <2>2 DEF Proposal, Creation, Request
<1>2. CASE r \in {Proposal("update", u, k, s, e, a) :
                    s \in born, e \in 1..(scope.versions - 1), a \in AllocateSplit(u)}
  <2>1. PICK s \in born, e \in 1..(scope.versions - 1), a \in AllocateSplit(u) :
          r = Proposal("update", u, k, s, e, a)
    BY <1>2
  <2>2. a.total \in Nat /\ a.shares \in Shares
    BY AllocationType DEF TypeOK
  <2>3. s \in Split /\ e \in Nat \ {0}
    BY DEF TypeOK
  <2> QED BY <2>1, <2>2, <2>3 DEF Proposal, Revision, Request
<1>3. CASE r \in {[op |-> "accept", who |-> u, key |-> k, split |-> s, expect |-> e] :
                    s \in born, e \in 1..scope.versions}
  <2>1. PICK s \in born, e \in 1..scope.versions :
          r = [op |-> "accept", who |-> u, key |-> k, split |-> s, expect |-> e]
    BY <1>3
  <2>2. s \in Split /\ e \in Nat \ {0}
    BY DEF TypeOK
  <2> QED BY <2>1, <2>2 DEF Acceptance, Request
<1> QED BY <1>1, <1>2, <1>3 DEF Requests

LEMMA RequestFields ==
  ASSUME NEW r \in Request
  PROVE  /\ r.who \in User /\ r.key \in Key /\ r.op \in Operation
         /\ Asked(r) \in Nat \ {0}
         /\ r.op # "create" => r.split \in Split /\ r.expect \in Nat \ {0}
         /\ r.op = "create" => r.expect = 0
         /\ r.op # "accept" => r \in Creation \cup Revision
BY DEF Request, Creation, Revision, Acceptance, Operation, Asked

LEMMA VersionTyped ==
  ASSUME NEW r \in Creation \cup Revision, NEW from \in Nat
  PROVE  /\ Version(r, from) \in VersionType
         /\ Version(r, from).shares = r.shares /\ r.shares \in Shares
         /\ Version(r, from).from = from
         /\ Version(r, from).accepted = {} /\ Version(r, from).status = "proposed"
         /\ Version(r, from).total = r.total
BY DEF Version, VersionType, Creation, Revision

LEMMA AnswerTyped ==
  ASSUME NEW r \in Request, NEW s \in Split, NEW a \in Shares
  PROVE  Answer(r, s, a) \in AnswerType
<1>1. r.who \in User /\ r.op \in Operation /\ Asked(r) \in Nat \ {0}
  BY RequestFields
<1> QED BY <1>1 DEF Answer, AnswerType

LEMMA LiveVersion ==
  ASSUME TypeOK, NEW s \in Split, Live(s)
  PROVE  /\ Len(versions[s]) \in Nat \ {0} /\ Current(s) \in VersionType
         /\ versions[s] \in Seq(VersionType) /\ s \in born
BY DEF TypeOK, Live, Current

LEMMA AcceptedVersion ==
  ASSUME NEW v \in VersionType, NEW u \in User
  PROVE  [v EXCEPT !.accepted = @ \cup {u}, !.status = StatusOf(v, v.accepted \cup {u})]
           \in VersionType
<1> DEFINE w == [v EXCEPT !.accepted = @ \cup {u}]
<1>1. w \in VersionType
  BY DEF VersionType
<1>2. StatusOf(v, v.accepted \cup {u}) \in {"proposed", "accepted"}
  BY DEF StatusOf, VersionType
<1> HIDE DEF w
<1>3. [w EXCEPT !.status = StatusOf(v, v.accepted \cup {u})] \in VersionType
  BY <1>1, <1>2 DEF VersionType
<1> QED BY <1>3 DEF w

-----------------------------------------------------------------------------
(* Steps that leave the splits alone.                                      *)

(* The steps that only move calls, access or settlements.                  *)
LEMMA SocialKept ==
  ASSUME BornOnce, KeysHold, KeyCounted, AnswersKept, RevisionFollowsRead,
         AcceptedByAll, UNCHANGED social
  PROVE  BornOnce' /\ KeysHold' /\ KeyCounted' /\ AnswersKept'
         /\ RevisionFollowsRead' /\ AcceptedByAll'
<1> USE DEF social
<1>1. BornOnce' /\ KeyCounted'
  BY DEF BornOnce, KeyCounted
<1>2. KeysHold'
  BY DEF KeysHold, KeyHolds, Live
<1>3. AnswersKept' /\ RevisionFollowsRead' /\ AcceptedByAll'
  BY DEF AnswersKept, RevisionFollowsRead, AcceptedByAll, Live
<1> QED BY <1>1, <1>2, <1>3

LEMMA MoneyKept ==
  ASSUME LedgerKeyed, CountedOnce, UNCHANGED money, UNCHANGED reset
  PROVE  LedgerKeyed' /\ CountedOnce'
BY DEF LedgerKeyed, CountedOnce, money

(* A replay answers what the key recorded, which still holds.              *)
LEMMA ReplaySafe ==
  ASSUME TypeOK, BornOnce, KeysHold, AnswersKept, NEW r \in Request,
         Recorded(r), Replay(r), UNCHANGED <<versions, born, keys>>
  PROVE  told' \subseteq AnswerType /\ BornOnce' /\ AnswersKept'
<1> DEFINE rec == keys[r.who][r.key]
<1>1. rec \in KeyRecord /\ KeyHolds(r.who, rec) /\ rec.split \in born
  BY RequestFields DEF TypeOK, KeysHold, BornOnce, Recorded
<1>2. rec.split \in Split /\ rec.shares \in Shares
  BY <1>1 DEF KeyRecord
<1>3. ASSUME SameRequest(r, rec)
      PROVE  LET a == Answer(r, rec.split, rec.shares)
             IN Live(a.split) =>
                  /\ a.version <= Len(versions[a.split])
                  /\ versions[a.split][a.version].shares = a.shares
                  /\ a.op = "accept" => a.who \in versions[a.split][a.version].accepted
  <2>1. rec.op = r.op /\ rec.version = Asked(r)
    BY <1>1, <1>3, RequestFields DEF SameRequest, KeyHolds, Asked, Operation
  <2> QED BY <1>1, <2>1 DEF Answer, KeyHolds
<1>4. Answer(r, rec.split, rec.shares) \in AnswerType
  BY <1>2, AnswerTyped
<1>5. Answer(r, rec.split, rec.shares).split = rec.split
  BY DEF Answer
<1> HIDE DEF rec
<1>6. told' = told \cup (IF SameRequest(r, rec)
                         THEN {Answer(r, rec.split, rec.shares)} ELSE {})
  BY DEF Replay, rec
<1>7. told' \subseteq AnswerType
  BY <1>4, <1>6 DEF TypeOK
<1>8. BornOnce'
  BY <1>1, <1>5, <1>6 DEF BornOnce
<1>9. AnswersKept'
  <2> SUFFICES ASSUME NEW a \in told', Live(a.split)
               PROVE  /\ a.version <= Len(versions[a.split])
                      /\ versions[a.split][a.version].shares = a.shares
                      /\ a.op = "accept" => a.who \in versions[a.split][a.version].accepted
    BY DEF AnswersKept, Live
  <2>1. CASE a \in told
    BY <2>1 DEF AnswersKept
  <2>2. CASE SameRequest(r, rec) /\ a = Answer(r, rec.split, rec.shares)
    BY <1>3, <2>2
  <2> QED BY <1>6, <2>1, <2>2
<1> QED BY <1>7, <1>8, <1>9

-----------------------------------------------------------------------------
(* Writes under a key.                                                     *)

(* A write appends a version or an acceptance, and drops or adds whole     *)
(* splits: nothing that was ever answered is taken back.                   *)
Extends ==
  \A q \in born : Live(q)' =>
    /\ Live(q) /\ Len(versions[q]) <= Len(versions'[q])
    /\ \A i \in 1..Len(versions[q]) :
         /\ versions'[q][i].shares = versions[q][i].shares
         /\ versions[q][i].accepted \subseteq versions'[q][i].accepted

LEMMA AnswerExtends ==
  ASSUME TypeOK, Extends, AnswersKept, NEW a \in told, a.split \in born,
         Live(a.split)', Len(versions'[a.split]) \in Nat
  PROVE  /\ a.version <= Len(versions'[a.split])
         /\ versions'[a.split][a.version].shares = a.shares
         /\ a.op = "accept" => a.who \in versions'[a.split][a.version].accepted
<1>1. a.version \in Nat \ {0} /\ a.split \in Split
  BY DEF TypeOK, AnswerType
<1>2. /\ Live(a.split) /\ Len(versions[a.split]) <= Len(versions'[a.split])
      /\ \A i \in 1..Len(versions[a.split]) :
           /\ versions'[a.split][i].shares = versions[a.split][i].shares
           /\ versions[a.split][i].accepted \subseteq versions'[a.split][i].accepted
  BY DEF Extends
<1>3. Len(versions[a.split]) \in Nat
  BY <1>1 DEF TypeOK
<1>4. a.version \in 1..Len(versions[a.split])
  BY <1>1, <1>2, <1>3 DEF AnswersKept
<1> QED BY <1>1, <1>2, <1>3, <1>4 DEF AnswersKept

LEMMA WriteSafe ==
  ASSUME TypeOK, BornOnce, KeysHold, KeyCounted, AnswersKept, Extends,
         versions' \in [Split -> Seq(VersionType)], born \subseteq born',
         NEW r \in Request, NEW s \in Split, s \in born', NEW a \in Shares,
         KeyFree(r), Commits(r, s, Asked(r), a),
         Asked(r) <= Len(versions'[s]),
         versions'[s][Asked(r)].shares = a,
         r.op = "accept" => r.who \in versions'[s][Asked(r)].accepted
  PROVE  /\ keys' \in [User -> [Key -> KeyRecord \cup {none}]]
         /\ commits' \in [User -> [Key -> Nat]]
         /\ told' \subseteq AnswerType
         /\ BornOnce' /\ KeysHold' /\ KeyCounted' /\ AnswersKept'
<1> DEFINE new == [op |-> r.op, split |-> s, version |-> Asked(r), shares |-> a]
<1>1. /\ r.who \in User /\ r.key \in Key /\ r.op \in Operation
      /\ Asked(r) \in Nat \ {0} /\ (r.op = "create" => r.expect = 0)
  BY RequestFields
<1>2. new \in KeyRecord /\ new # none
  BY <1>1, SplitsAssumption DEF KeyRecord
<1>3. KeyHolds(r.who, new)'
  BY <1>1 DEF KeyHolds, Asked
<1>4. new.split = s
  OBVIOUS
<1>5. /\ keys' = [keys EXCEPT ![r.who][r.key] = new]
      /\ commits' = [commits EXCEPT ![r.who][r.key] = commits[r.who][r.key] + 1]
      /\ told' = told \cup {Answer(r, s, a)}
  BY <1>1 DEF Commits, TypeOK
<1> HIDE DEF new
<1>6. keys' \in [User -> [Key -> KeyRecord \cup {none}]]
  BY <1>1, <1>2, <1>5 DEF TypeOK
<1>7. commits[r.who][r.key] = 0
  BY <1>1 DEF KeyCounted, KeyFree, Recorded
<1>8. commits' \in [User -> [Key -> Nat]] /\ KeyCounted'
  <2>1. commits' = [commits EXCEPT ![r.who][r.key] = 1]
    BY <1>5, <1>7
  <2> QED BY <1>1, <1>2, <1>5, <2>1 DEF TypeOK, KeyCounted
<1>9. told' \subseteq AnswerType
  BY <1>5, AnswerTyped DEF TypeOK
<1>10. BornOnce'
  <2>1. Answer(r, s, a).split = s
    BY DEF Answer
  <2>2. \A u \in User, k \in Key : keys'[u][k] # none => keys'[u][k].split \in born'
    BY <1>1, <1>4, <1>5 DEF TypeOK, BornOnce
  <2>3. \A x \in told' : x.split \in born'
    BY <1>5, <2>1 DEF BornOnce
  <2> QED BY <2>2, <2>3 DEF BornOnce
<1>11. KeysHold'
  <2> SUFFICES ASSUME NEW u \in User, NEW k \in Key, keys'[u][k] # none
               PROVE  KeyHolds(u, keys[u][k])'
    BY DEF KeysHold
  <2>1. CASE u = r.who /\ k = r.key
    <3>1. keys'[u][k] = new
      BY <1>1, <1>5, <2>1 DEF TypeOK
    <3> QED BY <1>3, <2>1, <3>1 DEF KeyHolds, new
  <2>2. CASE ~(u = r.who /\ k = r.key)
    <3>1. keys'[u][k] = keys[u][k]
      BY <1>1, <1>5, <2>2 DEF TypeOK
    <3>2. /\ keys[u][k] \in KeyRecord /\ keys[u][k].split \in born
          /\ KeyHolds(u, keys[u][k])
      BY <3>1 DEF TypeOK, BornOnce, KeysHold
    <3> DEFINE rec == keys[u][k]
    <3>3. rec \in KeyRecord /\ rec.split \in born /\ KeyHolds(u, rec)
      BY <3>2
    <3>4. KeyHolds(u, keys[u][k])' <=>
            /\ keys'[u][k].op = "create" => keys'[u][k].version = 1
            /\ versions'[keys'[u][k].split] # <<>> =>
                 /\ keys'[u][k].version <= Len(versions'[keys'[u][k].split])
                 /\ versions'[keys'[u][k].split][keys'[u][k].version].shares = keys'[u][k].shares
                 /\ keys'[u][k].op = "accept" =>
                      u \in versions'[keys'[u][k].split][keys'[u][k].version].accepted
      BY DEF KeyHolds, Live
    <3>5. /\ rec.version \in Nat \ {0} /\ rec.split \in Split
          /\ Len(versions[rec.split]) \in Nat /\ Len(versions'[rec.split]) \in Nat
      BY <3>3 DEF KeyRecord, TypeOK
    <3>6. versions'[rec.split] # <<>> =>
            /\ Live(rec.split) /\ Len(versions[rec.split]) <= Len(versions'[rec.split])
            /\ \A i \in 1..Len(versions[rec.split]) :
                 /\ versions'[rec.split][i].shares = versions[rec.split][i].shares
                 /\ versions[rec.split][i].accepted \subseteq versions'[rec.split][i].accepted
      BY <3>3 DEF Extends, Live
    <3>7. Live(rec.split) => rec.version \in 1..Len(versions[rec.split])
      BY <3>3, <3>5 DEF KeyHolds
    <3> HIDE DEF rec
    <3>8. /\ rec.op = "create" => rec.version = 1
          /\ versions'[rec.split] # <<>> =>
               /\ rec.version <= Len(versions'[rec.split])
               /\ versions'[rec.split][rec.version].shares = rec.shares
               /\ rec.op = "accept" => u \in versions'[rec.split][rec.version].accepted
      BY <3>3, <3>5, <3>6, <3>7 DEF KeyHolds
    <3> QED BY <3>1, <3>4, <3>8 DEF rec
  <2> QED BY <2>1, <2>2
<1>12. AnswersKept'
  <2> SUFFICES ASSUME NEW x \in told', Live(x.split)'
               PROVE  /\ x.version <= Len(versions'[x.split])
                      /\ versions'[x.split][x.version].shares = x.shares
                      /\ x.op = "accept" => x.who \in versions'[x.split][x.version].accepted
    BY DEF AnswersKept, Live
  <2>1. CASE x \in told
    <3>1. x.split \in born /\ x.split \in Split
      BY <2>1 DEF BornOnce, TypeOK, AnswerType
    <3>2. Len(versions'[x.split]) \in Nat
      BY <3>1
    <3> QED BY <2>1, <3>1, <3>2, AnswerExtends
  <2>2. CASE x = Answer(r, s, a)
    BY <2>2 DEF Answer
  <2> QED BY <1>5, <2>1, <2>2
<1> QED BY <1>6, <1>8, <1>9, <1>10, <1>11, <1>12

-----------------------------------------------------------------------------
(* Each call.                                                              *)

SocialType ==
  /\ versions \in [Split -> Seq(VersionType)]
  /\ born \subseteq Split /\ \A s \in Split : Live(s) => s \in born
  /\ keys \in [User -> [Key -> KeyRecord \cup {none}]]
  /\ commits \in [User -> [Key -> Nat]]
  /\ told \subseteq AnswerType

MoneyType ==
  /\ issued \in Nat
  /\ ledger \subseteq SettlementType /\ \A x \in ledger : x.id <= issued
  /\ skeys \in [User -> [Key -> {x.id : x \in ledger} \cup {none}]]

CallsType ==
  /\ pc \in [Handler -> {"idle", "authorize", "commit"}]
  /\ req \in [Handler -> Request \cup {none}]
  /\ \A h \in Handler :
       /\ pc[h] = "authorize" => req[h] \in Creation \cup Revision
       /\ pc[h] = "commit" => req[h] \in Request

LEMMA Types ==
  TypeOK <=> /\ scope \in Scopes /\ access \subseteq User /\ reset \subseteq User
             /\ SocialType /\ MoneyType /\ CallsType
BY DEF TypeOK, SocialType, MoneyType, CallsType, Request

LEMMA IdleType == ASSUME CallsType, NEW h \in Handler, Idle(h) PROVE CallsType'
BY DEF CallsType, Idle

LEMMA CommitRequest ==
  ASSUME CallsType, NEW h \in Handler, pc[h] = "commit"
  PROVE  req[h] \in Request
BY DEF CallsType

(* What the splits keep, whoever calls.                                    *)
SocialInv ==
  /\ BornOnce /\ KeysHold /\ KeyCounted /\ AnswersKept
  /\ RevisionFollowsRead /\ AcceptedByAll

LEMMA CommitReplay ==
  ASSUME TypeOK, SocialInv, NEW r \in Request, Recorded(r), Replay(r),
         UNCHANGED <<versions, born, keys, commits>>
  PROVE  SocialType' /\ SocialInv'
<1>1. told' \subseteq AnswerType /\ BornOnce' /\ AnswersKept'
  BY ReplaySafe DEF SocialInv
<1>2. KeysHold' /\ KeyCounted'
  BY DEF SocialInv, KeysHold, KeyHolds, KeyCounted, Live
<1>3. RevisionFollowsRead' /\ AcceptedByAll'
  BY DEF SocialInv, RevisionFollowsRead, AcceptedByAll
<1>4. SocialType'
  BY <1>1, Types DEF SocialType, Live
<1> QED BY <1>1, <1>2, <1>3, <1>4 DEF SocialInv

LEMMA CommitNothing ==
  ASSUME TypeOK, SocialInv, UNCHANGED social PROVE SocialType' /\ SocialInv'
<1>1. SocialType'
  BY Types DEF SocialType, social, Live
<1> QED BY <1>1, SocialKept DEF SocialInv

LEMMA CreateStep ==
  ASSUME TypeOK, SocialInv, NEW h \in Handler, CreateSplit(h)
  PROVE  SocialType' /\ SocialInv'
<1> DEFINE r == req[h]
<1>1. r \in Request /\ r.op = "create" /\ r \in Creation \cup Revision
  BY Types, CommitRequest, RequestFields DEF CreateSplit
<1> HIDE DEF r
<1>2. ASSUME Recorded(r), Replay(r), UNCHANGED <<versions, born, keys, commits>>
      PROVE  SocialType' /\ SocialInv'
  BY <1>1, <1>2, CommitReplay
<1>3. ASSUME NEW s \in scope.fresh \ born, KeyFree(r),
             versions' = [versions EXCEPT ![s] = <<Version(r, 0)>>],
             born' = born \cup {s}, Commits(r, s, 1, r.shares)
      PROVE  SocialType' /\ SocialInv'
  <2>1. s \in Split /\ s \notin born /\ ~Live(s)
    BY SplitsAssumption DEF TypeOK, Scope
  <2>2. /\ Version(r, 0) \in VersionType /\ Version(r, 0).shares = r.shares
        /\ r.shares \in Shares /\ Version(r, 0).from = 0
        /\ Version(r, 0).accepted = {} /\ Version(r, 0).status = "proposed"
    BY <1>1, VersionTyped
  <2>3. /\ versions' \in [Split -> Seq(VersionType)]
        /\ versions'[s] = <<Version(r, 0)>>
        /\ \A q \in Split : q # s => versions'[q] = versions[q]
    BY <1>3, <2>1, <2>2 DEF TypeOK
  <2>4. Len(versions'[s]) = 1 /\ versions'[s][1] = Version(r, 0)
    BY <2>3
  <2>5. Asked(r) = 1
    BY <1>1, RequestFields DEF Asked
  <2>6. Extends
    <3> SUFFICES ASSUME NEW q \in born, Live(q)'
                 PROVE  versions'[q] = versions[q] /\ Live(q) /\ Len(versions[q]) \in Nat
      BY DEF Extends
    <3>1. q \in Split /\ q # s
      BY <2>1 DEF TypeOK
    <3> QED BY <2>3, <3>1 DEF Live, TypeOK
  <2>7. /\ keys' \in [User -> [Key -> KeyRecord \cup {none}]]
        /\ commits' \in [User -> [Key -> Nat]]
        /\ told' \subseteq AnswerType
        /\ BornOnce' /\ KeysHold' /\ KeyCounted' /\ AnswersKept'
    <3>1. /\ Commits(r, s, Asked(r), r.shares) /\ Asked(r) <= Len(versions'[s])
          /\ versions'[s][Asked(r)].shares = r.shares
      BY <1>3, <2>2, <2>4, <2>5
    <3>2. s \in born' /\ born \subseteq born' /\ r.op # "accept"
      BY <1>1, <1>3
    <3> QED BY <1>1, <1>3, <2>1, <2>2, <2>3, <2>6, <3>1, <3>2, WriteSafe DEF SocialInv
  <2>8. born' \subseteq Split /\ \A q \in Split : Live(q)' => q \in born'
    BY <1>3, <2>1, <2>3 DEF TypeOK, Live
  <2>9. RevisionFollowsRead' /\ AcceptedByAll'
    <3> SUFFICES ASSUME NEW q \in Split, NEW v \in DOMAIN versions'[q]
                 PROVE  /\ versions'[q][v].from = v - 1
                        /\ versions'[q][v].status = "accepted" <=>
                             versions'[q][v].accepted = DOMAIN versions'[q][v].shares
      BY DEF RevisionFollowsRead, AcceptedByAll
    <3>1. CASE q # s
      BY <2>3, <3>1 DEF SocialInv, RevisionFollowsRead, AcceptedByAll
    <3>2. CASE q = s
      <4>1. v = 1
        BY <2>3, <3>2
      <4>2. DOMAIN r.shares # {}
        BY <2>2 DEF Shares
      <4> QED BY <2>2, <2>4, <3>2, <4>1, <4>2
    <3> QED BY <3>1, <3>2
  <2>10. SocialType'
    BY <2>3, <2>7, <2>8 DEF SocialType
  <2> QED BY <2>7, <2>9, <2>10 DEF SocialInv
<1> QED BY <1>2, <1>3 DEF CreateSplit, r

LEMMA UpdateStep ==
  ASSUME TypeOK, SocialInv, NEW h \in Handler, UpdateSplit(h)
  PROVE  SocialType' /\ SocialInv'
<1> DEFINE r == req[h]
           v == Len(versions[r.split]) + 1
<1>1. r \in Request /\ r.op = "update" /\ r \in Creation \cup Revision
  BY Types, CommitRequest, RequestFields DEF UpdateSplit
<1>2. r.split \in Split /\ r.expect \in Nat \ {0} /\ born' = born
  BY <1>1, RequestFields DEF UpdateSplit
<1> HIDE DEF r, v
<1>3. ASSUME Recorded(r), Replay(r), UNCHANGED <<versions, keys, commits>>
      PROVE  SocialType' /\ SocialInv'
  BY <1>1, <1>2, <1>3, CommitReplay
<1>4. ASSUME UNCHANGED <<versions, keys, told, commits>>
      PROVE  SocialType' /\ SocialInv'
  BY <1>2, <1>4, CommitNothing DEF social
<1>5. ASSUME StillExpected(r), KeyFree(r),
             versions' = [versions EXCEPT ![r.split] = Append(@, Version(r, r.expect))],
             Commits(r, r.split, v, r.shares)
      PROVE  SocialType' /\ SocialInv'
  <2> DEFINE s == r.split
             new == Version(r, r.expect)
  <2>1. s \in Split /\ s \in born /\ Live(s) /\ Len(versions[s]) = r.expect
        /\ versions[s] \in Seq(VersionType) /\ Len(versions[s]) \in Nat \ {0}
    BY <1>2, <1>5, LiveVersion DEF StillExpected
  <2>2. /\ new \in VersionType /\ new.shares = r.shares
        /\ r.shares \in Shares /\ new.from = r.expect
        /\ new.accepted = {} /\ new.status = "proposed"
    BY <1>1, <1>2, VersionTyped
  <2>3. versions' = [versions EXCEPT ![s] = Append(versions[s], new)]
    BY <1>5, <2>1 DEF TypeOK
  <2>4. v = r.expect + 1 /\ Asked(r) = v
    BY <1>1, <2>1 DEF v, Asked
  <2> HIDE DEF s, new
  <2>5. /\ Append(versions[s], new) \in Seq(VersionType)
        /\ Append(versions[s], new) # <<>>
        /\ Len(Append(versions[s], new)) = Len(versions[s]) + 1
        /\ \A i \in 1..Len(versions[s]) : Append(versions[s], new)[i] = versions[s][i]
        /\ Append(versions[s], new)[Len(versions[s]) + 1] = new
    BY <2>1, <2>2, AppendProperties
  <2>6. /\ versions' \in [Split -> Seq(VersionType)]
        /\ versions'[s] = Append(versions[s], new)
        /\ \A q \in Split : q # s => versions'[q] = versions[q]
    BY <2>1, <2>3, <2>5 DEF TypeOK
  <2>7. Extends
    <3> SUFFICES ASSUME NEW q \in born, Live(q)'
                 PROVE  /\ Live(q) /\ Len(versions[q]) <= Len(versions'[q])
                        /\ \A i \in 1..Len(versions[q]) : versions'[q][i] = versions[q][i]
      BY DEF Extends
    <3>1. q \in Split
      BY DEF TypeOK
    <3>2. CASE q # s
      BY <2>6, <3>1, <3>2 DEF Live, TypeOK
    <3>3. CASE q = s
      BY <2>1, <2>5, <2>6, <3>3
    <3> QED BY <3>2, <3>3
  <2>8. /\ keys' \in [User -> [Key -> KeyRecord \cup {none}]]
        /\ commits' \in [User -> [Key -> Nat]]
        /\ told' \subseteq AnswerType
        /\ BornOnce' /\ KeysHold' /\ KeyCounted' /\ AnswersKept'
    <3>1. /\ Commits(r, s, Asked(r), r.shares) /\ Asked(r) <= Len(versions'[s])
          /\ versions'[s][Asked(r)].shares = r.shares
      BY <1>5, <2>1, <2>2, <2>4, <2>5, <2>6 DEF s
    <3>2. s \in born' /\ born \subseteq born' /\ r.op # "accept"
      BY <1>1, <1>2, <2>1
    <3> QED BY <1>1, <1>5, <2>1, <2>2, <2>6, <2>7, <3>1, <3>2, WriteSafe DEF SocialInv
  <2>9. born' \subseteq Split /\ \A q \in Split : Live(q)' => q \in born'
    BY <1>2, <2>1, <2>6 DEF TypeOK, Live
  <2>10. RevisionFollowsRead' /\ AcceptedByAll'
    <3> SUFFICES ASSUME NEW q \in Split, NEW i \in DOMAIN versions'[q]
                 PROVE  /\ versions'[q][i].from = i - 1
                        /\ versions'[q][i].status = "accepted" <=>
                             versions'[q][i].accepted = DOMAIN versions'[q][i].shares
      BY DEF RevisionFollowsRead, AcceptedByAll
    <3>1. CASE q # s
      BY <2>6, <3>1 DEF SocialInv, RevisionFollowsRead, AcceptedByAll
    <3>2. CASE q = s /\ i \in 1..Len(versions[s])
      <4>1. versions'[q][i] = versions[s][i] /\ i \in DOMAIN versions[s]
        BY <2>1, <2>5, <2>6, <3>2
      <4> QED BY <2>1, <3>2, <4>1 DEF SocialInv, RevisionFollowsRead, AcceptedByAll
    <3>3. CASE q = s /\ i = Len(versions[s]) + 1
      <4>1. versions'[q][i] = new
        BY <2>5, <2>6, <3>3
      <4>2. DOMAIN r.shares # {}
        BY <2>2 DEF Shares
      <4> QED BY <1>2, <2>1, <2>2, <3>3, <4>1, <4>2
    <3>4. q = s => i \in 1..(Len(versions[s]) + 1)
      <4>1. q = s => i \in DOMAIN Append(versions[s], new)
        BY <2>6
      <4>2. DOMAIN Append(versions[s], new) = 1..(Len(versions[s]) + 1)
        BY <2>5
      <4> QED BY <4>1, <4>2
    <3> QED BY <2>1, <3>1, <3>2, <3>3, <3>4
  <2>11. SocialType'
    BY <2>6, <2>8, <2>9 DEF SocialType
  <2> QED BY <2>8, <2>10, <2>11 DEF SocialInv
<1> QED BY <1>3, <1>4, <1>5 DEF UpdateSplit, r, v

LEMMA AcceptStep ==
  ASSUME TypeOK, SocialInv, NEW h \in Handler, AcceptSplit(h)
  PROVE  SocialType' /\ SocialInv'
<1> DEFINE r   == req[h]
           v   == Len(versions[r.split])
           cur == Current(r.split)
           all == cur.accepted \cup {r.who}
<1>1. r \in Request /\ r.op = "accept"
  BY Types, CommitRequest DEF AcceptSplit
<1>2. r.split \in Split /\ r.expect \in Nat \ {0} /\ r.who \in User /\ born' = born
  BY <1>1, RequestFields DEF AcceptSplit
<1> HIDE DEF r
<1>3. ASSUME Recorded(r), Replay(r), UNCHANGED <<versions, keys, commits>>
      PROVE  SocialType' /\ SocialInv'
  BY <1>1, <1>2, <1>3, CommitReplay
<1>4. ASSUME UNCHANGED <<versions, keys, told, commits>>
      PROVE  SocialType' /\ SocialInv'
  BY <1>2, <1>4, CommitNothing DEF social
<1>5. ASSUME MayAccept(r), KeyFree(r),
             versions' = [versions EXCEPT ![r.split][v] =
                            [cur EXCEPT !.accepted = all, !.status = StatusOf(cur, all)]],
             Commits(r, r.split, r.expect, cur.shares)
      PROVE  SocialType' /\ SocialInv'
  <2> DEFINE s   == r.split
             new == [cur EXCEPT !.accepted = all, !.status = StatusOf(cur, all)]
  <2>1. s \in Split /\ s \in born /\ Live(s) /\ v = r.expect /\ r.who \in DOMAIN cur.shares
        /\ versions[s] \in Seq(VersionType) /\ v \in Nat \ {0} /\ v \in 1..Len(versions[s])
        /\ cur \in VersionType /\ cur = versions[s][v]
    BY <1>2, <1>5, LiveVersion DEF MayAccept, StillExpected, Current
  <2>2. new \in VersionType
    BY <1>2, <2>1, AcceptedVersion
  <2>3. /\ new.shares = cur.shares /\ new.from = cur.from /\ cur.shares \in Shares
        /\ new.accepted = all /\ new.status = StatusOf(cur, all)
    <3> HIDE DEF all, cur
    <3> QED BY <2>1 DEF VersionType
  <2>4. versions' = [versions EXCEPT ![s] = [versions[s] EXCEPT ![v] = new]]
    BY <1>5, <2>1 DEF TypeOK
  <2>5. Asked(r) = v
    BY <1>1, <2>1 DEF Asked
  <2>6. r.who \in new.accepted /\ cur.accepted \subseteq new.accepted
    BY <2>3
  <2>7. new.status = "accepted" <=> new.accepted = DOMAIN new.shares
    <3>1. cur.status = "accepted" <=> cur.accepted = DOMAIN cur.shares
      <4>1. v \in DOMAIN versions[s]
        BY <2>1
      <4> QED BY <2>1, <4>1 DEF SocialInv, AcceptedByAll
    <3> QED BY <2>1, <2>3, <3>1 DEF StatusOf
  <2> HIDE DEF s, new, v, cur, all
  <2>8. /\ [versions[s] EXCEPT ![v] = new] \in Seq(VersionType)
        /\ Len([versions[s] EXCEPT ![v] = new]) = Len(versions[s])
        /\ \A j \in 1..Len(versions[s]) :
             [versions[s] EXCEPT ![v] = new][j] = IF j = v THEN new ELSE versions[s][j]
    BY <2>1, <2>2, ExceptSeq
  <2>9. /\ versions' \in [Split -> Seq(VersionType)]
        /\ versions'[s] = [versions[s] EXCEPT ![v] = new]
        /\ \A q \in Split : q # s => versions'[q] = versions[q]
    BY <2>1, <2>4, <2>8 DEF TypeOK
  <2>10. /\ Len(versions'[s]) = Len(versions[s]) /\ versions'[s][v] = new
         /\ \A j \in 1..Len(versions[s]) : j # v => versions'[s][j] = versions[s][j]
    BY <2>1, <2>8, <2>9
  <2>11. Extends
    <3> SUFFICES ASSUME NEW q \in born, Live(q)'
                 PROVE  /\ Live(q) /\ Len(versions[q]) <= Len(versions'[q])
                        /\ \A i \in 1..Len(versions[q]) :
                             /\ versions'[q][i].shares = versions[q][i].shares
                             /\ versions[q][i].accepted \subseteq versions'[q][i].accepted
      BY DEF Extends
    <3>1. q \in Split
      BY DEF TypeOK
    <3>2. CASE q # s
      BY <2>9, <3>1, <3>2 DEF Live, TypeOK
    <3>3. CASE q = s
      <4>1. Live(q) /\ Len(versions[q]) <= Len(versions'[q])
        BY <2>1, <2>10, <3>3 DEF v
      <4>2. ASSUME NEW i \in 1..Len(versions[s])
            PROVE  /\ versions'[s][i].shares = versions[s][i].shares
                   /\ versions[s][i].accepted \subseteq versions'[s][i].accepted
        BY <2>1, <2>3, <2>6, <2>10
      <4> QED BY <3>3, <4>1, <4>2
    <3> QED BY <3>2, <3>3
  <2>12. /\ keys' \in [User -> [Key -> KeyRecord \cup {none}]]
         /\ commits' \in [User -> [Key -> Nat]]
         /\ told' \subseteq AnswerType
         /\ BornOnce' /\ KeysHold' /\ KeyCounted' /\ AnswersKept'
    <3>1. /\ Commits(r, s, Asked(r), cur.shares) /\ Asked(r) <= Len(versions'[s])
          /\ versions'[s][Asked(r)].shares = cur.shares
          /\ r.who \in versions'[s][Asked(r)].accepted
      BY <1>5, <2>1, <2>3, <2>5, <2>6, <2>10 DEF s
    <3>2. s \in born' /\ born \subseteq born' /\ cur.shares \in Shares
      BY <1>2, <2>1, <2>3
    <3> QED BY <1>1, <1>5, <2>1, <2>9, <2>11, <3>1, <3>2, WriteSafe DEF SocialInv
  <2>13. born' \subseteq Split /\ \A q \in Split : Live(q)' => q \in born'
    BY <1>2, <2>1, <2>9 DEF TypeOK, Live
  <2>14. RevisionFollowsRead' /\ AcceptedByAll'
    <3> SUFFICES ASSUME NEW q \in Split, NEW i \in DOMAIN versions'[q]
                 PROVE  /\ versions'[q][i].from = i - 1
                        /\ versions'[q][i].status = "accepted" <=>
                             versions'[q][i].accepted = DOMAIN versions'[q][i].shares
      BY DEF RevisionFollowsRead, AcceptedByAll
    <3>1. q = s => i \in 1..Len(versions[s])
      BY <2>1, <2>9, <2>10
    <3>2. CASE q # s
      BY <2>9, <3>2 DEF SocialInv, RevisionFollowsRead, AcceptedByAll
    <3>3. CASE q = s /\ i # v
      <4>1. versions'[q][i] = versions[s][i] /\ i \in DOMAIN versions[s]
        BY <2>1, <2>10, <3>1, <3>3
      <4> QED BY <2>1, <3>3, <4>1 DEF SocialInv, RevisionFollowsRead, AcceptedByAll
    <3>4. CASE q = s /\ i = v
      <4>1. cur.from = v - 1
        <5>1. v \in DOMAIN versions[s]
          BY <2>1
        <5> QED BY <2>1, <5>1 DEF SocialInv, RevisionFollowsRead
      <4> QED BY <2>3, <2>7, <2>10, <3>4, <4>1
    <3> QED BY <3>2, <3>3, <3>4
  <2>15. SocialType'
    BY <2>9, <2>12, <2>13 DEF SocialType
  <2> QED BY <2>12, <2>14, <2>15 DEF SocialInv
<1> QED BY <1>3, <1>4, <1>5 DEF AcceptSplit, r

LEMMA BeginStep ==
  ASSUME TypeOK, SocialInv, NEW h \in Handler, NEW u \in User, NEW k \in Key,
         NEW r \in Requests(u, k), Begin(h, r)
  PROVE  SocialType' /\ SocialInv' /\ CallsType'
<1>1. r \in Request /\ CallsType
  BY RequestTyped, Types
<1>2. UNCHANGED <<versions, born, keys, commits>>
  BY DEF Begin
<1>3. ASSUME Recorded(r), Replay(r), UNCHANGED calls
      PROVE  SocialType' /\ SocialInv' /\ CallsType'
  <2>1. CallsType'
    BY <1>1, <1>3 DEF CallsType, calls
  <2> QED BY <1>1, <1>2, <1>3, <2>1, CommitReplay
<1>4. ASSUME pc' = [pc EXCEPT ![h] = IF r.op = "accept" THEN "commit" ELSE "authorize"],
             req' = [req EXCEPT ![h] = r], UNCHANGED told
      PROVE  SocialType' /\ SocialInv' /\ CallsType'
  <2>1. r.op # "accept" => r \in Creation \cup Revision
    BY <1>1, RequestFields
  <2>2. CallsType'
    BY <1>1, <1>4, <2>1 DEF CallsType
  <2> QED BY <1>2, <1>4, <2>2, CommitNothing DEF social
<1> QED BY <1>3, <1>4 DEF Begin

LEMMA AuthorizeStep ==
  ASSUME TypeOK, NEW h \in Handler, Authorize(h)
  PROVE  CallsType'
<1>1. CallsType
  BY Types
<1>2. ASSUME pc' = [pc EXCEPT ![h] = "commit"], UNCHANGED req, pc[h] = "authorize"
      PROVE  CallsType'
  BY <1>1, <1>2 DEF CallsType, Request
<1> QED BY <1>1, <1>2, IdleType DEF Authorize

LEMMA SettleStep ==
  ASSUME TypeOK, LedgerKeyed, CountedOnce, NEW u \in User, NEW k \in Key,
         NEW in \in SettlementInputs, RecordSettlement(u, k, in)
  PROVE  MoneyType' /\ LedgerKeyed' /\ CountedOnce'
<1> DEFINE new == Settlement(u, k, in)
<1>1. MoneyType /\ in \in SettlementInputs
  BY Types
<1>2. /\ in.split \in Split /\ in.who \in User /\ in.amount \in Paid
      /\ in.link \in Payment \cup {none} /\ issued + 1 \in Nat \ {0}
  BY <1>1 DEF SettlementInputs, TypeOK, MoneyType
<1>3. /\ new \in SettlementType /\ new.id = issued + 1
      /\ new.actor = u /\ new.key = k /\ new.link = in.link
  BY <1>2 DEF Settlement, SettlementType
<1>4. /\ ledger' = ledger \cup {new} /\ issued' = issued + 1 /\ reset' = reset
      /\ skeys' = [skeys EXCEPT ![u][k] = issued + 1] /\ skeys[u][k] = none
      /\ LinkFree(in)
  BY DEF RecordSettlement
<1> HIDE DEF new
<1>5. \A x \in ledger : x.id \in Nat /\ x.id < issued + 1 /\ x.actor \in User /\ x.key \in Key
  BY <1>1 DEF MoneyType, SettlementType
<1>6. MoneyType'
  <2>1. issued' \in Nat /\ ledger' \subseteq SettlementType /\ \A x \in ledger' : x.id <= issued'
    BY <1>1, <1>3, <1>4, <1>5 DEF MoneyType
  <2> DEFINE I == {x.id : x \in ledger} \cup {none}
             J == {x.id : x \in ledger'} \cup {none}
  <2>2. I \subseteq J /\ issued + 1 \in J
    BY <1>3, <1>4
  <2>3. skeys \in [User -> [Key -> I]]
    BY <1>1 DEF MoneyType
  <2> HIDE DEF I, J
  <2>4. skeys' \in [User -> [Key -> J]]
    BY <1>4, <2>2, <2>3
  <2> QED BY <2>1, <2>4 DEF MoneyType, J
<1>7. LedgerKeyed'
  <2> SUFFICES ASSUME NEW x \in ledger', x.actor \notin reset
               PROVE  skeys'[x.actor][x.key] = x.id
    BY <1>4 DEF LedgerKeyed
  <2>1. CASE x = new
    BY <1>1, <1>3, <1>4, <2>1 DEF MoneyType
  <2>2. CASE x \in ledger
    <3>1. skeys[x.actor][x.key] = x.id /\ x.id # none /\ x.actor \in User /\ x.key \in Key
      BY <1>5, <2>2, SplitsAssumption DEF LedgerKeyed
    <3> QED BY <1>1, <1>4, <3>1 DEF MoneyType
  <2> QED BY <1>4, <2>1, <2>2
<1>8. CountedOnce'
  <2>1. ASSUME NEW x \in ledger
        PROVE  /\ x.link # none => x.link # new.link
               /\ new.link # none => x.link # new.link
               /\ <<x.actor, x.key>> = <<new.actor, new.key>> => x.actor \in reset
    <3>1. x.link # none => x.link # new.link
      BY <1>3, <1>4 DEF LinkFree
    <3>2. new.link # none => x.link # new.link
      BY <1>3, <1>4 DEF LinkFree
    <3>3. x.actor = u /\ x.key = k => x.actor \in reset
      <4>1. x.id # none
        BY <1>5, SplitsAssumption
      <4> QED BY <1>4, <4>1 DEF LedgerKeyed
    <3> QED BY <1>3, <3>1, <3>2, <3>3
  <2> SUFFICES ASSUME NEW x \in ledger', NEW y \in ledger', x # y
               PROVE  /\ x.link # none => x.link # y.link
                      /\ <<x.actor, x.key>> = <<y.actor, y.key>> => x.actor \in reset
    BY <1>4 DEF CountedOnce
  <2>2. CASE x \in ledger /\ y \in ledger
    BY <2>2 DEF CountedOnce
  <2>3. CASE x \in ledger /\ y = new
    BY <2>1, <2>3
  <2>4. CASE x = new /\ y \in ledger
    BY <2>1, <2>4
  <2> QED BY <1>4, <2>2, <2>3, <2>4
<1> QED BY <1>6, <1>7, <1>8

LEMMA ClearStep ==
  ASSUME TypeOK, SocialInv, LedgerKeyed, CountedOnce, NEW u \in User, ClearModel(u)
  PROVE  SocialType' /\ SocialInv' /\ MoneyType' /\ LedgerKeyed' /\ CountedOnce'
<1> DEFINE left == {s \in Split : Live(s) /\ ~Touches(s, u)}
           ids  == {x.id : x \in LedgerLeft(u, left)}
           noKeys == [k \in Key |-> none]
           noCommits == [k \in Key |-> 0]
<1>1. SocialType /\ MoneyType
  BY Types
<1>2. /\ versions' = [s \in Split |-> IF s \in left THEN versions[s] ELSE <<>>]
      /\ ledger' = LedgerLeft(u, left)
      /\ skeys' = [w \in User |-> [k \in Key |->
                     IF w = u \/ skeys[w][k] \notin ids THEN none ELSE skeys[w][k]]]
      /\ keys' = [keys EXCEPT ![u] = noKeys]
      /\ commits' = [commits EXCEPT ![u] = noCommits]
      /\ reset' = reset \cup {u}
      /\ told' = {a \in told : a.split \in left}
      /\ UNCHANGED <<access, born, issued, calls>>
  BY DEF ClearModel
<1>3. left \subseteq Split /\ \A s \in left : Live(s)
  OBVIOUS
<1>4. /\ noKeys \in [Key -> KeyRecord \cup {none}] /\ \A k \in Key : noKeys[k] = none
      /\ noCommits \in [Key -> Nat] /\ \A k \in Key : noCommits[k] = 0
  OBVIOUS
<1> HIDE DEF left, noKeys, noCommits
<1>5. \A s \in Split : /\ s \in left => versions'[s] = versions[s]
                       /\ Live(s)' => s \in left /\ Live(s)
  BY <1>2, <1>3 DEF Live
<1>6. SocialType'
  <2>1. versions' \in [Split -> Seq(VersionType)]
    BY <1>1, <1>2 DEF SocialType
  <2>2. born' \subseteq Split /\ \A s \in Split : Live(s)' => s \in born'
    BY <1>1, <1>2, <1>5 DEF SocialType
  <2>3. keys' \in [User -> [Key -> KeyRecord \cup {none}]] /\ commits' \in [User -> [Key -> Nat]]
    BY <1>1, <1>2, <1>4 DEF SocialType
  <2> QED BY <1>1, <1>2, <2>1, <2>2, <2>3 DEF SocialType
<1>7. SocialInv'
  <2>1. \A w \in User, k \in Key : keys'[w][k] # none => w # u /\ keys'[w][k] = keys[w][k]
    BY <1>1, <1>2, <1>4 DEF SocialType
  <2>2. BornOnce'
    BY <1>2, <2>1 DEF SocialInv, BornOnce
  <2>3. KeysHold'
    <3> SUFFICES ASSUME NEW w \in User, NEW k \in Key, keys'[w][k] # none
                 PROVE  KeyHolds(w, keys[w][k])'
      BY DEF KeysHold
    <3>1. keys'[w][k] = keys[w][k] /\ keys[w][k] # none
      BY <2>1
    <3>2. keys[w][k] \in KeyRecord /\ KeyHolds(w, keys[w][k])
      BY <1>1, <3>1 DEF SocialInv, KeysHold, SocialType
    <3>3. keys[w][k].split \in Split
      BY <3>2 DEF KeyRecord
    <3> QED BY <1>5, <3>1, <3>2, <3>3 DEF KeyHolds, Live
  <2>4. KeyCounted'
    <3> SUFFICES ASSUME NEW w \in User, NEW k \in Key
                 PROVE  commits'[w][k] = IF keys'[w][k] = none THEN 0 ELSE 1
      BY DEF KeyCounted
    <3>1. CASE w = u
      <4>1. keys'[w][k] = none /\ commits'[w][k] = 0
        BY <1>1, <1>2, <1>4, <3>1 DEF SocialType
      <4> QED BY <4>1
    <3>2. CASE w # u
      <4>1. keys'[w][k] = keys[w][k] /\ commits'[w][k] = commits[w][k]
        BY <1>1, <1>2, <3>2 DEF SocialType
      <4> QED BY <4>1 DEF SocialInv, KeyCounted
    <3> QED BY <3>1, <3>2
  <2>5. AnswersKept'
    <3> SUFFICES ASSUME NEW a \in told, a.split \in left
                 PROVE  /\ a.version <= Len(versions'[a.split])
                        /\ versions'[a.split][a.version].shares = a.shares
                        /\ a.op = "accept" =>
                             a.who \in versions'[a.split][a.version].accepted
      BY <1>2 DEF AnswersKept
    <3> QED BY <1>3, <1>5 DEF SocialInv, AnswersKept
  <2>6. \A s \in Split : versions'[s] = <<>> \/ versions'[s] = versions[s]
    BY <1>2
  <2>7. RevisionFollowsRead' /\ AcceptedByAll'
    <3> SUFFICES ASSUME NEW s \in Split, NEW v \in DOMAIN versions'[s]
                 PROVE  /\ versions'[s][v].from = v - 1
                        /\ versions'[s][v].status = "accepted" <=>
                             versions'[s][v].accepted = DOMAIN versions'[s][v].shares
      BY DEF RevisionFollowsRead, AcceptedByAll
    <3>1. versions'[s] = versions[s]
      BY <2>6
    <3> QED BY <3>1 DEF SocialInv, RevisionFollowsRead, AcceptedByAll
  <2> QED BY <2>2, <2>3, <2>4, <2>5, <2>7 DEF SocialInv
<1>8. ledger' \subseteq ledger
  BY <1>2 DEF LedgerLeft
<1>9. MoneyType'
  <2>1. issued' \in Nat /\ ledger' \subseteq SettlementType /\ \A x \in ledger' : x.id <= issued'
    BY <1>1, <1>2, <1>8 DEF MoneyType
  <2>2. ids = {x.id : x \in ledger'}
    BY <1>2
  <2> HIDE DEF ids
  <2>3. skeys' \in [User -> [Key -> ids \cup {none}]]
    BY <1>2
  <2> QED BY <2>1, <2>2, <2>3 DEF MoneyType
<1>10. LedgerKeyed'
  <2> SUFFICES ASSUME NEW x \in ledger', x.actor \notin reset'
               PROVE  skeys'[x.actor][x.key] = x.id
    BY DEF LedgerKeyed
  <2>1. x \in ledger /\ x.actor \in User /\ x.key \in Key
    BY <1>1, <1>8 DEF MoneyType, SettlementType
  <2>2. skeys[x.actor][x.key] = x.id /\ x.actor # u
    BY <1>2, <2>1 DEF LedgerKeyed
  <2>3. x.id \in ids
    BY <1>2
  <2> HIDE DEF ids
  <2> QED BY <1>2, <2>1, <2>2, <2>3
<1>11. CountedOnce'
  BY <1>2, <1>8 DEF CountedOnce
<1> QED BY <1>6, <1>7, <1>9, <1>10, <1>11

-----------------------------------------------------------------------------
(* The invariant holds in every state.                                     *)

LEMMA InitInv == Init => IndInv
<1> SUFFICES ASSUME Init PROVE IndInv
  OBVIOUS
<1> DEFINE first == {Version(Proposal("create", srcOwner, none, none, 0, a), 0) :
                       a \in AllocateSplit(srcOwner)}
<1>1. scope \in Scopes /\ access \subseteq User /\ born \subseteq Split
  BY SplitsAssumption DEF Init, Scope
<1>2. ASSUME NEW w \in first
      PROVE  /\ w \in VersionType /\ w.from = 0 /\ w.accepted = {} /\ w.status = "proposed"
             /\ DOMAIN w.shares # {}
  <2>1. PICK a \in AllocateSplit(srcOwner) :
          w = Version(Proposal("create", srcOwner, none, none, 0, a), 0)
    BY <1>2
  <2>2. a.total \in Nat /\ a.shares \in Shares
    BY <1>1, SplitsAssumption, AllocationType
  <2>3. DOMAIN a.shares # {}
    BY <2>2 DEF Shares
  <2> QED BY <2>1, <2>2, <2>3, SplitsAssumption DEF Proposal, Version, VersionType
<1>3. \A s \in Split : versions[s] = <<>> \/ \E w \in first : versions[s] = <<w>>
  <2>1. versions \in [Split -> {<<>>} \cup {<<w>> : w \in first}]
    BY DEF Init
  <2> QED BY <2>1
<1>4. \A s \in Split : Live(s) <=> s \in born
  BY DEF Init
<1> HIDE DEF first
<1>5. versions \in [Split -> Seq(VersionType)]
  <2>1. versions = [s \in Split |-> versions[s]]
    BY DEF Init
  <2>2. ASSUME NEW s \in Split PROVE versions[s] \in Seq(VersionType)
    <3>1. CASE versions[s] = <<>>
      BY <3>1
    <3>2. ASSUME NEW w \in first, versions[s] = <<w>> PROVE versions[s] \in Seq(VersionType)
      BY <1>2, <3>2
    <3> QED BY <1>3, <3>1, <3>2
  <2> QED BY <2>1, <2>2
<1>6. RevisionFollowsRead /\ AcceptedByAll
  <2> SUFFICES ASSUME NEW s \in Split, NEW v \in DOMAIN versions[s]
               PROVE  /\ versions[s][v].from = v - 1
                      /\ versions[s][v].status = "accepted" <=>
                           versions[s][v].accepted = DOMAIN versions[s][v].shares
    BY DEF RevisionFollowsRead, AcceptedByAll
  <2>1. PICK w \in first : versions[s] = <<w>>
    BY <1>3
  <2>2. v = 1
    BY <2>1
  <2> QED BY <1>2, <2>1, <2>2
<1>7. SocialType /\ MoneyType /\ CallsType
  BY <1>1, <1>4, <1>5 DEF Init, SocialType, MoneyType, CallsType
<1>8. BornOnce /\ KeysHold /\ KeyCounted /\ AnswersKept /\ LedgerKeyed /\ CountedOnce
  BY DEF Init, BornOnce, KeysHold, KeyCounted, AnswersKept, LedgerKeyed, CountedOnce
<1> QED BY <1>1, <1>6, <1>7, <1>8, Types DEF Init, IndInv

LEMMA Inductive == IndInv /\ [Next]_vars => IndInv'
<1> SUFFICES ASSUME IndInv, [Next]_vars PROVE IndInv'
  OBVIOUS
<1>1. /\ TypeOK /\ SocialInv /\ LedgerKeyed /\ CountedOnce
      /\ SocialType /\ MoneyType /\ CallsType /\ access \subseteq User /\ reset \subseteq User
  BY Types DEF IndInv, SocialInv
<1>2. scope' \in Scopes
  BY <1>1 DEF TypeOK, Next, vars
<1> DEFINE Goal == /\ access' \subseteq User /\ reset' \subseteq User
                   /\ SocialType' /\ SocialInv' /\ MoneyType' /\ CallsType'
                   /\ LedgerKeyed' /\ CountedOnce'
<1>3. ASSUME UNCHANGED money, UNCHANGED reset
      PROVE  MoneyType' /\ LedgerKeyed' /\ CountedOnce' /\ reset' \subseteq User
  <2>1. MoneyType'
    BY <1>1, <1>3 DEF MoneyType, money
  <2> QED BY <1>1, <1>3, <2>1, MoneyKept
<1>4. ASSUME UNCHANGED social PROVE SocialType' /\ SocialInv'
  BY <1>1, <1>4, CommitNothing
<1>5. ASSUME UNCHANGED calls PROVE CallsType'
  BY <1>1, <1>5 DEF CallsType, calls
<1>6. ASSUME NEW h \in Handler, NEW u \in User, NEW k \in scope.keys, NEW r \in Requests(u, k),
             Begin(h, r)
      PROVE  Goal
  <2>1. k \in Key
    BY <1>1, SplitsAssumption DEF TypeOK, Scope
  <2>2. SocialType' /\ SocialInv' /\ CallsType'
    BY <1>1, <1>6, <2>1, BeginStep
  <2> QED BY <1>1, <1>3, <1>6, <2>2 DEF Begin
<1>7. ASSUME NEW h \in Handler, Authorize(h) PROVE Goal
  <2>1. CallsType'
    BY <1>1, <1>7, AuthorizeStep
  <2> QED BY <1>1, <1>3, <1>4, <1>7, <2>1 DEF Authorize
<1>8. ASSUME NEW h \in Handler, CreateSplit(h) PROVE Goal
  <2>1. SocialType' /\ SocialInv' /\ CallsType'
    BY <1>1, <1>8, CreateStep, IdleType DEF CreateSplit
  <2> QED BY <1>1, <1>3, <1>8, <2>1 DEF CreateSplit
<1>9. ASSUME NEW h \in Handler, UpdateSplit(h) PROVE Goal
  <2>1. SocialType' /\ SocialInv' /\ CallsType'
    BY <1>1, <1>9, UpdateStep, IdleType DEF UpdateSplit
  <2> QED BY <1>1, <1>3, <1>9, <2>1 DEF UpdateSplit
<1>10. ASSUME NEW h \in Handler, AcceptSplit(h) PROVE Goal
  <2>1. SocialType' /\ SocialInv' /\ CallsType'
    BY <1>1, <1>10, AcceptStep, IdleType DEF AcceptSplit
  <2> QED BY <1>1, <1>3, <1>10, <2>1 DEF AcceptSplit
<1>11. ASSUME NEW u \in User, NEW k \in scope.keys, NEW in \in SettlementInputs,
              RecordSettlement(u, k, in)
       PROVE  Goal
  <2>1. k \in Key
    BY <1>1, SplitsAssumption DEF TypeOK, Scope
  <2>2. MoneyType' /\ LedgerKeyed' /\ CountedOnce'
    BY <1>1, <1>11, <2>1, SettleStep
  <2> QED BY <1>1, <1>4, <1>5, <1>11, <2>2 DEF RecordSettlement
<1>12. ASSUME NEW u \in User, ChangeAccess(u) PROVE Goal
  <2>1. access' \subseteq User
    BY <1>1, <1>12 DEF ChangeAccess
  <2> QED BY <1>3, <1>4, <1>5, <1>12, <2>1 DEF ChangeAccess
<1>13. ASSUME NEW u \in User, ClearModel(u) PROVE Goal
  <2>1. SocialType' /\ SocialInv' /\ MoneyType' /\ LedgerKeyed' /\ CountedOnce'
    BY <1>1, <1>13, ClearStep
  <2>2. access' \subseteq User /\ reset' \subseteq User
    BY <1>1, <1>13 DEF ClearModel
  <2> QED BY <1>5, <1>13, <2>1, <2>2 DEF ClearModel
<1>14. ASSUME Restart PROVE Goal
  <2>1. CallsType'
    BY <1>14 DEF Restart, CallsType
  <2> QED BY <1>1, <1>3, <1>4, <1>14, <2>1 DEF Restart
<1>15. ASSUME UNCHANGED vars PROVE Goal
  BY <1>1, <1>3, <1>4, <1>5, <1>15 DEF vars
<1> HIDE DEF Goal
<1>16. ASSUME Step PROVE Goal
  <2>1. ASSUME NEW h \in Handler,
               \/ \E u \in User, k \in scope.keys : \E r \in Requests(u, k) : Begin(h, r)
               \/ Authorize(h) \/ CreateSplit(h) \/ UpdateSplit(h) \/ AcceptSplit(h)
        PROVE  Goal
    BY <1>6, <1>7, <1>8, <1>9, <1>10, <2>1
  <2> QED BY <1>11, <1>12, <1>13, <1>14, <1>16, <2>1 DEF Step
<1>17. Goal
  BY <1>15, <1>16 DEF Next
<1>18. TypeOK'
  BY <1>2, <1>17 DEF Goal, TypeOK, SocialType, MoneyType, CallsType, Request
<1> QED BY <1>17, <1>18 DEF Goal, SocialInv, IndInv

LEMMA Invariant == Spec => []IndInv
BY InitInv, Inductive, PTL DEF Spec

(* The rows, the calls and the answers always have the shape the schema    *)
(* gives them, and a settlement key names a settlement that exists.        *)
THEOREM TypeCorrect == Spec => []TypeOK
<1>1. IndInv => TypeOK
  BY DEF IndInv
<1> QED BY <1>1, Invariant, PTL

(* recordSharingRequest: however retries interleave with one another, with *)
(* other writes, clears and restarts, a key commits one write, and what    *)
(* its calls were told stays true while the split exists.                  *)
THEOREM RetriesAlwaysSafe == Spec => []RetriesSafe
<1>1. IndInv => RetriesSafe
  BY DEF IndInv, KeyCounted, RetriesSafe, KeyCommitsOnce
<1> QED BY <1>1, Invariant, PTL

(* sharing/splits.go: each version of a split replaces the one its author  *)
(* had read, it is accepted when everyone it binds has accepted it, and no *)
(* payment or key is counted in two settlements.                           *)
THEOREM HistoryFollowed == Spec => [](RevisionFollowsRead /\ AcceptedByAll /\ CountedOnce)
<1>1. IndInv => RevisionFollowsRead /\ AcceptedByAll /\ CountedOnce
  BY DEF IndInv
<1> QED BY <1>1, Invariant, PTL

-----------------------------------------------------------------------------
(* Sums of shares.                                                         *)

(* A nonempty set of naturals has a least element. *)
LEMMA LeastElement ==
    ASSUME NEW T \in SUBSET Nat, T # {}
    PROVE  \E m \in T : \A n \in T : m <= n
<1>1. \E m \in T : \A n \in T : ~(<<n, m>> \in OpToRel(<, Nat))
    BY NatLessThanWellFounded, WFMin
<1>2. PICK m \in T : \A n \in T : ~(<<n, m>> \in OpToRel(<, Nat))
    BY <1>1
<1>3. ASSUME NEW n \in T PROVE ~(n < m)
  <2>1. n < m => <<n, m>> \in {ss \in Nat \X Nat : ss[1] < ss[2]}
      OBVIOUS
  <2> QED BY <1>2, <2>1 DEF OpToRel
<1>4. \A n \in T : m <= n
    BY <1>3
<1> QED BY <1>4

(* The element a sum takes next from a set. *)
Chosen(s) == CHOOSE x \in s : TRUE

(* One step of the recursion of a sum. *)
Unfold(f, P, g) == [s \in SUBSET P |->
                      IF s = {} THEN 0 ELSE f[Chosen(s)] + g[s \ {Chosen(s)}]]

(* A sum is the value of the function that the recursion describes. *)
LEMMA SumIsFold ==
  ASSUME NEW P, NEW f, DOMAIN f = P
  PROVE  Sum(f) = (CHOOSE g : g = Unfold(f, P, g))[P]
BY DEF Sum, MapThenSumSet, MapThenFoldSet, Unfold, Chosen

(* Functions that satisfy the recursion agree: there is no smallest set on
   which they differ. *)
LEMMA FoldUnique ==
  ASSUME NEW P, IsFiniteSet(P), NEW f, NEW g, NEW h,
         g = Unfold(f, P, g), h = Unfold(f, P, h)
  PROVE  g[P] = h[P]
<1> DEFINE bad == {n \in Nat : \E s \in SUBSET P : Cardinality(s) = n /\ g[s] # h[s]}
<1>1. SUFFICES ASSUME bad # {} PROVE FALSE
  <2>1. Cardinality(P) \in Nat
    BY FS_CardinalityType
  <2> QED BY <1>1, <2>1
<1>2. PICK m \in bad : \A n \in bad : m <= n
  BY <1>1, LeastElement, bad \in SUBSET Nat
<1>3. PICK s \in SUBSET P : Cardinality(s) = m /\ g[s] # h[s]
  BY <1>2
<1> HIDE DEF bad
<1>4. s # {}
  BY <1>3 DEF Unfold
<1>5. Chosen(s) \in s
  BY <1>4 DEF Chosen
<1> DEFINE rest == s \ {Chosen(s)}
<1>6. IsFiniteSet(s) /\ rest \in SUBSET P
  BY FS_Subset
<1>7. Cardinality(rest) = m - 1 /\ Cardinality(rest) \in Nat /\ m \in Nat
  BY <1>3, <1>5, <1>6, FS_RemoveElement, FS_CardinalityType DEF bad
<1>8. g[rest] = h[rest]
  <2>1. Cardinality(rest) \notin bad
    BY <1>2, <1>7
  <2> QED BY <2>1, <1>6, <1>7 DEF bad
<1>9. g[s] = f[Chosen(s)] + g[rest] /\ h[s] = f[Chosen(s)] + h[rest]
  <2>1. g[s] = Unfold(f, P, g)[s] /\ h[s] = Unfold(f, P, h)[s]
    OBVIOUS
  <2> QED BY <1>4, <2>1 DEF Unfold
<1> QED BY <1>3, <1>8, <1>9

(* One more term of the same size. *)
LEMMA OneMore ==
  ASSUME NEW c \in Nat, NEW q \in Nat
  PROVE  (c + 1) * q = c * q + q
OBVIOUS

(* Equal shares with the remainder to the initiator sum to the total: the
   part of them that a set of participants holds, in closed form, satisfies
   the recursion of the sum. *)
LEMMA EqualSharesSum ==
  ASSUME NEW P, IsFiniteSet(P), NEW u \in P, NEW t \in Nat
  PROVE  Sum(EqualShares(t, u, P)) = t
<1> DEFINE f == EqualShares(t, u, P)
           n == Cardinality(P)
           q == t \div n
           r == t % n
           part(s) == Cardinality(s) * q + (IF u \in s THEN r ELSE 0)
           g == [s \in SUBSET P |-> part(s)]
<1>1. n \in Nat /\ n > 0
  BY FS_CardinalityType, FS_EmptySet
<1>2. q \in Nat /\ r \in Nat /\ n * q + r = t
  BY <1>1
<1>3. \A x \in P : f[x] = q + (IF x = u THEN r ELSE 0)
  BY DEF EqualShares
<1>4. g = Unfold(f, P, g)
  <2> SUFFICES ASSUME NEW s \in SUBSET P
               PROVE  part(s) = IF s = {} THEN 0 ELSE f[Chosen(s)] + g[s \ {Chosen(s)}]
    BY DEF Unfold
  <2>1. CASE s = {}
    BY <1>2, <2>1, FS_EmptySet
  <2>2. CASE s # {}
    <3> DEFINE x == Chosen(s)
               rest == s \ {x}
    <3>1. x \in s /\ x \in P
      BY <2>2 DEF Chosen
    <3>2. IsFiniteSet(s) /\ rest \in SUBSET P
      BY FS_Subset
    <3>3. /\ Cardinality(rest) \in Nat /\ Cardinality(s) \in Nat
          /\ Cardinality(s) = Cardinality(rest) + 1
      <4> HIDE DEF x
      <4>1. IsFiniteSet(rest) /\ Cardinality(rest) = Cardinality(s) - 1
        BY <3>1, <3>2, FS_RemoveElement
      <4>2. Cardinality(rest) \in Nat /\ Cardinality(s) \in Nat
        BY <3>2, <4>1, FS_CardinalityType
      <4> QED BY <4>1, <4>2
    <3> HIDE DEF x
    <3>4. Cardinality(s) * q = Cardinality(rest) * q + q
      BY <1>2, <3>3, OneMore
    <3>5. (IF u \in s THEN r ELSE 0) = (IF x = u THEN r ELSE 0) + (IF u \in rest THEN r ELSE 0)
      BY <1>2, <3>1
    <3>6. g[rest] = part(rest)
      BY <3>2
    <3> QED BY <1>2, <1>3, <2>2, <3>1, <3>3, <3>4, <3>5, <3>6 DEF x
  <2> QED BY <2>1, <2>2
<1>5. DOMAIN f = P
  BY DEF EqualShares
<1> DEFINE it == CHOOSE h : h = Unfold(f, P, h)
<1>6. it = Unfold(f, P, it)
  BY <1>4
<1>7. g[P] = t
  BY <1>2
<1>8. Sum(f) = it[P]
  BY <1>5, SumIsFold
<1> HIDE DEF f, g, it
<1>9. it[P] = g[P]
  BY <1>4, <1>6, FoldUnique
<1> QED BY <1>7, <1>8, <1>9 DEF f

ProposalsSum ==
  \A h \in Handler : pc[h] # "idle" /\ req[h].op # "accept" =>
    Sum(req[h].shares) = req[h].total

SumInv == SharesSum /\ ProposalsSum

LEMMA AllocationSums ==
  ASSUME scope \in Scopes, NEW u \in User, NEW a \in AllocateSplit(u)
  PROVE  Sum(a.shares) = a.total
<1>1. PICK t \in Total, P \in {Q \in SUBSET User : u \in Q} :
        a \in [total : {t}, shares : {EqualShares(t, u, P)} \cup [P -> scope.override]]
  <2> DEFINE alloc(t, P) ==
               [total : {t}, shares : {EqualShares(t, u, P)} \cup [P -> scope.override]]
  <2>1. a \in UNION {alloc(t, P) : t \in Total, P \in {Q \in SUBSET User : u \in Q}}
    BY DEF AllocateSplit
  <2> HIDE DEF alloc
  <2>2. \E t \in Total, P \in {Q \in SUBSET User : u \in Q} : a \in alloc(t, P)
    BY <2>1
  <2> QED BY <2>2 DEF alloc
<1>2. a.shares = EqualShares(a.total, u, DOMAIN a.shares) \/ Sum(a.shares) = a.total
  <2> DEFINE all == UNION {[total : {x}, shares : {EqualShares(x, u, Y)} \cup [Y -> scope.override]] :
                             x \in Total, Y \in {Q \in SUBSET User : u \in Q}}
  <2>1. AllocateSplit(u) =
          {b \in all : b.shares = EqualShares(b.total, u, DOMAIN b.shares) \/ Sum(b.shares) = b.total}
    BY DEF AllocateSplit
  <2> HIDE DEF all
  <2> QED BY <2>1
<1>3. DOMAIN a.shares = P /\ a.total = t /\ t \in Nat
  <2>1. DOMAIN EqualShares(t, u, P) = P
    BY DEF EqualShares
  <2> QED BY <1>1, <2>1, SplitsAssumption
<1>4. a.shares = EqualShares(t, u, P) \/ Sum(a.shares) = t
  BY <1>2, <1>3
<1>5. Sum(EqualShares(t, u, P)) = t
  <2>1. P \in SUBSET User /\ u \in P /\ IsFiniteSet(P)
    BY SplitsAssumption, FS_Subset
  <2> QED BY <1>3, <2>1, EqualSharesSum
<1> QED BY <1>3, <1>4, <1>5

LEMMA RequestSums ==
  ASSUME TypeOK, NEW u \in User, NEW k \in Key, NEW r \in Requests(u, k),
         r.op # "accept"
  PROVE  Sum(r.shares) = r.total
<1>1. CASE r \in {Proposal("create", u, k, none, 0, a) : a \in AllocateSplit(u)}
  <2>1. PICK a \in AllocateSplit(u) : r = Proposal("create", u, k, none, 0, a)
    BY <1>1
  <2> QED BY <2>1, AllocationSums DEF Proposal, TypeOK
<1>2. CASE r \in {Proposal("update", u, k, s, e, a) :
                    s \in born, e \in 1..(scope.versions - 1), a \in AllocateSplit(u)}
  <2>1. PICK s \in born, e \in 1..(scope.versions - 1), a \in AllocateSplit(u) :
          r = Proposal("update", u, k, s, e, a)
    BY <1>2
  <2> QED BY <2>1, AllocationSums DEF Proposal, TypeOK
<1>3. CASE r \in {[op |-> "accept", who |-> u, key |-> k, split |-> s, expect |-> e] :
                    s \in born, e \in 1..scope.versions}
  BY <1>3
<1> QED BY <1>1, <1>2, <1>3 DEF Requests

LEMMA SumInit == ASSUME Init PROVE SumInv
<1>1. ProposalsSum
  BY DEF Init, ProposalsSum
<1> DEFINE first == {Version(Proposal("create", srcOwner, none, none, 0, a), 0) :
                       a \in AllocateSplit(srcOwner)}
<1>2. ASSUME NEW w \in first PROVE Sum(w.shares) = w.total
  <2>1. PICK a \in AllocateSplit(srcOwner) :
          w = Version(Proposal("create", srcOwner, none, none, 0, a), 0)
    BY <1>2
  <2>2. Sum(a.shares) = a.total
    BY SplitsAssumption, AllocationSums DEF Init
  <2> QED BY <2>1, <2>2 DEF Proposal, Version
<1>3. SharesSum
  <2> SUFFICES ASSUME NEW s \in Split, NEW v \in DOMAIN versions[s]
               PROVE  Sum(versions[s][v].shares) = versions[s][v].total
    BY DEF SharesSum
  <2>1. versions \in [Split -> {<<>>} \cup {<<w>> : w \in first}]
    BY DEF Init
  <2> HIDE DEF first
  <2>2. PICK w \in first : versions[s] = <<w>>
    BY <2>1
  <2>3. v = 1
    BY <2>2
  <2> QED BY <1>2, <2>2, <2>3
<1> QED BY <1>1, <1>3 DEF SumInv

(* A step changes versions by one that carries the shares of a call, or by *)
(* one that keeps the shares and the total it had.                         *)
LEMMA SumStep ==
  ASSUME IndInv, SumInv, [Next]_vars PROVE SumInv'
<1>1. TypeOK /\ CallsType /\ SharesSum /\ ProposalsSum
  BY Types DEF IndInv, SumInv
<1> DEFINE Goal == SumInv'
<1>2. ASSUME UNCHANGED versions PROVE SharesSum'
  BY <1>1, <1>2 DEF SharesSum
<1>3. ASSUME UNCHANGED calls PROVE ProposalsSum'
  BY <1>1, <1>3 DEF ProposalsSum, calls
<1>4. ASSUME NEW h \in Handler, Idle(h) PROVE ProposalsSum'
  BY <1>1, <1>4 DEF ProposalsSum, Idle, CallsType
<1>5. ASSUME NEW h \in Handler, NEW u \in User, NEW k \in scope.keys, NEW r \in Requests(u, k),
             Begin(h, r)
      PROVE  Goal
  <2>1. k \in Key
    BY <1>1, SplitsAssumption DEF TypeOK, Scope
  <2>2. r.op # "accept" => Sum(r.shares) = r.total
    BY <1>1, <2>1, RequestSums
  <2>3. ASSUME req' = [req EXCEPT ![h] = r],
               pc' = [pc EXCEPT ![h] = IF r.op = "accept" THEN "commit" ELSE "authorize"]
        PROVE  ProposalsSum'
    BY <1>1, <2>2, <2>3 DEF ProposalsSum, CallsType
  <2>4. ProposalsSum'
    BY <1>3, <1>5, <2>3 DEF Begin
  <2> QED BY <1>2, <1>5, <2>4 DEF Begin, SumInv
<1>6. ASSUME NEW h \in Handler, Authorize(h) PROVE Goal
  <2>1. ASSUME pc[h] = "authorize", pc' = [pc EXCEPT ![h] = "commit"], UNCHANGED req
        PROVE  ProposalsSum'
    BY <1>1, <2>1 DEF ProposalsSum, CallsType
  <2>2. ProposalsSum'
    BY <1>4, <1>6, <2>1 DEF Authorize
  <2> QED BY <1>2, <1>6, <2>2 DEF Authorize, social, SumInv
<1>7. ASSUME NEW r \in Creation \cup Revision, NEW from \in Nat, Sum(r.shares) = r.total
      PROVE  Sum(Version(r, from).shares) = Version(r, from).total
  BY <1>7, VersionTyped
<1>8. ASSUME NEW h \in Handler, CreateSplit(h) PROVE Goal
  <2> DEFINE r == req[h]
  <2>1. r \in Creation \cup Revision /\ Sum(r.shares) = r.total
    BY <1>1, <1>8, CommitRequest, RequestFields DEF CreateSplit, ProposalsSum
  <2> HIDE DEF r
  <2>2. ASSUME NEW s \in scope.fresh \ born,
               versions' = [versions EXCEPT ![s] = <<Version(r, 0)>>]
        PROVE  SharesSum'
    <3> DEFINE new == Version(r, 0)
    <3>1. Sum(new.shares) = new.total
      BY <1>7, <2>1
    <3> HIDE DEF new
    <3>2. versions' = [versions EXCEPT ![s] = <<new>>]
      BY <2>2 DEF new
    <3> SUFFICES ASSUME NEW q \in Split, NEW v \in DOMAIN versions'[q]
                 PROVE  Sum(versions'[q][v].shares) = versions'[q][v].total
      BY DEF SharesSum
    <3>3. CASE q = s
      <4>1. versions'[q] = <<new>>
        BY <1>1, <3>2, <3>3 DEF TypeOK
      <4> QED BY <3>1, <4>1
    <3>4. CASE q # s
      BY <1>1, <3>2, <3>4 DEF TypeOK, SharesSum
    <3> QED BY <3>3, <3>4
  <2>3. SharesSum'
    BY <1>2, <1>8, <2>2 DEF CreateSplit, r
  <2> QED BY <1>4, <1>8, <2>3 DEF CreateSplit, SumInv
<1>9. ASSUME NEW h \in Handler, UpdateSplit(h) PROVE Goal
  <2> DEFINE r == req[h]
  <2>1. /\ r \in Creation \cup Revision /\ Sum(r.shares) = r.total
        /\ r.split \in Split /\ r.expect \in Nat
    BY <1>1, <1>9, CommitRequest, RequestFields DEF UpdateSplit, ProposalsSum
  <2> HIDE DEF r
  <2>2. ASSUME versions' = [versions EXCEPT ![r.split] = Append(@, Version(r, r.expect))]
        PROVE  SharesSum'
    <3> DEFINE new == Version(r, r.expect)
               old == versions[r.split]
    <3>1. Sum(new.shares) = new.total /\ new \in VersionType
      BY <1>7, <2>1, VersionTyped
    <3>2. old \in Seq(VersionType) /\ versions'[r.split] = Append(old, new)
          /\ \A q \in Split : q # r.split => versions'[q] = versions[q]
      BY <1>1, <2>1, <2>2 DEF TypeOK
    <3>3. \A i \in DOMAIN old : Sum(old[i].shares) = old[i].total
      BY <1>1, <2>1 DEF SharesSum
    <3> HIDE DEF new, old
    <3>4. /\ DOMAIN Append(old, new) = 1..(Len(old) + 1)
          /\ Append(old, new)[Len(old) + 1] = new
          /\ \A i \in 1..Len(old) : i \in DOMAIN old /\ Append(old, new)[i] = old[i]
      BY <3>1, <3>2, AppendProperties
    <3> SUFFICES ASSUME NEW q \in Split, NEW v \in DOMAIN versions'[q]
                 PROVE  Sum(versions'[q][v].shares) = versions'[q][v].total
      BY DEF SharesSum
    <3>5. CASE q = r.split
      <4>1. v \in 1..Len(old) \/ v = Len(old) + 1
        <5>1. v \in 1..(Len(old) + 1) /\ Len(old) \in Nat
          BY <3>2, <3>4, <3>5
        <5> QED BY <5>1
      <4>2. CASE v = Len(old) + 1
        BY <3>1, <3>2, <3>4, <3>5, <4>2
      <4>3. CASE v \in 1..Len(old)
        BY <3>2, <3>3, <3>4, <3>5, <4>3
      <4> QED BY <4>1, <4>2, <4>3
    <3>6. CASE q # r.split
      BY <1>1, <3>2, <3>6 DEF SharesSum
    <3> QED BY <3>5, <3>6
  <2>3. SharesSum'
    BY <1>2, <1>9, <2>2 DEF UpdateSplit, r
  <2> QED BY <1>4, <1>9, <2>3 DEF UpdateSplit, SumInv
<1>10. ASSUME NEW h \in Handler, AcceptSplit(h) PROVE Goal
  <2> DEFINE r == req[h]
             v == Len(versions[r.split])
             cur == Current(r.split)
             all == cur.accepted \cup {r.who}
  <2>1. r.split \in Split
    BY <1>1, <1>10, CommitRequest, RequestFields DEF AcceptSplit
  <2> HIDE DEF r
  <2>2. ASSUME MayAccept(r),
               versions' = [versions EXCEPT ![r.split][v] =
                              [cur EXCEPT !.accepted = all, !.status = StatusOf(cur, all)]]
        PROVE  SharesSum'
    <3> DEFINE old == versions[r.split]
               new == [cur EXCEPT !.accepted = all, !.status = StatusOf(cur, all)]
    <3>1. old \in Seq(VersionType) /\ v \in 1..Len(old) /\ v \in DOMAIN old
          /\ cur = old[v] /\ cur \in VersionType
      BY <1>1, <2>1, <2>2, LiveVersion DEF MayAccept, StillExpected, Current
    <3>2. new.shares = cur.shares /\ new.total = cur.total
      <4> HIDE DEF all, cur
      <4> QED BY <3>1 DEF VersionType
    <3>3. Sum(new.shares) = new.total
      BY <1>1, <2>1, <3>1, <3>2 DEF SharesSum
    <3>4. versions'[r.split] = [old EXCEPT ![v] = new]
          /\ \A q \in Split : q # r.split => versions'[q] = versions[q]
      BY <1>1, <2>1, <2>2 DEF TypeOK
    <3>5. \A i \in DOMAIN old : Sum(old[i].shares) = old[i].total
      BY <1>1, <2>1 DEF SharesSum
    <3> HIDE DEF old, new, v, cur, all
    <3> SUFFICES ASSUME NEW q \in Split, NEW i \in DOMAIN versions'[q]
                 PROVE  Sum(versions'[q][i].shares) = versions'[q][i].total
      BY DEF SharesSum
    <3>6. CASE q = r.split
      <4>1. i \in DOMAIN old /\ versions'[q][i] = IF i = v THEN new ELSE old[i]
        BY <3>1, <3>4, <3>6
      <4> QED BY <3>3, <3>5, <4>1
    <3>7. CASE q # r.split
      BY <1>1, <3>4, <3>7 DEF SharesSum
    <3> QED BY <3>6, <3>7
  <2>3. SharesSum'
    BY <1>2, <1>10, <2>2 DEF AcceptSplit, r
  <2> QED BY <1>4, <1>10, <2>3 DEF AcceptSplit, SumInv
<1>11. ASSUME NEW u \in User, NEW k \in scope.keys, NEW in \in SettlementInputs,
              RecordSettlement(u, k, in)
       PROVE  Goal
  BY <1>2, <1>3, <1>11 DEF RecordSettlement, social, SumInv
<1>12. ASSUME NEW u \in User, ChangeAccess(u) PROVE Goal
  BY <1>2, <1>3, <1>12 DEF ChangeAccess, social, SumInv
<1>13. ASSUME NEW u \in User, ClearModel(u) PROVE Goal
  <2>1. \A s \in Split : versions'[s] = <<>> \/ versions'[s] = versions[s]
    BY <1>13 DEF ClearModel
  <2>2. SharesSum'
    BY <1>1, <2>1 DEF SharesSum
  <2> QED BY <1>3, <1>13, <2>2 DEF ClearModel, SumInv
<1>14. ASSUME Restart PROVE Goal
  <2>1. ProposalsSum'
    BY <1>14 DEF Restart, ProposalsSum
  <2> QED BY <1>2, <1>14, <2>1 DEF Restart, social, SumInv
<1>15. ASSUME UNCHANGED vars PROVE Goal
  BY <1>2, <1>3, <1>15 DEF vars, social, SumInv
<1> HIDE DEF Goal
<1>16. ASSUME Step PROVE Goal
  <2>1. ASSUME NEW h \in Handler,
               \/ \E u \in User, k \in scope.keys : \E r \in Requests(u, k) : Begin(h, r)
               \/ Authorize(h) \/ CreateSplit(h) \/ UpdateSplit(h) \/ AcceptSplit(h)
        PROVE  Goal
    BY <1>5, <1>6, <1>8, <1>9, <1>10, <2>1
  <2> QED BY <1>11, <1>12, <1>13, <1>14, <1>16, <2>1 DEF Step
<1> QED BY <1>15, <1>16 DEF Next, Goal

(* sharing/splits.go and the settlement schema: each version replaces the  *)
(* one its author had read and is accepted when everyone it binds has      *)
(* accepted it, its shares sum to its total, and no payment or key is      *)
(* counted in two settlements.                                             *)
THEOREM HistoryAlwaysSound == Spec => []HistorySound
<1>1. Init => SumInv
  BY SumInit
<1>2. IndInv /\ SumInv /\ [Next]_vars => SumInv'
  BY SumStep
<1>3. IndInv /\ SumInv => HistorySound
  BY DEF IndInv, SumInv, HistorySound, VersionsSound
<1> QED BY <1>1, <1>2, <1>3, Invariant, PTL DEF Spec
=============================================================================
