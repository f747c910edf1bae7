---------------------------- MODULE BankSyncProofs ----------------------------
(***************************************************************************)
(* Proofs about BankSync, for every set of charges and bank ids, every     *)
(* tolerance and any number of rows one bank id is inserted under.         *)
(***************************************************************************)
EXTENDS BankSync, WellFoundedInduction, TLAPS

-----------------------------------------------------------------------------
(* The inductive invariant.                                                *)

(* An occurrence the owner recorded is never a hold, and neither is a void *)
(* row.                                                                    *)
RowsSound ==
  \A i \in RowId : rows[i] # None => ~(rows[i].pending /\ (rows[i].claim \/ rows[i].void))

(* What a plan relies on when it is applied: since its rows were read only *)
(* the owner wrote, who gives no row a bank id.                            *)
PlanSound(p) ==
  /\ \A m \in p.converts : keyRow[postKey[m[2]]] = None /\ m[2] \notin p.posts
  /\ \A m, n \in p.converts : m[1] = n[1] \/ m[2] = n[2] => m = n

PlansSound == \A c \in Caller : flight[c].phase = "apply" => PlanSound(flight[c].plan)

(* A row with posted values holds the id of the posted charge.             *)
PostedKeyed ==
  \A i \in RowId : rows[i] # None /\ rows[i].val.posted =>
    keyRow[postKey[rows[i].val.charge]] = i

IndInv == TypeOK /\ BridgeGuarded /\ RowsSound /\ PlansSound /\ PostedKeyed

-----------------------------------------------------------------------------
(* What applying a plan makes of a row.                                    *)

LEMMA PlanTyped ==
  ASSUME NEW p \in PlanType
  PROVE  /\ p.seeds \subseteq Charge /\ p.posts \subseteq Charge
         /\ p.converts \subseteq RowId \X Charge /\ p.voids \subseteq RowId
BY DEF PlanType

LEMMA UpsertShape ==
  ASSUME NEW p \in PlanType, NEW u \in Upserts(p)
  PROVE  /\ u.key \in Key /\ u.val \in Value /\ u.key \notin suppressed
         /\ u.val.posted => u.val.charge \in p.posts /\ u.key = postKey[u.val.charge]
<1>1. /\ u \in {[key |-> authKey[c], val |-> Authorized(c)] : c \in p.seeds}
              \cup {[key |-> postKey[c], val |-> Posted(c)] : c \in p.posts}
      /\ u.key \notin suppressed
  BY DEF Upserts, SuppressedUpsert
<1>2. CASE u \in {[key |-> authKey[c], val |-> Authorized(c)] : c \in p.seeds}
  <2>1. PICK c \in p.seeds : u = [key |-> authKey[c], val |-> Authorized(c)]
    BY <1>2
  <2>2. c \in Charge
    BY <2>1, PlanTyped
  <2> QED BY <1>1, <2>1, <2>2, BankAssumption DEF Authorized, Value
<1>3. CASE u \in {[key |-> postKey[c], val |-> Posted(c)] : c \in p.posts}
  <2>1. PICK c \in p.posts : u = [key |-> postKey[c], val |-> Posted(c)]
    BY <1>3
  <2>2. c \in Charge
    BY <2>1, PlanTyped
  <2> QED BY <1>1, <2>1, <2>2, BankAssumption DEF Posted, Value
<1> QED BY <1>1, <1>2, <1>3

(* The least free generation names the new row.                            *)
LEMMA NewRow ==
  ASSUME NEW k \in Key, FreeNames(k) # {}
  PROVE  NewRowId(k) \in RowId /\ rows[NewRowId(k)] = None
<1> DEFINE F == FreeNames(k)
           n == CHOOSE a \in F : \A o \in F : a <= o
<1>1. F \subseteq Nat /\ F # {} /\ F \subseteq 1..Generations
  BY BankAssumption DEF FreeNames
<1>2. \E a \in F : \A o \in F : a <= o
  <2> HIDE DEF F
  <2>1. PICK a \in F : \A o \in F : <<o, a>> \notin OpToRel(<, Nat)
    BY <1>1, WFMin, NatLessThanWellFounded, Zenon
  <2>2. \A o \in F : ~(o < a)
    <3>1. \A o \in F : <<o, a>> \in Nat \X Nat
      BY <1>1, <2>1
    <3> QED BY <2>1, <3>1, Zenon DEF OpToRel
  <2>3. a \in F
    OBVIOUS
  <2> QED BY <1>1, <2>2, <2>3
<1>3. n \in F
  <2> HIDE DEF F
  <2> QED BY <1>2
<1>4. NewRowId(k) = <<k, n>>
  BY DEF NewRowId
<1> HIDE DEF n
<1> QED BY <1>1, <1>3, <1>4 DEF RowId, FreeNames

LEMMA TargetTyped ==
  ASSUME TypeOK, NEW p \in PlanType, NEW u \in Upserts(p),
         keyRow[u.key] = None => FreeNames(u.key) # {}
  PROVE  UpsertTarget(u) \in RowId
BY UpsertShape, NewRow DEF TypeOK, UpsertTarget

WrittenBy(i, u) == IF rows[i] = None THEN InsertedRow(u.val) ELSE WriteBankValues(rows[i], u.val)

(* A row takes the values of a charge upserted to it, or of the charge it  *)
(* converts to, or it keeps its values.                                    *)
LEMMA ApplyCases ==
  ASSUME NEW p, NEW i
  PROVE  \/ \E u \in Upserts(p) : UpsertTarget(u) = i /\ ApplyRow(i, p) = WrittenBy(i, u)
         \/ /\ \A u \in Upserts(p) : UpsertTarget(u) # i
            /\ \E m \in LiveConverts(p) :
                 m[1] = i /\ ApplyRow(i, p) = WriteBankValues(rows[i], Posted(m[2]))
         \/ /\ \A u \in Upserts(p) : UpsertTarget(u) # i
            /\ \A m \in LiveConverts(p) : m[1] # i
            /\ ApplyRow(i, p) = rows[i] \/ ApplyRow(i, p) = VoidedRow(i)
<1>1. CASE \E u \in Upserts(p) : UpsertTarget(u) = i
  <2> DEFINE u == CHOOSE w \in Upserts(p) : UpsertTarget(w) = i
  <2>1. u \in Upserts(p) /\ UpsertTarget(u) = i
    BY <1>1
  <2>2. i \in {UpsertTarget(w) : w \in Upserts(p)}
    BY <1>1
  <2>3. ApplyRow(i, p) = UpsertedRow(i, p)
    BY <2>2 DEF ApplyRow
  <2>4. UpsertedRow(i, p) = WrittenBy(i, u)
    BY DEF UpsertedRow, WrittenBy
  <2> HIDE DEF u
  <2> QED BY <2>1, <2>3, <2>4
<1>2. CASE /\ \A u \in Upserts(p) : UpsertTarget(u) # i
           /\ \E m \in LiveConverts(p) : m[1] = i
  <2> DEFINE m == CHOOSE n \in LiveConverts(p) : n[1] = i
  <2>1. m \in LiveConverts(p) /\ m[1] = i
    BY <1>2
  <2>2. i \notin {UpsertTarget(w) : w \in Upserts(p)} /\ i \in {n[1] : n \in LiveConverts(p)}
    BY <1>2
  <2>3. ApplyRow(i, p) = ConvertedRow(i, p)
    BY <2>2 DEF ApplyRow
  <2>4. ConvertedRow(i, p) = WriteBankValues(rows[i], Posted(m[2]))
    BY DEF ConvertedRow
  <2> HIDE DEF m
  <2> QED BY <1>2, <2>1, <2>3, <2>4
<1>3. CASE /\ \A u \in Upserts(p) : UpsertTarget(u) # i
           /\ \A m \in LiveConverts(p) : m[1] # i
  <2>1. ApplyRow(i, p) = IF i \in p.voids THEN VoidedRow(i) ELSE rows[i]
    BY <1>3 DEF ApplyRow
  <2> QED BY <1>3, <2>1
<1> QED BY <1>1, <1>2, <1>3

LEMMA WriteShape ==
  ASSUME NEW r \in Row, NEW v \in Value
  PROVE  WriteBankValues(r, v) =
           [val |-> v, pending |-> ~v.posted /\ ~r.claim, void |-> FALSE,
            enabled |-> v.posted \/ r.claim, claim |-> r.claim]
<1> DEFINE pending == ~v.posted /\ ~r.claim
           enabled == v.posted \/ r.claim
<1>1. WriteBankValues(r, v) =
        [r EXCEPT !.val = v, !.void = FALSE, !.pending = pending, !.enabled = enabled]
  BY DEF WriteBankValues
<1> HIDE DEF pending, enabled
<1>2. WriteBankValues(r, v) =
        [val |-> v, pending |-> pending, void |-> FALSE, enabled |-> enabled, claim |-> r.claim]
  BY <1>1 DEF Row
<1> QED BY <1>2 DEF pending, enabled

LEMMA VoidShape ==
  ASSUME NEW i, rows[i] \in Row, rows[i].pending
  PROVE  VoidedRow(i) = [val |-> rows[i].val, pending |-> FALSE, void |-> TRUE,
                         enabled |-> FALSE, claim |-> rows[i].claim]
BY NoneAssumption DEF VoidedRow, Row

(* The row as the bank left it: typed, still there, claimed as before, and *)
(* enabled by the bank only with posted values or a claim.                 *)
BankLeft(old, new) ==
  /\ new \in Row \cup {None}
  /\ old # None => new # None /\ new.claim = old.claim
  /\ new # None => ~(new.pending /\ (new.claim \/ new.void))
  /\ new # None /\ old = None => ~new.claim
  /\ new # None /\ new.enabled => new = old \/ new.val.posted \/ new.claim
  /\ StatusOf(new) \in Lifecycle!BankMoves(StatusOf(old), old # None /\ old.claim)

LEMMA ApplyLeaves ==
  ASSUME TypeOK, RowsSound, NEW p \in PlanType, NEW i \in RowId
  PROVE  BankLeft(rows[i], ApplyRow(i, p))
<1>1. rows[i] \in Row \cup {None} /\ None \notin Row
  BY NoneAssumption DEF TypeOK
<1>2. rows[i] # None => ~(rows[i].pending /\ (rows[i].claim \/ rows[i].void))
  BY DEF RowsSound
<1> DEFINE old == rows[i]
<1>3. ASSUME NEW v \in Value, old = None
      PROVE  BankLeft(old, InsertedRow(v))
  <2>1. InsertedRow(v) \in Row
    BY DEF InsertedRow, Row, Value
  <2>2. InsertedRow(v) # None
    BY <1>1, <2>1
  <2>3. v.posted \in BOOLEAN
    BY DEF Value
  <2> QED BY <1>3, <2>1, <2>2, <2>3
        DEF BankLeft, InsertedRow, StatusOf, Lifecycle!BankMoves
<1>4. ASSUME NEW v \in Value, old # None
      PROVE  BankLeft(old, WriteBankValues(old, v))
  <2>1. old \in Row
    BY <1>1, <1>4
  <2> HIDE DEF old
  <2> DEFINE new == WriteBankValues(old, v)
  <2>2. new = [val |-> v, pending |-> ~v.posted /\ ~old.claim, void |-> FALSE,
               enabled |-> v.posted \/ old.claim, claim |-> old.claim]
    BY <2>1, WriteShape
  <2>3. v.posted \in BOOLEAN /\ old.claim \in BOOLEAN /\ old.pending \in BOOLEAN /\ old.void \in BOOLEAN
    BY <2>1 DEF Value, Row
  <2> HIDE DEF new
  <2>4. new \in Row
    BY <2>2, <2>3 DEF Row
  <2>5. new # None
    BY <1>1, <2>4
  <2>6. new.val = v /\ (new.pending <=> ~v.posted /\ ~old.claim) /\ ~new.void
        /\ (new.enabled <=> v.posted \/ old.claim) /\ new.claim = old.claim
    BY <2>2
  <2>7. StatusOf(new) = IF v.posted \/ old.claim THEN "settled" ELSE "hold"
    BY <2>3, <2>5, <2>6 DEF StatusOf
  <2>8. StatusOf(old) \in {"hold", "void", "settled"}
    BY <1>4 DEF StatusOf
  <2>9. StatusOf(new) \in Lifecycle!BankMoves(StatusOf(old), old # None /\ old.claim)
    BY <1>2, <1>4, <2>7, <2>8 DEF old, Lifecycle!BankMoves
  <2>10. new.enabled => new.val.posted \/ new.claim
    BY <2>6
  <2>11. ~(new.pending /\ (new.claim \/ new.void))
    BY <2>6
  <2>12. BankLeft(old, new)
    BY <1>4, <2>4, <2>5, <2>6, <2>9, <2>10, <2>11 DEF BankLeft, old
  <2> QED BY <2>12 DEF new, old
<1>5. BankLeft(old, old)
  BY <1>1, <1>2 DEF BankLeft, StatusOf, Lifecycle!BankMoves
<1>6. BankLeft(old, VoidedRow(i))
  <2>1. CASE old # None /\ old.pending
    <3>1. old \in Row
      BY <1>1, <2>1
    <3>2. VoidedRow(i) = [val |-> old.val, pending |-> FALSE, void |-> TRUE,
                          enabled |-> FALSE, claim |-> old.claim]
      BY <2>1, <3>1, VoidShape
    <3> HIDE DEF old
    <3>3. old.val \in Value /\ old.claim \in BOOLEAN
      BY <3>1 DEF Row
    <3>4. VoidedRow(i) \in Row
      BY <3>2, <3>3 DEF Row
    <3>5. VoidedRow(i) # None
      BY <1>1, <3>4
    <3> QED BY <2>1, <3>2, <3>3, <3>4, <3>5 DEF BankLeft, StatusOf, Lifecycle!BankMoves
  <2>2. CASE ~(old # None /\ old.pending)
    BY <1>5, <2>2 DEF VoidedRow
  <2> QED BY <2>1, <2>2
<1>7. ASSUME NEW u \in Upserts(p) PROVE BankLeft(old, WrittenBy(i, u))
  BY <1>3, <1>4, UpsertShape DEF WrittenBy
<1>8. ASSUME NEW m \in LiveConverts(p), m[1] = i PROVE BankLeft(old, WriteBankValues(old, Posted(m[2])))
  <2>1. m \in p.converts /\ old # None
    BY <1>8 DEF LiveConverts
  <2>2. m[2] \in Charge
    BY <2>1, PlanTyped
  <2>3. Posted(m[2]) \in Value
    BY <2>2 DEF Posted, Value
  <2> QED BY <1>4, <2>1, <2>3
<1> QED BY <1>5, <1>6, <1>7, <1>8, ApplyCases

(* What applying a plan makes of a bank id.                                *)
LEMMA KeyCases ==
  ASSUME NEW p, NEW k
  PROVE  \/ \E m \in LiveConverts(p) : postKey[m[2]] = k /\ ApplyKey(k, p) = m[1]
         \/ /\ \A m \in LiveConverts(p) : postKey[m[2]] # k
            /\ \E u \in Upserts(p) : u.key = k
            /\ \A u \in Upserts(p) : u.key = k => ApplyKey(k, p) = UpsertTarget(u)
         \/ /\ \A m \in LiveConverts(p) : postKey[m[2]] # k
            /\ \A u \in Upserts(p) : u.key # k
            /\ \/ \E m \in LiveConverts(p) : keyRow[k] = m[1] /\ ApplyKey(k, p) = None
               \/ ApplyKey(k, p) = keyRow[k]
<1>1. CASE \E m \in LiveConverts(p) : postKey[m[2]] = k
  <2> DEFINE m == CHOOSE n \in LiveConverts(p) : postKey[n[2]] = k
  <2>1. m \in LiveConverts(p) /\ postKey[m[2]] = k
    BY <1>1
  <2>2. k \in {postKey[n[2]] : n \in LiveConverts(p)}
    BY <1>1
  <2>3. ApplyKey(k, p) = m[1]
    BY <2>2 DEF ApplyKey
  <2> HIDE DEF m
  <2> QED BY <2>1, <2>3
<1>2. CASE /\ \A m \in LiveConverts(p) : postKey[m[2]] # k
           /\ \E u \in Upserts(p) : u.key = k
  <2> DEFINE u == CHOOSE w \in Upserts(p) : w.key = k
  <2>1. u \in Upserts(p) /\ u.key = k
    BY <1>2
  <2>2. k \notin {postKey[n[2]] : n \in LiveConverts(p)} /\ k \in {w.key : w \in Upserts(p)}
    BY <1>2
  <2>3. ApplyKey(k, p) = UpsertTarget(u)
    BY <2>2 DEF ApplyKey
  <2> HIDE DEF u
  <2>4. \A w \in Upserts(p) : w.key = k => UpsertTarget(w) = UpsertTarget(u)
    BY <2>1 DEF UpsertTarget
  <2> QED BY <1>2, <2>3, <2>4
<1>3. CASE /\ \A m \in LiveConverts(p) : postKey[m[2]] # k
           /\ \A u \in Upserts(p) : u.key # k
  <2>1. k \notin {postKey[n[2]] : n \in LiveConverts(p)} /\ k \notin {w.key : w \in Upserts(p)}
    BY <1>3
  <2>2. ApplyKey(k, p) = IF keyRow[k] \in {m[1] : m \in LiveConverts(p)} THEN None ELSE keyRow[k]
    BY <2>1 DEF ApplyKey
  <2> QED BY <1>3, <2>2
<1> QED BY <1>1, <1>2, <1>3

LEMMA UpsertStores ==
  ASSUME TypeOK, RowsSound, NEW p \in PlanType, NEW i \in RowId, NEW u \in Upserts(p),
         UpsertTarget(u) = i
  PROVE  ApplyRow(i, p) # None
<1>1. PICK w \in Upserts(p) : ApplyRow(i, p) = WrittenBy(i, w)
  BY ApplyCases
<1>2. ASSUME rows[i] = None PROVE InsertedRow(w.val) # None
  <2>1. InsertedRow(w.val) \in Row
    BY UpsertShape DEF InsertedRow, Row, Value
  <2> QED BY <2>1, NoneAssumption
<1>3. rows[i] # None => ApplyRow(i, p) # None
  BY ApplyLeaves DEF BankLeft
<1> QED BY <1>1, <1>2, <1>3 DEF WrittenBy

(* Applying a plan leaves the tables typed, and no bank id points at a row *)
(* that is not stored.                                                     *)
LEMMA ApplyTyped ==
  ASSUME TypeOK, RowsSound, NEW p \in PlanType, ApplyBankDirectives(p)
  PROVE  /\ rows' \in [RowId -> Row \cup {None}]
         /\ keyRow' \in [Key -> RowId \cup {None}]
         /\ \A k \in Key : keyRow'[k] # None => rows'[keyRow'[k]] # None
         /\ RowsSound'
<1>1. /\ \A u \in Upserts(p) : keyRow[u.key] = None => FreeNames(u.key) # {}
      /\ rows' = [i \in RowId |-> ApplyRow(i, p)]
      /\ keyRow' = [k \in Key |-> ApplyKey(k, p)]
  BY DEF ApplyBankDirectives
<1>2. \A i \in RowId : BankLeft(rows[i], rows'[i])
  BY <1>1, ApplyLeaves
<1>3. rows' \in [RowId -> Row \cup {None}]
  <2>1. \A i \in RowId : ApplyRow(i, p) \in Row \cup {None}
    BY ApplyLeaves DEF BankLeft
  <2> QED BY <1>1, <2>1
<1>4. RowsSound'
  BY <1>2 DEF RowsSound, BankLeft
<1>5. \A m \in LiveConverts(p) : m[1] \in RowId /\ rows[m[1]] # None
  BY PlanTyped DEF LiveConverts
<1>6. ASSUME NEW k \in Key
      PROVE  keyRow'[k] \in RowId \cup {None} /\ (keyRow'[k] # None => rows'[keyRow'[k]] # None)
  <2>1. keyRow'[k] = ApplyKey(k, p)
    BY <1>1
  <2>2. ASSUME NEW m \in LiveConverts(p), ApplyKey(k, p) = m[1]
        PROVE  keyRow'[k] \in RowId /\ rows'[keyRow'[k]] # None
    BY <1>2, <1>5, <2>1, <2>2 DEF BankLeft
  <2>3. ASSUME NEW u \in Upserts(p), ApplyKey(k, p) = UpsertTarget(u)
        PROVE  keyRow'[k] \in RowId /\ rows'[keyRow'[k]] # None
    <3>1. UpsertTarget(u) \in RowId
      BY <1>1, TargetTyped
    <3>2. ApplyRow(UpsertTarget(u), p) # None
      BY <3>1, UpsertStores
    <3> QED BY <1>1, <2>1, <2>3, <3>1, <3>2
  <2>4. ASSUME ApplyKey(k, p) = keyRow[k], keyRow[k] # None
        PROVE  keyRow'[k] \in RowId /\ rows'[keyRow'[k]] # None
    <3>1. keyRow[k] \in RowId /\ rows[keyRow[k]] # None
      BY <2>4 DEF TypeOK
    <3> QED BY <1>2, <2>1, <2>4, <3>1 DEF BankLeft
  <2> QED BY <2>1, <2>2, <2>3, <2>4, KeyCases
<1>7. keyRow' \in [Key -> RowId \cup {None}]
  <2>1. \A k \in Key : ApplyKey(k, p) \in RowId \cup {None}
    BY <1>1, <1>6
  <2> QED BY <1>1, <2>1
<1> QED BY <1>3, <1>4, <1>6, <1>7

(* Applying a sound plan leaves every row with posted values under the id  *)
(* of its charge: a charge that is upserted has its id pointed at the row  *)
(* it lands on, a charge that is converted had no id and gets its row's,   *)
(* and no other id of a charge moves unless its row does.                  *)
LEMMA ApplyKeyed ==
  ASSUME TypeOK, RowsSound, PostedKeyed, NEW p \in PlanType, PlanSound(p),
         ApplyBankDirectives(p)
  PROVE  PostedKeyed'
<1>1. /\ rows' = [i \in RowId |-> ApplyRow(i, p)]
      /\ keyRow' = [k \in Key |-> ApplyKey(k, p)]
  BY DEF ApplyBankDirectives
<1> SUFFICES ASSUME NEW i \in RowId, rows'[i] # None, rows'[i].val.posted
             PROVE  keyRow'[postKey[rows'[i].val.charge]] = i
  BY DEF PostedKeyed
<1> DEFINE c == rows'[i].val.charge
           k == postKey[c]
<1>2. rows'[i] = ApplyRow(i, p) /\ rows'[i] \in Row
  BY <1>1, ApplyTyped
<1>3. c \in Charge /\ k \in Key /\ keyRow'[k] = ApplyKey(k, p)
  BY <1>1, <1>2, BankAssumption DEF Row, Value
<1>4. \A d \in Charge : postKey[d] = k => d = c
  BY <1>3, KeysDistinct
<1> HIDE DEF c, k
<1>5. \A m \in LiveConverts(p) : /\ m \in p.converts /\ m[1] \in RowId /\ m[2] \in Charge
                                 /\ rows[m[1]] # None
  BY PlanTyped DEF LiveConverts
<1>6. ASSUME NEW u \in Upserts(p), UpsertTarget(u) = i, ApplyRow(i, p) = WrittenBy(i, u)
      PROVE  ApplyKey(k, p) = i
  <2>1. u.val \in Value /\ rows'[i].val = u.val
    <3>1. rows[i] # None => rows[i] \in Row
      BY DEF TypeOK
    <3>2. u.val \in Value
      BY UpsertShape
    <3>3. rows[i] # None => WriteBankValues(rows[i], u.val).val = u.val
      BY <3>1, <3>2, WriteShape
    <3> QED BY <1>2, <1>6, <3>2, <3>3 DEF WrittenBy, InsertedRow
  <2>2. u.val.charge = c /\ c \in p.posts /\ u.key = k
    BY <2>1, UpsertShape DEF c, k
  <2>3. \A m \in LiveConverts(p) : postKey[m[2]] # k
    BY <1>4, <1>5, <2>2 DEF PlanSound
  <2> QED BY <1>6, <2>2, <2>3, KeyCases
<1>7. ASSUME NEW m \in LiveConverts(p), m[1] = i,
             ApplyRow(i, p) = WriteBankValues(rows[i], Posted(m[2]))
      PROVE  ApplyKey(k, p) = i
  <2>1. rows[i] \in Row /\ Posted(m[2]) \in Value
    BY <1>5, <1>7 DEF TypeOK, Posted, Value
  <2>2. rows'[i].val = Posted(m[2])
    BY <1>2, <1>7, <2>1, WriteShape
  <2>3. m[2] = c /\ postKey[m[2]] = k
    BY <2>2 DEF c, k, Posted
  <2>4. \A n \in LiveConverts(p) : postKey[n[2]] = k => n = m
    BY <1>4, <1>5, <2>3 DEF PlanSound
  <2> QED BY <1>7, <2>3, <2>4, KeyCases
<1>8. ASSUME \A u \in Upserts(p) : UpsertTarget(u) # i, \A m \in LiveConverts(p) : m[1] # i,
             ApplyRow(i, p) = rows[i] \/ ApplyRow(i, p) = VoidedRow(i)
      PROVE  ApplyKey(k, p) = i
  <2>1. rows[i] # None /\ rows[i].val = rows'[i].val
    <3>1. rows[i] # None
      BY <1>2, <1>8 DEF VoidedRow
    <3>2. rows[i] \in Row
      BY <3>1 DEF TypeOK
    <3> QED BY <1>2, <1>8, <3>1, <3>2, VoidShape DEF VoidedRow
  <2>2. keyRow[k] = i /\ i # None
    BY <2>1, NoneAssumption DEF PostedKeyed, c, k
  <2>3. \A m \in LiveConverts(p) : postKey[m[2]] # k /\ keyRow[k] # m[1]
    BY <1>5, <1>8, <2>2 DEF PlanSound
  <2>4. \A u \in Upserts(p) : u.key # k
    BY <1>8, <2>2 DEF UpsertTarget
  <2> QED BY <2>2, <2>3, <2>4, KeyCases
<1>9. ApplyKey(k, p) = i
  BY <1>6, <1>7, <1>8, ApplyCases
<1> QED BY <1>3, <1>9 DEF k, c

-----------------------------------------------------------------------------
(* The other steps.                                                        *)

(* A plan is sound for the rows it was made from.                          *)
LEMMA ReconcileSound ==
  ASSUME NEW f \in FeedType
  PROVE  Reconcile(f) \in PlanType /\ PlanSound(Reconcile(f))
<1>1. f.pending \subseteq Charge /\ f.settled \subseteq Charge
  BY DEF FeedType
<1>2. Candidates(f) \subseteq Charge
  BY <1>1 DEF Candidates
<1>3. ConvertTargets(f) \subseteq RowId /\ Voids(f) \subseteq RowId
  BY DEF ConvertTargets, Voids, HasKey, Stored
<1>4. Matches(f) \subseteq RowId \X Charge
  BY <1>2, <1>3 DEF Matches
<1>5. ASSUME NEW m \in Conversions(f)
      PROVE  m \in Matches(f) /\ keyRow[postKey[m[2]]] = None
  <2>1. m \in Matches(f)
    BY DEF Conversions
  <2>2. m \in ConvertTargets(f) \X {c \in Candidates(f) : keyRow[postKey[c]] = None}
    BY <2>1 DEF Matches
  <2> QED BY <2>1, <2>2
<1>6. \A m, n \in Conversions(f) : m[1] = n[1] \/ m[2] = n[2] => m = n
  BY DEF Conversions
<1> DEFINE posts == Candidates(f) \ {m[2] : m \in Conversions(f)}
<1>7. posts \subseteq Charge /\ \A m \in Conversions(f) : m[2] \notin posts
  BY <1>2
<1>8. Reconcile(f) = [seeds |-> f.pending, converts |-> Conversions(f),
                      voids |-> Voids(f), posts |-> posts]
  BY DEF Reconcile
<1>9. Conversions(f) \subseteq RowId \X Charge
  BY <1>4, <1>5
<1> HIDE DEF posts
<1>10. Reconcile(f) \in PlanType
  BY <1>1, <1>3, <1>7, <1>8, <1>9 DEF PlanType
<1>11. PlanSound(Reconcile(f))
  BY <1>5, <1>6, <1>7, <1>8 DEF PlanSound
<1> QED BY <1>10, <1>11

(* The owner changes flags of one row and nothing else of it.              *)
OwnerEdit(i, r) ==
  /\ i \in RowId /\ rows[i] # None
  /\ r \in Row /\ r.val = rows[i].val /\ ~(r.pending /\ (r.claim \/ r.void))
  /\ StatusOf(r) \in {StatusOf(rows[i]), "settled"}
  /\ rows' = [rows EXCEPT ![i] = r]
  /\ UNCHANGED <<keyRow, suppressed>>

LEMMA ClaimEdits ==
  ASSUME TypeOK, RowsSound, NEW i \in RowId, SetTransactionClaim(i)
  PROVE  \E r : OwnerEdit(i, r)
<1> DEFINE old == rows[i]
           claiming == old.pending /\ ~old.claim
           pending == old.pending /\ ~claiming
           enabled == old.enabled \/ claiming
           new == [old EXCEPT !.claim = TRUE, !.pending = pending, !.enabled = enabled]
<1>1. old \in Row /\ old # None /\ ~(old.pending /\ (old.claim \/ old.void))
  BY DEF SetTransactionClaim, TypeOK, RowsSound
<1>2. /\ old.pending \in BOOLEAN /\ old.void \in BOOLEAN /\ old.enabled \in BOOLEAN
      /\ old.claim \in BOOLEAN /\ old.val \in Value
  BY <1>1 DEF Row
<1>3. rows' = [rows EXCEPT ![i].claim = TRUE, ![i].pending = @ /\ ~claiming,
                           ![i].enabled = @ \/ claiming]
  BY DEF SetTransactionClaim
<1>4. pending \in BOOLEAN /\ enabled \in BOOLEAN /\ ~pending
  BY <1>1, <1>2
<1>5. rows' = [rows EXCEPT ![i] = [old EXCEPT !.claim = TRUE, !.pending = pending,
                                              !.enabled = enabled]]
  BY <1>3 DEF TypeOK
<1> HIDE DEF pending, enabled, claiming
<1>6. UNCHANGED <<keyRow, suppressed>>
  BY DEF SetTransactionClaim
<1>7. new \in Row /\ new.val = old.val /\ ~new.pending /\ new.void = old.void
  <2>1. new = [old EXCEPT !.claim = TRUE, !.pending = pending, !.enabled = enabled]
    OBVIOUS
  <2> DEFINE void == old.void
             yes == TRUE
  <2>2. yes \in BOOLEAN /\ void \in BOOLEAN /\ void = old.void
    BY <1>2
  <2>3. new = [old EXCEPT !.claim = yes, !.pending = pending, !.enabled = enabled]
    BY <2>1
  <2> HIDE DEF old, new, void, yes
  <2> QED BY <1>1, <1>4, <2>2, <2>3 DEF Row
<1>8. rows' = [rows EXCEPT ![i] = new]
  BY <1>5
<1>9. new # None
  BY <1>7, NoneAssumption
<1> HIDE DEF new, old
<1>10. StatusOf(new) \in {StatusOf(old), "settled"}
  BY <1>1, <1>7, <1>9 DEF StatusOf
<1>11. OwnerEdit(i, new)
  BY <1>1, <1>6, <1>7, <1>8, <1>10 DEF OwnerEdit, old
<1> QED BY <1>11

LEMMA UpdateEdits ==
  ASSUME TypeOK, RowsSound, NEW i \in RowId, NEW p \in BOOLEAN, NEW v \in BOOLEAN,
         NEW e \in BOOLEAN, NEW cl \in BOOLEAN, UpdateTransaction(i, p, v, e, cl)
  PROVE  \E r : OwnerEdit(i, r)
<1> DEFINE old == rows[i]
           claiming == old.pending /\ cl /\ ~old.claim
           settles == claiming \/ (old.pending /\ ~p) \/ (old.void /\ ~v)
           pending == old.pending /\ p /\ ~settles
           void == old.void /\ v /\ ~settles
           enabled == e \/ settles
           new == [old EXCEPT !.pending = pending, !.void = void, !.enabled = enabled, !.claim = cl]
<1>1. old \in Row /\ old # None /\ ~(old.pending /\ (old.claim \/ old.void))
  BY DEF UpdateTransaction, TypeOK, RowsSound
<1>2. /\ old.pending \in BOOLEAN /\ old.void \in BOOLEAN /\ old.enabled \in BOOLEAN
      /\ old.claim \in BOOLEAN /\ old.val \in Value
  BY <1>1 DEF Row
<1>3. rows' = [rows EXCEPT ![i].pending = pending, ![i].void = void,
                           ![i].enabled = enabled, ![i].claim = cl]
  BY DEF UpdateTransaction
<1>4. /\ pending \in BOOLEAN /\ void \in BOOLEAN /\ enabled \in BOOLEAN
      /\ ~(pending /\ (cl \/ void)) /\ (pending => old.pending) /\ (void => old.void)
      /\ old.pending => ~void
  BY <1>1, <1>2
<1>5. rows' = [rows EXCEPT ![i] = [old EXCEPT !.pending = pending, !.void = void,
                                              !.enabled = enabled, !.claim = cl]]
  <2> HIDE DEF pending, void, enabled, settles
  <2> QED BY <1>3 DEF TypeOK
<1> HIDE DEF pending, void, enabled, settles, claiming
<1>6. UNCHANGED <<keyRow, suppressed>>
  BY DEF UpdateTransaction
<1>7. /\ new \in Row /\ new.val = old.val /\ new.pending = pending /\ new.void = void
      /\ new.claim = cl
  <2>1. new = [old EXCEPT !.pending = pending, !.void = void, !.enabled = enabled, !.claim = cl]
    OBVIOUS
  <2> HIDE DEF old, new
  <2> QED BY <1>1, <1>4, <2>1 DEF Row
<1>8. rows' = [rows EXCEPT ![i] = new]
  BY <1>5
<1>9. new # None
  BY <1>7, NoneAssumption
<1> HIDE DEF new, old
<1>10. StatusOf(new) \in {StatusOf(old), "settled"}
  BY <1>1, <1>4, <1>7, <1>9 DEF StatusOf
<1>11. OwnerEdit(i, new)
  BY <1>1, <1>4, <1>6, <1>7, <1>8, <1>10 DEF OwnerEdit, old
<1> QED BY <1>11

(* What the owner writes keeps the tables sound and never gives a row a    *)
(* bank id.                                                                *)
LEMMA EditKeeps ==
  ASSUME TypeOK, RowsSound, PlansSound, PostedKeyed, NEW i, NEW r, OwnerEdit(i, r),
         UNCHANGED flight
  PROVE  /\ rows' \in [RowId -> Row \cup {None}]
         /\ \A k \in Key : keyRow'[k] # None => rows'[keyRow'[k]] # None
         /\ RowsSound' /\ PlansSound' /\ PostedKeyed'
<1>1. /\ i \in RowId /\ rows[i] # None /\ r \in Row /\ r.val = rows[i].val /\ r # None
      /\ ~(r.pending /\ (r.claim \/ r.void)) /\ rows' = [rows EXCEPT ![i] = r] /\ keyRow' = keyRow
  BY NoneAssumption DEF OwnerEdit
<1>2. rows'[i] = r /\ \A j \in RowId : j # i => rows'[j] = rows[j]
  BY <1>1 DEF TypeOK
<1>3. PlansSound'
  BY <1>1 DEF PlansSound, PlanSound
<1>4. RowsSound' /\ PostedKeyed'
  BY <1>1, <1>2 DEF RowsSound, PostedKeyed
<1>5. \A k \in Key : keyRow'[k] # None => rows'[keyRow'[k]] # None
  BY <1>1, <1>2 DEF TypeOK
<1>6. rows' \in [RowId -> Row \cup {None}]
  BY <1>1 DEF TypeOK
<1> QED BY <1>3, <1>4, <1>5, <1>6

LEMMA RemovalKeeps ==
  ASSUME TypeOK, RowsSound, PlansSound, PostedKeyed, NEW i \in RowId, DeleteTransaction(i)
  PROVE  /\ rows' \in [RowId -> Row \cup {None}]
         /\ keyRow' \in [Key -> RowId \cup {None}]
         /\ \A k \in Key : keyRow'[k] # None => rows'[keyRow'[k]] # None
         /\ suppressed' \subseteq Key
         /\ RowsSound' /\ PlansSound' /\ PostedKeyed'
<1>1. /\ rows' = [rows EXCEPT ![i] = None] /\ flight' = flight
      /\ keyRow' = [k \in Key |-> IF keyRow[k] = i THEN None ELSE keyRow[k]]
      /\ suppressed' = IF rows[i].void THEN suppressed ELSE suppressed \cup KeysOf(i)
  BY DEF DeleteTransaction
<1>2. rows'[i] = None /\ \A j \in RowId : j # i => rows'[j] = rows[j]
  BY <1>1 DEF TypeOK
<1>3. rows' \in [RowId -> Row \cup {None}] /\ keyRow' \in [Key -> RowId \cup {None}]
  BY <1>1 DEF TypeOK
<1>4. \A k \in Key : keyRow'[k] # None => rows'[keyRow'[k]] # None
  BY <1>1, <1>2 DEF TypeOK
<1>5. suppressed' \subseteq Key
  BY <1>1 DEF TypeOK, KeysOf
<1>6. RowsSound'
  BY <1>2 DEF RowsSound
<1>7. PostedKeyed'
  <2> SUFFICES ASSUME NEW j \in RowId, rows'[j] # None, rows'[j].val.posted
               PROVE  keyRow'[postKey[rows'[j].val.charge]] = j
    BY DEF PostedKeyed
  <2>1. j # i /\ rows'[j] = rows[j] /\ rows[j] \in Row
    BY <1>2 DEF TypeOK
  <2>2. postKey[rows[j].val.charge] \in Key
    BY <2>1, BankAssumption DEF Row, Value
  <2> QED BY <1>1, <2>1, <2>2 DEF PostedKeyed
<1>8. PlansSound'
  <2> SUFFICES ASSUME NEW c \in Caller, flight[c].phase = "apply"
               PROVE  PlanSound(flight[c].plan)'
    BY <1>1 DEF PlansSound
  <2>1. PlanSound(flight[c].plan) /\ flight[c].plan \in PlanType
    BY DEF PlansSound, TypeOK, FlightType
  <2>2. \A m \in flight[c].plan.converts : postKey[m[2]] \in Key
    BY <2>1, PlanTyped, BankAssumption
  <2>3. \A m \in flight[c].plan.converts : keyRow'[postKey[m[2]]] = None
    BY <1>1, <2>1, <2>2 DEF PlanSound
  <2> QED BY <1>1, <2>1, <2>3 DEF PlanSound
<1> QED BY <1>3, <1>4, <1>5, <1>6, <1>7, <1>8

-----------------------------------------------------------------------------
(* The invariant holds in every state.                                     *)

LEMMA IdleTyped == Idle \in FlightType /\ Idle.phase = "idle"
BY BankAssumption DEF Idle, FlightType, FeedType, PlanType, NoFeed, NoPlan

LEMMA InitInv == Init => IndInv
<1> SUFFICES ASSUME Init PROVE IndInv
  OBVIOUS
<1>1. TypeOK
  BY IdleTyped DEF Init, TypeOK, BankState
<1>2. BridgeGuarded /\ RowsSound /\ PlansSound /\ PostedKeyed
  BY IdleTyped DEF Init, BridgeGuarded, RowsSound, PlansSound, PostedKeyed
<1> QED BY <1>1, <1>2 DEF IndInv

(* The steps of a run that leave the tables alone.                         *)
LEMMA FlightMoves ==
  ASSUME IndInv, NEW c \in Caller, NEW f \in FlightType, Moves(c, f),
         UNCHANGED <<bank, table>>,
         inFlight' \in BOOLEAN /\ blackout' \in BOOLEAN /\ recent' \in BOOLEAN,
         f.phase = "apply" => PlanSound(f.plan),
         \/ flight[c].phase # "idle" /\ UNCHANGED <<inFlight, blackout>>
         \/ ~inFlight /\ inFlight' /\ ~blackout'
         \/ flight[c].phase # "idle" /\ f.phase = "idle"
  PROVE  IndInv'
<1>1. flight' = [flight EXCEPT ![c] = f] /\ flight \in [Caller -> FlightType]
  BY DEF Moves, IndInv, TypeOK
<1>2. TypeOK'
  BY <1>1 DEF IndInv, TypeOK, table
<1>3. RowsSound' /\ PostedKeyed'
  BY DEF IndInv, RowsSound, PostedKeyed, table
<1>4. PlansSound'
  BY <1>1 DEF IndInv, PlansSound, PlanSound, table
<1>5. BridgeGuarded'
  BY <1>1 DEF IndInv, BridgeGuarded
<1> QED BY <1>2, <1>3, <1>4, <1>5 DEF IndInv

LEMMA RunKeeps ==
  ASSUME IndInv, NEW c \in Caller, Begin(c) \/ Run(c)
  PROVE  IndInv'
<1>1. TypeOK /\ flight[c] \in FlightType /\ inFlight \in BOOLEAN /\ blackout \in BOOLEAN
      /\ recent \in BOOLEAN /\ PlansSound
  BY DEF IndInv, TypeOK
<1>2. CASE Begin(c)
  <2> DEFINE f == [Idle EXCEPT !.phase = "fetch", !.attempt = 1]
  <2>1. f \in FlightType /\ f.phase = "fetch"
    <3>1. 1 \in 0..MaxAttempts
      BY BankAssumption
    <3> QED BY <3>1, IdleTyped DEF FlightType
  <2>2. Moves(c, f) /\ ~inFlight /\ inFlight' = TRUE /\ UNCHANGED <<bank, table, blackout, recent>>
        /\ ~blackout
    BY <1>2 DEF Begin, Admitted
  <2> HIDE DEF f
  <2> QED BY <1>1, <2>1, <2>2, FlightMoves
<1>3. CASE FetchAnswered(c)
  <2>1. PICK covered \in BOOLEAN :
          Moves(c, [Idle EXCEPT !.phase = "plan", !.feed = Translate(covered)])
    BY <1>3 DEF FetchAnswered
  <2> DEFINE f == [Idle EXCEPT !.phase = "plan", !.feed = Translate(covered)]
  <2>2. Translate(covered) \in FeedType
    BY DEF Translate, FeedType
  <2>3. f \in FlightType /\ f.phase = "plan"
    <3> DEFINE t == Translate(covered)
    <3> HIDE DEF t
    <3>1. t \in FeedType
      BY <2>2 DEF t
    <3>2. [Idle EXCEPT !.phase = "plan", !.feed = t] \in FlightType
      BY <3>1, IdleTyped DEF FlightType
    <3> QED BY <3>2, IdleTyped DEF t, FlightType
  <2>4. Moves(c, f) /\ flight[c].phase # "idle" /\ UNCHANGED <<bank, table, runner>>
    BY <1>3, <2>1 DEF FetchAnswered
  <2> HIDE DEF f
  <2> QED BY <1>1, <2>3, <2>4, FlightMoves DEF runner
<1>4. ASSUME NEW why \in {"error", "limited", "ok"}
      PROVE  LET f == [Idle EXCEPT !.phase = "finish", !.result = why]
             IN f \in FlightType /\ f.phase = "finish"
  BY IdleTyped DEF FlightType
<1>5. ASSUME NEW why \in {"error", "limited", "ok"}, flight[c].phase # "idle",
             Moves(c, [Idle EXCEPT !.phase = "finish", !.result = why]),
             UNCHANGED <<bank, table, runner>>
      PROVE  IndInv'
  <2> DEFINE f == [Idle EXCEPT !.phase = "finish", !.result = why]
  <2>1. f \in FlightType /\ f.phase = "finish" /\ Moves(c, f)
    BY <1>4, <1>5
  <2> HIDE DEF f
  <2> QED BY <1>1, <1>5, <2>1, FlightMoves DEF runner
<1>6. CASE FetchFailed(c)
  BY <1>5, <1>6 DEF FetchFailed
<1>7. CASE FetchRetried(c)
  <2> DEFINE f == [flight[c] EXCEPT !.attempt = flight[c].attempt + 1]
  <2>1. Moves(c, f) /\ flight[c].phase = "fetch" /\ UNCHANGED <<bank, table, runner>>
        /\ flight[c].attempt < MaxAttempts
    BY <1>7 DEF FetchRetried
  <2>2. flight[c].attempt + 1 \in 0..MaxAttempts
    BY <1>1, <2>1, BankAssumption DEF FlightType
  <2>3. f \in FlightType /\ f.phase = "fetch"
    BY <1>1, <2>1, <2>2 DEF FlightType
  <2> HIDE DEF f
  <2> QED BY <1>1, <2>1, <2>3, FlightMoves DEF runner
<1>8. CASE Plan(c)
  <2> DEFINE plan == Reconcile(flight[c].feed)
             f == [flight[c] EXCEPT !.phase = "apply", !.plan = plan]
  <2>1. plan \in PlanType /\ PlanSound(plan)
    BY <1>1, ReconcileSound DEF FlightType
  <2>2. Moves(c, f) /\ flight[c].phase = "plan" /\ UNCHANGED <<bank, table, runner>>
    BY <1>8 DEF Plan
  <2> HIDE DEF plan
  <2>3. f \in FlightType /\ f.plan = plan
    BY <1>1, <2>1 DEF FlightType
  <2> HIDE DEF f
  <2> QED BY <1>1, <2>1, <2>2, <2>3, FlightMoves DEF runner
<1>9. CASE StoreFailed(c)
  BY <1>5, <1>9 DEF StoreFailed
<1>10. CASE Finish(c)
  <2>1. /\ Moves(c, Idle) /\ flight[c].phase # "idle" /\ UNCHANGED <<bank, table>>
        /\ inFlight' = FALSE /\ blackout' \in BOOLEAN /\ recent' \in BOOLEAN
    BY <1>10 DEF Finish
  <2> QED BY <1>1, <2>1, IdleTyped, FlightMoves
<1>11. CASE Apply(c)
  <2> DEFINE p == flight[c].plan
  <2>1. p \in PlanType /\ PlanSound(p) /\ ApplyBankDirectives(p) /\ flight[c].phase = "apply"
    BY <1>1, <1>11 DEF Apply, PlansSound, FlightType
  <2>2. PICK result \in {"ok", "error"} :
          Moves(c, [Idle EXCEPT !.phase = "finish", !.result = result])
    BY <1>11 DEF Apply
  <2> DEFINE f == [Idle EXCEPT !.phase = "finish", !.result = result]
  <2>3. f \in FlightType /\ f.phase = "finish" /\ flight' = [flight EXCEPT ![c] = f]
    BY <1>4, <2>2 DEF Moves
  <2>4. UNCHANGED <<bank, runner, suppressed>>
    BY <1>11 DEF Apply, ApplyBankDirectives
  <2> HIDE DEF p, f
  <2>5. /\ rows' \in [RowId -> Row \cup {None}]
        /\ keyRow' \in [Key -> RowId \cup {None}]
        /\ \A k \in Key : keyRow'[k] # None => rows'[keyRow'[k]] # None
        /\ RowsSound' /\ PostedKeyed'
    BY <2>1, ApplyTyped, ApplyKeyed DEF IndInv
  <2>6. TypeOK'
    BY <1>1, <2>3, <2>4, <2>5 DEF TypeOK, runner
  <2>7. \A d \in Caller : flight[d].phase # "idle" => d = c
    BY <2>1 DEF IndInv, BridgeGuarded
  <2>8. PlansSound' /\ BridgeGuarded'
    BY <1>1, <2>1, <2>3, <2>4, <2>7 DEF IndInv, PlansSound, BridgeGuarded, TypeOK, runner
  <2> QED BY <2>5, <2>6, <2>8 DEF IndInv
<1> QED BY <1>2, <1>3, <1>6, <1>7, <1>8, <1>9, <1>10, <1>11 DEF Run

LEMMA OwnerKeepsInv ==
  ASSUME IndInv, OwnerStep
  PROVE  IndInv'
<1>1. TypeOK /\ RowsSound /\ PlansSound /\ PostedKeyed /\ BridgeGuarded
  BY DEF IndInv
<1>2. ASSUME NEW i, NEW r, OwnerEdit(i, r), UNCHANGED <<bank, runner, flight>>
      PROVE  IndInv'
  <2>1. /\ rows' \in [RowId -> Row \cup {None}]
        /\ \A k \in Key : keyRow'[k] # None => rows'[keyRow'[k]] # None
        /\ RowsSound' /\ PlansSound' /\ PostedKeyed'
    BY <1>1, <1>2, EditKeeps
  <2>2. TypeOK' /\ BridgeGuarded'
    BY <1>1, <1>2, <2>1 DEF TypeOK, BridgeGuarded, OwnerEdit, runner
  <2> QED BY <2>1, <2>2 DEF IndInv
<1>3. ASSUME NEW i \in RowId, SetTransactionClaim(i) PROVE IndInv'
  BY <1>1, <1>2, <1>3, ClaimEdits DEF SetTransactionClaim
<1>4. ASSUME NEW i \in RowId, NEW p \in BOOLEAN, NEW v \in BOOLEAN, NEW e \in EnabledInputs,
             NEW cl \in BOOLEAN, UpdateTransaction(i, p, v, e, cl)
      PROVE  IndInv'
  <2>1. e \in BOOLEAN
    BY BankAssumption
  <2> QED BY <1>1, <1>2, <1>4, <2>1, UpdateEdits DEF UpdateTransaction
<1>5. ASSUME NEW i \in RowId, DeleteTransaction(i) PROVE IndInv'
  <2>1. /\ rows' \in [RowId -> Row \cup {None}]
        /\ keyRow' \in [Key -> RowId \cup {None}]
        /\ \A k \in Key : keyRow'[k] # None => rows'[keyRow'[k]] # None
        /\ suppressed' \subseteq Key
        /\ RowsSound' /\ PlansSound' /\ PostedKeyed'
    BY <1>1, <1>5, RemovalKeeps
  <2>2. UNCHANGED <<bank, runner, flight>>
    BY <1>5 DEF DeleteTransaction
  <2>3. TypeOK' /\ BridgeGuarded'
    BY <1>1, <2>1, <2>2 DEF TypeOK, BridgeGuarded, runner
  <2> QED BY <2>1, <2>3 DEF IndInv
<1> QED BY <1>3, <1>4, <1>5 DEF OwnerStep

LEMMA Inductive == IndInv /\ [Next]_vars => IndInv'
<1> SUFFICES ASSUME IndInv, [Next]_vars PROVE IndInv'
  OBVIOUS
<1>1. TypeOK /\ RowsSound /\ PlansSound /\ PostedKeyed /\ BridgeGuarded
  BY DEF IndInv
<1>2. ASSUME NEW c \in Charge, BankReports(c) PROVE IndInv'
  <2>1. bank' \in [Charge -> BankState] /\ UNCHANGED <<table, runner, flight>>
    BY <1>1, <1>2 DEF BankReports, TypeOK
  <2>2. TypeOK'
    BY <1>1, <2>1 DEF TypeOK, table, runner
  <2>3. RowsSound' /\ PlansSound' /\ PostedKeyed' /\ BridgeGuarded'
    BY <1>1, <2>1
      DEF RowsSound, PlansSound, PlanSound, PostedKeyed, BridgeGuarded, table, runner
  <2> QED BY <2>2, <2>3 DEF IndInv
<1>3. CASE Elapse
  <2>1. /\ UNCHANGED <<bank, table, inFlight, flight>>
        /\ blackout' \in BOOLEAN /\ recent' \in BOOLEAN /\ (blackout' => blackout)
    <3>1. CASE blackout /\ blackout' = FALSE /\ UNCHANGED recent
      BY <1>1, <1>3, <3>1 DEF Elapse, TypeOK
    <3>2. CASE recent /\ recent' = FALSE /\ UNCHANGED blackout
      BY <1>1, <1>3, <3>2 DEF Elapse, TypeOK
    <3> QED BY <1>3, <3>1, <3>2 DEF Elapse
  <2>2. TypeOK'
    BY <1>1, <2>1 DEF TypeOK, table
  <2>3. RowsSound' /\ PlansSound' /\ PostedKeyed' /\ BridgeGuarded'
    BY <1>1, <2>1 DEF RowsSound, PlansSound, PlanSound, PostedKeyed, BridgeGuarded, table
  <2> QED BY <2>2, <2>3 DEF IndInv
<1>4. CASE Restart
  <2>1. /\ UNCHANGED <<bank, table>> /\ flight' = [c \in Caller |-> Idle]
        /\ inFlight' = FALSE /\ blackout' = FALSE /\ recent' = FALSE
    BY <1>4 DEF Restart
  <2>2. TypeOK'
    BY <1>1, <2>1, IdleTyped DEF TypeOK, table
  <2>3. RowsSound' /\ PlansSound' /\ PostedKeyed' /\ BridgeGuarded'
    BY <1>1, <2>1, IdleTyped DEF RowsSound, PlansSound, PostedKeyed, BridgeGuarded, table
  <2> QED BY <2>2, <2>3 DEF IndInv
<1>5. CASE UNCHANGED vars
  <2>1. TypeOK'
    BY <1>1, <1>5 DEF TypeOK, vars
  <2>2. RowsSound' /\ PlansSound' /\ PostedKeyed' /\ BridgeGuarded'
    BY <1>1, <1>5 DEF RowsSound, PlansSound, PlanSound, PostedKeyed, BridgeGuarded, vars
  <2> QED BY <2>1, <2>2 DEF IndInv
<1> QED BY <1>2, <1>3, <1>4, <1>5, RunKeeps, OwnerKeepsInv DEF Next

LEMMA Invariant == Spec => []IndInv
BY InitInv, Inductive, PTL DEF Spec

(* The tables and the runner always have the shape the schema and the      *)
(* runner give them, and a bank id never outlives its row.                 *)
THEOREM TypeCorrect == Spec => []TypeOK
<1>1. IndInv => TypeOK
  BY DEF IndInv
<1> QED BY <1>1, Invariant, PTL

(* Runner.Sync and Trigger: never two runs at the Bridge or in the store,  *)
(* and none during a blackout.                                             *)
THEOREM AlwaysGuarded == Spec => []BridgeGuarded
<1>1. IndInv => BridgeGuarded
  BY DEF IndInv
<1> QED BY <1>1, Invariant, PTL

(* sync_pending.go: a posted charge is in the ledger at most once,         *)
(* whichever of upsert and conversion brought it, whatever the owner       *)
(* edited or removed between the plan and its application.                 *)
THEOREM AlwaysPostedOnce == Spec => []PostedOnce
<1>1. IndInv => PostedOnce
  BY DEF IndInv, PostedOnce, PostedKeyed, Stored
<1> QED BY <1>1, Invariant, PTL

-----------------------------------------------------------------------------
(* What a sync may not decide.                                             *)

CountsOnlyPosted ==
  (\E c \in Caller : Apply(c)) =>
    \A i \in RowId : rows'[i] # None /\ rows'[i].enabled =>
      \/ rows'[i] = rows[i]
      \/ rows'[i].val.posted
      \/ rows'[i].claim

LEMMA CountsStep == IndInv => CountsOnlyPosted
<1> SUFFICES ASSUME IndInv, NEW c \in Caller, Apply(c), NEW i \in RowId,
                    rows'[i] # None, rows'[i].enabled
             PROVE  rows'[i] = rows[i] \/ rows'[i].val.posted \/ rows'[i].claim
  BY DEF CountsOnlyPosted
<1>1. TypeOK /\ RowsSound /\ flight[c].plan \in PlanType
  BY DEF IndInv, TypeOK, FlightType
<1>2. rows'[i] = ApplyRow(i, flight[c].plan)
  BY DEF Apply, ApplyBankDirectives
<1>3. BankLeft(rows[i], rows'[i])
  BY <1>1, <1>2, ApplyLeaves
<1> QED BY <1>3 DEF BankLeft

NotReinserted ==
  \A k \in suppressed :
    keyRow[k] = None /\ keyRow'[k] # None => rows[keyRow'[k]] # None

(* Only the bank points an id anywhere: an upsert passes the do-not-import *)
(* list first, and a conversion lands on a row that is stored.             *)
LEMMA ReinsertStep == IndInv /\ [Next]_vars => NotReinserted
<1> SUFFICES ASSUME IndInv, [Next]_vars, NEW k \in suppressed,
                    keyRow[k] = None, keyRow'[k] # None
             PROVE  rows[keyRow'[k]] # None
  BY DEF NotReinserted
<1>1. TypeOK /\ RowsSound /\ k \in Key
  BY DEF IndInv, TypeOK
<1>2. ASSUME NEW c \in Caller, Apply(c) PROVE rows[keyRow'[k]] # None
  <2> DEFINE p == flight[c].plan
  <2>1. p \in PlanType
    BY <1>1 DEF TypeOK, FlightType
  <2>2. keyRow'[k] = ApplyKey(k, p)
    BY <1>1, <1>2 DEF Apply, ApplyBankDirectives
  <2> HIDE DEF p
  <2>3. \A u \in Upserts(p) : u.key # k
    BY <2>1, UpsertShape
  <2>4. \A m \in LiveConverts(p) : rows[m[1]] # None
    BY DEF LiveConverts
  <2> QED BY <2>2, <2>3, <2>4, KeyCases
<1>3. ASSUME UNCHANGED keyRow PROVE FALSE
  BY <1>3
<1>4. ASSUME NEW c \in Caller, Begin(c) \/ Run(c) PROVE rows[keyRow'[k]] # None
  BY <1>2, <1>3, <1>4
    DEF Begin, Run, FetchAnswered, FetchFailed, FetchRetried, Plan, StoreFailed, Finish, table
<1>5. ASSUME OwnerStep PROVE FALSE
  <2>1. ASSUME NEW i \in RowId, DeleteTransaction(i) PROVE FALSE
    BY <1>1, <2>1 DEF DeleteTransaction
  <2>2. ASSUME NEW i \in RowId, SetTransactionClaim(i) PROVE FALSE
    BY <1>3, <2>2 DEF SetTransactionClaim
  <2>3. ASSUME NEW i \in RowId, NEW p \in BOOLEAN, NEW v \in BOOLEAN, NEW e \in EnabledInputs,
               NEW cl \in BOOLEAN, UpdateTransaction(i, p, v, e, cl)
        PROVE  FALSE
    BY <1>3, <2>3 DEF UpdateTransaction
  <2> QED BY <1>5, <2>1, <2>2, <2>3 DEF OwnerStep
<1>6. ASSUME NEW c \in Charge, BankReports(c) PROVE FALSE
  BY <1>3, <1>6 DEF BankReports, table
<1>7. ASSUME Elapse \/ Restart \/ UNCHANGED vars PROVE FALSE
  BY <1>3, <1>7 DEF Elapse, Restart, vars, table
<1> QED BY <1>4, <1>5, <1>6, <1>7 DEF Next

(* writeBankValues and the do-not-import list: an applied plan enables     *)
(* only what has posted or what the owner recorded, and a charge the owner *)
(* removed never returns as a new row.                                     *)
THEOREM FeedKept == Spec => SyncKeepsToTheFeed
<1>1. Spec => SyncCountsOnlyPosted
  <2>1. IndInv /\ [Next]_vars => [CountsOnlyPosted]_vars
    BY CountsStep
  <2>2. Spec => [][CountsOnlyPosted]_vars
    BY <2>1, Invariant, PTL DEF Spec
  <2> QED BY <2>2 DEF SyncCountsOnlyPosted, CountsOnlyPosted
<1>2. Spec => RemovedNotReinserted
  <2>1. IndInv /\ [Next]_vars => [NotReinserted]_vars
    BY ReinsertStep
  <2>2. Spec => [][NotReinserted]_vars
    BY <2>1, Invariant, PTL DEF Spec
  <2> QED BY <2>2 DEF RemovedNotReinserted, NotReinserted
<1> QED BY <1>1, <1>2 DEF SyncKeepsToTheFeed

-----------------------------------------------------------------------------
(* The lifecycle promised to the owner.                                    *)

life    == [i \in RowId |-> StatusOf(rows[i])]
claimed == {i \in Stored : rows[i].claim}

(* A step that changes no row is a stutter of the lifecycle.               *)
LEMMA RowsStutter == UNCHANGED rows => UNCHANGED <<life, claimed>>
BY DEF life, claimed, Stored

LEMMA StatusValues ==
  \A r : /\ StatusOf(r) \in {"none", "hold", "void", "settled"}
         /\ StatusOf(r) = "none" <=> r = None
BY DEF StatusOf

(* Applying a plan is one move of the bank.                                *)
LEMMA ApplyIsBank ==
  ASSUME IndInv, NEW c \in Caller, Apply(c)
  PROVE  /\ \A i \in RowId : life'[i] \in Lifecycle!BankMoves(life[i], i \in claimed)
         /\ claimed' = claimed
<1>1. TypeOK /\ RowsSound /\ flight[c].plan \in PlanType
  BY DEF IndInv, TypeOK, FlightType
<1>2. \A i \in RowId : BankLeft(rows[i], rows'[i])
  BY <1>1, ApplyLeaves DEF Apply, ApplyBankDirectives
<1>3. ASSUME NEW i \in RowId
      PROVE  life'[i] \in Lifecycle!BankMoves(life[i], i \in claimed)
  <2>1. StatusOf(rows'[i]) \in
          Lifecycle!BankMoves(StatusOf(rows[i]), rows[i] # None /\ rows[i].claim)
    BY <1>2 DEF BankLeft
  <2>2. i \in claimed <=> rows[i] # None /\ rows[i].claim
    BY DEF claimed, Stored
  <2>4. life[i] = StatusOf(rows[i])
    BY DEF life
  <2>5. life'[i] = StatusOf(rows[i])'
    BY DEF life
  <2>6. StatusOf(rows[i])' = StatusOf(rows'[i])
    BY DEF StatusOf
  <2> QED BY <2>1, <2>2, <2>4, <2>5, <2>6 DEF Lifecycle!BankMoves
<1>4. claimed' = claimed
  BY <1>2 DEF claimed, Stored, BankLeft
<1> QED BY <1>3, <1>4

(* An edit of a row is one move of the owner.                              *)
LEMMA EditIsKeeps ==
  ASSUME TypeOK, NEW i, NEW r, OwnerEdit(i, r)
  PROVE  /\ i \in RowId /\ life[i] # "none"
         /\ StatusOf(r) \in {life[i], "settled"} /\ r.claim \in BOOLEAN
         /\ r.claim => StatusOf(r) # "hold"
         /\ life' = [life EXCEPT ![i] = StatusOf(r)]
         /\ claimed' = IF r.claim THEN claimed \cup {i} ELSE claimed \ {i}
<1>1. /\ i \in RowId /\ rows[i] # None /\ r \in Row /\ r # None
      /\ ~(r.pending /\ (r.claim \/ r.void))
      /\ StatusOf(r) \in {StatusOf(rows[i]), "settled"}
      /\ rows' = [rows EXCEPT ![i] = r]
  BY NoneAssumption DEF OwnerEdit
<1>2. rows'[i] = r /\ \A j \in RowId : j # i => rows'[j] = rows[j]
  BY <1>1 DEF TypeOK
<1>3. life[i] = StatusOf(rows[i]) /\ life[i] # "none"
  BY <1>1, StatusValues DEF life
<1>4. r.claim => StatusOf(r) # "hold"
  BY <1>1 DEF StatusOf
<1>5. life' = [life EXCEPT ![i] = StatusOf(r)]
  <2>1. life' = [j \in RowId |-> StatusOf(rows'[j])]
    BY DEF life, StatusOf
  <2>2. [life EXCEPT ![i] = StatusOf(r)] =
          [j \in RowId |-> IF j = i THEN StatusOf(r) ELSE StatusOf(rows[j])]
    BY <1>1 DEF life
  <2>3. \A j \in RowId : StatusOf(rows'[j]) = IF j = i THEN StatusOf(r) ELSE StatusOf(rows[j])
    BY <1>2
  <2> QED BY <2>1, <2>2, <2>3
<1>6. claimed' = IF r.claim THEN claimed \cup {i} ELSE claimed \ {i}
  BY <1>1, <1>2 DEF claimed, Stored
<1> QED BY <1>1, <1>3, <1>4, <1>5, <1>6 DEF Row

LEMMA RemovalIsRemoves ==
  ASSUME TypeOK, NEW i \in RowId, DeleteTransaction(i)
  PROVE  /\ life[i] # "none" /\ life' = [life EXCEPT ![i] = "none"]
         /\ claimed' = claimed \ {i}
<1>1. rows[i] # None /\ rows' = [rows EXCEPT ![i] = None]
  BY DEF DeleteTransaction
<1>2. rows'[i] = None /\ \A j \in RowId : j # i => rows'[j] = rows[j]
  BY <1>1 DEF TypeOK
<1>3. life[i] # "none"
  BY <1>1, StatusValues DEF life
<1>4. life' = [life EXCEPT ![i] = "none"]
  <2>1. life' = [j \in RowId |-> StatusOf(rows'[j])]
    BY DEF life, StatusOf
  <2>2. [life EXCEPT ![i] = "none"] = [j \in RowId |-> IF j = i THEN "none" ELSE StatusOf(rows[j])]
    BY DEF life
  <2>3. \A j \in RowId : StatusOf(rows'[j]) = IF j = i THEN "none" ELSE StatusOf(rows[j])
    BY <1>2, StatusValues
  <2> QED BY <2>1, <2>2, <2>3
<1>5. claimed' = claimed \ {i}
  BY <1>2 DEF claimed, Stored
<1> QED BY <1>3, <1>4, <1>5

LEMMA LifeInitially == Init => Lifecycle!LifeInit
BY StatusValues DEF Init, Lifecycle!LifeInit, Stored

LEMMA LifeSteps == IndInv /\ [Next]_vars => [Lifecycle!LifeNext]_<<life, claimed>>
<1> SUFFICES ASSUME IndInv, [Next]_vars
             PROVE  Lifecycle!LifeNext \/ UNCHANGED <<life, claimed>>
  OBVIOUS
<1>1. TypeOK /\ RowsSound
  BY DEF IndInv
<1>2. ASSUME NEW c \in Caller, Apply(c) PROVE Lifecycle!LifeNext
  <2>1. \A i \in RowId : life'[i] \in Lifecycle!BankMoves(life[i], i \in claimed)
    BY <1>2, ApplyIsBank
  <2>2. claimed' = claimed /\ DOMAIN life' = RowId
    BY <1>2, ApplyIsBank DEF life
  <2>3. Lifecycle!Bank
    BY <2>1, <2>2 DEF Lifecycle!Bank, life, claimed
  <2> QED BY <2>3 DEF Lifecycle!LifeNext
<1>3. ASSUME NEW i, NEW r, OwnerEdit(i, r) PROVE Lifecycle!LifeNext
  <2>1. /\ i \in RowId /\ life[i] # "none"
        /\ StatusOf(r) \in {life[i], "settled"} /\ r.claim \in BOOLEAN
        /\ r.claim => StatusOf(r) # "hold"
        /\ life' = [life EXCEPT ![i] = StatusOf(r)]
        /\ claimed' = IF r.claim THEN claimed \cup {i} ELSE claimed \ {i}
    BY <1>1, <1>3, EditIsKeeps
  <2>2. \E s \in {life[i], "settled"}, c \in BOOLEAN :
          /\ c => s # "hold"
          /\ life' = [life EXCEPT ![i] = s]
          /\ claimed' = IF c THEN claimed \cup {i} ELSE claimed \ {i}
    BY <2>1
  <2>3. Lifecycle!OwnerKeeps(i)
    BY <2>1, <2>2 DEF Lifecycle!OwnerKeeps, life, claimed
  <2> QED BY <2>1, <2>3 DEF Lifecycle!LifeNext
<1>4. ASSUME NEW i \in RowId, DeleteTransaction(i) PROVE Lifecycle!LifeNext
  <2>1. /\ life[i] # "none" /\ life' = [life EXCEPT ![i] = "none"]
        /\ claimed' = claimed \ {i}
    BY <1>1, <1>4, RemovalIsRemoves
  <2>2. Lifecycle!OwnerRemoves(i)
    BY <2>1 DEF Lifecycle!OwnerRemoves, life, claimed
  <2> QED BY <2>2 DEF Lifecycle!LifeNext
<1>5. ASSUME UNCHANGED rows PROVE UNCHANGED <<life, claimed>>
  BY <1>5, RowsStutter
<1>6. ASSUME NEW c \in Caller, Begin(c) \/ Run(c)
      PROVE  Lifecycle!LifeNext \/ UNCHANGED <<life, claimed>>
  BY <1>2, <1>5, <1>6
    DEF Begin, Run, FetchAnswered, FetchFailed, FetchRetried, Plan, StoreFailed, Finish, table
<1>7. ASSUME OwnerStep PROVE Lifecycle!LifeNext
  <2>1. ASSUME NEW i \in RowId, SetTransactionClaim(i) PROVE Lifecycle!LifeNext
    BY <1>1, <1>3, <2>1, ClaimEdits
  <2>2. ASSUME NEW i \in RowId, NEW p \in BOOLEAN, NEW v \in BOOLEAN, NEW e \in EnabledInputs,
               NEW cl \in BOOLEAN, UpdateTransaction(i, p, v, e, cl)
        PROVE  Lifecycle!LifeNext
    <3>1. e \in BOOLEAN
      BY BankAssumption
    <3> QED BY <1>1, <1>3, <2>2, <3>1, UpdateEdits
  <2> QED BY <1>4, <1>7, <2>1, <2>2 DEF OwnerStep
<1>8. ASSUME \/ \E c \in Charge : BankReports(c)
             \/ Elapse \/ Restart \/ UNCHANGED vars
      PROVE  UNCHANGED <<life, claimed>>
  BY <1>5, <1>8 DEF BankReports, Elapse, Restart, vars, table
<1> QED BY <1>6, <1>7, <1>8 DEF Next

(* The detailed sync, with its feeds, plans and races, keeps the lifecycle *)
(* promised to the owner: each of its steps is one move of the bank or of  *)
(* the owner in HoldLifecycle, or none.                                    *)
THEOREM ImplementsLifecycle == Spec => LifecycleSpec
<1>1. IndInv /\ [Next]_vars => [Lifecycle!LifeNext]_Lifecycle!lifeVars
  BY LifeSteps DEF Lifecycle!lifeVars, life, claimed
<1>2. Spec => Lifecycle!LifeSpec
  BY <1>1, LifeInitially, Invariant, PTL DEF Spec, Lifecycle!LifeSpec
<1> QED BY <1>2 DEF LifecycleSpec
=============================================================================
