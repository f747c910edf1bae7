-------------------------- MODULE ModelWritesProofs -------------------------
(***************************************************************************)
(* Proof that the loans of ModelWrites stay whole, for every number of     *)
(* clients, every set of scopes with generated ids, every start day and    *)
(* horizon, as long as no request of the scope is an import.               *)
(*                                                                         *)
(* A request is validated on a copy of the model and written later, when   *)
(* other requests may have written theirs; nothing validates the result.   *)
(* That a validated call can still do no harm is the invariant: the call   *)
(* in flight FITS the model, which no later write undoes, since what fits  *)
(* depends on the loans there are and are still to be created, and not on  *)
(* the rows.  A call that fits keeps every loan right when it is stored.   *)
(***************************************************************************)
EXTENDS ModelWrites, NaturalsInduction, WellFoundedInduction, SequenceTheorems, TLAPS

-----------------------------------------------------------------------------
(* Sequences of rows.                                                      *)

(* A set of numbers that is not empty has a least one. *)
LEMMA LeastElement ==
  ASSUME NEW T \in SUBSET Nat, T # {}
  PROVE  \E m \in T : \A n \in T : m <= n
<1>1. \E m \in T : \A n \in T : ~(<<n, m>> \in OpToRel(<, Nat))
  BY NatLessThanWellFounded, WFMin
<1>2. PICK m \in T : \A n \in T : ~(<<n, m>> \in OpToRel(<, Nat))
  BY <1>1
<1>3. ASSUME NEW n \in T PROVE ~(n < m)
  <2>1. n < m => <<n, m>> \in {ss \in Nat \X Nat : ss[1] < ss[2]}
    OBVIOUS
  <2> QED BY <1>2, <2>1 DEF OpToRel
<1>4. \A n \in T : m <= n
  BY <1>3
<1> QED BY <1>4

(* One step of the loop over the rows.                                     *)
Looped(rows, places, n, f) ==
  [k \in 0 .. n |-> IF k = 0 THEN <<>> ELSE IF k \in places THEN Append(f[k - 1], rows[k]) ELSE f[k - 1]]

(* Picked is what its loop ends with. *)
LEMMA PickedIsLoop ==
  ASSUME NEW rows, NEW places
  PROVE  Picked(rows, places) = (CHOOSE f : f = Looped(rows, places, Len(rows), f))[Len(rows)]
BY DEF Picked, Looped

(* The loop ends for any number of rows. *)
LEMMA LoopEnds ==
  ASSUME NEW rows, NEW places, NEW N \in Nat
  PROVE  \E f : f = Looped(rows, places, N, f)
<1> DEFINE Bad == {n \in Nat : ~\E f : f = Looped(rows, places, n, f)}
<1>1. SUFFICES ASSUME Bad # {} PROVE FALSE
  BY <1>1
<1>2. PICK n \in Bad : \A k \in Bad : n <= k
  BY <1>1, LeastElement, Bad \in SUBSET Nat
<1>3. n # 0
  <2> DEFINE f == [k \in 0 .. 0 |-> <<>>]
  <2>1. f = Looped(rows, places, 0, f)
    BY DEF Looped
  <2> QED BY <1>2, <2>1
<1>4. n - 1 \in Nat /\ n - 1 \notin Bad
  BY <1>2, <1>3
<1>5. PICK g : g = Looped(rows, places, n - 1, g)
  BY <1>4
<1> DEFINE f == [k \in 0 .. n |-> IF k = n THEN IF n \in places THEN Append(g[n - 1], rows[n]) ELSE g[n - 1] ELSE g[k]]
<1>6. \A k \in 0 .. n : k # n => k \in 0 .. n - 1 /\ f[k] = g[k]
  BY <1>3
<1>7. f[n] = IF n \in places THEN Append(g[n - 1], rows[n]) ELSE g[n - 1]
  BY <1>3
<1>8. ASSUME NEW k \in 0 .. n
      PROVE  f[k] = IF k = 0 THEN <<>> ELSE IF k \in places THEN Append(f[k - 1], rows[k]) ELSE f[k - 1]
  <2>1. CASE k = n
    BY <1>3, <1>6, <1>7, <2>1
  <2>2. CASE k # n
    <3>1. k \in 0 .. n - 1 /\ f[k] = g[k]
      BY <1>6, <2>2
    <3>2. g[k] = IF k = 0 THEN <<>> ELSE IF k \in places THEN Append(g[k - 1], rows[k]) ELSE g[k - 1]
      BY <1>5, <3>1 DEF Looped
    <3>3. k # 0 => k - 1 \in 0 .. n /\ k - 1 # n /\ f[k - 1] = g[k - 1]
      BY <1>6, <3>1
    <3> QED BY <3>1, <3>2, <3>3
  <2> QED BY <2>1, <2>2
<1>9. f = Looped(rows, places, n, f)
  BY <1>8 DEF Looped
<1> QED BY <1>2, <1>9

(* Picking keeps rows of the sequence, those at the places, and no others. *)
LEMMA PickedRows ==
  ASSUME NEW S, NEW rows \in Seq(S), NEW places
  PROVE  /\ Picked(rows, places) \in Seq(S)
         /\ \A k \in DOMAIN Picked(rows, places) :
              \E i \in DOMAIN rows : i \in places /\ Picked(rows, places)[k] = rows[i]
         /\ \A i \in DOMAIN rows : i \in places =>
              \E k \in DOMAIN Picked(rows, places) : Picked(rows, places)[k] = rows[i]
<1> DEFINE f == CHOOSE g : g = Looped(rows, places, Len(rows), g)
           Right(n) == /\ f[n] \in Seq(S)
                       /\ \A k \in DOMAIN f[n] : \E i \in DOMAIN rows : i \in places /\ f[n][k] = rows[i]
                       /\ \A i \in 1 .. n : i \in places => \E k \in DOMAIN f[n] : f[n][k] = rows[i]
           Wrong == {n \in 0 .. Len(rows) : ~Right(n)}
<1>1. f = Looped(rows, places, Len(rows), f)
  BY LoopEnds
<1>2. Picked(rows, places) = f[Len(rows)]
  BY PickedIsLoop
<1> HIDE DEF f
<1>3. \A n \in 0 .. Len(rows) :
        f[n] = IF n = 0 THEN <<>> ELSE IF n \in places THEN Append(f[n - 1], rows[n]) ELSE f[n - 1]
  BY <1>1 DEF Looped
<1>4. SUFFICES ASSUME Wrong # {} PROVE FALSE
  BY <1>2, <1>4
<1>5. PICK n \in Wrong : \A k \in Wrong : n <= k
  BY <1>4, LeastElement, Wrong \in SUBSET Nat
<1>6. n # 0
  <2>1. f[0] = <<>> /\ <<>> \in Seq(S) /\ DOMAIN <<>> = {} /\ 1 .. 0 = {}
    BY <1>3
  <2>2. Right(0)
    BY <2>1
  <2> QED BY <1>5, <2>2
<1>7. n - 1 \in 0 .. Len(rows) /\ Right(n - 1) /\ n \in 1 .. Len(rows) /\ n \in DOMAIN rows
  BY <1>5, <1>6
<1>8. CASE n \notin places
  <2>1. f[n] = f[n - 1]
    BY <1>3, <1>6, <1>7, <1>8
  <2>2. \A i \in 1 .. n : i \in places => i \in 1 .. n - 1
    BY <1>7, <1>8
  <2> QED BY <1>5, <1>7, <2>1, <2>2
<1>9. CASE n \in places
  <2> DEFINE s == f[n - 1]
  <2>0. f[n] = Append(s, rows[n])
    BY <1>3, <1>6, <1>7, <1>9
  <2>1. f[n] = Append(s, rows[n]) /\ s \in Seq(S) /\ rows[n] \in S
    BY <1>7, <2>0, ElementOfSeq
  <2> HIDE DEF s
  <2>2. /\ f[n] \in Seq(S) /\ DOMAIN f[n] = 1 .. Len(s) + 1 /\ DOMAIN s = 1 .. Len(s) /\ Len(s) \in Nat
        /\ f[n][Len(s) + 1] = rows[n]
        /\ \A k \in DOMAIN s : f[n][k] = s[k]
    BY <2>1
  <2>3. ASSUME NEW k \in DOMAIN f[n] PROVE \E i \in DOMAIN rows : i \in places /\ f[n][k] = rows[i]
    <3>1. CASE k = Len(s) + 1
      BY <1>7, <1>9, <2>2, <3>1
    <3>2. CASE k # Len(s) + 1
      <4>1. k \in DOMAIN s /\ f[n][k] = s[k]
        BY <2>2, <3>2
      <4> QED BY <1>7, <4>1 DEF s
    <3> QED BY <3>1, <3>2
  <2>4. ASSUME NEW i \in 1 .. n, i \in places PROVE \E k \in DOMAIN f[n] : f[n][k] = rows[i]
    <3>1. CASE i = n
      BY <2>2, <3>1
    <3>2. CASE i # n
      <4>1. PICK k \in DOMAIN s : s[k] = rows[i]
        BY <1>7, <2>4, <3>2 DEF s
      <4> QED BY <2>2, <4>1
    <3> QED BY <3>1, <3>2
  <2> QED BY <1>5, <2>2, <2>3, <2>4
<1> QED BY <1>8, <1>9
-----------------------------------------------------------------------------
(* What a loan asks of the rows.                                           *)

ChargeRight(l, enabled, row) ==
  /\ row.end = 0 /\ row.cap = Unlimited
  /\ row.amount.by = "loan-interest" /\ row.amount.id = l[1]
  /\ row.enabled = enabled
  /\ row.src = l[2].interest /\ row.dests = <<>>

PaymentRight(l, enabled, row) ==
  /\ row.end = 0 /\ row.cap = Unlimited
  /\ row.amount.by = "literal" /\ row.amount.value >= 0
  /\ row.enabled = enabled
  /\ row.dests = <<l[2].interest, l[1]>>

AccountsRight(l, accounts) ==
  /\ l[2].interest # l[1]
  /\ AccountsOf(l) \subseteq DOMAIN accounts
  /\ \A a \in AccountsOf(l) :
       accounts[a].kind = "debt" /\ accounts[a].max = 0 /\ accounts[a].enabled = accounts[l[1]].enabled

RulesRight(l, enabled, rows) ==
  /\ RulesOf(l) \subseteq {row.id : row \in Range(rows)}
  /\ \A row \in Range(rows) : /\ row.id = l[2].charge => ChargeRight(l, enabled, row)
                              /\ row.id = l[2].payment => PaymentRight(l, enabled, row)

LoanRight(m, l) == AccountsRight(l, m.accounts) /\ RulesRight(l, m.accounts[l[1]].enabled, m.rules)

LoansApart(m) == \A l, k \in Existing(m) : l = k \/ AccountsOf(l) \cap AccountsOf(k) = {}

Shape(m) == {"accounts", "rules", "loans"} \subseteq DOMAIN m /\ m.rules \in Seq(Range(m.rules))

Known(s) == Existing(s.model) \cup Created(s.requests)
Principals(s) == {l[1] : l \in Known(s)}

(* The inductive part that is about the model: every loan is right, no two *)
(* share an account, each is one the scope knows, and the account of a     *)
(* loan the scope knows is there only with the loan.                       *)
LoansSound(s, m) ==
  /\ Shape(m)
  /\ \A l \in Existing(m) : LoanRight(m, l)
  /\ LoansApart(m)
  /\ Existing(m) \subseteq Known(s)
  /\ Principals(s) \cap DOMAIN m.accounts \subseteq DOMAIN m.loans

(* What a call makes of the loans: it may remove some, and what it adds is *)
(* one a request creates.                                                  *)
Grown(s, m, n) == Existing(n) \subseteq Existing(m) \cup Created(s.requests)

-----------------------------------------------------------------------------
(* Loans in terms of the two maps and the rows.                            *)

(* A loan of the model is among its loans, as the pair of its id and its   *)
(* form.                                                                   *)
LEMMA LoanOf ==
  ASSUME NEW m, NEW id \in DOMAIN m.loans
  PROVE  <<id, m.loans[id]>> \in Existing(m)
BY DEF Existing

(* And such a pair is a loan of the model. *)
LEMMA ExistingLoan ==
  ASSUME NEW m, NEW l \in Existing(m)
  PROVE  l[1] \in DOMAIN m.loans /\ l[2] = m.loans[l[1]] /\ l = <<l[1], m.loans[l[1]]>>
BY DEF Existing

(* One id is one row's, in whichever way it is looked up. *)
LEMMA IdsAreOfRows ==
  ASSUME NEW rows
  PROVE  IdsOf(rows) = {row.id : row \in Range(rows)}
BY DEF IdsOf, Range

(* RowOf finds the row with an id when there is one. *)
LEMMA ChosenRow ==
  ASSUME NEW rows, NEW id \in IdsOf(rows)
  PROVE  RowOf(rows, id) \in Range(rows) /\ RowOf(rows, id).id = id
<1>1. \E i \in DOMAIN rows : rows[i].id = id
  BY DEF IdsOf
<1>2. RowAt(rows, id) \in DOMAIN rows /\ rows[RowAt(rows, id)].id = id
  BY <1>1 DEF RowAt
<1> QED BY <1>2 DEF RowOf, Range

(* Loans that are right and share no account are what validation asks.     *)
LEMMA RightIsValid ==
  ASSUME NEW m, \A l \in Existing(m) : LoanRight(m, l), LoansApart(m)
  PROVE  ValidAccountDisplays(m)
<1> SUFFICES ASSUME NEW id \in DOMAIN m.loans
    PROVE  LET loan == m.loans[id]
               members == {id, loan.interest}
               rule(r) == m.rules[CHOOSE i \in DOMAIN m.rules : m.rules[i].id = r]
           IN  /\ loan.interest # id
               /\ members \subseteq DOMAIN m.accounts
               /\ \A a \in members : /\ m.accounts[a].kind = "debt"
                                     /\ m.accounts[a].max = 0
                                     /\ m.accounts[a].enabled = m.accounts[id].enabled
                                     /\ a \in DOMAIN m.loans => a = id
                                     /\ \A other \in DOMAIN m.loans \ {id} : a # m.loans[other].interest
               /\ {loan.charge, loan.payment} \subseteq IdsOf(m.rules)
               /\ LoanRuleTerms(id, rule(loan.charge), rule(loan.payment))
               /\ \A r \in {loan.charge, loan.payment} : rule(r).enabled = m.accounts[id].enabled
               /\ rule(loan.charge).src = loan.interest /\ rule(loan.charge).dests = <<>>
               /\ rule(loan.payment).dests = <<loan.interest, id>>
  BY DEF ValidAccountDisplays
<1> DEFINE l == <<id, m.loans[id]>>
           rule(r) == RowOf(m.rules, r)
<1>1. l \in Existing(m) /\ LoanRight(m, l) /\ l[1] = id /\ l[2] = m.loans[id]
  BY LoanOf
<1> HIDE DEF l
<1>2. AccountsRight(l, m.accounts) /\ RulesRight(l, m.accounts[id].enabled, m.rules)
  BY <1>1 DEF LoanRight
<1>3. \A r \in RulesOf(l) : r \in IdsOf(m.rules) /\ rule(r) \in Range(m.rules) /\ rule(r).id = r
  BY <1>2, IdsAreOfRows, ChosenRow DEF RulesRight
<1>4. /\ l[2].charge \in RulesOf(l) /\ l[2].payment \in RulesOf(l)
      /\ ChargeRight(l, m.accounts[id].enabled, rule(l[2].charge))
      /\ PaymentRight(l, m.accounts[id].enabled, rule(l[2].payment))
  BY <1>2, <1>3 DEF RulesRight, RulesOf
<1>5. ASSUME NEW other \in DOMAIN m.loans, other # id
      PROVE  {other, m.loans[other].interest} \cap {id, m.loans[id].interest} = {}
  <2> DEFINE k == <<other, m.loans[other]>>
  <2>1. k \in Existing(m) /\ k[1] = other /\ k[2] = m.loans[other]
    BY LoanOf
  <2> HIDE DEF k
  <2> QED BY <1>1, <1>5, <2>1 DEF LoansApart, AccountsOf
<1>6. LoanRuleTerms(id, rule(m.loans[id].charge), rule(m.loans[id].payment))
  BY <1>1, <1>4 DEF LoanRuleTerms, ChargeRight, PaymentRight
<1>7. /\ \A r \in {m.loans[id].charge, m.loans[id].payment} : rule(r).enabled = m.accounts[id].enabled
      /\ rule(m.loans[id].charge).src = m.loans[id].interest /\ rule(m.loans[id].charge).dests = <<>>
      /\ rule(m.loans[id].payment).dests = <<m.loans[id].interest, id>>
  BY <1>1, <1>4 DEF ChargeRight, PaymentRight
<1>8. {m.loans[id].charge, m.loans[id].payment} \subseteq IdsOf(m.rules)
  BY <1>1, <1>3 DEF RulesOf
<1>9. /\ m.loans[id].interest # id
      /\ {id, m.loans[id].interest} \subseteq DOMAIN m.accounts
      /\ \A a \in {id, m.loans[id].interest} : /\ m.accounts[a].kind = "debt"
                                               /\ m.accounts[a].max = 0
                                               /\ m.accounts[a].enabled = m.accounts[id].enabled
  BY <1>1, <1>2 DEF AccountsRight, AccountsOf
<1> QED BY <1>5, <1>6, <1>7, <1>8, <1>9 DEF RowOf, RowAt

(* And a valid model has its loans right: each id is that of one row.      *)
LEMMA ValidIsRight ==
  ASSUME NEW m, Distinct(m.rules), ValidAccountDisplays(m)
  PROVE  (\A l \in Existing(m) : LoanRight(m, l)) /\ LoansApart(m)
<1> DEFINE rule(r) == RowOf(m.rules, r)
<1>1. ASSUME NEW id \in DOMAIN m.loans
      PROVE  LET loan == m.loans[id]
                 members == {id, loan.interest}
             IN  /\ loan.interest # id
                 /\ members \subseteq DOMAIN m.accounts
                 /\ \A a \in members : /\ m.accounts[a].kind = "debt"
                                       /\ m.accounts[a].max = 0
                                       /\ m.accounts[a].enabled = m.accounts[id].enabled
                                       /\ a \in DOMAIN m.loans => a = id
                                       /\ \A other \in DOMAIN m.loans \ {id} : a # m.loans[other].interest
                 /\ {loan.charge, loan.payment} \subseteq IdsOf(m.rules)
                 /\ LoanRuleTerms(id, rule(loan.charge), rule(loan.payment))
                 /\ \A r \in {loan.charge, loan.payment} : rule(r).enabled = m.accounts[id].enabled
                 /\ rule(loan.charge).src = loan.interest /\ rule(loan.charge).dests = <<>>
                 /\ rule(loan.payment).dests = <<loan.interest, id>>
  BY DEF ValidAccountDisplays, RowOf, RowAt
<1>2. ASSUME NEW r \in IdsOf(m.rules), NEW row \in Range(m.rules), row.id = r PROVE row = rule(r)
  <2>1. PICK i \in DOMAIN m.rules : row = m.rules[i]
    BY DEF Range
  <2>2. RowAt(m.rules, r) \in DOMAIN m.rules /\ m.rules[RowAt(m.rules, r)].id = r
    BY DEF RowAt, IdsOf
  <2> QED BY <1>2, <2>1, <2>2 DEF Distinct, RowOf
<1>3. ASSUME NEW l \in Existing(m) PROVE LoanRight(m, l)
  <2> DEFINE id == l[1]
             loan == m.loans[id]
  <2>1. id \in DOMAIN m.loans /\ l[2] = loan
    BY ExistingLoan
  <2> HIDE DEF id
  <2>2. AccountsRight(l, m.accounts)
    BY <1>1, <2>1 DEF AccountsRight, AccountsOf, id
  <2>3. RulesOf(l) \subseteq {row.id : row \in Range(m.rules)}
    BY <1>1, <2>1, IdsAreOfRows DEF RulesOf
  <2>4. ASSUME NEW row \in Range(m.rules), row.id = l[2].charge PROVE ChargeRight(l, m.accounts[id].enabled, row)
    <3>1. row = rule(loan.charge)
      BY <1>1, <1>2, <2>1, <2>4
    <3>2. LoanRuleTerms(id, row, rule(loan.payment)) /\ row.enabled = m.accounts[id].enabled
          /\ row.src = loan.interest /\ row.dests = <<>>
      BY <1>1, <2>1, <3>1
    <3> QED BY <2>1, <3>2 DEF ChargeRight, LoanRuleTerms, id
  <2>5. ASSUME NEW row \in Range(m.rules), row.id = l[2].payment PROVE PaymentRight(l, m.accounts[id].enabled, row)
    <3>1. row = rule(loan.payment)
      BY <1>1, <1>2, <2>1, <2>5
    <3>2. LoanRuleTerms(id, rule(loan.charge), row) /\ row.enabled = m.accounts[id].enabled
          /\ row.dests = <<loan.interest, id>>
      BY <1>1, <2>1, <3>1
    <3> QED BY <2>1, <3>2 DEF PaymentRight, LoanRuleTerms, id
  <2> QED BY <2>2, <2>3, <2>4, <2>5 DEF LoanRight, RulesRight, id
<1>4. ASSUME NEW l \in Existing(m), NEW k \in Existing(m), l # k PROVE AccountsOf(l) \cap AccountsOf(k) = {}
  <2>1. /\ l[1] \in DOMAIN m.loans /\ l[2] = m.loans[l[1]] /\ l = <<l[1], m.loans[l[1]]>>
        /\ k[1] \in DOMAIN m.loans /\ k[2] = m.loans[k[1]] /\ k = <<k[1], m.loans[k[1]]>>
    BY ExistingLoan
  <2>2. l[1] # k[1]
    BY <1>4, <2>1
  <2> QED BY <1>1, <2>1, <2>2 DEF AccountsOf
<1> QED BY <1>3, <1>4 DEF LoansApart

-----------------------------------------------------------------------------
(* Changes that leave each remaining loan's accounts and rules alone.      *)

RuleIds(m) == UNION {RulesOf(l) : l \in Existing(m)}
AccountIds(m) == UNION {AccountsOf(l) : l \in Existing(m)}

AccountsStay(m, n) ==
  \A a \in AccountIds(n) : a \in DOMAIN n.accounts /\ n.accounts[a] = m.accounts[a]

RulesStay(ids, before, after) ==
  /\ \A row \in Range(after) : row.id \in ids => row \in Range(before)
  /\ \A row \in Range(before) : row.id \in ids => \E kept \in Range(after) : kept.id = row.id

(* A loan stays right when its two accounts are as they were and its rules *)
(* stay.                                                                   *)
LEMMA OneLoanStays ==
  ASSUME NEW m, NEW n, NEW l, LoanRight(m, l),
         \A a \in AccountsOf(l) : a \in DOMAIN n.accounts /\ n.accounts[a] = m.accounts[a],
         RulesStay(RulesOf(l), m.rules, n.rules)
  PROVE  LoanRight(n, l)
<1>1. l[1] \in AccountsOf(l) /\ l[2].charge \in RulesOf(l) /\ l[2].payment \in RulesOf(l)
  BY DEF AccountsOf, RulesOf
<1>2. AccountsRight(l, n.accounts) /\ n.accounts[l[1]].enabled = m.accounts[l[1]].enabled
  BY <1>1 DEF LoanRight, AccountsRight
<1>3. RulesRight(l, m.accounts[l[1]].enabled, n.rules)
  <2>1. RulesOf(l) \subseteq {row.id : row \in Range(n.rules)}
    BY DEF LoanRight, RulesRight, RulesStay
  <2> QED BY <1>1, <2>1 DEF LoanRight, RulesRight, RulesStay
<1> QED BY <1>2, <1>3 DEF LoanRight

(* The loans of a new model are right when each was there before and keeps *)
(* its accounts and rules.                                                 *)
LEMMA LoansStay ==
  ASSUME NEW s, NEW m, NEW n, LoansSound(s, m), Shape(n), Existing(n) \subseteq Existing(m),
         AccountsStay(m, n), RulesStay(RuleIds(n), m.rules, n.rules),
         Principals(s) \cap DOMAIN n.accounts \subseteq DOMAIN n.loans
  PROVE  LoansSound(s, n) /\ Grown(s, m, n)
<1>1. ASSUME NEW l \in Existing(n) PROVE LoanRight(n, l)
  <2>1. AccountsOf(l) \subseteq AccountIds(n) /\ RulesOf(l) \subseteq RuleIds(n)
    BY DEF AccountIds, RuleIds
  <2>2. RulesStay(RulesOf(l), m.rules, n.rules)
    BY <2>1 DEF RulesStay
  <2>3. \A a \in AccountsOf(l) : a \in DOMAIN n.accounts /\ n.accounts[a] = m.accounts[a]
    BY <2>1 DEF AccountsStay
  <2>4. LoanRight(m, l)
    BY DEF LoansSound
  <2> QED BY <2>2, <2>3, <2>4, OneLoanStays
<1>2. LoansApart(n)
  BY DEF LoansApart, LoansSound
<1>3. Existing(n) \subseteq Known(s) /\ Grown(s, m, n)
  BY DEF LoansSound, Grown
<1> QED BY <1>1, <1>2, <1>3 DEF LoansSound

(* The ids of a right loan are ids of the model's rows. *)
LEMMA LoanIdsAreIds ==
  ASSUME NEW s, NEW m, LoansSound(s, m)
  PROVE  /\ RuleIds(m) \subseteq IdsOf(m.rules) /\ RuleIds(m) \subseteq EntityIds(m)
         /\ AccountIds(m) \subseteq DOMAIN m.accounts /\ AccountIds(m) \subseteq EntityIds(m)
<1>1. ASSUME NEW l \in Existing(m) PROVE RulesOf(l) \subseteq IdsOf(m.rules) /\ AccountsOf(l) \subseteq DOMAIN m.accounts
  BY IdsAreOfRows DEF LoansSound, LoanRight, RulesRight, AccountsRight
<1>2. IdsOf(m.rules) \subseteq EntityIds(m) /\ DOMAIN m.accounts \subseteq EntityIds(m)
  BY DEF EntityIds, Ids, IdsOf
<1> QED BY <1>1, <1>2 DEF RuleIds, AccountIds

(* Calls that touch neither accounts, nor loans, nor rules.                *)
LEMMA NothingOfLoans ==
  ASSUME NEW s, NEW m, NEW n, LoansSound(s, m),
         {"accounts", "rules", "loans"} \subseteq DOMAIN n,
         n.accounts = m.accounts, n.rules = m.rules, n.loans = m.loans
  PROVE  LoansSound(s, n) /\ Grown(s, m, n)
<1>1. Existing(n) = Existing(m)
  BY DEF Existing
<1>2. Shape(n)
  BY DEF LoansSound, Shape
<1>3. AccountsStay(m, n)
  BY <1>1, LoanIdsAreIds DEF AccountsStay, AccountIds
<1>4. RulesStay(RuleIds(n), m.rules, n.rules)
  BY DEF RulesStay
<1> QED BY <1>1, <1>2, <1>3, <1>4, LoansStay DEF LoansSound

(* Calls that change rules, but none of a loan.                            *)
LEMMA OtherRules ==
  ASSUME NEW s, NEW m, NEW n, LoansSound(s, m),
         {"accounts", "rules", "loans"} \subseteq DOMAIN n,
         n.accounts = m.accounts, n.loans = m.loans, n.rules \in Seq(Range(n.rules)),
         RulesStay(RuleIds(m), m.rules, n.rules)
  PROVE  LoansSound(s, n) /\ Grown(s, m, n)
<1>1. Existing(n) = Existing(m)
  BY DEF Existing
<1>2. Shape(n)
  BY DEF Shape
<1>3. AccountsStay(m, n)
  BY <1>1, LoanIdsAreIds DEF AccountsStay, AccountIds
<1>4. RulesStay(RuleIds(n), m.rules, n.rules)
  BY <1>1 DEF RuleIds
<1> QED BY <1>1, <1>2, <1>3, <1>4, LoansStay DEF LoansSound

(* Calls that write an account of no loan. *)
LEMMA OtherAccount ==
  ASSUME NEW s, NEW m, NEW n, NEW id, NEW account, LoansSound(s, m),
         {"accounts", "rules", "loans"} \subseteq DOMAIN n,
         n.accounts = WithEntry(m.accounts, id, account), n.rules = m.rules, n.loans = m.loans,
         id \notin AccountIds(m), id \in DOMAIN m.accounts \/ id \notin Principals(s)
  PROVE  LoansSound(s, n) /\ Grown(s, m, n)
<1>1. Existing(n) = Existing(m)
  BY DEF Existing
<1>2. Shape(n)
  BY DEF LoansSound, Shape
<1>3. AccountsStay(m, n)
  BY <1>1, LoanIdsAreIds DEF AccountsStay, AccountIds, WithEntry
<1>4. RulesStay(RuleIds(n), m.rules, n.rules)
  BY DEF RulesStay
<1>5. Principals(s) \cap DOMAIN n.accounts \subseteq DOMAIN n.loans
  BY DEF LoansSound, WithEntry
<1> QED BY <1>1, <1>2, <1>3, <1>4, <1>5, LoansStay

(* Calls that remove accounts: with each its loan, and no other loan's.    *)
LEMMA AccountsGone ==
  ASSUME NEW s, NEW m, NEW n, NEW ids, LoansSound(s, m),
         {"accounts", "rules", "loans"} \subseteq DOMAIN n, n.rules \in Seq(Range(n.rules)),
         n.accounts = Restrict(m.accounts, DOMAIN m.accounts \ ids),
         n.loans = Restrict(m.loans, DOMAIN m.loans \ ids),
         \A l \in Existing(m) : AccountsOf(l) \cap ids # {} => l[1] \in ids,
         RulesStay(RuleIds(n), m.rules, n.rules)
  PROVE  LoansSound(s, n) /\ Grown(s, m, n)
<1>1. Existing(n) \subseteq Existing(m) /\ \A l \in Existing(n) : l[1] \notin ids
  <2>1. \A id \in DOMAIN n.loans : id \in DOMAIN m.loans /\ id \notin ids /\ n.loans[id] = m.loans[id]
    BY DEF Restrict
  <2>2. ASSUME NEW l \in Existing(n) PROVE l \in Existing(m) /\ l[1] \notin ids
    <3>1. l[1] \in DOMAIN n.loans /\ l = <<l[1], n.loans[l[1]]>>
      BY ExistingLoan
    <3>2. <<l[1], m.loans[l[1]]>> \in Existing(m)
      BY <2>1, <3>1, LoanOf
    <3> QED BY <2>1, <3>1, <3>2
  <2> QED BY <2>2
<1>2. Shape(n)
  BY DEF Shape
<1>3. AccountsStay(m, n)
  <2>1. ASSUME NEW a \in AccountIds(n) PROVE a \in DOMAIN m.accounts \ ids
    BY <1>1, LoanIdsAreIds DEF AccountIds
  <2> QED BY <2>1 DEF AccountsStay, Restrict
<1>4. Principals(s) \cap DOMAIN n.accounts \subseteq DOMAIN n.loans
  BY DEF LoansSound, Restrict
<1> QED BY <1>1, <1>2, <1>3, <1>4, LoansStay

-----------------------------------------------------------------------------
(* What the calls do to the sequence of rules.                             *)

(* A sequence of some rows is one of its own rows. *)
LEMMA RangeOfRows ==
  ASSUME NEW S, NEW rows \in Seq(S)
  PROVE  rows \in Seq(Range(rows)) /\ DOMAIN rows = 1 .. Len(rows)
BY RangeOfSeq DEF Range

(* A rule appended, with an id of no rule to keep. *)
LEMMA AppendedRule ==
  ASSUME NEW rows, rows \in Seq(Range(rows)), NEW row, NEW ids, row.id \notin ids
  PROVE  Append(rows, row) \in Seq(Range(Append(rows, row))) /\ RulesStay(ids, rows, Append(rows, row))
<1> DEFINE S == Range(rows) \cup {row}
<1>1. rows \in Seq(S)
  OBVIOUS
<1>2. Append(rows, row) \in Seq(S) /\ Len(Append(rows, row)) = Len(rows) + 1
  BY <1>1
<1>3. Append(rows, row) \in Seq(Range(Append(rows, row)))
  BY <1>2, RangeOfRows
<1>4. /\ \A i \in 1 .. Len(rows) : Append(rows, row)[i] = rows[i]
      /\ Append(rows, row)[Len(rows) + 1] = row
      /\ DOMAIN Append(rows, row) = 1 .. Len(rows) + 1 /\ DOMAIN rows = 1 .. Len(rows)
  BY <1>1, <1>2
<1> QED BY <1>3, <1>4 DEF RulesStay, Range

(* A rule overwritten in its place, with an id of no rule to keep. *)
LEMMA ChangedRule ==
  ASSUME NEW rows, rows \in Seq(Range(rows)), NEW row, NEW ids, row.id \notin ids
  PROVE  Changed(rows, row) \in Seq(Range(Changed(rows, row))) /\ RulesStay(ids, rows, Changed(rows, row))
<1> DEFINE S == Range(rows) \cup {row}
<1>1. DOMAIN rows = 1 .. Len(rows) /\ Len(rows) \in Nat /\ \A i \in DOMAIN rows : rows[i] \in S
  BY DEF Range
<1>2. Changed(rows, row) \in [1 .. Len(rows) -> S]
  BY <1>1 DEF Changed
<1>3. Changed(rows, row) \in Seq(S)
  BY <1>1, <1>2, IsASeq
<1>4. Changed(rows, row) \in Seq(Range(Changed(rows, row)))
  BY <1>3, RangeOfRows
<1>5. RulesStay(ids, rows, Changed(rows, row))
  BY DEF RulesStay, Range, Changed
<1> QED BY <1>4, <1>5

(* Rules picked, those to keep among them. *)
LEMMA PickedRules ==
  ASSUME NEW rows, rows \in Seq(Range(rows)), NEW places, NEW ids,
         \A i \in DOMAIN rows : rows[i].id \in ids => i \in places
  PROVE  Picked(rows, places) \in Seq(Range(Picked(rows, places))) /\ RulesStay(ids, rows, Picked(rows, places))
<1> DEFINE picked == Picked(rows, places)
           S == Range(rows)
<1>0. rows \in Seq(S)
  OBVIOUS
<1> HIDE DEF S
<1>1. /\ picked \in Seq(S)
      /\ \A k \in DOMAIN picked : \E i \in DOMAIN rows : i \in places /\ picked[k] = rows[i]
      /\ \A i \in DOMAIN rows : i \in places => \E k \in DOMAIN picked : picked[k] = rows[i]
  <2>1. picked \in Seq(S)
    BY <1>0, PickedRows
  <2>2. \A k \in DOMAIN picked : \E i \in DOMAIN rows : i \in places /\ picked[k] = rows[i]
    BY <1>0, PickedRows
  <2>3. \A i \in DOMAIN rows : i \in places => \E k \in DOMAIN picked : picked[k] = rows[i]
    BY <1>0, PickedRows
  <2> QED BY <2>1, <2>2, <2>3
<1> HIDE DEF picked
<1>2. picked \in Seq(Range(picked))
  BY <1>1, RangeOfRows
<1>3. \A row \in Range(picked) : row \in Range(rows)
  BY <1>1 DEF Range, S
<1>4. ASSUME NEW row \in Range(rows), row.id \in ids PROVE row \in Range(picked)
  BY <1>1, <1>4 DEF Range
<1> QED BY <1>2, <1>3, <1>4 DEF RulesStay, picked

(* A rule removed that is none to keep. *)
LEMMA RuleRemoved ==
  ASSUME NEW rows, rows \in Seq(Range(rows)), NEW id, NEW ids, id \notin ids
  PROVE  Without(rows, id) \in Seq(Range(Without(rows, id))) /\ RulesStay(ids, rows, Without(rows, id))
<1> DEFINE places == {i \in DOMAIN rows : rows[i].id # id}
<1>1. \A i \in DOMAIN rows : rows[i].id \in ids => i \in places
  OBVIOUS
<1> HIDE DEF places
<1>2. Picked(rows, places) \in Seq(Range(Picked(rows, places))) /\ RulesStay(ids, rows, Picked(rows, places))
  BY <1>1, PickedRules
<1> QED BY <1>2 DEF Without, places

(* A removed rule is gone. *)
LEMMA NoneWithout ==
  ASSUME NEW rows, rows \in Seq(Range(rows)), NEW id
  PROVE  id \notin IdsOf(Without(rows, id))
<1> DEFINE places == {i \in DOMAIN rows : rows[i].id # id}
<1> DEFINE S == Range(rows)
           picked == Picked(rows, places)
<1>1. rows \in Seq(S)
  OBVIOUS
<1> HIDE DEF S, places
<1>2. \A k \in DOMAIN picked : \E i \in DOMAIN rows : i \in places /\ picked[k] = rows[i]
  BY <1>1, PickedRows
<1> HIDE DEF picked
<1>3. \A k \in DOMAIN picked : picked[k].id # id
  BY <1>2 DEF places
<1>4. id \notin IdsOf(picked)
  BY <1>3 DEF IdsOf
<1> QED BY <1>4 DEF Without, picked, places

(* A row put before another: the same ids, so the same rows.               *)
LEMMA MovedIds ==
  ASSUME NEW S, NEW ids \in Seq(S), NEW id \in S, NEW before, MovableIn(ids, id, before)
  PROVE  moveIds(ids, id, before) \in Seq(S) /\ Range(moveIds(ids, id, before)) = Range(ids)
<1> DEFINE rest == Leaving(ids, {id})
           places == {i \in DOMAIN ids : ids[i] \notin {id}}
           place == CHOOSE i \in DOMAIN rest : rest[i] = before
           picked == Picked(ids, places)
<1> HIDE DEF places
<1>0. /\ picked \in Seq(S)
      /\ \A k \in DOMAIN picked : \E i \in DOMAIN ids : i \in places /\ picked[k] = ids[i]
      /\ \A i \in DOMAIN ids : i \in places => \E k \in DOMAIN picked : picked[k] = ids[i]
  BY PickedRows
<1> HIDE DEF picked
<1>1. Range(picked) = Range(ids) \ {id}
  BY <1>0 DEF Range, places
<1>2. rest \in Seq(S) /\ Range(rest) = Range(ids) \ {id}
  BY <1>0, <1>1 DEF Leaving, picked, places
<1> HIDE DEF rest
<1>3. id \in Range(ids)
  BY DEF MovableIn
<1>4. CASE before = ""
  <2>1. moveIds(ids, id, before) = Append(rest, id)
    BY <1>4 DEF moveIds, InsertedBefore, rest
  <2>2. /\ Append(rest, id) \in Seq(S) /\ DOMAIN Append(rest, id) = 1 .. Len(rest) + 1 /\ DOMAIN rest = 1 .. Len(rest)
        /\ Len(rest) \in Nat
        /\ Append(rest, id)[Len(rest) + 1] = id
        /\ \A i \in 1 .. Len(rest) : Append(rest, id)[i] = rest[i]
    BY <1>2
  <2>3. Range(Append(rest, id)) = Range(rest) \cup {id}
    BY <2>2 DEF Range
  <2> QED BY <1>2, <1>3, <2>1, <2>2, <2>3
<1>5. CASE before # ""
  <2>1. place \in DOMAIN rest
    BY <1>2, <1>5 DEF MovableIn, Range
  <2> HIDE DEF place
  <2> DEFINE moved == InsertAt(rest, place, id)
  <2>2. moveIds(ids, id, before) = moved
    BY <1>5 DEF moveIds, InsertedBefore, rest, place
  <2>3. place \in 1 .. Len(rest) /\ Len(rest) \in Nat
    BY <1>2, <2>1
  <2> DEFINE a == SubSeq(rest, 1, place - 1)
             b == SubSeq(rest, place, Len(rest))
  <2>4. /\ a \in Seq(S) /\ Len(a) = place - 1 /\ \A i \in 1 .. place - 1 : a[i] = rest[i]
        /\ b \in Seq(S) /\ Len(b) = Len(rest) - place + 1 /\ \A i \in 1 .. Len(rest) - place + 1 : b[i] = rest[place + i - 1]
    BY <1>2, <2>3
  <2>5. moved = a \o <<id>> \o b
    BY DEF InsertAt
  <2> HIDE DEF a, b
  <2>6. /\ a \o <<id>> \in Seq(S) /\ Len(a \o <<id>>) = place /\ (a \o <<id>>)[place] = id
        /\ \A i \in 1 .. place - 1 : (a \o <<id>>)[i] = rest[i]
    BY <2>3, <2>4
  <2> DEFINE c == a \o <<id>>
  <2> HIDE DEF c, moved
  <2>7. /\ moved \in Seq(S) /\ Len(moved) = Len(rest) + 1 /\ moved[place] = id
        /\ \A i \in 1 .. place - 1 : moved[i] = rest[i]
        /\ \A i \in 1 .. Len(rest) - place + 1 : moved[place + i] = rest[place + i - 1]
    <3>1. moved = c \o b /\ c \in Seq(S) /\ b \in Seq(S) /\ Len(c) = place /\ Len(b) = Len(rest) - place + 1
      BY <2>4, <2>5, <2>6 DEF c
    <3>2. /\ moved \in Seq(S) /\ Len(moved) = Len(rest) + 1
          /\ \A i \in 1 .. place : moved[i] = c[i]
          /\ \A i \in 1 .. Len(b) : moved[place + i] = b[i]
      <4>1. /\ c \o b \in Seq(S) /\ Len(c \o b) = Len(c) + Len(b)
            /\ \A i \in 1 .. Len(c) + Len(b) : (c \o b)[i] = IF i <= Len(c) THEN c[i] ELSE b[i - Len(c)]
        BY <3>1, ConcatProperties
      <4>2. Len(moved) = Len(rest) + 1 /\ \A i \in 1 .. place : moved[i] = c[i]
        BY <2>3, <3>1, <4>1
      <4>3. ASSUME NEW i \in 1 .. Len(b) PROVE moved[place + i] = b[i]
        <5>1. place + i \in 1 .. Len(c) + Len(b) /\ ~(place + i <= Len(c)) /\ (place + i) - Len(c) = i
          BY <2>3, <3>1
        <5> QED BY <3>1, <4>1, <5>1
      <4> QED BY <3>1, <4>1, <4>2, <4>3
    <3> QED BY <2>3, <2>4, <2>6, <3>1, <3>2 DEF c
  <2>8. DOMAIN moved = 1 .. Len(rest) + 1 /\ DOMAIN rest = 1 .. Len(rest)
    BY <1>2, <2>7
  <2>9. ASSUME NEW i \in DOMAIN moved PROVE moved[i] \in Range(rest) \cup {id}
    <3>1. CASE i < place
      BY <2>3, <2>7, <2>8, <3>1 DEF Range
    <3>2. CASE i = place
      BY <2>7, <3>2
    <3>3. CASE i > place
      <4>1. i - place \in 1 .. Len(rest) - place + 1 /\ i = place + (i - place) /\ i - 1 \in DOMAIN rest
        BY <2>3, <2>8, <3>3
      <4> DEFINE j == i - place
      <4>2. moved[place + j] = rest[place + j - 1]
        BY <2>7, <4>1
      <4>3. place + j = i /\ place + j - 1 = i - 1
        BY <2>3, <2>8
      <4> QED BY <4>1, <4>2, <4>3 DEF Range
    <3> QED BY <2>3, <2>8, <3>1, <3>2, <3>3
  <2>10. ASSUME NEW i \in DOMAIN rest PROVE rest[i] \in Range(moved)
    <3>1. CASE i < place
      <4>1. i \in 1 .. place - 1 /\ i \in DOMAIN moved
        BY <2>3, <2>8, <3>1
      <4> QED BY <2>7, <4>1 DEF Range
    <3>2. CASE i >= place
      <4> DEFINE j == i - place + 1
      <4>1. i \in Int /\ j \in 1 .. Len(rest) - place + 1 /\ i + 1 \in DOMAIN moved
        BY <2>3, <2>8, <3>2
      <4>2. moved[place + j] = rest[place + j - 1]
        BY <2>7, <4>1
      <4>3. place + j = i + 1 /\ place + j - 1 = i
        BY <2>3, <4>1
      <4> QED BY <4>1, <4>2, <4>3 DEF Range
    <3> QED BY <2>3, <2>8, <3>1, <3>2
  <2>11. id \in Range(moved)
    BY <2>3, <2>7, <2>8 DEF Range
  <2>12. Range(moved) = Range(rest) \cup {id}
    BY <2>9, <2>10, <2>11 DEF Range
  <2> QED BY <1>2, <1>3, <2>2, <2>7, <2>12
<1> QED BY <1>4, <1>5

(* A moved rule changes places and no rule. *)
LEMMA RuleMoved ==
  ASSUME NEW rows, rows \in Seq(Range(rows)), NEW id, NEW before, MovableIn(RowIds(rows), id, before), NEW ids
  PROVE  /\ moveRow(rows, id, before) \in Seq(Range(moveRow(rows, id, before)))
         /\ RulesStay(ids, rows, moveRow(rows, id, before))
<1> DEFINE S == IdsOf(rows)
           order == moveIds(RowIds(rows), id, before)
           moved == moveRow(rows, id, before)
<1>1. DOMAIN rows = 1 .. Len(rows) /\ Len(rows) \in Nat
  OBVIOUS
<1>2. RowIds(rows) \in [1 .. Len(rows) -> S]
  BY <1>1 DEF RowIds, IdsOf
<1>3. RowIds(rows) \in Seq(S) /\ Range(RowIds(rows)) = S
  BY <1>1, <1>2, IsASeq DEF RowIds, IdsOf, Range
<1>4. id \in S
  BY <1>3 DEF MovableIn
<1>5. order \in Seq(S) /\ Range(order) = S
  BY <1>3, <1>4, MovedIds
<1>6. moved = [i \in DOMAIN order |-> RowOf(rows, order[i])] /\ DOMAIN order = 1 .. Len(order) /\ Len(order) \in Nat
  BY <1>5 DEF moveRow, InOrder
<1> HIDE DEF order, moved
<1>7. \A i \in DOMAIN order : order[i] \in S /\ RowOf(rows, order[i]) \in Range(rows) /\ RowOf(rows, order[i]).id = order[i]
  BY <1>5, ChosenRow DEF Range
<1>8. moved \in Seq(Range(rows))
  BY <1>6, <1>7, IsASeq
<1>9. \A row \in Range(moved) : row \in Range(rows)
  BY <1>6, <1>7 DEF Range
<1>10. ASSUME NEW row \in Range(rows) PROVE \E kept \in Range(moved) : kept.id = row.id
  <2>1. row.id \in S
    BY DEF IdsOf, Range
  <2>2. PICK k \in DOMAIN order : order[k] = row.id
    BY <1>5, <2>1 DEF Range
  <2>3. moved[k] \in Range(moved) /\ moved[k].id = row.id
    BY <1>6, <1>7, <2>2 DEF Range
  <2> QED BY <2>3
<1> QED BY <1>8, <1>9, <1>10, RangeOfRows DEF RulesStay, moved

-----------------------------------------------------------------------------
(* Two loans share no rule: a rule routes as its own loan asks.            *)

(* A loan has two rules, and two loans share none. *)
LEMMA RulesApart ==
  ASSUME NEW s, NEW m, LoansSound(s, m), NEW l \in Existing(m)
  PROVE  /\ l[2].charge # l[2].payment
         /\ \A k \in Existing(m) : l = k \/ RulesOf(l) \cap RulesOf(k) = {}
<1>1. ASSUME NEW k \in Existing(m), NEW row \in Range(m.rules)
      PROVE  /\ row.id = k[2].charge => row.src = k[2].interest /\ row.dests = <<>>
             /\ row.id = k[2].payment => row.dests = <<k[2].interest, k[1]>>
  BY DEF LoansSound, LoanRight, RulesRight, ChargeRight, PaymentRight
<1>2. ASSUME NEW k \in Existing(m), NEW r \in RulesOf(k) PROVE \E row \in Range(m.rules) : row.id = r
  BY DEF LoansSound, LoanRight, RulesRight
<1>3. \A x, y : <<>> # <<x, y>>
  OBVIOUS
<1>4. \A x, y, z, w : <<x, y>> = <<z, w>> => x = z
  OBVIOUS
<1>5. l[2].charge # l[2].payment
  BY <1>1, <1>2, <1>3 DEF RulesOf
<1>6. ASSUME NEW k \in Existing(m), NEW r \in RulesOf(l) \cap RulesOf(k) PROVE l[2].interest = k[2].interest
  <2>1. PICK row \in Range(m.rules) : row.id = r
    BY <1>2
  <2> QED BY <1>1, <1>3, <1>4, <2>1 DEF RulesOf
<1>7. ASSUME NEW k \in Existing(m), l # k PROVE RulesOf(l) \cap RulesOf(k) = {}
  BY <1>6, <1>7 DEF LoansSound, LoansApart, AccountsOf
<1> QED BY <1>5, <1>7

(* A loan the scope knows is known by its principal account.               *)
LEMMA KnownByPrincipal ==
  ASSUME NEW s \in Scopes, NEW l \in Known(s), NEW k \in Known(s), l[1] = k[1]
  PROVE  l = k
<1>1. \A c \in Created(s.requests) : \A d \in Known(s) : d = c \/ LoanIds(d) \cap LoanIds(c) = {}
  BY ScopesAssumption DEF NewIds, Known
<1>2. l[1] \in LoanIds(l) /\ l[1] \in LoanIds(k)
  BY DEF LoanIds, AccountsOf
<1>3. CASE l \in Created(s.requests) \/ k \in Created(s.requests)
  BY <1>1, <1>2, <1>3
<1>4. CASE l \in Existing(s.model) /\ k \in Existing(s.model)
  BY <1>4, ExistingLoan
<1> QED BY <1>3, <1>4 DEF Known

(* The interest account of a loan the scope knows is no loan's principal.  *)
LEMMA NewInterest ==
  ASSUME NEW s \in Scopes, NEW l \in Created(s.requests)
  PROVE  l[2].interest \notin Principals(s)
<1>1. l[2].interest \in LoanIds(l) /\ l[2].interest # l[1] /\ \A k \in Known(s) : k[1] \in LoanIds(k)
  BY ScopesAssumption DEF NewIds, LoanIds, AccountsOf
<1>2. \A k \in Known(s) : k = l \/ LoanIds(k) \cap LoanIds(l) = {}
  BY ScopesAssumption DEF NewIds, Known
<1> QED BY <1>1, <1>2 DEF Principals

-----------------------------------------------------------------------------
(* The outcome of a call.                                                  *)

Keeps(s, m, done) == done.error = "" => LoansSound(s, done.model) /\ Grown(s, m, done.model)

(* A call that fails stores nothing. *)
LEMMA FailedKeeps ==
  ASSUME NEW s, NEW m
  PROVE  /\ Keeps(s, m, Failed("id conflict")) /\ Keeps(s, m, Failed("not found"))
         /\ Keeps(s, m, Failed("invalid")) /\ Keeps(s, m, Failed("foreign key"))
BY DEF Keeps, Failed

(* A commit stores the model it names. *)
LEMMA CommitKeeps ==
  ASSUME NEW s, NEW m, NEW n, LoansSound(s, n) /\ Grown(s, m, n), NEW mark
  PROVE  Keeps(s, m, Commit(n, mark))
BY FailedKeeps DEF Keeps, Commit, Done

(* Writes of the rows no loan has any of. *)
Framed(m, n) ==
  {"accounts", "rules", "loans"} \subseteq DOMAIN n /\ n.accounts = m.accounts /\ n.rules = m.rules /\ n.loans = m.loans

(* A commit that writes no account, rule or loan keeps the loans. *)
LEMMA FramedKeeps ==
  ASSUME NEW s, NEW m, LoansSound(s, m), NEW n, Framed(m, n), NEW mark
  PROVE  Keeps(s, m, Commit(n, mark))
BY NothingOfLoans, CommitKeeps DEF Framed

(* The fields of the model that hold none of a loan. *)
LEMMA OtherFields ==
  ASSUME NEW s, NEW m, LoansSound(s, m), NEW v
  PROVE  /\ Framed(m, [m EXCEPT !.txs = v]) /\ Framed(m, [m EXCEPT !.checks = v])
         /\ Framed(m, [m EXCEPT !.purchases = v]) /\ Framed(m, [m EXCEPT !.terms = v])
         /\ Framed(m, [m EXCEPT !.evals = v]) /\ Framed(m, [m EXCEPT !.listed = v]) /\ Framed(m, m)
BY DEF LoansSound, Shape, Framed

(* The calls on transactions (transaction_rows.go). *)
LEMMA TransactionsKeep ==
  ASSUME NEW s, NEW m, LoansSound(s, m), NEW t, NEW id, NEW before
  PROVE  /\ Keeps(s, m, CreateTransaction(m, t)) /\ Keeps(s, m, UpdateTransaction(m, t))
         /\ Keeps(s, m, DeleteTransaction(m, id)) /\ Keeps(s, m, MoveTransaction(m, id, before))
<1> DEFINE N(v) == [m EXCEPT !.txs = v]
<1>1. \A v, mark : Keeps(s, m, Commit(N(v), mark))
  BY OtherFields, FramedKeeps
<1>2. Keeps(s, m, Failed("id conflict")) /\ Keeps(s, m, Failed("not found"))
  BY FailedKeeps
<1>3. Keeps(s, m, CreateTransaction(m, t))
  BY <1>1, <1>2 DEF CreateTransaction
<1>4. Keeps(s, m, UpdateTransaction(m, t))
  BY <1>1, <1>2 DEF UpdateTransaction
<1>5. Keeps(s, m, DeleteTransaction(m, id))
  BY <1>1, <1>2 DEF DeleteTransaction
<1>6. Keeps(s, m, MoveTransaction(m, id, before))
  BY <1>1, <1>2 DEF MoveTransaction
<1> QED BY <1>3, <1>4, <1>5, <1>6

(* The calls on planned purchases (planned_purchases.go). *)
LEMMA PurchasesKeep ==
  ASSUME NEW s, NEW m, LoansSound(s, m), NEW p, NEW id, NEW before
  PROVE  /\ Keeps(s, m, CreatePlannedPurchase(m, p)) /\ Keeps(s, m, UpdatePlannedPurchase(m, p))
         /\ Keeps(s, m, DeletePlannedPurchase(m, id)) /\ Keeps(s, m, MovePlannedPurchase(m, id, before))
<1> DEFINE N(v) == [m EXCEPT !.purchases = v]
<1>1. (\A v, mark : Keeps(s, m, Commit(N(v), mark))) /\ \A mark : Keeps(s, m, Commit(m, mark))
  BY OtherFields, FramedKeeps
<1>2. Keeps(s, m, Failed("id conflict")) /\ Keeps(s, m, Failed("not found"))
  BY FailedKeeps
<1>3. Keeps(s, m, CreatePlannedPurchase(m, p))
  BY <1>1, <1>2 DEF CreatePlannedPurchase
<1>4. Keeps(s, m, UpdatePlannedPurchase(m, p))
  BY <1>1, <1>2 DEF UpdatePlannedPurchase
<1>5. Keeps(s, m, DeletePlannedPurchase(m, id))
  BY <1>1, <1>2 DEF DeletePlannedPurchase
<1>6. Keeps(s, m, MovePlannedPurchase(m, id, before))
  BY <1>1, <1>2 DEF MovePlannedPurchase
<1> QED BY <1>3, <1>4, <1>5, <1>6

(* The calls on evaluations (rows.go). *)
LEMMA EvaluationsKeep ==
  ASSUME NEW s, NEW m, LoansSound(s, m), NEW e, NEW id, NEW before
  PROVE  /\ Keeps(s, m, CreateEvaluation(m, e)) /\ Keeps(s, m, UpdateEvaluation(m, e))
         /\ Keeps(s, m, DeleteEvaluation(m, id)) /\ Keeps(s, m, MoveEvaluation(m, id, before))
<1> DEFINE N(v) == [m EXCEPT !.evals = v]
<1>1. \A v, mark : Keeps(s, m, Commit(N(v), mark))
  BY OtherFields, FramedKeeps
<1>2. Keeps(s, m, Failed("id conflict")) /\ Keeps(s, m, Failed("not found"))
  BY FailedKeeps
<1>3. Keeps(s, m, CreateEvaluation(m, e))
  BY <1>1, <1>2 DEF CreateEvaluation
<1>4. Keeps(s, m, UpdateEvaluation(m, e))
  BY <1>1, <1>2 DEF UpdateEvaluation
<1>5. Keeps(s, m, DeleteEvaluation(m, id))
  BY <1>1, <1>2 DEF DeleteEvaluation
<1>6. Keeps(s, m, MoveEvaluation(m, id, before))
  BY <1>1, <1>2 DEF MoveEvaluation
<1> QED BY <1>3, <1>4, <1>5, <1>6

(* The calls on checkpoints, payment terms and the order of accounts       *)
(* (rows.go).                                                              *)
LEMMA ObservationsKeep ==
  ASSUME NEW s, NEW m, LoansSound(s, m), NEW check, NEW account, NEW at, NEW terms, NEW id, NEW before
  PROVE  /\ Keeps(s, m, SaveCheckpoint(m, check)) /\ Keeps(s, m, DeleteCheckpointAt(m, account, at))
         /\ Keeps(s, m, SavePaymentTerms(m, account, terms)) /\ Keeps(s, m, DeletePaymentTerms(m, account))
         /\ Keeps(s, m, MoveAccount(m, id, before))
<1> DEFINE Checks(v) == [m EXCEPT !.checks = v]
           Terms(v) == [m EXCEPT !.terms = v]
           Ranked(v) == [m EXCEPT !.listed = v]
<1>1. /\ \A v, mark : Keeps(s, m, Commit(Checks(v), mark))
      /\ \A v, mark : Keeps(s, m, Commit(Terms(v), mark))
      /\ \A v, mark : Keeps(s, m, Commit(Ranked(v), mark))
  BY OtherFields, FramedKeeps
<1>2. Keeps(s, m, Failed("not found"))
  BY FailedKeeps
<1>3. Keeps(s, m, SaveCheckpoint(m, check))
  BY <1>1 DEF SaveCheckpoint, upsertCheckpoints
<1>4. Keeps(s, m, DeleteCheckpointAt(m, account, at))
  BY <1>1, <1>2 DEF DeleteCheckpointAt
<1>5. Keeps(s, m, SavePaymentTerms(m, account, terms))
  BY <1>1 DEF SavePaymentTerms
<1>6. Keeps(s, m, DeletePaymentTerms(m, account))
  BY <1>1, <1>2 DEF DeletePaymentTerms
<1>7. Keeps(s, m, MoveAccount(m, id, before))
  BY <1>1, <1>2 DEF MoveAccount
<1> QED BY <1>3, <1>4, <1>5, <1>6, <1>7

-----------------------------------------------------------------------------
(* Calls that write or remove an account of no loan.                       *)

(* A model with sound loans has the fields they are made of. *)
LEMMA Fields ==
  ASSUME NEW s, NEW m, LoansSound(s, m)
  PROVE  {"accounts", "rules", "loans"} \subseteq DOMAIN m /\ m.rules \in Seq(Range(m.rules))
BY DEF LoansSound, Shape

(* An account of no loan created or updated, with its balance. *)
LEMMA AccountWritten ==
  ASSUME NEW s, NEW m, LoansSound(s, m), NEW id, NEW entry, NEW mark,
         id \notin AccountIds(m), id \in DOMAIN m.accounts \/ id \notin Principals(s)
  PROVE  /\ Keeps(s, m, CreateAccountWithBalance(m, id, entry.account, entry.checks))
         /\ Keeps(s, m, UpdateAccountWithBalance(m, id, entry.account, entry.checks))
<1> DEFINE N(v) == [WithAccount(m, id, entry.account) EXCEPT !.checks = v]
           L(v) == [insertAccountTx(m, id, entry.account) EXCEPT !.checks = v]
           Like(n) == /\ {"accounts", "rules", "loans"} \subseteq DOMAIN n
                      /\ n.accounts = WithEntry(m.accounts, id, entry.account)
                      /\ n.rules = m.rules /\ n.loans = m.loans
<1>1. \A n, k : Like(n) => Keeps(s, m, Commit(n, k))
  BY OtherAccount, CommitKeeps
<1>2. \A v : Like(N(v)) /\ Like(L(v))
  BY Fields DEF WithAccount, insertAccountTx
<1>3. Keeps(s, m, Failed("id conflict")) /\ Keeps(s, m, Failed("not found"))
  BY FailedKeeps
<1> HIDE DEF Like
<1>4. \A v, k : Keeps(s, m, Commit(N(v), k)) /\ Keeps(s, m, Commit(L(v), k))
  BY <1>1, <1>2
<1>5. Keeps(s, m, CreateAccountWithBalance(m, id, entry.account, entry.checks))
  BY <1>3, <1>4 DEF CreateAccountWithBalance, upsertCheckpoints
<1>6. Keeps(s, m, UpdateAccountWithBalance(m, id, entry.account, entry.checks))
  BY <1>3, <1>4 DEF UpdateAccountWithBalance, upsertCheckpoints
<1> QED BY <1>5, <1>6

(* An account of no loan deleted, with what refers to it. *)
LEMMA AccountDeleted ==
  ASSUME NEW s, NEW m, LoansSound(s, m), NEW id, id \notin AccountIds(m)
  PROVE  Keeps(s, m, DeleteAccount(m, id))
<1> DEFINE n == RemoveAccounts(m, {id})
<1>1. /\ {"accounts", "rules", "loans"} \subseteq DOMAIN n
      /\ n.accounts = Restrict(m.accounts, DOMAIN m.accounts \ {id})
      /\ n.loans = Restrict(m.loans, DOMAIN m.loans \ {id})
      /\ n.rules = m.rules
  BY Fields DEF RemoveAccounts
<1> HIDE DEF n
<1>2. \A l \in Existing(m) : AccountsOf(l) \cap {id} # {} => l[1] \in {id}
  BY DEF AccountIds
<1>3. n.rules \in Seq(Range(n.rules)) /\ RulesStay(RuleIds(n), m.rules, n.rules)
  BY <1>1, Fields DEF RulesStay
<1>4. LoansSound(s, n) /\ Grown(s, m, n)
  BY <1>1, <1>2, <1>3, AccountsGone
<1>5. Keeps(s, m, Commit(n, FromStart)) /\ Keeps(s, m, Failed("not found"))
  BY <1>4, CommitKeeps, FailedKeeps
<1> QED BY <1>5 DEF DeleteAccount, n

-----------------------------------------------------------------------------
(* Calls that write, remove or move a rule of no loan.                     *)

(* A commit of rules that keep those of the loans, with or without the     *)
(* transactions that claim them.                                           *)
LEMMA RulesWritten ==
  ASSUME NEW s, NEW m, LoansSound(s, m), NEW rows, rows \in Seq(Range(rows)),
         RulesStay(RuleIds(m), m.rules, rows), NEW txs, NEW mark
  PROVE  /\ Keeps(s, m, Commit([m EXCEPT !.rules = rows], mark))
         /\ Keeps(s, m, Commit([m EXCEPT !.rules = rows, !.txs = txs], mark))
         /\ Keeps(s, m, Commit([[m EXCEPT !.rules = rows] EXCEPT !.txs = txs], mark))
<1> DEFINE Like(n) == /\ {"accounts", "rules", "loans"} \subseteq DOMAIN n
                      /\ n.accounts = m.accounts /\ n.loans = m.loans /\ n.rules = rows
<1>1. \A n : Like(n) => Keeps(s, m, Commit(n, mark))
  BY OtherRules, CommitKeeps
<1>2. /\ Like([m EXCEPT !.rules = rows]) /\ Like([m EXCEPT !.rules = rows, !.txs = txs])
      /\ Like([[m EXCEPT !.rules = rows] EXCEPT !.txs = txs])
  BY Fields
<1> HIDE DEF Like
<1> QED BY <1>1, <1>2

(* A rule with a new id at the end. *)
LEMMA RuleAppended ==
  ASSUME NEW s, NEW m, LoansSound(s, m), NEW row, row.id \notin EntityIds(m)
  PROVE  Append(m.rules, row) \in Seq(Range(Append(m.rules, row))) /\ RulesStay(RuleIds(m), m.rules, Append(m.rules, row))
BY LoanIdsAreIds, AppendedRule, Fields

(* A rule created, alone or with the transaction that claims its first     *)
(* occurrence.                                                             *)
LEMMA ScheduleCreated ==
  ASSUME NEW s, NEW m, LoansSound(s, m), NEW row, NEW tx, NEW date
  PROVE  Keeps(s, m, CreateSchedule(m, row)) /\ Keeps(s, m, CreateScheduleClaimingTransaction(m, row, tx, date))
<1>1. /\ Keeps(s, m, Failed("id conflict")) /\ Keeps(s, m, Failed("not found"))
  BY FailedKeeps
<1>2. CASE row.id \in EntityIds(m)
  BY <1>1, <1>2 DEF CreateSchedule, CreateScheduleClaimingTransaction
<1>3. CASE row.id \notin EntityIds(m)
  <2>1. \A txs, mark : /\ Keeps(s, m, Commit([m EXCEPT !.rules = Append(m.rules, row)], mark))
                       /\ Keeps(s, m, Commit([m EXCEPT !.rules = Append(m.rules, row), !.txs = txs], mark))
    BY <1>3, RuleAppended, RulesWritten
  <2>2. Keeps(s, m, CreateSchedule(m, row))
    BY <1>1, <2>1 DEF CreateSchedule
  <2>3. Keeps(s, m, CreateScheduleClaimingTransaction(m, row, tx, date))
    BY <1>1, <2>1 DEF CreateScheduleClaimingTransaction
  <2> QED BY <2>2, <2>3
<1> QED BY <1>2, <1>3

(* A rule of no loan updated. *)
LEMMA ScheduleUpdated ==
  ASSUME NEW s, NEW m, LoansSound(s, m), NEW row, row.id \notin RuleIds(m)
  PROVE  Keeps(s, m, UpdateSchedule(m, row))
<1>1. Changed(m.rules, row) \in Seq(Range(Changed(m.rules, row))) /\ RulesStay(RuleIds(m), m.rules, Changed(m.rules, row))
  BY ChangedRule, Fields
<1>2. Keeps(s, m, Commit([m EXCEPT !.rules = Changed(m.rules, row)], FromStart)) /\ Keeps(s, m, Failed("not found"))
  BY <1>1, RulesWritten, FailedKeeps
<1> QED BY <1>2 DEF UpdateSchedule

(* A rule of no loan deleted, or replaced by a transaction. *)
LEMMA ScheduleDeleted ==
  ASSUME NEW s, NEW m, LoansSound(s, m), NEW id, id \notin RuleIds(m), NEW t
  PROVE  Keeps(s, m, DeleteSchedule(m, id)) /\ Keeps(s, m, DeleteScheduleCreatingTransaction(m, id, t))
<1> DEFINE rows == Without(m.rules, id)
<1>1. rows \in Seq(Range(rows)) /\ RulesStay(RuleIds(m), m.rules, rows)
  BY RuleRemoved, Fields
<1> HIDE DEF rows
<1>2. /\ \A txs : Keeps(s, m, Commit([m EXCEPT !.rules = rows, !.txs = txs], FromStart))
      /\ Keeps(s, m, Failed("not found")) /\ Keeps(s, m, Failed("id conflict"))
  BY <1>1, RulesWritten, FailedKeeps
<1>3. Keeps(s, m, DeleteSchedule(m, id))
  BY <1>2 DEF DeleteSchedule, RemoveSchedule, rows
<1>4. \A txs, other : [[m EXCEPT !.rules = rows, !.txs = txs] EXCEPT !.txs = other] = [m EXCEPT !.rules = rows, !.txs = other]
  OBVIOUS
<1>5. Keeps(s, m, DeleteScheduleCreatingTransaction(m, id, t))
  BY <1>2, <1>4 DEF DeleteScheduleCreatingTransaction, RemoveSchedule, rows
<1> QED BY <1>3, <1>5

(* Any rule moved, one of a loan included. *)
LEMMA ScheduleMoved ==
  ASSUME NEW s, NEW m, LoansSound(s, m), NEW id, NEW before
  PROVE  Keeps(s, m, MoveSchedule(m, id, before))
<1>1. Keeps(s, m, Failed("not found"))
  BY FailedKeeps
<1>2. CASE ~MovableIn(RowIds(m.rules), id, before)
  BY <1>1, <1>2 DEF MoveSchedule
<1>3. CASE MovableIn(RowIds(m.rules), id, before)
  <2>1. /\ moveRow(m.rules, id, before) \in Seq(Range(moveRow(m.rules, id, before)))
        /\ RulesStay(RuleIds(m), m.rules, moveRow(m.rules, id, before))
    BY <1>3, RuleMoved, Fields
  <2>2. Keeps(s, m, Commit([m EXCEPT !.rules = moveRow(m.rules, id, before)], FromStart))
    BY <2>1, RulesWritten
  <2> QED BY <1>3, <2>2 DEF MoveSchedule
<1> QED BY <1>2, <1>3

-----------------------------------------------------------------------------
(* Calls that remove or write a loan.                                      *)

(* Two rules removed that are none to keep. *)
LEMMA TwiceRemoved ==
  ASSUME NEW rows, rows \in Seq(Range(rows)), NEW a, NEW b, NEW ids, a \notin ids, b \notin ids
  PROVE  /\ Without(Without(rows, a), b) \in Seq(Range(Without(Without(rows, a), b)))
         /\ RulesStay(ids, rows, Without(Without(rows, a), b))
<1> DEFINE once == Without(rows, a)
           twice == Without(once, b)
<1>1. once \in Seq(Range(once)) /\ RulesStay(ids, rows, once)
  BY RuleRemoved
<1> HIDE DEF once
<1>2. twice \in Seq(Range(twice)) /\ RulesStay(ids, once, twice)
  BY <1>1, RuleRemoved
<1> HIDE DEF twice
<1>3. RulesStay(ids, rows, twice)
  <2>1. \A row \in Range(twice) : row.id \in ids => row \in Range(rows)
    BY <1>1, <1>2 DEF RulesStay
  <2>2. ASSUME NEW row \in Range(rows), row.id \in ids PROVE \E kept \in Range(twice) : kept.id = row.id
    <3>1. PICK kept \in Range(once) : kept.id = row.id
      BY <1>1, <2>2 DEF RulesStay
    <3> QED BY <1>2, <2>2, <3>1 DEF RulesStay
  <2> QED BY <2>1, <2>2 DEF RulesStay
<1> QED BY <1>2, <1>3 DEF twice, once

(* A loan deleted with its accounts and rules: the other loans share none  *)
(* of them.                                                                *)
LEMMA LoanDeleted ==
  ASSUME NEW s, NEW m, LoansSound(s, m), NEW id
  PROVE  Keeps(s, m, DeleteLoan(m, id))
<1>1. Keeps(s, m, Failed("not found"))
  BY FailedKeeps
<1>2. CASE id \notin DOMAIN m.loans
  BY <1>1, <1>2 DEF DeleteLoan
<1>3. CASE id \in DOMAIN m.loans
  <2> DEFINE loan == m.loans[id]
             l == <<id, loan>>
             members == {id, loan.interest}
             n == WithoutLoan(m, id)
             rows == Without(Without(m.rules, loan.charge), loan.payment)
  <2>1. l \in Existing(m) /\ l[1] = id /\ l[2] = loan
    BY <1>3, LoanOf
  <2>2. /\ {"accounts", "rules", "loans"} \subseteq DOMAIN n
        /\ n.accounts = Restrict(m.accounts, DOMAIN m.accounts \ members)
        /\ n.loans = Restrict(m.loans, DOMAIN m.loans \ members)
        /\ n.rules = rows
    BY Fields DEF WithoutLoan, RemoveAccounts, RemoveSchedule
  <2> HIDE DEF n, l
  <2>3. \A k \in Existing(m) : AccountsOf(k) \cap members # {} => k[1] \in members
    BY <2>1 DEF LoansSound, LoansApart, AccountsOf
  <2>4. ASSUME NEW k \in Existing(n) PROVE k \in Existing(m) /\ k # l
    <3>1. k[1] \in DOMAIN n.loans /\ k = <<k[1], n.loans[k[1]]>>
      BY ExistingLoan
    <3>2. k[1] \in DOMAIN m.loans /\ k[1] # id /\ n.loans[k[1]] = m.loans[k[1]]
      BY <2>2, <3>1 DEF Restrict
    <3>3. <<k[1], m.loans[k[1]]>> \in Existing(m)
      BY <3>2, LoanOf
    <3> QED BY <2>1, <3>1, <3>2, <3>3
  <2>5. loan.charge \notin RuleIds(n) /\ loan.payment \notin RuleIds(n)
    <3>1. \A k \in Existing(n) : RulesOf(l) \cap RulesOf(k) = {}
      BY <2>1, <2>4, RulesApart
    <3>2. loan.charge \in RulesOf(l) /\ loan.payment \in RulesOf(l)
      BY <2>1 DEF RulesOf
    <3> QED BY <3>1, <3>2 DEF RuleIds
  <2> HIDE DEF loan
  <2>6. rows \in Seq(Range(rows)) /\ RulesStay(RuleIds(n), m.rules, rows)
    BY <2>5, Fields, TwiceRemoved
  <2> HIDE DEF rows, members
  <2>7. LoansSound(s, n) /\ Grown(s, m, n)
    BY <2>2, <2>3, <2>6, AccountsGone
  <2>8. Keeps(s, m, Commit(n, FromStart))
    BY <2>7, CommitKeeps
  <2> QED BY <1>3, <2>8 DEF DeleteLoan, n
<1> QED BY <1>2, <1>3

(* What BuildLoan makes, and what keeping floors and places makes of it.   *)
BundleRight(b) ==
  LET l == <<b.id, b.loan>>
      enabled == b.accounts[b.id].enabled
  IN  /\ DOMAIN b.accounts = AccountsOf(l)
      /\ b.id # b.loan.interest
      /\ \A a \in AccountsOf(l) :
           b.accounts[a].kind = "debt" /\ b.accounts[a].max = 0 /\ b.accounts[a].enabled = enabled
      /\ b.rules \in Seq(Range(b.rules))
      /\ IdsOf(b.rules) = RulesOf(l)
      /\ \A row \in Range(b.rules) :
           /\ {"id", "src", "dests", "amount", "end", "cap", "enabled"} \subseteq DOMAIN row
           /\ \/ row.id = b.loan.charge /\ ChargeRight(l, enabled, row)
              \/ row.id = b.loan.payment /\ PaymentRight(l, enabled, row)

(* A rule of a right bundle is the charge or the payment of its loan. *)
LEMMA BothRules ==
  ASSUME NEW b, NEW l, l = <<b.id, b.loan>>, BundleRight(b), b.loan.charge # b.loan.payment, NEW row \in Range(b.rules)
  PROVE  /\ row.id \in RulesOf(l)
         /\ row.id = l[2].charge => ChargeRight(l, b.accounts[b.id].enabled, row)
         /\ row.id = l[2].payment => PaymentRight(l, b.accounts[b.id].enabled, row)
BY DEF BundleRight, RulesOf

(* The accounts of the loan a bundle writes are those of the bundle.       *)
LEMMA BundleAccountsRight ==
  ASSUME NEW m, NEW b, NEW l, l = <<b.id, b.loan>>, BundleRight(b)
  PROVE  LET accounts == Overlaid(m.accounts, b.accounts)
         IN  AccountsRight(l, accounts) /\ accounts[l[1]].enabled = b.accounts[b.id].enabled
BY DEF BundleRight, Overlaid, AccountsRight, AccountsOf

(* The rows of two sequences, one after the other. *)
LEMMA JoinedRules ==
  ASSUME NEW a, NEW b, a \in Seq(Range(a)), b \in Seq(Range(b))
  PROVE  a \o b \in Seq(Range(a \o b)) /\ Range(a \o b) = Range(a) \cup Range(b)
<1> DEFINE S == Range(a) \cup Range(b)
<1>1. a \in Seq(S) /\ b \in Seq(S)
  OBVIOUS
<1>2. /\ a \o b \in Seq(S) /\ Len(a \o b) = Len(a) + Len(b)
      /\ \A i \in 1 .. Len(a) + Len(b) : (a \o b)[i] = IF i <= Len(a) THEN a[i] ELSE b[i - Len(a)]
  BY <1>1, ConcatProperties
<1> DEFINE c == a \o b
<1> HIDE DEF c
<1>3. /\ DOMAIN a = 1 .. Len(a) /\ Len(a) \in Nat /\ DOMAIN b = 1 .. Len(b) /\ Len(b) \in Nat
      /\ DOMAIN c = 1 .. Len(a) + Len(b)
  BY <1>1, <1>2 DEF c
<1>4. ASSUME NEW i \in DOMAIN c PROVE c[i] \in S
  BY <1>2, <1>3, ElementOfSeq DEF c
<1>5. ASSUME NEW i \in DOMAIN a PROVE a[i] \in Range(c)
  <2>1. i \in DOMAIN c /\ c[i] = a[i]
    BY <1>2, <1>3 DEF c
  <2> QED BY <2>1 DEF Range
<1>6. ASSUME NEW i \in DOMAIN b PROVE b[i] \in Range(c)
  <2>1. Len(a) + i \in 1 .. Len(a) + Len(b) /\ ~(Len(a) + i <= Len(a)) /\ (Len(a) + i) - Len(a) = i
    BY <1>3
  <2>2. c[Len(a) + i] = b[i]
    BY <1>2, <2>1 DEF c
  <2> QED BY <1>3, <2>1, <2>2 DEF Range
<1>7. Range(c) = S
  BY <1>4, <1>5, <1>6 DEF Range
<1>8. c \in Seq(Range(c))
  BY <1>2, RangeOfRows DEF c
<1> QED BY <1>7, <1>8 DEF c

(* A new loan: its ids are of no row, so the other loans stay as they are. *)
LEMMA LoanCreated ==
  ASSUME NEW s \in Scopes, NEW m, LoansSound(s, m), NEW b, BundleRight(b), <<b.id, b.loan>> \in Created(s.requests)
  PROVE  Keeps(s, m, SaveLoan(m, b, TRUE))
<1> DEFINE ids == {b.id, b.loan.interest, b.loan.charge, b.loan.payment}
           l == <<b.id, b.loan>>
           rows == m.rules \o b.rules
           n == [upsertCheckpoints(BundleAccounts(m, b), b.checks) EXCEPT !.rules = rows]
<1> HIDE DEF rows
<1>1. /\ {"accounts", "rules", "loans"} \subseteq DOMAIN n
      /\ n.accounts = Overlaid(m.accounts, b.accounts)
      /\ n.loans = WithEntry(m.loans, b.id, b.loan)
      /\ n.rules = rows
  BY Fields DEF upsertCheckpoints, BundleAccounts
<1> USE DEF rows
<1>2. (upsertCheckpoints(BundleAccounts(m, b), b.checks)).rules = m.rules
  BY Fields DEF upsertCheckpoints, BundleAccounts
<1>3. SaveLoan(m, b, TRUE) = IF ids \cap EntityIds(m) # {} THEN Failed("id conflict") ELSE Commit(n, FromStart)
  BY <1>2 DEF SaveLoan
<1> HIDE DEF n
<1>4. Keeps(s, m, Failed("id conflict"))
  BY FailedKeeps
<1>5. SUFFICES ASSUME ids \cap EntityIds(m) = {} PROVE LoansSound(s, n) /\ Grown(s, m, n)
  BY <1>3, <1>4, <1>5, CommitKeeps
<1>6. b.rules \in Seq(Range(b.rules)) /\ rows \in Seq(Range(rows)) /\ Range(rows) = Range(m.rules) \cup Range(b.rules)
  BY Fields, JoinedRules DEF BundleRight
<1>7. l \in Created(s.requests) /\ l[1] = b.id /\ l[2] = b.loan /\ b.loan.charge # b.loan.payment
  BY ScopesAssumption DEF NewIds
<1> HIDE DEF rows
<1>8. /\ AccountsOf(l) = {b.id, b.loan.interest} /\ RulesOf(l) = {b.loan.charge, b.loan.payment}
      /\ AccountsOf(l) \cap DOMAIN m.accounts = {} /\ RulesOf(l) \cap IdsOf(m.rules) = {}
      /\ AccountsOf(l) \cap AccountIds(m) = {} /\ RulesOf(l) \cap RuleIds(m) = {}
  <2>1. DOMAIN m.accounts \subseteq EntityIds(m) /\ IdsOf(m.rules) \subseteq EntityIds(m)
    BY DEF EntityIds, Ids, IdsOf
  <2>2. AccountIds(m) \subseteq EntityIds(m) /\ RuleIds(m) \subseteq EntityIds(m)
    BY LoanIdsAreIds
  <2> QED BY <1>5, <1>7, <2>1, <2>2 DEF AccountsOf, RulesOf
<1> HIDE DEF l
<1>9. ASSUME NEW k \in Existing(n) PROVE k = l \/ k \in Existing(m)
  <2>1. k[1] \in DOMAIN n.loans /\ k = <<k[1], n.loans[k[1]]>>
    BY ExistingLoan
  <2>2. CASE k[1] = b.id
    BY <1>1, <2>1, <2>2 DEF WithEntry, l
  <2>3. CASE k[1] # b.id
    <3>1. k[1] \in DOMAIN m.loans /\ n.loans[k[1]] = m.loans[k[1]]
      BY <1>1, <2>1, <2>3 DEF WithEntry
    <3> QED BY <2>1, <3>1, LoanOf
  <2> QED BY <2>2, <2>3
<1>10. LoanRight(n, l)
  <2>1. AccountsRight(l, n.accounts) /\ n.accounts[l[1]].enabled = b.accounts[b.id].enabled
    BY <1>1, BundleAccountsRight DEF l
  <2>2. RulesOf(l) \subseteq {row.id : row \in Range(b.rules)}
    BY IdsAreOfRows DEF BundleRight, l
  <2>3. \A row \in Range(m.rules) : row.id \notin RulesOf(l)
    BY <1>8, IdsAreOfRows
  <2>4. RulesOf(l) \subseteq {row.id : row \in Range(rows)}
    BY <1>6, <2>2
  <2>5. ASSUME NEW row \in Range(rows), row.id \in RulesOf(l)
        PROVE  /\ row.id = l[2].charge => ChargeRight(l, b.accounts[b.id].enabled, row)
               /\ row.id = l[2].payment => PaymentRight(l, b.accounts[b.id].enabled, row)
    BY <1>6, <1>7, <2>3, <2>5, BothRules DEF l
  <2>6. l[2].charge \in RulesOf(l) /\ l[2].payment \in RulesOf(l)
    BY DEF RulesOf
  <2> QED BY <1>1, <2>1, <2>4, <2>5, <2>6 DEF LoanRight, RulesRight
<1>11. ASSUME NEW k \in Existing(m) PROVE LoanRight(n, k)
  <2>1. AccountsOf(k) \subseteq AccountIds(m) /\ RulesOf(k) \subseteq RuleIds(m)
    BY <1>11 DEF AccountIds, RuleIds
  <2>2. DOMAIN b.accounts = AccountsOf(l) /\ \A row \in Range(b.rules) : row.id \in RulesOf(l)
    BY IdsAreOfRows DEF BundleRight, l
  <2>3. \A a \in AccountsOf(k) : a \in DOMAIN n.accounts /\ n.accounts[a] = m.accounts[a]
    BY <1>1, <1>8, <2>1, <2>2, LoanIdsAreIds DEF Overlaid
  <2>4. RulesStay(RulesOf(k), m.rules, n.rules)
    BY <1>1, <1>6, <1>8, <2>1, <2>2 DEF RulesStay
  <2> QED BY <1>11, <2>3, <2>4, OneLoanStays DEF LoansSound
<1>12. LoansApart(n)
  <2>1. \A k \in Existing(m) : AccountsOf(l) \cap AccountsOf(k) = {}
    BY <1>8 DEF AccountIds
  <2> QED BY <1>9, <2>1 DEF LoansApart, LoansSound
<1>13. Existing(n) \subseteq Known(s) /\ Grown(s, m, n)
  BY <1>7, <1>9 DEF Known, Grown, LoansSound
<1>14. Principals(s) \cap DOMAIN n.accounts \subseteq DOMAIN n.loans
  <2>1. DOMAIN n.accounts = DOMAIN m.accounts \cup {b.id, b.loan.interest} /\ DOMAIN n.loans = DOMAIN m.loans \cup {b.id}
    BY <1>1, <1>8 DEF Overlaid, WithEntry, BundleRight, l
  <2>2. b.loan.interest \notin Principals(s)
    BY <1>7, NewInterest
  <2> QED BY <2>1, <2>2 DEF LoansSound
<1>15. Shape(n)
  BY <1>1, <1>6 DEF Shape
<1> QED BY <1>9, <1>10, <1>11, <1>12, <1>13, <1>14, <1>15 DEF LoansSound

-----------------------------------------------------------------------------
(* The update of a loan: the stored loan is the one the bundle names.      *)

(* A function over 1 to n is a sequence of its values. *)
LEMMA LoopedRows ==
  ASSUME NEW n \in Nat, NEW rows, rows = [i \in 1 .. n |-> rows[i]]
  PROVE  rows \in Seq(Range(rows))
<1> DEFINE S == Range(rows)
<1>1. rows \in [1 .. n -> S]
  BY DEF Range
<1> HIDE DEF S
<1>2. rows \in Seq(S)
  BY <1>1, IsASeq
<1> QED BY <1>2 DEF S

(* What a loan asks of a rule does not depend on its place. *)
LEMMA Reranked ==
  ASSUME NEW row, {"id", "src", "dests", "amount", "end", "cap", "enabled"} \subseteq DOMAIN row, NEW p,
         NEW l, NEW enabled
  PROVE  LET new == [row EXCEPT !.priority = p]
         IN  /\ new.id = row.id
             /\ {"id", "src", "dests", "amount", "end", "cap", "enabled"} \subseteq DOMAIN new
             /\ ChargeRight(l, enabled, row) => ChargeRight(l, enabled, new)
             /\ PaymentRight(l, enabled, row) => PaymentRight(l, enabled, new)
<1> DEFINE new == [row EXCEPT !.priority = p]
<1>1. /\ new.id = row.id /\ new.src = row.src /\ new.dests = row.dests /\ new.amount = row.amount
      /\ new.end = row.end /\ new.cap = row.cap /\ new.enabled = row.enabled
      /\ DOMAIN new = DOMAIN row
  OBVIOUS
<1> HIDE DEF new
<1>2. new.id = row.id /\ {"id", "src", "dests", "amount", "end", "cap", "enabled"} \subseteq DOMAIN new
  BY <1>1
<1>3. ChargeRight(l, enabled, row) => ChargeRight(l, enabled, new)
  BY <1>1 DEF ChargeRight
<1>4. PaymentRight(l, enabled, row) => PaymentRight(l, enabled, new)
  BY <1>1 DEF PaymentRight
<1> QED BY <1>2, <1>3, <1>4 DEF new

(* The rules of a loan rewritten in their places: no row is lost, and      *)
(* those of other loans are as they were.                                  *)
LEMMA RewrittenRules ==
  ASSUME NEW rows, rows \in Seq(Range(rows)), NEW b, BundleRight(b), NEW l, l = <<b.id, b.loan>>,
         b.loan.charge # b.loan.payment
  PROVE  /\ Rewritten(rows, b.rules) \in Seq(Range(Rewritten(rows, b.rules)))
         /\ \A row \in Range(rows) : \E kept \in Range(Rewritten(rows, b.rules)) : kept.id = row.id
         /\ \A row \in Range(Rewritten(rows, b.rules)) :
              /\ row.id \notin RulesOf(l) => row \in Range(rows)
              /\ row.id = l[2].charge => ChargeRight(l, b.accounts[b.id].enabled, row)
              /\ row.id = l[2].payment => PaymentRight(l, b.accounts[b.id].enabled, row)
<1> DEFINE new == Rewritten(rows, b.rules)
           enabled == b.accounts[b.id].enabled
<1>1. IdsOf(b.rules) = RulesOf(l)
  BY DEF BundleRight
<1>2. /\ DOMAIN rows = 1 .. Len(rows) /\ Len(rows) \in Nat
      /\ new = [i \in 1 .. Len(rows) |-> IF rows[i].id \in RulesOf(l)
                                         THEN [RowOf(b.rules, rows[i].id) EXCEPT !.priority = rows[i].priority]
                                         ELSE rows[i]]
  BY <1>1 DEF Rewritten
<1> HIDE DEF new, enabled
<1>3. ASSUME NEW i \in 1 .. Len(rows), rows[i].id \in RulesOf(l)
      PROVE  /\ new[i].id = rows[i].id
             /\ rows[i].id = l[2].charge => ChargeRight(l, enabled, new[i])
             /\ rows[i].id = l[2].payment => PaymentRight(l, enabled, new[i])
  <2> DEFINE row == RowOf(b.rules, rows[i].id)
  <2>1. row \in Range(b.rules) /\ row.id = rows[i].id
    BY <1>1, <1>3, ChosenRow
  <2>2. new[i] = [row EXCEPT !.priority = rows[i].priority]
    BY <1>2, <1>3
  <2> HIDE DEF row
  <2>3. {"id", "src", "dests", "amount", "end", "cap", "enabled"} \subseteq DOMAIN row
    BY <2>1 DEF BundleRight
  <2>4. /\ row.id = l[2].charge => ChargeRight(l, enabled, row)
        /\ row.id = l[2].payment => PaymentRight(l, enabled, row)
    BY <2>1, BothRules DEF enabled
  <2>5. /\ new[i].id = row.id
        /\ ChargeRight(l, enabled, row) => ChargeRight(l, enabled, new[i])
        /\ PaymentRight(l, enabled, row) => PaymentRight(l, enabled, new[i])
    <3> DEFINE p == rows[i].priority
               changed == [row EXCEPT !.priority = p]
    <3>1. new[i] = changed
      BY <2>2
    <3> HIDE DEF p
    <3>2. /\ changed.id = row.id
          /\ ChargeRight(l, enabled, row) => ChargeRight(l, enabled, changed)
          /\ PaymentRight(l, enabled, row) => PaymentRight(l, enabled, changed)
      BY <2>3, Reranked
    <3> HIDE DEF changed
    <3> QED BY <3>1, <3>2
  <2> QED BY <2>1, <2>4, <2>5
<1>4. \A i \in 1 .. Len(rows) : rows[i].id \notin RulesOf(l) => new[i] = rows[i]
  BY <1>2
<1>5. \A i \in 1 .. Len(rows) : new[i].id = rows[i].id
  BY <1>3, <1>4
<1>6. new \in Seq(Range(new)) /\ DOMAIN new = 1 .. Len(rows)
  <2>1. DOMAIN new = 1 .. Len(rows)
    BY <1>2
  <2>2. new = [i \in 1 .. Len(rows) |-> new[i]]
    BY <1>2
  <2>3. new \in Seq(Range(new))
    BY <1>2, <2>2, LoopedRows
  <2> QED BY <2>1, <2>3
<1>7. \A row \in Range(rows) : \E kept \in Range(new) : kept.id = row.id
  BY <1>2, <1>5, <1>6 DEF Range
<1>8. ASSUME NEW row \in Range(new)
      PROVE  /\ row.id \notin RulesOf(l) => row \in Range(rows)
             /\ row.id = l[2].charge => ChargeRight(l, enabled, row)
             /\ row.id = l[2].payment => PaymentRight(l, enabled, row)
  <2>1. PICK i \in 1 .. Len(rows) : row = new[i]
    BY <1>6 DEF Range
  <2>2. l[2].charge \in RulesOf(l) /\ l[2].payment \in RulesOf(l)
    BY DEF RulesOf
  <2>3. row.id \notin RulesOf(l) => row \in Range(rows)
    BY <1>2, <1>4, <1>5, <2>1 DEF Range
  <2> QED BY <1>3, <1>5, <2>1, <2>2, <2>3
<1> QED BY <1>6, <1>7, <1>8 DEF new, enabled

(* The update of a stored loan, and its failure when a row of it is gone. *)
LEMMA LoanUpdated ==
  ASSUME NEW s \in Scopes, NEW m, LoansSound(s, m), NEW b, BundleRight(b), <<b.id, b.loan>> \in Known(s)
  PROVE  Keeps(s, m, SaveLoan(m, b, FALSE))
<1> DEFINE l == <<b.id, b.loan>>
           there == /\ {b.id, b.loan.interest} \subseteq DOMAIN m.accounts
                    /\ {b.loan.charge, b.loan.payment} \subseteq IdsOf(m.rules)
           rows == Rewritten(m.rules, b.rules)
           n == [upsertCheckpoints(BundleAccounts(m, b), b.checks) EXCEPT !.rules = rows]
<1>1. (upsertCheckpoints(BundleAccounts(m, b), b.checks)).rules = m.rules
  BY Fields DEF upsertCheckpoints, BundleAccounts
<1>2. SaveLoan(m, b, FALSE) = IF ~there THEN Failed("not found") ELSE Commit(n, FromStart)
  BY <1>1 DEF SaveLoan
<1>3. Keeps(s, m, Failed("not found"))
  BY FailedKeeps
<1> HIDE DEF rows
<1>4. /\ {"accounts", "rules", "loans"} \subseteq DOMAIN n
      /\ n.accounts = Overlaid(m.accounts, b.accounts)
      /\ n.loans = WithEntry(m.loans, b.id, b.loan)
      /\ n.rules = rows
  BY Fields DEF upsertCheckpoints, BundleAccounts
<1> HIDE DEF n
<1>5. SUFFICES ASSUME there PROVE LoansSound(s, n) /\ Grown(s, m, n)
  BY <1>2, <1>3, <1>5, CommitKeeps
<1>6. l[1] = b.id /\ l[2] = b.loan /\ l \in Known(s)
  OBVIOUS
<1>7. AccountsOf(l) = {b.id, b.loan.interest} /\ RulesOf(l) = {b.loan.charge, b.loan.payment}
  BY DEF AccountsOf, RulesOf
<1> HIDE DEF l
<1>8. l \in Existing(m) /\ b.id \in DOMAIN m.loans /\ m.loans[b.id] = b.loan
  <2>1. b.id \in DOMAIN m.loans
    BY <1>5, <1>6 DEF LoansSound, Principals
  <2> DEFINE k == <<b.id, m.loans[b.id]>>
  <2>2. k \in Existing(m) /\ k[1] = b.id /\ k[2] = m.loans[b.id]
    BY <2>1, LoanOf
  <2> HIDE DEF k
  <2>3. k = l
    BY <1>6, <2>2, KnownByPrincipal DEF LoansSound
  <2> QED BY <1>6, <2>1, <2>2, <2>3
<1>9. b.loan.charge # b.loan.payment
  BY <1>6, <1>8, RulesApart
<1>10. /\ rows \in Seq(Range(rows))
       /\ \A row \in Range(m.rules) : \E kept \in Range(rows) : kept.id = row.id
       /\ \A row \in Range(rows) :
            /\ row.id \notin RulesOf(l) => row \in Range(m.rules)
            /\ row.id = l[2].charge => ChargeRight(l, b.accounts[b.id].enabled, row)
            /\ row.id = l[2].payment => PaymentRight(l, b.accounts[b.id].enabled, row)
  BY <1>9, Fields, RewrittenRules DEF rows, l
<1>11. Existing(n) = Existing(m)
  <2>1. DOMAIN n.loans = DOMAIN m.loans /\ \A id \in DOMAIN n.loans : n.loans[id] = m.loans[id]
    BY <1>4, <1>8 DEF WithEntry
  <2> QED BY <2>1 DEF Existing
<1>12. LoanRight(n, l)
  <2>1. AccountsRight(l, n.accounts) /\ n.accounts[l[1]].enabled = b.accounts[b.id].enabled
    BY <1>4, BundleAccountsRight DEF l
  <2>2. RulesOf(l) \subseteq {row.id : row \in Range(rows)}
    BY <1>5, <1>7, <1>10, IdsAreOfRows
  <2> QED BY <1>4, <1>10, <2>1, <2>2 DEF LoanRight, RulesRight
<1>13. ASSUME NEW k \in Existing(m), k # l PROVE LoanRight(n, k)
  <2>1. AccountsOf(k) \cap AccountsOf(l) = {} /\ RulesOf(k) \cap RulesOf(l) = {}
    BY <1>8, <1>13, RulesApart DEF LoansSound, LoansApart
  <2>2. DOMAIN b.accounts = AccountsOf(l) /\ AccountsOf(k) \subseteq DOMAIN m.accounts
    BY <1>13, LoanIdsAreIds DEF BundleRight, l, AccountIds
  <2>3. \A a \in AccountsOf(k) : a \in DOMAIN n.accounts /\ n.accounts[a] = m.accounts[a]
    BY <1>4, <2>1, <2>2 DEF Overlaid
  <2>4. RulesStay(RulesOf(k), m.rules, n.rules)
    BY <1>4, <1>10, <2>1 DEF RulesStay
  <2> QED BY <1>13, <2>3, <2>4, OneLoanStays DEF LoansSound
<1>14. DOMAIN n.accounts = DOMAIN m.accounts /\ DOMAIN n.loans = DOMAIN m.loans
  BY <1>4, <1>5, <1>7, <1>8 DEF Overlaid, WithEntry, BundleRight, l
<1>15. Shape(n)
  BY <1>4, <1>10 DEF Shape
<1>16. LoansApart(n) /\ Existing(n) \subseteq Known(s) /\ Grown(s, m, n)
  BY <1>11 DEF LoansApart, LoansSound, Grown
<1> QED BY <1>11, <1>12, <1>13, <1>14, <1>15, <1>16 DEF LoansSound

-----------------------------------------------------------------------------
(* A retired account is of no loan, and what is left is validated.         *)

(* Superseding an account keeps the loans, or is refused. *)
LEMMA AccountSuperseded ==
  ASSUME NEW s, NEW m, LoansSound(s, m), NEW manual, NEW synced
  PROVE  Keeps(s, m, SupersedeAccount(m, manual, synced))
<1> DEFINE n == Superseded(m, manual, synced)
<1>1. Keeps(s, m, Failed("not found")) /\ Keeps(s, m, Failed("invalid"))
  BY FailedKeeps
<1>2. SUFFICES ASSUME {manual, synced} \subseteq DOMAIN m.accounts, ValidFinanceWriteChange(m, n)
               PROVE  LoansSound(s, n) /\ Grown(s, m, n)
  <2> HIDE DEF n
  <2>1. LoansSound(s, n) /\ Grown(s, m, n) => Keeps(s, m, Commit(n, FromStart))
    BY CommitKeeps
  <2> QED BY <1>1, <1>2, <2>1 DEF SupersedeAccount, n
<1>3. Distinct(n.rules) /\ ValidAccountDisplays(n)
  BY <1>2 DEF ValidFinanceWriteChange, ValidFinanceModel, ValidIds
<1>4. (\A l \in Existing(n) : LoanRight(n, l)) /\ LoansApart(n)
  BY <1>3, ValidIsRight
<1>5. {"accounts", "rules", "loans"} \subseteq DOMAIN n /\ n.loans = m.loans
  BY Fields DEF Superseded
<1>6. DOMAIN n.accounts \subseteq DOMAIN m.accounts
  BY <1>2, Fields DEF Superseded, WithEntry, Restrict
<1>7. n.rules \in Seq(Range(n.rules))
  <2> DEFINE selfTransfer(rule) ==
               Touches(rule, manual) /\ supersedeRoute(rule, manual, synced).src
                                          \in Range(supersedeRoute(rule, manual, synced).dests)
             gone == {m.rules[i].id : i \in {j \in DOMAIN m.rules : selfTransfer(m.rules[j])}}
             kept == Picked(m.rules, {i \in DOMAIN m.rules : m.rules[i].id \notin gone})
             row(i) == supersedeAmount(supersedeRoute(kept[i], manual, synced), manual, synced)
  <2>1. n.rules = [i \in DOMAIN kept |-> row(i)]
    BY Fields DEF Superseded
  <2> HIDE DEF gone
  <2>2. kept \in Seq(Range(m.rules))
    <3> DEFINE S == Range(m.rules)
    <3>1. m.rules \in Seq(S)
      BY Fields
    <3> HIDE DEF S
    <3>2. kept \in Seq(S)
      BY <3>1, PickedRows
    <3> QED BY <3>2 DEF S
  <2> HIDE DEF kept, row, n
  <2>3. DOMAIN kept = 1 .. Len(kept) /\ Len(kept) \in Nat
    BY <2>2
  <2>4. n.rules = [i \in 1 .. Len(kept) |-> n.rules[i]]
    BY <2>1, <2>3
  <2> QED BY <2>3, <2>4, LoopedRows
<1>8. Shape(n) /\ Existing(n) = Existing(m)
  BY <1>5, <1>7 DEF Shape, Existing
<1> QED BY <1>4, <1>5, <1>6, <1>8 DEF LoansSound, Grown

-----------------------------------------------------------------------------
(* Calls that fit the model they are made on.                              *)

FreeCalls ==
  {"CreateTransaction", "UpdateTransaction", "DeleteTransaction", "MoveTransaction", "CreateSchedule", "MoveSchedule",
   "CreateScheduleClaimingTransaction", "MoveAccount", "SaveCheckpoint", "DeleteCheckpointAt", "SavePaymentTerms",
   "DeletePaymentTerms", "DeleteLoan", "SupersedeAccount"} \cup ListCalls

LoansOf(s, m) == Existing(m) \cup Created(s.requests)
NoLoanAccount(s, m, id) == \A l \in LoansOf(s, m) : id \notin AccountsOf(l)
NoLoanRule(s, m, id) == \A l \in LoansOf(s, m) : id \notin RulesOf(l)

(* A call that writes or removes an account or a rule names none of a      *)
(* loan, stored or still to be created; a call that writes a loan writes   *)
(* all of it.                                                              *)
Fits(s, m, c) ==
  /\ c.absent = "fail"
  /\ \/ c.do \in FreeCalls
     \/ c.do = "CreateAccountWithBalance" /\ c.id \notin Principals(s)
     \/ c.do \in {"UpdateAccountWithBalance", "DeleteAccount"} /\ NoLoanAccount(s, m, c.id)
     \/ c.do = "UpdateSchedule" /\ NoLoanRule(s, m, c.row.id)
     \/ c.do \in {"DeleteSchedule", "DeleteScheduleCreatingTransaction"} /\ NoLoanRule(s, m, c.id)
     \/ c.do = "CreateLoan" /\ <<c.row.id, c.row.loan>> \in Created(s.requests) /\ BundleRight(c.row)
     \/ c.do = "UpdateLoan" /\ <<c.row.id, c.row.loan>> \in Known(s) /\ BundleRight(c.row)

(* A call that fits a model fits any that writes have made of it since: no *)
(* loan appears but one that a request creates.                            *)
LEMMA FitsStays ==
  ASSUME NEW s, NEW m, NEW n, Grown(s, m, n), NEW c, Fits(s, m, c)
  PROVE  Fits(s, n, c)
<1>1. LoansOf(s, n) \subseteq LoansOf(s, m)
  BY DEF Grown, LoansOf
<1> QED BY <1>1 DEF Fits, NoLoanAccount, NoLoanRule

(* A call that can name no row of a loan keeps the loans. *)
LEMMA FreeCallKeeps ==
  ASSUME NEW s \in Scopes, NEW m, LoansSound(s, m), NEW c, c.do \in FreeCalls
  PROVE  Keeps(s, m, Stored(m, c))
<1> DEFINE do == c.do
<1>1. CASE c.do \in {"CreateTransaction", "UpdateTransaction", "DeleteTransaction", "MoveTransaction"}
  <2>1. Stored(m, c) \in {CreateTransaction(m, c.row), UpdateTransaction(m, c.row), DeleteTransaction(m, c.id),
                          MoveTransaction(m, c.id, c.row)}
    BY <1>1 DEF Stored, TransactionCalls, TransactionCall
  <2> QED BY <2>1, TransactionsKeep
<1>2. CASE c.do \in {"CreateSchedule", "MoveSchedule", "CreateScheduleClaimingTransaction"}
  <2>1. Stored(m, c) \in {CreateSchedule(m, c.row), MoveSchedule(m, c.id, c.row),
                          CreateScheduleClaimingTransaction(m, c.row, c.id, c.row.start)}
    BY <1>2 DEF Stored, TransactionCalls, TransactionCall
  <2> QED BY <2>1, ScheduleCreated, ScheduleMoved
<1>3. CASE c.do \in {"MoveAccount", "SaveCheckpoint", "DeleteCheckpointAt", "SavePaymentTerms", "DeletePaymentTerms"}
  <2>1. Stored(m, c) \in {MoveAccount(m, c.id, c.row), SaveCheckpoint(m, c.row),
                          DeleteCheckpointAt(m, c.row.account, c.row.at), SavePaymentTerms(m, c.id, c.row),
                          DeletePaymentTerms(m, c.id)}
    BY <1>3 DEF Stored, TransactionCalls, ListCalls, AccountCall
  <2> QED BY <2>1, ObservationsKeep
<1>4. CASE c.do \in {"DeleteLoan", "SupersedeAccount"}
  <2>1. Stored(m, c) \in {DeleteLoan(m, c.id), SupersedeAccount(m, c.id, c.row)}
    BY <1>4 DEF Stored, TransactionCalls, ListCalls, AccountCall
  <2> QED BY <2>1, LoanDeleted, AccountSuperseded
<1>5. CASE c.do \in {"CreatePlannedPurchase", "UpdatePlannedPurchase", "DeletePlannedPurchase", "MovePlannedPurchase"}
  <2>1. Stored(m, c) \in {CreatePlannedPurchase(m, c.row), UpdatePlannedPurchase(m, c.row),
                          DeletePlannedPurchase(m, c.id), MovePlannedPurchase(m, c.id, c.row)}
    BY <1>5 DEF Stored, TransactionCalls, ListCalls, ListCall
  <2> QED BY <2>1, PurchasesKeep
<1>6. CASE c.do \in {"CreateEvaluation", "UpdateEvaluation", "DeleteEvaluation", "MoveEvaluation"}
  <2>1. Stored(m, c) \in {CreateEvaluation(m, c.row), UpdateEvaluation(m, c.row), DeleteEvaluation(m, c.id),
                          MoveEvaluation(m, c.id, c.row)}
    BY <1>6 DEF Stored, TransactionCalls, ListCalls, ListCall
  <2> QED BY <2>1, EvaluationsKeep
<1> QED BY <1>1, <1>2, <1>3, <1>4, <1>5, <1>6 DEF FreeCalls, ListCalls

(* Whatever the store has become since the request was validated, a call   *)
(* that fits it leaves every loan right.                                   *)
LEMMA StoredKeeps ==
  ASSUME NEW s \in Scopes, NEW m, LoansSound(s, m), NEW c, Fits(s, m, c)
  PROVE  Keeps(s, m, Stored(m, c))
<1>1. CASE c.do \in FreeCalls
  BY <1>1, FreeCallKeeps
<1>2. CASE c.do = "CreateAccountWithBalance" /\ c.id \notin Principals(s)
  <2>1. Stored(m, c) = CreateAccountWithBalance(m, c.id, c.row.account, c.row.checks)
    BY <1>2 DEF Stored, TransactionCalls, ListCalls, AccountCall
  <2>2. CASE c.id \in EntityIds(m)
    BY <2>1, <2>2, FailedKeeps DEF CreateAccountWithBalance
  <2>3. CASE c.id \notin EntityIds(m)
    BY <1>2, <2>1, <2>3, LoanIdsAreIds, AccountWritten
  <2> QED BY <2>2, <2>3
<1>3. CASE c.do = "UpdateAccountWithBalance" /\ NoLoanAccount(s, m, c.id)
  <2>1. Stored(m, c) = UpdateAccountWithBalance(m, c.id, c.row.account, c.row.checks)
    BY <1>3 DEF Stored, TransactionCalls, ListCalls, AccountCall
  <2>2. CASE c.id \notin DOMAIN m.accounts
    BY <2>1, <2>2, FailedKeeps DEF UpdateAccountWithBalance
  <2>3. c.id \notin AccountIds(m)
    BY <1>3 DEF NoLoanAccount, LoansOf, AccountIds
  <2>4. CASE c.id \in DOMAIN m.accounts
    BY <2>1, <2>3, <2>4, AccountWritten
  <2> QED BY <2>2, <2>4
<1>4. CASE c.do = "DeleteAccount" /\ NoLoanAccount(s, m, c.id)
  <2>1. Stored(m, c) = DeleteAccount(m, c.id)
    BY <1>4 DEF Stored, TransactionCalls, ListCalls, AccountCall
  <2>2. c.id \notin AccountIds(m)
    BY <1>4 DEF NoLoanAccount, LoansOf, AccountIds
  <2> QED BY <2>1, <2>2, AccountDeleted
<1>5. CASE c.do = "UpdateSchedule" /\ NoLoanRule(s, m, c.row.id)
  <2>1. Stored(m, c) = UpdateSchedule(m, c.row)
    BY <1>5 DEF Stored, TransactionCalls, TransactionCall
  <2>2. c.row.id \notin RuleIds(m)
    BY <1>5 DEF NoLoanRule, LoansOf, RuleIds
  <2> QED BY <2>1, <2>2, ScheduleUpdated
<1>6. CASE c.do \in {"DeleteSchedule", "DeleteScheduleCreatingTransaction"} /\ NoLoanRule(s, m, c.id)
  <2>1. Stored(m, c) \in {DeleteSchedule(m, c.id), DeleteScheduleCreatingTransaction(m, c.id, c.row)}
    BY <1>6 DEF Stored, TransactionCalls, TransactionCall
  <2>2. c.id \notin RuleIds(m)
    BY <1>6 DEF NoLoanRule, LoansOf, RuleIds
  <2> QED BY <2>1, <2>2, ScheduleDeleted
<1>7. CASE c.do = "CreateLoan" /\ <<c.row.id, c.row.loan>> \in Created(s.requests) /\ BundleRight(c.row)
  <2>1. Stored(m, c) = SaveLoan(m, c.row, TRUE)
    BY <1>7 DEF Stored, TransactionCalls, ListCalls, AccountCall
  <2> QED BY <1>7, <2>1, LoanCreated
<1>8. CASE c.do = "UpdateLoan" /\ <<c.row.id, c.row.loan>> \in Known(s) /\ BundleRight(c.row)
  <2>1. Stored(m, c) = SaveLoan(m, c.row, FALSE)
    BY <1>8 DEF Stored, TransactionCalls, ListCalls, AccountCall
  <2> QED BY <1>8, <2>1, LoanUpdated
<1> QED BY <1>1, <1>2, <1>3, <1>4, <1>5, <1>6, <1>7, <1>8 DEF Fits

-----------------------------------------------------------------------------
(* The bundles requests build.                                             *)

(* The rows of a pair. *)
LEMMA PairOfRows ==
  ASSUME NEW a, NEW b
  PROVE  <<a, b>> \in Seq(Range(<<a, b>>)) /\ Range(<<a, b>>) = {a, b} /\ IdsOf(<<a, b>>) = {a.id, b.id}
<1>1. DOMAIN <<a, b>> = {1, 2} /\ <<a, b>>[1] = a /\ <<a, b>>[2] = b
  OBVIOUS
<1>2. <<a, b>> \in Seq({a, b})
  OBVIOUS
<1>3. Range(<<a, b>>) = {a, b} /\ IdsOf(<<a, b>>) = {a.id, b.id}
  BY <1>1 DEF Range, IdsOf
<1> QED BY <1>2, <1>3

(* The bundle BuildLoan makes of a form is right. *)
LEMMA BuiltRight ==
  ASSUME NEW id, NEW loan, NEW terms, id # loan.interest, terms.payment >= 0
  PROVE  LET b == BuildLoan(id, loan, terms)
         IN  /\ BundleRight(b) /\ b.id = id /\ b.loan = loan
             /\ {"accounts", "rules", "checks", "id", "loan"} \subseteq DOMAIN b
             /\ \A a \in DOMAIN b.accounts : {"kind", "max", "enabled"} \subseteq DOMAIN b.accounts[a]
<1> DEFINE b == BuildLoan(id, loan, terms)
           account == [min |-> -Unlimited, max |-> 0, kind |-> "debt", enabled |-> terms.enabled]
           rule(r, src, dests, by, value, of, priority) ==
             [id |-> r, src |-> src, dests |-> dests,
              amount |-> [by |-> by, value |-> value, id |-> of, volatility |-> 0],
              freq |-> terms.freq, start |-> terms.start, end |-> 0, cap |-> Unlimited, priority |-> priority,
              enabled |-> terms.enabled]
           charge == rule(loan.charge, loan.interest, <<>>, "loan-interest", terms.rate, id, 6)
           payment == rule(loan.payment, terms.funding, <<loan.interest, id>>, "literal", terms.payment, "", 7)
           l == <<id, loan>>
<1>1. /\ b.id = id /\ b.loan = loan /\ b.rules = <<charge, payment>>
      /\ b.accounts = [a \in {id, loan.interest} |-> account]
      /\ {"accounts", "rules", "checks", "id", "loan"} \subseteq DOMAIN b
  BY DEF BuildLoan
<1> HIDE DEF b
<1>2. AccountsOf(l) = {id, loan.interest} /\ RulesOf(l) = {loan.charge, loan.payment}
  BY DEF AccountsOf, RulesOf
<1>3. ChargeRight(l, terms.enabled, charge) /\ PaymentRight(l, terms.enabled, payment)
  BY DEF ChargeRight, PaymentRight
<1>4. \A row \in {charge, payment} : {"id", "src", "dests", "amount", "end", "cap", "enabled"} \subseteq DOMAIN row
  <2>1. {"id", "src", "dests", "amount", "end", "cap", "enabled"} \subseteq DOMAIN charge
    OBVIOUS
  <2>2. {"id", "src", "dests", "amount", "end", "cap", "enabled"} \subseteq DOMAIN payment
    OBVIOUS
  <2> HIDE DEF charge, payment
  <2> QED BY <2>1, <2>2
<1>5. charge.id = loan.charge /\ payment.id = loan.payment
  OBVIOUS
<1> HIDE DEF charge, payment
<1>6. b.rules \in Seq(Range(b.rules)) /\ Range(b.rules) = {charge, payment} /\ IdsOf(b.rules) = RulesOf(l)
  <2> DEFINE pair == <<charge, payment>>
  <2>1. pair \in Seq(Range(pair)) /\ Range(pair) = {charge, payment} /\ IdsOf(pair) = {charge.id, payment.id}
    BY PairOfRows
  <2>2. b.rules = pair
    BY <1>1
  <2> HIDE DEF pair
  <2> QED BY <1>2, <1>5, <2>1, <2>2
<1>7. /\ DOMAIN b.accounts = AccountsOf(l)
      /\ \A a \in AccountsOf(l) : /\ b.accounts[a].kind = "debt" /\ b.accounts[a].max = 0
                                  /\ b.accounts[a].enabled = terms.enabled
  BY <1>1, <1>2
<1>8. b.accounts[b.id].enabled = terms.enabled
  BY <1>1, <1>2, <1>7
<1>9. BundleRight(b)
  <2>1. \A row \in Range(b.rules) :
           /\ {"id", "src", "dests", "amount", "end", "cap", "enabled"} \subseteq DOMAIN row
           /\ \/ row.id = b.loan.charge /\ ChargeRight(l, terms.enabled, row)
              \/ row.id = b.loan.payment /\ PaymentRight(l, terms.enabled, row)
    BY <1>1, <1>3, <1>4, <1>5, <1>6
  <2> QED BY <1>1, <1>6, <1>7, <1>8, <2>1 DEF BundleRight
<1>10. \A a \in DOMAIN b.accounts : {"kind", "max", "enabled"} \subseteq DOMAIN b.accounts[a]
  BY <1>1
<1> QED BY <1>1, <1>9, <1>10 DEF b

(* It stays right with the floors of the stored accounts (loans.go,        *)
(* updateLoan).                                                            *)
LEMMA KeptRight ==
  ASSUME NEW m, NEW b, BundleRight(b), {"accounts", "rules", "checks", "id", "loan"} \subseteq DOMAIN b, NEW terms,
         \A a \in DOMAIN b.accounts : {"kind", "max", "enabled"} \subseteq DOMAIN b.accounts[a]
  PROVE  /\ BundleRight(Kept(m, b, terms)) /\ Kept(m, b, terms).id = b.id /\ Kept(m, b, terms).loan = b.loan
         /\ {"accounts", "rules", "id", "loan"} \subseteq DOMAIN Kept(m, b, terms)
<1> DEFINE k == Kept(m, b, terms)
<1>1. /\ k.id = b.id /\ k.loan = b.loan /\ k.rules = b.rules
      /\ k.accounts = [a \in DOMAIN b.accounts |-> [b.accounts[a] EXCEPT !.min = m.accounts[a].min]]
      /\ {"accounts", "rules", "id", "loan"} \subseteq DOMAIN k
  BY DEF Kept
<1> HIDE DEF k
<1>2. /\ DOMAIN k.accounts = DOMAIN b.accounts
      /\ \A a \in DOMAIN b.accounts : /\ k.accounts[a].kind = b.accounts[a].kind
                                      /\ k.accounts[a].max = b.accounts[a].max
                                      /\ k.accounts[a].enabled = b.accounts[a].enabled
  BY <1>1
<1>3. b.id \in DOMAIN b.accounts
  BY DEF BundleRight, AccountsOf
<1>4. BundleRight(k)
  BY <1>1, <1>2, <1>3 DEF BundleRight
<1> QED BY <1>1, <1>4 DEF k

(* And with the places of the stored rules. *)
LEMMA InPlaceRight ==
  ASSUME NEW m, NEW b, BundleRight(b), {"accounts", "rules", "id", "loan"} \subseteq DOMAIN b, NEW create
  PROVE  BundleRight(InPlace(m, b, create)) /\ InPlace(m, b, create).id = b.id /\ InPlace(m, b, create).loan = b.loan
<1> DEFINE k == InPlace(m, b, create)
           l == <<b.id, b.loan>>
           enabled == b.accounts[b.id].enabled
           priority(i, rule) ==
             IF create THEN MaxPriority(m.rules) + i
             ELSE IF rule.id \in IdsOf(m.rules) THEN RowOf(m.rules, rule.id).priority ELSE rule.priority
           place(i) == priority(i, b.rules[i])
<1>1. /\ k.id = b.id /\ k.loan = b.loan /\ k.accounts = b.accounts
      /\ k.rules = [i \in DOMAIN b.rules |-> [b.rules[i] EXCEPT !.priority = place(i)]]
  BY DEF InPlace
<1> HIDE DEF k, place
<1>2. DOMAIN b.rules = 1 .. Len(b.rules) /\ Len(b.rules) \in Nat
  BY DEF BundleRight
<1>3. ASSUME NEW i \in DOMAIN b.rules
      PROVE  /\ k.rules[i].id = b.rules[i].id
             /\ {"id", "src", "dests", "amount", "end", "cap", "enabled"} \subseteq DOMAIN k.rules[i]
             /\ \/ k.rules[i].id = b.loan.charge /\ ChargeRight(l, enabled, k.rules[i])
                \/ k.rules[i].id = b.loan.payment /\ PaymentRight(l, enabled, k.rules[i])
  <2> DEFINE row == b.rules[i]
             p == place(i)
             new == [row EXCEPT !.priority = p]
  <2>1. k.rules[i] = new
    BY <1>1
  <2>2. /\ {"id", "src", "dests", "amount", "end", "cap", "enabled"} \subseteq DOMAIN row
        /\ \/ row.id = b.loan.charge /\ ChargeRight(l, enabled, row)
           \/ row.id = b.loan.payment /\ PaymentRight(l, enabled, row)
    BY DEF BundleRight, Range
  <2> HIDE DEF row, p, l, enabled
  <2>3. /\ new.id = row.id
        /\ {"id", "src", "dests", "amount", "end", "cap", "enabled"} \subseteq DOMAIN new
        /\ ChargeRight(l, enabled, row) => ChargeRight(l, enabled, new)
        /\ PaymentRight(l, enabled, row) => PaymentRight(l, enabled, new)
    BY <2>2, Reranked
  <2> HIDE DEF new
  <2> QED BY <2>1, <2>2, <2>3 DEF row
<1>4. k.rules = [i \in 1 .. Len(b.rules) |-> k.rules[i]]
  BY <1>1, <1>2
<1>5. k.rules \in Seq(Range(k.rules))
  BY <1>2, <1>4, LoopedRows
<1>6. DOMAIN k.rules = DOMAIN b.rules
  BY <1>1
<1>7. IdsOf(k.rules) = RulesOf(l)
  BY <1>3, <1>6 DEF IdsOf, BundleRight
<1>8. BundleRight(k)
  <2>1. \A row \in Range(k.rules) : \E i \in DOMAIN b.rules : row = k.rules[i]
    BY <1>6 DEF Range
  <2>2. \A row \in Range(k.rules) :
          /\ {"id", "src", "dests", "amount", "end", "cap", "enabled"} \subseteq DOMAIN row
          /\ \/ row.id = k.loan.charge /\ ChargeRight(<<k.id, k.loan>>, k.accounts[k.id].enabled, row)
             \/ row.id = k.loan.payment /\ PaymentRight(<<k.id, k.loan>>, k.accounts[k.id].enabled, row)
    BY <1>1, <1>3, <2>1
  <2> HIDE DEF enabled
  <2> QED BY <1>1, <1>5, <1>7, <2>2 DEF BundleRight
<1> QED BY <1>1, <1>8 DEF k

-----------------------------------------------------------------------------
(* What a request reads first, and the one call it validates.              *)

LoadedRight(s, r, row) ==
  /\ r.op = "update loan" =>
       /\ BundleRight(row) /\ <<row.id, row.loan>> \in Known(s)
       /\ {"accounts", "rules", "id", "loan"} \subseteq DOMAIN row
  /\ r.op = "amend rule" => "id" \in DOMAIN row /\ row.id = r.id

(* The row a request reads first is the one it names. *)
LEMMA ReadIsRight ==
  ASSUME NEW s \in Scopes, NEW m, LoansSound(s, m), NEW r \in s.requests, FirstRead(m, r) # <<>>
  PROVE  LoadedRight(s, r, FirstRead(m, r))
<1> DEFINE row == FirstRead(m, r)
<1>1. CASE r.op = "update loan"
  <2>1. r.id \in DOMAIN m.loans /\ row = Kept(m, BuildLoan(r.id, m.loans[r.id], r.row), r.row)
    BY <1>1 DEF FirstRead
  <2> DEFINE l == <<r.id, m.loans[r.id]>>
             b == BuildLoan(r.id, m.loans[r.id], r.row)
  <2>2. l \in Existing(m) /\ l[1] = r.id /\ l[2] = m.loans[r.id]
    BY <2>1, LoanOf
  <2>3. l \in Known(s) /\ r.id # m.loans[r.id].interest
    BY <2>2 DEF LoansSound, LoanRight, AccountsRight
  <2>4. r.row.payment >= 0
    BY <1>1, ScopesAssumption DEF RequestRight
  <2>5. /\ BundleRight(b) /\ b.id = r.id /\ b.loan = m.loans[r.id]
        /\ {"accounts", "rules", "checks", "id", "loan"} \subseteq DOMAIN b
        /\ \A a \in DOMAIN b.accounts : {"kind", "max", "enabled"} \subseteq DOMAIN b.accounts[a]
    BY <2>3, <2>4, BuiltRight
  <2>6. row = Kept(m, b, r.row)
    BY <2>1
  <2> HIDE DEF b, row
  <2>7. /\ BundleRight(row) /\ row.id = r.id /\ row.loan = m.loans[r.id]
        /\ {"accounts", "rules", "id", "loan"} \subseteq DOMAIN row
    BY <2>5, <2>6, KeptRight
  <2> QED BY <1>1, <2>3, <2>7 DEF LoadedRight, row
<1>2. CASE r.op = "amend rule"
  <2> DEFINE stored == RowOf(m.rules, r.id)
  <2>1. r.id \in IdsOf(m.rules) /\ row = Amended(stored, r.row)
    BY <1>2 DEF FirstRead
  <2>2. stored.id = r.id
    BY <2>1, ChosenRow
  <2> HIDE DEF stored, row
  <2>3. "id" \in DOMAIN row /\ row.id = stored.id
    BY <2>1 DEF Amended, Overlaid, WithEntry
  <2> QED BY <1>2, <2>2, <2>3 DEF LoadedRight, row
<1> QED BY <1>1, <1>2 DEF LoadedRight

(* What no other request names. *)
LEMMA NotCreated ==
  ASSUME NEW s \in Scopes, NEW r \in s.requests
  PROVE  /\ r.op \in {"create account", "update account", "delete account"} =>
              \A l \in Created(s.requests) : r.id \notin AccountsOf(l)
         /\ r.op \in {"amend rule", "delete rule", "end rule"} =>
              \A l \in Created(s.requests) : r.id \notin RulesOf(l)
BY ScopesAssumption DEF NewIds, LoanIds

(* Removing a rule of a loan is refused: the copy without it is invalid.   *)
LEMMA RemovalRefused ==
  ASSUME NEW s, NEW m, LoansSound(s, m), NEW n, NEW id, ValidAccountDisplays(n),
         n.loans = m.loans, n.rules = Without(m.rules, id)
  PROVE  \A l \in Existing(m) : id \notin RulesOf(l)
<1>1. id \notin IdsOf(n.rules)
  BY Fields, NoneWithout
<1>2. ASSUME NEW l \in Existing(m) PROVE id \notin RulesOf(l)
  <2>1. l[1] \in DOMAIN n.loans /\ l[2] = n.loans[l[1]]
    BY ExistingLoan
  <2>2. \A i \in DOMAIN n.loans : {n.loans[i].charge, n.loans[i].payment} \subseteq IdsOf(n.rules)
    BY DEF ValidAccountDisplays
  <2> QED BY <1>1, <2>1, <2>2 DEF RulesOf
<1> QED BY <1>2

(* The fields of a call. *)
LEMMA CallFields ==
  ASSUME NEW do, NEW id, NEW row
  PROVE  /\ Call(do, id, row).do = do /\ Call(do, id, row).id = id /\ Call(do, id, row).row = row
         /\ Call(do, id, row).absent = "fail"
BY DEF Call

(* A plan of one call, however it is validated, has that call. *)
LEMMA PlanCalls ==
  ASSUME NEW copy, NEW do, NEW id, NEW row
  PROVE  /\ Finance(copy, do, id, row).calls = <<Call(do, id, row)>>
         /\ Full(copy, do, id, row).calls = <<Call(do, id, row)>>
         /\ \A guard : Guarded(guard, Finance(copy, do, id, row)).calls = <<Call(do, id, row)>>
BY DEF Finance, Full, Guarded, Plan

(* What the acceptance of a plan says of its copy and its guard. *)
LEMMA FinanceAccepted ==
  ASSUME NEW m, NEW copy, NEW do, NEW id, NEW row
  PROVE  /\ Accepted(m, Finance(copy, do, id, row)) => ValidFinanceWriteChange(m, copy)
         /\ \A guard : Accepted(m, Guarded(guard, Finance(copy, do, id, row))) => guard
BY DEF Finance, Plan, Accepted, Guarded

(* The calls of a plan are one call, and it fits. *)
OneFits(s, m, calls) == calls # <<>> => calls = <<Head(calls)>> /\ Fits(s, m, Head(calls))

(* A call that fits makes a plan of one call that fits. *)
LEMMA OneCall ==
  ASSUME NEW s, NEW m, NEW c, Fits(s, m, c)
  PROVE  OneFits(s, m, <<c>>)
<1>1. Head(<<c>>) = c
  OBVIOUS
<1> QED BY <1>1 DEF OneFits

(* A call that can name no row of a loan fits any model. *)
LEMMA FreeCallFits ==
  ASSUME NEW s, NEW m, NEW copy, NEW do \in FreeCalls, NEW id, NEW row
  PROVE  OneFits(s, m, Finance(copy, do, id, row).calls) /\ OneFits(s, m, Full(copy, do, id, row).calls)
<1>1. Fits(s, m, Call(do, id, row))
  BY CallFields DEF Fits
<1>2. OneFits(s, m, <<Call(do, id, row)>>)
  BY <1>1, OneCall
<1>3. /\ Finance(copy, do, id, row).calls = <<Call(do, id, row)>>
      /\ Full(copy, do, id, row).calls = <<Call(do, id, row)>>
  BY PlanCalls
<1> QED BY <1>2, <1>3

(* The plans of the handlers of transactions and rules: what writes a rule *)
(* is refused for one of a loan, by the guard or by validation of the copy *)
(* (schedules.go).                                                         *)
LEMMA TransactionPlanFits ==
  ASSUME NEW s \in Scopes, NEW m, LoansSound(s, m), NEW r \in s.requests, NEW row, LoadedRight(s, r, row),
         r.op \in TransactionOps, Accepted(m, TransactionPlan(m, r, row))
  PROVE  OneFits(s, m, TransactionPlan(m, r, row).calls)
<1> DEFINE plan == TransactionPlan(m, r, row)
<1>0. /\ "CreateTransaction" \in FreeCalls /\ "UpdateTransaction" \in FreeCalls /\ "DeleteTransaction" \in FreeCalls
      /\ "MoveTransaction" \in FreeCalls /\ "CreateSchedule" \in FreeCalls /\ "MoveSchedule" \in FreeCalls
      /\ "CreateScheduleClaimingTransaction" \in FreeCalls
  BY DEF FreeCalls
<1>1. CASE r.op \in {"record", "amend", "delete", "move"}
  <2>1. plan \in {recordTransaction(m, Routed(m, r.row)), saveTransaction(m, Rerouted(m, m.txs, row)),
                  deleteTransaction(m, r.id), moveTransaction(m, r.id, r.row)}
    BY <1>1 DEF TransactionPlan
  <2>2. \A t : OneFits(s, m, recordTransaction(m, t).calls)
    BY <1>0, FreeCallFits DEF recordTransaction
  <2>3. \A t : OneFits(s, m, saveTransaction(m, t).calls)
    BY <1>0, FreeCallFits DEF saveTransaction
  <2>4. \A id : OneFits(s, m, deleteTransaction(m, id).calls)
    BY <1>0, FreeCallFits DEF deleteTransaction
  <2>5. \A id, before : OneFits(s, m, moveTransaction(m, id, before).calls)
    BY <1>0, FreeCallFits DEF moveTransaction
  <2> QED BY <2>1, <2>2, <2>3, <2>4, <2>5
<1>2. CASE r.op \in {"start rule", "create rule", "move rule"}
  <2>1. plan \in {startSchedule(m, row, Copied([r.row EXCEPT !.priority = MaxPriority(m.rules) + 1], row)),
                  createSchedule(m, Routed(m, Prioritized(m, r.row))), moveSchedule(m, r.id, r.row)}
    BY <1>2 DEF TransactionPlan
  <2>2. \A t, rule : OneFits(s, m, startSchedule(m, t, rule).calls)
    BY <1>0, FreeCallFits DEF startSchedule
  <2>3. \A rule : OneFits(s, m, createSchedule(m, rule).calls)
    BY <1>0, FreeCallFits DEF createSchedule
  <2>4. \A id, before : OneFits(s, m, moveSchedule(m, id, before).calls)
    BY <1>0, FreeCallFits DEF moveSchedule
  <2> QED BY <2>1, <2>2, <2>3, <2>4
<1>3. CASE r.op = "amend rule"
  <2> DEFINE rule == Rerouted(m, m.rules, row)
             call == Call("UpdateSchedule", rule.id, rule)
  <2>1. plan = saveSchedule(m, rule)
    BY <1>3 DEF TransactionPlan
  <2>2. rule.id = r.id
    BY <1>3 DEF LoadedRight, Rerouted, Routed
  <2> HIDE DEF rule
  <2>3. requireOrdinarySchedule(m, rule.id) /\ plan.calls = <<call>>
    <3>1. plan.guard = requireOrdinarySchedule(m, rule.id) /\ plan.calls = <<call>>
      BY <2>1 DEF saveSchedule, Finance, Guarded, Plan
    <3> QED BY <3>1 DEF Accepted
  <2>4. \A l \in Existing(m) : rule.id \notin RulesOf(l)
    BY <2>3, ExistingLoan DEF requireOrdinarySchedule, RulesOf
  <2>5. \A l \in Created(s.requests) : rule.id \notin RulesOf(l)
    BY <1>3, <2>2, NotCreated
  <2>6. call.do = "UpdateSchedule" /\ call.row = rule /\ call.absent = "fail"
    BY CallFields
  <2> HIDE DEF call
  <2>7. Fits(s, m, call)
    BY <2>4, <2>5, <2>6 DEF Fits, NoLoanRule, LoansOf
  <2> QED BY <2>3, <2>7, OneCall
<1>4. CASE r.op \in {"delete rule", "end rule"}
  <2>1. \A l \in Created(s.requests) : r.id \notin RulesOf(l)
    BY <1>4, NotCreated
  <2>2. \A do, it : do \in {"DeleteSchedule", "DeleteScheduleCreatingTransaction"}
                    /\ (\A l \in Existing(m) : r.id \notin RulesOf(l)) => OneFits(s, m, <<Call(do, r.id, it)>>)
    <3>1. ASSUME NEW do \in {"DeleteSchedule", "DeleteScheduleCreatingTransaction"}, NEW it,
                 \A l \in Existing(m) : r.id \notin RulesOf(l)
          PROVE  OneFits(s, m, <<Call(do, r.id, it)>>)
      <4>1. Fits(s, m, Call(do, r.id, it))
        BY <2>1, <3>1, CallFields DEF Fits, NoLoanRule, LoansOf
      <4> QED BY <4>1, OneCall
    <3> QED BY <3>1
  <2> DEFINE removed == RemoveSchedule(m, r.id)
             ended == WithTx(removed, row)
  <2>3. /\ removed.loans = m.loans /\ removed.rules = Without(m.rules, r.id)
        /\ ended.loans = m.loans /\ ended.rules = Without(m.rules, r.id)
    BY Fields DEF RemoveSchedule, WithTx
  <2>4. \A n : ValidFinanceWriteChange(m, n) => ValidAccountDisplays(n)
    BY DEF ValidFinanceWriteChange, ValidFinanceModel
  <2> HIDE DEF removed, ended
  <2>5. CASE r.op = "delete rule"
    <3>1. plan = Finance(removed, "DeleteSchedule", r.id, <<>>)
      BY <2>5 DEF TransactionPlan, deleteSchedule, removed
    <3>2. ValidAccountDisplays(removed)
      BY <3>1, <2>4, FinanceAccepted
    <3>3. \A l \in Existing(m) : r.id \notin RulesOf(l)
      BY <2>3, <3>2, RemovalRefused
    <3>4. plan.calls = <<Call("DeleteSchedule", r.id, <<>>)>>
      BY <3>1, PlanCalls
    <3> QED BY <2>2, <3>3, <3>4
  <2>6. CASE r.op = "end rule"
    <3>1. plan = Finance(ended, "DeleteScheduleCreatingTransaction", r.id, row)
      BY <2>6 DEF TransactionPlan, endSchedule, removed, ended
    <3>2. ValidAccountDisplays(ended)
      BY <3>1, <2>4, FinanceAccepted
    <3>3. \A l \in Existing(m) : r.id \notin RulesOf(l)
      BY <2>3, <3>2, RemovalRefused
    <3>4. plan.calls = <<Call("DeleteScheduleCreatingTransaction", r.id, row)>>
      BY <3>1, PlanCalls
    <3> QED BY <2>2, <3>3, <3>4
  <2> QED BY <1>4, <2>5, <2>6
<1> QED BY <1>1, <1>2, <1>3, <1>4 DEF TransactionOps

(* The plans of the handlers of accounts and loans: what writes or deletes *)
(* an account is refused for one of a loan (accounts.go, loans.go).        *)
LEMMA AccountPlanFits ==
  ASSUME NEW s \in Scopes, NEW m, LoansSound(s, m), NEW r \in s.requests, NEW row, LoadedRight(s, r, row),
         r.op \in AccountOps, Accepted(m, AccountPlan(m, r, row))
  PROVE  OneFits(s, m, AccountPlan(m, r, row).calls)
<1> DEFINE plan == AccountPlan(m, r, row)
<1>0. /\ "MoveAccount" \in FreeCalls /\ "SaveCheckpoint" \in FreeCalls /\ "DeleteCheckpointAt" \in FreeCalls
      /\ "SavePaymentTerms" \in FreeCalls /\ "DeletePaymentTerms" \in FreeCalls /\ "DeleteLoan" \in FreeCalls
  BY DEF FreeCalls
<1>1. CASE r.op \in {"move account", "save check", "delete check", "save terms", "delete terms", "delete loan"}
  <2>1. plan \in {moveAccount(m, r.id, r.row), saveCheckpoint(m, r.row), deleteCheckpoint(m, r.row),
                  savePaymentTerms(m, r.id, r.row), deletePaymentTerms(m, r.id), deleteLoan(m, r.id)}
    BY <1>1 DEF AccountPlan
  <2>2. \A id, before : OneFits(s, m, moveAccount(m, id, before).calls)
    BY <1>0, FreeCallFits DEF moveAccount
  <2>3. \A check : OneFits(s, m, saveCheckpoint(m, check).calls)
    BY <1>0, FreeCallFits DEF saveCheckpoint
  <2>4. \A check : OneFits(s, m, deleteCheckpoint(m, check).calls)
    BY <1>0, FreeCallFits DEF deleteCheckpoint
  <2>5. \A id, terms : OneFits(s, m, savePaymentTerms(m, id, terms).calls)
    BY <1>0, FreeCallFits DEF savePaymentTerms
  <2>6. \A id : OneFits(s, m, deletePaymentTerms(m, id).calls)
    BY <1>0, FreeCallFits DEF deletePaymentTerms
  <2>7. \A id : OneFits(s, m, deleteLoan(m, id).calls)
    BY <1>0, FreeCallFits DEF deleteLoan
  <2> QED BY <2>1, <2>2, <2>3, <2>4, <2>5, <2>6, <2>7
<1>2. CASE r.op = "create account"
  <2> DEFINE call == Call("CreateAccountWithBalance", r.id, r.row)
  <2>1. plan = SaveAccount(m, "CreateAccountWithBalance", r.id, r.row)
    BY <1>2 DEF AccountPlan
  <2>2. plan.calls = <<call>>
    BY <2>1, PlanCalls DEF SaveAccount
  <2>3. \A l \in Created(s.requests) : r.id # l[1]
    BY <1>2, NotCreated DEF AccountsOf
  <2>4. \A l \in Existing(s.model) : r.id # l[1]
    BY <1>2, ScopesAssumption, ExistingLoan DEF RequestRight
  <2>5. r.id \notin Principals(s)
    BY <2>3, <2>4 DEF Principals, Known
  <2>6. Fits(s, m, call)
    BY <2>5, CallFields DEF Fits
  <2> QED BY <2>2, <2>6, OneCall
<1>3. CASE r.op \in {"update account", "delete account"}
  <2> DEFINE call == IF r.op = "update account" THEN Call("UpdateAccountWithBalance", r.id, r.row)
                     ELSE Call("DeleteAccount", r.id, <<>>)
  <2>1. requireOrdinaryAccount(m, r.id) /\ plan.calls = <<call>>
    <3>1. CASE r.op = "update account"
      <4>1. plan = updateAccount(m, r.id, r.row)
        BY <3>1 DEF AccountPlan
      <4>2. plan.guard = requireOrdinaryAccount(m, r.id) /\ plan.calls = <<call>>
        BY <3>1, <4>1 DEF updateAccount, SaveAccount, Finance, Guarded, Plan
      <4> QED BY <4>2 DEF Accepted
    <3>2. CASE r.op = "delete account"
      <4>1. plan = deleteAccount(m, r.id)
        BY <3>2 DEF AccountPlan
      <4>2. plan.guard = requireOrdinaryAccount(m, r.id) /\ plan.calls = <<call>>
        BY <3>2, <4>1 DEF deleteAccount, Finance, Guarded, Plan
      <4> QED BY <4>2 DEF Accepted
    <3> QED BY <1>3, <3>1, <3>2
  <2>2. \A l \in Existing(m) : r.id \notin AccountsOf(l)
    BY <2>1, ExistingLoan DEF requireOrdinaryAccount, AccountsOf
  <2>3. \A l \in Created(s.requests) : r.id \notin AccountsOf(l)
    BY <1>3, NotCreated
  <2>4. call.do \in {"UpdateAccountWithBalance", "DeleteAccount"} /\ call.id = r.id /\ call.absent = "fail"
    <3>1. CASE r.op = "update account"
      <4>1. call = [do |-> "UpdateAccountWithBalance", id |-> r.id, row |-> r.row, absent |-> "fail"]
        BY <3>1 DEF Call
      <4> HIDE DEF call
      <4> QED BY <4>1
    <3>2. CASE r.op # "update account"
      <4>1. call = [do |-> "DeleteAccount", id |-> r.id, row |-> <<>>, absent |-> "fail"]
        BY <3>2 DEF Call
      <4> HIDE DEF call
      <4> QED BY <4>1
    <3> QED BY <3>1, <3>2
  <2> HIDE DEF call
  <2>5. Fits(s, m, call)
    BY <2>2, <2>3, <2>4 DEF Fits, NoLoanAccount, LoansOf
  <2> QED BY <2>1, <2>5, OneCall
<1>4. CASE r.op = "create loan"
  <2> DEFINE built == BuildLoan(r.id, r.loan, r.row)
             b == InPlace(m, built, TRUE)
             call == Call("CreateLoan", b.id, b)
             l == <<r.id, r.loan>>
  <2>1. l \in Created(s.requests) /\ l[1] = r.id /\ l[2] = r.loan
    BY <1>4 DEF Created
  <2>2. r.id # r.loan.interest /\ r.row.payment >= 0
    BY <1>4, <2>1, ScopesAssumption DEF NewIds, RequestRight
  <2>3. /\ BundleRight(built) /\ built.id = r.id /\ built.loan = r.loan
        /\ {"accounts", "rules", "id", "loan"} \subseteq DOMAIN built
    BY <2>2, BuiltRight
  <2>4. plan.calls = <<call>>
    <3>1. plan = saveLoan(m, b, "CreateLoan")
      BY <1>4 DEF AccountPlan
    <3> HIDE DEF b
    <3> QED BY <3>1, PlanCalls DEF saveLoan
  <2> HIDE DEF built
  <2>5. BundleRight(b) /\ b.id = r.id /\ b.loan = r.loan
    <3>1. BundleRight(b) /\ b.id = built.id /\ b.loan = built.loan
      BY <2>3, InPlaceRight
    <3> QED BY <2>3, <3>1
  <2> HIDE DEF b
  <2>6. Fits(s, m, call)
    BY <2>1, <2>5, CallFields DEF Fits
  <2> QED BY <2>4, <2>6, OneCall
<1>5. CASE r.op = "update loan"
  <2> DEFINE b == InPlace(m, row, FALSE)
             call == Call("UpdateLoan", b.id, b)
  <2>1. BundleRight(row) /\ <<row.id, row.loan>> \in Known(s) /\ {"accounts", "rules", "id", "loan"} \subseteq DOMAIN row
    BY <1>5 DEF LoadedRight
  <2>2. plan.calls = <<call>>
    <3>1. plan = saveLoan(m, b, "UpdateLoan")
      BY <1>5 DEF AccountPlan
    <3> HIDE DEF b
    <3> QED BY <3>1, PlanCalls DEF saveLoan
  <2>3. BundleRight(b) /\ b.id = row.id /\ b.loan = row.loan
    BY <2>1, InPlaceRight
  <2> HIDE DEF b
  <2>4. Fits(s, m, call)
    BY <2>1, <2>3, CallFields DEF Fits
  <2> QED BY <2>2, <2>4, OneCall
<1> QED BY <1>1, <1>2, <1>3, <1>4, <1>5 DEF AccountOps

(* The plans of the other handlers but import, all of calls that can name  *)
(* no row of a loan.                                                       *)
LEMMA ListPlanFits ==
  ASSUME NEW s, NEW m, NEW r, r.op \in ListOps \ {"import"}
  PROVE  OneFits(s, m, ListPlan(m, r).calls)
<1> DEFINE plan == ListPlan(m, r)
<1>0. ListCalls \subseteq FreeCalls /\ "SupersedeAccount" \in FreeCalls
  BY DEF FreeCalls
<1>1. CASE r.op \in {"create purchase", "update purchase", "delete purchase", "move purchase"}
  <2>1. plan \in {createPlannedPurchase(m, Queued(m, r.row)), updatePlannedPurchase(m, Requeued(m, r.row)),
                  deletePlannedPurchase(m, r.id), movePlannedPurchase(m, r.id, r.row)}
    BY <1>1 DEF ListPlan
  <2>2. \A p : OneFits(s, m, createPlannedPurchase(m, p).calls)
    BY <1>0, FreeCallFits DEF createPlannedPurchase, ListCalls
  <2>3. \A p : OneFits(s, m, updatePlannedPurchase(m, p).calls)
    BY <1>0, FreeCallFits DEF updatePlannedPurchase, ListCalls
  <2>4. \A id : OneFits(s, m, deletePlannedPurchase(m, id).calls)
    BY <1>0, FreeCallFits DEF deletePlannedPurchase, ListCalls
  <2>5. \A id, before : OneFits(s, m, movePlannedPurchase(m, id, before).calls)
    BY <1>0, FreeCallFits DEF movePlannedPurchase, ListCalls
  <2> QED BY <2>1, <2>2, <2>3, <2>4, <2>5
<1>2. CASE r.op \in {"create evaluation", "update evaluation", "delete evaluation", "move evaluation"}
  <2>1. plan \in {createEvaluation(m, r.row), updateEvaluation(m, r.row), deleteEvaluation(m, r.id),
                  moveEvaluation(m, r.id, r.row)}
    BY <1>2 DEF ListPlan
  <2>2. \A e : OneFits(s, m, createEvaluation(m, e).calls)
    BY <1>0, FreeCallFits DEF createEvaluation, ListCalls
  <2>3. \A e : OneFits(s, m, updateEvaluation(m, e).calls)
    BY <1>0, FreeCallFits DEF updateEvaluation, ListCalls
  <2>4. \A id : OneFits(s, m, deleteEvaluation(m, id).calls)
    BY <1>0, FreeCallFits DEF deleteEvaluation, ListCalls
  <2>5. \A id, before : OneFits(s, m, moveEvaluation(m, id, before).calls)
    BY <1>0, FreeCallFits DEF moveEvaluation, ListCalls
  <2> QED BY <2>1, <2>2, <2>3, <2>4, <2>5
<1>3. CASE r.op = "supersede"
  <2>1. plan.calls = <<Call("SupersedeAccount", r.id, r.row)>>
    BY <1>3 DEF ListPlan, Plan
  <2>2. Fits(s, m, Call("SupersedeAccount", r.id, r.row))
    BY <1>0, CallFields DEF Fits
  <2> QED BY <2>1, <2>2, OneCall
<1> QED BY <1>1, <1>2, <1>3 DEF ListOps

(* So every accepted plan but an import is one call that fits. *)
LEMMA PlanFits ==
  ASSUME NEW s \in Scopes, NEW m, LoansSound(s, m), NEW r \in s.requests, r.op # "import", NEW row,
         LoadedRight(s, r, row), Accepted(m, PlanOf(m, r, row))
  PROVE  OneFits(s, m, PlanOf(m, r, row).calls)
<1>1. r.op \in TransactionOps \cup AccountOps \cup ListOps
  BY ScopesAssumption DEF RequestRight
<1>2. CASE r.op \in TransactionOps
  BY <1>2, TransactionPlanFits DEF PlanOf
<1>3. CASE r.op \in ListOps /\ r.op \notin TransactionOps
  BY <1>3, ListPlanFits DEF PlanOf
<1>4. CASE r.op \notin TransactionOps /\ r.op \notin ListOps
  <2>1. PlanOf(m, r, row) = AccountPlan(m, r, row)
    BY <1>4 DEF PlanOf
  <2> QED BY <1>1, <1>4, <2>1, AccountPlanFits
<1> QED BY <1>2, <1>3, <1>4

-----------------------------------------------------------------------------
(* The inductive invariant: every loan is right and every request under    *)
(* way carries what fits the model as it now is, however much of it other  *)
(* requests have written since.                                            *)

ClientRight(s, m, e) ==
  /\ {"phase", "req", "row", "calls", "mark"} \subseteq DOMAIN e
  /\ OneFits(s, m, e.calls)
  /\ e.phase = "loaded" => e.req \in s.requests /\ LoadedRight(s, e.req, e.row)

NoImport == \A r \in scope.requests : r.op # "import"

IInv ==
  /\ scope \in Scopes
  /\ DOMAIN client = Clients
  /\ NoImport => /\ LoansSound(scope, model)
                 /\ \A c \in Clients : ClientRight(scope, model, client[c])

(* An idle client carries nothing. *)
LEMMA IdleIsRight ==
  ASSUME NEW s, NEW m
  PROVE  ClientRight(s, m, Idle)
BY DEF ClientRight, OneFits, Idle

(* A request that goes on, or ends, carries what it carried. *)
LEMMA ContinuedIsRight ==
  ASSUME NEW s, NEW m, NEW e, ClientRight(s, m, e)
  PROVE  ClientRight(s, m, Continue(e))
BY IdleIsRight DEF Continue

(* Sound loans of the scope's model are where it starts. *)
LEMMA StartsSound ==
  ASSUME NEW s \in Scopes
  PROVE  LoansSound(s, s.model)
<1> DEFINE m == s.model
<1>1. Shape(m) /\ ValidFinancialModel(m)
  BY ScopesAssumption DEF Shape
<1>2. Distinct(m.rules) /\ ValidAccountDisplays(m)
  BY <1>1 DEF ValidFinancialModel, ValidFinanceModel, ValidIds
<1>3. (\A l \in Existing(m) : LoanRight(m, l)) /\ LoansApart(m)
  BY <1>2, ValidIsRight
<1>4. ASSUME NEW l \in Known(s), l[1] \in DOMAIN m.accounts PROVE l[1] \in DOMAIN m.loans
  <2>1. CASE l \in Existing(m)
    BY <2>1, ExistingLoan
  <2>2. CASE l \in Created(s.requests)
    <3>1. l[1] \notin EntityIds(m)
      BY <2>2, ScopesAssumption DEF NewIds, LoanIds, AccountsOf
    <3> QED BY <1>4, <3>1 DEF EntityIds
  <2> QED BY <1>4, <2>1, <2>2 DEF Known
<1>5. Principals(s) \cap DOMAIN m.accounts \subseteq DOMAIN m.loans
  BY <1>4 DEF Principals
<1> QED BY <1>1, <1>3, <1>5 DEF LoansSound, Known

(* The initial states satisfy the invariant. *)
LEMMA StartsInductive == Init => IInv
<1> SUFFICES ASSUME Init PROVE IInv
  OBVIOUS
<1>1. PICK s \in Scopes : InitialRows(s, Fresh(s.model))
  BY DEF Init
<1>2. scope = s /\ model = s.model
  BY <1>1 DEF InitialRows
<1>3. DOMAIN client = Clients /\ \A c \in Clients : client[c] = Idle
  BY DEF Init
<1>4. LoansSound(scope, model)
  BY <1>2, StartsSound
<1> QED BY <1>2, <1>3, <1>4, IdleIsRight DEF IInv

(* One client's entry written, the model as it was. *)
LEMMA EntryWritten ==
  ASSUME IInv, UNCHANGED <<model, scope>>, NEW c \in Clients, NEW e, client' = [client EXCEPT ![c] = e],
         NoImport => ClientRight(scope, model, e)
  PROVE  IInv'
<1>1. scope' \in Scopes /\ DOMAIN client' = Clients /\ (NoImport' => NoImport)
  BY DEF IInv, NoImport
<1>2. ASSUME NoImport' PROVE LoansSound(scope', model') /\ \A d \in Clients : ClientRight(scope', model', client'[d])
  <2>1. LoansSound(scope, model) /\ (\A d \in Clients : ClientRight(scope, model, client[d])) /\ ClientRight(scope, model, e)
    BY <1>1, <1>2 DEF IInv
  <2>2. ASSUME NEW d \in Clients PROVE ClientRight(scope, model, client'[d])
    <3>1. client'[d] = IF d = c THEN e ELSE client[d]
      BY DEF IInv
    <3> QED BY <2>1, <3>1
  <2> QED BY <2>1, <2>2
<1> QED BY <1>1, <1>2 DEF IInv

(* What validation leaves of a request fits the model it was validated on. *)
LEMMA ValidatedKeeps ==
  ASSUME IInv, UNCHANGED <<model, scope>>, NEW c \in Clients, NEW r \in scope.requests, NEW row,
         NoImport => LoadedRight(scope, r, row), Validated(c, r, PlanOf(model, r, row))
  PROVE  IInv'
<1> DEFINE plan == PlanOf(model, r, row)
           entry == [Idle EXCEPT !.phase = "saving", !.req = r, !.calls = plan.calls]
           e == IF Accepted(model, plan) THEN Continue(entry) ELSE Idle
<1>1. client' = [client EXCEPT ![c] = e]
  BY DEF Validated
<1>2. ASSUME NoImport PROVE ClientRight(scope, model, e)
  <2>1. CASE Accepted(model, plan)
    <3>1. OneFits(scope, model, plan.calls)
      BY <1>2, <2>1, PlanFits DEF IInv, NoImport
    <3>2. /\ {"phase", "req", "row", "calls", "mark"} \subseteq DOMAIN entry
          /\ entry.phase = "saving" /\ entry.calls = plan.calls
      BY DEF Idle
    <3> HIDE DEF entry, plan
    <3>3. ClientRight(scope, model, entry)
      BY <3>1, <3>2 DEF ClientRight
    <3> QED BY <2>1, <3>3, ContinuedIsRight
  <2>2. CASE ~Accepted(model, plan)
    BY <2>2, IdleIsRight
  <2> QED BY <2>1, <2>2
<1> HIDE DEF e
<1> QED BY <1>1, <1>2, EntryWritten

(* A request begins: it reads a row first, or is validated at once. *)
LEMMA BeginKeeps ==
  ASSUME IInv, NEW c \in Clients, Begin(c)
  PROVE  IInv'
<1>1. UNCHANGED <<model, scope>>
  BY DEF Begin
<1>2. PICK r \in scope.requests :
        IF ReadsFirst(r) THEN Read(c, r, FirstRead(model, r)) ELSE Validated(c, r, PlanOf(model, r, <<>>))
  BY DEF Begin
<1>3. CASE ReadsFirst(r)
  <2> DEFINE row == FirstRead(model, r)
             entry == [Idle EXCEPT !.phase = "loaded", !.req = r, !.row = row]
             e == IF row = <<>> THEN Idle ELSE entry
  <2>1. client' = [client EXCEPT ![c] = e]
    BY <1>2, <1>3 DEF Read
  <2>2. ASSUME NoImport PROVE ClientRight(scope, model, e)
    <3>1. CASE row = <<>>
      BY <3>1, IdleIsRight
    <3>2. CASE row # <<>>
      <4>1. LoadedRight(scope, r, row)
        BY <2>2, <3>2, ReadIsRight DEF IInv
      <4>2. /\ {"phase", "req", "row", "calls", "mark"} \subseteq DOMAIN entry
            /\ entry.phase = "loaded" /\ entry.req = r /\ entry.row = row /\ entry.calls = <<>>
        BY DEF Idle
      <4> HIDE DEF entry, row
      <4>3. ClientRight(scope, model, entry)
        BY <4>1, <4>2 DEF ClientRight, OneFits
      <4> QED BY <3>2, <4>3
    <3> QED BY <3>1, <3>2
  <2> HIDE DEF e
  <2> QED BY <1>1, <2>1, <2>2, EntryWritten
<1>4. CASE ~ReadsFirst(r)
  <2>1. LoadedRight(scope, r, <<>>)
    BY <1>4 DEF ReadsFirst, LoadedRight
  <2> QED BY <1>1, <1>2, <1>4, <2>1, ValidatedKeeps
<1> QED BY <1>3, <1>4

(* A request validates the row it has read on the model as it now is. *)
LEMMA ValidateKeeps ==
  ASSUME IInv, NEW c \in Clients, Validate(c)
  PROVE  IInv'
<1>1. /\ UNCHANGED <<model, scope>> /\ client[c].phase = "loaded"
      /\ Validated(c, client[c].req, PlanOf(model, client[c].req, client[c].row))
  BY DEF Validate
<1>2. CASE NoImport
  <2>1. client[c].req \in scope.requests /\ LoadedRight(scope, client[c].req, client[c].row)
    BY <1>1, <1>2 DEF IInv, ClientRight
  <2> QED BY <1>1, <2>1, ValidatedKeeps
<1>3. CASE ~NoImport
  <2>1. ~NoImport' /\ scope' \in Scopes
    BY <1>1, <1>3 DEF NoImport, IInv
  <2>2. DOMAIN client' = Clients
    BY <1>1 DEF Validated, IInv
  <2> QED BY <2>1, <2>2 DEF IInv
<1> QED BY <1>2, <1>3

(* The mark of a commit touches no row. *)
LEMMA MarkKeeps ==
  ASSUME IInv, NEW c \in Clients, MarkDirty(c)
  PROVE  IInv'
<1> DEFINE entry == [client[c] EXCEPT !.mark = NoMark]
           e == Continue(entry)
<1>1. UNCHANGED <<model, scope>> /\ client' = [client EXCEPT ![c] = e]
  BY DEF MarkDirty, IInv
<1>2. ASSUME NoImport PROVE ClientRight(scope, model, e)
  <2>1. ClientRight(scope, model, client[c])
    BY <1>2 DEF IInv
  <2>2. ClientRight(scope, model, entry)
    BY <2>1 DEF ClientRight
  <2> QED BY <2>2, ContinuedIsRight
<1> HIDE DEF e
<1> QED BY <1>1, <1>2, EntryWritten

(* A call that is refused ends its request; one that is stored leaves the  *)
(* loans right, and every other request as fitting as it was.              *)
LEMMA SaveKeeps ==
  ASSUME IInv, NEW c \in Clients, SaveRow(c)
  PROVE  IInv'
<1> DEFINE call == Head(client[c].calls)
           done == Stored(model, call)
           entry == [Taken(client[c]) EXCEPT !.mark = done.mark]
<1>1. client[c].calls # <<>> /\ (Saved(c, done) \/ Unsaved(c, done)) /\ scope' = scope
  BY DEF SaveRow
<1>2. DOMAIN client' = Clients /\ scope' \in Scopes /\ (NoImport' => NoImport)
  BY <1>1 DEF Saved, Unsaved, IInv, NoImport
<1>3. SUFFICES ASSUME NoImport
               PROVE  LoansSound(scope, model') /\ \A d \in Clients : ClientRight(scope, model', client'[d])
  BY <1>1, <1>2 DEF IInv
<1>4. LoansSound(scope, model) /\ \A d \in Clients : ClientRight(scope, model, client[d])
  BY <1>3 DEF IInv
<1>5. client[c].calls = <<call>> /\ Fits(scope, model, call)
  BY <1>1, <1>4 DEF ClientRight, OneFits
<1>6. CASE Saved(c, done)
  <2>1. /\ done.error = "" /\ model' = done.model
        /\ client' = [client EXCEPT ![c] = Continue(entry)]
    BY <1>6 DEF Saved
  <2>2. LoansSound(scope, model') /\ Grown(scope, model, model')
    BY <1>4, <1>5, <2>1, StoredKeeps DEF Keeps, IInv
  <2>3. \A e : ClientRight(scope, model, e) => ClientRight(scope, model', e)
    BY <2>2, FitsStays DEF ClientRight, OneFits
  <2>4. ClientRight(scope, model', entry)
    <3>1. ClientRight(scope, model', client[c])
      BY <1>4, <2>3
    <3>2. \A x : Tail(<<x>>) = <<>>
      OBVIOUS
    <3>3. Tail(client[c].calls) = <<>>
      <4> HIDE DEF call, done
      <4> QED BY <1>5, <3>2
    <3>4. \A e, mark : LET f == [Taken(e) EXCEPT !.mark = mark]
                       IN  {"phase", "req", "row", "calls", "mark"} \subseteq DOMAIN e
                             => /\ {"phase", "req", "row", "calls", "mark"} \subseteq DOMAIN f
                                /\ f.calls = Tail(e.calls) /\ f.phase = e.phase /\ f.req = e.req /\ f.row = e.row
      BY DEF Taken
    <3> HIDE DEF call, done
    <3> QED BY <3>1, <3>3, <3>4 DEF ClientRight, OneFits
  <2> HIDE DEF entry
  <2>5. ClientRight(scope, model', Continue(entry))
    BY <2>4, ContinuedIsRight
  <2>6. ASSUME NEW d \in Clients PROVE ClientRight(scope, model', client'[d])
    <3>1. client'[d] = IF d = c THEN Continue(entry) ELSE client[d]
      BY <2>1 DEF IInv
    <3> QED BY <1>4, <2>3, <2>5, <3>1
  <2> QED BY <2>2, <2>6
<1>7. CASE Unsaved(c, done)
  <2>1. call.absent = "fail"
    BY <1>5 DEF Fits
  <2>2. model' = model /\ client' = [client EXCEPT ![c] = Idle]
    BY <1>7, <2>1 DEF Unsaved
  <2>3. ASSUME NEW d \in Clients PROVE ClientRight(scope, model', client'[d])
    <3>1. client'[d] = IF d = c THEN Idle ELSE client[d]
      BY <2>2 DEF IInv
    <3> QED BY <1>4, <2>2, <3>1, IdleIsRight
  <2> QED BY <1>4, <2>2, <2>3
<1> QED BY <1>1, <1>6, <1>7

(* Steps that leave the rows, the scope and the clients. *)
LEMMA UnchangedKeeps ==
  ASSUME IInv, UNCHANGED <<model, scope, client>>
  PROVE  IInv'
BY DEF IInv, NoImport

(* The invariant is inductive. *)
LEMMA Inductive == IInv /\ [Next]_vars => IInv'
<1> SUFFICES ASSUME IInv, [Next]_vars PROVE IInv'
  OBVIOUS
<1>1. ASSUME NEW c \in Clients, Begin(c) \/ Validate(c) \/ SaveRow(c) \/ MarkDirty(c) PROVE IInv'
  BY <1>1, BeginKeeps, ValidateKeeps, SaveKeeps, MarkKeeps
<1>2. CASE Build
  BY <1>2, UnchangedKeeps DEF Build
<1>3. CASE UNCHANGED vars
  BY <1>3, UnchangedKeeps DEF vars
<1> QED BY <1>1, <1>2, <1>3 DEF Next

(* However requests overlap, and whatever they write of what another has   *)
(* validated, a loan of a stored model stays whole: its accounts and rules *)
(* exist, agree and route as its form says, or are all gone.  For every    *)
(* number of clients, model, requests and budget (writes.go and its        *)
(* handlers, loans.go, rows.go).                                           *)
THEOREM LoansStayWhole == Spec => []LoanWhole
<1>1. IInv => LoanWhole
  BY RightIsValid DEF IInv, NoImport, LoanWhole, LoansSound
<1> QED BY <1>1, StartsInductive, Inductive, PTL DEF Spec
=============================================================================
