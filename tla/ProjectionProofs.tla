-------------------------- MODULE ProjectionProofs --------------------------
(***************************************************************************)
(* Proofs about what serves projections: ProjectionCache, for every number *)
(* of requests, evaluation tables, slices, seeds, writes and crashes, and  *)
(* SharedRuns, for every number of request contents, streams and runs and  *)
(* every channel capacity.  The first three theorems of the cache and      *)
(* ManifestAlwaysFound hold with every hazard the constants can switch on; *)
(* the others name the hazards they exclude, because the code does not     *)
(* survive them.  The two specifications share no variable; a name of the  *)
(* first that SharedRuns has too starts with Runs there.                   *)
(***************************************************************************)
EXTENDS ProjectionCache, SharedRuns, WellFoundedInduction, TLAPS

-----------------------------------------------------------------------------
(* Numbers.                                                                *)

\* A nonempty set of naturals has a least element.
LEMMA LeastElement ==
    ASSUME NEW T \in SUBSET Nat, T # {}
    PROVE  \E m \in T : \A n \in T : m <= n
<1>1. \E m \in T : \A n \in T : ~(<<n, m>> \in OpToRel(<, Nat))
    BY NatLessThanWellFounded, WFMin
<1>2. PICK m \in T : \A n \in T : ~(<<n, m>> \in OpToRel(<, Nat))
    BY <1>1
<1>3. ASSUME NEW n \in T PROVE ~(n < m)
  <2>1. n < m => <<n, m>> \in {ss \in Nat \X Nat : ss[1] < ss[2]}
      OBVIOUS
  <2> QED BY <1>2, <2>1 DEF OpToRel
<1>4. \A n \in T : m <= n
    BY <1>3
<1> QED BY <1>4

\* A nonempty set of naturals with an upper bound has a largest element.
LEMMA MaxInSet ==
    ASSUME NEW S \in SUBSET Nat, S # {}, NEW bound \in Nat, \A y \in S : y <= bound
    PROVE  Max(S) \in S /\ \A y \in S : Max(S) >= y
<1> DEFINE T == {n \in Nat : \A y \in S : y <= n}
<1>1. T \in SUBSET Nat /\ T # {}
    OBVIOUS
<1>2. \A n : n \in T <=> n \in Nat /\ \A y \in S : y <= n
    OBVIOUS
<1> HIDE DEF T
<1>3. PICK m \in T : \A n \in T : m <= n
    BY <1>1, LeastElement
<1>4. m \in Nat /\ \A n \in T : m <= n
    BY <1>1, <1>3
<1>5. m \in S
  <2>1. SUFFICES ASSUME m \notin S PROVE FALSE
      OBVIOUS
  <2>2. \A y \in S : y \in Nat /\ y < m
      BY <1>2, <1>3, <1>4, <2>1
  <2>3. PICK y \in S : TRUE
      OBVIOUS
  <2>4. m - 1 \in Nat /\ \A z \in S : z <= m - 1
      BY <1>4, <2>2, <2>3
  <2>5. m - 1 \in T
      BY <1>2, <2>4
  <2> QED BY <1>4, <2>5
<1>6. \E x \in S : \A y \in S : x >= y
    BY <1>2, <1>3, <1>5
<1> QED BY <1>6 DEF Max

\* A projection of the owner's model says of a day the number of a write.
LEMMA ContentType ==
    ASSUME NEW v \in {Foreign} \cup Nat, NEW d
    PROVE  Content(v, d) \in Contents
<1>1. CASE v = Foreign
    BY <1>1 DEF Content, Contents
<1>2. CASE v \in Nat
  <2> DEFINE S == {0} \cup {i \in 1..v : model[i] <= d}
  <2>1. S \in SUBSET Nat /\ S # {} /\ \A y \in S : y <= v
      BY <1>2
  <2>2. Max(S) \in Nat
      BY <1>2, <2>1, MaxInSet
  <2>3. v # Foreign
      BY <1>2 DEF Foreign
  <2> QED BY <2>2, <2>3 DEF Content, Contents
<1> QED BY <1>1, <1>2
-----------------------------------------------------------------------------
(* Types.                                                                  *)

RequestsTyped ==
    /\ flight \in Requests \cup {NoRequest}
    /\ pc \in [Requests -> Labels]
    /\ loc \in [Requests -> LocalType]

StoreTyped ==
    /\ slices \in [Slices -> Revisions]
    /\ rows \in [Days -> Contents]
    /\ stats \in [Days -> Contents]
    /\ outputs \in [RequestKinds -> OutputType]

LEMMA TypeParts ==
    TypeOK <=> /\ model \in Seq(Nat) /\ marks \in SUBSET (Nat \X Nat)
               /\ state \in StateType /\ StoreTyped /\ RequestsTyped
               /\ crashes \in Nat
BY DEF TypeOK, StoreTyped, RequestsTyped

LEMMA NoStateType == NoState \in StateType
BY DEF NoState, StateType, EvalPrints

LEMMA NoLocalType == NoLocal \in LocalType
<1>1. NoSlices \in [Slices -> Revisions]
    BY DEF NoSlices, Revisions, NoRev
<1>2. NoRows \in [Days -> Contents]
    BY DEF NoRows, Contents, Missing
<1>3. NoOutputs \in OutputType
    BY DEF NoOutputs, OutputType, EvalPrints, Contents, Missing, Revisions,
       NoRev
<1>4. "det" \in RequestKinds /\ 0 \in {Foreign} \cup Nat /\ {} \in SUBSET Slices
    BY DEF RequestKinds
<1> QED BY <1>1, <1>2, <1>3, <1>4, NoStateType, ConstantsAssumption DEF
   NoLocal, LocalType

\* The locals of a request keep their type field by field.
LEMMA LocalUpdate ==
    ASSUME NEW l \in LocalType
    PROVE  /\ \A st \in StateType : [l EXCEPT !.snap = st] \in LocalType
           /\ \A sl \in [Slices -> Revisions] : [l EXCEPT !.seen = sl] \in LocalType
           /\ \A ks \in SUBSET Slices : [l EXCEPT !.todo = ks] \in LocalType
           /\ \A t \in [Days -> Contents] : [l EXCEPT !.got = t] \in LocalType
           /\ \A o \in OutputType : [l EXCEPT !.out = o] \in LocalType
<1>1. \A st \in StateType : [l EXCEPT !.snap = st] \in LocalType
    BY DEF LocalType
<1>2. \A sl \in [Slices -> Revisions] : [l EXCEPT !.seen = sl] \in LocalType
    BY DEF LocalType
<1>3. \A ks \in SUBSET Slices : [l EXCEPT !.todo = ks] \in LocalType
    BY DEF LocalType
<1>4. \A t \in [Days -> Contents] : [l EXCEPT !.got = t] \in LocalType
    BY DEF LocalType
<1>5. \A o \in OutputType : [l EXCEPT !.out = o] \in LocalType
    BY DEF LocalType
<1> QED BY <1>1, <1>2, <1>3, <1>4, <1>5

\* Freezing the window keeps the row well-typed.
LEMMA CanonicalType == ASSUME state \in StateType PROVE Canonical \in StateType
<1>1. EarlierOf(state.dirty, FromAt(1)) \in Nat /\ state.revision + 1 \in Nat
    BY DEF StateType, EarlierOf, FromAt, Midnight
<1>2. CASE ~state.frozen
  <2> DEFINE st == [state EXCEPT !.frozen = TRUE, !.revision = @ + 1,
                                 !.dirty = EarlierOf(@, FromAt(1))]
  <2>1. st \in StateType
      BY <1>1 DEF StateType
  <2> QED BY <1>2, <2>1 DEF Canonical
<1> QED BY <1>2 DEF Canonical

LEMMA LeaveType ==
    ASSUME RequestsTyped, NEW p \in Requests, Leave(p), flight' = flight
    PROVE  RequestsTyped'
BY NoLocalType DEF RequestsTyped, Leave, Goto, Labels

LEMMA MissType ==
    ASSUME RequestsTyped, NEW p \in Requests, Miss(p), flight' = flight
    PROVE  RequestsTyped'
<1>1. CASE loc[p].built
    BY <1>1, LeaveType DEF Miss
<1>2. CASE ~loc[p].built
  <2>1. NoRows \in [Days -> Contents]
      BY DEF NoRows, Contents, Missing
  <2> DEFINE l == [loc[p] EXCEPT !.got = NoRows, !.snap = NoState]
  <2>2. loc' \in [Requests -> LocalType]
    <3>1. l \in LocalType
        BY <2>1, NoStateType, ZenonT(60) DEF RequestsTyped, LocalType
    <3>2. loc' = [loc EXCEPT ![p] = l]
        BY <1>2 DEF RequestsTyped, Miss
    <3> QED BY <3>1, <3>2 DEF RequestsTyped
  <2>3. pc' \in [Requests -> Labels]
      BY <1>2 DEF RequestsTyped, Miss, Goto, Labels, BuildSteps, StochSteps
  <2> QED BY <2>2, <2>3 DEF RequestsTyped
<1> QED BY <1>1, <1>2

LEMMA EndFlightType ==
    ASSUME RequestsTyped, NEW p \in Requests, NEW ok \in BOOLEAN, EndFlight(p, ok)
    PROVE  RequestsTyped'
<1>1. pc' \in [Requests -> Labels]
    BY DEF RequestsTyped, EndFlight, AfterBuild, Labels, StochSteps
<1>2. NoSlices \in [Slices -> Revisions]
    BY DEF NoSlices, Revisions, NoRev
<1>3. loc' \in [Requests -> LocalType]
    BY <1>2, NoStateType, NoLocalType, ZenonT(60)
    DEF RequestsTyped, EndFlight, LocalType
<1> QED BY <1>1, <1>3 DEF RequestsTyped, EndFlight

LEMMA WriteOutputsType ==
    ASSUME TypeOK, NEW p \in Requests, NEW kind \in RequestKinds, WriteOutputs(p, kind)
    PROVE  outputs' \in [RequestKinds -> OutputType]
<1>1. Content(loc[p].model, End) \in Contents
    BY ContentType DEF TypeOK, LocalType
<1>2. loc[p].eval \in EvalPrints /\ loc[p].snap.revision \in Revisions
    BY DEF TypeOK, LocalType, StateType, EvalPrints, Revisions
<1> QED BY <1>1, <1>2 DEF TypeOK, WriteOutputs, OutputType

\* Every step keeps the types, whichever store call it is.
LEMMA TypeStep == TypeOK /\ [Next]_vars => TypeOK'
<1> SUFFICES ASSUME TypeOK, [Next]_vars PROVE TypeOK'
    OBVIOUS
<1> USE ConstantsAssumption
<1> USE DEF store
<1>a. /\ model \in Seq(Nat) /\ marks \in SUBSET (Nat \X Nat)
      /\ state \in StateType /\ StoreTyped /\ RequestsTyped
      /\ crashes \in Nat
    BY TypeParts
<1>b. Canonical \in StateType
    BY <1>a, CanonicalType
<1>c. ASSUME model' \in Seq(Nat), marks' \in SUBSET (Nat \X Nat),
             state' \in StateType, StoreTyped', RequestsTyped', crashes' \in Nat
      PROVE  TypeOK'
    BY <1>c DEF TypeOK, StoreTyped, RequestsTyped
<1>1. ASSUME NEW i \in WriteInstants, CommitWrite(i) PROVE TypeOK'
  <2>1. DayOf(i) \in Nat /\ i \in Nat /\ Version + 1 \in Nat
      BY <1>a DEF DayOf, Version
  <2>2. model' \in Seq(Nat) /\ marks' \in SUBSET (Nat \X Nat)
      BY <1>a, <1>1, <2>1 DEF CommitWrite
  <2> QED BY <1>a, <1>c, <1>1, <2>2 DEF CommitWrite, StoreTyped, RequestsTyped
<1>2. ASSUME NEW m \in marks, MarkProjectionDirty(m) PROVE TypeOK'
  <2> DEFINE instant == IF m[2] > 0 THEN m[2] ELSE IF state.frozen THEN FromAt(1) ELSE 0
  <2>1. instant \in Nat
      BY <1>a DEF FromAt, Midnight
  <2>2. /\ EarlierOf(state.dirty, instant) \in Nat
        /\ state.dirty \in Nat /\ state.revision + 1 \in Nat
      BY <1>a, <2>1 DEF EarlierOf, StateType
  <2>3. state' \in StateType
      BY <1>a, <1>2, <2>2 DEF MarkProjectionDirty, StateType
  <2>4. marks' \in SUBSET (Nat \X Nat)
      BY <1>a, <1>2 DEF MarkProjectionDirty
  <2> QED BY <1>a, <1>c, <1>2, <2>3, <2>4 DEF MarkProjectionDirty, StoreTyped,
     RequestsTyped
<1>3. ASSUME NEW p \in Requests, NEW kind \in Kinds, NEW eval \in Evals,
             NEW seed \in Seeds \cup {NoSeed}, NEW own \in OwnModels,
             NEW other \in BOOLEAN, LoadModel(p, kind, eval, seed, own, other)
      PROVE TypeOK'
  <2> DEFINE v == IF own THEN Foreign ELSE Version
  <2> DEFINE l == [NoLocal EXCEPT !.kind = kind, !.eval = eval, !.seed = seed,
                                  !.other = other, !.model = v]
  <2>1. v \in {Foreign} \cup Nat /\ kind \in RequestKinds
      BY <1>a DEF Version, RequestKinds
  <2>2. l \in LocalType
      BY <2>1, NoLocalType, ZenonT(60) DEF LocalType
  <2>3. loc' = [loc EXCEPT ![p] = l]
      BY <1>3 DEF LoadModel
  <2>4. RequestsTyped'
      BY <1>a, <1>3, <2>2, <2>3 DEF LoadModel, RequestsTyped, Goto, Labels
  <2> QED BY <1>a, <1>c, <1>3, <2>4 DEF LoadModel, StoreTyped
<1>4. ASSUME NEW p \in Requests, EnsureCanonicalState(p) PROVE TypeOK'
  <2>1. state' \in StateType
      BY <1>b, <1>4 DEF EnsureCanonicalState
  <2>2. StoreTyped'
      BY <1>a, <1>4 DEF StoreTyped, EnsureCanonicalState
  <2>3. RequestsTyped'
    <3>1. CASE loc[p].other
        BY <1>a, <1>4, <3>1, LeaveType DEF EnsureCanonicalState
    <3>2. CASE ~loc[p].other
        BY <1>a, <1>4, <3>2 DEF EnsureCanonicalState, RequestsTyped, Goto,
           Labels
    <3> QED BY <3>1, <3>2
  <2> QED BY <1>a, <1>c, <1>4, <2>1, <2>2, <2>3 DEF EnsureCanonicalState
<1>5. ASSUME NEW p \in Requests, ReadState(p) PROVE TypeOK'
  <2>1. state' \in StateType
      BY <1>b, <1>5 DEF ReadState
  <2>2. StoreTyped'
      BY <1>a, <1>5 DEF StoreTyped, ReadState
  <2>3. RequestsTyped'
    <3>1. CASE Leave(p)
        BY <1>a, <1>5, <3>1, LeaveType DEF ReadState
    <3>2. CASE Miss(p)
        BY <1>a, <1>5, <3>2, MissType DEF ReadState
    <3>3. CASE Goto(p, "readSlices") /\ loc' = [loc EXCEPT ![p].snap = Canonical]
      <4>1. [loc[p] EXCEPT !.snap = Canonical] \in LocalType
          BY <1>a, <1>b, LocalUpdate DEF RequestsTyped
      <4> QED BY <1>a, <1>5, <3>3, <4>1 DEF ReadState, RequestsTyped, Goto,
         Labels
    <3> QED BY <1>5, <3>1, <3>2, <3>3 DEF ReadState
  <2> QED BY <1>a, <1>c, <1>5, <2>1, <2>2, <2>3 DEF ReadState
<1>6. ASSUME NEW p \in Requests, ReadSlices(p) PROVE TypeOK'
  <2>1. state' \in StateType
      BY <1>a, <1>6 DEF ReadSlices
  <2>2. StoreTyped'
      BY <1>a, <1>6 DEF StoreTyped, ReadSlices
  <2>3. RequestsTyped'
    <3>1. CASE Miss(p)
        BY <1>a, <1>6, <3>1, MissType DEF ReadSlices
    <3>2. CASE Goto(p, "readRows") /\ UNCHANGED loc
        BY <1>a, <1>6, <3>2 DEF ReadSlices, RequestsTyped, Goto, Labels
    <3> QED BY <1>6, <3>1, <3>2 DEF ReadSlices
  <2> QED BY <1>a, <1>c, <1>6, <2>1, <2>2, <2>3 DEF ReadSlices
<1>7. ASSUME NEW p \in Requests, ReadRows(p) PROVE TypeOK'
  <2>1. state' \in StateType
      BY <1>a, <1>7 DEF ReadRows
  <2>2. StoreTyped'
      BY <1>a, <1>7 DEF StoreTyped, ReadRows
  <2>3. RequestsTyped'
    <3> DEFINE table == IF loc[p].kind = "det" THEN rows ELSE stats
    <3>1. CASE Miss(p)
        BY <1>a, <1>7, <3>1, MissType DEF ReadRows
    <3>2. CASE Goto(p, "readOutputs") /\ loc' = [loc EXCEPT ![p].got = table]
      <4>1. [loc[p] EXCEPT !.got = table] \in LocalType
          BY <1>a, LocalUpdate DEF RequestsTyped, StoreTyped
      <4>2. loc' = [loc EXCEPT ![p] = [loc[p] EXCEPT !.got = table]]
          BY <1>a, <3>2 DEF RequestsTyped
      <4>3. loc' \in [Requests -> LocalType]
          BY <1>a, <4>1, <4>2 DEF RequestsTyped
      <4>4. pc' \in [Requests -> Labels]
          BY <1>a, <3>2 DEF RequestsTyped, Goto, Labels
      <4> QED BY <1>a, <1>7, <4>3, <4>4 DEF ReadRows, RequestsTyped
    <3> QED BY <1>7, <3>1, <3>2 DEF ReadRows
  <2> QED BY <1>a, <1>c, <1>7, <2>1, <2>2, <2>3 DEF ReadRows
<1>8. ASSUME NEW p \in Requests, ReadOutputs(p) PROVE TypeOK'
  <2>1. state' \in StateType
      BY <1>a, <1>8 DEF ReadOutputs
  <2>2. StoreTyped'
      BY <1>a, <1>8 DEF StoreTyped, ReadOutputs
  <2>3. RequestsTyped'
    <3> DEFINE o == IF loc[p].eval = EmptyEval THEN NoOutputs ELSE outputs[loc[p].kind]
    <3>1. CASE Miss(p)
        BY <1>a, <1>8, <3>1, MissType DEF ReadOutputs
    <3>2. CASE Goto(p, "served") /\ loc' = [loc EXCEPT ![p].out = o]
      <4>1. o \in OutputType
          BY <1>a, NoLocalType DEF RequestsTyped, StoreTyped, LocalType,
             NoLocal
      <4>2. [loc[p] EXCEPT !.out = o] \in LocalType
          BY <1>a, <4>1, LocalUpdate DEF RequestsTyped
      <4>3. loc' = [loc EXCEPT ![p] = [loc[p] EXCEPT !.out = o]]
          BY <1>a, <3>2 DEF RequestsTyped
      <4>4. loc' \in [Requests -> LocalType]
          BY <1>a, <4>2, <4>3 DEF RequestsTyped
      <4>5. pc' \in [Requests -> Labels]
          BY <1>a, <3>2 DEF RequestsTyped, Goto, Labels
      <4> QED BY <1>a, <1>8, <4>4, <4>5 DEF ReadOutputs, RequestsTyped
    <3> QED BY <1>8, <3>1, <3>2 DEF ReadOutputs
  <2> QED BY <1>a, <1>c, <1>8, <2>1, <2>2, <2>3 DEF ReadOutputs
<1>9. ASSUME NEW p \in Requests, Respond(p) PROVE TypeOK'
  <2>1. state' \in StateType
      BY <1>a, <1>9 DEF Respond
  <2>2. StoreTyped'
      BY <1>a, <1>9 DEF StoreTyped, Respond
  <2>3. RequestsTyped'
      BY <1>a, <1>9, LeaveType DEF Respond
  <2> QED BY <1>a, <1>c, <1>9, <2>1, <2>2, <2>3 DEF Respond
<1>10. ASSUME NEW p \in Requests, ReadFail(p) PROVE TypeOK'
  <2>1. state' \in StateType
      BY <1>a, <1>10 DEF ReadFail
  <2>2. StoreTyped'
      BY <1>a, <1>10 DEF StoreTyped, ReadFail
  <2>3. RequestsTyped'
      BY <1>a, <1>10, LeaveType DEF ReadFail
  <2> QED BY <1>a, <1>c, <1>10, <2>1, <2>2, <2>3 DEF ReadFail
<1>11. ASSUME NEW p \in Requests, JoinFlight(p) PROVE TypeOK'
  <2>1. state' \in StateType
      BY <1>a, <1>11 DEF JoinFlight
  <2>2. StoreTyped'
      BY <1>a, <1>11 DEF StoreTyped, JoinFlight
  <2>3. RequestsTyped'
      BY <1>a, <1>11 DEF JoinFlight, RequestsTyped, Goto, Labels, BuildSteps,
         StochSteps
  <2> QED BY <1>a, <1>c, <1>11, <2>1, <2>2, <2>3 DEF JoinFlight
<1>12. ASSUME NEW p \in Requests, BuildState(p) PROVE TypeOK'
  <2>1. state' \in StateType
      BY <1>b, <1>12 DEF BuildState
  <2>2. StoreTyped'
      BY <1>a, <1>12 DEF StoreTyped, BuildState
  <2>3. RequestsTyped'
    <3>1. [loc[p] EXCEPT !.snap = Canonical] \in LocalType
        BY <1>a, <1>b, LocalUpdate DEF RequestsTyped
    <3> QED BY <1>a, <1>12, <3>1 DEF BuildState, RequestsTyped, Goto, Labels,
       BuildSteps, StochSteps
  <2> QED BY <1>a, <1>c, <1>12, <2>1, <2>2, <2>3 DEF BuildState
<1>13. ASSUME NEW p \in Requests, BuildSlices(p) PROVE TypeOK'
  <2>1. state' \in StateType
      BY <1>a, <1>13 DEF BuildSlices
  <2>2. StoreTyped'
      BY <1>a, <1>13 DEF StoreTyped, BuildSlices
  <2>3. RequestsTyped'
    <3>1. CASE EndFlight(p, TRUE)
        BY <1>a, <3>1, EndFlightType
    <3>2. CASE ~EndFlight(p, TRUE)
      <4>1. [loc[p] EXCEPT !.seen = slices] \in LocalType
          BY <1>a, LocalUpdate DEF RequestsTyped, StoreTyped
      <4>2. /\ loc' = [loc EXCEPT ![p] = [loc[p] EXCEPT !.seen = slices]]
            /\ pc' \in [Requests -> Labels]
            /\ flight' = flight
          BY <1>a, <1>13, <3>2 DEF BuildSlices, RequestsTyped, Goto, Labels,
             BuildSteps
      <4> QED BY <1>a, <4>1, <4>2 DEF RequestsTyped
    <3> QED BY <3>1, <3>2
  <2> QED BY <1>a, <1>c, <1>13, <2>1, <2>2, <2>3 DEF BuildSlices
<1>14. ASSUME NEW p \in Requests, BuildOutputsOnly(p) PROVE TypeOK'
  <2>1. state' \in StateType
      BY <1>a, <1>14 DEF BuildOutputsOnly
  <2>2. StoreTyped'
      BY <1>a, <1>14, TypeParts, WriteOutputsType DEF BuildOutputsOnly,
         StoreTyped, RequestKinds
  <2>3. RequestsTyped'
      BY <1>a, <1>14 DEF BuildOutputsOnly, RequestsTyped, Goto, Labels,
         BuildSteps, StochSteps
  <2> QED BY <1>a, <1>c, <1>14, <2>1, <2>2, <2>3 DEF BuildOutputsOnly
<1>15. ASSUME NEW p \in Requests, BuildFingerprintOnly(p) PROVE TypeOK'
  <2>1. state' \in StateType
    <3>1. [state EXCEPT !.detEval = loc[p].eval] \in StateType
        BY <1>a DEF RequestsTyped, LocalType, StateType, EvalPrints
    <3> QED BY <1>a, <1>15, <3>1 DEF BuildFingerprintOnly, PersistFingerprint
  <2>2. StoreTyped'
      BY <1>a, <1>15 DEF StoreTyped, BuildFingerprintOnly
  <2>3. RequestsTyped'
    <3>1. (state.revision = loc[p].snap.revision) \in BOOLEAN
        OBVIOUS
    <3> QED BY <1>a, <1>15, <3>1, EndFlightType DEF BuildFingerprintOnly
  <2> QED BY <1>a, <1>c, <1>15, <2>1, <2>2, <2>3 DEF BuildFingerprintOnly
<1>16. ASSUME NEW p \in Requests, BuildRecheck(p) PROVE TypeOK'
  <2>1. state' \in StateType
      BY <1>a, <1>16 DEF BuildRecheck
  <2>2. StoreTyped'
      BY <1>a, <1>16 DEF StoreTyped, BuildRecheck
  <2>3. RequestsTyped'
    <3>1. CASE EndFlight(p, FALSE)
        BY <1>a, <3>1, EndFlightType
    <3>2. CASE ~EndFlight(p, FALSE)
        BY <1>a, <1>16, <3>2 DEF BuildRecheck, RequestsTyped, Goto, Labels,
           BuildSteps
    <3> QED BY <3>1, <3>2
  <2> QED BY <1>a, <1>c, <1>16, <2>1, <2>2, <2>3 DEF BuildRecheck
<1>17. ASSUME NEW p \in Requests, BuildDelete(p) PROVE TypeOK'
  <2>1. state' \in StateType
      BY <1>a, <1>17 DEF BuildDelete
  <2>2. StoreTyped'
    <3>1. Missing \in Contents
        BY DEF Missing, Contents
    <3> QED BY <1>a, <1>17, <3>1 DEF BuildDelete, StoreTyped
  <2>3. RequestsTyped'
    <3> DEFINE from == suffixFrom(loc[p].seen, loc[p].snap.dirty)
    <3> DEFINE ks == {k \in Slices : FromAt(k) >= from}
    <3>1. [loc[p] EXCEPT !.todo = ks] \in LocalType
        BY <1>a, LocalUpdate DEF RequestsTyped
    <3>2. loc' = [loc EXCEPT ![p] = [loc[p] EXCEPT !.todo = ks]]
        BY <1>a, <1>17 DEF BuildDelete, RequestsTyped
    <3>3. loc' \in [Requests -> LocalType]
        BY <1>a, <3>1, <3>2 DEF RequestsTyped
    <3> QED BY <1>a, <1>17, <3>3 DEF BuildDelete, RequestsTyped, Goto, Labels,
       BuildSteps
  <2> QED BY <1>a, <1>c, <1>17, <2>1, <2>2, <2>3 DEF BuildDelete
<1>18. ASSUME NEW p \in Requests, BuildManifest(p) PROVE TypeOK'
  <2>1. state' \in StateType
      BY <1>a, <1>18 DEF BuildManifest
  <2>2. StoreTyped'
    <3>1. loc[p].snap.revision \in Revisions
        BY <1>a DEF RequestsTyped, LocalType, StateType, Revisions
    <3> QED BY <1>a, <1>18, <3>1 DEF BuildManifest, StoreTyped
  <2>3. RequestsTyped'
    <3> DEFINE ks == loc[p].todo \ {Min(loc[p].todo)}
    <3>1. ks \in SUBSET Slices
        BY <1>a DEF RequestsTyped, LocalType
    <3>2. [loc[p] EXCEPT !.todo = ks] \in LocalType
        BY <1>a, <3>1, LocalUpdate DEF RequestsTyped
    <3>3. loc' = [loc EXCEPT ![p] = [loc[p] EXCEPT !.todo = ks]]
        BY <1>a, <1>18 DEF BuildManifest, RequestsTyped
    <3>4. loc' \in [Requests -> LocalType]
        BY <1>a, <3>2, <3>3 DEF RequestsTyped
    <3> QED BY <1>a, <1>18, <3>4 DEF BuildManifest, RequestsTyped, Goto,
       Labels, BuildSteps
  <2> QED BY <1>a, <1>c, <1>18, <2>1, <2>2, <2>3 DEF BuildManifest
<1>19. ASSUME NEW p \in Requests, BuildRows(p) PROVE TypeOK'
  <2>1. state' \in StateType
      BY <1>a, <1>19 DEF BuildRows
  <2>2. StoreTyped'
    <3>1. \A d \in Days : Content(loc[p].model, d) \in Contents
        BY <1>a, ContentType DEF RequestsTyped, LocalType
    <3>2. rows' \in [Days -> Contents]
        BY <1>a, <1>19, <3>1 DEF BuildRows, StoreTyped
    <3> QED BY <1>a, <1>19, <3>2 DEF BuildRows, StoreTyped
  <2>3. RequestsTyped'
      BY <1>a, <1>19 DEF BuildRows, RequestsTyped, Goto, Labels, BuildSteps,
         StochSteps
  <2> QED BY <1>a, <1>c, <1>19, <2>1, <2>2, <2>3 DEF BuildRows
<1>20. ASSUME NEW p \in Requests, BuildOutputs(p) PROVE TypeOK'
  <2>1. state' \in StateType
      BY <1>a, <1>20 DEF BuildOutputs
  <2>2. StoreTyped'
      BY <1>a, <1>20, TypeParts, WriteOutputsType DEF BuildOutputs,
         StoreTyped, RequestKinds
  <2>3. RequestsTyped'
    <3> DEFINE ks == {k \in Prefix(loc[p].seen, loc[p].snap.dirty) :
                        loc[p].seen[k] # loc[p].snap.revision}
    <3>1. ks \in SUBSET Slices
        BY DEF Prefix, Listed
    <3>2. [loc[p] EXCEPT !.todo = ks] \in LocalType
        BY <1>a, <3>1, LocalUpdate DEF RequestsTyped
    <3>3. loc' = [loc EXCEPT ![p] = [loc[p] EXCEPT !.todo = ks]]
        BY <1>a, <1>20 DEF BuildOutputs, RequestsTyped
    <3>4. loc' \in [Requests -> LocalType]
        BY <1>a, <3>2, <3>3 DEF RequestsTyped
    <3> QED BY <1>a, <1>20, <3>4 DEF BuildOutputs, RequestsTyped, Goto,
       Labels, BuildSteps
  <2> QED BY <1>a, <1>c, <1>20, <2>1, <2>2, <2>3 DEF BuildOutputs
<1>21. ASSUME NEW p \in Requests, BuildAdopt(p) PROVE TypeOK'
  <2>1. state' \in StateType
      BY <1>a, <1>21 DEF BuildAdopt
  <2>2. StoreTyped'
    <3>1. loc[p].snap.revision \in Revisions
        BY <1>a DEF RequestsTyped, LocalType, StateType, Revisions
    <3> QED BY <1>a, <1>21, <3>1 DEF BuildAdopt, StoreTyped
  <2>3. RequestsTyped'
    <3> DEFINE ks == loc[p].todo \ {Min(loc[p].todo)}
    <3>1. ks \in SUBSET Slices
        BY <1>a DEF RequestsTyped, LocalType
    <3>2. [loc[p] EXCEPT !.todo = ks] \in LocalType
        BY <1>a, <3>1, LocalUpdate DEF RequestsTyped
    <3>3. loc' = [loc EXCEPT ![p] = [loc[p] EXCEPT !.todo = ks]]
        BY <1>a, <1>21 DEF BuildAdopt, RequestsTyped
    <3>4. loc' \in [Requests -> LocalType]
        BY <1>a, <3>2, <3>3 DEF RequestsTyped
    <3> QED BY <1>a, <1>21, <3>4 DEF BuildAdopt, RequestsTyped, Goto, Labels,
       BuildSteps
  <2> QED BY <1>a, <1>c, <1>21, <2>1, <2>2, <2>3 DEF BuildAdopt
<1>22. ASSUME NEW p \in Requests, BuildFingerprint(p) PROVE TypeOK'
  <2>1. state' \in StateType
    <3>1. [state EXCEPT !.detEval = loc[p].eval] \in StateType
        BY <1>a DEF RequestsTyped, LocalType, StateType, EvalPrints
    <3> QED BY <1>a, <1>22, <3>1 DEF BuildFingerprint, PersistFingerprint
  <2>2. StoreTyped'
      BY <1>a, <1>22 DEF StoreTyped, BuildFingerprint
  <2>3. RequestsTyped'
    <3>1. CASE EndFlight(p, FALSE)
        BY <1>a, <3>1, EndFlightType
    <3>2. CASE ~EndFlight(p, FALSE)
        BY <1>a, <1>22, <3>2 DEF BuildFingerprint, RequestsTyped, Goto,
           Labels, BuildSteps
    <3> QED BY <3>1, <3>2
  <2> QED BY <1>a, <1>c, <1>22, <2>1, <2>2, <2>3 DEF BuildFingerprint
<1>23. ASSUME NEW p \in Requests, BuildPublish(p) PROVE TypeOK'
  <2>1. state' \in StateType
    <3>1. loc[p].snap.revision \in Nat
        BY <1>a DEF RequestsTyped, LocalType, StateType
    <3>2. [state EXCEPT !.published = loc[p].snap.revision, !.dirty = 0] \in StateType
        BY <1>a, <3>1 DEF StateType
    <3> QED BY <1>a, <1>23, <3>2 DEF BuildPublish, Published
  <2>2. StoreTyped'
      BY <1>a, <1>23 DEF StoreTyped, BuildPublish
  <2>3. RequestsTyped'
      BY <1>a, <1>23, EndFlightType DEF BuildPublish
  <2> QED BY <1>a, <1>c, <1>23, <2>1, <2>2, <2>3 DEF BuildPublish
<1>24. ASSUME NEW p \in Requests, BuildFail(p) PROVE TypeOK'
  <2>1. state' \in StateType
      BY <1>a, <1>24 DEF BuildFail
  <2>2. StoreTyped'
      BY <1>a, <1>24 DEF StoreTyped, BuildFail
  <2>3. RequestsTyped'
      BY <1>a, <1>24, EndFlightType DEF BuildFail
  <2> QED BY <1>a, <1>c, <1>24, <2>1, <2>2, <2>3 DEF BuildFail
<1>25. ASSUME NEW p \in Requests, StochState(p) PROVE TypeOK'
  <2>1. state' \in StateType
      BY <1>b, <1>25 DEF StochState
  <2>2. StoreTyped'
      BY <1>a, <1>25 DEF StoreTyped, StochState
  <2>3. RequestsTyped'
    <3>1. CASE Leave(p)
        BY <1>a, <1>25, <3>1, LeaveType DEF StochState
    <3>2. CASE ~Leave(p)
      <4>1. [loc[p] EXCEPT !.snap = Canonical] \in LocalType
          BY <1>a, <1>b, LocalUpdate DEF RequestsTyped
      <4> QED BY <1>a, <1>25, <3>2, <4>1 DEF StochState, RequestsTyped, Goto,
                 Labels, BuildSteps, StochSteps
    <3> QED BY <3>1, <3>2
  <2> QED BY <1>a, <1>c, <1>25, <2>1, <2>2, <2>3 DEF StochState
<1>26. ASSUME NEW p \in Requests, StochReload(p) PROVE TypeOK'
  <2>1. state' \in StateType
      BY <1>a, <1>26 DEF StochReload
  <2>2. StoreTyped'
      BY <1>a, <1>26 DEF StoreTyped, StochReload
  <2>3. RequestsTyped'
    <3>1. [loc[p] EXCEPT !.snap = state] \in LocalType
        BY <1>a, <1>b, LocalUpdate DEF RequestsTyped
    <3> QED BY <1>a, <1>26, <3>1 DEF StochReload, RequestsTyped, Goto, Labels,
       BuildSteps, StochSteps
  <2> QED BY <1>a, <1>c, <1>26, <2>1, <2>2, <2>3 DEF StochReload
<1>27. ASSUME NEW p \in Requests, StochSeed(p) PROVE TypeOK'
  <2>1. state' \in StateType
    <3>1. [loc[p].snap EXCEPT !.seed = loc[p].seed] \in StateType
        BY <1>a DEF RequestsTyped, LocalType, StateType
    <3> QED BY <1>a, <1>27, <3>1 DEF StochSeed
  <2>2. StoreTyped'
      BY <1>a, <1>27 DEF StoreTyped, StochSeed
  <2>3. RequestsTyped'
    <3>1. CASE Leave(p)
        BY <1>a, <1>27, <3>1, LeaveType DEF StochSeed
    <3>2. CASE ~Leave(p)
      <4> DEFINE st == [loc[p].snap EXCEPT !.seed = loc[p].seed]
      <4>1. st \in StateType
          BY <1>a DEF RequestsTyped, LocalType, StateType
      <4>2. [loc[p] EXCEPT !.snap = st] \in LocalType
          BY <1>a, <4>1, LocalUpdate DEF RequestsTyped
      <4>3. loc' = [loc EXCEPT ![p] = [loc[p] EXCEPT !.snap = st]] /\ Goto(p, "sSlices")
          BY <1>a, <1>27, <3>2 DEF StochSeed, RequestsTyped
      <4>4. loc' \in [Requests -> LocalType]
          BY <1>a, <4>2, <4>3 DEF RequestsTyped
      <4> QED BY <1>a, <1>27, <4>3, <4>4 DEF StochSeed, RequestsTyped, Goto,
         Labels, BuildSteps, StochSteps
    <3> QED BY <3>1, <3>2
  <2> QED BY <1>a, <1>c, <1>27, <2>1, <2>2, <2>3 DEF StochSeed
<1>28. ASSUME NEW p \in Requests, StochSlices(p) PROVE TypeOK'
  <2>1. state' \in StateType
      BY <1>a, <1>28 DEF StochSlices
  <2>2. StoreTyped'
      BY <1>a, <1>28 DEF StoreTyped, StochSlices
  <2>3. RequestsTyped'
      BY <1>a, <1>28 DEF StochSlices, RequestsTyped, Goto, Labels, BuildSteps,
         StochSteps
  <2> QED BY <1>a, <1>c, <1>28, <2>1, <2>2, <2>3 DEF StochSlices
<1>29. ASSUME NEW p \in Requests, StochDelete(p) PROVE TypeOK'
  <2>1. state' \in StateType
      BY <1>a, <1>29 DEF StochDelete
  <2>2. StoreTyped'
    <3>1. NoRows \in [Days -> Contents]
        BY DEF NoRows, Missing, Contents
    <3> QED BY <1>a, <1>29, <3>1 DEF StochDelete, StoreTyped
  <2>3. RequestsTyped'
      BY <1>a, <1>29 DEF StochDelete, RequestsTyped, Goto, Labels, BuildSteps,
         StochSteps
  <2> QED BY <1>a, <1>c, <1>29, <2>1, <2>2, <2>3 DEF StochDelete
<1>30. ASSUME NEW p \in Requests, StochStats(p) PROVE TypeOK'
  <2>1. state' \in StateType
      BY <1>a, <1>30 DEF StochStats
  <2>2. StoreTyped'
    <3>1. \A d \in Days : Content(loc[p].model, d) \in Contents
        BY <1>a, ContentType DEF RequestsTyped, LocalType
    <3> QED BY <1>a, <1>30, <3>1 DEF StochStats, StoreTyped
  <2>3. RequestsTyped'
      BY <1>a, <1>30 DEF StochStats, RequestsTyped, Goto, Labels, BuildSteps,
         StochSteps
  <2> QED BY <1>a, <1>c, <1>30, <2>1, <2>2, <2>3 DEF StochStats
<1>31. ASSUME NEW p \in Requests, StochOutputs(p) PROVE TypeOK'
  <2>1. state' \in StateType
      BY <1>a, <1>31 DEF StochOutputs
  <2>2. StoreTyped'
      BY <1>a, <1>31, TypeParts, WriteOutputsType DEF StochOutputs,
         StoreTyped, RequestKinds
  <2>3. RequestsTyped'
      BY <1>a, <1>31 DEF StochOutputs, RequestsTyped, Goto, Labels,
         BuildSteps, StochSteps
  <2> QED BY <1>a, <1>c, <1>31, <2>1, <2>2, <2>3 DEF StochOutputs
<1>32. ASSUME NEW p \in Requests, StochRecheck(p) PROVE TypeOK'
  <2>1. state' \in StateType
      BY <1>a, <1>32 DEF StochRecheck
  <2>2. StoreTyped'
      BY <1>a, <1>32 DEF StoreTyped, StochRecheck
  <2>3. RequestsTyped'
    <3>1. CASE Leave(p)
        BY <1>a, <1>32, <3>1, LeaveType DEF StochRecheck
    <3>2. CASE ~Leave(p)
        BY <1>a, <1>32, <3>2 DEF StochRecheck, RequestsTyped, Goto, Labels,
           BuildSteps, StochSteps
    <3> QED BY <3>1, <3>2
  <2> QED BY <1>a, <1>c, <1>32, <2>1, <2>2, <2>3 DEF StochRecheck
<1>33. ASSUME NEW p \in Requests, StochSave(p) PROVE TypeOK'
  <2>1. state' \in StateType
    <3>1. [loc[p].snap EXCEPT !.stochEval = loc[p].eval] \in StateType
        BY <1>a DEF RequestsTyped, LocalType, StateType, EvalPrints
    <3> QED BY <1>33, <3>1 DEF StochSave
  <2>2. StoreTyped'
      BY <1>a, <1>33 DEF StoreTyped, StochSave
  <2>3. RequestsTyped'
      BY <1>a, <1>33 DEF StochSave, RequestsTyped, Goto, Labels, BuildSteps,
         StochSteps
  <2> QED BY <1>a, <1>c, <1>33, <2>1, <2>2, <2>3 DEF StochSave
<1>34. ASSUME NEW p \in Requests, StochPublish(p) PROVE TypeOK'
  <2>1. state' \in StateType
    <3>1. loc[p].snap.revision \in Nat
        BY <1>a DEF RequestsTyped, LocalType, StateType
    <3>2. [state EXCEPT !.published = loc[p].snap.revision, !.dirty = 0] \in StateType
        BY <1>a, <3>1 DEF StateType
    <3> QED BY <1>a, <1>34, <3>2 DEF StochPublish, Published
  <2>2. StoreTyped'
      BY <1>a, <1>34 DEF StoreTyped, StochPublish
  <2>3. RequestsTyped'
      BY <1>a, <1>34, LeaveType DEF StochPublish
  <2> QED BY <1>a, <1>c, <1>34, <2>1, <2>2, <2>3 DEF StochPublish
<1>35. ASSUME NEW p \in Requests, StochFail(p) PROVE TypeOK'
  <2>1. state' \in StateType
      BY <1>a, <1>35 DEF StochFail
  <2>2. StoreTyped'
      BY <1>a, <1>35 DEF StoreTyped, StochFail
  <2>3. RequestsTyped'
      BY <1>a, <1>35, LeaveType DEF StochFail
  <2> QED BY <1>a, <1>c, <1>35, <2>1, <2>2, <2>3 DEF StochFail
<1>36. CASE Crash
  <2>1. RequestsTyped'
      BY <1>36, NoLocalType DEF Crash, RequestsTyped, Labels
  <2> QED BY <1>a, <1>c, <1>36, <2>1 DEF Crash, StoreTyped
<1>37. CASE UNCHANGED vars
    BY <1>37 DEF TypeOK, vars
<1> QED BY <1>1, <1>2, <1>3, <1>4, <1>5, <1>6, <1>7, <1>8, <1>9, <1>10, <1>11,
       <1>12, <1>13, <1>14, <1>15, <1>16, <1>17, <1>18, <1>19, <1>20, <1>21,
       <1>22, <1>23, <1>24, <1>25, <1>26, <1>27, <1>28, <1>29, <1>30, <1>31,
       <1>32, <1>33, <1>34, <1>35, <1>36, <1>37
       DEF Next, Start, Step, Read, Build, Stoch

LEMMA TypeInit == Init => TypeOK
<1> SUFFICES ASSUME Init PROVE TypeOK
    OBVIOUS
<1>1. NoSlices \in [Slices -> Revisions] /\ NoRows \in [Days -> Contents]
    BY DEF NoSlices, Revisions, NoRev, NoRows, Contents, Missing
<1>2. NoOutputs \in OutputType
    BY DEF NoOutputs, OutputType, EvalPrints, Contents, Missing, Revisions, NoRev
<1>3. StoreTyped
    BY <1>1, <1>2 DEF Init, StoreTyped, RequestKinds
<1>4. RequestsTyped
    BY NoLocalType DEF Init, RequestsTyped, Labels
<1>5. model \in Seq(Nat) /\ marks \in SUBSET (Nat \X Nat) /\ crashes \in Nat
    BY DEF Init
<1> QED BY <1>3, <1>4, <1>5, NoStateType, TypeParts DEF Init

\* Type correctness of the state row, the stored tables and every request, for
\* every instance.
THEOREM TypeCorrect == Spec => []TypeOK
BY TypeInit, TypeStep, PTL DEF Spec
-----------------------------------------------------------------------------
(* The build flight.                                                       *)

\* Request p moves and the flight stays as it is.
Moves(p) ==
    /\ flight' = flight
    /\ \A q \in Requests : q # p => pc'[q] = pc[q]

LEMMA MoveOutside ==
    ASSUME OneBuildPerUser, NEW p \in Requests, Moves(p),
           pc[p] \notin BuildSteps, pc'[p] \notin BuildSteps \cup {"wait"}
    PROVE  OneBuildPerUser'
BY DEF OneBuildPerUser, Moves

LEMMA MoveInside ==
    ASSUME OneBuildPerUser, NEW p \in Requests, Moves(p),
           pc[p] \in BuildSteps, pc'[p] \in BuildSteps
    PROVE  OneBuildPerUser'
BY DEF OneBuildPerUser, Moves, BuildSteps

\* The end of a build frees its owner and everyone who joined it.
LEMMA FlightEnds ==
    ASSUME OneBuildPerUser, NEW p \in Requests, NEW ok \in BOOLEAN,
           pc[p] \in BuildSteps, EndFlight(p, ok)
    PROVE  OneBuildPerUser'
<1>1. flight = p /\ flight' = NoRequest
    BY DEF OneBuildPerUser, EndFlight
<1>2. \A q \in Requests : pc[q] \in BuildSteps => q = p
    BY <1>1 DEF OneBuildPerUser
<1>3. \A q \in Requests : pc'[q] \notin BuildSteps \cup {"wait"}
    BY <1>2 DEF EndFlight, AfterBuild, BuildSteps
<1> QED BY <1>1, <1>3, ConstantsAssumption DEF OneBuildPerUser

LEMMA FlightStep == TypeOK /\ OneBuildPerUser /\ [Next]_vars => OneBuildPerUser'
<1> SUFFICES ASSUME TypeOK, OneBuildPerUser, [Next]_vars PROVE OneBuildPerUser'
    OBVIOUS
<1> USE ConstantsAssumption
<1>a. pc \in [Requests -> Labels]
    BY DEF TypeOK
<1>1. ASSUME NEW i \in WriteInstants, CommitWrite(i) PROVE OneBuildPerUser'
    BY <1>1 DEF CommitWrite, OneBuildPerUser
<1>2. ASSUME NEW m \in marks, MarkProjectionDirty(m) PROVE OneBuildPerUser'
    BY <1>2 DEF MarkProjectionDirty, OneBuildPerUser
<1>3. ASSUME NEW p \in Requests, Start(p) PROVE OneBuildPerUser'
    BY <1>a, <1>3, MoveOutside DEF Start, LoadModel, Moves, Goto, BuildSteps
<1>4. ASSUME NEW p \in Requests, Read(p) PROVE OneBuildPerUser'
  <2>1. Moves(p) /\ pc[p] \notin BuildSteps
      BY <1>a, <1>4 DEF Read, EnsureCanonicalState, ReadState, ReadSlices, ReadRows,
         ReadOutputs, Respond, Miss, Leave, Goto, Moves, BuildSteps
  <2>2. pc'[p] \notin BuildSteps \cup {"wait"}
      BY <1>a, <1>4 DEF Read, EnsureCanonicalState, ReadState, ReadSlices, ReadRows,
         ReadOutputs, Respond, Miss, Leave, Goto, BuildSteps
  <2> QED BY <2>1, <2>2, MoveOutside
<1>5. ASSUME NEW p \in Requests, ReadFail(p) PROVE OneBuildPerUser'
    BY <1>a, <1>5, MoveOutside DEF ReadFail, Leave, Goto, Moves, ReadSteps, BuildSteps
<1>6. ASSUME NEW p \in Requests, JoinFlight(p) PROVE OneBuildPerUser'
    BY <1>a, <1>6 DEF JoinFlight, Goto, OneBuildPerUser, BuildSteps
<1>7. ASSUME NEW p \in Requests, BuildState(p) PROVE OneBuildPerUser'
    BY <1>a, <1>7, MoveInside DEF BuildState, Moves, Goto, BuildSteps
<1>8. ASSUME NEW p \in Requests, BuildOutputsOnly(p) PROVE OneBuildPerUser'
    BY <1>a, <1>8, MoveInside DEF BuildOutputsOnly, Moves, Goto, BuildSteps
<1>9. ASSUME NEW p \in Requests, BuildDelete(p) PROVE OneBuildPerUser'
    BY <1>a, <1>9, MoveInside DEF BuildDelete, Moves, Goto, BuildSteps
<1>10. ASSUME NEW p \in Requests, BuildManifest(p) PROVE OneBuildPerUser'
    BY <1>a, <1>10, MoveInside DEF BuildManifest, Moves, Goto, BuildSteps
<1>11. ASSUME NEW p \in Requests, BuildRows(p) PROVE OneBuildPerUser'
    BY <1>a, <1>11, MoveInside DEF BuildRows, Moves, Goto, BuildSteps
<1>12. ASSUME NEW p \in Requests, BuildOutputs(p) PROVE OneBuildPerUser'
    BY <1>a, <1>12, MoveInside DEF BuildOutputs, Moves, Goto, BuildSteps
<1>13. ASSUME NEW p \in Requests, BuildAdopt(p) PROVE OneBuildPerUser'
    BY <1>a, <1>13, MoveInside DEF BuildAdopt, Moves, Goto, BuildSteps
<1>14. ASSUME NEW p \in Requests, BuildSlices(p) PROVE OneBuildPerUser'
  <2>1. CASE EndFlight(p, TRUE)
      BY <1>14, <2>1, FlightEnds DEF BuildSlices, BuildSteps
  <2>2. CASE ~EndFlight(p, TRUE)
      BY <1>a, <1>14, <2>2, MoveInside DEF BuildSlices, Moves, Goto, BuildSteps
  <2> QED BY <2>1, <2>2
<1>15. ASSUME NEW p \in Requests, BuildRecheck(p) PROVE OneBuildPerUser'
  <2>1. CASE EndFlight(p, FALSE)
      BY <1>15, <2>1, FlightEnds DEF BuildRecheck, BuildSteps
  <2>2. CASE ~EndFlight(p, FALSE)
      BY <1>a, <1>15, <2>2, MoveInside DEF BuildRecheck, Moves, Goto, BuildSteps
  <2> QED BY <2>1, <2>2
<1>16. ASSUME NEW p \in Requests, BuildFingerprint(p) PROVE OneBuildPerUser'
  <2>1. CASE EndFlight(p, FALSE)
      BY <1>16, <2>1, FlightEnds DEF BuildFingerprint, BuildSteps
  <2>2. CASE ~EndFlight(p, FALSE)
      BY <1>a, <1>16, <2>2, MoveInside DEF BuildFingerprint, Moves, Goto, BuildSteps
  <2> QED BY <2>1, <2>2
<1>17. ASSUME NEW p \in Requests, BuildFingerprintOnly(p) PROVE OneBuildPerUser'
  <2>1. (state.revision = loc[p].snap.revision) \in BOOLEAN
      OBVIOUS
  <2> QED BY <1>17, <2>1, FlightEnds DEF BuildFingerprintOnly, BuildSteps
<1>18. ASSUME NEW p \in Requests, BuildPublish(p) PROVE OneBuildPerUser'
    BY <1>18, FlightEnds DEF BuildPublish, BuildSteps
<1>19. ASSUME NEW p \in Requests, BuildFail(p) PROVE OneBuildPerUser'
    BY <1>19, FlightEnds DEF BuildFail
<1>20. ASSUME NEW p \in Requests, Stoch(p) PROVE OneBuildPerUser'
  <2>1. Moves(p) /\ pc[p] \notin BuildSteps
      BY <1>a, <1>20 DEF Stoch, StochState, StochReload, StochSeed, StochSlices,
         StochDelete, StochStats, StochOutputs, StochRecheck, StochSave,
         StochPublish, Leave, Goto, Moves, BuildSteps
  <2>2. pc'[p] \notin BuildSteps \cup {"wait"}
      BY <1>a, <1>20 DEF Stoch, StochState, StochReload, StochSeed, StochSlices,
         StochDelete, StochStats, StochOutputs, StochRecheck, StochSave,
         StochPublish, Leave, Goto, BuildSteps
  <2> QED BY <2>1, <2>2, MoveOutside
<1>21. ASSUME NEW p \in Requests, StochFail(p) PROVE OneBuildPerUser'
    BY <1>a, <1>21, MoveOutside DEF StochFail, Leave, Goto, Moves, StochSteps, BuildSteps
<1>22. CASE Crash
    BY <1>22 DEF Crash, OneBuildPerUser, BuildSteps
<1>23. CASE UNCHANGED vars
    BY <1>23 DEF vars, OneBuildPerUser
<1> QED BY <1>1, <1>2, <1>3, <1>4, <1>5, <1>6, <1>7, <1>8, <1>9, <1>10, <1>11,
       <1>12, <1>13, <1>14, <1>15, <1>16, <1>17, <1>18, <1>19, <1>20, <1>21,
       <1>22, <1>23
       DEF Next, Step, Build

\* One build per user for every number of concurrent requests: the flight is
\* owned by the request that builds, and nobody waits for a flight that is over.
THEOREM FlightExclusive == Spec => []OneBuildPerUser
<1>1. Init => OneBuildPerUser
    BY ConstantsAssumption DEF Init, OneBuildPerUser, BuildSteps
<1> QED BY <1>1, FlightStep, TypeCorrect, PTL DEF Spec
-----------------------------------------------------------------------------
(* A clean row is a published one.  The stochastic builder writes back rows *)
(* it read earlier, so the invariant speaks of every request's copy too.    *)

Sound(st) ==
    /\ st.published <= st.revision
    /\ st.frozen /\ st.dirty = 0 => st.published = st.revision

SnapshotsSound == \A q \in Requests : Sound(loc[q].snap)

RowsSound == Sound(state) /\ SnapshotsSound

LEMMA CanonicalSound ==
    ASSUME state \in StateType, Sound(state)
    PROVE  Sound(Canonical)
<1>1. CASE ~state.frozen
  <2>1. /\ Canonical.published = state.published
        /\ Canonical.revision = state.revision + 1
        /\ Canonical.dirty = EarlierOf(state.dirty, FromAt(1))
      BY <1>1 DEF Canonical, StateType
  <2>2. EarlierOf(state.dirty, FromAt(1)) # 0
      BY DEF EarlierOf, FromAt, Midnight, StateType
  <2>3. state.published <= state.revision + 1
      BY DEF Sound, StateType
  <2> QED BY <2>1, <2>2, <2>3 DEF Sound
<1> QED BY <1>1 DEF Canonical

\* Publishing makes the row clean and published at once, or does nothing.
LEMMA PublishedSound ==
    ASSUME state \in StateType, Sound(state), NEW revision \in Nat
    PROVE  Sound(Published(revision))
BY DEF Sound, Published, StateType

LEMMA NoStateSound == Sound(NoState) /\ Sound(NoLocal.snap)
BY DEF Sound, NoState, NoLocal

LEMMA LeaveSound ==
    ASSUME loc \in [Requests -> LocalType], SnapshotsSound, NEW p \in Requests, Leave(p)
    PROVE  SnapshotsSound'
BY NoStateSound DEF SnapshotsSound, Leave

LEMMA MissSound ==
    ASSUME loc \in [Requests -> LocalType], SnapshotsSound, NEW p \in Requests, Miss(p)
    PROVE  SnapshotsSound'
<1>1. CASE loc[p].built
    BY <1>1, LeaveSound DEF Miss
<1>2. CASE ~loc[p].built
  <2>1. loc' = [loc EXCEPT ![p] = [loc[p] EXCEPT !.got = NoRows, !.snap = NoState]]
      BY <1>2 DEF Miss
  <2>2. loc'[p].snap = NoState
      BY <2>1 DEF LocalType
  <2> QED BY <2>1, <2>2, NoStateSound DEF SnapshotsSound
<1> QED BY <1>1, <1>2

LEMMA EndFlightSound ==
    ASSUME loc \in [Requests -> LocalType], SnapshotsSound, NEW p \in Requests,
           NEW ok \in BOOLEAN, EndFlight(p, ok)
    PROVE  SnapshotsSound'
<1>1. \A q \in Requests : loc'[q].snap \in {loc[q].snap, NoLocal.snap, NoState}
    BY DEF EndFlight, LocalType
<1> QED BY <1>1, NoStateSound DEF SnapshotsSound

\* A request that keeps its copy, or replaces it by a sound one.
LEMMA SnapSound ==
    ASSUME SnapshotsSound, NEW p \in Requests, Sound(loc'[p].snap),
           \A q \in Requests : q # p => loc'[q] = loc[q]
    PROVE  SnapshotsSound'
BY DEF SnapshotsSound

LEMMA SoundStep == TypeOK /\ RowsSound /\ [Next]_vars => RowsSound'
<1> SUFFICES ASSUME TypeOK, RowsSound, [Next]_vars PROVE RowsSound'
    OBVIOUS
<1> USE ConstantsAssumption
<1>a. state \in StateType /\ loc \in [Requests -> LocalType]
    BY DEF TypeOK
<1>b. Sound(state) /\ SnapshotsSound /\ Sound(Canonical)
    BY <1>a, CanonicalSound DEF RowsSound
<1>c. ASSUME Sound(state)', SnapshotsSound' PROVE RowsSound'
    BY <1>c DEF RowsSound
<1>1. ASSUME NEW i \in WriteInstants, CommitWrite(i) PROVE RowsSound'
  <2>1. Sound(state)'
      BY <1>b, <1>1 DEF CommitWrite, Sound
  <2>2. SnapshotsSound'
      BY <1>b, <1>1 DEF CommitWrite, SnapshotsSound
  <2> QED BY <1>c, <2>1, <2>2
<1>2. ASSUME NEW m \in marks, MarkProjectionDirty(m) PROVE RowsSound'
  <2>1. Sound(state)'
    <3> DEFINE instant == IF m[2] > 0 THEN m[2] ELSE IF state.frozen THEN FromAt(1) ELSE 0
    <3>1. instant \in Nat /\ (state.frozen => instant # 0)
        BY DEF TypeOK, FromAt, Midnight
    <3>2. /\ state'.revision = state.revision + 1
          /\ state'.published = state.published
          /\ state'.frozen = state.frozen
          /\ instant # 0 => state'.dirty = EarlierOf(state.dirty, instant)
        BY <1>a, <1>2 DEF MarkProjectionDirty, StateType
    <3>3. instant # 0 => EarlierOf(state.dirty, instant) # 0
        BY <1>a, <3>1 DEF EarlierOf, StateType
    <3>4. state.published <= state.revision + 1
        BY <1>a, <1>b DEF Sound, StateType
    <3> QED BY <3>1, <3>2, <3>3, <3>4 DEF Sound
  <2>2. SnapshotsSound'
      BY <1>b, <1>2 DEF MarkProjectionDirty, SnapshotsSound
  <2> QED BY <1>c, <2>1, <2>2
<1>3. ASSUME NEW p \in Requests, Start(p) PROVE RowsSound'
  <2>1. Sound(state)'
      BY <1>b, <1>3 DEF Start, LoadModel, Sound
  <2>2. SnapshotsSound'
    <3>1. Sound(loc'[p].snap) /\ \A q \in Requests : q # p => loc'[q] = loc[q]
        BY <1>a, <1>3, NoStateSound DEF Start, LoadModel, NoLocal
    <3> QED BY <1>b, <3>1, SnapSound
  <2> QED BY <1>c, <2>1, <2>2
<1>4. ASSUME NEW p \in Requests, EnsureCanonicalState(p) PROVE RowsSound'
  <2>1. Sound(state)'
      BY <1>b, <1>4 DEF EnsureCanonicalState
  <2>2. SnapshotsSound'
    <3>1. CASE Leave(p)
        BY <1>a, <1>b, <3>1, LeaveSound
    <3>2. CASE UNCHANGED loc
        BY <1>b, <3>2 DEF SnapshotsSound
    <3> QED BY <1>4, <3>1, <3>2 DEF EnsureCanonicalState
  <2> QED BY <1>c, <2>1, <2>2
<1>5. ASSUME NEW p \in Requests, ReadState(p) PROVE RowsSound'
  <2>1. Sound(state)'
      BY <1>b, <1>5 DEF ReadState
  <2>2. SnapshotsSound'
    <3>1. CASE Leave(p)
        BY <1>a, <1>b, <3>1, LeaveSound
    <3>2. CASE Miss(p)
        BY <1>a, <1>b, <3>2, MissSound
    <3>3. CASE loc' = [loc EXCEPT ![p].snap = Canonical]
      <4>1. loc'[p].snap = Canonical /\ \A q \in Requests : q # p => loc'[q] = loc[q]
          BY <1>a, <3>3 DEF LocalType
      <4> QED BY <1>b, <4>1, SnapSound
    <3> QED BY <1>5, <3>1, <3>2, <3>3 DEF ReadState
  <2> QED BY <1>c, <2>1, <2>2
<1>6. ASSUME NEW p \in Requests, ReadSlices(p) PROVE RowsSound'
  <2>1. Sound(state)'
      BY <1>b, <1>6 DEF ReadSlices, Sound
  <2>2. SnapshotsSound'
    <3>1. CASE Miss(p)
        BY <1>a, <1>b, <3>1, MissSound
    <3>2. CASE UNCHANGED loc
        BY <1>b, <3>2 DEF SnapshotsSound
    <3> QED BY <1>6, <3>1, <3>2 DEF ReadSlices
  <2> QED BY <1>c, <2>1, <2>2
<1>7. ASSUME NEW p \in Requests, ReadRows(p) PROVE RowsSound'
  <2>1. Sound(state)'
      BY <1>b, <1>7 DEF ReadRows, Sound
  <2>2. SnapshotsSound'
    <3>1. CASE Miss(p)
        BY <1>a, <1>b, <3>1, MissSound
    <3>2. CASE loc' = [loc EXCEPT ![p].got = IF loc[p].kind = "det" THEN rows ELSE stats]
      <4>1. /\ loc'[p].snap = loc[p].snap
            /\ \A q \in Requests : q # p => loc'[q] = loc[q]
          BY <1>a, <3>2 DEF LocalType
      <4> QED BY <1>b, <4>1 DEF SnapshotsSound
    <3> QED BY <1>7, <3>1, <3>2 DEF ReadRows
  <2> QED BY <1>c, <2>1, <2>2
<1>8. ASSUME NEW p \in Requests, ReadOutputs(p) PROVE RowsSound'
  <2>1. Sound(state)'
      BY <1>b, <1>8 DEF ReadOutputs, Sound
  <2>2. SnapshotsSound'
    <3>1. CASE Miss(p)
        BY <1>a, <1>b, <3>1, MissSound
    <3>2. CASE ~Miss(p)
      <4>1. /\ loc'[p].snap = loc[p].snap
            /\ \A q \in Requests : q # p => loc'[q] = loc[q]
          BY <1>a, <1>8, <3>2 DEF ReadOutputs, LocalType
      <4> QED BY <1>b, <4>1 DEF SnapshotsSound
    <3> QED BY <3>1, <3>2
  <2> QED BY <1>c, <2>1, <2>2
<1>9. ASSUME NEW p \in Requests, Respond(p) PROVE RowsSound'
  <2>1. Sound(state)'
      BY <1>b, <1>9 DEF Respond, Sound
  <2>2. SnapshotsSound'
      BY <1>a, <1>b, <1>9, LeaveSound DEF Respond
  <2> QED BY <1>c, <2>1, <2>2
<1>10. ASSUME NEW p \in Requests, ReadFail(p) PROVE RowsSound'
  <2>1. Sound(state)'
      BY <1>b, <1>10 DEF ReadFail, Sound
  <2>2. SnapshotsSound'
      BY <1>a, <1>b, <1>10, LeaveSound DEF ReadFail
  <2> QED BY <1>c, <2>1, <2>2
<1>11. ASSUME NEW p \in Requests, JoinFlight(p) PROVE RowsSound'
  <2>1. Sound(state)'
      BY <1>b, <1>11 DEF JoinFlight, Sound
  <2>2. SnapshotsSound'
      BY <1>b, <1>11 DEF JoinFlight, SnapshotsSound
  <2> QED BY <1>c, <2>1, <2>2
<1>12. ASSUME NEW p \in Requests, BuildState(p) PROVE RowsSound'
  <2>1. Sound(state)'
      BY <1>b, <1>12 DEF BuildState
  <2>2. SnapshotsSound'
    <3>1. loc'[p].snap = Canonical /\ \A q \in Requests : q # p => loc'[q] = loc[q]
        BY <1>a, <1>12 DEF BuildState, LocalType
    <3> QED BY <1>b, <3>1, SnapSound
  <2> QED BY <1>c, <2>1, <2>2
<1>13. ASSUME NEW p \in Requests, BuildSlices(p) PROVE RowsSound'
  <2>1. Sound(state)'
      BY <1>b, <1>13 DEF BuildSlices, Sound
  <2>2. SnapshotsSound'
    <3>1. CASE EndFlight(p, TRUE)
        BY <1>a, <1>b, <3>1, EndFlightSound
    <3>2. CASE loc' = [loc EXCEPT ![p].seen = slices]
      <4>1. /\ loc'[p].snap = loc[p].snap
            /\ \A q \in Requests : q # p => loc'[q] = loc[q]
          BY <1>a, <3>2 DEF LocalType
      <4> QED BY <1>b, <4>1 DEF SnapshotsSound
    <3> QED BY <1>13, <3>1, <3>2 DEF BuildSlices
  <2> QED BY <1>c, <2>1, <2>2
<1>14. ASSUME NEW p \in Requests, BuildOutputsOnly(p) PROVE RowsSound'
  <2>1. Sound(state)'
      BY <1>b, <1>14 DEF BuildOutputsOnly, Sound
  <2>2. SnapshotsSound'
      BY <1>b, <1>14 DEF BuildOutputsOnly, SnapshotsSound
  <2> QED BY <1>c, <2>1, <2>2
<1>15. ASSUME NEW p \in Requests, BuildFingerprintOnly(p) PROVE RowsSound'
  <2>1. Sound(state)'
    <3>1. /\ state'.published = state.published /\ state'.revision = state.revision
          /\ state'.dirty = state.dirty /\ state'.frozen = state.frozen
        BY <1>a, <1>15 DEF BuildFingerprintOnly, PersistFingerprint, StateType
    <3> QED BY <1>b, <3>1 DEF Sound
  <2>2. SnapshotsSound'
    <3>1. (state.revision = loc[p].snap.revision) \in BOOLEAN
        OBVIOUS
    <3> QED BY <1>a, <1>b, <1>15, <3>1, EndFlightSound DEF BuildFingerprintOnly
  <2> QED BY <1>c, <2>1, <2>2
<1>16. ASSUME NEW p \in Requests, BuildRecheck(p) PROVE RowsSound'
  <2>1. Sound(state)'
      BY <1>b, <1>16 DEF BuildRecheck, Sound
  <2>2. SnapshotsSound'
    <3>1. CASE EndFlight(p, FALSE)
        BY <1>a, <1>b, <3>1, EndFlightSound
    <3>2. CASE UNCHANGED loc
        BY <1>b, <3>2 DEF SnapshotsSound
    <3> QED BY <1>16, <3>1, <3>2 DEF BuildRecheck
  <2> QED BY <1>c, <2>1, <2>2
<1>17. ASSUME NEW p \in Requests, BuildDelete(p) PROVE RowsSound'
  <2>1. Sound(state)'
      BY <1>b, <1>17 DEF BuildDelete, Sound
  <2>2. SnapshotsSound'
    <3>1. loc'[p].snap = loc[p].snap /\ \A q \in Requests : q # p => loc'[q] = loc[q]
        BY <1>a, <1>17 DEF BuildDelete, LocalType
    <3> QED BY <1>b, <3>1 DEF SnapshotsSound
  <2> QED BY <1>c, <2>1, <2>2
<1>18. ASSUME NEW p \in Requests, BuildManifest(p) PROVE RowsSound'
  <2>1. Sound(state)'
      BY <1>b, <1>18 DEF BuildManifest, Sound
  <2>2. SnapshotsSound'
    <3>1. loc'[p].snap = loc[p].snap /\ \A q \in Requests : q # p => loc'[q] = loc[q]
        BY <1>a, <1>18 DEF BuildManifest, LocalType
    <3> QED BY <1>b, <3>1 DEF SnapshotsSound
  <2> QED BY <1>c, <2>1, <2>2
<1>19. ASSUME NEW p \in Requests, BuildRows(p) PROVE RowsSound'
  <2>1. Sound(state)'
      BY <1>b, <1>19 DEF BuildRows, Sound
  <2>2. SnapshotsSound'
      BY <1>b, <1>19 DEF BuildRows, SnapshotsSound
  <2> QED BY <1>c, <2>1, <2>2
<1>20. ASSUME NEW p \in Requests, BuildOutputs(p) PROVE RowsSound'
  <2>1. Sound(state)'
      BY <1>b, <1>20 DEF BuildOutputs, Sound
  <2>2. SnapshotsSound'
    <3>1. loc'[p].snap = loc[p].snap /\ \A q \in Requests : q # p => loc'[q] = loc[q]
        BY <1>a, <1>20 DEF BuildOutputs, LocalType
    <3> QED BY <1>b, <3>1 DEF SnapshotsSound
  <2> QED BY <1>c, <2>1, <2>2
<1>21. ASSUME NEW p \in Requests, BuildAdopt(p) PROVE RowsSound'
  <2>1. Sound(state)'
      BY <1>b, <1>21 DEF BuildAdopt, Sound
  <2>2. SnapshotsSound'
    <3>1. loc'[p].snap = loc[p].snap /\ \A q \in Requests : q # p => loc'[q] = loc[q]
        BY <1>a, <1>21 DEF BuildAdopt, LocalType
    <3> QED BY <1>b, <3>1 DEF SnapshotsSound
  <2> QED BY <1>c, <2>1, <2>2
<1>22. ASSUME NEW p \in Requests, BuildFingerprint(p) PROVE RowsSound'
  <2>1. Sound(state)'
    <3>1. /\ state'.published = state.published /\ state'.revision = state.revision
          /\ state'.dirty = state.dirty /\ state'.frozen = state.frozen
        BY <1>a, <1>22 DEF BuildFingerprint, PersistFingerprint, StateType
    <3> QED BY <1>b, <3>1 DEF Sound
  <2>2. SnapshotsSound'
    <3>1. CASE EndFlight(p, FALSE)
        BY <1>a, <1>b, <3>1, EndFlightSound
    <3>2. CASE UNCHANGED loc
        BY <1>b, <3>2 DEF SnapshotsSound
    <3> QED BY <1>22, <3>1, <3>2 DEF BuildFingerprint
  <2> QED BY <1>c, <2>1, <2>2
<1>23. ASSUME NEW p \in Requests, BuildPublish(p) PROVE RowsSound'
  <2>1. Sound(state)'
    <3>1. loc[p].snap.revision \in Nat
        BY <1>a DEF LocalType, StateType
    <3> QED BY <1>a, <1>b, <1>23, <3>1, PublishedSound DEF BuildPublish
  <2>2. SnapshotsSound'
      BY <1>a, <1>b, <1>23, EndFlightSound DEF BuildPublish
  <2> QED BY <1>c, <2>1, <2>2
<1>24. ASSUME NEW p \in Requests, BuildFail(p) PROVE RowsSound'
  <2>1. Sound(state)'
      BY <1>b, <1>24 DEF BuildFail, Sound
  <2>2. SnapshotsSound'
      BY <1>a, <1>b, <1>24, EndFlightSound DEF BuildFail
  <2> QED BY <1>c, <2>1, <2>2
<1>25. ASSUME NEW p \in Requests, StochState(p) PROVE RowsSound'
  <2>1. Sound(state)'
      BY <1>b, <1>25 DEF StochState
  <2>2. SnapshotsSound'
    <3>1. CASE Leave(p)
        BY <1>a, <1>b, <3>1, LeaveSound
    <3>2. CASE loc' = [loc EXCEPT ![p].snap = Canonical]
      <4>1. loc'[p].snap = Canonical /\ \A q \in Requests : q # p => loc'[q] = loc[q]
          BY <1>a, <3>2 DEF LocalType
      <4> QED BY <1>b, <4>1, SnapSound
    <3> QED BY <1>25, <3>1, <3>2 DEF StochState
  <2> QED BY <1>c, <2>1, <2>2
<1>26. ASSUME NEW p \in Requests, StochReload(p) PROVE RowsSound'
  <2>1. Sound(state)'
      BY <1>b, <1>26 DEF StochReload, Sound
  <2>2. SnapshotsSound'
    <3>1. loc'[p].snap = state /\ \A q \in Requests : q # p => loc'[q] = loc[q]
        BY <1>a, <1>26 DEF StochReload, LocalType
    <3> QED BY <1>b, <3>1, SnapSound
  <2> QED BY <1>c, <2>1, <2>2
<1>27. ASSUME NEW p \in Requests, StochSeed(p) PROVE RowsSound'
  <2> DEFINE saved == [loc[p].snap EXCEPT !.seed = loc[p].seed]
  <2>1. Sound(saved)
    <3>1. /\ saved.published = loc[p].snap.published
          /\ saved.revision = loc[p].snap.revision
          /\ saved.dirty = loc[p].snap.dirty /\ saved.frozen = loc[p].snap.frozen
        BY <1>a DEF LocalType, StateType
    <3> QED BY <1>b, <3>1 DEF SnapshotsSound, Sound
  <2>2. Sound(state)'
      BY <1>b, <1>27, <2>1 DEF StochSeed, Sound
  <2>3. SnapshotsSound'
    <3>1. CASE Leave(p)
        BY <1>a, <1>b, <3>1, LeaveSound
    <3>2. CASE ~Leave(p)
      <4>1. loc'[p].snap = saved /\ \A q \in Requests : q # p => loc'[q] = loc[q]
        <5>1. loc' = [loc EXCEPT ![p] = [loc[p] EXCEPT !.snap = saved]]
            BY <1>a, <1>27, <3>2 DEF StochSeed
        <5> QED BY <1>a, <5>1 DEF LocalType
      <4> QED BY <1>b, <2>1, <4>1, SnapSound
    <3> QED BY <3>1, <3>2
  <2> QED BY <1>c, <2>2, <2>3
<1>28. ASSUME NEW p \in Requests, StochSlices(p) PROVE RowsSound'
  <2>1. Sound(state)'
      BY <1>b, <1>28 DEF StochSlices, Sound
  <2>2. SnapshotsSound'
      BY <1>b, <1>28 DEF StochSlices, SnapshotsSound
  <2> QED BY <1>c, <2>1, <2>2
<1>29. ASSUME NEW p \in Requests, StochDelete(p) PROVE RowsSound'
  <2>1. Sound(state)'
      BY <1>b, <1>29 DEF StochDelete, Sound
  <2>2. SnapshotsSound'
      BY <1>b, <1>29 DEF StochDelete, SnapshotsSound
  <2> QED BY <1>c, <2>1, <2>2
<1>30. ASSUME NEW p \in Requests, StochStats(p) PROVE RowsSound'
  <2>1. Sound(state)'
      BY <1>b, <1>30 DEF StochStats, Sound
  <2>2. SnapshotsSound'
      BY <1>b, <1>30 DEF StochStats, SnapshotsSound
  <2> QED BY <1>c, <2>1, <2>2
<1>31. ASSUME NEW p \in Requests, StochOutputs(p) PROVE RowsSound'
  <2>1. Sound(state)'
      BY <1>b, <1>31 DEF StochOutputs, Sound
  <2>2. SnapshotsSound'
      BY <1>b, <1>31 DEF StochOutputs, SnapshotsSound
  <2> QED BY <1>c, <2>1, <2>2
<1>32. ASSUME NEW p \in Requests, StochRecheck(p) PROVE RowsSound'
  <2>1. Sound(state)'
      BY <1>b, <1>32 DEF StochRecheck, Sound
  <2>2. SnapshotsSound'
    <3>1. CASE Leave(p)
        BY <1>a, <1>b, <3>1, LeaveSound
    <3>2. CASE UNCHANGED loc
        BY <1>b, <3>2 DEF SnapshotsSound
    <3> QED BY <1>32, <3>1, <3>2 DEF StochRecheck
  <2> QED BY <1>c, <2>1, <2>2
<1>33. ASSUME NEW p \in Requests, StochSave(p) PROVE RowsSound'
  <2>1. Sound(state)'
    <3>1. /\ state'.published = loc[p].snap.published
          /\ state'.revision = loc[p].snap.revision
          /\ state'.dirty = loc[p].snap.dirty /\ state'.frozen = loc[p].snap.frozen
        BY <1>a, <1>33 DEF StochSave, LocalType, StateType
    <3> QED BY <1>b, <3>1 DEF SnapshotsSound, Sound
  <2>2. SnapshotsSound'
      BY <1>b, <1>33 DEF StochSave, SnapshotsSound
  <2> QED BY <1>c, <2>1, <2>2
<1>34. ASSUME NEW p \in Requests, StochPublish(p) PROVE RowsSound'
  <2>1. Sound(state)'
    <3>1. loc[p].snap.revision \in Nat
        BY <1>a DEF LocalType, StateType
    <3> QED BY <1>a, <1>b, <1>34, <3>1, PublishedSound DEF StochPublish
  <2>2. SnapshotsSound'
      BY <1>a, <1>b, <1>34, LeaveSound DEF StochPublish
  <2> QED BY <1>c, <2>1, <2>2
<1>35. ASSUME NEW p \in Requests, StochFail(p) PROVE RowsSound'
  <2>1. Sound(state)'
      BY <1>b, <1>35 DEF StochFail, Sound
  <2>2. SnapshotsSound'
      BY <1>a, <1>b, <1>35, LeaveSound DEF StochFail
  <2> QED BY <1>c, <2>1, <2>2
<1>36. CASE Crash
  <2>1. Sound(state)'
      BY <1>b, <1>36 DEF Crash, Sound
  <2>2. SnapshotsSound'
      BY <1>36, NoStateSound DEF Crash, SnapshotsSound
  <2> QED BY <1>c, <2>1, <2>2
<1>37. CASE UNCHANGED vars
  <2>1. Sound(state)'
      BY <1>b, <1>37 DEF vars, Sound
  <2>2. SnapshotsSound'
      BY <1>b, <1>37 DEF vars, SnapshotsSound
  <2> QED BY <1>c, <2>1, <2>2
<1> QED BY <1>1, <1>2, <1>3, <1>4, <1>5, <1>6, <1>7, <1>8, <1>9, <1>10, <1>11,
       <1>12, <1>13, <1>14, <1>15, <1>16, <1>17, <1>18, <1>19, <1>20, <1>21,
       <1>22, <1>23, <1>24, <1>25, <1>26, <1>27, <1>28, <1>29, <1>30, <1>31,
       <1>32, <1>33, <1>34, <1>35, <1>36, <1>37
       DEF Next, Step, Read, Build, Stoch

\* Whatever interleaves, a frozen row without a dirty date is published at its
\* own revision: no write-back of an old row, crash or lost mark makes a state
\* clean that no build published.
THEOREM CleanAlwaysPublished == Spec => []CleanIsPublished
<1>1. Init => RowsSound
    BY NoStateSound DEF Init, RowsSound, SnapshotsSound
<1>2. RowsSound => CleanIsPublished
    BY DEF RowsSound, Sound, CleanIsPublished
<1> QED BY <1>1, <1>2, SoundStep, TypeCorrect, PTL DEF Spec
-----------------------------------------------------------------------------
(* The manifest.  The freeze dirties the whole window, so a row whose dirty *)
(* date is gone, or lies past the start, was published by a build that had *)
(* stored every slice; and no build removes a slice.                       *)

\* The steps that come after the last slice of a manifest is stored.
CoveredSteps == {"bOutputsOnly", "bFingerprintOnly", "bRows", "bOutputs", "bAdopt",
                 "bFingerprint", "bPublish"} \cup (StochSteps \ {"sState"})

PastStart(st) == st.frozen /\ (st.dirty = 0 \/ st.dirty > FromAt(1))

FirstListed(sl) == Listed(sl) # {} => 1 \in Listed(sl)

ManifestOf(q) ==
    /\ PastStart(loc[q].snap) => slicesCover(slices)
    /\ FirstListed(loc[q].seen)
    /\ Listed(loc[q].seen) \subseteq Listed(slices)
    /\ pc[q] \in BuildSteps \ {"bState"} => loc[q].snap.frozen
    /\ pc[q] = "bManifest" => Slices \ loc[q].todo \subseteq Listed(slices)
    /\ pc[q] \in CoveredSteps => slicesCover(slices)

ManifestGrows ==
    /\ PastStart(state) => slicesCover(slices)
    /\ FirstListed(slices)
    /\ \A q \in Requests : ManifestOf(q)

LEMMA MinInSet ==
    ASSUME NEW S \in SUBSET Nat, S # {}
    PROVE  Min(S) \in S /\ \A y \in S : Min(S) <= y
<1>1. \E x \in S : \A y \in S : x <= y
    BY LeastElement
<1> QED BY <1>1 DEF Min

LEMMA CanonicalPastStart ==
    ASSUME state \in StateType, PastStart(Canonical)
    PROVE  Canonical = state /\ PastStart(state)
<1>1. CASE ~state.frozen
  <2>1. Canonical.dirty = EarlierOf(state.dirty, FromAt(1))
      BY <1>1 DEF Canonical, StateType
  <2>2. Canonical.dirty \in 1..FromAt(1)
      BY <2>1 DEF EarlierOf, FromAt, Midnight, StateType
  <2> QED BY <2>2 DEF PastStart, FromAt, Midnight
<1> QED BY <1>1 DEF Canonical

\* A saved slice joins the manifest and removes none.
LEMMA SaveSlice ==
    ASSUME slices \in [Slices -> Revisions], NEW k, NEW r \in Nat,
           slices' = [slices EXCEPT ![k] = r]
    PROVE  /\ Listed(slices) \subseteq Listed(slices')
           /\ Listed(slices') \subseteq Listed(slices) \cup {k}
           /\ k \in Slices => k \in Listed(slices')
BY DEF Listed, NoRev, Revisions

LEMMA CoverGrows ==
    ASSUME Listed(slices) \subseteq Listed(slices'), slicesCover(slices)
    PROVE  slicesCover(slices')
BY DEF slicesCover, Listed

\* A request moves while no slice goes away.
LEMMA ManifestMove ==
    ASSUME ManifestGrows, NEW p \in Requests,
           Listed(slices) \subseteq Listed(slices'), FirstListed(slices'),
           (PastStart(state) => slicesCover(slices))',
           \A q \in Requests : q # p => pc'[q] = pc[q] /\ loc'[q] = loc[q],
           ManifestOf(p)'
    PROVE  ManifestGrows'
<1>1. ASSUME NEW q \in Requests, q # p PROVE ManifestOf(q)'
  <2>1. ManifestOf(q) /\ pc'[q] = pc[q] /\ loc'[q] = loc[q]
      BY <1>1 DEF ManifestGrows
  <2>2. slicesCover(slices) => slicesCover(slices')
      BY CoverGrows
  <2> QED BY <2>1, <2>2 DEF ManifestOf
<1> QED BY <1>1 DEF ManifestGrows

\* The same when the move leaves the manifest alone.
LEMMA ManifestStill ==
    ASSUME ManifestGrows, NEW p \in Requests, slices' = slices,
           PastStart(state') => slicesCover(slices),
           \A q \in Requests : q # p => pc'[q] = pc[q] /\ loc'[q] = loc[q],
           ManifestOf(p)'
    PROVE  ManifestGrows'
<1>1. (PastStart(state) => slicesCover(slices))'
    OBVIOUS
<1>2. FirstListed(slices')
    BY DEF ManifestGrows
<1> QED BY <1>1, <1>2, ManifestMove

LEMMA FreshManifest ==
    /\ ~PastStart(NoState) /\ ~PastStart(NoLocal.snap)
    /\ Listed(NoSlices) = {} /\ Listed(NoLocal.seen) = {}
BY DEF PastStart, NoState, NoLocal, Listed, NoSlices

LEMMA ManifestLeave ==
    ASSUME TypeOK, ManifestGrows, NEW p \in Requests, Leave(p), slices' = slices,
           PastStart(state') => slicesCover(slices)
    PROVE  ManifestGrows'
<1>1. pc'[p] = "idle" /\ loc'[p] = NoLocal
    BY DEF TypeOK, Leave, Goto
<1>2. \A q \in Requests : q # p => pc'[q] = pc[q] /\ loc'[q] = loc[q]
    BY DEF TypeOK, Leave, Goto
<1>3. ManifestOf(p)'
    BY <1>1, FreshManifest DEF ManifestOf, FirstListed, BuildSteps, CoveredSteps, StochSteps
<1> QED BY <1>2, <1>3, ManifestStill

LEMMA ManifestMiss ==
    ASSUME TypeOK, ManifestGrows, NEW p \in Requests, Miss(p), slices' = slices,
           PastStart(state') => slicesCover(slices)
    PROVE  ManifestGrows'
<1>1. CASE loc[p].built
    BY <1>1, ManifestLeave DEF Miss
<1>2. CASE ~loc[p].built
  <2>1. loc' = [loc EXCEPT ![p] = [loc[p] EXCEPT !.got = NoRows, !.snap = NoState]]
      BY <1>2 DEF Miss
  <2>2. loc'[p].snap = NoState /\ loc'[p].seen = loc[p].seen
      BY <2>1 DEF TypeOK, LocalType
  <2>3. pc'[p] \in {"build", "sState"}
      BY <1>2 DEF TypeOK, Miss, Goto
  <2>4. \A q \in Requests : q # p => pc'[q] = pc[q] /\ loc'[q] = loc[q]
      BY <1>2, <2>1 DEF TypeOK, Miss, Goto
  <2>5. ManifestOf(p)'
      BY <2>2, <2>3, FreshManifest
      DEF ManifestGrows, ManifestOf, FirstListed, BuildSteps, CoveredSteps, StochSteps
  <2> QED BY <2>4, <2>5, ManifestStill
<1> QED BY <1>1, <1>2

LEMMA ManifestEnd ==
    ASSUME TypeOK, ManifestGrows, NEW p \in Requests, NEW ok \in BOOLEAN,
           EndFlight(p, ok), slices' = slices, ok => slicesCover(slices),
           PastStart(state') => slicesCover(slices)
    PROVE  ManifestGrows'
<1>1. ASSUME NEW q \in Requests PROVE ManifestOf(q)'
  <2> DEFINE caller == q = p \/ pc[q] = "wait"
  <2>1. CASE ~caller
    <3>1. pc'[q] = pc[q] /\ loc'[q] = loc[q]
        BY <2>1 DEF EndFlight
    <3> QED BY <3>1 DEF ManifestGrows, ManifestOf
  <2>2. CASE caller /\ ~ok
    <3>1. pc'[q] = "idle" /\ loc'[q] = NoLocal
        BY <2>2 DEF EndFlight, AfterBuild
    <3> QED BY <3>1, FreshManifest
        DEF ManifestOf, FirstListed, BuildSteps, CoveredSteps, StochSteps
  <2>3. CASE caller /\ ok
    <3>1. pc'[q] \in {"read", "sReload"}
        BY <2>3 DEF EndFlight, AfterBuild
    <3>2. loc'[q] = [loc[q] EXCEPT !.built = TRUE, !.snap = NoState,
                                   !.seen = NoSlices, !.todo = {}]
        BY <2>3 DEF EndFlight
    <3>3. loc'[q].snap = NoState /\ loc'[q].seen = NoSlices
        BY <3>2 DEF TypeOK, LocalType
    <3> QED BY <2>3, <3>1, <3>3, FreshManifest
        DEF ManifestOf, FirstListed, BuildSteps
  <2> QED BY <2>1, <2>2, <2>3
<1> QED BY <1>1 DEF ManifestGrows

LEMMA ManifestStep == TypeOK /\ ManifestGrows /\ [Next]_vars => ManifestGrows'
<1> SUFFICES ASSUME TypeOK, ManifestGrows, [Next]_vars PROVE ManifestGrows'
    OBVIOUS
<1> USE ConstantsAssumption
<1>a. /\ state \in StateType /\ loc \in [Requests -> LocalType]
      /\ pc \in [Requests -> Labels] /\ slices \in [Slices -> Revisions]
    BY DEF TypeOK
<1>b. /\ PastStart(state) => slicesCover(slices)
      /\ PastStart(Canonical) => slicesCover(slices)
      /\ FirstListed(slices) /\ \A q \in Requests : ManifestOf(q)
    BY <1>a, CanonicalPastStart DEF ManifestGrows
<1>c. \A q \in Requests : /\ loc[q].snap.revision \in Nat /\ loc[q].snap.dirty \in Nat
                          /\ loc[q].todo \in SUBSET Slices
    BY <1>a DEF LocalType, StateType
<1>1. ASSUME NEW i \in WriteInstants, CommitWrite(i) PROVE ManifestGrows'
    BY <1>1, <1>b DEF CommitWrite, store, ManifestGrows, ManifestOf
<1>2. ASSUME NEW m \in marks, MarkProjectionDirty(m) PROVE ManifestGrows'
  <2>1. slices' = slices /\ pc' = pc /\ loc' = loc
      BY <1>2 DEF MarkProjectionDirty, store
  <2>2. PastStart(state') => slicesCover(slices)
    <3> DEFINE instant == IF m[2] > 0 THEN m[2] ELSE IF state.frozen THEN FromAt(1) ELSE 0
    <3>1. instant \in Nat /\ (state.frozen => instant # 0)
        BY DEF TypeOK, FromAt, Midnight
    <3>2. /\ state'.frozen = state.frozen
          /\ instant # 0 => state'.dirty = EarlierOf(state.dirty, instant)
        BY <1>a, <1>2 DEF MarkProjectionDirty, StateType
    <3>3. ASSUME state.dirty \in 1..FromAt(1), instant # 0
          PROVE  EarlierOf(state.dirty, instant) \in 1..FromAt(1)
        BY <1>a, <3>1, <3>3 DEF EarlierOf, StateType, FromAt, Midnight
    <3>4. CASE PastStart(state)
        BY <1>b, <3>4
    <3>5. CASE state.frozen /\ ~PastStart(state)
      <4>1. state.dirty \in 1..FromAt(1)
          BY <1>a, <3>5 DEF PastStart, StateType, FromAt, Midnight
      <4>2. state'.dirty \in 1..FromAt(1)
          BY <3>1, <3>2, <3>3, <3>5, <4>1
      <4> QED BY <4>2 DEF PastStart, FromAt, Midnight
    <3>6. CASE ~state.frozen
        BY <3>2, <3>6 DEF PastStart
    <3> QED BY <3>4, <3>5, <3>6
  <2> QED BY <1>b, <2>1, <2>2 DEF ManifestGrows, ManifestOf
<1>3. ASSUME NEW p \in Requests, Start(p) PROVE ManifestGrows'
  <2>1. slices' = slices /\ state' = state
      BY <1>3 DEF Start, LoadModel, store
  <2>2. /\ \A q \in Requests : q # p => pc'[q] = pc[q] /\ loc'[q] = loc[q]
        /\ pc'[p] \in {"canon", "read"}
        /\ loc'[p].snap = NoLocal.snap /\ loc'[p].seen = NoLocal.seen
      BY <1>a, <1>3 DEF Start, LoadModel, Goto, NoLocal
  <2>3. ManifestOf(p)'
      BY <2>2, FreshManifest DEF ManifestOf, FirstListed, BuildSteps, CoveredSteps, StochSteps
  <2> QED BY <1>b, <2>1, <2>2, <2>3, ManifestStill
<1>4. ASSUME NEW p \in Requests, EnsureCanonicalState(p) PROVE ManifestGrows'
  <2>1. slices' = slices /\ (PastStart(state') => slicesCover(slices))
      BY <1>b, <1>4 DEF EnsureCanonicalState, store
  <2>2. CASE Leave(p)
      BY <2>1, <2>2, ManifestLeave
  <2>3. CASE Goto(p, "read") /\ UNCHANGED loc
    <3>1. /\ \A q \in Requests : q # p => pc'[q] = pc[q] /\ loc'[q] = loc[q]
          /\ pc'[p] = "read" /\ loc'[p] = loc[p]
        BY <1>a, <2>3 DEF Goto
    <3>2. ManifestOf(p)'
        BY <1>b, <2>1, <3>1 DEF ManifestOf, BuildSteps, CoveredSteps, StochSteps
    <3> QED BY <2>1, <3>1, <3>2, ManifestStill
  <2> QED BY <1>4, <2>2, <2>3 DEF EnsureCanonicalState
<1>5. ASSUME NEW p \in Requests, ReadState(p) PROVE ManifestGrows'
  <2>1. slices' = slices /\ (PastStart(state') => slicesCover(slices))
      BY <1>b, <1>5 DEF ReadState, store
  <2>2. CASE Leave(p)
      BY <2>1, <2>2, ManifestLeave
  <2>3. CASE Miss(p)
      BY <2>1, <2>3, ManifestMiss
  <2>4. CASE Goto(p, "readSlices") /\ loc' = [loc EXCEPT ![p].snap = Canonical]
    <3>1. /\ \A q \in Requests : q # p => pc'[q] = pc[q] /\ loc'[q] = loc[q]
          /\ pc'[p] = "readSlices"
          /\ loc'[p].snap = Canonical /\ loc'[p].seen = loc[p].seen
        BY <1>a, <2>4 DEF Goto, LocalType
    <3>2. ManifestOf(p)'
        BY <1>b, <2>1, <3>1 DEF ManifestOf, BuildSteps, CoveredSteps, StochSteps
    <3> QED BY <2>1, <3>1, <3>2, ManifestStill
  <2> QED BY <1>5, <2>2, <2>3, <2>4 DEF ReadState
<1>6. ASSUME NEW p \in Requests, ReadSlices(p) \/ ReadRows(p) \/ ReadOutputs(p)
      PROVE  ManifestGrows'
  <2>1. slices' = slices /\ (PastStart(state') => slicesCover(slices))
      BY <1>b, <1>6 DEF ReadSlices, ReadRows, ReadOutputs, store
  <2>2. CASE Miss(p)
      BY <2>1, <2>2, ManifestMiss
  <2>3. CASE ~Miss(p)
    <3>1. /\ \A q \in Requests : q # p => pc'[q] = pc[q] /\ loc'[q] = loc[q]
          /\ pc'[p] \in {"readRows", "readOutputs", "served"}
          /\ loc'[p].snap = loc[p].snap /\ loc'[p].seen = loc[p].seen
      <4>1. CASE ReadSlices(p)
          BY <1>a, <2>3, <4>1 DEF ReadSlices, Goto
      <4>2. CASE ReadRows(p)
          BY <1>a, <2>3, <4>2 DEF ReadRows, Goto, LocalType
      <4>3. CASE ReadOutputs(p)
          BY <1>a, <2>3, <4>3 DEF ReadOutputs, Goto, LocalType
      <4> QED BY <1>6, <4>1, <4>2, <4>3
    <3>2. ManifestOf(p)'
        BY <1>b, <2>1, <3>1 DEF ManifestOf, BuildSteps, CoveredSteps, StochSteps
    <3> QED BY <2>1, <3>1, <3>2, ManifestStill
  <2> QED BY <2>2, <2>3
<1>7. ASSUME NEW p \in Requests,
             Respond(p) \/ ReadFail(p) \/ StochFail(p) \/ StochPublish(p)
      PROVE  ManifestGrows'
  <2>1. slices' = slices /\ Leave(p)
      BY <1>7 DEF Respond, ReadFail, StochFail, StochPublish, store
  <2>2. PastStart(state') => slicesCover(slices)
    <3>1. CASE StochPublish(p)
      <4>1. slicesCover(slices)
          BY <1>b, <3>1 DEF StochPublish, ManifestOf, CoveredSteps, StochSteps
      <4> QED BY <4>1
    <3>2. CASE ~StochPublish(p)
        BY <1>b, <1>7, <3>2 DEF Respond, ReadFail, StochFail
    <3> QED BY <3>1, <3>2
  <2> QED BY <2>1, <2>2, ManifestLeave
<1>8. ASSUME NEW p \in Requests, JoinFlight(p) \/ BuildState(p) PROVE ManifestGrows'
  <2>1. slices' = slices /\ (PastStart(state') => slicesCover(slices))
      BY <1>b, <1>8 DEF JoinFlight, BuildState, store
  <2>2. /\ \A q \in Requests : q # p => pc'[q] = pc[q] /\ loc'[q] = loc[q]
        /\ loc'[p].seen = loc[p].seen
        /\ \/ pc'[p] \in {"bState", "wait"} /\ loc'[p].snap = loc[p].snap
           \/ pc'[p] = "bSlices" /\ loc'[p].snap = Canonical
    <3>1. CASE JoinFlight(p)
        BY <1>a, <3>1 DEF JoinFlight, Goto
    <3>2. CASE BuildState(p)
        BY <1>a, <3>2 DEF BuildState, Goto, LocalType
    <3> QED BY <1>8, <3>1, <3>2
  <2>3. Canonical.frozen
      BY <1>a DEF Canonical, StateType
  <2>4. ManifestOf(p)'
      BY <1>b, <2>1, <2>2, <2>3 DEF ManifestOf, BuildSteps, CoveredSteps, StochSteps
  <2> QED BY <2>1, <2>2, <2>4, ManifestStill
<1>9. ASSUME NEW p \in Requests, BuildSlices(p) PROVE ManifestGrows'
  <2>1. slices' = slices /\ (PastStart(state') => slicesCover(slices))
      BY <1>b, <1>9 DEF BuildSlices, store
  <2>2. CASE EndFlight(p, TRUE) /\ complete(loc[p].snap, slices)
      BY <2>1, <2>2, ManifestEnd DEF complete
  <2>3. CASE /\ Goto(p, IF complete(loc[p].snap, slices) THEN "bOutputsOnly" ELSE "bRecheck")
             /\ loc' = [loc EXCEPT ![p].seen = slices]
    <3>1. /\ \A q \in Requests : q # p => pc'[q] = pc[q] /\ loc'[q] = loc[q]
          /\ pc'[p] = IF complete(loc[p].snap, slices) THEN "bOutputsOnly" ELSE "bRecheck"
          /\ loc'[p].snap = loc[p].snap /\ loc'[p].seen = slices
        BY <1>a, <2>3 DEF Goto, LocalType
    <3>2. loc[p].snap.frozen
        BY <1>b, <1>9 DEF BuildSlices, ManifestOf, BuildSteps
    <3>3. ManifestOf(p)'
        BY <1>b, <2>1, <3>1, <3>2
        DEF ManifestOf, complete, BuildSteps, CoveredSteps, StochSteps
    <3> QED BY <2>1, <3>1, <3>3, ManifestStill
  <2> QED BY <1>9, <2>2, <2>3 DEF BuildSlices
<1>10. ASSUME NEW p \in Requests, BuildRecheck(p) PROVE ManifestGrows'
  <2>1. slices' = slices /\ (PastStart(state') => slicesCover(slices))
      BY <1>b, <1>10 DEF BuildRecheck, store
  <2>2. CASE EndFlight(p, FALSE)
      BY <2>1, <2>2, ManifestEnd
  <2>3. CASE ~EndFlight(p, FALSE)
    <3>1. /\ \A q \in Requests : q # p => pc'[q] = pc[q] /\ loc'[q] = loc[q]
          /\ pc'[p] = IF BeyondHorizon(loc[p].seen, loc[p].snap.dirty)
                      THEN "bOutputs" ELSE "bDelete"
          /\ loc'[p] = loc[p]
        BY <1>a, <1>10, <2>3 DEF BuildRecheck, Goto
    <3>2. loc[p].snap.frozen
        BY <1>b, <1>10 DEF BuildRecheck, ManifestOf, BuildSteps
    <3>3. ASSUME BeyondHorizon(loc[p].seen, loc[p].snap.dirty)
          PROVE  slicesCover(slices)
      <4>1. 1 \in Listed(loc[p].seen)
          BY <1>b, <3>3 DEF BeyondHorizon, ManifestOf, FirstListed
      <4>2. loc[p].snap.dirty > FromAt(1)
          BY <1>c, <3>3, <4>1 DEF BeyondHorizon, Suffix, ToAt, FromAt, Midnight
      <4> QED BY <1>b, <3>2, <4>2 DEF ManifestOf, PastStart
    <3>4. ManifestOf(p)'
        BY <1>b, <2>1, <3>1, <3>2, <3>3 DEF ManifestOf, BuildSteps, CoveredSteps, StochSteps
    <3> QED BY <2>1, <3>1, <3>4, ManifestStill
  <2> QED BY <2>2, <2>3
<1>11. ASSUME NEW p \in Requests, BuildDelete(p) PROVE ManifestGrows'
  <2> DEFINE first == suffixFrom(loc[p].seen, loc[p].snap.dirty)
  <2>1. slices' = slices /\ (PastStart(state') => slicesCover(slices))
      BY <1>b, <1>11 DEF BuildDelete, store
  <2>2. /\ \A q \in Requests : q # p => pc'[q] = pc[q] /\ loc'[q] = loc[q]
        /\ pc'[p] = "bManifest"
        /\ loc'[p].snap = loc[p].snap /\ loc'[p].seen = loc[p].seen
        /\ loc'[p].todo = {k \in Slices : FromAt(k) >= first}
      BY <1>a, <1>11 DEF BuildDelete, Goto, LocalType
  <2>3. loc[p].snap.frozen
      BY <1>b, <1>11 DEF BuildDelete, ManifestOf, BuildSteps
  <2>4. ASSUME ~slicesCover(slices) PROVE Slices \subseteq loc'[p].todo
    <3>1. loc[p].snap.dirty \in 1..FromAt(1)
        BY <1>b, <1>c, <2>3, <2>4 DEF ManifestOf, PastStart, FromAt, Midnight
    <3>2. Suffix(loc[p].seen, loc[p].snap.dirty) = Listed(loc[p].seen)
        BY <3>1 DEF Suffix, Listed, ToAt, FromAt, Midnight, Slices
    <3>3. Listed(loc[p].seen) # {} => Min(Listed(loc[p].seen)) = 1
      <4>1. ASSUME Listed(loc[p].seen) # {} PROVE Min(Listed(loc[p].seen)) = 1
        <5>1. Listed(loc[p].seen) \in SUBSET Nat /\ \A y \in Listed(loc[p].seen) : y >= 1
            BY DEF Listed, Slices
        <5>2. 1 \in Listed(loc[p].seen)
            BY <1>b, <4>1 DEF ManifestOf, FirstListed
        <5>3. /\ Min(Listed(loc[p].seen)) \in Listed(loc[p].seen)
              /\ Min(Listed(loc[p].seen)) <= 1
            BY <5>1, <5>2, MinInSet
        <5> QED BY <5>1, <5>3
      <4> QED BY <4>1
    <3>4. first = FromAt(1)
        BY <3>2, <3>3 DEF suffixFrom
    <3> QED BY <2>2, <3>4 DEF FromAt, Midnight, Slices
  <2>5. ManifestOf(p)'
      BY <1>b, <2>1, <2>2, <2>3, <2>4
      DEF ManifestOf, slicesCover, BuildSteps, CoveredSteps, StochSteps
  <2> QED BY <2>1, <2>2, <2>5, ManifestStill
<1>12. ASSUME NEW p \in Requests, BuildManifest(p) PROVE ManifestGrows'
  <2> DEFINE k == Min(loc[p].todo)
  <2>1. /\ slices' = [slices EXCEPT ![k] = loc[p].snap.revision] /\ state' = state
        /\ \A q \in Requests : q # p => pc'[q] = pc[q] /\ loc'[q] = loc[q]
        /\ pc'[p] = IF loc[p].todo = {k} THEN "bRows" ELSE "bManifest"
        /\ loc'[p].snap = loc[p].snap /\ loc'[p].seen = loc[p].seen
        /\ loc'[p].todo = loc[p].todo \ {k}
      BY <1>a, <1>12 DEF BuildManifest, Goto, LocalType
  <2>2. /\ Listed(slices) \subseteq Listed(slices')
        /\ Listed(slices') \subseteq Listed(slices) \cup {k}
        /\ k \in Slices => k \in Listed(slices')
      BY <1>a, <1>c, <2>1, SaveSlice
  <2>3. loc[p].snap.frozen /\ Slices \ loc[p].todo \subseteq Listed(slices)
      BY <1>b, <1>12 DEF BuildManifest, ManifestOf, BuildSteps
  <2>4. Slices \ loc'[p].todo \subseteq Listed(slices')
      BY <2>1, <2>2, <2>3
  <2>5. FirstListed(slices')
    <3>1. ASSUME 1 \in loc[p].todo PROVE k = 1
      <4>1. loc[p].todo \in SUBSET Nat /\ \A y \in loc[p].todo : y >= 1
          BY <1>c DEF Slices
      <4> HIDE DEF k
      <4>2. k \in loc[p].todo /\ k <= 1
          BY <3>1, <4>1, MinInSet DEF k
      <4> QED BY <4>1, <4>2
    <3>2. 1 \in Slices
        BY DEF Slices
    <3> QED BY <2>2, <2>3, <3>1, <3>2 DEF FirstListed
  <2>6. slicesCover(slices) => slicesCover(slices')
      BY <2>2, CoverGrows
  <2>7. loc[p].todo = {k} => slicesCover(slices')
    <3>1. Listed(slices') \subseteq Slices
        BY DEF Listed
    <3> QED BY <2>1, <2>4, <3>1 DEF slicesCover
  <2>8. ManifestOf(p)'
      BY <1>b, <2>1, <2>2, <2>3, <2>4, <2>6, <2>7
      DEF ManifestOf, BuildSteps, CoveredSteps, StochSteps
  <2>9. (PastStart(state) => slicesCover(slices))'
      BY <1>b, <2>1, <2>6
  <2> QED BY <2>1, <2>2, <2>5, <2>8, <2>9, ManifestMove
<1>13. ASSUME NEW p \in Requests, BuildAdopt(p) PROVE ManifestGrows'
  <2> DEFINE k == Min(loc[p].todo)
  <2>1. /\ slices' = [slices EXCEPT ![k] = loc[p].snap.revision]
        /\ \A q \in Requests : q # p => pc'[q] = pc[q] /\ loc'[q] = loc[q]
        /\ pc'[p] \in {"bFingerprint", "bAdopt"}
        /\ loc'[p].snap = loc[p].snap /\ loc'[p].seen = loc[p].seen
      BY <1>a, <1>13 DEF BuildAdopt, Goto, LocalType
  <2>2. Listed(slices) \subseteq Listed(slices')
      BY <1>a, <1>c, <2>1, SaveSlice
  <2>3. loc[p].snap.frozen /\ slicesCover(slices)
      BY <1>b, <1>13 DEF BuildAdopt, ManifestOf, BuildSteps, CoveredSteps
  <2>4. slicesCover(slices')
      BY <2>2, <2>3, CoverGrows
  <2>5. FirstListed(slices')
      BY <2>4 DEF FirstListed, slicesCover, Slices
  <2>6. ManifestOf(p)'
      BY <1>b, <2>1, <2>2, <2>3, <2>4 DEF ManifestOf, BuildSteps
  <2> QED BY <2>1, <2>2, <2>4, <2>5, <2>6, ManifestMove
<1>14. ASSUME NEW p \in Requests,
              BuildOutputsOnly(p) \/ BuildRows(p) \/ BuildOutputs(p)
       PROVE  ManifestGrows'
  <2>1. slices' = slices /\ state' = state
      BY <1>14 DEF BuildOutputsOnly, BuildRows, BuildOutputs
  <2>2. /\ \A q \in Requests : q # p => pc'[q] = pc[q] /\ loc'[q] = loc[q]
        /\ pc'[p] \in {"bFingerprintOnly", "bOutputs", "bFingerprint", "bAdopt"}
        /\ loc'[p].snap = loc[p].snap /\ loc'[p].seen = loc[p].seen
    <3>1. CASE BuildOutputsOnly(p)
        BY <1>a, <3>1 DEF BuildOutputsOnly, Goto
    <3>2. CASE BuildRows(p)
        BY <1>a, <3>2 DEF BuildRows, Goto
    <3>3. CASE BuildOutputs(p)
        BY <1>a, <3>3 DEF BuildOutputs, Goto, LocalType
    <3> QED BY <1>14, <3>1, <3>2, <3>3
  <2>3. loc[p].snap.frozen /\ slicesCover(slices)
      BY <1>b, <1>14
      DEF BuildOutputsOnly, BuildRows, BuildOutputs, ManifestOf, BuildSteps, CoveredSteps
  <2>4. ManifestOf(p)'
      BY <1>b, <2>1, <2>2, <2>3 DEF ManifestOf
  <2> QED BY <1>b, <2>1, <2>2, <2>4, ManifestStill
<1>15. ASSUME NEW p \in Requests,
              BuildFingerprintOnly(p) \/ BuildFingerprint(p) \/ BuildPublish(p)
       PROVE  ManifestGrows'
  <2>1. slices' = slices /\ slicesCover(slices) /\ loc[p].snap.frozen
      BY <1>b, <1>15 DEF BuildFingerprintOnly, BuildFingerprint, BuildPublish, store,
         ManifestOf, BuildSteps, CoveredSteps
  <2>2. CASE \E ok \in BOOLEAN : EndFlight(p, ok)
      BY <2>1, <2>2, ManifestEnd
  <2>3. CASE Goto(p, "bPublish") /\ UNCHANGED loc
    <3>1. /\ \A q \in Requests : q # p => pc'[q] = pc[q] /\ loc'[q] = loc[q]
          /\ pc'[p] = "bPublish" /\ loc'[p] = loc[p]
        BY <1>a, <2>3 DEF Goto
    <3>2. ManifestOf(p)'
        BY <1>b, <2>1, <3>1 DEF ManifestOf
    <3> QED BY <2>1, <3>1, <3>2, ManifestStill
  <2>4. (state.revision = loc[p].snap.revision) \in BOOLEAN
      OBVIOUS
  <2> QED BY <1>15, <2>2, <2>3, <2>4 DEF BuildFingerprintOnly, BuildFingerprint, BuildPublish
<1>16. ASSUME NEW p \in Requests, BuildFail(p) PROVE ManifestGrows'
    BY <1>b, <1>16, ManifestEnd DEF BuildFail, store
<1>17. ASSUME NEW p \in Requests, StochState(p) PROVE ManifestGrows'
  <2>1. slices' = slices /\ (PastStart(state') => slicesCover(slices))
      BY <1>b, <1>17 DEF StochState, store
  <2>2. CASE Leave(p)
      BY <2>1, <2>2, ManifestLeave
  <2>3. CASE ~Leave(p)
    <3>1. /\ \A q \in Requests : q # p => pc'[q] = pc[q] /\ loc'[q] = loc[q]
          /\ pc'[p] = IF Canonical.dirty > 0 THEN "build" ELSE "sSeed"
          /\ loc'[p].snap = Canonical /\ loc'[p].seen = loc[p].seen
        BY <1>a, <1>17, <2>3 DEF StochState, Goto, LocalType
    <3>2. ~(Canonical.dirty > 0) => PastStart(Canonical)
      <4>1. Canonical.dirty \in Nat
          BY <1>a, CanonicalType DEF StateType
      <4>2. Canonical.frozen
          BY <1>a DEF Canonical, StateType
      <4> QED BY <4>1, <4>2 DEF PastStart
    <3>3. ManifestOf(p)'
        BY <1>b, <2>1, <3>1, <3>2 DEF ManifestOf, BuildSteps, CoveredSteps, StochSteps
    <3> QED BY <2>1, <3>1, <3>3, ManifestStill
  <2> QED BY <2>2, <2>3
<1>18. ASSUME NEW p \in Requests, StochSeed(p) PROVE ManifestGrows'
  <2> DEFINE saved == [loc[p].snap EXCEPT !.seed = loc[p].seed]
  <2>1. slices' = slices /\ slicesCover(slices)
      BY <1>b, <1>18 DEF StochSeed, store, ManifestOf, CoveredSteps, StochSteps
  <2>2. CASE Leave(p)
      BY <2>1, <2>2, ManifestLeave
  <2>3. CASE ~Leave(p)
    <3>1. loc' = [loc EXCEPT ![p] = [loc[p] EXCEPT !.snap = saved]] /\ Goto(p, "sSlices")
        BY <1>a, <1>18, <2>3 DEF StochSeed
    <3>2. /\ \A q \in Requests : q # p => pc'[q] = pc[q] /\ loc'[q] = loc[q]
          /\ pc'[p] = "sSlices" /\ loc'[p].seen = loc[p].seen
        BY <1>a, <3>1 DEF Goto, LocalType
    <3>3. ManifestOf(p)'
        BY <1>b, <2>1, <3>2 DEF ManifestOf, BuildSteps
    <3> QED BY <2>1, <3>2, <3>3, ManifestStill
  <2> QED BY <2>2, <2>3
<1>19. ASSUME NEW p \in Requests,
              StochReload(p) \/ StochSlices(p) \/ StochDelete(p) \/ StochStats(p)
              \/ StochOutputs(p) \/ StochSave(p)
       PROVE  ManifestGrows'
  <2>1. slices' = slices /\ slicesCover(slices)
      BY <1>b, <1>19 DEF StochReload, StochSlices, StochDelete, StochStats, StochOutputs,
         StochSave, store, ManifestOf, CoveredSteps, StochSteps
  <2>2. /\ \A q \in Requests : q # p => pc'[q] = pc[q] /\ loc'[q] = loc[q]
        /\ pc'[p] \in StochSteps /\ loc'[p].seen = loc[p].seen
    <3>1. CASE StochReload(p)
        BY <1>a, <3>1 DEF StochReload, Goto, LocalType, StochSteps
    <3>2. CASE ~StochReload(p)
        BY <1>a, <1>19, <3>2 DEF StochSlices, StochDelete, StochStats, StochOutputs,
           StochSave, Goto, StochSteps
    <3> QED BY <3>1, <3>2
  <2>3. ManifestOf(p)'
      BY <1>b, <2>1, <2>2 DEF ManifestOf, BuildSteps, StochSteps
  <2> QED BY <2>1, <2>2, <2>3, ManifestStill
<1>20. ASSUME NEW p \in Requests, StochRecheck(p) PROVE ManifestGrows'
  <2>1. slices' = slices /\ slicesCover(slices)
      BY <1>b, <1>20 DEF StochRecheck, store, ManifestOf, CoveredSteps, StochSteps
  <2>2. CASE Leave(p)
      BY <2>1, <2>2, ManifestLeave
  <2>3. CASE Goto(p, "sSave") /\ UNCHANGED loc
    <3>1. /\ \A q \in Requests : q # p => pc'[q] = pc[q] /\ loc'[q] = loc[q]
          /\ pc'[p] = "sSave" /\ loc'[p] = loc[p]
        BY <1>a, <2>3 DEF Goto
    <3>2. ManifestOf(p)'
        BY <1>b, <2>1, <3>1 DEF ManifestOf, BuildSteps
    <3> QED BY <2>1, <3>1, <3>2, ManifestStill
  <2> QED BY <1>20, <2>2, <2>3 DEF StochRecheck
<1>21. CASE Crash
    BY <1>b, <1>21, FreshManifest
    DEF Crash, store, ManifestGrows, ManifestOf, FirstListed, BuildSteps, CoveredSteps, StochSteps
<1>22. CASE UNCHANGED vars
    BY <1>b, <1>22 DEF vars, store, ManifestGrows, ManifestOf
<1> QED BY <1>1, <1>2, <1>3, <1>4, <1>5, <1>6, <1>7, <1>8, <1>9, <1>10, <1>11,
       <1>12, <1>13, <1>14, <1>15, <1>16, <1>17, <1>18, <1>19, <1>20, <1>21, <1>22
       DEF Next, Step, Read, Build, Stoch

LEMMA ManifestInit == Init => ManifestGrows
BY FreshManifest
DEF Init, ManifestGrows, ManifestOf, FirstListed, BuildSteps, CoveredSteps, StochSteps

\* A stochastic run never meets a window with a slice missing, whatever writes,
\* failures and crashes came before: the repair branch of buildStochastic is
\* dead code.
THEOREM ManifestAlwaysFound == Spec => []StochFindsManifest
<1>1. Init => ManifestGrows
    BY ManifestInit
<1>2. ManifestGrows => StochFindsManifest
    BY DEF ManifestGrows, ManifestOf, CoveredSteps, StochSteps, StochFindsManifest
<1> QED BY <1>1, <1>2, ManifestStep, TypeCorrect, PTL DEF Spec
-----------------------------------------------------------------------------
(* The rows of a deterministic instance.  A set B of slices stands for what *)
(* is wrong with the stored rows: without a row in one proof, with a row of *)
(* another model in the other.  As long as some slice is in B, the dirty    *)
(* date reaches it.                                                        *)

Reached(B, st) == \A k \in B : 0 < st.dirty /\ st.dirty <= ToAt(k)

KeptOf(B, q) ==
    /\ loc[q].kind = "det" /\ pc[q] \notin StochSteps
    /\ pc[q] \in BuildSteps \ {"bState"} =>
          /\ state.frozen
          /\ loc[q].snap.revision <= state.revision
          /\ loc[q].snap.dirty > 0 =>
                0 < state.dirty /\ state.dirty <= loc[q].snap.dirty
    /\ pc[q] \in {"bSlices", "bRecheck", "bDelete", "bManifest", "bRows"} =>
          Reached(B, loc[q].snap)
    /\ pc[q] \in {"bRecheck", "bDelete", "bManifest", "bRows"} =>
          (PastStart(loc[q].snap) => slicesCover(loc[q].seen))
    /\ pc[q] \in {"bOutputs", "bAdopt", "bFingerprint", "bPublish"} => B = {}

BuildKeeps(B) ==
    /\ Listed(slices) # {} => state.frozen
    /\ \A q \in Requests : KeptOf(B, q)

\* The dirty date of a frozen row reaches everything wrong.
RowReaches(B) == state.frozen => Reached(B, state)

LEMMA CanonicalReaches ==
    ASSUME state \in StateType, NEW B \in SUBSET Slices, RowReaches(B)
    PROVE  /\ Reached(B, Canonical) /\ Canonical.frozen
           /\ state.frozen => Canonical = state
<1>1. CASE ~state.frozen
  <2>1. Canonical.dirty = EarlierOf(state.dirty, FromAt(1)) /\ Canonical.frozen
      BY <1>1 DEF Canonical, StateType
  <2>2. Canonical.dirty \in 1..FromAt(1)
      BY <2>1 DEF EarlierOf, FromAt, Midnight, StateType
  <2> QED BY <1>1, <2>1, <2>2 DEF Reached, Slices, ToAt, FromAt, Midnight
<1>2. CASE state.frozen
    BY <1>2 DEF Canonical, RowReaches
<1> QED BY <1>1, <1>2

\* A request that is not building moves.
LEMMA KeepsOutside ==
    ASSUME NEW B \in SUBSET Slices, NEW C \in SUBSET Slices, C \subseteq B,
           BuildKeeps(B), NEW p \in Requests, slices' = slices,
           state.frozen => state' = state,
           \A q \in Requests : q # p => pc'[q] = pc[q] /\ loc'[q] = loc[q],
           loc'[p].kind = "det", pc'[p] \notin StochSteps,
           pc'[p] \notin BuildSteps \ {"bState"}
    PROVE  BuildKeeps(C)'
<1>1. KeptOf(C, p)'
    BY DEF KeptOf, BuildSteps
<1>2. ASSUME NEW q \in Requests, q # p PROVE KeptOf(C, q)'
  <2>1. KeptOf(B, q) /\ pc'[q] = pc[q] /\ loc'[q] = loc[q]
      BY <1>2 DEF BuildKeeps
  <2>2. CASE pc[q] \in BuildSteps \ {"bState"}
    <3>1. state' = state
        BY <2>1, <2>2 DEF KeptOf
    <3>2. Reached(B, loc[q].snap) => Reached(C, loc[q].snap)
        BY DEF Reached
    <3> QED BY <2>1, <3>1, <3>2 DEF KeptOf
  <2>3. CASE pc[q] \notin BuildSteps \ {"bState"}
      BY <2>1, <2>3 DEF KeptOf, BuildSteps
  <2> QED BY <2>2, <2>3
<1>3. (Listed(slices) # {} => state.frozen)'
    BY DEF BuildKeeps
<1> QED BY <1>1, <1>2, <1>3 DEF BuildKeeps

\* The request that builds moves: it is the only one.
LEMMA KeepsInside ==
    ASSUME NEW B \in SUBSET Slices, NEW C \in SUBSET Slices,
           OneBuildPerUser, BuildKeeps(B), NEW p \in Requests, pc[p] \in BuildSteps,
           state'.frozen,
           \A q \in Requests : q # p => pc'[q] = pc[q] /\ loc'[q] = loc[q],
           KeptOf(C, p)'
    PROVE  BuildKeeps(C)'
<1>1. ASSUME NEW q \in Requests, q # p PROVE KeptOf(C, q)'
  <2>1. pc[q] \notin BuildSteps
      BY <1>1 DEF OneBuildPerUser
  <2> QED BY <1>1, <2>1 DEF BuildKeeps, KeptOf, BuildSteps
<1> QED BY <1>1 DEF BuildKeeps

LEMMA KeepsEnd ==
    ASSUME TypeOK, NEW B \in SUBSET Slices, NEW C \in SUBSET Slices,
           OneBuildPerUser, BuildKeeps(B), NEW p \in Requests, pc[p] \in BuildSteps,
           NEW ok \in BOOLEAN, EndFlight(p, ok), slices' = slices,
           state'.frozen = state.frozen
    PROVE  BuildKeeps(C)'
<1>1. ASSUME NEW q \in Requests PROVE KeptOf(C, q)'
  <2> DEFINE caller == q = p \/ pc[q] = "wait"
  <2>1. KeptOf(B, q)
      BY DEF BuildKeeps
  <2>2. CASE ~caller
    <3>1. pc'[q] = pc[q] /\ loc'[q] = loc[q] /\ pc[q] \notin BuildSteps
        BY <2>2 DEF EndFlight, OneBuildPerUser
    <3> QED BY <2>1, <3>1 DEF KeptOf, BuildSteps
  <2>3. CASE caller
    <3>1. loc'[q] = IF ~ok THEN NoLocal
                    ELSE [loc[q] EXCEPT !.built = TRUE, !.snap = NoState,
                                        !.seen = NoSlices, !.todo = {}]
        BY <2>3 DEF EndFlight
    <3>2. loc'[q].kind = "det"
        BY <2>1, <3>1 DEF KeptOf, NoLocal, TypeOK, LocalType
    <3>3. pc'[q] \in {"idle", "read"}
        BY <2>1, <2>3 DEF EndFlight, AfterBuild, KeptOf
    <3> QED BY <3>2, <3>3 DEF KeptOf, BuildSteps, StochSteps
  <2> QED BY <2>2, <2>3
<1>2. (Listed(slices) # {} => state.frozen)'
    BY DEF BuildKeeps
<1> QED BY <1>1, <1>2 DEF BuildKeeps

\* What a rebuild writes leaves nothing wrong before the rows it keeps: the kept
\* prefix lies before the dirty date the build read.
LEMMA SuffixIsAll ==
    ASSUME TypeOK, ManifestGrows, NEW B \in SUBSET Slices, NEW p \in Requests,
           pc[p] \in {"bDelete", "bManifest", "bRows"}, Reached(B, loc[p].snap),
           PastStart(loc[p].snap) => slicesCover(loc[p].seen), NEW k \in B
    PROVE  ~(Midnight(k) < suffixFrom(loc[p].seen, loc[p].snap.dirty))
<1> DEFINE seen == loc[p].seen
           dirty == loc[p].snap.dirty
<1>1. /\ dirty \in Nat /\ 0 < dirty /\ dirty <= ToAt(k) /\ k \in Slices
      /\ PastStart(loc[p].snap) => slicesCover(seen)
      /\ FirstListed(seen) /\ loc[p].snap.frozen
    BY DEF TypeOK, LocalType, StateType, Reached, ManifestGrows, ManifestOf, BuildSteps
<1>2. Listed(seen) \in SUBSET Nat /\ Suffix(seen, dirty) \subseteq Listed(seen)
    BY DEF Listed, Slices, Suffix
<1>3. CASE slicesCover(seen)
  <2>1. k \in Suffix(seen, dirty)
      BY <1>1, <1>3 DEF slicesCover, Suffix
  <2>2. /\ Min(Suffix(seen, dirty)) \in Suffix(seen, dirty)
        /\ Min(Suffix(seen, dirty)) <= k
      BY <1>2, <2>1, MinInSet
  <2>3. Min(Suffix(seen, dirty)) \in Nat /\ k \in Nat
      BY <1>1, <1>2, <2>2 DEF Slices
  <2>4. suffixFrom(seen, dirty) = FromAt(Min(Suffix(seen, dirty)))
      BY <2>1 DEF suffixFrom
  <2>5. ASSUME NEW m \in Nat, m <= k PROVE ~(Midnight(k) < FromAt(m))
      BY <2>3, <2>5 DEF FromAt, Midnight
  <2> QED BY <2>2, <2>3, <2>4, <2>5
<1>4. CASE ~slicesCover(seen)
  <2>1. dirty \in 1..FromAt(1)
      BY <1>1, <1>4 DEF PastStart, FromAt, Midnight
  <2>2. Suffix(seen, dirty) = Listed(seen)
      BY <2>1 DEF Suffix, Listed, ToAt, FromAt, Midnight, Slices
  <2>3. ASSUME Listed(seen) # {} PROVE Min(Listed(seen)) = 1
    <3>1. 1 \in Listed(seen) /\ \A y \in Listed(seen) : y \in Nat /\ y >= 1
        BY <1>1, <2>3 DEF FirstListed, Listed, Slices
    <3>2. Min(Listed(seen)) \in Listed(seen) /\ Min(Listed(seen)) <= 1
        BY <1>2, <3>1, MinInSet
    <3> QED BY <3>1, <3>2
  <2>4. suffixFrom(seen, dirty) = FromAt(1)
      BY <2>2, <2>3 DEF suffixFrom
  <2> QED BY <1>1, <2>4 DEF FromAt, Midnight, Slices
<1> QED BY <1>3, <1>4

LEMMA NothingBeyond ==
    ASSUME TypeOK, ManifestGrows, NEW B \in SUBSET Slices, NEW p \in Requests,
           pc[p] = "bRecheck", Reached(B, loc[p].snap),
           PastStart(loc[p].snap) => slicesCover(loc[p].seen),
           BeyondHorizon(loc[p].seen, loc[p].snap.dirty)
    PROVE  B = {}
<1> DEFINE seen == loc[p].seen
           dirty == loc[p].snap.dirty
<1>1. /\ dirty \in Nat /\ FirstListed(seen) /\ loc[p].snap.frozen
      /\ PastStart(loc[p].snap) => slicesCover(seen)
      /\ Reached(B, loc[p].snap)
    BY DEF TypeOK, LocalType, StateType, ManifestGrows, ManifestOf, BuildSteps
<1>2. 1 \in Listed(seen) /\ dirty > 0 /\ Suffix(seen, dirty) = {}
    BY <1>1 DEF BeyondHorizon, FirstListed
<1>3. dirty > FromAt(1)
    BY <1>1, <1>2 DEF Suffix, ToAt, FromAt, Midnight
<1>4. Listed(seen) = Slices
    BY <1>1, <1>3 DEF PastStart, slicesCover
<1>5. \A k \in Slices : ~(ToAt(k) >= dirty)
    BY <1>1, <1>2, <1>4 DEF Suffix
<1>6. \A k \in Slices : ToAt(k) \in Nat
    BY DEF ToAt, Midnight, Slices
<1> QED BY <1>1, <1>5, <1>6 DEF Reached

\* A request's step, when what was wrong with the rows stays so unless the step
\* deletes a suffix, and a rebuild leaves only what lies before its suffix.
RowsFollow(B, C, p) ==
    /\ BuildDelete(p) => C \subseteq B \cup Suffix(loc[p].seen, loc[p].snap.dirty)
    /\ BuildRows(p) =>
         C \subseteq {k \in B : Midnight(k) < suffixFrom(loc[p].seen, loc[p].snap.dirty)}
    /\ ~BuildDelete(p) /\ ~BuildRows(p) => C \subseteq B

RequestStep(p) == Start(p) \/ Step(p) \/ ReadFail(p) \/ BuildFail(p) \/ StochFail(p)

LEMMA RequestKeeps ==
    ASSUME TypeOK, OneBuildPerUser, ManifestGrows, "stoch" \notin Kinds,
           NEW B \in SUBSET Slices, NEW C \in SUBSET Slices,
           BuildKeeps(B), RowReaches(B), NEW p \in Requests, RequestStep(p),
           RowsFollow(B, C, p)
    PROVE  BuildKeeps(C)' /\ RowReaches(C)'
<1> USE ConstantsAssumption
<1>a. /\ state \in StateType /\ loc \in [Requests -> LocalType]
      /\ pc \in [Requests -> Labels] /\ slices \in [Slices -> Revisions]
    BY DEF TypeOK
<1>b. /\ KeptOf(B, p) /\ ManifestOf(p) /\ pc[p] \notin StochSteps
      /\ loc[p].kind = "det"
      /\ Listed(slices) # {} => state.frozen
    BY DEF BuildKeeps, KeptOf, ManifestGrows
<1>c. /\ loc[p].snap.revision \in Nat /\ loc[p].snap.dirty \in Nat
      /\ state.revision \in Nat /\ state.dirty \in Nat
    BY <1>a DEF LocalType, StateType
<1>d. /\ Canonical.frozen /\ Reached(B, Canonical)
      /\ state.frozen => Canonical = state
    BY <1>a, CanonicalReaches
<1>e. ASSUME C \subseteq B, state' \in {state, Canonical} PROVE RowReaches(C)'
  <2>1. RowReaches(B)'
      BY <1>d, <1>e DEF RowReaches, Reached
  <2> QED BY <1>e, <2>1 DEF RowReaches, Reached
<1>1. ASSUME Start(p) \/ Read(p) \/ ReadFail(p) \/ JoinFlight(p)
      PROVE  BuildKeeps(C)' /\ RowReaches(C)'
  <2>1. slices' = slices /\ state' \in {state, Canonical}
      BY <1>1 DEF Start, LoadModel, Read, EnsureCanonicalState, ReadState, ReadSlices,
         ReadRows, ReadOutputs, Respond, ReadFail, JoinFlight, store
  <2>2. ~BuildDelete(p) /\ ~BuildRows(p)
      BY <1>1 DEF Start, LoadModel, Read, EnsureCanonicalState, ReadState, ReadSlices,
         ReadRows, ReadOutputs, Respond, ReadFail, JoinFlight, BuildDelete, BuildRows,
         ReadSteps
  <2>3. C \subseteq B
      BY <2>2 DEF RowsFollow
  <2>4. \A q \in Requests : q # p => pc'[q] = pc[q] /\ loc'[q] = loc[q]
      BY <1>a, <1>1 DEF Start, LoadModel, Read, EnsureCanonicalState, ReadState, ReadSlices,
         ReadRows, ReadOutputs, Respond, ReadFail, JoinFlight, Miss, Leave, Goto
  <2>5. /\ pc'[p] \notin StochSteps
        /\ pc'[p] \notin BuildSteps \ {"bState"}
    <3>1. pc'[p] \in {"idle", "canon", "read", "readSlices", "readRows", "readOutputs",
                     "served", "build", "bState", "wait"}
      <4>1. CASE Start(p)
          BY <1>a, <4>1 DEF Start, LoadModel, Goto
      <4>2. CASE Leave(p)
          BY <1>a, <4>2 DEF Leave, Goto
      <4>3. CASE Miss(p)
          BY <1>a, <1>b, <4>3 DEF Miss, Leave, Goto
      <4>4. CASE JoinFlight(p)
          BY <1>a, <4>4 DEF JoinFlight, Goto
      <4>5. CASE Read(p) /\ ~Leave(p) /\ ~Miss(p)
          BY <1>a, <4>5 DEF Read, EnsureCanonicalState, ReadState, ReadSlices, ReadRows,
             ReadOutputs, Respond, Goto
      <4> QED BY <1>1, <4>1, <4>2, <4>3, <4>4, <4>5 DEF ReadFail
    <3> QED BY <3>1 DEF StochSteps, BuildSteps
  <2>6. loc'[p].kind = "det"
    <3>1. CASE Start(p)
      <4>1. PICK kind \in Kinds, eval \in Evals, seed \in Seeds \cup {NoSeed},
                 own \in OwnModels, other \in BOOLEAN :
                    LoadModel(p, kind, eval, seed, own, other)
          BY <3>1 DEF Start
      <4>2. kind = "det"
          OBVIOUS
      <4> QED BY <1>a, <4>1, <4>2 DEF LoadModel, NoLocal
    <3>2. CASE Leave(p)
        BY <1>a, <3>2 DEF Leave, NoLocal
    <3>3. CASE UNCHANGED loc
        BY <1>b, <3>3
    <3>4. CASE ~Start(p) /\ ~Leave(p) /\ loc' # loc
      <4>1. CASE ReadState(p)
          BY <1>a, <1>b, <3>4, <4>1 DEF ReadState, Miss, LocalType
      <4>2. CASE ReadSlices(p)
          BY <1>a, <1>b, <3>4, <4>2 DEF ReadSlices, Miss, LocalType
      <4>3. CASE ReadRows(p)
          BY <1>a, <1>b, <3>4, <4>3 DEF ReadRows, Miss, LocalType
      <4>4. CASE ReadOutputs(p)
          BY <1>a, <1>b, <3>4, <4>4 DEF ReadOutputs, Miss, LocalType
      <4> QED BY <1>1, <3>4, <4>1, <4>2, <4>3, <4>4
          DEF Read, EnsureCanonicalState, Respond, ReadFail, JoinFlight
    <3> QED BY <3>1, <3>2, <3>3, <3>4
  <2>7. state.frozen => state' = state
      BY <1>d, <2>1
  <2>8. BuildKeeps(C)'
      BY <2>1, <2>3, <2>4, <2>5, <2>6, <2>7, KeepsOutside
  <2>9. RowReaches(C)'
      BY <1>e, <2>1, <2>3
  <2> QED BY <2>8, <2>9
<1>2. ASSUME BuildState(p) PROVE BuildKeeps(C)' /\ RowReaches(C)'
  <2>1. /\ state' = Canonical /\ C \subseteq B
        /\ \A q \in Requests : q # p => pc'[q] = pc[q] /\ loc'[q] = loc[q]
        /\ pc'[p] = "bSlices" /\ loc'[p].snap = Canonical /\ loc'[p].kind = "det"
      BY <1>a, <1>b, <1>2 DEF BuildState, Goto, LocalType, RowsFollow, BuildDelete, BuildRows
  <2>2. Canonical.revision \in Nat /\ Canonical.dirty \in Nat
      BY <1>a, CanonicalType DEF StateType
  <2>3. KeptOf(C, p)'
      BY <1>d, <2>1, <2>2 DEF KeptOf, Reached, StochSteps
  <2>4. BuildKeeps(C)'
      BY <1>2, <1>d, <2>1, <2>3, KeepsInside DEF BuildState, BuildSteps
  <2> QED BY <1>e, <2>1, <2>4
<1>3. ASSUME BuildSlices(p) PROVE BuildKeeps(C)' /\ RowReaches(C)'
  <2>1. /\ state' = state /\ slices' = slices /\ C \subseteq B
        /\ pc[p] = "bSlices" /\ pc[p] \in BuildSteps
      BY <1>3 DEF BuildSlices, RowsFollow, BuildDelete, BuildRows, BuildSteps, store
  <2>2. CASE EndFlight(p, TRUE)
      BY <1>e, <2>1, <2>2, KeepsEnd
  <2>3. CASE /\ Goto(p, IF complete(loc[p].snap, slices) THEN "bOutputsOnly" ELSE "bRecheck")
             /\ loc' = [loc EXCEPT ![p].seen = slices]
    <3>1. /\ \A q \in Requests : q # p => pc'[q] = pc[q] /\ loc'[q] = loc[q]
          /\ pc'[p] \in {"bOutputsOnly", "bRecheck"}
          /\ loc'[p].snap = loc[p].snap /\ loc'[p].seen = slices
          /\ loc'[p].kind = "det"
        BY <1>a, <1>b, <2>3 DEF Goto, LocalType
    <3>2. KeptOf(C, p)'
        BY <1>b, <2>1, <3>1 DEF KeptOf, ManifestOf, Reached, BuildSteps, StochSteps
    <3>3. state'.frozen
        BY <1>b, <2>1 DEF KeptOf
    <3>4. BuildKeeps(C)'
        BY <2>1, <3>1, <3>2, <3>3, KeepsInside
    <3> QED BY <1>e, <2>1, <3>4
  <2> QED BY <1>3, <2>2, <2>3 DEF BuildSlices
<1>4. ASSUME BuildRecheck(p) PROVE BuildKeeps(C)' /\ RowReaches(C)'
  <2>1. /\ state' = state /\ slices' = slices /\ C \subseteq B
        /\ pc[p] = "bRecheck" /\ pc[p] \in BuildSteps
      BY <1>4 DEF BuildRecheck, RowsFollow, BuildDelete, BuildRows, BuildSteps, store
  <2>2. CASE EndFlight(p, FALSE)
      BY <1>e, <2>1, <2>2, KeepsEnd
  <2>3. CASE ~EndFlight(p, FALSE)
    <3>1. /\ \A q \in Requests : q # p => pc'[q] = pc[q] /\ loc'[q] = loc[q]
          /\ pc'[p] = IF BeyondHorizon(loc[p].seen, loc[p].snap.dirty)
                      THEN "bOutputs" ELSE "bDelete"
          /\ loc'[p] = loc[p]
        BY <1>a, <1>4, <2>3 DEF BuildRecheck, Goto
    <3>2. BeyondHorizon(loc[p].seen, loc[p].snap.dirty) => C = {}
        BY <1>b, <2>1, NothingBeyond DEF KeptOf
    <3>3. KeptOf(C, p)'
        BY <1>b, <2>1, <3>1, <3>2 DEF KeptOf, Reached, BuildSteps, StochSteps
    <3>4. state'.frozen
        BY <1>b, <2>1 DEF KeptOf
    <3>5. BuildKeeps(C)'
        BY <2>1, <3>1, <3>3, <3>4, KeepsInside
    <3> QED BY <1>e, <2>1, <3>5
  <2> QED BY <2>2, <2>3
<1>5. ASSUME BuildDelete(p) PROVE BuildKeeps(C)' /\ RowReaches(C)'
  <2>1. /\ state' = state /\ pc[p] = "bDelete" /\ pc[p] \in BuildSteps
        /\ C \subseteq B \cup Suffix(loc[p].seen, loc[p].snap.dirty)
        /\ \A q \in Requests : q # p => pc'[q] = pc[q] /\ loc'[q] = loc[q]
        /\ pc'[p] = "bManifest" /\ loc'[p].snap = loc[p].snap
        /\ loc'[p].seen = loc[p].seen /\ loc'[p].kind = "det"
      BY <1>a, <1>b, <1>5 DEF BuildDelete, RowsFollow, Goto, LocalType, BuildSteps
  <2>2. state.frozen /\ Reached(B, state) /\ Reached(B, loc[p].snap)
      BY <1>b, <2>1 DEF KeptOf, RowReaches
  <2>3. Reached(C, loc[p].snap)
      BY <1>c, <2>1, <2>2 DEF Reached, Suffix
  <2>4. Reached(C, state)
    <3>1. ASSUME NEW k \in C PROVE 0 < state.dirty /\ state.dirty <= ToAt(k)
      <4>1. 0 < loc[p].snap.dirty /\ loc[p].snap.dirty <= ToAt(k)
          BY <2>3 DEF Reached
      <4>2. 0 < state.dirty /\ state.dirty <= loc[p].snap.dirty
          BY <1>b, <1>c, <2>1, <4>1 DEF KeptOf
      <4>3. ToAt(k) \in Nat
          BY DEF ToAt, Midnight, Slices
      <4> QED BY <1>c, <4>1, <4>2, <4>3
    <3> QED BY <3>1 DEF Reached
  <2>5. KeptOf(C, p)'
      BY <1>b, <2>1, <2>3 DEF KeptOf, BuildSteps, StochSteps
  <2>6. BuildKeeps(C)'
      BY <2>1, <2>2, <2>5, KeepsInside
  <2> QED BY <2>1, <2>4, <2>6 DEF RowReaches
<1>6. ASSUME BuildManifest(p) PROVE BuildKeeps(C)' /\ RowReaches(C)'
  <2>1. /\ state' = state /\ C \subseteq B /\ pc[p] = "bManifest" /\ pc[p] \in BuildSteps
        /\ \A q \in Requests : q # p => pc'[q] = pc[q] /\ loc'[q] = loc[q]
        /\ pc'[p] \in {"bManifest", "bRows"} /\ loc'[p].snap = loc[p].snap
        /\ loc'[p].seen = loc[p].seen /\ loc'[p].kind = "det"
      BY <1>a, <1>b, <1>6 DEF BuildManifest, RowsFollow, BuildDelete, BuildRows, Goto,
         LocalType, BuildSteps
  <2>2. state'.frozen
      BY <1>b, <2>1 DEF KeptOf
  <2>3. KeptOf(C, p)'
      BY <1>b, <2>1 DEF KeptOf, Reached, BuildSteps, StochSteps
  <2>4. BuildKeeps(C)'
      BY <2>1, <2>2, <2>3, KeepsInside
  <2> QED BY <1>e, <2>1, <2>4
<1>7. ASSUME BuildRows(p) PROVE BuildKeeps(C)' /\ RowReaches(C)'
  <2>1. /\ state' = state /\ pc[p] = "bRows" /\ pc[p] \in BuildSteps
        /\ C \subseteq {k \in B : Midnight(k) < suffixFrom(loc[p].seen, loc[p].snap.dirty)}
        /\ \A q \in Requests : q # p => pc'[q] = pc[q] /\ loc'[q] = loc[q]
        /\ pc'[p] = "bOutputs" /\ loc'[p] = loc[p]
      BY <1>a, <1>7 DEF BuildRows, RowsFollow, Goto, BuildSteps
  <2>2. C = {}
    <3>1. ASSUME NEW k \in C PROVE FALSE
      <4>1. k \in B /\ Midnight(k) < suffixFrom(loc[p].seen, loc[p].snap.dirty)
          BY <2>1
      <4>2. ~(Midnight(k) < suffixFrom(loc[p].seen, loc[p].snap.dirty))
          BY <1>b, <2>1, <4>1, SuffixIsAll DEF KeptOf
      <4> QED BY <4>1, <4>2
    <3> QED BY <3>1
  <2>3. state'.frozen
      BY <1>b, <2>1 DEF KeptOf
  <2>4. KeptOf(C, p)'
      BY <1>b, <2>1, <2>2 DEF KeptOf, BuildSteps, StochSteps
  <2>5. BuildKeeps(C)'
      BY <2>1, <2>3, <2>4, KeepsInside
  <2> QED BY <2>2, <2>5 DEF RowReaches, Reached
<1>8. ASSUME BuildOutputsOnly(p) \/ BuildOutputs(p) \/ BuildAdopt(p)
      PROVE  BuildKeeps(C)' /\ RowReaches(C)'
  <2>1. /\ state' = state /\ C \subseteq B
        /\ pc[p] \in {"bOutputsOnly", "bOutputs", "bAdopt"}
      BY <1>8 DEF BuildOutputsOnly, BuildOutputs, BuildAdopt, RowsFollow, BuildDelete,
         BuildRows
  <2>2. /\ \A q \in Requests : q # p => pc'[q] = pc[q] /\ loc'[q] = loc[q]
        /\ pc'[p] \in {"bFingerprintOnly", "bAdopt", "bFingerprint"}
        /\ pc[p] = "bOutputsOnly" => pc'[p] = "bFingerprintOnly"
        /\ loc'[p].snap = loc[p].snap /\ loc'[p].kind = "det"
    <3>1. CASE BuildOutputsOnly(p)
        BY <1>a, <1>b, <3>1 DEF BuildOutputsOnly, Goto
    <3>2. CASE BuildOutputs(p)
        BY <1>a, <1>b, <3>2 DEF BuildOutputs, Goto, LocalType
    <3>3. CASE BuildAdopt(p)
        BY <1>a, <1>b, <3>3 DEF BuildAdopt, Goto, LocalType
    <3> QED BY <1>8, <3>1, <3>2, <3>3
  <2>3. state'.frozen
      BY <1>b, <2>1 DEF KeptOf, BuildSteps
  <2>4. KeptOf(C, p)'
      BY <1>b, <2>1, <2>2 DEF KeptOf, BuildSteps, StochSteps
  <2>5. BuildKeeps(C)'
      BY <2>1, <2>2, <2>3, <2>4, KeepsInside DEF BuildSteps
  <2> QED BY <1>e, <2>1, <2>5
<1>9. ASSUME BuildFingerprintOnly(p) \/ BuildFingerprint(p) \/ BuildPublish(p)
              \/ BuildFail(p)
      PROVE  BuildKeeps(C)' /\ RowReaches(C)'
  <2>1. slices' = slices /\ C \subseteq B /\ pc[p] \in BuildSteps
    <3>1. slices' = slices /\ pc[p] \in BuildSteps
        BY <1>9 DEF BuildFingerprintOnly, BuildFingerprint, BuildPublish, BuildFail,
           BuildSteps, store
    <3>2. pc'[p] \notin {"bManifest", "bOutputs"}
        BY <1>a, <1>9 DEF BuildFingerprintOnly, BuildFingerprint, BuildPublish, BuildFail,
           EndFlight, AfterBuild, Goto
    <3>3. ~BuildDelete(p) /\ ~BuildRows(p)
        BY <1>a, <3>2 DEF BuildDelete, BuildRows, Goto
    <3> QED BY <3>1, <3>3 DEF RowsFollow
  <2>2. /\ state'.frozen = state.frozen /\ state'.revision = state.revision
        /\ \/ state'.dirty = state.dirty
           \/ pc[p] = "bPublish"
      BY <1>a, <1>9 DEF BuildFingerprintOnly, BuildFingerprint, BuildPublish, BuildFail,
         PersistFingerprint, Published, StateType
  <2>3. RowReaches(C)'
    <3>1. CASE pc[p] = "bPublish"
      <4>1. C = {}
          BY <1>b, <2>1, <3>1 DEF KeptOf
      <4> QED BY <4>1 DEF RowReaches, Reached
    <3>2. CASE state'.dirty = state.dirty
        BY <2>1, <2>2, <3>2 DEF RowReaches, Reached
    <3> QED BY <2>2, <3>1, <3>2
  <2>4. CASE \E ok \in BOOLEAN : EndFlight(p, ok)
    <3>1. BuildKeeps(C)'
        BY <2>1, <2>2, <2>4, KeepsEnd
    <3> QED BY <2>3, <3>1
  <2>5. CASE BuildFingerprint(p) /\ Goto(p, "bPublish") /\ UNCHANGED <<loc, flight>>
    <3>1. /\ \A q \in Requests : q # p => pc'[q] = pc[q] /\ loc'[q] = loc[q]
          /\ pc'[p] = "bPublish" /\ loc'[p] = loc[p] /\ pc[p] = "bFingerprint"
        BY <1>a, <2>5 DEF BuildFingerprint, Goto
    <3>2. state'.dirty = state.dirty /\ state'.frozen
        BY <1>b, <2>2, <3>1 DEF KeptOf, BuildSteps
    <3>3. KeptOf(C, p)'
        BY <1>b, <2>1, <2>2, <3>1, <3>2 DEF KeptOf, BuildSteps, StochSteps
    <3>4. BuildKeeps(C)'
        BY <2>1, <3>1, <3>2, <3>3, KeepsInside
    <3> QED BY <2>3, <3>4
  <2>6. (state.revision = loc[p].snap.revision) \in BOOLEAN
      OBVIOUS
  <2> QED BY <1>9, <2>4, <2>5, <2>6
      DEF BuildFingerprintOnly, BuildFingerprint, BuildPublish, BuildFail
<1>10. ~Stoch(p) /\ ~StochFail(p)
    BY <1>b DEF Stoch, StochState, StochReload, StochSeed, StochSlices, StochDelete,
       StochStats, StochOutputs, StochRecheck, StochSave, StochPublish, StochFail, StochSteps
<1> QED BY <1>1, <1>2, <1>3, <1>4, <1>5, <1>6, <1>7, <1>8, <1>9, <1>10
    DEF RequestStep, Step, Build

\* A dirty mark only brings the dirty date forward.
LEMMA MarkKeeps ==
    ASSUME TypeOK, NEW B \in SUBSET Slices, BuildKeeps(B),
           NEW m \in marks, MarkProjectionDirty(m)
    PROVE  BuildKeeps(B)' /\ (RowReaches(B) => RowReaches(B)')
<1> DEFINE instant == IF m[2] > 0 THEN m[2] ELSE IF state.frozen THEN FromAt(1) ELSE 0
<1>1. instant \in Nat /\ (state.frozen => instant # 0)
    BY DEF TypeOK, FromAt, Midnight
<1>2. /\ slices' = slices /\ pc' = pc /\ loc' = loc
      /\ state'.frozen = state.frozen /\ state'.revision = state.revision + 1
      /\ instant # 0 => state'.dirty = EarlierOf(state.dirty, instant)
    BY DEF MarkProjectionDirty, TypeOK, StateType, store
<1>3. ASSUME state.frozen, state.dirty > 0
      PROVE  state'.dirty \in Nat /\ 0 < state'.dirty /\ state'.dirty <= state.dirty
    BY <1>1, <1>2, <1>3 DEF EarlierOf, TypeOK, StateType
<1>4. state.dirty \in Nat /\ state.revision \in Nat
    BY DEF TypeOK, StateType
<1>5. ASSUME RowReaches(B) PROVE RowReaches(B)'
  <2>1. ASSUME state.frozen, NEW k \in B PROVE 0 < state'.dirty /\ state'.dirty <= ToAt(k)
    <3>1. 0 < state.dirty /\ state.dirty <= ToAt(k) /\ ToAt(k) \in Nat
        BY <1>5, <2>1 DEF RowReaches, Reached, ToAt, Midnight, Slices
    <3> QED BY <1>3, <1>4, <2>1, <3>1
  <2> QED BY <1>2, <2>1 DEF RowReaches, Reached
<1>6. ASSUME NEW q \in Requests PROVE KeptOf(B, q)'
  <2>1. KeptOf(B, q) /\ loc[q].snap.dirty \in Nat /\ loc[q].snap.revision \in Nat
      BY DEF BuildKeeps, TypeOK, LocalType, StateType
  <2> QED BY <1>2, <1>3, <1>4, <2>1 DEF KeptOf
<1> QED BY <1>2, <1>5, <1>6 DEF BuildKeeps

LEMMA CrashKeeps ==
    ASSUME TypeOK, NEW B \in SUBSET Slices, BuildKeeps(B), Crash
    PROVE  BuildKeeps(B)' /\ (RowReaches(B) => RowReaches(B)')
BY DEF Crash, store, BuildKeeps, KeptOf, RowReaches, Reached, NoLocal, BuildSteps, StochSteps

\* Which steps touch the rows, and how.
LEMMA RowsUntouched ==
    ASSUME NEW p \in Requests, RequestStep(p), ~BuildDelete(p), ~BuildRows(p)
    PROVE  rows' = rows
BY DEF RequestStep, Start, LoadModel, Step, Read, EnsureCanonicalState, ReadState,
   ReadSlices, ReadRows, ReadOutputs, Respond, ReadFail, Build, JoinFlight, BuildState,
   BuildSlices, BuildOutputsOnly, BuildFingerprintOnly, BuildRecheck, BuildManifest,
   BuildOutputs, BuildAdopt, BuildFingerprint, BuildPublish, BuildFail, Stoch, StochState,
   StochReload, StochSeed, StochSlices, StochDelete, StochStats, StochOutputs,
   StochRecheck, StochSave, StochPublish, StochFail, store

LEMMA RowsDeleted ==
    ASSUME TypeOK, NEW p \in Requests, BuildDelete(p), NEW k \in Slices
    PROVE  rows'[k] = IF k \in Suffix(loc[p].seen, loc[p].snap.dirty)
                      THEN Missing ELSE rows[k]
<1>1. k \in Days /\ k # End /\ SliceOf(k) = k
    BY ConstantsAssumption DEF Slices, Days, End, SliceOf
<1> QED BY <1>1 DEF BuildDelete

LEMMA RowsWritten ==
    ASSUME TypeOK, NEW p \in Requests, BuildRows(p), NEW k \in Slices
    PROVE  rows'[k] = IF Midnight(k) < suffixFrom(loc[p].seen, loc[p].snap.dirty)
                      THEN rows[k] ELSE Content(loc[p].model, k)
<1>1. k \in Days /\ k # End
    BY ConstantsAssumption DEF Slices, Days, End
<1> QED BY <1>1 DEF BuildRows

LEMMA ContentPresent ==
    ASSUME NEW v \in {Foreign} \cup Nat, NEW d
    PROVE  Content(v, d) # Missing
<1>1. CASE v = Foreign
    BY <1>1 DEF Content, Foreign, Missing
<1>2. CASE v \in Nat
  <2> DEFINE S == {0} \cup {i \in 1..v : model[i] <= d}
  <2>1. S \in SUBSET Nat /\ S # {} /\ \A y \in S : y <= v
      BY <1>2
  <2>2. Max(S) \in Nat
      BY <1>2, <2>1, MaxInSet
  <2>3. v # Foreign
      BY <1>2 DEF Foreign
  <2> QED BY <2>2, <2>3 DEF Content, Missing
<1> QED BY <1>1, <1>2

MissingDays == {k \in Slices : rows[k] = Missing}

RowsKept == RowReaches(MissingDays) /\ BuildKeeps(MissingDays)

LEMMA RowsStep ==
    ASSUME "stoch" \notin Kinds
    PROVE  TypeOK /\ OneBuildPerUser /\ ManifestGrows /\ RowsKept /\ [Next]_vars => RowsKept'
<1> SUFFICES ASSUME TypeOK, OneBuildPerUser, ManifestGrows, RowsKept, [Next]_vars
             PROVE  RowsKept'
    OBVIOUS
<1>p. MissingDays \in SUBSET Slices /\ MissingDays' \in SUBSET Slices
    BY DEF MissingDays
<1>q. PICK B \in SUBSET Slices : B = MissingDays
    BY <1>p
<1>r. PICK C \in SUBSET Slices : C = MissingDays'
    BY <1>p
<1>b. BuildKeeps(B) /\ RowReaches(B)
    BY <1>q DEF RowsKept
<1>c. ASSUME BuildKeeps(C)', RowReaches(C)' PROVE RowsKept'
    BY <1>c, <1>r DEF RowsKept, BuildKeeps, KeptOf, RowReaches, Reached
<1>d. rows' = rows => C = B
    BY <1>q, <1>r DEF MissingDays
<1>1. ASSUME NEW i \in WriteInstants, CommitWrite(i) PROVE RowsKept'
  <2>1. rows' = rows /\ slices' = slices /\ state' = state /\ pc' = pc /\ loc' = loc
      BY <1>1 DEF CommitWrite, store
  <2> QED BY <1>b, <1>c, <1>d, <2>1 DEF BuildKeeps, KeptOf, RowReaches, Reached
<1>2. ASSUME NEW m \in marks, MarkProjectionDirty(m) PROVE RowsKept'
  <2>1. rows' = rows
      BY <1>2 DEF MarkProjectionDirty, store
  <2>2. BuildKeeps(B)' /\ RowReaches(B)'
      BY <1>b, <1>2, MarkKeeps
  <2> QED BY <1>c, <1>d, <2>1, <2>2
<1>3. ASSUME NEW p \in Requests, RequestStep(p) PROVE RowsKept'
  <2>1. ASSUME BuildDelete(p)
        PROVE  C \subseteq B \cup Suffix(loc[p].seen, loc[p].snap.dirty)
      BY <1>q, <1>r, <2>1, RowsDeleted DEF MissingDays
  <2>2. ASSUME BuildRows(p)
        PROVE  C \subseteq {k \in B : Midnight(k) < suffixFrom(loc[p].seen, loc[p].snap.dirty)}
    <3>1. loc[p].model \in {Foreign} \cup Nat
        BY DEF TypeOK, LocalType
    <3> QED BY <1>q, <1>r, <2>2, <3>1, RowsWritten, ContentPresent DEF MissingDays
  <2>3. ~BuildDelete(p) /\ ~BuildRows(p) => C \subseteq B
      BY <1>3, <1>d, RowsUntouched
  <2>4. RowsFollow(B, C, p)
      BY <2>1, <2>2, <2>3 DEF RowsFollow
  <2>5. BuildKeeps(C)' /\ RowReaches(C)'
      BY <1>b, <1>3, <2>4, RequestKeeps
  <2> QED BY <1>c, <2>5
<1>4. CASE Crash
  <2>1. rows' = rows
      BY <1>4 DEF Crash, store
  <2>2. BuildKeeps(B)' /\ RowReaches(B)'
      BY <1>b, <1>4, CrashKeeps
  <2> QED BY <1>c, <1>d, <2>1, <2>2
<1>5. CASE UNCHANGED vars
  <2>1. rows' = rows /\ slices' = slices /\ state' = state /\ pc' = pc /\ loc' = loc
      BY <1>5 DEF vars, store
  <2> QED BY <1>b, <1>c, <1>d, <2>1 DEF BuildKeeps, KeptOf, RowReaches, Reached
<1> QED BY <1>1, <1>2, <1>3, <1>4, <1>5 DEF Next, RequestStep

\* While no stochastic run writes back an old row, what passes the reader's
\* guard is whole and published: no interrupted, failed or overtaken build, lost
\* mark or crash leaves a deleted suffix behind a clean row.
THEOREM CleanAlwaysWhole ==
    ASSUME "stoch" \notin Kinds
    PROVE  Spec => []CleanIsWhole
<1>1. Init => RowsKept
    BY FreshManifest, ConstantsAssumption
    DEF Init, RowsKept, RowReaches, Reached, BuildKeeps, KeptOf, NoState, NoLocal,
        BuildSteps, StochSteps
<1>2. RowsKept => ServableComplete
  <2> SUFFICES ASSUME RowsKept, NEW eval \in Evals, Servable("det", eval),
                      NEW d \in Days \ {End}
               PROVE  rows[d] # Missing
      BY DEF ServableComplete
  <2>1. state.dirty = 0 /\ Listed(slices) = Slices
      BY DEF Servable, complete, slicesCover
  <2>2. 1 \in Slices /\ d \in Slices
      BY ConstantsAssumption DEF Slices, Days, End
  <2>3. state.frozen
      BY <2>1, <2>2 DEF RowsKept, BuildKeeps
  <2>4. d \notin MissingDays
      BY <2>1, <2>3 DEF RowsKept, RowReaches, Reached
  <2> QED BY <2>2, <2>4 DEF MissingDays
<1>3. RowsKept /\ TypeOK /\ OneBuildPerUser /\ ManifestGrows /\ [Next]_vars => RowsKept'
    BY RowsStep
<1>4. Spec => []ManifestGrows
  <2>1. Init => ManifestGrows
      BY ManifestInit
  <2> QED BY <2>1, ManifestStep, TypeCorrect, PTL DEF Spec
<1>5. Spec => []RowsKept
    BY <1>1, <1>3, <1>4, TypeCorrect, FlightExclusive, PTL DEF Spec
<1> QED BY <1>2, <1>5, CleanAlwaysPublished, PTL DEF CleanIsWhole

-----------------------------------------------------------------------------
(* A stored response is the projection of the current model, while model    *)
(* writes and requests do not overlap and no mark is lost.                 *)

Serial == "stoch" \notin Kinds /\ ~Overlap /\ ~LoseMarks

StaleDays == {k \in Slices : rows[k] # Content(Version, k)}

ReadingOf(q) ==
    /\ pc[q] # "idle" => marks = {} /\ loc[q].model = Version
    /\ pc[q] \in {"readSlices", "readRows", "readOutputs"} =>
          state.frozen /\ state.dirty = 0 /\ loc[q].snap.revision = state.revision
    /\ pc[q] \in {"readOutputs", "served"} =>
          \A d \in Slices : loc[q].got[d] = Content(Version, d)
    /\ pc[q] = "served" /\ loc[q].eval # EmptyEval =>
          /\ loc[q].out.eval \in Evals \ {EmptyEval}
          /\ loc[q].out.content = Content(Version, End)

\* A stale slice lies past the dirty date or past a mark still to come.
StaleReached ==
    state.frozen => \A k \in StaleDays :
        (0 < state.dirty /\ state.dirty <= ToAt(k)) \/ \E m \in marks : m[2] <= ToAt(k)

OutputsExact ==
    /\ outputs["det"].revision <= state.revision
    /\ outputs["det"].revision # NoRev => outputs["det"].eval \in Evals
    /\ outputs["det"].revision = state.revision /\ marks = {} =>
          outputs["det"].content = Content(Version, End)

ExactInv ==
    /\ BuildKeeps(StaleDays)
    /\ StaleReached /\ OutputsExact
    /\ \A q \in Requests : ReadingOf(q)

LEMMA ContentSame ==
    ASSUME model' = model
    PROVE  \A d : Content(Version, d)' = Content(Version, d)
BY DEF Content, Version

\* A write does not change the days before its own.
LEMMA ContentAppend ==
    ASSUME model \in Seq(Nat), NEW i \in Nat, model' = Append(model, DayOf(i)),
           NEW k \in Nat, ~(i <= ToAt(k))
    PROVE  Content(Version, k)' = Content(Version, k)
<1> DEFINE n == Len(model)
           S == {0} \cup {j \in 1..n : model[j] <= k}
           T == {0} \cup {j \in 1..(n + 1) : model'[j] <= k}
<1>1. n \in Nat /\ Len(model') = n + 1
    OBVIOUS
<1>2. DayOf(i) \in Nat /\ DayOf(i) > k
    BY DEF DayOf, ToAt, Midnight
<1>3. model'[n + 1] = DayOf(i) /\ \A j \in 1..n : model'[j] = model[j]
    BY <1>2
<1>4. S = T
  <2>1. ASSUME NEW j \in 1..(n + 1), model'[j] <= k PROVE j \in 1..n
      BY <1>1, <1>2, <1>3, <2>1
  <2>2. \A j \in 1..n : j \in 1..(n + 1) /\ model'[j] = model[j]
      BY <1>1, <1>3
  <2> QED BY <2>1, <2>2
<1>5. n # Foreign /\ n + 1 # Foreign
    BY <1>1 DEF Foreign
<1>6. Content(Version, k) = Max(S)
    BY <1>5 DEF Content, Version
<1>7. Content(Version, k)' = Max(T)
    BY <1>1, <1>5 DEF Content, Version
<1> QED BY <1>4, <1>6, <1>7

\* What a deterministic request does to the state row: a frozen row keeps its
\* revision, and a clean one stays clean.
LEMMA StateOfStep ==
    ASSUME TypeOK, NEW p \in Requests, RequestStep(p), pc[p] \notin StochSteps
    PROVE  /\ state'.revision >= state.revision
           /\ state.frozen => /\ state'.frozen
                              /\ state'.revision = state.revision
                              /\ state.dirty = 0 => state'.dirty = 0
<1>a. state \in StateType /\ state.revision \in Nat
    BY DEF TypeOK, StateType
<1>1. CASE state' = state
    BY <1>a, <1>1
<1>2. CASE state' = Canonical
    BY <1>a, <1>2 DEF Canonical, StateType
<1>3. CASE PersistFingerprint(p)
    BY <1>a, <1>3 DEF PersistFingerprint, StateType
<1>4. CASE state' = Published(loc[p].snap.revision)
    BY <1>a, <1>4 DEF Published, StateType
<1>5. ~Stoch(p) /\ ~StochFail(p)
    BY DEF Stoch, StochState, StochReload, StochSeed, StochSlices, StochDelete,
       StochStats, StochOutputs, StochRecheck, StochSave, StochPublish, StochFail, StochSteps
<1>6. CASE Start(p) \/ Read(p) \/ ReadFail(p)
    BY <1>1, <1>2, <1>6 DEF Start, LoadModel, Read, EnsureCanonicalState, ReadState,
       ReadSlices, ReadRows, ReadOutputs, Respond, ReadFail
<1>7. CASE Build(p) \/ BuildFail(p)
    BY <1>1, <1>2, <1>3, <1>4, <1>7 DEF Build, JoinFlight, BuildState,
       BuildSlices, BuildOutputsOnly, BuildFingerprintOnly, BuildRecheck, BuildDelete,
       BuildManifest, BuildRows, BuildOutputs, BuildAdopt, BuildFingerprint, BuildPublish,
       BuildFail
<1> QED BY <1>5, <1>6, <1>7 DEF RequestStep, Step

LEMMA OutputsOfStep ==
    ASSUME TypeOK, NEW p \in Requests, RequestStep(p), pc[p] \notin StochSteps
    PROVE  \/ outputs' = outputs
           \/ /\ WriteOutputs(p, "det") /\ state' = state
              /\ pc[p] \in BuildSteps \ {"bState"}
<1>1. ~Stoch(p) /\ ~StochFail(p)
    BY DEF Stoch, StochState, StochReload, StochSeed, StochSlices, StochDelete,
       StochStats, StochOutputs, StochRecheck, StochSave, StochPublish, StochFail, StochSteps
<1>2. CASE Start(p) \/ Read(p) \/ ReadFail(p)
    BY <1>2 DEF Start, LoadModel, Read, EnsureCanonicalState, ReadState,
       ReadSlices, ReadRows, ReadOutputs, Respond, ReadFail, store
<1>3. CASE BuildOutputs(p) \/ BuildOutputsOnly(p)
    BY <1>3 DEF BuildOutputs, BuildOutputsOnly, BuildSteps
<1>4. CASE (Build(p) \/ BuildFail(p)) /\ ~BuildOutputs(p) /\ ~BuildOutputsOnly(p)
    BY <1>4 DEF Build, JoinFlight, BuildState, BuildSlices, BuildFingerprintOnly,
       BuildRecheck, BuildDelete, BuildManifest, BuildRows, BuildAdopt, BuildFingerprint,
       BuildPublish, BuildFail, store
<1> QED BY <1>1, <1>2, <1>3, <1>4 DEF RequestStep, Step

LEMMA ModelOfStep ==
    ASSUME NEW p \in Requests, RequestStep(p)
    PROVE  model' = model /\ marks' = marks
BY DEF RequestStep, Start, LoadModel, Step, Read, EnsureCanonicalState, ReadState,
   ReadSlices, ReadRows, ReadOutputs, Respond, ReadFail, Build, JoinFlight, BuildState,
   BuildSlices, BuildOutputsOnly, BuildFingerprintOnly, BuildRecheck, BuildDelete,
   BuildManifest, BuildRows, BuildOutputs, BuildAdopt, BuildFingerprint, BuildPublish,
   BuildFail, Stoch, StochState, StochReload, StochSeed, StochSlices, StochDelete,
   StochStats, StochOutputs, StochRecheck, StochSave, StochPublish, StochFail

\* A read in progress, seen from a request that stands still.
LEMMA ReadingStays ==
    ASSUME TypeOK, NEW q \in Requests, ReadingOf(q), NEW p \in Requests, RequestStep(p),
           pc[p] \notin StochSteps, pc'[q] = pc[q], loc'[q] = loc[q]
    PROVE  ReadingOf(q)'
<1>1. model' = model /\ marks' = marks
    BY ModelOfStep
<1>2. (\A d : Content(Version, d)' = Content(Version, d)) /\ Version' = Version
    BY <1>1, ContentSame DEF Version
<1>3. state.frozen => /\ state'.frozen /\ state'.revision = state.revision
                      /\ state.dirty = 0 => state'.dirty = 0
    BY StateOfStep
<1> QED BY <1>1, <1>2, <1>3 DEF ReadingOf

\* A request that is not in the middle of a read only keeps its model.
LEMMA ReadingEnds ==
    ASSUME NEW q \in Requests, model' = model, marks' = marks,
           pc'[q] \notin {"readSlices", "readRows", "readOutputs", "served"},
           pc'[q] # "idle" => marks = {} /\ loc'[q].model = Version
    PROVE  ReadingOf(q)'
BY DEF ReadingOf, Version

LEMMA ReadingMoves ==
    ASSUME TypeOK, Serial, OneBuildPerUser, ExactInv,
           StaleDays = {} \/ ~state.frozen \/ state.dirty # 0,
           NEW p \in Requests, RequestStep(p), NEW q \in Requests
    PROVE  ReadingOf(q)'
<1>a. /\ state \in StateType /\ loc \in [Requests -> LocalType]
      /\ pc \in [Requests -> Labels]
    BY DEF TypeOK
<1>b. /\ \A r \in Requests : loc[r].kind = "det" /\ pc[r] \notin StochSteps
      /\ ReadingOf(q) /\ ReadingOf(p)
    BY DEF ExactInv, BuildKeeps, KeptOf
<1>c. /\ model' = model /\ marks' = marks /\ Version' = Version
      /\ \A d : Content(Version, d)' = Content(Version, d)
    BY ModelOfStep, ContentSame DEF Version
<1>1. CASE pc'[q] = pc[q] /\ loc'[q] = loc[q]
    BY <1>b, <1>1, ReadingStays
<1>2. CASE Start(p)
  <2>1. CASE q # p
      BY <1>1, <1>2, <2>1 DEF Start, LoadModel, Goto
  <2>2. CASE q = p
    <3>1. PICK kind \in Kinds, eval \in Evals, seed \in Seeds \cup {NoSeed},
               own \in OwnModels, other \in BOOLEAN :
                  LoadModel(p, kind, eval, seed, own, other)
        BY <1>2 DEF Start
    <3>2. kind = "det" /\ ~own /\ marks = {}
        BY <3>1, ConstantsAssumption DEF Serial, LoadModel
    <3>3. loc'[q].model = Version /\ pc'[q] = "canon"
        BY <1>a, <2>2, <3>1, <3>2 DEF LoadModel, NoLocal, Goto
    <3> QED BY <1>c, <3>2, <3>3, ReadingEnds
  <2> QED BY <2>1, <2>2
<1>3. CASE Leave(p)
  <2>1. CASE q # p
      BY <1>1, <1>3, <2>1 DEF Leave, Goto
  <2>2. CASE q = p
    <3>1. pc'[q] = "idle"
        BY <1>a, <1>3, <2>2 DEF Leave, Goto
    <3> QED BY <1>c, <3>1, ReadingEnds
  <2> QED BY <2>1, <2>2
<1>4. CASE Miss(p) /\ pc[p] # "idle"
  <2>1. CASE q # p /\ ~loc[p].built
    <3>1. pc'[q] = pc[q] /\ loc'[q] = loc[q]
        BY <1>a, <1>4, <2>1 DEF Miss, Goto
    <3> QED BY <1>1, <3>1
  <2>2. CASE q = p /\ ~loc[p].built
    <3>1. loc' = [loc EXCEPT ![p] = [loc[p] EXCEPT !.got = NoRows, !.snap = NoState]]
        BY <1>4, <2>2 DEF Miss
    <3>2. loc'[q].model = loc[q].model
        BY <1>a, <2>2, <3>1 DEF LocalType
    <3>3. pc'[q] = "build"
        BY <1>a, <1>b, <1>4, <2>2 DEF Miss, Goto
    <3> QED BY <1>b, <1>c, <1>4, <2>2, <3>2, <3>3, ReadingEnds DEF ReadingOf
  <2> QED BY <1>3, <1>4, <2>1, <2>2 DEF Miss
<1>5. CASE EnsureCanonicalState(p) /\ ~Leave(p)
  <2>1. CASE q # p
    <3>1. pc'[q] = pc[q] /\ loc'[q] = loc[q]
        BY <1>a, <1>5, <2>1 DEF EnsureCanonicalState, Goto
    <3> QED BY <1>1, <3>1
  <2>2. CASE q = p
    <3>1. pc'[q] = "read" /\ loc'[q] = loc[q] /\ pc[q] = "canon"
        BY <1>a, <1>5, <2>2 DEF EnsureCanonicalState, Goto
    <3> QED BY <1>b, <1>c, <3>1, ReadingEnds DEF ReadingOf
  <2> QED BY <2>1, <2>2
<1>6. CASE ReadState(p) /\ ~Leave(p) /\ ~Miss(p)
  <2>1. /\ Goto(p, "readSlices") /\ loc' = [loc EXCEPT ![p].snap = Canonical]
        /\ state' = Canonical /\ Canonical.dirty = 0 /\ pc[p] = "read"
      BY <1>6 DEF ReadState
  <2>2. CASE q # p
      BY <1>1, <2>1, <2>2 DEF Goto
  <2>3. CASE q = p
    <3>1. /\ pc'[q] = "readSlices" /\ loc'[q].snap = Canonical
          /\ loc'[q].model = loc[q].model
        BY <1>a, <2>1, <2>3 DEF Goto, LocalType
    <3>2. Canonical.frozen
        BY <1>a DEF Canonical, StateType
    <3> QED BY <1>b, <1>c, <2>1, <2>3, <3>1, <3>2 DEF ReadingOf
  <2> QED BY <2>2, <2>3
<1>7. CASE ReadSlices(p) /\ ~Miss(p)
  <2>1. Goto(p, "readRows") /\ loc' = loc /\ pc[p] = "readSlices" /\ state' = state
      BY <1>7 DEF ReadSlices
  <2>2. CASE q # p
      BY <1>1, <2>1, <2>2 DEF Goto
  <2>3. CASE q = p
    <3>1. pc'[q] = "readRows" /\ loc'[q] = loc[q]
        BY <1>a, <2>1, <2>3 DEF Goto
    <3> QED BY <1>b, <1>c, <2>1, <2>3, <3>1 DEF ReadingOf
  <2> QED BY <2>2, <2>3
<1>8. CASE ReadRows(p) /\ ~Miss(p)
  <2>1. /\ Goto(p, "readOutputs") /\ loc' = [loc EXCEPT ![p].got = rows]
        /\ pc[p] = "readRows" /\ state' = state
      BY <1>b, <1>8 DEF ReadRows
  <2>2. CASE q # p
      BY <1>1, <2>1, <2>2 DEF Goto
  <2>3. CASE q = p
    <3>1. /\ pc'[q] = "readOutputs" /\ loc'[q].got = rows
          /\ loc'[q].model = loc[q].model /\ loc'[q].snap = loc[q].snap
        BY <1>a, <2>1, <2>3 DEF Goto, LocalType
    <3>2. state.frozen /\ state.dirty = 0
        BY <1>b, <2>1 DEF ReadingOf
    <3>3. \A d \in Slices : rows[d] = Content(Version, d)
        BY <3>2 DEF StaleDays
    <3> QED BY <1>b, <1>c, <2>1, <2>3, <3>1, <3>3 DEF ReadingOf
  <2> QED BY <2>2, <2>3
<1>9. CASE ReadOutputs(p) /\ ~Miss(p)
  <2>1. /\ Goto(p, "served") /\ pc[p] = "readOutputs"
        /\ loc' = [loc EXCEPT ![p].out =
                     IF loc[p].eval = EmptyEval THEN NoOutputs ELSE outputs["det"]]
        /\ outputsSatisfy("det", loc[p].eval, loc[p].snap.revision)
      BY <1>b, <1>9 DEF ReadOutputs
  <2>2. CASE q # p
      BY <1>1, <2>1, <2>2 DEF Goto
  <2>3. CASE q = p
    <3>1. /\ pc'[q] = "served" /\ loc'[q].got = loc[q].got
          /\ loc'[q].model = loc[q].model /\ loc'[q].eval = loc[q].eval
          /\ loc[q].eval # EmptyEval => loc'[q].out = outputs["det"]
        BY <1>a, <2>1, <2>3 DEF Goto, LocalType
    <3>2. ASSUME loc[q].eval # EmptyEval
          PROVE  /\ outputs["det"].eval \in Evals \ {EmptyEval}
                 /\ outputs["det"].content = Content(Version, End)
      <4>1. /\ outputs["det"].eval # EmptyEval
            /\ outputs["det"].revision = loc[p].snap.revision
          BY <2>1, <2>3, <3>2 DEF outputsSatisfy
      <4>2. loc[p].snap.revision = state.revision /\ marks = {}
          BY <1>b, <2>1 DEF ReadingOf
      <4>3. state.revision # NoRev
          BY <1>a DEF StateType, NoRev
      <4> QED BY <4>1, <4>2, <4>3 DEF ExactInv, OutputsExact
    <3> QED BY <1>b, <1>c, <2>1, <2>3, <3>1, <3>2 DEF ReadingOf
  <2> QED BY <2>2, <2>3
<1>10. CASE \E ok \in BOOLEAN : EndFlight(p, ok) /\ pc[p] \in BuildSteps
  <2>1. PICK ok \in BOOLEAN : EndFlight(p, ok)
      BY <1>10
  <2>2. CASE ~(q = p \/ pc[q] = "wait")
      BY <1>1, <2>1, <2>2 DEF EndFlight
  <2>3. CASE q = p \/ pc[q] = "wait"
    <3>1. pc'[q] = IF ok THEN "read" ELSE "idle"
        BY <1>b, <2>1, <2>3 DEF EndFlight, AfterBuild
    <3>2. ASSUME ok PROVE loc'[q].model = loc[q].model
      <4>1. loc'[q] = [loc[q] EXCEPT !.built = TRUE, !.snap = NoState,
                                     !.seen = NoSlices, !.todo = {}]
          BY <2>1, <2>3, <3>2 DEF EndFlight
      <4> QED BY <1>a, <4>1 DEF LocalType
    <3>3. pc[q] # "idle"
        BY <1>10, <2>3 DEF BuildSteps
    <3> QED BY <1>b, <1>c, <3>1, <3>2, <3>3, ReadingEnds DEF ReadingOf
  <2> QED BY <2>2, <2>3
<1>11. CASE /\ Build(p) \/ BuildFail(p)
            /\ ~(\E ok \in BOOLEAN : EndFlight(p, ok) /\ pc[p] \in BuildSteps)
  <2>1. /\ pc[p] \in BuildSteps \cup {"build"}
        /\ \A r \in Requests : r # p => pc'[r] = pc[r] /\ loc'[r] = loc[r]
        /\ pc'[p] \in BuildSteps \cup {"wait"} /\ loc'[p].model = loc[p].model
    <3>1. CASE JoinFlight(p)
        BY <1>a, <3>1 DEF JoinFlight, Goto, BuildSteps
    <3>2. CASE BuildState(p) \/ BuildOutputsOnly(p) \/ BuildDelete(p) \/ BuildManifest(p)
        BY <1>a, <3>2 DEF BuildState, BuildOutputsOnly, BuildDelete, BuildManifest, Goto,
           LocalType, BuildSteps
    <3>3. CASE BuildRows(p) \/ BuildOutputs(p) \/ BuildAdopt(p)
      <4>1. CASE BuildRows(p)
          BY <1>a, <4>1 DEF BuildRows, Goto, BuildSteps
      <4>2. CASE BuildOutputs(p)
          BY <1>a, <4>2 DEF BuildOutputs, Goto, LocalType, BuildSteps
      <4>3. CASE BuildAdopt(p)
          BY <1>a, <4>3 DEF BuildAdopt, Goto, LocalType, BuildSteps
      <4> QED BY <3>3, <4>1, <4>2, <4>3
    <3>4. CASE BuildSlices(p)
      <4>1. /\ pc[p] = "bSlices" /\ loc' = [loc EXCEPT ![p].seen = slices]
            /\ Goto(p, IF complete(loc[p].snap, slices) THEN "bOutputsOnly" ELSE "bRecheck")
          BY <1>11, <3>4 DEF BuildSlices, BuildSteps
      <4> QED BY <1>a, <4>1 DEF Goto, LocalType, BuildSteps
    <3>5. CASE BuildRecheck(p)
      <4>1. /\ pc[p] = "bRecheck" /\ loc' = loc
            /\ Goto(p, IF BeyondHorizon(loc[p].seen, loc[p].snap.dirty)
                       THEN "bOutputs" ELSE "bDelete")
          BY <1>11, <3>5 DEF BuildRecheck, BuildSteps
      <4> QED BY <1>a, <4>1 DEF Goto, BuildSteps
    <3>6. CASE BuildFingerprint(p)
      <4>1. pc[p] = "bFingerprint" /\ loc' = loc /\ Goto(p, "bPublish")
          BY <1>11, <3>6 DEF BuildFingerprint, BuildSteps
      <4> QED BY <1>a, <4>1 DEF Goto, BuildSteps
    <3>7. (state.revision = loc[p].snap.revision) \in BOOLEAN
        OBVIOUS
    <3>8. ~BuildFingerprintOnly(p) /\ ~BuildPublish(p) /\ ~BuildFail(p)
        BY <1>11, <3>7 DEF BuildFingerprintOnly, BuildPublish, BuildFail, BuildSteps
    <3> QED BY <1>11, <3>1, <3>2, <3>3, <3>4, <3>5, <3>6, <3>8 DEF Build
  <2>2. CASE q # p
      BY <1>1, <2>1, <2>2
  <2>3. CASE q = p
    <3>1. pc[q] # "idle" /\ pc'[q] \notin {"readSlices", "readRows", "readOutputs", "served"}
        BY <2>1, <2>3 DEF BuildSteps
    <3> QED BY <1>b, <1>c, <2>1, <2>3, <3>1, ReadingEnds DEF ReadingOf
  <2> QED BY <2>2, <2>3
<1>12. ~Stoch(p) /\ ~StochFail(p)
    BY <1>b DEF Stoch, StochState, StochReload, StochSeed, StochSlices, StochDelete,
       StochStats, StochOutputs, StochRecheck, StochSave, StochPublish, StochFail, StochSteps
<1>13. CASE Read(p) \/ ReadFail(p)
  <2>1. pc[p] # "idle"
      BY <1>13 DEF Read, EnsureCanonicalState, ReadState, ReadSlices, ReadRows,
         ReadOutputs, Respond, ReadFail, ReadSteps
  <2> QED BY <1>3, <1>4, <1>5, <1>6, <1>7, <1>8, <1>9, <1>13, <2>1
      DEF Read, Respond, ReadFail
<1> QED BY <1>2, <1>10, <1>11, <1>12, <1>13 DEF RequestStep, Step

LEMMA ExactRequest ==
    ASSUME TypeOK, Serial, OneBuildPerUser, ManifestGrows, ExactInv,
           NEW p \in Requests, RequestStep(p)
    PROVE  ExactInv'
<1>a. /\ state \in StateType /\ state.revision \in Nat /\ pc[p] \notin StochSteps
      /\ loc[p].eval \in Evals /\ outputs["det"].revision \in Revisions
    BY DEF ExactInv, BuildKeeps, KeptOf, TypeOK, StateType, LocalType, RequestKinds, OutputType
<1>b. marks = {} /\ (pc[p] # "idle" => loc[p].model = Version)
  <2>1. CASE pc[p] = "idle"
    <3>1. Start(p)
        BY <2>1 DEF RequestStep, Step, Read, EnsureCanonicalState, ReadState, ReadSlices,
           ReadRows, ReadOutputs, Respond, ReadFail, ReadSteps, Build, JoinFlight,
           BuildState, BuildSlices, BuildOutputsOnly, BuildFingerprintOnly, BuildRecheck,
           BuildDelete, BuildManifest, BuildRows, BuildOutputs, BuildAdopt,
           BuildFingerprint, BuildPublish, BuildFail, BuildSteps, Stoch, StochState,
           StochReload, StochSeed, StochSlices, StochDelete, StochStats, StochOutputs,
           StochRecheck, StochSave, StochPublish, StochFail, StochSteps
    <3> QED BY <2>1, <3>1 DEF Start, LoadModel, Serial
  <2>2. CASE pc[p] # "idle"
      BY <2>2 DEF ExactInv, ReadingOf
  <2> QED BY <2>1, <2>2
<1>c. /\ model' = model /\ marks' = marks /\ Version' = Version
      /\ \A d : Content(Version, d)' = Content(Version, d)
    BY ModelOfStep, ContentSame DEF Version
<1>d. StaleDays \in SUBSET Slices /\ StaleDays' \in SUBSET Slices
    BY DEF StaleDays
<1>e. StaleDays' = {k \in Slices : rows'[k] # Content(Version, k)}
    BY <1>c DEF StaleDays
<1>q. PICK B \in SUBSET Slices : B = StaleDays
    BY <1>d
<1>r. PICK C \in SUBSET Slices : C = StaleDays'
    BY <1>d
<1>f. BuildKeeps(B) /\ RowReaches(B)
    BY <1>b, <1>q DEF ExactInv, StaleReached, RowReaches, Reached
<1>1. RowsFollow(B, C, p)
  <2>1. ASSUME BuildDelete(p)
        PROVE  C \subseteq B \cup Suffix(loc[p].seen, loc[p].snap.dirty)
      BY <1>e, <1>q, <1>r, <2>1, RowsDeleted DEF StaleDays
  <2>2. ASSUME BuildRows(p)
        PROVE  C \subseteq {k \in B : Midnight(k) < suffixFrom(loc[p].seen, loc[p].snap.dirty)}
    <3>1. loc[p].model = Version
        BY <1>b, <2>2 DEF BuildRows
    <3> QED BY <1>e, <1>q, <1>r, <2>2, <3>1, RowsWritten DEF StaleDays
  <2>3. ASSUME ~BuildDelete(p), ~BuildRows(p) PROVE C \subseteq B
    <3>1. rows' = rows
        BY <2>3, RowsUntouched
    <3> QED BY <1>e, <1>q, <1>r, <3>1 DEF StaleDays
  <2> QED BY <2>1, <2>2, <2>3 DEF RowsFollow
<1>2. BuildKeeps(C)' /\ RowReaches(C)'
    BY <1>f, <1>1, RequestKeeps DEF Serial
<1>3. BuildKeeps(StaleDays)'
    BY <1>2, <1>r DEF BuildKeeps, KeptOf, Reached
<1>4. StaleReached'
    BY <1>2, <1>r DEF StaleReached, RowReaches, Reached
<1>5. OutputsExact'
  <2>1. CASE outputs' = outputs
    <3>1. state'.revision >= state.revision /\ state'.revision \in Int
        BY <1>a, TypeStep, StateOfStep DEF Next, RequestStep, TypeOK, StateType
    <3> QED BY <1>a, <1>b, <1>c, <2>1, <3>1 DEF ExactInv, OutputsExact, Revisions, NoRev
  <2>2. CASE /\ WriteOutputs(p, "det") /\ state' = state
             /\ pc[p] \in BuildSteps \ {"bState"}
    <3>1. outputs'["det"] = [eval |-> loc[p].eval, content |-> Content(loc[p].model, End),
                             revision |-> loc[p].snap.revision]
        BY <2>2 DEF WriteOutputs, TypeOK, RequestKinds
    <3>2. loc[p].snap.revision <= state.revision
        BY <2>2 DEF ExactInv, BuildKeeps, KeptOf
    <3>3. loc[p].model = Version
        BY <1>b, <2>2 DEF BuildSteps
    <3> QED BY <1>a, <1>c, <2>2, <3>1, <3>2, <3>3 DEF OutputsExact
  <2> QED BY <1>a, <2>1, <2>2, OutputsOfStep
<1>6. StaleDays = {} \/ ~state.frozen \/ state.dirty # 0
    BY <1>f, <1>q, <1>a DEF RowReaches, Reached, StateType
<1>7. \A q \in Requests : ReadingOf(q)'
    BY <1>6, ReadingMoves
<1> QED BY <1>3, <1>4, <1>5, <1>7 DEF ExactInv

\* Writes and marks fall between requests.
LEMMA AllIdle ==
    ASSUME ExactInv, marks # {} \/ \A q \in Requests : pc[q] = "idle",
           NEW q \in Requests, NEW B
    PROVE  pc[q] = "idle" /\ KeptOf(B, q)
BY DEF ExactInv, ReadingOf, BuildKeeps, KeptOf, BuildSteps, StochSteps

\* A write makes days stale that its pending mark reaches.
LEMMA WriteReaches ==
    ASSUME TypeOK, StaleReached, NEW i \in WriteInstants, CommitWrite(i)
    PROVE  StaleReached'
<1>1. /\ i \in Nat /\ model' = Append(model, DayOf(i))
      /\ marks' = marks \cup {<<Version + 1, i>>} /\ rows' = rows /\ state' = state
    BY ConstantsAssumption DEF CommitWrite, store
<1> SUFFICES ASSUME state.frozen, NEW k \in Slices, rows[k] # Content(Version, k)'
             PROVE  \/ 0 < state.dirty /\ state.dirty <= ToAt(k)
                    \/ \E m \in marks' : m[2] <= ToAt(k)
    BY <1>1 DEF StaleReached, StaleDays
<1>2. CASE i <= ToAt(k)
  <2>1. <<Version + 1, i>> \in marks' /\ <<Version + 1, i>>[2] <= ToAt(k)
      BY <1>1, <1>2
  <2> QED BY <2>1
<1>3. CASE ~(i <= ToAt(k))
  <2>a. model \in Seq(Nat) /\ k \in Nat
      BY DEF TypeOK, Slices
  <2>1. Content(Version, k)' = Content(Version, k)
      BY <1>1, <1>3, <2>a, ContentAppend
  <2>2. k \in StaleDays
      BY <2>1 DEF StaleDays
  <2> QED BY <1>1, <2>2 DEF StaleReached
<1> QED BY <1>2, <1>3

\* A mark reaches in the row what it reached before.
LEMMA MarkReaches ==
    ASSUME TypeOK, StaleReached, NEW m \in marks, MarkProjectionDirty(m)
    PROVE  StaleReached'
<1> DEFINE instant == IF m[2] > 0 THEN m[2] ELSE IF state.frozen THEN FromAt(1) ELSE 0
<1>1. /\ marks' = marks \ {m} /\ model' = model /\ rows' = rows
      /\ state'.frozen = state.frozen
      /\ instant # 0 => state'.dirty = EarlierOf(state.dirty, instant)
    BY DEF MarkProjectionDirty, TypeOK, StateType, store
<1>2. /\ m[2] \in Nat /\ instant \in Nat /\ (state.frozen => instant # 0)
      /\ state.dirty \in Nat
    BY DEF TypeOK, StateType, FromAt, Midnight
<1>3. StaleDays' = StaleDays
    BY <1>1, ContentSame DEF StaleDays
<1> SUFFICES ASSUME state.frozen, NEW k \in StaleDays
             PROVE  \/ 0 < state'.dirty /\ state'.dirty <= ToAt(k)
                    \/ \E n \in marks' : n[2] <= ToAt(k)
    BY <1>1, <1>3 DEF StaleReached
<1>4. ToAt(k) \in Nat /\ FromAt(1) <= ToAt(k)
    BY DEF StaleDays, Slices, ToAt, FromAt, Midnight
<1>5. state'.dirty = EarlierOf(state.dirty, instant)
    BY <1>1, <1>2
<1>6. CASE 0 < state.dirty /\ state.dirty <= ToAt(k)
    BY <1>2, <1>4, <1>5, <1>6 DEF EarlierOf
<1>7. CASE \E n \in marks : n # m /\ n[2] <= ToAt(k)
    BY <1>1, <1>7
<1>8. CASE m[2] <= ToAt(k)
  <2>1. instant <= ToAt(k) /\ instant > 0
      BY <1>2, <1>4, <1>8 DEF FromAt, Midnight
  <2> QED BY <1>2, <1>4, <1>5, <2>1 DEF EarlierOf
<1> QED BY <1>6, <1>7, <1>8 DEF StaleReached

LEMMA ExactWrite ==
    ASSUME TypeOK, Serial, ExactInv, NEW i \in WriteInstants, CommitWrite(i)
    PROVE  ExactInv'
<1>1. /\ i \in Nat /\ marks = {} /\ \A q \in Requests : pc[q] = "idle"
      /\ model' = Append(model, DayOf(i)) /\ marks' = {<<Version + 1, i>>}
      /\ rows' = rows /\ slices' = slices /\ outputs' = outputs /\ state' = state
      /\ pc' = pc /\ loc' = loc
    BY ConstantsAssumption DEF CommitWrite, Serial, store
<1>2. \A q \in Requests : KeptOf(StaleDays, q)'
    BY <1>1, AllIdle DEF ExactInv, BuildKeeps, KeptOf, BuildSteps, StochSteps
<1>3. BuildKeeps(StaleDays)'
    BY <1>1, <1>2 DEF ExactInv, BuildKeeps
<1>4. StaleReached'
    BY WriteReaches DEF ExactInv
<1>5. OutputsExact'
    BY <1>1 DEF ExactInv, OutputsExact
<1>6. \A q \in Requests : ReadingOf(q)'
    BY <1>1 DEF ReadingOf
<1> QED BY <1>3, <1>4, <1>5, <1>6 DEF ExactInv

LEMMA ExactMark ==
    ASSUME TypeOK, Serial, ExactInv, NEW m \in marks, MarkProjectionDirty(m)
    PROVE  ExactInv'
<1> DEFINE instant == IF m[2] > 0 THEN m[2] ELSE IF state.frozen THEN FromAt(1) ELSE 0
<1>1. /\ marks' = marks \ {m} /\ model' = model /\ rows' = rows /\ slices' = slices
      /\ outputs' = outputs /\ pc' = pc /\ loc' = loc
      /\ state'.frozen = state.frozen /\ state'.revision = state.revision + 1
      /\ instant # 0 => state'.dirty = EarlierOf(state.dirty, instant)
    BY DEF MarkProjectionDirty, TypeOK, StateType, store
<1>2. /\ m[2] \in Nat /\ instant \in Nat /\ (state.frozen => instant # 0)
      /\ state.dirty \in Nat /\ state.revision \in Nat
    BY DEF TypeOK, StateType, FromAt, Midnight
<1>3. \A q \in Requests : pc[q] = "idle"
    BY AllIdle
<1>4. Version' = Version /\ \A d : Content(Version, d)' = Content(Version, d)
    BY <1>1, ContentSame DEF Version
<1>5. StaleDays' = StaleDays
    BY <1>1, <1>4 DEF StaleDays
<1>6. BuildKeeps(StaleDays)'
  <2>1. \A q \in Requests : KeptOf(StaleDays, q)'
      BY <1>1, <1>3 DEF ExactInv, BuildKeeps, KeptOf, BuildSteps, StochSteps
  <2> QED BY <1>1, <2>1 DEF ExactInv, BuildKeeps
<1>7. StaleReached'
    BY MarkReaches DEF ExactInv
<1>8. OutputsExact'
  <2>1. outputs["det"].revision \in Int
      BY DEF TypeOK, RequestKinds, OutputType, Revisions, NoRev
  <2> QED BY <1>1, <1>2, <2>1 DEF ExactInv, OutputsExact
<1>9. \A q \in Requests : ReadingOf(q)'
    BY <1>1, <1>3 DEF ReadingOf
<1> QED BY <1>6, <1>7, <1>8, <1>9 DEF ExactInv

LEMMA ExactStep ==
    ASSUME Serial
    PROVE  TypeOK /\ OneBuildPerUser /\ ManifestGrows /\ ExactInv /\ [Next]_vars => ExactInv'
<1> SUFFICES ASSUME TypeOK, OneBuildPerUser, ManifestGrows, ExactInv, [Next]_vars
             PROVE  ExactInv'
    OBVIOUS
<1>1. CASE Crash
  <2>1. /\ marks = {} /\ marks' = {} /\ model' = model /\ rows' = rows
        /\ slices' = slices /\ outputs' = outputs /\ state' = state
        /\ \A q \in Requests : pc'[q] = "idle" /\ loc'[q] = NoLocal
      BY <1>1 DEF Crash, store, Serial
  <2>2. Version' = Version /\ \A d : Content(Version, d)' = Content(Version, d)
      BY <2>1, ContentSame DEF Version
  <2>3. StaleDays' = StaleDays
      BY <2>1, <2>2 DEF StaleDays
  <2>4. BuildKeeps(StaleDays)'
      BY <2>1 DEF ExactInv, BuildKeeps, KeptOf, NoLocal, BuildSteps, StochSteps
  <2>5. StaleReached' /\ OutputsExact'
      BY <2>1, <2>2, <2>3 DEF ExactInv, StaleReached, OutputsExact
  <2>6. \A q \in Requests : ReadingOf(q)'
      BY <2>1 DEF ReadingOf
  <2> QED BY <2>4, <2>5, <2>6 DEF ExactInv
<1>2. CASE UNCHANGED vars
  <2>1. /\ model' = model /\ marks' = marks /\ rows' = rows /\ slices' = slices
        /\ outputs' = outputs /\ state' = state /\ pc' = pc /\ loc' = loc
      BY <1>2 DEF vars, store
  <2>2. Version' = Version /\ \A d : Content(Version, d)' = Content(Version, d)
      BY <2>1, ContentSame DEF Version
  <2>3. StaleDays' = StaleDays
      BY <2>1, <2>2 DEF StaleDays
  <2> QED BY <2>1, <2>2, <2>3
      DEF ExactInv, BuildKeeps, KeptOf, Reached, StaleReached, OutputsExact, ReadingOf
<1> QED BY <1>1, <1>2, ExactRequest, ExactWrite, ExactMark DEF Next, RequestStep

LEMMA ExactAlways ==
    ASSUME Serial
    PROVE  Spec => []ExactInv
<1>1. Init => ExactInv
  <2> SUFFICES ASSUME Init PROVE ExactInv
      OBVIOUS
  <2>1. BuildKeeps(StaleDays)
      BY FreshManifest DEF Init, BuildKeeps, KeptOf, NoState, NoLocal, BuildSteps, StochSteps
  <2>2. StaleReached
      BY DEF Init, NoState, StaleReached
  <2>3. OutputsExact
      BY DEF Init, NoOutputs, NoState, NoRev, OutputsExact
  <2> QED BY <2>1, <2>2, <2>3 DEF Init, ExactInv, ReadingOf
<1>2. Spec => []ManifestGrows
    BY ManifestInit, ManifestStep, TypeCorrect, PTL DEF Spec
<1>3. TypeOK /\ OneBuildPerUser /\ ManifestGrows /\ ExactInv /\ [Next]_vars => ExactInv'
    BY ExactStep
<1> QED BY <1>1, <1>2, <1>3, TypeCorrect, FlightExclusive, PTL DEF Spec

\* Every number of a stored deterministic response.
ServedNumbers ==
    \A p \in Requests : pc[p] = "served" =>
        /\ \A d \in Days \ {End} : loc[p].got[d] = Content(Version, d)
        /\ loc[p].eval # EmptyEval => loc[p].out.content = Content(Version, End)

\* Suffix rebuilds, prefix adoption, the beyond-horizon shortcut, output-only
\* builds, failures and crashes never leave a stale number behind a clean row,
\* for any number of deterministic requests, slices, writes and tables.
THEOREM NumbersAlwaysExact ==
    ASSUME Serial
    PROVE  Spec => []ServedNumbers
<1>1. ExactInv => ServedNumbers
  <2>1. Days \ {End} = Slices
      BY ConstantsAssumption DEF Days, End, Slices
  <2> QED BY <2>1 DEF ExactInv, ReadingOf, ServedNumbers
<1> QED BY <1>1, ExactAlways, PTL

\* The whole response, when no two requests carry different evaluations: the
\* reader tells tables apart by the number of their rows alone, so a response
\* may otherwise carry the tables of a concurrent request.
THEOREM ServedAlwaysExact ==
    ASSUME Serial, \A e, f \in Evals \ {EmptyEval} : e = f
    PROVE  Spec => []ServedExact
<1>1. TypeOK /\ ExactInv => ServedExact
  <2> SUFFICES ASSUME TypeOK, ExactInv, NEW p \in Requests, pc[p] = "served"
               PROVE  CurrentResponse(p)
      BY DEF ServedExact
  <2>1. Days \ {End} = Slices
      BY ConstantsAssumption DEF Days, End, Slices
  <2>2. loc[p].eval \in Evals
      BY DEF TypeOK, LocalType
  <2> QED BY <2>1, <2>2 DEF ExactInv, ReadingOf, CurrentResponse
<1> QED BY <1>1, ExactAlways, TypeCorrect, PTL
-----------------------------------------------------------------------------
(* Requests of both kinds, one after another.                               *)

\* One request at a time, between the writes, and none brings its own model.
Alone ==
    /\ \A p, q \in Requests : p = q
    /\ TRUE \notin OwnModels /\ ~Overlap /\ ~LoseMarks

ExactTable(table) == \A d \in Slices : table[d] = Content(Version, d)

\* Stochastic outputs of the revision that stands: they were stored over a clean
\* row, and unless they are gone the statistics are those of the same run.
StochExact ==
    /\ outputs["stoch"].revision <= state.revision
    /\ outputs["stoch"].revision # NoRev => outputs["stoch"].eval \in Evals
    /\ outputs["stoch"].revision = state.revision =>
          /\ state.dirty = 0
          /\ marks = {} => /\ stats = NoRows \/ ExactTable(stats)
                           /\ outputs["stoch"].content = Content(Version, End)

SharedExact ==
    /\ Listed(slices) # {} => state.frozen
    /\ StaleReached /\ OutputsExact /\ StochExact

\* Where a request has seen a clean row, and where it holds the row that stands.
CleanSteps == {"readSlices", "readRows", "readOutputs", "bOutputsOnly", "bFingerprintOnly"}
                \cup (StochSteps \ {"sState"})
HeldSteps == {"readSlices", "readRows", "readOutputs"} \cup (BuildSteps \ {"bState"})
                \cup (StochSteps \ {"sState", "sReload"})

AloneOf(q) ==
    /\ pc[q] # "idle" => marks = {} /\ loc[q].model = Version
    /\ pc[q] \in CleanSteps => state.frozen /\ state.dirty = 0
    /\ pc[q] \in HeldSteps =>
          /\ state.frozen
          /\ loc[q].snap.revision = state.revision /\ loc[q].snap.dirty = state.dirty
    /\ pc[q] \in StochSteps \ {"sState", "sReload", "sPublish"} => loc[q].snap = state
    /\ pc[q] \in {"bRecheck", "bDelete", "bManifest", "bRows"} =>
          (PastStart(loc[q].snap) => slicesCover(loc[q].seen))
    /\ pc[q] \in {"bOutputs", "bAdopt", "bFingerprint", "bPublish"} => StaleDays = {}
    /\ pc[q] = "sOutputs" => ExactTable(stats)
    /\ pc[q] = "readOutputs" =>
          IF loc[q].kind = "det" THEN ExactTable(loc[q].got)
          ELSE loc[q].got = stats /\ stats # NoRows
    /\ pc[q] = "served" =>
          /\ loc[q].kind = "det" \/ loc[q].eval # EmptyEval => ExactTable(loc[q].got)
          /\ loc[q].eval # EmptyEval =>
                /\ loc[q].out.eval \in Evals \ {EmptyEval}
                /\ loc[q].out.content = Content(Version, End)

AloneInv == SharedExact /\ \A q \in Requests : AloneOf(q)

\* Where the invariant says nothing but whose model the request works on.
FreeSteps == {"idle", "canon", "read", "build", "wait", "bState", "sState"}

LEMMA AloneFree ==
    ASSUME NEW q \in Requests, model' = model, marks' = marks, pc'[q] \in FreeSteps,
           pc'[q] # "idle" => marks = {} /\ loc'[q].model = Version
    PROVE  AloneOf(q)'
BY DEF AloneOf, FreeSteps, CleanSteps, HeldSteps, BuildSteps, StochSteps, Version

LEMMA AloneEnough ==
    ASSUME Alone, NEW p \in Requests, AloneOf(p)'
    PROVE  \A q \in Requests : AloneOf(q)'
BY DEF Alone

\* The row keeps its revision, its dirty date and its freeze.
SameRow ==
    /\ state'.revision = state.revision /\ state'.dirty = state.dirty
    /\ state'.frozen = state.frozen

LEMMA CleanNotStale ==
    ASSUME TypeOK, SharedExact, marks = {}, state.frozen, state.dirty = 0
    PROVE  StaleDays = {} /\ ExactTable(rows)
BY DEF SharedExact, StaleReached, StaleDays, ExactTable

\* The freeze dirties from the first day and leaves every stored revision behind.
LEMMA SharedFreeze ==
    ASSUME TypeOK, SharedExact, model' = model, marks' = marks, state' = Canonical,
           rows' = rows, stats' = stats, slices' = slices, outputs' = outputs
    PROVE  SharedExact'
<1>1. (\A d : Content(Version, d)' = Content(Version, d)) /\ StaleDays' = StaleDays
    BY ContentSame DEF StaleDays
<1>2. /\ state \in StateType /\ state.revision \in Nat /\ outputs \in [RequestKinds -> OutputType]
      /\ \A k \in RequestKinds : outputs[k].revision \in Revisions
    BY DEF TypeOK, StateType, OutputType
<1>3. CASE state.frozen
  <2>1. state' = state
      BY <1>3 DEF Canonical
  <2> QED BY <1>1, <2>1
      DEF SharedExact, StaleReached, OutputsExact, StochExact, ExactTable
<1>4. CASE ~state.frozen
  <2>1. /\ state'.frozen /\ state'.revision = state.revision + 1
        /\ state'.dirty \in 1..FromAt(1)
    <3>1. state'.dirty = EarlierOf(state.dirty, FromAt(1))
        BY <1>2, <1>4 DEF Canonical, StateType
    <3> QED BY <1>2, <1>4, <3>1 DEF Canonical, StateType, EarlierOf, FromAt, Midnight
  <2>2. \A k \in StaleDays : state'.dirty <= ToAt(k) /\ 0 < state'.dirty
      BY <2>1 DEF StaleDays, Slices, ToAt, FromAt, Midnight
  <2>3. \A k \in RequestKinds : outputs[k].revision <= state.revision =>
            outputs[k].revision # state'.revision /\ outputs[k].revision <= state'.revision
      BY <1>2, <2>1 DEF Revisions, NoRev
  <2>4. StaleReached'
      BY <1>1, <2>2 DEF StaleReached
  <2>5. OutputsExact' /\ StochExact'
      BY <2>3 DEF SharedExact, OutputsExact, StochExact, RequestKinds
  <2> QED BY <2>1, <2>4, <2>5 DEF SharedExact
<1> QED BY <1>3, <1>4

LEMMA SharedSame ==
    ASSUME SharedExact, model' = model, marks' = marks, SameRow,
           rows' = rows, stats' = stats, outputs' = outputs,
           slices' = slices \/ state.frozen
    PROVE  SharedExact'
<1>1. (\A d : Content(Version, d)' = Content(Version, d)) /\ StaleDays' = StaleDays
    BY ContentSame DEF StaleDays
<1> QED BY <1>1 DEF SharedExact, SameRow, StaleReached, OutputsExact, StochExact, ExactTable

\* Where a build stands over its suffix, everything stale lies in it.
LEMMA AloneReached ==
    ASSUME TypeOK, SharedExact, NEW p \in Requests, AloneOf(p),
           pc[p] \in BuildSteps \ {"bState"}
    PROVE  /\ marks = {} /\ loc[p].model = Version
           /\ Reached(StaleDays, loc[p].snap) /\ Reached(StaleDays, state)
BY DEF AloneOf, HeldSteps, BuildSteps, SharedExact, StaleReached, Reached

LEMMA SharedDelete ==
    ASSUME TypeOK, SharedExact, NEW p \in Requests, AloneOf(p), BuildDelete(p)
    PROVE  SharedExact'
<1>1. /\ pc[p] = "bDelete" /\ pc[p] \in HeldSteps /\ pc[p] \in BuildSteps \ {"bState"}
      /\ state' = state /\ slices' = slices /\ outputs' = outputs
      /\ model' = model /\ marks' = marks
    BY DEF BuildDelete, HeldSteps, BuildSteps
<1>2. /\ state.frozen /\ loc[p].snap.dirty = state.dirty /\ state.dirty \in Nat
      /\ Reached(StaleDays, state)
    BY <1>1, AloneReached DEF AloneOf, TypeOK, StateType
<1>3. \A d : Content(Version, d)' = Content(Version, d)
    BY <1>1, ContentSame
<1>4. StaleReached'
  <2> SUFFICES ASSUME NEW k \in Slices, rows'[k] # Content(Version, k)
               PROVE  0 < state.dirty /\ state.dirty <= ToAt(k)
      BY <1>1, <1>3 DEF StaleReached, StaleDays
  <2>1. CASE k \in Suffix(loc[p].seen, loc[p].snap.dirty)
    <3>1. ToAt(k) \in Nat
        BY DEF ToAt, Midnight, Slices
    <3> QED BY <1>2, <2>1, <3>1 DEF Suffix
  <2>2. CASE k \notin Suffix(loc[p].seen, loc[p].snap.dirty)
    <3>1. k \in StaleDays
        BY <2>2, RowsDeleted DEF StaleDays
    <3> QED BY <1>2, <3>1 DEF Reached
  <2> QED BY <2>1, <2>2
<1>5. StochExact'
  <2>1. ASSUME state.dirty = 0 PROVE stats' = stats
    <3>1. Suffix(loc[p].seen, loc[p].snap.dirty) = {}
        BY <1>2, <2>1 DEF Suffix
    <3>2. stats' = [d \in Days |-> stats[d]]
        BY <3>1 DEF BuildDelete
    <3> QED BY <3>2 DEF TypeOK
  <2> QED BY <1>1, <1>3, <2>1 DEF SharedExact, StochExact, ExactTable
<1> QED BY <1>1, <1>3, <1>4, <1>5 DEF SharedExact, OutputsExact

LEMMA SharedRows ==
    ASSUME TypeOK, ManifestGrows, SharedExact, NEW p \in Requests, AloneOf(p), BuildRows(p)
    PROVE  SharedExact' /\ StaleDays' = {}
<1>1. /\ pc[p] = "bRows" /\ pc[p] \in BuildSteps \ {"bState"}
      /\ state' = state /\ slices' = slices /\ outputs' = outputs /\ stats' = stats
      /\ model' = model /\ marks' = marks
    BY DEF BuildRows, BuildSteps
<1>2. loc[p].model = Version /\ Reached(StaleDays, loc[p].snap)
    BY <1>1, AloneReached
<1>3. \A d : Content(Version, d)' = Content(Version, d)
    BY <1>1, ContentSame
<1>4. PastStart(loc[p].snap) => slicesCover(loc[p].seen)
    BY <1>1 DEF AloneOf
<1>5. ASSUME NEW k \in Slices PROVE rows'[k] = Content(Version, k)
  <2>1. CASE k \in StaleDays
    <3>1. StaleDays \in SUBSET Slices
        BY DEF StaleDays
    <3>2. ~(Midnight(k) < suffixFrom(loc[p].seen, loc[p].snap.dirty))
        BY <1>1, <1>2, <1>4, <2>1, <3>1, SuffixIsAll
    <3> QED BY <1>2, <3>2, RowsWritten
  <2>2. CASE k \notin StaleDays
      BY <1>2, <2>2, RowsWritten DEF StaleDays
  <2> QED BY <2>1, <2>2
<1>6. StaleDays' = {}
    BY <1>3, <1>5 DEF StaleDays
<1> QED BY <1>1, <1>3, <1>6
    DEF SharedExact, StaleReached, OutputsExact, StochExact, ExactTable

LEMMA SharedOutputs ==
    ASSUME TypeOK, SharedExact, NEW p \in Requests, NEW kind \in RequestKinds,
           WriteOutputs(p, kind), model' = model, marks' = marks, state' = state,
           rows' = rows, stats' = stats, slices' = slices,
           loc[p].model = Version, loc[p].snap.revision = state.revision,
           kind = "stoch" => state.dirty = 0 /\ ExactTable(stats)
    PROVE  SharedExact'
<1>1. (\A d : Content(Version, d)' = Content(Version, d)) /\ StaleDays' = StaleDays
    BY ContentSame DEF StaleDays
<1>2. /\ outputs'[kind] = [eval |-> loc[p].eval, content |-> Content(loc[p].model, End),
                           revision |-> loc[p].snap.revision]
      /\ \A k \in RequestKinds : k # kind => outputs'[k] = outputs[k]
    BY DEF WriteOutputs, TypeOK
<1>3. loc[p].eval \in Evals /\ state.revision \in Nat
    BY DEF TypeOK, LocalType, StateType
<1>4. StaleReached'
    BY <1>1 DEF SharedExact, StaleReached
<1>5. OutputsExact'
    BY <1>1, <1>2, <1>3 DEF SharedExact, OutputsExact, RequestKinds
<1>6. StochExact'
    BY <1>1, <1>2, <1>3 DEF SharedExact, StochExact, ExactTable, RequestKinds
<1> QED BY <1>4, <1>5, <1>6 DEF SharedExact

LEMMA SharedStats ==
    ASSUME SharedExact, model' = model, marks' = marks, state' = state,
           rows' = rows, outputs' = outputs, slices' = slices,
           stats' = NoRows \/ ExactTable(stats')
    PROVE  SharedExact'
<1>1. (\A d : Content(Version, d)' = Content(Version, d)) /\ StaleDays' = StaleDays
    BY ContentSame DEF StaleDays
<1> QED BY <1>1 DEF SharedExact, StaleReached, OutputsExact, StochExact, ExactTable

LEMMA SharedPublish ==
    ASSUME TypeOK, SharedExact, model' = model, marks' = marks,
           state'.revision = state.revision, state'.frozen = state.frozen,
           state'.dirty = 0, StaleDays = {},
           rows' = rows, stats' = stats, outputs' = outputs, slices' = slices
    PROVE  SharedExact'
<1>1. (\A d : Content(Version, d)' = Content(Version, d)) /\ StaleDays' = StaleDays
    BY ContentSame DEF StaleDays
<1> QED BY <1>1 DEF SharedExact, StaleReached, OutputsExact, StochExact, ExactTable

LEMMA AloneLeave ==
    ASSUME TypeOK, NEW p \in Requests, Leave(p), model' = model, marks' = marks
    PROVE  AloneOf(p)'
<1>1. pc'[p] = "idle"
    BY DEF Leave, Goto, TypeOK
<1> QED BY <1>1, AloneFree DEF FreeSteps

LEMMA AloneMiss ==
    ASSUME TypeOK, NEW p \in Requests, AloneOf(p), Miss(p), pc[p] # "idle",
           model' = model, marks' = marks
    PROVE  AloneOf(p)'
<1>1. CASE Leave(p)
    BY <1>1, AloneLeave
<1>2. CASE ~Leave(p)
  <2>1. /\ pc' = [pc EXCEPT ![p] = IF loc[p].kind = "det" THEN "build" ELSE "sState"]
        /\ loc' = [loc EXCEPT ![p] = [loc[p] EXCEPT !.got = NoRows, !.snap = NoState]]
      BY <1>2 DEF Miss, Goto
  <2>2. pc'[p] \in {"build", "sState"} /\ loc'[p].model = loc[p].model
      BY <2>1 DEF TypeOK, LocalType
  <2> QED BY <2>2, AloneFree DEF FreeSteps, AloneOf
<1> QED BY <1>1, <1>2

LEMMA AloneStart ==
    ASSUME TypeOK, Alone, SharedExact, NEW p \in Requests, Start(p)
    PROVE  SharedExact' /\ AloneOf(p)'
<1>1. PICK kind \in Kinds, eval \in Evals, seed \in Seeds \cup {NoSeed},
           own \in OwnModels, other \in BOOLEAN :
              LoadModel(p, kind, eval, seed, own, other)
    BY DEF Start
<1>2. ~own /\ marks = {} /\ kind \in RequestKinds
    BY <1>1, ConstantsAssumption DEF Alone, LoadModel, RequestKinds
<1>3. /\ pc'[p] \in {"canon", "read"} /\ loc'[p].model = Version
      /\ model' = model /\ marks' = marks /\ state' = state /\ rows' = rows
      /\ stats' = stats /\ slices' = slices /\ outputs' = outputs
    BY <1>1, <1>2 DEF LoadModel, NoLocal, Goto, TypeOK, store
<1> QED BY <1>2, <1>3, AloneFree, SharedSame DEF SameRow, FreeSteps

LEMMA AloneRead ==
    ASSUME TypeOK, SharedExact, NEW p \in Requests, AloneOf(p), Read(p) \/ ReadFail(p)
    PROVE  SharedExact' /\ AloneOf(p)'
<1>a. /\ state \in StateType /\ loc \in [Requests -> LocalType]
      /\ pc \in [Requests -> Labels] /\ pc[p] # "idle"
    BY DEF TypeOK, Read, EnsureCanonicalState, ReadState, ReadSlices, ReadRows,
       ReadOutputs, Respond, ReadFail, ReadSteps
<1>b. /\ model' = model /\ marks' = marks /\ rows' = rows /\ stats' = stats
      /\ slices' = slices /\ outputs' = outputs /\ state' \in {state, Canonical}
    BY DEF Read, EnsureCanonicalState, ReadState, ReadSlices, ReadRows, ReadOutputs,
       Respond, ReadFail, store
<1>c. SharedExact'
    BY <1>b, SharedFreeze, SharedSame DEF SameRow
<1>d. /\ marks = {} /\ loc[p].model = Version /\ Version' = Version
      /\ \A d : Content(Version, d)' = Content(Version, d)
    BY <1>a, <1>b, ContentSame DEF AloneOf, Version
<1>1. CASE Leave(p) \/ Miss(p)
    BY <1>a, <1>b, <1>c, <1>1, AloneLeave, AloneMiss
<1>2. CASE EnsureCanonicalState(p) /\ ~Leave(p)
  <2>1. pc'[p] = "read" /\ loc'[p] = loc[p]
      BY <1>a, <1>2 DEF EnsureCanonicalState, Goto
  <2> QED BY <1>b, <1>c, <1>d, <2>1, AloneFree DEF FreeSteps
<1>3. CASE ReadState(p) /\ ~Leave(p) /\ ~Miss(p)
  <2>1. /\ pc' = [pc EXCEPT ![p] = "readSlices"] /\ state' = Canonical
        /\ loc' = [loc EXCEPT ![p] = [loc[p] EXCEPT !.snap = Canonical]]
        /\ Canonical.dirty = 0
      BY <1>3 DEF ReadState, Goto
  <2>2. pc'[p] = "readSlices" /\ loc'[p].snap = state' /\ loc'[p].model = loc[p].model
      BY <1>a, <2>1 DEF LocalType
  <2>3. Canonical.frozen
      BY <1>a DEF Canonical, StateType
  <2> QED BY <1>b, <1>c, <1>d, <2>1, <2>2, <2>3
      DEF AloneOf, CleanSteps, HeldSteps, BuildSteps, StochSteps
<1>4. CASE ReadSlices(p) /\ ~Miss(p)
  <2>1. /\ pc' = [pc EXCEPT ![p] = "readRows"] /\ loc' = loc /\ pc[p] = "readSlices"
        /\ state' = state
      BY <1>4 DEF ReadSlices, Goto
  <2>2. pc'[p] = "readRows"
      BY <1>a, <2>1
  <2> QED BY <1>b, <1>c, <1>d, <2>1, <2>2
      DEF AloneOf, CleanSteps, HeldSteps, BuildSteps, StochSteps
<1>5. CASE ReadRows(p) /\ ~Miss(p)
  <2> DEFINE table == IF loc[p].kind = "det" THEN rows ELSE stats
  <2>1. /\ pc' = [pc EXCEPT ![p] = "readOutputs"] /\ pc[p] = "readRows" /\ state' = state
        /\ loc' = [loc EXCEPT ![p] = [loc[p] EXCEPT !.got = table]]
        /\ loc[p].kind = "det" \/ table # NoRows
      BY <1>5 DEF ReadRows, Goto
  <2>2. /\ pc'[p] = "readOutputs" /\ loc'[p].got = table
        /\ loc'[p].model = loc[p].model /\ loc'[p].snap = loc[p].snap
        /\ loc'[p].kind = loc[p].kind
      BY <1>a, <2>1 DEF LocalType
  <2>3. state.frozen /\ state.dirty = 0
      BY <2>1 DEF AloneOf, CleanSteps
  <2>4. ExactTable(rows)
      BY <1>d, <2>3, CleanNotStale
  <2>5. loc'[p].kind = "det" => ExactTable(loc[p].got)'
      BY <1>d, <2>2, <2>4 DEF ExactTable
  <2>6. loc'[p].kind # "det" => loc'[p].got = stats' /\ stats' # NoRows
      BY <1>b, <2>1, <2>2
  <2> QED BY <1>b, <1>c, <1>d, <2>1, <2>2, <2>3, <2>5, <2>6
      DEF AloneOf, CleanSteps, HeldSteps, BuildSteps, StochSteps, NoRows
<1>6. CASE ReadOutputs(p) /\ ~Miss(p)
  <2> DEFINE kind == loc[p].kind
  <2>1. /\ pc' = [pc EXCEPT ![p] = "served"] /\ pc[p] = "readOutputs" /\ state' = state
        /\ loc' = [loc EXCEPT ![p] = [loc[p] EXCEPT !.out =
                     IF loc[p].eval = EmptyEval THEN NoOutputs ELSE outputs[kind]]]
        /\ outputsSatisfy(kind, loc[p].eval, loc[p].snap.revision)
      BY <1>6 DEF ReadOutputs, Goto
  <2>2. /\ pc'[p] = "served" /\ loc'[p].got = loc[p].got
        /\ loc'[p].model = loc[p].model /\ loc'[p].eval = loc[p].eval
        /\ loc'[p].kind = loc[p].kind /\ kind \in RequestKinds
        /\ loc[p].eval # EmptyEval => loc'[p].out = outputs[kind]
      BY <1>a, <2>1 DEF LocalType
  <2>3. kind = "det" => ExactTable(loc[p].got)
      BY <2>1 DEF AloneOf
  <2>4. ASSUME loc[p].eval # EmptyEval
        PROVE  /\ outputs[kind].eval \in Evals \ {EmptyEval}
               /\ outputs[kind].content = Content(Version, End)
               /\ ExactTable(loc[p].got)
    <3>1. /\ outputs[kind].eval # EmptyEval
          /\ outputs[kind].revision = loc[p].snap.revision
        BY <2>1, <2>4 DEF outputsSatisfy
    <3>2. loc[p].snap.revision = state.revision
        BY <2>1 DEF AloneOf, HeldSteps
    <3>3. outputs[kind].revision = state.revision /\ outputs[kind].revision # NoRev
        BY <1>a, <3>1, <3>2 DEF StateType, NoRev
    <3>4. CASE kind = "det"
        BY <1>d, <2>3, <3>1, <3>3, <3>4 DEF SharedExact, OutputsExact
    <3>5. CASE kind = "stoch"
      <4>1. loc[p].got = stats /\ stats # NoRows
          BY <2>1, <3>5 DEF AloneOf
      <4> QED BY <1>d, <3>1, <3>3, <3>5, <4>1 DEF SharedExact, StochExact
    <3> QED BY <2>2, <3>4, <3>5 DEF RequestKinds
  <2>5. ExactTable(loc[p].got) => ExactTable(loc[p].got)'
      BY <1>d, <2>2 DEF ExactTable
  <2> QED BY <1>b, <1>c, <1>d, <2>2, <2>3, <2>4, <2>5
      DEF AloneOf, CleanSteps, HeldSteps, BuildSteps, StochSteps
<1> QED BY <1>c, <1>1, <1>2, <1>3, <1>4, <1>5, <1>6 DEF Read, Respond, ReadFail

LEMMA AloneEnd ==
    ASSUME TypeOK, NEW p \in Requests, AloneOf(p), pc[p] \in BuildSteps,
           NEW ok \in BOOLEAN, EndFlight(p, ok), model' = model, marks' = marks,
           ok => state'.frozen /\ state'.dirty = 0
    PROVE  AloneOf(p)'
<1>1. /\ pc'[p] = AfterBuild(p, ok)
      /\ loc'[p] = IF ~ok THEN NoLocal
                   ELSE [loc[p] EXCEPT !.built = TRUE, !.snap = NoState,
                                       !.seen = NoSlices, !.todo = {}]
    BY DEF EndFlight
<1>2. marks = {} /\ loc[p].model = Version
    BY DEF AloneOf, BuildSteps
<1>3. CASE pc'[p] \in FreeSteps
  <2>1. pc'[p] # "idle" => loc'[p].model = loc[p].model
      BY <1>1 DEF AfterBuild, TypeOK, LocalType
  <2> QED BY <1>2, <1>3, <2>1, AloneFree
<1>4. CASE pc'[p] \notin FreeSteps
  <2>1. ok /\ pc'[p] = "sReload"
      BY <1>1, <1>4 DEF AfterBuild, FreeSteps
  <2>2. loc'[p].model = loc[p].model
      BY <1>1, <2>1 DEF TypeOK, LocalType
  <2> QED BY <1>2, <2>1, <2>2
      DEF AloneOf, CleanSteps, HeldSteps, BuildSteps, StochSteps, Version
<1> QED BY <1>3, <1>4

\* A build between two of its statements, the row unchanged.
LEMMA AloneBuilds ==
    ASSUME NEW p \in Requests, marks' = {}, loc'[p].model = Version',
           pc'[p] \in BuildSteps \ {"bState", "bOutputsOnly", "bFingerprintOnly"},
           state'.frozen, loc'[p].snap.revision = state'.revision,
           loc'[p].snap.dirty = state'.dirty,
           pc'[p] \in {"bRecheck", "bDelete", "bManifest", "bRows"} =>
               (PastStart(loc[p].snap) => slicesCover(loc[p].seen))',
           pc'[p] \in {"bOutputs", "bAdopt", "bFingerprint", "bPublish"} => StaleDays' = {}
    PROVE  AloneOf(p)'
BY DEF AloneOf, CleanSteps, HeldSteps, BuildSteps, StochSteps

LEMMA AloneBuild ==
    ASSUME TypeOK, ManifestGrows, SharedExact, NEW p \in Requests, AloneOf(p),
           Build(p) \/ BuildFail(p)
    PROVE  SharedExact' /\ AloneOf(p)'
<1>a. /\ state \in StateType /\ loc \in [Requests -> LocalType]
      /\ pc \in [Requests -> Labels] /\ pc[p] \in {"build"} \cup BuildSteps
    BY DEF TypeOK, Build, JoinFlight, BuildState, BuildSlices, BuildOutputsOnly,
       BuildFingerprintOnly, BuildRecheck, BuildDelete, BuildManifest, BuildRows,
       BuildOutputs, BuildAdopt, BuildFingerprint, BuildPublish, BuildFail, BuildSteps
<1>b. model' = model /\ marks' = marks
    BY ModelOfStep DEF RequestStep, Step
<1>c. /\ marks = {} /\ loc[p].model = Version /\ Version' = Version /\ marks' = {}
      /\ \A d : Content(Version, d)' = Content(Version, d)
    BY <1>a, <1>b, ContentSame DEF AloneOf, BuildSteps, Version
<1>d. ASSUME pc[p] \in BuildSteps \ {"bState"}
      PROVE  /\ state.frozen /\ loc[p].snap.revision = state.revision
             /\ loc[p].snap.dirty = state.dirty /\ Reached(StaleDays, loc[p].snap)
    BY <1>d, AloneReached DEF AloneOf, HeldSteps
<1>1. CASE JoinFlight(p)
  <2>1. pc'[p] \in {"bState", "wait"} /\ loc' = loc
      BY <1>a, <1>1 DEF JoinFlight, Goto
  <2>2. SharedExact'
      BY <1>b, <1>1, SharedSame DEF JoinFlight, store, SameRow
  <2> QED BY <1>b, <1>c, <2>1, <2>2, AloneFree DEF FreeSteps
<1>2. CASE BuildState(p)
  <2>1. /\ pc'[p] = "bSlices" /\ loc'[p].snap = Canonical /\ loc'[p].model = loc[p].model
        /\ state' = Canonical
      BY <1>a, <1>2 DEF BuildState, Goto, LocalType
  <2>2. Canonical.frozen
      BY <1>a DEF Canonical, StateType
  <2>3. SharedExact'
      BY <1>b, <1>2, SharedFreeze DEF BuildState, store
  <2> QED BY <1>c, <2>1, <2>2, <2>3, AloneBuilds DEF BuildSteps
<1>3. CASE BuildSlices(p)
  <2>1. pc[p] = "bSlices" /\ state' = state /\ SharedExact'
      BY <1>b, <1>3, SharedSame DEF BuildSlices, store, SameRow
  <2>2. CASE EndFlight(p, TRUE) /\ complete(loc[p].snap, slices)
    <3>1. state.frozen /\ state.dirty = 0
        BY <1>d, <2>1, <2>2 DEF complete, BuildSteps
    <3> QED BY <1>b, <2>1, <2>2, <3>1, AloneEnd DEF BuildSteps
  <2>3. CASE ~(EndFlight(p, TRUE) /\ complete(loc[p].snap, slices))
    <3>1. /\ loc' = [loc EXCEPT ![p].seen = slices]
          /\ Goto(p, IF complete(loc[p].snap, slices) THEN "bOutputsOnly" ELSE "bRecheck")
        BY <1>3, <2>3 DEF BuildSlices
    <3>2. /\ loc'[p].seen = slices /\ loc'[p].snap = loc[p].snap
          /\ loc'[p].model = loc[p].model
          /\ pc'[p] = IF complete(loc[p].snap, slices) THEN "bOutputsOnly" ELSE "bRecheck"
        BY <1>a, <3>1 DEF Goto, LocalType
    <3>3. CASE complete(loc[p].snap, slices)
      <4>1. state.frozen /\ state.dirty = 0
          BY <1>d, <2>1, <3>3 DEF complete, BuildSteps
      <4>2. loc[p].snap.revision = state.revision /\ loc[p].snap.dirty = state.dirty
          BY <1>d, <2>1 DEF BuildSteps
      <4> QED BY <1>c, <2>1, <3>2, <3>3, <4>1, <4>2
          DEF AloneOf, CleanSteps, HeldSteps, BuildSteps, StochSteps
    <3>4. CASE ~complete(loc[p].snap, slices)
      <4>1. (PastStart(loc[p].snap) => slicesCover(loc[p].seen))'
          BY <3>2 DEF ManifestGrows, ManifestOf, PastStart, slicesCover
      <4> QED BY <1>c, <1>d, <2>1, <3>2, <3>4, <4>1, AloneBuilds DEF BuildSteps
    <3> QED BY <3>3, <3>4
  <2> QED BY <2>2, <2>3
<1>4. CASE BuildOutputsOnly(p)
  <2>1. /\ pc[p] = "bOutputsOnly" /\ pc'[p] = "bFingerprintOnly" /\ loc' = loc
        /\ state' = state /\ rows' = rows /\ stats' = stats /\ slices' = slices
        /\ WriteOutputs(p, "det")
      BY <1>a, <1>4 DEF BuildOutputsOnly, Goto
  <2>2. /\ state.frozen /\ state.dirty = 0 /\ loc[p].snap.revision = state.revision
        /\ loc[p].snap.dirty = state.dirty
      BY <1>d, <2>1 DEF AloneOf, CleanSteps, BuildSteps
  <2>3. SharedExact'
      BY <1>b, <1>c, <2>1, <2>2, SharedOutputs DEF RequestKinds
  <2> QED BY <1>c, <2>1, <2>2, <2>3
      DEF AloneOf, CleanSteps, HeldSteps, BuildSteps, StochSteps
<1>5. CASE BuildFingerprintOnly(p)
  <2>1. pc[p] = "bFingerprintOnly" /\ SameRow /\ SharedExact'
    <3>1. pc[p] = "bFingerprintOnly" /\ SameRow
        BY <1>a, <1>5 DEF BuildFingerprintOnly, PersistFingerprint, SameRow, StateType
    <3> QED BY <1>b, <1>5, <3>1, SharedSame DEF BuildFingerprintOnly, store
  <2>2. state'.frozen /\ state'.dirty = 0
      BY <2>1 DEF AloneOf, CleanSteps, SameRow
  <2>3. (state.revision = loc[p].snap.revision) \in BOOLEAN
      OBVIOUS
  <2> QED BY <1>b, <1>5, <2>1, <2>2, <2>3, AloneEnd DEF BuildFingerprintOnly, BuildSteps
<1>6. CASE BuildRecheck(p)
  <2>1. pc[p] = "bRecheck" /\ state' = state /\ SharedExact'
      BY <1>b, <1>6, SharedSame DEF BuildRecheck, store, SameRow
  <2>2. CASE EndFlight(p, FALSE)
      BY <1>b, <2>1, <2>2, AloneEnd DEF BuildSteps
  <2>3. CASE ~EndFlight(p, FALSE)
    <3>1. /\ loc' = loc
          /\ pc'[p] = IF BeyondHorizon(loc[p].seen, loc[p].snap.dirty)
                      THEN "bOutputs" ELSE "bDelete"
        BY <1>a, <1>6, <2>3 DEF BuildRecheck, Goto
    <3>2. PastStart(loc[p].snap) => slicesCover(loc[p].seen)
        BY <2>1 DEF AloneOf
    <3>3. ASSUME BeyondHorizon(loc[p].seen, loc[p].snap.dirty) PROVE StaleDays' = {}
      <4>1. StaleDays \in SUBSET Slices
          BY DEF StaleDays
      <4>2. StaleDays = {}
          BY <1>d, <2>1, <3>2, <3>3, <4>1, NothingBeyond DEF BuildSteps
      <4>3. rows' = rows
          BY <1>6 DEF BuildRecheck, store
      <4> QED BY <1>c, <4>2, <4>3 DEF StaleDays
    <3>4. (PastStart(loc[p].snap) => slicesCover(loc[p].seen))'
        BY <3>1, <3>2 DEF PastStart, slicesCover, Listed
    <3> QED BY <1>c, <1>d, <2>1, <3>1, <3>3, <3>4, AloneBuilds DEF BuildSteps
  <2> QED BY <2>2, <2>3
<1>7. CASE BuildDelete(p) \/ BuildManifest(p)
  <2>1. /\ pc[p] \in {"bDelete", "bManifest"} /\ pc'[p] \in {"bManifest", "bRows"}
        /\ loc'[p].seen = loc[p].seen /\ loc'[p].snap = loc[p].snap
        /\ loc'[p].model = loc[p].model /\ state' = state
    <3>1. CASE BuildDelete(p)
        BY <1>a, <3>1 DEF BuildDelete, Goto, LocalType
    <3>2. CASE BuildManifest(p)
        BY <1>a, <3>2 DEF BuildManifest, Goto, LocalType
    <3> QED BY <1>7, <3>1, <3>2
  <2>2. (PastStart(loc[p].snap) => slicesCover(loc[p].seen))'
      BY <2>1 DEF AloneOf, PastStart, slicesCover, Listed
  <2>3. SharedExact'
      BY <1>b, <1>d, <1>7, <2>1, SharedDelete, SharedSame
      DEF BuildManifest, SameRow, BuildSteps
  <2> QED BY <1>c, <1>d, <2>1, <2>2, <2>3, AloneBuilds DEF BuildSteps
<1>8. CASE BuildRows(p)
  <2>1. pc[p] = "bRows" /\ pc'[p] = "bOutputs" /\ loc' = loc /\ state' = state
      BY <1>a, <1>8 DEF BuildRows, Goto
  <2> QED BY <1>c, <1>d, <1>8, <2>1, SharedRows, AloneBuilds DEF BuildSteps
<1>9. CASE BuildOutputs(p) \/ BuildAdopt(p)
  <2>1. /\ pc[p] \in {"bOutputs", "bAdopt"} /\ pc'[p] \in {"bAdopt", "bFingerprint"}
        /\ loc'[p].snap = loc[p].snap /\ loc'[p].model = loc[p].model
        /\ state' = state /\ rows' = rows /\ stats' = stats
    <3>1. CASE BuildOutputs(p)
        BY <1>a, <3>1 DEF BuildOutputs, Goto, LocalType
    <3>2. CASE BuildAdopt(p)
        BY <1>a, <3>2 DEF BuildAdopt, Goto, LocalType
    <3> QED BY <1>9, <3>1, <3>2
  <2>2. StaleDays' = {}
      BY <1>c, <2>1 DEF AloneOf, StaleDays
  <2>3. SharedExact'
    <3>1. CASE BuildOutputs(p)
        BY <1>b, <1>c, <1>d, <2>1, <3>1, SharedOutputs
        DEF BuildOutputs, RequestKinds, BuildSteps
    <3>2. CASE BuildAdopt(p)
        BY <1>b, <1>d, <2>1, <3>2, SharedSame DEF BuildAdopt, SameRow, BuildSteps
    <3> QED BY <1>9, <3>1, <3>2
  <2> QED BY <1>c, <1>d, <2>1, <2>2, <2>3, AloneBuilds DEF BuildSteps
<1>10. CASE BuildFingerprint(p)
  <2>1. pc[p] = "bFingerprint" /\ SameRow
      BY <1>a, <1>10 DEF BuildFingerprint, PersistFingerprint, SameRow, StateType
  <2>2. SharedExact' /\ rows' = rows
      BY <1>b, <1>10, <2>1, SharedSame DEF BuildFingerprint, store
  <2>3. CASE EndFlight(p, FALSE)
      BY <1>b, <2>1, <2>2, <2>3, AloneEnd DEF BuildSteps
  <2>4. CASE ~EndFlight(p, FALSE)
    <3>1. pc'[p] = "bPublish" /\ loc' = loc
        BY <1>a, <1>10, <2>4 DEF BuildFingerprint, Goto
    <3>2. StaleDays' = {}
        BY <1>c, <2>1, <2>2 DEF AloneOf, StaleDays
    <3> QED BY <1>c, <1>d, <2>1, <2>2, <3>1, <3>2, AloneBuilds DEF BuildSteps, SameRow
  <2> QED BY <2>3, <2>4
<1>11. CASE BuildPublish(p)
  <2>1. pc[p] = "bPublish" /\ state' = [state EXCEPT !.published = state.revision, !.dirty = 0]
      BY <1>d, <1>11 DEF BuildPublish, Published, BuildSteps
  <2>2. /\ state'.frozen = state.frozen /\ state'.dirty = 0
        /\ state'.revision = state.revision
      BY <1>a, <2>1 DEF StateType
  <2>3. StaleDays = {} /\ state.frozen
      BY <1>d, <2>1 DEF AloneOf, BuildSteps
  <2>4. SharedExact'
      BY <1>b, <1>11, <2>2, <2>3, SharedPublish DEF BuildPublish, store
  <2> QED BY <1>b, <1>11, <2>1, <2>2, <2>3, <2>4, AloneEnd DEF BuildPublish, BuildSteps
<1>12. CASE BuildFail(p)
  <2>1. SharedExact'
      BY <1>b, <1>12, SharedSame DEF BuildFail, store, SameRow
  <2> QED BY <1>b, <1>12, <2>1, AloneEnd DEF BuildFail
<1> QED BY <1>1, <1>2, <1>3, <1>4, <1>5, <1>6, <1>7, <1>8, <1>9, <1>10, <1>11, <1>12
        DEF Build

\* A stochastic run between two of its statements.
LEMMA AloneRuns ==
    ASSUME NEW p \in Requests, marks' = {}, loc'[p].model = Version',
           pc'[p] \in StochSteps \ {"sState", "sReload", "sPublish"},
           state'.frozen, state'.dirty = 0, loc'[p].snap = state',
           pc'[p] = "sOutputs" => ExactTable(stats)'
    PROVE  AloneOf(p)'
BY DEF AloneOf, CleanSteps, HeldSteps, BuildSteps, StochSteps

LEMMA AloneStoch ==
    ASSUME TypeOK, SharedExact, NEW p \in Requests, AloneOf(p), Stoch(p) \/ StochFail(p)
    PROVE  SharedExact' /\ AloneOf(p)'
<1>a. /\ state \in StateType /\ loc \in [Requests -> LocalType]
      /\ pc \in [Requests -> Labels] /\ pc[p] \in StochSteps
    BY DEF TypeOK, Stoch, StochState, StochReload, StochSeed, StochSlices, StochDelete,
       StochStats, StochOutputs, StochRecheck, StochSave, StochPublish, StochFail, StochSteps
<1>b. model' = model /\ marks' = marks /\ rows' = rows /\ slices' = slices
    BY DEF Stoch, StochState, StochReload, StochSeed, StochSlices, StochDelete,
       StochStats, StochOutputs, StochRecheck, StochSave, StochPublish, StochFail, store
<1>c. /\ marks = {} /\ loc[p].model = Version /\ Version' = Version /\ marks' = {}
      /\ \A d : Content(Version, d)' = Content(Version, d)
    BY <1>a, <1>b, ContentSame DEF AloneOf, StochSteps, Version
<1>d. ASSUME pc[p] # "sState"
      PROVE  state.frozen /\ state.dirty = 0
    BY <1>a, <1>d DEF AloneOf, CleanSteps
<1>e. ASSUME pc[p] \notin {"sState", "sReload", "sPublish"}
      PROVE  loc[p].snap = state
    BY <1>a, <1>e DEF AloneOf
<1>1. CASE StochState(p)
  <2>1. SharedExact' /\ state' = Canonical /\ pc[p] = "sState"
      BY <1>b, <1>1, SharedFreeze DEF StochState, store
  <2>2. CASE Leave(p)
      BY <1>b, <2>1, <2>2, AloneLeave
  <2>3. CASE ~Leave(p)
    <3>1. /\ pc'[p] = IF Canonical.dirty > 0 THEN "build" ELSE "sSeed"
          /\ loc'[p].snap = Canonical /\ loc'[p].model = loc[p].model
        BY <1>a, <1>1, <2>3 DEF StochState, Goto, LocalType
    <3>2. CASE Canonical.dirty > 0
        BY <1>b, <1>c, <2>1, <3>1, <3>2, AloneFree DEF FreeSteps
    <3>3. CASE ~(Canonical.dirty > 0)
      <4>1. Canonical.frozen /\ Canonical.dirty = 0
          BY <1>a, <3>3 DEF Canonical, StateType, EarlierOf, FromAt, Midnight
      <4> QED BY <1>c, <2>1, <3>1, <3>3, <4>1, AloneRuns DEF StochSteps
    <3> QED BY <3>2, <3>3
  <2> QED BY <2>2, <2>3
<1>2. CASE StochReload(p)
  <2>1. /\ pc[p] = "sReload" /\ pc'[p] = "sSeed" /\ loc'[p].snap = state
        /\ loc'[p].model = loc[p].model /\ state' = state
      BY <1>a, <1>2 DEF StochReload, Goto, LocalType
  <2>2. SharedExact'
      BY <1>b, <1>2, SharedSame DEF StochReload, store, SameRow
  <2> QED BY <1>c, <1>d, <2>1, <2>2, AloneRuns DEF StochSteps
<1>3. CASE StochSeed(p)
  <2>1. pc[p] = "sSeed" /\ loc[p].snap = state /\ stats' = stats /\ outputs' = outputs
      BY <1>e, <1>3 DEF StochSeed, store
  <2>2. CASE Leave(p) /\ state' = state
    <3>1. SharedExact'
        BY <1>b, <2>1, <2>2, SharedSame DEF SameRow
    <3> QED BY <1>b, <2>2, <3>1, AloneLeave
  <2>3. CASE ~(Leave(p) /\ state' = state)
    <3> DEFINE saved == [state EXCEPT !.seed = loc[p].seed]
    <3>1. /\ state.seed \in {NoSeed, loc[p].seed}
          /\ state' = IF state.seed = NoSeed THEN saved ELSE state
          /\ loc' = [loc EXCEPT ![p].snap = saved] /\ pc'[p] = "sSlices"
        BY <1>a, <1>3, <2>1, <2>3 DEF StochSeed, Goto
    <3>2. state.seed = loc[p].seed => saved = state
        BY <1>a DEF StateType
    <3>3. state' = saved
        BY <3>1, <3>2
    <3>4. loc'[p].snap = state' /\ loc'[p].model = loc[p].model
        BY <1>a, <3>1, <3>3 DEF LocalType
    <3>5. SameRow
        BY <1>a, <3>3 DEF SameRow, StateType
    <3>6. SharedExact'
        BY <1>b, <2>1, <3>5, SharedSame
    <3> QED BY <1>c, <1>d, <2>1, <3>1, <3>4, <3>5, <3>6, AloneRuns DEF StochSteps, SameRow
  <2> QED BY <2>2, <2>3
<1>4. CASE StochSlices(p) \/ StochDelete(p)
  <2>1. /\ pc[p] \in {"sSlices", "sDelete"} /\ pc'[p] \in {"sDelete", "sStats"}
        /\ loc' = loc /\ state' = state /\ outputs' = outputs
      BY <1>a, <1>4 DEF StochSlices, StochDelete, Goto, store
  <2>2. SharedExact'
    <3>1. CASE StochSlices(p)
        BY <1>b, <2>1, <3>1, SharedSame DEF StochSlices, store, SameRow
    <3>2. CASE StochDelete(p)
        BY <1>b, <2>1, <3>2, SharedStats DEF StochDelete, NoRows
    <3> QED BY <1>4, <3>1, <3>2
  <2> QED BY <1>c, <1>d, <1>e, <2>1, <2>2, AloneRuns DEF StochSteps
<1>5. CASE StochStats(p)
  <2>1. /\ pc[p] = "sStats" /\ pc'[p] = "sOutputs" /\ loc' = loc /\ state' = state
        /\ outputs' = outputs /\ stats' = [d \in Days |-> Content(loc[p].model, d)]
      BY <1>a, <1>5 DEF StochStats, Goto
  <2>2. ExactTable(stats)'
    <3>1. Slices \subseteq Days
        BY ConstantsAssumption DEF Slices, Days, End
    <3> QED BY <1>c, <2>1, <3>1 DEF ExactTable
  <2>3. SharedExact'
      BY <1>b, <1>c, <2>1, <2>2, SharedStats DEF ExactTable
  <2> QED BY <1>c, <1>d, <1>e, <2>1, <2>2, <2>3, AloneRuns DEF StochSteps
<1>6. CASE StochOutputs(p)
  <2>1. /\ pc[p] = "sOutputs" /\ pc'[p] = "sRecheck" /\ loc' = loc /\ state' = state
        /\ stats' = stats /\ WriteOutputs(p, "stoch")
      BY <1>a, <1>6 DEF StochOutputs, Goto
  <2>2. SharedExact'
      BY <1>b, <1>c, <1>d, <1>e, <2>1, SharedOutputs DEF AloneOf, RequestKinds
  <2> QED BY <1>c, <1>d, <1>e, <2>1, <2>2, AloneRuns DEF StochSteps
<1>7. CASE StochRecheck(p)
  <2>1. pc[p] = "sRecheck" /\ state' = state /\ SharedExact'
      BY <1>b, <1>7, SharedSame DEF StochRecheck, store, SameRow
  <2>2. CASE Leave(p)
      BY <1>b, <2>1, <2>2, AloneLeave
  <2>3. CASE ~Leave(p)
    <3>1. pc'[p] = "sSave" /\ loc' = loc
        BY <1>a, <1>7, <2>3 DEF StochRecheck, Goto
    <3> QED BY <1>c, <1>d, <1>e, <2>1, <3>1, AloneRuns DEF StochSteps
  <2> QED BY <2>2, <2>3
<1>8. CASE StochSave(p)
  <2>1. /\ pc[p] = "sSave" /\ pc'[p] = "sPublish" /\ loc' = loc
        /\ state' = [loc[p].snap EXCEPT !.stochEval = loc[p].eval]
      BY <1>a, <1>8 DEF StochSave, Goto
  <2>2. SameRow
      BY <1>a, <1>e, <2>1 DEF SameRow, StateType
  <2>3. SharedExact'
      BY <1>b, <1>8, <2>2, SharedSame DEF StochSave, store
  <2> QED BY <1>c, <1>d, <1>e, <2>1, <2>2, <2>3
      DEF AloneOf, CleanSteps, HeldSteps, BuildSteps, StochSteps, SameRow
<1>9. CASE StochPublish(p)
  <2>1. state' = Published(loc[p].snap.revision) /\ Leave(p) /\ pc[p] = "sPublish"
      BY <1>9 DEF StochPublish
  <2>2. SameRow
      BY <1>a, <1>d, <2>1 DEF Published, SameRow, StateType
  <2>3. SharedExact'
      BY <1>b, <1>9, <2>2, SharedSame DEF StochPublish, store
  <2> QED BY <1>b, <2>1, <2>3, AloneLeave
<1>10. CASE StochFail(p)
  <2>1. SharedExact'
      BY <1>b, <1>10, SharedSame DEF StochFail, store, SameRow
  <2> QED BY <1>b, <1>10, <2>1, AloneLeave DEF StochFail
<1> QED BY <1>1, <1>2, <1>3, <1>4, <1>5, <1>6, <1>7, <1>8, <1>9, <1>10 DEF Stoch

\* Writes and marks fall between requests.
LEMMA AloneQuiet ==
    ASSUME AloneInv, marks # {} \/ \A q \in Requests : pc[q] = "idle"
    PROVE  \A q \in Requests : pc[q] = "idle"
BY DEF AloneInv, AloneOf

LEMMA AloneWrite ==
    ASSUME TypeOK, Alone, AloneInv, NEW i \in WriteInstants, CommitWrite(i)
    PROVE  AloneInv'
<1>1. /\ i \in Nat /\ marks = {} /\ \A q \in Requests : pc[q] = "idle"
      /\ model' = Append(model, DayOf(i)) /\ marks' = {<<Version + 1, i>>}
      /\ rows' = rows /\ stats' = stats /\ slices' = slices /\ outputs' = outputs
      /\ state' = state /\ pc' = pc /\ loc' = loc
    BY ConstantsAssumption DEF CommitWrite, Alone, store
<1>2. StaleReached'
    BY WriteReaches DEF AloneInv, SharedExact
<1>3. OutputsExact' /\ StochExact'
    BY <1>1 DEF AloneInv, SharedExact, OutputsExact, StochExact
<1>4. \A q \in Requests : AloneOf(q)'
    BY <1>1 DEF AloneOf, CleanSteps, HeldSteps, BuildSteps, StochSteps
<1> QED BY <1>1, <1>2, <1>3, <1>4 DEF AloneInv, SharedExact

LEMMA AloneMark ==
    ASSUME TypeOK, AloneInv, NEW m \in marks, MarkProjectionDirty(m)
    PROVE  AloneInv'
<1>1. /\ model' = model /\ rows' = rows /\ stats' = stats /\ slices' = slices
      /\ outputs' = outputs /\ pc' = pc /\ loc' = loc
      /\ state'.frozen = state.frozen /\ state'.revision = state.revision + 1
    BY DEF MarkProjectionDirty, TypeOK, StateType, store
<1>2. \A q \in Requests : pc[q] = "idle"
    BY AloneQuiet
<1>3. StaleReached'
    BY MarkReaches DEF AloneInv, SharedExact
<1>4. \A k \in RequestKinds : outputs[k].revision <= state.revision =>
          outputs[k].revision # state'.revision /\ outputs[k].revision <= state'.revision
  <2>1. state.revision \in Nat /\ \A k \in RequestKinds : outputs[k].revision \in Int
      BY DEF TypeOK, StateType, OutputType, Revisions, NoRev
  <2> QED BY <1>1, <2>1
<1>5. OutputsExact' /\ StochExact'
    BY <1>1, <1>4 DEF AloneInv, SharedExact, OutputsExact, StochExact, RequestKinds
<1>6. \A q \in Requests : AloneOf(q)'
    BY <1>1, <1>2 DEF AloneOf, CleanSteps, HeldSteps, BuildSteps, StochSteps
<1> QED BY <1>1, <1>3, <1>5, <1>6 DEF AloneInv, SharedExact

LEMMA AloneStep ==
    ASSUME Alone
    PROVE  TypeOK /\ ManifestGrows /\ AloneInv /\ [Next]_vars => AloneInv'
<1> SUFFICES ASSUME TypeOK, ManifestGrows, AloneInv, [Next]_vars
             PROVE  AloneInv'
    OBVIOUS
<1>1. ASSUME NEW p \in Requests, RequestStep(p) PROVE AloneInv'
  <2>1. SharedExact /\ AloneOf(p)
      BY DEF AloneInv
  <2>2. SharedExact' /\ AloneOf(p)'
      BY <1>1, <2>1, AloneStart, AloneRead, AloneBuild, AloneStoch DEF RequestStep, Step
  <2> QED BY <2>2, AloneEnough DEF AloneInv
<1>2. CASE Crash
  <2>1. /\ marks = {} /\ marks' = {} /\ model' = model /\ rows' = rows /\ stats' = stats
        /\ slices' = slices /\ outputs' = outputs /\ state' = state
        /\ \A q \in Requests : pc'[q] = "idle"
      BY <1>2 DEF Crash, store, Alone
  <2>2. SharedExact'
      BY <2>1, SharedSame DEF AloneInv, SameRow
  <2>3. \A q \in Requests : AloneOf(q)'
      BY <2>1 DEF AloneOf, CleanSteps, HeldSteps, BuildSteps, StochSteps
  <2> QED BY <2>2, <2>3 DEF AloneInv
<1>3. CASE UNCHANGED vars
  <2>1. /\ model' = model /\ marks' = marks /\ rows' = rows /\ stats' = stats
        /\ slices' = slices /\ outputs' = outputs /\ state' = state /\ pc' = pc
        /\ loc' = loc
      BY <1>3 DEF vars, store
  <2>2. /\ \A d : Content(Version, d)' = Content(Version, d)
        /\ Version' = Version /\ StaleDays' = StaleDays
      BY <2>1, ContentSame DEF Version, StaleDays
  <2>3. SharedExact'
      BY <2>1, SharedSame DEF AloneInv, SameRow
  <2>4. ASSUME NEW q \in Requests PROVE AloneOf(q)'
    <3>1. AloneOf(q) /\ \A t : ExactTable(t) => \A d \in Slices : t[d] = Content(Version, d)'
        BY <2>2 DEF AloneInv, ExactTable
    <3> QED BY <2>1, <2>2, <3>1 DEF AloneOf, ExactTable, PastStart, slicesCover, Listed
  <2> QED BY <2>3, <2>4 DEF AloneInv
<1> QED BY <1>1, <1>2, <1>3, AloneWrite, AloneMark DEF Next, RequestStep

\* Deterministic and stochastic requests, one after another: a suffix rebuild
\* deletes statistics, a stochastic run writes old rows back, and any statement of
\* either may fail or be the last before a crash; what is served with evaluations
\* is the projection of the current model.  Two different tables are excluded here
\* too: a build that fails between its outputs and its fingerprint leaves the
\* tables of one request under the fingerprint of another.
THEOREM AloneAlwaysExact ==
    ASSUME Alone, \A e, f \in Evals \ {EmptyEval} : e = f
    PROVE  Spec => []ServedExact
<1>1. Init => AloneInv
  <2> SUFFICES ASSUME Init PROVE AloneInv
      OBVIOUS
  <2>1. Listed(slices) = {}
      BY DEF Init, NoSlices, Listed
  <2>2. StaleReached /\ OutputsExact /\ StochExact
      BY DEF Init, NoState, NoOutputs, NoRev, RequestKinds, StaleReached, OutputsExact,
         StochExact
  <2>3. \A q \in Requests : AloneOf(q)
      BY DEF Init, AloneOf, CleanSteps, HeldSteps, BuildSteps, StochSteps
  <2> QED BY <2>1, <2>2, <2>3 DEF AloneInv, SharedExact
<1>2. Spec => []ManifestGrows
    BY ManifestInit, ManifestStep, TypeCorrect, PTL DEF Spec
<1>3. TypeOK /\ ManifestGrows /\ AloneInv /\ [Next]_vars => AloneInv'
    BY AloneStep
<1>4. TypeOK /\ AloneInv => ServedExact
  <2> SUFFICES ASSUME TypeOK, AloneInv, NEW p \in Requests, pc[p] = "served",
                      loc[p].kind = "det" \/ loc[p].eval # EmptyEval
               PROVE  CurrentResponse(p)
      BY DEF ServedExact
  <2>1. Days \ {End} = Slices
      BY ConstantsAssumption DEF Days, End, Slices
  <2>2. loc[p].eval \in Evals
      BY DEF TypeOK, LocalType
  <2> QED BY <2>1, <2>2 DEF AloneInv, AloneOf, ExactTable, CurrentResponse
<1> QED BY <1>1, <1>2, <1>3, <1>4, TypeCorrect, PTL DEF Spec

-----------------------------------------------------------------------------
(* Shared runs and their streams.                                          *)

(* The inductive invariant.                                                *)

\* The goroutine of a run is started once: an owner that has not started its
\* run yet finds it created, and no run has two such owners.
OwnersStartOnce ==
    /\ \A s \in Streams :
         stage[s] = "body" /\ owner[s] => phase[run[s]] = "created"
    /\ \A s, t \in Streams :
         s # t /\ stage[s] = "body" /\ stage[t] = "body" /\ owner[s] /\ owner[t]
            => run[s] # run[t]

\* done is closed only after the outcome is stored, and only then does a
\* stream close.
OutcomeStored ==
    /\ \A r \in Runs : Finished(r) => outcome[r] # "none"
    /\ \A s \in Streams : stage[s] = "closed" => Finished(run[s])

\* Only a listening stream has anything in its channel, and it has not been
\* shown more than the run has published.
ChannelOfListener ==
    \A s \in Streams :
        /\ stage[s] # "listening" => ch[s] = <<>>
        /\ stage[s] = "listening" => shown[s] <= latest[run[s]]

IndInv ==
    /\ RunsTypeOK
    /\ ActiveRegistered
    /\ OwnersStartOnce
    /\ OutcomeStored
    /\ TerminalIsOutcome
    /\ ChannelOfListener
    /\ ProgressInOrder
-----------------------------------------------------------------------------
(* Types.                                                                  *)

LEMMA RunsTypeStep == RunsTypeOK /\ [RunsNext]_sharedVars => RunsTypeOK'
<1> SUFFICES ASSUME RunsTypeOK, [RunsNext]_sharedVars PROVE RunsTypeOK'
    OBVIOUS
<1> USE RunsAssumption
<1>1. ASSUME NEW s \in Streams, NEW k \in Keys, Attach(s, k) PROVE RunsTypeOK'
    BY <1>1 DEF RunsTypeOK, Phases, StreamPcs, Outcomes, Attach, runVars
<1>2. ASSUME NEW s \in Streams, NEW k \in Keys, NEW r \in Runs,
             Create(s, k, r) PROVE RunsTypeOK'
    BY <1>2 DEF RunsTypeOK, Phases, StreamPcs, Outcomes, Create
<1>3. ASSUME NEW s \in Streams, StartBody(s) PROVE RunsTypeOK'
    BY <1>3 DEF RunsTypeOK, Phases, StreamPcs, Outcomes, StartBody
<1>4. ASSUME NEW s \in Streams, Subscribe(s) PROVE RunsTypeOK'
  <2>1. run[s] \in Runs
    BY <1>4 DEF RunsTypeOK, Subscribe
  <2>2. outcome[run[s]] \in Outcomes /\ latest[run[s]] \in Nat
    BY <2>1 DEF RunsTypeOK
  <2>3. final' \in [Streams -> Outcomes] /\ shown' \in [Streams -> Nat]
    BY <1>4, <2>2 DEF RunsTypeOK, Subscribe
  <2>4. stage' \in [Streams -> StreamPcs] /\ \A t \in Streams : t # s => stage'[t] = stage[t]
    BY <1>4 DEF RunsTypeOK, StreamPcs, Subscribe
  <2> QED BY <1>4, <2>1, <2>3, <2>4 DEF RunsTypeOK, Subscribe, runVars
<1>5. ASSUME NEW s \in Streams, Receive(s) PROVE RunsTypeOK'
    BY <1>5 DEF RunsTypeOK, Phases, StreamPcs, Outcomes, Receive, runVars
<1>6. ASSUME NEW s \in Streams, Terminate(s) PROVE RunsTypeOK'
    BY <1>6 DEF RunsTypeOK, Phases, StreamPcs, Outcomes, Terminate, Finished,
       runVars
<1>7. ASSUME NEW s \in Streams, Disconnect(s) PROVE RunsTypeOK'
    BY <1>7 DEF RunsTypeOK, Phases, StreamPcs, Outcomes, Disconnect, runVars
<1>8. ASSUME NEW s \in Streams, Reuse(s) PROVE RunsTypeOK'
    BY <1>8 DEF RunsTypeOK, Phases, StreamPcs, Outcomes, Reuse, runVars
<1>9. ASSUME NEW r \in Runs, Publish(r) PROVE RunsTypeOK'
    BY <1>9 DEF RunsTypeOK, Phases, StreamPcs, Outcomes, Publish, Subscribed,
       Deliver
<1>10. ASSUME NEW r \in Runs, NEW o \in {"result", "error"}, Finish(r, o)
       PROVE  RunsTypeOK'
    BY <1>10 DEF RunsTypeOK, Phases, StreamPcs, Outcomes, Finish
<1>11. ASSUME NEW r \in Runs, RemoveSharedRun(r) PROVE RunsTypeOK'
    BY <1>11 DEF RunsTypeOK, Phases, StreamPcs, Outcomes, RemoveSharedRun
<1>12. ASSUME NEW s \in Streams, RefuseBody(s) PROVE RunsTypeOK'
    BY <1>12 DEF RunsTypeOK, Phases, StreamPcs, Outcomes, RefuseBody
<1>13. CASE UNCHANGED sharedVars
    BY <1>13 DEF RunsTypeOK, sharedVars
<1> QED BY <1>1, <1>2, <1>3, <1>4, <1>5, <1>6, <1>7, <1>8, <1>9, <1>10, <1>11,
       <1>12, <1>13
       DEF RunsNext, Stream, Compute

LEMMA RunsTypeInit == RunsInit => RunsTypeOK
BY RunsAssumption DEF RunsInit, RunsTypeOK, Phases, StreamPcs, Outcomes

\* Type correctness of the registry and of every stream, for every instance.
THEOREM RunsTypeCorrect == RunsSpec => []RunsTypeOK
BY RunsTypeInit, RunsTypeStep, PTL DEF RunsSpec
-----------------------------------------------------------------------------
(* Every step keeps the invariant.                                         *)

\* One step per action, and under it one per part the action can disturb.
LEMMA InvariantStep == IndInv /\ [RunsNext]_sharedVars => IndInv'
<1> SUFFICES ASSUME IndInv, [RunsNext]_sharedVars PROVE IndInv'
    OBVIOUS
<1> USE RunsAssumption
<1>0. RunsTypeOK'
    BY RunsTypeStep DEF IndInv
<1>1. ASSUME NEW s \in Streams, NEW k \in Keys, Attach(s, k) PROVE IndInv'
  <2>1. ActiveRegistered'
    BY <1>1 DEF IndInv, ActiveRegistered, Active, Attach, runVars
  <2>2. OwnersStartOnce'
    BY <1>1 DEF IndInv, RunsTypeOK, OwnersStartOnce, Attach, runVars
  <2>3. OutcomeStored'
    BY <1>1 DEF IndInv, RunsTypeOK, OutcomeStored, Finished, Attach, runVars
  <2>4. TerminalIsOutcome'
    BY <1>1 DEF IndInv, RunsTypeOK, TerminalIsOutcome, Attach, runVars
  <2>5. ChannelOfListener'
    BY <1>1 DEF IndInv, RunsTypeOK, ChannelOfListener, Attach, runVars
  <2>6. ProgressInOrder'
    BY <1>1 DEF IndInv, RunsTypeOK, ProgressInOrder, Attach, runVars
  <2> QED BY <1>0, <2>1, <2>2, <2>3, <2>4, <2>5, <2>6 DEF IndInv
<1>2. ASSUME NEW s \in Streams, NEW k \in Keys, NEW r \in Runs,
             Create(s, k, r) PROVE IndInv'
  <2>1. ActiveRegistered'
    BY <1>2 DEF IndInv, RunsTypeOK, ActiveRegistered, Active, Create
  <2>2. OwnersStartOnce'
    BY <1>2 DEF IndInv, RunsTypeOK, OwnersStartOnce, Create
  <2>3. OutcomeStored'
    BY <1>2 DEF IndInv, RunsTypeOK, OutcomeStored, Finished, Create
  <2>4. TerminalIsOutcome'
    BY <1>2 DEF IndInv, RunsTypeOK, TerminalIsOutcome, Create
  <2>5. ChannelOfListener'
    BY <1>2 DEF IndInv, RunsTypeOK, ChannelOfListener, Create
  <2>6. ProgressInOrder'
    BY <1>2 DEF IndInv, RunsTypeOK, ProgressInOrder, Create
  <2> QED BY <1>0, <2>1, <2>2, <2>3, <2>4, <2>5, <2>6 DEF IndInv
<1>3. ASSUME NEW s \in Streams, StartBody(s) PROVE IndInv'
  <2>1. ActiveRegistered'
    BY <1>3 DEF IndInv, RunsTypeOK, ActiveRegistered, Active, OwnersStartOnce,
       StartBody
  <2>2. OwnersStartOnce'
    BY <1>3 DEF IndInv, RunsTypeOK, OwnersStartOnce, StartBody
  <2>3. OutcomeStored'
    BY <1>3 DEF IndInv, RunsTypeOK, OutcomeStored, Finished, OwnersStartOnce,
       StartBody
  <2>4. TerminalIsOutcome'
    BY <1>3 DEF IndInv, RunsTypeOK, TerminalIsOutcome, StartBody
  <2>5. ChannelOfListener'
    BY <1>3 DEF IndInv, RunsTypeOK, ChannelOfListener, StartBody
  <2>6. ProgressInOrder'
    BY <1>3 DEF IndInv, RunsTypeOK, ProgressInOrder, StartBody
  <2> QED BY <1>0, <2>1, <2>2, <2>3, <2>4, <2>5, <2>6 DEF IndInv
<1>4. ASSUME NEW s \in Streams, Subscribe(s) PROVE IndInv'
  <2>1. ActiveRegistered'
    BY <1>4 DEF IndInv, ActiveRegistered, Active, Subscribe, runVars
  <2>2. OwnersStartOnce'
    <3>1. /\ run' = run /\ owner' = owner /\ phase' = phase
          /\ \A t \in Streams : stage'[t] = "body" => stage[t] = "body"
      BY <1>4 DEF IndInv, RunsTypeOK, Subscribe, runVars
    <3> QED BY <3>1 DEF IndInv, OwnersStartOnce
  <2>3. OutcomeStored'
    BY <1>4 DEF IndInv, RunsTypeOK, OutcomeStored, Finished, Subscribe, runVars
  <2>4. TerminalIsOutcome'
    <3>1. /\ run' = run /\ outcome' = outcome
          /\ run[s] \in Runs
          /\ \A t \in Streams \ {s} : stage'[t] = stage[t] /\ final'[t] = final[t]
      BY <1>4 DEF IndInv, RunsTypeOK, Subscribe, runVars
    <3>2. stage'[s] = "closed" => final'[s] = outcome[run[s]] /\ Finished(run[s])
      BY <1>4 DEF IndInv, RunsTypeOK, Subscribe
    <3> QED BY <3>1, <3>2 DEF IndInv, TerminalIsOutcome, OutcomeStored
  <2>5. ChannelOfListener'
    BY <1>4 DEF IndInv, RunsTypeOK, ChannelOfListener, Subscribe, Finished,
       runVars
  <2>6. ProgressInOrder'
    <3>1. ch[s] = <<>> /\ ch' = ch
      BY <1>4 DEF IndInv, ChannelOfListener, Subscribe
    <3>2. \A t \in Streams : t # s => stage'[t] = stage[t] /\ shown'[t] = shown[t]
      BY <1>4 DEF IndInv, RunsTypeOK, Subscribe
    <3> QED BY <1>4, <3>1, <3>2 DEF IndInv, ProgressInOrder, Subscribe, runVars
  <2> QED BY <1>0, <2>1, <2>2, <2>3, <2>4, <2>5, <2>6 DEF IndInv
<1>5. ASSUME NEW s \in Streams, Receive(s) PROVE IndInv'
  <2>1. /\ ActiveRegistered'
         /\ OwnersStartOnce'
         /\ OutcomeStored'
         /\ TerminalIsOutcome'
    BY <1>5 DEF IndInv, ActiveRegistered, Active, OwnersStartOnce,
       OutcomeStored, Finished, TerminalIsOutcome, Receive, runVars
  <2>2. ChannelOfListener'
    BY <1>5 DEF IndInv, RunsTypeOK, ChannelOfListener, ProgressInOrder, Receive,
       runVars
  <2>3. ProgressInOrder'
    <3>1. ch[s] \in Seq(Nat) /\ ch[s] # <<>>
      BY <1>5 DEF IndInv, RunsTypeOK, Receive
    <3>2. /\ shown'[s] = ch[s][1]
          /\ ch'[s] \in Seq(Nat)
          /\ Len(ch'[s]) = Len(ch[s]) - 1
          /\ \A i \in 1..Len(ch'[s]) : ch'[s][i] = ch[s][i + 1]
      BY <1>5, <3>1 DEF IndInv, RunsTypeOK, Receive
    <3>3. \A t \in Streams : t # s => ch'[t] = ch[t] /\ shown'[t] = shown[t]
      BY <1>5 DEF IndInv, RunsTypeOK, Receive
    <3>4. \A i \in DOMAIN ch'[s] : i + 1 \in DOMAIN ch[s] /\ 1 \in DOMAIN ch[s]
      BY <3>1, <3>2
    <3>5. /\ \A i \in DOMAIN ch'[s] : shown'[s] < ch'[s][i]
          /\ \A i \in DOMAIN ch'[s] : ch'[s][i] <= latest[run[s]]
      BY <1>5, <3>1, <3>2, <3>4 DEF IndInv, ProgressInOrder, Receive
    <3>6. \A i, j \in DOMAIN ch'[s] : i < j => ch'[s][i] < ch'[s][j]
      BY <1>5, <3>1, <3>2, <3>4 DEF IndInv, ProgressInOrder, Receive
    <3> QED BY <1>5, <3>3, <3>5, <3>6 DEF IndInv, ProgressInOrder, Receive, runVars
  <2> QED BY <1>0, <2>1, <2>2, <2>3 DEF IndInv
<1>6. ASSUME NEW s \in Streams, Terminate(s) PROVE IndInv'
  <2>1. ActiveRegistered'
    BY <1>6 DEF IndInv, ActiveRegistered, Active, Terminate, runVars
  <2>2. OwnersStartOnce'
    BY <1>6 DEF IndInv, RunsTypeOK, OwnersStartOnce, Terminate, Finished, runVars
  <2>3. OutcomeStored'
    BY <1>6 DEF IndInv, RunsTypeOK, OutcomeStored, Finished, Terminate, runVars
  <2>4. TerminalIsOutcome'
    <3>1. /\ run' = run /\ outcome' = outcome
          /\ run[s] \in Runs
          /\ \A t \in Streams \ {s} : stage'[t] = stage[t] /\ final'[t] = final[t]
      BY <1>6 DEF IndInv, RunsTypeOK, Terminate, runVars
    <3>2. final'[s] = outcome[run[s]] /\ Finished(run[s])
      BY <1>6 DEF IndInv, RunsTypeOK, Terminate
    <3> QED BY <3>1, <3>2 DEF IndInv, TerminalIsOutcome, OutcomeStored
  <2>5. ChannelOfListener'
    BY <1>6 DEF IndInv, RunsTypeOK, ChannelOfListener, Terminate, Finished,
       runVars
  <2>6. ProgressInOrder'
    BY <1>6 DEF IndInv, RunsTypeOK, ProgressInOrder, Terminate, Finished, runVars
  <2> QED BY <1>0, <2>1, <2>2, <2>3, <2>4, <2>5, <2>6 DEF IndInv
<1>7. ASSUME NEW s \in Streams, Disconnect(s) PROVE IndInv'
  <2>1. ActiveRegistered'
    BY <1>7 DEF IndInv, ActiveRegistered, Active, Disconnect, runVars
  <2>2. OwnersStartOnce'
    BY <1>7 DEF IndInv, RunsTypeOK, OwnersStartOnce, Disconnect, runVars
  <2>3. OutcomeStored'
    BY <1>7 DEF IndInv, RunsTypeOK, OutcomeStored, Finished, Disconnect, runVars
  <2>4. TerminalIsOutcome'
    BY <1>7 DEF IndInv, RunsTypeOK, TerminalIsOutcome, Disconnect, runVars
  <2>5. ChannelOfListener'
    BY <1>7 DEF IndInv, RunsTypeOK, ChannelOfListener, Disconnect, runVars
  <2>6. ProgressInOrder'
    BY <1>7 DEF IndInv, RunsTypeOK, ProgressInOrder, Disconnect, runVars
  <2> QED BY <1>0, <2>1, <2>2, <2>3, <2>4, <2>5, <2>6 DEF IndInv
<1>8. ASSUME NEW s \in Streams, Reuse(s) PROVE IndInv'
  <2>1. ActiveRegistered'
    BY <1>8 DEF IndInv, ActiveRegistered, Active, Reuse, runVars
  <2>2. OwnersStartOnce'
    BY <1>8 DEF IndInv, RunsTypeOK, OwnersStartOnce, Reuse, runVars
  <2>3. OutcomeStored'
    BY <1>8 DEF IndInv, RunsTypeOK, OutcomeStored, Finished, Reuse, runVars
  <2>4. TerminalIsOutcome'
    BY <1>8 DEF IndInv, RunsTypeOK, TerminalIsOutcome, Reuse, runVars
  <2>5. ChannelOfListener'
    BY <1>8 DEF IndInv, RunsTypeOK, ChannelOfListener, Reuse, runVars
  <2>6. ProgressInOrder'
    BY <1>8 DEF IndInv, RunsTypeOK, ProgressInOrder, Reuse, runVars
  <2> QED BY <1>0, <2>1, <2>2, <2>3, <2>4, <2>5, <2>6 DEF IndInv
<1>9. ASSUME NEW r \in Runs, Publish(r) PROVE IndInv'
  <2>1. /\ ActiveRegistered'
         /\ OwnersStartOnce'
         /\ OutcomeStored'
         /\ TerminalIsOutcome'
    BY <1>9 DEF IndInv, ActiveRegistered, Active, OwnersStartOnce,
       OutcomeStored, Finished, TerminalIsOutcome, Publish
  <2>2. ChannelOfListener'
    BY <1>9 DEF IndInv, RunsTypeOK, ChannelOfListener, Publish, Subscribed,
       Deliver
  <2>3. ProgressInOrder'
    <3> SUFFICES ASSUME NEW t \in Streams, stage'[t] = "listening"
                 PROVE  /\ \A i \in DOMAIN ch'[t] :
                             shown'[t] < ch'[t][i] /\ ch'[t][i] <= latest'[run'[t]]
                        /\ \A i, j \in DOMAIN ch'[t] : i < j => ch'[t][i] < ch'[t][j]
      BY DEF ProgressInOrder
    <3>1. /\ stage[t] = "listening" /\ run'[t] = run[t] /\ shown'[t] = shown[t]
          /\ run[t] \in Runs /\ latest[run[t]] \in Nat /\ shown[t] \in Nat
          /\ ch[t] \in Seq(Nat) /\ shown[t] <= latest[run[t]]
          /\ \A i \in DOMAIN ch[t] : shown[t] < ch[t][i] /\ ch[t][i] <= latest[run[t]]
          /\ \A i, j \in DOMAIN ch[t] : i < j => ch[t][i] < ch[t][j]
      BY <1>9 DEF IndInv, RunsTypeOK, ProgressInOrder, ChannelOfListener, Publish
    <3>2. CASE ch'[t] = ch[t]
      <4>1. latest[run[t]] <= latest'[run[t]]
        BY <1>9, <3>1 DEF IndInv, RunsTypeOK, Publish
      <4>2. latest'[run[t]] \in Nat
        BY <1>9, <3>1 DEF IndInv, RunsTypeOK, Publish
      <4> QED BY <3>1, <3>2, <4>1, <4>2
    <3>3. CASE ch'[t] # ch[t]
      <4>1. /\ run[t] = r
            /\ ch'[t] = Append(ch[t], latest[r] + 1)
            /\ latest'[r] = latest[r] + 1
        BY <1>9, <3>1, <3>3 DEF IndInv, RunsTypeOK, Publish, Subscribed, Deliver
      <4> DEFINE n == Len(ch[t])
      <4>2. /\ n \in Nat /\ DOMAIN ch[t] = 1..n /\ DOMAIN ch'[t] = 1..(n + 1)
            /\ \A i \in 1..n : ch'[t][i] = ch[t][i] /\ ch[t][i] \in Nat
            /\ ch'[t][n + 1] = latest[r] + 1
        BY <3>1, <4>1
      <4>3. \A i \in 1..(n + 1) : i # n + 1 => i \in 1..n
        BY <4>2
      <4> HIDE DEF n
      <4>4. /\ shown[t] \in Nat /\ latest[r] \in Nat /\ shown[t] <= latest[r]
            /\ \A i \in 1..n : shown[t] < ch'[t][i] /\ ch'[t][i] <= latest[r]
            /\ \A i, j \in 1..n : i < j => ch'[t][i] < ch'[t][j]
        BY <3>1, <4>1, <4>2
      <4>5. \A i \in 1..(n + 1) :
               shown[t] < ch'[t][i] /\ ch'[t][i] <= latest[r] + 1
        <5> TAKE i \in 1..(n + 1)
        <5>1. CASE i = n + 1
          BY <4>2, <4>4, <5>1
        <5>2. CASE i \in 1..n
          <6>1. ch'[t][i] \in Nat
            BY <4>2, <5>2
          <6> QED BY <4>4, <5>2, <6>1
        <5> QED BY <4>3, <5>1, <5>2
      <4>6. \A i, j \in 1..(n + 1) : i < j => ch'[t][i] < ch'[t][j]
        <5> TAKE i, j \in 1..(n + 1)
        <5> HAVE i < j
        <5>1. i \in 1..n
          BY <4>2
        <5>2. CASE j = n + 1
          <6>1. ch'[t][i] \in Nat /\ ch'[t][i] <= latest[r]
            BY <4>2, <4>4, <5>1
          <6> QED BY <4>2, <4>4, <5>2, <6>1
        <5>3. CASE j \in 1..n
          BY <4>4, <5>1, <5>3
        <5> QED BY <4>3, <5>2, <5>3
      <4> QED BY <3>1, <4>1, <4>2, <4>5, <4>6
    <3> QED BY <3>2, <3>3
  <2> QED BY <1>0, <2>1, <2>2, <2>3 DEF IndInv
<1>10. ASSUME NEW r \in Runs, NEW o \in {"result", "error"}, Finish(r, o)
       PROVE  IndInv'
  <2>1. ChannelOfListener' /\ ProgressInOrder'
    BY <1>10 DEF IndInv, ChannelOfListener, ProgressInOrder, Finish
  <2>2. ActiveRegistered'
    BY <1>10 DEF IndInv, RunsTypeOK, ActiveRegistered, Active, Finish
  <2>3. OwnersStartOnce'
    BY <1>10 DEF IndInv, RunsTypeOK, OwnersStartOnce, Finish
  <2>4. OutcomeStored'
    BY <1>10 DEF IndInv, RunsTypeOK, OutcomeStored, Finished, Finish
  <2>5. TerminalIsOutcome'
    BY <1>10 DEF IndInv, RunsTypeOK, TerminalIsOutcome, OutcomeStored, Finished,
       Finish
  <2> QED BY <1>0, <2>1, <2>2, <2>3, <2>4, <2>5 DEF IndInv
<1>11. ASSUME NEW r \in Runs, RemoveSharedRun(r) PROVE IndInv'
  <2>1. TerminalIsOutcome' /\ ChannelOfListener' /\ ProgressInOrder'
    BY <1>11 DEF IndInv, TerminalIsOutcome, ChannelOfListener,
       ProgressInOrder, RemoveSharedRun
  <2>2. ActiveRegistered'
    BY <1>11 DEF IndInv, RunsTypeOK, ActiveRegistered, Active, RemoveSharedRun
  <2>3. OwnersStartOnce'
    BY <1>11 DEF IndInv, RunsTypeOK, OwnersStartOnce, RemoveSharedRun
  <2>4. OutcomeStored'
    BY <1>11 DEF IndInv, RunsTypeOK, OutcomeStored, Finished, RemoveSharedRun
  <2> QED BY <1>0, <2>1, <2>2, <2>3, <2>4 DEF IndInv
<1>12. ASSUME NEW s \in Streams, RefuseBody(s) PROVE IndInv'
  <2>1. ActiveRegistered'
    BY <1>12 DEF IndInv, RunsTypeOK, ActiveRegistered, Active, OwnersStartOnce,
       RefuseBody
  <2>2. OwnersStartOnce'
    BY <1>12 DEF IndInv, RunsTypeOK, OwnersStartOnce, RefuseBody
  <2>3. OutcomeStored'
    BY <1>12 DEF IndInv, RunsTypeOK, OutcomeStored, Finished, OwnersStartOnce,
       RefuseBody
  <2>4. TerminalIsOutcome'
    BY <1>12 DEF IndInv, RunsTypeOK, TerminalIsOutcome, RefuseBody
  <2>5. ChannelOfListener'
    BY <1>12 DEF IndInv, RunsTypeOK, ChannelOfListener, RefuseBody
  <2>6. ProgressInOrder'
    BY <1>12 DEF IndInv, RunsTypeOK, ProgressInOrder, RefuseBody
  <2> QED BY <1>0, <2>1, <2>2, <2>3, <2>4, <2>5, <2>6 DEF IndInv
<1>13. CASE UNCHANGED sharedVars
    BY <1>0, <1>13 DEF IndInv, ActiveRegistered, OwnersStartOnce,
       OutcomeStored, TerminalIsOutcome, ChannelOfListener, ProgressInOrder,
       Active, Finished, sharedVars
<1> QED BY <1>1, <1>2, <1>3, <1>4, <1>5, <1>6, <1>7, <1>8, <1>9, <1>10, <1>11,
       <1>12, <1>13
       DEF RunsNext, Stream, Compute

LEMMA InvariantInit == RunsInit => IndInv
BY RunsTypeInit, RunsAssumption DEF RunsInit, IndInv, ActiveRegistered, Active,
   OwnersStartOnce, OutcomeStored, Finished, TerminalIsOutcome,
   ChannelOfListener, ProgressInOrder

LEMMA Invariant == RunsSpec => []IndInv
BY InvariantInit, InvariantStep, PTL DEF RunsSpec

\* The registry knows every run in progress under its key, so identical
\* requests never compute twice at once.
THEOREM RunsRegistered == RunsSpec => []ActiveRegistered
<1>1. IndInv => ActiveRegistered
    BY DEF IndInv
<1> QED BY <1>1, Invariant, PTL

\* The terminal event of every stream is the stored outcome of its run, however
\* subscription, completion and eviction interleave.
THEOREM TerminalCorrect == RunsSpec => []TerminalIsOutcome
<1>1. IndInv => TerminalIsOutcome
    BY DEF IndInv
<1> QED BY <1>1, Invariant, PTL

\* Progress reaches every stream in order, whatever the capacity of its channel
\* and whatever it misses.
THEOREM ProgressOrdered == RunsSpec => []ProgressInOrder
<1>1. IndInv => ProgressInOrder
    BY DEF IndInv
<1> QED BY <1>1, Invariant, PTL

\* What a stream is told is true of its run, for any number of streams and runs
\* and any channel capacity.
THEOREM StreamsAlwaysFaithful == RunsSpec => []StreamsFaithful
BY TerminalCorrect, ProgressOrdered, PTL DEF StreamsFaithful
-----------------------------------------------------------------------------
(* Only a full channel misses an event.                                    *)

\* Only an attach, a read and a publication concern what a listener has been
\* given; every other step leaves the listeners that remain as they were.
LEMMA OnlyFullStep == IndInv /\ OnlyFullChannelsMiss /\ [RunsNext]_sharedVars => OnlyFullChannelsMiss'
<1> SUFFICES ASSUME IndInv, OnlyFullChannelsMiss, [RunsNext]_sharedVars,
                    NEW t \in Streams, stage'[t] = "listening",
                    ~missed'[t]
             PROVE  /\ Len(ch'[t]) = latest'[run'[t]] - shown'[t]
                    /\ \A i \in 1..Len(ch'[t]) : ch'[t][i] = shown'[t] + i
    BY DEF OnlyFullChannelsMiss
<1> USE RunsAssumption
<1> DEFINE Goal == /\ Len(ch'[t]) = latest'[run'[t]] - shown'[t]
                   /\ \A i \in 1..Len(ch'[t]) : ch'[t][i] = shown'[t] + i
           Same == /\ stage[t] = "listening" /\ run'[t] = run[t]
                   /\ ch'[t] = ch[t] /\ shown'[t] = shown[t]
                   /\ latest'[run[t]] = latest[run[t]] /\ ~missed[t]
<1>0. RunsTypeOK /\ RunsTypeOK'
    BY RunsTypeStep DEF IndInv
<1>1. ASSUME Same PROVE Goal
    BY <1>1 DEF OnlyFullChannelsMiss
<1>2. ASSUME NEW s \in Streams, Subscribe(s) PROVE Goal
  <2>1. CASE s # t
    <3>1. Same
      BY <1>0, <1>2, <2>1 DEF RunsTypeOK, Subscribe, runVars
    <3> QED BY <1>1, <3>1
  <2>2. CASE s = t
    <3>1. /\ run'[t] = run[t] /\ latest' = latest /\ ch' = ch
          /\ run[t] \in Runs /\ shown'[t] = latest[run[t]]
      BY <1>0, <1>2, <2>2 DEF RunsTypeOK, Subscribe, runVars
    <3>2. ch[t] = <<>>
      BY <1>2, <2>2 DEF IndInv, ChannelOfListener, Subscribe
    <3>3. latest[run[t]] \in Nat /\ Len(ch'[t]) = 0
      BY <1>0, <3>1, <3>2 DEF RunsTypeOK
    <3> QED BY <3>1, <3>3
  <2> QED BY <2>1, <2>2
<1>3. ASSUME NEW s \in Streams, Receive(s) PROVE Goal
  <2>1. CASE s # t
    <3>1. Same
      BY <1>0, <1>3, <2>1 DEF RunsTypeOK, Receive, runVars
    <3> QED BY <1>1, <3>1
  <2>2. CASE s = t
    <3>1. /\ run'[t] = run[t] /\ latest' = latest /\ stage[t] = "listening"
          /\ ch[t] \in Seq(Nat) /\ ch[t] # <<>> /\ shown[t] \in Nat
          /\ shown'[t] = ch[t][1] /\ run[t] \in Runs /\ latest[run[t]] \in Nat
          /\ ch'[t] = Tail(ch[t]) /\ ~missed[t]
      BY <1>0, <1>3, <2>2 DEF RunsTypeOK, Receive, runVars
    <3>2. /\ Len(ch'[t]) = Len(ch[t]) - 1
          /\ \A i \in 1..Len(ch'[t]) : ch'[t][i] = ch[t][i + 1]
          /\ Len(ch[t]) \in Nat /\ Len(ch[t]) > 0
      BY <3>1
    <3>3. /\ Len(ch[t]) = latest[run[t]] - shown[t]
          /\ \A i \in 1..Len(ch[t]) : ch[t][i] = shown[t] + i
      BY <3>1 DEF OnlyFullChannelsMiss
    <3>4. shown'[t] = shown[t] + 1
      BY <3>1, <3>2, <3>3
    <3>5. ASSUME NEW i \in 1..Len(ch'[t]) PROVE ch'[t][i] = shown'[t] + i
      <4>1. i + 1 \in 1..Len(ch[t]) /\ i \in Nat
        BY <3>2
      <4>2. ch'[t][i] = shown[t] + (i + 1)
        BY <3>2, <3>3, <4>1
      <4> QED BY <3>1, <3>4, <4>1, <4>2
    <3>6. Len(ch'[t]) = latest'[run'[t]] - shown'[t]
      BY <3>1, <3>2, <3>3, <3>4
    <3> QED BY <3>5, <3>6
  <2> QED BY <2>1, <2>2
<1>4. ASSUME NEW r \in Runs, Publish(r) PROVE Goal
  <2>1. CASE run[t] # r
    <3>1. Same
      BY <1>0, <1>4, <2>1 DEF RunsTypeOK, Publish, Subscribed
    <3> QED BY <1>1, <3>1
  <2>2. CASE run[t] = r
    <3>1. /\ stage[t] = "listening" /\ run'[t] = r /\ shown'[t] = shown[t]
          /\ latest[r] \in Nat /\ latest'[r] = latest[r] + 1
          /\ ch[t] \in Seq(Nat) /\ shown[t] \in Nat
          /\ shown[t] <= latest[r] /\ ~missed[t] /\ Subscribed(t, r)
      BY <1>0, <1>4, <2>2 DEF RunsTypeOK, Publish, IndInv, ChannelOfListener,
         Subscribed
    <3>2. /\ Len(ch[t]) = latest[r] - shown[t]
          /\ \A i \in 1..Len(ch[t]) : ch[t][i] = shown[t] + i
      BY <2>2, <3>1 DEF OnlyFullChannelsMiss
    <3>3. Len(ch[t]) < Buffer
      <4>1. ~(Len(ch[t]) >= Buffer)
        BY <1>4, <3>1 DEF Publish
      <4> QED BY <3>1, <4>1
    <3>4. ch'[t] = Append(ch[t], latest[r] + 1)
      BY <1>4, <2>2, <3>1, <3>3 DEF Publish, Subscribed, Deliver
    <3>5. /\ Len(ch'[t]) = Len(ch[t]) + 1
          /\ \A i \in 1..Len(ch[t]) : ch'[t][i] = ch[t][i]
          /\ ch'[t][Len(ch[t]) + 1] = latest[r] + 1
          /\ Len(ch[t]) \in Nat
      BY <3>1, <3>4
    <3>6. ASSUME NEW i \in 1..Len(ch'[t]) PROVE ch'[t][i] = shown'[t] + i
      <4>1. i \in 1..Len(ch[t]) \/ i = Len(ch[t]) + 1
        BY <3>5
      <4> QED BY <3>1, <3>2, <3>5, <4>1
    <3>7. Len(ch'[t]) = latest'[run'[t]] - shown'[t]
      BY <3>1, <3>2, <3>5
    <3> QED BY <3>6, <3>7
  <2> QED BY <2>1, <2>2
<1>5. ASSUME NEW s \in Streams, NEW k \in Keys, Attach(s, k) PROVE Same
    BY <1>0, <1>5 DEF RunsTypeOK, Attach, runVars
<1>6. ASSUME NEW s \in Streams, NEW k \in Keys, NEW r \in Runs, Create(s, k, r)
      PROVE  Same
    BY <1>0, <1>6 DEF RunsTypeOK, Create
<1>7. ASSUME NEW s \in Streams,
             StartBody(s) \/ RefuseBody(s) \/ Terminate(s) \/ Disconnect(s) \/ Reuse(s)
      PROVE  Same
    BY <1>0, <1>7 DEF RunsTypeOK, StartBody, RefuseBody, Terminate, Disconnect,
       Reuse, runVars
<1>8. ASSUME NEW r \in Runs,
             RemoveSharedRun(r) \/ \E o \in {"result", "error"} : Finish(r, o)
      PROVE  Same
    BY <1>8 DEF Finish, RemoveSharedRun
<1>9. ASSUME UNCHANGED sharedVars PROVE Same
    BY <1>9 DEF sharedVars
<1> HIDE DEF Goal, Same
<1>10. ASSUME NEW s \in Streams,
              \/ \E k \in Keys : Attach(s, k)
              \/ \E k \in Keys, r \in Runs : Create(s, k, r)
              \/ Stream(s) \/ Disconnect(s) \/ Reuse(s)
       PROVE  Goal
    BY <1>1, <1>2, <1>3, <1>5, <1>6, <1>7, <1>10 DEF Stream
<1>11. ASSUME NEW r \in Runs, Compute(r) PROVE Goal
    BY <1>1, <1>4, <1>8, <1>11 DEF Compute
<1>12. Goal
    BY <1>1, <1>9, <1>10, <1>11 DEF RunsNext
<1> QED BY <1>12 DEF Goal

\* A stream misses an event only because its channel was full when the event
\* was published, for any channel capacity, any number of streams and runs and
\* any number of events.
THEOREM OnlyFullMiss == RunsSpec => []OnlyFullChannelsMiss
<1>1. RunsInit => OnlyFullChannelsMiss
    BY DEF RunsInit, OnlyFullChannelsMiss
<1> QED BY <1>1, OnlyFullStep, Invariant, PTL DEF RunsSpec
=============================================================================
