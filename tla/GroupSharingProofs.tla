------------------------- MODULE GroupSharingProofs -------------------------
(***************************************************************************)
(* Proofs about GroupSharing, for every number of users, groups, accounts, *)
(* transactions, policy versions and invite uses.                          *)
(***************************************************************************)
EXTENDS GroupSharing, FiniteSetTheorems, TLAPS

-----------------------------------------------------------------------------
(* The inductive invariant.                                                *)

(* A group that does not exist has left nothing behind: no member, policy  *)
(* or open invite could act for it.                                        *)
GoneLeavesNothing ==
  \A g \in Group : ~exists[g] =>
    /\ invite[g].left = 0
    /\ \A u \in User : role[g][u] = "none" /\ policy[u][g] = NoPolicy

(* Versions start at one, so 0 in the index means "no reference".          *)
EnabledVersioned ==
  \A u \in User, g \in Group : policy[u][g].enabled => policy[u][g].version # 0

(* One reference follows its row, its group and its policy.                *)
Follows(t, g) ==
  /\ index[t][g] # 0 =>
       exists[g] /\ row[t].live /\ index[t][g] = policy[owner[t]][g].version
  /\ index[t][g] # 0 /\ ~row[t].void =>
       PolicyCoversTransaction(policy[owner[t]][g], row[t])
  /\ Member(g, owner[t]) /\ PolicyCoversTransaction(policy[owner[t]][g], row[t]) =>
       index[t][g] # 0

IndexFollows == \A t \in Tx \ generated, g \in Group : Follows(t, g)

IndInv == TypeOK /\ GoneLeavesNothing /\ EnabledVersioned /\ IndexFollows

-----------------------------------------------------------------------------
(* Types.                                                                  *)

LEMMA TypeInit == Init => TypeOK
BY GroupAssumption
   DEF Init, TypeOK, RowType, PolicyType, NoRow, NoPolicy, NoInvite, AccountsOf

(* A reference is 0 or the version of a policy.                            *)
LEMMA RebuiltType ==
  ASSUME NEW ix \in [Tx -> [Group -> 0..MaxVersion]], NEW u \in User, NEW G,
         NEW rl, NEW rows,
         NEW pol \in [User -> [Group -> PolicyType]]
  PROVE  RebuiltFor(ix, u, G, rl, pol, rows) \in [Tx -> [Group -> 0..MaxVersion]]
<1>1. \A g \in Group : pol[u][g].version \in 0..MaxVersion
  BY DEF PolicyType
<1>2. 0 \in 0..MaxVersion
  BY GroupAssumption
<1> QED BY <1>1, <1>2 DEF RebuiltFor

LEMMA DroppedType ==
  ASSUME NEW ix \in [Tx -> [Group -> 0..MaxVersion]], NEW U, NEW G
  PROVE  Dropped(ix, U, G) \in [Tx -> [Group -> 0..MaxVersion]]
BY GroupAssumption DEF Dropped

LEMMA RefreshedType ==
  ASSUME NEW ix \in [Tx -> [Group -> 0..MaxVersion]], NEW t \in Tx, NEW r,
         NEW pol \in [User -> [Group -> PolicyType]]
  PROVE  RefreshedFor(ix, t, r, pol) \in [Tx -> [Group -> 0..MaxVersion]]
<1>1. owner[t] \in User /\ 0 \in 0..MaxVersion
  BY GroupAssumption
<1>2. \A g \in Group : pol[owner[t]][g].version \in 0..MaxVersion
  BY <1>1 DEF PolicyType
<1> QED BY <1>1, <1>2 DEF RefreshedFor

(* The ways a policy, an invite and a row are stored again.                *)
InviteType == [by : User \cup {"none"}, left : 0..MaxUses]

LEMMA PolicyFields ==
  ASSUME NEW p \in PolicyType, NEW a \in SUBSET Account, p.version < MaxVersion
  PROVE  [p EXCEPT !.accounts = a, !.version = @ + 1] \in PolicyType
<1> DEFINE q == [p EXCEPT !.accounts = a]
<1>1. q \in PolicyType /\ q.version = p.version
  BY DEF PolicyType
<1>2. p.version + 1 \in 0..MaxVersion
  BY GroupAssumption DEF PolicyType
<1> HIDE DEF q
<1>3. [q EXCEPT !.version = p.version + 1] \in PolicyType
  BY <1>1, <1>2 DEF PolicyType
<1> QED BY <1>3 DEF q

LEMMA InviteFields ==
  ASSUME NEW i \in InviteType, NEW n \in 0..MaxUses
  PROVE  [i EXCEPT !.left = n] \in InviteType
BY DEF InviteType

LEMMA RowFields ==
  ASSUME NEW r \in RowType, NEW v \in BOOLEAN
  PROVE  /\ [r EXCEPT !.void = v] \in RowType
         /\ [r EXCEPT !.void = v].accounts = r.accounts
BY DEF RowType

LEMMA GroupTypeStep == TypeOK /\ GroupSteps => TypeOK'
<1> SUFFICES ASSUME TypeOK, GroupSteps PROVE TypeOK'
  OBVIOUS
<1> USE GroupAssumption
<1>1. ASSUME NEW g \in Group, NEW u \in User, CreateGroup(g, u) PROVE TypeOK'
  BY <1>1 DEF CreateGroup, TypeOK, AccountsOf, model
<1>2. ASSUME NEW g \in Group, GroupGone(g) PROVE TypeOK'
  <2>1. index' \in [Tx -> [Group -> 0..MaxVersion]]
    BY <1>2, DroppedType DEF GroupGone, TypeOK
  <2>2. /\ policy' \in [User -> [Group -> PolicyType]]
        /\ \A u \in User, h \in Group : policy'[u][h].accounts \subseteq AccountsOf(u)'
    BY <1>2 DEF GroupGone, TypeOK, NoPolicy, PolicyType, AccountsOf, model
  <2>3. grant' \in [Tx -> [Group -> {"none", "shared", "excluded"}]]
    BY <1>2 DEF GroupGone, TypeOK
  <2>4. invite' \in [Group -> [by : User \cup {"none"}, left : 0..MaxUses]]
    BY <1>2 DEF GroupGone, TypeOK, NoInvite
  <2> QED BY <1>2, <2>1, <2>2, <2>3, <2>4 DEF GroupGone, TypeOK, AccountsOf, model
<1>3. ASSUME NEW g \in Group, NEW u \in User, MembershipEnds(g, u) PROVE TypeOK'
  <2>1. index' \in [Tx -> [Group -> 0..MaxVersion]]
    BY <1>3, DroppedType DEF MembershipEnds, TypeOK
  <2> QED BY <1>3, <2>1 DEF MembershipEnds, TypeOK, AccountsOf, model
<1>4. ASSUME NEW g \in Group, NEW u \in User, NEW w \in User,
             NEW to \in {"owner", "admin", "member"}, UpdateMemberRole(g, u, w, to)
      PROVE  TypeOK'
  BY <1>4 DEF UpdateMemberRole, TypeOK, AccountsOf, model
<1>5. ASSUME NEW g \in Group, NEW u \in User, NEW n \in 1..MaxUses,
             CreateInvite(g, u, n) PROVE TypeOK'
  <2>1. [by |-> u, left |-> n] \in InviteType
    BY DEF InviteType
  <2>2. invite' \in [Group -> InviteType]
    BY <1>5, <2>1 DEF CreateInvite, TypeOK, InviteType
  <2> QED BY <1>5, <2>2 DEF CreateInvite, TypeOK, InviteType, AccountsOf, model
<1>6. ASSUME NEW g \in Group, RevokeInvite(g) PROVE TypeOK'
  <2>1. invite[g] \in InviteType /\ 0 \in 0..MaxUses
    BY DEF TypeOK, InviteType
  <2>2. [invite[g] EXCEPT !.left = 0] \in InviteType
    BY <2>1, InviteFields
  <2>3. invite' = [invite EXCEPT ![g] = [invite[g] EXCEPT !.left = 0]]
    BY <1>6 DEF RevokeInvite, TypeOK
  <2>4. invite' \in [Group -> InviteType]
    BY <2>2, <2>3 DEF TypeOK, InviteType
  <2> QED BY <1>6, <2>4 DEF RevokeInvite, TypeOK, InviteType, AccountsOf, model
<1>7. ASSUME NEW g \in Group, NEW u \in User, AcceptInvite(g, u) PROVE TypeOK'
  <2>1. index' \in [Tx -> [Group -> 0..MaxVersion]]
    BY <1>7, RebuiltType DEF AcceptInvite, TypeOK
  <2>2. invite[g] \in InviteType /\ invite[g].left - 1 \in 0..MaxUses
    BY <1>7 DEF AcceptInvite, TypeOK, InviteType
  <2>3. invite' = [invite EXCEPT ![g] = [invite[g] EXCEPT !.left = invite[g].left - 1]]
    BY <1>7 DEF AcceptInvite, TypeOK
  <2>4. invite' \in [Group -> InviteType]
    BY <2>2, <2>3, InviteFields DEF TypeOK, InviteType
  <2> QED BY <1>7, <2>1, <2>4 DEF AcceptInvite, TypeOK, InviteType, AccountsOf, model
<1> QED
  BY <1>1, <1>2, <1>3, <1>4, <1>5, <1>6, <1>7
     DEF GroupSteps, ServeGroup, ServeMembers, ServeInvites, DeleteGroup,
         LeaveGroup, RemoveMember

(* An account that leaves the policies of its owner is in none of them.    *)
LEMMA ReplacedType ==
  ASSUME TypeOK, NEW u \in User, NEW a \in Account, NEW by \in SUBSET Account,
         VersionsLeft(u, a), policy' = PoliciesReplaced(u, a, by)
  PROVE  /\ policy' \in [User -> [Group -> PolicyType]]
         /\ \A w \in User, h \in Group :
              \/ policy'[w][h].accounts = policy[w][h].accounts
                   /\ (w = u => a \notin policy'[w][h].accounts)
              \/ w = u /\ policy'[w][h].accounts = (policy[w][h].accounts \ {a}) \cup by
<1> DEFINE moved(h) ==
             [policy[u][h] EXCEPT !.accounts = (@ \ {a}) \cup by, !.version = @ + 1]
<1>1. ASSUME NEW h \in Group, h \in Touched(u, a) PROVE moved(h) \in PolicyType
  <2>1. policy[u][h] \in PolicyType /\ policy[u][h].version < MaxVersion
    BY <1>1 DEF VersionsLeft, TypeOK
  <2>2. (policy[u][h].accounts \ {a}) \cup by \in SUBSET Account
    BY <2>1 DEF PolicyType
  <2> QED BY <2>1, <2>2, PolicyFields
<1>2. \A h \in Group :
        moved(h).accounts = (policy[u][h].accounts \ {a}) \cup by
  <2>1. \A h \in Group : policy[u][h] \in PolicyType
    BY DEF TypeOK
  <2> QED BY <2>1 DEF PolicyType
<1>3. policy' = [policy EXCEPT ![u] =
                   [h \in Group |-> IF h \in Touched(u, a) THEN moved(h) ELSE policy[u][h]]]
  BY DEF PoliciesReplaced
<1> HIDE DEF moved
<1>4. policy' \in [User -> [Group -> PolicyType]]
  BY <1>1, <1>3 DEF TypeOK
<1>5. ASSUME NEW w \in User, NEW h \in Group
      PROVE  \/ policy'[w][h].accounts = policy[w][h].accounts
                  /\ (w = u => a \notin policy'[w][h].accounts)
             \/ w = u /\ policy'[w][h].accounts = (policy[w][h].accounts \ {a}) \cup by
  <2>1. CASE w # u
    BY <1>3, <2>1 DEF TypeOK
  <2>2. CASE w = u /\ h \notin Touched(u, a)
    BY <1>3, <2>2 DEF TypeOK, Touched
  <2>3. CASE w = u /\ h \in Touched(u, a)
    BY <1>2, <1>3, <2>3 DEF TypeOK
  <2> QED BY <2>1, <2>2, <2>3
<1> QED BY <1>4, <1>5

LEMMA PolicyTypeStep == TypeOK /\ PolicySteps => TypeOK'
<1> SUFFICES ASSUME TypeOK, PolicySteps PROVE TypeOK'
  OBVIOUS
<1> USE GroupAssumption
<1>1. ASSUME NEW u \in User, NEW g \in Group, NEW on \in BOOLEAN,
             NEW accts \in SUBSET Account, NEW i \in Interval,
             SetSharingPolicy(u, g, on, accts, i)
      PROVE  TypeOK'
  <2>1. /\ policy[u][g].version \in 0..MaxVersion
        /\ i.from \in Nat /\ i.to \in Nat
    BY DEF TypeOK, PolicyType
  <2>2. policy[u][g].version + 1 \in 0..MaxVersion
    BY <1>1, <2>1 DEF SetSharingPolicy
  <2>3. policy' \in [User -> [Group -> PolicyType]]
    BY <1>1, <2>1, <2>2 DEF SetSharingPolicy, TypeOK, PolicyType
  <2>4. \A w \in User, h \in Group : policy'[w][h].accounts \subseteq AccountsOf(w)'
    BY <1>1 DEF SetSharingPolicy, TypeOK, AccountsOf, model
  <2>5. index' \in [Tx -> [Group -> 0..MaxVersion]]
    BY <1>1, <2>3, RebuiltType DEF SetSharingPolicy, TypeOK
  <2> QED BY <1>1, <2>3, <2>4, <2>5
             DEF SetSharingPolicy, TypeOK, AccountsOf, membership, model
<1>2. ASSUME NEW u \in User, RebuildSharingIndex(u) PROVE TypeOK'
  <2>1. index' \in [Tx -> [Group -> 0..MaxVersion]]
    BY <1>2, RebuiltType DEF RebuildSharingIndex, TypeOK
  <2> QED BY <1>2, <2>1
             DEF RebuildSharingIndex, TypeOK, AccountsOf, membership, model
<1>3. ASSUME NEW u \in User, ClearModel(u) PROVE TypeOK'
  <2>1. index' \in [Tx -> [Group -> 0..MaxVersion]]
    BY <1>3, DroppedType DEF ClearModel, TypeOK
  <2>2. row' \in [Tx -> RowType]
    BY <1>3 DEF ClearModel, TypeOK, RowType, NoRow
  <2>3. grant' \in [Tx -> [Group -> {"none", "shared", "excluded"}]]
    BY <1>3 DEF ClearModel, TypeOK
  <2>4. policy' \in [User -> [Group -> PolicyType]]
    BY <1>3 DEF ClearModel, TypeOK, PolicyType, NoPolicy
  <2>5. \A w \in User : w # u => AccountsOf(w)' = AccountsOf(w)
    BY <1>3 DEF ClearModel, AccountsOf
  <2>6. \A t \in Tx : row'[t].accounts \subseteq AccountsOf(owner[t])'
    BY <1>3, <2>5 DEF ClearModel, TypeOK, NoRow
  <2>7. \A w \in User, h \in Group : policy'[w][h].accounts \subseteq AccountsOf(w)'
    BY <1>3, <2>5 DEF ClearModel, TypeOK, NoPolicy
  <2> QED BY <1>3, <2>1, <2>2, <2>3, <2>4, <2>6, <2>7
             DEF ClearModel, TypeOK, membership
<1>4. ASSUME NEW u \in User, DeleteGroupMemberships(u) PROVE TypeOK'
  <2> DEFINE was  == {g \in Group : Member(g, u)}
             gone == {g \in was : Members(g) = {u}}
  <2>1. index' \in [Tx -> [Group -> 0..MaxVersion]]
    BY <1>4, DroppedType DEF DeleteGroupMemberships, TypeOK
  <2>2. invite' \in [Group -> [by : User \cup {"none"}, left : 0..MaxUses]]
    <3> HIDE DEF was, gone
    <3>1. invite' = [g \in Group |->
            IF g \in gone THEN NoInvite
            ELSE IF invite[g].by = u THEN [invite[g] EXCEPT !.left = 0] ELSE invite[g]]
      BY <1>4 DEF DeleteGroupMemberships, was, gone
    <3>2. \A g \in Group : invite[g] \in InviteType
      BY DEF TypeOK, InviteType
    <3>3. NoInvite \in InviteType /\ 0 \in 0..MaxUses
      BY DEF NoInvite, InviteType
    <3>4. \A g \in Group : [invite[g] EXCEPT !.left = 0] \in InviteType
      BY <3>2, <3>3, InviteFields
    <3>5. \A g \in Group : invite'[g] \in InviteType
      BY <3>1, <3>2, <3>3, <3>4
    <3> QED BY <3>1, <3>5 DEF InviteType
  <2>3. /\ policy' \in [User -> [Group -> PolicyType]]
        /\ \A w \in User, h \in Group : policy'[w][h].accounts \subseteq AccountsOf(w)'
    <3> HIDE DEF was, gone
    <3>1. /\ policy' = [w \in User |->
               [g \in Group |-> IF g \in gone THEN NoPolicy ELSE policy[w][g]]]
          /\ accounts' = accounts
      BY <1>4 DEF DeleteGroupMemberships, was, gone, model
    <3>2. NoPolicy \in PolicyType /\ NoPolicy.accounts = {}
      BY DEF NoPolicy, PolicyType
    <3> QED BY <3>1, <3>2 DEF TypeOK, AccountsOf
  <2>4. grant' \in [Tx -> [Group -> {"none", "shared", "excluded"}]]
    BY <1>4 DEF DeleteGroupMemberships, TypeOK
  <2>5. role' \in [Group -> [User -> {"none", "member", "admin", "owner"}]]
    BY <1>4 DEF DeleteGroupMemberships, TypeOK
  <2>6. exists' \in [Group -> BOOLEAN] /\ orphaned' \subseteq Group
    BY <1>4 DEF DeleteGroupMemberships, TypeOK
  <2> QED BY <1>4, <2>1, <2>2, <2>3, <2>4, <2>5, <2>6
             DEF DeleteGroupMemberships, TypeOK, AccountsOf, model
<1>5. ASSUME NEW a \in Account, CreateAccount(a) PROVE TypeOK'
  BY <1>5 DEF CreateAccount, TypeOK, AccountsOf, membership
<1>6. ASSUME NEW a \in Account, DeleteAccount(a) PROVE TypeOK'
  <2>1. owner[a] \in User
    OBVIOUS
  <2>2. /\ policy' \in [User -> [Group -> PolicyType]]
        /\ \A w \in User, h \in Group : policy'[w][h].accounts \subseteq AccountsOf(w)'
    <3> DEFINE none == {}
    <3>1. /\ VersionsLeft(owner[a], a) /\ policy' = PoliciesReplaced(owner[a], a, none)
          /\ none \in SUBSET Account
      BY <1>6 DEF DeleteAccount
    <3> HIDE DEF none
    <3>2. /\ policy' \in [User -> [Group -> PolicyType]]
          /\ \A w \in User, h \in Group :
               \/ policy'[w][h].accounts = policy[w][h].accounts
                    /\ (w = owner[a] => a \notin policy'[w][h].accounts)
               \/ w = owner[a]
                    /\ policy'[w][h].accounts = (policy[w][h].accounts \ {a}) \cup none
      BY <2>1, <3>1, ReplacedType
    <3>3. ASSUME NEW w \in User, NEW h \in Group
          PROVE  policy'[w][h].accounts \subseteq AccountsOf(w)'
      <4>1. \/ policy'[w][h].accounts = policy[w][h].accounts
                 /\ (w = owner[a] => a \notin policy'[w][h].accounts)
            \/ w = owner[a] /\ policy'[w][h].accounts = (policy[w][h].accounts \ {a}) \cup none
        BY <3>2
      <4>2. accounts' = accounts \ {a} /\ policy[w][h].accounts \subseteq AccountsOf(w)
        BY <1>6 DEF DeleteAccount, TypeOK
      <4> QED BY <4>1, <4>2 DEF AccountsOf, none
    <3> QED BY <3>2, <3>3
  <2>3. index' \in [Tx -> [Group -> 0..MaxVersion]]
    BY <1>6, <2>1, <2>2, RebuiltType DEF DeleteAccount, TypeOK
  <2>4. \A t \in Tx : row[t].accounts \subseteq AccountsOf(owner[t])'
    BY <1>6 DEF DeleteAccount, TypeOK, AccountsOf
  <2> QED BY <1>6, <2>2, <2>3, <2>4 DEF DeleteAccount, TypeOK, membership
<1>7. ASSUME NEW a \in Account, NEW b \in Account, SupersedeAccount(a, b) PROVE TypeOK'
  <2> DEFINE u    == owner[a]
             gone == {t \in Owned(u) : a \in row[t].accounts}
  <2>1. owner[a] \in User /\ owner[b] = owner[a] /\ b \in accounts /\ a # b
    BY <1>7 DEF SupersedeAccount, AccountsOf
  <2>2. /\ policy' \in [User -> [Group -> PolicyType]]
        /\ \A w \in User, h \in Group : policy'[w][h].accounts \subseteq AccountsOf(w)'
    <3> DEFINE only == {b}
    <3>1. /\ VersionsLeft(owner[a], a) /\ policy' = PoliciesReplaced(owner[a], a, only)
          /\ only \in SUBSET Account
      BY <1>7 DEF SupersedeAccount
    <3> HIDE DEF only
    <3>2. /\ policy' \in [User -> [Group -> PolicyType]]
          /\ \A w \in User, h \in Group :
               \/ policy'[w][h].accounts = policy[w][h].accounts
                    /\ (w = owner[a] => a \notin policy'[w][h].accounts)
               \/ w = owner[a]
                    /\ policy'[w][h].accounts = (policy[w][h].accounts \ {a}) \cup only
      BY <2>1, <3>1, ReplacedType
    <3>3. ASSUME NEW w \in User, NEW h \in Group
          PROVE  policy'[w][h].accounts \subseteq AccountsOf(w)'
      <4>1. accounts' = accounts \ {a} /\ policy[w][h].accounts \subseteq AccountsOf(w)
        BY <1>7 DEF SupersedeAccount, TypeOK
      <4>2. CASE policy'[w][h].accounts = policy[w][h].accounts
                   /\ (w = owner[a] => a \notin policy'[w][h].accounts)
        BY <4>1, <4>2 DEF AccountsOf
      <4>3. CASE w = owner[a]
                   /\ policy'[w][h].accounts = (policy[w][h].accounts \ {a}) \cup only
        BY <2>1, <4>1, <4>3 DEF AccountsOf, only
      <4> QED BY <3>2, <4>2, <4>3
    <3> QED BY <3>2, <3>3
  <2>3. /\ row' = [t \in Tx |-> IF t \in gone THEN NoRow ELSE row[t]]
        /\ grant' = [t \in Tx |-> IF t \in gone THEN [g \in Group |-> "none"] ELSE grant[t]]
        /\ index' = [t \in Tx |->
             IF t \in gone THEN [g \in Group |-> 0]
             ELSE RebuiltFor(index, u, Touched(u, a), role, policy', row')[t]]
        /\ accounts' = accounts \ {a}
    BY <1>7 DEF SupersedeAccount
  <2>4. row' \in [Tx -> RowType]
    BY <2>3 DEF TypeOK, RowType, NoRow
  <2>5. grant' \in [Tx -> [Group -> {"none", "shared", "excluded"}]]
    BY <2>3 DEF TypeOK
  <2>6. index' \in [Tx -> [Group -> 0..MaxVersion]]
    <3>1. RebuiltFor(index, u, Touched(u, a), role, policy', row')
            \in [Tx -> [Group -> 0..MaxVersion]]
      BY <2>1, <2>2, RebuiltType DEF TypeOK
    <3> QED BY <2>3, <3>1
  <2>7. \A t \in Tx : row'[t].accounts \subseteq AccountsOf(owner[t])'
    BY <2>3 DEF TypeOK, AccountsOf, NoRow, Owned
  <2> QED BY <1>7, <2>2, <2>3, <2>4, <2>5, <2>6, <2>7
             DEF SupersedeAccount, TypeOK, membership
<1> QED
  BY <1>1, <1>2, <1>3, <1>4, <1>5, <1>6, <1>7 DEF PolicySteps

LEMMA RowTypeStep == TypeOK /\ RowSteps => TypeOK'
<1> SUFFICES ASSUME TypeOK, RowSteps PROVE TypeOK'
  OBVIOUS
<1> USE GroupAssumption
<1>1. ASSUME NEW t \in Tx, NEW accts \in SUBSET Account, NEW d \in Day,
             NEW v \in BOOLEAN, accts \subseteq AccountsOf(owner[t]),
             row' = [row EXCEPT ![t] = Row(accts, d, v)], UNCHANGED accounts
      PROVE  /\ row' \in [Tx -> RowType]
             /\ \A s \in Tx : row'[s].accounts \subseteq AccountsOf(owner[s])'
  BY <1>1 DEF TypeOK, Row, RowType, AccountsOf
<1>2. ASSUME NEW t \in Tx, NEW accts \in SUBSET Account, NEW d \in Day,
             NEW v \in BOOLEAN,
             \/ CreateTransaction(t, accts, d) /\ v = FALSE
             \/ UpdateTransaction(t, accts, d, v)
             \/ SaveGeneratedTransactions(t, accts, d) /\ v = FALSE
      PROVE  TypeOK'
  <2>1. /\ row' \in [Tx -> RowType]
        /\ \A s \in Tx : row'[s].accounts \subseteq AccountsOf(owner[s])'
    BY <1>1, <1>2
       DEF CreateTransaction, UpdateTransaction, SaveGeneratedTransactions
  <2>2. index' = index \/ index' = RefreshedFor(index, t, row'[t], policy)
    BY <1>2 DEF CreateTransaction, UpdateTransaction, SaveGeneratedTransactions
  <2>3. index' \in [Tx -> [Group -> 0..MaxVersion]]
    <3>1. /\ index \in [Tx -> [Group -> 0..MaxVersion]]
          /\ policy \in [User -> [Group -> PolicyType]]
      BY DEF TypeOK
    <3>2. RefreshedFor(index, t, row'[t], policy) \in [Tx -> [Group -> 0..MaxVersion]]
      BY <3>1, RefreshedType
    <3> QED BY <2>2, <3>1, <3>2
  <2> QED BY <1>2, <2>1, <2>3
             DEF CreateTransaction, UpdateTransaction, SaveGeneratedTransactions,
                 TypeOK, AccountsOf, membership
<1>3. ASSUME NEW t \in Tx, VoidTransaction(t) PROVE TypeOK'
  <2>1. row' = [row EXCEPT ![t] = [row[t] EXCEPT !.void = TRUE]]
    BY <1>3 DEF VoidTransaction, TypeOK
  <2>2. row[t] \in RowType
    BY DEF TypeOK
  <2>3. row' \in [Tx -> RowType] /\ \A s \in Tx : row'[s].accounts = row[s].accounts
    BY <2>1, <2>2, RowFields DEF TypeOK
  <2> QED BY <1>3, <2>3 DEF VoidTransaction, TypeOK, AccountsOf, membership
<1>4. ASSUME NEW t \in Tx, DeleteTransaction(t) \/ DeleteGeneratedTransactions(t)
      PROVE  TypeOK'
  <2>1. NoRow \in RowType /\ NoRow.accounts = {}
    BY DEF NoRow, RowType
  <2>2. /\ row' = [row EXCEPT ![t] = NoRow] /\ accounts' = accounts
        /\ index' = index \/ index' = [index EXCEPT ![t] = [g \in Group |-> 0]]
        /\ grant' = grant \/ grant' = [grant EXCEPT ![t] = [g \in Group |-> "none"]]
    BY <1>4 DEF DeleteTransaction, DeleteGeneratedTransactions
  <2>3. /\ row' \in [Tx -> RowType]
        /\ \A s \in Tx : row'[s].accounts \subseteq AccountsOf(owner[s])'
    BY <2>1, <2>2 DEF TypeOK, AccountsOf
  <2>4. [g \in Group |-> 0] \in [Group -> 0..MaxVersion]
    OBVIOUS
  <2>5. index' \in [Tx -> [Group -> 0..MaxVersion]]
    BY <2>2, <2>4 DEF TypeOK
  <2>6. [g \in Group |-> "none"] \in [Group -> {"none", "shared", "excluded"}]
    OBVIOUS
  <2>7. grant' \in [Tx -> [Group -> {"none", "shared", "excluded"}]]
    BY <2>2, <2>6 DEF TypeOK
  <2> QED BY <1>4, <2>3, <2>5, <2>7
             DEF DeleteTransaction, DeleteGeneratedTransactions, TypeOK,
                 AccountsOf, membership
<1>5. ASSUME NEW t \in Tx, NEW g \in Group, NEW from, NEW to \in {"none", "shared", "excluded"},
             DecideGroup(t, g, from, to)
      PROVE  TypeOK'
  BY <1>5 DEF DecideGroup, TypeOK, AccountsOf, membership, model
<1> QED BY <1>2, <1>3, <1>4, <1>5 DEF RowSteps

LEMMA TypeStep == TypeOK /\ [Next]_vars => TypeOK'
<1>1. TypeOK /\ UNCHANGED vars => TypeOK'
  BY DEF vars, membership, model, TypeOK, AccountsOf
<1> QED BY <1>1, GroupTypeStep, PolicyTypeStep, RowTypeStep DEF Next

(* Whatever the handlers, the sync and projections do, every stored role,  *)
(* invite, row, policy and reference has its type, and rows and policies   *)
(* only name accounts of their owner that still exist.                     *)
THEOREM TypeCorrect == Spec => []TypeOK
BY TypeInit, TypeStep, PTL DEF Spec

-----------------------------------------------------------------------------
(* What a group leaves behind.                                             *)

(* A member of a group is a member of one that exists.                     *)
LEMMA MemberOfExisting ==
  ASSUME GoneLeavesNothing, NEW g \in Group, NEW u \in User
  PROVE  /\ Member(g, u) => exists[g]
         /\ policy[u][g] # NoPolicy => exists[g]
         /\ invite[g].left # 0 => exists[g]
BY DEF GoneLeavesNothing, Member

LEMMA GoneStep == TypeOK /\ GoneLeavesNothing /\ [Next]_vars => GoneLeavesNothing'
<1> SUFFICES ASSUME TypeOK, GoneLeavesNothing, [Next]_vars PROVE GoneLeavesNothing'
  OBVIOUS
<1> USE GroupAssumption
<1>1. ASSUME NEW g \in Group, NEW u \in User, CreateGroup(g, u)
      PROVE  GoneLeavesNothing'
  BY <1>1 DEF CreateGroup, GoneLeavesNothing, TypeOK
<1>2. ASSUME NEW g \in Group, GroupGone(g) PROVE GoneLeavesNothing'
  <2>1. ASSUME NEW h \in Group, ~exists'[h]
        PROVE  /\ invite'[h].left = 0
               /\ \A u \in User : role'[h][u] = "none" /\ policy'[u][h] = NoPolicy
    <3>1. CASE h = g
      BY <1>2, <3>1 DEF GroupGone, TypeOK, NoInvite
    <3>2. CASE h # g
      <4>1. ~exists[h] /\ invite'[h] = invite[h] /\ role'[h] = role[h]
        BY <1>2, <2>1, <3>2 DEF GroupGone, TypeOK
      <4>2. \A u \in User : policy'[u][h] = policy[u][h]
        BY <1>2, <3>2 DEF GroupGone, TypeOK
      <4> QED BY <4>1, <4>2 DEF GoneLeavesNothing
    <3> QED BY <3>1, <3>2
  <2> QED BY <2>1 DEF GoneLeavesNothing
<1>3. ASSUME NEW g \in Group, NEW u \in User, MembershipEnds(g, u)
      PROVE  GoneLeavesNothing'
  BY <1>3 DEF MembershipEnds, GoneLeavesNothing, TypeOK
<1>4. ASSUME NEW g \in Group, NEW u \in User, NEW w \in User,
             NEW to \in {"owner", "admin", "member"}, UpdateMemberRole(g, u, w, to)
      PROVE  GoneLeavesNothing'
  BY <1>4 DEF UpdateMemberRole, GoneLeavesNothing, Member, model, TypeOK
<1>5. ASSUME NEW g \in Group, NEW u \in User, NEW n \in 1..MaxUses,
             CreateInvite(g, u, n)
      PROVE  GoneLeavesNothing'
  <2>1. exists[g]
    BY <1>5, MemberOfExisting DEF CreateInvite, MayInvite, Member
  <2> QED BY <1>5, <2>1 DEF CreateInvite, GoneLeavesNothing, TypeOK
<1>6. ASSUME NEW g \in Group, RevokeInvite(g) PROVE GoneLeavesNothing'
  <2>1. exists[g]
    BY <1>6 DEF RevokeInvite, GoneLeavesNothing, TypeOK
  <2> QED BY <1>6, <2>1 DEF RevokeInvite, GoneLeavesNothing, TypeOK
<1>7. ASSUME NEW g \in Group, NEW u \in User, AcceptInvite(g, u)
      PROVE  GoneLeavesNothing'
  <2>1. exists[g]
    BY <1>7 DEF AcceptInvite, GoneLeavesNothing, TypeOK
  <2> QED BY <1>7, <2>1 DEF AcceptInvite, GoneLeavesNothing, TypeOK
<1>8. ASSUME NEW u \in User, NEW g \in Group, NEW on \in BOOLEAN,
             NEW accts \in SUBSET Account, NEW i \in Interval,
             SetSharingPolicy(u, g, on, accts, i)
      PROVE  GoneLeavesNothing'
  <2>1. exists[g]
    BY <1>8, MemberOfExisting DEF SetSharingPolicy
  <2>2. /\ exists' = exists /\ role' = role /\ invite' = invite
        /\ \A w \in User, h \in Group : h # g => policy'[w][h] = policy[w][h]
    BY <1>8 DEF SetSharingPolicy, membership, TypeOK
  <2> QED BY <2>1, <2>2 DEF GoneLeavesNothing
<1>9. ASSUME NEW u \in User, RebuildSharingIndex(u) PROVE GoneLeavesNothing'
  BY <1>9 DEF RebuildSharingIndex, GoneLeavesNothing, membership
<1>10. ASSUME NEW u \in User, ClearModel(u) PROVE GoneLeavesNothing'
  BY <1>10 DEF ClearModel, GoneLeavesNothing, membership, TypeOK
<1>11. ASSUME NEW u \in User, DeleteGroupMemberships(u) PROVE GoneLeavesNothing'
  <2> DEFINE was  == {g \in Group : Member(g, u)}
             gone == {g \in was : Members(g) = {u}}
  <2>1. /\ exists' = [g \in Group |-> exists[g] /\ g \notin gone]
        /\ role' = [g \in Group |-> [role[g] EXCEPT ![u] = "none"]]
        /\ invite' = [g \in Group |->
             IF g \in gone THEN NoInvite
             ELSE IF invite[g].by = u THEN [invite[g] EXCEPT !.left = 0] ELSE invite[g]]
        /\ policy' = [w \in User |->
             [g \in Group |-> IF g \in gone THEN NoPolicy ELSE policy[w][g]]]
    BY <1>11 DEF DeleteGroupMemberships
  <2>2. ASSUME NEW h \in Group, ~exists'[h], NEW w \in User
        PROVE  invite'[h].left = 0 /\ role'[h][w] = "none" /\ policy'[w][h] = NoPolicy
    <3>1. CASE h \in gone
      <4>1. \A v \in User : Member(h, v) => v = u
        BY <3>1 DEF Members
      <4>2. role[h] \in [User -> {"none", "member", "admin", "owner"}]
        BY DEF TypeOK
      <4>3. role'[h][w] = "none"
        BY <2>1, <4>1, <4>2 DEF Member
      <4>4. invite'[h].left = 0 /\ policy'[w][h] = NoPolicy
        BY <2>1, <3>1 DEF NoInvite
      <4> QED BY <4>3, <4>4
    <3>2. CASE h \notin gone
      <4> HIDE DEF was, gone
      <4>1. ~exists[h]
        BY <2>1, <2>2, <3>2
      <4>2. invite[h].left = 0 /\ role[h][w] = "none" /\ policy[w][h] = NoPolicy
        BY <4>1 DEF GoneLeavesNothing
      <4>3. policy'[w][h] = NoPolicy
        BY <2>1, <3>2, <4>2
      <4>4. role[h] \in [User -> {"none", "member", "admin", "owner"}]
        BY DEF TypeOK
      <4>5. role'[h][w] = "none"
        BY <2>1, <4>2, <4>4
      <4>6. invite[h] \in InviteType
        BY DEF TypeOK, InviteType
      <4>7. [invite[h] EXCEPT !.left = 0].left = 0
        BY <4>6 DEF InviteType
      <4>8. invite'[h].left = 0
        BY <2>1, <3>2, <4>2, <4>7
      <4> QED BY <4>3, <4>5, <4>8
    <3> QED BY <3>1, <3>2
  <2> QED BY <2>2 DEF GoneLeavesNothing
<1>12. ASSUME NEW a \in Account, CreateAccount(a) PROVE GoneLeavesNothing'
  BY <1>12 DEF CreateAccount, GoneLeavesNothing, membership
<1>13. ASSUME NEW a \in Account, NEW by,
              policy' = PoliciesReplaced(owner[a], a, by),
              exists' = exists, role' = role, invite' = invite
       PROVE  GoneLeavesNothing'
  <2>1. ASSUME NEW u \in User, NEW g \in Group, policy[u][g] = NoPolicy
        PROVE  policy'[u][g] = NoPolicy
    <3>1. g \notin Touched(u, a)
      BY <2>1 DEF Touched, NoPolicy
    <3>2. policy'[u][g] = policy[u][g]
      BY <1>13, <3>1 DEF PoliciesReplaced, TypeOK
    <3> QED BY <2>1, <3>2
  <2> QED BY <1>13, <2>1 DEF GoneLeavesNothing
<1>14. ASSUME NEW a \in Account, NEW b \in Account, DeleteAccount(a) \/ SupersedeAccount(a, b)
       PROVE  GoneLeavesNothing'
  BY <1>13, <1>14 DEF DeleteAccount, SupersedeAccount, membership
<1>15. ASSUME RowSteps PROVE GoneLeavesNothing'
  <2>1. exists' = exists /\ role' = role /\ invite' = invite /\ policy' = policy
    BY <1>15 DEF RowSteps, CreateTransaction, UpdateTransaction,
       SaveGeneratedTransactions, VoidTransaction, DeleteTransaction,
       DeleteGeneratedTransactions, DecideGroup, membership
  <2> QED BY <2>1 DEF GoneLeavesNothing
<1>16. ASSUME UNCHANGED vars PROVE GoneLeavesNothing'
  BY <1>16 DEF vars, membership, GoneLeavesNothing
<1>17. ASSUME GroupSteps PROVE GoneLeavesNothing'
  BY <1>1, <1>2, <1>3, <1>4, <1>5, <1>6, <1>7, <1>17
     DEF GroupSteps, ServeGroup, ServeMembers, ServeInvites, DeleteGroup,
         LeaveGroup, RemoveMember
<1>18. ASSUME PolicySteps PROVE GoneLeavesNothing'
  BY <1>8, <1>9, <1>10, <1>11, <1>12, <1>14, <1>18 DEF PolicySteps
<1> QED BY <1>15, <1>16, <1>17, <1>18 DEF Next

-----------------------------------------------------------------------------
(* Versions.                                                               *)

LEMMA VersionedStep == TypeOK /\ EnabledVersioned /\ [Next]_vars => EnabledVersioned'
<1> SUFFICES ASSUME TypeOK, EnabledVersioned, [Next]_vars,
                    NEW u \in User, NEW g \in Group, policy'[u][g].enabled
             PROVE  policy'[u][g].version # 0
  BY DEF EnabledVersioned
<1> USE GroupAssumption
<1> DEFINE Goal == policy'[u][g].version # 0
           Kept == policy'[u][g] = policy[u][g]
<1>1. policy[u][g] \in PolicyType /\ policy[u][g].version \in Nat
  BY DEF TypeOK, PolicyType
<1>2. ASSUME Kept PROVE Goal
  BY <1>2 DEF EnabledVersioned
<1>3. ASSUME policy'[u][g] = NoPolicy PROVE Goal
  BY <1>3 DEF NoPolicy
<1>4. ASSUME GroupSteps PROVE Goal
  <2>1. policy' = policy \/ \E h \in Group : GroupGone(h)
    BY <1>4 DEF GroupSteps, ServeGroup, ServeMembers, ServeInvites, CreateGroup,
       DeleteGroup, LeaveGroup, RemoveMember, MembershipEnds,
       UpdateMemberRole, RevokeInvite, CreateInvite, AcceptInvite
  <2>2. ASSUME NEW h \in Group, GroupGone(h)
        PROVE  Kept \/ policy'[u][g] = NoPolicy
    BY <2>2 DEF GroupGone, TypeOK
  <2> QED BY <1>2, <1>3, <2>1, <2>2
<1>5. ASSUME NEW w \in User, NEW h \in Group, NEW on \in BOOLEAN,
             NEW accts \in SUBSET Account, NEW i \in Interval,
             SetSharingPolicy(w, h, on, accts, i)
      PROVE  Goal
  <2>1. CASE w = u /\ h = g
    BY <1>1, <1>5, <2>1 DEF SetSharingPolicy, TypeOK
  <2>2. CASE ~(w = u /\ h = g)
    <3>1. Kept
      BY <1>5, <2>2 DEF SetSharingPolicy, TypeOK
    <3> QED BY <1>2, <3>1
  <2> QED BY <2>1, <2>2
<1>6. ASSUME NEW w \in User, RebuildSharingIndex(w) PROVE Goal
  BY <1>2, <1>6 DEF RebuildSharingIndex
<1>7. ASSUME NEW w \in User, ClearModel(w) PROVE Goal
  <2>1. Kept \/ policy'[u][g] = NoPolicy
    BY <1>7 DEF ClearModel, TypeOK
  <2> QED BY <1>2, <1>3, <2>1
<1>8. ASSUME NEW w \in User, DeleteGroupMemberships(w) PROVE Goal
  <2>1. Kept \/ policy'[u][g] = NoPolicy
    BY <1>8 DEF DeleteGroupMemberships, TypeOK
  <2> QED BY <1>2, <1>3, <2>1
<1>9. ASSUME NEW a \in Account, CreateAccount(a) PROVE Goal
  BY <1>2, <1>9 DEF CreateAccount
<1>10. ASSUME NEW a \in Account, NEW by, policy' = PoliciesReplaced(owner[a], a, by)
       PROVE  Goal
  <2>1. CASE u = owner[a] /\ g \in Touched(u, a)
    <3>1. policy'[u][g] =
            [policy[u][g] EXCEPT !.accounts = (@ \ {a}) \cup by, !.version = @ + 1]
      BY <1>10, <2>1 DEF PoliciesReplaced, TypeOK
    <3>2. policy'[u][g].version = policy[u][g].version + 1
      BY <1>1, <3>1 DEF PolicyType
    <3> QED BY <1>1, <3>2
  <2>2. CASE ~(u = owner[a] /\ g \in Touched(u, a))
    <3>1. Kept
      BY <1>10, <2>2 DEF PoliciesReplaced, TypeOK
    <3> QED BY <1>2, <3>1
  <2> QED BY <2>1, <2>2
<1>11. ASSUME NEW a \in Account, NEW b \in Account,
              DeleteAccount(a) \/ SupersedeAccount(a, b) PROVE Goal
  BY <1>10, <1>11 DEF DeleteAccount, SupersedeAccount
<1>12. ASSUME RowSteps PROVE Kept
  BY <1>12 DEF RowSteps, CreateTransaction, UpdateTransaction,
     SaveGeneratedTransactions, VoidTransaction, DeleteTransaction,
     DeleteGeneratedTransactions, DecideGroup
<1>13. ASSUME UNCHANGED vars PROVE Kept
  BY <1>13 DEF vars
<1> HIDE DEF Goal, Kept
<1>14. ASSUME PolicySteps PROVE Goal
  BY <1>5, <1>6, <1>7, <1>8, <1>9, <1>11, <1>14 DEF PolicySteps
<1>15. Goal
  BY <1>2, <1>4, <1>12, <1>13, <1>14 DEF Next
<1> QED BY <1>15 DEF Goal

-----------------------------------------------------------------------------
(* References.                                                             *)

(* A step that touches none of the things a reference summarises.          *)
LEMMA FollowsKept ==
  ASSUME NEW t \in Tx, NEW g \in Group, Follows(t, g),
         index'[t][g] = index[t][g], exists'[g] = exists[g], row'[t] = row[t],
         policy'[owner[t]][g] = policy[owner[t]][g],
         Member(g, owner[t])' => Member(g, owner[t])
  PROVE  Follows(t, g)'
BY DEF Follows, PolicyCoversTransaction

(* A step that derives the reference again from what it leaves.            *)
LEMMA FollowsRebuilt ==
  ASSUME NEW t \in Tx, NEW g \in Group, GoneLeavesNothing', EnabledVersioned',
         index'[t][g] = IF /\ Member(g, owner[t])'
                           /\ PolicyCoversTransaction(policy[owner[t]][g], row[t])'
                        THEN policy'[owner[t]][g].version ELSE 0
  PROVE  Follows(t, g)'
<1> USE GroupAssumption
<1>1. owner[t] \in User
  OBVIOUS
<1>2. Member(g, owner[t])' => exists'[g]
  BY <1>1 DEF GoneLeavesNothing, Member
<1>3. PolicyCoversTransaction(policy[owner[t]][g], row[t])' =>
        row'[t].live /\ policy'[owner[t]][g].version # 0
  BY <1>1 DEF PolicyCoversTransaction, EnabledVersioned
<1> QED BY <1>2, <1>3 DEF Follows

(* A step that drops the reference of a row that is covered no longer.     *)
LEMMA FollowsDropped ==
  ASSUME NEW t \in Tx, NEW g \in Group, index'[t][g] = 0,
         \/ ~Member(g, owner[t])'
         \/ policy'[owner[t]][g] = NoPolicy
         \/ row'[t] = NoRow
  PROVE  Follows(t, g)'
BY DEF Follows, PolicyCoversTransaction, NoPolicy, NoRow

LEMMA RebuiltAt ==
  ASSUME TypeOK, NEW t \in Tx, NEW g \in Group, NEW u \in User, NEW G, NEW rl,
         NEW pol, NEW rows
  PROVE  /\ owner[t] = u /\ g \in G =>
              RebuiltFor(index, u, G, rl, pol, rows)[t][g] =
                IF rl[g][u] # "none" /\ PolicyCoversTransaction(pol[u][g], rows[t])
                THEN pol[u][g].version ELSE 0
         /\ ~(owner[t] = u /\ g \in G) =>
              RebuiltFor(index, u, G, rl, pol, rows)[t][g] = index[t][g]
BY DEF RebuiltFor

LEMMA GroupFollows ==
  ASSUME IndInv, GoneLeavesNothing', EnabledVersioned', GroupSteps,
         NEW t \in Tx \ generated, NEW g \in Group
  PROVE  Follows(t, g)'
<1> USE GroupAssumption
<1>0. owner[t] \in User /\ Follows(t, g) /\ TypeOK
  BY DEF IndInv, IndexFollows
<1>1. ASSUME NEW h \in Group, NEW u \in User, CreateGroup(h, u) PROVE Follows(t, g)'
  <2>1. CASE h # g
    <3>1. role'[g] = role[g] /\ exists'[g] = exists[g]
      BY <1>0, <1>1, <2>1 DEF CreateGroup, TypeOK
    <3> QED BY <1>0, <1>1, <3>1, FollowsKept DEF CreateGroup, model, Member
  <2>2. CASE h = g
    <3>1. index[t][g] = 0 /\ policy[owner[t]][g] = NoPolicy
      BY <1>0, <1>1, <2>2 DEF CreateGroup, Follows, IndInv, GoneLeavesNothing
    <3> QED BY <1>1, <3>1, FollowsDropped DEF CreateGroup
  <2> QED BY <2>1, <2>2
<1>2. ASSUME NEW h \in Group, GroupGone(h) PROVE Follows(t, g)'
  <2>1. index'[t][g] = IF owner[t] \in User /\ g \in {h} THEN 0 ELSE index[t][g]
    BY <1>2 DEF GroupGone, Dropped
  <2>2. CASE h # g
    <3>1. /\ role'[g] = role[g] /\ exists'[g] = exists[g]
          /\ policy'[owner[t]][g] = policy[owner[t]][g] /\ row' = row
      BY <1>0, <1>2, <2>2 DEF GroupGone, TypeOK, model
    <3> QED BY <1>0, <2>1, <2>2, <3>1, FollowsKept DEF Member
  <2>3. CASE h = g
    <3>1. policy'[owner[t]][g] = NoPolicy
      BY <1>0, <1>2, <2>3 DEF GroupGone, TypeOK
    <3> QED BY <1>0, <2>1, <2>3, <3>1, FollowsDropped
  <2> QED BY <2>2, <2>3
<1>3. ASSUME NEW h \in Group, NEW u \in User, MembershipEnds(h, u) PROVE Follows(t, g)'
  <2>1. index'[t][g] = IF owner[t] \in {u} /\ g \in {h} THEN 0 ELSE index[t][g]
    BY <1>3 DEF MembershipEnds, Dropped
  <2>2. CASE h = g /\ owner[t] = u
    <3>1. role'[g][owner[t]] = "none"
      BY <1>0, <1>3, <2>2 DEF MembershipEnds, TypeOK
    <3> QED BY <2>1, <2>2, <3>1, FollowsDropped DEF Member
  <2>3. CASE ~(h = g /\ owner[t] = u)
    <3>1. role'[g][owner[t]] = role[g][owner[t]] /\ exists' = exists
          /\ policy' = policy /\ row' = row
      BY <1>0, <1>3, <2>3 DEF MembershipEnds, TypeOK, model
    <3> QED BY <1>0, <2>1, <2>3, <3>1, FollowsKept DEF Member
  <2> QED BY <2>2, <2>3
<1>4. ASSUME NEW h \in Group, NEW u \in User, NEW w \in User,
             NEW to \in {"owner", "admin", "member"}, UpdateMemberRole(h, u, w, to)
      PROVE  Follows(t, g)'
  <2>1. Member(g, owner[t])' => Member(g, owner[t])
    BY <1>0, <1>4 DEF UpdateMemberRole, Member, TypeOK
  <2> QED BY <1>0, <1>4, <2>1, FollowsKept DEF UpdateMemberRole, model
<1>5. ASSUME NEW h \in Group, NEW u \in User, NEW n \in 1..MaxUses,
             CreateInvite(h, u, n) \/ RevokeInvite(h)
      PROVE  Follows(t, g)'
  BY <1>0, <1>5, FollowsKept DEF CreateInvite, RevokeInvite, model, Member
<1>6. ASSUME NEW h \in Group, RevokeInvite(h) PROVE Follows(t, g)'
  BY <1>0, <1>6, FollowsKept DEF RevokeInvite, model, Member
<1>7. ASSUME NEW h \in Group, NEW u \in User, AcceptInvite(h, u) PROVE Follows(t, g)'
  <2>1. index' = RebuiltFor(index, u, {h}, role', policy, row)
        /\ policy' = policy /\ row' = row /\ exists' = exists
    BY <1>7 DEF AcceptInvite, model
  <2>2. CASE h = g /\ owner[t] = u
    <3>1. index'[t][g] = IF role'[g][u] # "none"
                            /\ PolicyCoversTransaction(policy[u][g], row[t])
                         THEN policy[u][g].version ELSE 0
      BY <1>0, <2>1, <2>2, RebuiltAt
    <3> QED BY <2>1, <2>2, <3>1, FollowsRebuilt DEF Member, PolicyCoversTransaction
  <2>3. CASE ~(h = g /\ owner[t] = u)
    <3>1. index'[t][g] = index[t][g]
      BY <1>0, <2>1, <2>3, RebuiltAt
    <3>2. role'[g][owner[t]] = role[g][owner[t]]
      BY <1>0, <1>7, <2>3 DEF AcceptInvite, TypeOK
    <3> QED BY <1>0, <2>1, <3>1, <3>2, FollowsKept DEF Member
  <2> QED BY <2>2, <2>3
<1> QED
  BY <1>1, <1>2, <1>3, <1>4, <1>5, <1>6, <1>7
     DEF GroupSteps, ServeGroup, ServeMembers, ServeInvites, DeleteGroup,
         LeaveGroup, RemoveMember

LEMMA PolicyFollows ==
  ASSUME IndInv, GoneLeavesNothing', EnabledVersioned', PolicySteps,
         NEW t \in Tx \ generated, NEW g \in Group
  PROVE  Follows(t, g)'
<1> USE GroupAssumption
<1>0. owner[t] \in User /\ Follows(t, g) /\ TypeOK
  BY DEF IndInv, IndexFollows
<1>1. ASSUME NEW u \in User, NEW h \in Group, NEW on \in BOOLEAN,
             NEW accts \in SUBSET Account, NEW i \in Interval,
             SetSharingPolicy(u, h, on, accts, i)
      PROVE  Follows(t, g)'
  <2>1. index' = RebuiltFor(index, u, {h}, role, policy', row)
        /\ role' = role /\ row' = row /\ exists' = exists
    BY <1>1 DEF SetSharingPolicy, membership, model
  <2>2. CASE h = g /\ owner[t] = u
    <3>1. index'[t][g] = IF role[g][u] # "none"
                            /\ PolicyCoversTransaction(policy'[u][g], row[t])
                         THEN policy'[u][g].version ELSE 0
      BY <1>0, <2>1, <2>2, RebuiltAt
    <3> QED BY <2>1, <2>2, <3>1, FollowsRebuilt DEF Member, PolicyCoversTransaction
  <2>3. CASE ~(h = g /\ owner[t] = u)
    <3>1. index'[t][g] = index[t][g]
      BY <1>0, <2>1, <2>3, RebuiltAt
    <3>2. policy'[owner[t]][g] = policy[owner[t]][g]
      BY <1>0, <1>1, <2>3 DEF SetSharingPolicy, TypeOK
    <3> QED BY <1>0, <2>1, <3>1, <3>2, FollowsKept DEF Member
  <2> QED BY <2>2, <2>3
<1>2. ASSUME NEW u \in User, RebuildSharingIndex(u) PROVE Follows(t, g)'
  <2>1. index' = RebuiltFor(index, u, Group, role, policy, row)
        /\ role' = role /\ row' = row /\ exists' = exists /\ policy' = policy
    BY <1>2 DEF RebuildSharingIndex, membership, model
  <2>2. CASE owner[t] = u
    <3>1. index'[t][g] = IF role[g][u] # "none"
                            /\ PolicyCoversTransaction(policy[u][g], row[t])
                         THEN policy[u][g].version ELSE 0
      BY <1>0, <2>1, <2>2, RebuiltAt
    <3> QED BY <2>1, <2>2, <3>1, FollowsRebuilt DEF Member, PolicyCoversTransaction
  <2>3. CASE owner[t] # u
    <3>1. index'[t][g] = index[t][g]
      BY <1>0, <2>1, <2>3, RebuiltAt
    <3> QED BY <1>0, <2>1, <3>1, FollowsKept DEF Member
  <2> QED BY <2>2, <2>3
<1>3. ASSUME NEW u \in User, ClearModel(u) PROVE Follows(t, g)'
  <2>1. index'[t][g] = IF owner[t] \in {u} /\ g \in Group THEN 0 ELSE index[t][g]
    BY <1>3 DEF ClearModel, Dropped
  <2>2. CASE owner[t] = u
    <3>1. row'[t] = NoRow
      BY <1>3, <2>2 DEF ClearModel
    <3> QED BY <2>1, <2>2, <3>1, FollowsDropped
  <2>3. CASE owner[t] # u
    <3>1. /\ row'[t] = row[t] /\ policy'[owner[t]][g] = policy[owner[t]][g]
          /\ role' = role /\ exists' = exists
      BY <1>0, <1>3, <2>3 DEF ClearModel, TypeOK, membership
    <3> QED BY <1>0, <2>1, <2>3, <3>1, FollowsKept DEF Member
  <2> QED BY <2>2, <2>3
<1>4. ASSUME NEW u \in User, DeleteGroupMemberships(u) PROVE Follows(t, g)'
  <2> DEFINE was  == {h \in Group : Member(h, u)}
             gone == {h \in was : Members(h) = {u}}
  <2>1. /\ exists' = [h \in Group |-> exists[h] /\ h \notin gone]
        /\ role' = [h \in Group |-> [role[h] EXCEPT ![u] = "none"]]
        /\ policy' = [w \in User |->
             [h \in Group |-> IF h \in gone THEN NoPolicy ELSE policy[w][h]]]
        /\ index' = Dropped(Dropped(index, {u}, Group), User, gone)
        /\ row' = row
    BY <1>4 DEF DeleteGroupMemberships, model
  <2> HIDE DEF gone, was
  <2>2. index'[t][g] = IF g \in gone \/ owner[t] = u THEN 0 ELSE index[t][g]
    BY <1>0, <2>1 DEF Dropped
  <2>3. CASE owner[t] = u
    <3>1. role'[g][owner[t]] = "none"
      BY <1>0, <2>1, <2>3 DEF TypeOK
    <3> QED BY <2>2, <2>3, <3>1, FollowsDropped DEF Member
  <2>4. CASE g \in gone
    <3>1. policy'[owner[t]][g] = NoPolicy
      BY <1>0, <2>1, <2>4
    <3> QED BY <2>2, <2>4, <3>1, FollowsDropped
  <2>5. CASE owner[t] # u /\ g \notin gone
    <3>1. /\ policy'[owner[t]][g] = policy[owner[t]][g]
          /\ role'[g][owner[t]] = role[g][owner[t]]
      BY <1>0, <2>1, <2>5 DEF TypeOK
    <3>2. exists'[g] = exists[g]
      <4>1. exists[g] \in BOOLEAN
        BY <1>0 DEF TypeOK
      <4> QED BY <2>1, <2>5, <4>1
    <3> QED BY <1>0, <2>1, <2>2, <2>5, <3>1, <3>2, FollowsKept DEF Member
  <2> QED BY <2>3, <2>4, <2>5
<1>5. ASSUME NEW a \in Account, CreateAccount(a) PROVE Follows(t, g)'
  BY <1>0, <1>5, FollowsKept DEF CreateAccount, membership, Member
<1>6. ASSUME NEW a \in Account, NEW by, owner[a] \in User, row'[t] = row[t],
             policy' = PoliciesReplaced(owner[a], a, by),
             index'[t] = RebuiltFor(index, owner[a], Touched(owner[a], a), role,
                                    policy', row')[t],
             role' = role, exists' = exists
      PROVE  Follows(t, g)'
  <2>1. CASE owner[t] = owner[a] /\ g \in Touched(owner[a], a)
    <3>1. index'[t][g] = IF role[g][owner[t]] # "none"
                            /\ PolicyCoversTransaction(policy'[owner[t]][g], row'[t])
                         THEN policy'[owner[t]][g].version ELSE 0
      BY <1>0, <1>6, <2>1, RebuiltAt
    <3> QED BY <1>6, <3>1, FollowsRebuilt DEF Member, PolicyCoversTransaction
  <2>2. CASE ~(owner[t] = owner[a] /\ g \in Touched(owner[a], a))
    <3>1. index'[t][g] = index[t][g]
      BY <1>0, <1>6, <2>2, RebuiltAt
    <3>2. policy'[owner[t]][g] = policy[owner[t]][g]
      BY <1>0, <1>6, <2>2 DEF PoliciesReplaced, TypeOK
    <3> QED BY <1>0, <1>6, <3>1, <3>2, FollowsKept DEF Member
  <2> QED BY <2>1, <2>2
<1>7. ASSUME NEW a \in Account, DeleteAccount(a) PROVE Follows(t, g)'
  <2>1. owner[a] \in User /\ row' = row /\ role' = role /\ exists' = exists
        /\ policy' = PoliciesReplaced(owner[a], a, {})
        /\ index' = RebuiltFor(index, owner[a], Touched(owner[a], a), role, policy', row)
    BY <1>7 DEF DeleteAccount, membership
  <2> QED BY <1>6, <2>1
<1>8. ASSUME NEW a \in Account, NEW b \in Account, SupersedeAccount(a, b)
      PROVE  Follows(t, g)'
  <2> DEFINE gone == {x \in Owned(owner[a]) : a \in row[x].accounts}
  <2>1. /\ owner[a] \in User /\ role' = role /\ exists' = exists
        /\ policy' = PoliciesReplaced(owner[a], a, {b})
        /\ row' = [x \in Tx |-> IF x \in gone THEN NoRow ELSE row[x]]
        /\ index' = [x \in Tx |->
             IF x \in gone THEN [h \in Group |-> 0]
             ELSE RebuiltFor(index, owner[a], Touched(owner[a], a), role, policy', row')[x]]
    BY <1>8 DEF SupersedeAccount, membership
  <2> HIDE DEF gone
  <2>2. CASE t \in gone
    <3>1. row'[t] = NoRow /\ index'[t][g] = 0
      BY <2>1, <2>2
    <3> QED BY <3>1, FollowsDropped
  <2>3. CASE t \notin gone
    <3>1. /\ row'[t] = row[t]
          /\ index'[t] = RebuiltFor(index, owner[a], Touched(owner[a], a), role,
                                    policy', row')[t]
      BY <2>1, <2>3
    <3> QED BY <1>6, <2>1, <3>1
  <2> QED BY <2>2, <2>3
<1> QED BY <1>1, <1>2, <1>3, <1>4, <1>5, <1>7, <1>8 DEF PolicySteps

LEMMA RowFollows ==
  ASSUME IndInv, RowSteps, NEW t \in Tx \ generated, NEW g \in Group
  PROVE  Follows(t, g)'
<1> USE GroupAssumption
<1>0. owner[t] \in User /\ Follows(t, g) /\ TypeOK
  BY DEF IndInv, IndexFollows
<1>1. exists' = exists /\ role' = role /\ policy' = policy
  BY DEF RowSteps, CreateTransaction, UpdateTransaction,
     SaveGeneratedTransactions, VoidTransaction, DeleteTransaction,
     DeleteGeneratedTransactions, DecideGroup, membership
<1>2. ASSUME row'[t] = row[t], index'[t][g] = index[t][g] PROVE Follows(t, g)'
  BY <1>0, <1>1, <1>2, FollowsKept DEF Member
<1>3. ASSUME NEW s \in Tx, NEW accts \in SUBSET Account, NEW d \in Day,
             NEW v \in BOOLEAN,
             \/ CreateTransaction(s, accts, d) /\ v = FALSE
             \/ UpdateTransaction(s, accts, d, v)
      PROVE  Follows(t, g)'
  <2>1. /\ row' = [row EXCEPT ![s] = Row(accts, d, v)]
        /\ index' = RefreshedFor(index, s, row'[s], policy)
        /\ v => row[s].live
    BY <1>3 DEF CreateTransaction, UpdateTransaction
  <2>2. row'[s] = Row(accts, d, v) /\ row'[s].void = v /\ row'[s].live
    BY <1>0, <2>1 DEF TypeOK, Row
  <2>3. CASE s # t
    <3>1. row'[t] = row[t]
      BY <1>0, <2>1, <2>3 DEF TypeOK
    <3>2. index'[t][g] = index[t][g]
      BY <1>0, <2>1, <2>3 DEF RefreshedFor, TypeOK
    <3> QED BY <1>2, <3>1, <3>2
  <2>4. CASE s = t /\ v
    <3>1. index' = index
      BY <2>1, <2>2, <2>4 DEF RefreshedFor
    <3> QED BY <1>0, <1>1, <2>2, <2>4, <3>1 DEF Follows, PolicyCoversTransaction
  <2>5. CASE s = t /\ ~v
    <3>1. index'[t][g] = IF PolicyCoversTransaction(policy[owner[t]][g], row'[t])
                         THEN policy[owner[t]][g].version ELSE 0
      BY <1>0, <2>1, <2>2, <2>5 DEF RefreshedFor, TypeOK
    <3>2. PolicyCoversTransaction(policy[owner[t]][g], row'[t]) =>
            exists[g] /\ row'[t].live /\ policy[owner[t]][g].version # 0
      BY <1>0 DEF PolicyCoversTransaction, IndInv, GoneLeavesNothing, NoPolicy,
         EnabledVersioned
    <3> QED BY <1>1, <3>1, <3>2 DEF Follows, PolicyCoversTransaction
  <2> QED BY <2>3, <2>4, <2>5
<1>4. ASSUME NEW s \in Tx, VoidTransaction(s) PROVE Follows(t, g)'
  <2>1. index' = index /\ row[s].live
        /\ row' = [row EXCEPT ![s] = [row[s] EXCEPT !.void = TRUE]]
    BY <1>0, <1>4 DEF VoidTransaction, TypeOK
  <2>2. CASE s # t
    BY <1>0, <1>2, <2>1, <2>2 DEF TypeOK
  <2>3. CASE s = t
    <3>1. row[t] \in RowType
      BY <1>0 DEF TypeOK
    <3>2. row'[t].live /\ row'[t].void
      BY <1>0, <2>1, <2>3, <3>1 DEF TypeOK, RowType
    <3> QED BY <1>0, <1>1, <2>1, <3>2 DEF Follows, PolicyCoversTransaction
  <2> QED BY <2>2, <2>3
<1>5. ASSUME NEW s \in Tx, DeleteTransaction(s) PROVE Follows(t, g)'
  <2>1. CASE s # t
    <3>1. row'[t] = row[t] /\ index'[t][g] = index[t][g]
      BY <1>0, <1>5, <2>1 DEF DeleteTransaction, TypeOK
    <3> QED BY <1>2, <3>1
  <2>2. CASE s = t
    <3>1. row'[t] = NoRow /\ index'[t][g] = 0
      BY <1>0, <1>5, <2>2 DEF DeleteTransaction, TypeOK
    <3> QED BY <3>1, FollowsDropped
  <2> QED BY <2>1, <2>2
<1>6. ASSUME NEW s \in Tx, NEW accts \in SUBSET Account, NEW d \in Day,
             SaveGeneratedTransactions(s, accts, d) \/ DeleteGeneratedTransactions(s)
      PROVE  Follows(t, g)'
  <2>1. s # t /\ index' = index
    BY <1>6 DEF SaveGeneratedTransactions, DeleteGeneratedTransactions
  <2>2. row'[t] = row[t]
    BY <1>0, <1>6, <2>1
       DEF SaveGeneratedTransactions, DeleteGeneratedTransactions, TypeOK
  <2> QED BY <1>2, <2>1, <2>2
<1>7. ASSUME NEW s \in Tx, DeleteGeneratedTransactions(s) PROVE Follows(t, g)'
  <2>1. s # t /\ index' = index
    BY <1>7 DEF DeleteGeneratedTransactions
  <2>2. row'[t] = row[t]
    BY <1>0, <1>7, <2>1 DEF DeleteGeneratedTransactions, TypeOK
  <2> QED BY <1>2, <2>1, <2>2
<1>8. ASSUME NEW s \in Tx, NEW h \in Group, NEW from, NEW to, DecideGroup(s, h, from, to)
      PROVE  Follows(t, g)'
  BY <1>2, <1>8 DEF DecideGroup, model
<1> QED BY <1>3, <1>4, <1>5, <1>6, <1>7, <1>8 DEF RowSteps

LEMMA Inductive == IndInv /\ [Next]_vars => IndInv'
<1> SUFFICES ASSUME IndInv, [Next]_vars PROVE IndInv'
  OBVIOUS
<1>1. TypeOK' /\ GoneLeavesNothing' /\ EnabledVersioned'
  BY TypeStep, GoneStep, VersionedStep DEF IndInv
<1>2. generated' = generated
  <2>1. GroupSteps => generated' = generated
    <3>1. ASSUME NEW g \in Group, NEW u \in User, ServeGroup(g, u) PROVE UNCHANGED model
      BY <3>1 DEF ServeGroup, CreateGroup, DeleteGroup, LeaveGroup, GroupGone,
         MembershipEnds
    <3>2. ASSUME NEW g \in Group, NEW u \in User, ServeMembers(g, u) PROVE UNCHANGED model
      BY <3>2 DEF ServeMembers, RemoveMember, UpdateMemberRole, MembershipEnds
    <3>3. ASSUME NEW g \in Group, NEW u \in User, ServeInvites(g, u) \/ AcceptInvite(g, u)
          PROVE  UNCHANGED model
      BY <3>3 DEF ServeInvites, RevokeInvite, CreateInvite, AcceptInvite
    <3> QED BY <3>1, <3>2, <3>3 DEF GroupSteps, model
  <2>2. PolicySteps => generated' = generated
    BY DEF PolicySteps, SetSharingPolicy, RebuildSharingIndex, ClearModel,
       DeleteGroupMemberships, CreateAccount, DeleteAccount, SupersedeAccount, model
  <2>3. RowSteps => generated' = generated
    BY DEF RowSteps, CreateTransaction, UpdateTransaction,
       SaveGeneratedTransactions, VoidTransaction, DeleteTransaction,
       DeleteGeneratedTransactions, DecideGroup, model
  <2> QED BY <2>1, <2>2, <2>3 DEF Next, vars, model
<1>3. ASSUME NEW t \in Tx \ generated, NEW g \in Group PROVE Follows(t, g)'
  <2>1. CASE UNCHANGED vars
    BY <2>1 DEF IndInv, IndexFollows, Follows, vars, membership, model, Member,
       PolicyCoversTransaction
  <2> QED BY <1>1, <2>1, GroupFollows, PolicyFollows, RowFollows DEF Next
<1>4. IndexFollows'
  BY <1>2, <1>3 DEF IndexFollows
<1> QED BY <1>1, <1>4 DEF IndInv

LEMMA InitInv == Init => IndInv
<1>1. Init => GoneLeavesNothing /\ EnabledVersioned
  BY DEF Init, GoneLeavesNothing, EnabledVersioned, NoInvite, NoPolicy
<1>2. Init => IndexFollows
  BY GroupAssumption DEF Init, IndexFollows, Follows, Member
<1> QED BY <1>1, <1>2, TypeInit DEF IndInv

LEMMA Invariant == Spec => []IndInv
BY InitInv, Inductive, PTL DEF Spec

(* The three faces of the index follow from what each reference follows.   *)
LEMMA FollowsExact == IndInv => SharingIndexExact
<1> SUFFICES ASSUME IndInv PROVE SharingIndexExact
  OBVIOUS
<1> USE GroupAssumption
<1>1. IndexOneGeneration
  BY DEF IndexOneGeneration, IndInv, IndexFollows, Follows
<1>2. ASSUME NEW u \in User, NEW t \in Tx \ generated, NEW g \in Group,
             CheckSharedTransactionAccess(t, u), AutomaticPolicyAccess(t, u, g)
      PROVE  Referenced(t, u, g)
  <2>1. Follows(t, g) /\ owner[t] \in User
    BY DEF IndInv, IndexFollows
  <2> QED BY <1>2, <2>1 DEF Referenced, Follows, AutomaticPolicyAccess,
             CheckSharedTransactionAccess, PolicyCoversTransaction
<1>3. ListedExactly
  <2> SUFFICES ASSUME NEW u \in User, NEW t \in Tx \ generated, owner[t] # u,
                      CheckSharedTransactionAccess(t, u)
               PROVE  \E g \in Group : \/ grant[t][g] = "shared" /\ Member(g, u) /\ row[t].live
                                       \/ owner[t] # u /\ Referenced(t, u, g)
    BY DEF ListedExactly, ListSharedTransactions
  <2>1. PICK g \in Group : ManualGroupAccess(t, u, g) \/ AutomaticPolicyAccess(t, u, g)
    BY DEF CheckSharedTransactionAccess
  <2>2. row[t].live
    BY DEF CheckSharedTransactionAccess
  <2> QED BY <1>2, <2>1, <2>2 DEF ManualGroupAccess
<1>4. FeedExact
  <2> SUFFICES ASSUME NEW g \in Group, NEW t \in Tx \ generated, NEW u \in Members(g)
               PROVE  t \in ListGroupSharedFeed(u, g) <=>
                        /\ CheckSharedTransactionAccess(t, u)
                        /\ grant[t][g] # "excluded"
                        /\ ManualGroupAccess(t, u, g) \/ AutomaticPolicyAccess(t, u, g)
    BY DEF FeedExact
  <2>0. u \in User /\ Member(g, u)
    BY DEF Members
  <2>1. ASSUME t \in ListGroupSharedFeed(u, g) PROVE grant[t][g] # "excluded"
    BY <2>0, <2>1 DEF ListGroupSharedFeed, CheckSharedTransactionAccess
  <2>2. ASSUME CheckSharedTransactionAccess(t, u), grant[t][g] # "excluded",
               ManualGroupAccess(t, u, g) \/ AutomaticPolicyAccess(t, u, g)
        PROVE  t \in ListGroupSharedFeed(u, g)
    <3>1. row[t].live
      BY <2>2 DEF CheckSharedTransactionAccess
    <3>2. (grant[t][g] = "shared" /\ row[t].live) \/ Referenced(t, u, g)
      BY <1>2, <2>0, <2>2, <3>1 DEF ManualGroupAccess
    <3> QED BY <2>2, <3>2 DEF ListGroupSharedFeed
  <2> QED BY <2>1, <2>2 DEF ListGroupSharedFeed
<1> QED BY <1>1, <1>3, <1>4 DEF SharingIndexExact

(* The index never lags: after any sequence of group, policy, account and  *)
(* row writes every reference is of its policy's latest version, and the   *)
(* shared list and the group feed find exactly what a detail read allows.  *)
THEOREM IndexAlwaysExact == Spec => []SharingIndexExact
BY Invariant, FollowsExact, PTL

-----------------------------------------------------------------------------
(* Owners.                                                                 *)

(* An owner that is not the only one leaves another one behind.            *)
LEMMA AnotherOwner ==
  ASSUME NEW g \in Group, NEW u \in User, role[g][u] = "owner", LastOwnerStays(g, u)
  PROVE  \E w \in User : w # u /\ role[g][w] = "owner"
<1> SUFFICES ASSUME \A w \in User : w = u \/ role[g][w] # "owner" PROVE FALSE
  OBVIOUS
<1>1. Owners(g) = {u}
  BY DEF Owners
<1>2. Cardinality(Owners(g)) = 1
  BY <1>1, FS_Singleton
<1> QED BY <1>2 DEF LastOwnerStays

LEMMA OwnerStep == TypeOK /\ OwnerRemains /\ [Next]_vars => OwnerRemains'
<1> SUFFICES ASSUME TypeOK, OwnerRemains, [Next]_vars, NEW g \in Group, exists'[g]
             PROVE  Owners(g)' # {} \/ g \in orphaned'
  BY DEF OwnerRemains
<1> USE GroupAssumption
<1> DEFINE Goal == Owners(g)' # {} \/ g \in orphaned'
           Kept == exists[g] /\ role'[g] = role[g] /\ (g \in orphaned => g \in orphaned')
<1>1. ASSUME Kept PROVE Goal
  BY <1>1 DEF OwnerRemains, Owners
<1>2. ASSUME NEW w \in User, role'[g][w] = "owner" PROVE Goal
  BY <1>2 DEF Owners
<1>3. ASSUME NEW h \in Group, NEW u \in User, CreateGroup(h, u) PROVE Goal
  <2>1. CASE h # g
    <3>1. Kept
      BY <1>3, <2>1 DEF CreateGroup, TypeOK
    <3> QED BY <1>1, <3>1
  <2>2. CASE h = g
    <3>1. role'[g][u] = "owner"
      BY <1>3, <2>2 DEF CreateGroup, TypeOK
    <3> QED BY <1>2, <3>1
  <2> QED BY <2>1, <2>2
<1>4. ASSUME NEW h \in Group, GroupGone(h) PROVE Kept
  BY <1>4 DEF GroupGone, TypeOK
<1>5. ASSUME NEW h \in Group, NEW u \in User, MembershipEnds(h, u),
             LastOwnerStays(h, u) \/ role[h][u] # "owner"
      PROVE  Goal
  <2>1. CASE h # g
    <3>1. Kept
      BY <1>5, <2>1 DEF MembershipEnds, TypeOK
    <3> QED BY <1>1, <3>1
  <2>2. CASE h = g /\ role[h][u] = "owner"
    <3>1. PICK w \in User : w # u /\ role[g][w] = "owner"
      BY <1>5, <2>2, AnotherOwner
    <3>2. role'[g][w] = "owner"
      BY <1>5, <2>2, <3>1 DEF MembershipEnds, TypeOK
    <3> QED BY <1>2, <3>2
  <2>3. CASE h = g /\ role[h][u] # "owner"
    <3>1. /\ exists[g] /\ orphaned' = orphaned
          /\ \A w \in User : role[g][w] = "owner" => role'[g][w] = "owner"
      BY <1>5, <2>3 DEF MembershipEnds, TypeOK
    <3> QED BY <3>1 DEF OwnerRemains, Owners
  <2> QED BY <2>1, <2>2, <2>3
<1>6. ASSUME NEW h \in Group, NEW u \in User, NEW w \in User,
             NEW to \in {"owner", "admin", "member"}, UpdateMemberRole(h, u, w, to)
      PROVE  Goal
  <2>1. CASE h # g
    <3>1. Kept
      BY <1>6, <2>1 DEF UpdateMemberRole, TypeOK
    <3> QED BY <1>1, <3>1
  <2>2. CASE h = g /\ to = "owner"
    <3>1. role'[g][w] = "owner"
      BY <1>6, <2>2 DEF UpdateMemberRole, TypeOK
    <3> QED BY <1>2, <3>1
  <2>3. CASE h = g /\ to # "owner" /\ w # u
    <3>1. role'[g][u] = "owner"
      BY <1>6, <2>3 DEF UpdateMemberRole, TypeOK
    <3> QED BY <1>2, <3>1
  <2>4. CASE h = g /\ to # "owner" /\ w = u
    <3>1. role[g][u] = "owner" /\ LastOwnerStays(g, u)
      BY <1>6, <2>4 DEF UpdateMemberRole
    <3>2. PICK v \in User : v # u /\ role[g][v] = "owner"
      BY <3>1, AnotherOwner
    <3>3. role'[g][v] = "owner"
      BY <1>6, <2>4, <3>2 DEF UpdateMemberRole, TypeOK
    <3> QED BY <1>2, <3>3
  <2> QED BY <2>1, <2>2, <2>3, <2>4
<1>7. ASSUME NEW h \in Group, NEW u \in User, AcceptInvite(h, u) PROVE Goal
  <2>1. /\ exists[g] /\ orphaned' = orphaned
        /\ \A w \in User : role[g][w] = "owner" => role'[g][w] = "owner"
    BY <1>7 DEF AcceptInvite, Member, TypeOK
  <2> QED BY <2>1 DEF OwnerRemains, Owners
<1>8. ASSUME NEW u \in User, DeleteGroupMemberships(u) PROVE Goal
  <2> DEFINE was  == {h \in Group : Member(h, u)}
             gone == {h \in was : Members(h) = {u}}
  <2>1. /\ exists' = [h \in Group |-> exists[h] /\ h \notin gone]
        /\ role' = [h \in Group |-> [role[h] EXCEPT ![u] = "none"]]
        /\ orphaned' = (orphaned \cup was) \ gone
    BY <1>8 DEF DeleteGroupMemberships
  <2>2. exists[g] /\ g \notin gone
    BY <2>1
  <2>3. CASE g \in was
    BY <2>1, <2>2, <2>3
  <2>4. CASE g \notin was
    <3>1. role[g][u] = "none" /\ role[g] \in [User -> {"none", "member", "admin", "owner"}]
      BY <2>4 DEF Member, TypeOK
    <3>2. role'[g] = role[g]
      BY <2>1, <3>1
    <3>3. g \in orphaned => g \in orphaned'
      BY <2>1, <2>2
    <3> QED BY <1>1, <2>2, <3>2, <3>3
  <2> QED BY <2>3, <2>4
<1>9. ASSUME NEW h \in Group, NEW u \in User, NEW n, CreateInvite(h, u, n) \/ RevokeInvite(h)
      PROVE  Kept
  BY <1>9 DEF CreateInvite, RevokeInvite
<1>10. ASSUME RowSteps PROVE Kept
  BY <1>10 DEF RowSteps, CreateTransaction, UpdateTransaction,
     SaveGeneratedTransactions, VoidTransaction, DeleteTransaction,
     DeleteGeneratedTransactions, DecideGroup, membership
<1>11. ASSUME UNCHANGED vars PROVE Kept
  BY <1>11 DEF vars, membership
<1> HIDE DEF Goal, Kept
<1>12. ASSUME NEW h \in Group, NEW u \in User,
              LeaveGroup(h, u) \/ (\E w \in User : RemoveMember(h, w, u))
       PROVE  Goal
  BY <1>1, <1>4, <1>5, <1>12 DEF LeaveGroup, RemoveMember
<1>13. ASSUME GroupSteps PROVE Goal
  BY <1>1, <1>3, <1>4, <1>6, <1>7, <1>9, <1>12, <1>13
     DEF GroupSteps, ServeGroup, ServeMembers, ServeInvites, DeleteGroup
<1>14. ASSUME PolicySteps PROVE Goal
  <2>1. ASSUME NEW u \in User, DeleteGroupMemberships(u) PROVE Goal
    BY <1>8, <2>1
  <2>2. Kept \/ \E u \in User : DeleteGroupMemberships(u)
    BY <1>14 DEF PolicySteps, SetSharingPolicy, RebuildSharingIndex, ClearModel,
       CreateAccount, DeleteAccount, SupersedeAccount, membership, Kept
  <2> QED BY <1>1, <2>1, <2>2
<1>15. Goal
  BY <1>1, <1>10, <1>11, <1>13, <1>14 DEF Next
<1> QED BY <1>15 DEF Goal

(* Roles: whoever leaves, is removed or changes role, a group keeps an     *)
(* owner as long as it exists, unless a whole user was removed from it.    *)
THEOREM OwnerAlwaysRemains == Spec => []OwnerRemains
<1>1. Init => OwnerRemains
  BY DEF Init, OwnerRemains
<1> QED BY <1>1, OwnerStep, TypeCorrect, PTL DEF Spec
=============================================================================
