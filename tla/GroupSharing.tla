----------------------------- MODULE GroupSharing -----------------------------
(***************************************************************************)
(* Groups and the automatic sharing of their members: roles and invites,   *)
(* versioned sharing policies, the visibility index that every write keeps *)
(* in step with the rows it covers, and the two reads built on it, the     *)
(* shared list and the group feed.                                         *)
(*                                                                         *)
(* Each write is one SQLite transaction and one action.  The index is      *)
(* discovery only: a read re-authorizes every candidate from live rows.    *)
(* Direct grants to a user are the subject of ShareInbox.                  *)
(***************************************************************************)
EXTENDS Integers, FiniteSets

CONSTANTS
  User, Group, Account, Tx,
  owner,       \* user of each account and transaction
  Day,         \* transaction days
  Interval,    \* policy intervals [from, to]; to = 0 is open
  MaxVersion,  \* versions of one policy
  MaxUses      \* uses of one invite

ASSUME GroupAssumption ==
  /\ owner \in [Account \cup Tx -> User]
  /\ Day \subseteq Nat \ {0}
  /\ Interval \subseteq [from : Nat \ {0}, to : Nat]
  /\ MaxVersion \in Nat \ {0} /\ MaxUses \in Nat \ {0}

VARIABLES
  role,      \* group_members: "none" for a user who is no member
  exists,    \* user_groups
  invite,    \* the latest invite of each group: creator and uses left
  accounts,  \* accounts that exist
  row,       \* transactions
  generated, \* ids of Tx that projections use: no model rows; chosen once
  grant,     \* sharing_grants of each transaction to each group
  policy,    \* sharing_policies of each owner for each group
  index,     \* sharing_visibility: policy_version of the reference, 0 if none
  orphaned   \* history: groups a removed user may have left ownerless

membership == <<role, exists, invite, orphaned>>
model      == <<accounts, row, generated>>
vars       == <<membership, model, grant, policy, index>>

NoRow    == [live |-> FALSE, accounts |-> {}, day |-> 0, void |-> FALSE]
NoPolicy == [enabled |-> FALSE, accounts |-> {}, from |-> 0, to |-> 0, version |-> 0]
NoInvite == [by |-> "none", left |-> 0]

Owned(u)     == {t \in Tx : owner[t] = u}
AccountsOf(u) == {a \in accounts : owner[a] = u}
Member(g, u) == role[g][u] # "none"
Owners(g)    == {u \in User : role[g][u] = "owner"}
Members(g)   == {u \in User : Member(g, u)}

-----------------------------------------------------------------------------
(* Coverage and the index.                                                 *)

PolicyCoversTransaction(p, r) ==
  /\ p.enabled /\ r.live /\ ~r.void
  /\ p.accounts \cap r.accounts # {}
  /\ p.from <= r.day /\ (p.to = 0 \/ r.day <= p.to)

(* One transaction's references.  A void row keeps what it has.  The       *)
(* owner's membership is not asked for.                                    *)
RefreshedFor(ix, t, r, pol) ==
  IF r.void THEN ix
  ELSE [ix EXCEPT ![t] = [g \in Group |->
          IF PolicyCoversTransaction(pol[owner[t]][g], r)
          THEN pol[owner[t]][g].version ELSE 0]]

(* Mutant: the rebuild adds the rows covered now and fences none.          *)
RebuiltWithoutFence(ix, u, G, rl, pol, rows) ==
  [t \in Tx |-> [g \in Group |->
     IF owner[t] = u /\ g \in G /\ rl[g][u] # "none"
        /\ PolicyCoversTransaction(pol[u][g], rows[t]) /\ ix[t][g] = 0
     THEN pol[u][g].version ELSE ix[t][g]]]

(* One owner's slice for some groups, fenced first and derived again.      *)
RebuiltFor(ix, u, G, rl, pol, rows) ==
  [t \in Tx |-> [g \in Group |->
     IF owner[t] # u \/ g \notin G THEN ix[t][g]
     ELSE IF rl[g][u] # "none" /\ PolicyCoversTransaction(pol[u][g], rows[t])
     THEN pol[u][g].version ELSE 0]]

(* References to some groups, of some owners, are dropped.                 *)
Dropped(ix, U, G) ==
  [t \in Tx |-> [g \in Group |-> IF owner[t] \in U /\ g \in G THEN 0 ELSE ix[t][g]]]

-----------------------------------------------------------------------------
(* Reads.                                                                  *)

AutomaticPolicyAccess(t, u, g) ==
  /\ Member(g, u) /\ Member(g, owner[t])
  /\ PolicyCoversTransaction(policy[owner[t]][g], row[t])

ManualGroupAccess(t, u, g) ==
  grant[t][g] = "shared" /\ Member(g, u) /\ Member(g, owner[t])

CheckSharedTransactionAccess(t, u) ==
  /\ row[t].live /\ ~row[t].void
  /\ \/ owner[t] = u
     \/ /\ \A g \in Group : ~(grant[t][g] = "excluded" /\ Member(g, u))
        /\ \E g \in Group : ManualGroupAccess(t, u, g) \/ AutomaticPolicyAccess(t, u, g)

(* The index joined with current membership, policy version and row.       *)
Referenced(t, u, g) ==
  /\ index[t][g] # 0 /\ index[t][g] = policy[owner[t]][g].version
  /\ policy[owner[t]][g].enabled
  /\ Member(g, u) /\ Member(g, owner[t])
  /\ row[t].live /\ ~row[t].void

ListSharedTransactions(u) ==
  {t \in Tx : /\ \E g \in Group : \/ grant[t][g] = "shared" /\ Member(g, u) /\ row[t].live
                                  \/ owner[t] # u /\ Referenced(t, u, g)
              /\ CheckSharedTransactionAccess(t, u)}

(* Own rows pass the gate, so the feed asks for their exclusion itself.    *)
ListGroupSharedFeed(u, g) ==
  {t \in Tx : /\ (grant[t][g] = "shared" /\ row[t].live) \/ Referenced(t, u, g)
              /\ CheckSharedTransactionAccess(t, u)
              /\ ~(owner[t] = u /\ grant[t][g] = "excluded")
              /\ ManualGroupAccess(t, u, g) \/ AutomaticPolicyAccess(t, u, g)}

-----------------------------------------------------------------------------
(* Groups, roles and invites.                                              *)

CreateGroup(g, u) ==
  /\ ~exists[g]
  /\ exists' = [exists EXCEPT ![g] = TRUE]
  /\ role' = [role EXCEPT ![g][u] = "owner"]
  /\ UNCHANGED <<invite, orphaned, model, grant, policy, index>>

(* The group's rows, and by cascade its members and invites; its grants,   *)
(* policies and references.                                                *)
GroupGone(g) ==
  /\ exists' = [exists EXCEPT ![g] = FALSE]
  /\ role' = [role EXCEPT ![g] = [u \in User |-> "none"]]
  /\ invite' = [invite EXCEPT ![g] = NoInvite]
  /\ orphaned' = orphaned \ {g}
  /\ grant' = [t \in Tx |-> [grant[t] EXCEPT ![g] = "none"]]
  /\ policy' = [u \in User |-> [policy[u] EXCEPT ![g] = NoPolicy]]
  /\ index' = Dropped(index, User, {g})
  /\ UNCHANGED model

DeleteGroup(g, u) == role[g][u] = "owner" /\ GroupGone(g)

(* Mutant: the owners are not counted.                                     *)
AnyOwnerMayGo(g, u) == TRUE

LastOwnerStays(g, u) == role[g][u] = "owner" => Cardinality(Owners(g)) > 1

UpdateMemberRole(g, caller, target, to) ==
  /\ role[g][caller] = "owner" /\ Member(g, target)
  /\ to # "owner" => LastOwnerStays(g, target)
  /\ role' = [role EXCEPT ![g][target] = to]
  /\ UNCHANGED <<exists, invite, orphaned, model, grant, policy, index>>

(* The policy survives: a member who comes back resumes it.                *)
MembershipEnds(g, u) ==
  /\ role' = [role EXCEPT ![g][u] = "none"]
  /\ index' = Dropped(index, {u}, {g})
  /\ UNCHANGED <<exists, invite, orphaned, model, grant, policy>>

RemoveMember(g, caller, target) ==
  /\ Member(g, target)
  /\ \/ role[g][caller] = "owner" /\ LastOwnerStays(g, target)
     \/ role[g][caller] = "admin" /\ role[g][target] = "member"
  /\ MembershipEnds(g, target)

(* The last owner may leave an otherwise empty group, which ends with it.  *)
LeaveGroup(g, u) ==
  /\ Member(g, u)
  /\ IF LastOwnerStays(g, u) THEN MembershipEnds(g, u)
     ELSE Members(g) = {u} /\ GroupGone(g)

(* One open invite for a group at a time (a bound).                        *)
MayInvite(g, u) == role[g][u] \in {"owner", "admin"}

CreateInvite(g, u, uses) ==
  /\ MayInvite(g, u) /\ invite[g].left = 0
  /\ invite' = [invite EXCEPT ![g] = [by |-> u, left |-> uses]]
  /\ UNCHANGED <<role, exists, orphaned, model, grant, policy, index>>

(* Revoked by a member who may invite, or expired.                         *)
RevokeInvite(g) ==
  /\ invite[g].left > 0
  /\ invite' = [invite EXCEPT ![g].left = 0]
  /\ UNCHANGED <<role, exists, orphaned, model, grant, policy, index>>

AcceptInvite(g, u) ==
  /\ invite[g].left > 0 /\ ~Member(g, u)
  /\ role' = [role EXCEPT ![g][u] = "member"]
  /\ index' = RebuiltFor(index, u, {g}, role', policy, row)
  /\ invite' = [invite EXCEPT ![g].left = @ - 1]
  /\ UNCHANGED <<exists, orphaned, model, grant, policy>>

(* The identity provider deleted the user: no owner is counted.            *)
DeleteGroupMemberships(u) ==
  LET was  == {g \in Group : Member(g, u)}
      gone == {g \in was : Members(g) = {u}}
  IN /\ was # {}
     /\ exists' = [g \in Group |-> exists[g] /\ g \notin gone]
     /\ role' = [g \in Group |-> [role[g] EXCEPT ![u] = "none"]]
     /\ invite' = [g \in Group |->
          IF g \in gone THEN NoInvite
          ELSE IF invite[g].by = u THEN [invite[g] EXCEPT !.left = 0] ELSE invite[g]]
     /\ orphaned' = (orphaned \cup was) \ gone
     /\ grant' = [t \in Tx |-> [g \in Group |-> IF g \in gone THEN "none" ELSE grant[t][g]]]
     /\ policy' = [w \in User |-> [g \in Group |-> IF g \in gone THEN NoPolicy ELSE policy[w][g]]]
     /\ index' = Dropped(Dropped(index, {u}, Group), User, gone)
     /\ UNCHANGED model

-----------------------------------------------------------------------------
(* Policies, accounts and transactions.                                    *)

SetSharingPolicy(u, g, on, accts, i) ==
  /\ Member(g, u) /\ accts \subseteq AccountsOf(u)
  /\ on => accts # {}
  /\ policy[u][g].version < MaxVersion
  /\ policy' = [policy EXCEPT ![u][g] =
                  [enabled |-> on, accounts |-> accts, from |-> i.from, to |-> i.to,
                   version |-> @.version + 1]]
  /\ index' = RebuiltFor(index, u, {g}, role, policy', row)
  /\ UNCHANGED <<membership, model, grant>>

RebuildSharingIndex(u) ==
  /\ index' = RebuiltFor(index, u, Group, role, policy, row)
  /\ UNCHANGED <<membership, model, grant, policy>>

(* An account leaves every policy that selects it, or another takes its    *)
(* place; each policy it touches gets a new version.                       *)
Touched(u, a) == {g \in Group : a \in policy[u][g].accounts}

PoliciesReplaced(u, a, by) ==
  [policy EXCEPT ![u] = [g \in Group |->
     IF g \in Touched(u, a)
     THEN [policy[u][g] EXCEPT !.accounts = (@ \ {a}) \cup by, !.version = @ + 1]
     ELSE policy[u][g]]]

VersionsLeft(u, a) == \A g \in Touched(u, a) : policy[u][g].version < MaxVersion

CreateAccount(a) ==
  /\ a \notin accounts
  /\ accounts' = accounts \cup {a}
  /\ UNCHANGED <<membership, row, generated, grant, policy, index>>

(* Rows that name the account refuse its deletion.                         *)
DeleteAccount(a) ==
  /\ a \in accounts /\ VersionsLeft(owner[a], a)
  /\ \A t \in Tx : a \notin row[t].accounts
  /\ accounts' = accounts \ {a}
  /\ policy' = PoliciesReplaced(owner[a], a, {})
  /\ index' = RebuiltFor(index, owner[a], Touched(owner[a], a), role, policy', row)
  /\ UNCHANGED <<membership, row, generated, grant>>

(* A manual account gives way to a synced one: its transactions (none of   *)
(* them a bank's) go, its policies follow.                                 *)
SupersedeAccount(a, b) ==
  LET u    == owner[a]
      gone == {t \in Owned(u) : a \in row[t].accounts}
  IN /\ a # b /\ {a, b} \subseteq AccountsOf(u) /\ VersionsLeft(u, a)
     /\ gone \cap generated = {}
     /\ accounts' = accounts \ {a}
     /\ row' = [t \in Tx |-> IF t \in gone THEN NoRow ELSE row[t]]
     /\ grant' = [t \in Tx |-> IF t \in gone THEN [g \in Group |-> "none"] ELSE grant[t]]
     /\ policy' = PoliciesReplaced(u, a, {b})
     /\ index' = [t \in Tx |->
          IF t \in gone THEN [g \in Group |-> 0]
          ELSE RebuiltFor(index, u, Touched(u, a), role, policy', row')[t]]
     /\ UNCHANGED <<membership, generated>>

Row(accts, d, v) == [live |-> TRUE, accounts |-> accts, day |-> d, void |-> v]

(* insertTransaction, whoever calls it.                                    *)
CreateTransaction(t, accts, d) ==
  /\ t \notin generated /\ ~row[t].live
  /\ accts \subseteq AccountsOf(owner[t]) /\ accts # {}
  /\ row' = [row EXCEPT ![t] = Row(accts, d, FALSE)]
  /\ index' = RefreshedFor(index, t, row'[t], policy)
  /\ UNCHANGED <<membership, accounts, generated, grant, policy>>

(* An owner's edit, a claim or bank values: any of them may clear void.    *)
UpdateTransaction(t, accts, d, v) ==
  /\ t \notin generated /\ row[t].live /\ (v => row[t].void)
  /\ accts \subseteq AccountsOf(owner[t]) /\ accts # {}
  /\ row' = [row EXCEPT ![t] = Row(accts, d, v)]
  /\ index' = RefreshedFor(index, t, row'[t], policy)
  /\ UNCHANGED <<membership, accounts, generated, grant, policy>>

(* The sync voids a hold that was dropped; its references stay.            *)
VoidTransaction(t) ==
  /\ t \notin generated /\ row[t].live /\ ~row[t].void
  /\ row' = [row EXCEPT ![t].void = TRUE]
  /\ UNCHANGED <<membership, accounts, generated, grant, policy, index>>

DeleteTransaction(t) ==
  /\ t \notin generated /\ row[t].live
  /\ row' = [row EXCEPT ![t] = NoRow]
  /\ grant' = [grant EXCEPT ![t] = [g \in Group |-> "none"]]
  /\ index' = [index EXCEPT ![t] = [g \in Group |-> 0]]
  /\ UNCHANGED <<membership, accounts, generated, policy>>

(* Projection output is inserted and deleted past the index.               *)
SaveGeneratedTransactions(t, accts, d) ==
  /\ t \in generated
  /\ accts \subseteq AccountsOf(owner[t]) /\ accts # {}
  /\ row' = [row EXCEPT ![t] = Row(accts, d, FALSE)]
  /\ UNCHANGED <<membership, accounts, generated, grant, policy, index>>

DeleteGeneratedTransactions(t) ==
  /\ t \in generated /\ row[t].live
  /\ row' = [row EXCEPT ![t] = NoRow]
  /\ UNCHANGED <<membership, accounts, generated, grant, policy, index>>

(* Grant, revoke, exclude and unexclude of one group.                      *)
DecideGroup(t, g, from, to) ==
  /\ row[t].live /\ exists[g] /\ grant[t][g] = from
  /\ {from, to} # {"shared", "excluded"} /\ from # to
  /\ grant' = [grant EXCEPT ![t][g] = to]
  /\ UNCHANGED <<membership, model, policy, index>>

(* Clear and model import replace the rows of one user.                    *)
ClearModel(u) ==
  /\ accounts' = accounts \ AccountsOf(u)
  /\ row' = [t \in Tx |-> IF owner[t] = u THEN NoRow ELSE row[t]]
  /\ grant' = [t \in Tx |-> IF owner[t] = u THEN [g \in Group |-> "none"] ELSE grant[t]]
  /\ policy' = [policy EXCEPT ![u] = [g \in Group |-> NoPolicy]]
  /\ index' = Dropped(index, {u}, Group)
  /\ UNCHANGED <<membership, generated>>

-----------------------------------------------------------------------------
Init ==
  /\ exists = [g \in Group |-> FALSE]
  /\ role = [g \in Group |-> [u \in User |-> "none"]]
  /\ invite = [g \in Group |-> NoInvite]
  /\ orphaned = {}
  /\ accounts = Account
  /\ row = [t \in Tx |-> NoRow]
  /\ generated \in SUBSET Tx
  /\ grant = [t \in Tx |-> [g \in Group |-> "none"]]
  /\ policy = [u \in User |-> [g \in Group |-> NoPolicy]]
  /\ index = [t \in Tx |-> [g \in Group |-> 0]]

(* One call of /v1/groups: the handler picks the store call by path and    *)
(* method.  Reads and the rename change nothing that is modelled.          *)
ServeGroup(g, u) == CreateGroup(g, u) \/ DeleteGroup(g, u) \/ LeaveGroup(g, u)

ServeMembers(g, u) ==
  \E w \in User :
    \/ RemoveMember(g, u, w)
    \/ \E to \in {"owner", "admin", "member"} : UpdateMemberRole(g, u, w, to)

ServeInvites(g, u) == RevokeInvite(g) \/ \E n \in 1..MaxUses : CreateInvite(g, u, n)

GroupSteps ==
  \E g \in Group, u \in User :
    ServeGroup(g, u) \/ ServeMembers(g, u) \/ ServeInvites(g, u) \/ AcceptInvite(g, u)

PolicySteps ==
  \/ \E u \in User, g \in Group, on \in BOOLEAN, accts \in SUBSET Account, i \in Interval :
       SetSharingPolicy(u, g, on, accts, i)
  \/ \E u \in User : RebuildSharingIndex(u) \/ ClearModel(u) \/ DeleteGroupMemberships(u)
  \/ \E a \in Account : \/ CreateAccount(a) \/ DeleteAccount(a)
                        \/ \E b \in Account : SupersedeAccount(a, b)

RowSteps ==
  \E t \in Tx :
    \/ \E accts \in SUBSET Account, d \in Day :
         \/ CreateTransaction(t, accts, d) \/ SaveGeneratedTransactions(t, accts, d)
         \/ \E v \in BOOLEAN : UpdateTransaction(t, accts, d, v)
    \/ VoidTransaction(t) \/ DeleteTransaction(t) \/ DeleteGeneratedTransactions(t)
    \/ \E g \in Group, from, to \in {"none", "shared", "excluded"} : DecideGroup(t, g, from, to)

Next == GroupSteps \/ PolicySteps \/ RowSteps

Spec == Init /\ [][Next]_vars

-----------------------------------------------------------------------------
(* Types.                                                                  *)
RowType    == [live : BOOLEAN, accounts : SUBSET Account, day : Day \cup {0}, void : BOOLEAN]
PolicyType == [enabled : BOOLEAN, accounts : SUBSET Account, from : Nat, to : Nat,
               version : 0..MaxVersion]

(* Rows and policies name accounts of their owner that exist.              *)
TypeOK ==
  /\ exists \in [Group -> BOOLEAN]
  /\ role \in [Group -> [User -> {"none", "member", "admin", "owner"}]]
  /\ invite \in [Group -> [by : User \cup {"none"}, left : 0..MaxUses]]
  /\ orphaned \subseteq Group
  /\ accounts \subseteq Account /\ generated \subseteq Tx
  /\ row \in [Tx -> RowType]
  /\ \A t \in Tx : row[t].accounts \subseteq AccountsOf(owner[t])
  /\ grant \in [Tx -> [Group -> {"none", "shared", "excluded"}]]
  /\ policy \in [User -> [Group -> PolicyType]]
  /\ \A u \in User, g \in Group : policy[u][g].accounts \subseteq AccountsOf(u)
  /\ index \in [Tx -> [Group -> 0..MaxVersion]]

(* The list finds, and finds only, what a detail read would allow: for     *)
(* every model row of somebody else, being listed and being readable are   *)
(* the same, whatever sequence of writes led here.                         *)
ListedExactly ==
  \A u \in User, t \in Tx \ generated : owner[t] # u =>
    (t \in ListSharedTransactions(u) <=> CheckSharedTransactionAccess(t, u))

(* A member finds in the feed of a group exactly the readable model rows   *)
(* that reach the group by a grant or a policy naming it.                  *)
FeedExact ==
  \A g \in Group, t \in Tx \ generated : \A u \in Members(g) :
    t \in ListGroupSharedFeed(u, g) <=>
      /\ CheckSharedTransactionAccess(t, u)
      /\ grant[t][g] # "excluded"
      /\ ManualGroupAccess(t, u, g) \/ AutomaticPolicyAccess(t, u, g)

(* The committed index never mixes generations, and nothing refers to a    *)
(* dead group or a deleted model row.                                      *)
IndexOneGeneration ==
  \A t \in Tx \ generated, g \in Group : index[t][g] # 0 =>
    /\ exists[g] /\ row[t].live
    /\ index[t][g] = policy[owner[t]][g].version

(* The sharing index is never behind what it summarises: one generation,   *)
(* and the list and the feed built on it agree with a detail read.         *)
SharingIndexExact == IndexOneGeneration /\ ListedExactly /\ FeedExact

(* Roles: a group has an owner as long as it exists; only the removal of a *)
(* whole user may leave it without one.                                    *)
OwnerRemains == \A g \in Group : exists[g] => Owners(g) # {} \/ g \in orphaned

=============================================================================
