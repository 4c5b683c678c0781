---------------------------- MODULE Organization -----------------------------
(***************************************************************************)
(* The members of one business organisation: invitations and their answers *)
(* (backend/api/org_invitations.py), adding and removing members           *)
(* (backend/api/org_routes.py), roles (backend/auth/auth_routes.py and     *)
(* admin_user_routes.py) and the deactivation of accounts.                 *)
(*                                                                         *)
(* Every change of a membership holds the lock of the organisation's row   *)
(* from its checks to its commit and is one action.  An invitation is      *)
(* authorised before that lock, so it has two.                             *)
(***************************************************************************)
EXTENDS Naturals, FiniteSets

CONSTANTS
  Users,
  Owner,      \* to_chuc.owner_user_id
  Platform,   \* a platform administrator, who is no member
  MaxSeats    \* model bound: member_quota

ASSUME OrganizationAssumption ==
  IsFiniteSet(Users) /\ Owner \in Users /\ Platform \notin Users /\ MaxSeats \in Nat

VARIABLES
  member,    \* thanh_vien_to_chuc: role, and whether the member has left
  account,   \* tai_khoan.trang_thai = 'active'
  seats,     \* member_quota of the organisation's subscription, 0 when it is not active
  trial,     \* trial_full_access_enabled(): the deployment enforces no quota
  invite,    \* the latest invitation to each user's address
  inviting   \* invitations authorised and not yet stored: <<inviter, invited>>

orgVars == <<member, account, seats, trial, invite, inviting>>

Actors == Users \cup {Platform}
NotAMember == [role |-> "none", active |-> FALSE]
NoInvitation == [status |-> "none", by |-> Platform, expired |-> FALSE]

OrganizationTypeOK ==
  /\ member \in [Users -> [role: {"none", "employee", "manager"}, active: BOOLEAN]]
  /\ account \in [Users -> BOOLEAN]
  /\ seats \in 0..MaxSeats /\ trial \in BOOLEAN
  /\ invite \in [Users -> [status: {"none", "pending", "accepted", "declined", "revoked"},
                           by: Actors, expired: BOOLEAN]]
  /\ inviting \subseteq Actors \X Users

\* _create_organization_sync: whoever creates it owns and manages it.
OrganizationInit ==
  /\ member = [u \in Users |-> IF u = Owner THEN [role |-> "manager", active |-> TRUE]
                                            ELSE NotAMember]
  /\ account = [u \in Users |-> TRUE]
  /\ seats = MaxSeats
  /\ trial \in BOOLEAN
  /\ invite = [u \in Users |-> NoInvitation]
  /\ inviting = {}

ActiveMembers == {u \in Users : member[u].active}
\* Mutant: who has left with the role still counts.
EverManagers == {u \in Users : member[u].role = "manager"}
Managers == {u \in Users : member[u].active /\ member[u].role = "manager"}

\* A platform administrator, or an active manager with an active account.
MayManage(a) == a = Platform \/ (a \in Managers /\ account[a])

-----------------------------------------------------------------------------
AuthoriseInvitation(a, u) ==
  /\ MayManage(a) /\ inviting = {} /\ inviting' = {<<a, u>>}
  /\ UNCHANGED <<member, account, seats, trial, invite>>

\* A pending invitation to the same address is renewed.
StoreInvitation(a, u) ==
  /\ <<a, u>> \in inviting /\ inviting' = {}
  /\ invite' = [invite EXCEPT ![u] = [status |-> "pending", by |-> a, expired |-> FALSE]]
  /\ UNCHANGED <<member, account, seats, trial>>

SetInvitation(u, status) == invite' = [invite EXCEPT ![u].status = status]
Open(u) == invite[u].status = "pending"

RevokeInvitation(a, u) ==
  /\ MayManage(a) /\ Open(u) /\ SetInvitation(u, "revoked")
  /\ UNCHANGED <<member, account, seats, trial, inviting>>

InvitationExpires(u) ==
  /\ Open(u) /\ ~invite[u].expired /\ invite' = [invite EXCEPT ![u].expired = TRUE]
  /\ UNCHANGED <<member, account, seats, trial, inviting>>

MayAnswer(u) == account[u] /\ Open(u) /\ ~invite[u].expired

DeclineInvitation(u) ==
  /\ MayAnswer(u) /\ SetInvitation(u, "declined")
  /\ UNCHANGED <<member, account, seats, trial, inviting>>

\* Mutant: the limit is compared before the newcomer is counted.
SeatOnArrival == trial \/ Cardinality(ActiveMembers) <= seats
\* _organization_member_quota_error: a deployment on trial seats everybody.
SeatLeft == trial \/ Cardinality(ActiveMembers) < seats

\* activate_organization_membership: a member comes, or comes back, as employee.
Activate(u) ==
  SeatLeft /\ member' = [member EXCEPT ![u] = [role |-> "employee", active |-> TRUE]]

\* The invitation carries the inviter's authority; it ends with it.
AcceptInvitation(u) ==
  /\ MayAnswer(u)
  /\ \/ ~MayManage(invite[u].by) /\ SetInvitation(u, "revoked") /\ UNCHANGED member
     \/ /\ MayManage(invite[u].by) /\ SetInvitation(u, "accepted")
        /\ \/ member[u].active /\ UNCHANGED member
           \/ ~member[u].active /\ Activate(u)
  /\ UNCHANGED <<account, seats, trial, inviting>>

\* add_user_to_org: former members come back; only the platform adds others.
AddMember(a, u) ==
  /\ MayManage(a) /\ account[u] /\ ~member[u].active
  /\ a = Platform \/ member[u].role # "none"
  /\ Activate(u)
  /\ UNCHANGED <<account, seats, trial, invite, inviting>>

SparesManager(u) == u \in Managers => Cardinality(Managers) > 1

\* The role stays in the row of whoever has left.
RemoveMember(a, u) ==
  /\ a # u /\ MayManage(a) /\ member[u].active /\ SparesManager(u)
  /\ member' = [member EXCEPT ![u].active = FALSE]
  /\ UNCHANGED <<account, seats, trial, invite, inviting>>

\* _commit_user_role_update asks neither of the actor nor of the target
\* whether the membership is active.
OwnerSetsRole(u, role) ==
  /\ u # Owner /\ account[Owner] /\ member[Owner].role = "manager"
  /\ member[u].role # "none"
  /\ member[u].role = "manager" /\ role = "employee" => Cardinality(Managers) > 1
  /\ member' = [member EXCEPT ![u].role = role]
  /\ UNCHANGED <<account, seats, trial, invite, inviting>>

\* The same by a platform administrator, who may not demote the owner, and
\* AdminSetRole, which asks for an active membership and knows no owner.
PlatformSetsRole(u, role) ==
  /\ member[u].role # "none"
  /\ member[u].active \/ u # Owner \/ role = "manager"
  /\ member[u].role = "manager" /\ role = "employee" => Cardinality(Managers) > 1
  /\ member' = [member EXCEPT ![u].role = role]
  /\ UNCHANGED <<account, seats, trial, invite, inviting>>

\* deactivate_user: the last manager with an active account stays.
DeactivateAccount(u) ==
  /\ account[u]
  /\ u \in Managers => \E other \in Managers \ {u} : account[other]
  /\ account' = [account EXCEPT ![u] = FALSE]
  /\ UNCHANGED <<member, seats, trial, invite, inviting>>

\* Another package, whose quota may lie below the number of members.
ChangePackage(quota) ==
  /\ seats # quota /\ seats' = quota
  /\ UNCHANGED <<member, account, trial, invite, inviting>>

\* The deployment restarts with its trial switched on or off.
SwitchTrial == trial' = ~trial /\ UNCHANGED <<member, account, seats, invite, inviting>>

-----------------------------------------------------------------------------
OrganizationNext ==
  \/ \E a \in Actors, u \in Users :
       AuthoriseInvitation(a, u) \/ StoreInvitation(a, u) \/ RevokeInvitation(a, u)
         \/ AddMember(a, u) \/ RemoveMember(a, u)
  \/ \E u \in Users : InvitationExpires(u) \/ DeclineInvitation(u) \/ AcceptInvitation(u)
                        \/ DeactivateAccount(u)
  \/ \E u \in Users, role \in {"employee", "manager"} :
       OwnerSetsRole(u, role) \/ PlatformSetsRole(u, role)
  \/ \E quota \in 0..MaxSeats : ChangePackage(quota)
  \/ SwitchTrial

OrganizationSpec == OrganizationInit /\ [][OrganizationNext]_orgVars

-----------------------------------------------------------------------------
\* Removals, demotions, deactivations and returns leave the organisation an
\* active member who manages it.
ManagerRemains == Managers # {}

\* Unless the deployment is on trial, whoever comes or comes back finds a seat, by
\* whichever door, whatever became of the package since the invitation and however
\* many members the trial let in before.
NoSeatIsOverfilled ==
  [][~trial /\ ActiveMembers' \ ActiveMembers # {}
       => Cardinality(ActiveMembers') <= seats]_orgVars
=============================================================================
