----------------------------- MODULE Organizations -----------------------------
(***************************************************************************)
(* Organizations, their roles and permissions, and who holds which role.     *)
(*                                                                          *)
(* Every handler checks a permission and reads what it is going to change in *)
(* one transaction snapshot after another, and commits at the end; requests  *)
(* run on a thread pool and in several workers at READ COMMITTED, so another *)
(* commit may come in between.  A request therefore is what it will commit,  *)
(* req[r], decided by what it read (Start...) and written later (Commit...). *)
(* At the commit the database has its say: a foreign key, a unique or a      *)
(* primary key constraint, or a row SQLAlchemy expected and did not find     *)
(* (StaleDataError) refuses the whole transaction.                           *)
(*                                                                          *)
(* Invitations by e-mail are module Invitations.  A form field names any id, *)
(* also one of another organization: ids are bound by nothing but the guards *)
(* of the code.                                                              *)
(***************************************************************************)
EXTENDS Naturals, FiniteSets, Sequences, Functions

CONSTANTS
  User, Name,    \* people; names of organizations
  CustomName,    \* names of roles beside the default ones
  Selections,    \* permission sets a role form may be submitted with
  Request,       \* requests that may be in progress together
  Ops,           \* operations the clients of a run use, a subset of AllOps
  Lossy,         \* whether requests may die
  None,          \* no name
  MaxOrgs,       \* bound: organizations ever created
  MaxRoles       \* bound: roles ever created

AllOps == {"create", "rename", "close", "join", "add role", "edit role",
           "drop role", "assign", "remove", "leave"}

ValidPermissions == {"delete organization", "edit organization", "invite user",
                     "remove user", "edit user role", "create role",
                     "delete role", "edit role"}
AppPermissions == {"read resources", "write resources", "delete resources"}
Permission == ValidPermissions \cup AppPermissions
DefaultRoles == {"Owner", "Administrator", "Member"}

ASSUME OrganizationConstants ==
  /\ Ops \subseteq AllOps /\ Lossy \in BOOLEAN
  /\ Selections \subseteq SUBSET Permission
  /\ None \notin Name /\ None \notin CustomName \cup DefaultRoles
  /\ CustomName \cap DefaultRoles = {}
  /\ MaxOrgs \in Nat /\ MaxRoles \in Nat

VARIABLES
  users,      \* User rows
  orgs,       \* Organization rows: the name of each
  roles,      \* Role rows with their RolePermissionLinks
  links,      \* UserRoleLink rows
  orgsMade,   \* organization ids given out
  rolesMade,  \* role ids given out
  req         \* requests in progress

tables == <<users, orgs, roles, links, orgsMade, rolesMade>>
vars == <<tables, req>>

OrgId == 1..MaxOrgs
RoleId == 1..MaxRoles
RoleName == DefaultRoles \cup CustomName
Role == [org : OrgId, name : RoleName, permissions : SUBSET Permission]
NoRole == [org |-> 0, name |-> None, permissions |-> {}]

\* create_default_roles: everything to Owner, all but the deletion of the
\* organization to Administrator, nothing to Member.
DefaultPermissions(n) ==
  CASE n = "Owner"         -> Permission
    [] n = "Administrator" -> Permission \ {"delete organization"}
    [] n = "Member"        -> {}

\* What a request in progress is going to commit.
Idle == [op |-> "idle"]
Creation == [op : {"create"}, actor : User, name : Name]
Owning == [op : {"own"}, actor : User, role : RoleId]
Renaming == [op : {"rename"}, org : OrgId, name : Name]
Closing == [op : {"close"}, org : OrgId]
Joining == [op : {"join"}, user : User, role : RoleId]
NewRole == [op : {"add role"}, role : Role]
Edit == [op : {"edit role"}, id : RoleId, name : RoleName,
         selected : SUBSET Permission, gained : SUBSET Permission,
         lost : SUBSET Permission]
Drop == [op : {"drop role"}, id : RoleId]
Assignment == [op : {"assign"}, user : User, org : OrgId, seen : SUBSET RoleId,
               chosen : SUBSET RoleId]
Removal == [op : {"remove"}, user : User, org : OrgId, seen : SUBSET RoleId]
Leave == [op : {"leave"}, user : User, empty : SUBSET OrgId]
Pending == Creation \cup Owning \cup Renaming \cup Closing \cup Joining \cup NewRole
           \cup Edit \cup Drop \cup Assignment \cup Removal \cup Leave

TypeOK ==
  /\ users \subseteq User
  /\ orgs \in [OrgId -> Name \cup {None}]
  /\ roles \in [RoleId -> Role \cup {NoRole}]
  /\ links \subseteq User \X RoleId
  /\ orgsMade \in 0..MaxOrgs
  /\ rolesMade \in 0..MaxRoles
  /\ req \in [Request -> Pending \cup {Idle}]

Init ==
  /\ users = User
  /\ orgs = [o \in OrgId |-> None]
  /\ roles = [i \in RoleId |-> NoRole]
  /\ links = {}
  /\ orgsMade = 0
  /\ rolesMade = 0
  /\ req = [r \in Request |-> Idle]

-----------------------------------------------------------------------------
(* What the handlers ask of the database *)

IsOrg(o) == orgs[o] # None
IsRole(i) == roles[i] # NoRole
Custom(i) == IsRole(i) /\ roles[i].name \notin DefaultRoles
RolesOf(o) == {i \in RoleId : IsRole(i) /\ roles[i].org = o}
RolesIn(u, o) == {i \in RolesOf(o) : <<u, i>> \in links}
MembersOf(o) == {u \in users : RolesIn(u, o) # {}}
NameTaken(n, o) == \E i \in RolesOf(o) : roles[i].name = n

\* User.has_permission looks at the first role of the organization among
\* user.roles, which the database returns in no particular order.
HasPermission(u, p, o) ==
  u \in users /\ \E first \in RolesIn(u, o) : p \in roles[first].permissions

Free(r) == req[r] = Idle
Start(r, q) == Free(r) /\ req' = [req EXCEPT ![r] = q] /\ UNCHANGED tables
Done(r) == req' = [req EXCEPT ![r] = Idle]
Refused(r) == Done(r) /\ UNCHANGED tables

\* Ids that requests in progress are going to use.
Busy(op) == Cardinality({r \in Request : req[r].op = op})
RoomForOrg == /\ orgsMade + Busy("create") < MaxOrgs
              /\ rolesMade + 3 * Busy("create") + Busy("add role") + 3 <= MaxRoles
RoomForRole == rolesMade + 3 * Busy("create") + Busy("add role") < MaxRoles

\* What is left of orgs and roles when ORM cascades delete the organizations O.
OrgsWithout(O) == [o \in OrgId |-> IF o \in O THEN None ELSE orgs[o]]
RolesWithout(O) == [i \in RoleId |-> IF roles[i].org \in O THEN NoRole ELSE roles[i]]
LinksWithout(O) == {l \in links : roles[l[2]].org \notin O}

-----------------------------------------------------------------------------
(* Creating, renaming and deleting an organization *)

StartCreate(r, u, n) ==
  /\ "create" \in Ops /\ u \in users /\ RoomForOrg
  /\ \A o \in OrgId : orgs[o] # n
  /\ Start(r, [op |-> "create", actor |-> u, name |-> n])

\* create_default_roles commits the organization with its three roles; nobody
\* holds one yet.
CommitCreate(r) ==
  LET o == orgsMade + 1
      default == [k \in 1..3 |-> <<"Owner", "Administrator", "Member">>[k]]
  IN  /\ req[r].op = "create"
      /\ orgsMade < MaxOrgs /\ rolesMade + 3 <= MaxRoles
      /\ orgs' = [orgs EXCEPT ![o] = req[r].name]
      /\ roles' = [i \in RoleId |->
                     IF i \in rolesMade + 1 .. rolesMade + 3
                     THEN [org |-> o, name |-> default[i - rolesMade],
                           permissions |-> DefaultPermissions(default[i - rolesMade])]
                     ELSE roles[i]]
      /\ orgsMade' = o
      /\ rolesMade' = rolesMade + 3
      /\ req' = [req EXCEPT ![r] = [op |-> "own", actor |-> req[r].actor,
                                    role |-> rolesMade + 1]]
      /\ UNCHANGED <<users, links>>

\* INSERT of a UserRoleLink, under its keys.
AddLink(r, u, i) ==
  IF u \in users /\ IsRole(i) /\ <<u, i>> \notin links
  THEN /\ links' = links \cup {<<u, i>>}
       /\ Done(r)
       /\ UNCHANGED <<users, orgs, roles, orgsMade, rolesMade>>
  ELSE Refused(r)

CommitOwner(r) == req[r].op = "own" /\ AddLink(r, req[r].actor, req[r].role)

\* Mutant: the new name is not looked up.
RenameUnchecked(r, u, o, n) ==
  /\ "rename" \in Ops
  /\ HasPermission(u, "edit organization", o)
  /\ Start(r, [op |-> "rename", org |-> o, name |-> n])

StartRename(r, u, o, n) ==
  /\ "rename" \in Ops
  /\ HasPermission(u, "edit organization", o)
  /\ \A other \in OrgId \ {o} : orgs[other] # n
  /\ Start(r, [op |-> "rename", org |-> o, name |-> n])

CommitRename(r) ==
  /\ req[r].op = "rename"
  /\ IF IsOrg(req[r].org)
     THEN /\ orgs' = [orgs EXCEPT ![req[r].org] = req[r].name]
          /\ Done(r)
          /\ UNCHANGED <<users, roles, links, orgsMade, rolesMade>>
     ELSE Refused(r)

StartClose(r, u, o) ==
  /\ "close" \in Ops
  /\ HasPermission(u, "delete organization", o)
  /\ Start(r, [op |-> "close", org |-> o])

\* The cascades load what is there at the flush; a row inserted by another
\* request within it makes a foreign key refuse the deletion.
CommitClose(r) ==
  /\ req[r].op = "close"
  /\ orgs' = OrgsWithout({req[r].org})
  /\ roles' = RolesWithout({req[r].org})
  /\ links' = LinksWithout({req[r].org})
  /\ Done(r)
  /\ UNCHANGED <<users, orgsMade, rolesMade>>

-----------------------------------------------------------------------------
(* Roles *)

StartAddRole(r, u, o, n, S) ==
  /\ "add role" \in Ops /\ RoomForRole
  /\ HasPermission(u, "create role", o)
  /\ ~NameTaken(n, o)
  /\ Start(r, [op |-> "add role", role |-> [org |-> o, name |-> n, permissions |-> S]])

CommitAddRole(r) ==
  LET q == req[r]
  IN  /\ q.op = "add role"
      /\ IF IsOrg(q.role.org) /\ ~NameTaken(q.role.name, q.role.org)
         THEN /\ rolesMade < MaxRoles
              /\ roles' = [roles EXCEPT ![rolesMade + 1] = q.role]
              /\ rolesMade' = rolesMade + 1
              /\ Done(r)
              /\ UNCHANGED <<users, orgs, links, orgsMade>>
         ELSE Refused(r)

\* Mutant: the item after a removed one is removed with it.
SweepNext(list, S) ==
  LET gone == {k \in DOMAIN list : list[k] \notin S}
  IN  {list[k] : k \in gone} \cup {list[k + 1] : k \in {j \in gone : j < Len(list)}}

\* update_role removes items from the list it iterates: the item after a
\* removed one moves into its place and is not looked at.  What it appends
\* first is selected, so whether it is looked at makes no difference.
Sweep(list, S) ==
  LET looked[k \in DOMAIN list] ==
        k = 1 \/ ~(looked[k - 1] /\ list[k - 1] \notin S)
  IN  {list[k] : k \in {j \in DOMAIN list : looked[j] /\ list[j] \notin S}}

StartEditRole(r, u, o, i, n, S) ==
  /\ "edit role" \in Ops
  /\ HasPermission(u, "edit role", o)
  /\ Custom(i)
  /\ \A j \in RolesOf(o) \ {i} : roles[j].name # n
  /\ \E list \in Bijection(1 .. Cardinality(roles[i].permissions), roles[i].permissions) :
       Start(r, [op |-> "edit role", id |-> i, name |-> n, selected |-> S,
                 gained |-> S \ roles[i].permissions, lost |-> Sweep(list, S)])

CommitEditRole(r) ==
  LET q == req[r]
      old == roles[q.id]
  IN  /\ q.op = "edit role"
      /\ IF /\ IsRole(q.id)
            /\ \A j \in RolesOf(old.org) \ {q.id} : roles[j].name # q.name
            /\ q.gained \cap old.permissions = {} /\ q.lost \subseteq old.permissions
         THEN /\ roles' = [roles EXCEPT ![q.id] =
                             [org |-> old.org, name |-> q.name,
                              permissions |-> (old.permissions \cup q.gained) \ q.lost]]
              /\ Done(r)
              /\ UNCHANGED <<users, orgs, links, orgsMade, rolesMade>>
         ELSE Refused(r)

\* Mutant: default roles are not protected.
DropAnyRole(r, u, o, i) ==
  /\ "drop role" \in Ops
  /\ HasPermission(u, "delete role", o)
  /\ IsRole(i)
  /\ \A v \in User : <<v, i>> \notin links
  /\ Start(r, [op |-> "drop role", id |-> i])

StartDropRole(r, u, o, i) ==
  /\ "drop role" \in Ops
  /\ HasPermission(u, "delete role", o)
  /\ Custom(i)
  /\ \A v \in User : <<v, i>> \notin links
  /\ Start(r, [op |-> "drop role", id |-> i])

\* Mutant: the foreign key of UserRoleLink does not refuse.
DropHeldRole(r) ==
  /\ req[r].op = "drop role"
  /\ roles' = [roles EXCEPT ![req[r].id] = NoRole]
  /\ Done(r)
  /\ UNCHANGED <<users, orgs, links, orgsMade, rolesMade>>

CommitDropRole(r) ==
  LET i == req[r].id
  IN  /\ req[r].op = "drop role"
      /\ IF \A v \in User : <<v, i>> \notin links
         THEN /\ roles' = [roles EXCEPT ![i] = NoRole]
              /\ Done(r)
              /\ UNCHANGED <<users, orgs, links, orgsMade, rolesMade>>
         ELSE Refused(r)

-----------------------------------------------------------------------------
(* Members *)

\* invite_member: an existing user gets the role Member at once.
StartJoin(r, u, o, v) ==
  /\ "join" \in Ops
  /\ HasPermission(u, "invite user", o)
  /\ v \in users \ MembersOf(o)
  /\ \E i \in RolesOf(o) :
       /\ roles[i].name = "Member"
       /\ Start(r, [op |-> "join", user |-> v, role |-> i])

CommitJoin(r) == req[r].op = "join" /\ AddLink(r, req[r].user, req[r].role)

\* UPDATE of a user's roles: the links in `out` are deleted, those in `in`
\* inserted.
ChangeLinks(r, v, out, in) ==
  IF /\ \A i \in out : <<v, i>> \in links
     /\ in # {} => v \in users
     /\ \A i \in in : IsRole(i) /\ <<v, i>> \notin links
  THEN /\ links' = (links \ ({v} \X out)) \cup ({v} \X in)
       /\ Done(r)
       /\ UNCHANGED <<users, orgs, roles, orgsMade, rolesMade>>
  ELSE Refused(r)

\* The ids in the form that are roles of the organization are the ones chosen.
StartAssign(r, u, o, v, R) ==
  /\ "assign" \in Ops
  /\ HasPermission(u, "edit user role", o)
  /\ v \in users
  /\ R \subseteq RolesOf(o)
  /\ Start(r, [op |-> "assign", user |-> v, org |-> o, seen |-> RolesIn(v, o),
               chosen |-> R])

\* Mutant: the roles held before are kept.
AssignMore(r) ==
  LET q == req[r]
  IN  q.op = "assign" /\ ChangeLinks(r, q.user, {}, q.chosen \ q.seen)

CommitAssign(r) ==
  LET q == req[r]
  IN  q.op = "assign" /\ ChangeLinks(r, q.user, q.seen \ q.chosen, q.chosen \ q.seen)

\* Mutant: users may remove themselves.
RemoveAnyone(r, u, o, v) ==
  /\ "remove" \in Ops
  /\ HasPermission(u, "remove user", o)
  /\ v \in users
  /\ Start(r, [op |-> "remove", user |-> v, org |-> o, seen |-> RolesIn(v, o)])

StartRemove(r, u, o, v) ==
  /\ "remove" \in Ops
  /\ HasPermission(u, "remove user", o)
  /\ v \in users \ {u}
  /\ Start(r, [op |-> "remove", user |-> v, org |-> o, seen |-> RolesIn(v, o)])

CommitRemove(r) == req[r].op = "remove" /\ ChangeLinks(r, req[r].user, req[r].seen, {})

\* delete_account: the organizations the user is the only member of go too.
StartLeave(r, u) ==
  /\ "leave" \in Ops
  /\ u \in users
  /\ Start(r, [op |-> "leave", user |-> u,
               empty |-> {o \in OrgId : IsOrg(o) /\ MembersOf(o) = {u}}])

CommitLeave(r) ==
  LET q == req[r]
  IN  /\ q.op = "leave"
      /\ users' = users \ {q.user}
      /\ orgs' = OrgsWithout(q.empty)
      /\ roles' = RolesWithout(q.empty)
      /\ links' = {l \in LinksWithout(q.empty) : l[1] # q.user}
      /\ Done(r)
      /\ UNCHANGED <<orgsMade, rolesMade>>

-----------------------------------------------------------------------------

\* The request dies: what it had committed stays.
Abort(r) == Lossy /\ ~Free(r) /\ Refused(r)

ArriveOrg(r, u) ==
  \/ \E n \in Name : StartCreate(r, u, n)
  \/ \E o \in OrgId, n \in Name : StartRename(r, u, o, n)
  \/ \E o \in OrgId : StartClose(r, u, o)

ArriveRole(r, u, o) ==
  \/ \E n \in RoleName, S \in Selections : StartAddRole(r, u, o, n, S)
  \/ \E i \in RoleId, n \in RoleName, S \in Selections : StartEditRole(r, u, o, i, n, S)
  \/ \E i \in RoleId : StartDropRole(r, u, o, i)

ArriveMember(r, u, o, v) ==
  \/ StartJoin(r, u, o, v)
  \/ \E R \in SUBSET RolesOf(o) : StartAssign(r, u, o, v, R)
  \/ StartRemove(r, u, o, v)

Arrive(r) ==
  \E u \in User : \/ ArriveOrg(r, u)
                  \/ StartLeave(r, u)
                  \/ \E o \in OrgId : ArriveRole(r, u, o)
                  \/ \E o \in OrgId, v \in User : ArriveMember(r, u, o, v)

Serve(r) ==
  \/ CommitCreate(r) \/ CommitOwner(r) \/ CommitRename(r) \/ CommitClose(r)
  \/ CommitAddRole(r) \/ CommitEditRole(r) \/ CommitDropRole(r)
  \/ CommitJoin(r) \/ CommitAssign(r) \/ CommitRemove(r) \/ CommitLeave(r)

Next == \E r \in Request : Arrive(r) \/ Serve(r) \/ Abort(r)

Spec == Init /\ [][Next]_vars

-----------------------------------------------------------------------------
(* Properties *)

\* No row points at a row that is gone and no organization has two roles of
\* one name, whatever is deleted under a request that is about to write (the
\* foreign keys, the cascades and uq_role_organization_name of models.py).
NoDangling ==
  /\ \A l \in links : l[1] \in users /\ IsRole(l[2])
  /\ \A i \in RoleId : IsRole(i) => IsOrg(roles[i].org)
  /\ \A i, j \in RoleId : IsRole(i) /\ IsRole(j) /\ roles[i].org = roles[j].org
                            /\ roles[i].name = roles[j].name => i = j

\* An organization has its three default roles with the permissions they were
\* created with, as long as it exists, whatever forms were sent before and come
\* late: update_role and delete_role test the name they read (role.py:157, 252)
\* and commit afterwards.
DefaultRolesKept ==
  \A o \in OrgId : IsOrg(o) => \A n \in DefaultRoles : \E i \in RoleId :
     roles[i] = [org |-> o, name |-> n, permissions |-> DefaultPermissions(n)]

\* The inductive invariant: ids are given out once, and an edit or a deletion in
\* progress is of a role that was given out and is gone or not a default one.
Fresh ==
  /\ \A o \in OrgId : o > orgsMade => ~IsOrg(o)
  /\ \A i \in RoleId : i > rolesMade => ~IsRole(i)

NamesRole(q) == q.op \in {"edit role", "drop role"}

FormsNameCustomRoles ==
  \A r \in Request : NamesRole(req[r]) =>
     req[r].id <= rolesMade /\ (IsRole(req[r].id) => Custom(req[r].id))

\* What every state satisfies: types, references, default roles and the two
\* facts about ids they rest on (the handlers of organization.py, role.py and
\* user.py together).
IInv == TypeOK /\ NoDangling /\ DefaultRolesKept /\ Fresh /\ FormsNameCustomRoles

\* An organization that keeps existing keeps a member, whatever members remove
\* each other or delete their accounts ("Delete organizations that would have no
\* remaining users", account.py:99; "Prevent removing oneself", user.py:339).
\* Only a role form can clear the roles of the last one.
LastMemberStays ==
  [][\A o \in OrgId : IsOrg(o) /\ MembersOf(o) # {} /\ IsOrg(o)' =>
        MembersOf(o)' # {} \/ \E r \in Request : CommitAssign(r)]_vars

\* Two organizations never have one name ("Check if organization already
\* exists", organization.py:107).
NamesUnique == \A o, p \in OrgId : IsOrg(o) /\ orgs[o] = orgs[p] => o = p

\* Once update_user_role has committed, the user holds the chosen roles of the
\* organization and no other, and all roles elsewhere are as they were; once
\* remove_user_from_organization has, the user has no role left in it ("by
\* removing all their roles in that organization", user.py:318).
MembershipExact ==
  [][\A r \in Request : links' # links =>
        LET q == req[r]
            mine(L) == {i \in RolesOf(q.org) : <<q.user, i>> \in L}
            others(L) == {l \in L : l[1] # q.user \/ l[2] \notin RolesOf(q.org)}
        IN  /\ CommitAssign(r) => mine(links') = q.chosen /\ others(links') = others(links)
            /\ CommitRemove(r) => mine(links') = {} /\ others(links') = others(links)]_vars

\* An edited role has every permission selected in the form and gains none
\* that was not.
EditKeepsSelected ==
  [][\A r \in Request : CommitEditRole(r) /\ roles' # roles =>
        LET i == req[r].id
        IN  /\ req[r].selected \subseteq roles'[i].permissions
            /\ roles'[i].permissions \subseteq req[r].selected \cup roles[i].permissions]_vars
=============================================================================
