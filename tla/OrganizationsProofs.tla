-------------------------- MODULE OrganizationsProofs --------------------------
(***************************************************************************)
(* Theorems about Organizations for any people, names, role forms, number of *)
(* concurrent requests and bounds: types, references and the default roles   *)
(* survive every step.  They rest on IInv; every step that reads (Start...)  *)
(* leaves the tables alone and only has to record a sound request, and every *)
(* commit is shown to keep the tables and the ids that requests hold.  The   *)
(* last two parts are about requests that do not overlap.                    *)
(***************************************************************************)
EXTENDS Organizations, TLAPS

\* The part of IInv about the tables alone.
TablesOK ==
  /\ users \subseteq User
  /\ orgs \in [OrgId -> Name \cup {None}]
  /\ roles \in [RoleId -> Role \cup {NoRole}]
  /\ links \subseteq User \X RoleId
  /\ orgsMade \in 0..MaxOrgs
  /\ rolesMade \in 0..MaxRoles
  /\ NoDangling /\ DefaultRolesKept /\ Fresh

\* What a request in progress may hold on to: no id given out becomes a role
\* again or a default one.
IdsKept ==
  /\ rolesMade <= rolesMade'
  /\ \A i \in RoleId : i <= rolesMade /\ IsRole(i)' => IsRole(i) /\ (Custom(i) => Custom(i)')

LEMMA Split == IInv <=> /\ TablesOK
                        /\ req \in [Request -> Pending \cup {Idle}]
                        /\ FormsNameCustomRoles
  BY DEF IInv, TypeOK, TablesOK

LEMMA InitInv == Init => IInv
  <1> SUFFICES ASSUME Init PROVE IInv
    OBVIOUS
  <1> USE OrganizationConstants DEF Init
  <1>1. TypeOK
    BY DEF TypeOK
  <1>2. NoDangling /\ DefaultRolesKept /\ Fresh
    BY DEF NoDangling, DefaultRolesKept, Fresh, IsOrg, IsRole
  <1>3. FormsNameCustomRoles
    BY DEF FormsNameCustomRoles, NamesRole, Idle
  <1> QED
    BY <1>1, <1>2, <1>3 DEF IInv

LEMMA Ids == ASSUME NEW i \in RoleId PROVE i \in Nat /\ i # 0
  BY OrganizationConstants DEF RoleId

LEMMA Counters == TablesOK => /\ orgsMade \in Nat /\ rolesMade \in Nat
                             /\ rolesMade \in 0..MaxRoles /\ rolesMade <= rolesMade
  BY OrganizationConstants DEF TablesOK

\* A request has the fields of its operation.
LEMMA Fields ==
  ASSUME NEW q \in Pending \cup {Idle}
  PROVE  /\ q.op = "create" => q.actor \in User /\ q.name \in Name
         /\ q.op = "own" => q.actor \in User /\ q.role \in RoleId
         /\ q.op = "rename" => q.org \in OrgId /\ q.name \in Name
         /\ q.op = "close" => q.org \in OrgId
         /\ q.op = "join" => q.user \in User /\ q.role \in RoleId
         /\ q.op = "add role" => q.role \in Role
         /\ q.op = "edit role" => /\ q.id \in RoleId /\ q.name \in RoleName
                                  /\ q.gained \in SUBSET Permission
         /\ q.op = "drop role" => q.id \in RoleId
         /\ q.op = "assign" => /\ q.user \in User /\ q.seen \in SUBSET RoleId
                               /\ q.chosen \in SUBSET RoleId
         /\ q.op = "remove" => q.user \in User /\ q.seen \in SUBSET RoleId
         /\ q.op = "leave" => q.user \in User /\ q.empty \in SUBSET OrgId
  <1>1. q \in Creation => /\ q.op = "create"
                          /\ q.actor \in User /\ q.name \in Name
    BY DEF Creation
  <1>2. q \in Owning => /\ q.op = "own"
                        /\ q.actor \in User /\ q.role \in RoleId
    BY DEF Owning
  <1>3. q \in Renaming => /\ q.op = "rename"
                          /\ q.org \in OrgId /\ q.name \in Name
    BY DEF Renaming
  <1>4. q \in Closing => /\ q.op = "close"
                         /\ q.org \in OrgId
    BY DEF Closing
  <1>5. q \in Joining => /\ q.op = "join"
                         /\ q.user \in User /\ q.role \in RoleId
    BY DEF Joining
  <1>6. q \in NewRole => /\ q.op = "add role"
                         /\ q.role \in Role
    BY DEF NewRole
  <1>7. q \in Edit => /\ q.op = "edit role"
                      /\ q.id \in RoleId /\ q.name \in RoleName /\ q.gained \in SUBSET Permission
    BY DEF Edit
  <1>8. q \in Drop => /\ q.op = "drop role"
                      /\ q.id \in RoleId
    BY DEF Drop
  <1>9. q \in Assignment => /\ q.op = "assign"
                            /\ q.user \in User /\ q.seen \in SUBSET RoleId /\ q.chosen \in SUBSET RoleId
    BY DEF Assignment
  <1>10. q \in Removal => /\ q.op = "remove"
                          /\ q.user \in User /\ q.seen \in SUBSET RoleId
    BY DEF Removal
  <1>11. q \in Leave => /\ q.op = "leave"
                        /\ q.user \in User /\ q.empty \in SUBSET OrgId
    BY DEF Leave
  <1>12. q = Idle => q.op = "idle"
    BY DEF Idle
  <1> QED
    BY <1>1, <1>2, <1>3, <1>4, <1>5, <1>6, <1>7, <1>8, <1>9, <1>10, <1>11, <1>12 DEF Pending

\* A read that ends in a sound request keeps the invariant.
LEMMA StartKeeps ==
  ASSUME IInv, NEW r \in Request, NEW q \in Pending, Start(r, q),
         NamesRole(q) => q.id \in RoleId /\ Custom(q.id)
  PROVE  IInv'
  <1>1. TablesOK' /\ roles' = roles /\ rolesMade' = rolesMade
    BY Split DEF Start, tables, TablesOK, NoDangling, DefaultRolesKept, Fresh, IsOrg, IsRole
  <1>2. req' \in [Request -> Pending \cup {Idle}]
    BY Split DEF Start
  <1>3. FormsNameCustomRoles'
    <2> SUFFICES ASSUME NEW s \in Request, NamesRole(req'[s])
                 PROVE  /\ req'[s].id <= rolesMade
                        /\ IsRole(req'[s].id) => Custom(req'[s].id)
      BY <1>1 DEF FormsNameCustomRoles, IsRole, Custom
    <2>1. CASE s = r
      <3>1. req'[s] = q
        BY <2>1, Split DEF Start
      <3>2. q.id \in RoleId /\ Custom(q.id)
        BY <3>1
      <3>3. rolesMade \in Nat /\ q.id \in Nat /\ Fresh
        BY <3>2, Ids, Counters, Split DEF TablesOK
      <3>4. q.id <= rolesMade
        BY <3>2, <3>3 DEF Fresh, Custom, IsRole
      <3> QED
        BY <3>1, <3>2, <3>4
    <2>2. CASE s # r
      <3>1. req'[s] = req[s]
        BY <2>2, Split DEF Start
      <3> QED
        BY <3>1, Split DEF FormsNameCustomRoles
    <2> QED
      BY <2>1, <2>2
  <1> QED
    BY <1>1, <1>2, <1>3 DEF IInv, TypeOK, TablesOK

\* A commit that keeps the tables and the ids given out keeps the invariant.
LEMMA CommitKeeps ==
  ASSUME IInv, NEW r \in Request, TablesOK', IdsKept,
         NEW q \in Pending \cup {Idle}, req' = [req EXCEPT ![r] = q],
         ~NamesRole(q)
  PROVE  IInv'
  <1>1. req' \in [Request -> Pending \cup {Idle}]
    BY Split
  <1>2. FormsNameCustomRoles'
    <2> SUFFICES ASSUME NEW s \in Request, NamesRole(req'[s])
                 PROVE  /\ req'[s].id <= rolesMade'
                        /\ roles'[req'[s].id] # NoRole =>
                             roles'[req'[s].id].name \notin DefaultRoles
      BY DEF FormsNameCustomRoles, IsRole, Custom
    <2>1. s # r /\ req'[s] = req[s]
      BY Split
    <2>2. req[s] \in Pending \cup {Idle}
      BY Split
    <2>3. req[s].id \in RoleId
      BY <2>1, <2>2, Fields DEF NamesRole
    <2>4. req[s].id <= rolesMade /\ (IsRole(req[s].id) => Custom(req[s].id))
      BY <2>1, Split DEF FormsNameCustomRoles
    <2>5. rolesMade \in Nat /\ rolesMade' \in Nat /\ req[s].id \in Nat
      <3>1. TablesOK
        BY Split
      <3>2. rolesMade' \in 0..MaxRoles
        BY DEF TablesOK
      <3> QED
        BY <2>3, <3>1, <3>2, Ids, Counters, OrganizationConstants
    <2> QED
      BY <2>1, <2>3, <2>4, <2>5 DEF IdsKept, Custom, IsRole
  <1> QED
    BY <1>1, <1>2 DEF IInv, TypeOK, TablesOK

LEMMA RefusedKeeps ==
  ASSUME IInv, NEW r \in Request, Refused(r)
  PROVE  IInv'
  <1>1. TablesOK' /\ IdsKept
    BY Split, Counters DEF Refused, tables, TablesOK, NoDangling, DefaultRolesKept, Fresh,
                           IsOrg, IsRole, Custom, IdsKept
  <1>2. Idle \in Pending \cup {Idle} /\ ~NamesRole(Idle)
    BY DEF Idle, NamesRole
  <1> QED
    BY <1>1, <1>2, CommitKeeps DEF Refused, Done

\* The commits that end a request.
LEMMA DoneKeeps ==
  ASSUME IInv, NEW r \in Request, TablesOK', IdsKept, Done(r)
  PROVE  IInv'
  <1>1. Idle \in Pending \cup {Idle} /\ ~NamesRole(Idle)
    BY DEF Idle, NamesRole
  <1> QED
    BY <1>1, CommitKeeps DEF Done

-----------------------------------------------------------------------------
(* What the commits do to the tables *)

\* Links may change as long as they join people and roles that are there.
LEMMA LinksChange ==
  ASSUME TablesOK, UNCHANGED <<users, orgs, roles, orgsMade, rolesMade>>,
         links' \subseteq User \X RoleId,
         \A l \in links' : l[1] \in users /\ IsRole(l[2])
  PROVE  TablesOK' /\ IdsKept
  <1>1. NoDangling'
    BY DEF TablesOK, NoDangling, IsRole, IsOrg
  <1>2. DefaultRolesKept' /\ Fresh'
    BY DEF TablesOK, DefaultRolesKept, Fresh, IsRole, IsOrg
  <1>3. IdsKept
    BY Counters DEF IdsKept, IsRole, Custom
  <1> QED
    BY <1>1, <1>2, <1>3 DEF TablesOK

\* Organizations may go, with their roles, the links to these and some people.
LEMMA CascadeKeeps ==
  ASSUME TablesOK, NEW O \in SUBSET OrgId,
         orgs' = OrgsWithout(O), roles' = RolesWithout(O), users' \subseteq users,
         links' \subseteq LinksWithout(O), \A l \in links' : l[1] \in users',
         UNCHANGED <<orgsMade, rolesMade>>
  PROVE  TablesOK' /\ IdsKept
  <1>1. \A o \in OrgId : orgs'[o] = IF o \in O THEN None ELSE orgs[o]
    BY DEF OrgsWithout
  <1>2. \A i \in RoleId : roles'[i] = IF roles[i].org \in O THEN NoRole ELSE roles[i]
    BY DEF RolesWithout
  <1>3. /\ orgs' \in [OrgId -> Name \cup {None}]
        /\ roles' \in [RoleId -> Role \cup {NoRole}]
        /\ links' \subseteq User \X RoleId /\ users' \subseteq User
    BY <1>1, <1>2 DEF TablesOK, OrgsWithout, RolesWithout, LinksWithout
  <1>4. NoDangling'
    <2>1. \A l \in links' : l[1] \in users' /\ roles'[l[2]] # NoRole
      BY <1>2 DEF TablesOK, LinksWithout, NoDangling, IsRole
    <2>2. \A i \in RoleId : roles'[i] # NoRole =>
             roles'[i] = roles[i] /\ roles[i].org \in OrgId /\ roles[i].org \notin O
      BY <1>2 DEF TablesOK, Role
    <2>3. \A i \in RoleId : roles'[i] # NoRole => orgs'[roles'[i].org] # None
      BY <1>1, <2>2 DEF TablesOK, NoDangling, IsRole, IsOrg
    <2>4. \A i, j \in RoleId : roles'[i] # NoRole /\ roles'[j] # NoRole
             /\ roles'[i].org = roles'[j].org /\ roles'[i].name = roles'[j].name => i = j
      BY <2>2 DEF TablesOK, NoDangling, IsRole
    <2> QED
      BY <2>1, <2>3, <2>4 DEF NoDangling, IsRole, IsOrg
  <1>5. DefaultRolesKept'
    <2> SUFFICES ASSUME NEW o \in OrgId, orgs'[o] # None, NEW n \in DefaultRoles
                 PROVE  \E i \in RoleId :
                          roles'[i] = [org |-> o, name |-> n, permissions |-> DefaultPermissions(n)]
      BY DEF DefaultRolesKept, IsOrg
    <2>1. o \notin O /\ orgs[o] # None
      BY <1>1
    <2>2. PICK i \in RoleId :
             roles[i] = [org |-> o, name |-> n, permissions |-> DefaultPermissions(n)]
      BY <2>1 DEF TablesOK, DefaultRolesKept, IsOrg
    <2>3. roles[i].org = o
      BY <2>2
    <2>4. roles'[i] = roles[i]
      BY <1>2, <2>1, <2>3
    <2> QED
      BY <2>2, <2>4
  <1>6. Fresh'
    BY <1>1, <1>2 DEF TablesOK, Fresh, IsOrg, IsRole
  <1>7. IdsKept
    BY <1>2, Counters DEF IdsKept, IsRole, Custom
  <1> QED
    BY <1>3, <1>4, <1>5, <1>6, <1>7 DEF TablesOK

\* One role may change if it stays in its organization and is not a default
\* one, before and after, and no other role of it has its name.
LEMMA RoleChanges ==
  ASSUME TablesOK, NEW i \in RoleId, NEW role \in Role \cup {NoRole},
         roles' = [roles EXCEPT ![i] = role],
         role # NoRole => /\ IsOrg(role.org)
                          /\ \A j \in RolesOf(role.org) \ {i} : roles[j].name # role.name
                          /\ role.name \notin DefaultRoles,
         IsRole(i) => Custom(i),
         role = NoRole => \A v \in User : <<v, i>> \notin links,
         rolesMade' \in 0..MaxRoles, rolesMade <= rolesMade',
         role # NoRole => i <= rolesMade', i <= rolesMade /\ role # NoRole => IsRole(i),
         UNCHANGED <<users, orgs, links, orgsMade>>
  PROVE  TablesOK' /\ IdsKept
  <1>1. \A j \in RoleId : roles'[j] = IF j = i THEN role ELSE roles[j]
    BY DEF TablesOK
  <1>2. roles' \in [RoleId -> Role \cup {NoRole}]
    BY DEF TablesOK
  <1>3. NoDangling'
    <2>1. \A l \in links' : l[1] \in users' /\ roles'[l[2]] # NoRole
      BY <1>1 DEF TablesOK, NoDangling, IsRole
    <2>2. \A j \in RoleId : roles'[j] # NoRole => orgs'[roles'[j].org] # None
      BY <1>1 DEF TablesOK, NoDangling, IsRole, IsOrg
    <2>3. \A j, k \in RoleId : roles'[j] # NoRole /\ roles'[k] # NoRole
             /\ roles'[j].org = roles'[k].org /\ roles'[j].name = roles'[k].name => j = k
      BY <1>1 DEF TablesOK, NoDangling, IsRole, RolesOf
    <2> QED
      BY <2>1, <2>2, <2>3 DEF NoDangling, IsRole, IsOrg
  <1>4. DefaultRolesKept'
    <2> SUFFICES ASSUME NEW o \in OrgId, orgs[o] # None, NEW n \in DefaultRoles
                 PROVE  \E j \in RoleId :
                          roles'[j] = [org |-> o, name |-> n, permissions |-> DefaultPermissions(n)]
      BY DEF DefaultRolesKept, IsOrg
    <2>1. PICK j \in RoleId :
             roles[j] = [org |-> o, name |-> n, permissions |-> DefaultPermissions(n)]
      BY DEF TablesOK, DefaultRolesKept, IsOrg
    <2>2. roles[j].org = o /\ roles[j].name = n
      BY <2>1
    <2>3. roles[j] # NoRole
      BY <2>2, OrganizationConstants DEF NoRole, OrgId
    <2>4. j # i
      BY <2>2, <2>3 DEF Custom, IsRole
    <2> QED
      BY <1>1, <2>1, <2>4
  <1>5. Fresh'
    <2>1. \A j \in RoleId : j \in Nat
      BY Ids
    <2>2. rolesMade' \in Nat
      BY OrganizationConstants
    <2> QED
      BY <1>1, <2>1, <2>2, Counters DEF TablesOK, Fresh, IsRole, IsOrg
  <1>6. IdsKept
    BY <1>1 DEF IdsKept, IsRole, Custom
  <1> QED
    BY <1>2, <1>3, <1>4, <1>5, <1>6 DEF TablesOK

\* The default names are taken in every organization there is.
LEMMA DefaultNamesTaken ==
  ASSUME TablesOK, NEW o \in OrgId, IsOrg(o), NEW n \in DefaultRoles
  PROVE  \E j \in RolesOf(o) : roles[j].name = n /\ ~Custom(j)
  <1>1. PICK j \in RoleId :
           roles[j] = [org |-> o, name |-> n, permissions |-> DefaultPermissions(n)]
    BY DEF TablesOK, DefaultRolesKept
  <1>2. roles[j].org = o /\ roles[j].name = n
    BY <1>1
  <1>3. roles[j] # NoRole
    BY <1>2, OrganizationConstants DEF NoRole, OrgId
  <1> QED
    BY <1>2, <1>3 DEF RolesOf, IsRole, Custom

LEMMA AddRoleKeeps ==
  ASSUME IInv, NEW r \in Request, CommitAddRole(r)
  PROVE  IInv'
  <1> DEFINE role == req[r].role
             new == rolesMade + 1
  <1>1. TablesOK /\ req[r] \in Pending \cup {Idle}
    BY Split
  <1>2. role \in Role
    BY <1>1, Fields DEF CommitAddRole
  <1>3. CASE IsOrg(role.org) /\ ~NameTaken(role.name, role.org)
    <2>1. /\ rolesMade < MaxRoles /\ roles' = [roles EXCEPT ![new] = role]
          /\ rolesMade' = new /\ Done(r) /\ UNCHANGED <<users, orgs, links, orgsMade>>
      BY <1>3 DEF CommitAddRole
    <2>2. rolesMade \in Nat /\ MaxRoles \in Nat
      BY <1>1, Counters, OrganizationConstants
    <2>3. new \in RoleId /\ new \in 0..MaxRoles /\ rolesMade <= new /\ ~(new <= rolesMade)
      BY <2>1, <2>2 DEF RoleId
    <2>4. ~IsRole(new)
      BY <1>1, <2>2, <2>3 DEF TablesOK, Fresh, RoleId
    <2>5. \A j \in RolesOf(role.org) : roles[j].name # role.name
      BY <1>3 DEF NameTaken
    <2>6. role.name \notin DefaultRoles
      BY <1>1, <1>2, <1>3, <2>5, DefaultNamesTaken DEF Role
    <2>7. role # NoRole
      BY <1>2, OrganizationConstants DEF Role, NoRole, OrgId
    <2>8. /\ rolesMade' \in 0..MaxRoles /\ rolesMade <= rolesMade' /\ new <= rolesMade'
          /\ ~(new <= rolesMade)
      BY <2>1, <2>2, <2>3
    <2>9. \A j \in RolesOf(role.org) \ {new} : roles[j].name # role.name
      BY <2>5
    <2> HIDE DEF role, new
    <2>10. TablesOK' /\ IdsKept
      BY <1>1, <1>2, <1>3, <2>1, <2>3, <2>4, <2>6, <2>7, <2>8, <2>9, RoleChanges
    <2> QED
      BY <2>1, <2>10, DoneKeeps
  <1>4. CASE ~(IsOrg(role.org) /\ ~NameTaken(role.name, role.org))
    BY <1>4, RefusedKeeps DEF CommitAddRole
  <1> QED
    BY <1>3, <1>4

LEMMA EditRoleKeeps ==
  ASSUME IInv, NEW r \in Request, CommitEditRole(r)
  PROVE  IInv'
  <1> DEFINE q == req[r]
             old == roles[q.id]
             new == [org |-> old.org, name |-> q.name,
                     permissions |-> (old.permissions \cup q.gained) \ q.lost]
             ok == /\ IsRole(q.id)
                   /\ \A j \in RolesOf(old.org) \ {q.id} : roles[j].name # q.name
                   /\ q.gained \cap old.permissions = {} /\ q.lost \subseteq old.permissions
  <1>1. TablesOK /\ q \in Pending \cup {Idle} /\ q.op = "edit role"
    BY Split DEF CommitEditRole
  <1>2. q.id \in RoleId /\ q.name \in RoleName /\ q.gained \in SUBSET Permission
    BY <1>1, Fields
  <1>3. CASE ok
    <2>1. /\ roles' = [roles EXCEPT ![q.id] = new]
          /\ Done(r) /\ UNCHANGED <<users, orgs, links, orgsMade, rolesMade>>
      BY <1>3 DEF CommitEditRole
    <2>2. old \in Role
      BY <1>1, <1>2, <1>3 DEF TablesOK, IsRole
    <2>3. new \in Role
      BY <1>2, <2>2 DEF Role
    <2>4. new.org = old.org /\ new.name = q.name
      OBVIOUS
    <2>5. q.id <= rolesMade /\ Custom(q.id)
      BY <1>1, <1>3, Split DEF FormsNameCustomRoles, NamesRole
    <2>6. IsOrg(old.org) /\ old.org \in OrgId
      BY <1>1, <1>2, <1>3, <2>2 DEF TablesOK, NoDangling, Role
    <2>7. q.name \notin DefaultRoles
      <3> SUFFICES ASSUME q.name \in DefaultRoles PROVE FALSE
        OBVIOUS
      <3>1. PICK j \in RolesOf(old.org) : roles[j].name = q.name /\ ~Custom(j)
        BY <1>1, <2>6, DefaultNamesTaken
      <3> QED
        BY <1>3, <2>5, <3>1
    <2>8. new # NoRole
      BY <2>3, OrganizationConstants DEF Role, NoRole, OrgId
    <2>9. \A j \in RolesOf(new.org) \ {q.id} : roles[j].name # new.name
      BY <1>3, <2>4
    <2>10. rolesMade' \in 0..MaxRoles /\ rolesMade <= rolesMade'
      <3>1. rolesMade' = rolesMade
        BY <2>1
      <3> QED
        BY <3>1, Split, Counters
    <2>11. IsOrg(new.org) /\ new.name \notin DefaultRoles /\ IsRole(q.id)
      BY <1>3, <2>4, <2>6, <2>7
    <2>12. q.id <= rolesMade'
      BY <2>1, <2>5
    <2> HIDE DEF new
    <2>13. TablesOK' /\ IdsKept
      BY <1>1, <1>2, <2>1, <2>3, <2>5, <2>8, <2>9, <2>10, <2>11, <2>12, RoleChanges
    <2> QED
      BY <2>1, <2>13, DoneKeeps
  <1>4. CASE ~ok
    BY <1>4, RefusedKeeps DEF CommitEditRole
  <1> QED
    BY <1>3, <1>4

LEMMA DropRoleKeeps ==
  ASSUME IInv, NEW r \in Request, CommitDropRole(r)
  PROVE  IInv'
  <1> DEFINE i == req[r].id
             held == \E v \in User : <<v, i>> \in links
  <1>1. TablesOK /\ req[r] \in Pending \cup {Idle} /\ req[r].op = "drop role"
    BY Split DEF CommitDropRole
  <1>2. i \in RoleId
    BY <1>1, Fields
  <1>3. CASE ~held
    <2>1. /\ roles' = [roles EXCEPT ![i] = NoRole]
          /\ Done(r) /\ UNCHANGED <<users, orgs, links, orgsMade, rolesMade>>
      BY <1>3 DEF CommitDropRole
    <2>2. IsRole(i) => Custom(i)
      BY <1>1, Split DEF FormsNameCustomRoles, NamesRole
    <2>3. rolesMade' \in 0..MaxRoles /\ rolesMade <= rolesMade'
      <3>1. rolesMade' = rolesMade
        BY <2>1
      <3> QED
        BY <3>1, Split, Counters
    <2>4. \A v \in User : <<v, i>> \notin links
      BY <1>3
    <2> HIDE DEF i
    <2>5. TablesOK' /\ IdsKept
      BY <1>1, <1>2, <2>1, <2>2, <2>3, <2>4, RoleChanges
    <2> QED
      BY <2>1, <2>5, DoneKeeps
  <1>4. CASE held
    BY <1>4, RefusedKeeps DEF CommitDropRole
  <1> QED
    BY <1>3, <1>4

LEMMA CreateKeeps ==
  ASSUME IInv, NEW r \in Request, CommitCreate(r)
  PROVE  IInv'
  <1> DEFINE o == orgsMade + 1
             names == <<"Owner", "Administrator", "Member">>
             name(i) == names[i - rolesMade]
             Ids3 == rolesMade + 1 .. rolesMade + 3
             made(i) == [org |-> o, name |-> name(i), permissions |-> DefaultPermissions(name(i))]
             next == [op |-> "own", actor |-> req[r].actor, role |-> rolesMade + 1]
  <1>1. TablesOK /\ req[r] \in Pending \cup {Idle}
    BY Split
  <1>2. req[r].actor \in User /\ req[r].name \in Name
    BY <1>1, Fields DEF CommitCreate
  <1>3. /\ orgsMade \in Nat /\ rolesMade \in Nat /\ MaxOrgs \in Nat /\ MaxRoles \in Nat
        /\ orgsMade < MaxOrgs /\ rolesMade + 3 <= MaxRoles
    BY <1>1, Counters, OrganizationConstants DEF CommitCreate
  <1>4. /\ orgsMade' = o /\ rolesMade' = rolesMade + 3
        /\ orgs' = [orgs EXCEPT ![o] = req[r].name]
        /\ UNCHANGED <<users, links>> /\ req' = [req EXCEPT ![r] = next]
    BY DEF CommitCreate
  <1>5. /\ o \in OrgId /\ Ids3 \subseteq RoleId /\ rolesMade + 1 \in RoleId
        /\ \A i \in RoleId : i \in Ids3 => i > rolesMade
    BY <1>3 DEF OrgId, RoleId
  <1>6. \A i \in Ids3 : i = rolesMade + 1 \/ i = rolesMade + 2 \/ i = rolesMade + 3
    BY <1>3
  <1>7. /\ name(rolesMade + 1) = "Owner" /\ name(rolesMade + 2) = "Administrator"
        /\ name(rolesMade + 3) = "Member"
    <2>1. /\ rolesMade + 1 - rolesMade = 1 /\ rolesMade + 2 - rolesMade = 2
          /\ rolesMade + 3 - rolesMade = 3
      BY <1>3
    <2>2. names[1] = "Owner" /\ names[2] = "Administrator" /\ names[3] = "Member"
      OBVIOUS
    <2>3. /\ name(rolesMade + 1) = names[1] /\ name(rolesMade + 2) = names[2]
          /\ name(rolesMade + 3) = names[3]
      <3> HIDE DEF names
      <3> QED
        BY <1>3, <2>1
    <2> HIDE DEF names, name
    <2> QED
      BY <2>2, <2>3
  <1>8. \A i \in RoleId : roles'[i] = IF i \in Ids3 THEN made(i) ELSE roles[i]
    <2> SUFFICES ASSUME NEW i \in RoleId
                 PROVE  roles'[i] = IF i \in Ids3 THEN made(i) ELSE roles[i]
      OBVIOUS
    <2>1. CASE i \in Ids3
      <3>1. i - rolesMade \in 1..3
        BY <1>3, <2>1
      <3> QED
        BY <2>1, <3>1 DEF CommitCreate
    <2>2. CASE i \notin Ids3
      BY <2>2 DEF CommitCreate
    <2> QED
      BY <2>1, <2>2
  <1>9. \A i \in Ids3 : /\ made(i).org = o /\ made(i).name = name(i)
                         /\ name(i) \in DefaultRoles
    BY <1>6, <1>7 DEF DefaultRoles
  <1>10. \A i \in Ids3 : made(i) \in Role
    <2>1. \A n \in DefaultRoles : DefaultPermissions(n) \in SUBSET Permission
      BY DEF DefaultRoles, DefaultPermissions
    <2> QED
      BY <1>5, <1>9, <2>1 DEF Role, RoleName
  <1>11. \A i, j \in Ids3 : name(i) = name(j) => i = j
    BY <1>6, <1>7
  <1>12. \A i \in Ids3 : made(i) # NoRole /\ ~IsRole(i)
    <2>1. \A i \in Ids3 : made(i) # NoRole
      BY <1>5, <1>9, OrganizationConstants DEF NoRole, OrgId
    <2>2. \A i \in Ids3 : ~IsRole(i)
      BY <1>1, <1>5 DEF TablesOK, Fresh
    <2> QED
      BY <2>1, <2>2
  <1>13. ~IsOrg(o)
    BY <1>1, <1>3, <1>5 DEF TablesOK, Fresh
  <1>14. \A p \in OrgId : orgs'[p] = IF p = o THEN req[r].name ELSE orgs[p]
    BY <1>1, <1>4, <1>5 DEF TablesOK
  <1>15. req[r].name # None
    BY <1>2, OrganizationConstants
  <1>16. next \in Pending \cup {Idle} /\ ~NamesRole(next)
    BY <1>2, <1>5 DEF Pending, Owning, NamesRole
  <1>17. roles' \in [RoleId -> Role \cup {NoRole}]
    <2>1. \A i \in RoleId : roles'[i] \in Role \cup {NoRole}
      <3> HIDE DEF made, Ids3
      <3> QED
        BY <1>1, <1>8, <1>10 DEF TablesOK
    <2>2. DOMAIN roles' = RoleId
      BY DEF CommitCreate
    <2>3. roles' = [i \in RoleId |-> roles'[i]]
      BY DEF CommitCreate
    <2> QED
      BY <2>1, <2>3
  <1> HIDE DEF made, name, Ids3, next
  <1>18. NoDangling'
    <2>1. \A l \in links' : l[1] \in users' /\ roles'[l[2]] # NoRole
      BY <1>1, <1>4, <1>8, <1>12 DEF TablesOK, NoDangling, IsRole
    <2>2. \A i \in RoleId : roles'[i] # NoRole => orgs'[roles'[i].org] # None
      <3> SUFFICES ASSUME NEW i \in RoleId, roles'[i] # NoRole
                   PROVE  orgs'[roles'[i].org] # None
        OBVIOUS
      <3>1. CASE i \in Ids3
        BY <1>5, <1>8, <1>9, <1>14, <1>15, <3>1
      <3>2. CASE i \notin Ids3
        <4>1. roles'[i] = roles[i] /\ roles[i] \in Role /\ orgs[roles[i].org] # None
          BY <1>1, <1>8, <3>2 DEF TablesOK, NoDangling, IsRole, IsOrg
        <4> QED
          BY <1>14, <1>15, <4>1 DEF Role
      <3> QED
        BY <3>1, <3>2
    <2>3. \A i, j \in RoleId : roles'[i] # NoRole /\ roles'[j] # NoRole
             /\ roles'[i].org = roles'[j].org /\ roles'[i].name = roles'[j].name => i = j
      <3>1. \A i \in RoleId \ Ids3 : roles'[i] # NoRole => roles'[i].org # o
        BY <1>1, <1>8, <1>13 DEF TablesOK, NoDangling, IsRole
      <3>2. \A i \in RoleId : i \in Ids3 => roles'[i].org = o /\ roles'[i].name = name(i)
        BY <1>8, <1>9
      <3>3. \A i, j \in RoleId \ Ids3 : roles'[i] # NoRole /\ roles'[j] # NoRole
             /\ roles'[i].org = roles'[j].org /\ roles'[i].name = roles'[j].name => i = j
        BY <1>1, <1>8 DEF TablesOK, NoDangling, IsRole
      <3> QED
        BY <1>11, <3>1, <3>2, <3>3
    <2> QED
      BY <2>1, <2>2, <2>3 DEF NoDangling, IsRole, IsOrg
  <1>19. DefaultRolesKept'
    <2> SUFFICES ASSUME NEW p \in OrgId, orgs'[p] # None, NEW n \in DefaultRoles
                 PROVE  \E i \in RoleId :
                          roles'[i] = [org |-> p, name |-> n, permissions |-> DefaultPermissions(n)]
      BY DEF DefaultRolesKept, IsOrg
    <2>1. CASE p = o
      <3>1. PICK i \in Ids3 : name(i) = n
        <4>1. /\ rolesMade + 1 \in Ids3 /\ rolesMade + 2 \in Ids3 /\ rolesMade + 3 \in Ids3
          BY <1>3 DEF Ids3
        <4> QED
          BY <1>7, <4>1 DEF DefaultRoles
      <3> QED
        BY <1>5, <1>8, <2>1, <3>1 DEF made
    <2>2. CASE p # o
      <3>1. PICK i \in RoleId :
               roles[i] = [org |-> p, name |-> n, permissions |-> DefaultPermissions(n)]
        BY <1>1, <1>14, <2>2 DEF TablesOK, DefaultRolesKept, IsOrg
      <3>2. roles[i].org = p
        BY <3>1
      <3>3. roles[i] # NoRole
        BY <3>2, OrganizationConstants DEF NoRole, OrgId
      <3> QED
        BY <1>8, <1>12, <3>1, <3>3 DEF IsRole
    <2> QED
      BY <2>1, <2>2
  <1>20. Fresh'
    <2>1. \A p \in OrgId : p > orgsMade' => orgs'[p] = None
      <3>1. \A p \in OrgId : p \in Nat
        BY <1>3 DEF OrgId
      <3> QED
        BY <1>1, <1>3, <1>4, <1>14, <3>1 DEF TablesOK, Fresh, IsOrg
    <2>2. \A i \in RoleId : i > rolesMade' => roles'[i] = NoRole
      BY <1>1, <1>3, <1>4, <1>8, Ids DEF TablesOK, Fresh, IsRole, Ids3
    <2> QED
      BY <2>1, <2>2 DEF Fresh, IsOrg, IsRole
  <1>21. IdsKept
    <2>1. \A i \in RoleId : i <= rolesMade => i \notin Ids3
      BY <1>3, Ids DEF Ids3
    <2> QED
      BY <1>3, <1>4, <1>8, <2>1 DEF IdsKept, IsRole, Custom
  <1>22. /\ orgs' \in [OrgId -> Name \cup {None}]
         /\ orgsMade' \in 0..MaxOrgs /\ rolesMade' \in 0..MaxRoles
    <2>1. orgs' \in [OrgId -> Name \cup {None}]
      BY <1>1, <1>2, <1>4 DEF TablesOK
    <2>2. orgsMade' \in 0..MaxOrgs /\ rolesMade' \in 0..MaxRoles
      BY <1>3, <1>4
    <2> QED
      BY <2>1, <2>2
  <1>23. TablesOK'
    BY <1>1, <1>4, <1>17, <1>18, <1>19, <1>20, <1>22 DEF TablesOK
  <1> QED
    BY <1>4, <1>16, <1>21, <1>23, CommitKeeps

LEMMA RenameKeeps ==
  ASSUME IInv, NEW r \in Request, CommitRename(r)
  PROVE  IInv'
  <1> DEFINE q == req[r]
  <1>1. TablesOK /\ q \in Pending \cup {Idle}
    BY Split
  <1>2. q.org \in OrgId /\ q.name \in Name
    BY <1>1, Fields DEF CommitRename
  <1>3. CASE IsOrg(q.org)
    <2>1. /\ orgs' = [orgs EXCEPT ![q.org] = q.name]
          /\ Done(r) /\ UNCHANGED <<users, roles, links, orgsMade, rolesMade>>
      BY <1>3 DEF CommitRename
    <2>2. \A o \in OrgId : orgs'[o] # None <=> orgs[o] # None
      BY <1>1, <1>2, <1>3, <2>1, OrganizationConstants DEF TablesOK, IsOrg
    <2>3. orgs' \in [OrgId -> Name \cup {None}]
      BY <1>1, <1>2, <2>1 DEF TablesOK
    <2>4. NoDangling'
      <3>1. \A i \in RoleId : roles[i] # NoRole => roles[i].org \in OrgId
        BY <1>1 DEF TablesOK, Role
      <3> QED
        BY <1>1, <2>1, <2>2, <3>1 DEF TablesOK, NoDangling, IsRole, IsOrg
    <2>5. DefaultRolesKept' /\ Fresh'
      BY <1>1, <2>1, <2>2 DEF TablesOK, DefaultRolesKept, Fresh, IsRole, IsOrg
    <2>6. IdsKept
      BY <1>1, <2>1, Counters DEF IdsKept, IsRole, Custom
    <2>7. TablesOK'
      BY <1>1, <2>1, <2>3, <2>4, <2>5 DEF TablesOK
    <2> QED
      BY <2>1, <2>6, <2>7, DoneKeeps
  <1>4. CASE ~IsOrg(q.org)
    BY <1>4, RefusedKeeps DEF CommitRename
  <1> QED
    BY <1>3, <1>4

LEMMA AddLinkKeeps ==
  ASSUME IInv, NEW r \in Request, NEW u \in User, NEW i \in RoleId, AddLink(r, u, i)
  PROVE  IInv'
  <1>1. TablesOK
    BY Split
  <1>2. CASE u \in users /\ IsRole(i) /\ <<u, i>> \notin links
    <2>1. links' = links \cup {<<u, i>>} /\ Done(r)
          /\ UNCHANGED <<users, orgs, roles, orgsMade, rolesMade>>
      BY <1>2 DEF AddLink
    <2>2. links' \subseteq User \X RoleId
      BY <1>1, <2>1 DEF TablesOK
    <2>3. \A l \in links' : l[1] \in users /\ IsRole(l[2])
      BY <1>1, <1>2, <2>1 DEF TablesOK, NoDangling
    <2>4. TablesOK' /\ IdsKept
      BY <1>1, <2>1, <2>2, <2>3, LinksChange
    <2> QED
      BY <2>1, <2>4, DoneKeeps
  <1>3. CASE ~(u \in users /\ IsRole(i) /\ <<u, i>> \notin links)
    BY <1>3, RefusedKeeps DEF AddLink
  <1> QED
    BY <1>2, <1>3

LEMMA ChangeLinksKeeps ==
  ASSUME IInv, NEW r \in Request, NEW v \in User, NEW out \in SUBSET RoleId,
         NEW in \in SUBSET RoleId, ChangeLinks(r, v, out, in)
  PROVE  IInv'
  <1> DEFINE ok == /\ \A i \in out : <<v, i>> \in links
                   /\ in # {} => v \in users
                   /\ \A i \in in : IsRole(i) /\ <<v, i>> \notin links
  <1>1. TablesOK
    BY Split
  <1>2. CASE ok
    <2>1. links' = (links \ ({v} \X out)) \cup ({v} \X in) /\ Done(r)
          /\ UNCHANGED <<users, orgs, roles, orgsMade, rolesMade>>
      BY <1>2 DEF ChangeLinks
    <2>2. links' \subseteq User \X RoleId
      BY <1>1, <2>1 DEF TablesOK
    <2>3. \A l \in links' : l[1] \in users /\ IsRole(l[2])
      BY <1>1, <1>2, <2>1 DEF TablesOK, NoDangling
    <2>4. TablesOK' /\ IdsKept
      BY <1>1, <2>1, <2>2, <2>3, LinksChange
    <2> QED
      BY <2>1, <2>4, DoneKeeps
  <1>3. CASE ~ok
    BY <1>3, RefusedKeeps DEF ChangeLinks
  <1> QED
    BY <1>2, <1>3

LEMMA CloseKeeps ==
  ASSUME IInv, NEW r \in Request, CommitClose(r)
  PROVE  IInv'
  <1> DEFINE O == {req[r].org}
  <1>1. TablesOK /\ req[r] \in Pending \cup {Idle}
    BY Split
  <1>2. O \in SUBSET OrgId
    BY <1>1, Fields DEF CommitClose
  <1>3. /\ orgs' = OrgsWithout(O) /\ roles' = RolesWithout(O) /\ links' = LinksWithout(O)
        /\ Done(r) /\ UNCHANGED <<users, orgsMade, rolesMade>>
    BY DEF CommitClose
  <1>4. users' \subseteq users /\ \A l \in links' : l[1] \in users'
    BY <1>1, <1>3 DEF TablesOK, NoDangling, LinksWithout
  <1> HIDE DEF O
  <1>5. TablesOK' /\ IdsKept
    BY <1>1, <1>2, <1>3, <1>4, CascadeKeeps
  <1> QED
    BY <1>3, <1>5, DoneKeeps

LEMMA LeaveKeeps ==
  ASSUME IInv, NEW r \in Request, CommitLeave(r)
  PROVE  IInv'
  <1> DEFINE O == req[r].empty
  <1>1. TablesOK /\ req[r] \in Pending \cup {Idle}
    BY Split
  <1>2. O \in SUBSET OrgId
    BY <1>1, Fields DEF CommitLeave
  <1>3. /\ orgs' = OrgsWithout(O) /\ roles' = RolesWithout(O)
        /\ links' = {l \in LinksWithout(O) : l[1] # req[r].user}
        /\ users' = users \ {req[r].user}
        /\ Done(r) /\ UNCHANGED <<orgsMade, rolesMade>>
    BY DEF CommitLeave
  <1>4. /\ users' \subseteq users /\ links' \subseteq LinksWithout(O)
        /\ \A l \in links' : l[1] \in users'
    BY <1>1, <1>3 DEF TablesOK, NoDangling, LinksWithout
  <1> HIDE DEF O
  <1>5. TablesOK' /\ IdsKept
    BY <1>1, <1>2, <1>3, <1>4, CascadeKeeps
  <1> QED
    BY <1>3, <1>5, DoneKeeps

-----------------------------------------------------------------------------
(* What the reads record *)

LEMMA ArriveOrgKeeps ==
  ASSUME IInv, NEW r \in Request, NEW u \in User, ArriveOrg(r, u)
  PROVE  IInv'
  <1>1. ASSUME NEW n \in Name, StartCreate(r, u, n) PROVE IInv'
    <2> DEFINE q == [op |-> "create", actor |-> u, name |-> n]
    <2>1. q \in Pending /\ ~NamesRole(q)
      BY DEF Pending, Creation, NamesRole
    <2> QED
      BY <1>1, <2>1, StartKeeps DEF StartCreate
  <1>2. ASSUME NEW o \in OrgId, NEW n \in Name, StartRename(r, u, o, n) PROVE IInv'
    <2> DEFINE q == [op |-> "rename", org |-> o, name |-> n]
    <2>1. q \in Pending /\ ~NamesRole(q)
      BY DEF Pending, Renaming, NamesRole
    <2> QED
      BY <1>2, <2>1, StartKeeps DEF StartRename
  <1>3. ASSUME NEW o \in OrgId, StartClose(r, u, o) PROVE IInv'
    <2> DEFINE q == [op |-> "close", org |-> o]
    <2>1. q \in Pending /\ ~NamesRole(q)
      BY DEF Pending, Closing, NamesRole
    <2> QED
      BY <1>3, <2>1, StartKeeps DEF StartClose
  <1> QED
    BY <1>1, <1>2, <1>3 DEF ArriveOrg

LEMMA ArriveRoleKeeps ==
  ASSUME IInv, NEW r \in Request, NEW u \in User, NEW o \in OrgId, ArriveRole(r, u, o)
  PROVE  IInv'
  <1>1. ASSUME NEW n \in RoleName, NEW S \in Selections, StartAddRole(r, u, o, n, S)
        PROVE  IInv'
    <2> DEFINE q == [op |-> "add role", role |-> [org |-> o, name |-> n, permissions |-> S]]
    <2>1. q \in Pending /\ ~NamesRole(q)
      BY OrganizationConstants DEF Pending, NewRole, Role, NamesRole
    <2> QED
      BY <1>1, <2>1, StartKeeps DEF StartAddRole
  <1>2. ASSUME NEW i \in RoleId, NEW n \in RoleName, NEW S \in Selections,
               StartEditRole(r, u, o, i, n, S)
        PROVE  IInv'
    <2> DEFINE P == roles[i].permissions
    <2>1. PICK list \in Bijection(1 .. Cardinality(P), P) :
             Start(r, [op |-> "edit role", id |-> i, name |-> n, selected |-> S,
                       gained |-> S \ P, lost |-> Sweep(list, S)])
      BY <1>2 DEF StartEditRole
    <2>2. Custom(i)
      BY <1>2 DEF StartEditRole
    <2>3. roles[i] \in Role
      BY <2>2, Split DEF TablesOK, Custom, IsRole
    <2>4. P \in SUBSET Permission /\ S \in SUBSET Permission
      BY <2>3, OrganizationConstants DEF Role
    <2>5. list \in [1 .. Cardinality(P) -> P]
      BY <2>1 DEF Bijection, Injection
    <2>6. Sweep(list, S) \in SUBSET Permission
      <3>1. \A k \in DOMAIN list : list[k] \in Permission
        BY <2>4, <2>5
      <3> QED
        BY <3>1 DEF Sweep
    <2> DEFINE q == [op |-> "edit role", id |-> i, name |-> n, selected |-> S,
                     gained |-> S \ P, lost |-> Sweep(list, S)]
    <2>7. q \in Pending /\ q.id = i
      BY <2>4, <2>6 DEF Pending, Edit
    <2> HIDE DEF q
    <2>8. Start(r, q)
      BY <2>1 DEF q
    <2> QED
      BY <2>2, <2>7, <2>8, StartKeeps
  <1>3. ASSUME NEW i \in RoleId, StartDropRole(r, u, o, i) PROVE IInv'
    <2> DEFINE q == [op |-> "drop role", id |-> i]
    <2>1. q \in Pending /\ q.id = i
      BY DEF Pending, Drop
    <2>2. Custom(i) /\ Start(r, q)
      BY <1>3 DEF StartDropRole
    <2> HIDE DEF q
    <2> QED
      BY <2>1, <2>2, StartKeeps
  <1> QED
    BY <1>1, <1>2, <1>3 DEF ArriveRole

LEMMA ArriveMemberKeeps ==
  ASSUME IInv, NEW r \in Request, NEW u \in User, NEW o \in OrgId, NEW v \in User,
         ArriveMember(r, u, o, v)
  PROVE  IInv'
  <1>1. \A i \in RolesOf(o) : i \in RoleId
    BY DEF RolesOf
  <1>2. RolesIn(v, o) \in SUBSET RoleId
    BY DEF RolesIn, RolesOf
  <1>3. ASSUME StartJoin(r, u, o, v) PROVE IInv'
    <2>1. PICK i \in RolesOf(o) : Start(r, [op |-> "join", user |-> v, role |-> i])
      BY <1>3 DEF StartJoin
    <2> DEFINE q == [op |-> "join", user |-> v, role |-> i]
    <2>2. q \in Pending /\ ~NamesRole(q)
      BY <1>1, <2>1 DEF Pending, Joining, NamesRole
    <2> QED
      BY <2>1, <2>2, StartKeeps
  <1>4. ASSUME NEW R \in SUBSET RolesOf(o), StartAssign(r, u, o, v, R) PROVE IInv'
    <2> DEFINE q == [op |-> "assign", user |-> v, org |-> o, seen |-> RolesIn(v, o),
                     chosen |-> R]
    <2>1. q \in Pending /\ ~NamesRole(q)
      BY <1>1, <1>2 DEF Pending, Assignment, NamesRole
    <2> QED
      BY <1>4, <2>1, StartKeeps DEF StartAssign
  <1>5. ASSUME StartRemove(r, u, o, v) PROVE IInv'
    <2> DEFINE q == [op |-> "remove", user |-> v, org |-> o, seen |-> RolesIn(v, o)]
    <2>1. q \in Pending /\ ~NamesRole(q)
      BY <1>2 DEF Pending, Removal, NamesRole
    <2> QED
      BY <1>5, <2>1, StartKeeps DEF StartRemove
  <1> QED
    BY <1>3, <1>4, <1>5 DEF ArriveMember

LEMMA StartLeaveKeeps ==
  ASSUME IInv, NEW r \in Request, NEW u \in User, StartLeave(r, u)
  PROVE  IInv'
  <1> DEFINE q == [op |-> "leave", user |-> u,
                   empty |-> {o \in OrgId : IsOrg(o) /\ MembersOf(o) = {u}}]
  <1>1. q \in Pending /\ ~NamesRole(q)
    BY DEF Pending, Leave, NamesRole
  <1> QED
    BY <1>1, StartKeeps DEF StartLeave

-----------------------------------------------------------------------------

LEMMA ServeKeeps ==
  ASSUME IInv, NEW r \in Request, Serve(r)
  PROVE  IInv'
  <1> DEFINE q == req[r]
  <1>1. q \in Pending \cup {Idle}
    BY Split
  <1>2. CASE CommitCreate(r)
    BY <1>2, CreateKeeps
  <1>3. CASE CommitOwner(r)
    <2>1. q.actor \in User /\ q.role \in RoleId
      BY <1>1, <1>3, Fields DEF CommitOwner
    <2> QED
      BY <1>3, <2>1, AddLinkKeeps DEF CommitOwner
  <1>4. CASE CommitRename(r)
    BY <1>4, RenameKeeps
  <1>5. CASE CommitClose(r)
    BY <1>5, CloseKeeps
  <1>6. CASE CommitAddRole(r)
    BY <1>6, AddRoleKeeps
  <1>7. CASE CommitEditRole(r)
    BY <1>7, EditRoleKeeps
  <1>8. CASE CommitDropRole(r)
    BY <1>8, DropRoleKeeps
  <1>9. CASE CommitJoin(r)
    <2>1. q.user \in User /\ q.role \in RoleId
      BY <1>1, <1>9, Fields DEF CommitJoin
    <2> QED
      BY <1>9, <2>1, AddLinkKeeps DEF CommitJoin
  <1>10. CASE CommitAssign(r)
    <2>1. /\ q.user \in User /\ q.seen \ q.chosen \in SUBSET RoleId
          /\ q.chosen \ q.seen \in SUBSET RoleId
      BY <1>1, <1>10, Fields DEF CommitAssign
    <2> QED
      BY <1>10, <2>1, ChangeLinksKeeps DEF CommitAssign
  <1>11. CASE CommitRemove(r)
    <2>1. q.user \in User /\ q.seen \in SUBSET RoleId /\ {} \in SUBSET RoleId
      BY <1>1, <1>11, Fields DEF CommitRemove
    <2> QED
      BY <1>11, <2>1, ChangeLinksKeeps DEF CommitRemove
  <1>12. CASE CommitLeave(r)
    BY <1>12, LeaveKeeps
  <1> QED
    BY <1>2, <1>3, <1>4, <1>5, <1>6, <1>7, <1>8, <1>9, <1>10, <1>11, <1>12 DEF Serve

LEMMA NextKeeps == IInv /\ [Next]_vars => IInv'
  <1> SUFFICES ASSUME IInv, [Next]_vars PROVE IInv'
    OBVIOUS
  <1>1. CASE UNCHANGED vars
    BY <1>1 DEF vars, tables, IInv, TypeOK, NoDangling, DefaultRolesKept, Fresh,
                FormsNameCustomRoles, IsOrg, IsRole, Custom
  <1>2. ASSUME NEW r \in Request, Arrive(r) PROVE IInv'
    BY <1>2, ArriveOrgKeeps, ArriveRoleKeeps, ArriveMemberKeeps, StartLeaveKeeps DEF Arrive
  <1>3. ASSUME NEW r \in Request, Serve(r) PROVE IInv'
    BY <1>3, ServeKeeps
  <1>4. ASSUME NEW r \in Request, Abort(r) PROVE IInv'
    BY <1>4, RefusedKeeps DEF Abort
  <1> QED
    BY <1>1, <1>2, <1>3, <1>4 DEF Next

\* The inductive invariant holds in every reachable state: ids are never
\* reused and no request in progress is about to edit or delete a default role.
THEOREM OrganizationsInductive == Spec => []IInv
  <1> QED
    BY InitInv, NextKeeps, PTL DEF Spec

\* Every table and every pending commit keeps its type.
THEOREM OrganizationsTyped == Spec => []TypeOK
  <1>1. IInv => TypeOK
    BY DEF IInv
  <1> QED
    BY <1>1, OrganizationsInductive, PTL

\* However deletions and insertions of concurrent requests interleave, no link,
\* role or organization name is left dangling or doubled.
THEOREM ReferencesHold == Spec => []NoDangling
  <1>1. IInv => NoDangling
    BY DEF IInv
  <1> QED
    BY <1>1, OrganizationsInductive, PTL

\* Owner, Administrator and Member keep the permissions they were created with,
\* for any role forms: also those that name roles of other organizations.
THEOREM DefaultRolesSurvive == Spec => []DefaultRolesKept
  <1>1. IInv => DefaultRolesKept
    BY DEF IInv
  <1> QED
    BY <1>1, OrganizationsInductive, PTL

-----------------------------------------------------------------------------
(* One request after the other.  Requests that overlap break NamesUnique,     *)
(* LastMemberStays, MembershipExact and EditKeepsSelected; one at a time they *)
(* keep them, because what a request read is still so when it commits.        *)

OneRequest == \A r, s \in Request : r = s

\* What a request read, and has yet to use, is still what the tables hold.
Current(q) ==
  /\ q.op = "create" => \A o \in OrgId : orgs[o] # q.name
  /\ q.op = "rename" => \A o \in OrgId \ {q.org} : orgs[o] # q.name
  /\ q.op = "edit role" =>
        /\ q.gained = q.selected \ roles[q.id].permissions
        /\ q.lost \subseteq roles[q.id].permissions \ q.selected
  /\ q.op \in {"assign", "remove"} => q.seen = RolesIn(q.user, q.org)
  /\ q.op = "assign" => q.chosen \subseteq RolesOf(q.org)
  /\ q.op = "remove" => \E u \in MembersOf(q.org) : u # q.user
  /\ q.op = "leave" =>
        q.empty = {o \in OrgId : IsOrg(o) /\ MembersOf(o) = {q.user}}

SerialInv == NamesUnique /\ \A r \in Request : Current(req[r])

LEMMA SameTables ==
  ASSUME UNCHANGED <<users, orgs, roles, links>>, NEW q, Current(q)
  PROVE  Current(q)'
  <1>1. \A o : RolesOf(o)' = RolesOf(o)
    BY DEF RolesOf, IsRole
  <1>2. \A u, o : RolesIn(u, o)' = RolesIn(u, o)
    BY <1>1 DEF RolesIn
  <1>3. \A o : MembersOf(o)' = MembersOf(o)
    BY <1>2 DEF MembersOf
  <1>4. {o \in OrgId : IsOrg(o) /\ MembersOf(o) = {q.user}}'
          = {o \in OrgId : IsOrg(o) /\ MembersOf(o) = {q.user}}
    BY <1>3 DEF IsOrg
  <1> QED
    BY <1>1, <1>2, <1>3, <1>4 DEF Current

\* With nobody else in progress, what a request is told when it starts stays so.
LEMMA StartSerial ==
  ASSUME OneRequest, IInv, SerialInv, NEW r \in Request, NEW q, Start(r, q), Current(q)
  PROVE  SerialInv'
  <1>1. UNCHANGED <<users, orgs, roles, links>> /\ req'[r] = q
    BY Split DEF Start, tables
  <1>2. NamesUnique'
    BY <1>1 DEF SerialInv, NamesUnique, IsOrg
  <1>3. Current(q)'
    BY <1>1, SameTables
  <1>4. Current(req[r])'
    BY <1>1, <1>3 DEF Current, MembersOf, RolesIn, RolesOf, IsOrg, IsRole
  <1> QED
    BY <1>2, <1>4 DEF SerialInv, OneRequest

\* A commit leaves nothing to use, so only the names are left to show.
LEMMA CommitSerial ==
  ASSUME OneRequest, IInv, NEW r \in Request, NamesUnique',
         NEW q, req' = [req EXCEPT ![r] = q], q.op \in {"idle", "own"}
  PROVE  SerialInv'
  <1>1. req'[r] = q
    BY Split
  <1> QED
    BY <1>1 DEF SerialInv, OneRequest, Current

LEMMA DoneSerial ==
  ASSUME OneRequest, IInv, NEW r \in Request, NamesUnique', Done(r)
  PROVE  SerialInv'
  BY CommitSerial DEF Done, Idle

LEMMA ArriveOrgSerial ==
  ASSUME OneRequest, IInv, SerialInv, NEW r \in Request, NEW u \in User,
         ArriveOrg(r, u) \/ StartLeave(r, u)
  PROVE  SerialInv'
  <1>1. ASSUME NEW n \in Name, StartCreate(r, u, n) PROVE SerialInv'
    <2> DEFINE q == [op |-> "create", actor |-> u, name |-> n]
    <2>1. Current(q)
      BY <1>1 DEF StartCreate, Current
    <2> QED
      BY <1>1, <2>1, StartSerial DEF StartCreate
  <1>2. ASSUME NEW o \in OrgId, NEW n \in Name, StartRename(r, u, o, n) PROVE SerialInv'
    <2> DEFINE q == [op |-> "rename", org |-> o, name |-> n]
    <2>1. Current(q)
      BY <1>2 DEF StartRename, Current
    <2> QED
      BY <1>2, <2>1, StartSerial DEF StartRename
  <1>3. ASSUME NEW o \in OrgId, StartClose(r, u, o) PROVE SerialInv'
    <2> DEFINE q == [op |-> "close", org |-> o]
    <2>1. Current(q)
      BY DEF Current
    <2> QED
      BY <1>3, <2>1, StartSerial DEF StartClose
  <1>4. ASSUME StartLeave(r, u) PROVE SerialInv'
    <2> DEFINE q == [op |-> "leave", user |-> u,
                     empty |-> {o \in OrgId : IsOrg(o) /\ MembersOf(o) = {u}}]
    <2>1. Current(q)
      BY DEF Current
    <2> QED
      BY <1>4, <2>1, StartSerial DEF StartLeave
  <1> QED
    BY <1>1, <1>2, <1>3, <1>4 DEF ArriveOrg

\* What update_role removes from a list is in it, and not selected.
LEMMA SweepRemoves ==
  ASSUME NEW P, NEW n, NEW list \in [1 .. n -> P], NEW S
  PROVE  Sweep(list, S) \subseteq P \ S
  BY DEF Sweep

LEMMA ArriveRoleSerial ==
  ASSUME OneRequest, IInv, SerialInv, NEW r \in Request, NEW u \in User,
         NEW o \in OrgId, ArriveRole(r, u, o)
  PROVE  SerialInv'
  <1>1. ASSUME NEW n \in RoleName, NEW S \in Selections, StartAddRole(r, u, o, n, S)
        PROVE  SerialInv'
    <2> DEFINE q == [op |-> "add role", role |-> [org |-> o, name |-> n, permissions |-> S]]
    <2>1. Current(q)
      BY DEF Current
    <2> QED
      BY <1>1, <2>1, StartSerial DEF StartAddRole
  <1>2. ASSUME NEW i \in RoleId, NEW n \in RoleName, NEW S \in Selections,
               StartEditRole(r, u, o, i, n, S)
        PROVE  SerialInv'
    <2> DEFINE P == roles[i].permissions
    <2>1. PICK list \in Bijection(1 .. Cardinality(P), P) :
             Start(r, [op |-> "edit role", id |-> i, name |-> n, selected |-> S,
                       gained |-> S \ P, lost |-> Sweep(list, S)])
      BY <1>2 DEF StartEditRole
    <2>2. list \in [1 .. Cardinality(P) -> P]
      BY <2>1 DEF Bijection, Injection
    <2>3. Sweep(list, S) \subseteq P \ S
      BY <2>2, SweepRemoves
    <2> DEFINE q == [op |-> "edit role", id |-> i, name |-> n, selected |-> S,
                     gained |-> S \ P, lost |-> Sweep(list, S)]
    <2>4. Current(q)
      BY <2>3 DEF Current
    <2> QED
      BY <2>1, <2>4, StartSerial
  <1>3. ASSUME NEW i \in RoleId, StartDropRole(r, u, o, i) PROVE SerialInv'
    <2> DEFINE q == [op |-> "drop role", id |-> i]
    <2>1. Current(q)
      BY DEF Current
    <2> QED
      BY <1>3, <2>1, StartSerial DEF StartDropRole
  <1> QED
    BY <1>1, <1>2, <1>3 DEF ArriveRole

LEMMA ArriveMemberSerial ==
  ASSUME OneRequest, IInv, SerialInv, NEW r \in Request, NEW u \in User,
         NEW o \in OrgId, NEW v \in User, ArriveMember(r, u, o, v)
  PROVE  SerialInv'
  <1>1. ASSUME StartJoin(r, u, o, v) PROVE SerialInv'
    <2>1. PICK i \in RolesOf(o) : Start(r, [op |-> "join", user |-> v, role |-> i])
      BY <1>1 DEF StartJoin
    <2> DEFINE q == [op |-> "join", user |-> v, role |-> i]
    <2>2. Current(q)
      BY DEF Current
    <2> QED
      BY <2>1, <2>2, StartSerial
  <1>2. ASSUME NEW R \in SUBSET RolesOf(o), StartAssign(r, u, o, v, R) PROVE SerialInv'
    <2> DEFINE q == [op |-> "assign", user |-> v, org |-> o, seen |-> RolesIn(v, o),
                     chosen |-> R]
    <2>1. Current(q)
      BY DEF Current
    <2> QED
      BY <1>2, <2>1, StartSerial DEF StartAssign
  <1>3. ASSUME StartRemove(r, u, o, v) PROVE SerialInv'
    <2> DEFINE q == [op |-> "remove", user |-> v, org |-> o, seen |-> RolesIn(v, o)]
    <2>1. u \in MembersOf(o) /\ u # v
      BY <1>3 DEF StartRemove, HasPermission, MembersOf
    <2>2. Current(q)
      BY <2>1 DEF Current
    <2> QED
      BY <1>3, <2>2, StartSerial DEF StartRemove
  <1> QED
    BY <1>1, <1>2, <1>3 DEF ArriveMember

LEMMA ServeSerial ==
  ASSUME OneRequest, IInv, SerialInv, NEW r \in Request, Serve(r) \/ Abort(r)
  PROVE  SerialInv'
  <1> DEFINE q == req[r]
  <1>0. TablesOK /\ q \in Pending \cup {Idle} /\ Current(q) /\ NamesUnique
    BY Split DEF SerialInv
  <1>1. ASSUME UNCHANGED orgs, Done(r) PROVE SerialInv'
    BY <1>0, <1>1, DoneSerial DEF NamesUnique, IsOrg
  <1>2. CASE Refused(r)
    BY <1>1, <1>2 DEF Refused, tables
  <1>3. CASE CommitCreate(r)
    <2> DEFINE new == orgsMade + 1
               own == [op |-> "own", actor |-> q.actor, role |-> rolesMade + 1]
    <2>1. /\ orgs' = [orgs EXCEPT ![new] = q.name] /\ req' = [req EXCEPT ![r] = own]
          /\ \A o \in OrgId : orgs[o] # q.name
      BY <1>0, <1>3 DEF CommitCreate, Current
    <2>2. NamesUnique'
      BY <1>0, <2>1 DEF NamesUnique, IsOrg, TablesOK
    <2>3. own.op = "own"
      OBVIOUS
    <2> HIDE DEF own
    <2> QED
      BY <2>1, <2>2, <2>3, CommitSerial
  <1>4. CASE CommitRename(r)
    <2>1. CASE IsOrg(q.org)
      <3>1. /\ orgs' = [orgs EXCEPT ![q.org] = q.name] /\ Done(r)
            /\ \A o \in OrgId \ {q.org} : orgs[o] # q.name
        BY <1>0, <1>4, <2>1 DEF CommitRename, Current
      <3>2. NamesUnique'
        BY <1>0, <3>1 DEF NamesUnique, IsOrg, TablesOK
      <3> QED
        BY <3>1, <3>2, DoneSerial
    <2> QED
      BY <1>2, <1>4, <2>1 DEF CommitRename
  <1>5. CASE CommitClose(r) \/ CommitLeave(r)
    <2>1. Done(r) /\ \E O : orgs' = OrgsWithout(O)
      BY <1>5 DEF CommitClose, CommitLeave
    <2>2. PICK O : orgs' = OrgsWithout(O)
      BY <2>1
    <2>3. \A o \in OrgId : orgs'[o] = IF o \in O THEN None ELSE orgs[o]
      BY <2>2 DEF OrgsWithout
    <2>4. NamesUnique'
      BY <1>0, <2>3 DEF NamesUnique, IsOrg
    <2> QED
      BY <2>1, <2>4, DoneSerial
  <1>6. CASE \/ CommitOwner(r) \/ CommitAddRole(r) \/ CommitEditRole(r)
             \/ CommitDropRole(r) \/ CommitJoin(r) \/ CommitAssign(r) \/ CommitRemove(r)
    <2>1. Refused(r) \/ (UNCHANGED orgs /\ Done(r))
      BY <1>6 DEF CommitOwner, CommitAddRole, CommitEditRole, CommitDropRole,
                  CommitJoin, CommitAssign, CommitRemove, AddLink, ChangeLinks
    <2> QED
      BY <1>1, <1>2, <2>1
  <1> QED
    BY <1>2, <1>3, <1>4, <1>5, <1>6 DEF Serve, Abort

THEOREM OrganizationsSerial ==
  ASSUME OneRequest
  PROVE  Spec => []SerialInv
  <1>1. Init => SerialInv
    <2> SUFFICES ASSUME Init PROVE SerialInv
      OBVIOUS
    <2>1. NamesUnique /\ \A r \in Request : req[r].op = "idle"
      BY DEF Init, NamesUnique, IsOrg, Idle
    <2> QED
      BY <2>1 DEF SerialInv, Current
  <1>2. IInv /\ SerialInv /\ [Next]_vars => SerialInv'
    <2> SUFFICES ASSUME IInv, SerialInv, [Next]_vars PROVE SerialInv'
      OBVIOUS
    <2>1. ASSUME NEW r \in Request, Arrive(r) PROVE SerialInv'
      BY <2>1, ArriveOrgSerial, ArriveRoleSerial, ArriveMemberSerial DEF Arrive
    <2>2. ASSUME NEW r \in Request, Serve(r) \/ Abort(r) PROVE SerialInv'
      BY <2>2, ServeSerial
    <2>3. CASE UNCHANGED vars
      <3>1. UNCHANGED <<users, orgs, roles, links>> /\ req' = req
        BY <2>3 DEF vars, tables
      <3>2. ASSUME NEW q, Current(q) PROVE Current(q)'
        BY <3>1, <3>2, SameTables
      <3> QED
        BY <3>1, <3>2 DEF SerialInv, NamesUnique, IsOrg
    <2> QED
      BY <2>1, <2>2, <2>3 DEF Next
  <1> QED
    BY OrganizationsInductive, <1>1, <1>2, PTL DEF Spec

\* One request after the other, no two organizations get one name, by being
\* created or by being renamed.
THEOREM NamesStayUnique ==
  ASSUME OneRequest
  PROVE  Spec => []NamesUnique
  <1>1. SerialInv => NamesUnique
    BY DEF SerialInv
  <1> QED
    BY OrganizationsSerial, <1>1, PTL

\* One request after the other, an edited role has what was selected in the form
\* and gains nothing else.
THEOREM EditsKeepSelected ==
  ASSUME OneRequest
  PROVE  Spec => EditKeepsSelected
  <1> DEFINE Kept == \A r \in Request : CommitEditRole(r) /\ roles' # roles =>
        LET i == req[r].id
        IN  /\ req[r].selected \subseteq roles'[i].permissions
            /\ roles'[i].permissions \subseteq req[r].selected \cup roles[i].permissions
  <1>1. ASSUME IInv, SerialInv, NEW r \in Request, CommitEditRole(r), roles' # roles
        PROVE  /\ req[r].selected \subseteq roles'[req[r].id].permissions
               /\ roles'[req[r].id].permissions
                    \subseteq req[r].selected \cup roles[req[r].id].permissions
    <2> DEFINE q == req[r]
               P == roles[q.id].permissions
               role == [org |-> roles[q.id].org, name |-> q.name,
                        permissions |-> (P \cup q.gained) \ q.lost]
    <2>1. q.op = "edit role" /\ q.id \in RoleId
      BY <1>1, Split, Fields DEF CommitEditRole
    <2>2. q.gained = q.selected \ P /\ q.lost \subseteq P \ q.selected
      BY <1>1, <2>1 DEF SerialInv, Current
    <2>3. roles' = [roles EXCEPT ![q.id] = role]
      BY <1>1 DEF CommitEditRole, Refused, tables
    <2>4. roles'[q.id].permissions = (P \cup q.gained) \ q.lost
      <3>1. role.permissions = (P \cup q.gained) \ q.lost
        OBVIOUS
      <3>2. roles \in [RoleId -> Role \cup {NoRole}]
        BY <1>1, Split DEF TablesOK
      <3> HIDE DEF role
      <3> QED
        BY <2>1, <2>3, <3>1, <3>2
    <2> QED
      BY <2>2, <2>4
  <1>2. IInv /\ SerialInv /\ [Next]_vars => [Kept]_vars
    BY <1>1
  <1>3. [][Kept]_vars => EditKeepsSelected
    BY PTL DEF EditKeepsSelected
  <1> QED
    BY OrganizationsInductive, OrganizationsSerial, <1>2, <1>3, PTL DEF Spec

\* One request after the other, assigning roles leaves exactly those chosen, and
\* removing a member leaves none, with every role elsewhere untouched.
THEOREM MembershipIsExact ==
  ASSUME OneRequest
  PROVE  Spec => MembershipExact
  <1> DEFINE Exact == \A r \in Request : links' # links =>
        LET q == req[r]
            mine(L) == {i \in RolesOf(q.org) : <<q.user, i>> \in L}
            others(L) == {l \in L : l[1] # q.user \/ l[2] \notin RolesOf(q.org)}
        IN  /\ CommitAssign(r) => mine(links') = q.chosen /\ others(links') = others(links)
            /\ CommitRemove(r) => mine(links') = {} /\ others(links') = others(links)
  <1>1. ASSUME NEW L, NEW v, NEW R, NEW seen, NEW chosen,
               seen = {i \in R : <<v, i>> \in L}, chosen \subseteq R, L \subseteq User \X RoleId,
               NEW M, M = (L \ ({v} \X (seen \ chosen))) \cup ({v} \X (chosen \ seen))
        PROVE  /\ {i \in R : <<v, i>> \in M} = chosen
               /\ {l \in M : l[1] # v \/ l[2] \notin R} = {l \in L : l[1] # v \/ l[2] \notin R}
    <2>1. {i \in R : <<v, i>> \in M} = chosen
      BY <1>1
    <2>2. ASSUME NEW l, l[1] # v \/ l[2] \notin R
          PROVE  l \in M <=> l \in L
      BY <1>1, <2>2
    <2> QED
      BY <2>1, <2>2
  <1>2. ASSUME IInv, SerialInv, NEW r \in Request, links' # links, CommitAssign(r) \/ CommitRemove(r)
        PROVE  LET q == req[r]
                   mine(L) == {i \in RolesOf(q.org) : <<q.user, i>> \in L}
                   others(L) == {l \in L : l[1] # q.user \/ l[2] \notin RolesOf(q.org)}
               IN  /\ CommitAssign(r) => mine(links') = q.chosen /\ others(links') = others(links)
                   /\ CommitRemove(r) => mine(links') = {} /\ others(links') = others(links)
    <2> DEFINE q == req[r]
    <2>1. q.seen = {i \in RolesOf(q.org) : <<q.user, i>> \in links} /\ links \subseteq User \X RoleId
      BY <1>2, Split DEF SerialInv, Current, CommitAssign, CommitRemove, RolesIn, TablesOK
    <2>2. CASE CommitAssign(r)
      <3>1. q.op = "assign" /\ q.chosen \subseteq RolesOf(q.org)
        BY <1>2, <2>2 DEF SerialInv, Current, CommitAssign
      <3>2. links' = (links \ ({q.user} \X (q.seen \ q.chosen)))
                       \cup ({q.user} \X (q.chosen \ q.seen))
        BY <1>2, <2>2 DEF CommitAssign, ChangeLinks, Refused, tables
      <3>3. ~CommitRemove(r)
        BY <3>1 DEF CommitRemove
      <3>4. /\ {i \in RolesOf(q.org) : <<q.user, i>> \in links'} = q.chosen
            /\ {l \in links' : l[1] # q.user \/ l[2] \notin RolesOf(q.org)}
                 = {l \in links : l[1] # q.user \/ l[2] \notin RolesOf(q.org)}
        <4> HIDE DEF q
        <4> QED
          BY <1>1, <2>1, <3>1, <3>2
      <3> QED
        BY <3>3, <3>4
    <2>3. CASE CommitRemove(r)
      <3>1. q.op = "remove" /\ ~CommitAssign(r)
        BY <2>3 DEF CommitRemove, CommitAssign
      <3>2. links' = (links \ ({q.user} \X (q.seen \ {}))) \cup ({q.user} \X ({} \ q.seen))
        <4>1. links' = (links \ ({q.user} \X q.seen)) \cup ({q.user} \X {})
          BY <1>2, <2>3 DEF CommitRemove, ChangeLinks, Refused, tables
        <4>2. q.seen \ {} = q.seen /\ {} \ q.seen = {}
          OBVIOUS
        <4> QED
          BY <4>1, <4>2
      <3>3. /\ {i \in RolesOf(q.org) : <<q.user, i>> \in links'} = {}
            /\ {l \in links' : l[1] # q.user \/ l[2] \notin RolesOf(q.org)}
                 = {l \in links : l[1] # q.user \/ l[2] \notin RolesOf(q.org)}
        <4>1. {} \subseteq RolesOf(q.org)
          OBVIOUS
        <4> HIDE DEF q
        <4> QED
          BY <1>1, <2>1, <3>2, <4>1
      <3> QED
        BY <3>1, <3>3
    <2> QED
      BY <1>2, <2>2, <2>3
  <1>3. IInv /\ SerialInv /\ [Next]_vars => [Exact]_vars
    BY <1>2
  <1>4. [][Exact]_vars => MembershipExact
    BY PTL DEF MembershipExact
  <1> QED
    BY OrganizationsInductive, OrganizationsSerial, <1>3, <1>4, PTL DEF Spec

-----------------------------------------------------------------------------
(* Organizations keep a member                                               *)

LEMMA StillMember ==
  ASSUME NEW o, NEW u, NEW i \in RoleId, u \in users', <<u, i>> \in links',
         roles'[i] # NoRole, roles'[i].org = o
  PROVE  MembersOf(o)' # {}
  BY DEF MembersOf, RolesIn, RolesOf, IsRole

\* A member has a link to a role of the organization, whose id was given out.
LEMMA MemberHas ==
  ASSUME IInv, NEW o, NEW u \in MembersOf(o)
  PROVE  \E i \in RoleId : /\ u \in users /\ <<u, i>> \in links
                           /\ roles[i] # NoRole /\ roles[i].org = o
                           /\ i <= rolesMade
  <1>1. PICK i \in RoleId : /\ u \in users /\ <<u, i>> \in links
                            /\ roles[i] # NoRole /\ roles[i].org = o
    BY DEF MembersOf, RolesIn, RolesOf, IsRole
  <1>2. i \in Nat /\ rolesMade \in Nat
    BY Ids, Counters, Split
  <1>3. i <= rolesMade
    BY <1>1, <1>2, Split DEF TablesOK, Fresh, IsRole
  <1> QED
    BY <1>1, <1>3

\* Steps that keep people, and the links and roles that make them members.
LEMMA MembersKept ==
  ASSUME IInv, NEW o \in OrgId, MembersOf(o) # {}, users' = users, links \subseteq links',
         \A i \in RoleId : i <= rolesMade /\ roles[i] # NoRole /\ (\E u \in users : <<u, i>> \in links)
                             => roles'[i] # NoRole /\ roles'[i].org = roles[i].org
  PROVE  MembersOf(o)' # {}
  <1>1. PICK u \in MembersOf(o) : TRUE
    OBVIOUS
  <1>2. PICK i \in RoleId : /\ u \in users /\ <<u, i>> \in links
                            /\ roles[i] # NoRole /\ roles[i].org = o
                            /\ i <= rolesMade
    BY MemberHas
  <1> QED
    BY <1>2, StillMember

LEMMA ServeKeepsMember ==
  ASSUME IInv, SerialInv, NEW r \in Request, Serve(r), ~CommitAssign(r),
         NEW o \in OrgId, MembersOf(o) # {}, orgs'[o] # None
  PROVE  MembersOf(o)' # {}
  <1> DEFINE q == req[r]
  <1>0. /\ TablesOK /\ q \in Pending \cup {Idle} /\ Current(q)
        /\ roles \in [RoleId -> Role \cup {NoRole}] /\ rolesMade \in Nat
    BY Split, Counters DEF SerialInv, TablesOK
  <1>1. ASSUME UNCHANGED <<users, roles>>, links \subseteq links'
        PROVE  MembersOf(o)' # {}
    BY <1>1, MembersKept
  <1>2. CASE Refused(r) \/ CommitRename(r) \/ CommitOwner(r) \/ CommitJoin(r)
    BY <1>1, <1>2 DEF Refused, CommitRename, CommitOwner, CommitJoin, AddLink, tables
  <1>3. CASE CommitCreate(r)
    <2>1. \A i \in RoleId : i <= rolesMade => roles'[i] = roles[i]
      BY <1>0, <1>3, Ids DEF CommitCreate
    <2>2. UNCHANGED <<users, links>>
      BY <1>3 DEF CommitCreate
    <2> QED
      BY <2>1, <2>2, MembersKept
  <1>4. CASE CommitAddRole(r)
    <2>1. CASE /\ roles' = [roles EXCEPT ![rolesMade + 1] = q.role]
               /\ UNCHANGED <<users, links>>
      <3>1. \A i \in RoleId : i <= rolesMade => roles'[i] = roles[i]
        BY <1>0, <2>1, Ids
      <3> QED
        BY <2>1, <3>1, MembersKept
    <2> QED
      BY <1>2, <1>4, <2>1 DEF CommitAddRole
  <1>5. CASE CommitEditRole(r)
    <2> DEFINE role == [org |-> roles[q.id].org, name |-> q.name,
                        permissions |-> (roles[q.id].permissions \cup q.gained) \ q.lost]
    <2>1. CASE /\ IsRole(q.id) /\ roles' = [roles EXCEPT ![q.id] = role]
               /\ UNCHANGED <<users, links>>
      <3>1. q.id \in RoleId
        BY <1>0, <1>5, Fields DEF CommitEditRole
      <3>2. roles[q.id].org \in OrgId
        BY <1>0, <2>1, <3>1 DEF IsRole, Role
      <3>3. role.org = roles[q.id].org /\ role # NoRole
        BY <3>2, OrganizationConstants DEF NoRole, OrgId
      <3> HIDE DEF role
      <3>4. \A i \in RoleId : roles[i] # NoRole =>
               roles'[i] # NoRole /\ roles'[i].org = roles[i].org
        BY <1>0, <2>1, <3>3
      <3> QED
        BY <2>1, <3>4, MembersKept
    <2> QED
      BY <1>2, <1>5, <2>1 DEF CommitEditRole
  <1>6. CASE CommitDropRole(r)
    <2>1. CASE /\ \A v \in User : <<v, q.id>> \notin links
               /\ roles' = [roles EXCEPT ![q.id] = NoRole]
               /\ UNCHANGED <<users, links>>
      <3>1. \A i \in RoleId : (\E u \in users : <<u, i>> \in links) => roles'[i] = roles[i]
        BY <1>0, <2>1 DEF TablesOK
      <3> QED
        BY <2>1, <3>1, MembersKept
    <2> QED
      BY <1>2, <1>6, <2>1 DEF CommitDropRole
  <1>7. CASE CommitClose(r)
    <2>1. /\ orgs' = OrgsWithout({q.org}) /\ roles' = RolesWithout({q.org})
          /\ links' = LinksWithout({q.org}) /\ users' = users
      BY <1>7 DEF CommitClose
    <2>2. o # q.org
      BY <2>1 DEF OrgsWithout
    <2>3. PICK u \in MembersOf(o) : TRUE
      OBVIOUS
    <2>4. PICK i \in RoleId : /\ u \in users /\ <<u, i>> \in links
                              /\ roles[i] # NoRole /\ roles[i].org = o
      BY MemberHas
    <2>5. roles'[i] = roles[i] /\ <<u, i>> \in links'
      BY <2>1, <2>2, <2>4 DEF RolesWithout, LinksWithout
    <2> QED
      BY <2>1, <2>4, <2>5, StillMember
  <1>8. CASE CommitRemove(r)
    <2>1. CASE /\ links' = (links \ ({q.user} \X q.seen)) \cup ({q.user} \X {})
               /\ UNCHANGED <<users, roles>>
      <3>1. q.op = "remove" /\ q.seen = RolesIn(q.user, q.org)
            /\ \E u \in MembersOf(q.org) : u # q.user
        BY <1>0, <1>8 DEF CommitRemove, Current
      <3>2. PICK u \in MembersOf(o) : o = q.org => u # q.user
        <4>1. CASE o = q.org
          BY <3>1, <4>1
        <4>2. CASE o # q.org
          BY <4>2
        <4> QED
          BY <4>1, <4>2
      <3>3. PICK i \in RoleId : /\ u \in users /\ <<u, i>> \in links
                                /\ roles[i] # NoRole /\ roles[i].org = o
        BY MemberHas
      <3>4. <<u, i>> \notin {q.user} \X q.seen
        BY <3>1, <3>2, <3>3 DEF RolesIn, RolesOf
      <3> QED
        BY <2>1, <3>3, <3>4, StillMember
    <2> QED
      BY <1>2, <1>8, <2>1 DEF CommitRemove, ChangeLinks
  <1>9. CASE CommitLeave(r)
    <2>1. /\ users' = users \ {q.user} /\ orgs' = OrgsWithout(q.empty)
          /\ roles' = RolesWithout(q.empty)
          /\ links' = {l \in LinksWithout(q.empty) : l[1] # q.user}
      BY <1>9 DEF CommitLeave
    <2>2. q.empty = {p \in OrgId : IsOrg(p) /\ MembersOf(p) = {q.user}}
      BY <1>0, <1>9 DEF CommitLeave, Current
    <2>3. o \notin q.empty /\ orgs[o] # None
      BY <2>1 DEF OrgsWithout
    <2>4. PICK u \in MembersOf(o) : u # q.user
      BY <2>2, <2>3 DEF IsOrg
    <2>5. PICK i \in RoleId : /\ u \in users /\ <<u, i>> \in links
                              /\ roles[i] # NoRole /\ roles[i].org = o
      BY MemberHas
    <2>6. roles'[i] = roles[i] /\ <<u, i>> \in links' /\ u \in users'
      BY <2>1, <2>3, <2>4, <2>5 DEF RolesWithout, LinksWithout
    <2> QED
      BY <2>5, <2>6, StillMember
  <1> QED
    BY <1>2, <1>3, <1>4, <1>5, <1>6, <1>7, <1>8, <1>9 DEF Serve

\* One request after the other, an organization that has members and goes on
\* existing has members still, unless a role form took the last one's roles.
THEOREM LastMembersStay ==
  ASSUME OneRequest
  PROVE  Spec => LastMemberStays
  <1> DEFINE Stays ==
        \A o \in OrgId : IsOrg(o) /\ MembersOf(o) # {} /\ IsOrg(o)' =>
          MembersOf(o)' # {} \/ \E r \in Request : CommitAssign(r)
  <1>1. IInv /\ SerialInv /\ [Next]_vars => [Stays]_vars
    <2> SUFFICES ASSUME IInv, SerialInv, Next, NEW o \in OrgId,
                        MembersOf(o) # {}, orgs'[o] # None,
                        \A r \in Request : ~CommitAssign(r)
                 PROVE  MembersOf(o)' # {}
      BY DEF IsOrg
    <2>1. PICK r \in Request : Arrive(r) \/ Serve(r) \/ Abort(r)
      BY DEF Next
    <2>2. CASE Serve(r)
      BY <2>2, ServeKeepsMember
    <2>3. CASE Arrive(r) \/ Abort(r)
      <3>1. UNCHANGED tables
        BY <2>3 DEF Arrive, ArriveOrg, ArriveRole, ArriveMember, StartCreate,
               StartRename, StartClose, StartAddRole, StartEditRole, StartDropRole,
               StartJoin, StartAssign, StartRemove, StartLeave, Start, Abort, Refused
      <3> QED
        BY <3>1, MembersKept DEF tables
    <2> QED
      BY <2>1, <2>2, <2>3
  <1>2. [][Stays]_vars => LastMemberStays
    BY PTL DEF LastMemberStays
  <1> QED
    BY OrganizationsInductive, OrganizationsSerial, <1>1, <1>2, PTL DEF Spec
=============================================================================
