------------------------------ MODULE Invitations ------------------------------
(***************************************************************************)
(* Invitations of one organization by e-mail: the rows, the links that are   *)
(* mailed, and the three ways to accept one (the link itself, a login and a  *)
(* registration that carry it along).                                       *)
(*                                                                          *)
(* An invitation is mailed between the flush and the commit of the request   *)
(* that makes it; the flush holds the rows it deleted or updated and the     *)
(* unique key it inserted until then.  Everything else is read, decided, and *)
(* written by a later commit that the database may refuse.                   *)
(*                                                                          *)
(* The people who invite are outside User; what has_permission lets them do  *)
(* is module Organizations, and so are the races of the member forms, which  *)
(* are single steps here.                                                    *)
(***************************************************************************)
EXTENDS Naturals, FiniteSets

CONSTANTS
  User, Email,
  PrimaryOf,       \* Account.email of each user, once registered
  VerifiedOf,      \* the verified addresses of each user, the primary one among them
  Role,            \* roles of the organization
  CustomRole,      \* those that delete_role may delete
  Request,         \* requests that may be in progress together
  Ops,             \* operations the clients of a run use, a subset of AllOps
  Lossy,           \* whether requests may die
  None,            \* no role, no address
  MaxInvitations,  \* bound: invitation rows ever inserted
  MaxTokens        \* bound: tokens ever mailed

AllOps == {"register", "invite", "resend", "cancel", "accept", "remove", "drop role"}

ASSUME InvitationConstants ==
  /\ PrimaryOf \in [User -> Email] /\ VerifiedOf \in [User -> SUBSET Email]
  /\ \A u \in User : PrimaryOf[u] \in VerifiedOf[u]
  /\ \A u, v \in User : u # v => VerifiedOf[u] \cap VerifiedOf[v] = {}
  /\ CustomRole \subseteq Role /\ Ops \subseteq AllOps /\ Lossy \in BOOLEAN
  /\ None \notin Email /\ None \notin Role
  /\ MaxInvitations \in Nat /\ MaxTokens \in Nat

VARIABLES
  users,    \* registered users
  roles,    \* Role rows of the organization
  links,    \* UserRoleLink rows
  rows,     \* Invitation rows by id
  made,     \* ids given out
  mailed,   \* tokens mailed so far; a token is its place in that order
  req,      \* requests in progress
  workers   \* how many requests the deployment serves at a time

tables == <<users, roles, links, rows, made>>
vars == <<tables, mailed, req, workers>>

Id == 1..MaxInvitations
Token == 1..MaxTokens
Invitation == [email : Email, role : Role, token : Token, used : BOOLEAN,
               expired : BOOLEAN]
NoRow == [email |-> None, role |-> None, token |-> 0, used |-> FALSE, expired |-> FALSE]

\* What a request in progress is going to flush or to commit.
Idle == [op |-> "idle"]
Inviting == [op : {"invite"}, email : Email, role : Role, pending : SUBSET Id]
Invited == [op : {"invited"}, email : Email, role : Role, pending : SUBSET Id,
            token : Token]
Resending == [op : {"resend"}, id : Id]
Resent == [op : {"resent"}, id : Id, token : Token]
Cancelling == [op : {"cancel"}, id : Id]
Accepting == [op : {"accept", "register"}, user : User, id : Id, role : Role]
Pending == Inviting \cup Invited \cup Resending \cup Resent \cup Cancelling \cup Accepting

TypeOK ==
  /\ users \subseteq User
  /\ roles \subseteq Role
  /\ links \subseteq User \X Role
  /\ rows \in [Id -> Invitation \cup {NoRow}]
  /\ made \in 0..MaxInvitations
  /\ mailed \in 0..MaxTokens
  /\ req \in [Request -> Pending \cup {Idle}]
  /\ workers \in Nat

Init ==
  /\ users = {}
  /\ roles = Role
  /\ links = {}
  /\ rows = [i \in Id |-> NoRow]
  /\ made = 0
  /\ mailed = 0
  /\ req = [r \in Request |-> Idle]
  /\ workers \in 1 .. Cardinality(Request)

-----------------------------------------------------------------------------
(* What the handlers ask of the database *)

Exists(i) == rows[i] # NoRow
Active(i) == Exists(i) /\ ~rows[i].used /\ ~rows[i].expired
PendingFor(e) == {i \in Id : Exists(i) /\ rows[i].email = e /\ ~rows[i].used}
IsMember(u) == \E x \in Role : <<u, x>> \in links

Free(r) == req[r] = Idle
Busy(op) == Cardinality({r \in Request : req[r].op = op})
CanServe == Cardinality({r \in Request : ~Free(r)}) < workers
Start(r, q) ==
  /\ Free(r) /\ CanServe
  /\ req' = [req EXCEPT ![r] = q]
  /\ UNCHANGED <<tables, mailed, workers>>
Done(r) == req' = [req EXCEPT ![r] = Idle]
Refused(r) == Done(r) /\ UNCHANGED <<tables, mailed, workers>>
RoomForInvitation == made + Busy("invite") + Busy("invited") < MaxInvitations
RoomForMail == mailed + Busy("invite") + Busy("resend") < MaxTokens

\* The rows and the key that a flushed transaction keeps to itself.
Holds(r, i) == \/ req[r].op = "invited" /\ i \in req[r].pending
               \/ req[r].op = "resent" /\ req[r].id = i
Locked(i) == \E r \in Request : Holds(r, i)
KeyLocked(e) == \E r \in Request : req[r].op = "invited" /\ req[r].email = e

\* The link with a new token leaves for e; the request is then q.
Mail(r, e, q) ==
  /\ mailed < MaxTokens
  /\ mailed' = mailed + 1
  /\ req' = [req EXCEPT ![r] = q]
  /\ UNCHANGED <<tables, workers>>

-----------------------------------------------------------------------------
(* Inviting, sending again, cancelling *)

\* Membership is looked up by Account.email only; what is pending for the
\* address will be deleted.
StartInvite(r, e, x) ==
  /\ "invite" \in Ops /\ RoomForInvitation /\ RoomForMail
  /\ x \in roles
  /\ \A u \in users : PrimaryOf[u] = e => ~IsMember(u)
  /\ Start(r, [op |-> "invite", email |-> e, role |-> x, pending |-> PendingFor(e)])

\* The flush waits for the rows and the key, and is refused by the foreign key
\* of the role or by a pending row it did not know.
FlushInvite(r) ==
  LET q == req[r]
  IN  /\ q.op = "invite"
      /\ ~KeyLocked(q.email) /\ \A i \in q.pending : ~Locked(i)
      /\ IF q.role \in roles /\ PendingFor(q.email) \subseteq q.pending
         THEN Mail(r, q.email, [op |-> "invited", email |-> q.email, role |-> q.role,
                                pending |-> q.pending, token |-> mailed + 1])
         ELSE Refused(r)

\* Mutant: what was pending stays, marked as expired.
CommitInviteKeeping(r) ==
  LET q == req[r]
      new == [email |-> q.email, role |-> q.role, token |-> q.token,
              used |-> FALSE, expired |-> FALSE]
  IN  /\ q.op = "invited"
      /\ made < MaxInvitations
      /\ rows' = [rows EXCEPT ![made + 1] = new]
      /\ made' = made + 1
      /\ Done(r)
      /\ UNCHANGED <<users, roles, links, mailed, workers>>

CommitInvite(r) ==
  LET q == req[r]
      new == [email |-> q.email, role |-> q.role, token |-> q.token,
              used |-> FALSE, expired |-> FALSE]
  IN  /\ q.op = "invited"
      /\ made < MaxInvitations
      /\ rows' = [i \in Id |-> IF i = made + 1 THEN new
                               ELSE IF i \in q.pending THEN NoRow ELSE rows[i]]
      /\ made' = made + 1
      /\ Done(r)
      /\ UNCHANGED <<users, roles, links, mailed, workers>>

StartResend(r, i) ==
  /\ "resend" \in Ops /\ RoomForMail
  /\ Exists(i) /\ ~rows[i].used
  /\ Start(r, [op |-> "resend", id |-> i])

\* Mutant: the link is mailed before the row is flushed, without its lock.
MailUnlocked(r) ==
  LET i == req[r].id
  IN  /\ req[r].op = "resend"
      /\ IF Exists(i)
         THEN Mail(r, rows[i].email, [op |-> "resent", id |-> i, token |-> mailed + 1])
         ELSE Refused(r)

\* An UPDATE of a row that is gone is refused; one of a row that was accepted
\* meanwhile is not.
FlushResend(r) ==
  LET i == req[r].id
  IN  /\ req[r].op = "resend"
      /\ ~Locked(i)
      /\ IF Exists(i)
         THEN Mail(r, rows[i].email, [op |-> "resent", id |-> i, token |-> mailed + 1])
         ELSE Refused(r)

CommitResend(r) ==
  LET q == req[r]
      old == rows[q.id]
  IN  /\ q.op = "resent"
      /\ rows' = [rows EXCEPT ![q.id] =
                    [email |-> old.email, role |-> old.role, token |-> q.token,
                     used |-> old.used, expired |-> FALSE]]
      /\ Done(r)
      /\ UNCHANGED <<users, roles, links, made, mailed, workers>>

\* Sending fails: the transaction is rolled back, and nothing was mailed.
MailFails(r) == req[r].op \in {"invite", "resend"} /\ Refused(r)

StartCancel(r, i) ==
  /\ "cancel" \in Ops
  /\ Exists(i)
  /\ Start(r, [op |-> "cancel", id |-> i])

CommitCancel(r) ==
  LET i == req[r].id
  IN  /\ req[r].op = "cancel"
      /\ ~Locked(i)
      /\ rows' = [rows EXCEPT ![i] = NoRow]
      /\ Done(r)
      /\ UNCHANGED <<users, roles, links, made, mailed, workers>>

-----------------------------------------------------------------------------
(* Accepting *)

\* GET /accept: the link of an active invitation, opened by the user whose
\* Account.email is the address invited.
StartAccept(r, u, i) ==
  /\ "accept" \in Ops
  /\ Active(i)
  /\ u \in users /\ rows[i].email = PrimaryOf[u]
  /\ Start(r, [op |-> "accept", user |-> u, id |-> i, role |-> rows[i].role])

\* Mutant: used invitations are not looked for.
StartLoginAgain(r, u, i) ==
  /\ "accept" \in Ops
  /\ Exists(i)
  /\ u \in users /\ rows[i].email \in VerifiedOf[u]
  /\ Start(r, [op |-> "accept", user |-> u, id |-> i, role |-> rows[i].role])

\* A login that carries the token: any verified address will do.
StartLogin(r, u, i) ==
  /\ "accept" \in Ops
  /\ Active(i)
  /\ u \in users /\ rows[i].email \in VerifiedOf[u]
  /\ Start(r, [op |-> "accept", user |-> u, id |-> i, role |-> rows[i].role])

\* A registration that carries the token, for the address invited.
StartRegister(r, u, i) ==
  /\ "register" \in Ops
  /\ Active(i)
  /\ u \notin users /\ rows[i].email = PrimaryOf[u]
  /\ Start(r, [op |-> "register", user |-> u, id |-> i, role |-> rows[i].role])

\* Mutant: a cancelled invitation is no obstacle.
AdmitAnyway(r) ==
  LET q == req[r]
  IN  /\ q.op \in {"accept", "register"}
      /\ users' = users \cup {q.user}
      /\ links' = links \cup {<<q.user, q.role>>}
      /\ Done(r)
      /\ UNCHANGED <<roles, rows, made, mailed, workers>>

\* process_invitation and the commit of its caller: INSERT of the link under its
\* keys, UPDATE of a row that must still be there, under the unique key on
\* address and `used`.
CommitAccept(r) ==
  LET q == req[r]
      old == rows[q.id]
  IN  /\ q.op \in {"accept", "register"}
      /\ ~Locked(q.id)
      /\ IF /\ Exists(q.id)
            /\ q.op = "accept" <=> q.user \in users
            /\ q.role \in roles /\ <<q.user, q.role>> \notin links
            /\ \A i \in Id \ {q.id} : rows[i].email = old.email => ~rows[i].used
         THEN /\ users' = users \cup {q.user}
              /\ links' = links \cup {<<q.user, q.role>>}
              /\ rows' = [rows EXCEPT ![q.id] =
                            [email |-> old.email, role |-> old.role, token |-> old.token,
                             used |-> TRUE, expired |-> old.expired]]
              /\ Done(r)
              /\ UNCHANGED <<roles, made, mailed, workers>>
         ELSE Refused(r)

-----------------------------------------------------------------------------
(* Around invitations *)

\* A registration without an invitation.
Register(u) ==
  /\ "register" \in Ops /\ CanServe
  /\ users' = users \cup {u}
  /\ UNCHANGED <<roles, links, rows, made, mailed, req, workers>>

\* remove_user_from_organization
RemoveMember(u) ==
  /\ "remove" \in Ops /\ CanServe
  /\ IsMember(u)
  /\ links' = {l \in links : l[1] # u}
  /\ UNCHANGED <<users, roles, rows, made, mailed, req, workers>>

\* delete_role deletes the invitations to the role with it; it waits for rows
\* and references that a flushed transaction holds.
DropRole(x) ==
  /\ "drop role" \in Ops /\ CanServe
  /\ x \in roles \cap CustomRole /\ \A u \in User : <<u, x>> \notin links
  /\ \A r \in Request : req[r].op = "invited" => req[r].role # x
  /\ \A i \in Id : rows[i].role = x => ~Locked(i)
  /\ roles' = roles \ {x}
  /\ rows' = [i \in Id |-> IF rows[i].role = x THEN NoRow ELSE rows[i]]
  /\ UNCHANGED <<users, links, made, mailed, req, workers>>

\* Seven days pass.
Expire(i) ==
  /\ Active(i)
  /\ rows' = [rows EXCEPT ![i] = [email |-> @.email, role |-> @.role, token |-> @.token,
                                  used |-> @.used, expired |-> TRUE]]
  /\ UNCHANGED <<users, roles, links, made, mailed, req, workers>>

Abort(r) == Lossy /\ ~Free(r) /\ Refused(r)

Arrive(r) ==
  \/ \E e \in Email, x \in Role : StartInvite(r, e, x)
  \/ \E i \in Id : StartResend(r, i) \/ StartCancel(r, i)
  \/ \E u \in User, i \in Id :
        StartAccept(r, u, i) \/ StartLogin(r, u, i) \/ StartRegister(r, u, i)

Serve(r) ==
  \/ FlushInvite(r) \/ CommitInvite(r) \/ FlushResend(r) \/ CommitResend(r)
  \/ MailFails(r) \/ CommitCancel(r) \/ CommitAccept(r)

Next ==
  \/ \E r \in Request : Arrive(r) \/ Serve(r) \/ Abort(r)
  \/ \E u \in User : Register(u) \/ RemoveMember(u)
  \/ \E x \in Role : DropRole(x)
  \/ \E i \in Id : Expire(i)

Spec == Init /\ [][Next]_vars

-----------------------------------------------------------------------------
(* Properties *)

\* The deployment serves one request after the other.
OneAtATime == workers = 1

\* An address never has two links that work: whoever invites it again, sends
\* again or cancels at once, there is one unused invitation for it at most
\* (invalidate_pending_for_email and uq_invitation_org_email_used).
OneLinkWorks ==
  \A i, j \in Id : Exists(i) /\ i \in PendingFor(rows[i].email)
                      /\ j \in PendingFor(rows[i].email) => i = j

\* The inductive invariant: ids and tokens are given out once.
Fresh ==
  /\ \A i \in Id : Exists(i) => i <= made /\ rows[i].token <= mailed
  /\ \A r \in Request : req[r].op \in {"invited", "resent"} => req[r].token <= mailed

\* Two flushed transactions hold different rows and different keys, and an
\* updated row is still there.
LocksExclude ==
  /\ \A r, s \in Request : r # s => \A i \in Id : ~(Holds(r, i) /\ Holds(s, i))
  /\ \A r, s \in Request :
        r # s /\ req[r].op = "invited" /\ req[s].op = "invited" => req[r].email # req[s].email
  /\ \A r \in Request : req[r].op = "resent" => Exists(req[r].id)

\* What a flushed transaction is going to commit replaces all that is pending
\* for the address, and carries a later token.
FlushReplaces ==
  /\ \A r \in Request : req[r].op = "invited" =>
        \A i \in PendingFor(req[r].email) : i \in req[r].pending /\ rows[i].token < req[r].token
  /\ \A r \in Request : req[r].op = "resent" => rows[req[r].id].token < req[r].token

\* An acceptance in progress is of an invitation to its role and its user's
\* address, or of one that is gone.
AcceptsOwn ==
  \A r \in Request : req[r].op \in {"accept", "register"} =>
     /\ req[r].id <= made
     /\ Exists(req[r].id) => /\ rows[req[r].id].role = req[r].role
                             /\ rows[req[r].id].email \in VerifiedOf[req[r].user]

\* What every state satisfies: types, one working link for each address, and
\* what the locks of flushed transactions keep true until they commit.
IInv == TypeOK /\ OneLinkWorks /\ Fresh /\ LocksExclude /\ FlushReplaces /\ AcceptsOwn

\* The link that works for an address is never replaced by one mailed earlier,
\* whatever order racing invitations and resends are mailed and committed in: of
\* two mails whose transactions both committed, the earlier one never takes the
\* place of the later one. (A mail whose transaction dies carries a link that is
\* in no row, and leaves the one before it working.)
LinksOnlyAdvance ==
  [][\A e \in Email : \A i \in PendingFor(e) : \A j \in PendingFor(e)' :
        rows[i].token <= rows'[j].token]_vars

\* Who becomes a member by accepting does so through an invitation that is
\* there at that moment, to the role it names and to an address verified as
\* theirs: an invitation cancelled or replaced under an acceptance in progress
\* admits nobody (tests test_invitation.py:1013).
AdmittedByInvitation ==
  [][\A r \in Request : CommitAccept(r) /\ links' # links =>
        LET i == req[r].id
        IN  /\ Exists(i) /\ rows[i].role = req[r].role /\ rows[i].role \in roles
            /\ rows[i].email \in VerifiedOf[req[r].user]
            /\ links' = links \cup {<<req[r].user, rows[i].role>>}]_vars

\* One request after the other, an invitation admits once: a member who was
\* removed does not get in again with the old link.
AcceptedOnce ==
  [][\A r \in Request : OneAtATime /\ CommitAccept(r) /\ links' # links =>
        ~rows[req[r].id].used]_vars
=============================================================================
