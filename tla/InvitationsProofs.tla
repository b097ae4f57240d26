--------------------------- MODULE InvitationsProofs ---------------------------
(***************************************************************************)
(* Theorems about Invitations for any people, addresses, roles, number of    *)
(* concurrent requests and bounds.  They rest on IInv: what a transaction    *)
(* holds between its flush and its commit stays as it was, so the commit     *)
(* replaces everything that was pending for the address.  The last part      *)
(* is about a deployment that serves one request at a time.                  *)
(***************************************************************************)
EXTENDS Invitations, FiniteSetTheorems, TLAPS

Requests == req \in [Request -> Pending \cup {Idle}]

\* The part of TypeOK about everything but the requests.
TablesOK ==
  /\ users \subseteq User
  /\ roles \subseteq Role
  /\ links \subseteq User \X Role
  /\ rows \in [Id -> Invitation \cup {NoRow}]
  /\ made \in 0..MaxInvitations
  /\ mailed \in 0..MaxTokens
  /\ workers \in Nat

LEMMA Split == TypeOK <=> TablesOK /\ Requests
  BY DEF TypeOK, TablesOK, Requests

\* Ids, tokens and counters are numbers.
LEMMA Numbers ==
  /\ \A i \in Id : i \in Nat /\ i # 0
  /\ \A t \in Token : t \in Nat /\ t # 0
  /\ TablesOK => made \in Nat /\ mailed \in Nat
  /\ TablesOK => made <= MaxInvitations /\ mailed <= MaxTokens
  BY InvitationConstants DEF Id, Token, TablesOK

LEMMA RowFields ==
  ASSUME TablesOK, NEW i \in Id
  PROVE  /\ Exists(i) => /\ rows[i] \in Invitation
                         /\ rows[i].email \in Email /\ rows[i].role \in Role
                         /\ rows[i].token \in Token /\ rows[i].used \in BOOLEAN
         /\ rows[i].token \in Nat /\ NoRow.token = 0
         /\ NoRow.email \notin Email /\ NoRow.role \notin Role /\ ~NoRow.used
  BY Numbers, InvitationConstants DEF TablesOK, Invitation, NoRow, Exists

\* A request has the fields of its operation.
LEMMA Fields ==
  ASSUME NEW q \in Pending \cup {Idle}
  PROVE  /\ q.op = "invite" => q.email \in Email /\ q.role \in Role /\ q.pending \in SUBSET Id
         /\ q.op = "invited" => /\ q.email \in Email /\ q.role \in Role
                                /\ q.pending \in SUBSET Id /\ q.token \in Token
         /\ q.op = "resend" => q.id \in Id
         /\ q.op = "resent" => q.id \in Id /\ q.token \in Token
         /\ q.op = "cancel" => q.id \in Id
         /\ q.op = "accept" => q.user \in User /\ q.id \in Id /\ q.role \in Role
         /\ q.op = "register" => q.user \in User /\ q.id \in Id /\ q.role \in Role
  <1> USE DEF Pending, Inviting, Invited, Resending, Resent, Cancelling, Accepting, Idle
  <1>1. CASE q \in Inviting
    BY <1>1
  <1>2. CASE q \in Invited
    BY <1>2
  <1>3. CASE q \in Resending
    BY <1>3
  <1>4. CASE q \in Resent
    BY <1>4
  <1>5. CASE q \in Cancelling
    BY <1>5
  <1>6. CASE q \in Accepting
    BY <1>6
  <1>7. CASE q = Idle
    BY <1>7
  <1> QED
    BY <1>1, <1>2, <1>3, <1>4, <1>5, <1>6, <1>7

LEMMA InitInv == Init => IInv
  <1> SUFFICES ASSUME Init PROVE IInv
    OBVIOUS
  <1> USE InvitationConstants DEF Init
  <1>1. workers \in Nat
    OBVIOUS
  <1>2. TypeOK
    BY <1>1 DEF TypeOK
  <1>3. \A i \in Id : ~Exists(i)
    BY DEF Exists
  <1>4. \A r \in Request : req[r].op = "idle"
    BY DEF Idle
  <1>5. OneLinkWorks /\ Fresh /\ LocksExclude /\ FlushReplaces /\ AcceptsOwn
    BY <1>3, <1>4 DEF OneLinkWorks, Fresh, LocksExclude, FlushReplaces, AcceptsOwn, Holds
  <1> QED
    BY <1>2, <1>5 DEF IInv

-----------------------------------------------------------------------------
(* Steps that only record or forget a request *)

\* What an acceptance that is recorded has read.
Reads(q) == q.op \in {"accept", "register"} =>
  /\ Exists(q.id) /\ rows[q.id].role = q.role
  /\ rows[q.id].email \in VerifiedOf[q.user]

\* A request that has flushed nothing can be recorded, or take the place of any
\* other: it holds no row and no key.
LEMMA Record ==
  ASSUME IInv, NEW r \in Request, NEW q \in Pending \cup {Idle},
         q.op \notin {"invited", "resent"}, Reads(q),
         req' = [req EXCEPT ![r] = q],
         UNCHANGED <<tables, mailed, workers>>
  PROVE  IInv'
  <1>1. TablesOK /\ Requests /\ OneLinkWorks /\ Fresh /\ LocksExclude /\ FlushReplaces /\ AcceptsOwn
    BY Split DEF IInv
  <1>2. req' \in [Request -> Pending \cup {Idle}]
    BY <1>1 DEF Requests
  <1>3. \A s \in Request : req'[s] = IF s = r THEN q ELSE req[s]
    BY <1>1 DEF Requests
  <1>4. TypeOK'
    BY <1>1, <1>2 DEF TypeOK, TablesOK, tables
  <1>5. OneLinkWorks'
    BY <1>1 DEF OneLinkWorks, PendingFor, Exists, tables
  <1>6. Fresh'
    BY <1>1, <1>3 DEF Fresh, Exists, tables
  <1>7. LocksExclude'
    <2> SUFFICES /\ \A s, t \in Request : s # t => \A i \in Id : ~(Holds(s, i)' /\ Holds(t, i)')
                 /\ \A s, t \in Request : s # t /\ req'[s].op = "invited" /\ req'[t].op = "invited"
                                            => req'[s].email # req'[t].email
                 /\ \A s \in Request : req'[s].op = "resent" => Exists(req[s].id)
      BY <1>3 DEF LocksExclude, Exists, tables
    <2>1. \A s \in Request, i \in Id : Holds(s, i)' => s # r /\ Holds(s, i)
      BY <1>3 DEF Holds
    <2> QED
      BY <1>1, <1>3, <2>1 DEF LocksExclude
  <1>8. FlushReplaces'
    <2>1. \A s \in Request : req'[s].op \in {"invited", "resent"} => s # r /\ req'[s] = req[s]
      BY <1>3
    <2> QED
      BY <1>1, <2>1 DEF FlushReplaces, PendingFor, Exists, tables
  <1>9. AcceptsOwn'
    <2> SUFFICES ASSUME NEW s \in Request, req'[s].op \in {"accept", "register"}
                 PROVE  /\ req'[s].id <= made
                        /\ Exists(req'[s].id) =>
                             /\ rows[req'[s].id].role = req'[s].role
                             /\ rows[req'[s].id].email \in VerifiedOf[req'[s].user]
      BY DEF AcceptsOwn, Exists, tables
    <2>1. CASE s = r
      <3>1. req'[s] = q
        BY <1>3, <2>1
      <3>2. q.id \in Id
        BY <3>1, Fields
      <3> QED
        BY <1>1, <3>1, <3>2 DEF Reads, Fresh
    <2>2. CASE s # r
      BY <1>1, <1>3, <2>2 DEF AcceptsOwn
    <2> QED
      BY <2>1, <2>2
  <1> QED
    BY <1>4, <1>5, <1>6, <1>7, <1>8, <1>9 DEF IInv

LEMMA RefusedInv == ASSUME IInv, NEW r \in Request, Refused(r) PROVE IInv'
  <1>1. Idle \in Pending \cup {Idle} /\ Idle.op \notin {"invited", "resent"} /\ Reads(Idle)
    BY DEF Idle, Reads
  <1> QED
    BY <1>1, Record DEF Refused, Done

LEMMA StartInv ==
  ASSUME IInv, NEW r \in Request, NEW q \in Pending, q.op \notin {"invited", "resent"},
         Reads(q), Start(r, q)
  PROVE  IInv'
  BY Record DEF Start

LEMMA ArriveInv == ASSUME IInv, NEW r \in Request, Arrive(r) PROVE IInv'
  <1>1. TablesOK
    BY Split DEF IInv
  <1>2. ASSUME NEW e \in Email, NEW x \in Role, StartInvite(r, e, x) PROVE IInv'
    <2> DEFINE q == [op |-> "invite", email |-> e, role |-> x, pending |-> PendingFor(e)]
    <2>1. q \in Pending /\ q.op \notin {"invited", "resent"} /\ Reads(q)
      BY DEF Pending, Inviting, PendingFor, Reads
    <2> QED
      BY <1>2, <2>1, StartInv DEF StartInvite
  <1>3. ASSUME NEW i \in Id, StartResend(r, i) PROVE IInv'
    <2> DEFINE q == [op |-> "resend", id |-> i]
    <2>1. q \in Pending /\ q.op \notin {"invited", "resent"} /\ Reads(q)
      BY DEF Pending, Resending, Reads
    <2> QED
      BY <1>3, <2>1, StartInv DEF StartResend
  <1>4. ASSUME NEW i \in Id, StartCancel(r, i) PROVE IInv'
    <2> DEFINE q == [op |-> "cancel", id |-> i]
    <2>1. q \in Pending /\ q.op \notin {"invited", "resent"} /\ Reads(q)
      BY DEF Pending, Cancelling, Reads
    <2> QED
      BY <1>4, <2>1, StartInv DEF StartCancel
  <1>5. ASSUME NEW u \in User, NEW i \in Id,
               StartAccept(r, u, i) \/ StartLogin(r, u, i) \/ StartRegister(r, u, i)
        PROVE  IInv'
    <2>1. /\ Exists(i) /\ rows[i].email \in VerifiedOf[u]
          /\ \E op \in {"accept", "register"} :
                Start(r, [op |-> op, user |-> u, id |-> i, role |-> rows[i].role])
      BY <1>5, InvitationConstants DEF StartAccept, StartLogin, StartRegister, Active
    <2>2. PICK op \in {"accept", "register"} :
            Start(r, [op |-> op, user |-> u, id |-> i, role |-> rows[i].role])
      BY <2>1
    <2> DEFINE q == [op |-> op, user |-> u, id |-> i, role |-> rows[i].role]
    <2>3. q \in Pending /\ q.op \notin {"invited", "resent"} /\ Reads(q)
      BY <1>1, <2>1, RowFields DEF Pending, Accepting, Reads
    <2> QED
      BY <2>2, <2>3, StartInv
  <1> QED
    BY <1>2, <1>3, <1>4, <1>5 DEF Arrive

-----------------------------------------------------------------------------
(* Flushing and mailing *)

\* A transaction that flushes rows and a key nobody holds, and carries the next
\* token, is one more flushed transaction.
LEMMA Flush ==
  ASSUME IInv, NEW r \in Request, NEW q \in Pending, NEW e \in Email,
         q.op \in {"invited", "resent"}, q.token = mailed + 1,
         req[r].op \in {"invite", "resend"},
         q.op = "invited" => /\ q.email = e /\ ~KeyLocked(e)
                             /\ \A i \in q.pending : ~Locked(i)
                             /\ PendingFor(e) \subseteq q.pending,
         q.op = "resent" => Exists(q.id) /\ ~Locked(q.id),
         Mail(r, e, q)
  PROVE  IInv'
  <1>1. TablesOK /\ Requests /\ OneLinkWorks /\ Fresh /\ LocksExclude /\ FlushReplaces /\ AcceptsOwn
    BY Split DEF IInv
  <1>2. /\ mailed \in Nat /\ mailed < MaxTokens /\ mailed' = mailed + 1
        /\ UNCHANGED <<users, roles, links, rows, made, workers>>
        /\ req' = [req EXCEPT ![r] = q]
    BY <1>1, Numbers DEF Mail, tables
  <1>3. \A s \in Request : req'[s] = IF s = r THEN q ELSE req[s]
    BY <1>1, <1>2 DEF Requests
  <1>4. TypeOK'
    <2>1. mailed + 1 \in 0..MaxTokens
      BY <1>2, InvitationConstants
    <2>2. mailed' \in 0..MaxTokens
      BY <1>2, <2>1
    <2>3. req' \in [Request -> Pending \cup {Idle}]
      BY <1>1, <1>2 DEF Requests
    <2> QED
      BY <1>1, <1>2, <2>2, <2>3 DEF TypeOK, TablesOK
  <1>5. OneLinkWorks'
    BY <1>1, <1>2 DEF OneLinkWorks, PendingFor, Exists
  <1>6. Fresh'
    <2>1. \A i \in Id : Exists(i)' => i <= made' /\ rows'[i].token <= mailed'
      <3> SUFFICES ASSUME NEW i \in Id, Exists(i) PROVE i <= made /\ rows[i].token <= mailed + 1
        BY <1>2 DEF Exists
      <3>1. i <= made /\ rows[i].token <= mailed /\ rows[i].token \in Nat
        BY <1>1, RowFields DEF Fresh
      <3> QED
        BY <1>2, <3>1
    <2>2. ASSUME NEW s \in Request, req'[s].op \in {"invited", "resent"}
          PROVE  req'[s].token <= mailed'
      <3>1. CASE s = r
        BY <1>2, <1>3, <3>1
      <3>2. CASE s # r
        <4>1. req'[s] = req[s] /\ req[s].token <= mailed
          BY <1>1, <1>3, <2>2, <3>2 DEF Fresh
        <4>2. req[s].token \in Token
          BY <1>1, <1>3, <2>2, <3>2, Fields DEF Requests
        <4>3. req[s].token \in Nat
          BY <4>2, Numbers
        <4> QED
          BY <1>2, <4>1, <4>3
      <3> QED
        BY <3>1, <3>2
    <2> QED
      BY <2>1, <2>2 DEF Fresh
  <1>7. LocksExclude'
    <2>1. \A i \in Id : Holds(r, i)' => ~Locked(i)
      BY <1>3 DEF Holds
    <2>2. \A s \in Request, i \in Id : s # r => (Holds(s, i)' <=> Holds(s, i))
      BY <1>3 DEF Holds
    <2>3. \A s, t \in Request : s # t => \A i \in Id : ~(Holds(s, i)' /\ Holds(t, i)')
      BY <1>1, <2>1, <2>2 DEF LocksExclude, Locked
    <2>4. \A s, t \in Request : s # t /\ req'[s].op = "invited" /\ req'[t].op = "invited"
                                 => req'[s].email # req'[t].email
      BY <1>1, <1>3 DEF LocksExclude, KeyLocked
    <2>5. \A s \in Request : req'[s].op = "resent" => Exists(req'[s].id)
      BY <1>1, <1>3 DEF LocksExclude
    <2> QED
      BY <1>2, <2>3, <2>4, <2>5 DEF LocksExclude, Exists
  <1>8. FlushReplaces'
    <2>1. ASSUME NEW i \in Id PROVE rows[i].token < mailed + 1
      <3>1. rows[i].token \in Nat
        BY <1>1, RowFields
      <3>2. rows[i].token <= mailed
        BY <1>1, <1>2, RowFields DEF Fresh, Exists
      <3> QED
        BY <1>2, <3>1, <3>2
    <2>2. ASSUME NEW s \in Request, req'[s].op = "invited", NEW i \in PendingFor(req'[s].email)
          PROVE  i \in req'[s].pending /\ rows[i].token < req'[s].token
      <3>1. CASE s = r
        BY <1>3, <2>1, <2>2, <3>1 DEF PendingFor
      <3>2. CASE s # r
        BY <1>1, <1>3, <2>2, <3>2 DEF FlushReplaces
      <3> QED
        BY <3>1, <3>2
    <2>3. ASSUME NEW s \in Request, req'[s].op = "resent"
          PROVE  rows[req'[s].id].token < req'[s].token
      <3>1. CASE s = r
        <4>1. req'[s] = q /\ q.id \in Id
          BY <1>3, <2>3, <3>1, Fields
        <4> QED
          BY <2>1, <4>1
      <3>2. CASE s # r
        BY <1>1, <1>3, <2>3, <3>2 DEF FlushReplaces
      <3> QED
        BY <3>1, <3>2
    <2> QED
      BY <1>2, <2>2, <2>3 DEF FlushReplaces, PendingFor, Exists
  <1>9. AcceptsOwn'
    BY <1>1, <1>2, <1>3 DEF AcceptsOwn, Exists
  <1> QED
    BY <1>4, <1>5, <1>6, <1>7, <1>8, <1>9 DEF IInv

LEMMA FlushInviteInv == ASSUME IInv, NEW r \in Request, FlushInvite(r) PROVE IInv'
  <1> DEFINE q == req[r]
             n == [op |-> "invited", email |-> q.email, role |-> q.role,
                   pending |-> q.pending, token |-> mailed + 1]
  <1>1. CASE Refused(r)
    BY <1>1, RefusedInv
  <1>2. CASE Mail(r, q.email, n)
    <2>1. TablesOK /\ q \in Pending \cup {Idle} /\ q.op = "invite"
      BY Split DEF IInv, Requests, FlushInvite
    <2>2. q.email \in Email /\ q.role \in Role /\ q.pending \in SUBSET Id
      BY <2>1, Fields
    <2>3. mailed + 1 \in Token
      BY <1>2, <2>1, Numbers, InvitationConstants DEF Mail, Token
    <2>4. n \in Pending
      BY <2>2, <2>3 DEF Pending, Invited
    <2>5. ~KeyLocked(q.email) /\ \A i \in q.pending : ~Locked(i)
      BY DEF FlushInvite
    <2>6. PendingFor(q.email) \subseteq q.pending
      <3>1. CASE q.role \in roles /\ PendingFor(q.email) \subseteq q.pending
        BY <3>1
      <3>2. CASE ~(q.role \in roles /\ PendingFor(q.email) \subseteq q.pending)
        <4>1. Refused(r)
          BY <3>2 DEF FlushInvite
        <4>2. mailed' = mailed /\ mailed' = mailed + 1 /\ mailed \in Nat
          BY <1>2, <2>1, <4>1, Numbers DEF Refused, Mail
        <4> QED
          BY <4>2
      <3> QED
        BY <3>1, <3>2
    <2> QED
      BY <1>2, <2>1, <2>2, <2>4, <2>5, <2>6, Flush
  <1> QED
    BY <1>1, <1>2 DEF FlushInvite

LEMMA FlushResendInv == ASSUME IInv, NEW r \in Request, FlushResend(r) PROVE IInv'
  <1> DEFINE i == req[r].id
             n == [op |-> "resent", id |-> i, token |-> mailed + 1]
  <1>1. TablesOK /\ req[r] \in Pending \cup {Idle} /\ req[r].op = "resend" /\ ~Locked(i)
    BY Split DEF IInv, Requests, FlushResend
  <1>2. i \in Id
    BY <1>1, Fields
  <1>3. CASE ~Exists(i)
    BY <1>3, RefusedInv DEF FlushResend
  <1>4. CASE Exists(i)
    <2>1. Mail(r, rows[i].email, n) /\ rows[i].email \in Email
      BY <1>1, <1>2, <1>4, RowFields DEF FlushResend
    <2>2. mailed + 1 \in Token
      BY <1>1, <2>1, Numbers, InvitationConstants DEF Mail, Token
    <2>3. n \in Pending
      BY <1>2, <2>2 DEF Pending, Resent
    <2> QED
      BY <1>1, <1>4, <2>1, <2>3, Flush
  <1> QED
    BY <1>3, <1>4

-----------------------------------------------------------------------------
(* Steps that delete rows or mark them used or expired *)

\* Row i is gone, or says what it said and is not unused again.
Kept(i) == rows'[i] # NoRow =>
  /\ Exists(i)
  /\ rows'[i].email = rows[i].email /\ rows'[i].role = rows[i].role
  /\ rows'[i].token = rows[i].token
  /\ rows[i].used => rows'[i].used

\* What is pending for an address once the step is taken.
Left(e) == {i \in Id : rows'[i] # NoRow /\ rows'[i].email = e /\ ~rows'[i].used}

LEMMA Shrink ==
  ASSUME IInv, TablesOK', Requests', made' = made, mailed' = mailed,
         \A i \in Id : Kept(i),
         \A s \in Request : req'[s] = req[s] \/ req'[s] = Idle,
         \A s \in Request : req'[s].op = "resent" => rows'[req[s].id] # NoRow
  PROVE  IInv'
  <1>1. TablesOK /\ Requests /\ OneLinkWorks /\ Fresh /\ LocksExclude /\ FlushReplaces /\ AcceptsOwn
    BY Split DEF IInv
  <1>2. TypeOK'
    BY DEF TypeOK, TablesOK, Requests
  <1>3. \A e \in Email : Left(e) \subseteq PendingFor(e)
    BY DEF Left, PendingFor, Exists, Kept
  <1>4. \A s \in Request : req'[s].op # "idle" => req'[s] = req[s]
    BY DEF Idle
  <1>5. OneLinkWorks'
    <2> SUFFICES ASSUME NEW i \in Id, NEW j \in Id, rows'[i] # NoRow,
                        i \in Left(rows[i].email), j \in Left(rows[i].email)
                 PROVE  i = j
      BY DEF OneLinkWorks, Exists, PendingFor, Left, Kept
    <2>1. Exists(i) /\ rows[i].email \in Email
      BY <1>1, RowFields DEF Kept
    <2>2. i \in PendingFor(rows[i].email) /\ j \in PendingFor(rows[i].email)
      BY <1>3, <2>1
    <2> QED
      BY <1>1, <2>1, <2>2 DEF OneLinkWorks
  <1>6. Fresh'
    BY <1>1, <1>4 DEF Fresh, Exists, Kept
  <1>7. LocksExclude'
    <2>1. \A s \in Request, i \in Id : Holds(s, i)' => Holds(s, i)
      BY <1>4 DEF Holds
    <2> QED
      BY <1>1, <1>4, <2>1 DEF LocksExclude, Exists
  <1>8. FlushReplaces'
    <2>1. ASSUME NEW s \in Request, req'[s].op = "invited", NEW i \in Left(req[s].email)
          PROVE  i \in req[s].pending /\ rows'[i].token < req[s].token
      <3>1. req[s].op = "invited" /\ req[s].email \in Email
        BY <1>1, <1>4, <2>1, Fields DEF Requests
      <3>2. i \in PendingFor(req[s].email) /\ rows'[i].token = rows[i].token
        BY <1>3, <2>1, <3>1 DEF Left, Kept
      <3> QED
        BY <1>1, <3>1, <3>2 DEF FlushReplaces
    <2>2. ASSUME NEW s \in Request, req'[s].op = "resent"
          PROVE  rows'[req[s].id].token < req[s].token
      <3>1. req[s].op = "resent" /\ req[s].id \in Id
        BY <1>1, <1>4, <2>2, Fields DEF Requests
      <3>2. rows'[req[s].id].token = rows[req[s].id].token
        BY <2>2, <3>1 DEF Kept
      <3> QED
        BY <1>1, <3>1, <3>2 DEF FlushReplaces
    <2>3. \A s \in Request : req'[s].op \in {"invited", "resent"} => req'[s] = req[s]
      BY <1>4
    <2>4. \A s \in Request : req'[s].op = "invited" =>
             \A i \in Left(req'[s].email) : i \in req'[s].pending /\ rows'[i].token < req'[s].token
      BY <2>1, <2>3
    <2> QED
      BY <2>2, <2>3, <2>4 DEF FlushReplaces, PendingFor, Left, Exists
  <1>9. AcceptsOwn'
    <2> SUFFICES ASSUME NEW s \in Request, req'[s].op \in {"accept", "register"}
                 PROVE  /\ req'[s].id <= made'
                        /\ rows'[req'[s].id] # NoRow =>
                             /\ rows'[req'[s].id].role = req'[s].role
                             /\ rows'[req'[s].id].email \in VerifiedOf[req'[s].user]
      BY DEF AcceptsOwn, Exists
    <2>1. req'[s] = req[s] /\ req[s].id \in Id
      BY <1>1, <1>4, Fields DEF Requests
    <2> QED
      BY <1>1, <2>1 DEF AcceptsOwn, Kept
  <1> QED
    BY <1>2, <1>5, <1>6, <1>7, <1>8, <1>9 DEF IInv

\* The request at r is answered; the others go on.
LEMMA Ends ==
  ASSUME Requests, NEW r \in Request, Done(r)
  PROVE  /\ Requests'
         /\ \A s \in Request : req'[s] = IF s = r THEN Idle ELSE req[s]
         /\ \A s \in Request : req'[s].op # "idle" => s # r /\ req'[s] = req[s]
  BY DEF Done, Requests, Idle

LEMMA CommitCancelInv == ASSUME IInv, NEW r \in Request, CommitCancel(r) PROVE IInv'
  <1> DEFINE i == req[r].id
  <1>1. TablesOK /\ Requests /\ LocksExclude
    BY Split DEF IInv
  <1>2. /\ req[r].op = "cancel" /\ ~Locked(i) /\ rows' = [rows EXCEPT ![i] = NoRow] /\ Done(r)
        /\ UNCHANGED <<users, roles, links, made, mailed, workers>>
    BY DEF CommitCancel
  <1>3. Requests' /\ \A s \in Request : req'[s] = IF s = r THEN Idle ELSE req[s]
    BY <1>1, <1>2, Ends
  <1>4. \A j \in Id : rows'[j] = IF j = i THEN NoRow ELSE rows[j]
    BY <1>1, <1>2 DEF TablesOK
  <1>5. TablesOK'
    BY <1>1, <1>2 DEF TablesOK
  <1>6. \A j \in Id : Kept(j)
    BY <1>4 DEF Kept, Exists
  <1>7. ASSUME NEW s \in Request, req'[s].op = "resent" PROVE rows'[req[s].id] # NoRow
    <2>1. req[s].op = "resent" /\ req[s].id \in Id /\ Exists(req[s].id)
      BY <1>1, <1>3, <1>7, Fields DEF Requests, LocksExclude, Idle
    <2>2. req[s].id # i
      BY <1>2, <2>1 DEF Locked, Holds
    <2> QED
      BY <1>4, <2>1, <2>2 DEF Exists
  <1>8. made' = made /\ mailed' = mailed /\ \A s \in Request : req'[s] = req[s] \/ req'[s] = Idle
    BY <1>2, <1>3
  <1> QED
    BY <1>3, <1>5, <1>6, <1>7, <1>8, Shrink

LEMMA CommitAcceptInv == ASSUME IInv, NEW r \in Request, CommitAccept(r) PROVE IInv'
  <1> DEFINE q == req[r]
             old == rows[q.id]
             new == [email |-> old.email, role |-> old.role, token |-> old.token,
                     used |-> TRUE, expired |-> old.expired]
  <1>1. CASE Refused(r)
    BY <1>1, RefusedInv
  <1>2. CASE /\ Exists(q.id) /\ q.role \in roles
             /\ users' = users \cup {q.user} /\ links' = links \cup {<<q.user, q.role>>}
             /\ rows' = [rows EXCEPT ![q.id] = new] /\ Done(r)
             /\ UNCHANGED <<roles, made, mailed, workers>>
    <2>1. TablesOK /\ Requests /\ LocksExclude
      BY Split DEF IInv
    <2>2. q \in Pending \cup {Idle} /\ q.op \in {"accept", "register"}
      BY <2>1 DEF Requests, CommitAccept
    <2>3. q.user \in User /\ q.id \in Id /\ q.role \in Role
      BY <2>2, Fields
    <2>4. Requests' /\ \A s \in Request : req'[s] = IF s = r THEN Idle ELSE req[s]
      BY <1>2, <2>1, Ends
    <2>5. \A j \in Id : rows'[j] = IF j = q.id THEN new ELSE rows[j]
      BY <1>2, <2>1 DEF TablesOK
    <2>6. old \in Invitation
      BY <1>2, <2>1, <2>3, RowFields
    <2>7. new \in Invitation /\ new # NoRow
      BY <2>6, InvitationConstants DEF Invitation, NoRow
    <2>8. TablesOK'
      <3>1. rows' \in [Id -> Invitation \cup {NoRow}]
        BY <1>2, <2>1, <2>3, <2>7 DEF TablesOK
      <3>2. users' \subseteq User /\ links' \subseteq User \X Role
        BY <1>2, <2>1, <2>3 DEF TablesOK
      <3> QED
        BY <1>2, <2>1, <3>1, <3>2 DEF TablesOK
    <2>9. \A j \in Id : Kept(j)
      BY <1>2, <2>5 DEF Kept, Exists
    <2>10. ASSUME NEW s \in Request, req'[s].op = "resent" PROVE rows'[req[s].id] # NoRow
      <3>1. req[s].op = "resent" /\ req[s].id \in Id /\ Exists(req[s].id)
        BY <2>1, <2>4, <2>10, Fields DEF Requests, LocksExclude, Idle
      <3> QED
        BY <2>5, <2>7, <3>1 DEF Exists
    <2>11. made' = made /\ mailed' = mailed /\ \A s \in Request : req'[s] = req[s] \/ req'[s] = Idle
      BY <1>2, <2>4
    <2> QED
      BY <2>4, <2>8, <2>9, <2>10, <2>11, Shrink
  <1> QED
    BY <1>1, <1>2 DEF CommitAccept

-----------------------------------------------------------------------------
(* The commits that bring a token *)

LEMMA CommitInviteInv == ASSUME IInv, NEW r \in Request, CommitInvite(r) PROVE IInv'
  <1> DEFINE q == req[r]
             k == made + 1
             new == [email |-> q.email, role |-> q.role, token |-> q.token,
                     used |-> FALSE, expired |-> FALSE]
  <1>1. TablesOK /\ Requests /\ OneLinkWorks /\ Fresh /\ LocksExclude /\ FlushReplaces /\ AcceptsOwn
    BY Split DEF IInv
  <1>2. /\ q.op = "invited" /\ made < MaxInvitations /\ made' = made + 1 /\ Done(r)
        /\ rows' = [i \in Id |-> IF i = k THEN new ELSE IF i \in q.pending THEN NoRow ELSE rows[i]]
        /\ UNCHANGED <<users, roles, links, mailed, workers>>
    BY DEF CommitInvite
  <1>3. q.email \in Email /\ q.role \in Role /\ q.pending \in SUBSET Id /\ q.token \in Token
    BY <1>1, <1>2, Fields DEF Requests
  <1>4. made \in Nat /\ k \in Id /\ k \in Nat /\ made' \in 0..MaxInvitations /\ made <= made'
    BY <1>1, <1>2, Numbers, InvitationConstants DEF Id
  <1>5. /\ Requests'
        /\ \A s \in Request : req'[s] = IF s = r THEN Idle ELSE req[s]
        /\ \A s \in Request : req'[s].op # "idle" => s # r /\ req'[s] = req[s]
    BY <1>1, <1>2, Ends
  <1>6. \A i \in Id : rows'[i] = IF i = k THEN new ELSE IF i \in q.pending THEN NoRow ELSE rows[i]
    BY <1>2
  <1>7. new \in Invitation /\ new # NoRow
    BY <1>3, InvitationConstants DEF Invitation, NoRow
  <1>8. \A i \in Id : i <= made => i # k
    BY <1>4, Numbers
  <1>9. TypeOK'
    <2>1. rows' \in [Id -> Invitation \cup {NoRow}]
      BY <1>1, <1>2, <1>7 DEF TablesOK
    <2> QED
      BY <1>1, <1>2, <1>4, <1>5, <2>1 DEF TypeOK, TablesOK, Requests
  <1>10. \A e \in Email : Left(e) \subseteq IF e = q.email THEN {k} ELSE PendingFor(e)
    <2> SUFFICES ASSUME NEW e \in Email, NEW i \in Left(e)
                 PROVE  i \in IF e = q.email THEN {k} ELSE PendingFor(e)
      OBVIOUS
    <2>1. i \in Id /\ rows'[i] # NoRow /\ rows'[i].email = e /\ ~rows'[i].used
      BY DEF Left
    <2>2. CASE i = k
      <3>1. rows'[i].email = q.email
        BY <1>6, <2>1, <2>2
      <3> QED
        BY <2>1, <2>2, <3>1
    <2>3. CASE i # k
      <3>1. i \notin q.pending /\ i \in PendingFor(e)
        BY <1>6, <2>1, <2>3 DEF PendingFor, Exists
      <3>2. e # q.email
        BY <1>1, <1>2, <3>1 DEF FlushReplaces
      <3> QED
        BY <3>1, <3>2
    <2> QED
      BY <2>2, <2>3
  <1>11. OneLinkWorks'
    <2> SUFFICES ASSUME NEW i \in Id, NEW j \in Id, rows'[i] # NoRow,
                        i \in Left(rows'[i].email), j \in Left(rows'[i].email)
                 PROVE  i = j
      BY DEF OneLinkWorks, Exists, PendingFor, Left
    <2> DEFINE e == rows'[i].email
    <2>1. e \in Email
      BY <1>9 DEF TypeOK, Invitation
    <2>2. CASE e = q.email
      BY <1>10, <2>1, <2>2
    <2>3. CASE e # q.email
      <3>1. i \in PendingFor(e) /\ j \in PendingFor(e)
        BY <1>10, <2>1, <2>3
      <3>2. Exists(i) /\ rows[i].email = e
        BY <3>1 DEF PendingFor
      <3> QED
        BY <1>1, <3>1, <3>2 DEF OneLinkWorks
    <2> QED
      BY <2>2, <2>3
  <1>12. Fresh'
    <2>1. ASSUME NEW i \in Id, rows'[i] # NoRow PROVE i <= made' /\ rows'[i].token <= mailed
      <3>1. CASE i = k
        BY <1>1, <1>2, <1>4, <1>6, <3>1 DEF Fresh
      <3>2. CASE i # k
        <4>1. rows'[i] = rows[i] /\ Exists(i)
          BY <1>6, <2>1, <3>2 DEF Exists
        <4>2. i <= made /\ rows[i].token <= mailed /\ i \in Nat
          BY <1>1, <4>1, Numbers DEF Fresh
        <4> QED
          BY <1>2, <1>4, <4>1, <4>2
      <3> QED
        BY <3>1, <3>2
    <2>2. \A s \in Request : req'[s].op \in {"invited", "resent"} => req'[s].token <= mailed
      BY <1>1, <1>5 DEF Fresh
    <2> QED
      BY <1>2, <2>1, <2>2 DEF Fresh, Exists
  <1>13. LocksExclude'
    <2>1. \A s \in Request, i \in Id : Holds(s, i)' => s # r /\ Holds(s, i)
      BY <1>5 DEF Holds
    <2>2. ASSUME NEW s \in Request, req'[s].op = "resent" PROVE rows'[req'[s].id] # NoRow
      <3>1. s # r /\ req'[s] = req[s] /\ req[s].op = "resent"
        BY <1>5, <2>2
      <3>2. req[s].id \in Id /\ Exists(req[s].id)
        BY <1>1, <3>1, Fields DEF Requests, LocksExclude
      <3>3. req[s].id \notin q.pending
        BY <1>1, <1>2, <3>1, <3>2 DEF LocksExclude, Holds
      <3> QED
        BY <1>6, <1>7, <3>1, <3>2, <3>3 DEF Exists
    <2> QED
      BY <1>1, <1>5, <2>1, <2>2 DEF LocksExclude, Exists
  <1>14. FlushReplaces'
    <2>1. ASSUME NEW s \in Request, req'[s].op = "invited", NEW i \in Left(req'[s].email)
          PROVE  i \in req'[s].pending /\ rows'[i].token < req'[s].token
      <3>1. s # r /\ req'[s] = req[s] /\ req[s].op = "invited" /\ req[s].email \in Email
        BY <1>1, <1>5, <2>1, Fields DEF Requests
      <3>2. req[s].email # q.email
        BY <1>1, <1>2, <3>1 DEF LocksExclude
      <3>3. i \in PendingFor(req[s].email) /\ i \in Id /\ Exists(i)
        BY <1>10, <2>1, <3>1, <3>2 DEF PendingFor
      <3>4. rows'[i] = rows[i]
        <4>1. i # k
          BY <1>1, <1>8, <3>3 DEF Fresh
        <4> QED
          BY <1>6, <2>1, <3>3, <4>1 DEF Left
      <3> QED
        BY <1>1, <3>1, <3>3, <3>4 DEF FlushReplaces
    <2>2. ASSUME NEW s \in Request, req'[s].op = "resent"
          PROVE  rows'[req'[s].id].token < req'[s].token
      <3>1. s # r /\ req'[s] = req[s] /\ req[s].op = "resent" /\ req[s].id \in Id
        BY <1>1, <1>5, <2>2, Fields DEF Requests
      <3>2. Exists(req[s].id) /\ req[s].id \notin q.pending
        BY <1>1, <1>2, <3>1 DEF LocksExclude, Holds
      <3>3. req[s].id # k
        BY <1>1, <1>8, <3>1, <3>2 DEF Fresh
      <3> QED
        BY <1>1, <1>6, <3>1, <3>2, <3>3 DEF FlushReplaces
    <2> QED
      BY <2>1, <2>2 DEF FlushReplaces, PendingFor, Left, Exists
  <1>15. AcceptsOwn'
    <2> SUFFICES ASSUME NEW s \in Request, req'[s].op \in {"accept", "register"}
                 PROVE  /\ req'[s].id <= made'
                        /\ rows'[req'[s].id] # NoRow =>
                             /\ rows'[req'[s].id].role = req'[s].role
                             /\ rows'[req'[s].id].email \in VerifiedOf[req'[s].user]
      BY DEF AcceptsOwn, Exists
    <2>1. req'[s] = req[s] /\ req[s].id \in Id
      BY <1>1, <1>5, Fields DEF Requests
    <2>2. req[s].id <= made /\ req[s].id \in Nat
      BY <1>1, <2>1, Numbers DEF AcceptsOwn
    <2>3. req[s].id # k /\ req[s].id <= made'
      BY <1>2, <1>4, <1>8, <2>1, <2>2
    <2> QED
      BY <1>1, <1>6, <2>1, <2>3 DEF AcceptsOwn, Exists
  <1> QED
    BY <1>9, <1>11, <1>12, <1>13, <1>14, <1>15 DEF IInv

LEMMA CommitResendInv == ASSUME IInv, NEW r \in Request, CommitResend(r) PROVE IInv'
  <1> DEFINE q == req[r]
             old == rows[q.id]
             new == [email |-> old.email, role |-> old.role, token |-> q.token,
                     used |-> old.used, expired |-> FALSE]
  <1>1. TablesOK /\ Requests /\ OneLinkWorks /\ Fresh /\ LocksExclude /\ FlushReplaces /\ AcceptsOwn
    BY Split DEF IInv
  <1>2. /\ q.op = "resent" /\ Done(r) /\ rows' = [rows EXCEPT ![q.id] = new]
        /\ UNCHANGED <<users, roles, links, made, mailed, workers>>
    BY DEF CommitResend
  <1>3. q.id \in Id /\ q.token \in Token /\ Exists(q.id) /\ q.token <= mailed
    BY <1>1, <1>2, Fields DEF Requests, LocksExclude, Fresh
  <1>4. /\ Requests'
        /\ \A s \in Request : req'[s] = IF s = r THEN Idle ELSE req[s]
        /\ \A s \in Request : req'[s].op # "idle" => s # r /\ req'[s] = req[s]
    BY <1>1, <1>2, Ends
  <1>5. \A i \in Id : rows'[i] = IF i = q.id THEN new ELSE rows[i]
    BY <1>1, <1>2 DEF TablesOK
  <1>6. new \in Invitation /\ new # NoRow
    BY <1>1, <1>3, RowFields, InvitationConstants DEF Invitation, NoRow
  <1>7. TypeOK'
    <2>1. rows' \in [Id -> Invitation \cup {NoRow}]
      BY <1>1, <1>2, <1>6 DEF TablesOK
    <2> QED
      BY <1>1, <1>2, <1>4, <2>1 DEF TypeOK, TablesOK, Requests
  <1>8. \A e \in Email : Left(e) = PendingFor(e)
    BY <1>3, <1>5, <1>6 DEF Left, PendingFor, Exists
  <1>9. \A i \in Id : (rows'[i] # NoRow <=> Exists(i)) /\ rows'[i].email = rows[i].email
                       /\ rows'[i].role = rows[i].role
    BY <1>3, <1>5, <1>6 DEF Exists
  <1>10. OneLinkWorks'
    <2> SUFFICES ASSUME NEW i \in Id, NEW j \in Id, rows'[i] # NoRow,
                        i \in Left(rows'[i].email), j \in Left(rows'[i].email)
                 PROVE  i = j
      BY DEF OneLinkWorks, Exists, PendingFor, Left
    <2>1. Exists(i) /\ rows[i].email \in Email
      BY <1>1, <1>9, RowFields
    <2>2. i \in PendingFor(rows[i].email) /\ j \in PendingFor(rows[i].email)
      BY <1>8, <1>9, <2>1
    <2> QED
      BY <1>1, <2>1, <2>2 DEF OneLinkWorks
  <1>11. Fresh'
    <2>1. \A i \in Id : rows'[i] # NoRow => i <= made /\ rows'[i].token <= mailed
      BY <1>1, <1>3, <1>5, <1>9 DEF Fresh
    <2>2. \A s \in Request : req'[s].op \in {"invited", "resent"} => req'[s].token <= mailed
      BY <1>1, <1>4 DEF Fresh
    <2> QED
      BY <1>2, <2>1, <2>2 DEF Fresh, Exists
  <1>12. LocksExclude'
    <2>1. \A s \in Request, i \in Id : Holds(s, i)' => s # r /\ Holds(s, i)
      BY <1>4 DEF Holds
    <2>2. ASSUME NEW s \in Request, req'[s].op = "resent" PROVE rows'[req'[s].id] # NoRow
      <3>1. req'[s] = req[s] /\ req[s].id \in Id /\ Exists(req[s].id)
        BY <1>1, <1>4, <2>2, Fields DEF Requests, LocksExclude
      <3> QED
        BY <1>9, <3>1
    <2> QED
      BY <1>1, <1>4, <2>1, <2>2 DEF LocksExclude, Exists
  <1>13. FlushReplaces'
    <2>1. ASSUME NEW s \in Request, req'[s].op = "invited", NEW i \in Left(req'[s].email)
          PROVE  i \in req'[s].pending /\ rows'[i].token < req'[s].token
      <3>1. s # r /\ req'[s] = req[s] /\ req[s].op = "invited" /\ req[s].email \in Email
        BY <1>1, <1>4, <2>1, Fields DEF Requests
      <3>2. i \in PendingFor(req[s].email) /\ i \in Id
        BY <1>8, <2>1, <3>1 DEF PendingFor
      <3>3. i \in req[s].pending /\ rows[i].token < req[s].token
        BY <1>1, <3>1, <3>2 DEF FlushReplaces
      <3>4. i # q.id
        BY <1>1, <1>2, <3>1, <3>2, <3>3 DEF LocksExclude, Holds
      <3> QED
        BY <1>5, <3>1, <3>2, <3>3, <3>4
    <2>2. ASSUME NEW s \in Request, req'[s].op = "resent"
          PROVE  rows'[req'[s].id].token < req'[s].token
      <3>1. s # r /\ req'[s] = req[s] /\ req[s].op = "resent" /\ req[s].id \in Id
        BY <1>1, <1>4, <2>2, Fields DEF Requests
      <3>2. req[s].id # q.id
        BY <1>1, <1>2, <1>3, <3>1 DEF LocksExclude, Holds
      <3> QED
        BY <1>1, <1>5, <3>1, <3>2 DEF FlushReplaces
    <2> QED
      BY <2>1, <2>2 DEF FlushReplaces, PendingFor, Left, Exists
  <1>14. AcceptsOwn'
    <2> SUFFICES ASSUME NEW s \in Request, req'[s].op \in {"accept", "register"}
                 PROVE  /\ req'[s].id <= made'
                        /\ rows'[req'[s].id] # NoRow =>
                             /\ rows'[req'[s].id].role = req'[s].role
                             /\ rows'[req'[s].id].email \in VerifiedOf[req'[s].user]
      BY DEF AcceptsOwn, Exists
    <2>1. req'[s] = req[s] /\ req[s].id \in Id
      BY <1>1, <1>4, Fields DEF Requests
    <2> QED
      BY <1>1, <1>2, <1>9, <2>1 DEF AcceptsOwn
  <1> QED
    BY <1>7, <1>10, <1>11, <1>12, <1>13, <1>14 DEF IInv

LEMMA ServeInv == ASSUME IInv, NEW r \in Request, Serve(r) PROVE IInv'
  BY FlushInviteInv, CommitInviteInv, FlushResendInv, CommitResendInv, CommitCancelInv,
     CommitAcceptInv, RefusedInv DEF Serve, MailFails

-----------------------------------------------------------------------------
(* What happens around invitations *)

LEMMA RegisterInv == ASSUME IInv, NEW u \in User, Register(u) \/ RemoveMember(u) PROVE IInv'
  <1>1. TablesOK /\ Requests /\ LocksExclude
    BY Split DEF IInv
  <1>2. /\ users' \subseteq User /\ links' \subseteq links
        /\ UNCHANGED <<roles, rows, made, mailed, req, workers>>
    BY <1>1 DEF Register, RemoveMember, TablesOK
  <1>3. TablesOK' /\ Requests' /\ \A j \in Id : Kept(j)
    BY <1>1, <1>2 DEF TablesOK, Requests, Kept, Exists
  <1>4. \A s \in Request : req'[s].op = "resent" => rows'[req[s].id] # NoRow
    BY <1>1, <1>2 DEF LocksExclude, Exists
  <1> QED
    BY <1>2, <1>3, <1>4, Shrink

LEMMA DropRoleInv == ASSUME IInv, NEW x \in Role, DropRole(x) PROVE IInv'
  <1>1. TablesOK /\ Requests /\ LocksExclude
    BY Split DEF IInv
  <1>2. /\ \A i \in Id : rows[i].role = x => ~Locked(i)
        /\ roles' = roles \ {x}
        /\ rows' = [i \in Id |-> IF rows[i].role = x THEN NoRow ELSE rows[i]]
        /\ UNCHANGED <<users, links, made, mailed, req, workers>>
    BY DEF DropRole
  <1>3. TablesOK' /\ Requests' /\ \A j \in Id : Kept(j)
    BY <1>1, <1>2 DEF TablesOK, Requests, Kept, Exists
  <1>4. ASSUME NEW s \in Request, req'[s].op = "resent" PROVE rows'[req[s].id] # NoRow
    <2>1. req[s].op = "resent" /\ req[s].id \in Id /\ Exists(req[s].id)
      BY <1>1, <1>2, <1>4, Fields DEF Requests, LocksExclude
    <2>2. rows[req[s].id].role # x
      BY <1>2, <2>1 DEF Locked, Holds
    <2> QED
      BY <1>2, <2>1, <2>2 DEF Exists
  <1> QED
    BY <1>2, <1>3, <1>4, Shrink

LEMMA ExpireInv == ASSUME IInv, NEW i \in Id, Expire(i) PROVE IInv'
  <1> DEFINE old == rows[i]
             new == [email |-> old.email, role |-> old.role, token |-> old.token,
                     used |-> old.used, expired |-> TRUE]
  <1>1. TablesOK /\ Requests /\ LocksExclude
    BY Split DEF IInv
  <1>2. /\ Exists(i) /\ rows' = [rows EXCEPT ![i] = new]
        /\ UNCHANGED <<users, roles, links, made, mailed, req, workers>>
    BY DEF Expire, Active
  <1>3. \A j \in Id : rows'[j] = IF j = i THEN new ELSE rows[j]
    BY <1>1, <1>2 DEF TablesOK
  <1>4. new \in Invitation /\ new # NoRow
    BY <1>1, <1>2, RowFields, InvitationConstants DEF Invitation, NoRow
  <1>5. TablesOK' /\ Requests'
    BY <1>1, <1>2, <1>4 DEF TablesOK, Requests
  <1>6. \A j \in Id : Kept(j)
    BY <1>2, <1>3 DEF Kept, Exists
  <1>7. ASSUME NEW s \in Request, req'[s].op = "resent" PROVE rows'[req[s].id] # NoRow
    <2>1. req[s].id \in Id /\ Exists(req[s].id)
      BY <1>1, <1>2, <1>7, Fields DEF Requests, LocksExclude
    <2> QED
      BY <1>3, <1>4, <2>1 DEF Exists
  <1> QED
    BY <1>2, <1>5, <1>6, <1>7, Shrink

LEMMA StutterInv == ASSUME IInv, UNCHANGED vars PROVE IInv'
  BY DEF IInv, TypeOK, OneLinkWorks, Fresh, LocksExclude, FlushReplaces, AcceptsOwn,
         Exists, PendingFor, Holds, vars, tables

LEMMA NextInv == IInv /\ [Next]_vars => IInv'
  <1> SUFFICES ASSUME IInv, [Next]_vars PROVE IInv'
    OBVIOUS
  <1>1. ASSUME NEW r \in Request, Arrive(r) PROVE IInv'
    BY <1>1, ArriveInv
  <1>2. ASSUME NEW r \in Request, Serve(r) PROVE IInv'
    BY <1>2, ServeInv
  <1>3. ASSUME NEW r \in Request, Abort(r) PROVE IInv'
    BY <1>3, RefusedInv DEF Abort
  <1>4. ASSUME NEW u \in User, Register(u) \/ RemoveMember(u) PROVE IInv'
    BY <1>4, RegisterInv
  <1>5. ASSUME NEW x \in Role, DropRole(x) PROVE IInv'
    BY <1>5, DropRoleInv
  <1>6. ASSUME NEW i \in Id, Expire(i) PROVE IInv'
    BY <1>6, ExpireInv
  <1>7. CASE UNCHANGED vars
    BY <1>7, StutterInv
  <1> QED
    BY <1>1, <1>2, <1>3, <1>4, <1>5, <1>6, <1>7 DEF Next

-----------------------------------------------------------------------------
(* The theorems *)

\* The inductive invariant holds in every state.
THEOREM InvitationsInductive == Spec => []IInv
  BY InitInv, NextInv, PTL DEF Spec

\* Every table and every request in progress keeps its type.
THEOREM InvitationsTyped == Spec => []TypeOK
  BY InvitationsInductive, PTL DEF IInv

\* An address never has two links that work, whatever invites, resends and
\* cancellations race or die.
THEOREM OneLinkOnly == Spec => []OneLinkWorks
  BY InvitationsInductive, PTL DEF IInv

\* Nobody is admitted by an invitation that is gone, to another role, or at an
\* address that is not theirs.
THEOREM AdmissionIsInvited == Spec => AdmittedByInvitation
  <1>1. ASSUME IInv, [Next]_vars, NEW r \in Request, CommitAccept(r), links' # links
        PROVE  LET i == req[r].id
               IN  /\ Exists(i) /\ rows[i].role = req[r].role /\ rows[i].role \in roles
                   /\ rows[i].email \in VerifiedOf[req[r].user]
                   /\ links' = links \cup {<<req[r].user, rows[i].role>>}
    <2>1. /\ Exists(req[r].id) /\ req[r].role \in roles
          /\ links' = links \cup {<<req[r].user, req[r].role>>}
          /\ req[r].op \in {"accept", "register"}
      BY <1>1 DEF CommitAccept, Refused, tables
    <2> QED
      BY <1>1, <2>1 DEF IInv, AcceptsOwn
  <1>2. IInv /\ [Next]_vars =>
          [\A r \in Request : CommitAccept(r) /\ links' # links =>
             LET i == req[r].id
             IN  /\ Exists(i) /\ rows[i].role = req[r].role /\ rows[i].role \in roles
                 /\ rows[i].email \in VerifiedOf[req[r].user]
                 /\ links' = links \cup {<<req[r].user, rows[i].role>>}]_vars
    BY <1>1
  <1> QED
    BY InvitationsInductive, <1>2, PTL DEF Spec, AdmittedByInvitation

LEMMA SameRowsKept == ASSUME UNCHANGED rows PROVE \A j \in Id : Kept(j)
  BY DEF Kept, Exists

LEMMA OthersKeepRows ==
  ASSUME IInv, [Next]_vars, \A r \in Request : ~CommitInvite(r) /\ ~CommitResend(r)
  PROVE  \A j \in Id : Kept(j)
  <1>1. TablesOK /\ Requests
    BY Split DEF IInv
  <1>2. ASSUME NEW r \in Request, Arrive(r) PROVE UNCHANGED rows
    BY <1>2 DEF Arrive, StartInvite, StartResend, StartCancel, StartAccept, StartLogin,
                StartRegister, Start, tables
  <1>3. ASSUME NEW r \in Request, FlushInvite(r) \/ FlushResend(r) \/ MailFails(r) \/ Abort(r)
        PROVE  UNCHANGED rows
    BY <1>3 DEF FlushInvite, FlushResend, MailFails, Abort, Refused, Mail, tables
  <1>4. ASSUME NEW r \in Request, CommitCancel(r) PROVE \A j \in Id : Kept(j)
    BY <1>1, <1>4 DEF CommitCancel, TablesOK, Kept, Exists
  <1>5. ASSUME NEW r \in Request, CommitAccept(r) PROVE \A j \in Id : Kept(j)
    <2>1. CASE Refused(r)
      BY <2>1, SameRowsKept DEF Refused, tables
    <2>2. CASE Exists(req[r].id) /\ ~Refused(r)
      <3> DEFINE old == rows[req[r].id]
                 new == [email |-> old.email, role |-> old.role, token |-> old.token,
                         used |-> TRUE, expired |-> old.expired]
      <3>1. rows' = [rows EXCEPT ![req[r].id] = new]
        BY <1>5, <2>2 DEF CommitAccept
      <3>2. \A j \in Id : rows'[j] = IF j = req[r].id THEN new ELSE rows[j]
        BY <1>1, <3>1 DEF TablesOK
      <3> QED
        BY <2>2, <3>2 DEF Kept, Exists
    <2> QED
      BY <1>5, <2>1, <2>2 DEF CommitAccept
  <1>6. ASSUME NEW u \in User, Register(u) \/ RemoveMember(u) PROVE UNCHANGED rows
    BY <1>6 DEF Register, RemoveMember
  <1>7. ASSUME NEW x \in Role, DropRole(x) PROVE \A j \in Id : Kept(j)
    BY <1>7 DEF DropRole, Kept, Exists
  <1>8. ASSUME NEW i \in Id, Expire(i) PROVE \A j \in Id : Kept(j)
    BY <1>1, <1>8 DEF Expire, Active, TablesOK, Kept, Exists
  <1>9. CASE UNCHANGED vars
    BY <1>9, SameRowsKept DEF vars, tables
  <1> QED
    BY <1>2, <1>3, <1>4, <1>5, <1>6, <1>7, <1>8, <1>9, SameRowsKept DEF Next, Serve

LEMMA StepAdvances ==
  ASSUME IInv, [Next]_vars, NEW e \in Email, NEW i \in PendingFor(e), NEW j \in Left(e)
  PROVE  rows[i].token <= rows'[j].token
  <1>1. TablesOK /\ Requests /\ OneLinkWorks /\ FlushReplaces
    BY Split DEF IInv
  <1>2. /\ i \in Id /\ Exists(i) /\ rows[i].email = e /\ rows[i].token \in Nat
        /\ j \in Id /\ rows'[j] # NoRow /\ rows'[j].email = e /\ ~rows'[j].used
    BY <1>1, RowFields DEF PendingFor, Left
  <1>3. ASSUME Kept(j) PROVE i = j /\ rows'[j].token = rows[i].token
    <2>1. j \in PendingFor(e)
      BY <1>2, <1>3 DEF Kept, PendingFor
    <2> QED
      BY <1>1, <1>2, <1>3, <2>1 DEF OneLinkWorks, Kept
  <1>4. ASSUME NEW r \in Request, CommitInvite(r) PROVE rows[i].token <= rows'[j].token
    <2> DEFINE q == req[r]
               new == [email |-> q.email, role |-> q.role, token |-> q.token,
                       used |-> FALSE, expired |-> FALSE]
    <2>1. /\ q.op = "invited" /\ q.token \in Token
          /\ rows'[j] = IF j = made + 1 THEN new ELSE IF j \in q.pending THEN NoRow ELSE rows[j]
      BY <1>1, <1>2, <1>4, Fields DEF CommitInvite, Requests
    <2>2. CASE j = made + 1
      <3>1. rows'[j] = new
        BY <2>1, <2>2
      <3>2. q.email = e /\ rows'[j].token = q.token
        BY <1>2, <3>1
      <3>3. rows[i].token < q.token /\ q.token \in Nat
        BY <1>1, <2>1, <3>2, Numbers DEF FlushReplaces
      <3> QED
        BY <1>2, <3>2, <3>3
    <2>3. CASE j # made + 1
      <3>1. Kept(j)
        BY <2>1, <2>3 DEF Kept, Exists
      <3> QED
        BY <1>2, <1>3, <3>1
    <2> QED
      BY <2>2, <2>3
  <1>5. ASSUME NEW r \in Request, CommitResend(r) PROVE rows[i].token <= rows'[j].token
    <2> DEFINE q == req[r]
               old == rows[q.id]
               new == [email |-> old.email, role |-> old.role, token |-> q.token,
                       used |-> old.used, expired |-> FALSE]
    <2>1. /\ q.op = "resent" /\ q.token \in Token /\ q.id \in Id
          /\ rows' = [rows EXCEPT ![q.id] = new]
      BY <1>1, <1>5, Fields DEF CommitResend, Requests
    <2>2. rows'[j] = IF j = q.id THEN new ELSE rows[j]
      BY <1>1, <1>2, <2>1 DEF TablesOK
    <2>3. CASE j = q.id
      <3>1. rows'[j] = new
        BY <2>2, <2>3
      <3>2. rows[j].email = e /\ ~rows[j].used /\ rows'[j].token = q.token
        BY <1>2, <2>3, <3>1
      <3>3. Exists(j)
        BY <1>5, <2>1, <2>3 DEF IInv, LocksExclude
      <3>4. i = j
        BY <1>1, <1>2, <3>2, <3>3 DEF OneLinkWorks, PendingFor
      <3>5. rows[i].token < q.token /\ q.token \in Nat
        BY <1>1, <2>1, <2>3, <3>4, Numbers DEF FlushReplaces
      <3> QED
        BY <1>2, <3>2, <3>5
    <2>4. CASE j # q.id
      <3>1. Kept(j)
        BY <2>2, <2>4 DEF Kept, Exists
      <3> QED
        BY <1>2, <1>3, <3>1
    <2> QED
      BY <2>3, <2>4
  <1>6. CASE \A r \in Request : ~CommitInvite(r) /\ ~CommitResend(r)
    BY <1>2, <1>3, <1>6, OthersKeepRows
  <1> QED
    BY <1>4, <1>5, <1>6

\* The link that works for an address is never replaced by an earlier one.
THEOREM LinksAdvance == Spec => LinksOnlyAdvance
  <1>1. ASSUME NEW e \in Email PROVE PendingFor(e)' = Left(e)
    BY DEF PendingFor, Left, Exists
  <1>2. IInv /\ [Next]_vars =>
          [\A e \in Email : \A i \in PendingFor(e) : \A j \in PendingFor(e)' :
             rows[i].token <= rows'[j].token]_vars
    BY <1>1, StepAdvances
  <1> QED
    BY InvitationsInductive, <1>2, PTL DEF Spec, LinksOnlyAdvance

-----------------------------------------------------------------------------
(* One request after the other                                                *)

\* Nobody else is served, and what an acceptance was told is still so: its
\* invitation is there and has not been used.
Serial ==
  OneAtATime =>
    /\ \A r, s \in Request : ~Free(r) /\ ~Free(s) => r = s
    /\ \A r \in Request : req[r].op \in {"accept", "register"} =>
          Exists(req[r].id) /\ ~rows[req[r].id].used

\* Whoever is served first finds nobody else being served.
LEMMA ServedAlone ==
  ASSUME Serial, OneAtATime, CanServe
  PROVE  \A r \in Request : Free(r)
  <1> DEFINE busy == {r \in Request : ~Free(r)}
  <1> SUFFICES ASSUME NEW r \in busy PROVE FALSE
    OBVIOUS
  <1>1. busy = {r}
    BY DEF Serial
  <1>2. Cardinality({r}) = 1
    BY FS_Singleton
  <1>3. Cardinality(busy) < 1
    BY DEF CanServe, OneAtATime
  <1> QED
    BY <1>1, <1>2, <1>3

\* A step of the one request that is served, after which it accepts nothing.
LEMMA MoveSerial ==
  ASSUME IInv, Serial, UNCHANGED workers, NEW r \in Request, ~Free(r),
         NEW q, q.op \notin {"accept", "register"}, req' = [req EXCEPT ![r] = q]
  PROVE  Serial'
  <1> SUFFICES ASSUME OneAtATime
               PROVE  /\ \A s, t \in Request : ~Free(s)' /\ ~Free(t)' => s = t
                      /\ \A s \in Request : req'[s].op \notin {"accept", "register"}
    BY DEF Serial, OneAtATime
  <1>1. \A s \in Request : req'[s] = IF s = r THEN q ELSE req[s]
    BY Split DEF IInv, Requests
  <1>2. \A s \in Request \ {r} : req[s] = Idle
    BY DEF Serial, Free
  <1> QED
    BY <1>1, <1>2 DEF Free, Idle

LEMMA ServeSerial ==
  ASSUME IInv, Serial, NEW r \in Request, Serve(r) \/ Abort(r)
  PROVE  Serial'
  <1>1. ~Free(r) /\ UNCHANGED workers
    BY DEF Serve, Abort, FlushInvite, CommitInvite, FlushResend, CommitResend,
           MailFails, CommitCancel, CommitAccept, Free, Idle, Mail, Refused
  <1>2. CASE Done(r)
    BY <1>1, <1>2, MoveSerial DEF Done, Idle
  <1>3. ASSUME NEW e, NEW q, q.op \notin {"accept", "register"}, Mail(r, e, q)
        PROVE  Serial'
    BY <1>1, <1>3, MoveSerial DEF Mail
  <1>4. CASE FlushInvite(r)
    BY <1>2, <1>3, <1>4 DEF FlushInvite, Refused
  <1>5. CASE FlushResend(r)
    BY <1>2, <1>3, <1>5 DEF FlushResend, Refused
  <1> QED
    BY <1>2, <1>4, <1>5 DEF Serve, Abort, CommitInvite, CommitResend, MailFails,
                            CommitCancel, CommitAccept, Refused

LEMMA ArriveSerial ==
  ASSUME IInv, Serial, NEW r \in Request, Arrive(r)
  PROVE  Serial'
  <1>1. PICK q : Start(r, q) /\ (q.op \in {"accept", "register"} => Active(q.id))
    <2>1. ASSUME NEW e \in Email, NEW x \in Role, StartInvite(r, e, x)
          PROVE  \E q : Start(r, q) /\ (q.op \in {"accept", "register"} => Active(q.id))
      BY <2>1 DEF StartInvite
    <2>2. ASSUME NEW i \in Id, StartResend(r, i) \/ StartCancel(r, i)
          PROVE  \E q : Start(r, q) /\ (q.op \in {"accept", "register"} => Active(q.id))
      BY <2>2 DEF StartResend, StartCancel
    <2>3. ASSUME NEW u \in User, NEW i \in Id,
                 StartAccept(r, u, i) \/ StartLogin(r, u, i) \/ StartRegister(r, u, i)
          PROVE  \E q : Start(r, q) /\ (q.op \in {"accept", "register"} => Active(q.id))
      BY <2>3 DEF StartAccept, StartLogin, StartRegister
    <2> QED
      BY <2>1, <2>2, <2>3 DEF Arrive
  <1>2. UNCHANGED <<rows, workers>> /\ CanServe
    BY <1>1 DEF Start, tables
  <1>3. SUFFICES ASSUME OneAtATime
                 PROVE  /\ \A s, t \in Request : ~Free(s)' /\ ~Free(t)' => s = t
                        /\ \A s \in Request : req'[s].op \in {"accept", "register"} =>
                              Exists(req'[s].id) /\ ~rows[req'[s].id].used
    BY <1>2 DEF Serial, OneAtATime, Exists
  <1>4. \A s \in Request : req'[s] = IF s = r THEN q ELSE Idle
    <2>1. \A s \in Request : req[s] = Idle
      BY <1>2, <1>3, ServedAlone DEF Free
    <2> QED
      BY <1>1, <2>1, Split DEF Start, IInv, Requests
  <1> QED
    BY <1>1, <1>4 DEF Free, Active, Idle

LEMMA AroundSerial ==
  ASSUME IInv, Serial,
         \/ \E u \in User : Register(u) \/ RemoveMember(u)
         \/ \E x \in Role : DropRole(x)
         \/ \E i \in Id : Expire(i)
  PROVE  Serial'
  <1>1. UNCHANGED <<req, workers>>
    BY DEF Register, RemoveMember, DropRole, Expire
  <1>2. SUFFICES ASSUME OneAtATime, NEW r \in Request,
                        req[r].op \in {"accept", "register"}
                 PROVE  rows'[req[r].id] # NoRow /\ ~rows'[req[r].id].used
    BY <1>1 DEF Serial, OneAtATime, Free, Exists
  <1> DEFINE k == req[r].id
  <1>3. Exists(k) /\ ~rows[k].used /\ k \in Id
    BY <1>2, Split, Fields DEF Serial, IInv, Requests
  <1>4. ASSUME NEW x \in Role, DropRole(x) PROVE FALSE
    <2>1. CanServe
      BY <1>4 DEF DropRole
    <2>2. req[r] = Idle
      BY <1>2, <2>1, ServedAlone DEF Free
    <2> QED
      BY <1>2, <2>2 DEF Idle
  <1>5. ASSUME NEW i \in Id, Expire(i)
        PROVE  rows'[k] # NoRow /\ ~rows'[k].used
    <2>1. rows \in [Id -> Invitation \cup {NoRow}]
      BY DEF IInv, TypeOK
    <2> DEFINE new == [email |-> rows[i].email, role |-> rows[i].role,
                       token |-> rows[i].token, used |-> rows[i].used,
                       expired |-> TRUE]
    <2>2. rows' = [rows EXCEPT ![i] = new]
      BY <1>5 DEF Expire
    <2>3. new # NoRow /\ new.used = rows[i].used
      BY DEF NoRow
    <2> HIDE DEF new
    <2> QED
      BY <1>3, <2>1, <2>2, <2>3 DEF Exists
  <1> QED
    BY <1>3, <1>4, <1>5 DEF Register, RemoveMember, Exists

\* One request after the other, an invitation admits once, whatever was removed,
\* expired, sent again or cancelled between two acceptances.
THEOREM AdmitsOnce == Spec => AcceptedOnce
  <1> DEFINE Once == \A r \in Request :
        OneAtATime /\ CommitAccept(r) /\ links' # links => ~rows[req[r].id].used
  <1>1. Init => Serial
    BY DEF Init, Serial, Free, Idle
  <1>2. IInv /\ Serial /\ [Next]_vars => Serial'
    <2> SUFFICES ASSUME IInv, Serial, [Next]_vars PROVE Serial'
      OBVIOUS
    <2>1. CASE UNCHANGED vars
      BY <2>1 DEF vars, tables, Serial, OneAtATime, Free, Exists
    <2> QED
      BY <2>1, ArriveSerial, ServeSerial, AroundSerial DEF Next
  <1>3. IInv /\ Serial /\ [Next]_vars => [Once]_vars
    BY DEF Serial, CommitAccept
  <1>4. [][Once]_vars => AcceptedOnce
    BY PTL DEF AcceptedOnce
  <1> QED
    BY InvitationsInductive, <1>1, <1>2, <1>3, <1>4, PTL DEF Spec
=============================================================================
