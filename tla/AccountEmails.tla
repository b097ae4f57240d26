----------------------------- MODULE AccountEmails -----------------------------
(***************************************************************************)
(* The addresses of an account: Account.email, the AccountEmail rows with    *)
(* their primary flag, and the verification and recovery links that change   *)
(* both.                                                                     *)
(*                                                                          *)
(* Each handler reads, decides, and commits, and another worker may commit   *)
(* in between, so a request remembers the row ids and addresses it read: an  *)
(* UPDATE of a row that is gone fails its transaction, a DELETE of one is    *)
(* only a warning, and the unique constraints on Account.email and           *)
(* AccountEmail.email refuse the INSERT that a read had allowed.  Sessions   *)
(* and passwords are module Sessions.                                        *)
(***************************************************************************)
EXTENDS Naturals, FiniteSets

CONSTANTS
  Account, Email,
  Request,     \* requests that may be in progress together
  Ops,         \* operations the clients of a run use, a subset of AllOps
  Lossy,       \* whether requests may die
  None,        \* no account, no e-mail address
  MaxRows      \* bound: AccountEmail rows ever inserted

AllOps == {"register", "add", "verify", "promote", "remove", "recover", "delete"}

ASSUME EmailConstants ==
  /\ Ops \subseteq AllOps /\ Lossy \in BOOLEAN
  /\ None \notin Account /\ None \notin Email /\ MaxRows \in Nat
  /\ IsFiniteSet(Request)

MAX_EMAILS_PER_ACCOUNT == 2

VARIABLES
  status,         \* whether the Account row is not there yet, there, or deleted
  email,          \* Account.email
  rows,           \* AccountEmail rows by id
  made,           \* ids given out
  verifications,  \* unused, unexpired EmailVerificationToken rows
  recoveries,     \* unused, unexpired AccountRecoveryToken rows
  req,            \* requests in progress
  workers         \* how many requests the deployment serves at a time

vars == <<status, email, rows, made, verifications, recoveries, req, workers>>

Id == 1..MaxRows
NoRow == [account |-> None, email |-> None, primary |-> FALSE]
Row == [account : Account, email : Email, primary : BOOLEAN] \cup {NoRow}

Phase == {"idle", "register", "add", "verify", "promote", "remove", "notify",
          "recover"}
Req == [phase : Phase, account : Account \cup {None}, email : Email \cup {None},
        old : Email \cup {None}, target : 0..MaxRows, primary : 0..MaxRows,
        seen : SUBSET Id]
Idle == [phase |-> "idle", account |-> None, email |-> None, old |-> None,
         target |-> 0, primary |-> 0, seen |-> {}]

TypeOK ==
  /\ status \in [Account -> {"new", "open", "deleted"}]
  /\ email \in [Account -> Email \cup {None}]
  /\ rows \in [Id -> Row]
  /\ made \in 0..MaxRows
  /\ verifications \subseteq Account \X Email
  /\ recoveries \subseteq Account \X Email
  /\ req \in [Request -> Req]
  /\ workers \in 1 .. Cardinality(Request)

Init ==
  /\ status = [a \in Account |-> "new"]
  /\ email = [a \in Account |-> None]
  /\ rows = [i \in Id |-> NoRow]
  /\ made = 0
  /\ verifications = {}
  /\ recoveries = {}
  /\ req = [r \in Request |-> Idle]
  /\ workers \in 1 .. Cardinality(Request)

-----------------------------------------------------------------------------
(* What the handlers ask of the database *)

Exists(i) == rows[i] # NoRow
RowsOf(a) == {i \in Id : rows[i].account = a}
PrimariesOf(a) == {i \in RowsOf(a) : rows[i].primary}

\* select(AccountEmail).where(email == e)
Registered(e) == \E i \in Id : rows[i].email = e

\* select(Account).where(Account.email == e)
IsPrimaryOf(e, a) == status[a] = "open" /\ email[a] = e

\* Mutant: no unique constraint on AccountEmail.email.
InsertAnyway(a, e, primary, gone) ==
  /\ made < MaxRows
  /\ made' = made + 1
  /\ rows' = [i \in Id |-> IF i = made + 1
                           THEN [account |-> a, email |-> e, primary |-> primary]
                           ELSE IF i \in gone THEN NoRow ELSE rows[i]]

\* INSERT of a verified row once the rows `gone` are deleted, under the unique
\* constraint on the address.
Insert(a, e, primary, gone) ==
  /\ \A i \in Id \ gone : rows[i].email # e
  /\ made < MaxRows
  /\ made' = made + 1
  /\ rows' = [i \in Id |-> IF i = made + 1
                           THEN [account |-> a, email |-> e, primary |-> primary]
                           ELSE IF i \in gone THEN NoRow ELSE rows[i]]

Free(r) == req[r] = Idle
Inserting == Cardinality({r \in Request : req[r].phase \in {"register", "verify", "recover"}})
Room == made + Inserting < MaxRows
Start(r, q) ==
  /\ Free(r) /\ Cardinality({s \in Request : ~Free(s)}) < workers
  /\ req' = [req EXCEPT ![r] = q]
Done(r) == req' = [req EXCEPT ![r] = Idle]

tables == <<status, email, rows, made>>
tokens == <<verifications, recoveries>>

\* The transaction is refused: rolled back, an error is answered.
Refused(r) == Done(r) /\ UNCHANGED <<tables, tokens>>

-----------------------------------------------------------------------------
(* Opening and closing an account *)

StartRegister(r, a, e) ==
  /\ "register" \in Ops /\ Room
  /\ status[a] = "new"
  /\ \A s \in Request : req[s].phase = "register" => req[s].account # a
  /\ \A b \in Account : ~IsPrimaryOf(e, b)
  /\ Start(r, [Idle EXCEPT !.phase = "register", !.account = a, !.email = e])
  /\ UNCHANGED <<tables, tokens>>

CommitRegister(r) ==
  LET a == req[r].account
      e == req[r].email
  IN  /\ req[r].phase = "register"
      /\ IF \E b \in Account : IsPrimaryOf(e, b) THEN Refused(r)
         ELSE \/ /\ Insert(a, e, TRUE, {})
                 /\ status' = [status EXCEPT ![a] = "open"]
                 /\ email' = [email EXCEPT ![a] = e]
                 /\ Done(r)
                 /\ UNCHANGED tokens
              \/ Registered(e) /\ Refused(r)

\* Mutant: the recovery tokens do not cascade.
DeleteButLinks(a) ==
  /\ "delete" \in Ops
  /\ status[a] = "open"
  /\ status' = [status EXCEPT ![a] = "deleted"]
  /\ email' = [email EXCEPT ![a] = None]
  /\ rows' = [i \in Id |-> IF rows[i].account = a THEN NoRow ELSE rows[i]]
  /\ UNCHANGED <<made, tokens, req>>

\* session.delete(account) and its cascades.  A token that another request
\* inserts in between makes it fail and changes nothing.
DeleteAccount(a) ==
  /\ "delete" \in Ops
  /\ status[a] = "open"
  /\ status' = [status EXCEPT ![a] = "deleted"]
  /\ email' = [email EXCEPT ![a] = None]
  /\ rows' = [i \in Id |-> IF rows[i].account = a THEN NoRow ELSE rows[i]]
  /\ verifications' = {t \in verifications : t[1] # a}
  /\ recoveries' = {t \in recoveries : t[1] # a}
  /\ UNCHANGED <<made, req>>

-----------------------------------------------------------------------------
(* Adding and verifying a second address *)

AskToAdd(r, a, e) ==
  /\ "add" \in Ops
  /\ status[a] = "open"
  /\ ~Registered(e)
  /\ Cardinality(RowsOf(a)) < MAX_EMAILS_PER_ACCOUNT
  /\ Start(r, [Idle EXCEPT !.phase = "add", !.account = a, !.email = e])
  /\ UNCHANGED <<tables, tokens>>

\* send_email_verification: one live token per account and address; the foreign
\* key refuses a token of an account that is gone.
CommitVerification(r) ==
  /\ req[r].phase = "add"
  /\ IF status[req[r].account] = "open"
     THEN verifications' = verifications \cup {<<req[r].account, req[r].email>>}
     ELSE UNCHANGED verifications
  /\ Done(r)
  /\ UNCHANGED <<tables, recoveries>>

FollowVerification(r, a, e) ==
  /\ "verify" \in Ops /\ Room
  /\ <<a, e>> \in verifications
  /\ ~Registered(e)
  /\ Start(r, [Idle EXCEPT !.phase = "verify", !.account = a, !.email = e])
  /\ UNCHANGED <<tables, tokens>>

CommitVerify(r) ==
  LET a == req[r].account
      e == req[r].email
  IN  /\ req[r].phase = "verify"
      /\ \/ /\ status[a] = "open"
            /\ Insert(a, e, FALSE, {})
            /\ verifications' = verifications \ {<<a, e>>}
            /\ Done(r)
            /\ UNCHANGED <<status, email, recoveries>>
         \/ (status[a] # "open" \/ Registered(e)) /\ Refused(r)

-----------------------------------------------------------------------------
(* Changing the primary address, removing a secondary one *)

\* The target is a secondary row of the account; the primary row, if the
\* account has one, is read with it.
StartPromotion(r, a, i) ==
  /\ "promote" \in Ops
  /\ status[a] = "open"
  /\ i \in RowsOf(a) \ PrimariesOf(a)
  /\ \E p \in PrimariesOf(a) \cup {0} :
        /\ p = 0 => PrimariesOf(a) = {}
        /\ Start(r, [Idle EXCEPT !.phase = "promote", !.account = a,
                       !.email = rows[i].email, !.old = email[a],
                       !.target = i, !.primary = p])
  /\ UNCHANGED <<tables, tokens>>

\* Mutant: the old primary keeps its flag.
PromoteBoth(r) ==
  LET q == req[r]
  IN  /\ q.phase = "promote"
      /\ IF /\ status[q.account] = "open" /\ Exists(q.target)
            /\ q.primary = 0 \/ Exists(q.primary)
         THEN /\ rows' = [rows EXCEPT ![q.target].primary = TRUE]
              /\ email' = [email EXCEPT ![q.account] = q.email]
              /\ req' = [req EXCEPT ![r].phase = "notify"]
              /\ UNCHANGED <<status, made, tokens>>
         ELSE Refused(r)

CommitPromotion(r) ==
  LET q == req[r]
  IN  /\ q.phase = "promote"
      /\ IF /\ status[q.account] = "open" /\ Exists(q.target)
            /\ q.primary = 0 \/ Exists(q.primary)
            /\ \A b \in Account \ {q.account} : ~IsPrimaryOf(q.email, b)
         THEN /\ rows' = [i \in Id |-> [rows[i] EXCEPT !.primary =
                                          (i = q.target \/ @) /\ i # q.primary]]
              /\ email' = [email EXCEPT ![q.account] =
                             IF q.email = q.old THEN @ ELSE q.email]
              /\ req' = [req EXCEPT ![r].phase = "notify"]
              /\ UNCHANGED <<status, made, tokens>>
         ELSE Refused(r)

StartRemoval(r, a, i) ==
  /\ "remove" \in Ops
  /\ status[a] = "open"
  /\ i \in RowsOf(a) \ PrimariesOf(a)
  /\ Start(r, [Idle EXCEPT !.phase = "remove", !.account = a,
                 !.old = rows[i].email, !.target = i])
  /\ UNCHANGED <<tables, tokens>>

CommitRemoval(r) ==
  /\ req[r].phase = "remove"
  /\ rows' = [rows EXCEPT ![req[r].target] = NoRow]
  /\ req' = [req EXCEPT ![r].phase = "notify"]
  /\ UNCHANGED <<status, email, made, tokens>>

\* create_recovery_token, for the address that was primary or was removed.
CommitRecoveryLink(r) ==
  LET a == req[r].account
  IN  /\ req[r].phase = "notify"
      /\ IF status[a] = "open"
         THEN recoveries' = recoveries \cup {<<a, req[r].old>>}
         ELSE UNCHANGED recoveries
      /\ Done(r)
      /\ UNCHANGED <<tables, verifications>>

-----------------------------------------------------------------------------
(* Recovering an address *)

StartRecovery(r, a, e) ==
  /\ "recover" \in Ops /\ Room
  /\ <<a, e>> \in recoveries
  /\ Start(r, [Idle EXCEPT !.phase = "recover", !.account = a, !.email = e,
                 !.old = email[a], !.seen = RowsOf(a)])
  /\ UNCHANGED <<tables, tokens>>

\* Mutant: the other addresses of the account stay, as secondary ones.
KeepOtherRows(r) ==
  LET a == req[r].account
      e == req[r].email
      new == [account |-> a, email |-> e, primary |-> TRUE]
  IN  /\ req[r].phase = "recover"
      /\ \A i \in Id \ req[r].seen : rows[i].email # e
      /\ rows' = [i \in Id |-> IF i = made + 1 THEN new
                               ELSE IF rows[i].email = e THEN NoRow
                               ELSE [rows[i] EXCEPT !.primary = @ /\ i \notin req[r].seen]]
      /\ made' = made + 1
      /\ email' = [email EXCEPT ![a] = e]
      /\ recoveries' = recoveries \ {<<a, e>>}
      /\ Done(r)
      /\ UNCHANGED <<status, verifications>>

\* The rows read are deleted, the recovered address is inserted as the primary
\* one, and Account.email is written if it was another address when read.
CommitRecovery(r) ==
  LET a == req[r].account
      e == req[r].email
      taken == \/ \E i \in Id \ req[r].seen : rows[i].email = e
               \/ \E b \in Account \ {a} : IsPrimaryOf(e, b)
  IN  /\ req[r].phase = "recover"
      /\ \/ /\ status[a] = "open" /\ ~taken
            /\ Insert(a, e, TRUE, req[r].seen)
            /\ email' = [email EXCEPT ![a] = IF e = req[r].old THEN @ ELSE e]
            /\ recoveries' = recoveries \ {<<a, e>>}
            /\ Done(r)
            /\ UNCHANGED <<status, verifications>>
         \/ (status[a] # "open" \/ taken) /\ Refused(r)

-----------------------------------------------------------------------------
(* Time and failure *)

\* seed_account_emails, when a worker starts: an account without any row gets
\* its primary one, unless the address is taken; then nothing is committed.
Seed(a) ==
  /\ status[a] = "open" /\ RowsOf(a) = {}
  /\ Room
  /\ Insert(a, email[a], TRUE, {})
  /\ UNCHANGED <<status, email, tokens, req>>

VerificationExpires(t) ==
  /\ verifications' = verifications \ {t}
  /\ UNCHANGED <<tables, recoveries, req>>

RecoveryExpires(t) ==
  /\ recoveries' = recoveries \ {t}
  /\ UNCHANGED <<tables, verifications, req>>

Abort(r) == Lossy /\ ~Free(r) /\ Refused(r)

Arrive(r) ==
  \/ \E a \in Account, e \in Email : StartRegister(r, a, e) \/ AskToAdd(r, a, e)
  \/ \E t \in verifications : FollowVerification(r, t[1], t[2])
  \/ \E a \in Account, i \in Id : StartPromotion(r, a, i) \/ StartRemoval(r, a, i)
  \/ \E t \in recoveries : StartRecovery(r, t[1], t[2])

Serve(r) ==
  \/ CommitRegister(r) \/ CommitVerification(r) \/ CommitVerify(r)
  \/ CommitPromotion(r) \/ CommitRemoval(r) \/ CommitRecoveryLink(r)
  \/ CommitRecovery(r)

Next ==
  /\ \/ \E r \in Request : Arrive(r) \/ Serve(r) \/ Abort(r)
     \/ \E a \in Account : DeleteAccount(a) \/ Seed(a)
     \/ \E t \in verifications : VerificationExpires(t)
     \/ \E t \in recoveries : RecoveryExpires(t)
  /\ UNCHANGED workers

Spec == Init /\ [][Next]_vars

-----------------------------------------------------------------------------
(* Properties *)

\* The deployment serves one request after the other, so none of them acts on
\* what it read before another one's commit.
OneAtATime == workers = 1

Open == {a \in Account : status[a] = "open"}

\* Rows and links belong to open accounts, and an address is on one row, even
\* when an account is deleted under a request that is adding to it (the foreign
\* keys, their cascades and the unique constraint of models.py).
NoOrphans ==
  /\ \A i \in Id : Exists(i) => rows[i].account \in Open
  /\ verifications \cup recoveries \subseteq Open \X Email
  /\ \A i, j \in Id : Exists(i) /\ rows[i].email = rows[j].email => i = j

\* Every open account has one primary row and it carries Account.email: the
\* three places that promote, recover and register write agree.
OnePrimary ==
  OneAtATime => \A a \in Open : \E i \in Id : PrimariesOf(a) = {i} /\ rows[i].email = email[a]

\* No address belongs to two accounts, counting both tables: one account's
\* Account.email is never another one's AccountEmail row.
NoAddressShared ==
  OneAtATime => \A a, b \in Open : a # b =>
     \A i \in RowsOf(b) : rows[i].email \notin {email[a]} \cup {rows[j].email : j \in RowsOf(a)}

\* A recovery that is not refused leaves the account with the recovered
\* address alone, as primary and as Account.email ("Delete ALL existing
\* AccountEmail rows", account.py:805).
RecoveryRestores ==
  [][\A r \in Request : OneAtATime /\ CommitRecovery(r) /\ rows' # rows =>
        LET a == req[r].account
            mine == {rows'[i] : i \in Id} \cap {w \in Row : w.account = a}
        IN  /\ email'[a] = req[r].email
            /\ mine = {[account |-> a, email |-> req[r].email, primary |-> TRUE]}]_vars
=============================================================================
