------------------------------- MODULE Sessions -------------------------------
(***************************************************************************)
(* Login sessions of the web application: the refreshtoken table, the       *)
(* cookies each browser holds, and the requests that read and write both.   *)
(*                                                                          *)
(* A request is a process.  FastAPI runs `def` handlers and dependencies on *)
(* a thread pool and the database runs at READ COMMITTED, so another        *)
(* request may commit between a SELECT of a handler and the COMMIT of what  *)
(* it decided; every action below is one such read or one such commit, and  *)
(* what a request carries from one to the next is in req[r].  Abort is a    *)
(* request that dies anywhere: what it had committed stays, and its answer  *)
(* never reaches the browser.                                               *)
(*                                                                          *)
(* Abstractions.  A JWT is the subject it names; an expired JWT or cookie   *)
(* is an absent one.  `persistent`, HTMX redirects and flash messages       *)
(* decide no state here.  A password is its version.  The reads of one      *)
(* handler that follow each other without a decision between them are       *)
(* taken at one instant.  The AccountEmail table appears as emailOwner; how *)
(* an address gets there is module AccountEmails.                           *)
(*                                                                          *)
(* Account is the ids of the account table; an id is used once, so what is  *)
(* closed stays closed.                                                     *)
(***************************************************************************)
EXTENDS Naturals, FiniteSets

CONSTANTS
  Account, Email, Client,
  Request,       \* requests that may be in progress together
  Ops,           \* operations the clients of a run use, a subset of AllOps
  Lossy,         \* whether requests may die and answers get lost
  None,          \* no account, no e-mail address
  MaxJti,        \* bound: refresh tokens ever issued
  MaxPassword,   \* bound: password changes per account
  MaxLink        \* bound: password reset links ever created

AllOps == {"page", "error", "refresh", "login", "logout", "forgot", "reset",
           "promote", "recover", "claim", "release", "register", "delete"}

ASSUME SessionConstants ==
  /\ Ops \subseteq AllOps
  /\ Lossy \in BOOLEAN
  /\ None \notin Account
  /\ None \notin Email
  /\ MaxJti \in Nat /\ MaxPassword \in Nat /\ MaxLink \in Nat

VARIABLES
  status,      \* whether the Account row is not there yet, there, or deleted
  email,       \* Account.email: the primary address, subject of its tokens
  emailOwner,  \* AccountEmail rows: address -> owning account or None
  password,    \* Account.hashed_password, as a version
  token,       \* RefreshToken rows, with the JWT that names each
  issued,      \* how many refresh tokens were created
  links,       \* unused, unexpired PasswordResetToken rows
  sent,        \* how many reset links were created
  recovery,    \* unused, unexpired AccountRecoveryToken rows
  jar,         \* the auth cookies of each browser
  req          \* the requests in progress

vars == <<status, email, emailOwner, password, token, issued, links, sent, recovery,
          jar, req>>

Jti == 1..MaxJti
Version == 0..MaxPassword
MaybeAccount == Account \cup {None}
MaybeEmail == Email \cup {None}

\* A row of the refreshtoken table: its account, the subject in the JWT that
\* carries its jti, the token it was rotated from (0 if none) and the password
\* version its holder last proved to know.  The last two only serve properties.
\* Of a row that was deleted the account is None; its JWT is still there.
Row == [account : MaybeAccount, sub : MaybeEmail, revoked : BOOLEAN,
        parent : 0..MaxJti, pw : Version]
NoRow == [account |-> None, sub |-> None, revoked |-> TRUE, parent |-> 0,
          pw |-> 0]

Link == [id : 1..MaxLink, account : Account, email : Email]

\* Access cookie (subject, and the password version behind it) and the jti in
\* the refresh cookie.
Cookies == [sub : MaybeEmail, pw : Version, refresh : 0..MaxJti]
NoCookies == [sub |-> None, pw |-> 0, refresh |-> 0]

Phase == {"idle", "account", "row", "rotate", "reuse", "login", "forgot",
          "reset", "sweep", "reissue", "promote", "promoted", "notify",
          "recover", "register", "registered", "delete", "leave", "respond", "clear"}

Req == [phase : Phase, op : Ops \cup {"none"}, client : Client \cup {None},
        account : MaybeAccount, jti : 0..MaxJti, email : MaybeEmail,
        old : MaybeEmail, pw : Version, link : 0..MaxLink, seen : SUBSET Jti,
        emails : SUBSET Email]

Idle == [phase |-> "idle", op |-> "none", client |-> None, account |-> None,
         jti |-> 0, email |-> None, old |-> None, pw |-> 0, link |-> 0,
         seen |-> {}, emails |-> {}]

TypeOK ==
  /\ status \in [Account -> {"new", "open", "closed"}]
  /\ email \in [Account -> MaybeEmail]
  /\ emailOwner \in [Email -> MaybeAccount]
  /\ password \in [Account -> Version]
  /\ token \in [Jti -> Row]
  /\ issued \in 0..MaxJti
  /\ links \subseteq Link
  /\ sent \in 0..MaxLink
  /\ recovery \subseteq Account \X Email
  /\ jar \in [Client -> Cookies]
  /\ req \in [Request -> Req]

\* Some accounts are there, each with an address.
Init ==
  /\ status \in [Account -> {"new", "open"}]
  /\ email \in {f \in [Account -> MaybeEmail] :
                \A a \in Account : /\ f[a] = None <=> status[a] = "new"
                                   /\ \A b \in Account : f[a] = f[b] /\ f[a] # None => a = b}
  /\ emailOwner = [e \in Email |-> IF \E a \in Account : email[a] = e
                                   THEN CHOOSE a \in Account : email[a] = e
                                   ELSE None]
  /\ password = [a \in Account |-> 0]
  /\ token = [j \in Jti |-> NoRow]
  /\ issued = 0
  /\ links = {}
  /\ sent = 0
  /\ recovery = {}
  /\ jar = [c \in Client |-> NoCookies]
  /\ req = [r \in Request |-> Idle]

-----------------------------------------------------------------------------
(* What the handlers ask of the database *)

IsRow(j) == token[j].account # None

IsLive(j) == ~token[j].revoked

\* Mutant: .first() for .all() in revoke_all_refresh_tokens.
FirstLiveTokenOf(a) ==
  LET live == {j \in Jti : IsLive(j) /\ token[j].account = a}
  IN  {j \in live : \A i \in live : j <= i}

\* select(RefreshToken).where(account_id == a, revoked == False)
LiveTokensOf(a) == {j \in Jti : IsLive(j) /\ token[j].account = a}

\* select(Account).where(Account.email == e)
Open == {a \in Account : status[a] = "open"}
AccountsNamed(e) == {a \in Open : email[a] = e}

\* Mutant: the revoked flag is never written.
RevokedNot(S) == token

Revoked(S) == [j \in Jti |-> IF j \in S THEN [token[j] EXCEPT !.revoked = TRUE]
                                        ELSE token[j]]

NewRow(a, e, parent, pw) ==
  [account |-> a, sub |-> e, revoked |-> FALSE, parent |-> parent, pw |-> pw]

\* One commit that revokes S and inserts the next refresh token.
RevokeAndIssue(S, a, e, parent, pw) ==
  /\ issued < MaxJti
  /\ issued' = issued + 1
  /\ token' = [Revoked(S) EXCEPT ![issued + 1] = NewRow(a, e, parent, pw)]

RevokeOnly(S) == token' = Revoked(S) /\ UNCHANGED issued

\* A new request may start: its slot is free and the token bound leaves room
\* for what the requests in progress may still issue.
Free(r) == req[r] = Idle
InProgress(ops) == Cardinality({r \in Request : req[r].op \in ops})
Room == issued + InProgress(AllOps) < MaxJti
LinkRoom == sent + InProgress({"forgot", "recover"}) < MaxLink
PasswordRoom(a) == password[a] + InProgress({"reset"}) < MaxPassword
AccountRoom == InProgress({"register"}) < Cardinality({a \in Account : status[a] = "new"})

To(r, phase) == req' = [req EXCEPT ![r].phase = phase]
Done(r) == req' = [req EXCEPT ![r] = Idle]

\* The answer sets both cookies to the token just issued.
Granting(r, j, e, pw) ==
  req' = [req EXCEPT ![r] = [Idle EXCEPT !.phase = "respond", !.op = req[r].op,
                               !.client = req[r].client, !.jti = j,
                               !.email = e, !.pw = pw]]

accountTables == <<status, email, emailOwner, password>>
linkTables == <<links, sent, recovery>>

\* Mutant: account_id is not a foreign key.
StaysOrWas(r) == req[r].account \in Account

\* The account of the request has not been deleted since.
Stays(r) == req[r].account \in Open

\* It has: the UPDATE of a row that went with it, the INSERT of one that refers to
\* it, or the refresh of the account fails, and the transaction with it.
Writing == {"rotate", "reuse", "login", "forgot", "reset", "sweep", "reissue",
            "promote", "promoted", "notify", "recover", "registered"}
LoseAccount(r) ==
  /\ req[r].phase \in Writing /\ ~Stays(r)
  /\ req[r].phase = "reuse" => req[r].seen # {}
  /\ Done(r)
  /\ UNCHANGED <<accountTables, token, issued, linkTables, jar>>

-----------------------------------------------------------------------------
(* Exchanging the refresh cookie: the dependencies of a page, the error      *)
(* pages, and POST /refresh                                                  *)

\* A request whose access cookie is absent, expired or names no account falls
\* back on the refresh cookie; /refresh goes there at once.
StartRotation(r, c, op) ==
  /\ op \in Ops \cap {"page", "error", "refresh"}
  /\ Free(r) /\ Room
  /\ jar[c].refresh # 0
  /\ op # "refresh" => AccountsNamed(jar[c].sub) = {}
  /\ req' = [req EXCEPT ![r] = [Idle EXCEPT !.phase = "account", !.op = op,
                                  !.client = c, !.jti = jar[c].refresh]]
  /\ UNCHANGED <<accountTables, token, issued, linkTables, jar>>

\* select(Account).where(Account.email == sub); nobody: answer unauthenticated.
FindAccount(r) ==
  LET sub == token[req[r].jti].sub
  IN  /\ req[r].phase = "account"
      /\ \/ /\ AccountsNamed(sub) = {}
            /\ Done(r)
         \/ \E a \in AccountsNamed(sub) :
              req' = [req EXCEPT ![r].phase = "row", ![r].account = a,
                                 ![r].email = sub]
      /\ UNCHANGED <<accountTables, token, issued, linkTables, jar>>

\* The row is gone or belongs to another account: the cookie is refused.
RefuseToken(r) ==
  /\ req[r].phase = "row"
  /\ token[req[r].jti].account # req[r].account
  /\ Done(r)
  /\ UNCHANGED <<accountTables, token, issued, linkTables, jar>>

\* Mutant: a replayed token counts for whichever account its subject names.
DetectAnyReuse(r) ==
  /\ req[r].phase = "row"
  /\ token[req[r].jti].revoked
  /\ req' = [req EXCEPT ![r].phase = "reuse",
                        ![r].seen = LiveTokensOf(req[r].account)]
  /\ UNCHANGED <<accountTables, token, issued, linkTables, jar>>

\* A spent token comes back: revoke_all_refresh_tokens selects what is live.
DetectReuse(r) ==
  /\ req[r].phase = "row"
  /\ token[req[r].jti].account = req[r].account
  /\ token[req[r].jti].revoked
  /\ req' = [req EXCEPT ![r].phase = "reuse",
                        ![r].seen = LiveTokensOf(req[r].account)]
  /\ UNCHANGED <<accountTables, token, issued, linkTables, jar>>

CommitReuse(r) ==
  /\ req[r].phase = "reuse" /\ (Stays(r) \/ req[r].seen = {})
  /\ RevokeOnly(req[r].seen)
  /\ IF req[r].op = "refresh" THEN To(r, "clear") ELSE Done(r)
  /\ UNCHANGED <<accountTables, linkTables, jar>>

\* Mutant: the revoked flag is not looked at.
AcceptSpentToken(r) ==
  /\ req[r].phase = "row"
  /\ token[req[r].jti].account = req[r].account
  /\ To(r, "rotate")
  /\ UNCHANGED <<accountTables, token, issued, linkTables, jar>>

AcceptToken(r) ==
  /\ req[r].phase = "row"
  /\ token[req[r].jti].account = req[r].account
  /\ ~token[req[r].jti].revoked
  /\ To(r, "rotate")
  /\ UNCHANGED <<accountTables, token, issued, linkTables, jar>>

\* The presented token is revoked and its successor issued in one commit.  The
\* error handlers drop the new pair; the others set it as cookies.
CommitRotation(r) ==
  LET pw == token[req[r].jti].pw
  IN  /\ req[r].phase = "rotate" /\ Stays(r)
      /\ RevokeAndIssue({req[r].jti}, req[r].account, req[r].email,
                        req[r].jti, pw)
      /\ IF req[r].op = "error" THEN Done(r)
         ELSE Granting(r, issued + 1, req[r].email, pw)
      /\ UNCHANGED <<accountTables, linkTables, jar>>

-----------------------------------------------------------------------------
(* Signing in and out *)

\* get_account_from_credentials: the right password for the account.
CheckCredentials(r, c, a) ==
  /\ "login" \in Ops /\ Free(r) /\ Room /\ a \in Open
  /\ req' = [req EXCEPT ![r] = [Idle EXCEPT !.phase = "login", !.op = "login",
                                  !.client = c, !.account = a,
                                  !.email = email[a], !.pw = password[a]]]
  /\ UNCHANGED <<accountTables, token, issued, linkTables, jar>>

CommitLogin(r) ==
  /\ req[r].phase = "login" /\ Stays(r)
  /\ RevokeAndIssue({}, req[r].account, req[r].email, 0, req[r].pw)
  /\ Granting(r, issued + 1, req[r].email, req[r].pw)
  /\ UNCHANGED <<accountTables, linkTables, jar>>

\* The presented row, if any, is revoked and the answer clears the cookies.
Logout(r, c) ==
  /\ "logout" \in Ops /\ Free(r)
  /\ RevokeOnly({jar[c].refresh} \ {0})
  /\ req' = [req EXCEPT ![r] = [Idle EXCEPT !.phase = "clear",
                                  !.op = "logout", !.client = c]]
  /\ UNCHANGED <<accountTables, linkTables, jar>>

-----------------------------------------------------------------------------
(* Password reset *)

\* send_reset_email: nothing is sent while an unused, unexpired link exists.
AskForLink(r, a) ==
  /\ "forgot" \in Ops /\ Free(r) /\ LinkRoom /\ a \in Open
  /\ \A l \in links : l.account # a
  /\ req' = [req EXCEPT ![r] = [Idle EXCEPT !.phase = "forgot", !.op = "forgot",
                                  !.account = a, !.email = email[a]]]
  /\ UNCHANGED <<accountTables, token, issued, linkTables, jar>>

NewLink(a, e) ==
  /\ sent < MaxLink
  /\ sent' = sent + 1
  /\ links' = links \cup {[id |-> sent + 1, account |-> a, email |-> e]}

CommitLink(r) ==
  /\ req[r].phase = "forgot" /\ Stays(r)
  /\ NewLink(req[r].account, req[r].email)
  /\ Done(r)
  /\ UNCHANGED <<accountTables, token, issued, recovery, jar>>

\* get_account_from_reset_token: the e-mail address in the link must still be
\* the account's primary one.
FollowLink(r, c, l) ==
  /\ "reset" \in Ops /\ Free(r) /\ Room /\ PasswordRoom(l.account)
  /\ l.account \in AccountsNamed(l.email)
  /\ req' = [req EXCEPT ![r] = [Idle EXCEPT !.phase = "reset", !.op = "reset",
                                  !.client = c, !.account = l.account,
                                  !.link = l.id]]
  /\ UNCHANGED <<accountTables, token, issued, linkTables, jar>>

\* First commit: the new hash, and the link is used.
CommitPassword(r) ==
  LET a == req[r].account
  IN  /\ req[r].phase = "reset" /\ Stays(r)
      /\ password[a] < MaxPassword
      /\ password' = [password EXCEPT ![a] = @ + 1]
      /\ links' = {l \in links : l.id # req[r].link}
      /\ req' = [req EXCEPT ![r].phase = "sweep", ![r].pw = password[a] + 1]
      /\ UNCHANGED <<status, email, emailOwner, token, issued, sent, recovery, jar>>

\* session.refresh(account), then revoke_all_refresh_tokens selects what is live.
SelectForReset(r) ==
  LET a == req[r].account
  IN  /\ req[r].phase = "sweep" /\ Stays(r)
      /\ req' = [req EXCEPT ![r].phase = "reissue", ![r].email = email[a],
                            ![r].seen = LiveTokensOf(a)]
      /\ UNCHANGED <<accountTables, token, issued, linkTables, jar>>

\* Second commit: the selected tokens are revoked, the new session is issued.
CommitReset(r) ==
  /\ req[r].phase = "reissue" /\ Stays(r)
  /\ RevokeAndIssue(req[r].seen, req[r].account, req[r].email, 0, req[r].pw)
  /\ Granting(r, issued + 1, req[r].email, req[r].pw)
  /\ UNCHANGED <<accountTables, linkTables, jar>>

-----------------------------------------------------------------------------
(* Changing and recovering the primary address *)

StartPromotion(r, c, a, e) ==
  /\ "promote" \in Ops /\ Free(r) /\ Room
  /\ a \in AccountsNamed(jar[c].sub)
  /\ emailOwner[e] = a /\ e # email[a]
  /\ req' = [req EXCEPT ![r] = [Idle EXCEPT !.phase = "promote",
                                  !.op = "promote", !.client = c,
                                  !.account = a, !.email = e, !.old = email[a],
                                  !.pw = jar[c].pw, !.seen = LiveTokensOf(a)]]
  /\ UNCHANGED <<accountTables, token, issued, linkTables, jar>>

\* First commit.  An AccountEmail row that is gone makes the UPDATE fail, and so does
\* an address that another account has as its primary one (Account.email is unique).
CommitPromotion(r) ==
  LET a == req[r].account
      e == req[r].email
      free == emailOwner[e] = a /\ AccountsNamed(e) \subseteq {a}
  IN  /\ req[r].phase = "promote" /\ Stays(r)
      /\ \/ /\ free
            /\ email' = [email EXCEPT ![a] = e]
            /\ RevokeOnly(req[r].seen)
            /\ To(r, "promoted")
         \/ /\ ~free
            /\ Done(r)
            /\ UNCHANGED <<email, token, issued>>
      /\ UNCHANGED <<status, emailOwner, password, linkTables, jar>>

\* Mutant: the subject is the address read before the promotion.
IssueUnderOldAddress(r) ==
  /\ req[r].phase = "promoted" /\ Stays(r)
  /\ RevokeAndIssue({}, req[r].account, req[r].old, 0, req[r].pw)
  /\ req' = [req EXCEPT ![r].phase = "notify", ![r].email = req[r].old,
                        ![r].jti = issued + 1, ![r].seen = {}]
  /\ UNCHANGED <<accountTables, linkTables, jar>>

\* Second commit: a session under the new address.
IssuePromoted(r) ==
  LET a == req[r].account
      new == email[a]
  IN  /\ req[r].phase = "promoted" /\ Stays(r)
      /\ RevokeAndIssue({}, a, new, 0, req[r].pw)
      /\ req' = [req EXCEPT ![r].phase = "notify", ![r].email = new,
                            ![r].jti = issued + 1, ![r].seen = {}]
      /\ UNCHANGED <<accountTables, linkTables, jar>>

\* Third commit: a recovery link for the address that was primary.
CommitRecoveryLink(r) ==
  /\ req[r].phase = "notify" /\ Stays(r)
  /\ recovery' = recovery \cup {<<req[r].account, req[r].old>>}
  /\ Granting(r, req[r].jti, req[r].email, req[r].pw)
  /\ UNCHANGED <<accountTables, token, issued, links, sent, jar>>

\* select(AccountEmail).where(account_id == a)
AddressesOf(a) == {e \in Email : emailOwner[e] = a}

StartRecovery(r, a, e) ==
  /\ "recover" \in Ops /\ Free(r) /\ LinkRoom
  /\ a \in Open /\ <<a, e>> \in recovery
  /\ req' = [req EXCEPT ![r] = [Idle EXCEPT !.phase = "recover",
                                  !.op = "recover", !.account = a, !.email = e,
                                  !.old = email[a], !.seen = LiveTokensOf(a),
                                  !.emails = AddressesOf(a)]]
  /\ UNCHANGED <<accountTables, token, issued, linkTables, jar>>

\* One commit: the addresses that were read go, the recovered one comes, every
\* selected token is revoked and a reset link is created.  Account.email is written
\* only if it was another address when read.  The unique constraints refuse an
\* address that has been taken.
CommitRecovery(r) ==
  LET a == req[r].account
      e == req[r].email
      gone == req[r].emails \cap AddressesOf(a)
      free == /\ emailOwner[e] = None \/ e \in gone
              /\ e = req[r].old \/ AccountsNamed(e) \subseteq {a}
  IN  /\ req[r].phase = "recover" /\ Stays(r)
      /\ \/ /\ free
            /\ emailOwner' = [f \in Email |-> IF f = e THEN a
                                              ELSE IF f \in gone THEN None
                                              ELSE emailOwner[f]]
            /\ email' = [email EXCEPT ![a] = IF e = req[r].old THEN @ ELSE e]
            /\ RevokeOnly(req[r].seen)
            /\ NewLink(a, e)
            /\ recovery' = recovery \ {<<a, e>>}
         \/ /\ ~free
            /\ UNCHANGED <<email, emailOwner, token, issued, linkTables>>
      /\ Done(r)
      /\ UNCHANGED <<status, password, jar>>

\* verify_email, as far as sessions can see: a free address joins an account.
ClaimEmail(a, e) ==
  /\ "claim" \in Ops
  /\ a \in Open /\ emailOwner[e] = None
  /\ emailOwner' = [emailOwner EXCEPT ![e] = a]
  /\ UNCHANGED <<status, email, password, token, issued, linkTables, jar, req>>

\* remove_email: a secondary address leaves its account, then a recovery link
\* is committed for it unless the request died in between.
ReleaseEmail(a, e) ==
  /\ "release" \in Ops
  /\ emailOwner[e] = a /\ email[a] # e
  /\ emailOwner' = [emailOwner EXCEPT ![e] = None]
  /\ \/ recovery' = recovery \cup {<<a, e>>}
     \/ Lossy /\ UNCHANGED recovery
  /\ UNCHANGED <<status, email, password, token, issued, links, sent, jar, req>>

-----------------------------------------------------------------------------
(* Opening and closing an account *)

\* register: no account has the address.
StartRegistration(r, c, e) ==
  /\ "register" \in Ops /\ Free(r) /\ Room /\ AccountRoom
  /\ AccountsNamed(e) = {}
  /\ req' = [req EXCEPT ![r] = [Idle EXCEPT !.phase = "register",
                                  !.op = "register", !.client = c, !.email = e]]
  /\ UNCHANGED <<accountTables, token, issued, linkTables, jar>>

\* First commit: the account with its address, unless either table has it now.
CommitRegistration(r) ==
  LET e == req[r].email
      free == AccountsNamed(e) = {} /\ emailOwner[e] = None
  IN  /\ req[r].phase = "register"
      /\ \/ \E a \in Account :
              /\ free /\ status[a] = "new"
              /\ status' = [status EXCEPT ![a] = "open"]
              /\ email' = [email EXCEPT ![a] = e]
              /\ emailOwner' = [emailOwner EXCEPT ![e] = a]
              /\ req' = [req EXCEPT ![r].phase = "registered", ![r].account = a,
                                    ![r].pw = password[a]]
         \/ /\ ~free
            /\ Done(r)
            /\ UNCHANGED <<status, email, emailOwner>>
      /\ UNCHANGED <<password, token, issued, linkTables, jar>>

\* session.refresh(account); the session that is committed next is like a login's.
Registered(r) ==
  /\ req[r].phase = "registered" /\ Stays(r)
  /\ req' = [req EXCEPT ![r].phase = "login", ![r].email = email[req[r].account]]
  /\ UNCHANGED <<accountTables, token, issued, linkTables, jar>>

\* get_verified_account: who is logged in gives the password again.  The cascade of
\* session.delete reads the rows it will delete.
TokensOf(a) == {j \in Jti : token[j].account = a}
RecoveriesOf(a) == {e \in Email : <<a, e>> \in recovery}

StartDeletion(r, c, a) ==
  /\ "delete" \in Ops /\ Free(r)
  /\ a \in AccountsNamed(jar[c].sub)
  /\ req' = [req EXCEPT ![r] = [Idle EXCEPT !.phase = "delete", !.op = "delete",
                                  !.client = c, !.account = a, !.link = sent,
                                  !.seen = TokensOf(a), !.emails = RecoveriesOf(a)]]
  /\ UNCHANGED <<accountTables, token, issued, linkTables, jar>>

\* Rows of the account that were inserted since refuse the DELETE of the account.
Complete(r) ==
  LET q == req[r]
  IN  /\ TokensOf(q.account) \subseteq q.seen
      /\ \A l \in links : l.account = q.account => l.id <= q.link
      /\ RecoveriesOf(q.account) \subseteq q.emails

\* An account that is gone already is a warning.
CommitDeletion(r) ==
  LET a == req[r].account
  IN  /\ req[r].phase = "delete"
      /\ \/ /\ Stays(r) /\ Complete(r)
            /\ status' = [status EXCEPT ![a] = "closed"]
            /\ email' = [email EXCEPT ![a] = None]
            /\ emailOwner' = [e \in Email |-> IF emailOwner[e] = a THEN None ELSE emailOwner[e]]
            /\ token' = [j \in Jti |-> IF token[j].account = a
                                       THEN [token[j] EXCEPT !.account = None, !.revoked = TRUE]
                                       ELSE token[j]]
            /\ links' = {l \in links : l.account # a}
            /\ recovery' = {p \in recovery : p[1] # a}
         \/ /\ ~Stays(r)
            /\ UNCHANGED <<status, email, emailOwner, token, links, recovery>>
      /\ To(r, "leave")
      /\ UNCHANGED <<password, issued, sent, jar>>

\* Rows this module does not have (links to verify an address, links that were used
\* since) refuse it as well.
RefuseDeletion(r) ==
  /\ req[r].phase = "delete"
  /\ Done(r)
  /\ UNCHANGED <<accountTables, token, issued, linkTables, jar>>

\* The answer sends the browser to logout, with the cookies it has then.
Leave(r) ==
  /\ req[r].phase = "leave"
  /\ RevokeOnly({jar[req[r].client].refresh} \ {0})
  /\ To(r, "clear")
  /\ UNCHANGED <<accountTables, linkTables, jar>>

-----------------------------------------------------------------------------
(* Answers, time and failure *)

\* set_auth_cookies in the answer reaches the browser.
Respond(r) ==
  /\ req[r].phase = "respond"
  /\ jar' = [jar EXCEPT ![req[r].client] =
               [sub |-> req[r].email, pw |-> req[r].pw, refresh |-> req[r].jti]]
  /\ Done(r)
  /\ UNCHANGED <<accountTables, token, issued, linkTables>>

\* clear_auth_cookies
ClearCookies(r) ==
  /\ req[r].phase = "clear"
  /\ jar' = [jar EXCEPT ![req[r].client] = NoCookies]
  /\ Done(r)
  /\ UNCHANGED <<accountTables, token, issued, linkTables>>

\* The request dies: an exception, a killed worker, a lost answer.
Abort(r) ==
  /\ Lossy /\ ~Free(r)
  /\ Done(r)
  /\ UNCHANGED <<accountTables, token, issued, linkTables, jar>>

\* The 30 minutes of the access token pass before those of the refresh token.
AccessExpires(c) ==
  /\ jar[c].sub # None
  /\ jar' = [jar EXCEPT ![c] = [sub |-> None, pw |-> 0, refresh |-> @.refresh]]
  /\ UNCHANGED <<accountTables, token, issued, linkTables, req>>

\* Both expire, or the browser closes on session cookies.
CookiesExpire(c) ==
  /\ jar[c] # NoCookies
  /\ jar' = [jar EXCEPT ![c] = NoCookies]
  /\ UNCHANGED <<accountTables, token, issued, linkTables, req>>

LinkExpires(l) ==
  /\ links' = links \ {l}
  /\ UNCHANGED <<accountTables, token, issued, sent, recovery, jar, req>>

RecoveryExpires(link) ==
  /\ recovery' = recovery \ {link}
  /\ UNCHANGED <<accountTables, token, issued, links, sent, jar, req>>

Start(r) ==
  \/ \E c \in Client, op \in Ops : StartRotation(r, c, op)
  \/ \E c \in Client, a \in Account : CheckCredentials(r, c, a)
  \/ \E c \in Client : Logout(r, c)
  \/ \E a \in Account : AskForLink(r, a)
  \/ \E c \in Client, l \in links : FollowLink(r, c, l)
  \/ \E c \in Client, a \in Account, e \in Email : StartPromotion(r, c, a, e)
  \/ \E a \in Account, e \in Email : StartRecovery(r, a, e)
  \/ \E c \in Client, e \in Email : StartRegistration(r, c, e)
  \/ \E c \in Client, a \in Account : StartDeletion(r, c, a)

\* What the server does on its own once a request has arrived.
Serve(r) ==
  \/ FindAccount(r) \/ RefuseToken(r)
  \/ DetectReuse(r) \/ CommitReuse(r)
  \/ AcceptToken(r) \/ CommitRotation(r)
  \/ CommitLogin(r) \/ CommitLink(r)
  \/ CommitPassword(r) \/ SelectForReset(r) \/ CommitReset(r)
  \/ CommitPromotion(r) \/ IssuePromoted(r) \/ CommitRecoveryLink(r)
  \/ CommitRecovery(r)
  \/ CommitRegistration(r) \/ Registered(r)
  \/ CommitDeletion(r) \/ RefuseDeletion(r) \/ Leave(r)
  \/ LoseAccount(r)
  \/ Respond(r) \/ ClearCookies(r)

Environment ==
  \/ \E a \in Account, e \in Email : ClaimEmail(a, e) \/ ReleaseEmail(a, e)
  \/ \E c \in Client : AccessExpires(c) \/ CookiesExpire(c)
  \/ \E l \in links : LinkExpires(l)
  \/ \E link \in recovery : RecoveryExpires(link)

Next ==
  \/ \E r \in Request : Start(r) \/ Serve(r) \/ Abort(r)
  \/ Environment

Spec == Init /\ [][Next]_vars

\* The event loop and the thread pool run every request they have accepted.
Fairness == \A r \in Request : WF_vars(Serve(r))
FairSpec == Spec /\ Fairness

-----------------------------------------------------------------------------
(* Properties *)

AllIdle == \A r \in Request : Free(r)

\* The inductive invariant behind the theorems of SessionsProofs: open accounts have
\* an address, rows fill the jti space in order and belong to open accounts, every
\* jti at large was issued, and what a request carries agrees with the rows it was
\* read from as long as its account is there.
OpenHaveAddress == \A a \in Open : email[a] \in Email

RowsInOrder ==
  \A j \in Jti : IF j <= issued
                 THEN /\ token[j].account \in Open \cup {None} /\ token[j].sub \in Email
                      /\ token[j].account = None => token[j].revoked
                      /\ token[j].parent < j
                 ELSE token[j] = NoRow

Agrees(q) ==
  /\ q.jti <= issued
  /\ q.phase \in {"account", "row", "rotate", "reuse"} => q.jti # 0
  /\ q.phase \in {"account", "register"} => q.seen = {}
  /\ q.phase \notin {"idle", "account", "respond", "clear", "register"} =>
        q.account \in Account
  /\ q.phase \in {"delete", "leave"} => q.client \in Client
  /\ q.account # None => status[q.account] # "new"
  /\ q.phase \in {"row", "rotate", "login", "forgot", "reissue", "promote",
                  "notify", "recover", "register"} => q.email \in Email
  /\ q.phase \in {"promote", "promoted", "notify"} => q.old \in Email
  /\ q.account \in Open =>
        /\ q.phase \in {"rotate", "reuse"} => token[q.jti].account = q.account
        /\ \A j \in q.seen : token[j].account = q.account

RequestsAgree == \A r \in Request : Agrees(req[r])

CookiesIssued == \A c \in Client : jar[c].refresh <= issued

\* Rotation spends what it exchanges: whenever a token exists that was rotated
\* from another, the other is revoked, however many requests present it at
\* once (validate_token_and_get_account and POST /refresh).
ParentSpent ==
  \A j \in Jti : token[j].parent # 0 => token[token[j].parent].revoked

IInv == TypeOK /\ OpenHaveAddress /\ RowsInOrder /\ RequestsAgree /\ CookiesIssued /\ ParentSpent

\* A refresh token is exchanged at most once.
OneSuccessor ==
  \A i, j \in Jti : token[i].parent # 0 /\ token[i].parent = token[j].parent
                       => i = j

\* Once no request is in progress, no session survives that was opened with a
\* password the account no longer has.
OldPasswordDies ==
  AllIdle => \A j \in Jti : IsLive(j) => token[j].pw = password[token[j].account]

\* Once no request is in progress, every live token names the address its
\* account has now, so that its holder can still use it: promoting or
\* recovering an address leaves no session behind that only looks alive.
LiveTokensResolve ==
  AllIdle => \A j \in Jti : IsLive(j) => token[j].sub = email[token[j].account]

\* A browser that only uses the cookies it was given never presents a spent
\* token, so reuse detection never ends the sessions of an honest user.
NoSelfReplay == \A r \in Request : req[r].phase # "reuse"

\* Once a reset has logged its user in, that new session is the only one the
\* account has, and once a replayed token was detected the account has none
\* (revoke_all_refresh_tokens in reset_password, /refresh and dependencies.py).
RevocationComplete ==
  [][\A r \in Request, a \in Account : req[r].account = a =>
        /\ CommitReset(r) => LiveTokensOf(a)' = {issued'}
        /\ CommitReuse(r) => LiveTokensOf(a)' = {}]_vars

\* Presenting a refresh token only touches tokens of the account it was issued
\* to, even after the address that is its subject has become the primary
\* address of another account (the account_id check in dependencies.py).
TokenActsOnItsAccount ==
  [][\A r \in Request, j \in Jti :
        (CommitReuse(r) \/ CommitRotation(r)) /\ token'[j] # token[j] =>
           token'[j].account = token[req[r].jti].account]_vars

\* A refresh token that reaches the server and belongs to the account it names
\* ends up spent: exchanged, or swept with the tokens of its account.
PresentedTokenSpent ==
  \A r \in Request, j \in Jti :
     (req[r].phase = "row" /\ req[r].jti = j /\ token[j].account = req[r].account)
       ~> token[j].revoked

-----------------------------------------------------------------------------
(* Sessions implements the ledger: a revoked row is spent for good. *)

Ledger == INSTANCE SessionLedger WITH
  ledger <- [j \in Jti |->
              IF j > issued THEN [status |-> "unissued"]
              ELSE IF ~IsRow(j) THEN [status |-> "gone"]
              ELSE [status |-> IF token[j].revoked THEN "spent" ELSE "live",
                    account |-> token[j].account]],
  closed <- {a \in Account : status[a] = "closed"}

\* Every committed transaction issues at most one fresh token and revokes
\* tokens of that same account only, or deletes an account with all its tokens; no
\* interleaving revives a revoked token, moves one between accounts, or issues one
\* for an account that is deleted.
ImplementsLedger == Ledger!LedgerSpec
=============================================================================
