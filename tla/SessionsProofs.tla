---------------------------- MODULE SessionsProofs ----------------------------
(***************************************************************************)
(* Theorems about Sessions for any accounts, browsers, concurrent requests  *)
(* and bounds: type correctness, ParentSpent, TokenActsOnItsAccount, and    *)
(* that Sessions implements SessionLedger.  All four rest on IInv, which is *)
(* inductive: its parts tie the jtis and accounts that a request carries    *)
(* between two statements to rows that other requests may be changing, as   *)
(* long as the account is there.                                            *)
(* The last two parts prove what holds of requests that do not overlap:     *)
(* OneSuccessor, LiveTokensResolve, RevocationComplete, OldPasswordDies.    *)
(***************************************************************************)
EXTENDS Sessions, TLAPS

\* The conjuncts of IInv that speak of the token table.
TokensOK ==
  /\ token \in [Jti -> Row]
  /\ issued \in 0..MaxJti
  /\ RowsInOrder
  /\ ParentSpent

\* An account that was there does not come back once it is closed.
NoneReopens ==
  \A a \in Account : status[a] # "new" =>
    /\ status'[a] # "new"
    /\ status'[a] = "open" => status[a] = "open"

\* No step takes a row away from an account that stays, or moves it.
AccountsKept ==
  /\ issued <= issued'
  /\ NoneReopens
  /\ \A j \in 1..issued : token[j].account \in Open' => token'[j].account = token[j].account

LEMMA InitInv == Init => IInv
  <1> SUFFICES ASSUME Init PROVE IInv
    OBVIOUS
  <1> USE SessionConstants
  <1>1. TypeOK
    <2>1. Idle \in Req
      BY DEF Idle, Req, Phase, MaybeAccount, MaybeEmail, Version, Jti
    <2>2. emailOwner \in [Email -> MaybeAccount]
      <3> SUFFICES ASSUME NEW e \in Email
                   PROVE  (IF \E a \in Account : email[a] = e
                           THEN CHOOSE a \in Account : email[a] = e
                           ELSE None) \in MaybeAccount
        BY DEF Init
      <3> QED
        BY DEF MaybeAccount
    <2>3. token \in [Jti -> Row]
      BY DEF Init, NoRow, Row, MaybeAccount, MaybeEmail, Version
    <2>4. jar \in [Client -> Cookies]
      BY DEF Init, NoCookies, Cookies, MaybeEmail, Version
    <2>5. status \in [Account -> {"new", "open", "closed"}] /\ email \in [Account -> MaybeEmail]
      BY DEF Init
    <2> QED
      BY <2>1, <2>2, <2>3, <2>4, <2>5 DEF Init, TypeOK, Version
  <1>2. RowsInOrder
    BY DEF Init, RowsInOrder, Jti
  <1>3. RequestsAgree
    BY DEF Init, RequestsAgree, Agrees, Idle, Open
  <1>4. CookiesIssued
    BY DEF Init, CookiesIssued, NoCookies
  <1>5. ParentSpent
    BY DEF Init, ParentSpent, NoRow
  <1>6. OpenHaveAddress
    BY DEF Init, OpenHaveAddress, Open, MaybeEmail
  <1> QED
    BY <1>1, <1>2, <1>3, <1>4, <1>5, <1>6 DEF IInv

-----------------------------------------------------------------------------
(* What the three kinds of commit do to the token table *)

\* Revoking issued tokens keeps the table in order.
LEMMA RevokeOnlyKeeps ==
  ASSUME TokensOK, NEW S \in SUBSET (1..issued), RevokeOnly(S), UNCHANGED status
  PROVE  TokensOK' /\ AccountsKept
  <1> USE SessionConstants DEF TokensOK, Jti
  <1>1. issued' = issued /\ Open' = Open
    BY DEF RevokeOnly, Open
  <1>2. token' \in [Jti -> Row]
    BY DEF RevokeOnly, Revoked, Row
  <1>3. \A j \in Jti : token'[j] = IF j \in S THEN [token[j] EXCEPT !.revoked = TRUE]
                                            ELSE token[j]
    BY DEF RevokeOnly, Revoked
  <1>4. \A j \in Jti : /\ token'[j].account = token[j].account
                       /\ token'[j].sub = token[j].sub
                       /\ token'[j].parent = token[j].parent
                       /\ token[j].revoked => token'[j].revoked
    BY <1>3 DEF Row
  <1>5. RowsInOrder'
    <2> SUFFICES ASSUME NEW j \in Jti
                 PROVE  IF j <= issued'
                        THEN /\ token'[j].account \in Open \cup {None} /\ token'[j].sub \in Email
                             /\ token'[j].account = None => token'[j].revoked
                             /\ token'[j].parent < j
                        ELSE token'[j] = NoRow
      BY <1>1 DEF RowsInOrder
    <2>1. CASE j <= issued
      BY <1>1, <1>4, <2>1 DEF RowsInOrder
    <2>2. CASE ~(j <= issued)
      <3>1. j \notin S
        BY <2>2
      <3> QED
        BY <1>1, <1>3, <2>2, <3>1 DEF RowsInOrder
    <2> QED
      BY <2>1, <2>2
  <1>6. ParentSpent'
    <2> SUFFICES ASSUME NEW j \in Jti, token'[j].parent # 0
                 PROVE  token'[token'[j].parent].revoked
      BY DEF ParentSpent
    <2> DEFINE p == token[j].parent
    <2>1. token'[j].parent = p /\ p \in Jti
      BY <1>4 DEF Row, Jti
    <2>2. token[p].revoked
      BY <2>1 DEF ParentSpent
    <2> QED
      BY <1>4, <2>1, <2>2
  <1>7. AccountsKept
    BY <1>1, <1>4 DEF AccountsKept, NoneReopens
  <1> QED
    BY <1>1, <1>2, <1>5, <1>6, <1>7

\* Issuing the next jti, while revoking at least its parent, does too.
LEMMA RevokeAndIssueKeeps ==
  ASSUME TokensOK, NEW S \in SUBSET (1..issued), NEW a \in Open,
         NEW e \in Email, NEW parent \in S \cup {0}, NEW pw \in Version,
         RevokeAndIssue(S, a, e, parent, pw), UNCHANGED status
  PROVE  TokensOK' /\ AccountsKept
  <1> USE SessionConstants DEF TokensOK, Jti
  <1> DEFINE new == issued + 1
  <1>0. Open' = Open /\ a \in Account
    BY DEF Open
  <1>1. issued' = new /\ new \in Jti /\ new \notin S /\ parent # new
    BY DEF RevokeAndIssue, Jti
  <1>2. NewRow(a, e, parent, pw) \in Row
    BY <1>0 DEF NewRow, Row, MaybeAccount, MaybeEmail, Jti
  <1>3. Revoked(S) \in [Jti -> Row]
    BY DEF Revoked, Row
  <1>4. token' \in [Jti -> Row] /\ token'[new] = NewRow(a, e, parent, pw)
    BY <1>1, <1>2, <1>3 DEF RevokeAndIssue
  <1>5. \A j \in Jti \ {new} :
           token'[j] = IF j \in S THEN [token[j] EXCEPT !.revoked = TRUE]
                                  ELSE token[j]
    BY <1>1, <1>3 DEF RevokeAndIssue, Revoked
  <1>6. \A j \in Jti \ {new} : /\ token'[j].account = token[j].account
                               /\ token'[j].sub = token[j].sub
                               /\ token'[j].parent = token[j].parent
                               /\ j \in S \/ token[j].revoked => token'[j].revoked
    BY <1>5 DEF Row
  <1>7. RowsInOrder'
    <2> SUFFICES ASSUME NEW j \in Jti
                 PROVE  IF j <= issued'
                        THEN /\ token'[j].account \in Open \cup {None} /\ token'[j].sub \in Email
                             /\ token'[j].account = None => token'[j].revoked
                             /\ token'[j].parent < j
                        ELSE token'[j] = NoRow
      BY <1>0 DEF RowsInOrder
    <2>1. CASE j = new
      BY <1>0, <1>1, <1>4, <2>1 DEF NewRow, Jti
    <2>2. CASE j # new /\ j <= issued
      BY <1>1, <1>6, <2>2 DEF RowsInOrder, Jti
    <2>3. CASE j # new /\ ~(j <= issued)
      <3>1. j \notin S /\ ~(j <= issued')
        BY <1>1, <2>3
      <3>2. token'[j] = token[j]
        BY <1>5, <2>3, <3>1
      <3> QED
        BY <2>3, <3>1, <3>2 DEF RowsInOrder
    <2> QED
      BY <2>1, <2>2, <2>3
  <1>8. ParentSpent'
    <2> SUFFICES ASSUME NEW j \in Jti, token'[j].parent # 0
                 PROVE  token'[token'[j].parent].revoked
      BY DEF ParentSpent
    <2>1. CASE j = new
      <3>1. token'[j].parent = parent /\ parent \in S
        BY <1>4, <2>1 DEF NewRow
      <3> QED
        BY <1>1, <1>6, <3>1 DEF Jti
    <2>2. CASE j # new
      <3> DEFINE p == token[j].parent
      <3>1. token'[j].parent = p /\ p \in Jti
        BY <1>6, <2>2 DEF Row, Jti
      <3>2. token[p].revoked
        BY <3>1 DEF ParentSpent
      <3>3. p # new
        BY <3>1 DEF RowsInOrder, NoRow, Jti
      <3> QED
        BY <1>6, <3>1, <3>2, <3>3
    <2> QED
      BY <2>1, <2>2
  <1>9. AccountsKept
    BY <1>0, <1>1, <1>6 DEF AccountsKept, NoneReopens, Jti
  <1> QED
    BY <1>1, <1>4, <1>7, <1>8, <1>9 DEF Jti

\* An account goes, and its tokens with it.
Closes(a) ==
  /\ status' = [status EXCEPT ![a] = "closed"]
  /\ token' = [j \in Jti |-> IF token[j].account = a
                             THEN [token[j] EXCEPT !.account = None, !.revoked = TRUE]
                             ELSE token[j]]
  /\ UNCHANGED issued

\* What becomes of each row then.
LEMMA RowsClosed ==
  ASSUME token \in [Jti -> Row], NEW a \in Account, Closes(a)
  PROVE  /\ token' \in [Jti -> Row]
         /\ \A j \in Jti :
              /\ token[j].account = a => token'[j].account = None /\ token'[j].revoked
              /\ token[j].account # a => token'[j] = token[j]
              /\ token[j].revoked => token'[j].revoked
              /\ token'[j].sub = token[j].sub
              /\ token'[j].parent = token[j].parent
              /\ token'[j].pw = token[j].pw
  BY DEF Closes, Row, MaybeAccount

LEMMA ClosingKeeps ==
  ASSUME TokensOK, status \in [Account -> {"new", "open", "closed"}],
         NEW a \in Account, Closes(a)
  PROVE  TokensOK' /\ AccountsKept
  <1> USE SessionConstants DEF TokensOK, Jti
  <1>1. issued' = issued /\ Open' = Open \ {a}
    BY DEF Closes, Open
  <1>2. RowsInOrder'
    <2> SUFFICES ASSUME NEW j \in Jti
                 PROVE  IF j <= issued'
                        THEN /\ token'[j].account \in (Open \ {a}) \cup {None}
                             /\ token'[j].sub \in Email
                             /\ token'[j].account = None => token'[j].revoked
                             /\ token'[j].parent < j
                        ELSE token'[j] = NoRow
      BY <1>1 DEF RowsInOrder
    <2>1. CASE j <= issued
      BY <1>1, <2>1, RowsClosed DEF RowsInOrder
    <2>2. CASE ~(j <= issued)
      <3>1. token[j] = NoRow /\ token[j].account # a
        BY <2>2 DEF RowsInOrder, NoRow
      <3>2. token'[j] = token[j]
        BY <3>1, RowsClosed
      <3> QED
        BY <1>1, <2>2, <3>1, <3>2
    <2> QED
      BY <2>1, <2>2
  <1>3. ParentSpent'
    <2> SUFFICES ASSUME NEW j \in Jti, token'[j].parent # 0
                 PROVE  token'[token'[j].parent].revoked
      BY DEF ParentSpent
    <2> DEFINE p == token[j].parent
    <2>1. token'[j].parent = p /\ p \in Jti
      BY RowsClosed DEF Row
    <2>2. token[p].revoked
      BY <2>1 DEF ParentSpent
    <2> QED
      BY <2>1, <2>2, RowsClosed
  <1>4. AccountsKept
    <2>1. NoneReopens
      BY DEF Closes, NoneReopens
    <2>2. \A j \in 1..issued : token[j].account \in Open' => token'[j].account = token[j].account
      BY <1>1, RowsClosed
    <2> QED
      BY <1>1, <2>1, <2>2 DEF AccountsKept
  <1> QED
    BY <1>1, <1>2, <1>3, <1>4, RowsClosed

-----------------------------------------------------------------------------
(* What is left to show of a step, once the token table is settled *)

TablesOK ==
  /\ status \in [Account -> {"new", "open", "closed"}]
  /\ email \in [Account -> MaybeEmail]
  /\ OpenHaveAddress
  /\ emailOwner \in [Email -> MaybeAccount]
  /\ password \in [Account -> Version]
  /\ links \subseteq Link
  /\ sent \in 0..MaxLink
  /\ recovery \subseteq Account \X Email

CookiesOK == jar \in [Client -> Cookies] /\ CookiesIssued

\* A request only ever selects tokens that were issued.
LEMMA SeenIssued ==
  ASSUME IInv, NEW r \in Request, req[r].account \in Open
  PROVE  req[r].seen \in SUBSET (1..issued)
  <1> SUFFICES ASSUME NEW j \in req[r].seen
               PROVE  j \in 1..issued
    OBVIOUS
  <1>1. j \in Jti
    BY DEF IInv, TypeOK, Req
  <1>2. token[j].account \in Account
    BY DEF IInv, RequestsAgree, Agrees, Open
  <1>3. j <= issued
    BY <1>1, <1>2, SessionConstants DEF IInv, RowsInOrder, NoRow
  <1> QED
    BY <1>1, <1>3, SessionConstants DEF Jti, IInv, TypeOK

LEMMA TokensSame ==
  ASSUME IInv, UNCHANGED <<status, token, issued>>
  PROVE  TokensOK' /\ AccountsKept
  BY DEF IInv, TypeOK, TokensOK, AccountsKept, NoneReopens, RowsInOrder, ParentSpent, Open

\* Accounts may be opened while the tokens stay as they are.
LEMMA OpeningKeeps ==
  ASSUME IInv, UNCHANGED <<token, issued>>, NEW a \in Account, status[a] = "new",
         status' = [status EXCEPT ![a] = "open"]
  PROVE  TokensOK' /\ AccountsKept
  <1>1. status \in [Account -> {"new", "open", "closed"}] /\ Open' = Open \cup {a}
    BY DEF IInv, TypeOK, Open
  <1>2. RowsInOrder' /\ ParentSpent'
    BY <1>1 DEF IInv, RowsInOrder, ParentSpent
  <1>3. NoneReopens
    BY <1>1 DEF NoneReopens
  <1> QED
    BY <1>2, <1>3 DEF IInv, TypeOK, TokensOK, AccountsKept

\* What a request carries from before a step still agrees with the rows after it.
LEMMA CarriedAgrees ==
  ASSUME IInv, TokensOK', AccountsKept, NEW s \in Request
  PROVE  /\ req[s].jti <= issued'
         /\ req[s].account # None => status'[req[s].account] # "new"
         /\ req[s].account \in Open' =>
              /\ req[s].account \in Open
              /\ \A j \in req[s].seen : token'[j].account = req[s].account
              /\ req[s].phase \in {"rotate", "reuse"} =>
                    token'[req[s].jti].account = req[s].account
  <1> USE SessionConstants
  <1> DEFINE q == req[s]
  <1>1. q \in Req /\ Agrees(q) /\ q.account \in Account \cup {None}
    BY DEF IInv, TypeOK, RequestsAgree, Req, MaybeAccount
  <1>2. issued \in Nat /\ issued' \in Nat /\ issued <= issued' /\ q.jti \in Nat
    BY <1>1 DEF IInv, TypeOK, TokensOK, AccountsKept, Req
  <1>3. q.jti <= issued'
    BY <1>1, <1>2 DEF Agrees
  <1>4. q.account # None => status'[q.account] # "new"
    BY <1>1 DEF Agrees, AccountsKept, NoneReopens
  <1>5. ASSUME q.account \in Open'
        PROVE  /\ q.account \in Open
               /\ \A j \in q.seen : token'[j].account = q.account
               /\ q.phase \in {"rotate", "reuse"} => token'[q.jti].account = q.account
    <2>1. q.account \in Open /\ q.account \in Account
      BY <1>1, <1>5 DEF Agrees, AccountsKept, NoneReopens, Open
    <2>2. \A j \in q.seen : token'[j].account = q.account
      BY <1>1, <1>5, <2>1, SeenIssued DEF Agrees, AccountsKept
    <2>3. q.phase \in {"rotate", "reuse"} => token'[q.jti].account = q.account
      BY <1>1, <1>2, <1>5, <2>1 DEF Agrees, AccountsKept
    <2> QED
      BY <2>1, <2>2, <2>3
  <1> QED
    BY <1>3, <1>4, <1>5

\* Whatever happens to the rows, requests that do not move stay in agreement
\* with them.
LEMMA OthersAgree ==
  ASSUME IInv, TokensOK', AccountsKept, NEW s \in Request, req'[s] = req[s]
  PROVE  Agrees(req[s])'
  <1>1. Agrees(req[s])
    BY DEF IInv, RequestsAgree
  <1> QED
    BY <1>1, CarriedAgrees DEF Agrees

\* The shape of every step of one request.
LEMMA RequestStep ==
  ASSUME IInv, NEW r \in Request, TokensOK', AccountsKept, TablesOK',
         CookiesOK', NEW q \in Req, req' = [req EXCEPT ![r] = q],
         Agrees(req[r])'
  PROVE  IInv'
  <1>1. req' \in [Request -> Req]
    BY DEF IInv, TypeOK
  <1>2. RequestsAgree'
    <2> SUFFICES ASSUME NEW s \in Request PROVE Agrees(req[s])'
      BY DEF RequestsAgree
    <2>1. CASE s = r
      BY <2>1
    <2>2. CASE s # r
      <3>1. req'[s] = req[s]
        BY <2>2 DEF IInv, TypeOK
      <3> QED
        BY <3>1, OthersAgree
    <2> QED
      BY <2>1, <2>2
  <1> QED
    BY <1>1, <1>2 DEF IInv, TypeOK, TokensOK, TablesOK, CookiesOK

\* A step that only moves the request itself.
LEMMA QuietStep ==
  ASSUME IInv, NEW r \in Request,
         UNCHANGED <<accountTables, token, issued, linkTables, jar>>,
         NEW q \in Req, req' = [req EXCEPT ![r] = q], Agrees(q)
  PROVE  IInv'
  <1>0. UNCHANGED <<status, token, issued>>
    BY DEF accountTables
  <1>1. TokensOK' /\ AccountsKept
    BY <1>0, TokensSame
  <1>2. TablesOK' /\ CookiesOK'
    BY DEF IInv, TypeOK, TablesOK, CookiesOK, CookiesIssued, accountTables, linkTables,
           OpenHaveAddress, Open
  <1>3. Agrees(req[r])'
    <2>1. req'[r] = q
      BY DEF IInv, TypeOK
    <2> QED
      BY <1>0, <2>1 DEF Agrees, Open
  <1> QED
    BY <1>1, <1>2, <1>3, RequestStep

\* Nothing in progress agrees with anything.
LEMMA IdleOK == IInv => Idle \in Req /\ Agrees(Idle)
  BY SessionConstants
     DEF IInv, TypeOK, Idle, Req, Agrees, Phase, MaybeAccount, MaybeEmail, Version, Jti, Open

\* A request may die at any point, or be refused.
LEMMA DoneKeeps ==
  ASSUME IInv, NEW r \in Request, Done(r),
         UNCHANGED <<accountTables, token, issued, linkTables, jar>>
  PROVE  IInv'
  BY IdleOK, QuietStep DEF Done

-----------------------------------------------------------------------------
(* A request arrives *)

\* Writing one field of a request; several writes are several uses.
LEMMA SetField ==
  \A q \in Req :
    /\ \A x \in Phase : [q EXCEPT !.phase = x] \in Req
    /\ \A x \in Ops \cup {"none"} : [q EXCEPT !.op = x] \in Req
    /\ \A x \in Client \cup {None} : [q EXCEPT !.client = x] \in Req
    /\ \A x \in Account : [q EXCEPT !.account = x] \in Req
    /\ \A x \in 0..MaxJti : [q EXCEPT !.jti = x] \in Req
    /\ \A x \in MaybeEmail : [q EXCEPT !.email = x] \in Req
    /\ \A x \in MaybeEmail : [q EXCEPT !.old = x] \in Req
    /\ \A x \in Version : [q EXCEPT !.pw = x] \in Req
    /\ \A x \in 0..MaxLink : [q EXCEPT !.link = x] \in Req
    /\ \A x \in SUBSET Jti : [q EXCEPT !.seen = x] \in Req
    /\ \A x \in SUBSET Email : [q EXCEPT !.emails = x] \in Req
  BY DEF Req, MaybeAccount

\* Revoking the token that a browser presents, whoever it belongs to.
LEMMA PresentedRevoked ==
  ASSUME IInv, NEW c \in Client, RevokeOnly({jar[c].refresh} \ {0}), UNCHANGED status
  PROVE  TokensOK' /\ AccountsKept
  <1>1. {jar[c].refresh} \ {0} \in SUBSET (1..issued)
    BY SessionConstants DEF Cookies, IInv, CookiesIssued, TypeOK
  <1> QED
    BY <1>1, RevokeOnlyKeeps DEF IInv, TypeOK, TokensOK

LEMMA StartKeeps ==
  ASSUME IInv, NEW r \in Request, Start(r)
  PROVE  IInv'
  <1> USE SessionConstants
  <1> USE DEF Agrees, Phase, MaybeEmail, Open
  <1>0. /\ Idle \in Req
        /\ Ops \subseteq AllOps
        /\ email \in [Account -> MaybeEmail] /\ password \in [Account -> Version]
        /\ \A a \in Open : email[a] \in Email
        /\ jar \in [Client -> Cookies] /\ links \subseteq Link
        /\ recovery \subseteq Account \X Email /\ issued \in Nat /\ sent \in 0..MaxLink
        /\ token \in [Jti -> Row]
    BY IdleOK DEF IInv, TypeOK, OpenHaveAddress
  <1>1. ASSUME NEW c \in Client, NEW op \in Ops, StartRotation(r, c, op)
        PROVE  IInv'
    <2> DEFINE q == [Idle EXCEPT !.phase = "account", !.op = op,
                                 !.client = c, !.jti = jar[c].refresh]
    <2>1. jar[c].refresh \in 0..MaxJti /\ jar[c].refresh <= issued
      BY <1>0 DEF Cookies, IInv, CookiesIssued
    <2>2. q \in Req
      BY <1>0, <2>1, SetField
    <2>3. Agrees(q)
      BY <1>1, <2>1 DEF StartRotation, Idle
    <2> QED
      BY <1>1, <2>2, <2>3, QuietStep DEF StartRotation
  <1>2. ASSUME NEW c \in Client, NEW a \in Account, CheckCredentials(r, c, a)
        PROVE  IInv'
    <2> DEFINE q == [Idle EXCEPT !.phase = "login", !.op = "login",
                                 !.client = c, !.account = a,
                                 !.email = email[a], !.pw = password[a]]
    <2>1. q \in Req
      BY <1>0, <1>2, SetField DEF CheckCredentials, Version, Jti, LiveTokensOf, Cookies
    <2>2. Agrees(q)
      BY <1>0, <1>2 DEF Idle, CheckCredentials
    <2> QED
      BY <1>2, <2>1, <2>2, QuietStep DEF CheckCredentials
  <1>3. ASSUME NEW c \in Client, Logout(r, c)
        PROVE  IInv'
    <2> DEFINE q == [Idle EXCEPT !.phase = "clear", !.op = "logout", !.client = c]
    <2>1. UNCHANGED <<accountTables, linkTables, jar>> /\ UNCHANGED <<status, issued>>
      BY <1>3 DEF Logout, RevokeOnly, accountTables
    <2>2. TokensOK' /\ AccountsKept
      BY <1>3, <2>1, PresentedRevoked DEF Logout
    <2>3. TablesOK' /\ CookiesOK'
      BY <2>1 DEF IInv, TypeOK, TablesOK, CookiesOK, CookiesIssued,
                  accountTables, linkTables, OpenHaveAddress
    <2>4. q \in Req
      BY <1>0, <1>3, SetField DEF Logout
    <2>5. req' = [req EXCEPT ![r] = q] /\ req'[r] = q
      BY <1>3 DEF Logout, IInv, TypeOK
    <2>6. q.phase = "clear" /\ q.jti = 0 /\ q.seen = {} /\ q.account = None
      BY DEF Idle
    <2>7. Agrees(req[r])'
      <3> HIDE DEF q
      <3> QED
        BY <2>2, <2>5, <2>6 DEF TokensOK
    <2> QED
      BY <2>2, <2>3, <2>4, <2>5, <2>7, RequestStep
  <1>4. ASSUME NEW a \in Account, AskForLink(r, a)
        PROVE  IInv'
    <2> DEFINE q == [Idle EXCEPT !.phase = "forgot", !.op = "forgot",
                                 !.account = a, !.email = email[a]]
    <2>1. q \in Req
      BY <1>0, <1>4, SetField DEF AskForLink, Version, Jti, LiveTokensOf, Cookies
    <2>2. Agrees(q)
      BY <1>0, <1>4 DEF Idle, AskForLink
    <2> QED
      BY <1>4, <2>1, <2>2, QuietStep DEF AskForLink
  <1>5. ASSUME NEW c \in Client, NEW l \in links, FollowLink(r, c, l)
        PROVE  IInv'
    <2> DEFINE q == [Idle EXCEPT !.phase = "reset", !.op = "reset",
                                 !.client = c, !.account = l.account,
                                 !.link = l.id]
    <2>1. l.account \in Open /\ l.id \in 0..MaxLink
      BY <1>0, <1>5 DEF Link, FollowLink, AccountsNamed
    <2>2. q \in Req
      BY <1>0, <1>5, <2>1, SetField DEF FollowLink
    <2>3. Agrees(q)
      BY <1>0, <2>1 DEF Idle
    <2> QED
      BY <1>5, <2>2, <2>3, QuietStep DEF FollowLink
  <1>6. ASSUME NEW c \in Client, NEW a \in Account, NEW e \in Email,
               StartPromotion(r, c, a, e)
        PROVE  IInv'
    <2> DEFINE q == [Idle EXCEPT !.phase = "promote",
                                 !.op = "promote", !.client = c,
                                 !.account = a, !.email = e, !.old = email[a],
                                 !.pw = jar[c].pw, !.seen = LiveTokensOf(a)]
    <2>0. a \in Open
      BY <1>6 DEF StartPromotion, AccountsNamed
    <2>1. q \in Req
      BY <1>0, <1>6, SetField DEF StartPromotion, Version, Jti, LiveTokensOf, Cookies
    <2>2. Agrees(q)
      BY <1>0, <2>0 DEF LiveTokensOf, Idle
    <2> QED
      BY <1>6, <2>1, <2>2, QuietStep DEF StartPromotion
  <1>7. ASSUME NEW a \in Account, NEW e \in Email, StartRecovery(r, a, e)
        PROVE  IInv'
    <2> DEFINE q == [Idle EXCEPT !.phase = "recover",
                                 !.op = "recover", !.account = a, !.email = e,
                                 !.old = email[a], !.seen = LiveTokensOf(a),
                                 !.emails = AddressesOf(a)]
    <2>0. a \in Open /\ AddressesOf(a) \in SUBSET Email
      BY <1>7 DEF StartRecovery, AddressesOf
    <2>1. q \in Req
      BY <1>0, <1>7, <2>0, SetField DEF StartRecovery, Version, Jti, LiveTokensOf, Cookies
    <2>2. Agrees(q)
      BY <1>0, <2>0 DEF LiveTokensOf, Idle
    <2> QED
      BY <1>7, <2>1, <2>2, QuietStep DEF StartRecovery
  <1>8. ASSUME NEW c \in Client, NEW e \in Email, StartRegistration(r, c, e)
        PROVE  IInv'
    <2> DEFINE q == [Idle EXCEPT !.phase = "register", !.op = "register",
                                 !.client = c, !.email = e]
    <2>1. q \in Req
      BY <1>0, <1>8, SetField DEF StartRegistration
    <2>2. Agrees(q)
      BY <1>0 DEF Idle
    <2> QED
      BY <1>8, <2>1, <2>2, QuietStep DEF StartRegistration
  <1>9. ASSUME NEW c \in Client, NEW a \in Account, StartDeletion(r, c, a)
        PROVE  IInv'
    <2> DEFINE q == [Idle EXCEPT !.phase = "delete", !.op = "delete",
                                 !.client = c, !.account = a, !.link = sent,
                                 !.seen = TokensOf(a), !.emails = RecoveriesOf(a)]
    <2>0. /\ a \in Open
          /\ TokensOf(a) \in SUBSET Jti /\ RecoveriesOf(a) \in SUBSET Email
          /\ \A j \in TokensOf(a) : token[j].account = a
      BY <1>9 DEF StartDeletion, AccountsNamed, TokensOf, RecoveriesOf
    <2>1. q \in Req
      BY <1>0, <1>9, <2>0, SetField DEF StartDeletion
    <2>2. Agrees(q)
      BY <1>0, <2>0 DEF Idle
    <2> QED
      BY <1>9, <2>1, <2>2, QuietStep DEF StartDeletion
  <1> QED
    BY <1>1, <1>2, <1>3, <1>4, <1>5, <1>6, <1>7, <1>8, <1>9 DEF Start

-----------------------------------------------------------------------------
(* The server moves a request on *)

\* Steps that only read.
LEMMA ReadingKeeps ==
  ASSUME IInv, NEW r \in Request,
         \/ FindAccount(r) \/ RefuseToken(r) \/ DetectReuse(r)
         \/ AcceptToken(r) \/ SelectForReset(r) \/ Registered(r)
         \/ RefuseDeletion(r) \/ LoseAccount(r)
  PROVE  IInv'
  <1> USE SessionConstants
  <1> DEFINE p == req[r]
  <1>0. /\ p \in Req /\ Agrees(p)
        /\ email \in [Account -> MaybeEmail] /\ token \in [Jti -> Row]
        /\ \A a \in Open : email[a] \in Email /\ a \in Account /\ status[a] = "open"
        /\ issued \in 0..MaxJti /\ req \in [Request -> Req]
    BY DEF IInv, TypeOK, RequestsAgree, OpenHaveAddress, Open
  <1>1. CASE FindAccount(r)
    <2> DEFINE sub == token[p.jti].sub
    <2>1. CASE Done(r)
      BY <1>1, <2>1, DoneKeeps DEF FindAccount
    <2>2. ASSUME NEW a \in AccountsNamed(sub),
                 req' = [req EXCEPT ![r].phase = "row", ![r].account = a,
                                    ![r].email = sub]
          PROVE  IInv'
      <3> DEFINE q == [p EXCEPT !.phase = "row", !.account = a, !.email = sub]
      <3>1. a \in Open /\ a \in Account /\ sub \in Email
        BY <1>0, <2>2 DEF AccountsNamed
      <3>2. q \in Req
        BY <1>0, <3>1, SetField DEF Phase, MaybeEmail
      <3>3. Agrees(q)
        <4>1. p.phase = "account"
          BY <1>1 DEF FindAccount
        <4>2. p.jti \in Jti /\ p.jti <= issued /\ p.seen = {} /\ status[a] = "open"
          BY <1>0, <3>1, <4>1 DEF Agrees, Req, Jti
        <4>3. /\ q.phase = "row" /\ q.jti = p.jti /\ q.seen = {} /\ q.account = a
              /\ q.email = sub
          BY <1>0, <4>2 DEF Req
        <4> HIDE DEF q, p
        <4> QED
          BY <3>1, <4>2, <4>3 DEF Agrees, Jti
      <3>4. req' = [req EXCEPT ![r] = q]
        BY <2>2
      <3> QED
        BY <1>1, <3>2, <3>3, <3>4, QuietStep DEF FindAccount
    <2> QED
      BY <1>1, <2>1, <2>2 DEF FindAccount
  <1>2. CASE RefuseToken(r) \/ RefuseDeletion(r) \/ LoseAccount(r)
    BY <1>2, DoneKeeps DEF RefuseToken, RefuseDeletion, LoseAccount
  <1>3. CASE DetectReuse(r)
    <2> DEFINE q == [p EXCEPT !.phase = "reuse", !.seen = LiveTokensOf(p.account)]
    <2>1. /\ p.phase = "row" /\ p.jti \in Jti /\ p.account \in Account
          /\ token[p.jti].account = p.account
      BY <1>0, <1>3 DEF DetectReuse, Agrees, Req, Jti
    <2>2. q \in Req
      BY <1>0, <2>1, SetField DEF Phase, LiveTokensOf
    <2>3. Agrees(q)
      BY <1>0, <2>1 DEF Agrees, Req, LiveTokensOf
    <2>4. req' = [req EXCEPT ![r] = q]
      BY <1>3 DEF DetectReuse
    <2> QED
      BY <1>3, <2>2, <2>3, <2>4, QuietStep DEF DetectReuse
  <1>4. CASE AcceptToken(r)
    <2> DEFINE q == [p EXCEPT !.phase = "rotate"]
    <2>1. p.phase = "row" /\ p.jti \in Jti
      BY <1>0, <1>4 DEF AcceptToken, Agrees, Req, Jti
    <2>2. q \in Req
      BY <1>0, SetField DEF Phase
    <2>3. Agrees(q)
      BY <1>0, <1>4, <2>1 DEF AcceptToken, Agrees, Req
    <2>4. req' = [req EXCEPT ![r] = q]
      BY <1>4 DEF AcceptToken, To
    <2> QED
      BY <1>4, <2>2, <2>3, <2>4, QuietStep DEF AcceptToken
  <1>5. CASE SelectForReset(r)
    <2> DEFINE a == p.account
               q == [p EXCEPT !.phase = "reissue", !.email = email[a],
                              !.seen = LiveTokensOf(a)]
    <2>1. p.phase = "sweep" /\ a \in Account /\ email[a] \in Email
      BY <1>0, <1>5 DEF SelectForReset, Stays
    <2>2. q \in Req
      BY <1>0, <2>1, SetField DEF Phase, MaybeEmail, LiveTokensOf
    <2>3. Agrees(q)
      BY <1>0, <2>1 DEF Agrees, Req, LiveTokensOf
    <2>4. req' = [req EXCEPT ![r] = q]
      BY <1>5 DEF SelectForReset
    <2> QED
      BY <1>5, <2>2, <2>3, <2>4, QuietStep DEF SelectForReset
  <1>6. CASE Registered(r)
    <2> DEFINE a == p.account
               q == [p EXCEPT !.phase = "login", !.email = email[a]]
    <2>1. p.phase = "registered" /\ a \in Account /\ email[a] \in Email
      BY <1>0, <1>6 DEF Registered, Stays
    <2>2. q \in Req
      BY <1>0, <2>1, SetField DEF Phase, MaybeEmail
    <2>3. Agrees(q)
      BY <1>0, <2>1 DEF Agrees, Req
    <2>4. req' = [req EXCEPT ![r] = q]
      BY <1>6 DEF Registered
    <2> QED
      BY <1>6, <2>2, <2>3, <2>4, QuietStep DEF Registered
  <1> QED
    BY <1>1, <1>2, <1>3, <1>4, <1>5, <1>6

-----------------------------------------------------------------------------
(* What any step does to the token table *)

\* Tokens stay as they are, tokens S of one account are revoked and perhaps one
\* of that account is issued, or an account goes with its tokens.
TokenStep ==
  \/ UNCHANGED <<status, token, issued>>
  \/ /\ UNCHANGED <<token, issued>>
     /\ \E a \in Account : status[a] = "new" /\ status' = [status EXCEPT ![a] = "open"]
  \/ /\ UNCHANGED status
     /\ \E a \in Open, S \in SUBSET (1..issued) :
          /\ \A j \in S : token[j].account = a
          /\ \/ RevokeOnly(S)
             \/ \E e \in Email, parent \in S \cup {0}, pw \in Version :
                   RevokeAndIssue(S, a, e, parent, pw)
  \/ \E a \in Open : Closes(a)

\* The commits that issue a token.
LEMMA IssuingSteps ==
  ASSUME IInv, NEW r \in Request,
         CommitRotation(r) \/ CommitLogin(r) \/ CommitReset(r) \/ IssuePromoted(r)
  PROVE  TokenStep
  <1> USE SessionConstants
  <1> DEFINE p == req[r]
  <1>0. /\ p \in Req /\ Agrees(p)
        /\ p.account \in Open /\ email[p.account] \in Email /\ UNCHANGED status
        /\ token \in [Jti -> Row]
        /\ issued \in 0..MaxJti /\ 0 \in Version
    BY DEF IInv, TypeOK, RequestsAgree, Version, CommitRotation, CommitLogin, CommitReset,
           IssuePromoted, Stays, accountTables, OpenHaveAddress
  <1>1. p.pw \in Version /\ p.seen \in SUBSET (1..issued)
    BY <1>0, SeenIssued DEF Req
  <1>2. CASE CommitRotation(r)
    <2>1. p.phase = "rotate"
      BY <1>2 DEF CommitRotation
    <2>2. p.email \in Email /\ p.jti \in 1..issued /\ token[p.jti].account = p.account
      BY <1>0, <2>1 DEF Agrees, Req
    <2>3. token[p.jti].pw \in Version
      BY <1>0, <2>2 DEF Row, Jti
    <2>4. RevokeAndIssue({p.jti}, p.account, p.email, p.jti, token[p.jti].pw)
      BY <1>2 DEF CommitRotation
    <2> QED
      BY <1>0, <2>2, <2>3, <2>4 DEF TokenStep
  <1>3. CASE CommitLogin(r)
    <2>1. p.email \in Email
      BY <1>0, <1>3 DEF CommitLogin, Agrees
    <2>2. RevokeAndIssue({}, p.account, p.email, 0, p.pw)
      BY <1>3 DEF CommitLogin
    <2> QED
      BY <1>0, <1>1, <2>1, <2>2 DEF TokenStep
  <1>4. CASE CommitReset(r)
    <2>1. p.phase = "reissue"
      BY <1>4 DEF CommitReset
    <2>2. p.email \in Email /\ \A j \in p.seen : token[j].account = p.account
      BY <1>0, <2>1 DEF Agrees
    <2>3. RevokeAndIssue(p.seen, p.account, p.email, 0, p.pw)
      BY <1>4 DEF CommitReset
    <2> QED
      BY <1>0, <1>1, <2>2, <2>3 DEF TokenStep
  <1>5. CASE IssuePromoted(r)
    <2>1. RevokeAndIssue({}, p.account, email[p.account], 0, p.pw)
      BY <1>5 DEF IssuePromoted
    <2> QED
      BY <1>0, <1>1, <2>1 DEF TokenStep
  <1> QED
    BY <1>2, <1>3, <1>4, <1>5

\* The token that a browser presents is revoked, if its row is there.
LEMMA PresentedStep ==
  ASSUME IInv, NEW c \in Client, RevokeOnly({jar[c].refresh} \ {0}), UNCHANGED status
  PROVE  TokenStep
  <1> USE SessionConstants
  <1> DEFINE j == jar[c].refresh
  <1>0. token \in [Jti -> Row] /\ issued \in 0..MaxJti /\ j \in 0..issued
    BY DEF IInv, TypeOK, Cookies, CookiesIssued
  <1>1. CASE j = 0
    <2>1. Revoked({}) = token
      BY <1>0 DEF Revoked
    <2> QED
      BY <1>1, <2>1 DEF TokenStep, RevokeOnly
  <1>2. CASE j # 0
    <2>1. j \in 1..issued /\ j \in Jti /\ {j} \ {0} = {j}
      BY <1>0, <1>2 DEF Jti
    <2>2. token[j].account \in Open \/ token[j].revoked
      BY <2>1 DEF IInv, RowsInOrder
    <2>3. CASE token[j].account \in Open
      BY <2>1, <2>3 DEF TokenStep
    <2>4. CASE token[j].revoked
      <3>1. [token[j] EXCEPT !.revoked = TRUE] = token[j]
        BY <1>0, <2>1, <2>4 DEF Row
      <3>2. Revoked({j}) = token
        BY <1>0, <3>1 DEF Revoked
      <3> QED
        BY <2>1, <3>2 DEF TokenStep, RevokeOnly
    <2> QED
      BY <2>2, <2>3, <2>4
  <1> QED
    BY <1>1, <1>2

\* The commits that only revoke.
LEMMA RevokingSteps ==
  ASSUME IInv, NEW r \in Request,
         \/ \E c \in Client : Logout(r, c)
         \/ CommitReuse(r) \/ CommitPromotion(r) \/ CommitRecovery(r) \/ Leave(r)
  PROVE  TokenStep
  <1> USE SessionConstants
  <1> DEFINE p == req[r]
  <1>0. /\ p \in Req /\ Agrees(p) /\ token \in [Jti -> Row] /\ issued \in 0..MaxJti
        /\ UNCHANGED status
    BY DEF IInv, TypeOK, RequestsAgree, Logout, CommitReuse, CommitPromotion,
           CommitRecovery, Leave, accountTables
  <1>1. ASSUME NEW c \in Client, Logout(r, c)
        PROVE  TokenStep
    BY <1>0, <1>1, PresentedStep DEF Logout
  <1>2. CASE Leave(r)
    <2>1. p.client \in Client /\ RevokeOnly({jar[p.client].refresh} \ {0})
      BY <1>0, <1>2 DEF Leave, Agrees
    <2> QED
      BY <1>0, <2>1, PresentedStep
  <1>3. ASSUME p.account \in Open, RevokeOnly(p.seen)
        PROVE  TokenStep
    <2>1. p.seen \in SUBSET (1..issued) /\ \A j \in p.seen : token[j].account = p.account
      BY <1>0, <1>3, SeenIssued DEF Agrees
    <2> QED
      BY <1>0, <1>3, <2>1 DEF TokenStep
  <1>4. ASSUME RevokeOnly({})
        PROVE  TokenStep
    <2>1. Revoked({}) = token
      BY <1>0 DEF Revoked
    <2> QED
      BY <1>0, <1>4, <2>1 DEF TokenStep, RevokeOnly
  <1>5. CASE CommitReuse(r)
    BY <1>3, <1>4, <1>5 DEF CommitReuse, Stays
  <1>6. CASE CommitPromotion(r)
    BY <1>0, <1>3, <1>6 DEF CommitPromotion, Stays, TokenStep
  <1>7. CASE CommitRecovery(r)
    BY <1>0, <1>3, <1>7 DEF CommitRecovery, Stays, TokenStep
  <1> QED
    BY <1>1, <1>2, <1>5, <1>6, <1>7

\* Opening and closing accounts.
LEMMA AccountSteps ==
  ASSUME IInv, NEW r \in Request, CommitRegistration(r) \/ CommitDeletion(r)
  PROVE  TokenStep
  <1>1. CASE CommitRegistration(r)
    BY <1>1 DEF CommitRegistration, TokenStep
  <1>2. CASE CommitDeletion(r)
    BY <1>2 DEF CommitDeletion, Stays, Closes, TokenStep
  <1> QED
    BY <1>1, <1>2

\* Every step of the specification is a token step.
LEMMA EveryTokenStep ==
  ASSUME IInv, [Next]_vars
  PROVE  TokenStep
  <1>0. UNCHANGED <<accountTables, token, issued>> => TokenStep
    BY DEF accountTables, TokenStep
  <1>1. CASE UNCHANGED vars
    BY <1>1 DEF vars, TokenStep
  <1>2. ASSUME NEW r \in Request, Start(r)
        PROVE  TokenStep
    <2>1. ASSUME NEW c \in Client, Logout(r, c) PROVE TokenStep
      BY <2>1, RevokingSteps
    <2> QED
      BY <1>0, <1>2, <2>1 DEF Start, StartRotation, CheckCredentials, AskForLink,
                        FollowLink, StartPromotion, StartRecovery, StartRegistration,
                        StartDeletion
  <1>3. ASSUME NEW r \in Request, Serve(r)
        PROVE  TokenStep
    <2>1. CASE CommitRotation(r) \/ CommitLogin(r) \/ CommitReset(r) \/ IssuePromoted(r)
      BY <2>1, IssuingSteps
    <2>2. CASE CommitReuse(r) \/ CommitPromotion(r) \/ CommitRecovery(r) \/ Leave(r)
      BY <2>2, RevokingSteps
    <2>3. CASE CommitRegistration(r) \/ CommitDeletion(r)
      BY <2>3, AccountSteps
    <2>4. CASE CommitPassword(r)
      BY <2>4 DEF CommitPassword, TokenStep
    <2> QED
      BY <1>0, <1>3, <2>1, <2>2, <2>3, <2>4
         DEF Serve, FindAccount, RefuseToken, DetectReuse, AcceptToken, CommitLink,
             SelectForReset, CommitRecoveryLink, Registered, RefuseDeletion, LoseAccount,
             Respond, ClearCookies
  <1>4. ASSUME NEW r \in Request, Abort(r)
        PROVE  TokenStep
    BY <1>0, <1>4 DEF Abort
  <1>5. CASE Environment
    BY <1>0, <1>5 DEF Environment, ClaimEmail, ReleaseEmail, AccessExpires, CookiesExpire,
                LinkExpires, RecoveryExpires, TokenStep
  <1> QED
    BY <1>1, <1>2, <1>3, <1>4, <1>5 DEF Next

LEMMA TokensKept ==
  ASSUME IInv, [Next]_vars
  PROVE  TokensOK' /\ AccountsKept
  <1>1. TokensOK /\ status \in [Account -> {"new", "open", "closed"}]
    BY DEF IInv, TypeOK, TokensOK
  <1>2. CASE UNCHANGED <<status, token, issued>>
    BY <1>2, TokensSame
  <1>3. ASSUME NEW a \in Account, status[a] = "new", UNCHANGED <<token, issued>>,
               status' = [status EXCEPT ![a] = "open"]
        PROVE  TokensOK' /\ AccountsKept
    BY <1>3, OpeningKeeps
  <1>4. ASSUME NEW S \in SUBSET (1..issued), RevokeOnly(S), UNCHANGED status
        PROVE  TokensOK' /\ AccountsKept
    BY <1>1, <1>4, RevokeOnlyKeeps
  <1>5. ASSUME NEW a \in Open, NEW S \in SUBSET (1..issued), NEW e \in Email,
               NEW parent \in S \cup {0}, NEW pw \in Version,
               RevokeAndIssue(S, a, e, parent, pw), UNCHANGED status
        PROVE  TokensOK' /\ AccountsKept
    BY <1>1, <1>5, RevokeAndIssueKeeps
  <1>6. ASSUME NEW a \in Open, Closes(a)
        PROVE  TokensOK' /\ AccountsKept
    BY <1>1, <1>6, ClosingKeeps DEF Open
  <1> QED
    BY <1>2, <1>3, <1>4, <1>5, <1>6, EveryTokenStep DEF TokenStep

-----------------------------------------------------------------------------
(* Commits keep the invariant *)

\* An answer that grants token j.
LEMMA GrantingKeeps ==
  ASSUME IInv, NEW r \in Request, NEW j \in 0..MaxJti, NEW e \in MaybeEmail,
         NEW pw \in Version, Granting(r, j, e, pw), j <= issued',
         TokensOK', AccountsKept, TablesOK', CookiesOK'
  PROVE  IInv'
  <1> USE SessionConstants
  <1> DEFINE q == [Idle EXCEPT !.phase = "respond", !.op = req[r].op,
                               !.client = req[r].client, !.jti = j,
                               !.email = e, !.pw = pw]
  <1>1. req[r].op \in Ops \cup {"none"} /\ req[r].client \in Client \cup {None}
    BY DEF IInv, TypeOK, Req
  <1>2. q \in Req
    BY <1>1, IdleOK, SetField DEF Phase
  <1>3. req' = [req EXCEPT ![r] = q] /\ req'[r] = q
    BY DEF Granting, IInv, TypeOK
  <1>4. q.phase = "respond" /\ q.jti = j /\ q.seen = {} /\ q.account = None
    BY DEF Idle
  <1>5. Agrees(req[r])'
    <2> HIDE DEF q
    <2> QED
      BY <1>3, <1>4 DEF Agrees
  <1> QED
    BY <1>2, <1>3, <1>5, RequestStep

\* Commits that end the request, or only move it on.
LEMMA FinishingKeeps ==
  ASSUME IInv, NEW r \in Request, TokensOK', AccountsKept, TablesOK', CookiesOK',
         \/ Done(r) \/ To(r, "clear")
         \/ req[r].phase = "delete" /\ To(r, "leave")
         \/ req[r].phase = "promote" /\ To(r, "promoted")
  PROVE  IInv'
  <1> USE SessionConstants
  <1>1. req \in [Request -> Req] /\ req[r] \in Req /\ Agrees(req[r])
    BY DEF IInv, TypeOK, RequestsAgree
  <1>2. issued' \in Nat
    BY DEF TokensOK
  <1>3. CASE Done(r)
    <2>1. req' = [req EXCEPT ![r] = Idle] /\ req'[r] = Idle
      BY <1>1, <1>3 DEF Done
    <2>2. Agrees(req[r])'
      BY <1>2, <2>1 DEF Agrees, Idle
    <2> QED
      BY <2>1, <2>2, IdleOK, RequestStep
  <1>4. ASSUME NEW x \in {"clear", "leave", "promoted"}, To(r, x),
               x = "leave" => req[r].phase = "delete",
               x = "promoted" => req[r].phase = "promote"
        PROVE  IInv'
    <2> DEFINE q == [req[r] EXCEPT !.phase = x]
    <2>1. req' = [req EXCEPT ![r] = q] /\ req'[r] = q
      BY <1>1, <1>4 DEF To
    <2>2. q \in Req
      BY <1>1, SetField DEF Phase
    <2>3. /\ q.phase = x /\ q.jti = req[r].jti /\ q.seen = req[r].seen
          /\ q.account = req[r].account /\ q.client = req[r].client /\ q.old = req[r].old
      BY <1>1 DEF Req
    <2>4. Agrees(req[r])'
      <3> HIDE DEF q
      <3> QED
        BY <1>1, <1>4, <2>1, <2>3, CarriedAgrees DEF Agrees
    <2> QED
      BY <2>1, <2>2, <2>4, RequestStep
  <1> QED
    BY <1>3, <1>4

\* The tables that no token commit writes.
LEMMA TablesSame ==
  ASSUME IInv, UNCHANGED <<accountTables, linkTables>>
  PROVE  TablesOK'
  BY DEF IInv, TypeOK, TablesOK, accountTables, linkTables, OpenHaveAddress, Open

LEMMA CookiesSame ==
  ASSUME IInv, AccountsKept, TokensOK', UNCHANGED jar
  PROVE  CookiesOK'
  <1>1. \A c \in Client : jar'[c].refresh <= issued'
    BY SessionConstants
       DEF IInv, TypeOK, AccountsKept, CookiesIssued, Cookies, TokensOK
  <1> QED
    BY <1>1 DEF IInv, TypeOK, CookiesOK, CookiesIssued

LEMMA CommittingKeeps ==
  ASSUME IInv, [Next]_vars, NEW r \in Request,
         \/ CommitReuse(r) \/ CommitRotation(r) \/ CommitLogin(r) \/ CommitLink(r)
         \/ CommitPassword(r) \/ CommitReset(r) \/ CommitPromotion(r)
         \/ IssuePromoted(r) \/ CommitRecoveryLink(r) \/ CommitRecovery(r)
         \/ CommitRegistration(r) \/ CommitDeletion(r) \/ Leave(r)
         \/ Respond(r) \/ ClearCookies(r)
  PROVE  IInv'
  <1> USE SessionConstants
  <1> DEFINE p == req[r]
  <1>0. /\ p \in Req /\ Agrees(p) /\ req \in [Request -> Req]
        /\ status \in [Account -> {"new", "open", "closed"}]
        /\ email \in [Account -> MaybeEmail] /\ token \in [Jti -> Row]
        /\ emailOwner \in [Email -> MaybeAccount]
        /\ password \in [Account -> Version] /\ jar \in [Client -> Cookies]
        /\ links \subseteq Link /\ sent \in 0..MaxLink
        /\ recovery \subseteq Account \X Email /\ issued \in 0..MaxJti
        /\ TokensOK' /\ AccountsKept /\ issued' \in 0..MaxJti
    BY TokensKept DEF IInv, TypeOK, RequestsAgree, TokensOK
  <1>1. p.pw \in Version /\ p.email \in MaybeEmail /\ p.jti \in 0..MaxJti
    BY <1>0 DEF Req
  <1>a. \A a \in Open : a \in Account /\ status[a] = "open" /\ email[a] \in Email
    BY DEF Open, IInv, OpenHaveAddress
  <1>2. CASE CommitReuse(r)
    <2>1. TablesOK' /\ CookiesOK'
      BY <1>0, <1>2, TablesSame, CookiesSame DEF CommitReuse
    <2> QED
      BY <1>0, <1>2, <2>1, FinishingKeeps DEF CommitReuse
  <1>3. CASE CommitRotation(r)
    <2>1. TablesOK' /\ CookiesOK'
      BY <1>0, <1>3, TablesSame, CookiesSame DEF CommitRotation
    <2>2. issued' = issued + 1 /\ token[p.jti].pw \in Version
      <3>1. p.jti \in Jti
        BY <1>0, <1>1, <1>3 DEF CommitRotation, Agrees, Jti
      <3> QED
        BY <1>0, <1>3, <3>1 DEF CommitRotation, RevokeAndIssue, Row
    <2>3. CASE Done(r)
      BY <1>0, <2>1, <2>3, FinishingKeeps
    <2>4. CASE Granting(r, issued + 1, p.email, token[p.jti].pw)
      BY <1>0, <1>1, <2>1, <2>2, <2>4, GrantingKeeps
    <2> QED
      BY <1>3, <2>3, <2>4 DEF CommitRotation
  <1>4. CASE CommitLogin(r) \/ CommitReset(r)
    <2>1. TablesOK' /\ CookiesOK'
      BY <1>0, <1>4, TablesSame, CookiesSame DEF CommitLogin, CommitReset
    <2>2. issued' = issued + 1
      BY <1>4 DEF CommitLogin, CommitReset, RevokeAndIssue
    <2>3. Granting(r, issued + 1, p.email, p.pw)
      BY <1>4 DEF CommitLogin, CommitReset
    <2> QED
      BY <1>0, <1>1, <2>1, <2>2, <2>3, GrantingKeeps
  <1>5. CASE CommitLink(r)
    <2>1. p.account \in Account /\ p.email \in Email
      BY <1>0, <1>5 DEF CommitLink, Agrees
    <2>2. TablesOK'
      BY <1>0, <1>5, <2>1 DEF CommitLink, NewLink, TablesOK, Link, accountTables, IInv,
                              OpenHaveAddress, Open
    <2>3. CookiesOK'
      BY <1>0, <1>5, CookiesSame DEF CommitLink
    <2> QED
      BY <1>0, <1>5, <2>2, <2>3, FinishingKeeps DEF CommitLink
  <1>6. CASE CommitPassword(r)
    <2> DEFINE a == p.account
               q == [p EXCEPT !.phase = "sweep", !.pw = password[a] + 1]
    <2>1. p.phase = "reset" /\ a \in Account
      BY <1>0, <1>6 DEF CommitPassword, Agrees
    <2>2. password[a] + 1 \in Version
      BY <1>0, <1>6, <2>1 DEF CommitPassword, Version
    <2>3. q \in Req
      BY <1>0, <2>2, SetField DEF Phase
    <2>4. TablesOK'
      BY <1>0, <1>6, <2>2 DEF CommitPassword, TablesOK, IInv, OpenHaveAddress, Open
    <2>5. CookiesOK'
      BY <1>0, <1>6, CookiesSame DEF CommitPassword
    <2>6. Agrees(q)
      BY <1>0, <2>1 DEF Agrees, Req
    <2>7. req' = [req EXCEPT ![r] = q] /\ req'[r] = q
      BY <1>0, <1>6 DEF CommitPassword
    <2>8. UNCHANGED <<status, token, issued>>
      BY <1>6 DEF CommitPassword
    <2>9. Agrees(req[r])'
      <3> HIDE DEF q
      <3> QED
        BY <2>6, <2>7, <2>8 DEF Agrees, Open
    <2> QED
      BY <1>0, <2>3, <2>4, <2>5, <2>7, <2>9, RequestStep
  <1>7. CASE CommitPromotion(r)
    <2>1. /\ p.phase = "promote" /\ p.account \in Account
          /\ p.email \in Email /\ p.old \in Email
      BY <1>0, <1>7 DEF CommitPromotion, Agrees
    <2>2. TablesOK' /\ CookiesOK'
      BY <1>0, <1>7, <1>a, <2>1, CookiesSame
         DEF CommitPromotion, TablesOK, linkTables, OpenHaveAddress, Open, MaybeEmail
    <2>3. Done(r) \/ To(r, "promoted")
      BY <1>7 DEF CommitPromotion
    <2> QED
      BY <1>0, <2>1, <2>2, <2>3, FinishingKeeps
  <1>8. CASE IssuePromoted(r)
    <2> DEFINE a == p.account
               q == [p EXCEPT !.phase = "notify", !.email = email[a],
                              !.jti = issued + 1, !.seen = {}]
    <2>1. p.phase = "promoted" /\ a \in Account /\ p.old \in Email /\ email[a] \in Email
      BY <1>0, <1>8, <1>a DEF IssuePromoted, Agrees, Stays
    <2>2. issued' = issued + 1
      BY <1>8 DEF IssuePromoted, RevokeAndIssue
    <2>3. TablesOK' /\ CookiesOK'
      BY <1>0, <1>8, TablesSame, CookiesSame DEF IssuePromoted
    <2>4. q \in Req
      BY <1>0, <2>1, <2>2, SetField DEF Phase, MaybeEmail
    <2>5. req' = [req EXCEPT ![r] = q] /\ req'[r] = q
      BY <1>0, <1>8 DEF IssuePromoted
    <2>6. /\ q.phase = "notify" /\ q.jti = issued + 1 /\ q.seen = {}
          /\ q.account = a /\ q.old = p.old /\ q.email = email[a]
      BY <1>0 DEF Req
    <2>7. Agrees(req[r])'
      <3> HIDE DEF q
      <3> QED
        BY <1>0, <2>1, <2>2, <2>5, <2>6, CarriedAgrees DEF Agrees
    <2> QED
      BY <1>0, <2>3, <2>4, <2>5, <2>7, RequestStep
  <1>9. CASE CommitRecoveryLink(r)
    <2>1. p.account \in Account /\ p.old \in Email
      BY <1>0, <1>9 DEF CommitRecoveryLink, Agrees
    <2>2. TablesOK'
      BY <1>0, <1>9, <2>1 DEF CommitRecoveryLink, TablesOK, accountTables, IInv,
                              OpenHaveAddress, Open
    <2>3. CookiesOK'
      BY <1>0, <1>9, CookiesSame DEF CommitRecoveryLink
    <2>4. p.jti <= issued'
      BY <1>0, <1>9 DEF CommitRecoveryLink, Agrees
    <2>5. Granting(r, p.jti, p.email, p.pw)
      BY <1>9 DEF CommitRecoveryLink
    <2> QED
      BY <1>0, <1>1, <2>2, <2>3, <2>4, <2>5, GrantingKeeps
  <1>10. CASE CommitRecovery(r)
    <2> DEFINE a == p.account
               e == p.email
               gone == p.emails \cap AddressesOf(a)
    <2>1. a \in Account /\ e \in Email
      BY <1>0, <1>10 DEF CommitRecovery, Agrees
    <2>2. CookiesOK' /\ Done(r) /\ UNCHANGED <<status, password>>
      BY <1>0, <1>10, CookiesSame DEF CommitRecovery
    <2>3. CASE UNCHANGED <<email, emailOwner, linkTables>>
      <3>1. TablesOK'
        BY <1>0, <1>a, <2>2, <2>3 DEF TablesOK, linkTables, OpenHaveAddress, Open
      <3> QED
        BY <1>0, <2>2, <3>1, FinishingKeeps
    <2>4. CASE /\ emailOwner' = [f \in Email |-> IF f = e THEN a
                                                 ELSE IF f \in gone THEN None
                                                 ELSE emailOwner[f]]
               /\ email' = [email EXCEPT ![a] = IF e = p.old THEN @ ELSE e]
               /\ NewLink(a, e)
               /\ recovery' = recovery \ {<<a, e>>}
      <3>1. /\ emailOwner' \in [Email -> MaybeAccount] /\ email' \in [Account -> MaybeEmail]
            /\ OpenHaveAddress'
        <4>1. emailOwner' \in [Email -> MaybeAccount]
          <5> HIDE DEF gone
          <5> QED
            BY <1>0, <2>1, <2>4 DEF MaybeAccount
        <4>2. email' \in [Account -> MaybeEmail] /\ OpenHaveAddress'
          BY <1>0, <1>a, <2>1, <2>2, <2>4 DEF MaybeEmail, OpenHaveAddress, Open
        <4> QED
          BY <4>1, <4>2
      <3>2. links' \subseteq Link /\ sent' \in 0..MaxLink
        BY <1>0, <2>1, <2>4 DEF NewLink, Link
      <3>3. TablesOK'
        BY <1>0, <2>2, <2>4, <3>1, <3>2 DEF TablesOK
      <3> QED
        BY <1>0, <2>2, <3>3, FinishingKeeps
    <2> QED
      BY <1>10, <2>3, <2>4 DEF CommitRecovery
  <1>11. CASE CommitRegistration(r)
    <2>1. CookiesOK' /\ UNCHANGED <<password, linkTables>>
      BY <1>0, <1>11, CookiesSame DEF CommitRegistration
    <2>2. CASE UNCHANGED <<status, email, emailOwner>> /\ Done(r)
      <3>1. TablesOK'
        BY <2>1, <2>2, TablesSame DEF accountTables
      <3> QED
        BY <1>0, <2>1, <2>2, <3>1, FinishingKeeps
    <2>3. ASSUME NEW a \in Account, status[a] = "new",
                 status' = [status EXCEPT ![a] = "open"],
                 email' = [email EXCEPT ![a] = p.email],
                 emailOwner' = [emailOwner EXCEPT ![p.email] = a],
                 req' = [req EXCEPT ![r].phase = "registered", ![r].account = a,
                                    ![r].pw = password[a]]
          PROVE  IInv'
      <3> DEFINE q == [p EXCEPT !.phase = "registered", !.account = a, !.pw = password[a]]
      <3>1. p.phase = "register" /\ p.email \in Email /\ p.seen = {}
        BY <1>0, <1>11 DEF CommitRegistration, Agrees
      <3>2. TablesOK'
        BY <1>0, <1>a, <2>1, <2>3, <3>1
           DEF TablesOK, linkTables, OpenHaveAddress, Open, MaybeEmail, MaybeAccount
      <3>3. q \in Req
        BY <1>0, SetField DEF Phase
      <3>4. req' = [req EXCEPT ![r] = q] /\ req'[r] = q
        BY <1>0, <2>3
      <3>5. /\ q.phase = "registered" /\ q.jti = p.jti /\ q.seen = {} /\ q.account = a
        BY <1>0, <3>1 DEF Req
      <3>6. p.jti <= issued' /\ status'[a] # "new"
        BY <1>0, <2>3, CarriedAgrees
      <3>7. Agrees(req[r])'
        <4> HIDE DEF q
        <4> QED
          BY <3>4, <3>5, <3>6 DEF Agrees
      <3> QED
        BY <1>0, <2>1, <3>2, <3>3, <3>4, <3>7, RequestStep
    <2>4. \/ UNCHANGED <<status, email, emailOwner>> /\ Done(r)
          \/ \E a \in Account :
               /\ status[a] = "new"
               /\ status' = [status EXCEPT ![a] = "open"]
               /\ email' = [email EXCEPT ![a] = p.email]
               /\ emailOwner' = [emailOwner EXCEPT ![p.email] = a]
               /\ req' = [req EXCEPT ![r].phase = "registered", ![r].account = a,
                                     ![r].pw = password[a]]
      BY <1>11 DEF CommitRegistration
    <2> QED
      BY <2>2, <2>3, <2>4
  <1>12. CASE CommitDeletion(r)
    <2> DEFINE a == p.account
    <2>1. p.phase = "delete" /\ a \in Account /\ To(r, "leave") /\ UNCHANGED <<password, sent>>
      BY <1>0, <1>12 DEF CommitDeletion, Agrees
    <2>2. CookiesOK'
      BY <1>0, <1>12, CookiesSame DEF CommitDeletion
    <2>3. TablesOK'
      <3>1. CASE UNCHANGED <<status, email, emailOwner, links, recovery>>
        BY <2>1, <3>1, TablesSame DEF accountTables, linkTables
      <3>2. CASE /\ status' = [status EXCEPT ![a] = "closed"]
                 /\ email' = [email EXCEPT ![a] = None]
                 /\ emailOwner' = [e \in Email |-> IF emailOwner[e] = a THEN None
                                                   ELSE emailOwner[e]]
                 /\ links' = {l \in links : l.account # a}
                 /\ recovery' = {x \in recovery : x[1] # a}
        <4>1. emailOwner' \in [Email -> MaybeAccount]
          BY <1>0, <3>2 DEF MaybeAccount
        <4>2. email' \in [Account -> MaybeEmail] /\ OpenHaveAddress'
          BY <1>0, <1>a, <2>1, <3>2 DEF MaybeEmail, OpenHaveAddress, Open
        <4> QED
          BY <1>0, <2>1, <3>2, <4>1, <4>2 DEF TablesOK
      <3> QED
        BY <1>12, <3>1, <3>2 DEF CommitDeletion
    <2> QED
      BY <1>0, <2>1, <2>2, <2>3, FinishingKeeps
  <1>13. CASE Leave(r)
    <2>1. TablesOK' /\ CookiesOK' /\ To(r, "clear")
      BY <1>0, <1>13, TablesSame, CookiesSame DEF Leave
    <2> QED
      BY <1>0, <2>1, FinishingKeeps
  <1>14. CASE Respond(r)
    <2> DEFINE k == [sub |-> p.email, pw |-> p.pw, refresh |-> p.jti]
    <2>1. k \in Cookies
      BY <1>1 DEF Cookies
    <2>2. jar' = [jar EXCEPT ![p.client] = k] /\ issued' = issued
      BY <1>14 DEF Respond
    <2>3. CookiesOK'
      BY <1>0, <2>1, <2>2 DEF CookiesOK, CookiesIssued, IInv, Agrees
    <2>4. TablesOK' /\ Done(r)
      BY <1>14, TablesSame DEF Respond
    <2> QED
      BY <1>0, <2>3, <2>4, FinishingKeeps
  <1>15. CASE ClearCookies(r)
    <2>1. NoCookies \in Cookies /\ NoCookies.refresh = 0
      BY DEF NoCookies, Cookies, MaybeEmail, Version
    <2>2. jar' = [jar EXCEPT ![p.client] = NoCookies] /\ issued' = issued
      BY <1>15 DEF ClearCookies
    <2>3. CookiesOK'
      <3>1. \A c \in Client : jar'[c].refresh \in {jar[c].refresh, 0}
        BY <1>0, <2>1, <2>2
      <3>2. \A c \in Client : jar'[c].refresh <= issued'
        BY <1>0, <2>2, <3>1 DEF IInv, CookiesIssued
      <3>3. jar' \in [Client -> Cookies]
        BY <1>0, <2>1, <2>2
      <3> QED
        BY <3>2, <3>3 DEF CookiesOK, CookiesIssued
    <2>4. TablesOK' /\ Done(r)
      BY <1>15, TablesSame DEF ClearCookies
    <2> QED
      BY <1>0, <2>3, <2>4, FinishingKeeps
  <1> QED
    BY <1>2, <1>3, <1>4, <1>5, <1>6, <1>7, <1>8, <1>9, <1>10, <1>11, <1>12, <1>13, <1>14,
       <1>15

\* Addresses that move, cookies and links that expire.
LEMMA EnvironmentKeeps ==
  ASSUME IInv, [Next]_vars, Environment
  PROVE  IInv'
  <1> USE SessionConstants
  <1>0. /\ status \in [Account -> {"new", "open", "closed"}]
        /\ email \in [Account -> MaybeEmail] /\ emailOwner \in [Email -> MaybeAccount]
        /\ password \in [Account -> Version] /\ jar \in [Client -> Cookies]
        /\ links \subseteq Link /\ sent \in 0..MaxLink
        /\ recovery \subseteq Account \X Email
    BY DEF IInv, TypeOK
  <1>1. UNCHANGED <<status, email, token, issued, req>>
    BY DEF Environment, ClaimEmail, ReleaseEmail, AccessExpires, CookiesExpire,
           LinkExpires, RecoveryExpires, accountTables
  <1>a. OpenHaveAddress' /\ RequestsAgree' /\ req' \in [Request -> Req]
    BY <1>1 DEF IInv, TypeOK, OpenHaveAddress, RequestsAgree, Agrees, Open
  <1>2. TablesOK' /\ CookiesOK'
    <2>1. ASSUME NEW a \in Account, NEW e \in Email,
                 ClaimEmail(a, e) \/ ReleaseEmail(a, e)
          PROVE  TablesOK' /\ CookiesOK'
      BY <1>0, <1>a, <2>1 DEF ClaimEmail, ReleaseEmail, TablesOK, CookiesOK, IInv,
                        CookiesIssued, linkTables, MaybeAccount
    <2>2. ASSUME NEW c \in Client, AccessExpires(c) \/ CookiesExpire(c)
          PROVE  TablesOK' /\ CookiesOK'
      <3>1. NoCookies \in Cookies /\ NoCookies.refresh = 0
        BY DEF NoCookies, Cookies, MaybeEmail, Version
      <3> DEFINE k == [sub |-> None, pw |-> 0, refresh |-> jar[c].refresh]
      <3>2. jar[c].refresh \in 0..MaxJti
        BY <1>0 DEF Cookies
      <3>3. k \in Cookies /\ k.refresh <= issued
        BY <1>0, <3>2 DEF Cookies, MaybeEmail, Version, IInv, CookiesIssued
      <3>4. \E m \in {k, NoCookies} : jar' = [jar EXCEPT ![c] = m]
        BY <2>2 DEF AccessExpires, CookiesExpire
      <3>5. CookiesOK'
        <4> HIDE DEF k
        <4> QED
          BY <1>0, <1>1, <3>1, <3>3, <3>4 DEF CookiesOK, CookiesIssued, IInv, TypeOK
      <3>6. TablesOK'
        BY <2>2, TablesSame DEF AccessExpires, CookiesExpire
      <3> QED
        BY <3>5, <3>6
    <2>3. ASSUME NEW l \in links, LinkExpires(l)
          PROVE  TablesOK' /\ CookiesOK'
      BY <1>0, <1>a, <2>3 DEF LinkExpires, TablesOK, CookiesOK, IInv, CookiesIssued,
                        accountTables
    <2>4. ASSUME NEW link \in recovery, RecoveryExpires(link)
          PROVE  TablesOK' /\ CookiesOK'
      BY <1>0, <1>a, <2>4 DEF RecoveryExpires, TablesOK, CookiesOK, IInv, CookiesIssued,
                        accountTables
    <2> QED
      BY <2>1, <2>2, <2>3, <2>4 DEF Environment
  <1>3. TokensOK'
    BY TokensKept
  <1> QED
    BY <1>a, <1>2, <1>3 DEF IInv, TypeOK, TokensOK, TablesOK, CookiesOK

-----------------------------------------------------------------------------
(* The invariant is inductive *)

THEOREM Inductive == Spec => []IInv
  <1>1. IInv /\ [Next]_vars => IInv'
    <2> SUFFICES ASSUME IInv, [Next]_vars PROVE IInv'
      OBVIOUS
    <2>1. ASSUME NEW r \in Request, Start(r) PROVE IInv'
      BY <2>1, StartKeeps
    <2>2. ASSUME NEW r \in Request, Serve(r) PROVE IInv'
      BY <2>2, ReadingKeeps, CommittingKeeps DEF Serve
    <2>3. ASSUME NEW r \in Request, Abort(r) PROVE IInv'
      BY <2>3, DoneKeeps DEF Abort
    <2>4. CASE Environment
      BY <2>4, EnvironmentKeeps
    <2>5. CASE UNCHANGED vars
      BY <2>5 DEF vars, IInv, TypeOK, OpenHaveAddress, RowsInOrder, RequestsAgree, Agrees,
                  CookiesIssued, ParentSpent, Open
    <2> QED
      BY <2>1, <2>2, <2>3, <2>4, <2>5 DEF Next
  <1> QED
    BY InitInv, <1>1, PTL DEF Spec

\* Every table, cookie and request keeps the shape the code gives it.
THEOREM TypeCorrect == Spec => []TypeOK
  <1>1. IInv => TypeOK
    BY DEF IInv
  <1> QED
    BY Inductive, <1>1, PTL

\* A token that was rotated from another finds it revoked, however many
\* requests present that token at once.
THEOREM ExchangeSpends == Spec => []ParentSpent
  <1>1. IInv => ParentSpent
    BY DEF IInv
  <1> QED
    BY Inductive, <1>1, PTL

\* Presenting a token touches only tokens of the account it was issued to.
THEOREM OwnTokensOnly == Spec => TokenActsOnItsAccount
  <1> DEFINE Touches == \A r \in Request, j \in Jti :
        (CommitReuse(r) \/ CommitRotation(r)) /\ token'[j] # token[j] =>
           token'[j].account = token[req[r].jti].account
  <1>1. IInv /\ [Next]_vars => [Touches]_vars
    <2> SUFFICES ASSUME IInv, NEW r \in Request, NEW j \in Jti,
                        CommitReuse(r) \/ CommitRotation(r), token'[j] # token[j]
                 PROVE  token'[j].account = token[req[r].jti].account
      OBVIOUS
    <2> DEFINE p == req[r]
    <2>1. Agrees(p) /\ token \in [Jti -> Row] /\ issued \in 0..MaxJti
      BY DEF IInv, TypeOK, RequestsAgree
    <2>2. CASE CommitReuse(r)
      <3>1. token' = Revoked(p.seen)
        BY <2>2 DEF CommitReuse, RevokeOnly
      <3>2. j \in p.seen /\ token'[j].account = token[j].account
        BY <2>1, <3>1 DEF Revoked, Row
      <3>3. p.account \in Open /\ p.phase = "reuse"
        BY <2>2, <3>2 DEF CommitReuse, Stays
      <3> QED
        BY <2>1, <3>2, <3>3 DEF Agrees
    <2>3. CASE CommitRotation(r)
      <3> DEFINE row == NewRow(p.account, p.email, p.jti, token[p.jti].pw)
      <3>1. token[p.jti].account = p.account
        BY <2>1, <2>3 DEF CommitRotation, Agrees, Stays
      <3>2. token' = [Revoked({p.jti}) EXCEPT ![issued + 1] = row]
        BY <2>3 DEF CommitRotation, RevokeAndIssue
      <3>3. CASE j = issued + 1
        <4>1. token'[j] = row
          BY <3>2, <3>3 DEF Revoked
        <4> QED
          BY <3>1, <4>1 DEF NewRow
      <3>4. CASE j # issued + 1
        <4>1. j = p.jti /\ token'[j].account = token[j].account
          BY <2>1, <3>2, <3>4 DEF Revoked, Row
        <4> QED
          BY <4>1
      <3> QED
        BY <3>3, <3>4
    <2> QED
      BY <2>2, <2>3
  <1> QED
    BY Inductive, <1>1, PTL DEF Spec, TokenActsOnItsAccount

-----------------------------------------------------------------------------
-----------------------------------------------------------------------------
(* Sessions implements SessionLedger *)

\* The entry of the ledger that a row of the token table stands for.
EntryOf(row) ==
  IF row.account = None THEN [status |-> "gone"]
  ELSE [status |-> IF row.revoked THEN "spent" ELSE "live", account |-> row.account]

LedgerOf ==
  [j \in Jti |-> IF j > issued THEN [status |-> "unissued"] ELSE EntryOf(token[j])]

ClosedOf == {a \in Account : status[a] = "closed"}

\* The ledger of the refinement, spelled as in Sessions.
LEMMA Mapped ==
  /\ LedgerOf = [j \in Jti |->
                  IF j > issued THEN [status |-> "unissued"]
                  ELSE IF ~IsRow(j) THEN [status |-> "gone"]
                  ELSE [status |-> IF token[j].revoked THEN "spent" ELSE "live",
                        account |-> token[j].account]]
  /\ LedgerOf' = [j \in Jti |->
                  IF j > issued THEN [status |-> "unissued"]
                  ELSE IF ~IsRow(j) THEN [status |-> "gone"]
                  ELSE [status |-> IF token[j].revoked THEN "spent" ELSE "live",
                        account |-> token[j].account]]'
  BY DEF LedgerOf, EntryOf, IsRow

LEMMA LedgerInitial == Init => Ledger!LedgerInit
  BY SessionConstants
     DEF Init, Ledger!LedgerInit, Ledger!Unissued, Ledger!Jti, Jti, IsRow, NoRow

\* A commit that revokes or issues is one exchange of the ledger.
LEMMA ExchangeStep ==
  ASSUME IInv, NEW a \in Open, NEW S \in SUBSET (1..issued),
         NEW fresh \in {{}} \cup {{j} : j \in Jti}, UNCHANGED status,
         \A j \in S : token[j].account = a,
         LedgerOf' = [j \in Jti |-> IF j \in fresh THEN Ledger!Live(a)
                                    ELSE IF j \in S THEN Ledger!Spent(a)
                                    ELSE LedgerOf[j]],
         \A j \in fresh : j > issued
  PROVE  Ledger!LedgerNext
  <1> USE SessionConstants
  <1>0. S \in SUBSET Jti /\ token \in [Jti -> Row] /\ issued \in 0..MaxJti /\ a \in Account
    BY DEF IInv, TypeOK, Jti, Open
  <1>1. \A j \in S : LedgerOf[j] \in {Ledger!Live(a), Ledger!Spent(a)}
    <2> SUFFICES ASSUME NEW j \in S PROVE LedgerOf[j] \in {Ledger!Live(a), Ledger!Spent(a)}
      OBVIOUS
    <2>1. j \in Jti /\ ~(j > issued) /\ token[j].account = a /\ a # None
      BY <1>0 DEF Jti
    <2> QED
      BY <1>0, <2>1 DEF LedgerOf, EntryOf, Ledger!Live, Ledger!Spent
  <1>2. \A j \in fresh : LedgerOf[j] = Ledger!Unissued
    BY DEF LedgerOf, Ledger!Unissued
  <1>3. a \notin ClosedOf /\ ClosedOf' = ClosedOf
    BY DEF Open, ClosedOf
  <1>4. Ledger!Exchange(a, S, fresh)
    BY <1>1, <1>2, <1>3, Mapped
       DEF Ledger!Exchange, Ledger!Jti, Jti, ClosedOf
  <1> QED
    BY <1>0, <1>4 DEF Ledger!LedgerNext, Ledger!Jti, Jti

LEMMA LedgerStep ==
  ASSUME IInv, [Next]_vars
  PROVE  Ledger!LedgerNext \/ UNCHANGED <<LedgerOf, ClosedOf>>
  <1> USE SessionConstants
  <1>0. /\ token \in [Jti -> Row] /\ issued \in 0..MaxJti
        /\ status \in [Account -> {"new", "open", "closed"}]
        /\ \A j \in Jti : j <= issued => token[j].account \in Account \cup {None}
        /\ \A a \in Open : a \in Account /\ a # None /\ status[a] = "open"
    BY DEF IInv, TypeOK, RowsInOrder, Jti, Open
  <1>1. ASSUME NEW a \in Open, NEW S \in SUBSET (1..issued), RevokeOnly(S), UNCHANGED status,
               \A j \in S : token[j].account = a
        PROVE  Ledger!LedgerNext
    <2>0. issued' = issued
      BY <1>1 DEF RevokeOnly
    <2>1. \A j \in S : j \in Jti /\ ~(j > issued) /\ EntryOf(token[j])' = Ledger!Spent(a)
      BY <1>0, <1>1 DEF RevokeOnly, Revoked, EntryOf, Ledger!Spent, Row, Jti
    <2>2. \A j \in Jti \ S : token'[j] = token[j]
      BY <1>0, <1>1 DEF RevokeOnly, Revoked
    <2>3. LedgerOf' = [j \in Jti |-> IF j \in {} THEN Ledger!Live(a)
                                     ELSE IF j \in S THEN Ledger!Spent(a)
                                     ELSE LedgerOf[j]]
      BY <2>0, <2>1, <2>2 DEF LedgerOf, EntryOf
    <2>4. {} \in {{}} \cup {{j} : j \in Jti} /\ \A j \in {} : j > issued
      OBVIOUS
    <2> QED
      BY <1>1, <2>3, <2>4, ExchangeStep
  <1>2. ASSUME NEW a \in Open, NEW S \in SUBSET (1..issued), NEW e \in Email,
               NEW parent \in S \cup {0}, NEW pw \in Version,
               RevokeAndIssue(S, a, e, parent, pw), UNCHANGED status,
               \A j \in S : token[j].account = a
        PROVE  Ledger!LedgerNext
    <2> DEFINE new == issued + 1
    <2>1. new \in Jti /\ new \notin S /\ issued' = new /\ new > issued /\ ~(new > issued')
      BY <1>0, <1>2 DEF RevokeAndIssue, Jti
    <2>2. Revoked(S) \in [Jti -> Row]
      BY <1>0 DEF Revoked, Row
    <2>3. token' = [Revoked(S) EXCEPT ![new] = NewRow(a, e, parent, pw)]
      BY <1>2 DEF RevokeAndIssue
    <2>4. EntryOf(token'[new]) = Ledger!Live(a)
      BY <1>0, <2>1, <2>2, <2>3 DEF EntryOf, NewRow, Ledger!Live
    <2>5. \A j \in S : EntryOf(token[j])' = Ledger!Spent(a) /\ ~(j > issued')
      BY <1>0, <1>2, <2>1, <2>2, <2>3 DEF Revoked, EntryOf, Ledger!Spent, Row, Jti
    <2>6. \A j \in Jti \ (S \cup {new}) : token'[j] = token[j] /\ (j > issued' <=> j > issued)
      BY <1>0, <2>1, <2>2, <2>3 DEF Revoked, Jti
    <2>7. LedgerOf' = [j \in Jti |-> IF j \in {new} THEN Ledger!Live(a)
                                     ELSE IF j \in S THEN Ledger!Spent(a)
                                     ELSE LedgerOf[j]]
      <3> SUFFICES ASSUME NEW j \in Jti
                   PROVE  LedgerOf'[j] = IF j \in {new} THEN Ledger!Live(a)
                                         ELSE IF j \in S THEN Ledger!Spent(a)
                                         ELSE LedgerOf[j]
        BY DEF LedgerOf
      <3>1. CASE j = new
        BY <2>1, <2>4, <3>1 DEF LedgerOf
      <3>2. CASE j # new /\ j \in S
        BY <2>5, <3>2 DEF LedgerOf
      <3>3. CASE j # new /\ j \notin S
        BY <2>6, <3>3 DEF LedgerOf, EntryOf
      <3> QED
        BY <3>1, <3>2, <3>3
    <2>8. {new} \in {{}} \cup {{j} : j \in Jti} /\ \A j \in {new} : j > issued
      BY <2>1
    <2> HIDE DEF new
    <2> QED
      BY <1>2, <2>7, <2>8, ExchangeStep
  <1>3. ASSUME NEW a \in Open, Closes(a)
        PROVE  Ledger!LedgerNext
    <2>1. a \in Account /\ a \notin ClosedOf /\ ClosedOf' = ClosedOf \cup {a} /\ issued' = issued
      BY <1>0, <1>3 DEF Closes, ClosedOf
    <2>2. \A j \in Jti :
             LedgerOf'[j] = IF LedgerOf[j] \in {Ledger!Live(a), Ledger!Spent(a)} THEN Ledger!Gone
                            ELSE LedgerOf[j]
      <3> SUFFICES ASSUME NEW j \in Jti
                   PROVE  LedgerOf'[j] = IF LedgerOf[j] \in {Ledger!Live(a), Ledger!Spent(a)}
                                         THEN Ledger!Gone ELSE LedgerOf[j]
        OBVIOUS
      <3>1. CASE j > issued
        BY <2>1, <3>1 DEF LedgerOf, Ledger!Live, Ledger!Spent
      <3>2. CASE ~(j > issued) /\ token[j].account = a
        <4>1. token'[j].account = None
          BY <1>0, <1>3, <3>2, RowsClosed
        <4>2. LedgerOf'[j] = Ledger!Gone
          BY <2>1, <3>2, <4>1 DEF LedgerOf, EntryOf, Ledger!Gone
        <4>3. LedgerOf[j] \in {Ledger!Live(a), Ledger!Spent(a)}
          BY <1>0, <3>2 DEF LedgerOf, EntryOf, Ledger!Live, Ledger!Spent
        <4> QED
          BY <4>2, <4>3
      <3>3. CASE ~(j > issued) /\ token[j].account # a
        <4>1. token'[j] = token[j]
          BY <1>0, <1>3, <3>3, RowsClosed
        <4>2. LedgerOf'[j] = LedgerOf[j]
          BY <2>1, <3>3, <4>1 DEF LedgerOf, EntryOf
        <4>3. LedgerOf[j] \notin {Ledger!Live(a), Ledger!Spent(a)}
          BY <3>3 DEF LedgerOf, EntryOf, Ledger!Live, Ledger!Spent
        <4> QED
          BY <4>2, <4>3
      <3> QED
        BY <3>1, <3>2, <3>3
    <2>3. LedgerOf' = [j \in Jti |->
             IF LedgerOf[j] \in {Ledger!Live(a), Ledger!Spent(a)} THEN Ledger!Gone
             ELSE LedgerOf[j]]
      BY <2>2 DEF LedgerOf
    <2>4. Ledger!Close(a)
      BY <2>1, <2>3, Mapped DEF Ledger!Close, Ledger!Jti, Jti, ClosedOf
    <2> QED
      BY <2>1, <2>4 DEF Ledger!LedgerNext
  <1>4. CASE UNCHANGED <<status, token, issued>>
    BY <1>4 DEF LedgerOf, ClosedOf, EntryOf
  <1>5. ASSUME UNCHANGED <<token, issued>>, NEW a \in Account, status[a] = "new",
               status' = [status EXCEPT ![a] = "open"]
        PROVE  UNCHANGED <<LedgerOf, ClosedOf>>
    BY <1>0, <1>5 DEF LedgerOf, ClosedOf, EntryOf
  <1> QED
    BY <1>1, <1>2, <1>3, <1>4, <1>5, EveryTokenStep DEF TokenStep

\* Every step of Sessions is an exchange of the ledger, closes an account in it or
\* leaves it alone: no interleaving of requests, deaths, deletions and expiries
\* revives a spent token, moves one between accounts or issues one for an account
\* that was deleted.
THEOREM Refinement == Spec => ImplementsLedger
  <1> DEFINE L == [j \in Jti |->
                    IF j > issued THEN [status |-> "unissued"]
                    ELSE IF ~IsRow(j) THEN [status |-> "gone"]
                    ELSE [status |-> IF token[j].revoked THEN "spent" ELSE "live",
                          account |-> token[j].account]]
             C == {a \in Account : status[a] = "closed"}
  <1>1. IInv /\ [Next]_vars => [Ledger!LedgerNext]_<<L, C>>
    <2> SUFFICES ASSUME IInv, [Next]_vars PROVE Ledger!LedgerNext \/ UNCHANGED <<L, C>>
      OBVIOUS
    <2>1. LedgerOf = L /\ LedgerOf' = L' /\ ClosedOf = C /\ ClosedOf' = C'
      BY Mapped DEF ClosedOf
    <2> QED
      BY <2>1, LedgerStep
  <1> QED
    BY Inductive, LedgerInitial, <1>1, PTL DEF Spec, ImplementsLedger, Ledger!LedgerSpec

-----------------------------------------------------------------------------
(* One request after the other.  Requests that overlap break OneSuccessor,    *)
(* RevocationComplete, LiveTokensResolve and OldPasswordDies; one at a time   *)
(* they keep them, and what makes them true is that what a request read is    *)
(* still so when it commits, even if earlier requests died half way.          *)

OneRequest == \A r, s \in Request : r = s

\* What a request read, and has yet to use, is still what the tables hold.
Current(q) ==
  /\ q.phase = "rotate" => IsLive(q.jti)
  /\ q.phase \in {"reuse", "reissue", "promote", "recover"} =>
        q.seen = LiveTokensOf(q.account)
  /\ q.phase \in {"row", "rotate", "login", "reissue"} =>
        q.email = email[q.account]

LiveTokensCurrent ==
  \A j \in Jti : IsLive(j) => token[j].sub = email[token[j].account]

RequestsCurrent == \A r \in Request : Current(req[r])

SerialInv == OneSuccessor /\ LiveTokensCurrent /\ RequestsCurrent

\* A row after a commit that revoked S.
SameRow(j, S) ==
  /\ token'[j].account = token[j].account
  /\ token'[j].sub = token[j].sub
  /\ token'[j].parent = token[j].parent
  /\ token'[j].pw = token[j].pw
  /\ token'[j].revoked <=> token[j].revoked \/ j \in S

LEMMA RowsRevoked ==
  ASSUME IInv, NEW S, RevokeOnly(S)
  PROVE  \A j \in Jti : SameRow(j, S)
  BY DEF IInv, TypeOK, RevokeOnly, Revoked, Row, SameRow

LEMMA RowsIssued ==
  ASSUME IInv, NEW S \in SUBSET (1..issued), NEW a, NEW e, NEW parent, NEW pw,
         RevokeAndIssue(S, a, e, parent, pw)
  PROVE  /\ issued + 1 \in Jti \ S
         /\ issued' = issued + 1
         /\ token'[issued + 1] = NewRow(a, e, parent, pw)
         /\ \A j \in Jti \ {issued + 1} : SameRow(j, S)
  <1> USE SessionConstants
  <1>1. issued \in 0..MaxJti /\ token \in [Jti -> Row]
    BY DEF IInv, TypeOK
  <1>2. issued + 1 \in Jti \ S /\ issued' = issued + 1
    BY <1>1 DEF RevokeAndIssue, Jti
  <1>3. token' = [Revoked(S) EXCEPT ![issued + 1] = NewRow(a, e, parent, pw)]
    BY DEF RevokeAndIssue
  <1>4. \A j \in Jti \ {issued + 1} :
           token'[j] = IF j \in S THEN [token[j] EXCEPT !.revoked = TRUE]
                                  ELSE token[j]
    BY <1>1, <1>2, <1>3 DEF Revoked
  <1>5. \A j \in Jti \ {issued + 1} : SameRow(j, S)
    BY <1>1, <1>4 DEF Row, SameRow
  <1> QED
    BY <1>2, <1>3, <1>5 DEF Revoked

\* Whoever is idle, answering or dead carries nothing that could be stale.
LEMMA NothingToUse ==
  ASSUME NEW r \in Request,
         req'[r].phase \notin {"row", "rotate", "reuse", "login", "reissue",
                               "promote", "recover"}
  PROVE  Current(req[r])'
  BY DEF Current

\* Only the one request moves.
LEMMA OnlyRequest ==
  ASSUME OneRequest, NEW r \in Request, Current(req[r])'
  PROVE  RequestsCurrent'
  BY DEF OneRequest, RequestsCurrent

\* Revoking more keeps each token at one successor, and live tokens current as
\* long as the address of an account only moves when none of its tokens lives.
LEMMA RevokingSerial ==
  ASSUME IInv, SerialInv, NEW S, RevokeOnly(S),
         \A j \in Jti \ S : IsLive(j) =>
            email'[token[j].account] = email[token[j].account]
  PROVE  OneSuccessor' /\ LiveTokensCurrent'
  BY RowsRevoked DEF SerialInv, OneSuccessor, LiveTokensCurrent, IsLive, SameRow

\* Issuing for the account's address, from a parent that was live or from none.
LEMMA IssuingSerial ==
  ASSUME IInv, SerialInv, NEW S \in SUBSET (1..issued), NEW a \in Account,
         NEW parent \in S \cup {0}, NEW pw, UNCHANGED email,
         parent # 0 => IsLive(parent),
         RevokeAndIssue(S, a, email[a], parent, pw)
  PROVE  OneSuccessor' /\ LiveTokensCurrent'
  <1> USE SessionConstants
  <1> DEFINE new == issued + 1
  <1>1. /\ new \in Jti \ S /\ token'[new] = NewRow(a, email[a], parent, pw)
        /\ \A j \in Jti \ {new} : SameRow(j, S)
    BY RowsIssued
  <1>2. parent # 0 => \A j \in Jti : token[j].parent # parent
    <2> SUFFICES ASSUME parent # 0, NEW j \in Jti, token[j].parent = parent
                 PROVE  FALSE
      OBVIOUS
    <2>1. token[parent].revoked
      BY DEF IInv, ParentSpent
    <2> QED
      BY <2>1 DEF IsLive
  <1>3. /\ token'[new].parent = parent /\ token'[new].sub = email[a]
        /\ token'[new].account = a
    BY <1>1 DEF NewRow
  <1>4. OneSuccessor'
    <2> SUFFICES ASSUME NEW i \in Jti, NEW j \in Jti, token'[i].parent # 0,
                        token'[i].parent = token'[j].parent
                 PROVE  i = j
      BY DEF OneSuccessor
    <2> QED
      BY <1>1, <1>2, <1>3 DEF SameRow, SerialInv, OneSuccessor
  <1>5. LiveTokensCurrent'
    <2> SUFFICES ASSUME NEW j \in Jti, ~token'[j].revoked
                 PROVE  token'[j].sub = email'[token'[j].account]
      BY DEF LiveTokensCurrent, IsLive
    <2>1. CASE j = new
      BY <1>3, <2>1
    <2>2. CASE j # new
      BY <1>1, <2>2 DEF SameRow, SerialInv, LiveTokensCurrent, IsLive
    <2> QED
      BY <2>1, <2>2
  <1> QED
    BY <1>4, <1>5

\* Steps of a request that touch neither tokens nor addresses: all they may
\* change is what the request itself carries.
LEMMA QuietSerial ==
  ASSUME SerialInv, UNCHANGED <<token, email>>
  PROVE  OneSuccessor' /\ LiveTokensCurrent'
  BY DEF SerialInv, OneSuccessor, LiveTokensCurrent, IsLive

LEMMA StartSerial ==
  ASSUME OneRequest, IInv, SerialInv, NEW r \in Request, Start(r)
  PROVE  SerialInv'
  <1> USE SessionConstants
  <1>0. req \in [Request -> Req]
    BY DEF IInv, TypeOK
  <1>1. ASSUME NEW c \in Client, Logout(r, c)
        PROVE  SerialInv'
    <2>1. RevokeOnly({jar[c].refresh} \ {0}) /\ email' = email
      BY <1>1 DEF Logout, accountTables
    <2>2. OneSuccessor' /\ LiveTokensCurrent'
      BY <2>1, RevokingSerial
    <2>3. req'[r].phase = "clear"
      BY <1>0, <1>1 DEF Logout, Idle
    <2> QED
      BY <2>2, <2>3, NothingToUse, OnlyRequest DEF SerialInv
  <1>2. ASSUME UNCHANGED <<token, email>>, Current(req[r])'
        PROVE  SerialInv'
    BY <1>2, QuietSerial, OnlyRequest DEF SerialInv
  <1>3. ASSUME NEW c \in Client, NEW op \in Ops, StartRotation(r, c, op)
        PROVE  SerialInv'
    <2>1. req'[r].phase = "account" /\ UNCHANGED <<token, email>>
      BY <1>0, <1>3 DEF StartRotation, Idle, accountTables
    <2> QED
      BY <1>2, <2>1, NothingToUse
  <1>4. ASSUME NEW c \in Client, NEW a \in Account, CheckCredentials(r, c, a)
        PROVE  SerialInv'
    <2>1. /\ req'[r].phase = "login" /\ req'[r].account = a
          /\ req'[r].email = email[a] /\ UNCHANGED <<token, email>>
      BY <1>0, <1>4 DEF CheckCredentials, Idle, accountTables
    <2>2. Current(req[r])'
      BY <2>1 DEF Current
    <2> QED
      BY <1>2, <2>1, <2>2
  <1>5. ASSUME NEW a \in Account, AskForLink(r, a)
        PROVE  SerialInv'
    <2>1. req'[r].phase = "forgot" /\ UNCHANGED <<token, email>>
      BY <1>0, <1>5 DEF AskForLink, Idle, accountTables
    <2> QED
      BY <1>2, <2>1, NothingToUse
  <1>6. ASSUME NEW c \in Client, NEW l \in links, FollowLink(r, c, l)
        PROVE  SerialInv'
    <2>1. req'[r].phase = "reset" /\ UNCHANGED <<token, email>>
      BY <1>0, <1>6 DEF FollowLink, Idle, accountTables
    <2> QED
      BY <1>2, <2>1, NothingToUse
  <1>7. ASSUME NEW a \in Account, req'[r].phase \in {"promote", "recover"},
               req'[r].account = a, req'[r].seen = LiveTokensOf(a),
               UNCHANGED <<token, email>>
        PROVE  SerialInv'
    <2>1. LiveTokensOf(a)' = LiveTokensOf(a)
      BY <1>7 DEF LiveTokensOf, IsLive
    <2>2. Current(req[r])'
      BY <1>7, <2>1 DEF Current
    <2> QED
      BY <1>2, <1>7, <2>2
  <1>8. ASSUME NEW c \in Client, NEW a \in Account, NEW e \in Email,
               StartPromotion(r, c, a, e)
        PROVE  SerialInv'
    <2>1. /\ req'[r].phase = "promote" /\ req'[r].account = a
          /\ req'[r].seen = LiveTokensOf(a) /\ UNCHANGED <<token, email>>
      BY <1>0, <1>8 DEF StartPromotion, Idle, accountTables
    <2> QED
      BY <1>7, <2>1
  <1>9. ASSUME NEW a \in Account, NEW e \in Email, StartRecovery(r, a, e)
        PROVE  SerialInv'
    <2>1. /\ req'[r].phase = "recover" /\ req'[r].account = a
          /\ req'[r].seen = LiveTokensOf(a) /\ UNCHANGED <<token, email>>
      BY <1>0, <1>9 DEF StartRecovery, Idle, accountTables
    <2> QED
      BY <1>7, <2>1
  <1>10. ASSUME NEW c \in Client, NEW e \in Email, StartRegistration(r, c, e)
         PROVE  SerialInv'
    <2>1. req'[r].phase = "register" /\ UNCHANGED <<token, email>>
      BY <1>0, <1>10 DEF StartRegistration, Idle, accountTables
    <2> QED
      BY <1>2, <2>1, NothingToUse
  <1>11. ASSUME NEW c \in Client, NEW a \in Account, StartDeletion(r, c, a)
         PROVE  SerialInv'
    <2>1. req'[r].phase = "delete" /\ UNCHANGED <<token, email>>
      BY <1>0, <1>11 DEF StartDeletion, Idle, accountTables
    <2> QED
      BY <1>2, <2>1, NothingToUse
  <1> QED
    BY <1>1, <1>3, <1>4, <1>5, <1>6, <1>8, <1>9, <1>10, <1>11 DEF Start

LEMMA ReadingSerial ==
  ASSUME OneRequest, IInv, SerialInv, NEW r \in Request,
         \/ FindAccount(r) \/ RefuseToken(r) \/ DetectReuse(r) \/ AcceptToken(r)
         \/ CommitLink(r) \/ CommitPassword(r) \/ SelectForReset(r)
         \/ CommitRecoveryLink(r) \/ Registered(r) \/ RefuseDeletion(r) \/ LoseAccount(r)
         \/ Respond(r) \/ ClearCookies(r) \/ Abort(r)
  PROVE  SerialInv'
  <1> DEFINE p == req[r]
  <1>0. /\ req \in [Request -> Req] /\ p \in Req /\ Current(p)
    BY DEF IInv, TypeOK, SerialInv, RequestsCurrent
  <1>1. UNCHANGED <<token, email>>
    BY DEF FindAccount, RefuseToken, DetectReuse, AcceptToken, CommitLink,
           CommitPassword, SelectForReset, CommitRecoveryLink, Registered,
           RefuseDeletion, LoseAccount, Respond, ClearCookies, Abort, accountTables
  <1>2. SUFFICES Current(req[r])'
    BY <1>1, QuietSerial, OnlyRequest DEF SerialInv
  <1>3. CASE Done(r)
    <2>1. req'[r].phase = "idle"
      BY <1>0, <1>3 DEF Done, Idle
    <2> QED
      BY <2>1, NothingToUse
  <1>4. CASE FindAccount(r)
    <2> DEFINE sub == token[p.jti].sub
    <2>1. CASE \E a \in AccountsNamed(sub) :
                  req' = [req EXCEPT ![r].phase = "row", ![r].account = a,
                                     ![r].email = sub]
      <3>1. PICK a \in AccountsNamed(sub) :
                  req' = [req EXCEPT ![r].phase = "row", ![r].account = a,
                                     ![r].email = sub]
        BY <2>1
      <3>2. /\ req'[r].phase = "row" /\ req'[r].account = a /\ req'[r].email = sub
            /\ email[a] = sub
        BY <1>0, <3>1 DEF AccountsNamed, Req
      <3> QED
        BY <1>1, <3>2 DEF Current
    <2> QED
      BY <1>3, <1>4, <2>1 DEF FindAccount
  <1>5. CASE DetectReuse(r)
    <2>1. /\ req'[r].phase = "reuse" /\ req'[r].account = p.account
          /\ req'[r].seen = LiveTokensOf(p.account)
      BY <1>0, <1>5 DEF DetectReuse, Req
    <2>2. req'[r].seen = LiveTokensOf(req[r].account)'
      BY <1>1, <2>1 DEF LiveTokensOf, IsLive
    <2> QED
      BY <2>1, <2>2 DEF Current
  <1>6. CASE AcceptToken(r)
    <2>1. /\ req'[r].phase = "rotate" /\ req'[r].account = p.account
          /\ req'[r].email = p.email /\ req'[r].jti = p.jti
          /\ p.phase = "row" /\ ~token[p.jti].revoked
      BY <1>0, <1>6 DEF AcceptToken, To, Req
    <2> QED
      BY <1>0, <1>1, <2>1 DEF Current, IsLive
  <1>7. CASE CommitPassword(r)
    <2>1. req'[r].phase = "sweep"
      BY <1>0, <1>7 DEF CommitPassword, Req
    <2> QED
      BY <2>1, NothingToUse
  <1>8. CASE SelectForReset(r)
    <2>1. /\ req'[r].phase = "reissue" /\ req'[r].account = p.account
          /\ req'[r].email = email[p.account]
          /\ req'[r].seen = LiveTokensOf(p.account)
      BY <1>0, <1>8 DEF SelectForReset, Req
    <2>2. req'[r].seen = LiveTokensOf(req[r].account)'
      BY <1>1, <2>1 DEF LiveTokensOf, IsLive
    <2> QED
      BY <1>1, <2>1, <2>2 DEF Current
  <1>9. CASE CommitRecoveryLink(r)
    <2>1. req'[r].phase = "respond"
      BY <1>0, <1>9 DEF CommitRecoveryLink, Granting, Idle
    <2> QED
      BY <2>1, NothingToUse
  <1>10. CASE Registered(r)
    <2>1. /\ req'[r].phase = "login" /\ req'[r].account = p.account
          /\ req'[r].email = email[p.account]
      BY <1>0, <1>10 DEF Registered, Req
    <2> QED
      BY <1>1, <2>1 DEF Current
  <1> QED
    BY <1>3, <1>4, <1>5, <1>6, <1>7, <1>8, <1>9, <1>10
       DEF RefuseToken, CommitLink, RefuseDeletion, LoseAccount, Respond, ClearCookies, Abort

\* A live token is one of an account that is there.
LEMMA LiveOfOpen == IInv => \A j \in Jti : IsLive(j) => token[j].account \in Open
  BY DEF IInv, RowsInOrder, IsLive, NoRow

LEMMA CommittingSerial ==
  ASSUME OneRequest, IInv, SerialInv, NEW r \in Request,
         \/ CommitReuse(r) \/ CommitRotation(r) \/ CommitLogin(r) \/ CommitReset(r)
         \/ CommitPromotion(r) \/ IssuePromoted(r) \/ CommitRecovery(r)
         \/ CommitRegistration(r) \/ CommitDeletion(r) \/ Leave(r)
  PROVE  SerialInv'
  <1> USE SessionConstants
  <1> DEFINE p == req[r]
             a == p.account
  <1>0. /\ req \in [Request -> Req] /\ p \in Req /\ Current(p) /\ Agrees(p)
        /\ token \in [Jti -> Row] /\ email \in [Account -> MaybeEmail]
        /\ issued \in 0..MaxJti
        /\ p.account \in Open => p.seen \in SUBSET (1..issued)
    BY SeenIssued DEF IInv, TypeOK, SerialInv, RequestsCurrent, RequestsAgree
  <1>1. ASSUME OneSuccessor', LiveTokensCurrent',
               req'[r].phase \in {"idle", "clear", "respond", "promoted", "notify",
                                   "registered", "leave"}
        PROVE  SerialInv'
    BY <1>1, NothingToUse, OnlyRequest DEF SerialInv
  <1>2. ASSUME NEW j, NEW e, NEW pw, Granting(r, j, e, pw)
        PROVE  req'[r].phase = "respond"
    BY <1>0, <1>2 DEF Granting, Idle
  <1>3. Done(r) => req'[r].phase = "idle"
    BY <1>0 DEF Done, Idle
  <1>4. \A x \in Phase : To(r, x) => req'[r].phase = x
    BY <1>0 DEF To, Req
  <1>5. CASE CommitReuse(r)
    <2>1. RevokeOnly(p.seen) /\ UNCHANGED email
      BY <1>5 DEF CommitReuse, accountTables
    <2>2. OneSuccessor' /\ LiveTokensCurrent'
      BY <2>1, RevokingSerial
    <2>3. req'[r].phase \in {"idle", "clear"}
      BY <1>3, <1>4, <1>5 DEF CommitReuse, Phase
    <2> QED
      BY <1>1, <2>2, <2>3
  <1>6. CASE CommitRotation(r)
    <2>1. /\ p.phase = "rotate" /\ a \in Account /\ p.email = email[a]
          /\ IsLive(p.jti) /\ p.jti \in 1..issued
      BY <1>0, <1>6 DEF CommitRotation, Agrees, Current, Req
    <2>2. RevokeAndIssue({p.jti}, a, email[a], p.jti, token[p.jti].pw)
      BY <1>6, <2>1 DEF CommitRotation
    <2>3. UNCHANGED email
      BY <1>6 DEF CommitRotation, accountTables
    <2>4. OneSuccessor' /\ LiveTokensCurrent'
      BY <2>1, <2>2, <2>3, IssuingSerial
    <2>5. req'[r].phase \in {"idle", "respond"}
      BY <1>2, <1>3, <1>6 DEF CommitRotation
    <2> QED
      BY <1>1, <2>4, <2>5
  <1>7. CASE CommitLogin(r) \/ CommitReset(r)
    <2>1. a \in Account /\ p.email = email[a]
      BY <1>0, <1>7 DEF CommitLogin, CommitReset, Agrees, Current
    <2>2. PICK S \in {{}, p.seen} : RevokeAndIssue(S, a, email[a], 0, p.pw)
      BY <1>7, <2>1 DEF CommitLogin, CommitReset
    <2>3. S \in SUBSET (1..issued)
      BY <1>0, <1>7 DEF CommitLogin, CommitReset, Stays
    <2>4. UNCHANGED email
      BY <1>7 DEF CommitLogin, CommitReset, accountTables
    <2>5. OneSuccessor' /\ LiveTokensCurrent'
      BY <2>1, <2>2, <2>3, <2>4, IssuingSerial
    <2>6. req'[r].phase = "respond"
      BY <1>2, <1>7 DEF CommitLogin, CommitReset
    <2> QED
      BY <1>1, <2>5, <2>6
  <1>8. CASE IssuePromoted(r)
    <2>1. a \in Account /\ RevokeAndIssue({}, a, email[a], 0, p.pw)
      BY <1>0, <1>8 DEF IssuePromoted, Agrees
    <2>2. UNCHANGED email
      BY <1>8 DEF IssuePromoted, accountTables
    <2>3. OneSuccessor' /\ LiveTokensCurrent'
      BY <2>1, <2>2, IssuingSerial
    <2>4. req'[r].phase = "notify"
      BY <1>0, <1>8 DEF IssuePromoted, Req
    <2> QED
      BY <1>1, <2>3, <2>4
  <1>9. \* Every live token of the account dies in the commit that moves its address.
        ASSUME p.phase \in {"promote", "recover"}, RevokeOnly(p.seen),
               NEW e, email' = [email EXCEPT ![a] = e]
        PROVE  OneSuccessor' /\ LiveTokensCurrent'
    <2>1. a \in Account /\ p.seen = LiveTokensOf(a)
      BY <1>0, <1>9 DEF Agrees, Current
    <2>2. \A j \in Jti \ p.seen : IsLive(j) =>
             email'[token[j].account] = email[token[j].account]
      BY <1>0, <1>9, <2>1 DEF LiveTokensOf
    <2> QED
      BY <1>9, <2>2, RevokingSerial
  <1>10. CASE CommitPromotion(r)
    <2>1. p.phase = "promote"
      BY <1>10 DEF CommitPromotion
    <2>2. CASE UNCHANGED <<email, token, issued>> /\ Done(r)
      BY <1>1, <1>3, <2>2, QuietSerial
    <2>3. CASE /\ email' = [email EXCEPT ![a] = p.email]
               /\ RevokeOnly(p.seen) /\ To(r, "promoted")
      BY <1>1, <1>4, <1>9, <2>1, <2>3 DEF Phase
    <2> QED
      BY <1>10, <2>2, <2>3 DEF CommitPromotion
  <1>11. CASE CommitRecovery(r)
    <2>1. p.phase = "recover" /\ req'[r].phase = "idle"
      BY <1>3, <1>11 DEF CommitRecovery
    <2>2. CASE UNCHANGED <<email, token>>
      BY <1>1, <2>1, <2>2, QuietSerial
    <2>3. CASE /\ email' = [email EXCEPT ![a] = IF p.email = p.old THEN @ ELSE p.email]
               /\ RevokeOnly(p.seen)
      <3> DEFINE e == IF p.email = p.old THEN email[a] ELSE p.email
      <3>1. email' = [email EXCEPT ![a] = e]
        BY <2>3
      <3> QED
        BY <1>1, <1>9, <2>1, <2>3, <3>1
    <2> QED
      BY <1>11, <2>2, <2>3 DEF CommitRecovery
  <1>12. CASE Leave(r)
    <2>1. RevokeOnly({jar[p.client].refresh} \ {0}) /\ email' = email
      BY <1>12 DEF Leave, accountTables
    <2>2. OneSuccessor' /\ LiveTokensCurrent'
      BY <2>1, RevokingSerial
    <2> QED
      BY <1>1, <1>4, <1>12, <2>2 DEF Leave, Phase
  <1>13. CASE CommitRegistration(r)
    <2>1. UNCHANGED token
      BY <1>13 DEF CommitRegistration
    <2>2. CASE UNCHANGED email /\ Done(r)
      BY <1>1, <1>3, <2>1, <2>2, QuietSerial
    <2>3. ASSUME NEW b \in Account, status[b] = "new", NEW e, NEW pw,
                 email' = [email EXCEPT ![b] = e],
                 req' = [req EXCEPT ![r].phase = "registered", ![r].account = b,
                                    ![r].pw = pw]
          PROVE  SerialInv'
      <3>1. \A j \in Jti : IsLive(j) => email'[token[j].account] = email[token[j].account]
        BY <1>0, <2>3, LiveOfOpen DEF Open
      <3>2. OneSuccessor' /\ LiveTokensCurrent'
        BY <2>1, <3>1 DEF SerialInv, OneSuccessor, LiveTokensCurrent, IsLive
      <3>3. req'[r].phase = "registered"
        BY <1>0, <2>3 DEF Req
      <3> QED
        BY <1>1, <3>2, <3>3
    <2>4. \/ UNCHANGED email /\ Done(r)
          \/ \E b \in Account :
               /\ status[b] = "new" /\ email' = [email EXCEPT ![b] = p.email]
               /\ req' = [req EXCEPT ![r].phase = "registered", ![r].account = b,
                                     ![r].pw = password[b]]
      BY <1>13 DEF CommitRegistration
    <2> QED
      BY <2>2, <2>3, <2>4
  <1>14. CASE CommitDeletion(r)
    <2>1. req'[r].phase = "leave"
      BY <1>4, <1>14 DEF CommitDeletion, Phase
    <2>2. CASE UNCHANGED <<token, email>>
      BY <1>1, <2>1, <2>2, QuietSerial
    <2>3. CASE a \in Account /\ Closes(a) /\ email' = [email EXCEPT ![a] = None]
      <3>1. OneSuccessor'
        BY <1>0, <2>3, RowsClosed DEF SerialInv, OneSuccessor
      <3>2. LiveTokensCurrent'
        <4> SUFFICES ASSUME NEW j \in Jti, ~token'[j].revoked
                     PROVE  token'[j].sub = email'[token'[j].account]
          BY DEF LiveTokensCurrent, IsLive
        <4>1. token'[j] = token[j] /\ token[j].account # a
          BY <1>0, <2>3, RowsClosed
        <4> HIDE DEF a
        <4> QED
          BY <1>0, <2>3, <4>1, LiveOfOpen DEF SerialInv, LiveTokensCurrent, IsLive, Open
      <3> QED
        BY <1>1, <2>1, <3>1, <3>2
    <2> QED
      BY <1>14, <2>2, <2>3 DEF CommitDeletion, Closes, Stays, Open
  <1> QED
    BY <1>5, <1>6, <1>7, <1>8, <1>10, <1>11, <1>12, <1>13, <1>14

THEOREM SerialInductive ==
  ASSUME OneRequest
  PROVE  Spec => []SerialInv
  <1>1. Init => SerialInv
    BY DEF Init, SerialInv, OneSuccessor, LiveTokensCurrent, RequestsCurrent,
           Current, IsLive, NoRow, Idle
  <1>2. IInv /\ SerialInv /\ [Next]_vars => SerialInv'
    <2> SUFFICES ASSUME IInv, SerialInv, [Next]_vars PROVE SerialInv'
      OBVIOUS
    <2>1. ASSUME NEW r \in Request, Start(r) PROVE SerialInv'
      BY <2>1, StartSerial
    <2>2. ASSUME NEW r \in Request, Serve(r) \/ Abort(r) PROVE SerialInv'
      BY <2>2, ReadingSerial, CommittingSerial DEF Serve
    <2>3. CASE UNCHANGED <<token, email, req>>
      BY <2>3 DEF SerialInv, OneSuccessor, LiveTokensCurrent, RequestsCurrent,
                  Current, IsLive, LiveTokensOf
    <2>4. CASE Environment
      BY <2>3, <2>4 DEF Environment, ClaimEmail, ReleaseEmail, AccessExpires,
                  CookiesExpire, LinkExpires, RecoveryExpires, accountTables
    <2>5. CASE UNCHANGED vars
      BY <2>3, <2>5 DEF vars
    <2> QED
      BY <2>1, <2>2, <2>4, <2>5 DEF Next
  <1> QED
    BY Inductive, <1>1, <1>2, PTL DEF Spec

\* One request after the other, a refresh token has at most one successor.
THEOREM ExchangedOnce ==
  ASSUME OneRequest
  PROVE  Spec => []OneSuccessor
  <1>1. SerialInv => OneSuccessor
    BY DEF SerialInv
  <1> QED
    BY SerialInductive, <1>1, PTL

\* One request after the other, every live token names its account's present
\* address, whatever moved it and wherever the requests that moved it died.
THEOREM LiveTokensUsable ==
  ASSUME OneRequest
  PROVE  Spec => []LiveTokensResolve
  <1>1. SerialInv => LiveTokensResolve
    BY DEF SerialInv, LiveTokensCurrent, LiveTokensResolve
  <1> QED
    BY SerialInductive, <1>1, PTL

\* One request after the other, a reset leaves its own session alone alive and
\* a detected replay leaves none.
THEOREM RevokesEverything ==
  ASSUME OneRequest
  PROVE  Spec => RevocationComplete
  <1> DEFINE Swept ==
        \A r \in Request, a \in Account : req[r].account = a =>
          /\ CommitReset(r) => LiveTokensOf(a)' = {issued'}
          /\ CommitReuse(r) => LiveTokensOf(a)' = {}
  <1>1. IInv /\ SerialInv /\ [Next]_vars => [Swept]_vars
    <2> SUFFICES ASSUME IInv, SerialInv, NEW r \in Request, NEW a \in Account,
                        req[r].account = a
                 PROVE  /\ CommitReset(r) => LiveTokensOf(a)' = {issued'}
                        /\ CommitReuse(r) => LiveTokensOf(a)' = {}
      OBVIOUS
    <2> DEFINE p == req[r]
    <2>0. Current(p) /\ (p.account \in Open => p.seen \in SUBSET (1..issued))
      BY SeenIssued DEF SerialInv, RequestsCurrent
    <2>1. ASSUME CommitReset(r)
          PROVE  LiveTokensOf(a)' = {issued'}
      <3>1. p.seen = LiveTokensOf(a)
        BY <2>0, <2>1 DEF CommitReset, Current
      <3>2. RevokeAndIssue(p.seen, a, p.email, 0, p.pw)
        BY <2>1 DEF CommitReset
      <3>3. /\ issued + 1 \in Jti /\ issued' = issued + 1
            /\ token'[issued + 1] = NewRow(a, p.email, 0, p.pw)
            /\ \A j \in Jti \ {issued + 1} : SameRow(j, p.seen)
        <4>1. p.seen \in SUBSET (1..issued)
          BY <2>0, <2>1 DEF CommitReset, Stays
        <4> HIDE DEF p
        <4> QED
          BY <3>2, <4>1, RowsIssued
      <3>4. \A j \in Jti \ {issued + 1} :
               ~(~token'[j].revoked /\ token'[j].account = a)
        BY <3>1, <3>3 DEF SameRow, LiveTokensOf, IsLive
      <3>5. ~token'[issued + 1].revoked /\ token'[issued + 1].account = a
        BY <3>3 DEF NewRow
      <3> QED
        BY <3>3, <3>4, <3>5 DEF LiveTokensOf, IsLive
    <2>2. ASSUME CommitReuse(r)
          PROVE  LiveTokensOf(a)' = {}
      <3>1. p.seen = LiveTokensOf(a)
        BY <2>0, <2>2 DEF CommitReuse, Current
      <3>2. \A j \in Jti : SameRow(j, p.seen)
        BY <2>2, RowsRevoked DEF CommitReuse
      <3> QED
        BY <3>1, <3>2 DEF SameRow, LiveTokensOf, IsLive
    <2> QED
      BY <2>1, <2>2
  <1>2. [][Swept]_vars => RevocationComplete
    BY PTL DEF RevocationComplete
  <1> QED
    BY Inductive, SerialInductive, <1>1, <1>2, PTL DEF Spec

-----------------------------------------------------------------------------
(* Passwords.  OldPasswordDies needs more than one request at a time.  A      *)
(* reset that dies between its two commits leaves the old sessions alive, so  *)
(* no request may die; and promoting an address opens a session on the word   *)
(* of an access cookie, which may be older than the password.                 *)

NoneDiesOrPromotes == Lossy = FALSE /\ "promote" \notin Ops

\* What a request is about to vouch for is the password of its account.
Knows(q) ==
  /\ q.phase \notin {"promote", "promoted", "notify"}
  /\ q.phase \in {"registered", "login", "sweep", "reissue"} => q.pw = password[q.account]

\* The account whose password changed, and whose sessions are not swept yet.
Resetting(a) ==
  \E r \in Request : req[r].phase \in {"sweep", "reissue"} /\ req[r].account = a

LivePasswords ==
  \A j \in Jti : IsLive(j) => \/ token[j].pw = password[token[j].account]
                              \/ Resetting(token[j].account)

PasswordInv == LivePasswords /\ \A r \in Request : Knows(req[r])

AllPasswordsCurrent ==
  \A j \in Jti : IsLive(j) => token[j].pw = password[token[j].account]

LEMMA NobodyResets ==
  ASSUME OneRequest, PasswordInv, NEW r \in Request,
         req[r].phase \notin {"sweep", "reissue"}
  PROVE  AllPasswordsCurrent
  BY DEF OneRequest, PasswordInv, LivePasswords, Resetting, AllPasswordsCurrent

LEMMA PasswordFromRequest ==
  ASSUME OneRequest, NEW r \in Request, AllPasswordsCurrent', Knows(req[r])'
  PROVE  PasswordInv'
  BY DEF OneRequest, PasswordInv, LivePasswords, AllPasswordsCurrent

\* A session opened with the current password, while nobody resets.
LEMMA IssuingPassword ==
  ASSUME IInv, AllPasswordsCurrent, UNCHANGED password,
         NEW S \in SUBSET (1..issued), NEW a, NEW e, NEW parent,
         RevokeAndIssue(S, a, e, parent, password[a])
  PROVE  AllPasswordsCurrent'
  <1> DEFINE new == issued + 1
  <1>1. /\ new \in Jti \ S
        /\ token'[new] = NewRow(a, e, parent, password[a])
        /\ \A j \in Jti \ {new} : SameRow(j, S)
    BY RowsIssued
  <1>2. token'[new].pw = password[a] /\ token'[new].account = a
    BY <1>1 DEF NewRow
  <1>3. SUFFICES ASSUME NEW j \in Jti, ~token'[j].revoked
                 PROVE  token'[j].pw = password'[token'[j].account]
    BY DEF AllPasswordsCurrent, IsLive
  <1>4. CASE j = new
    BY <1>2, <1>4
  <1>5. CASE j # new
    BY <1>1, <1>3, <1>5 DEF SameRow, AllPasswordsCurrent, IsLive
  <1> QED
    BY <1>4, <1>5

LEMMA RevokingPassword ==
  ASSUME IInv, AllPasswordsCurrent, UNCHANGED password, NEW S, RevokeOnly(S)
  PROVE  AllPasswordsCurrent'
  BY RowsRevoked DEF AllPasswordsCurrent, IsLive, SameRow

LEMMA StartPassword ==
  ASSUME OneRequest, NoneDiesOrPromotes, IInv, PasswordInv, NEW r \in Request, Start(r)
  PROVE  PasswordInv'
  <1> USE SessionConstants
  <1>0. req \in [Request -> Req] /\ UNCHANGED password
    BY DEF IInv, TypeOK, Start, StartRotation, CheckCredentials, Logout, AskForLink,
           FollowLink, StartPromotion, StartRecovery, StartRegistration, StartDeletion,
           accountTables
  <1>1. req[r].phase = "idle"
    <2>1. Free(r)
      BY DEF Start, StartRotation, CheckCredentials, Logout, AskForLink,
             FollowLink, StartPromotion, StartRecovery, StartRegistration,
             StartDeletion
    <2> QED
      BY <2>1 DEF Free, Idle
  <1>2. AllPasswordsCurrent
    BY <1>1, NobodyResets
  <1>3. AllPasswordsCurrent'
    <2>1. CASE UNCHANGED token
      BY <1>0, <1>2, <2>1 DEF AllPasswordsCurrent, IsLive
    <2>2. ASSUME NEW c \in Client, Logout(r, c)
          PROVE  AllPasswordsCurrent'
      BY <1>0, <1>2, <2>2, RevokingPassword DEF Logout
    <2> QED
      BY <2>1, <2>2 DEF Start, StartRotation, CheckCredentials, AskForLink,
                        FollowLink, StartPromotion, StartRecovery, StartRegistration,
                        StartDeletion
  <1>4. \/ req'[r].phase \in {"account", "clear", "forgot", "reset", "recover", "register",
                              "delete"}
        \/ /\ req'[r].phase = "login"
           /\ req'[r].pw = password[req'[r].account]
    <2>1. ASSUME NEW c \in Client, NEW a \in Account, CheckCredentials(r, c, a)
          PROVE  /\ req'[r].phase = "login"
                 /\ req'[r].pw = password[req'[r].account]
      BY <1>0, <2>1 DEF CheckCredentials, Idle
    <2>2. ASSUME NEW c \in Client, NEW op \in Ops, StartRotation(r, c, op)
          PROVE  req'[r].phase = "account"
      BY <1>0, <2>2 DEF StartRotation, Idle
    <2>3. ASSUME NEW c \in Client, Logout(r, c) \/ (\E l \in links : FollowLink(r, c, l))
          PROVE  req'[r].phase \in {"clear", "reset"}
      <3>1. CASE Logout(r, c)
        BY <1>0, <3>1 DEF Logout, Idle
      <3>2. ASSUME NEW l \in links, FollowLink(r, c, l)
            PROVE  req'[r].phase = "reset"
        BY <1>0, <3>2 DEF FollowLink, Idle
      <3> QED
        BY <2>3, <3>1, <3>2
    <2>4. ASSUME NEW a \in Account,
                 AskForLink(r, a) \/ (\E e \in Email : StartRecovery(r, a, e))
          PROVE  req'[r].phase \in {"forgot", "recover"}
      BY <1>0, <2>4 DEF AskForLink, StartRecovery, Idle
    <2>5. ~\E c \in Client, a \in Account, e \in Email : StartPromotion(r, c, a, e)
      BY DEF NoneDiesOrPromotes, StartPromotion
    <2>6. ASSUME NEW c \in Client,
                 \/ \E e \in Email : StartRegistration(r, c, e)
                 \/ \E a \in Account : StartDeletion(r, c, a)
          PROVE  req'[r].phase \in {"register", "delete"}
      BY <1>0, <2>6 DEF StartRegistration, StartDeletion, Idle
    <2> QED
      BY <2>1, <2>2, <2>3, <2>4, <2>5, <2>6 DEF Start
  <1>5. Knows(req[r])'
    BY <1>0, <1>4 DEF Knows
  <1> QED
    BY <1>3, <1>5, PasswordFromRequest

LEMMA ServePassword ==
  ASSUME OneRequest, NoneDiesOrPromotes, IInv, SerialInv, PasswordInv,
         NEW r \in Request, Serve(r)
  PROVE  PasswordInv'
  <1> USE SessionConstants
  <1> DEFINE p == req[r]
             a == p.account
  <1>0. /\ req \in [Request -> Req] /\ p \in Req /\ Current(p) /\ Agrees(p)
        /\ Knows(p) /\ token \in [Jti -> Row]
        /\ password \in [Account -> Version]
        /\ p.account \in Open => p.seen \in SUBSET (1..issued)
    BY SeenIssued DEF IInv, TypeOK, SerialInv, RequestsCurrent, RequestsAgree,
                      PasswordInv
  <1>1. ASSUME NEW j, NEW e, NEW pw, Granting(r, j, e, pw)
        PROVE  req'[r].phase = "respond"
    BY <1>0, <1>1 DEF Granting, Idle
  <1>2. Done(r) => req'[r].phase = "idle"
    BY <1>0 DEF Done, Idle
  <1>3. \A x \in Phase : To(r, x) => req'[r].phase = x
    BY <1>0 DEF To, Req
  <1>4. ASSUME AllPasswordsCurrent',
               req'[r].phase \notin {"promote", "promoted", "notify",
                                     "registered", "login", "sweep", "reissue"}
        PROVE  PasswordInv'
    BY <1>4, PasswordFromRequest DEF Knows
  <1>5. CASE \/ FindAccount(r) \/ RefuseToken(r) \/ DetectReuse(r) \/ AcceptToken(r)
             \/ CommitLink(r) \/ RefuseDeletion(r) \/ Respond(r) \/ ClearCookies(r)
    <2>1. p.phase \notin {"sweep", "reissue"} /\ UNCHANGED <<token, password>>
      BY <1>5 DEF FindAccount, RefuseToken, DetectReuse, AcceptToken, CommitLink,
                  RefuseDeletion, Respond, ClearCookies, accountTables
    <2>2. AllPasswordsCurrent'
      <3>1. AllPasswordsCurrent
        BY <2>1, NobodyResets
      <3> QED
        BY <2>1, <3>1 DEF AllPasswordsCurrent, IsLive
    <2>3. req'[r].phase \in {"idle", "row", "reuse", "rotate"}
      <3>1. FindAccount(r) => req'[r].phase \in {"idle", "row"}
        <4>1. ASSUME NEW b, NEW e,
                     req' = [req EXCEPT ![r].phase = "row", ![r].account = b,
                                        ![r].email = e]
              PROVE  req'[r].phase = "row"
          BY <1>0, <4>1 DEF Req
        <4> QED
          BY <1>2, <4>1 DEF FindAccount
      <3>2. DetectReuse(r) => req'[r].phase = "reuse"
        BY <1>0 DEF DetectReuse, Req
      <3>3. AcceptToken(r) => req'[r].phase = "rotate"
        BY <1>3 DEF AcceptToken, Phase
      <3>4. RefuseToken(r) \/ CommitLink(r) \/ RefuseDeletion(r) \/ Respond(r)
               \/ ClearCookies(r) => req'[r].phase = "idle"
        BY <1>2 DEF RefuseToken, CommitLink, RefuseDeletion, Respond, ClearCookies
      <3> QED
        BY <1>5, <3>1, <3>2, <3>3, <3>4
    <2> QED
      BY <1>4, <2>2, <2>3
  <1>6. CASE CommitReuse(r) \/ CommitRecovery(r) \/ Leave(r)
    <2>1. p.phase \notin {"sweep", "reissue"} /\ UNCHANGED password
      BY <1>6 DEF CommitReuse, CommitRecovery, Leave, accountTables
    <2>2. AllPasswordsCurrent'
      <3>1. AllPasswordsCurrent
        BY <2>1, NobodyResets
      <3>2. (\E S : RevokeOnly(S)) \/ UNCHANGED token
        BY <1>6 DEF CommitReuse, CommitRecovery, Leave
      <3>3. ASSUME NEW S, RevokeOnly(S) PROVE AllPasswordsCurrent'
        BY <2>1, <3>1, <3>3, RevokingPassword
      <3>4. CASE UNCHANGED token
        BY <2>1, <3>1, <3>4 DEF AllPasswordsCurrent, IsLive
      <3> QED
        BY <3>2, <3>3, <3>4
    <2>3. req'[r].phase \in {"idle", "clear"}
      BY <1>2, <1>3, <1>6 DEF CommitReuse, CommitRecovery, Leave, Phase
    <2> QED
      BY <1>4, <2>2, <2>3
  <1>7. CASE CommitRotation(r)
    <2>1. /\ p.phase = "rotate" /\ p.jti \in Jti /\ p.jti \in 1..issued
          /\ ~token[p.jti].revoked /\ token[p.jti].account = a
      BY <1>0, <1>7 DEF CommitRotation, Agrees, Current, IsLive, Req, Jti, IInv, TypeOK, Stays
    <2>2. AllPasswordsCurrent
      BY <2>1, NobodyResets
    <2>3. token[p.jti].pw = password[a]
      BY <2>1, <2>2 DEF AllPasswordsCurrent, IsLive
    <2>4. RevokeAndIssue({p.jti}, a, p.email, p.jti, password[a])
      BY <1>7, <2>3 DEF CommitRotation
    <2>5. UNCHANGED password
      BY <1>7 DEF CommitRotation, accountTables
    <2>6. AllPasswordsCurrent'
      <3> HIDE DEF p, a
      <3> QED
        BY <2>1, <2>2, <2>4, <2>5, IssuingPassword
    <2>7. req'[r].phase \in {"idle", "respond"}
      BY <1>1, <1>2, <1>7 DEF CommitRotation
    <2> QED
      BY <1>4, <2>6, <2>7
  <1>8. CASE CommitLogin(r)
    <2>1. p.phase = "login" /\ p.pw = password[a]
      BY <1>0, <1>8 DEF CommitLogin, Knows
    <2>2. AllPasswordsCurrent
      BY <2>1, NobodyResets
    <2>3. RevokeAndIssue({}, a, p.email, 0, password[a]) /\ UNCHANGED password
      BY <1>8, <2>1 DEF CommitLogin, accountTables
    <2>4. AllPasswordsCurrent'
      <3> HIDE DEF p, a
      <3> QED
        BY <2>2, <2>3, IssuingPassword
    <2>5. req'[r].phase = "respond"
      BY <1>1, <1>8 DEF CommitLogin
    <2> QED
      BY <1>4, <2>4, <2>5
  <1>9. CASE CommitPassword(r)
    <2>1. p.phase = "reset" /\ a \in Account /\ UNCHANGED token
      BY <1>0, <1>9 DEF CommitPassword, Agrees
    <2>2. AllPasswordsCurrent
      BY <2>1, NobodyResets
    <2>3. /\ req'[r].phase = "sweep" /\ req'[r].account = a
          /\ req'[r].pw = password[a] + 1
      BY <1>0, <1>9 DEF CommitPassword, Req
    <2>4. password' = [password EXCEPT ![a] = @ + 1]
      BY <1>9 DEF CommitPassword
    <2>5. Knows(req[r])'
      BY <1>0, <2>1, <2>3, <2>4 DEF Knows
    <2>6. LivePasswords'
      BY <1>0, <2>1, <2>2, <2>3, <2>4
         DEF LivePasswords, AllPasswordsCurrent, Resetting, IsLive
    <2> QED
      BY <2>5, <2>6 DEF PasswordInv, OneRequest
  <1>10. CASE SelectForReset(r)
    <2>1. /\ p.phase = "sweep" /\ UNCHANGED <<token, password>>
          /\ p.pw = password[a]
      BY <1>0, <1>10 DEF SelectForReset, Knows, accountTables
    <2>2. /\ req'[r].phase = "reissue" /\ req'[r].account = a
          /\ req'[r].pw = p.pw
      BY <1>0, <1>10 DEF SelectForReset, Req
    <2>3. Knows(req[r])'
      BY <2>1, <2>2 DEF Knows
    <2>4. LivePasswords'
      <3>1. \A b : Resetting(b) => b = a
        BY DEF OneRequest, Resetting
      <3> QED
        BY <2>1, <2>2, <3>1 DEF PasswordInv, LivePasswords, Resetting, IsLive
    <2> QED
      BY <2>3, <2>4 DEF PasswordInv, OneRequest
  <1>11. CASE CommitReset(r)
    <2>1. /\ p.phase = "reissue" /\ p.pw = password[a]
          /\ p.seen = LiveTokensOf(a)
      BY <1>0, <1>11 DEF CommitReset, Knows, Current
    <2>2. RevokeAndIssue(p.seen, a, p.email, 0, password[a]) /\ UNCHANGED password
      BY <1>11, <2>1 DEF CommitReset, accountTables
    <2>3. /\ issued + 1 \in Jti
          /\ token'[issued + 1] = NewRow(a, p.email, 0, password[a])
          /\ \A j \in Jti \ {issued + 1} : SameRow(j, p.seen)
      <3>1. p.seen \in SUBSET (1..issued)
        BY <1>0, <1>11 DEF CommitReset, Stays
      <3> DEFINE S == p.seen
                 pw == password[a]
                 e == p.email
      <3>2. RevokeAndIssue(S, a, e, 0, pw) /\ S \in SUBSET (1..issued)
        BY <2>2, <3>1
      <3> HIDE DEF S, pw, e, a
      <3>3. /\ issued + 1 \in Jti \ S
            /\ token'[issued + 1] = NewRow(a, e, 0, pw)
            /\ \A j \in Jti \ {issued + 1} : SameRow(j, S)
        BY <3>2, RowsIssued
      <3> QED
        BY <3>3 DEF S, pw, e
    <2>4. \A b : Resetting(b) => b = a
      BY DEF OneRequest, Resetting
    <2>5. AllPasswordsCurrent'
      <3> SUFFICES ASSUME NEW j \in Jti, ~token'[j].revoked
                   PROVE  token'[j].pw = password'[token'[j].account]
        BY DEF AllPasswordsCurrent, IsLive
      <3>1. CASE j = issued + 1
        BY <2>2, <2>3, <3>1 DEF NewRow
      <3>2. CASE j # issued + 1
        <4>1. ~token[j].revoked /\ token[j].account # a /\ SameRow(j, p.seen)
          BY <2>1, <2>3, <3>2 DEF SameRow, LiveTokensOf, IsLive
        <4>2. token[j].pw = password[token[j].account]
          BY <2>4, <4>1 DEF PasswordInv, LivePasswords, IsLive
        <4> QED
          BY <2>2, <4>1, <4>2 DEF SameRow
      <3> QED
        BY <3>1, <3>2
    <2>6. req'[r].phase = "respond"
      BY <1>1, <1>11 DEF CommitReset
    <2> QED
      BY <1>4, <2>5, <2>6
  <1>12. ~(CommitPromotion(r) \/ IssuePromoted(r) \/ CommitRecoveryLink(r))
    BY <1>0 DEF CommitPromotion, IssuePromoted, CommitRecoveryLink, Knows
  <1>13. CASE CommitRegistration(r)
    <2>1. p.phase = "register" /\ UNCHANGED <<token, password>>
      BY <1>13 DEF CommitRegistration
    <2>2. AllPasswordsCurrent'
      <3>1. AllPasswordsCurrent
        BY <2>1, NobodyResets
      <3> QED
        BY <2>1, <3>1 DEF AllPasswordsCurrent, IsLive
    <2>3. CASE Done(r)
      BY <1>2, <1>4, <2>2, <2>3
    <2>4. ASSUME NEW b \in Account,
                 req' = [req EXCEPT ![r].phase = "registered", ![r].account = b,
                                    ![r].pw = password[b]]
          PROVE  PasswordInv'
      <3>1. /\ req'[r].phase = "registered" /\ req'[r].account = b
            /\ req'[r].pw = password[b]
        BY <1>0, <2>4 DEF Req
      <3>2. Knows(req[r])'
        BY <2>1, <3>1 DEF Knows
      <3> QED
        BY <2>2, <3>2, PasswordFromRequest
    <2>5. \/ Done(r)
          \/ \E b \in Account :
               req' = [req EXCEPT ![r].phase = "registered", ![r].account = b,
                                  ![r].pw = password[b]]
      BY <1>13 DEF CommitRegistration
    <2> QED
      BY <2>3, <2>4, <2>5
  <1>14. CASE Registered(r)
    <2>1. /\ p.phase = "registered" /\ UNCHANGED <<token, password>>
          /\ p.pw = password[a]
      BY <1>0, <1>14 DEF Registered, Knows, accountTables
    <2>2. AllPasswordsCurrent'
      <3>1. AllPasswordsCurrent
        BY <2>1, NobodyResets
      <3> QED
        BY <2>1, <3>1 DEF AllPasswordsCurrent, IsLive
    <2>3. /\ req'[r].phase = "login" /\ req'[r].account = a /\ req'[r].pw = p.pw
      BY <1>0, <1>14 DEF Registered, Req
    <2>4. Knows(req[r])'
      BY <2>1, <2>3 DEF Knows
    <2> QED
      BY <2>2, <2>4, PasswordFromRequest
  <1>15. CASE CommitDeletion(r)
    <2>1. p.phase = "delete" /\ UNCHANGED password /\ req'[r].phase = "leave"
      BY <1>3, <1>15 DEF CommitDeletion, Phase
    <2>2. AllPasswordsCurrent
      BY <2>1, NobodyResets
    <2>3. AllPasswordsCurrent'
      <3>1. CASE UNCHANGED token
        BY <2>1, <2>2, <3>1 DEF AllPasswordsCurrent, IsLive
      <3>2. CASE a \in Account /\ Closes(a)
        <4> SUFFICES ASSUME NEW j \in Jti, ~token'[j].revoked
                     PROVE  token'[j].pw = password'[token'[j].account]
          BY DEF AllPasswordsCurrent, IsLive
        <4>1. token'[j] = token[j]
          BY <1>0, <3>2, RowsClosed
        <4> QED
          BY <2>1, <2>2, <4>1 DEF AllPasswordsCurrent, IsLive
      <3> QED
        BY <1>15, <3>1, <3>2 DEF CommitDeletion, Closes, Stays, Open
    <2> QED
      BY <1>4, <2>1, <2>3
  <1>16. CASE LoseAccount(r)
    \* The account of a reset is gone, and so are the sessions it was to sweep.
    <2>1. UNCHANGED <<token, password>> /\ req'[r].phase = "idle" /\ a \notin Open
      BY <1>2, <1>16 DEF LoseAccount, Stays, accountTables
    <2>2. \A b : Resetting(b) => b = a
      BY DEF OneRequest, Resetting
    <2>3. AllPasswordsCurrent
      BY <2>1, <2>2, LiveOfOpen DEF PasswordInv, LivePasswords, AllPasswordsCurrent
    <2>4. AllPasswordsCurrent'
      BY <2>1, <2>3 DEF AllPasswordsCurrent, IsLive
    <2> QED
      BY <1>4, <2>1, <2>4
  <1> QED
    BY <1>5, <1>6, <1>7, <1>8, <1>9, <1>10, <1>11, <1>12, <1>13, <1>14, <1>15, <1>16
       DEF Serve

\* One request after the other, none of which dies or promotes an address: when
\* all are done, no session is alive that a replaced password opened.
THEOREM OldPasswordsDie ==
  ASSUME OneRequest, NoneDiesOrPromotes
  PROVE  Spec => []OldPasswordDies
  <1>1. Init => PasswordInv
    BY DEF Init, PasswordInv, LivePasswords, IsLive, NoRow, Knows, Idle
  <1>2. IInv /\ SerialInv /\ PasswordInv /\ [Next]_vars => PasswordInv'
    <2> SUFFICES ASSUME IInv, SerialInv, PasswordInv, [Next]_vars
                 PROVE  PasswordInv'
      OBVIOUS
    <2>1. ASSUME NEW r \in Request, Start(r) PROVE PasswordInv'
      BY <2>1, StartPassword
    <2>2. ASSUME NEW r \in Request, Serve(r) PROVE PasswordInv'
      BY <2>2, ServePassword
    <2>3. ASSUME NEW r \in Request, Abort(r) PROVE FALSE
      BY <2>3 DEF NoneDiesOrPromotes, Abort
    <2>4. CASE UNCHANGED <<token, password, req>>
      BY <2>4 DEF PasswordInv, LivePasswords, Knows, IsLive, Resetting
    <2>5. CASE Environment \/ UNCHANGED vars
      BY <2>4, <2>5 DEF Environment, ClaimEmail, ReleaseEmail, AccessExpires,
             CookiesExpire, LinkExpires, RecoveryExpires, accountTables, vars
    <2> QED
      BY <2>1, <2>2, <2>3, <2>5 DEF Next
  <1>3. PasswordInv => OldPasswordDies
    BY DEF PasswordInv, LivePasswords, Resetting, OldPasswordDies, AllIdle, Free, Idle
  <1> QED
    BY Inductive, SerialInductive, <1>1, <1>2, <1>3, PTL DEF Spec
=============================================================================
