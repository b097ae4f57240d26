-------------------------- MODULE AccountEmailsProofs --------------------------
(***************************************************************************)
(* Theorems about AccountEmails for any accounts, addresses, number of       *)
(* concurrent requests and bounds.  Base holds however requests race; Serial *)
(* adds what a deployment keeps that serves one request at a time: what the  *)
(* request has read is still so when it commits, unless its account was      *)
(* deleted meanwhile.                                                       *)
(***************************************************************************)
EXTENDS AccountEmails, FiniteSetTheorems, TLAPS

\* A request carries the account, address and row its commit writes.
RequestOK(q) ==
  /\ q.phase \in {"register", "add", "verify", "promote", "recover"} =>
       q.account \in Account /\ q.email \in Email
  /\ q.phase \in {"promote", "remove", "notify"} =>
       q.account \in Account /\ q.old \in Email
  /\ q.phase \in {"promote", "remove"} => q.target \in Id

RequestsOK == \A r \in Request : RequestOK(req[r])

\* An open account has an address.
Addressed == \A a \in Account : status[a] = "open" => email[a] \in Email

\* Ids are given out in order.
Fresh == \A i \in Id : i > made => rows[i] = NoRow

Base == TypeOK /\ RequestsOK /\ Addressed /\ Fresh /\ NoOrphans

-----------------------------------------------------------------------------
(* Types *)

LEMMA Ids == MaxRows \in Nat /\ Id \subseteq Nat \ {0} /\ 0 \notin Id
  BY EmailConstants DEF Id

LEMMA IdleOK == Idle \in Req /\ RequestOK(Idle) /\ Idle.phase = "idle"
  BY Ids DEF Idle, Req, Phase, RequestOK

LEMMA RowFields ==
  ASSUME TypeOK, NEW i \in Id
  PROVE  /\ rows[i] \in Row
         /\ Exists(i) => /\ rows[i].account \in Account /\ rows[i].email \in Email
                         /\ rows[i].primary \in BOOLEAN
         /\ ~Exists(i) => /\ rows[i].account = None /\ rows[i].email = None
                          /\ rows[i].primary = FALSE
         /\ Exists(i) <=> rows[i].account # None
         /\ Exists(i) <=> rows[i].email # None
         /\ rows[i].primary => Exists(i)
  BY EmailConstants DEF TypeOK, Row, NoRow, Exists

LEMMA InitBase == Init => Base
  <1> SUFFICES ASSUME Init PROVE Base
    OBVIOUS
  <1> USE EmailConstants DEF Init
  <1>1. TypeOK
    BY IdleOK, Ids DEF TypeOK, Row
  <1>2. RequestsOK
    BY IdleOK DEF RequestsOK
  <1>3. Addressed /\ Fresh
    BY DEF Addressed, Fresh
  <1>4. NoOrphans
    BY DEF NoOrphans, Exists
  <1> QED
    BY <1>1, <1>2, <1>3, <1>4 DEF Base

\* A step that only changes what one request remembers.
LEMMA Remember ==
  ASSUME Base, NEW r \in Request, NEW q \in Req, RequestOK(q),
         req' = [req EXCEPT ![r] = q], UNCHANGED <<tables, tokens, workers>>
  PROVE  Base'
  <1> USE DEF Base, tables, tokens
  <1>1. TypeOK'
    BY DEF TypeOK
  <1>2. RequestsOK'
    BY DEF RequestsOK, TypeOK
  <1>3. Addressed' /\ Fresh'
    BY DEF Addressed, Fresh
  <1>4. NoOrphans'
    BY DEF NoOrphans, Exists, Open
  <1> QED
    BY <1>1, <1>2, <1>3, <1>4

LEMMA RefusedBase ==
  ASSUME Base, NEW r \in Request, Refused(r), UNCHANGED workers
  PROVE  Base'
  BY IdleOK, Remember DEF Refused, Done

-----------------------------------------------------------------------------
(* Starting a request *)

\* The requests that the handlers start: their type, and what they remember.
Changing(q, p, a) == q \in Req /\ q.phase = p /\ q.account = a

Asking(p, a, e) ==
  [Idle EXCEPT !.phase = p, !.account = a, !.email = e]

LEMMA AskingForm ==
  ASSUME NEW p \in Phase, NEW a \in Account,
         NEW e \in Email
  PROVE  LET q == Asking(p, a, e)
         IN  Changing(q, p, a) /\ q.email = e
  <1> DEFINE i == Idle
  <1>1. i \in Req
    BY IdleOK
  <1> HIDE DEF i
  <1>2. LET q == [i EXCEPT !.phase = p, !.account = a, !.email = e]
        IN  Changing(q, p, a) /\ q.email = e
    BY <1>1 DEF Req, Changing
  <1> QED
    BY <1>2 DEF i, Asking

Promoting(p, a, e, o, t, w) ==
  [Idle EXCEPT !.phase = p, !.account = a, !.email = e, !.old = o,
                              !.target = t, !.primary = w]

LEMMA PromotingForm ==
  ASSUME NEW p \in Phase, NEW a \in Account,
         NEW e \in Email, NEW o \in Email \cup {None}, NEW t \in 0..MaxRows, NEW w \in 0..MaxRows
  PROVE  LET q == Promoting(p, a, e, o, t, w)
         IN  Changing(q, p, a) /\ q.email = e /\ q.old = o /\ q.target = t /\ q.primary = w
  <1> DEFINE i == Idle
  <1>1. i \in Req
    BY IdleOK
  <1> HIDE DEF i
  <1>2. LET q == [i EXCEPT !.phase = p, !.account = a, !.email = e, !.old = o,
                              !.target = t, !.primary = w]
        IN  Changing(q, p, a) /\ q.email = e /\ q.old = o /\ q.target = t /\ q.primary = w
    BY <1>1 DEF Req, Changing
  <1> QED
    BY <1>2 DEF i, Promoting

Removing(p, a, o, t) ==
  [Idle EXCEPT !.phase = p, !.account = a, !.old = o, !.target = t]

LEMMA RemovingForm ==
  ASSUME NEW p \in Phase, NEW a \in Account,
         NEW o \in Email \cup {None}, NEW t \in 0..MaxRows
  PROVE  LET q == Removing(p, a, o, t)
         IN  Changing(q, p, a) /\ q.old = o /\ q.target = t
  <1> DEFINE i == Idle
  <1>1. i \in Req
    BY IdleOK
  <1> HIDE DEF i
  <1>2. LET q == [i EXCEPT !.phase = p, !.account = a, !.old = o, !.target = t]
        IN  Changing(q, p, a) /\ q.old = o /\ q.target = t
    BY <1>1 DEF Req, Changing
  <1> QED
    BY <1>2 DEF i, Removing

Recovering(p, a, e, o, S) ==
  [Idle EXCEPT !.phase = p, !.account = a, !.email = e, !.old = o, !.seen = S]

LEMMA RecoveringForm ==
  ASSUME NEW p \in Phase, NEW a \in Account,
         NEW e \in Email, NEW o \in Email \cup {None}, NEW S \in SUBSET Id
  PROVE  LET q == Recovering(p, a, e, o, S)
         IN  Changing(q, p, a) /\ q.email = e /\ q.old = o /\ q.seen = S
  <1> DEFINE i == Idle
  <1>1. i \in Req
    BY IdleOK
  <1> HIDE DEF i
  <1>2. LET q == [i EXCEPT !.phase = p, !.account = a, !.email = e, !.old = o, !.seen = S]
        IN  Changing(q, p, a) /\ q.email = e /\ q.old = o /\ q.seen = S
    BY <1>1 DEF Req, Changing
  <1> QED
    BY <1>2 DEF i, Recovering

\* What a request has read when it starts.
Reads(q) ==
  /\ q.phase = "register" => status[q.account] = "new"
  /\ q.phase = "promote" =>
       /\ rows[q.target].account = q.account /\ rows[q.target].email = q.email
       /\ ~rows[q.target].primary
       /\ email[q.account] = q.old
       /\ q.primary \in PrimariesOf(q.account) \/ PrimariesOf(q.account) = {}
  /\ q.phase = "remove" => ~rows[q.target].primary
  /\ q.phase = "recover" => q.seen = RowsOf(q.account) /\ q.old = email[q.account]

\* A step that starts the request q.
Starts(r, q) ==
  /\ q \in Req /\ RequestOK(q) /\ Reads(q)
  /\ req' = [req EXCEPT ![r] = q] /\ UNCHANGED <<tables, tokens>>
  /\ Cardinality({s \in Request : ~Free(s)}) < workers

\* Whatever arrives, it starts a request that has the type of one, names what
\* it will write and has read it.
LEMMA StartIs ==
  ASSUME Base, NEW r \in Request, Arrive(r)
  PROVE  \E q : Starts(r, q)
  <1>0. TypeOK /\ Addressed
    BY DEF Base
  <1>1. ASSUME NEW a \in Account, NEW e \in Email, StartRegister(r, a, e) \/ AskToAdd(r, a, e)
        PROVE  \E q : Starts(r, q)
    <2> DEFINE q(p) == Asking(p, a, e)
    <2>1. \A p \in {"register", "add"} :
            q(p) \in Req /\ RequestOK(q(p)) /\ q(p).phase = p /\ q(p).account = a
      <3> TAKE p \in {"register", "add"}
      <3>1. p \in Phase
        BY DEF Phase
      <3>2. Changing(q(p), p, a) /\ q(p).email = e
        BY <3>1, AskingForm
      <3> HIDE DEF q
      <3> QED
        BY <3>2 DEF Changing, RequestOK
    <2>2. \/ req' = [req EXCEPT ![r] = q("register")] /\ status[a] = "new"
          \/ req' = [req EXCEPT ![r] = q("add")]
      BY <1>1 DEF StartRegister, AskToAdd, Start, Asking
    <2>3. UNCHANGED <<tables, tokens>> /\ Cardinality({s \in Request : ~Free(s)}) < workers
      BY <1>1 DEF StartRegister, AskToAdd, Start
    <2> HIDE DEF q
    <2>4. CASE req' = [req EXCEPT ![r] = q("register")] /\ status[a] = "new"
      <3>1. Reads(q("register"))
        BY <2>1, <2>4 DEF Reads
      <3> QED
        BY <2>1, <2>3, <2>4, <3>1 DEF Starts
    <2>5. CASE req' = [req EXCEPT ![r] = q("add")]
      <3>1. Reads(q("add"))
        BY <2>1 DEF Reads
      <3> QED
        BY <2>1, <2>3, <2>5, <3>1 DEF Starts
    <2> QED
      BY <2>2, <2>4, <2>5
  <1>2. ASSUME NEW a \in Account, NEW e \in Email, FollowVerification(r, a, e)
        PROVE  \E q : Starts(r, q)
    <2> DEFINE q == Asking("verify", a, e)
    <2>1. Changing(q, "verify", a) /\ q.email = e
      BY AskingForm DEF Phase
    <2>2. req' = [req EXCEPT ![r] = q] /\ UNCHANGED <<tables, tokens>>
          /\ Cardinality({s \in Request : ~Free(s)}) < workers
      BY <1>2 DEF FollowVerification, Start, Asking
    <2> HIDE DEF q
    <2>3. q \in Req /\ RequestOK(q) /\ Reads(q)
      BY <2>1 DEF Changing, RequestOK, Reads
    <2> QED
      BY <2>2, <2>3 DEF Starts
  <1>3. ASSUME NEW a \in Account, NEW i \in Id, StartPromotion(r, a, i)
        PROVE  \E q : Starts(r, q)
    <2>1. PICK p \in PrimariesOf(a) \cup {0} :
          /\ p = 0 => PrimariesOf(a) = {}
          /\ Start(r, [Idle EXCEPT !.phase = "promote", !.account = a,
                     !.email = rows[i].email, !.old = email[a],
                     !.target = i, !.primary = p])
      BY <1>3 DEF StartPromotion
    <2> DEFINE q == Promoting("promote", a, rows[i].email, email[a], i, p)
    <2>2. email[a] \in Email
      BY <1>0, <1>3 DEF StartPromotion, Addressed
    <2>3. rows[i].email \in Email
      BY <1>0, <1>3, RowFields, EmailConstants DEF StartPromotion, RowsOf, PrimariesOf
    <2>4. p \in 0..MaxRows /\ i \in 0..MaxRows
      BY Ids DEF PrimariesOf, RowsOf, Id
    <2>5. Changing(q, "promote", a) /\ q.email = rows[i].email /\ q.old = email[a]
          /\ q.target = i /\ q.primary = p
      BY <2>2, <2>3, <2>4, PromotingForm DEF Phase
    <2>6. req' = [req EXCEPT ![r] = q] /\ UNCHANGED <<tables, tokens>>
          /\ Cardinality({s \in Request : ~Free(s)}) < workers
      BY <1>3, <2>1 DEF StartPromotion, Start, Promoting
    <2> HIDE DEF q
    <2>7. q \in Req /\ RequestOK(q)
      BY <2>2, <2>3, <2>5 DEF Changing, RequestOK
    <2>8. Reads(q)
      <3>1. rows[i].account = a /\ ~rows[i].primary
        BY <1>3 DEF StartPromotion, RowsOf, PrimariesOf
      <3>2. p \in PrimariesOf(a) \/ PrimariesOf(a) = {}
        BY <1>3, <2>1
      <3> QED
        BY <2>5, <3>1, <3>2 DEF Changing, Reads
    <2> QED
      BY <2>6, <2>7, <2>8 DEF Starts
  <1>4. ASSUME NEW a \in Account, NEW i \in Id, StartRemoval(r, a, i)
        PROVE  \E q : Starts(r, q)
    <2> DEFINE q == Removing("remove", a, rows[i].email, i)
    <2>1. rows[i].email \in Email
      BY <1>0, <1>4, RowFields, EmailConstants DEF StartRemoval, RowsOf, PrimariesOf
    <2>2. Changing(q, "remove", a) /\ q.old = rows[i].email /\ q.target = i
      <3>1. i \in 0..MaxRows
        BY Ids DEF Id
      <3> QED
        BY <2>1, <3>1, RemovingForm DEF Phase
    <2>3. req' = [req EXCEPT ![r] = q] /\ UNCHANGED <<tables, tokens>>
          /\ Cardinality({s \in Request : ~Free(s)}) < workers
      BY <1>4 DEF StartRemoval, Start, Removing
    <2> HIDE DEF q
    <2>4. q \in Req /\ RequestOK(q)
      BY <2>1, <2>2 DEF Changing, RequestOK
    <2>5. Reads(q)
      BY <1>4, <2>2 DEF StartRemoval, RowsOf, PrimariesOf, Changing, Reads
    <2> QED
      BY <2>3, <2>4, <2>5 DEF Starts
  <1>5. ASSUME NEW a \in Account, NEW e \in Email, StartRecovery(r, a, e)
        PROVE  \E q : Starts(r, q)
    <2> DEFINE q == Recovering("recover", a, e, email[a], RowsOf(a))
    <2>1. email[a] \in Email \cup {None} /\ RowsOf(a) \in SUBSET Id
      BY <1>0 DEF TypeOK, RowsOf
    <2>2. Changing(q, "recover", a) /\ q.email = e /\ q.old = email[a] /\ q.seen = RowsOf(a)
      <3>1. "recover" \in Phase
        BY DEF Phase
      <3> HIDE DEF RowsOf
      <3> QED
        BY <2>1, <3>1, RecoveringForm
    <2>3. req' = [req EXCEPT ![r] = q] /\ UNCHANGED <<tables, tokens>>
          /\ Cardinality({s \in Request : ~Free(s)}) < workers
      BY <1>5 DEF StartRecovery, Start, Recovering
    <2> HIDE DEF q
    <2>4. q \in Req /\ RequestOK(q) /\ Reads(q)
      BY <2>2 DEF Changing, RequestOK, Reads
    <2> QED
      BY <2>3, <2>4 DEF Starts
  <1>6. \A t \in verifications \cup recoveries : t[1] \in Account /\ t[2] \in Email
    BY <1>0 DEF TypeOK
  <1> QED
    BY <1>1, <1>2, <1>3, <1>4, <1>5, <1>6 DEF Arrive

LEMMA StartBase ==
  ASSUME Base, NEW r \in Request, Arrive(r), UNCHANGED workers
  PROVE  Base'
  BY StartIs, Remember DEF Starts

-----------------------------------------------------------------------------
(* Committing a request *)

\* An INSERT of a new row: which rows it leaves.
Inserted(new, gone) ==
  /\ \A i \in Id \ gone : rows[i].email # new.email
  /\ made < MaxRows
  /\ made' = made + 1
  /\ rows' = [i \in Id |-> IF i = made + 1 THEN new ELSE IF i \in gone THEN NoRow ELSE rows[i]]

\* The INSERT that the unique constraint allows keeps every address on one row.
LEMMA InsertBase ==
  ASSUME Base, NEW a \in Account, NEW e \in Email, NEW new \in Row,
         NEW gone \in SUBSET Id, Inserted(new, gone), new.account = a, new.email = e,
         status'[a] = "open", \A b \in Account \ {a} : status'[b] = status[b]
  PROVE  /\ made' \in 0..MaxRows /\ rows' \in [Id -> Row] /\ Fresh'
         /\ \A i \in Id : Exists(i)' => rows'[i].account \in Open'
         /\ \A i, j \in Id : Exists(i)' /\ rows'[i].email = rows'[j].email => i = j
  <1>0. TypeOK /\ NoOrphans /\ Fresh /\ made \in 0..MaxRows
    BY DEF Base, TypeOK
  <1>1. new # NoRow
    BY EmailConstants DEF Row, NoRow
  <1>2. \A i \in Id : rows'[i] = IF i = made + 1 THEN new
                                 ELSE IF i \in gone THEN NoRow ELSE rows[i]
    BY DEF Inserted
  <1>3. rows' \in [Id -> Row]
    <2>1. NoRow \in Row /\ \A i \in Id : rows[i] \in Row
      BY <1>0 DEF Row, TypeOK
    <2>2. rows' = [i \in Id |-> IF i = made + 1 THEN new
                                ELSE IF i \in gone THEN NoRow ELSE rows[i]]
      BY DEF Inserted
    <2> QED
      BY <1>1, <2>1, <2>2
  <1>4. made' \in 0..MaxRows /\ made' = made + 1
    BY <1>0, Ids DEF Inserted
  <1>5. Fresh'
    <2>1. made \in Nat
      BY <1>0, Ids
    <2> QED
      BY <1>0, <1>2, <1>4, <2>1, Ids DEF Fresh
  <1>6. \A i \in Id : Exists(i)' =>
          i = made + 1 \/ (i \notin gone /\ Exists(i) /\ rows'[i] = rows[i])
    BY <1>2 DEF Exists
  <1>7. \A i \in Id : Exists(i)' => rows'[i].account \in Open'
    BY <1>0, <1>1, <1>2, <1>6 DEF NoOrphans, Open
  <1>8. ASSUME NEW i \in Id, NEW j \in Id, Exists(i)', rows'[i].email = rows'[j].email
        PROVE  i = j
    <2>1. Exists(j)'
      <3>1. rows'[i].email # None
        BY <1>0, <1>1, <1>2, <1>6, <1>8, RowFields, EmailConstants
      <3> QED
        BY <1>8, <3>1 DEF Exists, NoRow
    <2>2. \A k \in Id \ gone : rows[k].email # e
      BY DEF Inserted
    <2>3. CASE i = made + 1 \/ j = made + 1
      BY <1>1, <1>2, <1>6, <1>8, <2>1, <2>2, <2>3
    <2>4. CASE i # made + 1 /\ j # made + 1
      BY <1>0, <1>6, <1>8, <2>1, <2>4 DEF NoOrphans
    <2> QED
      BY <2>3, <2>4
  <1> QED
    BY <1>3, <1>4, <1>5, <1>7, <1>8

\* A request that ends leaves the others as they are.
LEMMA DoneOK ==
  ASSUME Base, NEW r \in Request, Done(r)
  PROVE  req' \in [Request -> Req] /\ RequestsOK'
  BY IdleOK DEF Base, TypeOK, RequestsOK, Done

LEMMA RegisterBase ==
  ASSUME Base, NEW r \in Request, CommitRegister(r), UNCHANGED workers
  PROVE  Base'
  <1> DEFINE a == req[r].account
             e == req[r].email
  <1>0. TypeOK /\ RequestsOK /\ Addressed /\ NoOrphans
    BY DEF Base
  <1>1. a \in Account /\ e \in Email
    BY <1>0 DEF CommitRegister, RequestsOK, RequestOK
  <1>2. CASE Refused(r)
    BY <1>2, RefusedBase
  <1>3. CASE /\ Insert(a, e, TRUE, {})
             /\ status' = [status EXCEPT ![a] = "open"]
             /\ email' = [email EXCEPT ![a] = e]
             /\ Done(r)
             /\ UNCHANGED tokens
    <2> HIDE DEF a, e
    <2>1. /\ status' \in [Account -> {"new", "open", "deleted"}]
          /\ email' \in [Account -> Email \cup {None}]
          /\ status'[a] = "open" /\ \A b \in Account \ {a} : status'[b] = status[b]
      BY <1>0, <1>1, <1>3 DEF TypeOK
    <2>2. /\ made' \in 0..MaxRows /\ rows' \in [Id -> Row] /\ Fresh'
          /\ \A i \in Id : Exists(i)' => rows'[i].account \in Open'
          /\ \A i, j \in Id : Exists(i)' /\ rows'[i].email = rows'[j].email => i = j
      <3> DEFINE w == [account |-> a, email |-> e, primary |-> TRUE]
      <3>1. Inserted(w, {}) /\ w \in Row /\ w.account = a /\ w.email = e
        BY <1>1, <1>3 DEF Insert, Inserted, Row
      <3> HIDE DEF w
      <3> QED
        BY <1>1, <1>3, <2>1, <3>1, InsertBase
    <2>3. req' \in [Request -> Req] /\ RequestsOK'
      BY <1>3, DoneOK
    <2>4. TypeOK'
      BY <1>0, <1>3, <2>1, <2>2, <2>3 DEF TypeOK, tokens
    <2>5. Addressed'
      BY <1>0, <1>1, <1>3, <2>1 DEF Addressed, TypeOK
    <2>6. NoOrphans'
      <3>1. Open \subseteq Open'
        BY <2>1 DEF Open
      <3> QED
        BY <1>0, <1>3, <2>2, <3>1 DEF NoOrphans, tokens
    <2> QED
      BY <2>2, <2>3, <2>4, <2>5, <2>6 DEF Base
  <1> QED
    BY <1>2, <1>3 DEF CommitRegister

LEMMA VerificationBase ==
  ASSUME Base, NEW r \in Request, CommitVerification(r), UNCHANGED workers
  PROVE  Base'
  <1>0. TypeOK /\ RequestsOK /\ Addressed /\ NoOrphans /\ Fresh
    BY DEF Base
  <1>1. req[r].account \in Account /\ req[r].email \in Email
    BY <1>0 DEF CommitVerification, RequestsOK, RequestOK
  <1>2. req' \in [Request -> Req] /\ RequestsOK'
    BY DoneOK DEF CommitVerification
  <1>3. UNCHANGED <<status, email, rows, made, recoveries>>
    BY DEF CommitVerification, tables
  <1>4. verifications' \subseteq Open \X Email
    BY <1>0, <1>1 DEF CommitVerification, NoOrphans, Open
  <1>5. Open \subseteq Account /\ Open' = Open
    BY <1>3 DEF Open
  <1>6. TypeOK'
    BY <1>0, <1>2, <1>3, <1>4, <1>5 DEF TypeOK
  <1>7. Addressed' /\ Fresh'
    BY <1>0, <1>3 DEF Addressed, Fresh
  <1>8. NoOrphans'
    BY <1>0, <1>3, <1>4, <1>5 DEF NoOrphans, Exists
  <1> QED
    BY <1>2, <1>6, <1>7, <1>8 DEF Base

LEMMA VerifyBase ==
  ASSUME Base, NEW r \in Request, CommitVerify(r), UNCHANGED workers
  PROVE  Base'
  <1> DEFINE a == req[r].account
             e == req[r].email
  <1>0. TypeOK /\ RequestsOK /\ Addressed /\ NoOrphans
    BY DEF Base
  <1>1. a \in Account /\ e \in Email
    BY <1>0 DEF CommitVerify, RequestsOK, RequestOK
  <1>2. CASE Refused(r)
    BY <1>2, RefusedBase
  <1>3. CASE /\ status[a] = "open"
             /\ Insert(a, e, FALSE, {})
             /\ verifications' = verifications \ {<<a, e>>}
             /\ Done(r)
             /\ UNCHANGED <<status, email, recoveries>>
    <2> HIDE DEF a, e
    <2>1. /\ made' \in 0..MaxRows /\ rows' \in [Id -> Row] /\ Fresh'
          /\ \A i \in Id : Exists(i)' => rows'[i].account \in Open'
          /\ \A i, j \in Id : Exists(i)' /\ rows'[i].email = rows'[j].email => i = j
      <3> DEFINE w == [account |-> a, email |-> e, primary |-> FALSE]
      <3>1. Inserted(w, {}) /\ w \in Row /\ w.account = a /\ w.email = e
        BY <1>1, <1>3 DEF Insert, Inserted, Row
      <3> HIDE DEF w
      <3> QED
        BY <1>1, <1>3, <3>1, InsertBase
    <2>2. req' \in [Request -> Req] /\ RequestsOK'
      BY <1>3, DoneOK
    <2>3. TypeOK'
      BY <1>0, <1>3, <2>1, <2>2 DEF TypeOK
    <2>4. Addressed'
      BY <1>0, <1>3 DEF Addressed
    <2>5. NoOrphans'
      <3>1. Open' = Open
        BY <1>3 DEF Open
      <3> QED
        BY <1>0, <1>3, <2>1, <3>1 DEF NoOrphans
    <2> QED
      BY <2>1, <2>2, <2>3, <2>4, <2>5 DEF Base
  <1> QED
    BY <1>2, <1>3 DEF CommitVerify

\* A request that goes on to mail its recovery link keeps what it was about.
LEMMA NotifyOK ==
  ASSUME Base, NEW r \in Request, req[r].phase \in {"promote", "remove"},
         req' = [req EXCEPT ![r].phase = "notify"]
  PROVE  req' \in [Request -> Req] /\ RequestsOK'
  <1>1. req \in [Request -> Req] /\ RequestOK(req[r]) /\ \A s \in Request : RequestOK(req[s])
    BY DEF Base, TypeOK, RequestsOK
  <1>2. req[r] \in Req
    BY <1>1
  <1> DEFINE q == [req[r] EXCEPT !.phase = "notify"]
  <1>3. q \in Req /\ q.phase = "notify" /\ q.account = req[r].account /\ q.old = req[r].old
    BY <1>2 DEF Req, Phase
  <1>4. req' = [req EXCEPT ![r] = q]
    BY <1>1
  <1> HIDE DEF q
  <1>5. RequestOK(q)
    BY <1>1, <1>3 DEF RequestOK
  <1> QED
    BY <1>1, <1>3, <1>4, <1>5 DEF RequestsOK

\* What a promotion does to the rows.
Promoted(q) ==
  [i \in Id |-> [rows[i] EXCEPT !.primary = (i = q.target \/ @) /\ i # q.primary]]

LEMMA PromotedRows ==
  ASSUME TypeOK, NEW q, q.target \in Id, Exists(q.target), NEW i \in Id
  PROVE  /\ Promoted(q)[i] \in Row
         /\ Promoted(q)[i].account = rows[i].account
         /\ Promoted(q)[i].email = rows[i].email
         /\ Promoted(q)[i].primary <=> (i = q.target \/ rows[i].primary) /\ i # q.primary
         /\ Promoted(q)[i] # NoRow <=> Exists(i)
         /\ ~Exists(i) => Promoted(q)[i] = NoRow
  <1> DEFINE flag == (i = q.target \/ rows[i].primary) /\ i # q.primary
  <1>1. Promoted(q)[i] = [rows[i] EXCEPT !.primary = flag]
    BY DEF Promoted
  <1>2. flag \in BOOLEAN
    OBVIOUS
  <1>3. flag => Exists(i)
    BY RowFields
  <1>4. /\ Promoted(q)[i].primary <=> (i = q.target \/ rows[i].primary) /\ i # q.primary
    <2>1. DOMAIN rows[i] = {"account", "email", "primary"}
      <3>1. rows[i] \in [account : Account, email : Email, primary : BOOLEAN] \/ rows[i] = NoRow
        BY RowFields DEF Row
      <3>2. DOMAIN NoRow = {"account", "email", "primary"}
        BY DEF NoRow
      <3> QED
        BY <3>1, <3>2
    <2> QED
      BY <1>1, <2>1
  <1> HIDE DEF flag
  <1>5. CASE Exists(i)
    <2>1. rows[i] \in [account : Account, email : Email, primary : BOOLEAN]
      BY <1>5, RowFields DEF Row, Exists
    <2>2. [rows[i] EXCEPT !.primary = flag] \in [account : Account, email : Email, primary : BOOLEAN]
      BY <1>2, <2>1
    <2>3. /\ [rows[i] EXCEPT !.primary = flag].account = rows[i].account
          /\ [rows[i] EXCEPT !.primary = flag].email = rows[i].email
      BY <2>1
    <2>4. [rows[i] EXCEPT !.primary = flag] # NoRow
      BY <1>5, <2>3, RowFields, EmailConstants DEF NoRow
    <2> QED
      BY <1>1, <1>4, <1>5, <2>2, <2>3, <2>4 DEF Row
  <1>6. CASE ~Exists(i)
    <2>1. rows[i] = NoRow /\ flag = FALSE
      BY <1>2, <1>3, <1>6 DEF Exists
    <2>2. [rows[i] EXCEPT !.primary = flag] = NoRow
      <3>1. NoRow = [NoRow EXCEPT !.primary = NoRow.primary] /\ NoRow.primary = FALSE
        BY DEF NoRow
      <3> QED
        BY <2>1, <3>1
    <2> QED
      BY <1>1, <1>4, <1>6, <2>1, <2>2 DEF Row, NoRow
  <1> QED
    BY <1>5, <1>6

LEMMA PromotionBase ==
  ASSUME Base, NEW r \in Request, CommitPromotion(r), UNCHANGED workers
  PROVE  Base'
  <1> DEFINE q == req[r]
  <1>0. TypeOK /\ RequestsOK /\ Addressed /\ NoOrphans /\ Fresh
    BY DEF Base
  <1>1. q.account \in Account /\ q.email \in Email /\ q.target \in Id /\ q.phase = "promote"
    BY <1>0 DEF CommitPromotion, RequestsOK, RequestOK
  <1>2. CASE Refused(r)
    BY <1>2, RefusedBase
  <1>3. CASE ~Refused(r)
    <2>1. /\ Exists(q.target)
          /\ rows' = Promoted(q)
          /\ email' = [email EXCEPT ![q.account] = IF q.email = q.old THEN @ ELSE q.email]
          /\ req' = [req EXCEPT ![r].phase = "notify"]
          /\ UNCHANGED <<status, made, tokens>>
      BY <1>3 DEF CommitPromotion, Promoted
    <2>2. req' \in [Request -> Req] /\ RequestsOK'
      BY <1>1, <2>1, NotifyOK
    <2> HIDE DEF q
    <2>3. \A i \in Id : /\ rows'[i] \in Row
                        /\ rows'[i].account = rows[i].account
                        /\ rows'[i].email = rows[i].email
                        /\ Exists(i)' <=> Exists(i)
                        /\ ~Exists(i) => rows'[i] = NoRow
      BY <1>0, <1>1, <2>1, PromotedRows DEF Exists
    <2>4. rows' \in [Id -> Row]
      BY <2>1, <2>3 DEF Promoted
    <2>5. email' \in [Account -> Email \cup {None}]
      BY <1>0, <1>1, <2>1 DEF TypeOK
    <2>6. TypeOK'
      BY <1>0, <2>1, <2>2, <2>4, <2>5 DEF TypeOK, tokens
    <2>7. Addressed'
      BY <1>0, <1>1, <2>1 DEF Addressed, TypeOK
    <2>8. Fresh'
      BY <1>0, <2>1, <2>3 DEF Fresh, Exists
    <2>9. NoOrphans'
      <3>1. Open' = Open
        BY <2>1 DEF Open
      <3> QED
        BY <1>0, <2>1, <2>3, <3>1 DEF NoOrphans, tokens
    <2> QED
      BY <2>2, <2>6, <2>7, <2>8, <2>9 DEF Base
  <1> QED
    BY <1>2, <1>3

\* Rows that are only deleted leave the invariant as it is.
LEMMA RemovalBase ==
  ASSUME Base, NEW r \in Request, CommitRemoval(r), UNCHANGED workers
  PROVE  Base'
  <1>0. TypeOK /\ RequestsOK /\ Addressed /\ NoOrphans /\ Fresh
    BY DEF Base
  <1>1. req' \in [Request -> Req] /\ RequestsOK'
    BY NotifyOK DEF CommitRemoval
  <1>2. \A i \in Id : rows'[i] = rows[i] \/ rows'[i] = NoRow
    BY <1>0 DEF CommitRemoval, TypeOK
  <1>3. rows' \in [Id -> Row]
    BY <1>0 DEF CommitRemoval, TypeOK, Row
  <1>4. TypeOK'
    BY <1>0, <1>1, <1>3 DEF TypeOK, CommitRemoval, tokens
  <1>5. Addressed' /\ Fresh'
    BY <1>0, <1>2 DEF Addressed, Fresh, CommitRemoval
  <1>6. NoOrphans'
    <2>1. \A i \in Id : Exists(i)' => Exists(i) /\ rows'[i] = rows[i]
      BY <1>2 DEF Exists
    <2>2. Open' = Open /\ UNCHANGED tokens
      BY DEF Open, CommitRemoval
    <2>3. ASSUME NEW i \in Id, NEW j \in Id, Exists(i)', rows'[i].email = rows'[j].email
          PROVE  i = j
      <3>1. Exists(j)'
        <4>1. rows'[i].email # None
          BY <1>0, <2>1, <2>3, RowFields
        <4>2. NoRow.email = None
          BY DEF NoRow
        <4> QED
          BY <2>3, <4>1, <4>2 DEF Exists
      <3> QED
        BY <1>0, <2>1, <2>3, <3>1 DEF NoOrphans
    <2> QED
      BY <1>0, <2>1, <2>2, <2>3 DEF NoOrphans, tokens
  <1> QED
    BY <1>1, <1>4, <1>5, <1>6 DEF Base

LEMMA RecoveryLinkBase ==
  ASSUME Base, NEW r \in Request, CommitRecoveryLink(r), UNCHANGED workers
  PROVE  Base'
  <1>0. TypeOK /\ RequestsOK /\ Addressed /\ NoOrphans /\ Fresh
    BY DEF Base
  <1>1. req[r].account \in Account /\ req[r].old \in Email
    BY <1>0 DEF CommitRecoveryLink, RequestsOK, RequestOK
  <1>2. req' \in [Request -> Req] /\ RequestsOK'
    BY DoneOK DEF CommitRecoveryLink
  <1>3. UNCHANGED <<status, email, rows, made, verifications>>
    BY DEF CommitRecoveryLink, tables
  <1>4. recoveries' \subseteq Open \X Email
    BY <1>0, <1>1 DEF CommitRecoveryLink, NoOrphans, Open
  <1>5. Open \subseteq Account /\ Open' = Open
    BY <1>3 DEF Open
  <1>6. TypeOK'
    BY <1>0, <1>2, <1>3, <1>4, <1>5 DEF TypeOK
  <1>7. Addressed' /\ Fresh'
    BY <1>0, <1>3 DEF Addressed, Fresh
  <1>8. NoOrphans'
    BY <1>0, <1>3, <1>4, <1>5 DEF NoOrphans, Exists
  <1> QED
    BY <1>2, <1>6, <1>7, <1>8 DEF Base

LEMMA RecoveryBase ==
  ASSUME Base, NEW r \in Request, CommitRecovery(r), UNCHANGED workers
  PROVE  Base'
  <1> DEFINE a == req[r].account
             e == req[r].email
             gone == req[r].seen
  <1>0. TypeOK /\ RequestsOK /\ Addressed /\ NoOrphans
    BY DEF Base
  <1>1. a \in Account /\ e \in Email /\ gone \in SUBSET Id
    BY <1>0 DEF CommitRecovery, RequestsOK, RequestOK, TypeOK, Req
  <1>2. CASE Refused(r)
    BY <1>2, RefusedBase
  <1>3. CASE /\ status[a] = "open"
             /\ Insert(a, e, TRUE, gone)
             /\ email' = [email EXCEPT ![a] = IF e = req[r].old THEN @ ELSE e]
             /\ recoveries' = recoveries \ {<<a, e>>}
             /\ Done(r)
             /\ UNCHANGED <<status, verifications>>
    <2> DEFINE o == req[r].old
    <2>0. email' = [email EXCEPT ![a] = IF e = o THEN @ ELSE e]
      BY <1>3
    <2> HIDE DEF a, e, gone, o
    <2>1. /\ made' \in 0..MaxRows /\ rows' \in [Id -> Row] /\ Fresh'
          /\ \A i \in Id : Exists(i)' => rows'[i].account \in Open'
          /\ \A i, j \in Id : Exists(i)' /\ rows'[i].email = rows'[j].email => i = j
      <3> DEFINE w == [account |-> a, email |-> e, primary |-> TRUE]
      <3>1. Inserted(w, gone) /\ w \in Row /\ w.account = a /\ w.email = e
        BY <1>1, <1>3 DEF Insert, Inserted, Row
      <3> HIDE DEF w
      <3> QED
        BY <1>1, <1>3, <3>1, InsertBase
    <2>2. req' \in [Request -> Req] /\ RequestsOK'
      BY <1>3, DoneOK
    <2>3. email' \in [Account -> Email \cup {None}]
      BY <1>0, <1>1, <2>0 DEF TypeOK
    <2>4. TypeOK'
      BY <1>0, <1>3, <2>1, <2>2, <2>3 DEF TypeOK
    <2>5. Addressed'
      BY <1>0, <1>1, <1>3, <2>0 DEF Addressed, TypeOK
    <2>6. NoOrphans'
      <3>1. Open' = Open
        BY <1>3 DEF Open
      <3> QED
        BY <1>0, <1>3, <2>1, <3>1 DEF NoOrphans
    <2> QED
      BY <2>1, <2>2, <2>4, <2>5, <2>6 DEF Base
  <1> QED
    BY <1>2, <1>3 DEF CommitRecovery

-----------------------------------------------------------------------------
(* Deleting an account, seeding its row, and links that expire *)

LEMMA DeleteBase ==
  ASSUME Base, NEW a \in Account, DeleteAccount(a), UNCHANGED workers
  PROVE  Base'
  <1>0. TypeOK /\ RequestsOK /\ Addressed /\ NoOrphans /\ Fresh
    BY DEF Base
  <1>1. \A b \in Account : status'[b] = "open" <=> b # a /\ status[b] = "open"
    BY <1>0 DEF DeleteAccount, TypeOK
  <1>2. \A i \in Id : rows'[i] = IF rows[i].account = a THEN NoRow ELSE rows[i]
    BY DEF DeleteAccount
  <1>3. rows' \in [Id -> Row]
    BY <1>0 DEF DeleteAccount, TypeOK, Row
  <1>4. TypeOK'
    <2>1. /\ status' \in [Account -> {"new", "open", "deleted"}]
          /\ email' \in [Account -> Email \cup {None}]
      BY <1>0 DEF DeleteAccount, TypeOK
    <2>2. verifications' \subseteq Account \X Email /\ recoveries' \subseteq Account \X Email
      BY <1>0 DEF DeleteAccount, TypeOK
    <2> QED
      BY <1>0, <1>3, <2>1, <2>2 DEF DeleteAccount, TypeOK
  <1>5. RequestsOK'
    BY <1>0 DEF DeleteAccount, RequestsOK
  <1>6. Addressed'
    BY <1>0, <1>1 DEF DeleteAccount, Addressed, TypeOK
  <1>7. Fresh'
    BY <1>0, <1>2 DEF DeleteAccount, Fresh
  <1>8. NoOrphans'
    <2>1. \A i \in Id : Exists(i)' => Exists(i) /\ rows'[i] = rows[i] /\ rows[i].account # a
      BY <1>2 DEF Exists
    <2>2. \A i \in Id : Exists(i)' => rows'[i].account \in Open'
      BY <1>0, <1>1, <2>1 DEF NoOrphans, Open
    <2>3. \A t \in verifications' \cup recoveries' : t \in Open' \X Email
      BY <1>0, <1>1 DEF DeleteAccount, NoOrphans, Open
    <2>4. ASSUME NEW i \in Id, NEW j \in Id, Exists(i)', rows'[i].email = rows'[j].email
          PROVE  i = j
      <3>1. Exists(j)'
        <4>1. rows'[i].email # None
          BY <1>0, <2>1, <2>4, RowFields
        <4>2. NoRow.email = None
          BY DEF NoRow
        <4> QED
          BY <2>4, <4>1, <4>2 DEF Exists
      <3> QED
        BY <1>0, <2>1, <2>4, <3>1 DEF NoOrphans
    <2> QED
      BY <2>2, <2>3, <2>4 DEF NoOrphans
  <1> QED
    BY <1>4, <1>5, <1>6, <1>7, <1>8 DEF Base

LEMMA SeedBase ==
  ASSUME Base, NEW a \in Account, Seed(a), UNCHANGED workers
  PROVE  Base'
  <1> DEFINE e == email[a]
             w == [account |-> a, email |-> e, primary |-> TRUE]
  <1>0. TypeOK /\ RequestsOK /\ Addressed /\ NoOrphans
    BY DEF Base
  <1>1. e \in Email
    BY <1>0 DEF Seed, Addressed
  <1>2. Insert(a, e, TRUE, {}) /\ status[a] = "open" /\ UNCHANGED <<status, email, tokens, req>>
    BY DEF Seed
  <1> HIDE DEF e
  <1>3. Inserted(w, {}) /\ w \in Row /\ w.account = a /\ w.email = e
    BY <1>1, <1>2 DEF Insert, Inserted, Row
  <1> HIDE DEF w
  <1>4. /\ made' \in 0..MaxRows /\ rows' \in [Id -> Row] /\ Fresh'
        /\ \A i \in Id : Exists(i)' => rows'[i].account \in Open'
        /\ \A i, j \in Id : Exists(i)' /\ rows'[i].email = rows'[j].email => i = j
    BY <1>1, <1>2, <1>3, InsertBase
  <1>5. TypeOK'
    BY <1>0, <1>2, <1>4 DEF TypeOK, tokens
  <1>6. RequestsOK' /\ Addressed'
    BY <1>0, <1>2 DEF RequestsOK, Addressed
  <1>7. NoOrphans'
    <2>1. Open' = Open
      BY <1>2 DEF Open
    <2> QED
      BY <1>0, <1>2, <1>4, <2>1 DEF NoOrphans, tokens
  <1> QED
    BY <1>4, <1>5, <1>6, <1>7 DEF Base

LEMMA ExpiryBase ==
  ASSUME Base, UNCHANGED <<tables, req, workers>>,
         verifications' \subseteq verifications, recoveries' \subseteq recoveries
  PROVE  Base'
  <1> USE DEF Base, tables
  <1>1. TypeOK'
    BY DEF TypeOK
  <1>2. RequestsOK' /\ Addressed' /\ Fresh'
    BY DEF RequestsOK, Addressed, Fresh
  <1>3. NoOrphans'
    BY DEF NoOrphans, Exists, Open
  <1> QED
    BY <1>1, <1>2, <1>3

LEMMA ServeBase ==
  ASSUME Base, NEW r \in Request, Serve(r), UNCHANGED workers
  PROVE  Base'
  BY RegisterBase, VerificationBase, VerifyBase, PromotionBase, RemovalBase,
     RecoveryLinkBase, RecoveryBase DEF Serve

LEMMA NextBase == Base /\ [Next]_vars => Base'
  <1> SUFFICES ASSUME Base, [Next]_vars PROVE Base'
    OBVIOUS
  <1>1. ASSUME NEW r \in Request, Arrive(r) \/ Serve(r) \/ Abort(r), UNCHANGED workers
        PROVE  Base'
    BY <1>1, StartBase, ServeBase, RefusedBase DEF Abort
  <1>2. ASSUME NEW a \in Account, DeleteAccount(a) \/ Seed(a), UNCHANGED workers
        PROVE  Base'
    BY <1>2, DeleteBase, SeedBase
  <1>3. ASSUME NEW t, VerificationExpires(t) \/ RecoveryExpires(t), UNCHANGED workers
        PROVE  Base'
    BY <1>3, ExpiryBase DEF VerificationExpires, RecoveryExpires
  <1>4. ASSUME UNCHANGED vars PROVE Base'
    BY <1>4, ExpiryBase DEF vars, tables
  <1> QED
    BY <1>1, <1>2, <1>3, <1>4 DEF Next

\* Type correctness, and the facts that hold however requests race.
THEOREM AddressesBase == Spec => []Base
  <1>1. Init => Base
    BY InitBase
  <1>2. Base /\ [Next]_vars => Base'
    BY NextBase
  <1> QED
    BY <1>1, <1>2, PTL DEF Spec

\* Every reachable state has the types of TypeOK.
THEOREM AddressesTyped == Spec => []TypeOK
  <1>1. Base => TypeOK
    BY DEF Base
  <1> QED
    BY <1>1, AddressesBase, PTL

\* However requests race, die or are overtaken by the deletion of their account,
\* rows and links belong to open accounts and an address is on one row.
THEOREM NobodyIsOrphaned == Spec => []NoOrphans
  <1>1. Base => NoOrphans
    BY DEF Base
  <1> QED
    BY <1>1, AddressesBase, PTL

-----------------------------------------------------------------------------
(* One request at a time *)

\* What the request in progress has read is still so, unless its account was
\* deleted meanwhile.
StillSo(q) ==
  /\ q.phase = "register" => status[q.account] # "open"
  /\ q.phase = "promote" /\ status[q.account] = "open" =>
       /\ rows[q.target].account = q.account /\ rows[q.target].email = q.email
       /\ ~rows[q.target].primary
       /\ email[q.account] = q.old
       /\ PrimariesOf(q.account) = {q.primary}
  /\ q.phase = "remove" => ~rows[q.target].primary
  /\ q.phase = "recover" /\ status[q.account] = "open" =>
       q.seen = RowsOf(q.account) /\ q.old = email[q.account]

Alone == \A r, s \in Request : ~Free(r) /\ ~Free(s) => r = s

\* The account has one primary row, and it carries Account.email.
Settled(a) == \E i \in Id : PrimariesOf(a) = {i} /\ rows[i].email = email[a]

Serial ==
  OneAtATime => /\ Alone
                /\ \A r \in Request : StillSo(req[r])
                /\ \A a \in Open : Settled(a)

IInv == Base /\ Serial

LEMMA IdleStillSo == StillSo(Idle)
  BY DEF StillSo, Idle

LEMMA InitSerial == Init => Serial
  <1> SUFFICES ASSUME Init PROVE Serial
    OBVIOUS
  <1>1. \A r \in Request : req[r] = Idle
    BY DEF Init
  <1>2. Open = {}
    BY DEF Init, Open
  <1> QED
    BY <1>1, <1>2, IdleStillSo DEF Serial, Alone, Free

LEMMA SettledSame ==
  ASSUME NEW a, \A i \in Id : rows'[i].account = a <=> rows[i].account = a,
         \A i \in RowsOf(a) : rows'[i].email = rows[i].email /\ rows'[i].primary = rows[i].primary,
         email'[a] = email[a]
  PROVE  /\ RowsOf(a)' = RowsOf(a) /\ PrimariesOf(a)' = PrimariesOf(a)
         /\ Settled(a) => Settled(a)'
  <1>1. RowsOf(a)' = RowsOf(a)
    BY DEF RowsOf
  <1>2. PrimariesOf(a)' = PrimariesOf(a)
    BY <1>1 DEF PrimariesOf
  <1>3. PrimariesOf(a) \subseteq RowsOf(a)
    BY DEF PrimariesOf
  <1> QED
    BY <1>1, <1>2, <1>3 DEF Settled

\* The request in progress is the only one.
LEMMA OthersIdle ==
  ASSUME Serial, OneAtATime, NEW r \in Request, ~Free(r)
  PROVE  \A s \in Request : s # r => req[s] = Idle
  BY DEF Serial, Alone, Free

\* When it ends nobody is left to be overtaken.
LEMMA DoneSerial ==
  ASSUME Base, Serial, OneAtATime, NEW r \in Request, ~Free(r), Done(r)
  PROVE  /\ \A s \in Request : req'[s] = Idle
         /\ Alone' /\ \A s \in Request : StillSo(req[s])'
  <1>1. \A s \in Request : req'[s] = Idle
    BY OthersIdle DEF Base, TypeOK, Done
  <1>2. Alone'
    BY <1>1 DEF Alone, Free
  <1>3. \A s \in Request : StillSo(req[s])'
    BY <1>1 DEF StillSo, Idle
  <1> QED
    BY <1>1, <1>2, <1>3

LEMMA NotifySerial ==
  ASSUME Base, Serial, OneAtATime, NEW r \in Request, req[r].phase \in {"promote", "remove"},
         req' = [req EXCEPT ![r].phase = "notify"]
  PROVE  Alone' /\ \A s \in Request : StillSo(req[s])'
  <1>1. ~Free(r)
    BY DEF Free, Idle
  <1>2. req'[r].phase = "notify" /\ \A s \in Request : s # r => req'[s] = Idle
    <2>1. req \in [Request -> Req] /\ req[r] \in Req
      BY DEF Base, TypeOK
    <2>2. req'[r] = [req[r] EXCEPT !.phase = "notify"]
      BY <2>1
    <2>3. req'[r].phase = "notify"
      BY <2>1, <2>2 DEF Req
    <2> QED
      BY <1>1, <2>1, <2>3, OthersIdle
  <1>3. Alone'
    BY <1>2 DEF Alone, Free
  <1>4. \A s \in Request : StillSo(req[s])'
    BY <1>2 DEF StillSo, Idle
  <1> QED
    BY <1>3, <1>4

LEMMA SameTables ==
  ASSUME Serial, OneAtATime, UNCHANGED tables
  PROVE  \A a \in Open' : Settled(a)'
  BY DEF Serial, Settled, PrimariesOf, RowsOf, Open, tables

LEMMA RefusedSerial ==
  ASSUME Base, Serial, NEW r \in Request, ~Free(r), Refused(r), UNCHANGED workers
  PROVE  Serial'
  BY DoneSerial, SameTables DEF Refused, Serial, OneAtATime

LEMMA StartSerial ==
  ASSUME Base, Serial, NEW r \in Request, Arrive(r), UNCHANGED workers
  PROVE  Serial'
  <1> SUFFICES ASSUME OneAtATime PROVE Alone' /\ (\A s \in Request : StillSo(req[s])') /\ \A a \in Open' : Settled(a)'
    BY DEF Serial, OneAtATime
  <1>1. PICK q : Starts(r, q)
    BY StartIs
  <1>2. \A s \in Request : Free(s)
    <2> DEFINE B == {s \in Request : ~Free(s)}
    <2>1. IsFiniteSet(B)
      BY FS_Subset, EmailConstants
    <2>2. Cardinality(B) < 1
      BY <1>1 DEF Starts, OneAtATime
    <2>3. B = {}
      BY <2>1, <2>2, FS_CardinalityType, FS_EmptySet
    <2> QED
      BY <2>3
  <1>3. \A s \in Request : req'[s] = IF s = r THEN q ELSE Idle
    BY <1>1, <1>2 DEF Starts, Free, Base, TypeOK
  <1>4. Alone'
    BY <1>3 DEF Alone, Free
  <1>5. StillSo(q)
    <2>1. q.phase = "promote" /\ status[q.account] = "open" => PrimariesOf(q.account) = {q.primary}
      <3> HAVE q.phase = "promote" /\ status[q.account] = "open"
      <3>1. Settled(q.account)
        BY <1>1 DEF Serial, Open, Starts, RequestOK
      <3>2. q.primary \in PrimariesOf(q.account) \/ PrimariesOf(q.account) = {}
        BY <1>1 DEF Starts, Reads
      <3> QED
        BY <3>1, <3>2 DEF Settled
    <2> QED
      BY <1>1, <2>1 DEF Starts, Reads, StillSo
  <1>6. \A s \in Request : StillSo(req[s])'
    <2>1. StillSo(q)'
      <3>1. UNCHANGED <<status, email, rows>>
        BY <1>1 DEF Starts, tables
      <3> QED
        BY <1>5, <3>1 DEF StillSo, RowsOf, PrimariesOf
    <2> QED
      BY <1>3, <2>1 DEF StillSo, Idle
  <1>7. \A a \in Open' : Settled(a)'
    BY <1>1, SameTables DEF Starts
  <1> QED
    BY <1>4, <1>6, <1>7

\* An INSERT adds one row to the account's and leaves the other accounts' alone.
LEMMA InsertedRows ==
  ASSUME Base, NEW a \in Account, NEW new \in Row, new.account = a,
         NEW gone, gone \subseteq RowsOf(a), Inserted(new, gone)
  PROVE  /\ made + 1 \in Id /\ rows'[made + 1] = new
         /\ RowsOf(a)' = (RowsOf(a) \ gone) \cup {made + 1}
         /\ PrimariesOf(a)' = (PrimariesOf(a) \ gone) \cup {i \in {made + 1} : new.primary}
         /\ \A i \in RowsOf(a) \ gone : rows'[i] = rows[i]
         /\ \A b \in Account \ {a} :
              /\ \A i \in Id : rows'[i].account = b <=> rows[i].account = b
              /\ \A i \in RowsOf(b) : rows'[i] = rows[i]
  <1>0. TypeOK /\ Fresh /\ made \in 0..MaxRows
    BY DEF Base, TypeOK
  <1>1. made + 1 \in Id /\ made + 1 > made
    BY <1>0, Ids DEF Inserted, Id
  <1>2. rows[made + 1] = NoRow /\ NoRow.account = None /\ a # None
    BY <1>0, <1>1, EmailConstants DEF Fresh, NoRow
  <1>3. \A i \in Id : rows'[i] = IF i = made + 1 THEN new ELSE IF i \in gone THEN NoRow ELSE rows[i]
    BY DEF Inserted
  <1>4. RowsOf(a)' = (RowsOf(a) \ gone) \cup {made + 1}
    BY <1>1, <1>2, <1>3 DEF RowsOf
  <1>5. made + 1 \notin RowsOf(a) /\ made + 1 \notin gone
    BY <1>2 DEF RowsOf
  <1>6. \A i \in RowsOf(a) \ gone : rows'[i] = rows[i]
    BY <1>3, <1>5 DEF RowsOf
  <1>7. PrimariesOf(a)' = (PrimariesOf(a) \ gone) \cup {i \in {made + 1} : new.primary}
    BY <1>1, <1>3, <1>4, <1>5, <1>6 DEF PrimariesOf
  <1>8. ASSUME NEW b \in Account \ {a}
        PROVE  /\ \A i \in Id : rows'[i].account = b <=> rows[i].account = b
               /\ \A i \in RowsOf(b) : rows'[i] = rows[i]
    <2>1. \A i \in gone : rows[i].account = a
      BY DEF RowsOf
    <2>2. b # None /\ b # a
      BY EmailConstants
    <2>3. \A i \in Id : rows'[i].account = b <=> rows[i].account = b
      BY <1>2, <1>3, <2>1, <2>2
    <2>4. \A i \in RowsOf(b) : rows'[i] = rows[i]
      BY <1>2, <1>3, <2>1, <2>2 DEF RowsOf
    <2> QED
      BY <2>3, <2>4
  <1> QED
    BY <1>1, <1>3, <1>4, <1>6, <1>7, <1>8

\* After an INSERT for a, everybody else is as settled as before.
LEMMA InsertedOthers ==
  ASSUME Base, Serial, OneAtATime, NEW a \in Account, NEW new \in Row, new.account = a,
         NEW gone, gone \subseteq RowsOf(a), Inserted(new, gone),
         \A b \in Account \ {a} : status'[b] = status[b] /\ email'[b] = email[b]
  PROVE  \A b \in Open' \ {a} : Settled(b)'
  <1> SUFFICES ASSUME NEW b \in Account \ {a}, status'[b] = "open" PROVE Settled(b)'
    BY DEF Open
  <1>1. Settled(b)
    BY DEF Serial, Open
  <1> QED
    BY <1>1, InsertedRows, SettledSame

LEMMA RegisterSerial ==
  ASSUME Base, Serial, NEW r \in Request, CommitRegister(r), UNCHANGED workers
  PROVE  Serial'
  <1> SUFFICES ASSUME OneAtATime
               PROVE Alone' /\ (\A s \in Request : StillSo(req[s])') /\ \A b \in Open' : Settled(b)'
    BY DEF Serial, OneAtATime
  <1>a. PICK a, e : a = req[r].account /\ e = req[r].email
    OBVIOUS
  <1> DEFINE w == [account |-> a, email |-> e, primary |-> TRUE]
  <1>0. TypeOK /\ RequestsOK /\ NoOrphans /\ ~Free(r)
    BY DEF Base, CommitRegister, Free, Idle
  <1>1. a \in Account /\ e \in Email /\ status[a] # "open"
    BY <1>0, <1>a DEF CommitRegister, RequestsOK, RequestOK, Serial, StillSo
  <1>2. CASE Refused(r)
    BY <1>0, <1>2, RefusedSerial DEF Serial, OneAtATime
  <1>3. CASE ~Refused(r)
    <2>1. /\ Insert(a, e, TRUE, {})
          /\ status' = [status EXCEPT ![a] = "open"]
          /\ email' = [email EXCEPT ![a] = e]
          /\ Done(r)
      BY <1>3, <1>a DEF CommitRegister
    <2>2. Inserted(w, {}) /\ w \in Row /\ w.account = a /\ w.email = e /\ w.primary
      BY <1>1, <2>1 DEF Insert, Inserted, Row
    <2>3. RowsOf(a) = {}
      BY <1>0, <1>1, RowFields, EmailConstants DEF NoOrphans, RowsOf, Open
    <2> HIDE DEF w
    <2>4. \A b \in Account \ {a} : status'[b] = status[b] /\ email'[b] = email[b]
      BY <1>0, <2>1 DEF TypeOK
    <2>5. \A b \in Open' \ {a} : Settled(b)'
      BY <1>1, <2>2, <2>4, InsertedOthers
    <2>6. Settled(a)'
      <3>1. made + 1 \in Id /\ rows'[made + 1] = w /\ PrimariesOf(a)' = {made + 1}
        <4>1. PrimariesOf(a) = {}
          BY <2>3 DEF PrimariesOf
        <4> QED
          BY <1>1, <2>2, <4>1, InsertedRows
      <3>2. email'[a] = e
        BY <1>0, <1>1, <2>1 DEF TypeOK
      <3> QED
        BY <2>2, <3>1, <3>2 DEF Settled
    <2> QED
      BY <1>0, <2>1, <2>5, <2>6, DoneSerial
  <1> QED
    BY <1>2, <1>3

LEMMA VerifySerial ==
  ASSUME Base, Serial, NEW r \in Request, CommitVerify(r), UNCHANGED workers
  PROVE  Serial'
  <1> SUFFICES ASSUME OneAtATime
               PROVE Alone' /\ (\A s \in Request : StillSo(req[s])') /\ \A b \in Open' : Settled(b)'
    BY DEF Serial, OneAtATime
  <1>a. PICK a, e : a = req[r].account /\ e = req[r].email
    OBVIOUS
  <1> DEFINE w == [account |-> a, email |-> e, primary |-> FALSE]
  <1>0. TypeOK /\ RequestsOK /\ ~Free(r)
    BY DEF Base, CommitVerify, Free, Idle
  <1>1. a \in Account /\ e \in Email
    BY <1>0, <1>a DEF CommitVerify, RequestsOK, RequestOK
  <1>2. CASE Refused(r)
    BY <1>0, <1>2, RefusedSerial DEF Serial, OneAtATime
  <1>3. CASE ~Refused(r)
    <2>1. status[a] = "open" /\ Insert(a, e, FALSE, {}) /\ Done(r) /\ UNCHANGED <<status, email>>
      BY <1>3, <1>a DEF CommitVerify
    <2>2. Inserted(w, {}) /\ w \in Row /\ w.account = a /\ ~w.primary
      BY <1>1, <2>1 DEF Insert, Inserted, Row
    <2> HIDE DEF w
    <2>3. \A b \in Open' \ {a} : Settled(b)'
      BY <1>1, <2>1, <2>2, InsertedOthers
    <2>4. Settled(a)'
      <3>1. Settled(a)
        BY <1>1, <2>1 DEF Serial, Open
      <3>2. PrimariesOf(a)' = PrimariesOf(a) /\ \A i \in RowsOf(a) : rows'[i] = rows[i]
        <4>1. /\ PrimariesOf(a)' = (PrimariesOf(a) \ {}) \cup {i \in {made + 1} : w.primary}
              /\ \A i \in RowsOf(a) \ {} : rows'[i] = rows[i]
          BY <1>1, <2>2, InsertedRows
        <4>2. {i \in {made + 1} : w.primary} = {}
          BY <2>2
        <4> QED
          BY <4>1, <4>2
      <3>3. PrimariesOf(a) \subseteq RowsOf(a)
        BY DEF PrimariesOf
      <3> QED
        BY <2>1, <3>1, <3>2, <3>3 DEF Settled
    <2> QED
      BY <1>0, <2>1, <2>3, <2>4, DoneSerial
  <1> QED
    BY <1>2, <1>3

LEMMA RecoverySerial ==
  ASSUME Base, Serial, NEW r \in Request, CommitRecovery(r), UNCHANGED workers
  PROVE  Serial'
  <1> SUFFICES ASSUME OneAtATime
               PROVE Alone' /\ (\A s \in Request : StillSo(req[s])') /\ \A b \in Open' : Settled(b)'
    BY DEF Serial, OneAtATime
  <1>a. PICK a, e, o, gone : a = req[r].account /\ e = req[r].email /\ o = req[r].old /\ gone = req[r].seen
    OBVIOUS
  <1> DEFINE w == [account |-> a, email |-> e, primary |-> TRUE]
  <1>0. TypeOK /\ RequestsOK /\ ~Free(r)
    BY DEF Base, CommitRecovery, Free, Idle
  <1>1. a \in Account /\ e \in Email
    BY <1>0, <1>a DEF CommitRecovery, RequestsOK, RequestOK
  <1>2. CASE Refused(r)
    BY <1>0, <1>2, RefusedSerial DEF Serial, OneAtATime
  <1>3. CASE ~Refused(r)
    <2>1. /\ status[a] = "open" /\ Insert(a, e, TRUE, gone) /\ Done(r) /\ UNCHANGED status
          /\ email' = [email EXCEPT ![a] = IF e = o THEN @ ELSE e]
      BY <1>3, <1>a DEF CommitRecovery
    <2>2. gone = RowsOf(a) /\ o = email[a]
      BY <1>a, <2>1 DEF Serial, StillSo, CommitRecovery
    <2>3. Inserted(w, gone) /\ w \in Row /\ w.account = a /\ w.email = e /\ w.primary
      BY <1>1, <2>1 DEF Insert, Inserted, Row
    <2> HIDE DEF w
    <2>4. \A b \in Account \ {a} : status'[b] = status[b] /\ email'[b] = email[b]
      BY <1>0, <2>1 DEF TypeOK
    <2>5. \A b \in Open' \ {a} : Settled(b)'
      BY <1>1, <2>2, <2>3, <2>4, InsertedOthers
    <2>6. Settled(a)'
      <3>1. made + 1 \in Id /\ rows'[made + 1] = w /\ PrimariesOf(a)' = {made + 1}
        <4>1. PrimariesOf(a) \ gone = {}
          BY <2>2 DEF PrimariesOf
        <4> QED
          BY <1>1, <2>2, <2>3, <4>1, InsertedRows
      <3>2. email'[a] = e
        BY <1>0, <1>1, <2>1, <2>2 DEF TypeOK
      <3> QED
        BY <2>3, <3>1, <3>2 DEF Settled
    <2> QED
      BY <1>0, <2>1, <2>5, <2>6, DoneSerial
  <1> QED
    BY <1>2, <1>3

LEMMA PromotionSerial ==
  ASSUME Base, Serial, NEW r \in Request, CommitPromotion(r), UNCHANGED workers
  PROVE  Serial'
  <1> SUFFICES ASSUME OneAtATime
               PROVE Alone' /\ (\A s \in Request : StillSo(req[s])') /\ \A b \in Open' : Settled(b)'
    BY DEF Serial, OneAtATime
  <1>a. PICK q : q = req[r]
    OBVIOUS
  <1>0. TypeOK /\ RequestsOK /\ ~Free(r) /\ q.phase = "promote"
    BY <1>a DEF Base, CommitPromotion, Free, Idle
  <1>1. q.account \in Account /\ q.email \in Email /\ q.target \in Id
    BY <1>0, <1>a DEF RequestsOK, RequestOK
  <1>2. CASE Refused(r)
    BY <1>0, <1>2, RefusedSerial DEF Serial, OneAtATime
  <1>3. CASE ~Refused(r)
    <2>1. /\ status[q.account] = "open" /\ Exists(q.target)
          /\ rows' = Promoted(q)
          /\ email' = [email EXCEPT ![q.account] = IF q.email = q.old THEN @ ELSE q.email]
          /\ req' = [req EXCEPT ![r].phase = "notify"]
          /\ UNCHANGED status
      BY <1>3, <1>a DEF CommitPromotion, Promoted
    <2>2. /\ rows[q.target].account = q.account /\ rows[q.target].email = q.email
          /\ ~rows[q.target].primary /\ email[q.account] = q.old
          /\ PrimariesOf(q.account) = {q.primary}
      BY <1>0, <1>a, <2>1 DEF Serial, StillSo
    <2>3. Alone' /\ \A s \in Request : StillSo(req[s])'
      BY <1>0, <1>a, <2>1, NotifySerial
    <2>4. \A i \in Id : /\ rows'[i].account = rows[i].account /\ rows'[i].email = rows[i].email
                        /\ rows'[i].primary <=> (i = q.target \/ rows[i].primary) /\ i # q.primary
      BY <1>0, <1>1, <2>1, PromotedRows
    <2>5. Settled(q.account)'
      <3>1. PrimariesOf(q.account)' = {q.target}
        BY <1>1, <2>2, <2>4 DEF PrimariesOf, RowsOf
      <3>2. email'[q.account] = q.email
        BY <1>0, <1>1, <2>1, <2>2 DEF TypeOK
      <3> QED
        BY <1>1, <2>2, <2>4, <3>1, <3>2 DEF Settled
    <2>6. ASSUME NEW b \in Account, b # q.account, status[b] = "open"
          PROVE  Settled(b)'
      <3>1. PICK p \in Id : PrimariesOf(b) = {p} /\ rows[p].email = email[b]
        BY <2>6 DEF Serial, Open, Settled
      <3>2. rows[q.primary].account = q.account
        BY <2>2 DEF PrimariesOf, RowsOf
      <3>3. PrimariesOf(b)' = {p}
        BY <2>2, <2>4, <2>6, <3>1, <3>2 DEF PrimariesOf, RowsOf
      <3>4. email'[b] = email[b]
        BY <1>0, <2>1, <2>6 DEF TypeOK
      <3> QED
        BY <2>4, <3>1, <3>3, <3>4 DEF Settled
    <2> QED
      BY <2>1, <2>3, <2>5, <2>6 DEF Open
  <1> QED
    BY <1>2, <1>3

LEMMA RemovalSerial ==
  ASSUME Base, Serial, NEW r \in Request, CommitRemoval(r), UNCHANGED workers
  PROVE  Serial'
  <1> SUFFICES ASSUME OneAtATime
               PROVE Alone' /\ (\A s \in Request : StillSo(req[s])') /\ \A b \in Open' : Settled(b)'
    BY DEF Serial, OneAtATime
  <1>a. PICK t : t = req[r].target
    OBVIOUS
  <1>0. TypeOK /\ RequestsOK /\ req[r].phase = "remove"
    BY DEF Base, CommitRemoval
  <1>1. t \in Id /\ ~rows[t].primary
    BY <1>0, <1>a DEF RequestsOK, RequestOK, Serial, StillSo
  <1>2. Alone' /\ \A s \in Request : StillSo(req[s])'
    BY <1>0, NotifySerial DEF CommitRemoval
  <1>3. ASSUME NEW b \in Account, status[b] = "open" PROVE Settled(b)'
    <2>1. PICK p \in Id : PrimariesOf(b) = {p} /\ rows[p].email = email[b]
      BY <1>3 DEF Serial, Open, Settled
    <2>2. \A i \in Id : rows'[i] = IF i = t THEN NoRow ELSE rows[i]
      BY <1>0, <1>a DEF CommitRemoval, TypeOK
    <2>3. NoRow.account # b
      BY EmailConstants DEF NoRow
    <2>4. t # p
      BY <1>1, <2>1 DEF PrimariesOf
    <2>5. PrimariesOf(b)' = {p}
      BY <1>1, <2>1, <2>2, <2>3 DEF PrimariesOf, RowsOf
    <2> QED
      BY <2>1, <2>2, <2>4, <2>5 DEF Settled, CommitRemoval
  <1> QED
    BY <1>2, <1>3 DEF Open, CommitRemoval

LEMMA DeleteSerial ==
  ASSUME Base, Serial, NEW a \in Account, DeleteAccount(a), UNCHANGED workers
  PROVE  Serial'
  <1> SUFFICES ASSUME OneAtATime
               PROVE Alone' /\ (\A s \in Request : StillSo(req[s])') /\ \A b \in Open' : Settled(b)'
    BY DEF Serial, OneAtATime
  <1>0. TypeOK /\ RequestsOK /\ NoOrphans /\ UNCHANGED req
    BY DEF Base, DeleteAccount
  <1>1. \A b \in Account : /\ status'[b] = "open" <=> b # a /\ status[b] = "open"
                           /\ b # a => email'[b] = email[b]
    BY <1>0 DEF DeleteAccount, TypeOK
  <1>2. \A i \in Id : rows'[i] = IF rows[i].account = a THEN NoRow ELSE rows[i]
    BY DEF DeleteAccount
  <1>3. ASSUME NEW b \in Account, b # a
        PROVE  /\ RowsOf(b)' = RowsOf(b) /\ PrimariesOf(b)' = PrimariesOf(b)
               /\ Settled(b) => Settled(b)'
               /\ \A i \in RowsOf(b) : rows'[i] = rows[i]
    <2>1. NoRow.account # b
      BY EmailConstants DEF NoRow
    <2>2. \A i \in Id : rows'[i].account = b <=> rows[i].account = b
      BY <1>2, <1>3, <2>1
    <2>3. \A i \in RowsOf(b) : rows'[i] = rows[i]
      BY <1>2, <1>3 DEF RowsOf
    <2> QED
      BY <1>1, <1>3, <2>2, <2>3, SettledSame
  <1>4. Alone'
    BY <1>0 DEF Serial, Alone, Free
  <1>5. ASSUME NEW s \in Request PROVE StillSo(req[s])'
    <2>a. PICK q : q = req[s] /\ q = req'[s]
      BY <1>0
    <2>0. StillSo(q) /\ RequestOK(q)
      BY <1>0, <2>a DEF Serial, RequestsOK
    <2>1. q.phase = "register" => status'[q.account] # "open"
      BY <1>1, <2>0 DEF StillSo, RequestOK
    <2>2. q.phase = "promote" /\ status'[q.account] = "open" =>
             /\ rows'[q.target].account = q.account /\ rows'[q.target].email = q.email
             /\ ~rows'[q.target].primary
             /\ email'[q.account] = q.old
             /\ PrimariesOf(q.account)' = {q.primary}
      <3> HAVE q.phase = "promote" /\ status'[q.account] = "open"
      <3>1. q.account \in Account /\ q.target \in Id /\ q.account # a /\ status[q.account] = "open"
        BY <1>1, <2>0 DEF RequestOK
      <3>2. rows'[q.target] = rows[q.target]
        BY <1>2, <2>0, <3>1 DEF StillSo
      <3> QED
        BY <1>1, <1>3, <2>0, <3>1, <3>2 DEF StillSo
    <2>3. q.phase = "remove" => ~rows'[q.target].primary
      <3>1. NoRow.primary = FALSE
        BY DEF NoRow
      <3> QED
        BY <1>2, <2>0, <3>1 DEF StillSo, RequestOK
    <2>4. q.phase = "recover" /\ status'[q.account] = "open" =>
             q.seen = RowsOf(q.account)' /\ q.old = email'[q.account]
      BY <1>1, <1>3, <2>0 DEF StillSo, RequestOK
    <2> QED
      BY <2>a, <2>1, <2>2, <2>3, <2>4 DEF StillSo, RowsOf, PrimariesOf
  <1>6. \A b \in Open' : Settled(b)'
    BY <1>1, <1>3 DEF Serial, Open
  <1> QED
    BY <1>4, <1>5, <1>6

\* No open account is without a row, so nothing is left for the seed.
LEMMA SeedSerial ==
  ASSUME Serial, NEW a \in Account, Seed(a), UNCHANGED workers
  PROVE  Serial'
  <1> SUFFICES ASSUME OneAtATime PROVE FALSE
    BY DEF Serial, OneAtATime
  <1>1. Settled(a)
    BY DEF Seed, Serial, Open
  <1> QED
    BY <1>1 DEF Settled, PrimariesOf, Seed

LEMMA LinksSerial ==
  ASSUME Serial, UNCHANGED <<tables, req, workers>>
  PROVE  Serial'
  <1> SUFFICES ASSUME OneAtATime
               PROVE Alone' /\ (\A s \in Request : StillSo(req[s])') /\ \A b \in Open' : Settled(b)'
    BY DEF Serial, OneAtATime
  <1>1. Alone'
    BY DEF Serial, Alone, Free
  <1>2. \A s \in Request : StillSo(req[s])'
    BY DEF Serial, StillSo, RowsOf, PrimariesOf, tables
  <1> QED
    BY <1>1, <1>2, SameTables

LEMMA LinkSerial ==
  ASSUME Base, Serial, NEW r \in Request, CommitVerification(r) \/ CommitRecoveryLink(r),
         UNCHANGED workers
  PROVE  Serial'
  <1> SUFFICES ASSUME OneAtATime
               PROVE Alone' /\ (\A s \in Request : StillSo(req[s])') /\ \A b \in Open' : Settled(b)'
    BY DEF Serial, OneAtATime
  <1>1. Done(r) /\ UNCHANGED tables /\ ~Free(r)
    BY DEF CommitVerification, CommitRecoveryLink, Free, Idle
  <1> QED
    BY <1>1, DoneSerial, SameTables

LEMMA NextSerial == IInv /\ [Next]_vars => Serial'
  <1> SUFFICES ASSUME Base, Serial, [Next]_vars PROVE Serial'
    BY DEF IInv
  <1>1. ASSUME NEW r \in Request, Arrive(r), UNCHANGED workers
        PROVE  Serial'
    BY <1>1, StartSerial
  <1>2. ASSUME NEW r \in Request, Serve(r), UNCHANGED workers
        PROVE  Serial'
    BY <1>2, RegisterSerial, LinkSerial, VerifySerial, PromotionSerial, RemovalSerial,
       RecoverySerial DEF Serve
  <1>3. ASSUME NEW r \in Request, Abort(r), UNCHANGED workers
        PROVE  Serial'
    BY <1>3, RefusedSerial DEF Abort
  <1>4. ASSUME NEW a \in Account, DeleteAccount(a) \/ Seed(a), UNCHANGED workers
        PROVE  Serial'
    BY <1>4, DeleteSerial, SeedSerial
  <1>5. ASSUME NEW t, VerificationExpires(t) \/ RecoveryExpires(t), UNCHANGED workers
        PROVE  Serial'
    BY <1>5, LinksSerial DEF VerificationExpires, RecoveryExpires
  <1>6. ASSUME UNCHANGED vars PROVE Serial'
    BY <1>6, LinksSerial DEF vars, tables
  <1> QED
    BY <1>1, <1>2, <1>3, <1>4, <1>5, <1>6 DEF Next

\* The invariant that the theorems below rest on: Base, and, one request at a
\* time, what the request in progress has read is still so.
THEOREM AddressesInductive == Spec => []IInv
  <1>1. Init => IInv
    BY InitBase, InitSerial DEF IInv
  <1>2. IInv /\ [Next]_vars => IInv'
    BY NextBase, NextSerial DEF IInv
  <1> QED
    BY <1>1, <1>2, PTL DEF Spec

\* One request at a time, every open account has one primary row and it carries
\* Account.email, whatever is promoted, recovered, removed or deleted meanwhile.
THEOREM PrimaryIsUnique == Spec => []OnePrimary
  <1>1. IInv => OnePrimary
    BY DEF IInv, Serial, OnePrimary, Settled
  <1> QED
    BY <1>1, AddressesInductive, PTL

\* One request at a time, no address belongs to two accounts, counting the rows
\* and Account.email: the primary row carries Account.email, and a row is alone
\* with its address.
THEOREM AddressesNotShared == Spec => []NoAddressShared
  <1>1. IInv => NoAddressShared
    <2> SUFFICES ASSUME IInv, OneAtATime, NEW a \in Open, NEW b \in Open, a # b,
                        NEW i \in RowsOf(b)
                 PROVE  rows[i].email \notin {email[a]} \cup {rows[j].email : j \in RowsOf(a)}
      BY DEF NoAddressShared
    <2>1. TypeOK /\ NoOrphans /\ a \in Account /\ b \in Account
      BY DEF IInv, Base, Open
    <2>2. i \in Id /\ rows[i].account = b /\ Exists(i)
      BY <2>1, EmailConstants DEF RowsOf, Exists, NoRow
    <2>3. \A j \in RowsOf(a) : rows[j].email # rows[i].email
      BY <2>1, <2>2 DEF RowsOf, NoOrphans
    <2>4. PICK p \in Id : PrimariesOf(a) = {p} /\ rows[p].email = email[a]
      BY DEF IInv, Serial, Settled
    <2>5. p \in RowsOf(a)
      BY <2>4 DEF PrimariesOf
    <2> QED
      BY <2>3, <2>4, <2>5
  <1> QED
    BY <1>1, AddressesInductive, PTL

\* One request at a time, a recovery that is not refused leaves the account with
\* the recovered address alone, as its primary row and as Account.email: the rows
\* it has read are all the rows there are when it commits.
THEOREM RecoveryIsComplete == Spec => RecoveryRestores
  <1>1. ASSUME IInv, IInv', [Next]_vars, NEW r \in Request, OneAtATime, CommitRecovery(r),
               rows' # rows
        PROVE  LET a == req[r].account
                   mine == {rows'[i] : i \in Id} \cap {w \in Row : w.account = a}
               IN  /\ email'[a] = req[r].email
                   /\ mine = {[account |-> a, email |-> req[r].email, primary |-> TRUE]}
    <2>a. PICK a, e, o, gone : a = req[r].account /\ e = req[r].email /\ o = req[r].old /\ gone = req[r].seen
      OBVIOUS
    <2> DEFINE w == [account |-> a, email |-> e, primary |-> TRUE]
    <2>0. TypeOK /\ RequestsOK /\ Base /\ Serial
      BY <1>1 DEF IInv, Base
    <2>1. a \in Account /\ e \in Email /\ req[r].phase = "recover"
      BY <1>1, <2>0, <2>a DEF CommitRecovery, RequestsOK, RequestOK
    <2>2. ~Refused(r)
      BY <1>1 DEF Refused, tables
    <2>3. /\ status[a] = "open" /\ Insert(a, e, TRUE, gone)
          /\ email' = [email EXCEPT ![a] = IF e = o THEN @ ELSE e]
      BY <1>1, <2>2, <2>a DEF CommitRecovery
    <2>4. gone = RowsOf(a) /\ o = email[a]
      BY <1>1, <2>0, <2>1, <2>a, <2>3 DEF Serial, StillSo
    <2>5. Inserted(w, gone) /\ w \in Row /\ w.account = a
      BY <2>1, <2>3 DEF Insert, Inserted, Row
    <2> HIDE DEF w
    <2>6. made + 1 \in Id /\ rows'[made + 1] = w /\ RowsOf(a)' = {made + 1}
      BY <2>0, <2>1, <2>4, <2>5, InsertedRows
    <2>7. email'[a] = e
      BY <2>0, <2>1, <2>3, <2>4 DEF TypeOK
    <2>8. {rows'[i] : i \in Id} \cap {x \in Row : x.account = a} = {w}
      <3>1. \A i \in Id : rows'[i].account = a => rows'[i] = w
        BY <2>6 DEF RowsOf
      <3> QED
        BY <2>5, <2>6, <3>1
    <2> QED
      BY <2>a, <2>7, <2>8 DEF w
  <1>2. IInv /\ IInv' /\ [Next]_vars =>
          [\A r \in Request : OneAtATime /\ CommitRecovery(r) /\ rows' # rows =>
             LET a == req[r].account
                 mine == {rows'[i] : i \in Id} \cap {w \in Row : w.account = a}
             IN  /\ email'[a] = req[r].email
                 /\ mine = {[account |-> a, email |-> req[r].email, primary |-> TRUE]}]_vars
    BY <1>1
  <1> QED
    BY <1>2, AddressesInductive, PTL DEF Spec, RecoveryRestores

=============================================================================
