------------------------------ MODULE PagesProofs ------------------------------
(***************************************************************************)
(* Proofs about Pages, for any tabs, tokens, messages, forms and values.     *)
(* The argument: an answer changes the cookie of tokens only if its request  *)
(* came without it; while anything is sure no such request is under way      *)
(* (CookieStays), so what is sure goes on having the token of the cookie.    *)
(* Messages and rows need only what a request carries and has read.          *)
(***************************************************************************)
EXTENDS Pages, TLAPS

-----------------------------------------------------------------------------
(* Requests and answers *)

LEMMA NoRequestTyped == NoRequest \in Request /\ NoAnswer \in Answer
BY DEF NoRequest, Request, NoAnswer, Answer, Body, Kind, Maybe

\* What a tab that asks sends.
LEMMA AsksTyped ==
  ASSUME NEW t \in Tab, NEW kind \in Kind, NEW cookies \in Jar
  PROVE  /\ Asks(t, kind, cookies) \in Request
         /\ Asks(t, kind, cookies).phase = "sent"
         /\ Asks(t, kind, cookies).kind = kind
         /\ Asks(t, kind, cookies).csrf = IF kind = "link" THEN None ELSE cookies.csrf
         /\ Asks(t, kind, cookies).flash = cookies.flash
         /\ Asks(t, kind, cookies).sure <=> kind # "link" /\ Settled(t, cookies)
<1> DEFINE sure == kind # "link" /\ Settled(t, cookies)
           r == Asks(t, kind, cookies)
<1>1. sure \in BOOLEAN  BY Zenon
<1>2. r = [NoRequest EXCEPT !.phase = "sent", !.kind = kind,
             !.csrf = IF kind = "link" THEN None ELSE cookies.csrf,
             !.flash = cookies.flash, !.sure = sure]
  BY Zenon DEF Asks
<1> HIDE DEF sure, r
<1>3. /\ r \in Request /\ r.phase = "sent" /\ r.kind = kind
      /\ r.csrf = IF kind = "link" THEN None ELSE cookies.csrf
      /\ r.flash = cookies.flash /\ r.sure = sure
  BY <1>1, <1>2, NoRequestTyped DEF Request, Jar, Maybe, NoRequest
<1>4. r.sure <=> kind # "link" /\ Settled(t, cookies)  BY <1>3, Zenon DEF sure
<1> USE DEF r
<1>5. QED  BY <1>3, <1>4

\* What an answer leaves of its request.
LEMMA AnswersTyped ==
  ASSUME TypeOK, NEW t \in Tab, NEW a \in Answer, Answers(t, a)
  PROVE  /\ req' \in [Tab -> Request]
         /\ \A u \in Tab \ {t} : req'[u] = req[u]
         /\ req'[t].phase = "answered" /\ req'[t].answer = a
         /\ req'[t].kind = req[t].kind /\ req'[t].csrf = req[t].csrf
         /\ req'[t].flash = req[t].flash /\ req'[t].sure = req[t].sure
         /\ a.body = "again" => req'[t].token = req[t].token
<1> DEFINE kept == IF a.body = "again" THEN req[t]
                   ELSE [req[t] EXCEPT !.token = None, !.form = None]
<1>1. req[t] \in Request  BY DEF TypeOK
<1>2. kept \in Request /\ kept.kind = req[t].kind /\ kept.csrf = req[t].csrf
      /\ kept.flash = req[t].flash /\ kept.sure = req[t].sure
      /\ (a.body = "again" => kept.token = req[t].token)
  BY <1>1 DEF Request, Maybe
<1>3. req' = [req EXCEPT ![t] = [kept EXCEPT !.phase = "answered", !.seen = None,
                                             !.answer = a]]
  BY DEF Answers
<1> HIDE DEF kept
<1>4. QED  BY <1>2, <1>3 DEF TypeOK, Request, Maybe

LEMMA TokensTyped ==
  ASSUME TypeOK, NEW t \in Tab, NEW token \in Tokens(t)
  PROVE  token \in Token /\ (req[t].csrf # None => token = req[t].csrf)
<1>1. req[t].csrf \in Maybe(Token)  BY DEF TypeOK, Request
<1>2. QED  BY <1>1 DEF Tokens, Maybe

LEMMA ThroughTyped ==
  ASSUME TypeOK, NEW t \in Tab, NEW body \in Body, NEW token \in Tokens(t),
         NEW note \in Maybe(Message)
  PROVE  /\ Through(t, body, token, note) \in Answer
         /\ Through(t, body, token, note).body = body
         /\ Through(t, body, token, note).token = token
         /\ Through(t, body, token, note).note = note
         /\ req[t].csrf # None => Through(t, body, token, note).cookie = None
         /\ body = "page" => Through(t, body, token, note).shows = req[t].flash
         /\ req[t].flash = None => ~Through(t, body, token, note).drops
<1> DEFINE drops == req[t].flash # None
           a == Through(t, body, token, note)
<1>1. drops \in BOOLEAN  BY Zenon
<1>2. a = [body |-> body, token |-> token, note |-> note,
           cookie |-> IF req[t].csrf = token THEN None ELSE token,
           drops |-> drops, shows |-> IF body = "page" THEN req[t].flash ELSE None]
  BY Zenon DEF Through
<1>3. req[t].flash \in Maybe(Message)  BY DEF TypeOK, Request
<1>4. token \in Token /\ (req[t].csrf # None => token = req[t].csrf)  BY TokensTyped
<1>5. a.drops = drops  BY <1>2
<1>6. req[t].flash = None => ~a.drops  BY <1>5, Zenon
<1> HIDE DEF drops, a
<1>7. /\ a \in Answer /\ a.body = body /\ a.token = token /\ a.note = note
      /\ req[t].csrf # None => a.cookie = None
      /\ body = "page" => a.shows = req[t].flash
  BY <1>1, <1>2, <1>3, <1>4 DEF Answer, Maybe
<1> USE DEF a
<1>8. QED  BY <1>6, <1>7

\* The answer that a step of the server gives, whichever it is.
Fits(t) ==
  /\ req'[t].phase = "answered"
  /\ req[t].csrf # None => req'[t].answer.cookie = None
  /\ req[t].csrf # None /\ req'[t].answer.body = "page" => req'[t].answer.token = req[t].csrf
  /\ req'[t].answer.body = "page" => req'[t].answer.shows = req[t].flash
  /\ req[t].flash = None => ~req'[t].answer.drops

\* What a step of the server leaves of the request.
SameRequest(t) ==
  /\ req' \in [Tab -> Request]
  /\ \A u \in Tab \ {t} : req'[u] = req[u]
  /\ req'[t].kind = req[t].kind /\ req'[t].csrf = req[t].csrf
  /\ req'[t].flash = req[t].flash /\ req'[t].sure = req[t].sure

LEMMA RespondFits ==
  ASSUME TypeOK, NEW t \in Tab, NEW body \in Body \ {"refused"}, NEW note \in Maybe(Message),
         Respond(t, body, note)
  PROVE  /\ SameRequest(t) /\ Fits(t) /\ req'[t].answer.body = body
         /\ body = "again" => req'[t].token = req[t].token
         /\ UNCHANGED <<usage, jar, tab, owed>>
         /\ generated' \subseteq Token /\ written' \subseteq Message
<1>1. PICK token \in Tokens(t) : /\ generated' = generated \cup {token}
                                 /\ Answers(t, Through(t, body, token, note))
  BY DEF Respond
<1> DEFINE a == Through(t, body, token, note)
<1>2. /\ a \in Answer /\ a.body = body /\ a.token = token
      /\ req[t].csrf # None => a.cookie = None
      /\ body = "page" => a.shows = req[t].flash
      /\ req[t].flash = None => ~a.drops
  BY ThroughTyped
<1>3. Answers(t, a)  BY <1>1
<1> HIDE DEF a
<1>4. SameRequest(t) /\ req'[t].phase = "answered" /\ req'[t].answer = a
      /\ (a.body = "again" => req'[t].token = req[t].token)
  BY <1>2, <1>3, AnswersTyped DEF SameRequest
<1>5. token \in Token /\ (req[t].csrf # None => token = req[t].csrf)  BY TokensTyped
<1>6. Fits(t)  BY <1>2, <1>4, <1>5 DEF Fits
<1>7. generated' \subseteq Token /\ written' \subseteq Message
  BY <1>1, <1>5 DEF TypeOK, Respond, Maybe
<1>8. QED  BY <1>2, <1>4, <1>6, <1>7 DEF Respond

LEMMA FailFits ==
  ASSUME TypeOK, NEW t \in Tab, Fail(t)
  PROVE  /\ SameRequest(t) /\ Fits(t) /\ req'[t].answer.body \in {"page", "nothing"}
         /\ UNCHANGED <<usage, jar, tab, owed, written>>
         /\ generated' \subseteq Token
<1>1. PICK token \in Tokens(t) :
        /\ generated' = generated \cup {token}
        /\ Answers(t, IF req[t].kind \in {"page", "link", "form"}
                      THEN [NoAnswer EXCEPT !.body = "page", !.token = token,
                                            !.shows = req[t].flash]
                      ELSE NoAnswer)
        /\ UNCHANGED <<usage, jar, written, tab, owed>>
  BY DEF Fail
<1> DEFINE a == IF req[t].kind \in {"page", "link", "form"}
                THEN [NoAnswer EXCEPT !.body = "page", !.token = token, !.shows = req[t].flash]
                ELSE NoAnswer
<1>2. token \in Token /\ (req[t].csrf # None => token = req[t].csrf)  BY TokensTyped
<1>3. req[t].flash \in Maybe(Message)  BY DEF TypeOK, Request
<1>4. /\ a \in Answer /\ a.body \in {"page", "nothing"} /\ a.cookie = None /\ ~a.drops
      /\ a.body = "page" => a.token = token /\ a.shows = req[t].flash
  BY <1>2, <1>3, NoRequestTyped DEF Answer, Body, Maybe, NoAnswer
<1>5. Answers(t, a)  BY <1>1
<1> HIDE DEF a
<1>6. SameRequest(t) /\ req'[t].phase = "answered" /\ req'[t].answer = a
  BY <1>4, <1>5, AnswersTyped DEF SameRequest
<1>7. Fits(t)  BY <1>2, <1>4, <1>6 DEF Fits
<1>8. QED  BY <1>1, <1>2, <1>4, <1>6, <1>7 DEF TypeOK

LEMMA RefuseFits ==
  ASSUME TypeOK, NEW t \in Tab, Refuse(t)
  PROVE  /\ SameRequest(t) /\ Fits(t) /\ req'[t].answer.body = "refused"
         /\ UNCHANGED <<usage, jar, tab, owed, written, rows>>
         /\ generated' \subseteq Token
<1>1. PICK token \in Tokens(t) :
        /\ generated' = generated \cup {token}
        /\ Answers(t, [NoAnswer EXCEPT !.body = "refused", !.token = token])
  BY DEF Refuse
<1> DEFINE a == [NoAnswer EXCEPT !.body = "refused", !.token = token]
<1>2. token \in Token  BY TokensTyped
<1>3. a \in Answer /\ a.body = "refused" /\ a.cookie = None /\ ~a.drops
  BY <1>2, NoRequestTyped DEF Answer, Body, Maybe, NoAnswer
<1>4. Answers(t, a)  BY <1>1
<1> HIDE DEF a
<1>5. SameRequest(t) /\ req'[t].phase = "answered" /\ req'[t].answer = a
  BY <1>3, <1>4, AnswersTyped DEF SameRequest
<1>6. Fits(t)  BY <1>3, <1>5 DEF Fits
<1>7. QED  BY <1>1, <1>2, <1>3, <1>5, <1>6 DEF Refuse, TypeOK

-----------------------------------------------------------------------------
(* The steps of the server *)

LEMMA LoadSame ==
  ASSUME TypeOK, NEW t \in Tab, Load(t)
  PROVE  /\ SameRequest(t)
         /\ req'[t].phase = "loaded" /\ req'[t].seen = user
         /\ req'[t].form = req[t].form /\ req'[t].token = req[t].token
<1>1. req[t] \in Request  BY DEF TypeOK
<1>2. user \in Row  BY DEF TypeOK
<1>3. req' = [req EXCEPT ![t] = [req[t] EXCEPT !.phase = "loaded", !.seen = user]]
  BY DEF Load
<1> DEFINE r == [req[t] EXCEPT !.phase = "loaded", !.seen = user]
<1>4. /\ r \in Request /\ r.phase = "loaded" /\ r.seen = user /\ r.kind = req[t].kind
      /\ r.csrf = req[t].csrf /\ r.flash = req[t].flash /\ r.sure = req[t].sure
      /\ r.form = req[t].form /\ r.token = req[t].token
  BY <1>1, <1>2 DEF Request, Maybe
<1>5. req' = [req EXCEPT ![t] = r]  BY <1>3
<1> HIDE DEF r
<1>6. QED  BY <1>4, <1>5 DEF TypeOK, SameRequest

\* A step of the server answers its request, or reads the row for it.
Answered(t) ==
  /\ Fits(t)
  /\ req'[t].answer.body = "again" => req'[t].token = req[t].token
  /\ req'[t].answer.body = "refused" => Refuse(t)

LEMMA ServeEffect ==
  ASSUME TypeOK, NEW t \in Tab, Serve(t)
  PROVE  /\ SameRequest(t) /\ req[t].phase \in {"sent", "loaded"}
         /\ UNCHANGED <<usage, jar, tab, owed>>
         /\ generated' \subseteq Token /\ written' \subseteq Message
         /\ \/ Answered(t)
            \/ Load(t) /\ req'[t].phase = "loaded" /\ req'[t].token = req[t].token
<1>1. CASE Refuse(t)
  BY <1>1, RefuseFits DEF Refuse, Sent, Answered, TypeOK
<1>2. CASE Break(t)
  BY <1>2, FailFits DEF Break, Passes, Sent, Answered, TypeOK
<1>3. CASE SaveFails(t)
  BY <1>3, FailFits DEF SaveFails, Answered, TypeOK
<1>4. CASE Load(t)
  BY <1>4, LoadSame DEF Load, Passes, Sent, TypeOK
<1>5. ASSUME NEW body \in Body \ {"refused"}, NEW note \in Maybe(Message),
             Respond(t, body, note), req[t].phase \in {"sent", "loaded"}
      PROVE  /\ SameRequest(t) /\ Answered(t) /\ UNCHANGED <<usage, jar, tab, owed>>
             /\ generated' \subseteq Token /\ written' \subseteq Message
  BY <1>5, RespondFits DEF Answered
<1> None \in Maybe(Message)  BY DEF Maybe
<1>6. CASE Render(t)  BY <1>5, <1>6 DEF Render, Passes, Sent, Body
<1>7. CASE Toast(t)   BY <1>5, <1>7 DEF Toast, Passes, Sent, Body
<1>8. CASE Renew(t)   BY <1>5, <1>8 DEF Renew, Passes, Sent, Body
<1>9. ASSUME NEW note \in Maybe(Message), Redirect(t, note) PROVE Respond(t, "redirect", note) /\ Sent(t)
  BY <1>9 DEF Redirect, Passes
<1>10. CASE \E note \in Maybe(Message) : Redirect(t, note)
  BY <1>5, <1>9, <1>10 DEF Sent, Body
<1>11. CASE Save(t)   BY <1>5, <1>11 DEF Save, Body
<1>12. QED
  BY <1>1, <1>2, <1>3, <1>4, <1>6, <1>7, <1>8, <1>10, <1>11 DEF Serve

LEMMA ServeRows ==
  ASSUME NEW t \in Tab, Serve(t)
  PROVE  \/ Load(t) \/ Save(t)
         \/ UNCHANGED rows
  BY DEF Serve, Refuse, Render, Toast, Renew, Break, Redirect, SaveFails

\* A form names columns of its kind, with values they can hold.
LEMMA ParsedTyped ==
  ASSUME NEW f \in Form, f.about \in AboutUser
  PROVE  \A c \in DOMAIN Parsed(f) : /\ c \in Column /\ About(c) = f.about
                                     /\ Parsed(f)[c] \in Value
<1>1. CASE f.about = "preferences"
  <2>1. f.fields \in [Preferences -> BOOLEAN]  BY <1>1, PagesConstants
  <2>2. Parsed(f) = [c \in Preferences |-> f.fields.comm_opt_in /\ f.fields[c]]
    BY <1>1 DEF Parsed
  <2>3. DOMAIN Parsed(f) = Preferences  BY <2>2
  <2>4. \A c \in Preferences : Parsed(f)[c] \in BOOLEAN
    <3>1. \A c \in Preferences : (f.fields.comm_opt_in /\ f.fields[c]) \in BOOLEAN  BY Zenon
    <3>2. QED  BY <2>2, <3>1, Zenon
  <2>5. QED  BY <1>1, <2>3, <2>4, PagesConstants DEF About, Column
<1>2. CASE f.about = "profile"
  <2>1. f.fields \in [Profile -> Value]  BY <1>2, PagesConstants
  <2>2. Parsed(f) = [c \in {d \in DOMAIN f.fields : d = "name" \/ f.fields[d] # None}
                       |-> f.fields[c]]
    BY <1>2 DEF Parsed
  <2>3. QED  BY <1>2, <2>1, <2>2 DEF About, Column, Profile, Preferences
<1>3. QED  BY <1>1, <1>2 DEF AboutUser

LEMMA ServeTypes ==
  ASSUME TypeOK, ReadsHold, NEW t \in Tab, Serve(t)
  PROVE  TypeOK'
<1>1. /\ req' \in [Tab -> Request] /\ UNCHANGED <<usage, jar, tab, owed>>
      /\ generated' \subseteq Token /\ written' \subseteq Message
  BY ServeEffect DEF SameRequest
<1>2. user' \in Row /\ said' \in Row /\ overlapped' \subseteq AboutUser
  <2>1. CASE Load(t)  BY <2>1 DEF Load, TypeOK
  <2>2. CASE Save(t)
    <3> DEFINE new == Parsed(req[t].form)
    <3>1. \A c \in DOMAIN new : c \in Column /\ new[c] \in Value
      BY <2>2, ParsedTyped DEF ReadsHold, Save
    <3>2. Changed(t) \subseteq DOMAIN new  BY DEF Changed
    <3>3. /\ user' = [c \in Column |-> IF c \in Changed(t) THEN new[c] ELSE user[c]]
          /\ said' = [c \in Column |-> IF c \in DOMAIN new THEN new[c] ELSE said[c]]
          /\ UNCHANGED overlapped
      BY <2>2 DEF Save
    <3> HIDE DEF new
    <3>4. QED  BY <3>1, <3>2, <3>3 DEF TypeOK, Row
  <2>3. CASE UNCHANGED rows  BY <2>3 DEF rows, TypeOK
  <2>4. QED  BY <2>1, <2>2, <2>3, ServeRows
<1>3. QED  BY <1>1, <1>2 DEF TypeOK

LEMMA ServeKeepsTokens ==
  ASSUME TypeOK, CookieStays, PagesFit, RequestsFit, AnswersFit, SureFormsPass,
         NEW t \in Tab, Serve(t)
  PROVE  CookieStays' /\ PagesFit' /\ RequestsFit' /\ AnswersFit' /\ SureFormsPass'
<1>1. SameRequest(t) /\ req[t].phase \in {"sent", "loaded"} /\ UNCHANGED <<jar, tab>>
  BY ServeEffect
<1>2. \/ Answered(t)
      \/ Load(t) /\ req'[t].phase = "loaded" /\ req'[t].token = req[t].token
  BY ServeEffect
<1>3. InFlight(t) /\ InFlight(t)' /\ Pending(t)
  BY <1>1, <1>2 DEF InFlight, Pending, Answered, Fits
<1>4. \A u \in Tab : /\ req'[u].sure = req[u].sure /\ req'[u].csrf = req[u].csrf
                     /\ req'[u].kind = req[u].kind /\ (InFlight(u)' <=> InFlight(u))
  BY <1>1, <1>3 DEF SameRequest, InFlight
<1>5. CookieStays' /\ PagesFit'  BY <1>1, <1>4 DEF CookieStays, AnySure, PagesFit
<1>6. RequestsFit'
  <2> SUFFICES ASSUME NEW u \in Tab
               PROVE  /\ req'[u].sure => InFlight(u)' /\ req'[u].csrf = jar'.csrf
                      /\ req'[u].sure /\ req'[u].kind \in Unsafe /\ Pending(u)'
                           => req'[u].token = jar'.csrf
                      /\ InFlight(u)' /\ req'[u].kind = "link" => req'[u].csrf = None
    BY DEF RequestsFit
  <2>1. Pending(u)' => Pending(u) /\ req'[u].token = req[u].token
    <3>1. CASE u = t
      BY <1>2, <1>3, <3>1 DEF Pending, Arrived, Answered, Fits
    <3>2. CASE u # t  BY <1>1, <3>2 DEF SameRequest, Pending, Arrived
    <3>3. QED  BY <3>1, <3>2
  <2>2. QED  BY <1>1, <1>4, <2>1 DEF RequestsFit
<1>7. AnswersFit'
  <2> SUFFICES ASSUME NEW u \in Tab, req'[u].phase = "answered"
               PROVE  /\ req'[u].csrf # None => req'[u].answer.cookie = None
                      /\ req'[u].csrf # None /\ Arrived(u, "page")'
                           => req'[u].answer.token = req'[u].csrf
                      /\ Arrived(u, "page")' => req'[u].answer.shows = req'[u].flash
                      /\ req'[u].flash = None => ~req'[u].answer.drops
    BY DEF AnswersFit
  <2>1. CASE u = t  BY <1>1, <1>2, <2>1 DEF SameRequest, Answered, Fits, Arrived
  <2>2. CASE u # t  BY <1>1, <2>2 DEF SameRequest, AnswersFit, Arrived
  <2>3. QED  BY <2>1, <2>2
<1>8. SureFormsPass'
  <2> SUFFICES ASSUME NEW u \in Tab, Arrived(u, "refused")', req'[u].sure PROVE FALSE
    BY DEF SureFormsPass
  <2>1. CASE u = t
    <3>1. Refuse(t)  BY <1>2, <2>1 DEF Answered, Arrived
    <3>2. req[t].token = jar.csrf /\ req[t].csrf = jar.csrf
      BY <1>3, <1>4, <2>1, <3>1 DEF RequestsFit, Refuse
    <3>3. jar.csrf # None  BY <1>4, <2>1 DEF CookieStays, AnySure
    <3>4. QED  BY <3>1, <3>2, <3>3 DEF Refuse, Valid
  <2>2. CASE u # t  BY <1>1, <2>2 DEF SameRequest, SureFormsPass, Arrived
  <2>3. QED  BY <2>1, <2>2
<1>9. QED  BY <1>5, <1>6, <1>7, <1>8

LEMMA ServeKeepsRows ==
  ASSUME TypeOK, ReadsHold, RowIsLastForm, NEW t \in Tab, Serve(t)
  PROVE  ReadsHold' /\ RowIsLastForm'
<1>1. SameRequest(t)  BY ServeEffect
<1>2. CASE Load(t)
  <2>1. req'[t].phase = "loaded" /\ req'[t].seen = user /\ req'[t].form = req[t].form
    BY <1>2, LoadSame
  <2>2. PICK about \in AboutUser :
          /\ Edits(t, about)
          /\ overlapped' = IF \E u \in Tab \ {t} : req[u].phase = "loaded" /\ Edits(u, about)
                           THEN overlapped \cup {about} ELSE overlapped
    BY <1>2 DEF Load
  <2>3. overlapped \subseteq overlapped' /\ UNCHANGED <<user, said>>  BY <1>2, <2>2 DEF Load
  <2>4. req[t].form \in Form /\ req[t].form.about = about
    BY <2>2 DEF Edits, TypeOK, Request, Maybe
  <2>5. ASSUME NEW u \in Tab \ {t}, req[u].phase = "loaded", req[u].form.about = about
        PROVE  about \in overlapped'
    BY <2>2, <2>5, PagesConstants DEF ReadsHold, Edits
  <2>6. ReadsHold'
    <3> SUFFICES ASSUME NEW v \in Tab, req'[v].phase = "loaded"
                 PROVE  /\ req'[v].form \in Form /\ req'[v].form.about \in AboutUser
                        /\ req'[v].seen \in Row
                        /\ \A c \in Column : About(c) = req'[v].form.about
                                             /\ About(c) \notin overlapped'
                                               => req'[v].seen[c] = user'[c]
                        /\ \A u \in Tab \ {v} : /\ req'[u].phase = "loaded"
                                                /\ req'[u].form.about = req'[v].form.about
                                                => req'[v].form.about \in overlapped'
      BY DEF ReadsHold
    <3>1. CASE v = t
      BY <1>1, <2>1, <2>2, <2>3, <2>4, <2>5, <3>1 DEF SameRequest, TypeOK
    <3>2. CASE v # t
      <4>1. req'[v] = req[v]  BY <1>1, <3>2 DEF SameRequest
      <4>2. \A u \in Tab \ {v} : /\ req'[u].phase = "loaded"
                                 /\ req'[u].form.about = req'[v].form.about
                                 => req'[v].form.about \in overlapped'
        BY <1>1, <2>1, <2>3, <2>4, <2>5, <3>2, <4>1 DEF SameRequest, ReadsHold
      <4>3. QED  BY <2>3, <4>1, <4>2 DEF ReadsHold
    <3>3. QED  BY <3>1, <3>2
  <2>7. RowIsLastForm'  BY <2>3 DEF RowIsLastForm
  <2>8. QED  BY <2>6, <2>7
<1>3. CASE Save(t)
  <2> DEFINE new == Parsed(req[t].form)
             kind == req[t].form.about
  <2>1. /\ user' = [c \in Column |-> IF c \in Changed(t) THEN new[c] ELSE user[c]]
        /\ said' = [c \in Column |-> IF c \in DOMAIN new THEN new[c] ELSE said[c]]
        /\ UNCHANGED overlapped
    BY <1>3 DEF Save
  <2>2. /\ req[t].phase = "loaded" /\ kind \in AboutUser /\ req[t].form \in Form
        /\ \A c \in Column : About(c) = kind /\ About(c) \notin overlapped
                               => req[t].seen[c] = user[c]
    BY <1>3 DEF Save, ReadsHold
  <2>3. \A c \in DOMAIN new : c \in Column /\ About(c) = kind  BY <2>2, ParsedTyped
  <2>4. \A c \in DOMAIN new \ Changed(t) : new[c] = req[t].seen[c]  BY DEF Changed
  <2>5. Changed(t) \subseteq DOMAIN new  BY DEF Changed
  <2>6. req'[t].phase = "answered"
    <3>1. ~Load(t)  BY <2>2 DEF Load, Passes, Sent
    <3>2. QED  BY <3>1, ServeEffect DEF Answered, Fits
  <2> HIDE DEF new
  <2>7. RowIsLastForm'
    <3> SUFFICES ASSUME NEW c \in Column, About(c) \notin overlapped PROVE user'[c] = said'[c]
      BY <2>1 DEF RowIsLastForm
    <3>1. CASE c \in Changed(t)  BY <2>1, <2>5, <3>1
    <3>2. CASE c \in DOMAIN new \ Changed(t)
      <4>1. user'[c] = user[c] /\ said'[c] = new[c]  BY <2>1, <3>2
      <4>2. new[c] = user[c]  BY <2>2, <2>3, <2>4, <3>2
      <4>3. QED  BY <4>1, <4>2
    <3>3. CASE c \notin DOMAIN new
      BY <2>1, <2>5, <3>3 DEF RowIsLastForm
    <3>4. QED  BY <3>1, <3>2, <3>3
  <2>8. ReadsHold'
    <3> SUFFICES ASSUME NEW v \in Tab, req'[v].phase = "loaded"
                 PROVE  /\ req'[v].form \in Form /\ req'[v].form.about \in AboutUser
                        /\ req'[v].seen \in Row
                        /\ \A c \in Column : About(c) = req'[v].form.about
                                             /\ About(c) \notin overlapped'
                                               => req'[v].seen[c] = user'[c]
                        /\ \A u \in Tab \ {v} : /\ req'[u].phase = "loaded"
                                                /\ req'[u].form.about = req'[v].form.about
                                                => req'[v].form.about \in overlapped'
      BY DEF ReadsHold
    <3>1. v # t /\ req'[v] = req[v]  BY <1>1, <2>6 DEF SameRequest
    <3>2. \A u \in Tab \ {v} : /\ req'[u].phase = "loaded"
                               /\ req'[u].form.about = req'[v].form.about
                               => req'[v].form.about \in overlapped'
      BY <1>1, <2>1, <2>6, <3>1 DEF SameRequest, ReadsHold
    <3>3. ASSUME NEW c \in Column, About(c) = req[v].form.about, About(c) \notin overlapped
          PROVE  c \notin Changed(t)
      BY <2>2, <2>3, <2>5, <3>1, <3>3 DEF ReadsHold
    <3>4. \A c \in Column : About(c) = req[v].form.about /\ About(c) \notin overlapped
                              => req[v].seen[c] = user'[c]
      BY <2>1, <3>1, <3>3 DEF ReadsHold
    <3>5. QED  BY <2>1, <3>1, <3>2, <3>4 DEF ReadsHold
  <2>9. QED  BY <2>7, <2>8
<1>4. CASE UNCHANGED rows /\ ~Load(t)
  <2>1. req'[t].phase = "answered"  BY <1>4, ServeEffect DEF Answered, Fits
  <2>2. \A v \in Tab : req'[v].phase = "loaded" => req'[v] = req[v]
    BY <1>1, <2>1 DEF SameRequest
  <2>3. QED  BY <1>4, <2>2 DEF rows, ReadsHold, RowIsLastForm
<1>5. QED  BY <1>2, <1>3, <1>4, ServeRows

LEMMA ServeKeepsOwed ==
  ASSUME TypeOK, OwedIsCarried, NEW t \in Tab, Serve(t)
  PROVE  OwedIsCarried'
<1>1. SameRequest(t) /\ UNCHANGED <<jar, owed>>  BY ServeEffect
<1>2. InFlight(t) /\ InFlight(t)'  BY ServeEffect DEF InFlight, Answered, Fits
<1>3. QED  BY <1>1, <1>2 DEF SameRequest, OwedIsCarried, InFlight

-----------------------------------------------------------------------------
(* The steps of the browser *)

\* All of the invariant that is about requests, pages and the cookies.
Carried == /\ CookieStays /\ PagesFit /\ RequestsFit /\ AnswersFit
           /\ SureFormsPass /\ ReadsHold

LEMMA StoredTyped ==
  ASSUME TypeOK, NEW t \in Tab, jar' = Stored(req[t].answer)
  PROVE  jar' \in Jar /\ (req[t].answer.cookie = None => jar'.csrf = jar.csrf)
<1>1. jar \in Jar /\ req[t].answer \in Answer  BY DEF TypeOK, Request
<1>2. QED  BY <1>1 DEF Stored, Jar, Answer, Maybe

\* While anything is sure no answer changes the cookie of tokens.
LEMMA SureStays ==
  ASSUME TypeOK, CookieStays, AnswersFit, AnySure, NEW t \in Tab,
         req[t].phase = "answered", jar' = Stored(req[t].answer)
  PROVE  jar'.csrf = jar.csrf
<1>1. req[t].csrf # None  BY DEF CookieStays, InFlight
<1>2. QED  BY <1>1, StoredTyped DEF AnswersFit

LEMMA EndsTyped ==
  ASSUME TypeOK, NEW t \in Tab, Ends(t)
  PROVE  /\ req' \in [Tab -> Request] /\ req'[t] = NoRequest
         /\ \A u \in Tab \ {t} : req'[u] = req[u]
BY NoRequestTyped DEF Ends, TypeOK

LEMMA ForgetsTyped ==
  ASSUME TypeOK, NEW t \in Tab, Forgets(t)
  PROVE  /\ owed' \in [Tab -> Maybe(Message)] /\ owed'[t] = None
         /\ \A u \in Tab \ {t} : owed'[u] = owed[u]
BY DEF Forgets, TypeOK, Maybe

LEMMA DueTyped ==
  ASSUME TypeOK, NEW t \in Tab
  PROVE  Due(t) \in Maybe(Message) /\ None \in Maybe(Message)
BY DEF TypeOK, Request, Answer, Due, Maybe

\* The cookies of an answer keep their forms, and the token what is sure of it.
LEMMA TakesTyped ==
  ASSUME TypeOK, Carried, NEW t \in Tab, req[t].phase = "answered",
         NEW due \in Maybe(Message), Takes(t, due)
  PROVE  /\ jar' \in Jar /\ owed' \in [Tab -> Maybe(Message)]
         /\ AnySure => jar'.csrf = jar.csrf
<1>1. jar' = Stored(req[t].answer)  BY DEF Takes
<1>2. jar' \in Jar /\ (AnySure => jar'.csrf = jar.csrf)
  BY <1>1, StoredTyped, SureStays DEF Carried
<1>3. owed' \in [Tab -> Maybe(Message)]  BY DEF Takes, TypeOK, Maybe
<1>4. QED  BY <1>2, <1>3

\* A tab that waits has its message in its request, one that does not in the
\* cookie: an answer that takes the cookie's message takes the debt with it.
LEMMA TakesKeepsOwed ==
  ASSUME TypeOK, AnswersFit, OwedIsCarried, NEW t \in Tab, req[t].phase = "answered",
         NEW due \in {None, Due(t)}, Takes(t, due),
         \A u \in Tab \ {t} : req'[u] = req[u],
         InFlight(t)' => req'[t].flash = jar'.flash
  PROVE  OwedIsCarried'
<1>1. jar'.flash = IF req[t].answer.drops THEN None
                   ELSE IF req[t].answer.note # None THEN req[t].answer.note ELSE jar.flash
  BY DEF Takes, Stored
<1>2. req[t].flash = None => ~req[t].answer.drops  BY DEF AnswersFit
<1>3. due # None => jar'.flash = due  BY <1>1, <1>2 DEF Due
<1>4. \A u \in Tab : owed'[u] = IF u = t THEN due
        ELSE IF (req[t].flash # None \/ req[t].answer.note # None) /\ ~InFlight(u)
          THEN None ELSE owed[u]
  BY DEF Takes
<1>5. \A u \in Tab \ {t} : owed'[u] # None /\ ~InFlight(u) => jar'.flash = jar.flash
  BY <1>1, <1>2, <1>4
<1>6. ASSUME NEW u \in Tab, owed'[u] # None
      PROVE  (IF InFlight(u)' THEN req'[u].flash ELSE jar'.flash) = owed'[u]
  <2>1. CASE u = t  BY <1>3, <1>4, <1>6, <2>1
  <2>2. CASE u # t  BY <1>4, <1>5, <1>6, <2>2 DEF OwedIsCarried, InFlight
  <2>3. QED  BY <2>1, <2>2
<1>7. QED  BY <1>6 DEF OwedIsCarried

\* A request ends: what the tab then is sure of is the token of the cookie.
LEMMA EndsKeeps ==
  ASSUME TypeOK, Carried, NEW t \in Tab, Ends(t), UNCHANGED rows,
         AnySure => jar'.csrf = jar.csrf,
         \A u \in Tab \ {t} : tab'[u] = tab[u],
         tab'[t].sure # {} => AnySure,
         "meta" \in tab'[t].sure => tab'[t].meta = jar'.csrf,
         "field" \in tab'[t].sure => tab'[t].field = jar'.csrf
  PROVE  Carried'
<1> USE DEF Carried
<1>1. /\ req'[t] = NoRequest /\ \A u \in Tab \ {t} : req'[u] = req[u]
  BY EndsTyped
<1>2. ~req'[t].sure /\ ~InFlight(t)' /\ req'[t].phase = "none"
  BY <1>1 DEF NoRequest, InFlight
<1>3. AnySure' => AnySure  BY <1>1, <1>2 DEF AnySure
<1>4. CookieStays'  BY <1>1, <1>2, <1>3 DEF CookieStays, InFlight
<1>5. PagesFit'  BY <1>3 DEF PagesFit, AnySure
<1>6. RequestsFit'
  BY <1>1, <1>2 DEF RequestsFit, AnySure, Pending, Arrived, InFlight
<1>7. AnswersFit'  BY <1>1, <1>2 DEF AnswersFit, Arrived
<1>8. SureFormsPass'  BY <1>1, <1>2 DEF SureFormsPass, Arrived
<1>9. ReadsHold'  BY <1>1, <1>2 DEF ReadsHold, rows
<1>10. QED  BY <1>4, <1>5, <1>6, <1>7, <1>8, <1>9

\* A request is sent with the cookies of the moment.
LEMMA AsksKeeps ==
  ASSUME TypeOK, Carried, NEW t \in Tab, NEW r \in Request,
         req' = [req EXCEPT ![t] = r], UNCHANGED <<tab, rows>>,
         r.phase = "sent",
         AnySure => jar'.csrf = jar.csrf /\ r.kind # "link",
         r.csrf = IF r.kind = "link" THEN None ELSE jar'.csrf,
         r.sure => r.kind # "link" /\ (AnySure \/ Settled(t, jar')),
         r.sure /\ r.kind \in Unsafe => r.token = jar'.csrf
  PROVE  Carried'
<1> USE DEF Carried
<1>1. /\ req'[t] = r /\ \A u \in Tab \ {t} : req'[u] = req[u]  BY DEF TypeOK
<1>2. AnySure' => AnySure \/ (r.sure /\ Settled(t, jar'))  BY <1>1 DEF AnySure
<1>3. CookieStays'
  BY <1>1, <1>2 DEF CookieStays, InFlight, Settled
<1>4. PagesFit'  BY DEF PagesFit, AnySure
<1>5. RequestsFit'
  <2> SUFFICES ASSUME NEW u \in Tab
               PROVE  /\ req'[u].sure => InFlight(u)' /\ req'[u].csrf = jar'.csrf
                      /\ req'[u].sure /\ req'[u].kind \in Unsafe /\ Pending(u)'
                           => req'[u].token = jar'.csrf
                      /\ InFlight(u)' /\ req'[u].kind = "link" => req'[u].csrf = None
    BY DEF RequestsFit
  <2>1. CASE u = t  BY <1>1, <2>1 DEF InFlight
  <2>2. CASE u # t
    BY <1>1, <2>2 DEF RequestsFit, AnySure, Pending, Arrived, InFlight
  <2>3. QED  BY <2>1, <2>2
<1>6. AnswersFit'  BY <1>1 DEF AnswersFit, Arrived
<1>7. SureFormsPass'  BY <1>1 DEF SureFormsPass, Arrived
<1>8. ReadsHold'  BY <1>1 DEF ReadsHold, rows
<1>9. QED  BY <1>3, <1>4, <1>5, <1>6, <1>7, <1>8

\* While anything is sure no link from elsewhere is under way.
LEMMA NoLink ==
  ASSUME CookieStays, RequestsFit, NEW t \in Tab, InFlight(t), req[t].kind = "link"
  PROVE  ~AnySure
BY DEF CookieStays, RequestsFit

LEMMA OpenKeeps ==
  ASSUME TypeOK, Carried, NEW t \in Tab, NEW kind \in Kind, Open(t, kind)
  PROVE  TypeOK' /\ Carried'
<1> DEFINE r == Asks(t, kind, jar)
<1>1. /\ r \in Request /\ r.phase = "sent" /\ r.kind = kind
      /\ r.csrf = IF kind = "link" THEN None ELSE jar.csrf
      /\ r.sure <=> kind # "link" /\ Settled(t, jar)
  BY AsksTyped DEF TypeOK
<1>2. kind # "link" /\ kind \notin Unsafe /\ UNCHANGED jar  BY DEF Open
<1>3. /\ req' = [req EXCEPT ![t] = r]
      /\ UNCHANGED <<usage, jar, generated, written, tab, owed, rows>>
  BY DEF Open
<1>4. Settled(t, jar) => Settled(t, jar')  BY <1>3
<1> HIDE DEF r
<1>5. Carried'  BY <1>1, <1>2, <1>3, <1>4, AsksKeeps
<1>6. TypeOK'  BY <1>1, <1>3 DEF TypeOK, rows
<1>7. QED  BY <1>5, <1>6

LEMMA SubmitKeeps ==
  ASSUME TypeOK, Carried, NEW t \in Tab, NEW kind \in Kind, NEW form \in Form,
         Submit(t, kind, form)
  PROVE  TypeOK' /\ Carried'
<1> DEFINE r == Asks(t, kind, jar)
           sure == Source(kind) \in tab[t].sure
           s == [r EXCEPT !.token = tab[t][Source(kind)], !.form = form, !.sure = sure]
<1>1. /\ r \in Request /\ r.phase = "sent" /\ r.kind = kind
      /\ r.csrf = IF kind = "link" THEN None ELSE jar.csrf
  BY AsksTyped DEF TypeOK
<1>2. kind # "link" /\ Source(kind) \in {"meta", "field"}  BY DEF Submit, Unsafe, Source
<1>3. /\ req' = [req EXCEPT ![t] = s]
      /\ UNCHANGED <<usage, jar, generated, written, tab, owed, rows>>
  BY DEF Submit
<1>4. tab[t] \in Sheet  BY DEF TypeOK
<1>5. tab[t][Source(kind)] \in Maybe(Token)  BY <1>2, <1>4 DEF Sheet
<1>6. sure => AnySure /\ tab[t][Source(kind)] = jar.csrf
  BY <1>2, <1>4 DEF AnySure, Carried, PagesFit, Sheet
<1>7. sure \in BOOLEAN  OBVIOUS
<1>8. form \in Maybe(Form)  BY DEF Maybe
<1> HIDE DEF r, sure
<1>9. /\ s \in Request /\ s.phase = "sent" /\ s.kind = kind /\ s.csrf = r.csrf
      /\ s.token = tab[t][Source(kind)] /\ s.sure = sure
  BY <1>1, <1>5, <1>7, <1>8 DEF Request
<1> HIDE DEF s
<1>10. s.sure => s.kind # "link" /\ (AnySure \/ Settled(t, jar'))  BY <1>2, <1>6, <1>9
<1>11. s.sure /\ s.kind \in Unsafe => s.token = jar'.csrf  BY <1>3, <1>6, <1>9
<1>12. Carried'  BY <1>1, <1>2, <1>3, <1>9, <1>10, <1>11, AsksKeeps
<1>13. TypeOK'  BY <1>3, <1>9 DEF TypeOK, rows
<1>14. QED  BY <1>12, <1>13

LEMMA ShowPageKeeps ==
  ASSUME TypeOK, Carried, NEW t \in Tab, ShowPage(t)
  PROVE  TypeOK' /\ Carried'
<1> DEFINE q == req[t]
           kept == IF q.kind = "boost" THEN tab[t].sure \cap {"meta"} ELSE {}
           new == IF ~q.sure THEN {}
                  ELSE IF q.kind = "boost" THEN {"field"} ELSE {"meta", "field"}
           sheet == [meta  |-> IF q.kind = "boost" THEN tab[t].meta ELSE q.answer.token,
                     field |-> q.answer.token, sure |-> kept \cup new]
<1>1. /\ Arrived(t, "page") /\ Takes(t, None) /\ Ends(t)
      /\ tab' = [tab EXCEPT ![t] = sheet]
      /\ UNCHANGED <<usage, generated, written, rows>>
  BY DEF ShowPage
<1>2. q \in Request /\ q.answer \in Answer /\ tab[t] \in Sheet  BY DEF TypeOK, Request
<1>3. sheet \in Sheet  BY <1>2 DEF Sheet, Answer, Maybe
<1>4. /\ sheet.sure = kept \cup new /\ sheet.field = q.answer.token
      /\ sheet.meta = IF q.kind = "boost" THEN tab[t].meta ELSE q.answer.token
  OBVIOUS
<1>5. sheet.sure # {} => AnySure  BY <1>4 DEF AnySure
<1>6. /\ AnySure => jar'.csrf = jar.csrf
      /\ jar' \in Jar /\ owed' \in [Tab -> Maybe(Message)]
  BY <1>1, DueTyped, TakesTyped DEF Arrived
<1>7. q.sure => q.answer.token = jar.csrf
  BY <1>1 DEF Carried, RequestsFit, AnswersFit, CookieStays, AnySure, Arrived, InFlight
<1>8. "meta" \in sheet.sure => sheet.meta = jar.csrf
  <2>1. CASE q.kind = "boost"
    <3>1. "meta" \in sheet.sure => "meta" \in tab[t].sure  BY <1>4, <2>1
    <3>2. QED  BY <1>4, <2>1, <3>1 DEF Carried, PagesFit
  <2>2. CASE q.kind # "boost"  BY <1>4, <1>7, <2>2
  <2>3. QED  BY <2>1, <2>2
<1>9. "field" \in sheet.sure => sheet.field = jar.csrf
  <2>1. "field" \in sheet.sure => q.sure  BY <1>4
  <2>2. QED  BY <1>4, <1>7, <2>1
<1> HIDE DEF sheet
<1>10. tab'[t] = sheet /\ \A u \in Tab \ {t} : tab'[u] = tab[u]  BY <1>1 DEF TypeOK
<1>11. Carried'  BY <1>1, <1>5, <1>6, <1>8, <1>9, <1>10, EndsKeeps
<1>12. TypeOK'
  <2>1. tab' \in [Tab -> Sheet]  BY <1>1, <1>3 DEF TypeOK
  <2>2. QED  BY <1>1, <1>6, <2>1, EndsTyped DEF TypeOK, rows
<1>13. QED  BY <1>11, <1>12

LEMMA ShowRefusalKeeps ==
  ASSUME TypeOK, Carried, NEW t \in Tab, ShowRefusal(t)
  PROVE  TypeOK' /\ Carried'
<1>1. Ends(t) /\ Forgets(t) /\ UNCHANGED <<usage, jar, generated, written, rows>>
  BY DEF ShowRefusal
<1> DEFINE sheet == [meta |-> req[t].answer.token, field |-> req[t].answer.token, sure |-> {}]
<1>2. sheet \in Sheet /\ sheet.sure = {}
  <2>1. req[t].answer \in Answer  BY DEF TypeOK, Request
  <2>2. QED  BY <2>1 DEF Sheet, Answer
<1>3. \/ UNCHANGED tab
      \/ tab' = [tab EXCEPT ![t] = sheet]
  BY DEF ShowRefusal
<1> HIDE DEF sheet
<1>4. /\ tab' \in [Tab -> Sheet] /\ \A u \in Tab \ {t} : tab'[u] = tab[u]
      /\ tab'[t] = tab[t] \/ tab'[t].sure = {}
  BY <1>2, <1>3 DEF TypeOK
<1>5. Carried'
  <2>1. tab'[t].sure # {} => AnySure  BY <1>4 DEF AnySure
  <2>2. "meta" \in tab'[t].sure => tab'[t].meta = jar'.csrf
    BY <1>1, <1>4 DEF Carried, PagesFit
  <2>3. "field" \in tab'[t].sure => tab'[t].field = jar'.csrf
    BY <1>1, <1>4 DEF Carried, PagesFit
  <2>4. QED  BY <1>1, <1>4, <2>1, <2>2, <2>3, EndsKeeps
<1>6. TypeOK'  BY <1>1, <1>4, EndsTyped, ForgetsTyped DEF TypeOK, rows
<1>7. QED  BY <1>5, <1>6

\* The ways a request ends without a page.
LEMMA EndingKeeps ==
  ASSUME TypeOK, Carried, NEW t \in Tab, ShowNothing(t) \/ TakeHxRedirect(t) \/ Lose(t)
  PROVE  TypeOK' /\ Carried'
<1>1. Ends(t) /\ UNCHANGED <<usage, generated, written, tab, rows>>
  BY DEF ShowNothing, TakeHxRedirect, Lose
<1>2. /\ jar' \in Jar /\ owed' \in [Tab -> Maybe(Message)]
      /\ AnySure => jar'.csrf = jar.csrf
  <2>1. CASE ShowNothing(t)
    BY <2>1, DueTyped, TakesTyped DEF ShowNothing, Arrived
  <2>2. CASE TakeHxRedirect(t)
    BY <2>2, DueTyped, TakesTyped DEF TakeHxRedirect, Arrived
  <2>3. CASE Lose(t)  BY <2>3, ForgetsTyped DEF Lose, TypeOK
  <2>4. QED  BY <2>1, <2>2, <2>3
<1>3. Carried'
  <2>1. tab'[t].sure # {} => AnySure  BY <1>1 DEF AnySure
  <2>2. /\ "meta" \in tab'[t].sure => tab'[t].meta = jar'.csrf
        /\ "field" \in tab'[t].sure => tab'[t].field = jar'.csrf
    BY <1>1, <1>2, <2>1 DEF Carried, PagesFit
  <2>3. QED  BY <1>1, <1>2, <2>1, <2>2, EndsKeeps
<1>4. TypeOK'  BY <1>1, <1>2, EndsTyped DEF TypeOK, rows
<1>5. QED  BY <1>3, <1>4

LEMMA FollowKeeps ==
  ASSUME TypeOK, Carried, NEW t \in Tab, Follow(t)
  PROVE  /\ TypeOK' /\ Carried'
         /\ req'[t].phase = "sent" /\ req'[t].flash = jar'.flash
         /\ \A u \in Tab \ {t} : req'[u] = req[u]
<1> DEFINE kind == IF req[t].kind = "form" THEN "page" ELSE req[t].kind
           r == Asks(t, kind, jar')
<1>1. /\ Arrived(t, "redirect") /\ req[t].kind # "hxform"
      /\ Takes(t, Due(t)) /\ req' = [req EXCEPT ![t] = r]
      /\ UNCHANGED <<usage, generated, written, tab, rows>>
  BY DEF Follow
<1>2. /\ kind \in Kind \ Unsafe /\ (kind = "link" => req[t].kind = "link")
  <2>1. req[t].kind \in Kind  BY DEF TypeOK, Request
  <2>2. QED  BY <1>1, <2>1 DEF Kind, Unsafe
<1> HIDE DEF kind
<1>3. /\ jar' \in Jar /\ owed' \in [Tab -> Maybe(Message)]
      /\ AnySure => jar'.csrf = jar.csrf
  BY <1>1, DueTyped, TakesTyped DEF Arrived
<1>4. /\ r \in Request /\ r.phase = "sent" /\ r.kind = kind /\ r.flash = jar'.flash
      /\ r.csrf = IF kind = "link" THEN None ELSE jar'.csrf
      /\ r.sure <=> kind # "link" /\ Settled(t, jar')
  BY <1>2, <1>3, AsksTyped
<1> HIDE DEF r
<1>5. AnySure => kind # "link"
  BY <1>1, <1>2, NoLink DEF Carried, Arrived, InFlight
<1>6. Carried'  BY <1>1, <1>2, <1>3, <1>4, <1>5, AsksKeeps
<1>7. TypeOK'  BY <1>1, <1>3, <1>4 DEF TypeOK, rows
<1>8. QED  BY <1>1, <1>4, <1>6, <1>7 DEF TypeOK

LEMMA ResendKeeps ==
  ASSUME TypeOK, Carried, NEW t \in Tab, Resend(t)
  PROVE  /\ TypeOK' /\ Carried'
         /\ req'[t].flash = jar'.flash /\ \A u \in Tab \ {t} : req'[u] = req[u]
<1> DEFINE q == req[t]
           r == Asks(t, q.kind, jar')
           s == [r EXCEPT !.token = q.token, !.form = q.form,
                          !.sure = IF q.kind \in Unsafe THEN q.sure ELSE r.sure]
<1>1. /\ Arrived(t, "again") /\ Takes(t, None) /\ req' = [req EXCEPT ![t] = s]
      /\ UNCHANGED <<usage, generated, written, tab, rows>>
  BY DEF Resend
<1>2. /\ jar' \in Jar /\ owed' \in [Tab -> Maybe(Message)]
      /\ AnySure => jar'.csrf = jar.csrf
  BY <1>1, DueTyped, TakesTyped DEF Arrived
<1>3. q \in Request  BY DEF TypeOK
<1>4. /\ r \in Request /\ r.phase = "sent" /\ r.kind = q.kind /\ r.flash = jar'.flash
      /\ r.csrf = IF q.kind = "link" THEN None ELSE jar'.csrf
      /\ r.sure <=> q.kind # "link" /\ Settled(t, jar')
  <2>1. q.kind \in Kind  BY <1>3 DEF Request
  <2>2. QED  BY <1>2, <2>1, AsksTyped
<1> HIDE DEF r
<1>5. /\ s \in Request /\ s.phase = "sent" /\ s.kind = q.kind /\ s.csrf = r.csrf
      /\ s.flash = jar'.flash
      /\ s.token = q.token /\ s.sure = IF q.kind \in Unsafe THEN q.sure ELSE r.sure
  BY <1>3, <1>4 DEF Request
<1>6. AnySure => q.kind # "link"  BY <1>1, NoLink DEF Carried, Arrived, InFlight
<1>7. q.sure => AnySure  BY DEF AnySure
<1>8. q.sure /\ q.kind \in Unsafe => q.token = jar.csrf
  BY <1>1 DEF Carried, RequestsFit, Pending
<1> HIDE DEF s, q
<1>9. s.sure => s.kind # "link" /\ (AnySure \/ Settled(t, jar'))
  BY <1>4, <1>5, <1>6, <1>7 DEF Unsafe
<1>10. s.sure /\ s.kind \in Unsafe => s.token = jar'.csrf
  BY <1>2, <1>5, <1>7, <1>8
<1>11. Carried'  BY <1>1, <1>2, <1>4, <1>5, <1>6, <1>9, <1>10, AsksKeeps
<1>12. TypeOK'  BY <1>1, <1>2, <1>5 DEF TypeOK, rows
<1>13. QED  BY <1>1, <1>5, <1>11, <1>12 DEF TypeOK

\* From here on nothing is sure.
LEMMA NothingSure ==
  ASSUME Carried, \A t \in Tab : tab'[t].sure = {} /\ ~req'[t].sure,
         UNCHANGED rows,
         \A t \in Tab : \/ req'[t].phase = "none"
                        \/ /\ req'[t].phase = "sent"
                           /\ req'[t].kind = "link" => req'[t].csrf = None
                        \/ /\ req'[t].phase = req[t].phase /\ req'[t].kind = req[t].kind
                           /\ req'[t].csrf = req[t].csrf /\ req'[t].flash = req[t].flash
                           /\ req'[t].answer = req[t].answer /\ req'[t].form = req[t].form
                           /\ req'[t].seen = req[t].seen
  PROVE  Carried'
<1> USE DEF Carried
<1>1. CookieStays' /\ PagesFit'  BY DEF CookieStays, AnySure, PagesFit
<1>2. RequestsFit'  BY DEF RequestsFit, InFlight
<1>3. AnswersFit'  BY DEF AnswersFit, Arrived
<1>4. SureFormsPass'  BY DEF SureFormsPass
<1>5. ReadsHold'  BY DEF ReadsHold, rows
<1>6. QED  BY <1>1, <1>2, <1>3, <1>4, <1>5

LEMMA FollowLinkKeeps ==
  ASSUME TypeOK, Carried, NEW t \in Tab, FollowLink(t)
  PROVE  /\ TypeOK' /\ Carried' /\ UNCHANGED <<jar, owed>>
         /\ req'[t].flash = jar.flash
         /\ \A u \in Tab \ {t} : req'[u].phase = req[u].phase /\ req'[u].flash = req[u].flash
                                 /\ req'[u].answer = req[u].answer
         /\ ~InFlight(t) /\ InFlight(t)'
<1> DEFINE r == Asks(t, "link", jar)
<1>1. /\ r \in Request /\ r.phase = "sent" /\ r.kind = "link" /\ r.csrf = None
      /\ ~r.sure /\ r.flash = jar.flash
  BY AsksTyped DEF TypeOK, Kind
<1>2. /\ req' = [u \in Tab |-> IF u = t THEN r ELSE [req[u] EXCEPT !.sure = FALSE]]
      /\ tab' = [u \in Tab |-> [tab[u] EXCEPT !.sure = {}]]
      /\ UNCHANGED <<usage, jar, generated, written, owed, rows>>
  BY DEF FollowLink
<1> HIDE DEF r
<1>3. req'[t] = r  BY <1>2
<1>4. \A u \in Tab \ {t} :
        /\ req'[u] \in Request /\ req'[u].phase = req[u].phase /\ req'[u].kind = req[u].kind
        /\ req'[u].csrf = req[u].csrf /\ req'[u].flash = req[u].flash
        /\ req'[u].answer = req[u].answer /\ req'[u].form = req[u].form
        /\ req'[u].seen = req[u].seen /\ ~req'[u].sure
  BY <1>2 DEF TypeOK, Request
<1>5. \A u \in Tab : tab'[u].sure = {}  BY <1>2 DEF TypeOK, Sheet
<1>6. Carried'
  <2>1. \A u \in Tab : ~req'[u].sure  BY <1>1, <1>3, <1>4
  <2>2. \A u \in Tab : \/ req'[u].phase = "none"
                       \/ /\ req'[u].phase = "sent"
                          /\ req'[u].kind = "link" => req'[u].csrf = None
                       \/ /\ req'[u].phase = req[u].phase /\ req'[u].kind = req[u].kind
                          /\ req'[u].csrf = req[u].csrf /\ req'[u].flash = req[u].flash
                          /\ req'[u].answer = req[u].answer /\ req'[u].form = req[u].form
                          /\ req'[u].seen = req[u].seen
    BY <1>1, <1>3, <1>4
  <2>3. QED  BY <1>2, <1>5, <2>1, <2>2, NothingSure
<1>7. TypeOK'
  <2>1. req' \in [Tab -> Request]  BY <1>1, <1>2, <1>3, <1>4
  <2>2. tab' \in [Tab -> Sheet]  BY <1>2 DEF TypeOK, Sheet
  <2>3. QED  BY <1>2, <2>1, <2>2 DEF TypeOK, rows
<1>8. QED  BY <1>1, <1>2, <1>3, <1>4, <1>6, <1>7 DEF FollowLink, InFlight

LEMMA RestartKeeps ==
  ASSUME TypeOK, Carried, Restart
  PROVE  TypeOK' /\ Carried' /\ OwedIsCarried'
<1>1. /\ jar' = [jar EXCEPT !.csrf = None] /\ req' = [t \in Tab |-> NoRequest]
      /\ owed' = [t \in Tab |-> None] /\ UNCHANGED <<usage, generated, written, rows>>
  BY DEF Restart
<1>2. PICK kept \in SUBSET Tab :
        tab' = [t \in Tab |-> IF t \in kept THEN [tab[t] EXCEPT !.sure = {}] ELSE Blank]
  BY DEF Restart
<1>3. Blank \in Sheet /\ Blank.sure = {}  BY DEF Blank, Sheet, Maybe
<1>4. tab' \in [Tab -> Sheet] /\ \A t \in Tab : tab'[t].sure = {}
  BY <1>2, <1>3 DEF TypeOK, Sheet
<1>5. NoRequest.phase = "none" /\ ~NoRequest.sure  BY DEF NoRequest
<1>6. \A t \in Tab : req'[t].phase = "none" /\ ~req'[t].sure  BY <1>1, <1>5
<1>7. Carried'  BY <1>1, <1>4, <1>6, NothingSure
<1>8. TypeOK'
  <2>1. jar' \in Jar  BY <1>1 DEF TypeOK, Jar, Maybe
  <2>2. QED  BY <1>1, <1>4, <2>1, NoRequestTyped DEF TypeOK, rows, Maybe
<1>9. OwedIsCarried'  BY <1>1 DEF OwedIsCarried
<1>10. QED  BY <1>7, <1>8, <1>9

LEMMA ExpireKeeps ==
  ASSUME TypeOK, Carried, OwedIsCarried, Expire
  PROVE  TypeOK' /\ Carried' /\ OwedIsCarried'
<1>1. /\ jar' = [jar EXCEPT !.flash = None]
      /\ owed' = [t \in Tab |-> IF InFlight(t) THEN owed[t] ELSE None]
      /\ UNCHANGED <<usage, generated, written, tab, req, rows>>
  BY DEF Expire
<1>2. jar' \in Jar /\ jar'.csrf = jar.csrf  BY <1>1 DEF TypeOK, Jar, Maybe
<1>3. TypeOK'  BY <1>1, <1>2 DEF TypeOK, rows, Maybe
<1>4. AnySure' = AnySure  BY <1>1 DEF AnySure
<1>5. Carried'
  BY <1>1, <1>2, <1>4
  DEF Carried, CookieStays, PagesFit, RequestsFit, AnswersFit, SureFormsPass, ReadsHold,
      rows, InFlight, Pending, Arrived
<1>6. OwedIsCarried'  BY <1>1 DEF OwedIsCarried, InFlight
<1>7. QED  BY <1>3, <1>5, <1>6

\* What an ending, a sending and a following request owe.
LEMMA BrowseKeepsOwed ==
  ASSUME TypeOK, Carried, OwedIsCarried, NEW t \in Tab, Browse(t)
  PROVE  OwedIsCarried'
<1>1. ASSUME NEW due \in {None, Due(t)}, req[t].phase = "answered", Takes(t, due), Ends(t)
      PROVE  OwedIsCarried'
  <2>1. ~InFlight(t)' /\ \A u \in Tab \ {t} : req'[u] = req[u]
    BY <1>1, EndsTyped DEF InFlight, NoRequest
  <2>2. QED  BY <1>1, <2>1, TakesKeepsOwed DEF Carried
<1>2. CASE ShowPage(t)  BY <1>1, <1>2 DEF ShowPage, Arrived
<1>3. CASE ShowNothing(t)  BY <1>1, <1>3 DEF ShowNothing, Arrived
<1>4. CASE TakeHxRedirect(t)  BY <1>1, <1>4 DEF TakeHxRedirect, Arrived
<1>5. CASE ShowRefusal(t) \/ Lose(t)
  <2>1. Ends(t) /\ Forgets(t) /\ UNCHANGED jar  BY <1>5 DEF ShowRefusal, Lose
  <2>2. QED  BY <2>1, EndsTyped, ForgetsTyped DEF OwedIsCarried, InFlight
<1>6. ASSUME ~InFlight(t), UNCHANGED <<jar, owed>>, req'[t].flash = jar.flash,
             \A u \in Tab \ {t} : req'[u].phase = req[u].phase /\ req'[u].flash = req[u].flash
      PROVE  OwedIsCarried'
  BY <1>6 DEF OwedIsCarried, InFlight
<1>7. CASE FollowLink(t)  BY <1>6, <1>7, FollowLinkKeeps
<1>8. CASE \E kind \in Kind : Open(t, kind)
  <2>1. PICK kind \in Kind : Open(t, kind)  BY <1>8
  <2>2. Asks(t, kind, jar).flash = jar.flash  BY AsksTyped DEF TypeOK
  <2>3. QED  BY <1>6, <2>1, <2>2 DEF Open, TypeOK
<1>9. CASE \E kind \in Kind, form \in Form : Submit(t, kind, form)
  <2>1. PICK kind \in Kind, form \in Form : Submit(t, kind, form)  BY <1>9
  <2> DEFINE r == Asks(t, kind, jar)
             sure == Source(kind) \in tab[t].sure
             s == [r EXCEPT !.token = tab[t][Source(kind)], !.form = form, !.sure = sure]
  <2>2. r \in Request /\ r.flash = jar.flash  BY AsksTyped DEF TypeOK
  <2>3. req' = [req EXCEPT ![t] = s]  BY <2>1 DEF Submit
  <2> HIDE DEF r, sure
  <2>4. s.flash = jar.flash  BY <2>2 DEF Request
  <2> HIDE DEF s
  <2>5. QED  BY <1>6, <2>1, <2>3, <2>4 DEF Submit, TypeOK
<1>10. CASE Follow(t)
  <2>1. /\ req'[t].phase = "sent" /\ req'[t].flash = jar'.flash
        /\ \A u \in Tab \ {t} : req'[u] = req[u]
    BY <1>10, FollowKeeps
  <2>2. req[t].phase = "answered" /\ Takes(t, Due(t))  BY <1>10 DEF Follow, Arrived
  <2>3. QED  BY <2>1, <2>2, TakesKeepsOwed DEF Carried
<1>11. CASE Resend(t)
  <2>1. /\ req[t].phase = "answered" /\ Takes(t, None)
        /\ req'[t].flash = jar'.flash /\ \A u \in Tab \ {t} : req'[u] = req[u]
    BY <1>11, ResendKeeps DEF Resend, Arrived
  <2>2. QED  BY <2>1, TakesKeepsOwed DEF Carried
<1>12. QED
  BY <1>2, <1>3, <1>4, <1>5, <1>7, <1>8, <1>9, <1>10, <1>11 DEF Browse

LEMMA BrowseKeeps ==
  ASSUME TypeOK, Carried, NEW t \in Tab, Browse(t)
  PROVE  TypeOK' /\ Carried' /\ UNCHANGED rows
<1>1. UNCHANGED rows
  BY DEF Browse, Open, FollowLink, Submit, ShowPage, ShowRefusal, ShowNothing, Follow,
         TakeHxRedirect, Resend, Lose, rows
<1>2. QED
  BY <1>1, OpenKeeps, FollowLinkKeeps, SubmitKeeps, ShowPageKeeps, ShowRefusalKeeps,
     EndingKeeps, FollowKeeps, ResendKeeps DEF Browse

-----------------------------------------------------------------------------
(* The invariant and what follows from it *)

LEMMA InitInv == Init => IInv
<1> SUFFICES ASSUME Init PROVE IInv  OBVIOUS
<1>1. PICK token \in IF usage.visited THEN Token ELSE {None} :
        /\ jar = [csrf |-> token, flash |-> None] /\ generated = {token} \ {None}
        /\ tab = [t \in Tab |-> [meta |-> token, field |-> token, sure |-> {}]]
  BY DEF Init
<1>2. token \in Maybe(Token)
  <2>1. CASE usage.visited  BY <1>1, <2>1 DEF Maybe
  <2>2. CASE ~usage.visited  BY <1>1, <2>2 DEF Maybe
  <2>3. QED  BY <2>1, <2>2
<1>3. req = [t \in Tab |-> NoRequest] /\ owed = [t \in Tab |-> None] /\ written = {}
      /\ user = NewUser /\ said = NewUser /\ overlapped = {} /\ usage \in Usages
  BY DEF Init
<1>4. NewUser \in Row
  BY PagesConstants DEF NewUser, Row, Column
<1>5. TypeOK
  <2>1. jar \in Jar /\ generated \subseteq Token  BY <1>1, <1>2 DEF Jar, Maybe
  <2>2. tab \in [Tab -> Sheet]  BY <1>1, <1>2 DEF Sheet
  <2>3. owed \in [Tab -> Maybe(Message)]  BY <1>3 DEF Maybe
  <2>4. QED  BY <1>3, <1>4, <2>1, <2>2, <2>3, NoRequestTyped DEF TypeOK
<1>6. \A t \in Tab : req[t].phase = "none" /\ ~req[t].sure /\ tab[t].sure = {}
  BY <1>1, <1>3 DEF NoRequest
<1>7. ~AnySure  BY <1>6 DEF AnySure
<1>8. /\ CookieStays /\ PagesFit /\ RequestsFit /\ AnswersFit /\ ReadsHold /\ SureFormsPass
  BY <1>6, <1>7 DEF CookieStays, PagesFit, RequestsFit, AnswersFit, ReadsHold,
                    SureFormsPass, InFlight, Arrived
<1>9. OwedIsCarried /\ RowIsLastForm  BY <1>3 DEF OwedIsCarried, RowIsLastForm
<1>10. QED  BY <1>5, <1>8, <1>9 DEF IInv

LEMMA NextInv == IInv /\ [Next]_vars => IInv'
<1> SUFFICES ASSUME IInv, [Next]_vars PROVE IInv'  OBVIOUS
<1>1. TypeOK /\ Carried /\ OwedIsCarried /\ RowIsLastForm  BY DEF IInv, Carried
<1>2. ASSUME TypeOK', Carried', OwedIsCarried', RowIsLastForm' PROVE IInv'
  BY <1>2 DEF IInv, Carried
<1>3. CASE \E t \in Tab : Browse(t)
  <2>1. TypeOK' /\ Carried' /\ UNCHANGED rows /\ OwedIsCarried'
    BY <1>1, <1>3, BrowseKeeps, BrowseKeepsOwed
  <2>2. RowIsLastForm'  BY <1>1, <2>1 DEF rows, RowIsLastForm
  <2>3. QED  BY <1>2, <2>1, <2>2
<1>4. ASSUME NEW t \in Tab, Serve(t) PROVE IInv'
  <2>1. TypeOK'  BY <1>1, <1>4, ServeTypes DEF Carried
  <2>2. Carried' /\ RowIsLastForm'
    BY <1>1, <1>4, ServeKeepsTokens, ServeKeepsRows DEF Carried
  <2>3. OwedIsCarried'  BY <1>1, <1>4, ServeKeepsOwed
  <2>4. QED  BY <1>2, <2>1, <2>2, <2>3
<1>5. CASE Expire
  <2>1. RowIsLastForm'  BY <1>1, <1>5 DEF Expire, rows, RowIsLastForm
  <2>2. QED  BY <1>1, <1>2, <1>5, <2>1, ExpireKeeps
<1>6. CASE Restart
  <2>1. RowIsLastForm'  BY <1>1, <1>6 DEF Restart, rows, RowIsLastForm
  <2>2. QED  BY <1>1, <1>2, <1>6, <2>1, RestartKeeps
<1>7. CASE UNCHANGED vars
  BY <1>7 DEF vars, rows, IInv, TypeOK, CookieStays, AnySure, PagesFit, RequestsFit,
              AnswersFit, OwedIsCarried, ReadsHold, SureFormsPass, RowIsLastForm,
              InFlight, Pending, Arrived
<1>8. QED  BY <1>3, <1>4, <1>5, <1>6, <1>7 DEF Next

THEOREM Invariant == Spec => []IInv
BY InitInv, NextInv, PTL DEF Spec

\* Cookies, pages, requests and the row have the forms the code gives them.
THEOREM TypeCorrect == Spec => []TypeOK
<1>1. IInv => TypeOK  BY DEF IInv
<1>2. QED  BY <1>1, Invariant, PTL

\* However many tabs ask, answer late and lose answers: no form is refused whose
\* token came with a page that was asked for when the cookie had settled.
THEOREM SureFormsAreNotRefused == Spec => []SureFormsPass
<1>1. IInv => SureFormsPass  BY DEF IInv
<1>2. QED  BY <1>1, Invariant, PTL

\* The page a tab loads after a redirect shows its message, whatever other tabs
\* delete while that page is under way; for a form sent by htmx, as long as no other
\* tab takes or replaces the message before the script asks for the page.
THEOREM MessagesAreShown == Spec => []FollowUpTells
<1>1. IInv => FollowUpTells
  BY DEF IInv, OwedIsCarried, AnswersFit, Arrived, InFlight, FollowUpTells
<1>2. QED  BY <1>1, Invariant, PTL

\* Forms of one kind saved one after the other leave what the last of them said.
THEOREM LastFormIsKept == Spec => []RowIsLastForm
<1>1. IInv => RowIsLastForm  BY DEF IInv
<1>2. QED  BY <1>1, Invariant, PTL
=============================================================================
