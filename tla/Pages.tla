--------------------------------- MODULE Pages ---------------------------------
(***************************************************************************)
(* One browser with several tabs: the cookies csrf_token and flash_message   *)
(* that its tabs share and the middlewares of main.py read and write, the    *)
(* tokens its pages carry, and the forms about the user that are submitted   *)
(* from them.                                                                *)
(*                                                                          *)
(* A tab has one request in progress.  The cookies of a request are those of *)
(* the moment it is sent, and those of a response are stored the moment it   *)
(* arrives; in between other tabs send and receive.  A redirect is followed  *)
(* at once by the browser, and later by a script if htmx sent the request,   *)
(* for which the answer is not a redirect.  What an endpoint makes           *)
(* of a request that no form below describes is left open: it renders,       *)
(* redirects, asks for new tokens, or fails.  Tokens and messages are        *)
(* distinct and there are finitely many, which bounds the runs of TLC.       *)
(***************************************************************************)
EXTENDS Naturals, FiniteSets

CONSTANTS
  None,
  Tab,
  Token,    \* what generate_csrf_token returns
  Message,  \* what set_flash_cookie is given, each on one response
  Form,     \* the forms users submit
  Value,    \* what the columns of a user hold
  Usages    \* how the browser is used: kinds of requests, forms, whether it has
            \* been there before

\* Full page, link followed on another site (a mail), link of the header
\* (hx-boost), anything that renders no page (partial, picture, style sheet),
\* plain form, form sent by htmx
Kind == {"page", "link", "boost", "part", "form", "hxform"}
Unsafe == {"form", "hxform"}

\* The columns of User the forms of the profile page write, and the picture
Preferences == {"comm_opt_in", "comm_updates", "comm_marketing"}
Profile == {"name", "avatar"}
Column == Preferences \cup Profile
Fields == UNION {[S -> Value] : S \in SUBSET Column}
AboutUser == {"preferences", "profile"}

ASSUME PagesConstants ==
  /\ None \notin Token \cup Message \cup Form
  /\ None \in Value /\ BOOLEAN \subseteq Value
  /\ \A f \in Form :
       \/ /\ f.about = "preferences" /\ f.fields \in [Preferences -> BOOLEAN]
       \/ /\ f.about = "profile" /\ f.fields \in [Profile -> Value]
       \/ f.about = "other" /\ f.fields \in Fields
  /\ \A u \in Usages : /\ u.kinds \subseteq Kind /\ u.forms \subseteq Form
                       /\ u.visited \in BOOLEAN

VARIABLES
  usage,
  jar,        \* the cookies of the browser
  generated,  \* tokens that have been generated
  written,    \* messages that have been put on a response
  tab,        \* the page a tab shows: token of its head, token of its body, and
              \* which of the two were asked for when the cookie had settled
  req,        \* the request of a tab
  owed,       \* the message the next page of a tab has to show
  user,       \* the row of the user, with the avatar
  said,       \* what the last form saved said of a column
  overlapped  \* kinds of forms of which two were in progress at once

vars == <<usage, jar, generated, written, tab, req, owed, user, said, overlapped>>
rows == <<user, said, overlapped>>

Maybe(S) == S \cup {None}
Jar == [csrf : Maybe(Token), flash : Maybe(Message)]
Sheet == [meta : Maybe(Token), field : Maybe(Token), sure : SUBSET {"meta", "field"}]
Blank == [meta |-> None, field |-> None, sure |-> {}]

Body == {"page", "nothing", "refused", "redirect", "again"}
Answer == [body : Body, token : Maybe(Token), cookie : Maybe(Token),
           note : Maybe(Message), drops : BOOLEAN, shows : Maybe(Message)]
NoAnswer == [body |-> "nothing", token |-> None, cookie |-> None, note |-> None,
             drops |-> FALSE, shows |-> None]

Row == [Column -> Value]
Request == [phase : {"none", "sent", "loaded", "answered"}, kind : Kind,
            csrf : Maybe(Token), flash : Maybe(Message), token : Maybe(Token),
            sure : BOOLEAN, form : Maybe(Form), seen : Maybe(Row), answer : Answer]
NoRequest == [phase |-> "none", kind |-> "page", csrf |-> None, flash |-> None,
              token |-> None, sure |-> FALSE, form |-> None, seen |-> None,
              answer |-> NoAnswer]

TypeOK ==
  /\ usage \in Usages /\ jar \in Jar
  /\ generated \subseteq Token /\ written \subseteq Message
  /\ tab \in [Tab -> Sheet] /\ req \in [Tab -> Request]
  /\ owed \in [Tab -> Maybe(Message)]
  /\ user \in Row /\ said \in Row /\ overlapped \subseteq AboutUser

NewUser == [c \in Column |-> IF c \in Preferences THEN FALSE ELSE None]

\* A browser that comes for the first time, or one that has been there.
Init ==
  /\ usage \in Usages
  /\ \E token \in IF usage.visited THEN Token ELSE {None} :
       /\ jar = [csrf |-> token, flash |-> None]
       /\ generated = {token} \ {None}
       /\ tab = [t \in Tab |-> [meta |-> token, field |-> token, sure |-> {}]]
  /\ written = {}
  /\ req = [t \in Tab |-> NoRequest]
  /\ owed = [t \in Tab |-> None]
  /\ user = NewUser /\ said = NewUser /\ overlapped = {}

-----------------------------------------------------------------------------
(* The browser *)

InFlight(t) == req[t].phase # "none"

\* There is a cookie, and no other tab waits for an answer to a request that
\* was sent without one.
Settled(t, cookies) ==
  /\ cookies.csrf # None
  /\ \A u \in Tab \ {t} : InFlight(u) => req[u].csrf # None

\* csrf_token is SameSite=Strict: another site's link comes without it.
Asks(t, kind, cookies) ==
  [NoRequest EXCEPT !.phase = "sent", !.kind = kind,
                    !.csrf = IF kind = "link" THEN None ELSE cookies.csrf,
                    !.flash = cookies.flash,
                    !.sure = kind # "link" /\ Settled(t, cookies)]

Open(t, kind) ==
  /\ ~InFlight(t) /\ kind \in usage.kinds \ (Unsafe \cup {"link"})
  /\ kind = "boost" => tab[t].field # None
  /\ req' = [req EXCEPT ![t] = Asks(t, kind, jar)]
  /\ UNCHANGED <<usage, jar, generated, written, tab, owed, rows>>

\* The answer will replace the cookie: nothing that was asked for is sure now.
FollowLink(t) ==
  /\ ~InFlight(t) /\ "link" \in usage.kinds
  /\ req' = [u \in Tab |-> IF u = t THEN Asks(t, "link", jar)
                           ELSE [req[u] EXCEPT !.sure = FALSE]]
  /\ tab' = [u \in Tab |-> [tab[u] EXCEPT !.sure = {}]]
  /\ UNCHANGED <<usage, jar, generated, written, owed, rows>>

\* htmx sends the token of the head (app.js), and a header is read before a
\* field; a plain form has the field only.
Source(kind) == IF kind = "hxform" THEN "meta" ELSE "field"

Submit(t, kind, form) ==
  LET source == Source(kind)
  IN  /\ ~InFlight(t) /\ kind \in usage.kinds \cap Unsafe /\ tab[t].field # None
      /\ form \in usage.forms
      /\ req' = [req EXCEPT ![t] =
           [Asks(t, kind, jar) EXCEPT !.token = tab[t][source], !.form = form,
                                      !.sure = source \in tab[t].sure]]
      /\ UNCHANGED <<usage, jar, generated, written, tab, owed, rows>>

\* Set-Cookie headers apply in their order: the middleware's deletion is last.
Stored(a) == [csrf  |-> IF a.cookie # None THEN a.cookie ELSE jar.csrf,
              flash |-> IF a.drops THEN None
                        ELSE IF a.note # None THEN a.note ELSE jar.flash]

Arrived(t, body) == req[t].phase = "answered" /\ req[t].answer.body = body
Ends(t) == req' = [req EXCEPT ![t] = NoRequest]
Forgets(t) == owed' = [owed EXCEPT ![t] = None]

\* The cookies of an answer are stored.  A tab that has not sent for its page yet
\* is owed nothing any more if the request carried a message or the answer has one.
Takes(t, due) ==
  LET q == req[t]
      replaces == q.flash # None \/ q.answer.note # None
  IN  /\ jar' = Stored(q.answer)
      /\ owed' = [u \in Tab |-> IF u = t THEN due
                               ELSE IF replaces /\ ~InFlight(u) THEN None ELSE owed[u]]

\* A boosted link swaps the body only; the head keeps its token.
ShowPage(t) ==
  LET q == req[t]
      kept == IF q.kind = "boost" THEN tab[t].sure \cap {"meta"} ELSE {}
      new == IF ~q.sure THEN {} ELSE IF q.kind = "boost" THEN {"field"} ELSE {"meta", "field"}
  IN  /\ Arrived(t, "page")
      /\ Takes(t, None)
      /\ tab' = [tab EXCEPT ![t] =
           [meta  |-> IF q.kind = "boost" THEN tab[t].meta ELSE q.answer.token,
            field |-> q.answer.token, sure |-> kept \cup new]]
      /\ Ends(t)
      /\ UNCHANGED <<usage, generated, written, rows>>

\* The page of a refusal; htmx shows a toast and leaves the page.
ShowRefusal(t) ==
  LET q == req[t]
  IN  /\ Arrived(t, "refused")
      /\ tab' = IF q.kind = "hxform" THEN tab
                ELSE [tab EXCEPT ![t] = [meta |-> q.answer.token, field |-> q.answer.token,
                                         sure |-> {}]]
      /\ Ends(t) /\ Forgets(t)
      /\ UNCHANGED <<usage, jar, generated, written, rows>>

ShowNothing(t) ==
  /\ Arrived(t, "nothing")
  /\ Takes(t, None)
  /\ Ends(t)
  /\ UNCHANGED <<usage, generated, written, tab, rows>>

\* A response that was asked for without an old message and brings one owes the
\* user that message on what follows.
Due(t) == IF req[t].flash = None THEN req[t].answer.note ELSE None

\* The browser follows a redirect of its own, the link of another site still as such.
Follow(t) ==
  LET kind == IF req[t].kind = "form" THEN "page" ELSE req[t].kind
  IN  /\ Arrived(t, "redirect") /\ req[t].kind # "hxform"
      /\ Takes(t, Due(t))
      /\ req' = [req EXCEPT ![t] = Asks(t, kind, jar')]
      /\ UNCHANGED <<usage, generated, written, tab, rows>>

\* HX-Redirect is an answer like any other: the script opens the page later, if the
\* user does not do something else first.
TakeHxRedirect(t) ==
  /\ Arrived(t, "redirect") /\ req[t].kind \in {"boost", "part", "hxform"}
  /\ Takes(t, Due(t))
  /\ Ends(t)
  /\ UNCHANGED <<usage, generated, written, tab, rows>>

\* 307: the same request, with the cookies of now.
Resend(t) ==
  LET q == req[t]
      new == Asks(t, q.kind, jar')
  IN  /\ Arrived(t, "again")
      /\ Takes(t, None)
      /\ req' = [req EXCEPT ![t] =
           [new EXCEPT !.token = q.token, !.form = q.form,
                       !.sure = IF q.kind \in Unsafe THEN q.sure ELSE new.sure]]
      /\ UNCHANGED <<usage, generated, written, tab, rows>>

\* The connection fails, or the user stops waiting; a form whose row is written
\* all the same is saved before.
Lose(t) ==
  /\ InFlight(t)
  /\ Ends(t) /\ Forgets(t)
  /\ UNCHANGED <<usage, jar, generated, written, tab, rows>>

\* max_age of flash_message
Expire ==
  /\ jar.flash # None
  /\ jar' = [jar EXCEPT !.flash = None]
  /\ owed' = [t \in Tab |-> IF InFlight(t) THEN owed[t] ELSE None]
  /\ UNCHANGED <<usage, generated, written, tab, req, rows>>

\* csrf_token is a cookie of the session; tabs may be restored from the cache.
Restart ==
  /\ jar.csrf # None
  /\ jar' = [jar EXCEPT !.csrf = None]
  /\ \E kept \in SUBSET Tab :
       tab' = [t \in Tab |-> IF t \in kept THEN [tab[t] EXCEPT !.sure = {}] ELSE Blank]
  /\ req' = [t \in Tab |-> NoRequest]
  /\ owed' = [t \in Tab |-> None]
  /\ UNCHANGED <<usage, generated, written, rows>>

-----------------------------------------------------------------------------
(* The server *)

\* csrf_middleware: the token of the cookie, or a new one
Tokens(t) == IF req[t].csrf # None THEN {req[t].csrf} ELSE Token \ generated

Sent(t) == req[t].phase = "sent"
Valid(t) == req[t].token # None /\ req[t].token = req[t].csrf
Passes(t) == Sent(t) /\ (req[t].kind \in Unsafe => Valid(t))

\* What the browser does not send again is forgotten.
Answers(t, a) ==
  LET kept == IF a.body = "again" THEN req[t] ELSE [req[t] EXCEPT !.token = None, !.form = None]
  IN  req' = [req EXCEPT ![t] = [kept EXCEPT !.phase = "answered", !.seen = None, !.answer = a]]

\* Mutant: the token is stored on every response.
StoreAlways(t, body, token, note) ==
  [body |-> body, token |-> token, note |-> note, cookie |-> token,
   drops |-> req[t].flash # None,
   shows |-> IF body = "page" THEN req[t].flash ELSE None]

\* Mutant: the message is deleted on every response.
DropAlways(t, body, token, note) ==
  [body |-> body, token |-> token, note |-> note,
   cookie |-> IF req[t].csrf = token THEN None ELSE token,
   drops |-> TRUE,
   shows |-> IF body = "page" THEN req[t].flash ELSE None]

\* The answer comes back through both middlewares: the token is stored if the
\* request did not bring it, and the message it brought is deleted.
Through(t, body, token, note) ==
  [body |-> body, token |-> token, note |-> note,
   cookie |-> IF req[t].csrf = token THEN None ELSE token,
   drops |-> req[t].flash # None,
   shows |-> IF body = "page" THEN req[t].flash ELSE None]

\* csrf_error_handler, called by the middleware: nothing is stored, not even the
\* token of the page it renders.
Refuse(t) ==
  /\ Sent(t) /\ req[t].kind \in Unsafe /\ ~Valid(t)
  /\ \E token \in Tokens(t) :
       /\ generated' = generated \cup {token}
       /\ Answers(t, [NoAnswer EXCEPT !.body = "refused", !.token = token])
  /\ UNCHANGED <<usage, jar, written, tab, owed, rows>>

\* An endpoint, or an exception handler inside the middlewares
Respond(t, body, note) ==
  /\ \E token \in Tokens(t) :
       /\ generated' = generated \cup {token}
       /\ Answers(t, Through(t, body, token, note))
  /\ written' = written \cup ({note} \ {None})
  /\ UNCHANGED <<usage, jar, tab, owed>>

\* A page, of an error too; htmx gets errors as toasts.
Render(t) ==
  /\ Passes(t) /\ req[t].kind \in {"page", "link", "boost", "form"}
  /\ Respond(t, "page", None)
  /\ UNCHANGED rows

Toast(t) ==
  /\ Passes(t) /\ req[t].kind \in {"boost", "part", "hxform"}
  /\ Respond(t, "nothing", None)
  /\ UNCHANGED rows

\* authentication_error_handler and already_authenticated_error_handler; the
\* links of mails and the forms that end in set_flash_cookie
Redirect(t, note) ==
  /\ Passes(t) /\ note \in Maybe(Message \ written)
  /\ note # None => \/ req[t].kind \in {"page", "link"}
                    \/ req[t].kind \in Unsafe /\ req[t].form.about = "other"
  /\ Respond(t, "redirect", note)
  /\ UNCHANGED rows

\* needs_new_tokens_handler
Renew(t) ==
  /\ Passes(t)
  /\ Respond(t, "again", None)
  /\ UNCHANGED rows

\* general_exception_handler answers from outside of the middlewares: the page
\* has the token and the message, the cookies stay as they are.
Fail(t) ==
  \E token \in Tokens(t) :
    /\ generated' = generated \cup {token}
    /\ Answers(t, IF req[t].kind \in {"page", "link", "form"}
                  THEN [NoAnswer EXCEPT !.body = "page", !.token = token, !.shows = req[t].flash]
                  ELSE NoAnswer)
    /\ UNCHANGED <<usage, jar, written, tab, owed>>

Break(t) == Passes(t) /\ Fail(t) /\ UNCHANGED rows

\* parse_communication_preferences, and update_profile with or without a file
Parsed(form) ==
  IF form.about = "preferences"
    THEN [c \in Preferences |-> form.fields.comm_opt_in /\ form.fields[c]]
    ELSE [c \in {d \in DOMAIN form.fields : d = "name" \/ form.fields[d] # None}
            |-> form.fields[c]]

Edits(t, about) == req[t].form # None /\ req[t].form.about = about

\* get_authenticated_user reads the row; the endpoint writes it later.
Load(t) ==
  /\ Passes(t) /\ req[t].kind \in Unsafe
  /\ \E about \in AboutUser :
       /\ Edits(t, about)
       /\ overlapped' = IF \E u \in Tab \ {t} : req[u].phase = "loaded" /\ Edits(u, about)
                        THEN overlapped \cup {about} ELSE overlapped
  /\ req' = [req EXCEPT ![t] = [req[t] EXCEPT !.phase = "loaded", !.seen = user]]
  /\ UNCHANGED <<usage, jar, generated, written, tab, owed, user, said>>

Changed(t) == LET new == Parsed(req[t].form)
              IN  {c \in DOMAIN new : new[c] # req[t].seen[c]}

\* user_id is unique in useravatar.
Inserted(t) == "avatar" \in Changed(t) /\ req[t].seen["avatar"] = None
Conflict(t) == Inserted(t) /\ user["avatar"] # None

\* Mutant: all columns are written as they were read.
SaveRow(t) ==
  LET new == Parsed(req[t].form)
  IN  /\ req[t].phase = "loaded" /\ ~Conflict(t)
      /\ user' = [c \in Column |-> IF c \in DOMAIN new THEN new[c] ELSE req[t].seen[c]]
      /\ said' = [c \in Column |-> IF c \in DOMAIN new THEN new[c] ELSE said[c]]
      /\ Respond(t, IF req[t].kind = "hxform" THEN "nothing" ELSE "redirect", None)
      /\ UNCHANGED overlapped

\* The session writes the columns that differ from what it has read.
Save(t) ==
  LET new == Parsed(req[t].form)
  IN  /\ req[t].phase = "loaded" /\ ~Conflict(t)
      /\ user' = [c \in Column |-> IF c \in Changed(t) THEN new[c] ELSE user[c]]
      /\ said' = [c \in Column |-> IF c \in DOMAIN new THEN new[c] ELSE said[c]]
      /\ Respond(t, IF req[t].kind = "hxform" THEN "nothing" ELSE "redirect", None)
      /\ UNCHANGED overlapped

SaveFails(t) ==
  /\ req[t].phase = "loaded" /\ Conflict(t)
  /\ Fail(t)
  /\ UNCHANGED rows

-----------------------------------------------------------------------------
Browse(t) ==
  \/ \E kind \in Kind : Open(t, kind)
  \/ FollowLink(t)
  \/ \E kind \in Kind, form \in Form : Submit(t, kind, form)
  \/ ShowPage(t) \/ ShowRefusal(t) \/ ShowNothing(t)
  \/ Follow(t) \/ TakeHxRedirect(t) \/ Resend(t) \/ Lose(t)

Serve(t) ==
  \/ Refuse(t) \/ Render(t) \/ Toast(t) \/ Renew(t) \/ Break(t)
  \/ \E note \in Maybe(Message) : Redirect(t, note)
  \/ Load(t) \/ Save(t) \/ SaveFails(t)

Next == (\E t \in Tab : Browse(t) \/ Serve(t)) \/ Expire \/ Restart

Spec == Init /\ [][Next]_vars

-----------------------------------------------------------------------------
(* Properties *)

\* Requests without the cookie get different tokens, and the last answer to
\* arrive decides the cookie; forms of the other tabs are then refused.  But once
\* there is a cookie and no request sent without one is under way, a page that
\* is loaded is good until the browser is closed or a link on another site is
\* followed: no form is refused whose token came with it, whatever the other tabs
\* do.  A token that stayed in the head through a boosted link did not come with
\* it.
SureFormsPass == \A t \in Tab : Arrived(t, "refused") => ~req[t].sure

\* A message put on a redirect is shown by the page its tab loads next, though other
\* tabs delete the cookie with any response to a request that carried one.  Three
\* cases are excepted, in which it is deleted unseen: the form was itself sent with
\* an older message; a further redirect came first; htmx sent the form, and before
\* the script asks for the page an answer arrives in another tab whose request
\* carried a message or that brings one (or the minute is over).
FollowUpTells ==
  \A t \in Tab : owed[t] # None /\ Arrived(t, "page") => req[t].answer.shows = owed[t]

\* Saves of one form one after the other, overlapping with saves of the other
\* form in any way, leave the row as the last form of each kind said.
About(c) == IF c \in Preferences THEN "preferences" ELSE "profile"
RowIsLastForm == \A c \in Column : About(c) \notin overlapped => user[c] = said[c]

-----------------------------------------------------------------------------
(* The inductive invariant: what requests and answers under way carry. *)

\* While anything is sure, no answer under way can change the cookie of tokens.
AnySure == \E t \in Tab : tab[t].sure # {} \/ req[t].sure
CookieStays ==
  AnySure => jar.csrf # None /\ \A t \in Tab : InFlight(t) => req[t].csrf # None

\* What is sure has the token of the cookie.
PagesFit ==
  \A t \in Tab : /\ "meta" \in tab[t].sure => tab[t].meta = jar.csrf
                 /\ "field" \in tab[t].sure => tab[t].field = jar.csrf
Pending(t) == req[t].phase \in {"sent", "loaded"} \/ Arrived(t, "again")
RequestsFit ==
  \A t \in Tab :
    /\ req[t].sure => InFlight(t) /\ req[t].csrf = jar.csrf
    /\ req[t].sure /\ req[t].kind \in Unsafe /\ Pending(t) => req[t].token = jar.csrf
    /\ InFlight(t) /\ req[t].kind = "link" => req[t].csrf = None

\* What an answer does to the cookies follows from what its request carried.
AnswersFit ==
  \A t \in Tab : req[t].phase = "answered" =>
    /\ req[t].csrf # None => req[t].answer.cookie = None
    /\ req[t].csrf # None /\ Arrived(t, "page") => req[t].answer.token = req[t].csrf
    /\ Arrived(t, "page") => req[t].answer.shows = req[t].flash
    /\ req[t].flash = None => ~req[t].answer.drops
OwedIsCarried ==
  \A t \in Tab : owed[t] # None => (IF InFlight(t) THEN req[t].flash ELSE jar.flash) = owed[t]

\* A form that is being saved has read the row as it is, if no other of its kind
\* is being saved.
ReadsHold ==
  \A t \in Tab : req[t].phase = "loaded" =>
    /\ req[t].form \in Form /\ req[t].form.about \in AboutUser /\ req[t].seen \in Row
    /\ \A c \in Column : About(c) = req[t].form.about /\ About(c) \notin overlapped
                           => req[t].seen[c] = user[c]
    /\ \A u \in Tab \ {t} : /\ req[u].phase = "loaded"
                            /\ req[u].form.about = req[t].form.about
                            => req[t].form.about \in overlapped

IInv == /\ TypeOK /\ CookieStays /\ PagesFit /\ RequestsFit /\ AnswersFit
        /\ OwedIsCarried /\ ReadsHold /\ SureFormsPass /\ RowIsLastForm
=============================================================================
