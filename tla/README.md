# A TLA+ model of the TianYi web application

The repository is a FastAPI + SQLModel/PostgreSQL application. Its core is a
multi-user site: accounts with several e-mail addresses, login sessions kept in
a table of refresh tokens, organizations with roles and permissions, invitations
by mail, rate limits. An upload service was added to it (files sent through an
API or by a Gmail script, kept in an object store, announced on WeChat). This
directory models both, with the browser in front of the site and the deployment
under it, checks them with TLC and proves the main invariants with TLAPS. Paths
below are relative to the repository's root, `src/`.

## What runs, and where it interleaves

`def` handlers and dependencies run on a thread pool, `async def` ones on the
event loop; `.env.example` foresees several workers, although the Dockerfile starts
one process: what is said of several holds of one. Every handler gets a
database session of its own (`utils/core/dependencies.py:39`), PostgreSQL runs at
READ COMMITTED, and no handler takes a row lock of its own accord. So between
the SELECTs a handler decides by and its COMMIT any other request may commit,
and several handlers commit more than once. What protects the data is what the
database enforces at the commit: unique keys, foreign keys with their cascades,
and SQLAlchemy's check that a row it updates is still there. This is the view
all the modules take:

* a request is a process, `req[r]` is what it has read and is going to write;
* a `Start...` action is the reading half of a handler with all its guards and
  early returns, a `Commit...` action is one committed transaction, refused as a
  whole when the database would refuse it;
* `Abort(r)` (when `Lossy`) is a request that dies between two of its steps,
  with what it committed before left in place;
* `workers`, chosen in `Init`, is how many requests a deployment serves at a
  time (a field of `setting` in `Uploads`, where it limits `resend_wechat` only:
  the upload itself waits for its files and lets others in);
  `OneAtATime` is a deployment that serves them one after the other.

A run is called *serial* below when it has one request, or its properties are
conditioned on `OneAtATime`. What is true only in a serial run is listed in
"What fails when requests race".

## Inventory

| Part | State | Operations | Hard behaviour | What makes it correct |
|---|---|---|---|---|
| Login sessions (`utils/core/dependencies.py`, `utils/core/auth.py`, `routers/core/account.py`, `main.py`) | `refreshtoken`, `passwordresettoken` rows; two cookies in each browser; passwords | login, register, logout, page, error page, `/account/refresh`, forgot and reset password, delete | two requests present one cookie; reset in two commits; answers that get lost; error pages that drop new cookies; access tokens that name an address | a token is exchanged once and spent by it; reuse and reset end the other sessions; a token acts on its own account only |
| Addresses of accounts (`routers/core/account.py`) | `Account.email`, `accountemail` rows, verification and recovery links | register, add, verify, promote, remove, recover, delete | the primary address is kept in two tables; links followed late; one address wanted by two accounts | one primary row that agrees with `Account.email`; no address on two accounts; recovery undoes a takeover |
| Organizations, roles, members (`routers/core/organization.py`, `role.py`, `user.py`, `utils/core/db.py`, `models.py`) | `organization`, `role`, permission and member links | create, rename, delete, roles and their permissions, join, assign, remove, leave with the account | checks in one transaction and writes in another; cascades under requests in progress; creation in two commits | no dangling rows; default roles keep their permissions; forms do exactly what they say |
| Invitations (`routers/core/invitation.py`, `utils/core/invitations.py`) | `invitation` rows; mails on their way | invite, resend, cancel, accept by link, login or registration | the mail leaves between flush and commit; acceptance races cancellation | one working link per address, the latest; only an existing invitation admits |
| Rate limits (`utils/core/rate_limit.py`) | times of attempts, in memory or in a table | check, record, reset, prune | check and record are two steps; the clock is read before the lock | bounded overshoot; no lock-out for good; bounded memory |
| Upload (`routers/app/upload.py`) | `uploadrecord` rows, objects, messages | upload, tax form | each of store, message and record may fail alone | what is stored is listed, what is said to be announced was |
| Management of uploads (`routers/app/upload_manage.py`) | `uploadrecord` rows | list, view, send again | lost update of `retry_count`, of single columns | the page never claims more than happened |
| Object store, WeChat (`utils/app/services`) | external | put, send | failure | external |
| Gmail script (`email_upload.gs`) | unread marks | upload, mark as read | executions that overlap or are killed, answers lost, mails that are always refused | every attachment at least once, once if nothing fails |
| Language model agent (`routers/app/agent.py`, `langchain.py`) | none | ask | external | - |
| Migrations (`migrations/`) | tables, columns, foreign keys | four scripts, dry or applied, run by hand | an execution races with another one or with a start; it is cut short; what it looked up is stale when it changes it | what a script reports stays true; one key per owned table |
| Startup (`main.py`, `utils/core/db.py`, `deploy.sh`) | tables, permissions, rows of old accounts | `set_up_db` in every worker, in four commits; deployment | several workers at once; a failure is logged and the worker serves | somebody does the whole set-up; no role lacks permissions without a failed set-up |
| CSRF, HTMX, flash (`utils/core/csrf.py`, `htmx.py`, `main.py`) | cookies `csrf_token` and `flash_message`, tokens in pages | two middlewares around every request; refusal; redirects with a message, or `HX-Redirect` for htmx | tabs share the cookies and their answers arrive in any order; error pages are answered outside of the middlewares | a form of a page loaded under the cookie is not refused; a message is shown unless another answer takes it first |
| Profile, avatar, preferences (`routers/core/user.py`, `utils/core/images.py`, `communication_preferences.py`) | own row and picture | two forms | the forms overlap, each writing what differs from what it read | the row is what the last forms said |
| Dashboard, static pages, duplicate directories | none | - | - | - |

How they interact: Sessions authenticates every other request and loses its
tokens to promotion, recovery and deletion of addresses; a login or registration
may carry an invitation; accepting one adds a role link; deleting an account
deletes the organizations it alone belongs to; login passes two rate limits
before the password is looked at. The upload service shares the database with
the rest and nothing else: scripts and the record pages need no account.

## Modules

| Module | Models | Correspondence |
|---|---|---|
| `SessionLedger` | what the application promises about refresh tokens | abstract specification: `Exchange` revokes tokens of one account and issues at most one; `Close` takes the tokens of an account that is deleted, for good |
| `Sessions` | sessions, cookies, password reset | `token` is the `refreshtoken` table with the JWT of each row, `jar` the cookies; phases of `req[r]` follow the SELECTs and COMMITs of `validate_token_and_get_account`, `refresh_token`, `login`, `logout`, `reset_password`, `promote_email`, `recover_account`, `register` (the account and its first session are two commits) and `delete_account`; `status` says which accounts have not been there yet, are there, or were deleted; `LoseAccount` is a commit that a foreign key refuses since the account went meanwhile |
| `AccountEmails` | addresses | `rows` is `accountemail`, `email` is `Account.email`; one `Start`/`Commit` pair for each handler of `account.py:280-1094` that touches them |
| `Organizations` | organizations, roles, members | `orgs`, `roles`, `links` are the tables; creation commits twice as `create_default_roles` does; `Sweep` is the loop of `role.py:179` with any order of the permissions |
| `Invitations` | invitations | `Flush...` is the flush and the mail, `Commit...` the commit; `Holds` and `KeyLocked` are the locks a flushed transaction has |
| `RateLimits` | rate limits | `Check` and `Record` are the two critical sections, `ReadClock` comes before each; ages replace timestamps, so time is unbounded; in memory each limiter has its keys (`Scope`) and its prune time (`untilPrune`), and only a call to it prunes them |
| `Uploads` | Gmail script, upload, tax form, sending again | `run` is the executions of `main`, `req` the requests they wait for (a request outlives the execution); `TakeFile`, `Notify`, `Save` are the three parts of `upload_files`, each with the failures of the service it calls; `read` is what the mailbox remembers; `told`, `unsaved`, `tries` are ghosts |
| `Startup` | set-up, migrations, deployment | `worker[w]` is where a process is in `set_up_db` and what its SELECT found missing; `run[r]` an execution of a script; `schemas`, `tables`, `columns`, `fks` are the catalog; `gaps`, `outage`, `raced` are ghosts |
| `Pages` | browser, middlewares, forms about the user | `jar` is the two cookies, `tab[t]` the tokens a page carries (head and forms), `req[t]` the request of a tab with the cookies of the moment it was sent; `Through` is both middlewares on the way back; `Follow` is a redirect the browser follows, `TakeHxRedirect` the answer to htmx, whose page is asked for by a later `Open`; `sure`, `owed`, `said`, `overlapped` are ghosts |
| `SessionsProofs`, `AccountEmailsProofs`, `OrganizationsProofs`, `InvitationsProofs`, `RateLimitsProofs`, `UploadsProofs`, `StartupProofs`, `PagesProofs` | theorems | extend their component and `TLAPS` |
| `MC...` | instances | operation sets, symmetry |

The components share data, and each module has the part of it that its
operations decide by: `Sessions` has the owner of an address as `emailOwner` and
moves it by `claim` and `release`, which stand for what `AccountEmails` does in
full; `Invitations` has members as links of one organization, with the forms of
`Organizations` as single steps; `Startup` has those requests that leave
something a later start or script meets; `Pages` leaves open what an endpoint
makes of a request, except for the forms about the user.

Data is abstracted to what the properties tell apart: a password is its version,
a token a number, a JWT the subject it names, an address a model value (case
folding is not modelled), permissions are the names of the enums. Who has which
permission is left open (any member may submit any form), so the properties
hold whoever is allowed to act; `has_permission` itself decides only where the
handler compares the user with the one acted upon.

## Runs

| Run | Question | Bounds |
|---|---|---|
| `SessionsRace` | Do two requests that race and die keep every rotated token spent, and implement the ledger? | one account, which may be registered and deleted, two browsers, two requests, three tokens: two exchanges of one token and a login in between, a login or an exchange under a deletion |
| `SessionsSerial` | One request after the other, do reuse, reset and rotation do what they promise, and is a presented token spent in the end? | one account, which may be registered and deleted, two browsers, four tokens, two password changes |
| `SessionsAddresses` | Do live tokens keep naming their account while addresses move? | two accounts, which may be registered and deleted, three addresses: one to give away, one to take it |
| `SessionsErrorPage` (violation) | Does an honest browser ever replay a token? | one browser |
| `Emails` | Do rows, links and `Account.email` agree? | two accounts, three addresses, two requests, three rows |
| `OrgsRace` | Do references and default roles survive every race and crash? | one organization (five roles: three default ones, two more), two requests |
| `OrgsSerial` | Do the forms do exactly what they say? | two users, two organizations of three roles |
| `Invitations` | Is there one working link per address, the latest, and does only it admit? | two addresses of one person, two roles, two requests, three rows and mails |
| `RateLimits` | Overshoot, reopening, Retry-After, pruning, for both stores | one address (limit 1) and two e-mails (limit 2), that is two limiters of which one has a key the request does not name; two requests, window of two ticks, clock up to one tick old |
| `Startup` | Does the set-up get done, does a script ever report what is not so, does a table lose its key? | two workers, two executions of any script, two permissions, two accounts, an empty database and one of an earlier release, complete and incomplete settings |
| `Pages` | Is a form refused, a message lost, a change of the row undone by what another tab does? | two tabs, two tokens, two messages; a new browser with every kind of request, and one with its cookie whose tabs save forms about the user |
| `Uploads` | Is a mail ever marked and missing, recorded twice, never handled; does the page say what happened? | three mails, two executions, two requests, and six settings (below) |

Why these bounds are enough to be interesting: every race in this code is
between two requests, with a third party (the other browser, account or role) to
be harmed; workers, executions of scripts and tabs race in pairs too. Ids, tokens, rows and mails are the only counters that grow; they are
bounded by constants named `Max...`, in the guards of the actions that would
exceed them (in `Pages` the tokens and messages run out: no new request without a
cookie is answered then). `OrgsSerial` needs two organizations to see a form reach the wrong
one; `Invitations` needs three rows to invite, replace and invite again.
`Uploads` bounds what goes wrong instead of how much is done, and combines the
bounds in `TheSettings`: overlapping executions with a failing call or with a
death, two deaths with a failing call, another client, and two notices sent
again by one server process, with a death between notice and commit, or by two. Its mails are one with a tax form and a
picture, one without attachments in the same conversation, and one the server
always refuses, which is posted for ever.

Deadlock: `SessionsRace`, `SessionsSerial`, `RateLimits`, `Uploads` and `Startup` check it (some request can always be made or served, some
worker stopped or started). In the others ids run out, all users leave, all accounts are deleted
(`SessionsAddresses`; the id of an account is used once), or all tabs of a browser
that only submits forms are closed, and nothing can happen any more, so `CHECK_DEADLOCK FALSE`.
Symmetry is used in runs without liveness, over sets the specification compares
by equality only.

Fairness is assumed in three runs. `FairSpec` of `Sessions`: the event loop and the
thread pool go on with every request they have accepted (`WF` of `Serve(r)`);
nothing is assumed of clients, which never have to send anything. `FairSpec` of
`RateLimits`: the same, and time passes (`WF` of `Tick`). Reopening of a full
key needs no client to do anything either. `FairSpec` of `Uploads`: the timer
fires again and again and an execution goes on (`WF` of `Main(s)`), requests are
served; that faults come to an end is the bound of the setting.

## What the code does not keep

* **`SessionsErrorPage`** (violation run). `get_user_from_request`
  (`dependencies.py:439`) exchanges the refresh cookie to find out who looks at an
  error page, and drops the new pair. The next request presents the spent cookie,
  is taken for a thief, and all sessions of the account end.

What follows is in the models as the code has it, and the properties say no more
than what is left:

* The limit of two addresses is counted when a link is asked for
  (`account.py:880`), not when it is followed: two links asked for in time give
  three addresses.
* The used row of an invitation occupies the unique key on organization, address
  and `used` (`models.py:378`): a member who was removed can be invited again, but
  the acceptance fails (`CommitAccept` is refused).
* A browser whose access token is older than a password reset can promote an
  address (`account.py:1018`) and is given a new session. `OldPasswordDies` is
  checked over the operations without promotion.
* `update_role` removes from the list it iterates (`role.py:179`): of two
  neighbouring deselected permissions one stays, which `Sweep` reproduces and
  `EditKeepsSelected` allows.
* `upload_files` answers 200 when saving its records failed (`upload.py:208`), so
  the script marks the mail: `ReadMailsKept` has to except `unsaved`, although the
  handler says it records every operation ("记录所有操作到数据库", `upload.py:85`).
  Of several tax forms in one upload only the first is announced
  (`upload.py:175`), which `SuccessWasTold` spells out.
* Of workers that start at once all but one may fail and serve all the same
  (`main.py:66`), the failed ones without having waited for the others. A start
  also fails, each time, if the address of an account without a row has been
  verified by another account (`db.py:243`); `SomebodySetsUp` excepts it (`raced`),
  as it does a table that `add_upload_records` creates under a start. That script
  creates the table without the columns `add_company_fields` adds.
* `add_company_fields` appends the error of a column to a tuple
  (`add_company_fields.py:59`): the script ends with that error, and the report of
  success is never printed, which is what keeps `ReportHolds`.
* Two tabs that load without the cookie get different tokens, and the last answer
  to arrive decides which is good: the forms of the other tab are refused. A link
  followed on another site comes without the cookie (`samesite="strict"`,
  `csrf.py:37`), gets a new token, and makes the forms of all open tabs refused. A
  boosted link replaces the body and not the head, whose token htmx sends. The page
  of a refusal carries a token that is never stored (`main.py:125`), so without a
  cookie the next try is refused as well. `SureFormsPass` is about what remains.
* A response to a request that carried the flash cookie deletes it, also if it
  shows nothing or sets a new message (`main.py:110`). A message is lost if its form
  was sent with an older one, or if a second redirect follows; and, since htmx gets
  no redirect but an answer with `HX-Redirect` (`account.py:691-701`), also if another
  tab's answer takes or replaces the cookie before the script asks for the page.
  `FollowUpTells` says it is shown otherwise.
* Two overlapping saves of the preferences may mix, for each writes what differs
  from what it read: opt-in off with marketing on. Of two first pictures one meets
  the unique key, and the name sent with it is lost (`user.py:149`).

## What fails when requests race

These properties are checked in serial runs, and TLC finds each violated with
two requests in progress. They are kept as serial properties because they are
what the handlers mean to do; the races are described here and in the hazards of
`PROJECT.json`.

* `OneSuccessor`, `RevocationComplete` after reuse: two requests find one token live and both
  exchange it; the revocation of all tokens misses one that is inserted later
  (`SessionsSerial` with `Request = {r1, r2}`).
* `RevocationComplete` after a reset, `OldPasswordDies`: the same for a password reset. With
  `Lossy = TRUE` a crash between its two commits (`account.py:734`, `746`) has
  the same effect with a single request.
* `OnePrimary`, `NoAddressShared`, `RecoveryRestores`: remove against promote,
  recover against promote, two promotions (drop `OneAtATime`).
* `NamesUnique`, `LastMemberStays`, `MembershipExact`: two organizations created
  with one name; the last two members leaving or removing each other; a role
  assigned during a removal (`OrgsSerial` with `Request = {r1, r2}`).
* `AcceptedOnce`: an acceptance submitted twice admits a member who was removed
  between the two commits (drop `OneAtATime`).
* `RetriesCounted`: with two server processes a try is lost, and the property then
  only says that none is invented. With one it allows for a try per death, for
  `resend_wechat` sends the notice before it commits the count
  (`upload_manage.py:150-169`). `OnceWithoutFaults`: executions that overlap, or
  an answer that is lost, upload a mail twice.
* `SomebodySetsUp` claims that one worker has done the set-up, not all of them;
  `RowIsLastForm` claims nothing of a form that was saved twice at once.
* `WithinBound` states how far a rate limit may be exceeded: by one for every
  other request served at the time.

## Proofs

For every value of the constants that satisfies the named assumptions
(`SessionConstants`, `EmailConstants`, the assumptions of `Organizations`,
`InvitationConstants`, `RateLimitConstants`, `UploadConstants`, `StartupConstants`,
`PagesConstants`),
without a bound on requests, accounts or rows:

* `SessionsProofs`: `Inductive` (`IInv`), `TypeCorrect`, `ExchangeSpends`
  (`ParentSpent`), `OwnTokensOnly` (`TokenActsOnItsAccount`), and `Refinement`:
  `Sessions` implements `SessionLedger`. A request carries a token id from one
  SELECT to a later COMMIT, so the invariant says what stays true of it
  meanwhile: ids are given out in order, and as long as the account that was read is
  there, the row of a carried id exists and is of that account (`RequestsAgree`).
  `RevokeOnlyKeeps`, `RevokeAndIssueKeeps` and `ClosingKeeps` show this for the only
  three ways the table changes; every action is then one of them or a quiet step.
  The ledger needs that nothing is given to a deleted account (`NoneReopens`): rows
  it loses count as taken, not as never issued. For one request at a time
  (`OneRequest`): `SerialInductive`, `ExchangedOnce` (`OneSuccessor`),
  `LiveTokensUsable` (`LiveTokensResolve`), `RevokesEverything`
  (`RevocationComplete`), from `SerialInv`: what a request has read, and has yet to
  use, is still what the table holds (a reset whose account is deleted has no
  sessions left to sweep). `OldPasswordsDie` (`OldPasswordDies`) needs
  `NoneDiesOrPromotes` as well: a death between the two commits of a reset leaves
  the old sessions, and a promotion opens one on the word of an access cookie that
  may be older than the password.
* `OrganizationsProofs`: `OrganizationsInductive`, `OrganizationsTyped`,
  `ReferencesHold` (`NoDangling`), `DefaultRolesSurvive` (`DefaultRolesKept`).
  Default roles survive since a request that edits or deletes a role carries the
  id of one that is gone or custom (`FormsNameCustomRoles`), and ids are not
  given out twice (`Fresh`): a role that vanishes cannot come back as a default
  one under the same id. For one request at a time (`OneRequest`):
  `OrganizationsSerial`, `NamesStayUnique` (`NamesUnique`), `EditsKeepSelected`
  (`EditKeepsSelected`), `MembershipIsExact` (`MembershipExact`) and
  `LastMembersStay` (`LastMemberStays`). Names are unique because a creation still
  finds its name free at the second commit, and the forms do what they say because
  each commits on what it read (`Current`).
* `InvitationsProofs`: `InvitationsInductive`, `InvitationsTyped`, `OneLinkOnly`
  (`OneLinkWorks`), `AdmissionIsInvited` (`AdmittedByInvitation`), `LinksAdvance`
  (`LinksOnlyAdvance`). One working link needs the locks: a flushed invitation
  replaces all that is pending for its address until it commits
  (`FlushReplaces`), because rows and key are held by one transaction at a time
  (`LocksExclude`). `AdmitsOnce` (`AcceptedOnce`), which speaks of deployments that
  serve one request at a time: the invitation an acceptance has found unused cannot
  be used by another one meanwhile.
* `AccountEmailsProofs`: `AddressesInductive`, `AddressesTyped`, `NobodyIsOrphaned`
  (`NoOrphans`), `PrimaryIsUnique` (`OnePrimary`), `AddressesNotShared`
  (`NoAddressShared`), `RecoveryIsComplete` (`RecoveryRestores`). `Base` holds
  however requests race: rows, links and what a request carries name accounts that
  exist or existed. `Serial` adds what a deployment keeps that serves one request
  at a time: what the request in progress has read is still so when it commits,
  unless its account was deleted, in which case nothing is written. That no
  address is shared follows from one primary row per account and one row per
  address.
* `RateLimitsProofs`: `TypeCorrect`, `NeverMoreThanServed` (`WithinBound`),
  `CleanupForgetsAndKeepsNothing` (`CleanupExact`), `RetryAfterIsExact`
  (`RetryAfterExact`). A key's live attempts and the requests between its check and
  its record are bounded together (`Load`): a check lets a request through only
  below the limit, and a record turns a pending request into an attempt. For the
  memory: until the next prune of a limiter is past due, each of its keys has an
  attempt that was young at the last one (`Recent`); a limiter nobody asks keeps what
  it has. For Retry-After: with one request at a time the lists
  are in the order of time (`Ordered`), so the first is the oldest.
* `UploadsProofs`: `TypeCorrect`, `MarkedMailsAreKept` (`ReadMailsKept`),
  `TriesAreCounted` (`RetriesCounted`), `ObjectsAreListed` (`StoredIsListed`). The
  request outlives the execution that waits for it, so the invariant ties the two:
  an execution that waits for a request is helped by an upload whose drafts and
  remaining files are those of its mail (`Awaits`), and one that has its answer has
  the files recorded or lost (`AcceptedKept`). For the tries, which
  are counted when the notice is sent, it says that the count a request has read and
  the notices of the record that wait for a commit are together no more than the
  tries made; with one process the request has read what is there (`SeenCounts`), for
  there is one such request then (`OneResend`), and only a death loses a try. For the
  store: every link of a draft is stored (`LinksStored`). `SuccessIsTrue`
  (`SuccessWasTold`): the drafts are the accepted files among those of the upload
  taken so far, in their order (`Part`), so the message names what it is to name
  (`PartEnds`), and a row says success only if that message, or one about the
  row's own file, was sent (`Truthful`). `RecordedOnce`
  (`OnceWithoutFaults`), for attachments that are told apart (`FilesDistinct`, which
  TLC evaluates for the instance): where nothing fails one execution runs, a row is
  about a mail that is marked, or whose answer the execution has or waits for, and
  what is on its list is not marked yet (`Orderly`); so a mail is uploaded once.
* `StartupProofs`: `TypeCorrect`, `SetUpIsDone` (`SomebodySetsUp`),
  `GapsAreExplained` (`GapHasCause`), `ScriptsTellTheTruth` (`ReportHolds`),
  `KeysStaySingle` (`OneKey`). The argument for the race of the workers: what a look
  found missing covers what is still missing (`LooksCover`), and whenever a commit
  makes the others' commits fail, the worker that made it is not lost itself, so
  one is always left that will not fail (`OneIsLeft`). Nothing is assumed of the
  number of workers but that there is one.
* `PagesProofs`: `TypeCorrect`, `SureFormsAreNotRefused` (`SureFormsPass`),
  `MessagesAreShown` (`FollowUpTells`), `LastFormIsKept` (`RowIsLastForm`). While
  anything is sure, no answer under way can change the cookie (`CookieStays`), so
  what is sure has its token (`PagesFit`, `RequestsFit`); what an answer does to the
  cookies follows from what its request carried (`AnswersFit`); the message a tab is
  owed is in its request, or in the cookie while it waits for none (`OwedIsCarried`); and a form being
  saved has read the row as it is unless another of its kind is under way
  (`ReadsHold`).

Each inductive invariant, `TypeOK` among its conjuncts, was checked by TLC before
it was proved: adding `INVARIANT IInv` to the cfg of its component does it again
(in the proof module where the component has none; in `RateLimitsProofs` it is
`Loaded`, `Recent` and `Ordered`). The runs themselves list what the invariants
are for. The hypotheses beyond the assumptions are `OneRequest`,
`NoneDiesOrPromotes` and `FilesDistinct`; "What fails when requests race" says what TLC
finds without the first two, and without the third one file stands for two.

Every invariant and action property that a passing run checks is a theorem. Only
model-checked: liveness (`PresentedTokenSpent`, `KeysReopen`, `EveryMailHandled`),
which is out of the prover's reach, on the instances of their runs.

## Not modelled, and why

Static pages and the dashboard only read; of templates and scripts `Pages` has
what decides which token a request carries, and of the deployment `Startup` has
what it does to running workers. In `Pages` the switch `CSRF_ENABLED` and the paths
under `/api/`, which skip the check, are left out; that an endpoint can read the body
after the middleware has parsed the form is Starlette's, and taken as given. The
checks of a picture are a form that is not saved. The language model agent
keeps no state. The duplicate directories (`routers/routers` and others) are
imported by nothing. Of the rate limits `remaining`, `prune` and `clear` have no
caller outside tests, and the choice of the client's address behind proxies is
left out. Of the upload service the texts of messages and the extraction of
amounts are left out, and so is the key of an object, which two files of one name
share when they are stored in the same second; a person who opens a mail before
the script has found it takes it off the list, which is not modelled either.

## Plan

Done, in this order: sessions and their ledger; addresses; organizations;
invitations; rate limits; uploads; startup with the migrations; pages with the
forms about the user; proofs for all of them.

Next, by weight:

1. Sessions composed with addresses, so that `claim` and `release` become the
   steps of `AccountEmails`.
2. `TaxAmount`: the search of `_extract_saldo_finale` as an operator against a
   reference definition over short token sequences.
