-------------------------------- MODULE Startup --------------------------------
(***************************************************************************)
(* How the database comes to be what the code expects: set_up_db, which      *)
(* every worker runs before it serves and whose failure is only logged, the  *)
(* four migration scripts an operator runs by hand, and the deployment that  *)
(* stops everything in between.                                              *)
(*                                                                          *)
(* PostgreSQL runs DDL in transactions, so what a transaction changes is one *)
(* step, its commit; what it had read before may be stale by then.  CREATE   *)
(* and INSERT of something another transaction is making wait for that one,  *)
(* and fail if it commits: the model lets the later commit fail.  Of the     *)
(* requests only those are here that leave something a later start or script *)
(* meets: a registration, a verified address, a new organization.  Tables    *)
(* the scripts do not touch and nothing here reads are left out.             *)
(***************************************************************************)
EXTENDS Naturals, Sequences, FiniteSets

CONSTANTS
  Worker,       \* processes that serve the application
  Run,          \* executions of a migration script
  Scripts,      \* the scripts a run of the checker uses, a subset of AllScripts
  Permission,   \* ValidPermissions and AppPermissions of this release
  Account,      \* accounts; an account also stands for its Account.email
  Old,          \* the databases this release may find
  Environments  \* the settings the containers may be given

AllScripts == {"align", "uploads", "preferences", "company"}

Table == {"account", "accountemail", "user", "useravatar", "organization",
          "organizationresource", "permission", "uploadrecord"}

\* align_ownership_cascades.TARGETS, and the table each refers to
TARGETS == <<"accountemail", "useravatar", "organizationresource">>
Owned == {"accountemail", "useravatar", "organizationresource"}
Referenced == [accountemail |-> "account", useravatar |-> "user",
               organizationresource |-> "organization"]

\* COLUMNS of add_communication_preferences and of add_company_fields
Preferences == {"comm_opt_in", "comm_updates", "comm_marketing"}
Company == {"company_name", "contact_person"}
Column == Preferences \cup Company
ColumnsOf(t) == CASE t = "user" -> Preferences
                  [] t = "uploadrecord" -> Company
                  [] OTHER -> {}

\* A foreign key is called what PostgreSQL or what the script calls it.
Name == {"auto", "fixed"}
ForeignKey == [name : Name, cascade : BOOLEAN]
Created == [name |-> "auto", cascade |-> TRUE]
Replaced == [name |-> "fixed", cascade |-> TRUE]

\* get_connection_url: the variables each mode needs
Direct == {"DB_HOST", "DB_PORT", "DB_NAME", "DB_USER", "DB_PASSWORD"}
Pooled == {"DB_HOST", "DB_POOL_PORT", "DB_POOL_NAME", "DB_APPUSER",
           "DB_APPUSER_PASSWORD"}
Required(env) == IF env.pool THEN Pooled ELSE Direct
Configured(env) == Required(env) \subseteq env.given

\* A database an earlier release may have left: nobody has taken the address of
\* an account that has no row yet.
IsOld(d) ==
  /\ d.schemas \subseteq {"private"} /\ d.tables \subseteq Table
  /\ d.columns \subseteq UNION {ColumnsOf(t) : t \in d.tables}
  /\ d.cascade \in BOOLEAN
  /\ d.perms \subseteq Permission /\ d.accounts \subseteq Account
  /\ d.rows \subseteq d.accounts \X Account
  /\ \A p, q \in d.rows : p[2] = q[2] => p = q
  /\ d.accounts # {} => "account" \in d.tables
  /\ d.rows # {} => "accountemail" \in d.tables
  /\ \A p \in d.rows : p[2] \in d.accounts => \E q \in d.rows : q[1] = p[2]

ASSUME StartupConstants ==
  /\ Scripts \subseteq AllScripts
  /\ \A d \in Old : IsOld(d)
  /\ \A e \in Environments : e.pool \in BOOLEAN /\ e.given \subseteq Direct \cup Pooled
  /\ Worker # {}

VARIABLES
  environment,  \* USE_POOL and the variables that are set
  schemas, tables, columns,
  fks,          \* the foreign keys of each ownership column
  perms,        \* rows of Permission
  accounts,     \* rows of Account
  rows,         \* AccountEmail: pairs of an account and an address
  gaps,         \* whether the set-up of the workers that have made an organization
                \* whose Owner lacks a permission had gone well
  worker, run,
  outage,       \* whether a set-up could not reach its database
  raced         \* whether something else than a start made what starts make

catalog == <<schemas, tables, columns, fks>>
people == <<perms, accounts, rows, gaps>>
faults == <<outage, raced>>
vars == <<environment, catalog, people, worker, run, faults>>

Stage == {"schema", "tables", "permissions", "emails"}
Object == {"private"} \cup Table \cup Permission \cup Account
Process == [phase : {"down", "serving"} \cup Stage, looked : BOOLEAN,
            missing : SUBSET Object, ok : BOOLEAN]
Down == [phase |-> "down", looked |-> FALSE, missing |-> {}, ok |-> FALSE]

Execution == [script : AllScripts, apply : BOOLEAN,
              phase : {"idle", "look", "swap", "again", "change", "done", "failed"},
              index : 1 .. Len(TARGETS) + 1, seen : SUBSET (Name \cup Company),
              edits : SUBSET Owned, reported : SUBSET Owned]
Idle == [script |-> "align", apply |-> FALSE, phase |-> "idle", index |-> 1,
         seen |-> {}, edits |-> {}, reported |-> {}]

TypeOK ==
  /\ environment \in Environments
  /\ schemas \subseteq {"private"} /\ tables \subseteq Table /\ columns \subseteq Column
  /\ fks \in [Owned -> SUBSET ForeignKey]
  /\ perms \subseteq Permission /\ accounts \subseteq Account
  /\ rows \subseteq Account \X Account
  /\ gaps \subseteq BOOLEAN
  /\ worker \in [Worker -> Process]
  /\ run \in [Run -> Execution]
  /\ outage \in BOOLEAN /\ raced \in BOOLEAN

Init ==
  /\ environment \in Environments
  /\ \E d \in Old :
       /\ schemas = d.schemas /\ tables = d.tables /\ columns = d.columns
       /\ perms = d.perms /\ accounts = d.accounts /\ rows = d.rows
       /\ fks = [t \in Owned |-> IF t \in d.tables
                                 THEN {[name |-> "auto", cascade |-> d.cascade]}
                                 ELSE {}]
  /\ gaps = {}
  /\ worker = [w \in Worker |-> Down]
  /\ run = [r \in Run |-> Idle]
  /\ outage = FALSE /\ raced = FALSE

-----------------------------------------------------------------------------
(* set_up_db, one transaction after the other *)

Listed == {a \in accounts : \E p \in rows : p[1] = a}
Claimed == {p[2] : p \in rows}

Wanted(s) == CASE s = "schema" -> {"private"}
               [] s = "tables" -> Table
               [] s = "permissions" -> Permission
               [] s = "emails" -> accounts

Present(s) == CASE s = "schema" -> schemas
                [] s = "tables" -> tables
                [] s = "permissions" -> perms
                [] s = "emails" -> Listed

After(s) == CASE s = "schema" -> "tables"
              [] s = "tables" -> "permissions"
              [] s = "permissions" -> "emails"
              [] s = "emails" -> "serving"

\* What the commit of a stage must not find there already.
Taken(s) == IF s = "emails" THEN Claimed ELSE Present(s)

At(w, s) == worker[w].phase = s /\ worker[w].looked
Becomes(w, phase, ok) ==
  worker' = [worker EXCEPT ![w] = [Down EXCEPT !.phase = phase, !.ok = ok]]
Passes(w) == Becomes(w, After(worker[w].phase), worker[w].phase = "emails")

Start(w) ==
  /\ worker[w].phase = "down"
  /\ Becomes(w, "schema", FALSE)
  /\ UNCHANGED <<environment, catalog, people, run, faults>>

\* Mutant: everything is inserted, whether it is there or not.
LookAway(w) ==
  LET s == worker[w].phase
  IN  /\ s \in Stage /\ ~worker[w].looked /\ Configured(environment)
      /\ worker' = [worker EXCEPT ![w].looked = TRUE, ![w].missing = Wanted(s)]
      /\ UNCHANGED <<environment, catalog, people, run, faults>>

Look(w) ==
  LET s == worker[w].phase
  IN  /\ s \in Stage /\ ~worker[w].looked /\ Configured(environment)
      /\ worker' = [worker EXCEPT ![w].looked = TRUE,
                                  ![w].missing = Wanted(s) \ Present(s)]
      /\ UNCHANGED <<environment, catalog, people, run, faults>>

Free(w) == worker[w].missing \cap Taken(worker[w].phase) = {}

CreateSchema(w) ==
  /\ At(w, "schema") /\ Free(w)
  /\ schemas' = schemas \cup worker[w].missing
  /\ Passes(w)
  /\ UNCHANGED <<environment, tables, columns, fks, people, run, faults>>

CreateTables(w) ==
  LET new == worker[w].missing \cap Table
  IN  /\ At(w, "tables") /\ Free(w)
      /\ tables' = tables \cup new
      /\ columns' = columns \cup UNION {ColumnsOf(t) : t \in new}
      /\ fks' = [t \in Owned |-> IF t \in new THEN {Created} ELSE fks[t]]
      /\ Passes(w)
      /\ UNCHANGED <<environment, schemas, people, run, faults>>

\* Mutant: the permissions are added and not committed.
LosePermissions(w) ==
  /\ At(w, "permissions") /\ Free(w)
  /\ Passes(w)
  /\ UNCHANGED <<environment, catalog, people, run, faults>>

CreatePermissions(w) ==
  /\ At(w, "permissions") /\ Free(w)
  /\ perms' = perms \cup worker[w].missing
  /\ Passes(w)
  /\ UNCHANGED <<environment, catalog, accounts, rows, gaps, run, faults>>

SeedEmails(w) ==
  /\ At(w, "emails") /\ Free(w)
  /\ rows' = rows \cup {<<a, a>> : a \in worker[w].missing}
  /\ Passes(w)
  /\ UNCHANGED <<environment, catalog, perms, accounts, gaps, run, faults>>

\* The commit meets what another one has made meanwhile; lifespan logs it and
\* lets the worker serve.
SetUpFails(w) ==
  /\ worker[w].phase \in Stage /\ worker[w].looked /\ ~Free(w)
  /\ Becomes(w, "serving", FALSE)
  /\ UNCHANGED <<environment, catalog, people, run, faults>>

\* The settings are incomplete, or the database cannot be reached.
NoDatabase(w) ==
  /\ worker[w].phase \in Stage
  /\ Becomes(w, "serving", FALSE)
  /\ outage' = TRUE
  /\ UNCHANGED <<environment, catalog, people, run, raced>>

Crash(w) ==
  /\ worker[w].phase # "down"
  /\ Becomes(w, "down", FALSE)
  /\ UNCHANGED <<environment, catalog, people, run, faults>>

-----------------------------------------------------------------------------
(* The scripts *)

Launch(r, script, apply) ==
  /\ run[r].phase = "idle" /\ script \in Scripts
  /\ run' = [run EXCEPT ![r].script = script, ![r].apply = apply, ![r].phase = "look"]
  /\ UNCHANGED <<environment, catalog, people, worker, faults>>

In(r, script, phase) == run[r].script = script /\ run[r].phase = phase
Goes(r, phase) == run' = [run EXCEPT ![r].phase = phase]
Going == {"look", "swap", "again", "change"}

\* Of an execution that has ended only what it claims to have left is kept.
Claims(r) == IF run[r].apply
             THEN [Idle EXCEPT !.phase = "done", !.apply = TRUE,
                               !.script = run[r].script, !.reported = run[r].reported]
             ELSE [Idle EXCEPT !.phase = "done"]
Failed == [Idle EXCEPT !.phase = "failed"]
Ends(r) == run' = [run EXCEPT ![r] = Claims(r)]
Fails(r) == run' = [run EXCEPT ![r] = Failed]

\* align_ownership_cascades: the tables and keys of one target are looked up,
\* and its key is replaced in the transaction that goes on to the next target.
Target(r) == TARGETS[run[r].index]
Aligning(r) == In(r, "align", "look") /\ run[r].index <= Len(TARGETS)
MissingTable(t) == t \notin tables \/ Referenced[t] \notin tables
Cascading(t) == \E k \in fks[t] : k.cascade /\ fks[t] = {k}
NamesOf(keys) == {k.name : k \in keys}

LookedUp(r) ==
  LET t == Target(r)
  IN  IF MissingTable(t) THEN [run[r] EXCEPT !.index = @ + 1]
      ELSE IF Cascading(t)
        THEN [run[r] EXCEPT !.index = @ + 1, !.reported = @ \cup {t}]
      ELSE IF run[r].apply
        THEN [run[r] EXCEPT !.phase = "swap", !.seen = NamesOf(fks[t])]
      ELSE [run[r] EXCEPT !.index = @ + 1]

LookUpTarget(r) ==
  /\ Aligning(r)
  /\ run' = [run EXCEPT ![r] = LookedUp(r)]
  /\ UNCHANGED <<environment, catalog, people, worker, faults>>

Locked(r, t) == \E q \in Run \ {r} : t \in run[q].edits

\* DROP CONSTRAINT of every name that was found, ADD CONSTRAINT of the fixed one.
SwapFits(r) ==
  LET names == NamesOf(fks[Target(r)])
  IN  run[r].seen \subseteq names /\ "fixed" \notin names \ run[r].seen

Swap(r) ==
  LET t == Target(r)
  IN  /\ In(r, "align", "swap") /\ ~Locked(r, t) /\ SwapFits(r)
      /\ run' = [run EXCEPT ![r].phase = "look", ![r].index = @ + 1, ![r].seen = {},
                            ![r].edits = @ \cup {t}, ![r].reported = @ \cup {t}]
      /\ UNCHANGED <<environment, catalog, people, worker, faults>>

SwapFails(r) ==
  /\ In(r, "align", "swap") /\ ~Locked(r, Target(r)) /\ ~SwapFits(r)
  /\ Fails(r)
  /\ UNCHANGED <<environment, catalog, people, worker, faults>>

\* Mutant: the new key is added and the old ones stay.
AddOnly(r) ==
  /\ In(r, "align", "look") /\ run[r].index = Len(TARGETS) + 1
  /\ fks' = [t \in Owned |-> IF t \in run[r].edits THEN fks[t] \cup {Replaced} ELSE fks[t]]
  /\ Ends(r)
  /\ UNCHANGED <<environment, schemas, tables, columns, people, worker, faults>>

CommitAlignment(r) ==
  /\ In(r, "align", "look") /\ run[r].index = Len(TARGETS) + 1
  /\ fks' = [t \in Owned |-> IF t \in run[r].edits THEN {Replaced} ELSE fks[t]]
  /\ Ends(r)
  /\ UNCHANGED <<environment, schemas, tables, columns, people, worker, faults>>

\* add_upload_records: the table without the columns that came later
LookUpTable(r) ==
  /\ In(r, "uploads", "look")
  /\ IF run[r].apply /\ "uploadrecord" \notin tables THEN Goes(r, "change") ELSE Ends(r)
  /\ UNCHANGED <<environment, catalog, people, worker, faults>>

CreateTable(r) ==
  /\ In(r, "uploads", "change")
  /\ tables' = tables \cup {"uploadrecord"}
  /\ raced' = TRUE
  /\ Ends(r)
  /\ UNCHANGED <<environment, schemas, columns, fks, people, worker, outage>>

\* add_communication_preferences
LookUpPreferences(r) ==
  /\ In(r, "preferences", "look")
  /\ IF run[r].apply /\ ~(Preferences \subseteq columns) THEN Goes(r, "change") ELSE Ends(r)
  /\ UNCHANGED <<environment, catalog, people, worker, faults>>

AddPreferences(r) ==
  /\ In(r, "preferences", "change") /\ "user" \in tables
  /\ columns' = columns \cup Preferences
  /\ Ends(r)
  /\ UNCHANGED <<environment, schemas, tables, fks, people, worker, faults>>

PreferencesFail(r) ==
  /\ In(r, "preferences", "change") /\ "user" \notin tables
  /\ Fails(r)
  /\ UNCHANGED <<environment, catalog, people, worker, faults>>

\* add_company_fields: main looks, and apply looks again
LookUpCompany(r) ==
  /\ In(r, "company", "look")
  /\ IF run[r].apply /\ ~(Company \subseteq columns) THEN Goes(r, "again") ELSE Ends(r)
  /\ UNCHANGED <<environment, catalog, people, worker, faults>>

LookAgain(r) ==
  /\ In(r, "company", "again")
  /\ run' = [run EXCEPT ![r].phase = "change", ![r].seen = Company \ columns]
  /\ UNCHANGED <<environment, catalog, people, worker, faults>>

CompanyFits(r) == run[r].seen = {} \/ ("uploadrecord" \in tables /\ run[r].seen \cap columns = {})

AddCompany(r) ==
  /\ In(r, "company", "change") /\ CompanyFits(r)
  /\ columns' = columns \cup (run[r].seen \cap Company)
  /\ Ends(r)
  /\ UNCHANGED <<environment, schemas, tables, fks, people, worker, faults>>

\* Mutant: the error of a column is collected and the script goes on; the
\* commit of the aborted transaction rolls it back.
CompanyGoesOn(r) ==
  /\ In(r, "company", "change") /\ ~CompanyFits(r)
  /\ Ends(r)
  /\ UNCHANGED <<environment, catalog, people, worker, faults>>

\* The handler of the error appends to a tuple, and that error ends the script.
CompanyFails(r) ==
  /\ In(r, "company", "change") /\ ~CompanyFits(r)
  /\ Fails(r)
  /\ UNCHANGED <<environment, catalog, people, worker, faults>>

\* The .env file lacks a setting, or the shell is closed; what was not committed
\* is undone.
Interrupt(r) ==
  /\ run[r].phase \in Going
  /\ Fails(r)
  /\ UNCHANGED <<environment, catalog, people, worker, faults>>

\* deploy.sh stops the workers and the database under them.
Deploy ==
  /\ worker # [w \in Worker |-> Down]
  /\ worker' = [w \in Worker |-> Down]
  /\ run' = [r \in Run |-> IF run[r].phase \in Going THEN Failed ELSE run[r]]
  /\ UNCHANGED <<environment, catalog, people, faults>>

-----------------------------------------------------------------------------
(* Requests that leave what a later start or script meets *)

\* Every page of a logged-in user selects all columns of "user".
Serves(w) ==
  /\ worker[w].phase = "serving" /\ Configured(environment)
  /\ {"account", "accountemail", "user"} \subseteq tables /\ Preferences \subseteq columns

Register(w, a) ==
  /\ Serves(w) /\ a \notin accounts /\ a \notin Claimed
  /\ accounts' = accounts \cup {a}
  /\ rows' = rows \cup {<<a, a>>}
  /\ UNCHANGED <<environment, catalog, perms, gaps, worker, run, faults>>

\* add_email and verify_email look for the address among the rows only: it may
\* be the Account.email of an account that has no row yet.  Other addresses stop
\* no start.
Verify(w, a, address) ==
  /\ Serves(w) /\ a \in accounts /\ address \in accounts \ Claimed
  /\ rows' = rows \cup {<<a, address>>}
  /\ raced' = TRUE
  /\ UNCHANGED <<environment, catalog, perms, accounts, gaps, worker, run, outage>>

\* create_default_roles gives the Owner what it finds in the permission table.
CreateOrganization(w) ==
  /\ Serves(w) /\ {"organization", "permission"} \subseteq tables
  /\ gaps' = IF perms = Permission THEN gaps ELSE gaps \cup {worker[w].ok}
  /\ UNCHANGED <<environment, catalog, perms, accounts, rows, worker, run, faults>>

-----------------------------------------------------------------------------
WorkerNext(w) ==
  \/ Start(w) \/ Look(w) \/ CreateSchema(w) \/ CreateTables(w) \/ CreatePermissions(w)
  \/ SeedEmails(w) \/ SetUpFails(w) \/ NoDatabase(w) \/ Crash(w)

RunNext(r) ==
  \/ \E s \in Scripts, apply \in BOOLEAN : Launch(r, s, apply)
  \/ LookUpTarget(r) \/ Swap(r) \/ SwapFails(r) \/ CommitAlignment(r)
  \/ LookUpTable(r) \/ CreateTable(r)
  \/ LookUpPreferences(r) \/ AddPreferences(r) \/ PreferencesFail(r)
  \/ LookUpCompany(r) \/ LookAgain(r) \/ AddCompany(r) \/ CompanyFails(r)
  \/ Interrupt(r)

Request(w) ==
  \/ \E a \in Account : Register(w, a)
  \/ \E a, address \in Account : Verify(w, a, address)
  \/ CreateOrganization(w)

Next == \/ \E w \in Worker : WorkerNext(w) \/ Request(w)
        \/ \E r \in Run : RunNext(r)
        \/ Deploy

Spec == Init /\ [][Next]_vars

-----------------------------------------------------------------------------
(* Properties *)

Ready == /\ schemas = {"private"} /\ tables = Table
         /\ perms = Permission /\ accounts \subseteq Listed

\* Workers that start together get in each other's way: set_up_db looks and
\* creates in two steps and unique constraints refuse the second one to come.
\* Unless a database cannot be reached or something else creates what starts
\* create, once all serve one of them has done everything, however often any of
\* them died and started again.
SomebodySetsUp ==
  (~outage /\ ~raced /\ \A w \in Worker : worker[w].phase = "serving")
     => \E w \in Worker : worker[w].ok /\ Ready

\* main.py logs a failed set-up and serves.  An organization whose Owner lacks a
\* permission for good, because create_default_roles found the table of
\* permissions incomplete, was made by a worker whose own set-up had failed.
GapHasCause == TRUE \notin gaps

\* What a script that was applied and ended well says it has left is there, and
\* stays: the keys it lists cascade, the table exists, the columns exist -- also
\* when two executions, a start or a kill came between its look and its commit.
Holds(e) == CASE e.script = "align" -> \A t \in e.reported : Cascading(t)
              [] e.script = "uploads" -> "uploadrecord" \in tables
              [] e.script = "preferences" -> Preferences \subseteq columns
              [] e.script = "company" -> Company \subseteq columns

ReportHolds ==
  \A r \in Run : run[r].phase = "done" /\ run[r].apply => Holds(run[r])

\* align_ownership_cascades drops keys and adds its own: however it is raced,
\* repeated or killed, a table has exactly one key to its owner.
OneKey == \A t \in tables \cap Owned : \E k \in ForeignKey : fks[t] = {k}

-----------------------------------------------------------------------------
(* The inductive invariant: what the worker and execution records remember. *)

\* A worker has done the stages before its own, and ok says it has done all.
StagesDone ==
  \A w \in Worker :
    /\ worker[w].phase \in {"tables", "permissions", "emails"} => schemas = {"private"}
    /\ worker[w].phase \in {"permissions", "emails"} => tables = Table
    /\ worker[w].phase = "emails" => perms = Permission
    /\ worker[w].ok => worker[w].phase = "serving" /\ Ready

\* What a look found missing is still all that may be missing.
LooksCover ==
  \A w \in Worker : worker[w].looked =>
    /\ worker[w].phase \in Stage
    /\ worker[w].missing \subseteq Wanted(worker[w].phase)
    /\ Wanted(worker[w].phase) \subseteq Present(worker[w].phase) \cup worker[w].missing

\* A worker is out when its set-up has failed, or will.
Out(w) == \/ worker[w].phase = "serving" /\ ~worker[w].ok
          \/ worker[w].looked /\ ~Free(w)
OneIsLeft == ~outage /\ ~raced => \E w \in Worker : ~Out(w)

NoneClaimed == ~raced => \A p \in rows : p[2] \in accounts => p[2] \in Listed

\* What an execution is going to claim is there or among its own edits.
ClaimsKept ==
  \A r \in Run :
    /\ In(r, "align", "swap") => run[r].index <= Len(TARGETS)
    /\ \A t \in run[r].reported : t \in run[r].edits \/ Cascading(t)
    /\ In(r, "company", "change") => Company \subseteq columns \cup run[r].seen
    /\ run[r].edits # {} => run[r].script = "align" /\ run[r].phase \in {"look", "swap"}
    /\ run[r].phase = "done" /\ run[r].apply => Holds(run[r])

IInv == /\ TypeOK /\ StagesDone /\ LooksCover /\ OneIsLeft /\ NoneClaimed
        /\ OneKey /\ ClaimsKept /\ GapHasCause
=============================================================================
