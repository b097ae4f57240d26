----------------------------- MODULE StartupProofs -----------------------------
(***************************************************************************)
(* Proofs about Startup, for any workers, script executions, permissions,    *)
(* accounts, earlier databases and settings.  Everything rests on IInv.  The *)
(* catalog only grows (Grows), so what a worker has done or an execution has *)
(* claimed stays; of the workers one is always left that nobody has          *)
(* overtaken since it looked, because only a worker that goes on overtakes.  *)
(***************************************************************************)
EXTENDS Startup, TLAPS

LEMMA BecomesTyped ==
  ASSUME TypeOK, NEW w \in Worker, NEW ph \in {"down", "serving"} \cup Stage,
         NEW ok \in BOOLEAN, Becomes(w, ph, ok)
  PROVE  /\ worker' \in [Worker -> Process]
         /\ worker'[w] = [phase |-> ph, looked |-> FALSE, missing |-> {}, ok |-> ok]
         /\ \A v \in Worker \ {w} : worker'[v] = worker[v]
  BY DEF Becomes, Down, TypeOK, Process

LEMMA PassesTyped ==
  ASSUME TypeOK, NEW w \in Worker, worker[w].phase \in Stage, Passes(w)
  PROVE  /\ worker' \in [Worker -> Process]
         /\ worker'[w] = [phase |-> After(worker[w].phase), looked |-> FALSE,
                          missing |-> {}, ok |-> worker[w].phase = "emails"]
         /\ \A v \in Worker \ {w} : worker'[v] = worker[v]
<1>1. After(worker[w].phase) \in {"down", "serving"} \cup Stage
  BY DEF After, Stage
<1>2. QED  BY <1>1, BecomesTyped DEF Passes

LEMMA EndsTyped ==
  ASSUME TypeOK, NEW r \in Run, Ends(r) \/ Fails(r)
  PROVE  run' \in [Run -> Execution]
<1>1. Idle \in Execution  BY DEF Idle, Execution, AllScripts, TARGETS, Name
<1>2. Claims(r) \in Execution
  <2>1. run[r] \in Execution  BY DEF TypeOK
  <2>2. QED  BY <1>1, <2>1 DEF Claims, Idle, Execution, AllScripts
<1>3. Failed \in Execution  BY <1>1 DEF Failed, Idle, Execution
<1>4. QED  BY <1>2, <1>3 DEF Ends, Fails, TypeOK

-----------------------------------------------------------------------------
(* What the steps of each actor leave alone *)

Catalogue == <<schemas, tables, perms, accounts, rows>>

\* Only add_upload_records changes what starts look for, and says so.
LEMMA RunFrame ==
  ASSUME NEW r \in Run, RunNext(r)
  PROVE  /\ UNCHANGED <<environment, schemas, perms, accounts, rows, gaps, worker, outage>>
         /\ \/ UNCHANGED <<tables, raced>>
            \/ tables' = tables \cup {"uploadrecord"} /\ raced'
  BY DEF RunNext, Launch, LookUpTarget, Swap, SwapFails, CommitAlignment, LookUpTable,
         CreateTable, LookUpPreferences, AddPreferences, PreferencesFail, LookUpCompany,
         LookAgain, AddCompany, CompanyFails, Interrupt, catalog, people, faults

\* Workers leave the executions alone, and keys but of the tables they create.
LEMMA WorkerFrame ==
  ASSUME NEW w \in Worker, WorkerNext(w) \/ Request(w)
  PROVE  /\ UNCHANGED <<environment, run>>
         /\ \/ UNCHANGED <<tables, columns, fks>>
            \/ CreateTables(w)
  BY DEF WorkerNext, Request, Start, Look, CreateSchema, CreateTables, CreatePermissions,
         SeedEmails, SetUpFails, NoDatabase, Crash, Register, Verify, CreateOrganization,
         catalog, people, faults

\* The requests leave the workers alone, and rows but those they add.
LEMMA RequestFrame ==
  ASSUME NEW w \in Worker, Request(w)
  PROVE  /\ UNCHANGED <<worker, schemas, tables, perms, outage>>
         /\ \/ UNCHANGED <<accounts, rows, raced>>
            \/ /\ raced' /\ accounts' = accounts
               /\ \E a, x \in Account : a \in accounts /\ rows' = rows \cup {<<a, x>>}
            \/ \E a \in Account \ accounts : /\ accounts' = accounts \cup {a}
                                             /\ rows' = rows \cup {<<a, a>>}
                                             /\ raced' = raced
  BY DEF Request, Register, Verify, CreateOrganization, catalog, people, faults

\* The actions of a worker that change nothing but the worker itself.
LEMMA QuietFrame ==
  ASSUME NEW w \in Worker,
         Start(w) \/ Look(w) \/ SetUpFails(w) \/ NoDatabase(w) \/ Crash(w)
  PROVE  UNCHANGED <<Catalogue, columns, fks, gaps, raced>>
  BY DEF Start, Look, SetUpFails, NoDatabase, Crash, Catalogue, catalog, people, faults

-----------------------------------------------------------------------------
(* Types *)

LEMMA InitTypes == Init => TypeOK
<1> SUFFICES ASSUME Init PROVE TypeOK  OBVIOUS
<1>1. PICK d \in Old :
        /\ schemas = d.schemas /\ tables = d.tables /\ columns = d.columns
        /\ perms = d.perms /\ accounts = d.accounts /\ rows = d.rows
        /\ fks = [t \in Owned |-> IF t \in d.tables
                                  THEN {[name |-> "auto", cascade |-> d.cascade]}
                                  ELSE {}]
  BY DEF Init
<1>2. IsOld(d)  BY StartupConstants
<1>3. fks \in [Owned -> SUBSET ForeignKey]  BY <1>1, <1>2 DEF IsOld, ForeignKey, Name
<1>4. columns \subseteq Column
  <2>1. \A t \in Table : ColumnsOf(t) \subseteq Column  BY DEF ColumnsOf, Column
  <2>2. QED  BY <1>1, <1>2, <2>1 DEF IsOld
<1>5. rows \subseteq Account \X Account  BY <1>1, <1>2 DEF IsOld
<1>6. Down \in Process  BY DEF Down, Process
<1>7. Idle \in Execution  BY DEF Idle, Execution, AllScripts, TARGETS, Name
<1>8. QED  BY <1>1, <1>2, <1>3, <1>4, <1>5, <1>6, <1>7 DEF Init, TypeOK, IsOld

LEMMA QuietTypes ==
  ASSUME TypeOK, NEW w \in Worker,
         Start(w) \/ Look(w) \/ SetUpFails(w) \/ NoDatabase(w) \/ Crash(w)
  PROVE  TypeOK'
<1>1. UNCHANGED <<environment, Catalogue, columns, fks, gaps, raced, run>> /\ outage' \in BOOLEAN
  <2>1. UNCHANGED <<Catalogue, columns, fks, gaps, raced>>  BY QuietFrame
  <2>2. UNCHANGED <<environment, run>> /\ outage' \in BOOLEAN
    BY DEF Start, Look, SetUpFails, NoDatabase, Crash, faults, TypeOK
  <2>3. QED  BY <2>1, <2>2
<1>2. worker' \in [Worker -> Process]
  <2>1. CASE Start(w)  BY <2>1, BecomesTyped DEF Start, Stage
  <2>2. CASE Look(w)
    <3>1. Wanted(worker[w].phase) \subseteq Object
      BY <2>2 DEF Look, Wanted, Object, Stage, TypeOK
    <3>2. worker[w] \in Process  BY DEF TypeOK
    <3>3. QED  BY <2>2, <3>1, <3>2 DEF Look, TypeOK, Process
  <2>3. CASE SetUpFails(w)  BY <2>3, BecomesTyped DEF SetUpFails
  <2>4. CASE NoDatabase(w)  BY <2>4, BecomesTyped DEF NoDatabase
  <2>5. CASE Crash(w)  BY <2>5, BecomesTyped DEF Crash
  <2>6. QED  BY <2>1, <2>2, <2>3, <2>4, <2>5
<1>3. QED  BY <1>1, <1>2 DEF TypeOK, Catalogue

LEMMA CommitTypes ==
  ASSUME TypeOK, LooksCover, NEW w \in Worker,
         CreateSchema(w) \/ CreateTables(w) \/ CreatePermissions(w) \/ SeedEmails(w)
  PROVE  TypeOK'
<1>1. worker[w].phase \in Stage /\ worker[w].looked /\ Passes(w)
  BY DEF CreateSchema, CreateTables, CreatePermissions, SeedEmails, At, Stage
<1>2. worker' \in [Worker -> Process]  BY <1>1, PassesTyped
<1>3. worker[w].missing \subseteq Wanted(worker[w].phase)  BY <1>1 DEF LooksCover
<1>4. CASE CreateSchema(w)
  <2>1. worker[w].missing \subseteq {"private"}  BY <1>3, <1>4 DEF CreateSchema, At, Wanted
  <2>2. QED  BY <1>2, <1>4, <2>1 DEF CreateSchema, TypeOK, people, faults
<1>5. CASE CreateTables(w)
  <2>1. \A t \in Table : ColumnsOf(t) \subseteq Column  BY DEF ColumnsOf, Column
  <2>2. columns' \subseteq Column  BY <1>5, <2>1 DEF CreateTables, TypeOK
  <2>3. Created \in ForeignKey  BY DEF Created, ForeignKey, Name
  <2>4. fks' \in [Owned -> SUBSET ForeignKey]  BY <1>5, <2>3 DEF CreateTables, TypeOK
  <2>5. QED  BY <1>2, <1>5, <2>2, <2>4 DEF CreateTables, TypeOK, people, faults
<1>6. CASE CreatePermissions(w)
  <2>1. worker[w].missing \subseteq Permission
    BY <1>3, <1>6 DEF CreatePermissions, At, Wanted
  <2>2. QED  BY <1>2, <1>6, <2>1 DEF CreatePermissions, TypeOK, catalog, faults
<1>7. CASE SeedEmails(w)
  <2>1. worker[w].missing \subseteq Account
    BY <1>3, <1>7 DEF SeedEmails, At, Wanted, TypeOK
  <2>2. rows' \subseteq Account \X Account  BY <1>7, <2>1 DEF SeedEmails, TypeOK
  <2>3. QED  BY <1>2, <1>7, <2>2 DEF SeedEmails, TypeOK, catalog, faults
<1>8. QED  BY <1>4, <1>5, <1>6, <1>7

LEMMA RequestTypes ==
  ASSUME TypeOK, NEW w \in Worker, Request(w)
  PROVE  TypeOK'
<1>1. UNCHANGED <<environment, schemas, tables, columns, fks, perms, worker, run, outage>>
  BY DEF Request, Register, Verify, CreateOrganization, catalog, faults
<1>2. accounts' \subseteq Account /\ rows' \subseteq Account \X Account
  BY DEF Request, Register, Verify, CreateOrganization, TypeOK
<1>3. gaps' \subseteq BOOLEAN /\ raced' \in BOOLEAN
  <2>1. worker[w].ok \in BOOLEAN  BY DEF TypeOK, Process
  <2>2. QED  BY <2>1 DEF Request, Register, Verify, CreateOrganization, TypeOK, faults
<1>4. QED  BY <1>1, <1>2, <1>3 DEF TypeOK

LEMMA RunTypes ==
  ASSUME TypeOK, ClaimsKept, NEW r \in Run, RunNext(r)
  PROVE  TypeOK'
<1>1. tables' \subseteq Table /\ raced' \in BOOLEAN
  BY RunFrame DEF TypeOK, Table
<1>2. columns' \subseteq Column /\ fks' \in [Owned -> SUBSET ForeignKey]
  <2>1. Replaced \in ForeignKey  BY DEF Replaced, ForeignKey, Name
  <2>2. Preferences \subseteq Column /\ Company \subseteq Column  BY DEF Column
  <2>3. QED
    BY <2>1, <2>2 DEF RunNext, Launch, LookUpTarget, Swap, SwapFails, CommitAlignment,
       LookUpTable, CreateTable, LookUpPreferences, AddPreferences, PreferencesFail,
       LookUpCompany, LookAgain, AddCompany, CompanyFails, Interrupt, catalog, TypeOK
<1>3. run' \in [Run -> Execution]
  <2>1. run[r] \in Execution  BY DEF TypeOK
  <2>2. CASE \E s \in Scripts, apply \in BOOLEAN : Launch(r, s, apply)
    BY <2>1, <2>2, StartupConstants DEF Launch, TypeOK, Execution
  <2>3. CASE LookUpTarget(r)
    <3>1. Target(r) \in Owned /\ run[r].index + 1 \in 1 .. Len(TARGETS) + 1
      BY <2>1, <2>3 DEF LookUpTarget, Aligning, Target, TARGETS, Owned, Execution
    <3>2. NamesOf(fks[Target(r)]) \subseteq Name
      BY <3>1 DEF NamesOf, TypeOK, ForeignKey
    <3>3. /\ [run[r] EXCEPT !.index = @ + 1] \in Execution
          /\ [run[r] EXCEPT !.index = @ + 1, !.reported = @ \cup {Target(r)}] \in Execution
      BY <2>1, <3>1 DEF Execution
    <3>4. [run[r] EXCEPT !.phase = "swap", !.seen = NamesOf(fks[Target(r)])] \in Execution
      BY <2>1, <3>2 DEF Execution
    <3>5. LookedUp(r) \in Execution  BY <2>1, <3>3, <3>4 DEF LookedUp
    <3>6. QED  BY <2>3, <3>5 DEF LookUpTarget, TypeOK
  <2>4. CASE Swap(r)
    <3>1. Target(r) \in Owned /\ run[r].index + 1 \in 1 .. Len(TARGETS) + 1
      BY <2>1, <2>4 DEF Swap, ClaimsKept, In, Target, TARGETS, Owned, Execution
    <3>2. QED  BY <2>1, <2>4, <3>1 DEF Swap, TypeOK, Execution
  <2>5. CASE Ends(r) \/ Fails(r)  BY <2>5, EndsTyped
  <2>6. CASE \E ph \in {"change", "again"} : Goes(r, ph)
    <3>1. PICK ph \in {"change", "again"} : Goes(r, ph)  BY <2>6
    <3>2. run' = [run EXCEPT ![r] = [run[r] EXCEPT !.phase = ph]]
      BY <3>1 DEF Goes, TypeOK
    <3>3. [run[r] EXCEPT !.phase = ph] \in Execution  BY <2>1 DEF Execution
    <3>4. QED  BY <3>2, <3>3 DEF TypeOK
  <2>7. CASE LookAgain(r)
    <3>1. run' = [run EXCEPT ![r] =
                    [run[r] EXCEPT !.phase = "change", !.seen = Company \ columns]]
      BY <2>7 DEF LookAgain, TypeOK
    <3>2. [run[r] EXCEPT !.phase = "change", !.seen = Company \ columns] \in Execution
      BY <2>1 DEF Execution
    <3>3. QED  BY <3>1, <3>2 DEF TypeOK
  <2>8. QED
    BY <2>2, <2>3, <2>4, <2>5, <2>6, <2>7
    DEF RunNext, SwapFails, CommitAlignment, LookUpTable, CreateTable, LookUpPreferences,
        AddPreferences, PreferencesFail, LookUpCompany, AddCompany, CompanyFails, Interrupt
<1>4. QED  BY <1>1, <1>2, <1>3, RunFrame DEF TypeOK

LEMMA DeployTypes == TypeOK /\ Deploy => TypeOK'
<1>1. Down \in Process  BY DEF Down, Process
<1>2. Failed \in Execution
  <2>1. Idle \in Execution  BY DEF Idle, Execution, AllScripts, TARGETS, Name
  <2>2. QED  BY <2>1 DEF Failed, Idle, Execution
<1>3. QED  BY <1>1, <1>2 DEF Deploy, TypeOK, catalog, people, faults

LEMMA Types == TypeOK /\ LooksCover /\ ClaimsKept /\ [Next]_vars => TypeOK'
<1> SUFFICES ASSUME TypeOK, LooksCover, ClaimsKept, [Next]_vars PROVE TypeOK'  OBVIOUS
<1>1. ASSUME NEW w \in Worker, WorkerNext(w) PROVE TypeOK'
  BY <1>1, QuietTypes, CommitTypes DEF WorkerNext
<1>2. ASSUME UNCHANGED vars PROVE TypeOK'
  BY <1>2 DEF vars, catalog, people, faults, TypeOK
<1>3. QED  BY <1>1, <1>2, RequestTypes, RunTypes, DeployTypes DEF Next

-----------------------------------------------------------------------------
(* Nothing is ever taken away, and a key that cascades goes on doing so *)

Grown == /\ schemas \subseteq schemas' /\ tables \subseteq tables'
         /\ columns \subseteq columns' /\ perms \subseteq perms'
         /\ accounts \subseteq accounts' /\ rows \subseteq rows'
         /\ accounts' \subseteq accounts \cup Listed'
         /\ (outage => outage') /\ (raced => raced')

LEMMA WorkerGrows ==
  ASSUME TypeOK, NEW w \in Worker, WorkerNext(w)
  PROVE  Grown
<1>1. CASE Start(w) \/ Look(w) \/ SetUpFails(w) \/ NoDatabase(w) \/ Crash(w)
  <2>1. outage => outage'
    BY <1>1 DEF Start, Look, SetUpFails, NoDatabase, Crash, faults
  <2>2. QED  BY <1>1, <2>1, QuietFrame DEF Grown, Catalogue
<1>2. CASE CreateSchema(w)  BY <1>2 DEF CreateSchema, Grown, people, faults
<1>3. CASE CreateTables(w)  BY <1>3 DEF CreateTables, Grown, people, faults
<1>4. CASE CreatePermissions(w)  BY <1>4 DEF CreatePermissions, Grown, catalog, faults
<1>5. CASE SeedEmails(w)  BY <1>5 DEF SeedEmails, Grown, catalog, faults
<1>6. QED  BY <1>1, <1>2, <1>3, <1>4, <1>5 DEF WorkerNext

LEMMA RequestGrows ==
  ASSUME TypeOK, NEW w \in Worker, Request(w)
  PROVE  Grown
<1>1. UNCHANGED <<worker, schemas, tables, perms, outage>>  BY RequestFrame
<1>2. columns' = columns
  BY DEF Request, Register, Verify, CreateOrganization, catalog
<1>3. raced => raced'  BY RequestFrame
<1>4. rows \subseteq rows' /\ accounts \subseteq accounts'  BY RequestFrame
<1>5. accounts' \subseteq accounts \cup Listed'
  <2>1. ASSUME NEW a \in Account, accounts' = accounts \cup {a}, rows' = rows \cup {<<a, a>>}
        PROVE  accounts' \subseteq accounts \cup Listed'
    <3>1. <<a, a>> \in rows' /\ <<a, a>>[1] = a  BY <2>1
    <3>2. a \in accounts' => a \in Listed'  BY <3>1 DEF Listed
    <3>3. QED  BY <2>1, <3>2
  <2>2. QED  BY <2>1, RequestFrame
<1>6. QED  BY <1>1, <1>2, <1>3, <1>4, <1>5 DEF Grown

LEMMA RunGrows ==
  ASSUME TypeOK, NEW r \in Run, RunNext(r)
  PROVE  Grown
<1>1. columns \subseteq columns'
  BY DEF RunNext, Launch, LookUpTarget, Swap, SwapFails, CommitAlignment, LookUpTable,
         CreateTable, LookUpPreferences, AddPreferences, PreferencesFail, LookUpCompany,
         LookAgain, AddCompany, CompanyFails, Interrupt, catalog
<1>2. QED  BY <1>1, RunFrame DEF Grown

LEMMA Grows == TypeOK /\ [Next]_vars => Grown
<1>1. Deploy => Grown  BY DEF Deploy, Grown, catalog, people, faults
<1>2. UNCHANGED vars => Grown  BY DEF vars, Grown, catalog, people, faults
<1>3. QED  BY <1>1, <1>2, WorkerGrows, RequestGrows, RunGrows DEF Next

LEMMA ListedGrows == Grown => Listed \subseteq Listed' /\ Claimed \subseteq Claimed'
  BY DEF Grown, Listed, Claimed

LEMMA PresentGrows ==
  ASSUME Grown, NEW s \in Stage
  PROVE  /\ Present(s) \subseteq Present(s)'
         /\ Wanted(s) \subseteq Wanted(s)'
         /\ Wanted(s)' \subseteq Wanted(s) \cup Present(s)'
  BY ListedGrows DEF Grown, Present, Wanted, Stage

LEMMA ReadyStays == TypeOK' /\ Ready /\ Grown => Ready'
  BY ListedGrows DEF TypeOK, Ready, Grown

LEMMA CascadesStay ==
  ASSUME TypeOK, [Next]_vars, NEW t \in Owned, Cascading(t)
  PROVE  Cascading(t)'
<1>1. CASE fks' = fks  BY <1>1 DEF Cascading
<1>2. CASE fks'[t] \in {fks[t], {Created}, {Replaced}}
  BY <1>2 DEF Cascading, Created, Replaced
<1>3. ASSUME NEW w \in Worker, WorkerNext(w) \/ Request(w) PROVE Cascading(t)'
  <2>1. CASE CreateTables(w)  BY <1>2, <2>1 DEF CreateTables
  <2>2. QED  BY <1>1, <1>3, <2>1, WorkerFrame
<1>4. ASSUME NEW r \in Run, RunNext(r) PROVE Cascading(t)'
  <2>1. CASE CommitAlignment(r)  BY <1>2, <2>1 DEF CommitAlignment
  <2>2. CASE ~CommitAlignment(r)
    <3>1. fks' = fks
      BY <1>4, <2>2 DEF RunNext, Launch, LookUpTarget, Swap, SwapFails, LookUpTable,
         CreateTable, LookUpPreferences, AddPreferences, PreferencesFail, LookUpCompany,
         LookAgain, AddCompany, CompanyFails, Interrupt, catalog
    <3>2. QED  BY <1>1, <3>1
  <2>3. QED  BY <2>1, <2>2
<1>5. CASE Deploy \/ UNCHANGED vars
  <2>1. fks' = fks  BY <1>5 DEF Deploy, vars, catalog
  <2>2. QED  BY <1>1, <2>1
<1>6. QED  BY <1>3, <1>4, <1>5 DEF Next

LEMMA HoldsStays ==
  ASSUME TypeOK, [Next]_vars, NEW e \in Execution, Holds(e)
  PROVE  Holds(e)'
<1>1. Grown  BY Grows
<1>2. CASE e.script = "align"
  <2>1. \A t \in e.reported : t \in Owned /\ Cascading(t)  BY <1>2 DEF Execution, Holds
  <2>2. \A t \in e.reported : Cascading(t)'  BY <2>1, CascadesStay
  <2>3. QED  BY <1>2, <2>2 DEF Holds
<1>3. CASE e.script # "align"
  BY <1>1, <1>3 DEF Execution, AllScripts, Holds, Grown
<1>4. QED  BY <1>2, <1>3

-----------------------------------------------------------------------------
(* What a step of one worker does to that worker *)

\* A stage that is committed leaves nothing of it missing.
LEMMA StageDone ==
  ASSUME TypeOK, StagesDone, LooksCover, NEW w \in Worker,
         CreateSchema(w) \/ CreateTables(w) \/ CreatePermissions(w) \/ SeedEmails(w),
         TypeOK', Grown
  PROVE  /\ worker'[w].phase \in {"tables", "permissions", "emails"} => schemas' = {"private"}
         /\ worker'[w].phase \in {"permissions", "emails"} => tables' = Table
         /\ worker'[w].phase = "emails" => perms' = Permission
         /\ worker'[w].ok => worker'[w].phase = "serving" /\ Ready'
         /\ ~worker'[w].looked
         /\ worker'[w].phase = "serving" => worker'[w].ok
<1> DEFINE s == worker[w].phase
<1>1. s \in Stage /\ worker[w].looked /\ Passes(w)
  BY DEF CreateSchema, CreateTables, CreatePermissions, SeedEmails, At, Stage
<1>2. /\ worker'[w].phase = After(s) /\ ~worker'[w].looked
      /\ worker'[w].ok = (s = "emails")
  <2> DEFINE e == [phase |-> After(s), looked |-> FALSE, missing |-> {}, ok |-> s = "emails"]
  <2>1. worker'[w] = e  BY <1>1, PassesTyped
  <2>2. e.phase = After(s) /\ ~e.looked  OBVIOUS
  <2>3. e.ok = (s = "emails")  BY Zenon
  <2> HIDE DEF e
  <2>4. QED  BY <2>1, <2>2, <2>3
<1>3. Wanted(s) \subseteq Present(s) \cup worker[w].missing /\ worker[w].missing \subseteq Wanted(s)
  BY <1>1 DEF LooksCover
<1>4. CASE CreateSchema(w)
  <2>1. s = "schema" /\ schemas' = schemas \cup worker[w].missing
    BY <1>4 DEF CreateSchema, At
  <2>2. {"private"} \subseteq schemas'  BY <1>3, <2>1 DEF Wanted, Present
  <2>3. schemas' = {"private"}  BY <2>2 DEF TypeOK
  <2>4. QED  BY <1>2, <2>1, <2>3 DEF After
<1>5. CASE CreateTables(w)
  <2>1. s = "tables" /\ tables' = tables \cup (worker[w].missing \cap Table) /\ schemas' = schemas
    BY <1>5 DEF CreateTables, At
  <2>2. Table \subseteq tables'  BY <1>3, <2>1 DEF Wanted, Present
  <2>3. tables' = Table  BY <2>2 DEF TypeOK
  <2>4. schemas' = {"private"}  BY <2>1 DEF StagesDone
  <2>5. QED  BY <1>2, <2>1, <2>3, <2>4 DEF After
<1>6. CASE CreatePermissions(w)
  <2>1. s = "permissions" /\ perms' = perms \cup worker[w].missing
        /\ schemas' = schemas /\ tables' = tables
    BY <1>6 DEF CreatePermissions, At, catalog
  <2>2. Permission \subseteq perms'  BY <1>3, <2>1 DEF Wanted, Present
  <2>3. perms' = Permission  BY <2>2 DEF TypeOK
  <2>4. schemas' = {"private"} /\ tables' = Table  BY <2>1 DEF StagesDone
  <2>5. QED  BY <1>2, <2>1, <2>3, <2>4 DEF After
<1>7. CASE SeedEmails(w)
  <2>1. s = "emails" /\ rows' = rows \cup {<<a, a>> : a \in worker[w].missing}
        /\ schemas' = schemas /\ tables' = tables /\ perms' = perms /\ accounts' = accounts
    BY <1>7 DEF SeedEmails, At, catalog
  <2>2. schemas' = {"private"} /\ tables' = Table /\ perms' = Permission
    BY <2>1 DEF StagesDone
  <2>3. ASSUME NEW a \in accounts PROVE a \in Listed'
    <3>1. CASE a \in Listed  BY <3>1, ListedGrows
    <3>2. CASE a \in worker[w].missing
      <4>1. <<a, a>> \in rows' /\ <<a, a>>[1] = a  BY <2>1, <3>2
      <4>2. QED  BY <2>1, <4>1 DEF Listed
    <3>3. QED  BY <1>3, <2>1, <3>1, <3>2 DEF Wanted, Present
  <2>4. Ready'  BY <2>1, <2>2, <2>3 DEF Ready
  <2>5. QED  BY <1>2, <2>1, <2>4 DEF After
<1>8. QED  BY <1>4, <1>5, <1>6, <1>7

\* A start, a failure and a crash forget everything.
LEMMA Restarts ==
  ASSUME TypeOK, NEW w \in Worker, Start(w) \/ SetUpFails(w) \/ NoDatabase(w) \/ Crash(w)
  PROVE  /\ worker'[w].phase \in {"schema", "serving", "down"}
         /\ ~worker'[w].ok /\ ~worker'[w].looked
         /\ Start(w) \/ Crash(w) => worker'[w].phase # "serving"
<1>1. PICK ph \in {"schema", "serving", "down"} :
        Becomes(w, ph, FALSE) /\ (Start(w) \/ Crash(w) => ph # "serving")
  BY DEF Start, SetUpFails, NoDatabase, Crash, Stage
<1>2. worker'[w] = [phase |-> ph, looked |-> FALSE, missing |-> {}, ok |-> FALSE]
  BY <1>1, BecomesTyped DEF Stage
<1>3. QED  BY <1>1, <1>2

LEMMA Looks ==
  ASSUME TypeOK, NEW w \in Worker, Look(w)
  PROVE  /\ worker[w].phase \in Stage
         /\ worker'[w] = [worker[w] EXCEPT !.looked = TRUE,
                            !.missing = Wanted(worker[w].phase) \ Present(worker[w].phase)]
  BY DEF Look, TypeOK, Process

LEMMA OthersStay ==
  ASSUME TypeOK, NEW w \in Worker, WorkerNext(w), NEW v \in Worker \ {w}
  PROVE  worker'[v] = worker[v]
<1>1. CASE Look(w)  BY <1>1 DEF Look, TypeOK
<1>2. CASE ~Look(w)
  BY <1>2 DEF WorkerNext, Start, CreateSchema, CreateTables, CreatePermissions, SeedEmails,
     SetUpFails, NoDatabase, Crash, Passes, Becomes, TypeOK
<1>3. QED  BY <1>1, <1>2

Commits(w) == CreateSchema(w) \/ CreateTables(w) \/ CreatePermissions(w) \/ SeedEmails(w)
Forgets(w) == Start(w) \/ SetUpFails(w) \/ NoDatabase(w) \/ Crash(w)

LEMMA WorkerKinds ==
  ASSUME NEW w \in Worker, WorkerNext(w)
  PROVE  Commits(w) \/ Forgets(w) \/ Look(w)
  BY DEF WorkerNext, Commits, Forgets

\* Who moves the workers: one of them, or a deployment; nobody else.
LEMMA WorkersMove ==
  ASSUME TypeOK, [Next]_vars
  PROVE  \/ \E w \in Worker : WorkerNext(w)
         \/ Deploy
         \/ worker' = worker
<1>1. \A w \in Worker : Request(w) => worker' = worker  BY RequestFrame
<1>2. \A r \in Run : RunNext(r) => worker' = worker  BY RunFrame
<1>3. UNCHANGED vars => worker' = worker  BY DEF vars
<1>4. QED  BY <1>1, <1>2, <1>3 DEF Next

-----------------------------------------------------------------------------
LEMMA StagesDoneStays ==
  ASSUME TypeOK, StagesDone, LooksCover, [Next]_vars, TypeOK'
  PROVE  StagesDone'
<1> DEFINE P(v) == /\ worker[v].phase \in {"tables", "permissions", "emails"} => schemas = {"private"}
                   /\ worker[v].phase \in {"permissions", "emails"} => tables = Table
                   /\ worker[v].phase = "emails" => perms = Permission
                   /\ worker[v].ok => worker[v].phase = "serving" /\ Ready
<1>1. Grown  BY Grows
<1>2. ASSUME NEW v \in Worker, worker'[v].phase = worker[v].phase, worker'[v].ok = worker[v].ok
      PROVE  P(v)'
  <2>1. P(v)  BY DEF StagesDone
  <2>2. schemas = {"private"} => schemas' = {"private"}  BY <1>1 DEF Grown, TypeOK
  <2>3. tables = Table => tables' = Table  BY <1>1 DEF Grown, TypeOK
  <2>4. perms = Permission => perms' = Permission  BY <1>1 DEF Grown, TypeOK
  <2>5. Ready => Ready'  BY <1>1, ReadyStays
  <2>6. QED  BY <1>2, <2>1, <2>2, <2>3, <2>4, <2>5
<1>3. ASSUME NEW v \in Worker, worker'[v].phase \in {"schema", "serving", "down"}, ~worker'[v].ok
      PROVE  P(v)'
  BY <1>3
<1>4. ASSUME NEW w \in Worker, WorkerNext(w), NEW v \in Worker PROVE P(v)'
  <2>1. CASE v # w
    <3>1. worker'[v] = worker[v]  BY <1>4, <2>1, OthersStay
    <3>2. QED  BY <1>2, <3>1
  <2>2. CASE v = w /\ Commits(w)  BY <1>1, <2>2, StageDone DEF Commits
  <2>3. CASE v = w /\ Forgets(w)
    <3>1. worker'[v].phase \in {"schema", "serving", "down"} /\ ~worker'[v].ok
      BY <2>3, Restarts DEF Forgets
    <3>2. QED  BY <1>3, <3>1
  <2>4. CASE v = w /\ Look(w)
    <3>1. worker[v] \in Process  BY DEF TypeOK
    <3>2. worker'[v].phase = worker[v].phase /\ worker'[v].ok = worker[v].ok
      BY <2>4, <3>1, Looks DEF Process
    <3>3. QED  BY <1>2, <3>2
  <2>5. QED  BY <1>4, <2>1, <2>2, <2>3, <2>4, WorkerKinds
<1>5. ASSUME Deploy, NEW v \in Worker PROVE P(v)'
  BY <1>3, <1>5 DEF Deploy, Down
<1>6. ASSUME worker' = worker, NEW v \in Worker PROVE P(v)'
  BY <1>2, <1>6
<1>7. \A v \in Worker : P(v)'  BY <1>4, <1>5, <1>6, WorkersMove
<1>8. QED  BY <1>7 DEF StagesDone

LEMMA LooksCoverStays ==
  ASSUME TypeOK, StagesDone, LooksCover, [Next]_vars, TypeOK'
  PROVE  LooksCover'
<1> DEFINE P(v) == worker[v].looked =>
                     /\ worker[v].phase \in Stage
                     /\ worker[v].missing \subseteq Wanted(worker[v].phase)
                     /\ Wanted(worker[v].phase) \subseteq Present(worker[v].phase) \cup worker[v].missing
<1>1. Grown  BY Grows
<1>2. ASSUME NEW v \in Worker, worker'[v] = worker[v] PROVE P(v)'
  <2>1. CASE worker[v].looked
    <3>1. P(v) /\ worker[v].phase \in Stage  BY <2>1 DEF LooksCover
    <3> DEFINE s == worker[v].phase
    <3>2. /\ Present(s) \subseteq Present(s)' /\ Wanted(s) \subseteq Wanted(s)'
          /\ Wanted(s)' \subseteq Wanted(s) \cup Present(s)'
      <4>1. ASSUME NEW u \in Stage
            PROVE  /\ Present(u) \subseteq Present(u)' /\ Wanted(u) \subseteq Wanted(u)'
                   /\ Wanted(u)' \subseteq Wanted(u) \cup Present(u)'
        BY <1>1, PresentGrows
      <4>2. QED  BY <1>2, <3>1, <4>1
    <3>3. QED  BY <1>2, <2>1, <3>1, <3>2
  <2>2. QED  BY <1>2, <2>1
<1>3. ASSUME NEW v \in Worker, ~worker'[v].looked PROVE P(v)'
  BY <1>3
<1>4. ASSUME NEW w \in Worker, WorkerNext(w), NEW v \in Worker PROVE P(v)'
  <2>1. CASE v # w
    <3>1. worker'[v] = worker[v]  BY <1>4, <2>1, OthersStay
    <3>2. QED  BY <1>2, <3>1
  <2>2. CASE v = w /\ Commits(w)
    <3>1. ~worker'[v].looked  BY <1>1, <2>2, StageDone DEF Commits
    <3>2. QED  BY <1>3, <3>1
  <2>3. CASE v = w /\ Forgets(w)
    <3>1. ~worker'[v].looked  BY <2>3, Restarts DEF Forgets
    <3>2. QED  BY <1>3, <3>1
  <2>4. CASE v = w /\ Look(w)
    <3>1. worker[v] \in Process  BY DEF TypeOK
    <3> DEFINE s == worker[v].phase
    <3>2. s \in Stage /\ worker'[v].phase = s /\ worker'[v].missing = Wanted(s) \ Present(s)
      BY <2>4, <3>1, Looks DEF Process
    <3>3. Present(worker[v].phase)' = Present(s) /\ Wanted(worker[v].phase)' = Wanted(s)
      <4>1. UNCHANGED Catalogue  BY <2>4, QuietFrame
      <4>2. QED  BY <3>2, <4>1 DEF Present, Wanted, Listed, Catalogue
    <3>4. QED  BY <3>2, <3>3
  <2>5. QED  BY <1>4, <2>1, <2>2, <2>3, <2>4, WorkerKinds
<1>5. ASSUME Deploy, NEW v \in Worker PROVE P(v)'
  BY <1>3, <1>5 DEF Deploy, Down
<1>6. ASSUME worker' = worker, NEW v \in Worker PROVE P(v)'
  BY <1>2, <1>6
<1>7. \A v \in Worker : P(v)'  BY <1>4, <1>5, <1>6, WorkersMove
<1>8. QED  BY <1>7 DEF LooksCover

-----------------------------------------------------------------------------
(* One worker is left that nobody has overtaken *)

LEMMA NoneClaimedStays ==
  ASSUME TypeOK, LooksCover, NoneClaimed, [Next]_vars
  PROVE  NoneClaimed'
<1>1. Grown /\ Listed \subseteq Listed'  BY Grows, ListedGrows
<1>2. SUFFICES ASSUME ~raced', NEW p \in rows', p[2] \in accounts' PROVE p[2] \in Listed'
  BY DEF NoneClaimed
<1>3. ~raced  BY <1>1, <1>2 DEF Grown
<1>4. CASE rows' = rows /\ accounts' = accounts
  BY <1>1, <1>2, <1>3, <1>4 DEF NoneClaimed
<1>5. ASSUME NEW w \in Worker, SeedEmails(w) PROVE p[2] \in Listed'
  <2>1. /\ rows' = rows \cup {<<a, a>> : a \in worker[w].missing} /\ accounts' = accounts
        /\ worker[w].missing \subseteq accounts
    BY <1>5 DEF SeedEmails, At, LooksCover, Wanted
  <2>2. CASE p \in rows  BY <1>1, <1>2, <1>3, <2>1, <2>2 DEF NoneClaimed
  <2>3. CASE p \notin rows
    <3>1. PICK a \in worker[w].missing : p = <<a, a>>  BY <1>2, <2>1, <2>3
    <3>2. p[1] = a /\ p[2] = a /\ a \in accounts'  BY <2>1, <3>1
    <3>3. QED  BY <1>2, <3>2 DEF Listed
  <2>4. QED  BY <2>2, <2>3
<1>6. ASSUME NEW w \in Worker, Request(w) PROVE p[2] \in Listed'
  <2>1. CASE \E a \in Account \ accounts : /\ accounts' = accounts \cup {a}
                                            /\ rows' = rows \cup {<<a, a>>}
                                            /\ Register(w, a)
    <3>1. PICK a \in Account \ accounts : /\ accounts' = accounts \cup {a}
                                          /\ rows' = rows \cup {<<a, a>>}
                                          /\ Register(w, a)
      BY <2>1
    <3>2. a \notin Claimed  BY <3>1 DEF Register
    <3>3. <<a, a>> \in rows' /\ <<a, a>>[1] = a /\ <<a, a>>[2] = a  BY <3>1
    <3>4. CASE p[2] = a  BY <1>2, <3>3, <3>4 DEF Listed
    <3>5. CASE p[2] # a
      <4>1. p \in rows /\ p[2] \in accounts  BY <1>2, <3>1, <3>3, <3>5
      <4>2. QED  BY <1>1, <1>3, <4>1 DEF NoneClaimed
    <3>6. QED  BY <3>4, <3>5
  <2>2. CASE ~\E a \in Account \ accounts : Register(w, a)
    <3>1. rows' = rows /\ accounts' = accounts
      BY <1>2, <1>6, <2>2 DEF Request, Register, Verify, CreateOrganization
    <3>2. QED  BY <1>4, <3>1
  <2>3. QED  BY <2>1, <2>2 DEF Register
<1>7. ASSUME NEW w \in Worker, WorkerNext(w), ~SeedEmails(w)
      PROVE  rows' = rows /\ accounts' = accounts
  BY <1>7 DEF WorkerNext, Start, Look, CreateSchema, CreateTables, CreatePermissions,
     SetUpFails, NoDatabase, Crash, people
<1>8. \A r \in Run : RunNext(r) => rows' = rows /\ accounts' = accounts  BY RunFrame
<1>9. Deploy \/ UNCHANGED vars => rows' = rows /\ accounts' = accounts
  BY DEF Deploy, vars, people
<1>10. QED  BY <1>4, <1>5, <1>6, <1>7, <1>8, <1>9 DEF Next

\* What a worker is going to commit is still free after the step of another
\* actor, unless that was a commit.
LEMMA StaysFree ==
  ASSUME TypeOK, LooksCover, [Next]_vars, ~raced', NEW u \in Worker, ~Out(u),
         worker'[u] = worker[u],
         \/ UNCHANGED <<schemas, tables, perms, rows>>
         \/ \E w \in Worker : Request(w)
  PROVE  ~Out(u)'
<1>1. CASE ~worker[u].looked  BY <1>1 DEF Out
<1>2. CASE worker[u].looked
  <2> DEFINE s == worker[u].phase
             m == worker[u].missing
  <2>1. s \in Stage /\ m \subseteq Wanted(s) /\ m \cap Taken(s) = {}
    BY <1>2 DEF LooksCover, Out, Free
  <2>2. CASE UNCHANGED <<schemas, tables, perms, rows>>
    <3>1. Taken(s)' = Taken(s)
      BY <2>1, <2>2 DEF Taken, Present, Claimed, Stage
    <3>2. QED  BY <2>1, <3>1 DEF Out, Free
  <2>3. ASSUME NEW w \in Worker, Request(w), ~UNCHANGED <<schemas, tables, perms, rows>>
        PROVE  m \cap Taken(worker[u].phase)' = {}
    <3>1. UNCHANGED <<schemas, tables, perms>>  BY <2>3, RequestFrame
    <3>2. PICK a \in Account \ accounts : accounts' = accounts \cup {a} /\ rows' = rows \cup {<<a, a>>}
      BY <2>3, <3>1, RequestFrame
    <3>3. CASE s = "emails"
      <4>1. Claimed' \subseteq Claimed \cup {a}
        <5>1. <<a, a>>[2] = a  OBVIOUS
        <5>2. QED  BY <3>2, <5>1 DEF Claimed
      <4>2. a \notin m  BY <2>1, <3>2, <3>3 DEF Wanted
      <4>3. m \cap Claimed = {}  BY <2>1, <3>3 DEF Taken
      <4>4. QED  BY <3>3, <4>1, <4>2, <4>3 DEF Taken
    <3>4. CASE s # "emails"
      <4>1. Taken(worker[u].phase)' = Taken(s)
        BY <2>1, <3>1, <3>4 DEF Taken, Present, Stage
      <4>2. QED  BY <2>1, <4>1
    <3>5. QED  BY <3>3, <3>4
  <2>4. CASE \E w \in Worker : Request(w) /\ ~UNCHANGED <<schemas, tables, perms, rows>>
    BY <2>1, <2>3, <2>4 DEF Out, Free, Stage
  <2>5. QED  BY <2>2, <2>4
<1>3. QED  BY <1>1, <1>2

LEMMA OneIsLeftStays ==
  ASSUME TypeOK, StagesDone, LooksCover, OneIsLeft, NoneClaimed, [Next]_vars, TypeOK'
  PROVE  OneIsLeft'
<1>1. Grown  BY Grows
<1>2. SUFFICES ASSUME ~outage', ~raced' PROVE \E w \in Worker : ~Out(w)'
  BY DEF OneIsLeft
<1>3. PICK u \in Worker : ~Out(u)  BY <1>1, <1>2 DEF OneIsLeft, Grown
<1>4. ASSUME NEW w \in Worker, WorkerNext(w) PROVE \E v \in Worker : ~Out(v)'
  <2>1. CASE Commits(w)
    <3>1. ~Out(w)'  BY <1>1, <2>1, StageDone DEF Commits, Out
    <3>2. QED  BY <3>1
  <2>2. CASE Start(w) \/ Crash(w)
    <3>1. ~Out(w)'  BY <2>2, Restarts DEF Out
    <3>2. QED  BY <3>1
  <2>3. CASE Look(w)
    <3> DEFINE s == worker[w].phase
    <3>1. worker[w] \in Process  BY DEF TypeOK
    <3>2. s \in Stage /\ worker'[w].phase = s /\ worker'[w].missing = Wanted(s) \ Present(s)
      BY <2>3, <3>1, Looks DEF Process
    <3>3. UNCHANGED Catalogue  BY <2>3, QuietFrame
    <3>4. (Wanted(s) \ Present(s)) \cap Taken(s) = {}
      <4>1. CASE s = "emails"
        <5>1. ~raced  BY <1>1, <1>2 DEF Grown
        <5>2. \A x \in Claimed : x \in accounts => x \in Listed
          BY <5>1 DEF NoneClaimed, Claimed
        <5>3. QED  BY <4>1, <5>2 DEF Wanted, Present, Taken
      <4>2. CASE s # "emails"  BY <4>2 DEF Taken
      <4>3. QED  BY <4>1, <4>2
    <3>5. Taken(worker[w].phase)' = Taken(s)
      BY <3>2, <3>3 DEF Taken, Present, Claimed, Listed, Catalogue
    <3>6. ~Out(w)'  BY <3>2, <3>4, <3>5 DEF Out, Free, Stage
    <3>7. QED  BY <3>6
  <2>4. CASE SetUpFails(w)
    <3>1. u # w  BY <1>3, <2>4 DEF SetUpFails, Out
    <3>2. worker'[u] = worker[u]  BY <1>4, <3>1, OthersStay
    <3>3. UNCHANGED <<schemas, tables, perms, rows>>  BY <2>4, QuietFrame DEF Catalogue
    <3>4. QED  BY <1>2, <1>3, <3>2, <3>3, StaysFree
  <2>5. CASE NoDatabase(w)  BY <1>2, <2>5 DEF NoDatabase
  <2>6. QED  BY <1>4, <2>1, <2>2, <2>3, <2>4, <2>5 DEF WorkerNext, Commits
<1>5. ASSUME NEW w \in Worker, Request(w) PROVE \E v \in Worker : ~Out(v)'
  <2>1. worker'[u] = worker[u]  BY <1>5, RequestFrame
  <2>2. QED  BY <1>2, <1>3, <1>5, <2>1, StaysFree
<1>6. ASSUME NEW r \in Run, RunNext(r) PROVE \E v \in Worker : ~Out(v)'
  <2>1. UNCHANGED <<schemas, tables, perms, rows, worker>>  BY <1>2, <1>6, RunFrame
  <2>2. QED  BY <1>2, <1>3, <2>1, StaysFree
<1>7. CASE Deploy
  <2>1. \A v \in Worker : ~Out(v)'  BY <1>7 DEF Deploy, Down, Out
  <2>2. QED  BY <2>1, StartupConstants
<1>8. CASE UNCHANGED vars
  <2>1. UNCHANGED <<schemas, tables, perms, rows, worker>>  BY <1>8 DEF vars, catalog, people
  <2>2. QED  BY <1>2, <1>3, <2>1, StaysFree
<1>9. QED  BY <1>4, <1>5, <1>6, <1>7, <1>8 DEF Next

-----------------------------------------------------------------------------
(* The keys, the claims of the scripts and the gaps *)

LEMMA OneKeyStays ==
  ASSUME TypeOK, OneKey, [Next]_vars
  PROVE  OneKey'
<1>1. Created \in ForeignKey /\ Replaced \in ForeignKey
  BY DEF Created, Replaced, ForeignKey, Name
<1>2. CASE fks' = fks /\ tables' \cap Owned = tables \cap Owned  BY <1>2 DEF OneKey
<1>3. ASSUME NEW w \in Worker, WorkerNext(w) \/ Request(w) PROVE OneKey'
  <2>1. CASE CreateTables(w)
    <3>1. ASSUME NEW t \in tables' \cap Owned PROVE \E k \in ForeignKey : fks'[t] = {k}
      <4>1. CASE t \in worker[w].missing \cap Table
        <5>1. fks'[t] = {Created}  BY <2>1, <3>1, <4>1 DEF CreateTables
        <5>2. QED  BY <1>1, <5>1
      <4>2. CASE t \notin worker[w].missing \cap Table
        <5>1. fks'[t] = fks[t] /\ t \in tables  BY <2>1, <3>1, <4>2 DEF CreateTables
        <5>2. QED  BY <3>1, <5>1 DEF OneKey
      <4>3. QED  BY <4>1, <4>2
    <3>2. QED  BY <3>1 DEF OneKey
  <2>2. CASE tables' = tables /\ fks' = fks  BY <1>2, <2>2
  <2>3. QED  BY <1>3, <2>1, <2>2, WorkerFrame
<1>4. ASSUME NEW r \in Run, RunNext(r) PROVE OneKey'
  <2>1. tables' \cap Owned = tables \cap Owned  BY <1>4, RunFrame DEF Owned
  <2>2. CASE CommitAlignment(r)
    <3>1. ASSUME NEW t \in tables' \cap Owned PROVE \E k \in ForeignKey : fks'[t] = {k}
      <4>1. fks'[t] = fks[t] \/ fks'[t] = {Replaced}  BY <2>2, <3>1 DEF CommitAlignment
      <4>2. QED  BY <1>1, <2>1, <3>1, <4>1 DEF OneKey
    <3>2. QED  BY <3>1 DEF OneKey
  <2>3. CASE ~CommitAlignment(r)
    <3>1. fks' = fks
      BY <1>4, <2>3 DEF RunNext, Launch, LookUpTarget, Swap, SwapFails, LookUpTable,
         CreateTable, LookUpPreferences, AddPreferences, PreferencesFail, LookUpCompany,
         LookAgain, AddCompany, CompanyFails, Interrupt, catalog
    <3>2. QED  BY <1>2, <2>1, <3>1
  <2>4. QED  BY <2>2, <2>3
<1>5. Deploy \/ UNCHANGED vars => fks' = fks /\ tables' = tables
  BY DEF Deploy, vars, catalog
<1>6. QED  BY <1>2, <1>3, <1>4, <1>5 DEF Next

LEMMA GapHasCauseStays ==
  ASSUME TypeOK, StagesDone, GapHasCause, [Next]_vars
  PROVE  GapHasCause'
<1>1. CASE gaps' = gaps  BY <1>1 DEF GapHasCause
<1>2. ASSUME NEW w \in Worker, CreateOrganization(w) PROVE GapHasCause'
  <2>1. CASE perms = Permission  BY <1>1, <1>2, <2>1 DEF CreateOrganization
  <2>2. CASE perms # Permission
    <3>1. worker[w].ok \in BOOLEAN  BY DEF TypeOK, Process
    <3>2. worker[w].ok => perms = Permission  BY DEF StagesDone, Ready
    <3>3. ~worker[w].ok  BY <2>2, <3>1, <3>2
    <3>4. gaps' = gaps \cup {worker[w].ok}  BY <1>2, <2>2 DEF CreateOrganization
    <3>5. QED  BY <3>1, <3>3, <3>4 DEF GapHasCause
  <2>3. QED  BY <2>1, <2>2
<1>3. ASSUME NEW w \in Worker, WorkerNext(w) \/ Request(w), ~CreateOrganization(w)
      PROVE  gaps' = gaps
  BY <1>3 DEF WorkerNext, Request, Start, Look, CreateSchema, CreateTables, CreatePermissions,
     SeedEmails, SetUpFails, NoDatabase, Crash, Register, Verify, people
<1>4. \A r \in Run : RunNext(r) => gaps' = gaps  BY RunFrame
<1>5. Deploy \/ UNCHANGED vars => gaps' = gaps  BY DEF Deploy, vars, people
<1>6. QED  BY <1>1, <1>2, <1>3, <1>4, <1>5 DEF Next

\* The claims of one execution
Kept(r) ==
  /\ In(r, "align", "swap") => run[r].index <= Len(TARGETS)
  /\ \A t \in run[r].reported : t \in run[r].edits \/ Cascading(t)
  /\ In(r, "company", "change") => Company \subseteq columns \cup run[r].seen
  /\ run[r].edits # {} => run[r].script = "align" /\ run[r].phase \in {"look", "swap"}
  /\ run[r].phase = "done" /\ run[r].apply => Holds(run[r])

LEMMA KeptUntouched ==
  ASSUME TypeOK, NEW r \in Run, Kept(r), [Next]_vars, run'[r] = run[r]
  PROVE  Kept(r)'
<1>1. Grown  BY Grows
<1>2. run[r] \in Execution  BY DEF TypeOK
<1>3. \A t \in run'[r].reported : t \in run'[r].edits \/ Cascading(t)'
  <2>1. \A t \in run[r].reported : t \in Owned  BY <1>2 DEF Execution
  <2>2. QED  BY <2>1, CascadesStay DEF Kept
<1>4. run'[r].phase = "done" /\ run'[r].apply => Holds(run[r])'
  BY <1>2, HoldsStays DEF Kept
<1>5. QED  BY <1>1, <1>3, <1>4 DEF Kept, In, Grown, Holds

LEMMA KeptFailed ==
  ASSUME TypeOK, NEW r \in Run, run'[r] = Failed
  PROVE  Kept(r)'
  BY DEF Kept, Failed, Idle, In

\* An execution that ends keeps its claims if those it makes hold afterwards.
LEMMA KeptEnds ==
  ASSUME TypeOK, NEW r \in Run, Ends(r), NEW e, e = run[r],
         run[r].apply => Holds(e)',
         \A t \in run[r].reported : Cascading(t)'
  PROVE  Kept(r)'
<1>1. run'[r] = Claims(r)  BY DEF Ends, TypeOK
<1>2. run[r] \in Execution  BY DEF TypeOK
<1>3. CASE run[r].apply
  <2>1. /\ run'[r].phase = "done" /\ run'[r].edits = {}
        /\ run'[r].reported = run[r].reported /\ run'[r].script = run[r].script
    BY <1>1, <1>3 DEF Claims, Idle
  <2>2. Holds(e)'  BY <1>3
  <2>3. QED  BY <2>1, <2>2 DEF Kept, In, Holds
<1>4. CASE ~run[r].apply
  <2>1. run'[r] = [Idle EXCEPT !.phase = "done"]  BY <1>1, <1>4 DEF Claims
  <2>2. /\ run'[r].phase = "done" /\ run'[r].edits = {} /\ run'[r].reported = {}
        /\ run'[r].apply = FALSE
    BY <2>1 DEF Idle
  <2>3. QED  BY <2>2 DEF Kept, In
<1>5. QED  BY <1>3, <1>4

LEMMA KeptActor ==
  ASSUME TypeOK, NEW r \in Run, Kept(r), RunNext(r), [Next]_vars
  PROVE  Kept(r)'
<1>1. Grown  BY Grows
<1>2. run[r] \in Execution /\ r \in DOMAIN run  BY DEF TypeOK
<1>3. PICK e : e = run[r]  OBVIOUS
<1>4. \A t \in run[r].reported : t \in run[r].edits \/ Cascading(t)'
  <2>1. \A t \in run[r].reported : t \in Owned  BY <1>2 DEF Execution
  <2>2. QED  BY <2>1, CascadesStay DEF Kept
<1>5. ~(run[r].script = "align" /\ run[r].phase \in {"look", "swap"})
        => run[r].edits = {} /\ \A t \in run[r].reported : Cascading(t)'
  BY <1>4 DEF Kept
\* A step that only moves the execution to another phase of its script
<1>6. ASSUME NEW ph \in {"look", "again", "change"}, Goes(r, ph),
             ~(run[r].script = "align" /\ run[r].phase \in {"look", "swap"}),
             ~(run[r].script = "company" /\ ph = "change")
      PROVE  Kept(r)'
  <2>1. /\ run'[r].phase = ph /\ run'[r].script = run[r].script
        /\ run'[r].edits = run[r].edits /\ run'[r].reported = run[r].reported
    BY <1>2, <1>6 DEF Goes, Execution
  <2>2. QED  BY <1>5, <1>6, <2>1 DEF Kept, In
<1>7. CASE \E s \in Scripts, apply \in BOOLEAN : Launch(r, s, apply)
  <2>1. /\ run'[r].phase = "look" /\ run[r].phase = "idle"
        /\ run'[r].edits = run[r].edits /\ run'[r].reported = run[r].reported
    <3>1. PICK s, apply : Launch(r, s, apply)  BY <1>7
    <3>2. run' = [run EXCEPT ![r] = [run[r] EXCEPT !.script = s, !.apply = apply, !.phase = "look"]]
      BY <3>1 DEF Launch, TypeOK
    <3>3. run'[r] = [run[r] EXCEPT !.script = s, !.apply = apply, !.phase = "look"]
      BY <1>2, <3>2
    <3>4. QED  BY <1>2, <3>1, <3>3 DEF Launch, Execution
  <2>2. QED  BY <1>5, <2>1 DEF Kept, In
<1>8. CASE LookUpTarget(r)
  <2>1. In(r, "align", "look") /\ run[r].index <= Len(TARGETS) /\ run'[r] = LookedUp(r)
    BY <1>2, <1>8 DEF LookUpTarget, Aligning
  <2>2. Target(r) \in Owned
    BY <1>2, <2>1 DEF Target, TARGETS, Owned, Execution
  <2>3. CASE run'[r] = [run[r] EXCEPT !.index = @ + 1]
    <3>1. /\ run'[r].phase = "look" /\ run'[r].script = "align"
          /\ run'[r].edits = run[r].edits /\ run'[r].reported = run[r].reported
      BY <1>2, <2>1, <2>3 DEF Execution, In
    <3>2. QED  BY <1>4, <3>1 DEF Kept, In
  <2>4. CASE /\ Cascading(Target(r))
             /\ run'[r] = [run[r] EXCEPT !.index = @ + 1, !.reported = @ \cup {Target(r)}]
    <3>1. /\ run'[r].phase = "look" /\ run'[r].script = "align"
          /\ run'[r].edits = run[r].edits /\ run'[r].reported = run[r].reported \cup {Target(r)}
      BY <1>2, <2>1, <2>4 DEF Execution, In
    <3>2. \A t \in Owned : Cascading(t) => Cascading(t)'  BY CascadesStay
    <3>3. \A t \in run'[r].reported : t \in run'[r].edits \/ Cascading(t)'
      BY <1>4, <2>2, <2>4, <3>1, <3>2
    <3>4. QED  BY <3>1, <3>3 DEF Kept, In
  <2>5. CASE run'[r] = [run[r] EXCEPT !.phase = "swap", !.seen = NamesOf(fks[Target(r)])]
    <3>1. /\ run'[r].phase = "swap" /\ run'[r].script = "align" /\ run'[r].index = run[r].index
          /\ run'[r].edits = run[r].edits /\ run'[r].reported = run[r].reported
      BY <1>2, <2>1, <2>5 DEF Execution, In
    <3>2. QED  BY <1>4, <2>1, <3>1 DEF Kept, In
  <2>6. QED  BY <2>1, <2>3, <2>4, <2>5 DEF LookedUp
<1>9. CASE Swap(r)
  <2>1. /\ run'[r].phase = "look" /\ run'[r].script = "align"
        /\ run'[r].edits = run[r].edits \cup {Target(r)}
        /\ run'[r].reported = run[r].reported \cup {Target(r)}
    BY <1>2, <1>9 DEF Swap, In, Execution
  <2>2. QED  BY <1>4, <2>1 DEF Kept, In
<1>10. CASE CommitAlignment(r)
  <2>1. run[r].script = "align"  BY <1>10 DEF CommitAlignment, In
  <2>2. \A t \in run[r].reported : Cascading(t)'
    <3>1. \A t \in run[r].edits : t \in Owned  BY <1>2 DEF Execution
    <3>2. \A t \in run[r].edits : fks'[t] = {Replaced}  BY <1>10, <3>1 DEF CommitAlignment
    <3>3. \A t \in run[r].edits : Cascading(t)'  BY <3>2 DEF Cascading, Replaced
    <3>4. QED  BY <1>4, <3>3
  <2>3. Holds(e)'  BY <1>3, <2>1, <2>2 DEF Holds
  <2>4. QED  BY <1>3, <1>10, <2>2, <2>3, KeptEnds DEF CommitAlignment
<1>11. CASE LookUpTable(r)
  <2>1. CASE Goes(r, "change")  BY <1>6, <1>11, <2>1 DEF LookUpTable, In
  <2>2. CASE Ends(r) /\ (run[r].apply => "uploadrecord" \in tables)
    <3>1. run[r].apply => Holds(e)'  BY <1>1, <1>3, <1>11, <2>2 DEF LookUpTable, In, Holds, Grown
    <3>2. \A t \in run[r].reported : Cascading(t)'  BY <1>5, <1>11 DEF LookUpTable, In
    <3>3. QED  BY <1>3, <2>2, <3>1, <3>2, KeptEnds
  <2>3. QED  BY <1>11, <2>1, <2>2 DEF LookUpTable
<1>12. CASE CreateTable(r)
  <2>1. Holds(e)'  BY <1>3, <1>12 DEF CreateTable, In, Holds
  <2>2. \A t \in run[r].reported : Cascading(t)'  BY <1>5, <1>12 DEF CreateTable, In
  <2>3. QED  BY <1>3, <1>12, <2>1, <2>2, KeptEnds DEF CreateTable
<1>13. CASE LookUpPreferences(r)
  <2>1. CASE Goes(r, "change")  BY <1>6, <1>13, <2>1 DEF LookUpPreferences, In
  <2>2. CASE Ends(r) /\ (run[r].apply => Preferences \subseteq columns)
    <3>1. run[r].apply => Holds(e)'
      BY <1>1, <1>3, <1>13, <2>2 DEF LookUpPreferences, In, Holds, Grown
    <3>2. \A t \in run[r].reported : Cascading(t)'  BY <1>5, <1>13 DEF LookUpPreferences, In
    <3>3. QED  BY <1>3, <2>2, <3>1, <3>2, KeptEnds
  <2>3. QED  BY <1>13, <2>1, <2>2 DEF LookUpPreferences
<1>14. CASE AddPreferences(r)
  <2>1. Holds(e)'  BY <1>3, <1>14 DEF AddPreferences, In, Holds
  <2>2. \A t \in run[r].reported : Cascading(t)'  BY <1>5, <1>14 DEF AddPreferences, In
  <2>3. QED  BY <1>3, <1>14, <2>1, <2>2, KeptEnds DEF AddPreferences
<1>15. CASE LookUpCompany(r)
  <2>1. CASE Goes(r, "again")  BY <1>6, <1>15, <2>1 DEF LookUpCompany, In
  <2>2. CASE Ends(r) /\ (run[r].apply => Company \subseteq columns)
    <3>1. run[r].apply => Holds(e)'
      BY <1>1, <1>3, <1>15, <2>2 DEF LookUpCompany, In, Holds, Grown
    <3>2. \A t \in run[r].reported : Cascading(t)'  BY <1>5, <1>15 DEF LookUpCompany, In
    <3>3. QED  BY <1>3, <2>2, <3>1, <3>2, KeptEnds
  <2>3. QED  BY <1>15, <2>1, <2>2 DEF LookUpCompany
<1>16. CASE LookAgain(r)
  <2>1. /\ run'[r].phase = "change" /\ run'[r].seen = Company \ columns /\ columns' = columns
        /\ run'[r].edits = run[r].edits /\ run'[r].reported = run[r].reported
    BY <1>2, <1>16 DEF LookAgain, Execution, catalog
  <2>2. QED  BY <1>5, <1>16, <2>1 DEF LookAgain, Kept, In
<1>17. CASE AddCompany(r)
  <2>1. Company \subseteq columns'  BY <1>17 DEF AddCompany, Kept
  <2>2. Holds(e)'  BY <1>3, <1>17, <2>1 DEF AddCompany, In, Holds
  <2>3. \A t \in run[r].reported : Cascading(t)'  BY <1>5, <1>17 DEF AddCompany, In
  <2>4. QED  BY <1>3, <1>17, <2>2, <2>3, KeptEnds DEF AddCompany
<1>18. CASE SwapFails(r) \/ PreferencesFail(r) \/ CompanyFails(r) \/ Interrupt(r)
  <2>1. run'[r] = Failed
    BY <1>2, <1>18 DEF SwapFails, PreferencesFail, CompanyFails, Interrupt, Fails
  <2>2. QED  BY <2>1, KeptFailed
<1>19. QED
  BY <1>7, <1>8, <1>9, <1>10, <1>11, <1>12, <1>13, <1>14, <1>15, <1>16, <1>17, <1>18
  DEF RunNext

\* An execution touches no other.
LEMMA OtherRunsStay ==
  ASSUME TypeOK, NEW r \in Run, RunNext(r), NEW q \in Run \ {r}
  PROVE  run'[q] = run[q]
<1>1. \E f : run' = [run EXCEPT ![r] = f]
  <2>1. CASE \E s \in Scripts, apply \in BOOLEAN : Launch(r, s, apply)
    <3>1. PICK s, apply : Launch(r, s, apply)  BY <2>1
    <3>2. run' = [run EXCEPT ![r] = [run[r] EXCEPT !.script = s, !.apply = apply, !.phase = "look"]]
      BY <3>1 DEF Launch, TypeOK
    <3>3. QED  BY <3>2
  <2>2. CASE Swap(r)
    <3>1. run' = [run EXCEPT ![r] = run'[r]]  BY <2>2 DEF Swap, TypeOK
    <3>2. QED  BY <3>1
  <2>3. CASE \E ph : Goes(r, ph)
    <3>1. run' = [run EXCEPT ![r] = run'[r]]  BY <2>3 DEF Goes, TypeOK
    <3>2. QED  BY <3>1
  <2>4. CASE LookAgain(r)
    <3>1. run' = [run EXCEPT ![r] = run'[r]]  BY <2>4 DEF LookAgain, TypeOK
    <3>2. QED  BY <3>1
  <2>5. CASE Ends(r) \/ Fails(r) \/ LookUpTarget(r)
    BY <2>5 DEF Ends, Fails, LookUpTarget
  <2>6. QED
    BY <2>1, <2>2, <2>3, <2>4, <2>5
    DEF RunNext, SwapFails, CommitAlignment, LookUpTable, CreateTable, LookUpPreferences,
        AddPreferences, PreferencesFail, LookUpCompany, AddCompany, CompanyFails, Interrupt
<1>2. QED  BY <1>1 DEF TypeOK

LEMMA ClaimsKeptStays ==
  ASSUME TypeOK, ClaimsKept, [Next]_vars
  PROVE  ClaimsKept'
<1>1. \A q \in Run : Kept(q)  BY DEF ClaimsKept, Kept
<1>2. ASSUME NEW q \in Run PROVE Kept(q)'
  <2>1. CASE run'[q] = run[q]  BY <1>1, <2>1, KeptUntouched
  <2>2. ASSUME NEW r \in Run, RunNext(r) PROVE Kept(q)'
    <3>1. CASE r = q  BY <1>1, <2>2, <3>1, KeptActor
    <3>2. CASE r # q  BY <2>1, <2>2, <3>2, OtherRunsStay
    <3>3. QED  BY <3>1, <3>2
  <2>3. CASE Deploy
    <3>1. run'[q] = Failed \/ run'[q] = run[q]  BY <2>3 DEF Deploy
    <3>2. QED  BY <2>1, <3>1, KeptFailed
  <2>4. ASSUME NEW w \in Worker, WorkerNext(w) \/ Request(w) PROVE run'[q] = run[q]
    BY <2>4, WorkerFrame
  <2>5. UNCHANGED vars => run'[q] = run[q]  BY DEF vars
  <2>6. QED  BY <2>1, <2>2, <2>3, <2>4, <2>5 DEF Next
<1>3. QED  BY <1>2 DEF ClaimsKept, Kept

-----------------------------------------------------------------------------
(* The invariant and what follows from it *)

LEMMA InitInv == Init => IInv
<1> SUFFICES ASSUME Init PROVE IInv  OBVIOUS
<1>1. TypeOK  BY InitTypes
<1>2. PICK d \in Old :
        /\ tables = d.tables /\ accounts = d.accounts /\ rows = d.rows
        /\ fks = [t \in Owned |-> IF t \in d.tables
                                  THEN {[name |-> "auto", cascade |-> d.cascade]}
                                  ELSE {}]
  BY DEF Init
<1>3. IsOld(d)  BY StartupConstants
<1>4. \A w \in Worker : /\ worker[w].phase = "down" /\ ~worker[w].looked /\ ~worker[w].ok
  BY DEF Init, Down
<1>5. StagesDone /\ LooksCover  BY <1>4 DEF StagesDone, LooksCover
<1>6. OneIsLeft  BY <1>4, StartupConstants DEF OneIsLeft, Out
<1>7. NoneClaimed  BY <1>2, <1>3 DEF NoneClaimed, IsOld, Listed
<1>8. OneKey
  <2>1. ASSUME NEW t \in tables \cap Owned PROVE \E k \in ForeignKey : fks[t] = {k}
    <3>1. fks[t] = {[name |-> "auto", cascade |-> d.cascade]}  BY <1>2, <2>1
    <3>2. [name |-> "auto", cascade |-> d.cascade] \in ForeignKey
      BY <1>3 DEF IsOld, ForeignKey, Name
    <3>3. QED  BY <3>1, <3>2
  <2>2. QED  BY <2>1 DEF OneKey
<1>9. ClaimsKept  BY DEF Init, Idle, ClaimsKept, In
<1>10. GapHasCause  BY DEF Init, GapHasCause
<1>11. QED  BY <1>1, <1>5, <1>6, <1>7, <1>8, <1>9, <1>10 DEF IInv

LEMMA NextInv == IInv /\ [Next]_vars => IInv'
<1> SUFFICES ASSUME IInv, [Next]_vars PROVE IInv'  OBVIOUS
<1> USE DEF IInv
<1>1. TypeOK'  BY Types
<1>2. QED
  BY <1>1, StagesDoneStays, LooksCoverStays, OneIsLeftStays, NoneClaimedStays,
     OneKeyStays, ClaimsKeptStays, GapHasCauseStays

THEOREM Invariant == Spec => []IInv
BY InitInv, NextInv, PTL DEF Spec

\* Every worker, execution and row has the form the code gives it, whatever
\* database the release finds.
THEOREM TypeCorrect == Spec => []TypeOK
<1>1. IInv => TypeOK  BY DEF IInv
<1>2. QED  BY <1>1, Invariant, PTL

\* However many workers start together, look before another's commit, die and
\* start again: when all of them serve, the set-up has been done.
THEOREM SetUpIsDone == Spec => []SomebodySetsUp
<1>1. IInv => SomebodySetsUp
  <2> SUFFICES ASSUME IInv, ~outage, ~raced, \A w \in Worker : worker[w].phase = "serving"
               PROVE  \E w \in Worker : worker[w].ok /\ Ready
    BY DEF SomebodySetsUp
  <2>1. PICK w \in Worker : ~Out(w)  BY DEF IInv, OneIsLeft
  <2>2. worker[w].ok  BY <2>1 DEF Out
  <2>3. QED  BY <2>2 DEF IInv, StagesDone
<1>2. QED  BY <1>1, Invariant, PTL

\* A worker whose set-up went well never makes an organization whose Owner lacks
\* a permission.
THEOREM GapsAreExplained == Spec => []GapHasCause
<1>1. IInv => GapHasCause  BY DEF IInv
<1>2. QED  BY <1>1, Invariant, PTL

\* What a script said it has left is there for good, whichever scripts, starts
\* and kills came between its look and its commit.
THEOREM ScriptsTellTheTruth == Spec => []ReportHolds
<1>1. IInv => ReportHolds  BY DEF IInv, ClaimsKept, ReportHolds
<1>2. QED  BY <1>1, Invariant, PTL

\* Racing and repeated alignments leave every owned table with one key.
THEOREM KeysStaySingle == Spec => []OneKey
<1>1. IInv => OneKey  BY DEF IInv
<1>2. QED  BY <1>1, Invariant, PTL
=============================================================================
