-------------------------------- MODULE Uploads --------------------------------
(***************************************************************************)
(* Files on their way from a mailbox to the page that lists them.            *)
(*                                                                          *)
(* A Gmail script, started by a timer, posts every unread mail that has      *)
(* attachments to /api/upload and then marks it as read.  The handler stores *)
(* the files one by one in an object store, announces them in a WeChat       *)
(* group, and at last saves one record for each; three systems, no common    *)
(* transaction.  Other clients upload single files, also to                  *)
(* /api/parse-tax-pdf, and the page of a record can announce it again.       *)
(*                                                                          *)
(* A request outlives the execution of the script that waits for it, so the  *)
(* two are separate processes.  What Gmail, WeChat, the object store and the *)
(* database do with a call is a choice of the environment.                   *)
(***************************************************************************)
EXTENDS Naturals, FiniteSets, Sequences, Functions

CONSTANTS
  File, Kind,    \* what is uploaded, and what the handler makes of each
  Mail, Files,   \* mails, and what the script uploads of each: body, attachments
  Thread,        \* the conversation a mail belongs to
  Loose,         \* files that other clients upload
  Script,        \* executions of main() there may be at a time
  Request,       \* requests that may be in progress together
  Authorized,    \* whether the script has the API key the server asks for
  MAX_FILES,     \* files accepted in one upload
  Listed,        \* files a report names (send_file_result_summary)
  None,          \* nothing
  Settings       \* deployments, and bounds for what happens to them

\* overlap: executions the timer lets run at a time; workers: server processes.
\* Bounds: faults, deaths of requests and executions and fetches given up;
\* failures, calls of other services that fail; loose, uploads by other clients;
\* resends, notices sent again.
Setting == [overlap : Nat, workers : Nat, faults : Nat, failures : Nat,
            loose : Nat, resends : Nat]

\* "tax": a PDF with an amount; "pdf": one without; "broken": one that cannot be
\* opened; "text": any other accepted file; "other": one that is skipped.
Kinds == {"tax", "pdf", "broken", "text", "other"}

ASSUME UploadConstants ==
  /\ Kind \in [File -> Kinds]
  /\ Files \in [Mail -> Seq(File)] /\ Loose \subseteq File
  /\ DOMAIN Thread = Mail
  /\ \A m \in Mail : Files[m] # <<>> /\ Kind[Files[m][1]] = "text"
  /\ None \notin Mail \cup Request \cup {"success", "failed", "skipped"}
  /\ IsFiniteSet(Request) /\ IsFiniteSet(Script)
  /\ Authorized \in BOOLEAN
  /\ MAX_FILES \in Nat /\ Listed \in Nat \ {0}
  /\ Settings \subseteq Setting

VARIABLES
  read,     \* mails marked as read
  run,      \* executions of the script
  req,      \* requests in progress
  records,  \* UploadRecord rows, in the order of their ids
  objects,  \* files in the object store
  told,     \* files named in a message that reached the group
  unsaved,  \* files whose records could not be saved
  tries,    \* how often the notice of each record was sent again
  spent,    \* faults, failed calls, loose uploads and resends so far
  setting   \* one of the settings

mailbox == <<read, run>>
tables == <<records, tries, unsaved>>
vars == <<mailbox, req, tables, objects, told, spent, setting>>

Statuses == {None, "success", "failed", "skipped"}
Draft == [file : File, url : BOOLEAN]
Record == [file : File, url : BOOLEAN, status : Statuses, retries : Nat]

Off == [at |-> "off", todo |-> {}, mail |-> None, request |-> None]
Execution == [at : {"loop", "waiting", "accepted"}, todo : SUBSET Mail,
              mail : Mail \cup {None}, request : Request \cup {None}]

Idle == [at |-> "idle"]
Upload == [at : {"files", "notice", "save", "answer"}, left : Seq(File),
           store : BOOLEAN, send : BOOLEAN, drafts : Seq(Draft),
           status : Statuses, code : {0, 200, 400, 401, 500}]
Resend == [at : {"resend"}, id : Nat \ {0}, seen : Record, status : Statuses]

TypeOK ==
  /\ read \subseteq Mail
  /\ run \in [Script -> Execution \cup {Off}]
  /\ req \in [Request -> Upload \cup Resend \cup {Idle}]
  /\ records \in Seq(Record)
  /\ objects \subseteq File /\ told \subseteq File /\ unsaved \subseteq File
  /\ tries \in Seq(Nat) /\ Len(tries) = Len(records)
  /\ setting \in Settings
  /\ spent \in [faults : 0..setting.faults, failures : 0..setting.failures,
                loose : 0..setting.loose, resends : 0..setting.resends]

Init ==
  /\ read = {}
  /\ run = [s \in Script |-> Off]
  /\ req = [r \in Request |-> Idle]
  /\ records = <<>> /\ tries = <<>>
  /\ objects = {} /\ told = {} /\ unsaved = {}
  /\ spent = [faults |-> 0, failures |-> 0, loose |-> 0, resends |-> 0]
  /\ setting \in Settings

Attached(m) == Len(Files[m]) > 1
FilesIn(ds) == {ds[i].file : i \in DOMAIN ds}
Goto(r, phase) == req' = [req EXCEPT ![r].at = phase]
Spend(what) == spent[what] < setting[what] /\ spent' = [spent EXCEPT ![what] = @ + 1]

-----------------------------------------------------------------------------
(* What the handler makes of the files *)

Allowed(f) == Kind[f] # "other"

\* The tax message is about the first amount found; without one the report
\* names the first files that were processed.
Named(fs) ==
  LET taxes == {i \in DOMAIN fs : Kind[fs[i]] = "tax"}
  IN  IF taxes # {} THEN {fs[i] : i \in {j \in taxes : \A k \in taxes : j <= k}}
      ELSE {fs[i] : i \in {j \in DOMAIN fs : j <= Listed}}

NewUpload(fs, store, send) ==
  [at |-> "files", left |-> fs, store |-> store, send |-> send, drafts |-> <<>>,
   status |-> "skipped", code |-> 0]
Answered(q, code) == [q EXCEPT !.at = "answer", !.code = code]

\* A call of another service fails, one of those there may be.
CallFails(cost) ==
  /\ cost.failures < setting.failures
  /\ spent' = [cost EXCEPT !.failures = @ + 1]

\* What comes back from the WeChat robot: accepted; an error; or no answer, when
\* the message may have arrived all the same.
Deliver(fs, status, cost) ==
  \/ status = "success" /\ told' = told \cup fs /\ spent' = cost
  \/ status = "failed" /\ told' \in {told, told \cup fs} /\ CallFails(cost)

-----------------------------------------------------------------------------
(* POST /api/upload and POST /api/parse-tax-pdf *)

\* Mutant: a file is stored before its extension is looked at.
StoreFirst(r) ==
  /\ req[r].at = "files" /\ req[r].left # <<>>
  /\ LET f == req[r].left[1]
         q == [req[r] EXCEPT !.left = Tail(@)]
     IN  /\ req' = [req EXCEPT ![r] =
              IF Allowed(f)
              THEN [q EXCEPT !.drafts = Append(@, [file |-> f, url |-> req[r].store])] ELSE q]
         /\ objects' = IF req[r].store THEN objects \cup {f} ELSE objects
  /\ UNCHANGED <<mailbox, tables, told, spent, setting>>

\* One turn of the loop over the files.  A failure of the store is kept in the
\* record and does not stop the upload.
TakeFile(r) ==
  /\ req[r].at = "files" /\ req[r].left # <<>>
  /\ LET f == req[r].left[1]
         q == [req[r] EXCEPT !.left = Tail(@)]
         with(url) == [q EXCEPT !.drafts = Append(@, [file |-> f, url |-> url])]
     IN  \/ ~Allowed(f) /\ req' = [req EXCEPT ![r] = q] /\ UNCHANGED <<objects, spent>>
         \/ /\ Allowed(f) /\ ~req[r].store
            /\ req' = [req EXCEPT ![r] = with(FALSE)]
            /\ UNCHANGED <<objects, spent>>
         \/ /\ Allowed(f) /\ req[r].store
            /\ req' = [req EXCEPT ![r] = with(TRUE)]
            /\ objects' = objects \cup {f} /\ UNCHANGED spent
         \/ /\ Allowed(f) /\ req[r].store /\ CallFails(spent)
            /\ req' = [req EXCEPT ![r] = with(FALSE)]
            /\ objects' \in {objects, objects \cup {f}}
  /\ UNCHANGED <<mailbox, tables, told, setting>>

FilesDone(r) ==
  /\ req[r].at = "files" /\ req[r].left = <<>>
  /\ Goto(r, IF req[r].send THEN "notice" ELSE "save")
  /\ UNCHANGED <<mailbox, tables, objects, told, spent, setting>>

\* Mutant: the answer of the robot is not looked at.
NotifyBlindly(r) ==
  /\ req[r].at = "notice"
  /\ \E status \in {"success", "failed"} :
       Deliver(Named([i \in DOMAIN req[r].drafts |-> req[r].drafts[i].file]), status, spent)
  /\ req' = [req EXCEPT ![r].at = "save", ![r].status = "success"]
  /\ UNCHANGED <<mailbox, tables, objects, setting>>

Notify(r) ==
  /\ req[r].at = "notice"
  /\ \E status \in {"success", "failed"} :
       /\ Deliver(Named([i \in DOMAIN req[r].drafts |-> req[r].drafts[i].file]), status, spent)
       /\ req' = [req EXCEPT ![r].at = "save", ![r].status = status]
  /\ UNCHANGED <<mailbox, tables, objects, setting>>

\* One commit for all records; a failure is logged and answered like success.
Save(r) ==
  /\ req[r].at = "save"
  /\ LET ds == req[r].drafts
         row(d) == [file |-> d.file, url |-> d.url, status |-> req[r].status, retries |-> 0]
     IN  \/ /\ records' = records \o [i \in DOMAIN ds |-> row(ds[i])]
            /\ tries' = tries \o [i \in DOMAIN ds |-> 0]
            /\ UNCHANGED <<unsaved, spent>>
         \/ /\ CallFails(spent)
            /\ unsaved' = unsaved \cup FilesIn(ds)
            /\ UNCHANGED <<records, tries>>
  /\ req' = [req EXCEPT ![r] = Answered(@, 200)]
  /\ UNCHANGED <<mailbox, objects, told, setting>>

\* Another client uploads one file, with any of the options.
LooseUpload(r) ==
  /\ req[r] = Idle
  /\ Spend("loose")
  /\ \E f \in Loose, store \in BOOLEAN, send \in BOOLEAN :
       req' = [req EXCEPT ![r] = NewUpload(<<f>>, store, send)]
  /\ UNCHANGED <<mailbox, tables, objects, told, setting>>

\* A tax form goes past the object store.  One that cannot be opened is an error,
\* one without an amount is recorded and announced to nobody.
LooseTaxForm(r) ==
  /\ req[r] = Idle
  /\ Spend("loose")
  /\ \E f \in Loose, send \in BOOLEAN :
       LET q == [NewUpload(<<>>, FALSE, send) EXCEPT !.drafts = <<[file |-> f, url |-> FALSE]>>]
       IN  \/ /\ Kind[f] \in {"text", "other"}
              /\ req' = [req EXCEPT ![r] = Answered(q, 400)]
           \/ /\ Kind[f] = "broken"
              /\ req' = [req EXCEPT ![r] = Answered(q, 500)]
           \/ /\ Kind[f] = "pdf"
              /\ req' = [req EXCEPT ![r] = [q EXCEPT !.at = "save", !.status = None]]
           \/ /\ Kind[f] = "tax"
              /\ req' = [req EXCEPT ![r] = [q EXCEPT !.at = IF send THEN "notice" ELSE "save"]]
  /\ UNCHANGED <<mailbox, tables, objects, told, setting>>

-----------------------------------------------------------------------------
(* POST /upload/records/{id}/resend-wechat: nothing in it waits, so that one    *)
(* process serves one at a time                                                *)

\* The record is read, and the notice sent: from here on it is a try.
StartResend(r) ==
  /\ req[r] = Idle
  /\ Cardinality({q \in Request : req[q].at = "resend"}) < setting.workers
  /\ spent.resends < setting.resends
  /\ \E i \in DOMAIN records, status \in {"success", "failed"} :
       /\ Deliver(Named(<<records[i].file>>), status, [spent EXCEPT !.resends = @ + 1])
       /\ tries' = [tries EXCEPT ![i] = @ + 1]
       /\ req' = [req EXCEPT ![r] = [at |-> "resend", id |-> i, seen |-> records[i],
                                     status |-> status]]
  /\ UNCHANGED <<mailbox, records, unsaved, objects, setting>>

\* Mutant: only a success counts as a try.
SuccessesCounted(q) == q.seen.retries + (IF q.status = "success" THEN 1 ELSE 0)
RetryCount(q) == q.seen.retries + 1

\* The UPDATE holds the columns whose values differ from those that were read.
CommitResend(r) ==
  /\ req[r].at = "resend"
  /\ LET q == req[r]
     IN  records' = [records EXCEPT
           ![q.id].status = IF q.status = q.seen.status THEN @ ELSE q.status,
           ![q.id].retries = RetryCount(q)]
  /\ req' = [req EXCEPT ![r] = Idle]
  /\ UNCHANGED <<mailbox, tries, unsaved, objects, told, spent, setting>>

-----------------------------------------------------------------------------
(* main(): the script in the mailbox *)

\* The search finds conversations; all their unread mails are gone through.
Found == {m \in Mail \ read :
            \E n \in Mail \ read : Attached(n) /\ Thread[n] = Thread[m]}

Trigger(s) ==
  /\ run[s] = Off /\ Found # {}
  /\ Cardinality({x \in Script : run[x] # Off}) < setting.overlap
  /\ run' = [run EXCEPT ![s] = [at |-> "loop", todo |-> Found, mail |-> None,
                               request |-> None]]
  /\ UNCHANGED <<read, req, tables, objects, told, spent, setting>>

Stop(s) ==
  /\ run[s].at = "loop" /\ run[s].todo = {}
  /\ run' = [run EXCEPT ![s] = Off]
  /\ UNCHANGED <<read, req, tables, objects, told, spent, setting>>

Take(s, m, at, r) ==
  /\ run[s].at = "loop" /\ m \in run[s].todo
  /\ run' = [run EXCEPT ![s] = [at |-> at, todo |-> @.todo \ {m}, mail |-> m, request |-> r]]

\* Whether a mail counts as unread may be older than the execution that marked it.
PassOver(s) ==
  /\ run[s].at = "loop"
  /\ \E m \in run[s].todo \cap read : run' = [run EXCEPT ![s].todo = @ \ {m}]
  /\ UNCHANGED <<read, req, tables, objects, told, spent, setting>>

\* A mail without attachments is skipped, and marked as read like the others.
SkipMail(s) ==
  /\ \E m \in Mail : ~Attached(m) /\ Take(s, m, "accepted", None)
  /\ UNCHANGED <<read, req, tables, objects, told, spent, setting>>

Post(s) ==
  /\ \E m \in Mail, r \in Request :
       /\ Attached(m) /\ req[r] = Idle
       /\ Take(s, m, "waiting", r)
       /\ LET q == NewUpload(Files[m], TRUE, TRUE)
          IN  req' = [req EXCEPT ![r] =
                IF ~Authorized THEN Answered(q, 401)
                ELSE IF Len(Files[m]) > MAX_FILES THEN Answered(q, 400) ELSE q]
  /\ UNCHANGED <<read, tables, objects, told, spent, setting>>

\* Mutant: any answer will do.
AnswerIgnored(code) == "accepted"

\* An answer other than 2xx is an exception: the mail stays as it is, and the
\* execution goes on with the next one.
AfterAnswer(code) == IF code \in 200..299 THEN "accepted" ELSE "loop"

\* Mutant: a refused mail ends the whole execution.
ResumeOrStop(r, at) ==
  run' = [s \in Script |-> IF run[s].at = "waiting" /\ run[s].request = r
                          THEN IF at = "loop" THEN Off
                               ELSE [run[s] EXCEPT !.at = at, !.request = None]
                          ELSE run[s]]

\* The execution that waits for r, if one does, goes on.
Resume(r, at) ==
  run' = [s \in Script |-> IF run[s].at = "waiting" /\ run[s].request = r
                          THEN [run[s] EXCEPT !.at = at, !.request = None] ELSE run[s]]

Reply(r) ==
  /\ req[r].at = "answer"
  /\ req' = [req EXCEPT ![r] = Idle]
  /\ Resume(r, AfterAnswer(req[r].code))
  /\ UNCHANGED <<read, tables, objects, told, spent, setting>>

\* Mutant: the mail is only marked when nothing is left to do.
MarkLast(s) ==
  /\ run[s].at = "accepted"
  /\ read' = IF run[s].todo = {} THEN read \cup {run[s].mail} ELSE read
  /\ run' = [run EXCEPT ![s].at = "loop"]
  /\ UNCHANGED <<req, tables, objects, told, spent, setting>>

MarkRead(s) ==
  /\ run[s].at = "accepted"
  /\ read' = read \cup {run[s].mail}
  /\ run' = [run EXCEPT ![s].at = "loop"]
  /\ UNCHANGED <<req, tables, objects, told, spent, setting>>

-----------------------------------------------------------------------------
(* What goes wrong around them *)

\* The server restarts, or the connection breaks before or after the work.
Die(r) ==
  /\ req[r] # Idle /\ Spend("faults")
  /\ req' = [req EXCEPT ![r] = Idle]
  /\ Resume(r, "loop")
  /\ UNCHANGED <<read, tables, objects, told, setting>>

\* The fetch times out; the request it waits for goes on.
GiveUp(s) ==
  /\ run[s].at = "waiting" /\ Spend("faults")
  /\ run' = [run EXCEPT ![s].at = "loop", ![s].request = None]
  /\ UNCHANGED <<read, req, tables, objects, told, setting>>

\* The execution is ended, for instance by its time limit.
Kill(s) ==
  /\ run[s] # Off /\ Spend("faults")
  /\ run' = [run EXCEPT ![s] = Off]
  /\ UNCHANGED <<read, req, tables, objects, told, setting>>

-----------------------------------------------------------------------------

Main(s) == Trigger(s) \/ Stop(s) \/ PassOver(s) \/ SkipMail(s) \/ Post(s) \/ MarkRead(s)
Serve(r) == TakeFile(r) \/ FilesDone(r) \/ Notify(r) \/ Save(r) \/ Reply(r) \/ CommitResend(r)

Next ==
  \/ \E s \in Script : Main(s) \/ GiveUp(s) \/ Kill(s)
  \/ \E r \in Request : Serve(r) \/ LooseUpload(r) \/ LooseTaxForm(r) \/ StartResend(r) \/ Die(r)

Spec == Init /\ [][Next]_vars

\* The timer fires again and again, an execution runs on, a request is served.
FairSpec == Spec /\ (\A s \in Script : WF_vars(Main(s))) /\ (\A r \in Request : WF_vars(Serve(r)))

-----------------------------------------------------------------------------
(* Properties *)

Recorded(f) == \E i \in DOMAIN records : records[i].file = f
Contents(m) == {Files[m][i] : i \in DOMAIN Files[m]}

\* The script takes a mail off its list only when the server has every file of it
\* that it accepts: each has a record, or saving it failed and was logged.  This is
\* about the order of the upload, the check of its answer and the mark, with
\* executions and requests that die in between (email_upload.gs main).
ReadMailsKept ==
  \A m \in read : Attached(m) =>
    \A f \in Contents(m) : Allowed(f) => Recorded(f) \/ f \in unsaved

\* A file is the body or one attachment of one mail, whatever its name and contents:
\* only what other clients upload may be the same file again.
FilesDistinct ==
  \A m, n \in Mail : \A i \in DOMAIN Files[m], j \in DOMAIN Files[n] :
    Files[m][i] = Files[n][j] /\ Files[m][i] \notin Loose => m = n /\ i = j

\* Where nothing dies and executions do not overlap, no file of a mail is
\* recorded twice, however often the timer fires and although mails that the
\* server refuses are posted again each time (email_upload.gs main).
OnceWithoutFaults ==
  spent.faults = 0 /\ setting.overlap = 1 =>
    \A i, j \in DOMAIN records :
       records[i].file = records[j].file /\ records[i].file \notin Loose => i = j

\* The object store holds nothing that the page does not list, unless a request
\* died or its records could not be saved; and a record has a link only if the
\* file is there (upload_files: object first, record last).
StoredIsListed ==
  /\ spent.faults = 0 =>
       \A f \in objects : \/ Recorded(f) \/ f \in unsaved
                         \/ \E r \in Request : req[r].at \in {"files", "notice", "save"}
                                              /\ f \in FilesIn(req[r].drafts)
  /\ \A i \in DOMAIN records : records[i].url => records[i].file \in objects

\* Of the files of an upload, those that its message is to name: the first tax
\* form; without one, the first files of those the server accepts.
Announced(fs) ==
  LET taken == {i \in DOMAIN fs : Allowed(fs[i])}
      taxes == {i \in taken : Kind[fs[i]] = "tax"}
  IN  IF taxes # {} THEN {fs[i] : i \in {j \in taxes : \A k \in taxes : j <= k}}
      ELSE {fs[i] : i \in {j \in taken : Cardinality({k \in taken : k <= j}) <= Listed}}

\* "success" on the page is true: the group has a message about the file, or about
\* the files the message of its mail was to name.  It holds although notices sent
\* again at the same time write the same record (upload_files, resend_wechat).
SuccessWasTold ==
  \A i \in DOMAIN records : records[i].status = "success" =>
    \/ records[i].file \in told
    \/ \E m \in Mail : /\ records[i].file \in Contents(m)
                      /\ Announced(Files[m]) \subseteq told

\* The notices of a record that were sent and are not counted yet.
Uncounted(i) == {r \in Request : req[r].at = "resend" /\ req[r].id = i}

\* The page never shows more tries than were made, those that are not counted yet
\* left out.  With one server process it misses none but those of requests that
\* died after sending (resend_wechat reads the count, sends, and writes it back).
RetriesCounted ==
  \A i \in DOMAIN records :
    LET counted == records[i].retries + Cardinality(Uncounted(i))
    IN  /\ counted <= tries[i]
        /\ setting.workers = 1 => tries[i] <= counted + spent.faults

\* Every mail the server would accept is off the list in the end, whatever became
\* of it before, and although another mail is refused each time (the try in the
\* loop of main keeps one mail from stopping the rest).
EveryMailHandled ==
  \A m \in Mail : Attached(m) /\ Len(Files[m]) <= MAX_FILES /\ Authorized => <>(m \in read)
=============================================================================
