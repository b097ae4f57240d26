----------------------------- MODULE UploadsProofs -----------------------------
(***************************************************************************)
(* Proofs about Uploads, for any mails, files, requests and deployments.     *)
(* Every argument is about what a request carries from the call it has made  *)
(* to the row it will write: its drafts cover what it has read of a mail     *)
(* (Awaits), their links are in the store (LinksStored), and what a resend   *)
(* read of a row has not become more than the tries since (SeenCounts).      *)
(* They are the accepted files of a prefix of what was uploaded, in its      *)
(* order (Part): hence the message names what it is to name, which makes the *)
(* status of a row true (Truthful), and no file of a mail is drafted twice,  *)
(* which with what the one execution knows of its mails makes the rows of a  *)
(* calm deployment unique (Orderly).                                         *)
(***************************************************************************)
EXTENDS Uploads, FiniteSetTheorems, SequenceTheorems, TLAPS

-----------------------------------------------------------------------------
(* Requests *)

\* What a request may be, told by its phase.
LEMMA Forms ==
  ASSUME TypeOK, NEW r \in Request
  PROVE  /\ req[r] \in Upload \cup Resend \cup {Idle}
         /\ req[r] \in Upload <=> req[r].at \in {"files", "notice", "save", "answer"}
         /\ req[r] \in Resend <=> req[r].at = "resend"
         /\ req[r] = Idle <=> req[r].at = "idle"
<1>1. req[r] \in Upload \cup Resend \cup {Idle}  BY DEF TypeOK
<1>2. \A q \in Upload : q.at \in {"files", "notice", "save", "answer"}  BY DEF Upload
<1>3. \A q \in Resend : q.at = "resend"  BY DEF Resend
<1>4. Idle.at = "idle"  BY DEF Idle
<1>5. QED  BY <1>1, <1>2, <1>3, <1>4

LEMMA UploadFields ==
  ASSUME NEW q \in Upload
  PROVE  /\ q.left \in Seq(File) /\ q.drafts \in Seq(Draft) /\ q.store \in BOOLEAN
         /\ q.send \in BOOLEAN /\ q.status \in Statuses
         /\ q.code \in {0, 200, 400, 401, 500}
         /\ FilesIn(q.drafts) \subseteq File
<1>1. /\ q.left \in Seq(File) /\ q.drafts \in Seq(Draft) /\ q.store \in BOOLEAN
      /\ q.send \in BOOLEAN /\ q.status \in Statuses
      /\ q.code \in {0, 200, 400, 401, 500}
  BY DEF Upload
<1>2. \A i \in DOMAIN q.drafts : q.drafts[i] \in Draft  BY <1>1
<1>3. FilesIn(q.drafts) \subseteq File  BY <1>2 DEF FilesIn, Draft
<1>4. QED  BY <1>1, <1>3

LEMMA NewUploadTyped ==
  ASSUME NEW fs \in Seq(File), NEW store \in BOOLEAN, NEW send \in BOOLEAN
  PROVE  /\ NewUpload(fs, store, send) \in Upload
         /\ NewUpload(fs, store, send).at = "files"
         /\ NewUpload(fs, store, send).left = fs
         /\ NewUpload(fs, store, send).drafts = <<>>
         /\ NewUpload(fs, store, send).code = 0
         /\ NewUpload(fs, store, send).status = "skipped"
BY DEF NewUpload, Upload, Statuses

LEMMA AnsweredTyped ==
  ASSUME NEW q \in Upload, NEW code \in {200, 400, 401, 500}
  PROVE  /\ Answered(q, code) \in Upload /\ Answered(q, code).at = "answer"
         /\ Answered(q, code).code = code /\ Answered(q, code).drafts = q.drafts
         /\ Answered(q, code).left = q.left /\ Answered(q, code).status = q.status
BY DEF Answered, Upload

\* What the loop makes of an upload when it has taken a file.
LEMMA DraftAdded ==
  ASSUME NEW q \in Upload, q.left # <<>>, NEW url \in BOOLEAN
  PROVE  LET p == [q EXCEPT !.left = Tail(@)]
             d == [p EXCEPT !.drafts = Append(@, [file |-> q.left[1], url |-> url])]
         IN  /\ q.left[1] \in File
             /\ p \in Upload /\ p.at = q.at /\ p.drafts = q.drafts /\ p.left = Tail(q.left)
             /\ d \in Upload /\ d.at = q.at /\ d.left = Tail(q.left)
             /\ p.status = q.status /\ d.status = q.status
             /\ d.drafts = Append(q.drafts, [file |-> q.left[1], url |-> url])
<1>1. q.left \in Seq(File) /\ q.drafts \in Seq(Draft)  BY UploadFields
<1>2. q.left[1] \in File /\ Tail(q.left) \in Seq(File)  BY <1>1
<1>3. [file |-> q.left[1], url |-> url] \in Draft  BY <1>2 DEF Draft
<1>4. Append(q.drafts, [file |-> q.left[1], url |-> url]) \in Seq(Draft)  BY <1>1, <1>3
<1>5. QED  BY <1>1, <1>2, <1>4 DEF Upload

LEMMA NamedTyped ==
  ASSUME NEW fs \in Seq(File)
  PROVE  Named(fs) \subseteq File
BY DEF Named

LEMMA NoticeTyped ==
  ASSUME NEW q \in Upload
  PROVE  Named([i \in DOMAIN q.drafts |-> q.drafts[i].file]) \subseteq File
<1>1. q.drafts \in Seq(Draft)  BY UploadFields
<1>2. PICK n \in Nat : q.drafts \in [1..n -> Draft]  BY <1>1
<1>3. [i \in DOMAIN q.drafts |-> q.drafts[i].file] \in [1..n -> File]  BY <1>2 DEF Draft
<1>4. [i \in DOMAIN q.drafts |-> q.drafts[i].file] \in Seq(File)  BY <1>3
<1>5. QED  BY <1>4, NamedTyped

-----------------------------------------------------------------------------
(* Types *)

\* An execution that has taken a mail knows which.
MailTaken == \A s \in Script : run[s].at \in {"waiting", "accepted"} => run[s].mail \in Mail

\* A resend is about a row there is.
RowsKnown == \A r \in Request : req[r].at = "resend" => req[r].id \in DOMAIN records

Typed == TypeOK /\ MailTaken /\ RowsKnown

\* The counters of what happened, as far as the deployment allows it.
LEMMA SpentTyped ==
  ASSUME TypeOK
  PROVE  /\ setting \in Setting
         /\ spent \in [faults : Nat, failures : Nat, loose : Nat, resends : Nat]
         /\ \A what \in {"faults", "failures", "loose", "resends"} :
              spent[what] \in 0..setting[what] /\ setting[what] \in Nat
BY UploadConstants DEF TypeOK, Setting

Counters == {"faults", "failures", "loose", "resends"}
SpentOK(cost) == cost \in [faults : 0..setting.faults, failures : 0..setting.failures,
                           loose : 0..setting.loose, resends : 0..setting.resends]

LEMMA SpendTyped ==
  ASSUME TypeOK, NEW what \in Counters, Spend(what)
  PROVE  SpentOK(spent')
<1>1. SpentOK(spent) /\ setting \in Setting  BY SpentTyped DEF TypeOK, SpentOK
<1>2. setting.faults \in Nat /\ setting.failures \in Nat /\ setting.loose \in Nat
      /\ setting.resends \in Nat
  BY <1>1 DEF Setting
<1>3. CASE what = "faults"    BY <1>1, <1>2, <1>3 DEF Spend, SpentOK
<1>4. CASE what = "failures"  BY <1>1, <1>2, <1>4 DEF Spend, SpentOK
<1>5. CASE what = "loose"     BY <1>1, <1>2, <1>5 DEF Spend, SpentOK
<1>6. CASE what = "resends"   BY <1>1, <1>2, <1>6 DEF Spend, SpentOK
<1>7. QED  BY <1>3, <1>4, <1>5, <1>6 DEF Counters

LEMMA CallFailsTyped ==
  ASSUME TypeOK, NEW cost, SpentOK(cost), CallFails(cost)
  PROVE  /\ SpentOK(spent') /\ spent'.faults = cost.faults
BY SpentTyped DEF CallFails, SpentOK, Setting

LEMMA DeliverTyped ==
  ASSUME TypeOK, NEW fs \in SUBSET File, NEW status, NEW cost, SpentOK(cost),
         Deliver(fs, status, cost)
  PROVE  /\ status \in {"success", "failed"} /\ SpentOK(spent')
         /\ spent'.faults = cost.faults
         /\ told' \subseteq File /\ told \subseteq told'
BY CallFailsTyped DEF Deliver, TypeOK

\* A change of the executions that wait for a request.
LEMMA ResumeTyped ==
  ASSUME Typed, NEW r \in Request, NEW at \in {"loop", "accepted"}, Resume(r, at)
  PROVE  /\ run' \in [Script -> Execution \cup {Off}]
         /\ \A s \in Script :
              run'[s] = run[s] \/ (/\ run[s].at = "waiting" /\ run[s].request = r
                                   /\ run'[s].at = at /\ run'[s].mail = run[s].mail
                                   /\ run'[s].todo = run[s].todo)
         /\ \A s \in Script :
              run[s].at = "waiting" /\ run[s].request = r => run'[s].at = at
         /\ MailTaken'
<1>1. run \in [Script -> Execution \cup {Off}]  BY DEF Typed, TypeOK
<1>2. ASSUME NEW s \in Script
      PROVE  /\ run'[s] \in Execution \cup {Off}
             /\ run'[s] = run[s] \/ (/\ run[s].at = "waiting" /\ run[s].request = r
                                     /\ run'[s].at = at /\ run'[s].mail = run[s].mail
                                     /\ run'[s].todo = run[s].todo)
             /\ run[s].at = "waiting" /\ run[s].request = r => run'[s].at = at
  <2>1. CASE run[s].at = "waiting" /\ run[s].request = r
    <3>1. run[s] \in Execution  BY <1>1, <2>1 DEF Off
    <3>2. run'[s] = [run[s] EXCEPT !.at = at, !.request = None]  BY <2>1 DEF Resume
    <3>3. QED  BY <2>1, <3>1, <3>2 DEF Execution
  <2>2. CASE ~(run[s].at = "waiting" /\ run[s].request = r)
    BY <1>1, <2>2 DEF Resume
  <2>3. QED  BY <2>1, <2>2
<1>3. run' \in [Script -> Execution \cup {Off}]  BY <1>2 DEF Resume
<1>4. MailTaken'  BY <1>2 DEF MailTaken, Typed
<1>5. QED  BY <1>2, <1>3, <1>4

LEMMA TakeTyped ==
  ASSUME Typed, NEW s \in Script, NEW m \in Mail, NEW at \in {"waiting", "accepted"},
         NEW r \in Request \cup {None}, Take(s, m, at, r)
  PROVE  /\ run' \in [Script -> Execution \cup {Off}] /\ MailTaken'
         /\ run[s].at = "loop" /\ \A x \in Script \ {s} : run'[x] = run[x]
         /\ run'[s].at = at /\ run'[s].mail = m /\ run'[s].request = r
         /\ m \in run[s].todo /\ run'[s].todo = run[s].todo \ {m}
<1>1. run \in [Script -> Execution \cup {Off}]  BY DEF Typed, TypeOK
<1>2. run[s] \in Execution /\ run[s].at = "loop"  BY <1>1 DEF Take, Off
<1>3. run' = [run EXCEPT ![s] = [at |-> at, todo |-> run[s].todo \ {m}, mail |-> m,
                                 request |-> r]]
  BY DEF Take
<1>4. [at |-> at, todo |-> run[s].todo \ {m}, mail |-> m, request |-> r] \in Execution
  BY <1>2 DEF Execution
<1>5. run' \in [Script -> Execution \cup {Off}]  BY <1>1, <1>3, <1>4
<1>6. \A x \in Script \ {s} : run'[x] = run[x]  BY <1>1, <1>3
<1>7. /\ run'[s].at = at /\ run'[s].mail = m /\ run'[s].request = r
      /\ m \in run[s].todo /\ run'[s].todo = run[s].todo \ {m}
  BY <1>1, <1>3 DEF Take
<1>8. MailTaken'  BY <1>6, <1>7 DEF MailTaken, Typed
<1>9. QED  BY <1>2, <1>5, <1>6, <1>7, <1>8

\* What a step of a request does to the request, one lemma for each.
Others(r) == \A q \in Request \ {r} : req'[q] = req[q]

LEMMA TakeFileStep ==
  ASSUME TypeOK, NEW r \in Request, TakeFile(r)
  PROVE  /\ req[r] \in Upload /\ req'[r] \in Upload /\ Others(r)
         /\ req' \in [Request -> Upload \cup Resend \cup {Idle}]
         /\ req[r].at = "files" /\ req[r].left # <<>> /\ req'[r].at = "files"
         /\ req'[r].left = Tail(req[r].left) /\ req'[r].status = req[r].status
         /\ \/ /\ req'[r].drafts = req[r].drafts /\ ~Allowed(req[r].left[1])
               /\ objects' = objects
            \/ \E url \in BOOLEAN :
                 /\ Allowed(req[r].left[1])
                 /\ req'[r].drafts = Append(req[r].drafts, [file |-> req[r].left[1], url |-> url])
                 /\ objects' \in {objects, objects \cup {req[r].left[1]}}
                 /\ url => objects' = objects \cup {req[r].left[1]}
         /\ objects' \subseteq File /\ objects \subseteq objects'
         /\ SpentOK(spent') /\ spent'.faults = spent.faults
         /\ UNCHANGED <<mailbox, tables, told, setting>>
<1>1. req[r] \in Upload /\ req[r].left # <<>> /\ req[r].at = "files"  BY Forms DEF TakeFile
<1>2. SpentOK(spent) /\ objects \subseteq File  BY DEF TypeOK, SpentOK
<1>3. PICK q : q = req[r]  OBVIOUS
<1>4. q \in Upload /\ q.left # <<>> /\ q.at = "files"  BY <1>1, <1>3
<1> DEFINE f == q.left[1]
           p == [q EXCEPT !.left = Tail(@)]
           with(url) == [p EXCEPT !.drafts = Append(@, [file |-> f, url |-> url])]
<1>5. \A url \in BOOLEAN :
        /\ f \in File /\ p \in Upload /\ p.at = "files" /\ p.drafts = q.drafts
        /\ p.left = Tail(q.left) /\ p.status = q.status /\ with(url).status = q.status
        /\ with(url) \in Upload /\ with(url).at = "files" /\ with(url).left = Tail(q.left)
        /\ with(url).drafts = Append(q.drafts, [file |-> f, url |-> url])
  BY <1>4, DraftAdded
<1>6. \/ ~Allowed(f) /\ req' = [req EXCEPT ![r] = p] /\ UNCHANGED <<objects, spent>>
      \/ /\ Allowed(f) /\ ~q.store
         /\ req' = [req EXCEPT ![r] = with(FALSE)]
         /\ UNCHANGED <<objects, spent>>
      \/ /\ Allowed(f) /\ q.store
         /\ req' = [req EXCEPT ![r] = with(TRUE)]
         /\ objects' = objects \cup {f} /\ UNCHANGED spent
      \/ /\ Allowed(f) /\ q.store /\ CallFails(spent)
         /\ req' = [req EXCEPT ![r] = with(FALSE)]
         /\ objects' \in {objects, objects \cup {f}}
  BY <1>3, Zenon DEF TakeFile
<1>7. UNCHANGED <<mailbox, tables, told, setting>>  BY DEF TakeFile
<1>8. CallFails(spent) => SpentOK(spent') /\ spent'.faults = spent.faults
  BY <1>2, CallFailsTyped
<1> HIDE DEF p, with, f
<1>9. req \in [Request -> Upload \cup Resend \cup {Idle}]  BY DEF TypeOK
<1>10. CASE ~Allowed(f) /\ req' = [req EXCEPT ![r] = p] /\ UNCHANGED <<objects, spent>>
  <2>1. req'[r] = p  BY <1>9, <1>10
  <2>2. Others(r)  BY <1>9, <1>10 DEF Others
  <2>3. req' \in [Request -> Upload \cup Resend \cup {Idle}]  BY <1>5, <1>9, <1>10
  <2>4. QED  BY <1>1, <1>2, <1>3, <1>5, <1>7, <1>10, <2>1, <2>2, <2>3 DEF f
<1>11. CASE \E url \in BOOLEAN :
              /\ req' = [req EXCEPT ![r] = with(url)] /\ Allowed(f)
              /\ objects' \in {objects, objects \cup {f}} /\ (url => objects' = objects \cup {f})
              /\ SpentOK(spent') /\ spent'.faults = spent.faults
  <2>1. PICK url \in BOOLEAN :
              /\ req' = [req EXCEPT ![r] = with(url)] /\ Allowed(f)
              /\ objects' \in {objects, objects \cup {f}} /\ (url => objects' = objects \cup {f})
              /\ SpentOK(spent') /\ spent'.faults = spent.faults
    BY <1>11
  <2>2. req'[r] = with(url)  BY <1>9, <2>1
  <2>3. Others(r)  BY <1>9, <2>1 DEF Others
  <2>4. req' \in [Request -> Upload \cup Resend \cup {Idle}]  BY <1>5, <1>9, <2>1
  <2>5. objects' \subseteq File /\ objects \subseteq objects'  BY <1>2, <1>5, <2>1
  <2>6. /\ req'[r] \in Upload /\ req'[r].at = "files" /\ req'[r].left = Tail(req[r].left)
        /\ req'[r].status = req[r].status
        /\ req'[r].drafts = Append(req[r].drafts, [file |-> req[r].left[1], url |-> url])
    BY <1>3, <1>5, <2>2 DEF f
  <2>7. /\ objects' \in {objects, objects \cup {req[r].left[1]}}
        /\ url => objects' = objects \cup {req[r].left[1]}
        /\ Allowed(req[r].left[1])
    BY <1>3, <2>1 DEF f
  <2>8. QED  BY <1>1, <1>7, <2>1, <2>3, <2>4, <2>5, <2>6, <2>7
<1>12. QED  BY <1>2, <1>6, <1>8, <1>10, <1>11

LEMMA FilesDoneStep ==
  ASSUME TypeOK, NEW r \in Request, FilesDone(r)
  PROVE  /\ req[r] \in Upload /\ req'[r] \in Upload /\ Others(r)
         /\ req' \in [Request -> Upload \cup Resend \cup {Idle}]
         /\ req[r].at = "files" /\ req[r].left = <<>> /\ req'[r].at \in {"notice", "save"}
         /\ req'[r].drafts = req[r].drafts /\ req'[r].left = <<>>
         /\ req'[r].status = req[r].status
<1>1. req[r] \in Upload  BY Forms DEF FilesDone
<1>2. PICK at \in {"notice", "save"} : req' = [req EXCEPT ![r].at = at]
  BY DEF FilesDone, Goto
<1>3. req \in [Request -> Upload \cup Resend \cup {Idle}]  BY DEF TypeOK
<1>4. req'[r] = [req[r] EXCEPT !.at = at]  BY <1>2, <1>3
<1>5. PICK q \in Upload : q = req[r]  BY <1>1
<1>6. req'[r] = [q EXCEPT !.at = at]  BY <1>4, <1>5
<1>7. req'[r] \in Upload /\ req'[r].at = at /\ req'[r].left = q.left
      /\ req'[r].drafts = q.drafts /\ req'[r].status = q.status
  BY <1>5, <1>6 DEF Upload
<1>8. Others(r)  BY <1>2, <1>3 DEF Others
<1>9. req' \in [Request -> Upload \cup Resend \cup {Idle}]  BY <1>2, <1>3, <1>4, <1>7
<1>10. QED  BY <1>1, <1>5, <1>7, <1>8, <1>9 DEF FilesDone

\* What the notice leaves of an upload, with what came of it.
Noticed(p, q, status) == p = [q EXCEPT !.at = "save", !.status = status]

LEMMA StatusTyped ==
  ASSUME NEW q \in Upload, NEW status \in Statuses, NEW p, Noticed(p, q, status)
  PROVE  /\ p \in Upload /\ p.at = "save" /\ p.left = q.left /\ p.drafts = q.drafts
         /\ p.status = status
BY DEF Upload, Noticed

\* The files of the drafts, as the handler passes them to the message.
Processed(q) == [i \in DOMAIN q.drafts |-> q.drafts[i].file]

LEMMA NotifyStep ==
  ASSUME TypeOK, NEW r \in Request, Notify(r)
  PROVE  /\ req[r] \in Upload /\ req'[r] \in Upload /\ Others(r)
         /\ req' \in [Request -> Upload \cup Resend \cup {Idle}]
         /\ req[r].at = "notice" /\ req'[r].at = "save"
         /\ req'[r].drafts = req[r].drafts /\ req'[r].left = req[r].left
         /\ told' \subseteq File /\ told \subseteq told'
         /\ req'[r].status = "success" => Named(Processed(req[r])) \subseteq told'
         /\ SpentOK(spent') /\ spent'.faults = spent.faults
<1>1. req[r] \in Upload  BY Forms DEF Notify
<1>2. PICK status \in {"success", "failed"} :
        /\ Deliver(Named([i \in DOMAIN req[r].drafts |-> req[r].drafts[i].file]), status, spent)
        /\ req' = [req EXCEPT ![r].at = "save", ![r].status = status]
  BY DEF Notify
<1>3. req \in [Request -> Upload \cup Resend \cup {Idle}]  BY DEF TypeOK
<1>4. req'[r] = [req[r] EXCEPT !.at = "save", !.status = status]  BY <1>2, <1>3
<1>5. PICK q \in Upload : q = req[r]  BY <1>1
<1>6. status \in Statuses  BY DEF Statuses
<1>7. req'[r] \in Upload /\ req'[r].at = "save" /\ req'[r].left = q.left
      /\ req'[r].drafts = q.drafts /\ req'[r].status = status
  <2>1. Noticed(req'[r], q, status)  BY <1>4, <1>5 DEF Noticed
  <2>2. QED  BY <1>6, <2>1, StatusTyped, Zenon
<1>8. Others(r)  BY <1>2, <1>3 DEF Others
<1>9. req' \in [Request -> Upload \cup Resend \cup {Idle}]
  <2>1. \A x \in Request : req'[x] \in Upload \cup Resend \cup {Idle}
    BY <1>3, <1>7, <1>8 DEF Others
  <2>2. req' = [x \in Request |-> req'[x]]  BY <1>2, <1>3
  <2>3. QED  BY <2>1, <2>2
<1>10. /\ told' \subseteq File /\ told \subseteq told'
       /\ SpentOK(spent') /\ spent'.faults = spent.faults
  <2>1. Named([i \in DOMAIN req[r].drafts |-> req[r].drafts[i].file]) \subseteq File
    BY <1>1, NoticeTyped
  <2>2. SpentOK(spent)  BY DEF TypeOK, SpentOK
  <2>3. QED  BY <1>2, <2>1, <2>2, DeliverTyped
<1>11. status = "success" => Named(Processed(req[r])) \subseteq told'
  BY <1>2 DEF Deliver, Processed
<1>12. QED  BY <1>1, <1>5, <1>7, <1>8, <1>9, <1>10, <1>11 DEF Notify

Joined(c, a, b) == c = a \o b
Prolongs(c, a, b) ==
  /\ Len(c) = Len(a) + Len(b)
  /\ \A i \in DOMAIN a : i \in DOMAIN c /\ c[i] = a[i]
  /\ \A i \in DOMAIN c \ DOMAIN a : i - Len(a) \in DOMAIN b /\ c[i] = b[i - Len(a)]
  /\ \A j \in DOMAIN b : Len(a) + j \in DOMAIN c /\ c[Len(a) + j] = b[j]

LEMMA Appended ==
  ASSUME NEW S, NEW a \in Seq(S), NEW b \in Seq(S), NEW c, Joined(c, a, b)
  PROVE  c \in Seq(S) /\ Prolongs(c, a, b)
<1>1. /\ c \in Seq(S) /\ Len(c) = Len(a) + Len(b)
      /\ \A i \in 1..Len(a) + Len(b) : c[i] = IF i <= Len(a) THEN a[i] ELSE b[i - Len(a)]
  BY ConcatProperties DEF Joined
<1>2. DOMAIN c = 1..Len(a) + Len(b) /\ DOMAIN a = 1..Len(a) /\ DOMAIN b = 1..Len(b)
      /\ Len(a) \in Nat /\ Len(b) \in Nat
  BY <1>1
<1>3. QED  BY <1>1, <1>2 DEF Prolongs

\* The rows that are written for the drafts.
Rows(ds, status) ==
  [i \in DOMAIN ds |-> [file |-> ds[i].file, url |-> ds[i].url, status |-> status, retries |-> 0]]
Zeros(ds) == [i \in DOMAIN ds |-> 0]

LEMMA RowsTyped ==
  ASSUME NEW ds \in Seq(Draft), NEW status \in Statuses
  PROVE  /\ Rows(ds, status) \in Seq(Record) /\ Zeros(ds) \in Seq(Nat)
         /\ DOMAIN Rows(ds, status) = DOMAIN ds /\ DOMAIN Zeros(ds) = DOMAIN ds
         /\ Len(Rows(ds, status)) = Len(Zeros(ds))
         /\ \A j \in DOMAIN ds : /\ Rows(ds, status)[j].file = ds[j].file
                                 /\ Rows(ds, status)[j].url = ds[j].url
                                 /\ Rows(ds, status)[j].status = status
                                 /\ Rows(ds, status)[j].retries = 0 /\ Zeros(ds)[j] = 0
<1>1. DOMAIN ds = 1..Len(ds) /\ Len(ds) \in Nat  OBVIOUS
<1>2. \A j \in DOMAIN ds : ds[j] \in Draft  OBVIOUS
<1>3. \A j \in DOMAIN ds :
        [file |-> ds[j].file, url |-> ds[j].url, status |-> status, retries |-> 0] \in Record
  BY <1>2 DEF Draft, Record
<1>4. Rows(ds, status) \in [1..Len(ds) -> Record]  BY <1>1, <1>3 DEF Rows
<1>5. Zeros(ds) \in [1..Len(ds) -> Nat]  BY <1>1 DEF Zeros
<1>6. Rows(ds, status) \in Seq(Record) /\ Zeros(ds) \in Seq(Nat)  BY <1>1, <1>4, <1>5
<1>7. Len(Rows(ds, status)) = Len(Zeros(ds))  BY <1>1, <1>4, <1>5
<1>8. QED  BY <1>1, <1>4, <1>5, <1>6, <1>7 DEF Rows, Zeros

\* What the rows and their tries have become.
Added(c, d, a, b, ds, status) ==
  /\ c \in Seq(Record) /\ d \in Seq(Nat) /\ Len(d) = Len(c)
  /\ \A i \in DOMAIN a : i \in DOMAIN c /\ c[i] = a[i] /\ d[i] = b[i]
  /\ \A i \in DOMAIN c \ DOMAIN a :
       /\ c[i].retries = 0 /\ d[i] = 0 /\ c[i].status = status
       /\ \E j \in DOMAIN ds : /\ i = Len(a) + j
                              /\ c[i].file = ds[j].file /\ c[i].url = ds[j].url
  /\ \A j \in DOMAIN ds : \E i \in DOMAIN c : c[i].file = ds[j].file

LEMMA RowsAdded ==
  ASSUME NEW a \in Seq(Record), NEW b \in Seq(Nat), Len(b) = Len(a),
         NEW ds \in Seq(Draft), NEW status \in Statuses,
         NEW c, Joined(c, a, Rows(ds, status)), NEW d, Joined(d, b, Zeros(ds))
  PROVE  Added(c, d, a, b, ds, status)
<1>1. PICK rows : rows = Rows(ds, status)  OBVIOUS
<1>2. PICK zeros : zeros = Zeros(ds)  OBVIOUS
<1>3. /\ rows \in Seq(Record) /\ zeros \in Seq(Nat) /\ DOMAIN rows = DOMAIN ds
      /\ DOMAIN zeros = DOMAIN ds /\ Len(rows) = Len(zeros)
      /\ \A j \in DOMAIN ds : /\ rows[j].file = ds[j].file /\ rows[j].url = ds[j].url
                              /\ rows[j].status = status
                              /\ rows[j].retries = 0 /\ zeros[j] = 0
  BY <1>1, <1>2, RowsTyped
<1>4. c \in Seq(Record) /\ Prolongs(c, a, rows)  BY <1>1, <1>3, Appended
<1>5. d \in Seq(Nat) /\ Prolongs(d, b, zeros)  BY <1>2, <1>3, Appended
<1>6. Len(d) = Len(c)  BY <1>3, <1>4, <1>5 DEF Prolongs
<1>7. DOMAIN a = DOMAIN b /\ DOMAIN c = DOMAIN d  BY <1>4, <1>5, <1>6
<1>8. \A i \in DOMAIN a : i \in DOMAIN c /\ c[i] = a[i] /\ d[i] = b[i]
  BY <1>4, <1>5, <1>7 DEF Prolongs
<1>9. ASSUME NEW i \in DOMAIN c \ DOMAIN a
      PROVE  /\ c[i].retries = 0 /\ d[i] = 0 /\ c[i].status = status
             /\ \E j \in DOMAIN ds : /\ i = Len(a) + j
                                    /\ c[i].file = ds[j].file /\ c[i].url = ds[j].url
  <2>1. i - Len(a) \in DOMAIN ds /\ c[i] = rows[i - Len(a)]  BY <1>3, <1>4 DEF Prolongs
  <2>2. d[i] = zeros[i - Len(a)]  BY <1>5, <1>7 DEF Prolongs
  <2>3. i = Len(a) + (i - Len(a))  BY <1>4
  <2>4. QED  BY <1>3, <2>1, <2>2, <2>3
<1>10. \A j \in DOMAIN ds : \E i \in DOMAIN c : c[i].file = ds[j].file
  BY <1>3, <1>4 DEF Prolongs
<1>11. QED  BY <1>4, <1>5, <1>6, <1>8, <1>9, <1>10 DEF Added

LEMMA SaveStep ==
  ASSUME TypeOK, NEW r \in Request, Save(r)
  PROVE  /\ req[r] \in Upload /\ req'[r] \in Upload /\ Others(r)
         /\ req' \in [Request -> Upload \cup Resend \cup {Idle}]
         /\ req[r].at = "save" /\ req'[r].at = "answer" /\ req'[r].code = 200
         /\ req'[r].drafts = req[r].drafts
         /\ records' \in Seq(Record) /\ tries' \in Seq(Nat) /\ Len(tries') = Len(records')
         /\ \A i \in DOMAIN records : /\ i \in DOMAIN records' /\ records'[i] = records[i]
                                      /\ tries'[i] = tries[i]
         /\ \A i \in DOMAIN records' \ DOMAIN records :
              /\ records'[i].retries = 0 /\ tries'[i] = 0
              /\ records'[i].status = req[r].status
              /\ \E j \in DOMAIN req[r].drafts : /\ i = Len(records) + j
                                                 /\ records'[i].file = req[r].drafts[j].file
                                                 /\ records'[i].url = req[r].drafts[j].url
         /\ \A f \in FilesIn(req[r].drafts) : Recorded(f)' \/ f \in unsaved'
         /\ unsaved' \subseteq File /\ unsaved \subseteq unsaved'
         /\ SpentOK(spent') /\ spent'.faults = spent.faults
<1>1. req[r] \in Upload  BY Forms DEF Save
<1>2. PICK ds : ds = req[r].drafts  OBVIOUS
<1>3. ds \in Seq(Draft) /\ FilesIn(ds) \subseteq File  BY <1>1, <1>2, UploadFields
<1>4. req' = [req EXCEPT ![r] = Answered(req[r], 200)]  BY DEF Save
<1>5. req \in [Request -> Upload \cup Resend \cup {Idle}]  BY DEF TypeOK
<1>6. /\ req'[r] \in Upload /\ Others(r) /\ req' \in [Request -> Upload \cup Resend \cup {Idle}]
      /\ req'[r].at = "answer" /\ req'[r].code = 200 /\ req'[r].drafts = req[r].drafts
  <2>1. /\ Answered(req[r], 200) \in Upload /\ Answered(req[r], 200).at = "answer"
        /\ Answered(req[r], 200).code = 200
        /\ Answered(req[r], 200).drafts = req[r].drafts
    BY <1>1, AnsweredTyped
  <2>2. QED  BY <1>4, <1>5, <2>1 DEF Others
<1>7. \/ /\ records' = records \o Rows(ds, req[r].status)
         /\ tries' = tries \o Zeros(ds)
         /\ UNCHANGED <<unsaved, spent>>
      \/ /\ CallFails(spent)
         /\ unsaved' = unsaved \cup FilesIn(ds)
         /\ UNCHANGED <<records, tries>>
  BY <1>2, Zenon DEF Save, Rows, Zeros
<1>8. /\ SpentOK(spent) /\ unsaved \subseteq File /\ req[r].status \in Statuses
      /\ records \in Seq(Record) /\ tries \in Seq(Nat) /\ Len(tries) = Len(records)
  BY <1>1, UploadFields DEF TypeOK, SpentOK
<1>9. CASE /\ records' = records \o Rows(ds, req[r].status)
           /\ tries' = tries \o Zeros(ds)
           /\ UNCHANGED <<unsaved, spent>>
  <2>1. /\ records' \in Seq(Record) /\ tries' \in Seq(Nat) /\ Len(tries') = Len(records')
        /\ \A i \in DOMAIN records : /\ i \in DOMAIN records' /\ records'[i] = records[i]
                                     /\ tries'[i] = tries[i]
        /\ \A i \in DOMAIN records' \ DOMAIN records :
             /\ records'[i].retries = 0 /\ tries'[i] = 0 /\ records'[i].status = req[r].status
             /\ \E j \in DOMAIN ds : /\ i = Len(records) + j
                                    /\ records'[i].file = ds[j].file /\ records'[i].url = ds[j].url
        /\ \A j \in DOMAIN ds : \E i \in DOMAIN records' : records'[i].file = ds[j].file
    <3>1. Joined(records', records, Rows(ds, req[r].status)) /\ Joined(tries', tries, Zeros(ds))
      BY <1>9 DEF Joined
    <3>2. Added(records', tries', records, tries, ds, req[r].status)  BY <1>3, <1>8, <3>1, RowsAdded
    <3>3. QED  BY <3>2 DEF Added
  <2>2. \A f \in FilesIn(ds) : Recorded(f)'
    <3>1. SUFFICES ASSUME NEW f \in FilesIn(ds) PROVE Recorded(f)'  OBVIOUS
    <3>2. PICK j \in DOMAIN ds : f = ds[j].file  BY <3>1 DEF FilesIn
    <3>3. QED  BY <2>1, <3>2 DEF Recorded
  <2>3. QED  BY <1>1, <1>2, <1>6, <1>8, <1>9, <2>1, <2>2 DEF Save
<1>10. CASE /\ CallFails(spent)
            /\ unsaved' = unsaved \cup FilesIn(ds)
            /\ UNCHANGED <<records, tries>>
  <2>1. SpentOK(spent') /\ spent'.faults = spent.faults  BY <1>8, <1>10, CallFailsTyped
  <2>2. QED  BY <1>1, <1>2, <1>3, <1>6, <1>8, <1>10, <2>1 DEF Save
<1>11. QED  BY <1>7, <1>9, <1>10

\* What a request of another client begins with.
Fresh(f, q) ==
  \/ q.at = "files" /\ q.left = <<f>> /\ q.drafts = <<>>
  \/ /\ q.at \in {"notice", "save"} /\ q.left = <<>> /\ Allowed(f)
     /\ q.drafts = <<[file |-> f, url |-> FALSE]>>
  \/ q.at = "answer" /\ q.code \in {400, 500}

\* A request of another client begins, with nothing stored yet.
LEMMA LooseStep ==
  ASSUME TypeOK, NEW r \in Request, LooseUpload(r) \/ LooseTaxForm(r)
  PROVE  /\ req[r] = Idle /\ req'[r] \in Upload /\ Others(r)
         /\ req' \in [Request -> Upload \cup Resend \cup {Idle}]
         /\ \A j \in DOMAIN req'[r].drafts : ~req'[r].drafts[j].url
         /\ req'[r].at \in {"notice", "save"} => req'[r].left = <<>>
         /\ \E f \in Loose : Fresh(f, req'[r])
         /\ req'[r].status \in {"skipped", None}
         /\ SpentOK(spent') /\ spent'.faults = spent.faults
         /\ UNCHANGED <<mailbox, tables, objects, told, setting>>
<1>1. req \in [Request -> Upload \cup Resend \cup {Idle}]  BY DEF TypeOK
<1>2. /\ req[r] = Idle /\ Spend("loose")
      /\ UNCHANGED <<mailbox, tables, objects, told, setting>>
  BY DEF LooseUpload, LooseTaxForm
<1>3. SpentOK(spent')  BY <1>2, SpendTyped DEF Counters
<1>4. spent'.faults = spent.faults  BY <1>2, SpentTyped DEF Spend
<1>5. Loose \subseteq File  BY UploadConstants
<1>6. \E q \in Upload, f \in Loose :
        /\ req' = [req EXCEPT ![r] = q]
        /\ \A j \in DOMAIN q.drafts : ~q.drafts[j].url
        /\ Fresh(f, q) /\ q.status \in {"skipped", None}
  <2>1. CASE LooseUpload(r)
    <3>1. PICK f \in Loose, store \in BOOLEAN, send \in BOOLEAN :
            req' = [req EXCEPT ![r] = NewUpload(<<f>>, store, send)]
      BY <2>1 DEF LooseUpload
    <3>2. PICK fs \in Seq(File) : fs = <<f>>
      <4>1. <<f>> \in Seq(File)  BY <1>5
      <4>2. QED  BY <4>1
    <3>3. PICK q : q = NewUpload(fs, store, send)  OBVIOUS
    <3>4. /\ q \in Upload /\ q.at = "files" /\ q.left = <<f>> /\ q.drafts = <<>>
          /\ q.status = "skipped"
      <4>1. /\ q \in Upload /\ q.at = "files" /\ q.left = fs /\ q.drafts = <<>>
            /\ q.status = "skipped"
        BY <3>3, NewUploadTyped
      <4>2. QED  BY <3>2, <4>1
    <3>5. req' = [req EXCEPT ![r] = q]  BY <3>1, <3>2, <3>3
    <3>6. \A j \in DOMAIN q.drafts : ~q.drafts[j].url  BY <3>4
    <3>7. Fresh(f, q)  BY <3>4 DEF Fresh
    <3>8. QED  BY <3>4, <3>5, <3>6, <3>7
  <2>2. CASE LooseTaxForm(r)
    <3>1. PICK f \in Loose, send \in BOOLEAN :
            LET q == [NewUpload(<<>>, FALSE, send) EXCEPT !.drafts = <<[file |-> f, url |-> FALSE]>>]
            IN  \/ /\ Kind[f] \in {"text", "other"}
                   /\ req' = [req EXCEPT ![r] = Answered(q, 400)]
                \/ /\ Kind[f] = "broken"
                   /\ req' = [req EXCEPT ![r] = Answered(q, 500)]
                \/ /\ Kind[f] = "pdf"
                   /\ req' = [req EXCEPT ![r] = [q EXCEPT !.at = "save", !.status = None]]
                \/ /\ Kind[f] = "tax"
                   /\ req' = [req EXCEPT ![r] = [q EXCEPT !.at = IF send THEN "notice" ELSE "save"]]
      BY <2>2 DEF LooseTaxForm
    <3>2. PICK d : d = <<[file |-> f, url |-> FALSE]>>  OBVIOUS
    <3>3. d \in Seq(Draft) /\ \A j \in DOMAIN d : ~d[j].url  BY <1>5, <3>2 DEF Draft
    <3>4. PICK fs \in Seq(File) : fs = <<>>
      <4>1. <<>> \in Seq(File)  OBVIOUS
      <4>2. QED  BY <4>1
    <3>5. PICK n : n = NewUpload(<<>>, FALSE, send)  OBVIOUS
    <3>6. n \in Upload /\ n.left = <<>> /\ n.status = "skipped"
      BY <3>4, <3>5, NewUploadTyped
    <3>7. PICK q : q = [n EXCEPT !.drafts = d]  OBVIOUS
    <3>8. q \in Upload /\ q.left = <<>> /\ q.drafts = d /\ q.status = "skipped"
      BY <3>3, <3>6, <3>7 DEF Upload
    <3>9. PICK at \in {"notice", "save"} : at = IF send THEN "notice" ELSE "save"  OBVIOUS
    <3>10. \/ req' = [req EXCEPT ![r] = Answered(q, 400)]
           \/ req' = [req EXCEPT ![r] = Answered(q, 500)]
           \/ /\ req' = [req EXCEPT ![r] = [q EXCEPT !.at = "save", !.status = None]]
              /\ Kind[f] = "pdf"
           \/ req' = [req EXCEPT ![r] = [q EXCEPT !.at = at]] /\ Kind[f] = "tax"
      BY <3>1, <3>2, <3>5, <3>7, <3>9, Zenon
    <3>11. ASSUME NEW code \in {400, 500}
           PROVE  /\ Answered(q, code) \in Upload /\ Answered(q, code).drafts = d
                  /\ Answered(q, code).status = "skipped" /\ Fresh(f, Answered(q, code))
      <4>1. /\ Answered(q, code) \in Upload /\ Answered(q, code).drafts = d
            /\ Answered(q, code).status = "skipped"
            /\ Answered(q, code).at = "answer" /\ Answered(q, code).code = code
        BY <3>8, AnsweredTyped
      <4>2. QED  BY <4>1 DEF Fresh
    <3>12. None \in Statuses  BY DEF Statuses
    <3>13. PICK p : Noticed(p, q, None)  BY DEF Noticed
    <3>14. p \in Upload /\ p.at = "save" /\ p.drafts = d /\ p.left = <<>> /\ p.status = None
      BY <3>8, <3>12, <3>13, StatusTyped
    <3>15. PICK o : o = [q EXCEPT !.at = at]  OBVIOUS
    <3>16. /\ o \in Upload /\ o.at = at /\ o.drafts = d /\ o.left = <<>>
           /\ o.status = "skipped"
      BY <3>8, <3>9, <3>15 DEF Upload
    <3>17. Kind[f] = "pdf" => Fresh(f, p)  BY <3>2, <3>14 DEF Fresh, Allowed
    <3>18. Kind[f] = "tax" => Fresh(f, o)  BY <3>2, <3>9, <3>16 DEF Fresh, Allowed
    <3>19. \/ req' = [req EXCEPT ![r] = Answered(q, 400)]
           \/ req' = [req EXCEPT ![r] = Answered(q, 500)]
           \/ req' = [req EXCEPT ![r] = p] /\ Kind[f] = "pdf"
           \/ req' = [req EXCEPT ![r] = o] /\ Kind[f] = "tax"
      BY <3>10, <3>13, <3>15, Zenon DEF Noticed
    <3>20. QED  BY <3>3, <3>11, <3>14, <3>16, <3>17, <3>18, <3>19
  <2>3. QED  BY <2>1, <2>2
<1>7. PICK q \in Upload, f \in Loose :
        /\ req' = [req EXCEPT ![r] = q]
        /\ \A j \in DOMAIN q.drafts : ~q.drafts[j].url
        /\ Fresh(f, q) /\ q.status \in {"skipped", None}
  BY <1>6
<1>8. /\ req'[r] = q /\ Others(r)
      /\ req' \in [Request -> Upload \cup Resend \cup {Idle}]
  BY <1>1, <1>7 DEF Others
<1>9. q.at \in {"notice", "save"} => q.left = <<>>  BY <1>7 DEF Fresh
<1>10. QED  BY <1>2, <1>3, <1>4, <1>7, <1>8, <1>9

\* A script posts a mail: the upload has all of it before it.
LEMMA PostStep ==
  ASSUME Typed, NEW s \in Script, Post(s)
  PROVE  \E m \in Mail, r \in Request :
           /\ req[r] = Idle /\ req'[r] \in Upload /\ Others(r)
           /\ req' \in [Request -> Upload \cup Resend \cup {Idle}]
           /\ req'[r].at \in {"files", "answer"} /\ req'[r].drafts = <<>>
           /\ req'[r].left = Files[m] /\ req'[r].code # 200 /\ req'[r].status = "skipped"
           /\ Attached(m) /\ Take(s, m, "waiting", r)
<1>1. PICK m \in Mail, r \in Request :
        /\ Attached(m) /\ req[r] = Idle
        /\ Take(s, m, "waiting", r)
        /\ LET q == NewUpload(Files[m], TRUE, TRUE)
           IN  req' = [req EXCEPT ![r] =
                 IF ~Authorized THEN Answered(q, 401)
                 ELSE IF Len(Files[m]) > MAX_FILES THEN Answered(q, 400) ELSE q]
  BY DEF Post
<1>2. req \in [Request -> Upload \cup Resend \cup {Idle}]  BY DEF Typed, TypeOK
<1>3. PICK q : q = NewUpload(Files[m], TRUE, TRUE)  OBVIOUS
<1>4. Files[m] \in Seq(File)  BY UploadConstants
<1>5. /\ q \in Upload /\ q.at = "files" /\ q.left = Files[m] /\ q.drafts = <<>> /\ q.code = 0
      /\ q.status = "skipped"
  BY <1>3, <1>4, NewUploadTyped
<1>6. /\ Answered(q, 400) \in Upload /\ Answered(q, 400).drafts = <<>>
      /\ Answered(q, 400).left = Files[m] /\ Answered(q, 400).at = "answer"
      /\ Answered(q, 400).code = 400 /\ Answered(q, 400).status = "skipped"
  BY <1>5, AnsweredTyped
<1>7. /\ Answered(q, 401) \in Upload /\ Answered(q, 401).drafts = <<>>
      /\ Answered(q, 401).left = Files[m] /\ Answered(q, 401).at = "answer"
      /\ Answered(q, 401).code = 401 /\ Answered(q, 401).status = "skipped"
  BY <1>5, AnsweredTyped
<1>8. \E p \in {q, Answered(q, 400), Answered(q, 401)} : req' = [req EXCEPT ![r] = p]
  BY <1>1, <1>3
<1>9. /\ req'[r] \in Upload /\ Others(r)
      /\ req' \in [Request -> Upload \cup Resend \cup {Idle}]
      /\ req'[r].at \in {"files", "answer"} /\ req'[r].drafts = <<>>
      /\ req'[r].left = Files[m] /\ req'[r].code # 200 /\ req'[r].status = "skipped"
  BY <1>2, <1>5, <1>6, <1>7, <1>8 DEF Others
<1>10. QED  BY <1>1, <1>9

\* A message about one file names it.
LEMMA NamedAlone ==
  ASSUME NEW f \in File
  PROVE  f \in Named(<<f>>)
<1>1. DOMAIN <<f>> = {1} /\ <<f>>[1] = f /\ 1 <= Listed
  <2>1. Listed \in Nat \ {0}  BY UploadConstants
  <2>2. QED  BY <2>1
<1>2. QED  BY <1>1 DEF Named

LEMMA StartResendStep ==
  ASSUME TypeOK, NEW r \in Request, StartResend(r)
  PROVE  /\ req[r] = Idle /\ req'[r] \in Resend /\ Others(r)
         /\ req' \in [Request -> Upload \cup Resend \cup {Idle}]
         /\ req'[r].id \in DOMAIN records /\ req'[r].seen = records[req'[r].id]
         /\ Cardinality({q \in Request : req[q].at = "resend"}) < setting.workers
         /\ req'[r].status = "success" => records[req'[r].id].file \in told'
         /\ told \subseteq told'
         /\ told' \subseteq File /\ SpentOK(spent') /\ spent'.faults = spent.faults
         /\ tries' \in Seq(Nat) /\ Len(tries') = Len(records) /\ UNCHANGED <<records, unsaved>>
         /\ \A i \in DOMAIN records :
              tries'[i] = IF i = req'[r].id THEN tries[i] + 1 ELSE tries[i]
<1>1. /\ req \in [Request -> Upload \cup Resend \cup {Idle}] /\ records \in Seq(Record)
      /\ tries \in Seq(Nat) /\ Len(tries) = Len(records)
  BY DEF TypeOK
<1>2. PICK i \in DOMAIN records, status \in {"success", "failed"} :
        /\ Deliver(Named(<<records[i].file>>), status, [spent EXCEPT !.resends = @ + 1])
        /\ tries' = [tries EXCEPT ![i] = @ + 1]
        /\ req' = [req EXCEPT ![r] = [at |-> "resend", id |-> i, seen |-> records[i],
                                      status |-> status]]
  BY DEF StartResend
<1>3. records[i] \in Record /\ i \in Nat \ {0}  BY <1>1
<1>4. PICK q : q = [at |-> "resend", id |-> i, seen |-> records[i], status |-> status]
  OBVIOUS
<1>5. q \in Resend /\ q.id = i /\ q.seen = records[i] /\ q.status = status
  BY <1>3, <1>4 DEF Resend, Statuses
<1>6. /\ req'[r] = q /\ Others(r) /\ req' \in [Request -> Upload \cup Resend \cup {Idle}]
  BY <1>1, <1>2, <1>4, <1>5 DEF Others
<1>7. PICK cost : cost = [spent EXCEPT !.resends = @ + 1]  OBVIOUS
<1>8. SpentOK(cost) /\ cost.faults = spent.faults
  BY <1>7, SpentTyped DEF StartResend, SpentOK, Setting
<1>9. <<records[i].file>> \in Seq(File)  BY <1>3 DEF Record
<1>10. PICK fs : fs = Named(<<records[i].file>>)  OBVIOUS
<1>11. fs \subseteq File  BY <1>9, <1>10, NamedTyped
<1>12. Deliver(fs, status, cost)  BY <1>2, <1>7, <1>10, Zenon
<1>13. /\ told' \subseteq File /\ SpentOK(spent') /\ spent'.faults = spent.faults
       /\ told \subseteq told'
  BY <1>8, <1>11, <1>12, DeliverTyped
<1>14. status = "success" => records[i].file \in told'
  <2>1. records[i].file \in fs  BY <1>3, <1>10, NamedAlone DEF Record
  <2>2. QED  BY <1>12, <2>1 DEF Deliver
<1>15. /\ tries' \in Seq(Nat) /\ Len(tries') = Len(records)
       /\ \A j \in DOMAIN records : tries'[j] = IF j = i THEN tries[j] + 1 ELSE tries[j]
  BY <1>1, <1>2
<1>16. QED  BY <1>2, <1>5, <1>6, <1>13, <1>14, <1>15 DEF StartResend

LEMMA CommitResendStep ==
  ASSUME TypeOK, NEW r \in Request, CommitResend(r), req[r].id \in DOMAIN records
  PROVE  /\ req[r] \in Resend /\ req'[r] = Idle /\ Others(r)
         /\ req' \in [Request -> Upload \cup Resend \cup {Idle}]
         /\ records' \in Seq(Record) /\ Len(records') = Len(records)
         /\ DOMAIN records' = DOMAIN records
         /\ \A i \in DOMAIN records :
              /\ records'[i].file = records[i].file /\ records'[i].url = records[i].url
              /\ i # req[r].id => /\ records'[i].retries = records[i].retries
                                  /\ records'[i].status = records[i].status
         /\ records'[req[r].id].status \in {records[req[r].id].status, req[r].status}
         /\ records'[req[r].id].retries = req[r].seen.retries + 1
<1>1. req \in [Request -> Upload \cup Resend \cup {Idle}] /\ req[r] \in Resend
      /\ records \in Seq(Record)
  BY Forms DEF TypeOK, CommitResend
<1>2. PICK q : q = req[r]  OBVIOUS
<1>3. q \in Resend /\ q.seen \in Record /\ q.status \in Statuses /\ q.id \in DOMAIN records
  BY <1>1, <1>2 DEF Resend
<1>4. PICK row : row = [records[q.id] EXCEPT
                          !.status = IF q.status = q.seen.status THEN @ ELSE q.status,
                          !.retries = q.seen.retries + 1]
  OBVIOUS
<1>5. PICK st : st = IF q.status = q.seen.status THEN records[q.id].status ELSE q.status
  OBVIOUS
<1>6. records[q.id] \in Record  BY <1>1, <1>3
<1>7. st \in Statuses /\ q.seen.retries + 1 \in Nat  BY <1>3, <1>5, <1>6 DEF Record
<1>8. row = [file |-> records[q.id].file, url |-> records[q.id].url, status |-> st,
             retries |-> q.seen.retries + 1]
  BY <1>4, <1>5, <1>6 DEF Record
<1>9. /\ row \in Record /\ row.file = records[q.id].file /\ row.url = records[q.id].url
      /\ row.retries = q.seen.retries + 1 /\ row.status \in {records[q.id].status, q.status}
  BY <1>5, <1>6, <1>7, <1>8 DEF Record
<1>10. records' = [records EXCEPT ![q.id] = row]
  BY <1>1, <1>2, <1>3, <1>4 DEF CommitResend, RetryCount
<1>11. /\ records' \in Seq(Record) /\ Len(records') = Len(records)
       /\ DOMAIN records' = DOMAIN records
  BY <1>1, <1>3, <1>9, <1>10
<1>12. /\ \A i \in DOMAIN records :
            /\ records'[i].file = records[i].file /\ records'[i].url = records[i].url
            /\ i # q.id => /\ records'[i].retries = records[i].retries
                           /\ records'[i].status = records[i].status
       /\ records'[q.id].status \in {records[q.id].status, q.status}
       /\ records'[q.id].retries = q.seen.retries + 1
  BY <1>1, <1>3, <1>9, <1>10
<1>13. req'[r] = Idle /\ Others(r) /\ req' \in [Request -> Upload \cup Resend \cup {Idle}]
  BY <1>1 DEF CommitResend, Others
<1>14. QED  BY <1>1, <1>2, <1>11, <1>12, <1>13

LEMMA EndStep ==
  ASSUME TypeOK, NEW r \in Request, Reply(r) \/ Die(r)
  PROVE  /\ req'[r] = Idle /\ Others(r)
         /\ req' \in [Request -> Upload \cup Resend \cup {Idle}]
         /\ UNCHANGED <<read, tables, objects, told, setting>>
         /\ SpentOK(spent')
         /\ Die(r) => spent'.faults > 0 /\ spent'.faults = spent.faults + 1
         /\ ~Die(r) => req[r].at = "answer" /\ UNCHANGED spent
<1>1. req \in [Request -> Upload \cup Resend \cup {Idle}] /\ SpentOK(spent)
  BY DEF TypeOK, SpentOK
<1>2. /\ req' = [req EXCEPT ![r] = Idle]
      /\ UNCHANGED <<read, tables, objects, told, setting>>
  BY DEF Reply, Die
<1>3. Die(r) => SpentOK(spent') /\ spent'.faults > 0 /\ spent'.faults = spent.faults + 1
  <2>1. SUFFICES ASSUME Die(r)
                 PROVE  SpentOK(spent') /\ spent'.faults > 0 /\ spent'.faults = spent.faults + 1
    OBVIOUS
  <2>2. Spend("faults")  BY <2>1 DEF Die
  <2>3. QED  BY <2>2, SpendTyped, SpentTyped DEF Spend, Counters
<1>4. ~Die(r) => req[r].at = "answer" /\ UNCHANGED spent  BY DEF Reply
<1>5. QED  BY <1>1, <1>2, <1>3, <1>4 DEF Others

-----------------------------------------------------------------------------
(* Type correctness *)

LEMMA InitTyped == Init => Typed
<1> SUFFICES ASSUME Init PROVE Typed  OBVIOUS
<1>1. setting \in Setting  BY UploadConstants DEF Init
<1>2. spent \in [faults : 0..setting.faults, failures : 0..setting.failures,
                 loose : 0..setting.loose, resends : 0..setting.resends]
  BY <1>1 DEF Init, Setting
<1>3. TypeOK  BY <1>1, <1>2 DEF Init, TypeOK
<1>4. MailTaken  BY DEF Init, MailTaken, Off
<1>5. RowsKnown  BY DEF Init, RowsKnown, Idle
<1>6. QED  BY <1>3, <1>4, <1>5 DEF Typed

\* Steps of the script that leave the requests alone.
Alone(s) ==
  \/ Trigger(s) \/ Stop(s) \/ PassOver(s) \/ SkipMail(s) \/ MarkRead(s) \/ GiveUp(s) \/ Kill(s)

LEMMA ScriptLeaves ==
  ASSUME Typed, NEW s \in Script, Alone(s)
  PROVE  /\ read' = read \/ (run[s].at = "accepted" /\ read' = read \cup {run[s].mail})
         /\ read' \subseteq Mail
         /\ UNCHANGED <<req, tables, objects, told, setting>>
         /\ SpentOK(spent') /\ spent'.faults >= spent.faults
<1>1. /\ read \subseteq Mail /\ SpentOK(spent) /\ MailTaken /\ spent.faults \in Nat
  BY SpentTyped DEF Typed, TypeOK, SpentOK
<1>2. UNCHANGED <<req, tables, objects, told, setting>>
  BY DEF Alone, Trigger, Stop, PassOver, SkipMail, MarkRead, GiveUp, Kill
<1>3. SpentOK(spent') /\ spent'.faults >= spent.faults
  <2>1. Spend("faults") => SpentOK(spent') /\ spent'.faults >= spent.faults
    <3>1. SUFFICES ASSUME Spend("faults") PROVE SpentOK(spent') /\ spent'.faults >= spent.faults
      OBVIOUS
    <3>2. SpentOK(spent')  BY <3>1, SpendTyped DEF Typed, Counters
    <3>3. spent'.faults = spent.faults + 1  BY <3>1, SpentTyped DEF Spend, Typed
    <3>4. QED  BY <1>1, <3>2, <3>3
  <2>2. UNCHANGED spent \/ Spend("faults")
    BY DEF Alone, Trigger, Stop, PassOver, SkipMail, MarkRead, GiveUp, Kill
  <2>3. QED  BY <1>1, <2>1, <2>2
<1>4. read' = read \/ (run[s].at = "accepted" /\ read' = read \cup {run[s].mail})
  BY DEF Alone, Trigger, Stop, PassOver, SkipMail, MarkRead, GiveUp, Kill
<1>5. read' \subseteq Mail  BY <1>1, <1>4 DEF MailTaken
<1>6. QED  BY <1>2, <1>3, <1>4, <1>5

LEMMA ScriptStep ==
  ASSUME Typed, NEW s \in Script, Alone(s)
  PROVE  /\ run' \in [Script -> Execution \cup {Off}] /\ MailTaken'
         /\ \A x \in Script \ {s} : run'[x] = run[x]
         /\ run'[s].at # "waiting"
         /\ run'[s].at = "accepted" => ~Attached(run'[s].mail)
<1>1. run \in [Script -> Execution \cup {Off}] /\ MailTaken  BY DEF Typed, TypeOK
<1>2. CASE Trigger(s)
  <2>1. [at |-> "loop", todo |-> Found, mail |-> None, request |-> None] \in Execution
    BY DEF Execution, Found
  <2>2. run' = [run EXCEPT ![s] = [at |-> "loop", todo |-> Found, mail |-> None,
                                   request |-> None]]
    BY <1>2 DEF Trigger
  <2>3. /\ run' \in [Script -> Execution \cup {Off}] /\ run'[s].at = "loop"
        /\ \A x \in Script \ {s} : run'[x] = run[x]
    BY <1>1, <2>1, <2>2
  <2>4. MailTaken'  BY <1>1, <2>3 DEF MailTaken
  <2>5. QED  BY <2>3, <2>4
<1>3. CASE Stop(s) \/ Kill(s)
  <2>1. run' = [run EXCEPT ![s] = Off]  BY <1>3 DEF Stop, Kill
  <2>2. /\ run' \in [Script -> Execution \cup {Off}] /\ run'[s].at = "off"
        /\ \A x \in Script \ {s} : run'[x] = run[x]
    BY <1>1, <2>1 DEF Off
  <2>3. MailTaken'  BY <1>1, <2>2 DEF MailTaken
  <2>4. QED  BY <2>2, <2>3
<1>4. CASE PassOver(s)
  <2>1. PICK m \in run[s].todo \cap read : run' = [run EXCEPT ![s].todo = @ \ {m}]
    BY <1>4 DEF PassOver
  <2>2. run[s] \in Execution /\ run[s].at = "loop"  BY <1>1, <1>4 DEF PassOver, Off
  <2>3. [run[s] EXCEPT !.todo = @ \ {m}] \in Execution
        /\ [run[s] EXCEPT !.todo = @ \ {m}].at = "loop"
    BY <2>2 DEF Execution
  <2>4. /\ run' \in [Script -> Execution \cup {Off}] /\ run'[s].at = "loop"
        /\ \A x \in Script \ {s} : run'[x] = run[x]
    BY <1>1, <2>1, <2>3
  <2>5. MailTaken'  BY <1>1, <2>4 DEF MailTaken
  <2>6. QED  BY <2>4, <2>5
<1>5. CASE SkipMail(s)
  <2>1. PICK m \in Mail : ~Attached(m) /\ Take(s, m, "accepted", None)
    BY <1>5 DEF SkipMail
  <2>2. /\ run' \in [Script -> Execution \cup {Off}] /\ MailTaken'
        /\ \A x \in Script \ {s} : run'[x] = run[x]
        /\ run'[s].at = "accepted" /\ run'[s].mail = m
    BY <2>1, TakeTyped
  <2>3. QED  BY <2>1, <2>2
<1>6. CASE MarkRead(s)
  <2>1. /\ run[s].at = "accepted"
        /\ run' = [run EXCEPT ![s].at = "loop"]
    BY <1>6 DEF MarkRead
  <2>2. run[s] \in Execution /\ run[s].mail \in Mail  BY <1>1, <2>1 DEF MailTaken, Off
  <2>3. /\ run' \in [Script -> Execution \cup {Off}] /\ run'[s].at = "loop"
        /\ \A x \in Script \ {s} : run'[x] = run[x]
    BY <1>1, <2>1, <2>2 DEF Execution
  <2>4. MailTaken'  BY <1>1, <2>3 DEF MailTaken
  <2>5. QED  BY <2>3, <2>4
<1>7. CASE GiveUp(s)
  <2>1. /\ run[s].at = "waiting"
        /\ run' = [run EXCEPT ![s] = [run[s] EXCEPT !.at = "loop", !.request = None]]
    BY <1>1, <1>7 DEF GiveUp
  <2>2. run[s] \in Execution  BY <1>1, <2>1 DEF Off
  <2>3. /\ [run[s] EXCEPT !.at = "loop", !.request = None] \in Execution
        /\ [run[s] EXCEPT !.at = "loop", !.request = None].at = "loop"
    BY <2>2 DEF Execution
  <2>4. /\ run' \in [Script -> Execution \cup {Off}] /\ run'[s].at = "loop"
        /\ \A x \in Script \ {s} : run'[x] = run[x]
    BY <1>1, <2>1, <2>3
  <2>5. MailTaken'  BY <1>1, <2>4 DEF MailTaken
  <2>6. QED  BY <2>4, <2>5
<1>8. QED  BY <1>2, <1>3, <1>4, <1>5, <1>6, <1>7 DEF Alone

LEMMA NextTyped == Typed /\ [Next]_vars => Typed'
<1> SUFFICES ASSUME Typed, [Next]_vars PROVE Typed'  OBVIOUS
<1>1. /\ TypeOK /\ MailTaken /\ RowsKnown /\ SpentOK(spent)
  BY DEF Typed, TypeOK, SpentOK
<1>2. ASSUME NEW s \in Script, Alone(s) PROVE Typed'
  <2>1. run' \in [Script -> Execution \cup {Off}] /\ MailTaken'  BY <1>2, ScriptStep
  <2>2. /\ read' \subseteq Mail /\ SpentOK(spent')
        /\ UNCHANGED <<req, tables, objects, told, setting>>
    BY <1>2, ScriptLeaves
  <2>3. TypeOK'  BY <1>1, <2>1, <2>2 DEF TypeOK, tables, SpentOK
  <2>4. RowsKnown'  BY <1>1, <2>2 DEF RowsKnown, tables
  <2>5. QED  BY <2>1, <2>3, <2>4 DEF Typed
<1>3. ASSUME NEW s \in Script, Post(s) PROVE Typed'
  <2>1. PICK m \in Mail, r \in Request :
           /\ req[r] = Idle /\ req'[r] \in Upload /\ Others(r)
           /\ req' \in [Request -> Upload \cup Resend \cup {Idle}]
           /\ Take(s, m, "waiting", r)
    BY <1>3, PostStep
  <2>2. run' \in [Script -> Execution \cup {Off}] /\ MailTaken'  BY <2>1, TakeTyped
  <2>3. UNCHANGED <<read, tables, objects, told, spent, setting>>  BY <1>3 DEF Post
  <2>4. TypeOK'  BY <1>1, <2>1, <2>2, <2>3 DEF TypeOK, tables
  <2>5. RowsKnown'  BY <1>1, <2>1, <2>3 DEF RowsKnown, Others, tables, Upload
  <2>6. QED  BY <2>2, <2>4, <2>5 DEF Typed
<1>4. ASSUME NEW r \in Request, TakeFile(r) PROVE Typed'
  <2>1. TypeOK'  BY <1>1, <1>4, TakeFileStep DEF TypeOK, mailbox, tables, SpentOK
  <2>2. MailTaken'  BY <1>1, <1>4, TakeFileStep DEF MailTaken, mailbox
  <2>3. RowsKnown'  BY <1>1, <1>4, TakeFileStep DEF RowsKnown, Others, tables
  <2>4. QED  BY <2>1, <2>2, <2>3 DEF Typed
<1>5. ASSUME NEW r \in Request, FilesDone(r) PROVE Typed'
  <2>1. UNCHANGED <<mailbox, tables, objects, told, spent, setting>>  BY <1>5 DEF FilesDone
  <2>2. TypeOK'  BY <1>1, <1>5, <2>1, FilesDoneStep DEF TypeOK, mailbox, tables
  <2>3. MailTaken'  BY <1>1, <2>1 DEF MailTaken, mailbox
  <2>4. RowsKnown'  BY <1>1, <1>5, <2>1, FilesDoneStep DEF RowsKnown, Others, tables
  <2>5. QED  BY <2>2, <2>3, <2>4 DEF Typed
<1>6. ASSUME NEW r \in Request, Notify(r) PROVE Typed'
  <2>1. UNCHANGED <<mailbox, tables, objects, setting>>  BY <1>6 DEF Notify
  <2>2. TypeOK'  BY <1>1, <1>6, <2>1, NotifyStep DEF TypeOK, mailbox, tables, SpentOK
  <2>3. MailTaken'  BY <1>1, <2>1 DEF MailTaken, mailbox
  <2>4. RowsKnown'  BY <1>1, <1>6, <2>1, NotifyStep DEF RowsKnown, Others, tables
  <2>5. QED  BY <2>2, <2>3, <2>4 DEF Typed
<1>7. ASSUME NEW r \in Request, Save(r) PROVE Typed'
  <2>1. UNCHANGED <<mailbox, objects, told, setting>>  BY <1>7 DEF Save
  <2>2. TypeOK'  BY <1>1, <1>7, <2>1, SaveStep DEF TypeOK, mailbox, SpentOK
  <2>3. MailTaken'  BY <1>1, <2>1 DEF MailTaken, mailbox
  <2>4. RowsKnown'  BY <1>1, <1>7, SaveStep DEF RowsKnown, Others
  <2>5. QED  BY <2>2, <2>3, <2>4 DEF Typed
<1>8. ASSUME NEW r \in Request, LooseUpload(r) \/ LooseTaxForm(r) PROVE Typed'
  <2>1. TypeOK'  BY <1>1, <1>8, LooseStep DEF TypeOK, mailbox, tables, SpentOK
  <2>2. MailTaken'  BY <1>1, <1>8, LooseStep DEF MailTaken, mailbox
  <2>3. RowsKnown'  BY <1>1, <1>8, LooseStep DEF RowsKnown, Others, tables, Upload
  <2>4. QED  BY <2>1, <2>2, <2>3 DEF Typed
<1>9. ASSUME NEW r \in Request, StartResend(r) PROVE Typed'
  <2>1. UNCHANGED <<mailbox, objects, setting>>  BY <1>9 DEF StartResend
  <2>2. TypeOK'  BY <1>1, <1>9, <2>1, StartResendStep DEF TypeOK, mailbox, tables, SpentOK
  <2>3. MailTaken'  BY <1>1, <2>1 DEF MailTaken, mailbox
  <2>4. RowsKnown'  BY <1>1, <1>9, <2>1, StartResendStep DEF RowsKnown, Others, tables
  <2>5. QED  BY <2>2, <2>3, <2>4 DEF Typed
<1>10. ASSUME NEW r \in Request, CommitResend(r) PROVE Typed'
  <2>1. UNCHANGED <<mailbox, tries, unsaved, objects, told, spent, setting>>
    BY <1>10 DEF CommitResend
  <2>2. req[r].id \in DOMAIN records  BY <1>1, <1>10 DEF RowsKnown, CommitResend
  <2>3. TypeOK'  BY <1>1, <1>10, <2>1, <2>2, CommitResendStep DEF TypeOK, mailbox
  <2>4. MailTaken'  BY <1>1, <2>1 DEF MailTaken, mailbox
  <2>5. RowsKnown'
    <3>1. /\ req'[r] = Idle /\ Others(r) /\ DOMAIN records' = DOMAIN records
      BY <1>1, <1>10, <2>2, CommitResendStep
    <3>2. QED  BY <1>1, <3>1 DEF RowsKnown, Others, Idle
  <2>6. QED  BY <2>3, <2>4, <2>5 DEF Typed
<1>11. ASSUME NEW r \in Request, Reply(r) \/ Die(r) PROVE Typed'
  <2>1. PICK at \in {"loop", "accepted"} : Resume(r, at)
    BY <1>11 DEF Reply, Die, AfterAnswer
  <2>2. run' \in [Script -> Execution \cup {Off}] /\ MailTaken'  BY <2>1, ResumeTyped
  <2>3. TypeOK'  BY <1>1, <1>11, <2>2, EndStep DEF TypeOK, tables, SpentOK
  <2>4. RowsKnown'  BY <1>1, <1>11, EndStep DEF RowsKnown, Others, Idle, tables
  <2>5. QED  BY <2>2, <2>3, <2>4 DEF Typed
<1>12. CASE UNCHANGED vars
  BY <1>1, <1>12 DEF vars, mailbox, tables, Typed, TypeOK, MailTaken, RowsKnown
<1>13. QED
  BY <1>2, <1>3, <1>4, <1>5, <1>6, <1>7, <1>8, <1>9, <1>10, <1>11, <1>12
  DEF Next, Main, Serve, Alone

\* Mails, executions, requests, records and counters keep their forms, for any
\* mailbox, files and deployment (email_upload.gs main, upload_files,
\* resend_wechat).
THEOREM TypeCorrect == Spec => []TypeOK
<1>1. Typed => TypeOK  BY DEF Typed
<1>2. QED  BY InitTyped, NextTyped, <1>1, PTL DEF Spec

-----------------------------------------------------------------------------
(* Mails that are marked as read *)

\* The server has every file of a mail that it accepts.
Kept(m) == \A f \in Contents(m) : Allowed(f) => Recorded(f) \/ f \in unsaved

\* An upload is on the way with the mail, or it has come to the end with it.
Carried(q) == FilesIn(q.drafts) \cup {q.left[i] : i \in DOMAIN q.left}
Carries(m, q) == \A f \in Contents(m) : Allowed(f) => f \in Carried(q)
Helps(m, q) ==
  /\ q \in Upload
  /\ q.at \in {"files", "notice", "save"} => Carries(m, q)
  /\ q.at = "answer" /\ q.code = 200 => Kept(m)

FilesOver == \A r \in Request : req[r].at \in {"notice", "save"} => req[r].left = <<>>
Awaits ==
  \A s \in Script : run[s].at = "waiting" =>
    run[s].request \in Request /\ Helps(run[s].mail, req[run[s].request])
AcceptedKept ==
  \A s \in Script : run[s].at = "accepted" /\ Attached(run[s].mail) => Kept(run[s].mail)
MailsKept == FilesOver /\ Awaits /\ AcceptedKept /\ ReadMailsKept

\* A row is never taken back.
LEMMA RecordsGrow ==
  ASSUME Typed, [Next]_vars
  PROVE  /\ \A f : Recorded(f) => Recorded(f)'
         /\ unsaved \subseteq unsaved'
<1>1. TypeOK  BY DEF Typed
<1>2. CASE \E r \in Request : Save(r)
  <2>1. PICK r \in Request : Save(r)  BY <1>2
  <2>2. /\ \A i \in DOMAIN records : i \in DOMAIN records' /\ records'[i] = records[i]
        /\ unsaved \subseteq unsaved'
    BY <1>1, <2>1, SaveStep
  <2>3. QED  BY <2>2 DEF Recorded
<1>3. CASE \E r \in Request : CommitResend(r)
  <2>1. PICK r \in Request : CommitResend(r)  BY <1>3
  <2>2. req[r].id \in DOMAIN records  BY <2>1 DEF Typed, RowsKnown, CommitResend
  <2>3. /\ DOMAIN records' = DOMAIN records
        /\ \A i \in DOMAIN records : records'[i].file = records[i].file
    BY <1>1, <2>1, <2>2, CommitResendStep
  <2>4. UNCHANGED unsaved  BY <2>1 DEF CommitResend
  <2>5. QED  BY <2>3, <2>4 DEF Recorded
<1>4. CASE UNCHANGED <<records, unsaved>>
  BY <1>4 DEF Recorded
<1>5. \/ \E r \in Request : Save(r)
      \/ \E r \in Request : CommitResend(r)
      \/ UNCHANGED <<records, unsaved>>
  BY DEF tables, Next, Main, Serve, Trigger, Stop, PassOver, SkipMail, Post, MarkRead, GiveUp, Kill,
         TakeFile, FilesDone, Notify, LooseUpload, LooseTaxForm, StartResend, Reply, Die, vars
<1>6. QED  BY <1>2, <1>3, <1>4, <1>5

LEMMA KeptGrows ==
  ASSUME Typed, [Next]_vars, NEW m, Kept(m)
  PROVE  Kept(m)'
<1>1. (\A f : Recorded(f) => Recorded(f)') /\ unsaved \subseteq unsaved'  BY RecordsGrow
<1>2. Kept(m)' <=> \A f \in Contents(m) : Allowed(f) => Recorded(f)' \/ f \in unsaved'
  BY DEF Kept, Contents, Allowed
<1>3. QED  BY <1>1, <1>2 DEF Kept

\* What an upload does next keeps what it carries.
LEMMA CarriesOn ==
  ASSUME Typed, FilesOver, NEW r \in Request, NEW m, Helps(m, req[r]),
         TakeFile(r) \/ FilesDone(r) \/ Notify(r) \/ Save(r)
  PROVE  Helps(m, req[r])'
<1>1. TypeOK  BY DEF Typed
<1>2. ASSUME req'[r] \in Upload, req'[r].at \in {"files", "notice", "save"},
             Carried(req[r]) \subseteq Carried(req'[r]) \cup {f \in File : ~Allowed(f)},
             req[r].at \in {"files", "notice", "save"}
      PROVE  Helps(m, req[r])'
  <2>1. Carries(m, req[r])  BY <1>2 DEF Helps
  <2>2. Carries(m, req'[r])  BY <1>2, <2>1 DEF Carries
  <2>3. Carries(m, req[r])'  BY <2>2 DEF Carries, Contents, Allowed, Carried, FilesIn
  <2>4. QED  BY <1>2, <2>3 DEF Helps
<1>3. CASE TakeFile(r)
  <2>1. PICK p : p = req[r]  OBVIOUS
  <2>2. PICK q : q = req'[r]  OBVIOUS
  <2>3. /\ p \in Upload /\ q \in Upload /\ p.at = "files" /\ q.at = "files"
        /\ p.left # <<>> /\ q.left = Tail(p.left)
        /\ \/ q.drafts = p.drafts /\ ~Allowed(p.left[1])
           \/ \E url \in BOOLEAN : q.drafts = Append(p.drafts, [file |-> p.left[1], url |-> url])
    BY <1>1, <1>3, <2>1, <2>2, TakeFileStep
  <2>4. p.left \in Seq(File) /\ p.drafts \in Seq(Draft)  BY <2>3, UploadFields
  <2>5. {p.left[i] : i \in DOMAIN p.left} = {p.left[1]} \cup {q.left[i] : i \in DOMAIN q.left}
    <3>1. \A i \in DOMAIN q.left : i + 1 \in DOMAIN p.left /\ q.left[i] = p.left[i + 1]
      BY <2>3, <2>4
    <3>2. \A i \in DOMAIN p.left : i # 1 => i - 1 \in DOMAIN q.left /\ q.left[i - 1] = p.left[i]
      BY <2>3, <2>4
    <3>3. 1 \in DOMAIN p.left  BY <2>3, <2>4
    <3>4. QED  BY <3>1, <3>2, <3>3
  <2>6. FilesIn(p.drafts) \subseteq FilesIn(q.drafts)
    <3>1. CASE q.drafts = p.drafts  BY <3>1
    <3>2. CASE \E url \in BOOLEAN : q.drafts = Append(p.drafts, [file |-> p.left[1], url |-> url])
      <4>1. \A i \in DOMAIN p.drafts : i \in DOMAIN q.drafts /\ q.drafts[i] = p.drafts[i]
        BY <2>4, <3>2
      <4>2. QED  BY <4>1 DEF FilesIn
    <3>3. QED  BY <2>3, <3>1, <3>2
  <2>7. p.left[1] \in FilesIn(q.drafts) \/ ~Allowed(p.left[1])
    <3>1. CASE \E url \in BOOLEAN : q.drafts = Append(p.drafts, [file |-> p.left[1], url |-> url])
      <4>1. PICK url \in BOOLEAN : q.drafts = Append(p.drafts, [file |-> p.left[1], url |-> url])
        BY <3>1
      <4>2. /\ Len(p.drafts) + 1 \in DOMAIN q.drafts
            /\ q.drafts[Len(p.drafts) + 1] = [file |-> p.left[1], url |-> url]
        BY <2>4, <4>1
      <4>3. QED  BY <4>2 DEF FilesIn
    <3>2. QED  BY <2>3, <3>1
  <2>8. p.left[1] \in File  BY <2>3, <2>4
  <2>9. Carried(p) \subseteq Carried(q) \cup {f \in File : ~Allowed(f)}
    BY <2>5, <2>6, <2>7, <2>8 DEF Carried
  <2>10. QED  BY <1>2, <2>1, <2>2, <2>3, <2>9
<1>4. CASE FilesDone(r)
  <2>1. /\ req[r].at = "files" /\ req[r].left = <<>> /\ req'[r].at \in {"notice", "save"}
        /\ req'[r] \in Upload /\ req'[r].drafts = req[r].drafts /\ req'[r].left = <<>>
    BY <1>1, <1>4, FilesDoneStep
  <2>2. Carried(req[r]) = Carried(req'[r])  BY <2>1 DEF Carried
  <2>3. QED  BY <1>2, <2>1, <2>2
<1>5. CASE Notify(r)
  <2>1. /\ req[r].at = "notice" /\ req'[r].at = "save" /\ req'[r] \in Upload
        /\ req'[r].drafts = req[r].drafts /\ req'[r].left = req[r].left
    BY <1>1, <1>5, NotifyStep
  <2>2. Carried(req[r]) = Carried(req'[r])  BY <2>1 DEF Carried
  <2>3. QED  BY <1>2, <2>1, <2>2
<1>6. CASE Save(r)
  <2>1. /\ req[r].at = "save" /\ req'[r].at = "answer" /\ req'[r] \in Upload
        /\ \A f \in FilesIn(req[r].drafts) : Recorded(f)' \/ f \in unsaved'
    BY <1>1, <1>6, SaveStep
  <2>2. req[r].left = <<>>  BY <2>1 DEF FilesOver
  <2>3. Carried(req[r]) = FilesIn(req[r].drafts)  BY <2>2 DEF Carried
  <2>4. Carries(m, req[r])  BY <2>1 DEF Helps
  <2>5. Kept(m)'  BY <2>1, <2>3, <2>4 DEF Kept, Carries, Contents, Allowed
  <2>6. QED  BY <2>1, <2>5 DEF Helps
<1>7. QED  BY <1>3, <1>4, <1>5, <1>6

\* An execution goes on waiting for a request that goes on.
LEMMA WaitsOn ==
  ASSUME Typed, [Next]_vars, MailsKept, NEW r \in Request, Others(r),
         \A m : Helps(m, req[r]) => Helps(m, req[r])',
         NEW s \in Script, run[s].at = "waiting", run'[s] = run[s]
  PROVE  run'[s].request \in Request /\ Helps(run[s].mail, req[run[s].request])'
<1>1. PICK q \in Request : q = run[s].request  BY DEF MailsKept, Awaits
<1>2. PICK m : m = run[s].mail  OBVIOUS
<1>3. Helps(m, req[q])  BY <1>1, <1>2 DEF MailsKept, Awaits
<1>4. CASE q = r
  <2>1. Helps(m, req[q])'  BY <1>3, <1>4
  <2>2. QED  BY <1>1, <1>2, <2>1
<1>5. CASE q # r
  <2>1. req'[q] = req[q]  BY <1>5 DEF Others
  <2>2. Kept(m) => Kept(m)'  BY KeptGrows
  <2>3. Carries(m, req[q])' <=> Carries(m, req[q])
    BY <2>1 DEF Carries, Carried, FilesIn, Contents, Allowed
  <2>4. Helps(m, req[q])'  BY <1>3, <2>1, <2>2, <2>3 DEF Helps
  <2>5. QED  BY <1>1, <1>2, <2>4
<1>6. QED  BY <1>4, <1>5

\* A step that leaves the executions alone and turns request r on or begins it.
LEMMA RequestTurns ==
  ASSUME Typed, [Next]_vars, MailsKept, UNCHANGED mailbox, NEW r \in Request, Others(r),
         \A m : Helps(m, req[r]) => Helps(m, req[r])',
         req'[r].at \in {"notice", "save"} => req'[r].left = <<>>
  PROVE  MailsKept'
<1>1. UNCHANGED <<read, run>>  BY DEF mailbox
<1>2. FilesOver'  BY DEF FilesOver, MailsKept, Others
<1>3. Awaits'
  <2>1. SUFFICES ASSUME NEW s \in Script, run'[s].at = "waiting"
                 PROVE  run'[s].request \in Request /\ Helps(run[s].mail, req[run[s].request])'
    BY DEF Awaits
  <2>2. run'[s] = run[s] /\ run[s].at = "waiting"  BY <1>1, <2>1
  <2>3. QED  BY <2>2, WaitsOn
<1>4. AcceptedKept'
  <2>1. SUFFICES ASSUME NEW s \in Script, run[s].at = "accepted", Attached(run[s].mail)
                 PROVE  Kept(run[s].mail)'
    BY <1>1 DEF AcceptedKept, Attached
  <2>2. PICK m : m = run[s].mail  OBVIOUS
  <2>3. Kept(m)  BY <2>1, <2>2 DEF MailsKept, AcceptedKept
  <2>4. Kept(m)'  BY <2>3, KeptGrows
  <2>5. QED  BY <1>1, <2>2, <2>4
<1>5. ReadMailsKept'
  <2>1. SUFFICES ASSUME NEW m \in read, Attached(m) PROVE Kept(m)'
    BY <1>1 DEF ReadMailsKept, Kept, Attached
  <2>2. Kept(m)  BY <2>1 DEF MailsKept, ReadMailsKept, Kept
  <2>3. QED  BY <2>2, KeptGrows
<1>6. QED  BY <1>2, <1>3, <1>4, <1>5 DEF MailsKept

LEMMA MailsKeptInit == Init => MailsKept
BY DEF Init, MailsKept, FilesOver, Awaits, AcceptedKept, ReadMailsKept, Off, Idle

LEMMA MailsKeptNext == Typed /\ MailsKept /\ [Next]_vars => MailsKept'
<1> SUFFICES ASSUME Typed, MailsKept, [Next]_vars PROVE MailsKept'  OBVIOUS
<1>1. TypeOK /\ FilesOver /\ Awaits /\ AcceptedKept /\ ReadMailsKept  BY DEF Typed, MailsKept
<1>2. ASSUME NEW s \in Script, Alone(s) PROVE MailsKept'
  <2>1. /\ \A x \in Script \ {s} : run'[x] = run[x]
        /\ run'[s].at # "waiting" /\ (run'[s].at = "accepted" => ~Attached(run'[s].mail))
    BY <1>2, ScriptStep
  <2>2. /\ read' = read \/ (run[s].at = "accepted" /\ read' = read \cup {run[s].mail})
        /\ UNCHANGED <<req, tables>>
    BY <1>2, ScriptLeaves
  <2>3. \A m : Kept(m)' <=> Kept(m)
    BY <2>2 DEF Kept, Recorded, tables, Contents, Allowed
  <2>4. FilesOver'  BY <1>1, <2>2 DEF FilesOver
  <2>5. Awaits'
    <3>1. SUFFICES ASSUME NEW x \in Script, run'[x].at = "waiting"
                   PROVE  run'[x].request \in Request /\ Helps(run[x].mail, req[run[x].request])'
      BY DEF Awaits
    <3>2. run'[x] = run[x] /\ req' = req  BY <2>1, <2>2, <3>1
    <3>3. PICK m : m = run[x].mail  OBVIOUS
    <3>4. PICK q : q = req[run[x].request]  OBVIOUS
    <3>5. Helps(m, q)' <=> Helps(m, q)
      BY <2>3 DEF Helps, Carries, Carried, FilesIn, Contents, Allowed
    <3>6. run[x].request \in Request /\ Helps(m, q)  BY <1>1, <3>1, <3>2, <3>3, <3>4 DEF Awaits
    <3>7. QED  BY <3>2, <3>3, <3>4, <3>5, <3>6
  <2>6. AcceptedKept'
    <3>1. SUFFICES ASSUME NEW x \in Script, run'[x].at = "accepted", Attached(run'[x].mail)
                   PROVE  Kept(run[x].mail)'
      BY DEF AcceptedKept, Attached
    <3>2. run'[x] = run[x]  BY <2>1, <3>1
    <3>3. PICK m : m = run[x].mail  OBVIOUS
    <3>4. Kept(m)  BY <1>1, <3>1, <3>2, <3>3 DEF AcceptedKept
    <3>5. QED  BY <2>3, <3>2, <3>3, <3>4
  <2>7. ReadMailsKept'
    <3>1. SUFFICES ASSUME NEW m \in read', Attached(m) PROVE Kept(m)'
      BY DEF ReadMailsKept, Kept, Attached
    <3>2. m \in read \/ (run[s].at = "accepted" /\ m = run[s].mail)  BY <2>2, <3>1
    <3>3. Kept(m)  BY <1>1, <3>1, <3>2 DEF ReadMailsKept, AcceptedKept, Kept
    <3>4. QED  BY <2>3, <3>3
  <2>8. QED  BY <2>4, <2>5, <2>6, <2>7 DEF MailsKept
<1>3. ASSUME NEW s \in Script, Post(s) PROVE MailsKept'
  <2>1. PICK m \in Mail, r \in Request :
           /\ req[r] = Idle /\ req'[r] \in Upload /\ Others(r)
           /\ req'[r].at \in {"files", "answer"} /\ req'[r].drafts = <<>>
           /\ req'[r].left = Files[m] /\ req'[r].code # 200
           /\ Attached(m) /\ Take(s, m, "waiting", r)
    BY <1>3, PostStep
  <2>2. /\ \A x \in Script \ {s} : run'[x] = run[x]
        /\ run'[s].at = "waiting" /\ run'[s].mail = m /\ run'[s].request = r
    BY <2>1, TakeTyped
  <2>3. UNCHANGED <<read, tables>>  BY <1>3 DEF Post
  <2>4. FilesOver'  BY <1>1, <2>1 DEF FilesOver, Others
  <2>5. Helps(m, req[r])'
    <3>1. PICK q : q = req'[r]  OBVIOUS
    <3>2. q.left = Files[m] /\ q.at \in {"files", "answer"} /\ q.code # 200 /\ q \in Upload
      BY <2>1, <3>1
    <3>3. \A f \in Contents(m) : f \in Carried(q)  BY <3>2 DEF Contents, Carried
    <3>4. Helps(m, q)'  BY <3>2, <3>3 DEF Helps, Carries, Contents, Carried, FilesIn
    <3>5. QED  BY <3>1, <3>4
  <2>6. \A n : Helps(n, req[r]) => Helps(n, req[r])'  BY <2>1, Forms, <1>1 DEF Helps, Idle, Upload
  <2>7. Awaits'
    <3>1. SUFFICES ASSUME NEW x \in Script, run'[x].at = "waiting"
                   PROVE  run'[x].request \in Request /\ Helps(run[x].mail, req[run[x].request])'
      BY DEF Awaits
    <3>2. CASE x = s  BY <2>2, <2>5, <3>2
    <3>3. CASE x # s
      <4>1. run'[x] = run[x] /\ run[x].at = "waiting"  BY <2>2, <3>1, <3>3
      <4>2. QED  BY <2>1, <2>6, <4>1, WaitsOn
    <3>4. QED  BY <3>2, <3>3
  <2>8. AcceptedKept'
    <3>1. SUFFICES ASSUME NEW x \in Script, run'[x].at = "accepted", Attached(run'[x].mail)
                   PROVE  Kept(run[x].mail)'
      BY DEF AcceptedKept, Attached
    <3>2. run'[x] = run[x]  BY <2>2, <3>1
    <3>3. PICK n : n = run[x].mail  OBVIOUS
    <3>4. Kept(n)  BY <1>1, <3>1, <3>2, <3>3 DEF AcceptedKept
    <3>5. Kept(n)'  BY <3>4, KeptGrows
    <3>6. QED  BY <3>2, <3>3, <3>5
  <2>9. ReadMailsKept'
    <3>1. SUFFICES ASSUME NEW n \in read, Attached(n) PROVE Kept(n)'
      BY <2>3 DEF ReadMailsKept, Kept, Attached
    <3>2. Kept(n)  BY <1>1, <3>1 DEF ReadMailsKept, Kept
    <3>3. QED  BY <3>2, KeptGrows
  <2>10. QED  BY <2>4, <2>7, <2>8, <2>9 DEF MailsKept
<1>4. ASSUME NEW r \in Request, TakeFile(r) \/ FilesDone(r) \/ Notify(r) \/ Save(r)
      PROVE  MailsKept'
  <2>1. \A m : Helps(m, req[r]) => Helps(m, req[r])'  BY <1>1, <1>4, CarriesOn
  <2>2. UNCHANGED mailbox  BY <1>4 DEF TakeFile, FilesDone, Notify, Save
  <2>3. Others(r) /\ (req'[r].at \in {"notice", "save"} => req'[r].left = <<>>)
    BY <1>1, <1>4, TakeFileStep, FilesDoneStep, NotifyStep, SaveStep DEF FilesOver
  <2>4. QED  BY <2>1, <2>2, <2>3, RequestTurns
<1>5. ASSUME NEW r \in Request, LooseUpload(r) \/ LooseTaxForm(r) PROVE MailsKept'
  <2>1. /\ req[r] = Idle /\ Others(r) /\ UNCHANGED mailbox
        /\ req'[r].at \in {"notice", "save"} => req'[r].left = <<>>
    BY <1>1, <1>5, LooseStep
  <2>2. \A m : ~Helps(m, req[r])  BY <1>1, <2>1, Forms DEF Helps, Idle
  <2>3. QED  BY <2>1, <2>2, RequestTurns
<1>6. ASSUME NEW r \in Request, StartResend(r) PROVE MailsKept'
  <2>1. req[r] = Idle /\ req'[r] \in Resend /\ Others(r)  BY <1>1, <1>6, StartResendStep
  <2>2. UNCHANGED mailbox  BY <1>6 DEF StartResend
  <2>3. \A m : ~Helps(m, req[r])  BY <1>1, <2>1, Forms DEF Helps, Idle
  <2>4. ~(req'[r].at \in {"notice", "save"})  BY <2>1 DEF Resend
  <2>5. QED  BY <2>1, <2>2, <2>3, <2>4, RequestTurns
<1>7. ASSUME NEW r \in Request, CommitResend(r) PROVE MailsKept'
  <2>1. req[r].id \in DOMAIN records  BY <1>7 DEF Typed, RowsKnown, CommitResend
  <2>2. req'[r] = Idle /\ Others(r)  BY <1>1, <1>7, <2>1, CommitResendStep
  <2>3. UNCHANGED mailbox  BY <1>7 DEF CommitResend
  <2>4. \A m : ~Helps(m, req[r])  BY <1>1, <1>7, Forms DEF Helps, CommitResend
  <2>5. ~(req'[r].at \in {"notice", "save"})  BY <2>2 DEF Idle
  <2>6. QED  BY <2>2, <2>3, <2>4, <2>5, RequestTurns
<1>8. ASSUME NEW r \in Request, Reply(r) \/ Die(r) PROVE MailsKept'
  <2>1. PICK at \in {"loop", "accepted"} :
          Resume(r, at) /\ (at = "accepted" => req[r].at = "answer" /\ req[r].code \in 200..299)
    BY <1>8 DEF Reply, Die, AfterAnswer
  <2>2. /\ \A s \in Script :
             run'[s] = run[s] \/ (/\ run[s].at = "waiting" /\ run[s].request = r
                                  /\ run'[s].at = at /\ run'[s].mail = run[s].mail)
        /\ \A s \in Script : run[s].at = "waiting" /\ run[s].request = r => run'[s].at = at
    BY <2>1, ResumeTyped
  <2>3. /\ req'[r] = Idle /\ Others(r) /\ UNCHANGED <<read, tables>>  BY <1>1, <1>8, EndStep
  <2>4. \A m : Kept(m) => Kept(m)'  BY KeptGrows
  <2>5. FilesOver'  BY <1>1, <2>3 DEF FilesOver, Others, Idle
  <2>6. Awaits'
    <3>1. SUFFICES ASSUME NEW s \in Script, run'[s].at = "waiting"
                   PROVE  run'[s].request \in Request /\ Helps(run[s].mail, req[run[s].request])'
      BY DEF Awaits
    <3>2. run'[s] = run[s] /\ run[s].at = "waiting" /\ run[s].request # r
      BY <2>1, <2>2, <3>1
    <3>3. PICK q \in Request : q = run[s].request  BY <1>1, <3>2 DEF Awaits
    <3>4. PICK m : m = run[s].mail  OBVIOUS
    <3>5. Helps(m, req[q]) /\ req'[q] = req[q]
      BY <1>1, <2>3, <3>2, <3>3, <3>4 DEF Awaits, Others
    <3>6. Helps(m, req[q])'
      BY <2>4, <3>5 DEF Helps, Carries, Carried, FilesIn, Contents, Allowed
    <3>7. QED  BY <3>2, <3>3, <3>4, <3>6
  <2>7. AcceptedKept'
    <3>1. SUFFICES ASSUME NEW s \in Script, run'[s].at = "accepted", Attached(run'[s].mail)
                   PROVE  Kept(run[s].mail)'
      BY DEF AcceptedKept, Attached
    <3>2. PICK m : m = run[s].mail  OBVIOUS
    <3>3. run'[s].mail = m  BY <2>2, <3>2
    <3>4. Kept(m)
      <4>1. CASE run'[s] = run[s]  BY <1>1, <3>1, <3>2, <4>1 DEF AcceptedKept
      <4>2. CASE run[s].at = "waiting" /\ run[s].request = r /\ run'[s].at = at
        <5>1. req[r].at = "answer" /\ req[r].code \in 200..299  BY <2>1, <3>1, <4>2
        <5>2. Helps(m, req[r])  BY <1>1, <3>2, <4>2 DEF Awaits
        <5>3. req[r].code \in {0, 200, 400, 401, 500}  BY <5>2, UploadFields DEF Helps
        <5>4. req[r].code = 200  BY <5>1, <5>3
        <5>5. QED  BY <5>1, <5>2, <5>4 DEF Helps
      <4>3. QED  BY <2>2, <4>1, <4>2
    <3>5. QED  BY <2>4, <3>3, <3>4
  <2>8. ReadMailsKept'
    <3>1. SUFFICES ASSUME NEW n \in read, Attached(n) PROVE Kept(n)'
      BY <2>3 DEF ReadMailsKept, Kept, Attached
    <3>2. Kept(n)  BY <1>1, <3>1 DEF ReadMailsKept, Kept
    <3>3. QED  BY <2>4, <3>2
  <2>9. QED  BY <2>5, <2>6, <2>7, <2>8 DEF MailsKept
<1>9. CASE UNCHANGED vars
  BY <1>1, <1>9 DEF vars, mailbox, tables, MailsKept, FilesOver, Awaits, AcceptedKept,
                    ReadMailsKept, Helps, Kept, Carries, Carried, FilesIn, Recorded, Attached,
                    Contents, Allowed
<1>10. QED
  BY <1>2, <1>3, <1>4, <1>5, <1>6, <1>7, <1>8, <1>9 DEF Next, Main, Serve, Alone

\* Whatever dies or is given up, however executions overlap: a mail with
\* attachments is marked as read only when each file of it that the server
\* accepts has a row, or saving it failed and was logged (email_upload.gs main).
THEOREM MarkedMailsAreKept == Spec => []ReadMailsKept
<1>1. MailsKept => ReadMailsKept  BY DEF MailsKept
<1>2. QED  BY InitTyped, NextTyped, MailsKeptInit, MailsKeptNext, <1>1, PTL DEF Spec

-----------------------------------------------------------------------------
(* Tries to announce a record again *)

Resending(r) == req[r].at = "resend"

\* What a request read can be written back: with its own notice and the others that
\* are still uncounted it is no more than the tries; one process reads what is there.
SeenCounts ==
  \A r \in Request : Resending(r) =>
    /\ req[r].seen.retries + Cardinality(Uncounted(req[r].id)) <= tries[req[r].id]
    /\ setting.workers = 1 => req[r].seen.retries = records[req[r].id].retries

OneResend ==
  setting.workers = 1 => \A q, r \in Request : Resending(q) /\ Resending(r) => q = r

Counted == RetriesCounted /\ SeenCounts /\ OneResend

LEMMA CountedInit == Init => Counted
BY DEF Init, Counted, RetriesCounted, SeenCounts, OneResend, Resending, Idle

LEMMA TryNumbers ==
  ASSUME Typed
  PROVE  /\ \A i \in DOMAIN records : records[i].retries \in Nat /\ tries[i] \in Nat
         /\ spent.faults \in Nat /\ DOMAIN tries = DOMAIN records
         /\ \A r \in Request : Resending(r) =>
              req[r] \in Resend /\ req[r].id \in DOMAIN records /\ req[r].seen.retries \in Nat
<1>1. records \in Seq(Record) /\ tries \in Seq(Nat) /\ Len(tries) = Len(records)
  BY DEF Typed, TypeOK
<1>2. \A row \in Record : row.retries \in Nat  BY DEF Record
<1>3. \A i \in DOMAIN records : records[i] \in Record  BY <1>1
<1>4. \A i \in DOMAIN records : tries[i] \in Nat  BY <1>1
<1>5. \A r \in Request : Resending(r) => req[r] \in Resend /\ req[r].id \in DOMAIN records
  BY Forms DEF Typed, RowsKnown, Resending
<1>6. \A q \in Resend : q.seen.retries \in Nat  BY DEF Resend, Record
<1>7. QED  BY <1>1, <1>2, <1>3, <1>4, <1>5, <1>6, SpentTyped DEF Typed

LEMMA UncountedNat == \A i : IsFiniteSet(Uncounted(i)) /\ Cardinality(Uncounted(i)) \in Nat
<1>1. \A i : IsFiniteSet(Uncounted(i))
  <2>1. SUFFICES ASSUME NEW i PROVE IsFiniteSet(Uncounted(i))  OBVIOUS
  <2>2. Uncounted(i) \subseteq Request  BY DEF Uncounted
  <2>3. QED  BY <2>2, UploadConstants, FS_Subset
<1>2. QED  BY <1>1, FS_CardinalityType

\* A notice that is sent is one more uncounted notice of its record.
LEMMA ResendBegins ==
  ASSUME NEW r \in Request, ~Resending(r), Resending(r)', Others(r), NEW i
  PROVE  Cardinality(Uncounted(i))' =
           IF i = req'[r].id THEN Cardinality(Uncounted(i)) + 1 ELSE Cardinality(Uncounted(i))
<1>1. r \notin Uncounted(i)  BY DEF Uncounted, Resending
<1>2. CASE i = req'[r].id
  <2>1. Uncounted(i)' = Uncounted(i) \cup {r}
    BY <1>2 DEF Uncounted, Resending, Others
  <2>2. QED  BY <1>1, <1>2, <2>1, UncountedNat, FS_AddElement
<1>3. CASE i # req'[r].id
  <2>1. Uncounted(i)' = Uncounted(i)  BY <1>3 DEF Uncounted, Resending, Others
  <2>2. QED  BY <1>3, <2>1
<1>4. QED  BY <1>2, <1>3

LEMMA ResendEnds ==
  ASSUME NEW r \in Request, Resending(r), ~Resending(r)', Others(r), NEW i
  PROVE  /\ Cardinality(Uncounted(i))' \in Nat
         /\ Cardinality(Uncounted(i)) =
              IF i = req[r].id THEN Cardinality(Uncounted(i))' + 1
                               ELSE Cardinality(Uncounted(i))'
<1>1. CASE i = req[r].id
  <2>1. Uncounted(i)' = Uncounted(i) \ {r} /\ r \in Uncounted(i)
    BY <1>1 DEF Uncounted, Resending, Others
  <2>2. PICK c : c = Cardinality(Uncounted(i))'  OBVIOUS
  <2>3. c = Cardinality(Uncounted(i)) - 1  BY <2>1, <2>2, UncountedNat, FS_RemoveElement
  <2>4. Uncounted(i) # {}  BY <2>1
  <2>5. Cardinality(Uncounted(i)) # 0  BY <2>4, UncountedNat, FS_EmptySet
  <2>6. c \in Nat /\ Cardinality(Uncounted(i)) = c + 1  BY <2>3, <2>5, UncountedNat
  <2>7. QED  BY <1>1, <2>2, <2>6
<1>2. CASE i # req[r].id
  <2>1. Uncounted(i)' = Uncounted(i)  BY <1>2 DEF Uncounted, Resending, Others
  <2>2. QED  BY <1>2, <2>1, UncountedNat
<1>3. QED  BY <1>1, <1>2

\* A step that leaves the counts alone and neither begins nor ends a resend.
LEMMA NoResend ==
  ASSUME Typed, Counted, UNCHANGED <<records, tries, setting>>,
         spent'.faults \in Nat, spent'.faults >= spent.faults,
         \A r \in Request : Resending(r) \/ Resending(r)' => req'[r] = req[r]
  PROVE  Counted'
<1>1. \A i : Uncounted(i)' = Uncounted(i)  BY DEF Uncounted, Resending
<1>2. RetriesCounted'
  <2>1. SUFFICES ASSUME NEW i \in DOMAIN records
                 PROVE  LET counted == records[i].retries + Cardinality(Uncounted(i))
                        IN  /\ counted <= tries[i]
                            /\ setting.workers = 1 => tries[i] <= counted + spent'.faults
    BY <1>1 DEF RetriesCounted
  <2>2. QED  BY TryNumbers, UncountedNat DEF Counted, RetriesCounted
<1>3. SeenCounts'  BY <1>1 DEF Counted, SeenCounts, Resending
<1>4. OneResend'  BY DEF Counted, OneResend, Resending
<1>5. QED  BY <1>2, <1>3, <1>4 DEF Counted

LEMMA CountedNext == Typed /\ Counted /\ [Next]_vars => Counted'
<1> SUFFICES ASSUME Typed, Counted, [Next]_vars PROVE Counted'  OBVIOUS
<1>1. /\ TypeOK /\ RetriesCounted /\ SeenCounts /\ OneResend /\ spent.faults \in Nat
      /\ records \in Seq(Record) /\ tries \in Seq(Nat) /\ DOMAIN tries = DOMAIN records
  BY TryNumbers DEF Typed, TypeOK, Counted
<1>2. ASSUME NEW s \in Script, Alone(s) PROVE Counted'
  <2>1. SpentOK(spent') /\ spent'.faults >= spent.faults /\ UNCHANGED <<req, tables, setting>>
    BY <1>2, ScriptLeaves
  <2>2. spent'.faults \in Nat  BY <1>1, <2>1, SpentTyped DEF SpentOK, Setting
  <2>3. QED  BY <2>1, <2>2, NoResend DEF tables
<1>3. ASSUME NEW s \in Script, Post(s) PROVE Counted'
  <2>1. PICK r \in Request : req[r] = Idle /\ req'[r] \in Upload /\ Others(r)
    BY <1>3, PostStep
  <2>2. UNCHANGED <<records, tries, setting, spent>>  BY <1>3 DEF Post, tables
  <2>3. \A q \in Request : Resending(q) \/ Resending(q)' => req'[q] = req[q]
    BY <2>1 DEF Others, Resending, Upload, Idle
  <2>4. QED  BY <1>1, <2>2, <2>3, NoResend
<1>4. ASSUME NEW r \in Request,
             \/ TakeFile(r) \/ FilesDone(r) \/ Notify(r) \/ LooseUpload(r) \/ LooseTaxForm(r)
      PROVE  Counted'
  <2>1. /\ req[r] \in Upload \/ req[r] = Idle
        /\ req'[r] \in Upload /\ Others(r) /\ spent'.faults = spent.faults
    BY <1>1, <1>4, TakeFileStep, FilesDoneStep, NotifyStep, LooseStep DEF FilesDone
  <2>2. UNCHANGED <<records, tries, setting>>
    BY <1>4 DEF TakeFile, FilesDone, Notify, LooseUpload, LooseTaxForm, tables
  <2>3. \A q \in Request : Resending(q) \/ Resending(q)' => req'[q] = req[q]
    BY <2>1 DEF Others, Resending, Upload, Idle
  <2>4. QED  BY <1>1, <2>1, <2>2, <2>3, NoResend
<1>5. ASSUME NEW r \in Request, Reply(r) \/ Die(r), ~Resending(r) PROVE Counted'
  <2>1. /\ req'[r] = Idle /\ Others(r) /\ UNCHANGED <<tables, setting>>
        /\ spent'.faults = spent.faults + 1 \/ UNCHANGED spent
    BY <1>1, <1>5, EndStep
  <2>2. \A q \in Request : Resending(q) \/ Resending(q)' => req'[q] = req[q]
    BY <1>5, <2>1 DEF Others, Resending, Idle
  <2>3. QED  BY <1>1, <2>1, <2>2, NoResend DEF tables
<1>6. ASSUME NEW r \in Request, Reply(r) \/ Die(r), Resending(r) PROVE Counted'
  <2>1. Die(r)  BY <1>6 DEF Reply, Resending
  <2>2. /\ req'[r] = Idle /\ Others(r) /\ UNCHANGED <<tables, setting>>
        /\ spent'.faults = spent.faults + 1
    BY <1>1, <2>1, EndStep
  <2>3. ~Resending(r)'  BY <2>2 DEF Resending, Idle
  <2>4. \A q \in Request : Resending(q)' => req'[q] = req[q] /\ Resending(q)
    BY <2>2, <2>3 DEF Others, Resending
  <2>5. \A i : /\ Cardinality(Uncounted(i))' \in Nat
               /\ Cardinality(Uncounted(i)) =
                    IF i = req[r].id THEN Cardinality(Uncounted(i))' + 1
                                     ELSE Cardinality(Uncounted(i))'
    BY <1>6, <2>2, <2>3, ResendEnds
  <2>6. RetriesCounted'
    <3>1. SUFFICES ASSUME NEW i \in DOMAIN records
                   PROVE  LET counted == records[i].retries + Cardinality(Uncounted(i))'
                          IN  /\ counted <= tries[i]
                              /\ setting.workers = 1 => tries[i] <= counted + spent.faults + 1
      BY <2>2, <2>5, TryNumbers DEF RetriesCounted, tables
    <3>2. /\ records[i].retries \in Nat /\ tries[i] \in Nat
          /\ records[i].retries + Cardinality(Uncounted(i)) <= tries[i]
          /\ setting.workers = 1 =>
               tries[i] <= records[i].retries + Cardinality(Uncounted(i)) + spent.faults
      BY <1>1, TryNumbers DEF RetriesCounted
    <3>3. PICK c : c = Cardinality(Uncounted(i))'  OBVIOUS
    <3>4. c \in Nat /\ Cardinality(Uncounted(i)) \in {c, c + 1}  BY <2>5, <3>3
    <3>5. QED  BY <1>1, <3>2, <3>3, <3>4
  <2>7. SeenCounts'
    <3>1. SUFFICES ASSUME NEW q \in Request, Resending(q)', NEW i, i = req[q].id
                   PROVE  /\ req[q].seen.retries + Cardinality(Uncounted(i))' <= tries[i]
                          /\ setting.workers = 1 => req[q].seen.retries = records[i].retries
      BY <2>2, <2>4 DEF SeenCounts, tables
    <3>2. PICK c : c = Cardinality(Uncounted(i))'  OBVIOUS
    <3>3. c \in Nat /\ Cardinality(Uncounted(i)) \in {c, c + 1}  BY <2>5, <3>2
    <3>4. /\ req[q].seen.retries + Cardinality(Uncounted(i)) <= tries[i]
          /\ req[q].seen.retries \in Nat /\ tries[i] \in Nat
          /\ setting.workers = 1 => req[q].seen.retries = records[i].retries
      BY <1>1, <2>4, <3>1, TryNumbers DEF SeenCounts
    <3>5. QED  BY <3>2, <3>3, <3>4
  <2>8. OneResend'  BY <1>1, <2>2, <2>4 DEF OneResend
  <2>9. QED  BY <2>6, <2>7, <2>8 DEF Counted
<1>7. ASSUME NEW r \in Request, Save(r) PROVE Counted'
  <2>1. /\ req[r] \in Upload /\ req'[r] \in Upload /\ Others(r) /\ spent'.faults = spent.faults
        /\ \A i \in DOMAIN records : /\ i \in DOMAIN records' /\ records'[i] = records[i]
                                     /\ tries'[i] = tries[i]
        /\ \A i \in DOMAIN records' \ DOMAIN records : records'[i].retries = 0 /\ tries'[i] = 0
    BY <1>1, <1>7, SaveStep
  <2>2. UNCHANGED setting  BY <1>7 DEF Save
  <2>3. \A q \in Request : Resending(q) \/ Resending(q)' => req'[q] = req[q]
    BY <2>1 DEF Others, Resending, Upload
  <2>4. \A i : Uncounted(i)' = Uncounted(i)  BY <2>3 DEF Uncounted, Resending
  <2>5. RetriesCounted'
    <3>1. SUFFICES ASSUME NEW i \in DOMAIN records'
                   PROVE  LET counted == records'[i].retries + Cardinality(Uncounted(i))
                          IN  /\ counted <= tries'[i]
                              /\ setting.workers = 1 => tries'[i] <= counted + spent.faults
      BY <2>1, <2>2, <2>4 DEF RetriesCounted
    <3>2. CASE i \in DOMAIN records  BY <1>1, <2>1, <3>2 DEF RetriesCounted
    <3>3. CASE i \notin DOMAIN records
      <4>1. Uncounted(i) = {}  BY <3>3, TryNumbers DEF Uncounted, Resending
      <4>2. Cardinality(Uncounted(i)) = 0  BY <4>1, FS_EmptySet
      <4>3. QED  BY <1>1, <2>1, <3>1, <3>3, <4>2
    <3>4. QED  BY <3>2, <3>3
  <2>6. SeenCounts'
    <3>1. SUFFICES ASSUME NEW q \in Request, Resending(q)', NEW i, i = req[q].id
                   PROVE  /\ req[q].seen.retries + Cardinality(Uncounted(i)) <= tries'[i]
                          /\ setting.workers = 1 => req[q].seen.retries = records'[i].retries
      BY <2>2, <2>3, <2>4 DEF SeenCounts
    <3>2. Resending(q)  BY <2>3, <3>1 DEF Resending
    <3>3. QED  BY <1>1, <2>1, <3>1, <3>2, TryNumbers DEF SeenCounts
  <2>7. OneResend'  BY <1>1, <2>2, <2>3 DEF OneResend, Resending
  <2>8. QED  BY <2>5, <2>6, <2>7 DEF Counted
<1>8. ASSUME NEW r \in Request, StartResend(r) PROVE Counted'
  <2>1. /\ req[r] = Idle /\ req'[r] \in Resend /\ Others(r)
        /\ req'[r].id \in DOMAIN records /\ req'[r].seen = records[req'[r].id]
        /\ Cardinality({q \in Request : req[q].at = "resend"}) < setting.workers
        /\ UNCHANGED records /\ spent'.faults = spent.faults
        /\ \A i \in DOMAIN records :
             tries'[i] = IF i = req'[r].id THEN tries[i] + 1 ELSE tries[i]
    BY <1>1, <1>8, StartResendStep
  <2>2. UNCHANGED setting  BY <1>8 DEF StartResend
  <2>3. ~Resending(r) /\ Resending(r)'  BY <2>1 DEF Resending, Idle, Resend
  <2>4. \A i : Cardinality(Uncounted(i))' =
                 IF i = req'[r].id THEN Cardinality(Uncounted(i)) + 1
                                   ELSE Cardinality(Uncounted(i))
    BY <2>1, <2>3, ResendBegins
  <2>5. RetriesCounted'
    <3>1. SUFFICES ASSUME NEW i \in DOMAIN records
                   PROVE  LET counted == records[i].retries + Cardinality(Uncounted(i))'
                          IN  /\ counted <= tries'[i]
                              /\ setting.workers = 1 => tries'[i] <= counted + spent.faults
      BY <2>1, <2>2 DEF RetriesCounted
    <3>2. /\ records[i].retries \in Nat /\ tries[i] \in Nat
          /\ records[i].retries + Cardinality(Uncounted(i)) <= tries[i]
          /\ setting.workers = 1 =>
               tries[i] <= records[i].retries + Cardinality(Uncounted(i)) + spent.faults
      BY <1>1, TryNumbers DEF RetriesCounted
    <3>3. PICK c : c = Cardinality(Uncounted(i))  OBVIOUS
    <3>4. c \in Nat  BY <3>3, UncountedNat
    <3>5. CASE i = req'[r].id
      <4>1. Cardinality(Uncounted(i))' = c + 1 /\ tries'[i] = tries[i] + 1
        BY <2>1, <2>4, <3>3, <3>5
      <4>2. QED  BY <1>1, <3>2, <3>3, <3>4, <4>1
    <3>6. CASE i # req'[r].id
      <4>1. Cardinality(Uncounted(i))' = c /\ tries'[i] = tries[i]
        BY <2>1, <2>4, <3>3, <3>6
      <4>2. QED  BY <1>1, <3>2, <3>3, <3>4, <4>1
    <3>7. QED  BY <3>5, <3>6
  <2>6. SeenCounts'
    <3>1. SUFFICES ASSUME NEW q \in Request, Resending(q)', NEW n, n = req'[q].id
                   PROVE  /\ req'[q].seen.retries + Cardinality(Uncounted(n))' <= tries'[n]
                          /\ setting.workers = 1 => req'[q].seen.retries = records[n].retries
      BY <2>1, <2>2 DEF SeenCounts
    <3>2. n = req'[q].id  BY <3>1
    <3>3. PICK c : c = Cardinality(Uncounted(n))  OBVIOUS
    <3>4. PICK seen : seen = req'[q].seen.retries  OBVIOUS
    <3>5. /\ n \in DOMAIN records /\ seen \in Nat /\ seen + c <= tries[n]
          /\ setting.workers = 1 => seen = records[n].retries
      <4>1. CASE q = r
        BY <1>1, <2>1, <3>2, <3>3, <3>4, <4>1, TryNumbers DEF RetriesCounted
      <4>2. CASE q # r
        <5>1. req'[q] = req[q] /\ Resending(q)  BY <2>1, <3>1, <4>2 DEF Others, Resending
        <5>2. QED  BY <1>1, <3>2, <3>3, <3>4, <5>1, TryNumbers DEF SeenCounts
      <4>3. QED  BY <4>1, <4>2
    <3>6. c \in Nat /\ tries[n] \in Nat  BY <3>3, <3>5, UncountedNat, TryNumbers
    <3>7. \/ Cardinality(Uncounted(n))' = c + 1 /\ tries'[n] = tries[n] + 1
          \/ Cardinality(Uncounted(n))' = c /\ tries'[n] = tries[n]
      BY <2>1, <2>4, <3>3, <3>5
    <3>8. QED  BY <3>2, <3>4, <3>5, <3>6, <3>7
  <2>7. OneResend'
    <3>1. SUFFICES ASSUME setting.workers = 1 PROVE \A q \in Request : ~Resending(q)
      BY <2>1, <2>2 DEF OneResend, Others, Resending
    <3>2. PICK busy : busy = {q \in Request : req[q].at = "resend"}  OBVIOUS
    <3>3. IsFiniteSet(busy)  BY <3>2, UploadConstants, FS_Subset
    <3>4. Cardinality(busy) \in Nat  BY <3>3, FS_CardinalityType
    <3>5. Cardinality(busy) = 0  BY <2>1, <3>1, <3>2, <3>4
    <3>6. busy = {}  BY <3>3, <3>5, FS_EmptySet
    <3>7. QED  BY <3>2, <3>6 DEF Resending
  <2>8. QED  BY <2>5, <2>6, <2>7 DEF Counted
<1>9. ASSUME NEW r \in Request, CommitResend(r) PROVE Counted'
  <2>1. Resending(r) /\ req[r].id \in DOMAIN records
    BY <1>9, TryNumbers DEF CommitResend, Resending
  <2>2. PICK n : n = req[r].id  OBVIOUS
  <2>3. PICK seen : seen = req[r].seen.retries  OBVIOUS
  <2>4. /\ req'[r] = Idle /\ Others(r) /\ DOMAIN records' = DOMAIN records
        /\ \A i \in DOMAIN records : i # n => records'[i].retries = records[i].retries
        /\ records'[n].retries = seen + 1
    BY <1>1, <1>9, <2>1, <2>2, <2>3, CommitResendStep
  <2>5. UNCHANGED <<tries, spent, setting>>  BY <1>9 DEF CommitResend
  <2>6. ~Resending(r)'  BY <2>4 DEF Resending, Idle
  <2>7. \A q \in Request : Resending(q)' => q # r /\ req'[q] = req[q] /\ Resending(q)
    BY <2>4, <2>6 DEF Others, Resending
  <2>8. \A i : /\ Cardinality(Uncounted(i))' \in Nat
               /\ Cardinality(Uncounted(i)) = IF i = n THEN Cardinality(Uncounted(i))' + 1
                                                       ELSE Cardinality(Uncounted(i))'
    BY <2>1, <2>2, <2>4, <2>6, ResendEnds
  <2>9. /\ seen \in Nat /\ n \in DOMAIN records /\ tries[n] \in Nat
        /\ seen + Cardinality(Uncounted(n)) <= tries[n]
        /\ setting.workers = 1 => seen = records[n].retries
    BY <1>1, <2>1, <2>2, <2>3, TryNumbers DEF SeenCounts
  <2>10. RetriesCounted'
    <3>1. SUFFICES ASSUME NEW i \in DOMAIN records
                   PROVE  LET counted == records'[i].retries + Cardinality(Uncounted(i))'
                          IN  /\ counted <= tries[i]
                              /\ setting.workers = 1 => tries[i] <= counted + spent.faults
      BY <2>4, <2>5 DEF RetriesCounted
    <3>2. CASE i = n  BY <1>1, <2>4, <2>8, <2>9, <3>2 DEF RetriesCounted
    <3>3. CASE i # n  BY <1>1, <2>4, <2>8, <3>3, TryNumbers DEF RetriesCounted
    <3>4. QED  BY <3>2, <3>3
  <2>11. SeenCounts'
    <3>1. SUFFICES ASSUME NEW q \in Request, Resending(q)', NEW m, m = req[q].id
                   PROVE  /\ req[q].seen.retries + Cardinality(Uncounted(m))' <= tries[m]
                          /\ setting.workers = 1 => req[q].seen.retries = records'[m].retries
      BY <2>5, <2>7 DEF SeenCounts
    <3>2. q # r /\ Resending(q)  BY <2>7, <3>1
    <3>3. setting.workers # 1  BY <1>1, <2>1, <3>2 DEF OneResend
    <3>4. m = req[q].id  BY <3>1
    <3>5. PICK c : c = Cardinality(Uncounted(m))'  OBVIOUS
    <3>6. c \in Nat /\ Cardinality(Uncounted(m)) \in {c, c + 1}  BY <2>8, <3>5
    <3>7. /\ req[q].seen.retries + Cardinality(Uncounted(m)) <= tries[m]
          /\ req[q].seen.retries \in Nat /\ tries[m] \in Nat
      BY <1>1, <3>2, <3>4, TryNumbers DEF SeenCounts
    <3>8. QED  BY <3>3, <3>4, <3>5, <3>6, <3>7
  <2>12. OneResend'  BY <1>1, <2>5, <2>7 DEF OneResend
  <2>13. QED  BY <2>10, <2>11, <2>12 DEF Counted
<1>10. CASE UNCHANGED vars
  BY <1>1, <1>10, NoResend DEF vars, tables
<1>11. QED
  BY <1>2, <1>3, <1>4, <1>5, <1>6, <1>7, <1>8, <1>9, <1>10 DEF Next, Main, Serve, Alone

\* However many processes send notices again at the same time, and whatever dies
\* between sending one and saving its count, a row never shows more tries than were
\* made; one process misses at most one try for each death (resend_wechat).
THEOREM TriesAreCounted == Spec => []RetriesCounted
<1>1. Counted => RetriesCounted  BY DEF Counted
<1>2. QED  BY InitTyped, NextTyped, CountedInit, CountedNext, <1>1, PTL DEF Spec

-----------------------------------------------------------------------------
(* The object store and the page *)

Working(q) == q.at \in {"files", "notice", "save"}
Expected(f) == \E r \in Request : Working(req[r]) /\ f \in FilesIn(req[r].drafts)

AllListed ==
  spent.faults = 0 => \A f \in objects : Recorded(f) \/ f \in unsaved \/ Expected(f)
RowLinks == \A i \in DOMAIN records : records[i].url => records[i].file \in objects
LinksStored ==
  \A r \in Request : req[r] \in Upload =>
    \A j \in DOMAIN req[r].drafts : req[r].drafts[j].url => req[r].drafts[j].file \in objects

Stored == AllListed /\ RowLinks /\ LinksStored

LEMMA StoredInit == Init => Stored
<1> SUFFICES ASSUME Init PROVE Stored  OBVIOUS
<1>1. AllListed /\ RowLinks  BY DEF Init, AllListed, RowLinks
<1>2. LinksStored  BY DEF Init, LinksStored, Idle, Upload
<1>3. QED  BY <1>1, <1>2 DEF Stored

\* A step that writes neither rows nor objects, and ends no upload.
LEMMA StoreKept ==
  ASSUME Typed, Stored, UNCHANGED <<records, unsaved, objects>>,
         spent'.faults = 0 => spent.faults = 0,
         \A r \in Request : Working(req[r]) =>
           Working(req'[r]) /\ FilesIn(req[r].drafts) \subseteq FilesIn(req'[r].drafts),
         \A r \in Request : req'[r] \in Upload =>
           \/ req[r] \in Upload /\ req'[r].drafts = req[r].drafts
           \/ \A j \in DOMAIN req'[r].drafts : ~req'[r].drafts[j].url
  PROVE  Stored'
<1>1. \A f : Recorded(f)' <=> Recorded(f)  BY DEF Recorded
<1>2. \A f : Expected(f) => Expected(f)'
  <2>1. SUFFICES ASSUME NEW f, Expected(f) PROVE Expected(f)'  OBVIOUS
  <2>2. PICK r \in Request : Working(req[r]) /\ f \in FilesIn(req[r].drafts)
    BY <2>1 DEF Expected
  <2>3. PICK ds : ds = req'[r].drafts  OBVIOUS
  <2>4. Working(req'[r]) /\ f \in FilesIn(ds)  BY <2>2, <2>3
  <2>5. QED  BY <2>3, <2>4 DEF Expected, Working, FilesIn
<1>3. AllListed'  BY <1>1, <1>2 DEF Stored, AllListed
<1>4. RowLinks'  BY DEF Stored, RowLinks
<1>5. LinksStored'  BY DEF Stored, LinksStored
<1>6. QED  BY <1>3, <1>4, <1>5 DEF Stored

LEMMA StoredTakes ==
  ASSUME Typed, Stored, NEW r \in Request, TakeFile(r)
  PROVE  Stored'
<1>1. TypeOK /\ AllListed /\ RowLinks /\ LinksStored  BY DEF Typed, Stored
<1>2. PICK p : p = req[r]  OBVIOUS
<1>3. PICK q : q = req'[r]  OBVIOUS
<1>4. PICK f : f = p.left[1]  OBVIOUS
<1>5. /\ p \in Upload /\ q \in Upload /\ Others(r)
      /\ p.at = "files" /\ q.at = "files"
      /\ \/ q.drafts = p.drafts /\ objects' = objects
         \/ \E url \in BOOLEAN :
              /\ q.drafts = Append(p.drafts, [file |-> f, url |-> url])
              /\ objects' \in {objects, objects \cup {f}}
              /\ url => objects' = objects \cup {f}
      /\ objects \subseteq objects' /\ spent'.faults = spent.faults
      /\ UNCHANGED <<mailbox, tables, told, setting>>
  BY <1>1, <1>2, <1>3, <1>4, TakeFileStep
<1>6. p.drafts \in Seq(Draft)  BY <1>5, UploadFields
<1>7. /\ FilesIn(p.drafts) \subseteq FilesIn(q.drafts)
      /\ objects' \subseteq objects \cup FilesIn(q.drafts)
      /\ \A j \in DOMAIN q.drafts : q.drafts[j].url => q.drafts[j].file \in objects'
  <2>1. \A j \in DOMAIN p.drafts : p.drafts[j].url => p.drafts[j].file \in objects
    BY <1>1, <1>2, <1>5 DEF LinksStored
  <2>2. CASE q.drafts = p.drafts /\ objects' = objects  BY <2>1, <2>2
  <2>3. ASSUME NEW url \in BOOLEAN,
               q.drafts = Append(p.drafts, [file |-> f, url |-> url]),
               objects' \in {objects, objects \cup {f}}, url => objects' = objects \cup {f}
        PROVE  /\ FilesIn(p.drafts) \subseteq FilesIn(q.drafts)
               /\ objects' \subseteq objects \cup FilesIn(q.drafts)
               /\ \A j \in DOMAIN q.drafts : q.drafts[j].url => q.drafts[j].file \in objects'
    <3>1. PICK n : n = Len(p.drafts)  OBVIOUS
    <3>2. PICK d : d = [file |-> f, url |-> url]  OBVIOUS
    <3>3. d.file = f /\ d.url = url  BY <3>2
    <3>4. /\ n \in Nat /\ DOMAIN p.drafts = 1..n /\ DOMAIN q.drafts = 1..(n + 1)
          /\ q.drafts[n + 1] = d /\ \A j \in 1..n : q.drafts[j] = p.drafts[j]
      BY <1>6, <2>3, <3>1, <3>2
    <3>5. FilesIn(p.drafts) \subseteq FilesIn(q.drafts)  BY <3>4 DEF FilesIn
    <3>6. f \in FilesIn(q.drafts)
      <4>1. n + 1 \in DOMAIN q.drafts /\ q.drafts[n + 1].file = f  BY <3>3, <3>4
      <4>2. QED  BY <4>1 DEF FilesIn
    <3>7. \A j \in DOMAIN q.drafts : q.drafts[j].url => q.drafts[j].file \in objects'
      <4>1. SUFFICES ASSUME NEW j \in DOMAIN q.drafts, q.drafts[j].url
                     PROVE  q.drafts[j].file \in objects'
        OBVIOUS
      <4>2. CASE j = n + 1  BY <2>3, <3>3, <3>4, <4>1, <4>2
      <4>3. CASE j # n + 1
        <5>1. j \in 1..n  BY <3>4, <4>1, <4>3
        <5>2. QED  BY <2>1, <2>3, <3>4, <4>1, <5>1
      <4>4. QED  BY <4>2, <4>3
    <3>8. QED  BY <2>3, <3>5, <3>6, <3>7
  <2>4. QED  BY <1>5, <2>2, <2>3
<1>8. \A x : Recorded(x)' <=> Recorded(x)  BY <1>5 DEF Recorded, tables
<1>9. \A x : (Expected(x) \/ x \in FilesIn(q.drafts)) => Expected(x)'
  <2>1. \A x \in FilesIn(q.drafts) : Expected(x)'
    BY <1>3, <1>5 DEF Expected, Working, FilesIn
  <2>2. SUFFICES ASSUME NEW x, Expected(x) PROVE Expected(x)'  BY <2>1
  <2>3. PICK o \in Request : Working(req[o]) /\ x \in FilesIn(req[o].drafts)
    BY <2>2 DEF Expected
  <2>4. CASE o = r  BY <1>2, <1>7, <2>1, <2>3, <2>4
  <2>5. CASE o # r
    <3>1. req'[o] = req[o]  BY <1>5, <2>5 DEF Others
    <3>2. QED  BY <2>3, <3>1 DEF Expected, Working, FilesIn
  <2>6. QED  BY <2>4, <2>5
<1>10. AllListed'  BY <1>1, <1>5, <1>7, <1>8, <1>9 DEF AllListed, tables
<1>11. RowLinks'  BY <1>1, <1>5 DEF RowLinks, tables
<1>12. LinksStored'
  <2>1. SUFFICES ASSUME NEW o \in Request, req'[o] \in Upload, NEW j \in DOMAIN req'[o].drafts,
                        req'[o].drafts[j].url
                 PROVE  req'[o].drafts[j].file \in objects'
    BY DEF LinksStored
  <2>2. CASE o = r  BY <1>3, <1>7, <2>1, <2>2
  <2>3. CASE o # r  BY <1>1, <1>5, <2>1, <2>3 DEF Others, LinksStored
  <2>4. QED  BY <2>2, <2>3
<1>13. QED  BY <1>10, <1>11, <1>12 DEF Stored

LEMMA StoredSaves ==
  ASSUME Typed, Stored, NEW r \in Request, Save(r)
  PROVE  Stored'
<1>1. TypeOK /\ AllListed /\ RowLinks /\ LinksStored  BY DEF Typed, Stored
<1>2. PICK ds : ds = req[r].drafts  OBVIOUS
<1>3. /\ req[r] \in Upload /\ req'[r] \in Upload /\ Others(r)
      /\ req'[r].drafts = ds
      /\ \A i \in DOMAIN records : i \in DOMAIN records' /\ records'[i] = records[i]
      /\ \A i \in DOMAIN records' \ DOMAIN records :
           \E j \in DOMAIN ds : records'[i].file = ds[j].file /\ records'[i].url = ds[j].url
      /\ \A f \in FilesIn(ds) : Recorded(f)' \/ f \in unsaved'
      /\ unsaved \subseteq unsaved' /\ spent'.faults = spent.faults
  BY <1>1, <1>2, SaveStep
<1>4. UNCHANGED objects  BY DEF Save
<1>5. \A f : Recorded(f) => Recorded(f)'  BY <1>3 DEF Recorded
<1>6. \A f : Expected(f) => Recorded(f)' \/ f \in unsaved' \/ Expected(f)'
  <2>1. SUFFICES ASSUME NEW f, Expected(f) PROVE Recorded(f)' \/ f \in unsaved' \/ Expected(f)'
    OBVIOUS
  <2>2. PICK o \in Request : Working(req[o]) /\ f \in FilesIn(req[o].drafts)
    BY <2>1 DEF Expected
  <2>3. CASE o = r  BY <1>2, <1>3, <2>2, <2>3
  <2>4. CASE o # r
    <3>1. req'[o] = req[o]  BY <1>3, <2>4 DEF Others
    <3>2. Expected(f)'  BY <2>2, <3>1 DEF Expected, Working, FilesIn
    <3>3. QED  BY <3>2
  <2>5. QED  BY <2>3, <2>4
<1>7. AllListed'  BY <1>1, <1>3, <1>4, <1>5, <1>6 DEF AllListed
<1>8. \A j \in DOMAIN ds : ds[j].url => ds[j].file \in objects
  BY <1>1, <1>2, <1>3 DEF LinksStored
<1>9. RowLinks'
  <2>1. SUFFICES ASSUME NEW i \in DOMAIN records', records'[i].url
                 PROVE  records'[i].file \in objects
    BY <1>4 DEF RowLinks
  <2>2. CASE i \in DOMAIN records  BY <1>1, <1>3, <2>1, <2>2 DEF RowLinks
  <2>3. CASE i \notin DOMAIN records  BY <1>3, <1>8, <2>1, <2>3
  <2>4. QED  BY <2>2, <2>3
<1>10. LinksStored'
  <2>1. SUFFICES ASSUME NEW o \in Request, req'[o] \in Upload, NEW j \in DOMAIN req'[o].drafts,
                        req'[o].drafts[j].url
                 PROVE  req'[o].drafts[j].file \in objects
    BY <1>4 DEF LinksStored
  <2>2. CASE o = r  BY <1>3, <1>8, <2>1, <2>2
  <2>3. CASE o # r  BY <1>1, <1>3, <2>1, <2>3 DEF Others, LinksStored
  <2>4. QED  BY <2>2, <2>3
<1>11. QED  BY <1>7, <1>9, <1>10 DEF Stored

LEMMA StoredResends ==
  ASSUME Typed, Stored, NEW r \in Request, CommitResend(r)
  PROVE  Stored'
<1>1. TypeOK /\ RowsKnown /\ AllListed /\ RowLinks /\ LinksStored  BY DEF Typed, Stored
<1>2. req[r].id \in DOMAIN records  BY <1>1 DEF RowsKnown, CommitResend
<1>3. /\ req[r] \in Resend /\ req'[r] = Idle /\ Others(r)
      /\ DOMAIN records' = DOMAIN records
      /\ \A i \in DOMAIN records :
           records'[i].file = records[i].file /\ records'[i].url = records[i].url
  BY <1>1, <1>2, CommitResendStep
<1>4. UNCHANGED <<unsaved, objects, spent>>  BY DEF CommitResend
<1>5. \A f : Recorded(f) => Recorded(f)'  BY <1>3 DEF Recorded
<1>6. \A f : Expected(f) => Expected(f)'
  <2>1. SUFFICES ASSUME NEW f, Expected(f) PROVE Expected(f)'  OBVIOUS
  <2>2. PICK o \in Request : Working(req[o]) /\ f \in FilesIn(req[o].drafts)
    BY <2>1 DEF Expected
  <2>3. o # r  BY <2>2 DEF CommitResend, Working
  <2>4. req'[o] = req[o]  BY <1>3, <2>3 DEF Others
  <2>5. QED  BY <2>2, <2>4 DEF Expected, Working, FilesIn
<1>7. AllListed'  BY <1>1, <1>4, <1>5, <1>6 DEF AllListed
<1>8. RowLinks'  BY <1>1, <1>3, <1>4 DEF RowLinks
<1>9. LinksStored'
  BY <1>1, <1>3, <1>4 DEF LinksStored, Others, Idle, Upload
<1>10. QED  BY <1>7, <1>8, <1>9 DEF Stored

LEMMA StoredNext == Typed /\ Stored /\ [Next]_vars => Stored'
<1> SUFFICES ASSUME Typed, Stored, [Next]_vars PROVE Stored'  OBVIOUS
<1>1. TypeOK /\ AllListed /\ RowLinks /\ LinksStored /\ spent.faults \in Nat
  BY SpentTyped DEF Typed, Stored
<1>2. ASSUME NEW s \in Script, Alone(s) PROVE Stored'
  <2>1. UNCHANGED <<req, tables, objects>> /\ SpentOK(spent') /\ spent'.faults >= spent.faults
        /\ UNCHANGED setting
    BY <1>2, ScriptLeaves
  <2>2. spent'.faults \in Nat  BY <1>1, <2>1, SpentTyped DEF SpentOK, Setting
  <2>3. spent'.faults = 0 => spent.faults = 0  BY <1>1, <2>1, <2>2
  <2>4. QED  BY <2>1, <2>3, StoreKept DEF tables
<1>3. ASSUME NEW s \in Script, Post(s) PROVE Stored'
  <2>1. PICK r \in Request :
          req[r] = Idle /\ req'[r] \in Upload /\ Others(r) /\ req'[r].drafts = <<>>
    BY <1>3, PostStep
  <2>2. UNCHANGED <<tables, objects, spent>>  BY <1>3 DEF Post
  <2>3. \A q \in Request : Working(req[q]) => req'[q] = req[q]
    BY <2>1 DEF Others, Working, Idle
  <2>4. \A q \in Request : req'[q] = req[q] \/ \A j \in DOMAIN req'[q].drafts : ~req'[q].drafts[j].url
    BY <2>1 DEF Others
  <2>5. QED  BY <2>2, <2>3, <2>4, StoreKept DEF tables
<1>4. ASSUME NEW r \in Request, LooseUpload(r) \/ LooseTaxForm(r) PROVE Stored'
  <2>1. /\ req[r] = Idle /\ Others(r) /\ spent'.faults = spent.faults
        /\ \A j \in DOMAIN req'[r].drafts : ~req'[r].drafts[j].url
        /\ UNCHANGED <<tables, objects>>
    BY <1>1, <1>4, LooseStep
  <2>2. \A q \in Request : Working(req[q]) => req'[q] = req[q]
    BY <2>1 DEF Others, Working, Idle
  <2>3. \A q \in Request : req'[q] = req[q] \/ \A j \in DOMAIN req'[q].drafts : ~req'[q].drafts[j].url
    BY <2>1 DEF Others
  <2>4. QED  BY <2>1, <2>2, <2>3, StoreKept DEF tables
<1>5. ASSUME NEW r \in Request, FilesDone(r) \/ Notify(r) PROVE Stored'
  <2>1. /\ req[r] \in Upload /\ Others(r) /\ req'[r].at \in {"notice", "save"}
        /\ req'[r].drafts = req[r].drafts
    BY <1>1, <1>5, FilesDoneStep, NotifyStep
  <2>2. UNCHANGED <<tables, objects>>  BY <1>5 DEF FilesDone, Notify
  <2>3. spent'.faults = spent.faults  BY <1>1, <1>5, NotifyStep DEF FilesDone
  <2>4. QED  BY <2>1, <2>2, <2>3, StoreKept DEF tables, Others, Working
<1>6. ASSUME NEW r \in Request, StartResend(r) PROVE Stored'
  <2>1. req[r] = Idle /\ req'[r] \in Resend /\ Others(r) /\ spent'.faults = spent.faults
    BY <1>1, <1>6, StartResendStep
  <2>2. UNCHANGED <<records, unsaved, objects>>  BY <1>6 DEF StartResend
  <2>3. req'[r] \notin Upload  BY <2>1 DEF Resend, Upload
  <2>4. QED  BY <2>1, <2>2, <2>3, StoreKept DEF Others, Working, Idle
<1>7. ASSUME NEW r \in Request, Reply(r) \/ Die(r) PROVE Stored'
  <2>1. /\ req'[r] = Idle /\ Others(r) /\ UNCHANGED <<tables, objects>>
        /\ Die(r) => spent'.faults > 0
        /\ ~Die(r) => req[r].at = "answer" /\ UNCHANGED spent
    BY <1>1, <1>7, EndStep
  <2>2. req'[r] \notin Upload  BY <2>1 DEF Idle, Upload
  <2>3. CASE Die(r)
    <3>1. spent'.faults # 0  BY <2>1, <2>3
    <3>2. AllListed'  BY <3>1 DEF AllListed
    <3>3. RowLinks'  BY <1>1, <2>1 DEF RowLinks, tables
    <3>4. LinksStored'  BY <1>1, <2>1, <2>2 DEF LinksStored, Others
    <3>5. QED  BY <3>2, <3>3, <3>4 DEF Stored
  <2>4. CASE ~Die(r)
    BY <2>1, <2>2, <2>4, StoreKept DEF tables, Others, Working
  <2>5. QED  BY <2>3, <2>4
<1>8. CASE UNCHANGED vars
  BY <1>8, StoreKept DEF vars, tables, Working
<1>9. QED
  BY <1>2, <1>3, <1>4, <1>5, <1>6, <1>7, <1>8, StoredTakes, StoredSaves, StoredResends
  DEF Next, Main, Serve, Alone

\* As long as nothing dies, each file in the object store has a row, is one whose
\* row could not be saved, or is on its way to one; and a row has a link only if
\* the file is there (upload_files: object first, record last).
THEOREM ObjectsAreListed == Spec => []StoredIsListed
<1>1. Stored => StoredIsListed
  <2>1. SUFFICES ASSUME Stored PROVE StoredIsListed  OBVIOUS
  <2>2. AllListed /\ RowLinks  BY <2>1 DEF Stored
  <2>3. QED  BY <2>2 DEF StoredIsListed, AllListed, RowLinks, Expected, Working
<1>2. QED  BY InitTyped, NextTyped, StoredInit, StoredNext, <1>1, PTL DEF Spec

-----------------------------------------------------------------------------
(* What an upload has taken of its files *)

\* The first n of the files fs are taken: those that are accepted have a draft each,
\* in their order; the others are left.
Placed(fs, n, drafts, p) ==
  /\ \A k \in DOMAIN drafts : Allowed(fs[p[k]]) /\ drafts[k].file = fs[p[k]]
  /\ \A j, k \in DOMAIN drafts : j < k => p[j] < p[k]
  /\ \A i \in 1..n : Allowed(fs[i]) => \E k \in DOMAIN drafts : p[k] = i
Rest(fs, n, left) ==
  Len(left) = Len(fs) - n /\ \A k \in DOMAIN left : left[k] = fs[n + k]
Part(fs, q) ==
  \E n \in 0..Len(fs) : /\ Rest(fs, n, q.left)
                        /\ \E p \in [DOMAIN q.drafts -> 1..n] : Placed(fs, n, q.drafts, p)

LEMMA PartBegins ==
  ASSUME NEW fs \in Seq(File), NEW q, q.left = fs, q.drafts = <<>>
  PROVE  Part(fs, q)
<1>1. 0 \in 0..Len(fs)  OBVIOUS
<1>2. Rest(fs, 0, q.left)  BY DEF Rest
<1>3. \E p \in [DOMAIN q.drafts -> 1..0] : Placed(fs, 0, q.drafts, p)
  <2>1. PICK p : p = [k \in {} |-> 1]  OBVIOUS
  <2>2. DOMAIN q.drafts = {}  OBVIOUS
  <2>3. p \in [DOMAIN q.drafts -> 1..0]  BY <2>1, <2>2
  <2>4. Placed(fs, 0, q.drafts, p)  BY <2>2 DEF Placed
  <2>5. QED  BY <2>3, <2>4
<1>4. QED  BY <1>1, <1>2, <1>3 DEF Part

\* A file that is not accepted is passed over, another one gets a draft.
LEMMA PartTakes ==
  ASSUME NEW fs \in Seq(File), NEW q \in Upload, NEW o \in Upload, q.left # <<>>,
         Part(fs, q), o.left = Tail(q.left),
         \/ o.drafts = q.drafts /\ ~Allowed(q.left[1])
         \/ \E url \in BOOLEAN :
              /\ Allowed(q.left[1])
              /\ o.drafts = Append(q.drafts, [file |-> q.left[1], url |-> url])
  PROVE  Part(fs, o)
<1>1. PICK n \in 0..Len(fs) :
        /\ Rest(fs, n, q.left)
        /\ \E p \in [DOMAIN q.drafts -> 1..n] : Placed(fs, n, q.drafts, p)
  BY DEF Part
<1>2. PICK p \in [DOMAIN q.drafts -> 1..n] : Placed(fs, n, q.drafts, p)  BY <1>1
<1>3. q.left \in Seq(File) /\ q.drafts \in Seq(Draft) /\ o.drafts \in Seq(Draft)
  BY UploadFields
<1>4. PICK left \in Seq(File) : left = q.left /\ left # <<>>  BY <1>3
<1>5. PICK L \in Nat : L = Len(q.drafts)  BY <1>3
<1>6. DOMAIN q.drafts = 1..L  BY <1>3, <1>5
<1>7. n + 1 \in 0..Len(fs) /\ left[1] = fs[n + 1] /\ Len(fs) \in Nat
  BY <1>1, <1>4 DEF Rest
<1>8. Rest(fs, n + 1, o.left)
  <2>1. Tail(left) \in Seq(File) /\ Len(Tail(left)) = Len(left) - 1
        /\ \A k \in 1..Len(left) - 1 : Tail(left)[k] = left[k + 1]
    BY <1>4
  <2>2. \A k \in DOMAIN left : left[k] = fs[n + k]  BY <1>1, <1>4 DEF Rest
  <2>3. Len(left) = Len(fs) - n  BY <1>1, <1>4 DEF Rest
  <2>4. ASSUME NEW k \in DOMAIN Tail(left) PROVE Tail(left)[k] = fs[n + 1 + k]
    <3>1. k \in 1..Len(left) - 1 /\ k + 1 \in DOMAIN left /\ k \in Nat  BY <2>1, <1>4
    <3>2. Tail(left)[k] = fs[n + (k + 1)]  BY <2>1, <2>2, <3>1
    <3>3. n + (k + 1) = n + 1 + k  BY <3>1
    <3>4. QED  BY <3>2, <3>3
  <2>5. Len(Tail(left)) = Len(fs) - (n + 1)  BY <2>1, <2>3, <1>7
  <2>6. QED  BY <1>4, <2>4, <2>5 DEF Rest
<1>9. \E x \in [DOMAIN o.drafts -> 1..n + 1] : Placed(fs, n + 1, o.drafts, x)
  <2>1. CASE o.drafts = q.drafts /\ ~Allowed(left[1])
    <3>1. p \in [DOMAIN o.drafts -> 1..n + 1]  BY <2>1
    <3>2. Placed(fs, n + 1, o.drafts, p)
      <4>1. \A i \in 1..n + 1 : i \in 1..n \/ i = n + 1  OBVIOUS
      <4>2. QED  BY <1>2, <1>7, <2>1, <4>1 DEF Placed
    <3>3. QED  BY <3>1, <3>2
  <2>2. ASSUME NEW url \in BOOLEAN, Allowed(left[1]),
               o.drafts = Append(q.drafts, [file |-> left[1], url |-> url])
        PROVE  \E x \in [DOMAIN o.drafts -> 1..n + 1] : Placed(fs, n + 1, o.drafts, x)
    <3>1. PICK d : d = [file |-> left[1], url |-> url]  OBVIOUS
    <3>2. d.file = left[1] /\ o.drafts = Append(q.drafts, d)  BY <2>2, <3>1
    <3>3. /\ DOMAIN o.drafts = 1..L + 1 /\ o.drafts[L + 1] = d
          /\ \A k \in 1..L : o.drafts[k] = q.drafts[k]
      BY <1>3, <1>5, <3>2
    <3>4. PICK x : x = [k \in 1..L + 1 |-> IF k = L + 1 THEN n + 1 ELSE p[k]]  OBVIOUS
    <3>5. \A k \in 1..L : x[k] = p[k] /\ p[k] \in 1..n /\ k \in 1..L + 1  BY <1>6, <3>4
    <3>6. x[L + 1] = n + 1  BY <3>4
    <3>7. \A k \in 1..L + 1 : k \in 1..L \/ k = L + 1  OBVIOUS
    <3>8. x \in [1..L + 1 -> 1..n + 1]
      <4>1. \A k \in 1..L + 1 : x[k] \in 1..n + 1  BY <3>5, <3>6, <3>7
      <4>2. QED  BY <3>4, <4>1
    <3>9. \A k \in 1..L + 1 : Allowed(fs[x[k]]) /\ o.drafts[k].file = fs[x[k]]
      <4>1. \A k \in 1..L : Allowed(fs[p[k]]) /\ q.drafts[k].file = fs[p[k]]
        BY <1>2, <1>6 DEF Placed
      <4>2. QED  BY <1>7, <2>2, <3>2, <3>3, <3>5, <3>6, <3>7, <4>1
    <3>10. \A j, k \in 1..L + 1 : j < k => x[j] < x[k]
      <4>1. \A j, k \in 1..L : j < k => p[j] < p[k]  BY <1>2, <1>6 DEF Placed
      <4>2. \A j, k \in 1..L + 1 : j < k => j \in 1..L  OBVIOUS
      <4>3. \A j \in 1..L : x[j] < n + 1  BY <3>5
      <4>4. QED  BY <3>5, <3>6, <3>7, <4>1, <4>2, <4>3
    <3>11. \A i \in 1..n + 1 : Allowed(fs[i]) => \E k \in 1..L + 1 : x[k] = i
      <4>1. \A i \in 1..n : Allowed(fs[i]) => \E k \in 1..L : p[k] = i
        BY <1>2, <1>6 DEF Placed
      <4>2. \A i \in 1..n + 1 : i \in 1..n \/ i = n + 1  OBVIOUS
      <4>3. L + 1 \in 1..L + 1  OBVIOUS
      <4>4. QED  BY <3>5, <3>6, <4>1, <4>2, <4>3
    <3>12. Placed(fs, n + 1, o.drafts, x)  BY <3>3, <3>9, <3>10, <3>11 DEF Placed
    <3>13. QED  BY <3>3, <3>8, <3>12
  <2>3. QED  BY <1>4, <2>1, <2>2
<1>10. QED  BY <1>7, <1>8, <1>9 DEF Part

\* At the end the message is about what it is to be about, and the drafts are of the
\* files of the upload.
LEMMA PartEnds ==
  ASSUME NEW fs \in Seq(File), NEW q \in Upload, q.left = <<>>, Part(fs, q)
  PROVE  /\ Announced(fs) \subseteq Named(Processed(q))
         /\ \A f \in FilesIn(q.drafts) : Allowed(f) /\ f \in {fs[i] : i \in DOMAIN fs}
<1>1. PICK n \in 0..Len(fs) :
        /\ Rest(fs, n, q.left)
        /\ \E p \in [DOMAIN q.drafts -> 1..n] : Placed(fs, n, q.drafts, p)
  BY DEF Part
<1>2. PICK p \in [DOMAIN q.drafts -> 1..n] : Placed(fs, n, q.drafts, p)  BY <1>1
<1>3. q.drafts \in Seq(Draft)  BY UploadFields
<1>4. PICK L \in Nat : L = Len(q.drafts)  BY <1>3
<1>5. DOMAIN q.drafts = 1..L  BY <1>3, <1>4
<1>6. n = Len(fs) /\ DOMAIN fs = 1..n  BY <1>1 DEF Rest
<1>7. /\ \A k \in 1..L : /\ p[k] \in 1..n /\ Allowed(fs[p[k]])
                         /\ q.drafts[k].file = fs[p[k]]
      /\ \A j, k \in 1..L : j < k => p[j] < p[k]
      /\ \A i \in 1..n : Allowed(fs[i]) => \E k \in 1..L : p[k] = i
  BY <1>2, <1>5 DEF Placed
<1>8. PICK ps : ps = Processed(q)  OBVIOUS
<1>9. DOMAIN ps = 1..L /\ \A k \in 1..L : ps[k] = fs[p[k]]
  BY <1>5, <1>7, <1>8 DEF Processed
<1> DEFINE taken == {i \in DOMAIN fs : Allowed(fs[i])}
           taxes == {i \in taken : Kind[fs[i]] = "tax"}
           first == {j \in taken : Cardinality({i \in taken : i <= j}) <= Listed}
           forms == {i \in DOMAIN ps : Kind[ps[i]] = "tax"}
<1>10. \A i : i \in taken <=> i \in 1..n /\ Allowed(fs[i])  BY <1>6
<1>11. \A k \in 1..L : p[k] \in taken /\ (k \in forms <=> p[k] \in taxes)
  BY <1>7, <1>9, <1>10
<1>12. \A i \in taken : \E k \in 1..L : p[k] = i  BY <1>7, <1>10
<1>13. Announced(fs) =
         IF taxes # {} THEN {fs[i] : i \in {j \in taxes : \A k \in taxes : j <= k}}
         ELSE {fs[i] : i \in first}
  BY Zenon DEF Announced
<1>14. Named(ps) = IF forms # {} THEN {ps[i] : i \in {j \in forms : \A k \in forms : j <= k}}
                   ELSE {ps[i] : i \in {j \in DOMAIN ps : j <= Listed}}
  BY DEF Named
<1>15. taken \subseteq 1..n /\ taxes \subseteq taken /\ forms \subseteq 1..L
  BY <1>9, <1>10
<1> HIDE DEF taxes, forms
<1> HIDE DEF taken
<1>16. \A j \in first : j \in taken /\ Cardinality({i \in taken : i <= j}) <= Listed
  OBVIOUS
<1> HIDE DEF first
<1>17. ASSUME taxes # {} PROVE Announced(fs) \subseteq Named(ps)
  <2>1. forms # {}  BY <1>11, <1>12, <1>15, <1>17
  <2>2. SUFFICES ASSUME NEW j \in taxes, \A i \in taxes : j <= i
                 PROVE  fs[j] \in Named(ps)
    BY <1>13, <1>17
  <2>3. PICK k \in 1..L : p[k] = j  BY <1>12, <1>15
  <2>4. k \in forms  BY <1>11, <2>3
  <2>5. ASSUME NEW x \in forms PROVE k <= x
    <3>1. x \in 1..L /\ p[x] \in taxes  BY <1>11, <1>15
    <3>2. p[k] <= p[x]  BY <2>2, <2>3, <3>1
    <3>3. p[k] \in Nat /\ p[x] \in Nat  BY <1>7, <3>1
    <3>4. ~(p[x] < p[k])  BY <3>2, <3>3
    <3>5. ~(x < k)  BY <1>7, <3>1, <3>4
    <3>6. QED  BY <3>1, <3>5
  <2>6. ps[k] = fs[j]  BY <1>9, <2>3
  <2>7. QED  BY <1>14, <2>1, <2>4, <2>5, <2>6
<1>18. ASSUME taxes = {} PROVE Announced(fs) \subseteq Named(ps)
  <2>1. forms = {}  BY <1>11, <1>15, <1>18
  <2>2. SUFFICES ASSUME NEW j \in first PROVE fs[j] \in Named(ps)
    BY <1>13, <1>18
  <2>3. PICK k \in 1..L : p[k] = j  BY <1>12, <1>16
  <2>4. PICK T : T = {i \in taken : i <= j}  OBVIOUS
  <2>5. IsFiniteSet(T)
    <3>1. IsFiniteSet(1..n)  BY FS_Interval
    <3>2. T \in SUBSET (1..n)  BY <1>15, <2>4
    <3>3. QED  BY <3>1, <3>2, FS_Subset
  <2>6. PICK g : g = [x \in 1..k |-> p[x]]  OBVIOUS
  <2>7. g \in Injection(1..k, T)
    <3>1. \A x \in 1..k : x \in 1..L /\ x <= k  OBVIOUS
    <3>2. \A x \in 1..k : p[x] \in taken /\ p[x] <= p[k]
      <4>1. SUFFICES ASSUME NEW x \in 1..k PROVE p[x] \in taken /\ p[x] <= p[k]  OBVIOUS
      <4>2. p[x] \in taken /\ p[x] \in Nat /\ p[k] \in Nat  BY <1>7, <1>11, <3>1
      <4>3. CASE x = k  BY <4>2, <4>3
      <4>4. CASE x < k  BY <1>7, <3>1, <4>2, <4>4
      <4>5. QED  BY <4>3, <4>4
    <3>3. g \in [1..k -> T]  BY <2>3, <2>4, <2>6, <3>2
    <3>4. \A x, y \in 1..k : g[x] = g[y] => x = y
      <4>1. SUFFICES ASSUME NEW x \in 1..k, NEW y \in 1..k, p[x] = p[y] PROVE x = y
        BY <2>6
      <4>2. x \in 1..L /\ y \in 1..L /\ p[x] \in Nat /\ p[y] \in Nat  BY <1>7, <3>1
      <4>3. ~(x < y) /\ ~(y < x)  BY <1>7, <4>1, <4>2
      <4>4. QED  BY <4>2, <4>3
    <3>5. QED  BY <3>3, <3>4 DEF Injection, IsInjective
  <2>8. Cardinality(1..k) <= Cardinality(T)  BY <2>5, <2>7, FS_Injection
  <2>9. Cardinality(1..k) = k  BY FS_Interval
  <2>10. Cardinality(T) \in Nat  BY <2>5, FS_CardinalityType
  <2>11. Listed \in Nat  BY UploadConstants
  <2>12. Cardinality(T) <= Listed  BY <1>16, <2>4
  <2>13. k <= Listed  BY <2>8, <2>9, <2>10, <2>11, <2>12
  <2>14. ps[k] = fs[j]  BY <1>9, <2>3
  <2>15. QED  BY <1>9, <1>14, <2>1, <2>13, <2>14
<1>19. \A f \in FilesIn(q.drafts) : Allowed(f) /\ f \in {fs[i] : i \in DOMAIN fs}
  BY <1>5, <1>6, <1>7 DEF FilesIn
<1>20. QED  BY <1>8, <1>17, <1>18, <1>19

\* The one file of an upload of another client is named.
LEMMA AnnouncedAlone ==
  ASSUME NEW f \in File, Allowed(f)
  PROVE  f \in Announced(<<f>>)
<1>1. PICK fs : fs = <<f>>  OBVIOUS
<1>2. DOMAIN fs = {1} /\ fs[1] = f  BY <1>1
<1>3. {i \in DOMAIN fs : Allowed(fs[i])} = {1}  BY <1>2
<1>4. {k \in {1} : k <= 1} = {1}  OBVIOUS
<1>5. Cardinality({1}) = 1  BY FS_Singleton
<1>6. Listed \in Nat \ {0}  BY UploadConstants
<1>7. Cardinality({k \in {1} : k <= 1}) <= Listed  BY <1>4, <1>5, <1>6
<1>8. Announced(fs) = IF {i \in {1} : Kind[fs[i]] = "tax"} # {}
                      THEN {fs[i] : i \in {j \in {i \in {1} : Kind[fs[i]] = "tax"} :
                                             \A k \in {i \in {1} : Kind[fs[i]] = "tax"} : j <= k}}
                      ELSE {fs[i] : i \in {j \in {1} : Cardinality({k \in {1} : k <= j}) <= Listed}}
  BY <1>3 DEF Announced
<1>9. f \in Announced(fs)
  <2>1. CASE Kind[fs[1]] = "tax"
    <3>1. {i \in {1} : Kind[fs[i]] = "tax"} = {1}  BY <2>1
    <3>2. QED  BY <1>2, <1>8, <3>1
  <2>2. CASE Kind[fs[1]] # "tax"
    <3>1. {i \in {1} : Kind[fs[i]] = "tax"} = {}  BY <2>2
    <3>2. 1 \in {j \in {1} : Cardinality({k \in {1} : k <= j}) <= Listed}  BY <1>7
    <3>3. QED  BY <1>2, <1>8, <3>1, <3>2
  <2>3. QED  BY <2>1, <2>2
<1>10. QED  BY <1>1, <1>9

LEMMA PartSame ==
  ASSUME NEW fs, NEW q, NEW o, Part(fs, q), o.left = q.left, o.drafts = q.drafts
  PROVE  Part(fs, o)
BY DEF Part

LEMMA PartWhole ==
  ASSUME NEW f \in File, NEW q, q.left = <<>>, Allowed(f),
         NEW url, q.drafts = <<[file |-> f, url |-> url]>>
  PROVE  Part(<<f>>, q)
<1>1. PICK fs : fs = <<f>>  OBVIOUS
<1>2. Len(fs) = 1 /\ fs[1] = f  BY <1>1
<1>3. PICK d : d = [file |-> f, url |-> url]  OBVIOUS
<1>4. d.file = f /\ q.drafts = <<d>>  BY <1>3
<1>5. DOMAIN q.drafts = 1..1 /\ q.drafts[1] = d  BY <1>4
<1>6. PICK p : p = [k \in 1..1 |-> 1]  OBVIOUS
<1>7. p \in [DOMAIN q.drafts -> 1..1] /\ p[1] = 1  BY <1>5, <1>6
<1>8. \A k \in 1..1 : k = 1  OBVIOUS
<1>9. Placed(fs, 1, q.drafts, p)  BY <1>2, <1>4, <1>5, <1>7, <1>8 DEF Placed
<1>10. Rest(fs, 1, q.left)  BY <1>2 DEF Rest
<1>11. 1 \in 0..Len(fs)  BY <1>2
<1>12. Part(fs, q)  BY <1>7, <1>9, <1>10, <1>11 DEF Part
<1>13. QED  BY <1>1, <1>12

\* What other clients upload is one file, of which the request has all.
LEMMA FreshParts ==
  ASSUME NEW f \in Loose, NEW q, Fresh(f, q), Working(q)
  PROVE  Part(<<f>>, q)
<1>1. f \in File  BY UploadConstants
<1>2. CASE q.at = "files" /\ q.left = <<f>> /\ q.drafts = <<>>
  <2>1. PICK fs : fs = <<f>>  OBVIOUS
  <2>2. fs \in Seq(File) /\ q.left = fs  BY <1>1, <1>2, <2>1
  <2>3. Part(fs, q)  BY <1>2, <2>2, PartBegins
  <2>4. QED  BY <2>1, <2>3
<1>3. CASE /\ q.left = <<>> /\ Allowed(f)
           /\ q.drafts = <<[file |-> f, url |-> FALSE]>>
  BY <1>1, <1>3, PartWhole
<1>4. QED  BY <1>2, <1>3 DEF Fresh, Working

-----------------------------------------------------------------------------
(* What a record says of its message *)

Batches == {Files[m] : m \in Mail} \cup {<<f>> : f \in Loose}

\* With the messages about ts, the group knows of f.
ToldBy(f, ts) ==
  f \in ts \/ \E m \in Mail : f \in Contents(m) /\ Announced(Files[m]) \subseteq ts

\* An upload that has come to "success" has told of what its drafts are about.
UploadTrue(q, ts) ==
  Working(q) => /\ \E fs \in Batches : Part(fs, q)
                /\ q.status = "success" =>
                     q.at = "save" /\ \A f \in FilesIn(q.drafts) : ToldBy(f, ts)

UploadsTrue == \A r \in Request : UploadTrue(req[r], told)
ResendsTrue ==
  \A r \in Request : Resending(r) /\ req[r].status = "success" =>
    records[req[r].id].file \in told
RowsTrue == \A i \in DOMAIN records : records[i].status = "success" => ToldBy(records[i].file, told)
Truthful == UploadsTrue /\ ResendsTrue /\ RowsTrue

LEMMA BatchesTyped ==
  ASSUME NEW fs \in Batches
  PROVE  fs \in Seq(File)
<1>1. \A m \in Mail : Files[m] \in Seq(File)  BY UploadConstants
<1>2. \A f \in Loose : <<f>> \in Seq(File)  BY UploadConstants
<1>3. QED  BY <1>1, <1>2 DEF Batches

\* A message that names what it is to name tells of each file of the upload.
LEMMA MessageTells ==
  ASSUME NEW fs \in Batches, NEW ts, Announced(fs) \subseteq ts,
         NEW f, Allowed(f), f \in {fs[i] : i \in DOMAIN fs}
  PROVE  ToldBy(f, ts)
<1>1. CASE fs \in {Files[m] : m \in Mail}
  <2>1. PICK m \in Mail : fs = Files[m]  BY <1>1
  <2>2. f \in Contents(m)  BY <2>1 DEF Contents
  <2>3. QED  BY <2>1, <2>2 DEF ToldBy
<1>2. CASE fs \in {<<g>> : g \in Loose}
  <2>1. PICK g \in Loose : fs = <<g>>  BY <1>2
  <2>2. f = g /\ f \in File  BY <2>1, UploadConstants
  <2>3. f \in Announced(fs)  BY <2>1, <2>2, AnnouncedAlone
  <2>4. QED  BY <2>3 DEF ToldBy
<1>3. QED  BY <1>1, <1>2 DEF Batches

LEMMA ToldGrows ==
  ASSUME NEW ts, NEW us, ts \subseteq us
  PROVE  /\ \A f : ToldBy(f, ts) => ToldBy(f, us)
         /\ \A q : UploadTrue(q, ts) => UploadTrue(q, us)
<1>1. \A f : ToldBy(f, ts) => ToldBy(f, us)  BY DEF ToldBy
<1>2. \A q : UploadTrue(q, ts) => UploadTrue(q, us)  BY <1>1 DEF UploadTrue
<1>3. QED  BY <1>1, <1>2

LEMMA TruthfulInit == Init => Truthful
<1> SUFFICES ASSUME Init PROVE Truthful  OBVIOUS
<1>1. RowsTrue  BY DEF Init, RowsTrue
<1>2. UploadsTrue  BY DEF Init, UploadsTrue, UploadTrue, Working, Idle
<1>3. ResendsTrue  BY DEF Init, ResendsTrue, Resending, Idle
<1>4. QED  BY <1>1, <1>2, <1>3 DEF Truthful

\* A step of one request that writes no row.
LEMMA TruthKept ==
  ASSUME Truthful, NEW r \in Request, Others(r), UNCHANGED records, told \subseteq told',
         UploadTrue(req'[r], told'),
         req'[r].at = "resend" /\ req'[r].status = "success" =>
           records[req'[r].id].file \in told'
  PROVE  Truthful'
<1>1. \A f : ToldBy(f, told) => ToldBy(f, told')  BY ToldGrows
<1>2. \A q : UploadTrue(q, told) => UploadTrue(q, told')  BY ToldGrows
<1>3. RowsTrue'  BY <1>1 DEF Truthful, RowsTrue
<1>4. UploadsTrue'  BY <1>2 DEF Truthful, UploadsTrue, Others
<1>5. ResendsTrue'  BY DEF Truthful, ResendsTrue, Resending, Others
<1>6. QED  BY <1>3, <1>4, <1>5 DEF Truthful

LEMMA TruthfulNext == Typed /\ FilesOver /\ Truthful /\ [Next]_vars => Truthful'
<1> SUFFICES ASSUME Typed, FilesOver, Truthful, [Next]_vars PROVE Truthful'  OBVIOUS
<1>1. TypeOK /\ RowsKnown /\ UploadsTrue /\ ResendsTrue /\ RowsTrue
  BY DEF Typed, Truthful
<1>2. None # "success"  BY UploadConstants
<1>3. ASSUME NEW s \in Script, Alone(s) PROVE Truthful'
  <2>1. UNCHANGED <<req, records, told>>  BY <1>3, ScriptLeaves DEF tables
  <2>2. QED  BY <1>1, <2>1 DEF Truthful, UploadsTrue, ResendsTrue, RowsTrue, Resending
<1>4. ASSUME NEW s \in Script, Post(s) PROVE Truthful'
  <2>1. PICK m \in Mail, r \in Request :
          /\ req'[r] \in Upload /\ Others(r) /\ req'[r].drafts = <<>>
          /\ req'[r].left = Files[m] /\ req'[r].status = "skipped"
    BY <1>4, PostStep
  <2>2. UNCHANGED <<records, told>>  BY <1>4 DEF Post, tables
  <2>3. Files[m] \in Seq(File) /\ Files[m] \in Batches  BY UploadConstants DEF Batches
  <2>4. Part(Files[m], req'[r])  BY <2>1, <2>3, PartBegins
  <2>5. UploadTrue(req'[r], told')  BY <2>1, <2>3, <2>4 DEF UploadTrue
  <2>6. req'[r].at # "resend"  BY <2>1 DEF Upload
  <2>7. QED  BY <2>1, <2>2, <2>5, <2>6, TruthKept
<1>5. ASSUME NEW r \in Request, TakeFile(r) PROVE Truthful'
  <2>1. PICK q : q = req[r]  OBVIOUS
  <2>2. PICK o : o = req'[r]  OBVIOUS
  <2>3. /\ q \in Upload /\ o \in Upload /\ Others(r) /\ q.at = "files" /\ q.left # <<>>
        /\ o.at = "files" /\ o.left = Tail(q.left) /\ o.status = q.status
        /\ \/ o.drafts = q.drafts /\ ~Allowed(q.left[1])
           \/ \E url \in BOOLEAN :
                /\ Allowed(q.left[1])
                /\ o.drafts = Append(q.drafts, [file |-> q.left[1], url |-> url])
        /\ UNCHANGED <<records, told>>
    BY <1>1, <1>5, <2>1, <2>2, TakeFileStep DEF tables
  <2>4. UploadTrue(q, told)  BY <1>1, <2>1 DEF UploadsTrue
  <2>5. PICK fs \in Batches : Part(fs, q)  BY <2>3, <2>4 DEF UploadTrue, Working
  <2>6. q.status # "success"  BY <2>3, <2>4 DEF UploadTrue, Working
  <2>7. fs \in Seq(File)  BY BatchesTyped
  <2>8. Part(fs, o)  BY <2>3, <2>5, <2>7, PartTakes
  <2>9. UploadTrue(o, told')  BY <2>3, <2>5, <2>6, <2>8 DEF UploadTrue
  <2>10. QED  BY <2>2, <2>3, <2>9, TruthKept
<1>6. ASSUME NEW r \in Request, FilesDone(r) PROVE Truthful'
  <2>1. /\ req[r] \in Upload /\ req'[r] \in Upload /\ Others(r)
        /\ req[r].at = "files" /\ req'[r].left = req[r].left
        /\ req'[r].drafts = req[r].drafts /\ req'[r].status = req[r].status
    BY <1>1, <1>6, FilesDoneStep
  <2>2. UNCHANGED <<records, told>>  BY <1>6 DEF FilesDone, tables
  <2>3. UploadTrue(req[r], told)  BY <1>1 DEF UploadsTrue
  <2>4. PICK fs \in Batches : Part(fs, req[r])  BY <2>1, <2>3 DEF UploadTrue, Working
  <2>5. req[r].status # "success"  BY <2>1, <2>3 DEF UploadTrue, Working
  <2>6. Part(fs, req'[r])  BY <2>1, <2>4, PartSame
  <2>7. UploadTrue(req'[r], told')  BY <2>1, <2>4, <2>5, <2>6 DEF UploadTrue
  <2>8. req'[r].at # "resend"  BY <2>1 DEF Upload
  <2>9. QED  BY <2>1, <2>2, <2>7, <2>8, TruthKept
<1>7. ASSUME NEW r \in Request, Notify(r) PROVE Truthful'
  <2>1. /\ req[r] \in Upload /\ req'[r] \in Upload /\ Others(r)
        /\ req[r].at = "notice" /\ req'[r].at = "save"
        /\ req'[r].drafts = req[r].drafts /\ req'[r].left = req[r].left
        /\ told \subseteq told'
        /\ req'[r].status = "success" => Named(Processed(req[r])) \subseteq told'
    BY <1>1, <1>7, NotifyStep
  <2>2. UNCHANGED records  BY <1>7 DEF Notify, tables
  <2>3. req[r].left = <<>>  BY <2>1 DEF FilesOver
  <2>4. UploadTrue(req[r], told)  BY <1>1 DEF UploadsTrue
  <2>5. PICK fs \in Batches : Part(fs, req[r])  BY <2>1, <2>4 DEF UploadTrue, Working
  <2>6. fs \in Seq(File)  BY BatchesTyped
  <2>7. /\ Announced(fs) \subseteq Named(Processed(req[r]))
        /\ \A f \in FilesIn(req[r].drafts) : Allowed(f) /\ f \in {fs[i] : i \in DOMAIN fs}
    BY <2>1, <2>3, <2>5, <2>6, PartEnds
  <2>8. ASSUME req'[r].status = "success", NEW f \in FilesIn(req[r].drafts)
        PROVE  ToldBy(f, told')
    <3>1. Announced(fs) \subseteq told'  BY <2>1, <2>7, <2>8
    <3>2. Allowed(f) /\ f \in {fs[i] : i \in DOMAIN fs}  BY <2>7, <2>8
    <3>3. QED  BY <2>5, <3>1, <3>2, MessageTells
  <2>9. Part(fs, req'[r])  BY <2>1, <2>5, PartSame
  <2>10. UploadTrue(req'[r], told')  BY <2>1, <2>5, <2>8, <2>9 DEF UploadTrue
  <2>11. QED  BY <2>1, <2>2, <2>10, TruthKept
<1>8. ASSUME NEW r \in Request, Save(r) PROVE Truthful'
  <2>1. /\ req[r] \in Upload /\ req'[r] \in Upload /\ Others(r)
        /\ req[r].at = "save" /\ req'[r].at = "answer"
        /\ \A i \in DOMAIN records : i \in DOMAIN records' /\ records'[i] = records[i]
        /\ \A i \in DOMAIN records' \ DOMAIN records :
             /\ records'[i].status = req[r].status
             /\ \E j \in DOMAIN req[r].drafts : records'[i].file = req[r].drafts[j].file
    BY <1>1, <1>8, SaveStep
  <2>2. UNCHANGED told  BY <1>8 DEF Save
  <2>3. UploadTrue(req[r], told)  BY <1>1 DEF UploadsTrue
  <2>4. UploadsTrue'
    <3>1. UploadTrue(req'[r], told)  BY <2>1 DEF UploadTrue, Working
    <3>2. QED  BY <1>1, <2>1, <2>2, <3>1 DEF UploadsTrue, Others
  <2>5. ResendsTrue'
    <3>1. SUFFICES ASSUME NEW q \in Request, req'[q].at = "resend", req'[q].status = "success"
                   PROVE  records'[req'[q].id].file \in told
      BY <2>2 DEF ResendsTrue, Resending
    <3>2. req'[q] = req[q]  BY <2>1, <3>1 DEF Others
    <3>3. req[q].id \in DOMAIN records  BY <1>1, <3>1, <3>2 DEF RowsKnown
    <3>4. QED  BY <1>1, <2>1, <3>1, <3>2, <3>3 DEF ResendsTrue, Resending
  <2>6. RowsTrue'
    <3>1. SUFFICES ASSUME NEW i \in DOMAIN records', records'[i].status = "success"
                   PROVE  ToldBy(records'[i].file, told)
      BY <2>2 DEF RowsTrue
    <3>2. CASE i \in DOMAIN records  BY <1>1, <2>1, <3>1, <3>2 DEF RowsTrue
    <3>3. CASE i \notin DOMAIN records
      <4>1. req[r].status = "success" /\ records'[i].file \in FilesIn(req[r].drafts)
        BY <2>1, <3>1, <3>3 DEF FilesIn
      <4>2. QED  BY <2>1, <2>3, <4>1 DEF UploadTrue, Working
    <3>4. QED  BY <3>2, <3>3
  <2>7. QED  BY <2>4, <2>5, <2>6 DEF Truthful
<1>9. ASSUME NEW r \in Request, LooseUpload(r) \/ LooseTaxForm(r) PROVE Truthful'
  <2>1. /\ req'[r] \in Upload /\ Others(r) /\ req'[r].status # "success"
        /\ UNCHANGED <<records, told>>
    BY <1>1, <1>2, <1>9, LooseStep DEF tables
  <2>2. PICK f \in Loose : Fresh(f, req'[r])  BY <1>1, <1>9, LooseStep
  <2>3. <<f>> \in Batches  BY DEF Batches
  <2>4. Working(req'[r]) => Part(<<f>>, req'[r])  BY <2>2, FreshParts
  <2>5. PICK fs \in Batches : Working(req'[r]) => Part(fs, req'[r])  BY <2>3, <2>4
  <2>6. UploadTrue(req'[r], told')  BY <2>1, <2>5 DEF UploadTrue
  <2>7. req'[r].at # "resend"  BY <2>1 DEF Upload
  <2>8. QED  BY <2>1, <2>6, <2>7, TruthKept
<1>10. ASSUME NEW r \in Request, StartResend(r) PROVE Truthful'
  <2>1. /\ req'[r] \in Resend /\ Others(r) /\ told \subseteq told'
        /\ req'[r].status = "success" => records[req'[r].id].file \in told'
    BY <1>1, <1>10, StartResendStep
  <2>2. UNCHANGED records  BY <1>10 DEF StartResend, tables
  <2>3. UploadTrue(req'[r], told')  BY <2>1 DEF UploadTrue, Working, Resend
  <2>4. QED  BY <2>1, <2>2, <2>3, TruthKept
<1>11. ASSUME NEW r \in Request, CommitResend(r) PROVE Truthful'
  <2>1. PICK n : n = req[r].id  OBVIOUS
  <2>2. Resending(r) /\ n \in DOMAIN records
    BY <1>1, <1>11, <2>1 DEF RowsKnown, CommitResend, Resending
  <2>3. /\ req'[r] = Idle /\ Others(r) /\ DOMAIN records' = DOMAIN records
        /\ \A i \in DOMAIN records :
             /\ records'[i].file = records[i].file
             /\ i # n => records'[i].status = records[i].status
        /\ records'[n].status \in {records[n].status, req[r].status}
    BY <1>1, <1>11, <2>1, <2>2, CommitResendStep
  <2>4. UNCHANGED told  BY <1>11 DEF CommitResend
  <2>5. UploadsTrue'
    <3>1. UploadTrue(Idle, told)  BY DEF UploadTrue, Working, Idle
    <3>2. QED  BY <1>1, <2>3, <2>4, <3>1 DEF UploadsTrue, Others
  <2>6. ResendsTrue'
    <3>1. SUFFICES ASSUME NEW q \in Request, req'[q].at = "resend", req'[q].status = "success"
                   PROVE  records'[req'[q].id].file \in told
      BY <2>4 DEF ResendsTrue, Resending
    <3>2. req'[q] = req[q]  BY <2>3, <3>1 DEF Others, Idle
    <3>3. req[q].id \in DOMAIN records  BY <1>1, <3>1, <3>2 DEF RowsKnown
    <3>4. QED  BY <1>1, <2>3, <3>1, <3>2, <3>3 DEF ResendsTrue, Resending
  <2>7. RowsTrue'
    <3>1. SUFFICES ASSUME NEW i \in DOMAIN records, records'[i].status = "success"
                   PROVE  ToldBy(records[i].file, told)
      BY <2>3, <2>4 DEF RowsTrue
    <3>2. CASE records[i].status = "success"  BY <1>1, <3>2 DEF RowsTrue
    <3>3. CASE records[i].status # "success"
      <4>1. i = n /\ req[r].status = "success"  BY <2>3, <3>1, <3>3
      <4>2. records[n].file \in told  BY <1>1, <2>1, <2>2, <4>1 DEF ResendsTrue
      <4>3. QED  BY <4>1, <4>2 DEF ToldBy
    <3>4. QED  BY <3>2, <3>3
  <2>8. QED  BY <2>5, <2>6, <2>7 DEF Truthful
<1>12. ASSUME NEW r \in Request, Reply(r) \/ Die(r) PROVE Truthful'
  <2>1. req'[r] = Idle /\ Others(r) /\ UNCHANGED <<records, told>>
    BY <1>1, <1>12, EndStep DEF tables
  <2>2. UploadTrue(req'[r], told')  BY <2>1 DEF UploadTrue, Working, Idle
  <2>3. req'[r].at # "resend"  BY <2>1 DEF Idle
  <2>4. QED  BY <2>1, <2>2, <2>3, TruthKept
<1>13. CASE UNCHANGED vars
  BY <1>1, <1>13 DEF vars, tables, Truthful, UploadsTrue, ResendsTrue, RowsTrue, Resending
<1>14. QED
  BY <1>3, <1>4, <1>5, <1>6, <1>7, <1>8, <1>9, <1>10, <1>11, <1>12, <1>13
  DEF Next, Main, Serve, Alone

\* For any files, however answers of the robot are lost and notices are sent again at
\* the same time: a record that says "success" is about a file that a message in the
\* group names, or its upload had the message that it was to have (upload_files,
\* resend_wechat).
THEOREM SuccessIsTrue == Spec => []SuccessWasTold
<1>1. MailsKept => FilesOver  BY DEF MailsKept
<1>2. Truthful => SuccessWasTold
  BY DEF Truthful, RowsTrue, ToldBy, SuccessWasTold
<1>3. QED
  BY InitTyped, NextTyped, MailsKeptInit, MailsKeptNext, TruthfulInit, TruthfulNext, <1>1, <1>2, PTL
  DEF Spec

-----------------------------------------------------------------------------
(* Files of a mail are recorded once *)

Busy(s) == run[s].at # "off"
OneRuns == \A s, t \in Script : Busy(s) /\ Busy(t) => s = t

\* The execution knows, or will from the answer on its way, that its mail was taken.
Delivered(s) ==
  \/ run[s].at = "accepted"
  \/ /\ run[s].at = "waiting"
     /\ req[run[s].request].at = "answer" /\ req[run[s].request].code = 200
Handled(m) == m \in read \/ \E s \in Script : Delivered(s) /\ run[s].mail = m

\* Rows are about mails that will not be posted again, uploads about the mail of the
\* execution that waits for them, and what is left to do is not done.
RowsHandled ==
  \A i \in DOMAIN records : records[i].file \notin Loose =>
    \E m \in Mail : records[i].file \in Contents(m) /\ Handled(m)
OnlyLoose(q) == \E f \in Loose : Part(<<f>>, q)
Owned ==
  \A r \in Request : Working(req[r]) =>
    OnlyLoose(req[r]) \/ \E s \in Script : run[s].at = "waiting" /\ run[s].request = r
Brings(m, q) ==
  q.at \in {"files", "notice", "save", "answer"} /\ (Working(q) => Part(Files[m], q))
Carrying ==
  \A s \in Script : run[s].at = "waiting" =>
    run[s].request \in Request /\ Brings(run[s].mail, req[run[s].request]) /\ run[s].mail \notin read
ToDo ==
  \A s \in Script : Busy(s) =>
    /\ run[s].todo \cap read = {}
    /\ run[s].at \in {"waiting", "accepted"} => run[s].mail \notin run[s].todo
RowsOnce ==
  \A i, j \in DOMAIN records :
    records[i].file = records[j].file /\ records[i].file \notin Loose => i = j

Orderly == OneRuns /\ RowsHandled /\ Owned /\ Carrying /\ ToDo /\ RowsOnce
Calm == spent.faults = 0 /\ setting.overlap = 1
Once == Calm => Orderly

LEMMA ScriptForms ==
  ASSUME TypeOK, NEW s \in Script
  PROVE  /\ run[s] \in Execution \cup {Off}
         /\ run[s].at \in {"off", "loop", "waiting", "accepted"}
         /\ run[s] = Off <=> run[s].at = "off"
<1>1. run[s] \in Execution \cup {Off}  BY DEF TypeOK
<1>2. \A e \in Execution : e.at \in {"loop", "waiting", "accepted"}  BY DEF Execution
<1>3. Off.at = "off"  BY DEF Off
<1>4. QED  BY <1>1, <1>2, <1>3

LEMMA OnceInit == Init => Once
<1> SUFFICES ASSUME Init PROVE Once  OBVIOUS
<1>1. \A s \in Script : run[s].at = "off"  BY DEF Init, Off
<1>2. \A r \in Request : ~Working(req[r])  BY DEF Init, Working, Idle
<1>3. OneRuns /\ Carrying /\ ToDo  BY <1>1 DEF OneRuns, Carrying, ToDo, Busy
<1>4. RowsHandled /\ RowsOnce  BY DEF Init, RowsHandled, RowsOnce
<1>5. Owned  BY <1>2 DEF Owned
<1>6. QED  BY <1>3, <1>4, <1>5 DEF Once, Orderly

\* Faults are counted, and a deployment stays as it is.
LEMMA CalmBefore ==
  ASSUME Typed, [Next]_vars, Calm'
  PROVE  Calm
<1>1. TypeOK /\ RowsKnown /\ spent.faults \in Nat  BY SpentTyped DEF Typed
<1>2. UNCHANGED setting
  BY DEF Next, Main, Serve, Trigger, Stop, PassOver, SkipMail, Post, MarkRead, TakeFile,
         FilesDone, Notify, Save, Reply, CommitResend, LooseUpload, LooseTaxForm,
         StartResend, Die, GiveUp, Kill, vars
<1>3. spent'.faults = 0 => spent.faults = 0
  <2>1. ASSUME NEW s \in Script, Alone(s) PROVE spent'.faults >= spent.faults
    BY <2>1, ScriptLeaves
  <2>2. ASSUME NEW s \in Script, Post(s) PROVE spent'.faults = spent.faults
    BY <2>2 DEF Post
  <2>3. ASSUME NEW r \in Request, TakeFile(r) \/ Notify(r) \/ Save(r)
        PROVE  spent'.faults = spent.faults
    BY <1>1, <2>3, TakeFileStep, NotifyStep, SaveStep
  <2>4. ASSUME NEW r \in Request, FilesDone(r) \/ CommitResend(r)
        PROVE  spent'.faults = spent.faults
    BY <2>4 DEF FilesDone, CommitResend
  <2>5. ASSUME NEW r \in Request, LooseUpload(r) \/ LooseTaxForm(r) \/ StartResend(r)
        PROVE  spent'.faults = spent.faults
    BY <1>1, <2>5, LooseStep, StartResendStep
  <2>6. ASSUME NEW r \in Request, Reply(r) \/ Die(r)
        PROVE  spent'.faults > 0 \/ spent'.faults = spent.faults
    BY <1>1, <2>6, EndStep
  <2>7. CASE UNCHANGED vars  BY <2>7 DEF vars
  <2>8. QED
    BY <1>1, <2>1, <2>2, <2>3, <2>4, <2>5, <2>6, <2>7 DEF Next, Main, Serve, Alone
<1>4. QED  BY <1>2, <1>3 DEF Calm

\* A step of a request that leaves the mailbox and the files of rows alone, and
\* does not turn into an answer to an execution.
LEMMA OrderKept ==
  ASSUME MailTaken, Orderly, NEW r \in Request, Others(r), UNCHANGED mailbox,
         DOMAIN records' = DOMAIN records,
         \A i \in DOMAIN records : records'[i].file = records[i].file,
         \/ /\ Working(req[r]) /\ Working(req'[r])
            /\ \A fs \in Batches : Part(fs, req[r]) => Part(fs, req'[r])
         \/ /\ req[r].at \in {"idle", "resend"}
            /\ Working(req'[r]) => OnlyLoose(req'[r])
  PROVE  Orderly'
<1>1. OneRuns /\ RowsHandled /\ Owned /\ Carrying /\ ToDo /\ RowsOnce  BY DEF Orderly
<1>2. UNCHANGED <<run, read>>  BY DEF mailbox
<1>3. OneRuns' /\ ToDo'  BY <1>1, <1>2 DEF OneRuns, ToDo, Busy
<1>4. RowsOnce'  BY <1>1 DEF RowsOnce
<1>5. \A s \in Script : run[s].at = "waiting" /\ run[s].request = r =>
        /\ Working(req[r]) /\ Working(req'[r])
        /\ \A fs \in Batches : Part(fs, req[r]) => Part(fs, req'[r])
  BY <1>1 DEF Carrying, Brings
<1>6. ASSUME NEW s \in Script, Delivered(s) PROVE Delivered(s)'
  <2>1. CASE run[s].at = "accepted"  BY <1>2, <2>1 DEF Delivered
  <2>2. CASE run[s].at = "waiting"
    <3>1. req[run[s].request].at = "answer" /\ req[run[s].request].code = 200
      BY <1>6, <2>2 DEF Delivered
    <3>2. run[s].request # r  BY <1>5, <2>2, <3>1 DEF Working
    <3>3. run[s].request \in Request  BY <1>1, <2>2 DEF Carrying
    <3>4. req'[run[s].request] = req[run[s].request]  BY <3>2, <3>3 DEF Others
    <3>5. QED  BY <1>2, <2>2, <3>1, <3>4 DEF Delivered
  <2>3. QED  BY <1>6, <2>1, <2>2 DEF Delivered
<1>7. RowsHandled'
  <2>1. ASSUME NEW m, Handled(m) PROVE Handled(m)'
    BY <1>2, <1>6, <2>1 DEF Handled
  <2>2. SUFFICES ASSUME NEW i \in DOMAIN records, records[i].file \notin Loose
                 PROVE  \E m \in Mail : records[i].file \in Contents(m) /\ Handled(m)'
    BY DEF RowsHandled, Contents
  <2>3. PICK m \in Mail : records[i].file \in Contents(m) /\ Handled(m)
    BY <1>1, <2>2 DEF RowsHandled
  <2>4. QED  BY <2>1, <2>3
<1>8. \A m \in Mail : Files[m] \in Batches  BY DEF Batches
<1>9. \A f \in Loose : <<f>> \in Batches  BY DEF Batches
<1>10. Owned'
  <2>1. SUFFICES ASSUME NEW q \in Request, Working(req'[q])
                 PROVE  OnlyLoose(req'[q]) \/ \E s \in Script : run[s].at = "waiting" /\ run[s].request = q
    BY <1>2 DEF Owned, Working, OnlyLoose
  <2>2. CASE q # r  BY <1>1, <2>1, <2>2 DEF Owned, Others
  <2>3. CASE q = r /\ req[r].at \in {"idle", "resend"}  BY <2>1, <2>3 DEF Working
  <2>4. CASE /\ q = r /\ Working(req[r])
             /\ \A fs \in Batches : Part(fs, req[r]) => Part(fs, req'[r])
    <3>1. OnlyLoose(req[r]) => OnlyLoose(req'[r])  BY <1>9, <2>4 DEF OnlyLoose
    <3>2. QED  BY <1>1, <2>4, <3>1 DEF Owned
  <2>5. QED  BY <2>2, <2>3, <2>4
<1>11. Carrying'
  <2>1. SUFFICES ASSUME NEW s \in Script, run[s].at = "waiting"
                 PROVE  /\ run[s].request \in Request /\ run[s].mail \notin read
                        /\ Brings(run[s].mail, req'[run[s].request])
    BY <1>2 DEF Carrying, Brings, Working
  <2>2. PICK q : q = run[s].request  OBVIOUS
  <2>3. PICK m : m = run[s].mail  OBVIOUS
  <2>4. q \in Request /\ m \notin read /\ Brings(m, req[q])  BY <1>1, <2>1, <2>2, <2>3 DEF Carrying
  <2>5. Brings(m, req'[q])
    <3>1. CASE q # r  BY <2>4, <3>1 DEF Others
    <3>2. CASE q = r
      <4>1. /\ Working(req[r]) /\ Working(req'[r])
            /\ \A fs \in Batches : Part(fs, req[r]) => Part(fs, req'[r])
        BY <1>5, <2>1, <2>2, <3>2
      <4>2. Part(Files[m], req[r])  BY <2>4, <3>2, <4>1 DEF Brings
      <4>3. req'[r].at \in {"files", "notice", "save", "answer"}  BY <4>1 DEF Working
      <4>4. m \in Mail  BY <2>1, <2>3 DEF MailTaken
      <4>5. QED  BY <1>8, <3>2, <4>1, <4>2, <4>3, <4>4 DEF Brings
    <3>3. QED  BY <3>1, <3>2
  <2>6. QED  BY <2>2, <2>3, <2>4, <2>5
<1>12. QED  BY <1>3, <1>4, <1>7, <1>10, <1>11 DEF Orderly

\* A step of the only execution that is not about an answer.
LEMMA OrderTurns ==
  ASSUME Orderly, NEW s \in Script, UNCHANGED <<req, records>>,
         \A x \in Script \ {s} : run'[x] = run[x],
         read \subseteq read', run[s].at # "waiting", run'[s].at # "waiting",
         run[s].at = "accepted" => run[s].mail \in read',
         Busy(s) \/ read' = read,
         \A x \in Script \ {s} : Busy(s)' => ~Busy(x),
         Busy(s)' => /\ run'[s].todo \cap read' = {}
                     /\ run'[s].at = "accepted" => run'[s].mail \notin run'[s].todo
  PROVE  Orderly'
<1>1. OneRuns /\ RowsHandled /\ Owned /\ Carrying /\ ToDo /\ RowsOnce  BY DEF Orderly
<1>2. \A x \in Script \ {s} : Busy(x)' <=> Busy(x)  BY DEF Busy
<1>3. OneRuns'
  <2>1. SUFFICES ASSUME NEW x \in Script, NEW y \in Script, Busy(x)', Busy(y)' PROVE x = y
    BY DEF OneRuns, Busy
  <2>2. CASE x # s /\ y # s  BY <1>1, <1>2, <2>1, <2>2 DEF OneRuns
  <2>3. CASE x = s \/ y = s  BY <1>2, <2>1, <2>3
  <2>4. QED  BY <2>2, <2>3
<1>4. \A x \in Script \ {s} : Busy(x) => read' = read  BY <1>1 DEF OneRuns
<1>5. RowsHandled'
  <2>1. ASSUME NEW m, Handled(m) PROVE Handled(m)'
    <3>1. CASE m \in read  BY <3>1 DEF Handled
    <3>2. CASE \E x \in Script : Delivered(x) /\ run[x].mail = m
      <4>1. PICK x \in Script : Delivered(x) /\ run[x].mail = m  BY <3>2
      <4>2. CASE x = s  BY <4>1, <4>2 DEF Handled, Delivered
      <4>3. CASE x # s  BY <4>1, <4>3 DEF Handled, Delivered
      <4>4. QED  BY <4>2, <4>3
    <3>3. QED  BY <2>1, <3>1, <3>2 DEF Handled
  <2>2. SUFFICES ASSUME NEW i \in DOMAIN records, records[i].file \notin Loose
                 PROVE  \E m \in Mail : records[i].file \in Contents(m) /\ Handled(m)'
    BY DEF RowsHandled, Contents
  <2>3. PICK m \in Mail : records[i].file \in Contents(m) /\ Handled(m)
    BY <1>1, <2>2 DEF RowsHandled
  <2>4. QED  BY <2>1, <2>3
<1>6. Owned'
  <2>1. SUFFICES ASSUME NEW r \in Request, Working(req[r]), ~OnlyLoose(req[r])
                 PROVE  \E x \in Script : run'[x].at = "waiting" /\ run'[x].request = r
    BY DEF Owned, Working, OnlyLoose
  <2>2. PICK x \in Script : run[x].at = "waiting" /\ run[x].request = r  BY <1>1, <2>1 DEF Owned
  <2>3. x # s  BY <2>2
  <2>4. QED  BY <2>2, <2>3
<1>7. Carrying'
  <2>1. SUFFICES ASSUME NEW x \in Script, run'[x].at = "waiting"
                 PROVE  /\ run'[x].request \in Request /\ run'[x].mail \notin read'
                        /\ Brings(run'[x].mail, req[run'[x].request])
    BY DEF Carrying, Brings, Working
  <2>2. x # s /\ run'[x] = run[x]  BY <2>1
  <2>3. read' = read  BY <1>4, <2>1, <2>2 DEF Busy
  <2>4. QED  BY <1>1, <2>1, <2>2, <2>3 DEF Carrying
<1>8. ToDo'
  <2>1. SUFFICES ASSUME NEW x \in Script, Busy(x)'
                 PROVE  /\ run'[x].todo \cap read' = {}
                        /\ run'[x].at \in {"waiting", "accepted"} => run'[x].mail \notin run'[x].todo
    BY DEF ToDo, Busy
  <2>2. CASE x = s  BY <2>1, <2>2
  <2>3. CASE x # s
    <3>1. run'[x] = run[x] /\ Busy(x) /\ read' = read  BY <1>2, <1>4, <2>1, <2>3
    <3>2. QED  BY <1>1, <3>1 DEF ToDo
  <2>4. QED  BY <2>2, <2>3
<1>9. RowsOnce'  BY <1>1 DEF RowsOnce
<1>10. QED  BY <1>3, <1>5, <1>6, <1>7, <1>8, <1>9 DEF Orderly

\* The timer starts an execution when there is none.
LEMMA OrderScript ==
  ASSUME Typed, Calm, Calm', Orderly, NEW s \in Script, Alone(s)
  PROVE  Orderly'
<1>1. /\ TypeOK /\ run \in [Script -> Execution \cup {Off}] /\ OneRuns /\ ToDo
      /\ spent.faults = 0 /\ spent'.faults = 0 /\ setting.overlap = 1
  BY DEF Typed, TypeOK, Orderly, Calm
<1>2. UNCHANGED <<req, records>>  BY ScriptLeaves DEF tables
<1>3. \A x \in Script \ {s} : run'[x] = run[x]  BY ScriptStep
<1>4. run[s].at = "off" => run[s] = Off  BY <1>1, ScriptForms
<1>5. Busy(s) => \A x \in Script \ {s} : ~Busy(x)  BY <1>1 DEF OneRuns
<1>6. CASE Trigger(s)
  <2>1. PICK S : S = {x \in Script : run[x] # Off}  OBVIOUS
  <2>2. Cardinality(S) < 1 /\ run[s] = Off /\ read' = read  BY <1>1, <1>6, <2>1 DEF Trigger
  <2>3. IsFiniteSet(S)
    <3>1. IsFiniteSet(Script)  BY UploadConstants
    <3>2. S \in SUBSET Script  BY <2>1
    <3>3. QED  BY <3>1, <3>2, FS_Subset
  <2>4. Cardinality(S) \in Nat  BY <2>3, FS_CardinalityType
  <2>5. Cardinality(S) = 0  BY <2>2, <2>4
  <2>6. S = {}  BY <2>3, <2>5, FS_EmptySet
  <2>7. \A x \in Script : ~Busy(x)  BY <2>1, <2>6 DEF Busy, Off
  <2>8. run'[s].at = "loop" /\ run'[s].todo = Found  BY <1>1, <1>6 DEF Trigger
  <2>9. run'[s].todo \cap read' = {}  BY <2>2, <2>8 DEF Found
  <2>10. run[s].at = "off"  BY <2>7 DEF Busy
  <2>11. QED  BY <1>2, <1>3, <2>2, <2>7, <2>8, <2>9, <2>10, OrderTurns
<1>7. CASE Stop(s)
  <2>1. run[s].at = "loop" /\ run'[s].at = "off" /\ read' = read  BY <1>1, <1>7 DEF Stop, Off
  <2>2. ~Busy(s)'  BY <2>1 DEF Busy
  <2>3. QED  BY <1>2, <1>3, <2>1, <2>2, OrderTurns
<1>8. CASE PassOver(s)
  <2>1. PICK m \in run[s].todo \cap read : run' = [run EXCEPT ![s].todo = @ \ {m}]
    BY <1>8 DEF PassOver
  <2>2. run[s].at = "loop" /\ read' = read  BY <1>8 DEF PassOver
  <2>3. run[s] \in Execution  BY <1>1, <2>2 DEF Off
  <2>4. run'[s].at = "loop" /\ run'[s].todo = run[s].todo \ {m}
    BY <1>1, <2>1, <2>2, <2>3 DEF Execution
  <2>5. Busy(s)  BY <2>2 DEF Busy
  <2>6. run'[s].todo \cap read' = {}  BY <1>1, <2>2, <2>4, <2>5 DEF ToDo
  <2>7. QED  BY <1>2, <1>3, <1>5, <2>2, <2>4, <2>5, <2>6, OrderTurns
<1>9. CASE SkipMail(s)
  <2>1. PICK m \in Mail : Take(s, m, "accepted", None)  BY <1>9 DEF SkipMail
  <2>2. /\ run[s].at = "loop" /\ run'[s].at = "accepted" /\ run'[s].mail = m
        /\ run'[s].todo = run[s].todo \ {m}
    BY <2>1, TakeTyped
  <2>3. read' = read  BY <1>9 DEF SkipMail
  <2>4. Busy(s)  BY <2>2 DEF Busy
  <2>5. run'[s].todo \cap read' = {}  BY <1>1, <2>2, <2>3, <2>4 DEF ToDo
  <2>6. QED  BY <1>2, <1>3, <1>5, <2>2, <2>3, <2>4, <2>5, OrderTurns
<1>10. CASE MarkRead(s)
  <2>1. /\ run[s].at = "accepted" /\ read' = read \cup {run[s].mail}
        /\ run' = [run EXCEPT ![s].at = "loop"]
    BY <1>10 DEF MarkRead
  <2>2. run[s] \in Execution  BY <1>1, <2>1 DEF Off
  <2>3. run'[s].at = "loop" /\ run'[s].todo = run[s].todo
    BY <1>1, <2>1, <2>2 DEF Execution
  <2>4. Busy(s)  BY <2>1 DEF Busy
  <2>5. run'[s].todo \cap read' = {}  BY <1>1, <2>1, <2>3, <2>4 DEF ToDo
  <2>6. QED  BY <1>2, <1>3, <1>5, <2>1, <2>3, <2>4, <2>5, OrderTurns
<1>11. ~GiveUp(s) /\ ~Kill(s)
  <2>1. Spend("faults") => spent'.faults = spent.faults + 1  BY <1>1, SpentTyped DEF Spend
  <2>2. QED  BY <1>1, <2>1 DEF GiveUp, Kill
<1>12. QED  BY <1>6, <1>7, <1>8, <1>9, <1>10, <1>11 DEF Alone

\* A mail that is posted is not marked, so that no row is about it.
LEMMA OrderPosts ==
  ASSUME Typed, Orderly, NEW s \in Script, Post(s)
  PROVE  Orderly'
<1>1. OneRuns /\ RowsHandled /\ Owned /\ Carrying /\ ToDo /\ RowsOnce  BY DEF Orderly
<1>2. PICK m \in Mail, r \in Request :
        /\ req[r] = Idle /\ req'[r] \in Upload /\ Others(r)
        /\ req'[r].at \in {"files", "answer"} /\ req'[r].drafts = <<>>
        /\ req'[r].left = Files[m] /\ req'[r].code # 200
        /\ Take(s, m, "waiting", r)
  BY PostStep
<1>3. /\ run[s].at = "loop" /\ \A x \in Script \ {s} : run'[x] = run[x]
      /\ run'[s].at = "waiting" /\ run'[s].mail = m /\ run'[s].request = r
      /\ m \in run[s].todo /\ run'[s].todo = run[s].todo \ {m}
  BY <1>2, TakeTyped
<1>4. UNCHANGED <<read, records>>  BY DEF Post, tables
<1>5. Busy(s) /\ \A x \in Script \ {s} : ~Busy(x) /\ ~Busy(x)'
  BY <1>1, <1>3 DEF Busy, OneRuns
<1>6. OneRuns'
  <2>1. \A x \in Script : Busy(x)' => x = s  BY <1>5
  <2>2. QED  BY <2>1 DEF OneRuns, Busy
<1>7. RowsHandled'
  <2>1. SUFFICES ASSUME NEW i \in DOMAIN records, records[i].file \notin Loose
                 PROVE  \E n \in Mail : records[i].file \in Contents(n) /\ Handled(n)'
    BY <1>4 DEF RowsHandled, Contents
  <2>2. PICK n \in Mail : records[i].file \in Contents(n) /\ Handled(n)
    BY <1>1, <2>1 DEF RowsHandled
  <2>3. \A x \in Script : ~Delivered(x)  BY <1>3, <1>5 DEF Delivered, Busy
  <2>4. n \in read  BY <2>2, <2>3 DEF Handled
  <2>5. QED  BY <1>4, <2>2, <2>4 DEF Handled
<1>8. Owned'
  <2>1. SUFFICES ASSUME NEW q \in Request, Working(req'[q])
                 PROVE  OnlyLoose(req'[q])
                        \/ \E x \in Script : run'[x].at = "waiting" /\ run'[x].request = q
    BY DEF Owned, Working, OnlyLoose
  <2>2. CASE q = r  BY <1>3, <2>2
  <2>3. CASE q # r
    <3>1. req'[q] = req[q]  BY <1>2, <2>3 DEF Others
    <3>2. \A x \in Script : run[x].at # "waiting"  BY <1>3, <1>5 DEF Busy
    <3>3. QED  BY <1>1, <2>1, <3>1, <3>2 DEF Owned
  <2>4. QED  BY <2>2, <2>3
<1>9. Carrying'
  <2>1. SUFFICES ASSUME NEW x \in Script, run'[x].at = "waiting"
                 PROVE  /\ run'[x].request \in Request /\ run'[x].mail \notin read
                        /\ Brings(run'[x].mail, req'[run'[x].request])
    BY <1>4 DEF Carrying, Brings, Working
  <2>2. x = s  BY <1>5, <2>1 DEF Busy
  <2>3. m \notin read  BY <1>1, <1>3, <1>5 DEF ToDo
  <2>4. Files[m] \in Seq(File)  BY UploadConstants
  <2>5. Part(Files[m], req'[r])  BY <1>2, <2>4, PartBegins
  <2>6. Brings(m, req'[r])  BY <1>2, <2>5 DEF Brings
  <2>7. QED  BY <1>3, <2>2, <2>3, <2>6
<1>10. ToDo'
  <2>1. SUFFICES /\ run'[s].todo \cap read = {}
                 /\ run'[s].mail \notin run'[s].todo
    BY <1>4, <1>5 DEF ToDo, Busy
  <2>2. QED  BY <1>1, <1>3, <1>5 DEF ToDo
<1>11. RowsOnce'  BY <1>1, <1>4 DEF RowsOnce
<1>12. QED  BY <1>6, <1>7, <1>8, <1>9, <1>10, <1>11 DEF Orderly

\* Drafts of one upload are about different files of a mail.
LEMMA PartDistinct ==
  ASSUME FilesDistinct, NEW m \in Mail, NEW q \in Upload, Part(Files[m], q),
         NEW j \in DOMAIN q.drafts, NEW k \in DOMAIN q.drafts,
         q.drafts[j].file = q.drafts[k].file, q.drafts[j].file \notin Loose
  PROVE  j = k
<1>1. PICK fs \in Seq(File) : fs = Files[m]  BY UploadConstants
<1>2. PICK n \in 0..Len(fs) :
        \E p \in [DOMAIN q.drafts -> 1..n] : Placed(fs, n, q.drafts, p)
  BY <1>1 DEF Part
<1>3. PICK p \in [DOMAIN q.drafts -> 1..n] : Placed(fs, n, q.drafts, p)  BY <1>2
<1>4. q.drafts \in Seq(Draft)  BY UploadFields
<1>5. j \in Nat /\ k \in Nat  BY <1>4
<1>6. /\ p[j] \in 1..n /\ p[k] \in 1..n
      /\ q.drafts[j].file = fs[p[j]] /\ q.drafts[k].file = fs[p[k]]
  BY <1>3 DEF Placed
<1>7. p[j] \in DOMAIN fs /\ p[k] \in DOMAIN fs  BY <1>1, <1>2, <1>6
<1>8. p[j] = p[k]
  <2>1. \A a, b \in DOMAIN Files[m] :
          Files[m][a] = Files[m][b] /\ Files[m][a] \notin Loose => a = b
    BY DEF FilesDistinct
  <2>2. fs[p[j]] = fs[p[k]] /\ fs[p[j]] \notin Loose  BY <1>6
  <2>3. QED  BY <1>1, <1>7, <2>1, <2>2
<1>9. (j < k => p[j] < p[k]) /\ (k < j => p[k] < p[j])  BY <1>3 DEF Placed
<1>10. QED  BY <1>5, <1>6, <1>8, <1>9

LEMMA OrderSaves ==
  ASSUME FilesDistinct, Typed, FilesOver, Orderly, NEW r \in Request, Save(r)
  PROVE  Orderly'
<1>1. TypeOK /\ OneRuns /\ RowsHandled /\ Owned /\ Carrying /\ ToDo /\ RowsOnce /\ MailTaken
  BY DEF Orderly, Typed
<1>2. PICK q : q = req[r]  OBVIOUS
<1>3. /\ q \in Upload /\ req'[r] \in Upload /\ Others(r)
      /\ q.at = "save" /\ req'[r].at = "answer" /\ req'[r].code = 200
      /\ \A i \in DOMAIN records : i \in DOMAIN records' /\ records'[i] = records[i]
      /\ \A i \in DOMAIN records' \ DOMAIN records :
           \E j \in DOMAIN q.drafts : i = Len(records) + j /\ records'[i].file = q.drafts[j].file
  BY <1>1, <1>2, SaveStep
<1>4. UNCHANGED <<run, read>>  BY DEF Save, mailbox
<1>5. q.left = <<>> /\ Working(q)  BY <1>2, <1>3 DEF FilesOver, Working
<1>6. \A fs \in Batches : Part(fs, q) =>
        \A f \in FilesIn(q.drafts) : f \in {fs[i] : i \in DOMAIN fs}
  BY <1>3, <1>5, PartEnds, BatchesTyped
<1>7. ASSUME NEW j \in DOMAIN q.drafts, q.drafts[j].file \notin Loose
      PROVE  \E s \in Script : /\ run[s].at = "waiting" /\ run[s].request = r
                               /\ run[s].mail \in Mail /\ Part(Files[run[s].mail], q)
                               /\ q.drafts[j].file \in Contents(run[s].mail)
                               /\ run[s].mail \notin read
  <2>1. q.drafts[j].file \in FilesIn(q.drafts)  BY DEF FilesIn
  <2>2. ~OnlyLoose(q)
    <3>1. ASSUME NEW f \in Loose, Part(<<f>>, q) PROVE FALSE
      <4>1. PICK fs \in Batches : fs = <<f>>  BY DEF Batches
      <4>2. q.drafts[j].file \in {fs[i] : i \in DOMAIN fs}  BY <1>6, <2>1, <3>1, <4>1
      <4>3. DOMAIN fs = {1} /\ fs[1] = f  BY <4>1
      <4>4. q.drafts[j].file = f  BY <4>2, <4>3
      <4>5. QED  BY <1>7, <4>4
    <3>2. QED  BY <3>1 DEF OnlyLoose
  <2>3. PICK s \in Script : run[s].at = "waiting" /\ run[s].request = r
    BY <1>1, <1>2, <1>5, <2>2 DEF Owned
  <2>4. PICK m \in Mail : m = run[s].mail  BY <1>1, <2>3 DEF MailTaken
  <2>5. Part(Files[m], q) /\ m \notin read
    BY <1>1, <1>2, <1>5, <2>3, <2>4 DEF Carrying, Brings
  <2>6. Files[m] \in Batches  BY DEF Batches
  <2>7. q.drafts[j].file \in Contents(m)  BY <1>6, <2>1, <2>5, <2>6 DEF Contents
  <2>8. QED  BY <2>3, <2>4, <2>5, <2>7
<1>8. ASSUME NEW s \in Script, Delivered(s) PROVE Delivered(s)'
  <2>1. CASE run[s].at = "accepted"  BY <1>4, <2>1 DEF Delivered
  <2>2. CASE run[s].at = "waiting"
    <3>1. req[run[s].request].at = "answer" /\ req[run[s].request].code = 200
      BY <1>8, <2>2 DEF Delivered
    <3>2. run[s].request # r  BY <1>2, <1>3, <3>1
    <3>3. run[s].request \in Request  BY <1>1, <2>2 DEF Carrying
    <3>4. req'[run[s].request] = req[run[s].request]  BY <1>3, <3>2, <3>3 DEF Others
    <3>5. QED  BY <1>4, <2>2, <3>1, <3>2, <3>4 DEF Delivered
  <2>3. QED  BY <1>8, <2>1, <2>2 DEF Delivered
<1>9. OneRuns' /\ ToDo'  BY <1>1, <1>4 DEF OneRuns, ToDo, Busy
<1>10. RowsHandled'
  <2>1. SUFFICES ASSUME NEW i \in DOMAIN records', records'[i].file \notin Loose
                 PROVE  \E m \in Mail : records'[i].file \in Contents(m) /\ Handled(m)'
    BY DEF RowsHandled, Contents
  <2>2. CASE i \in DOMAIN records
    <3>1. PICK m \in Mail : records[i].file \in Contents(m) /\ Handled(m)
      BY <1>1, <1>3, <2>1, <2>2 DEF RowsHandled
    <3>2. Handled(m)'  BY <1>4, <1>8, <3>1 DEF Handled
    <3>3. QED  BY <1>3, <2>2, <3>1, <3>2
  <2>3. CASE i \notin DOMAIN records
    <3>1. PICK j \in DOMAIN q.drafts : records'[i].file = q.drafts[j].file  BY <1>3, <2>3
    <3>2. PICK s \in Script : /\ run[s].at = "waiting" /\ run[s].request = r
                              /\ run[s].mail \in Mail
                              /\ q.drafts[j].file \in Contents(run[s].mail)
      BY <1>7, <2>1, <3>1
    <3>3. Delivered(s)'  BY <1>3, <1>4, <3>2 DEF Delivered
    <3>4. PICK m \in Mail : m = run[s].mail  BY <3>2
    <3>5. Handled(m)'  BY <1>4, <3>3, <3>4 DEF Handled
    <3>6. QED  BY <3>1, <3>2, <3>4, <3>5
  <2>4. QED  BY <2>2, <2>3
<1>11. Owned'
  <2>1. \A x \in Request : Working(req'[x]) => x # r  BY <1>3 DEF Working
  <2>2. QED  BY <1>1, <1>3, <1>4, <2>1 DEF Owned, Others, OnlyLoose, Working
<1>12. Carrying'
  <2>1. SUFFICES ASSUME NEW s \in Script, run[s].at = "waiting"
                 PROVE  /\ run[s].request \in Request /\ run[s].mail \notin read
                        /\ Brings(run[s].mail, req'[run[s].request])
    BY <1>4 DEF Carrying, Brings, Working
  <2>2. Brings(run[s].mail, req'[r])  BY <1>3 DEF Brings, Working
  <2>3. QED  BY <1>1, <1>3, <2>1, <2>2 DEF Carrying, Others
<1>13. RowsOnce'
  <2>1. ASSUME NEW i \in DOMAIN records, NEW k \in DOMAIN records' \ DOMAIN records,
               records'[i].file = records'[k].file, records'[i].file \notin Loose
        PROVE  FALSE
    <3>1. PICK f : f = records[i].file  OBVIOUS
    <3>2. PICK j \in DOMAIN q.drafts : f = q.drafts[j].file  BY <1>3, <2>1, <3>1
    <3>3. f \notin Loose  BY <1>3, <2>1, <3>1
    <3>4. PICK s \in Script : /\ run[s].at = "waiting" /\ run[s].request = r
                              /\ run[s].mail \in Mail /\ f \in Contents(run[s].mail)
                              /\ run[s].mail \notin read
      BY <1>7, <3>2, <3>3
    <3>5. PICK m \in Mail : f \in Contents(m) /\ Handled(m)
      BY <1>1, <3>1, <3>3 DEF RowsHandled
    <3>6. m = run[s].mail  BY <3>3, <3>4, <3>5 DEF FilesDistinct, Contents
    <3>7. PICK x \in Script : Delivered(x) /\ run[x].mail = m
      BY <3>4, <3>5, <3>6 DEF Handled
    <3>8. Busy(x) /\ Busy(s)  BY <3>4, <3>7 DEF Busy, Delivered
    <3>9. x = s  BY <1>1, <3>8 DEF OneRuns
    <3>10. QED  BY <1>2, <1>3, <3>4, <3>7, <3>9 DEF Delivered
  <2>2. ASSUME NEW i \in DOMAIN records' \ DOMAIN records,
               NEW k \in DOMAIN records' \ DOMAIN records,
               records'[i].file = records'[k].file, records'[i].file \notin Loose
        PROVE  i = k
    <3>1. PICK j \in DOMAIN q.drafts : i = Len(records) + j /\ records'[i].file = q.drafts[j].file
      BY <1>3
    <3>2. PICK l \in DOMAIN q.drafts : k = Len(records) + l /\ records'[k].file = q.drafts[l].file
      BY <1>3
    <3>3. \E s \in Script : run[s].mail \in Mail /\ Part(Files[run[s].mail], q)
      BY <1>7, <2>2, <3>1
    <3>4. PICK m \in Mail : Part(Files[m], q)  BY <3>3
    <3>5. j = l  BY <1>3, <2>2, <3>1, <3>2, <3>4, PartDistinct
    <3>6. QED  BY <3>1, <3>2, <3>5
  <2>3. SUFFICES ASSUME NEW i \in DOMAIN records', NEW k \in DOMAIN records',
                        records'[i].file = records'[k].file, records'[i].file \notin Loose
                 PROVE  i = k
    BY DEF RowsOnce
  <2>4. CASE i \in DOMAIN records /\ k \in DOMAIN records  BY <1>1, <1>3, <2>3, <2>4 DEF RowsOnce
  <2>5. CASE i \in DOMAIN records /\ k \notin DOMAIN records  BY <2>1, <2>3, <2>5
  <2>6. CASE i \notin DOMAIN records /\ k \in DOMAIN records  BY <2>1, <2>3, <2>6
  <2>7. CASE i \notin DOMAIN records /\ k \notin DOMAIN records  BY <2>2, <2>3, <2>7
  <2>8. QED  BY <2>4, <2>5, <2>6, <2>7
<1>14. QED  BY <1>9, <1>10, <1>11, <1>12, <1>13 DEF Orderly

LEMMA OrderReplies ==
  ASSUME Typed, Orderly, NEW r \in Request, Reply(r)
  PROVE  Orderly'
<1>1. TypeOK /\ OneRuns /\ RowsHandled /\ Owned /\ Carrying /\ ToDo /\ RowsOnce
  BY DEF Orderly, Typed
<1>2. /\ req'[r] = Idle /\ Others(r) /\ UNCHANGED <<read, records>> /\ req[r].at = "answer"
  BY <1>1, EndStep DEF tables, Reply
<1>3. PICK at \in {"loop", "accepted"} : Resume(r, at) /\ (req[r].code = 200 => at = "accepted")
  BY DEF Reply, AfterAnswer
<1>4. \A s \in Script :
        run'[s] = run[s] \/ (/\ run[s].at = "waiting" /\ run[s].request = r
                             /\ run'[s].at = at /\ run'[s].mail = run[s].mail
                             /\ run'[s].todo = run[s].todo)
  BY <1>3, ResumeTyped
<1>5. \A s \in Script : run[s].at = "waiting" /\ run[s].request = r => run'[s].at = at
  BY <1>3, ResumeTyped
<1>6. \A s \in Script : Busy(s)' <=> Busy(s)  BY <1>4 DEF Busy
<1>7. OneRuns'  BY <1>1, <1>6 DEF OneRuns, Busy
<1>8. ToDo'
  <2>1. SUFFICES ASSUME NEW s \in Script, Busy(s)'
                 PROVE  /\ run'[s].todo \cap read = {}
                        /\ run'[s].at \in {"waiting", "accepted"} => run'[s].mail \notin run'[s].todo
    BY <1>2 DEF ToDo, Busy
  <2>2. Busy(s)  BY <1>6, <2>1
  <2>3. QED  BY <1>1, <1>4, <2>2 DEF ToDo
<1>9. ASSUME NEW s \in Script, Delivered(s) PROVE Delivered(s)' /\ run'[s].mail = run[s].mail
  <2>1. CASE run[s].at = "accepted"  BY <1>4, <2>1 DEF Delivered
  <2>2. CASE run[s].at = "waiting" /\ run[s].request = r
    <3>1. at = "accepted"  BY <1>3, <1>9, <2>2 DEF Delivered
    <3>2. QED  BY <1>4, <1>5, <2>2, <3>1 DEF Delivered
  <2>3. CASE run[s].at = "waiting" /\ run[s].request # r
    <3>1. run'[s] = run[s] /\ run[s].request \in Request  BY <1>1, <1>4, <2>3 DEF Carrying
    <3>2. req'[run[s].request] = req[run[s].request]  BY <1>2, <2>3, <3>1 DEF Others
    <3>3. QED  BY <1>9, <2>3, <3>1, <3>2 DEF Delivered
  <2>4. QED  BY <1>9, <2>1, <2>2, <2>3 DEF Delivered
<1>10. RowsHandled'
  <2>1. SUFFICES ASSUME NEW i \in DOMAIN records, records[i].file \notin Loose
                 PROVE  \E m \in Mail : records[i].file \in Contents(m) /\ Handled(m)'
    BY <1>2 DEF RowsHandled, Contents
  <2>2. PICK m \in Mail : records[i].file \in Contents(m) /\ Handled(m)
    BY <1>1, <2>1 DEF RowsHandled
  <2>3. Handled(m)'  BY <1>2, <1>9, <2>2 DEF Handled
  <2>4. QED  BY <2>2, <2>3
<1>11. Owned'
  <2>1. SUFFICES ASSUME NEW q \in Request, Working(req'[q])
                 PROVE  OnlyLoose(req'[q])
                        \/ \E s \in Script : run'[s].at = "waiting" /\ run'[s].request = q
    BY DEF Owned, Working, OnlyLoose
  <2>2. q # r /\ req'[q] = req[q]  BY <1>2, <2>1 DEF Others, Working, Idle
  <2>3. \A s \in Script : run[s].at = "waiting" /\ run[s].request = q => run'[s] = run[s]
    BY <1>4, <2>2
  <2>4. QED  BY <1>1, <2>1, <2>2, <2>3 DEF Owned
<1>12. Carrying'
  <2>1. SUFFICES ASSUME NEW s \in Script, run'[s].at = "waiting"
                 PROVE  /\ run'[s].request \in Request /\ run'[s].mail \notin read
                        /\ Brings(run'[s].mail, req'[run'[s].request])
    BY <1>2 DEF Carrying, Brings, Working
  <2>2. run'[s] = run[s] /\ run[s].request # r  BY <1>3, <1>4, <1>5, <2>1
  <2>3. run[s].request \in Request  BY <1>1, <2>1, <2>2 DEF Carrying
  <2>4. req'[run[s].request] = req[run[s].request]  BY <1>2, <2>2, <2>3 DEF Others
  <2>5. QED  BY <1>1, <2>1, <2>2, <2>4 DEF Carrying
<1>13. RowsOnce'  BY <1>1, <1>2 DEF RowsOnce
<1>14. QED  BY <1>7, <1>8, <1>10, <1>11, <1>12, <1>13 DEF Orderly

LEMMA OnceNext ==
  ASSUME FilesDistinct
  PROVE  Typed /\ FilesOver /\ Once /\ [Next]_vars => Once'
<1> SUFFICES ASSUME Typed, FilesOver, Once, [Next]_vars, Calm' PROVE Orderly'
  BY DEF Once
<1>1. TypeOK /\ RowsKnown /\ MailTaken /\ Calm /\ Orderly
  BY CalmBefore DEF Typed, Once
<1>2. ASSUME NEW s \in Script, Alone(s) PROVE Orderly'  BY <1>1, <1>2, OrderScript
<1>3. ASSUME NEW s \in Script, Post(s) PROVE Orderly'  BY <1>1, <1>3, OrderPosts
<1>4. ASSUME NEW r \in Request, TakeFile(r) \/ FilesDone(r) \/ Notify(r) PROVE Orderly'
  <2>1. PICK q : q = req[r]  OBVIOUS
  <2>2. PICK o : o = req'[r]  OBVIOUS
  <2>3. \A fs \in Batches : Part(fs, q) => Part(fs, o)
    <3>1. CASE TakeFile(r)
      <4>1. /\ q \in Upload /\ o \in Upload /\ q.left # <<>> /\ o.left = Tail(q.left)
            /\ \/ o.drafts = q.drafts /\ ~Allowed(q.left[1])
               \/ \E url \in BOOLEAN :
                    /\ Allowed(q.left[1])
                    /\ o.drafts = Append(q.drafts, [file |-> q.left[1], url |-> url])
        BY <1>1, <2>1, <2>2, <3>1, TakeFileStep
      <4>2. QED  BY <4>1, PartTakes, BatchesTyped
    <3>2. CASE FilesDone(r) \/ Notify(r)
      <4>1. o.left = q.left /\ o.drafts = q.drafts
        BY <1>1, <2>1, <2>2, <3>2, FilesDoneStep, NotifyStep
      <4>2. QED  BY <4>1, PartSame
    <3>3. QED  BY <1>4, <3>1, <3>2
  <2>4. Working(q) /\ Working(o) /\ Others(r)
    BY <1>1, <1>4, <2>1, <2>2, TakeFileStep, FilesDoneStep, NotifyStep DEF Working
  <2>5. UNCHANGED mailbox /\ UNCHANGED records
    BY <1>4 DEF TakeFile, FilesDone, Notify, tables
  <2>6. QED  BY <1>1, <2>1, <2>2, <2>3, <2>4, <2>5, OrderKept
<1>5. ASSUME NEW r \in Request, Save(r) PROVE Orderly'  BY <1>1, <1>5, OrderSaves
<1>6. ASSUME NEW r \in Request, LooseUpload(r) \/ LooseTaxForm(r) PROVE Orderly'
  <2>1. req[r] = Idle /\ Others(r) /\ UNCHANGED mailbox /\ UNCHANGED records
    BY <1>1, <1>6, LooseStep DEF tables
  <2>2. PICK f \in Loose : Fresh(f, req'[r])  BY <1>1, <1>6, LooseStep
  <2>3. Working(req'[r]) => OnlyLoose(req'[r])  BY <2>2, FreshParts DEF OnlyLoose
  <2>4. req[r].at = "idle"  BY <2>1 DEF Idle
  <2>5. QED  BY <1>1, <2>1, <2>3, <2>4, OrderKept
<1>7. ASSUME NEW r \in Request, StartResend(r) PROVE Orderly'
  <2>1. req[r] = Idle /\ req'[r] \in Resend /\ Others(r)  BY <1>1, <1>7, StartResendStep
  <2>2. UNCHANGED mailbox /\ UNCHANGED records  BY <1>7 DEF StartResend, tables
  <2>3. req[r].at = "idle" /\ ~Working(req'[r])  BY <2>1 DEF Idle, Resend, Working
  <2>4. QED  BY <1>1, <2>1, <2>2, <2>3, OrderKept
<1>8. ASSUME NEW r \in Request, CommitResend(r) PROVE Orderly'
  <2>1. req[r].id \in DOMAIN records /\ req[r].at = "resend"
    BY <1>1, <1>8 DEF RowsKnown, CommitResend
  <2>2. /\ req'[r] = Idle /\ Others(r) /\ DOMAIN records' = DOMAIN records
        /\ \A i \in DOMAIN records : records'[i].file = records[i].file
    BY <1>1, <1>8, <2>1, CommitResendStep
  <2>3. UNCHANGED mailbox  BY <1>8 DEF CommitResend
  <2>4. ~Working(req'[r])  BY <2>2 DEF Working, Idle
  <2>5. QED  BY <1>1, <2>1, <2>2, <2>3, <2>4, OrderKept
<1>9. ASSUME NEW r \in Request, Reply(r) PROVE Orderly'  BY <1>1, <1>9, OrderReplies
<1>10. ASSUME NEW r \in Request, Die(r) PROVE FALSE
  <2>1. spent'.faults > 0  BY <1>1, <1>10, EndStep
  <2>2. QED  BY <2>1 DEF Calm
<1>11. CASE UNCHANGED vars
  BY <1>1, <1>11 DEF vars, mailbox, tables, Orderly, OneRuns, RowsHandled, Owned, Carrying, ToDo,
                     RowsOnce, Busy, Delivered, Handled, Brings, Working, OnlyLoose
<1>12. QED
  BY <1>2, <1>3, <1>4, <1>5, <1>6, <1>7, <1>8, <1>9, <1>10, <1>11 DEF Next, Main, Serve, Alone

\* For any mails whose files are their own, any number of requests of other clients
\* beside them and any failing calls: where nothing dies and executions do not
\* overlap, no file of a mail has two rows, however often the timer fires and
\* although refused mails are posted again (email_upload.gs main, upload_files).
THEOREM RecordedOnce ==
  ASSUME FilesDistinct
  PROVE  Spec => []OnceWithoutFaults
<1>1. MailsKept => FilesOver  BY DEF MailsKept
<1>2. Once => OnceWithoutFaults
  BY DEF Once, Orderly, Calm, RowsOnce, OnceWithoutFaults
<1>3. Typed /\ FilesOver /\ Once /\ [Next]_vars => Once'  BY OnceNext
<1>4. QED
  BY InitTyped, NextTyped, MailsKeptInit, MailsKeptNext, OnceInit, <1>1, <1>2, <1>3, PTL
  DEF Spec
=============================================================================
