--------------------------- MODULE DocumentStore ---------------------------
(***************************************************************************)
(* Case documents (documents.service.ts): a row of case_documents and a    *)
(* file on disk per document, written and read apart by concurrent HTTP    *)
(* requests.  A request is a sequence of steps, one per awaited call; what *)
(* it checked may have changed by the time it writes, an awaited call may  *)
(* fail, and the process may crash between two steps.                      *)
(*                                                                         *)
(* A document is named after the request that uploads it; Seeds are the    *)
(* documents that were there before.  RetentionCleanup extends this module *)
(* with the only code that removes rows and files.                         *)
(***************************************************************************)
EXTENDS Permissions, Integers

CONSTANTS
  Requests,         \* the requests that may arrive
  Jobs,             \* what a request may ask for
  Seeds,            \* documents that exist from the start
  StartRows,        \* [Seeds -> DocumentRow]: their rows
  StartCases,       \* the case rows the instance starts with
  BusyCases,        \* the cases that employees work on meanwhile
  MaxDay,           \* bound on the calendar
  Never,            \* null: a closedAt or deletedAt that is not set
  None              \* not a job, nor a row

Days == 0..MaxDay
MaybeDay == Days \cup {Never}

\* A document is named by what uploaded it.
Docs == Requests \cup Seeds

\* Of a case, what documents and retention depend on; "open" stands for the
\* statuses other than closed.  A removed case is no longer in the table.
CaseRow == [status : {"open", "closed"}, closedAt : MaybeDay,
            department : MaybeDepartment, removed : BOOLEAN]

DocumentRow == [case : Cases, sensitive : BOOLEAN, deletedAt : MaybeDay,
                removed : BOOLEAN]

UploadJob   == [kind : {"upload"}, user : Users, case : Cases,
                sensitive : BOOLEAN, valid : BOOLEAN]
DocumentJob == [kind : {"delete", "download"}, user : Users, case : Cases,
                doc : Docs]
ListJob     == [kind : {"list"}, user : Users, case : Cases]

AnyJob == UploadJob \cup DocumentJob \cup ListJob

Reading == [department : MaybeDepartment, live : BOOLEAN]
Unread == [department |-> NoDepartment, live |-> FALSE]

ASSUME DocumentJobsAssumption ==
  /\ Jobs \subseteq AnyJob
  /\ None \notin AnyJob \cup DocumentRow
  /\ Requests \cap Seeds = {}

ASSUME StartAssumption ==
  /\ MaxDay \in Nat
  /\ Never \notin Days
  /\ StartRows \in [Seeds -> DocumentRow]
  /\ \A s \in Seeds : ~StartRows[s].removed
  /\ StartCases \subseteq CaseRow
  /\ \A row \in StartCases : ~row.removed
  /\ BusyCases \subseteq Cases

VARIABLES
  now,        \* the day
  cases,      \* [Cases -> CaseRow]
  rows,       \* [Docs -> DocumentRow or None]: the case_documents table
  files,      \* the documents whose file is on disk
  audit,      \* <<request, action>>: the audit events
  served,     \* the downloads whose stream was opened
  pc,         \* where each request is
  job,        \* what it asks for
  seen        \* what it read: its case's department, and a live document

requestVars == <<pc, job, seen>>
docVars == <<now, cases, rows, files, audit, served, pc, job, seen>>

-----------------------------------------------------------------------------

Settled == {"done", "rejected", "failed"}

UploadSteps   == {"writeFile", "createRow", "auditUpload"}
DeleteSteps   == {"findToDelete", "setDeletedAt", "auditDelete"}
DownloadSteps == {"findToDownload", "accessFile", "auditDownload", "openStream"}
ListSteps     == {"findAll", "auditList"}

InFlightSteps == UploadSteps \cup DeleteSteps \cup DownloadSteps \cup ListSteps

InFlight(r) == pc[r] \in InFlightSteps

AuditActions == {"document.uploaded", "document.soft_deleted",
                 "document.downloaded", "document.sensitive_accessed"}

DocTypeOK ==
  /\ now \in Days
  /\ cases \in [Cases -> CaseRow]
  /\ rows \in [Docs -> DocumentRow \cup {None}]
  /\ files \subseteq Docs
  /\ audit \subseteq Requests \X AuditActions
  /\ served \subseteq Requests
  /\ pc \in [Requests -> {"idle"} \cup InFlightSteps \cup Settled]
  /\ job \in [Requests -> AnyJob \cup {None}]
  /\ seen \in [Requests -> Reading]

DocInit ==
  /\ now \in Days
  /\ cases \in [Cases -> StartCases]
  /\ rows = [d \in Docs |-> IF d \in Seeds THEN StartRows[d] ELSE None]
  /\ files = Seeds
  /\ audit = {} /\ served = {}
  /\ pc = [r \in Requests |-> "idle"]
  /\ job = [r \in Requests |-> None]
  /\ seen = [r \in Requests |-> Unread]

Present(c) == ~cases[c].removed

\* The row is in the table; it is in the table and not soft-deleted.
Stored(d) == rows[d] # None /\ ~rows[d].removed
Live(d) == Stored(d) /\ rows[d].deletedAt = Never

Transition(r, from, to) ==
  /\ pc[r] = from
  /\ pc' = [pc EXCEPT ![r] = to]

Audit(r, action) == audit' = audit \cup {<<r, action>>}

-----------------------------------------------------------------------------
(* What the rest of the system does to a case row meanwhile, and the       *)
(* calendar.                                                               *)

Tick ==
  /\ now < MaxDay
  /\ now' = now + 1
  /\ UNCHANGED <<cases, rows, files, audit, served, requestVars>>

\* updateStatus: the closing time is set with status closed and cleared with
\* every other one.
StatusUpdated(c) ==
  /\ Present(c)
  /\ \/ cases' = [cases EXCEPT ![c].status = "closed", ![c].closedAt = now]
     \/ cases' = [cases EXCEPT ![c].status = "open", ![c].closedAt = Never]
  /\ UNCHANGED <<now, rows, files, audit, served, requestVars>>

\* reviewCaseTriage: triaged, in the approved department; the closing time
\* stays as it was.
CaseReviewed(c) ==
  /\ Present(c)
  /\ \E department \in MaybeDepartment :
       cases' = [cases EXCEPT ![c].status = "open",
                              ![c].department = department]
  /\ UNCHANGED <<now, rows, files, audit, served, pc, job, seen>>

-----------------------------------------------------------------------------
(* Arrival: the route's permission, validation of an uploaded file, the    *)
(* read of the case row and the checks on it.                              *)

RouteAllows(j) ==
  j.kind \in {"upload", "delete"} => Has(j.user, "document:upload")

\* assertCanReadCase of the documents service.
MayReadDocuments(u, department) ==
  \/ Has(u, "case:read:all_tenant")
  \/ Has(u, "document:read:department") /\ InDepartmentOf(u, department)

\* assertCanUploadToCase, also asked before a deletion.
MayUploadTo(u, department) ==
  /\ RoleOf[u] # "auditor"
  /\ RoleOf[u] = "super_admin" \/ InDepartmentOf(u, department)

\* Mutant of ReadableBy: the filter on isSensitive is forgotten.
ReadableByAll(u, d) == TRUE

\* A document is shown to those who may read sensitive ones, or is not one.
ReadableBy(u, d) ==
  rows[d].sensitive => Has(u, "document:read:sensitive")

Admitted(j) ==
  LET department == cases[j.case].department
  IN  /\ RouteAllows(j)
      /\ j.kind = "upload" => j.valid
      /\ Present(j.case) /\ TenantOf[j.user] = TenantOf[j.case]
      /\ MayReadDocuments(j.user, department)
      /\ j.kind \in {"upload", "delete"} => MayUploadTo(j.user, department)

FirstStep(j) == [upload |-> "writeFile", delete |-> "findToDelete",
                 download |-> "findToDownload", list |-> "findAll"][j.kind]

Admit(r, j) ==
  /\ Admitted(j)
  /\ Transition(r, "idle", FirstStep(j))
  /\ job' = [job EXCEPT ![r] = j]
  /\ seen' = [seen EXCEPT ![r].department = cases[j.case].department]
  /\ UNCHANGED <<now, cases, rows, files, audit, served>>

\* 400, 403 or 404; a refused upload leaves an operational event only.
Refuse(r, j) ==
  /\ ~Admitted(j)
  /\ Transition(r, "idle", "rejected")
  /\ UNCHANGED <<now, cases, rows, files, audit, served, job, seen>>

-----------------------------------------------------------------------------
(* uploadForCase                                                           *)

\* Mutant of WriteFile: the row is stored without waiting for the file.
WriteFileUnawaited(r) ==
  /\ Transition(r, "writeFile", "createRow")
  /\ files' \in {files, files \cup {r}}
  /\ UNCHANGED <<now, cases, rows, audit, served, job, seen>>

WriteFile(r) ==
  /\ Transition(r, "writeFile", "createRow")
  /\ files' = files \cup {r}
  /\ UNCHANGED <<now, cases, rows, audit, served, job, seen>>

\* mkdir or writeFile rejects; a write that stops halfway leaves its file.
WriteFileFails(r) ==
  /\ Transition(r, "writeFile", "failed")
  /\ files' \in {files, files \cup {r}}
  /\ UNCHANGED <<now, cases, rows, audit, served, job, seen>>

\* The foreign key refuses the row of a case that is gone; the file stays.
CreateRow(r) ==
  LET j == job[r]
  IN  /\ Transition(r, "createRow",
                    IF Present(j.case) THEN "auditUpload" ELSE "failed")
      /\ rows' = IF Present(j.case)
                 THEN [rows EXCEPT ![r] = [case |-> j.case,
                                           sensitive |-> j.sensitive,
                                           deletedAt |-> Never,
                                           removed |-> FALSE]]
                 ELSE rows
      /\ UNCHANGED <<now, cases, files, audit, served, job, seen>>

AuditUpload(r) ==
  /\ Transition(r, "auditUpload", "done")
  /\ Audit(r, "document.uploaded")
  /\ UNCHANGED <<now, cases, rows, files, served, job, seen>>

-----------------------------------------------------------------------------
(* softDeleteForCase                                                       *)

\* Mutant of FindToDelete: documents deleted before are found too.
FindStoredToDelete(r) ==
  LET d == job[r].doc
      found == Stored(d) /\ rows[d].case = job[r].case
  IN  /\ Transition(r, "findToDelete", IF found THEN "setDeletedAt" ELSE "rejected")
      /\ UNCHANGED <<now, cases, rows, files, audit, served, job, seen>>

FindToDelete(r) ==
  LET d == job[r].doc
      found == Live(d) /\ rows[d].case = job[r].case
  IN  /\ Transition(r, "findToDelete", IF found THEN "setDeletedAt" ELSE "rejected")
      /\ UNCHANGED <<now, cases, rows, files, audit, served, job, seen>>

\* update WHERE id: a row deleted meanwhile is marked again, a row removed
\* meanwhile is an error.
SetDeletedAt(r) ==
  LET d == job[r].doc
  IN  /\ Transition(r, "setDeletedAt", IF Stored(d) THEN "auditDelete" ELSE "failed")
      /\ rows' = IF Stored(d) THEN [rows EXCEPT ![d].deletedAt = now] ELSE rows
      /\ UNCHANGED <<now, cases, files, audit, served, job, seen>>

AuditDelete(r) ==
  /\ Transition(r, "auditDelete", "done")
  /\ Audit(r, "document.soft_deleted")
  /\ UNCHANGED <<now, cases, rows, files, served, job, seen>>

-----------------------------------------------------------------------------
(* getDownloadForCase                                                      *)

FindToDownload(r) ==
  LET d == job[r].doc
      found == Live(d) /\ rows[d].case = job[r].case /\ ReadableBy(job[r].user, d)
  IN  /\ Transition(r, "findToDownload", IF found THEN "accessFile" ELSE "rejected")
      /\ seen' = [seen EXCEPT ![r].live = Live(d)]
      /\ UNCHANGED <<now, cases, rows, files, audit, served, job>>

AccessFile(r) ==
  /\ Transition(r, "accessFile",
                IF job[r].doc \in files THEN "auditDownload" ELSE "rejected")
  /\ UNCHANGED <<now, cases, rows, files, audit, served, job, seen>>

AuditDownload(r) ==
  /\ Transition(r, "auditDownload", "openStream")
  /\ Audit(r, "document.downloaded")
  /\ UNCHANGED <<now, cases, rows, files, served, job, seen>>

\* createReadStream opens the file after the handler has returned.
OpenStream(r) ==
  LET there == job[r].doc \in files
  IN  /\ Transition(r, "openStream", IF there THEN "done" ELSE "failed")
      /\ served' = IF there THEN served \cup {r} ELSE served
      /\ UNCHANGED <<now, cases, rows, files, audit, job, seen>>

-----------------------------------------------------------------------------
(* listForCase                                                             *)

\* The sensitive documents of a case that its reader u is shown.
ShownSensitive(u, c) ==
  {d \in Docs : /\ Live(d) /\ rows[d].case = c /\ rows[d].sensitive
                /\ Has(u, "document:read:sensitive")}

FindAll(r) ==
  /\ Transition(r, "findAll",
                IF ShownSensitive(job[r].user, job[r].case) # {}
                THEN "auditList" ELSE "done")
  /\ UNCHANGED <<now, cases, rows, files, audit, served, job, seen>>

AuditList(r) ==
  /\ Transition(r, "auditList", "done")
  /\ Audit(r, "document.sensitive_accessed")
  /\ UNCHANGED <<now, cases, rows, files, served, job, seen>>

-----------------------------------------------------------------------------

\* An awaited call rejects and nothing is undone.
Fail(r) ==
  /\ pc[r] \in InFlightSteps \ {"writeFile"}
  /\ pc' = [pc EXCEPT ![r] = "failed"]
  /\ UNCHANGED <<now, cases, rows, files, audit, served, job, seen>>

\* What a crash does to the requests; a file being written may be cut off.
RequestsDie ==
  /\ pc' = [r \in Requests |-> IF InFlight(r) THEN "failed" ELSE pc[r]]
  /\ \E partial \in SUBSET {r \in Requests : pc[r] = "writeFile"} :
       files' = files \cup partial
  /\ UNCHANGED <<now, cases, rows, audit, served, job, seen>>

UploadStep(r) ==
  WriteFile(r) \/ WriteFileFails(r) \/ CreateRow(r) \/ AuditUpload(r)

DeleteStep(r) == FindToDelete(r) \/ SetDeletedAt(r) \/ AuditDelete(r)

DownloadStep(r) ==
  FindToDownload(r) \/ AccessFile(r) \/ AuditDownload(r) \/ OpenStream(r)

ListStep(r) == FindAll(r) \/ AuditList(r)

RequestStep(r) ==
  UploadStep(r) \/ DeleteStep(r) \/ DownloadStep(r) \/ ListStep(r) \/ Fail(r)

EnvironmentStep ==
  Tick \/ \E c \in BusyCases : StatusUpdated(c) \/ CaseReviewed(c)

DocNext ==
  \/ \E r \in Requests :
       RequestStep(r) \/ \E j \in Jobs : Admit(r, j) \/ Refuse(r, j)
  \/ EnvironmentStep

=============================================================================
