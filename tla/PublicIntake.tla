---------------------------- MODULE PublicIntake ----------------------------
(***************************************************************************)
(* A citizen's complaint becomes a case: createPublicCase and everything   *)
(* it sets off, the address lookup, the documents, the confirmation mail   *)
(* and the automatic triage run.                                           *)
(*                                                                         *)
(* The handler writes its records one by one without a transaction; an     *)
(* await may fail, the process may crash between any two of them, and the  *)
(* browser may lose its connection while the server goes on.  The access   *)
(* code reaches the citizen only in the response: the mail provider is a   *)
(* mock that sends nothing, and the mail it logs has the code masked.  A   *)
(* citizen whose submission was not confirmed may send it again, and       *)
(* nothing recognises it.                                                  *)
(*                                                                         *)
(* A submission names the profile, the case and the other rows it creates. *)
(* How the address lookup and the AI provider come to an outcome is told   *)
(* in KartverketAddress and TriageProvider; here they settle in one step.  *)
(***************************************************************************)
EXTENDS Naturals, FiniteSets

CONSTANTS
  Requests,         \* the submissions that may arrive
  Matters,          \* what citizens complain about
  Contents,         \* [Requests -> what the submission may hold]
  MaxFiles,         \* MAX_PUBLIC_DOCUMENT_FILES, small here
  None              \* not a content

\* valid: the payload, the files and the tenant pass every check, uploads are
\* allowed and the throttler lets the submission through.
Content == [valid : BOOLEAN, address : BOOLEAN, files : 0..MaxFiles]

ASSUME IntakeAssumption ==
  /\ MaxFiles \in Nat
  /\ Contents \in [Requests -> SUBSET Content]
  /\ None \notin Matters \cup Content

VARIABLES
  profiles,   \* [Requests -> state of the citizen profile it created]
  cases,      \* the submissions whose case row exists
  addresses,  \* the submissions whose address row exists
  files,      \* <<submission, number>>: the files on disk
  docs,       \* <<submission, number>>: the document rows
  audit,      \* <<submission, action, number>>, numbered for documents
  emails,     \* the submissions whose confirmation is in the email log
  triage,     \* [Requests -> where its automatic triage run is]
  pc,         \* where the handler is
  matter,     \* [Requests -> what it is about]
  content,    \* [Requests -> what it holds]
  next,       \* [Requests -> the number of the file at hand]
  answer      \* what the browser knows of its submission

tables == <<profiles, cases, addresses, files, docs, audit, emails>>
control == <<pc, matter, content, next, answer>>

intakeVars == <<tables, triage, control>>

ProfileStates == {"none", "named", "anonymised"}
FileNames == Requests \X (1..MaxFiles)
Actions == {"case.created_by_citizen", "integration.kartverket.address",
            "document.uploaded_by_citizen"}

HandlerSteps == {"createProfile", "createCase", "auditCase",
                 "createAddress", "auditAddress", "writeFile", "createDocument",
                 "auditDocument", "logEmail", "respond"}
TriageSteps == {"started", "provider"}
TriageStates == {"none", "stored", "failed", "dead"} \cup TriageSteps
Answers == {"none", "waiting", "confirmed", "error"}

InFlight(r) == pc[r] \in HandlerSteps

IntakeTypeOK ==
  /\ profiles \in [Requests -> ProfileStates]
  /\ cases \subseteq Requests
  /\ addresses \subseteq Requests
  /\ files \subseteq FileNames /\ docs \subseteq FileNames
  /\ audit \subseteq Requests \X Actions \X (0..MaxFiles)
  /\ emails \subseteq Requests
  /\ triage \in [Requests -> TriageStates]
  /\ pc \in [Requests -> {"idle", "done", "failed", "refused"} \cup HandlerSteps]
  /\ matter \in [Requests -> Matters \cup {None}]
  /\ next \in [Requests -> 1..(MaxFiles + 1)]
  /\ answer \in [Requests -> Answers]
  /\ content \in [Requests -> Content \cup {None}]
  /\ \A r \in Requests : pc[r] # "idle" => matter[r] # None /\ content[r] # None

IntakeInit ==
  /\ profiles = [r \in Requests |-> "none"]
  /\ cases = {} /\ addresses = {} /\ files = {} /\ docs = {}
  /\ audit = {} /\ emails = {}
  /\ triage = [r \in Requests |-> "none"]
  /\ pc = [r \in Requests |-> "idle"]
  /\ matter = [r \in Requests |-> None]
  /\ next = [r \in Requests |-> 1]
  /\ answer = [r \in Requests |-> "none"]
  /\ content = [r \in Requests |-> None]

-----------------------------------------------------------------------------
(* The browser.                                                            *)

\* A matter is submitted, and again only when no submission of it waits for
\* its answer or was confirmed: the form is disabled while it is sent.
Submit(r, m, c) ==
  /\ pc[r] = "idle"
  /\ \A s \in Requests : matter[s] = m => answer[s] = "error"
  /\ matter' = [matter EXCEPT ![r] = m]
  /\ content' = [content EXCEPT ![r] = c]
  /\ IF c.valid
     THEN /\ pc' = [pc EXCEPT ![r] = "createProfile"]
          /\ answer' = [answer EXCEPT ![r] = "waiting"]
     ELSE /\ pc' = [pc EXCEPT ![r] = "refused"]
          /\ answer' = [answer EXCEPT ![r] = "error"]
  /\ UNCHANGED <<tables, triage, next>>

\* The connection breaks; the handler does not notice.
LoseAnswer(r) ==
  /\ answer[r] = "waiting"
  /\ answer' = [answer EXCEPT ![r] = "error"]
  /\ UNCHANGED <<tables, triage, pc, matter, content, next>>

-----------------------------------------------------------------------------
(* createPublicCase                                                        *)

Goes(r, from, to) ==
  /\ pc[r] = from
  /\ pc' = [pc EXCEPT ![r] = to]
  /\ UNCHANGED <<matter, answer, content, triage>>

NextFileOrEmail(r) == IF next[r] <= content[r].files THEN "writeFile" ELSE "logEmail"

CreateProfile(r) ==
  /\ Goes(r, "createProfile", "createCase")
  /\ profiles' = [profiles EXCEPT ![r] = "named"]
  /\ UNCHANGED <<cases, addresses, files, docs, audit, emails, next>>

CreateCase(r) ==
  /\ Goes(r, "createCase", "auditCase")
  /\ cases' = cases \cup {r}
  /\ UNCHANGED <<profiles, addresses, files, docs, audit, emails, next>>

\* storeValidatedAddress stores nothing without an address.
AfterCase(r) == IF content[r].address THEN "createAddress" ELSE NextFileOrEmail(r)

AuditCase(r) ==
  /\ Goes(r, "auditCase", AfterCase(r))
  /\ audit' = audit \cup {<<r, "case.created_by_citizen", 0>>}
  /\ UNCHANGED <<profiles, cases, addresses, files, docs, emails, next>>

\* Whatever goes wrong at Kartverket is the status of the row, not an error.
CreateAddress(r) ==
  /\ Goes(r, "createAddress", "auditAddress")
  /\ addresses' = addresses \cup {r}
  /\ UNCHANGED <<profiles, cases, files, docs, audit, emails, next>>

AuditAddress(r) ==
  /\ Goes(r, "auditAddress", NextFileOrEmail(r))
  /\ audit' = audit \cup {<<r, "integration.kartverket.address", 0>>}
  /\ UNCHANGED <<profiles, cases, addresses, files, docs, emails, next>>

\* Mutant: the write is not awaited.
WriteFileUnawaited(r) ==
  /\ Goes(r, "writeFile", "createDocument")
  /\ files' \in {files, files \cup {<<r, next[r]>>}}
  /\ UNCHANGED <<profiles, cases, addresses, docs, audit, emails, next>>

\* storeCitizenUploadedDocument, for one file after the other.
WriteFile(r) ==
  /\ Goes(r, "writeFile", "createDocument")
  /\ files' = files \cup {<<r, next[r]>>}
  /\ UNCHANGED <<profiles, cases, addresses, docs, audit, emails, next>>

CreateDocument(r) ==
  /\ Goes(r, "createDocument", "auditDocument")
  /\ docs' = docs \cup {<<r, next[r]>>}
  /\ UNCHANGED <<profiles, cases, addresses, files, audit, emails, next>>

\* Mutant: the last file is forgotten.
AuditDocumentOffByOne(r) ==
  /\ next[r] <= MaxFiles
  /\ next' = [next EXCEPT ![r] = @ + 1]
  /\ Goes(r, "auditDocument",
          IF next[r] + 1 < content[r].files THEN "writeFile" ELSE "logEmail")
  /\ audit' = audit \cup {<<r, "document.uploaded_by_citizen", next[r]>>}
  /\ UNCHANGED <<profiles, cases, addresses, files, docs, emails>>

AuditDocument(r) ==
  /\ next[r] <= MaxFiles
  /\ next' = [next EXCEPT ![r] = @ + 1]
  /\ Goes(r, "auditDocument",
          IF next[r] + 1 <= content[r].files THEN "writeFile" ELSE "logEmail")
  /\ audit' = audit \cup {<<r, "document.uploaded_by_citizen", next[r]>>}
  /\ UNCHANGED <<profiles, cases, addresses, files, docs, emails>>

\* logCaseConfirmationSafely: an error becomes an operational event.
LogEmail(r) ==
  /\ Goes(r, "logEmail", "respond")
  /\ emails' \in {emails, emails \cup {r}}
  /\ UNCHANGED <<profiles, cases, addresses, files, docs, audit, next>>

\* The run is started without anyone waiting for it, and the citizen gets the
\* case reference and the access code, if the browser is still there.
Respond(r) ==
  /\ pc[r] = "respond"
  /\ pc' = [pc EXCEPT ![r] = "done"]
  /\ triage' = [triage EXCEPT ![r] = "started"]
  /\ answer' = [answer EXCEPT ![r] = IF @ = "waiting" THEN "confirmed" ELSE @]
  /\ UNCHANGED <<tables, matter, next, content>>

\* Mutant: the error is not passed on to the browser.
FailIntakeSilently(r) ==
  /\ pc[r] \in HandlerSteps \ {"logEmail", "respond"}
  /\ pc' = [pc EXCEPT ![r] = "failed"]
  /\ UNCHANGED <<tables, triage, matter, next, content, answer>>

\* An awaited call rejects; the mail swallows its own error.
FailIntake(r) ==
  /\ pc[r] \in HandlerSteps \ {"logEmail", "respond"}
  /\ pc' = [pc EXCEPT ![r] = "failed"]
  /\ answer' = [answer EXCEPT ![r] = "error"]
  /\ UNCHANGED <<tables, triage, matter, next, content>>

-----------------------------------------------------------------------------
(* startAutomaticAITriage, as far as intake goes; CaseWorkflow has what a  *)
(* run does between its reads and writes.                                  *)

RunGoes(r, from, to) ==
  /\ triage[r] = from
  /\ triage' = [triage EXCEPT ![r] = to]
  /\ UNCHANGED <<tables, control>>

\* runSystemCaseTriage finds the case and the departments, and asks.
AskProvider(r) ==
  /\ r \in cases
  /\ RunGoes(r, "started", "provider")

\* The provider's answer, or its classified error, is stored as a result.
StoreOutcome(r) == RunGoes(r, "provider", "stored")

\* The run rejects; the catch of startAutomaticAITriage records an event.
RunRejects(r) ==
  /\ triage[r] \in TriageSteps
  /\ RunGoes(r, triage[r], "failed")

-----------------------------------------------------------------------------

HandlerStep(r) ==
  \/ CreateProfile(r) \/ CreateCase(r) \/ AuditCase(r)
  \/ CreateAddress(r) \/ AuditAddress(r) \/ WriteFile(r) \/ CreateDocument(r)
  \/ AuditDocument(r) \/ LogEmail(r) \/ Respond(r) \/ FailIntake(r)

RunStep(r) ==
  AskProvider(r) \/ StoreOutcome(r) \/ RunRejects(r)

IntakeNext ==
  \E r \in Requests :
    \/ \E m \in Matters, c \in Contents[r] : Submit(r, m, c)
    \/ LoseAnswer(r) \/ HandlerStep(r) \/ RunStep(r)

\* The process dies with whatever it was doing; rows and files stay.
IntakeDies ==
  /\ pc' = [r \in Requests |-> IF InFlight(r) THEN "failed" ELSE pc[r]]
  /\ answer' = [r \in Requests |-> IF answer[r] = "waiting" THEN "error" ELSE answer[r]]
  /\ triage' = [r \in Requests |-> IF triage[r] \in TriageSteps THEN "dead" ELSE triage[r]]
  /\ UNCHANGED <<tables, matter, content, next>>

-----------------------------------------------------------------------------
(* Properties.                                                             *)

\* All the records of a submission but its mail.
Complete(r) ==
  /\ profiles[r] # "none" /\ r \in cases
  /\ <<r, "case.created_by_citizen", 0>> \in audit
  /\ content[r].address =>
       /\ r \in addresses
       /\ <<r, "integration.kartverket.address", 0>> \in audit
  /\ \A i \in 1..content[r].files :
       /\ <<r, i>> \in files \cap docs
       /\ <<r, "document.uploaded_by_citizen", i>> \in audit

\* createPublicCase confirms, mails and hands to the AI only what is completely
\* stored, whatever failed on the way.
ConfirmedIsComplete ==
  \A r \in Requests :
    answer[r] = "confirmed" \/ r \in emails \/ triage[r] # "none" => Complete(r)

\* A case whose access code no citizen holds is one whose submission is under
\* way, or was reported as an error: it failed, crashed or its answer was lost.
\* Nobody can ever look up its status.
CodelessCasesExplained ==
  \A r \in cases : answer[r] # "confirmed" =>
    \/ answer[r] = "waiting" /\ InFlight(r)
    \/ answer[r] = "error"

\* Of several cases about one matter at most one was confirmed, and it came
\* last: the others are what failed attempts left behind.
RepeatedCasesUnconfirmed ==
  \A r, s \in cases : r # s /\ matter[r] = matter[s] =>
    answer[r] = "error" \/ answer[s] = "error"

\* createPublicCase: of the cases that citizens cannot follow, and of those that
\* tell one matter twice, every one goes back to an error the citizen was shown.
StrayCasesExplained == CodelessCasesExplained /\ RepeatedCasesUnconfirmed

\* storeCitizenUploadedDocument: a file without a row belongs to a submission
\* that is storing it or has stopped there; a row has its file.
UploadedFilesExplained ==
  /\ docs \subseteq files
  /\ \A r \in Requests, i \in 1..MaxFiles :
       <<r, i>> \in files \ docs => next[r] = i /\ pc[r] \in {"createDocument", "failed"}

\* A confirmed case leaves a triage result, completed or failed, unless the
\* process dies or the run's own reads and writes fail.
ConfirmedGetsTriage ==
  \A r \in Requests :
    answer[r] = "confirmed" ~> triage[r] \in {"stored", "failed", "dead"}

\* The browser always gets an answer: every call of the handler settles.
SubmissionsAnswered ==
  \A r \in Requests : answer[r] = "waiting" ~> answer[r] # "waiting"

=============================================================================
