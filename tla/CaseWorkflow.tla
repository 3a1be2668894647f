---------------------------- MODULE CaseWorkflow ----------------------------
(***************************************************************************)
(* The life of a case inside the municipality: status changes, internal    *)
(* notes, AI triage runs and the human review of their suggestions, as     *)
(* concurrent HTTP requests of one API process (cases.service.ts and       *)
(* ai.service.ts).                                                         *)
(*                                                                         *)
(* No handler runs in a database transaction.  A handler is therefore a    *)
(* sequence of steps, one per awaited call, and the steps of different     *)
(* requests interleave; whatever it checks, it checks on the row it read   *)
(* in its first step.  An awaited call may fail and the process may crash  *)
(* between any two steps: what was written before stays.                   *)
(*                                                                         *)
(* Each member of Requests is one request (or one fire-and-forget triage   *)
(* run), served once.                                                      *)
(***************************************************************************)
EXTENDS Permissions

CONSTANTS
  Requests,         \* the requests that may arrive
  Jobs,             \* what a request may ask for
  System,           \* the actor of an automatic triage run: no user at all
  Classes,          \* (category, urgency) pairs, indivisible here
  UnknownSlug,      \* a department slug the tenant does not have
  None,             \* not a job, nor a row, nor fields
  Suggestions,      \* the fields an AI provider may suggest
  StartRows         \* the case rows intake and the demo seed create

Statuses == {"new", "triage_pending", "triaged", "in_progress",
             "waiting_for_citizen", "closed", "rejected"}

\* The official fields of a case that an AI run only suggests: category,
\* urgency and assigned department.
Fields == [class : Classes, department : MaybeDepartment]

\* closedAt tells whether the column is set; its value is RetentionCleanup's
\* concern.
CaseRow == [status : Statuses, closedAt : BOOLEAN, official : Fields]

StatusJob == [kind : {"status"}, user : Users, case : Cases, next : Statuses]
NoteJob   == [kind : {"note"}, user : Users, case : Cases]
TriageJob == [kind : {"triage"}, user : Users \cup {System}, case : Cases]
ReviewJob == [kind : {"review"}, user : Users, case : Cases,
              result : Requests,        \* the run whose result is reviewed
              accepted : BOOLEAN,       \* wasAiSuggestionAccepted
              input : [class : Classes,
                       department : MaybeDepartment \cup {UnknownSlug}]]

AnyJob == StatusJob \cup NoteJob \cup TriageJob \cup ReviewJob

ASSUME JobsAssumption ==
  /\ Jobs \subseteq AnyJob
  /\ None \notin AnyJob

ASSUME ValuesAssumption ==
  /\ System \notin Users
  /\ UnknownSlug \notin MaybeDepartment
  /\ None \notin Fields \cup CaseRow
  /\ Suggestions \subseteq Fields

\* Intake creates unclassified cases in status new; the demo seed also closed
\* and rejected ones, with closedAt set.
ASSUME StartRowsAssumption ==
  /\ StartRows \subseteq CaseRow
  /\ \A row \in StartRows :
       /\ row.status = "closed" => row.closedAt
       /\ row.closedAt => row.status \in {"closed", "rejected"}

VARIABLES
  cases,      \* [Cases -> CaseRow]: the case table
  results,    \* [Requests -> state of the row a run stored with its suggestion]
  failures,   \* the runs that stored an AITriageResult with status failed
  reviews,    \* the requests that stored an AIReview
  notes,      \* the requests that stored an InternalNote
  audit,      \* <<request, action>>: the audit events
  emails,     \* the requests that stored an EmailLog
  pc,         \* where each request is
  job,        \* what it asks for
  seen,       \* the case row it read first
  held,       \* the fields in its hands: a run's suggestion, a review's approval
  origin      \* history: the row each case started as

vars == <<cases, results, failures, reviews, notes, audit, emails,
          pc, job, seen, held, origin>>

-----------------------------------------------------------------------------

Settled == {"done", "rejected", "failed"}

StatusSteps == {"updateStatus", "auditStatus", "emailStatus"}
NoteSteps   == {"createNote", "auditNote"}
RunSteps    == {"departments", "provider", "storeResult", "auditResult",
                "storeFailure", "auditFailure"}
ReviewSteps == {"findResult", "createReview", "updateCase", "markReviewed",
                "auditReview"}

InFlightSteps == StatusSteps \cup NoteSteps \cup RunSteps \cup ReviewSteps

InFlight(r) == pc[r] \in InFlightSteps

ResultStates == {"absent", "completed", "reviewed"}

AuditActions == {"case.status_updated", "case.internal_note_created",
                 "ai.triage_result_created", "ai.triage_result_failed",
                 "ai.triage_review_created"}

TypeOK ==
  /\ cases \in [Cases -> CaseRow]
  /\ results \in [Requests -> ResultStates]
  /\ failures \subseteq Requests
  /\ reviews \subseteq Requests
  /\ notes \subseteq Requests
  /\ audit \subseteq Requests \X AuditActions
  /\ emails \subseteq Requests
  /\ pc \in [Requests -> {"idle"} \cup InFlightSteps \cup Settled]
  /\ job \in [Requests -> AnyJob \cup {None}]
  /\ seen \in [Requests -> CaseRow \cup {None}]
  /\ held \in [Requests -> Fields \cup {None}]
  /\ origin \in [Cases -> CaseRow]

Init ==
  /\ cases \in [Cases -> StartRows]
  /\ origin = cases
  /\ results = [r \in Requests |-> "absent"]
  /\ failures = {} /\ reviews = {} /\ notes = {}
  /\ audit = {} /\ emails = {}
  /\ pc = [r \in Requests |-> "idle"]
  /\ job = [r \in Requests |-> None]
  /\ seen = [r \in Requests |-> None]
  /\ held = [r \in Requests |-> None]

-----------------------------------------------------------------------------
(* Helpers of the steps.                                                   *)

Transition(r, from, to) ==
  /\ pc[r] = from
  /\ pc' = [pc EXCEPT ![r] = to]

Audit(r, action) == audit' = audit \cup {<<r, action>>}

ForeignTenant(j) == j.user # System /\ TenantOf[j.user] # TenantOf[j.case]

\* allowedStatusTransitions
AllowedNext ==
  [new                 |-> {"triage_pending", "rejected"},
   triage_pending      |-> {"triaged", "rejected"},
   triaged             |-> {"in_progress", "waiting_for_citizen", "rejected"},
   in_progress         |-> {"waiting_for_citizen", "closed", "rejected"},
   waiting_for_citizen |-> {"in_progress", "closed", "rejected"},
   closed              |-> {},
   rejected            |-> {}]

AllowedTransition(current, next) ==
  current = next \/ next \in AllowedNext[current]

MayTouch(j, row) == CanUpdateCase(j.user, row.official.department, j.case)

\* findAccessibleCase followed by assertCanUpdateCase.
MayTouchAI(j, row) ==
  /\ CanReadCase(j.user, row.official.department)
  /\ MayTouch(j, row)

-----------------------------------------------------------------------------
(* Arrival: the permission guard of the route, the read of the case row    *)
(* and the checks made on it, which run before the next await.             *)

RoutePermissions ==
  [status |-> {"case:update:department", "case:update:all_tenant"},
   note   |-> {"case:update:department", "case:update:all_tenant"},
   triage |-> {"ai:triage:run"},
   review |-> {"ai:triage:review"}]

RouteAllows(j) ==
  j.user # System => \E p \in RoutePermissions[j.kind] : Has(j.user, p)

\* Mutants of ChecksPass: the status check, or the access check, is forgotten.
ChecksPassNoTable(j, row) ==
  /\ j.kind \in {"status", "note"} => MayTouch(j, row)
  /\ j.kind \in {"triage", "review"} /\ j.user # System => MayTouchAI(j, row)

ChecksPassNoAccess(j, row) ==
  /\ j.kind = "status" => AllowedTransition(row.status, j.next)
  /\ j.kind \in {"triage", "review"} /\ j.user # System => MayTouchAI(j, row)

ChecksPass(j, row) ==
  /\ j.kind \in {"status", "note"} => MayTouch(j, row)
  /\ j.kind = "status" => AllowedTransition(row.status, j.next)
  /\ j.kind \in {"triage", "review"} /\ j.user # System => MayTouchAI(j, row)

Admitted(j, row) ==
  RouteAllows(j) /\ ~ForeignTenant(j) /\ ChecksPass(j, row)

FirstStep(j) == [status |-> "updateStatus", note |-> "createNote",
                 triage |-> "departments", review |-> "findResult"][j.kind]

Admit(r, j) ==
  /\ Admitted(j, cases[j.case])
  /\ Transition(r, "idle", FirstStep(j))
  /\ job' = [job EXCEPT ![r] = j]
  /\ seen' = [seen EXCEPT ![r] = cases[j.case]]
  /\ UNCHANGED <<cases, results, failures, reviews, notes, audit, emails, held,
                 origin>>

\* 401, 403, 404 or 400: nothing is written.
Refuse(r, j) ==
  /\ ~Admitted(j, cases[j.case])
  /\ Transition(r, "idle", "rejected")
  /\ UNCHANGED <<cases, results, failures, reviews, notes, audit, emails, job,
                 seen, held, origin>>

-----------------------------------------------------------------------------
(* updateStatus                                                            *)

\* Mutants of UpdateStatus: closedAt is only ever set; the audit is skipped.
UpdateStatusKeepsClosedAt(r) ==
  /\ Transition(r, "updateStatus", "auditStatus")
  /\ cases' = [cases EXCEPT ![job[r].case].status = job[r].next,
                            ![job[r].case].closedAt = @ \/ job[r].next = "closed"]
  /\ UNCHANGED <<results, failures, reviews, notes, audit, emails, job, seen,
                 held, origin>>

UpdateStatusUnaudited(r) ==
  /\ Transition(r, "updateStatus", "emailStatus")
  /\ cases' = [cases EXCEPT ![job[r].case].status = job[r].next,
                            ![job[r].case].closedAt = (job[r].next = "closed")]
  /\ UNCHANGED <<results, failures, reviews, notes, audit, emails, job, seen,
                 held, origin>>

\* case.update WHERE id: the row is not compared with the one checked.
UpdateStatus(r) ==
  /\ Transition(r, "updateStatus", "auditStatus")
  /\ cases' = [cases EXCEPT ![job[r].case].status = job[r].next,
                            ![job[r].case].closedAt = (job[r].next = "closed")]
  /\ UNCHANGED <<results, failures, reviews, notes, audit, emails, job, seen,
                 held, origin>>

AuditStatus(r) ==
  /\ Transition(r, "auditStatus", "emailStatus")
  /\ Audit(r, "case.status_updated")
  /\ UNCHANGED <<cases, results, failures, reviews, notes, emails, job, seen,
                 held, origin>>

\* logStatusChangedSafely: a failing log is reported and the request succeeds.
EmailStatus(r) ==
  /\ Transition(r, "emailStatus", "done")
  /\ emails' \in {emails, emails \cup {r}}
  /\ UNCHANGED <<cases, results, failures, reviews, notes, audit, job, seen,
                 held, origin>>

-----------------------------------------------------------------------------
(* addInternalNote                                                         *)

CreateNote(r) ==
  /\ Transition(r, "createNote", "auditNote")
  /\ notes' = notes \cup {r}
  /\ UNCHANGED <<cases, results, failures, reviews, audit, emails, job, seen,
                 held, origin>>

AuditNote(r) ==
  /\ Transition(r, "auditNote", "done")
  /\ Audit(r, "case.internal_note_created")
  /\ UNCHANGED <<cases, results, failures, reviews, notes, emails, job, seen,
                 held, origin>>

-----------------------------------------------------------------------------
(* runCaseTriageForCase: the try block starts after the departments read   *)
(* and covers the provider call and the writes that follow it, so an error *)
(* of any of them leads to storeFailure.                                   *)

ListDepartments(r) ==
  /\ Transition(r, "departments", "provider")
  /\ UNCHANGED <<cases, results, failures, reviews, notes, audit, emails, job,
                 seen, held, origin>>

\* A suggested slug the tenant does not have leaves the department null.
ProviderAnswers(r) ==
  /\ Transition(r, "provider", "storeResult")
  /\ \E suggestion \in Suggestions : held' = [held EXCEPT ![r] = suggestion]
  /\ UNCHANGED <<cases, results, failures, reviews, notes, audit, emails, job,
                 seen, origin>>

\* Mutant of StoreResult: the suggestion is applied at once.
StoreResultApplies(r) ==
  /\ Transition(r, "storeResult", "auditResult")
  /\ results' = [results EXCEPT ![r] = "completed"]
  /\ cases' = [cases EXCEPT ![job[r].case].official = held[r]]
  /\ UNCHANGED <<failures, reviews, notes, audit, emails, job, seen, held,
                 origin>>

StoreResult(r) ==
  /\ Transition(r, "storeResult", "auditResult")
  /\ results' = [results EXCEPT ![r] = "completed"]
  /\ UNCHANGED <<cases, failures, reviews, notes, audit, emails, job, seen,
                 held, origin>>

AuditResult(r) ==
  /\ Transition(r, "auditResult", "done")
  /\ Audit(r, "ai.triage_result_created")
  /\ UNCHANGED <<cases, results, failures, reviews, notes, emails, job, seen,
                 held, origin>>

\* Mutant of CatchRun: the error is swallowed and nothing is stored.
CatchRunSilently(r) ==
  /\ pc[r] \in {"provider", "storeResult", "auditResult"}
  /\ pc' = [pc EXCEPT ![r] = "done"]
  /\ UNCHANGED <<cases, results, failures, reviews, notes, audit, emails, job,
                 seen, held, origin>>

\* The catch clause: the provider gave up, or a write of the try block failed.
CatchRun(r) ==
  /\ pc[r] \in {"provider", "storeResult", "auditResult"}
  /\ pc' = [pc EXCEPT ![r] = "storeFailure"]
  /\ UNCHANGED <<cases, results, failures, reviews, notes, audit, emails, job,
                 seen, held, origin>>

StoreFailure(r) ==
  /\ Transition(r, "storeFailure", "auditFailure")
  /\ failures' = failures \cup {r}
  /\ UNCHANGED <<cases, results, reviews, notes, audit, emails, job, seen,
                 held, origin>>

AuditFailure(r) ==
  /\ Transition(r, "auditFailure", "done")
  /\ Audit(r, "ai.triage_result_failed")
  /\ UNCHANGED <<cases, results, failures, reviews, notes, emails, job, seen,
                 held, origin>>

-----------------------------------------------------------------------------
(* reviewCaseTriage                                                        *)

\* Mutants of Reviewable: results of any outcome; results already reviewed.
ReviewableAnyRun(j) == job[j.result] # None /\ job[j.result].case = j.case

ReviewableTwice(j) ==
  /\ results[j.result] # "absent"
  /\ job[j.result].case = j.case

Reviewable(j) ==
  /\ results[j.result] = "completed"
  /\ job[j.result].case = j.case

ApprovedFields(j) == IF j.accepted THEN held[j.result] ELSE j.input

\* Mutant of FindResult: an unknown department slug is stored as it came.
FindResultAnySlug(r) ==
  LET found == Reviewable(job[r])
  IN  /\ Transition(r, "findResult", IF found THEN "createReview" ELSE "rejected")
      /\ held' = IF found THEN [held EXCEPT ![r] = ApprovedFields(job[r])] ELSE held
      /\ UNCHANGED <<cases, results, failures, reviews, notes, audit, emails,
                     job, seen, origin>>

\* The result is read only if it is completed and belongs to the case; an
\* unknown department slug is a 404.  The departments never change.
FindResult(r) ==
  LET j == job[r]
      found == Reviewable(j) /\ (j.accepted \/ j.input.department # UnknownSlug)
  IN  /\ Transition(r, "findResult", IF found THEN "createReview" ELSE "rejected")
      /\ held' = IF found THEN [held EXCEPT ![r] = ApprovedFields(j)] ELSE held
      /\ UNCHANGED <<cases, results, failures, reviews, notes, audit, emails,
                     job, seen, origin>>

CreateReview(r) ==
  /\ Transition(r, "createReview", "updateCase")
  /\ reviews' = reviews \cup {r}
  /\ UNCHANGED <<cases, results, failures, notes, audit, emails, job, seen,
                 held, origin>>

\* Mutants of UpdateCase: a correction is ignored; the result is not marked.
UpdateCaseWithSuggestion(r) ==
  /\ Transition(r, "updateCase", "markReviewed")
  /\ cases' = [cases EXCEPT ![job[r].case].official = held[job[r].result],
                            ![job[r].case].status = "triaged"]
  /\ UNCHANGED <<results, failures, reviews, notes, audit, emails, job, seen,
                 held, origin>>

\* Overwrites the official fields and sets triaged from any status; closedAt
\* is left as it is.
UpdateCase(r) ==
  /\ Transition(r, "updateCase", "markReviewed")
  /\ cases' = [cases EXCEPT ![job[r].case].official = held[r],
                            ![job[r].case].status = "triaged"]
  /\ UNCHANGED <<results, failures, reviews, notes, audit, emails, job, seen,
                 held, origin>>

MarkReviewed(r) ==
  /\ Transition(r, "markReviewed", "auditReview")
  /\ results' = [results EXCEPT ![job[r].result] = "reviewed"]
  /\ UNCHANGED <<cases, failures, reviews, notes, audit, emails, job, seen,
                 held, origin>>

AuditReview(r) ==
  /\ Transition(r, "auditReview", "done")
  /\ Audit(r, "ai.triage_review_created")
  /\ UNCHANGED <<cases, results, failures, reviews, notes, emails, job, seen,
                 held, origin>>

-----------------------------------------------------------------------------
(* Failures.                                                               *)

\* The steps whose error no catch clause takes: it ends the request.
UncaughtSteps == InFlightSteps \ {"emailStatus", "provider", "storeResult",
                                  "auditResult"}

\* An awaited call rejects.
Fail(r) ==
  /\ pc[r] \in UncaughtSteps
  /\ pc' = [pc EXCEPT ![r] = "failed"]
  /\ UNCHANGED <<cases, results, failures, reviews, notes, audit, emails, job,
                 seen, held, origin>>

\* The process dies: every request in flight is gone, nothing is resumed.
Crash ==
  /\ \E r \in Requests : InFlight(r)
  /\ pc' = [r \in Requests |-> IF InFlight(r) THEN "failed" ELSE pc[r]]
  /\ UNCHANGED <<cases, results, failures, reviews, notes, audit, emails, job,
                 seen, held, origin>>

\* Every request has been served.
AllServed ==
  /\ \A r \in Requests : pc[r] \in Settled
  /\ UNCHANGED vars

-----------------------------------------------------------------------------

StatusStep(r) == UpdateStatus(r) \/ AuditStatus(r) \/ EmailStatus(r)

NoteStep(r) == CreateNote(r) \/ AuditNote(r)

RunStep(r) ==
  \/ ListDepartments(r) \/ ProviderAnswers(r) \/ CatchRun(r)
  \/ StoreResult(r) \/ AuditResult(r)
  \/ StoreFailure(r) \/ AuditFailure(r)

ReviewStep(r) ==
  \/ FindResult(r) \/ CreateReview(r) \/ UpdateCase(r) \/ MarkReviewed(r)
  \/ AuditReview(r)

\* What the await of a request in flight settles to.
Settle(r) == StatusStep(r) \/ NoteStep(r) \/ RunStep(r) \/ ReviewStep(r) \/ Fail(r)

Next ==
  \/ \E r \in Requests : Settle(r) \/ \E j \in Jobs : Admit(r, j) \/ Refuse(r, j)
  \/ Crash
  \/ AllServed

Spec == Init /\ [][Next]_vars

\* Every awaited call settles: a query resolves or rejects, and the provider
\* call is aborted after its timeout.
FairSpec == Spec /\ \A r \in Requests : WF_vars(Settle(r))

-----------------------------------------------------------------------------
(* Properties.                                                             *)

\* The case that request r is about.
CaseOf(r) == job[r].case

\* A case's category, urgency and department are the ones it was created with
\* or exactly those of one stored human review of that case: an AI run never
\* changes them, and two reviews never mix (reviewCaseTriage writes the three
\* in one update, after the review row).
OfficialFieldsReviewed ==
  \A c \in Cases :
    \/ cases[c].official = origin[c].official
    \/ \E r \in reviews : CaseOf(r) = c /\ held[r] = cases[c].official

\* A closed case has its closing time, which retention and the time-to-close
\* statistics read; and a closing time is found only on a closed case, on one
\* a review took back to triaged, or on a case seeded as rejected.
ClosedAtConsistent ==
  \A c \in Cases :
    /\ cases[c].status = "closed" => cases[c].closedAt
    /\ cases[c].closedAt =>
         \/ cases[c].status \in {"closed", "triaged"}
         \/ cases[c].status = "rejected" /\ origin[c].status = "rejected"

\* A review is about a result that a run of the same case completed; an
\* accepted review approves that run's suggestion; and a result is marked
\* reviewed only when a stored review of it has been applied.
ReviewsRestOnResults ==
  /\ \A r \in reviews :
       /\ results[job[r].result] # "absent"
       /\ CaseOf(job[r].result) = CaseOf(r)
       /\ job[r].accepted => held[r] = held[job[r].result]
  /\ \A run \in Requests : results[run] = "reviewed" =>
       \E r \in reviews : /\ job[r].result = run
                          /\ pc[r] \in {"auditReview", "done", "failed"}

\* The status of a case is the one it started with or is accounted for by a
\* request that wrote it: its audit event is stored, or the request is still
\* on its way to storing it, or it failed.  No other step changes a status.
StatusAccountedFor ==
  \A c \in Cases :
    \/ cases[c].status = origin[c].status
    \/ \E r \in Requests :
         /\ job[r] # None /\ CaseOf(r) = c
         /\ \/ /\ job[r].kind = "status" /\ job[r].next = cases[c].status
               /\ \/ <<r, "case.status_updated">> \in audit
                  \/ pc[r] \in {"auditStatus", "failed"}
            \/ /\ r \in reviews /\ cases[c].status = "triaged"
               /\ \/ <<r, "ai.triage_review_created">> \in audit
                  \/ pc[r] \in {"markReviewed", "auditReview", "failed"}

\* The audit log never reports what did not happen: a reviewed case has its
\* review row and its result marked, a created result its row, a failed run its
\* failed result, a note its row; the citizen's mail follows the audit event.
AuditReportsFacts ==
  /\ \A r \in Requests :
       /\ <<r, "ai.triage_review_created">> \in audit =>
            r \in reviews /\ results[job[r].result] = "reviewed"
       /\ <<r, "ai.triage_result_created">> \in audit => results[r] # "absent"
       /\ <<r, "ai.triage_result_failed">> \in audit => r \in failures
       /\ <<r, "case.internal_note_created">> \in audit => r \in notes
  /\ \A r \in emails : <<r, "case.status_updated">> \in audit

\* A run that stores a failed result next to its completed one is a run whose
\* completed result never got its audit event: no other error puts two results
\* on one run.
SecondResultUnaudited ==
  \A r \in failures :
    results[r] # "absent" => <<r, "ai.triage_result_created">> \notin audit

\* The case row, the triage results, the mails and the audit log agree wherever
\* the handlers stop (updateStatus, runCaseTriageForCase, reviewCaseTriage).
RecordsAgree == StatusAccountedFor /\ AuditReportsFacts /\ SecondResultUnaudited

\* The request whose update changed case c in this step.
Writes(r, c) ==
  /\ job[r] # None /\ CaseOf(r) = c
  /\ pc[r] \in {"updateStatus", "updateCase"} /\ pc'[r] # pc[r]

\* A status changes along the transition table, or by a review, or because the
\* row was changed by another request between the writer's check and its write.
StatusFollowsTable ==
  [][\A c \in Cases : cases'[c].status # cases[c].status =>
       \E r \in Requests :
         /\ Writes(r, c)
         /\ \/ cases'[c].status \in AllowedNext[cases[c].status]
            \/ pc[r] = "updateCase" /\ cases'[c].status = "triaged"
            \/ seen[r].status # cases[c].status]_vars

\* Whoever changes a case is of its municipality, is no guest kept off it, and
\* may change it in the department it is in, unless the case was moved to
\* another one between the writer's check and its write.
WritersInScope ==
  [][\A c \in Cases : cases'[c] # cases[c] =>
       \E r \in Requests :
         /\ Writes(r, c)
         /\ TenantOf[job[r].user] = TenantOf[c]
         /\ GuestMayModify(job[r].user, c)
         /\ \/ CanUpdateCase(job[r].user, cases[c].official.department, c)
            \/ seen[r].official.department # cases[c].official.department]_vars

\* A result that has been reviewed is reviewed again only by a request that
\* found it completed: two reviews of it overlapped, or an earlier one stopped
\* before marking it.
NoSecondReviewFromReviewed ==
  [][\A r \in Requests : pc[r] = "findResult" /\ pc'[r] = "createReview"
       => results[job[r].result] = "completed"
          /\ \A s \in reviews : job[s].result = job[r].result =>
               pc[s] \in {"updateCase", "markReviewed", "failed"}]_vars

\* A run that reaches the provider ends with a stored result, completed or
\* failed, unless the process died or the database refused the failed row too.
RunsLeaveResult ==
  \A r \in Requests :
    pc[r] = "provider" ~> \/ results[r] # "absent"
                          \/ r \in failures
                          \/ pc[r] = "failed"

-----------------------------------------------------------------------------
(* What the documentation says and the code does not do.                   *)

Terminal == {"closed", "rejected"}

\* "blocks transitions from closed and rejected terminal statuses"
\* (cases.service.spec.ts): a closed or rejected case stays so.
TerminalStatusesStay ==
  [][\A c \in Cases : cases[c].status \in Terminal =>
       cases'[c].status = cases[c].status]_vars

-----------------------------------------------------------------------------
(* CaseWorkflow implements the promise of docs/adr/0003: a decision is     *)
(* recorded by CreateReview and takes effect in UpdateCase.                *)

OfficialOf == [c \in Cases |-> cases[c].official]
ApprovedFor == [c \in Cases |-> {held[r] : r \in {x \in reviews : CaseOf(x) = c}}]

HumanReview == INSTANCE HumanReviewedTriage
                 WITH official <- OfficialOf, approved <- ApprovedFor

\* Every step of the workflow is, for the official fields, a recorded human
\* decision, the effect of one, or nothing.
ImplementsHumanReview == HumanReview!Spec


=============================================================================
