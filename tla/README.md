# KommuneFlow AI: TLA+ verification

TLA+ modules, TLC runs and TLAPS proofs about KommuneFlow AI, a case-handling
system for Norwegian municipalities: citizens file cases, an AI provider
suggests how to classify and route them, case workers review the suggestion
and handle the case. The code is a NestJS API over PostgreSQL (`apps/api`), a
Next.js front end (`apps/web`) and a Python ELT job (`apps/etl`).

Paths below are relative to `apps/api/src/modules` unless they start with
`apps/`, `docs/` or `scripts/`.

## 1. Inventory

The API runs as one Node.js process. A request runs alone between two
`await`s; at every `await` (a query, a file operation, a remote call) other
requests run. Almost no handler uses a database transaction and no update
compares the row with the one that was read, so a handler is a sequence of
separately committed steps. The pages of the web application are a second
place of concurrency: several requests of one page are on their way at once,
and hardly any page cancels or numbers them. The ELT job is a second program
on the same tables, in transactions. That is where this code can go wrong, and
what the models are about.

| Component | State | Operations | Hard behaviour | What must hold |
|---|---|---|---|---|
| Case workflow (`cases/`) | case row: status, closedAt, category, urgency, department; internal notes | `updateStatus`, `addInternalNote`, reads | checks made on a row read earlier; write, audit and email in separate steps | statuses follow the table, closing time agrees with status, every change accounted for |
| Public intake (`cases/`) | citizen, case, address, documents, email log | `createPublicCase`, `findPublicStatus` | writes that may stop anywhere; a lost answer; the triage run is fired and forgotten | only what is complete is confirmed; a case nobody can follow goes back to an error that was shown |
| AI triage and review (`ai/`) | triage results (completed, failed, reviewed), reviews | `runCaseTriage`, `runSystemCaseTriage`, `reviewCaseTriage` | several runs and reviews of one case at once; the catch clause covers the writes after the provider call | only humans change official fields (ADR 0003); every run leaves a result |
| AI providers (`ai/openai.provider.ts`, `mock-ai.provider.ts`) | none | `generateCaseTriage` | two attempts, timeout, retryable statuses; ties and missing departments | bounded attempts; the error class matches what happened |
| Roles and access (`auth/permissions*.ts`) | the role table | `roleHasPermission`, `assertCanReadCase`, `assertCanUpdateCase` | department of a case changes under a request | tenant and department isolation |
| Sessions (`auth/`, `apps/web/src/lib`) | signed cookie, user row; what each tab believes | login, logout, demo session, guard, `useInternalSession` | a token outlives role changes, deactivation and logout; tabs share one cookie | nobody signs in who may not; a tab shows nothing older than its profile; a live session is ended by nobody else |
| Documents (`documents/`) | `case_documents` rows, files on disk | upload, soft delete, download, list | rows and files written apart; cleanup runs at the same time | a live row has its file; a deleted document is not served |
| Privacy (`privacy/`) | retention policy, maintenance runs, an in-memory tenant lock | cleanup, export, anonymisation | files unlinked before rows; `Promise.all` rejects early; cases found and deleted apart; intake beside an anonymisation | only expired data is deleted, a failed unlink keeps its metadata; an anonymisation is on the audit log |
| Analytics (`analytics/`) | daily snapshots | rebuild, summary | overlapping rebuilds of one day, tables read in parallel and changing | a snapshot nothing has outdated is exact |
| SSB import (`integrations/ssb/`) | import runs, statistics, health events | `importMunicipalityPopulation` | crash in the middle, overlapping imports of two editions | a run's status says what became of it |
| Kartverket (`integrations/kartverket-address/`) | health events | `search`, `validateAddress` | remote failures; an audit event inside the try block | the health log blames Kartverket only for what it did |
| Email log, audit log (`notifications/`, `audit/`) | append-only rows | record, log | written after the fact | they never report what did not happen |
| Operational events, metrics (`operations/`) | append-only rows | record, summary | errors swallowed | - |
| Departments, users, routing rules | rows | reads only | - | - |
| Demo seed and reset (`apps/api/prisma`) | all rows, files | seed, reset | files removed after the transaction; seeds stripped and restored step by step; overlapping resets | what a reset leaves half done is explained by a run that goes on or failed |
| Configuration, throttling (`apps/api/src/config`, `shared`) | counters of the framework | start-up checks | - | - |
| ELT (`apps/etl`) | analytics and statistics tables | rebuild-analytics, import-ssb | beside the API; its failed mark is rolled back with its transaction | agrees with the API on the same tables |
| Web (`apps/web`) | page state | forms, loads, buttons | answers out of order, pages left while waiting, a municipality changed meanwhile | the page shows the last thing asked for; forms send what the page showed |
| Deployment scripts (`scripts/`) | - | backup, restore, release | - | - |

Interaction: the controllers call one service each; intake calls the AI
service (fire and forget), Kartverket, documents and notifications; every
service writes through Prisma to one database and appends to the audit log;
privacy deletes rows (with cascades) and files that cases and documents own;
analytics and the ELT job read what the others wrote; the pages know the API
only by its answers.

## 2. Modules

| Module | Models |
|---|---|
| `Permissions` | `auth/permissions.ts` role table, department scoping, the portfolio guest's restriction |
| `CaseWorkflow` | `cases.service.ts` updateStatus, addInternalNote; `ai.service.ts` triage runs and reviews |
| `HumanReviewedTriage` | abstract: what `docs/adr/0003` promises of AI triage; `CaseWorkflow` implements it |
| `DocumentStore` | `documents.service.ts`: rows and files of case documents; what the workflow does to a case's status and department |
| `RetentionCleanup` | `privacy.service.ts` runRetentionCleanup; extends `DocumentStore`, whose rows and files it removes |
| `DocumentLifecycle` | abstract: how a document's row and file come and go; `RetentionCleanup` implements it |
| `PublicIntake` | `cases.service.ts` createPublicCase and the triage run it starts |
| `PrivacyRights` | `privacy.service.ts` exportCitizenData, anonymizeCitizenProfile; extends `PublicIntake`, whose profiles they work on |
| `TriageProvider` | `openai.provider.ts`, `ai-provider-errors.ts`, `mock-ai.provider.ts` |
| `KartverketAddress` | `kartverket-address.service.ts` search |
| `SsbImport` | `ssb.service.ts` and the ELT job's `ssb_import.py` on the same tables |
| `DemoReset` | `apps/api/prisma/demo-reset.ts` and the seed steps it calls, beside visitors |
| `AnalyticsRebuild` | `analytics.service.ts` and the ELT job's `rebuild-analytics` on the same tables, beside the case work |
| `Session` | `auth.service.ts`, `auth.controller.ts`, the guards: tokens, the cookie, requests and answers on the wire |
| `InternalTabs` | the staff pages' session handling: `use-internal-session.ts`, login form, demo button, shell; extends `Session` |
| `CaseDetailPage` | `apps/web` case-detail.tsx |
| `IntakePage` | `apps/web` intake-form.tsx |
| `StaffPages` | `apps/web` cases, audit, analytics and privacy dashboards |
| `MCCaseWorkflow`, `MCRetention`, `MCServices`, `MCReporting`, `MCSessions`, `MCWeb` | the instances TLC checks |
| `CaseWorkflowProofs`, `RetentionProofs`, `DocumentProofs`, `PublicIntakeProofs`, `ServicesProofs`, `ReportingProofs`, `SessionProofs`, `WebProofs` | theorems |

`MCServices` composes intake with the privacy officer, the three
integrations and the demo reset, `MCWeb` the pages: the parts share no state,
so a variable `focus` picks the one a behaviour is about.

### CaseWorkflow

Each member of `Requests` is one HTTP request (or automatic run), served
once; `job[r]` is what it asks for, `pc[r]` the awaited call it is at, `seen[r]`
the case row it read first, `held[r]` the fields in its hands (a run's
suggestion or a review's approved fields). `cases`, `results`, `failures`,
`reviews`, `notes`, `audit` and `emails` are tables: a row that a handler
creates is named after the request that created it. One action is one awaited
call together with the code up to the next one:

| Handler | Actions |
|---|---|
| guard, row read, checks | `Admit`, `Refuse` |
| `updateStatus` | `UpdateStatus`, `AuditStatus`, `EmailStatus` |
| `addInternalNote` | `CreateNote`, `AuditNote` |
| `runCaseTriageForCase` | `ListDepartments`, `ProviderAnswers`, `StoreResult`, `AuditResult`, `CatchRun`, `StoreFailure`, `AuditFailure` |
| `reviewCaseTriage` | `FindResult`, `CreateReview`, `UpdateCase`, `MarkReviewed`, `AuditReview` |
| an awaited call rejects; the process dies | `Fail`, `Crash` |

`CatchRun` is the try block of `runCaseTriageForCase`: it starts before the
provider call and also covers the writes after it, so a run can store both a
completed and a failed result. A department suggested by a slug the tenant
does not have becomes null; one *entered by a reviewer* is a 404
(`UnknownSlug`). `Crash` ends every request in flight and nothing is resumed,
as in the code. `origin` is a history variable, the row a case started as.

Abstracted: category and urgency are one value (`Classes`), as both are only
copied; `closedAt` is whether the column is set; the route's permission check,
the row read and the checks are one step, because the guard reads no database
and no await separates the read's answer from the checks. Operational and
AI-observability events are logging and left out; their errors are swallowed,
and AI-observability writes fail where a neighbouring write may fail too.
Case deletion belongs to `RetentionCleanup`: for a request it is one more
reason to `Fail`.

### DocumentStore and RetentionCleanup

A document is named after the request that uploads it (or is one of `Seeds`);
its row is `rows[d]`, its file is on disk when `d \in files`. `served` is the
set of downloads whose stream was opened, `now` a calendar of days, `seen[r]`
what a request has read: the department of its case, and that its document was
live. As in `CaseWorkflow`, an action is an awaited call and the code up to the next one:

| Handler | Actions |
|---|---|
| permission, file validation, case read, access checks | `Admit`, `Refuse` |
| `uploadForCase` | `WriteFile`, `WriteFileFails`, `CreateRow`, `AuditUpload` |
| `softDeleteForCase` | `FindToDelete`, `SetDeletedAt`, `AuditDelete` |
| `getDownloadForCase` and its stream | `FindToDownload`, `AccessFile`, `AuditDownload`, `OpenStream` |
| `listForCase` | `FindAll`, `AuditList` |
| other handlers on the case row, the calendar | `StatusUpdated`, `CaseReviewed`, `Tick` |
| `runRetentionCleanup` | `StartCleanup`, `RefuseCleanup`, `FailCleanup` |
| `executeRetentionCleanup` | `ComputeCutoffs`, `Purge`, `PurgeFails`, `AuditRun`, `MaintenanceRun` |
| `cleanupClosedCases` | `FindCases`, `UnlinkFile`, `DeleteCase` |
| `deleteExpiredDocumentFiles` | `FindExpired`, `UnlinkExpired`, `DeleteRow`, `SweepFails` |
| a query rejects; the process dies | `Fail`, `Crash` |

A cleanup has a main thread (`at`), and from `Promise.all` on a sweep
(`sweep`) and two purges (`purging`) beside it. When one of them rejects, the
main thread fails and gives the lock up, and the others go on: `Rejected`
changes `at` and `lock` and nothing else. The lock is memory: `Crash` empties
it. `NextCase` is the loop over the cases, in any order (the query asks for
none), `AfterFiles` the `continue` of a case with a stuck file.

Abstracted: of the case statuses only closed and the others, because
retention looks at `closedAt` alone; a row deleted from its table keeps its
last content with `removed` set, so that properties can speak of it (no action
reads it again); the policy is constant; the candidate counts and the counters
of the report are left out; the purges are queries that settle, as nothing
modelled reads what they delete; the bytes, name and type of a file are
`valid`. The `findMany` that reads cases with their documents is one step.
Operational events (a refused upload writes one) are telemetry and left out.

### PublicIntake and PrivacyRights

A submission names the profile, the case and every other row it creates.
`pc[r]` is the awaited call of `createPublicCase`, `answer[r]` what the
browser knows, `triage[r]` the run that `Respond` starts without anyone waiting
for it; files and document rows are numbered. `FailIntake` is any awaited call
that rejects (the mail swallows its own error), `LoseAnswer` a connection that
breaks while the server goes on, `Crash` the process dying with everything
under way. The browser submits a matter again only after an error, as the form
is disabled while it waits; nothing in the code recognises the repetition.

| Code | Actions |
|---|---|
| the form of the browser | `Submit`, `LoseAnswer` |
| `createPublicCase` | `CreateProfile`, `CreateCase`, `AuditCase`, `LogEmail`, `Respond`, `FailIntake` |
| `storeValidatedAddress` | `CreateAddress`, `AuditAddress` |
| `storeCitizenUploadedDocument` | `WriteFile`, `CreateDocument`, `AuditDocument` |
| `startAutomaticAITriage` | `AskProvider`, `StoreOutcome`, `RunRejects` |
| `exportCitizenData`, `anonymizeCitizenProfile` | `FindProfile`, `NoProfile`, `ReadExport`, `AnonymiseProfile`, `AuditOfficer`, `FailOfficer` |

Abstracted: validation, the tenant, upload permission and throttling are the
flag `valid`; the outcome of the address lookup is a column of the address
row, and how it comes about is told in `KartverketAddress`.

### The integrations

`TriageProvider`: a call of `OpenAIProvider` waits for a fetch or for the body
of the last response; `met[c]` is what each attempt met. `Answered` and
`Rejected` are the two ways a fetch settles, with the retry and the
classification of the error; `ReadBody` covers everything from unreadable to
a valid triage. A call of the mock provider is one step (`AskMock`), with the
first of the best scoring categories and the fallbacks of `chooseDepartment`;
keyword lists and prompts are data.

`KartverketAddress`: one lookup is `StartLookup`, `KartverketReplies`,
`RecordSuccess`, `AuditSearch` or `AuditSearchFails`, `RecordFailure`. Storing
a health event may fail unnoticed, so it is a choice in `RecordHealth`.

`SsbImport`: an import by the API commits `CreateRun`, each `Upsert`,
`CompleteRun` and the health events apart; one by the ELT job is `BeginElt`,
`Fetch` and `CommitElt` or `RollBackElt`, which loses the run row and its
failed mark. SSB publishes new editions (`Publish`). An answer holds whatever
regions it holds (`AnswersTo`): neither program compares them with those it
asked for. The API stores them under the year the answer names, the ELT job
under the year it asked for; the ELT job does not ask when it has no
municipalities, and the API's schema requires one.

`DemoReset`: a run lists expired visitor cases, deletes them with all activity
on the seed cases in one transaction, removes the listed files one by one,
restores each seed case in its steps (row, triage, mails, audit events), and
deletes and rewrites the demo analytics. Visitors upload and work on seed
cases meanwhile; a second reset may overlap; `FailReset` may come anywhere.

### AnalyticsRebuild

A job of the API does its days one after the other: three tables are read in
parallel (`Read`), then `UpsertDay`, and at last an event; a job of the ELT
reads everything and writes in one transaction (`LoadDataset`). What a job has
read is `current` until a change touches that table, then it is not
(`Behind`); what was written keeps that mark, so properties can say exactly
which figures must be exact. Each column belongs to the read it was taken from:
the time to triage comes with the cases in the API and with the results in the
job (`Outdated`, `TriagedIn`). Departments are counted under `ApiKey` (the slug,
or `unassigned`) by one program and under `EltKey` (the name, or `Unassigned`)
by the other. Cases are created, moved through their statuses, triaged, reviewed
(the review first, then the case: `StoreReview`, `ApplyReview`) and deleted by
their closing time meanwhile, bounded by `MaxChanges`; time passes to the next
day. Durations are the sets of cases that have one. The SSB columns of a
snapshot, a function of the stored figures, are left out.

### Session and InternalTabs

The browser's cookie is a place in `jar`, the tokens set so far; a token
remembers the version of the account that was read when it was signed. A
request is `sent`, perhaps `checked` (the password has been compared),
`answered`, and its answer arrives in any order; each may fail. Accounts go
through a history of roles and deactivation, tokens expire. A tab is at the
login form, at home or at an internal page, which asks who is signed in
(`Opening`, `ReceiveMe`), then loads when the profile has the permission
(`MayLoad`, `ReceiveLoad`). Only `useInternalSession` ignores the answers of a
page that was left; a 401 to a load calls `clearSession`, which signs out
whatever session the browser has by then.

### CaseDetailPage, IntakePage, StaffPages

The API behind a page is the version of what it serves. A request is `sent`,
then served or refused, then received, in any order; the user clicks meanwhile
and may choose, type or leave. `Send`, `ReceiveChange`, `Continue` and
`Finally` are the chain of loads after a change of `case-detail.tsx`, with the
loads that end a chain when they fail and those that do not; `ShowResult` is
`syncReviewForm`. A change may be made and answered with 500, when its audit
event or a later write fails (`ServeChange`, `AnswerAsk`); then the page shows
an error and loads nothing, and `untold`, or `unreported`, remembers it. A run or
a review may also be made in part (`Effect`, see `CaseWorkflow`). `IntakePage` follows the municipality a search, a submission
and a lookup were made for. `StaffPages` has the four dashboards, of which one
behaviour uses one: `pageKind`. A rebuild there ends with a load of its own
(`chain`), and only the end of that gives the button back. Wording, layout, and filtering what is shown
are left out.

## 3. Runs

All runs are exhaustive.

| Run | Instance | Shows |
|---|---|---|
| `workflow_race` | one case, 3 requests out of an automatic run, an accepting and a correcting review and 6 status updates, by workers of both departments, a guest who may not change the case and a user of another municipality, 4 start rows; symmetric requests | the safety properties of the records, who writes where, and the refinement, under failures and crashes |
| `workflow_access` | one case in every status, 2 requests, five users of different roles, departments and tenants; fairness | transitions, and that runs leave a result |
| `workflow_terminal` | 2 updates of one case | finding 1 |
| `documents_access` | one case, a sensitive, an ordinary and a deleted document, 2 requests, five users of different roles, departments and tenants, an invalid file | who is served what; deletion times |
| `retention_race` | 2 requests (upload, delete, download) and the workflow against one cleanup; a case closed on day 0 with one document; symmetric requests | rows, files, audit and expiry under interleavings and failures, and the refinement of `DocumentLifecycle` |
| `retention_overlap` | 2 cleanups of one tenant, a case and an expired document in it and in another tenant, failing unlinks, queries and purges; fairness | the lock is exact and released; each cleanup comes to an end |
| `retention_conflict` | 2 cleanups | finding 2 |
| `retention_orphan` | an upload against a cleanup | finding 3 |
| `services` | 2 submissions of one matter (one with address and 2 files, one plain or refused) and a privacy officer; a call of each provider; an employee's and a public lookup; an API and an ELT import of 2 municipalities, 2 editions; 2 demo resets, a visitor case, an upload, a seed case; fairness | what intake, the integrations and the reset leave behind; that everything ends |
| `reporting` | a rebuild of 2 days by the API, or two overlapping rebuilds of one day by the API, the ELT job or both; one case, 2 changes | which figures must be exact |
| `sessions` | 2 tabs, a worker who is promoted and then deactivated, the demo guest, 2 tokens, one click; fairness | how tabs and sessions fit together |
| `web` | the case page with 2 clicks, 2 results and one change by others; the public page with 2 municipalities and 6 clicks; a staff page with 3 clicks and 3 filters | what pages show and send |

Bounds: every property of the workflow speaks of one case, and requests of
different cases share nothing, so one case suffices. Three requests let two
reviews (or a review and an update) overlap on the result of a third request,
the longest dependency the code has: a review needs a run, a race needs a
second writer, and a case is moved to another department under a writer only by
a review. In the access run the race is one for the status, and two requests
have it; there the guest may change the case, and every role has its turn.

The retention instances use three days and a retention of one day: day 0 has
expired on day 2 and on no other, day 1 never has, so strictness of the
comparison, a clock that moves during a cleanup and a time set again are all
reached. Two requests give the longest race on a document (two deletions, or
an upload and a deletion, against a cleanup), and two documents in a case a
file that is unlinked beside one that is stuck.

In `services`, submissions meet only through the matter they are about, and the
officer works on one profile, so two submissions and one officer reach every
combination; two files tell the first from the last. One call of each provider
suffices, as calls share nothing, and two attempts are the code's number. Two
imports are needed for an older edition to be stored last, two
municipalities for a half-done upsert, two editions for a change between. Two
resets overlap. In `reporting` one case gives every column zero and one, and
two changes lie between the parallel reads of a rebuild or between two
rebuilds; departments of one name need two cases and are left to the proof. In `sessions` two tokens are an old session beside a new one, two
tabs the browser's two views of them; one click beyond the opening page
suffices for an answer to find the tab elsewhere. In `web` two clicks overlap
two chains of loads on the case page; six clicks on the public page are a
search, a submission, a lookup and a second one with a change of municipality
anywhere; three on a staff page are two filters and a change. The case page is
met while its case or its first result is still awaited.

Deadlock is not checked where an instance comes to rest: once every request,
cleanup, import or click has been served nothing is left to do.

### Properties

Each is about an interleaving or a failure that no unit test of the repository
produces. Some are conjunctions of named parts, with their comments beside
them in the modules.

Workflow:

- `OfficialFieldsReviewed`: official fields are the initial ones or those of
  *one* stored review, however runs and reviews interleave.
- `ClosedAtConsistent`: closed means a closing time; a closing time is only
  on a closed case, on one a review took back to triaged (the review does not
  clear it: retention will count that case as closed), or seeded.
- `ReviewsRestOnResults`, `NoSecondReviewFromReviewed`: a review rests on a
  completed result of its own case; a result reviewed twice means overlapping
  reviews or an earlier one that stopped before marking it.
- `RecordsAgree`: a status is audited, about to be, or its request failed
  (`StatusAccountedFor`); the audit log never reports what did not happen
  (`AuditReportsFacts`); only one error puts a failed result next to a
  completed one of the same run (`SecondResultUnaudited`).
- `StatusFollowsTable`, `WritersInScope`: the strongest form the code
  satisfies, naming the race that breaks the plain form. Whoever writes is of
  the case's municipality, is no guest kept off it, and may write in the
  department it is in, unless it was moved between check and write.
- `RunsLeaveResult`: liveness, see below.
- `ImplementsHumanReview`: refinement of `HumanReviewedTriage`; a review row
  is the approval, the case update its effect.

Documents and retention:

- `ServedAsAllowed`: what is served is audited, of the case asked for, in the
  user's tenant and not kept from the user as sensitive; it was live when the
  request found it, and the documents of the case were readable by the user in
  the department the case was in when the request came. A review may have moved
  the case since, and a deletion hidden the document.
- `DeletionTimeMovesByRace`: retention counts from the first deletion, but
  for two deletions that both found the document live.
- `DocumentRecordsAgree`: the exact ways in which the table and the disk come
  apart (`RowlessFilesExplained`, `FilelessRowsExplained`), that nothing is
  audited that did not happen (`DocumentAuditReportsFacts`: a download that is
  audited was served, or ended in an error when the cleanup had unlinked the file
  behind the check), and that a file whose
  row is gone belonged to a case that is gone, so only the cascade of finding 3
  leaves such files (`OrphansLostTheirCase`, which is stated and proved of the
  abstract module and carried over).
- `StuckFilesKeepMetadata`, `OnlyExpiredGo`: what a cleanup may delete. The
  second is weaker than "only expired rows", because cases and documents are
  found and deleted apart, and names the difference.
- `ImplementsLifecycle`: refinement of `DocumentLifecycle`, with the cleanup
  beside requests. A file is written before its row and never again, a soft
  deletion is not taken back, the file of a document in use goes only once a
  cleanup has taken its case upon itself, and a row swept by itself has lost its
  file.
- `CleanupsWindDown`: each step a cleanup takes lessens `Work`, which counts the
  cases, files, rows and purges before it; nobody adds to it, uploads included.
- `LockAgrees`, `LockReleased`: one confirmed cleanup per tenant, and always
  another one afterwards.

Intake, integrations and reset:

- `ConfirmedIsComplete`: what is confirmed, mailed or triaged is completely
  stored. `StrayCasesExplained`: every case without a citizen who can follow it,
  and every second case of a matter, goes back to an error the citizen saw.
- `UploadedFilesExplained`, `AnonymisationAccounted`: files without a row;
  anonymised profiles, their audit events, and that no submission still under
  way gives a name back.
- `ProvidersAgree`: attempts, retries and classes of errors agree; the mock's
  answer fits its input, checked against a definition of what it should be for
  all scores and tenants of a small size.
- `ImportRunsAgree`, `HealthEventsAgree`: what run rows and health events say of
  imports is so, with the exceptions the code has. A completed run has stored
  what its answer held, which need not be what it asked for.
- `ResetExplained`: seeds, demo analytics and files are whole unless a reset is
  still at them or failed.
- `RequestsEnd`: liveness of submissions, triage runs, provider calls, lookups
  and imports.

Reports, sessions and pages:

- `ReportsAgree`, `FinishedRebuildsShow`: a column nothing has outdated is
  exact, departments under the keys of the program that wrote it; department rows
  cover the snapshot of the ELT job; a rebuild that reports its end shows,
  unless disturbed.
- `PagesFitSession`, `LiveSessionsKept`, `SessionsLoad`: see `InternalTabs`.
- `FormsFollowWhatIsShown`: a form is what the page shows unless edited, so an
  acceptance is of what was shown. `OwnChangesShown`, `ListsShowWhatWasAsked`:
  at rest a page shows the user's own changes and the last thing asked for,
  unless the load of it failed, an older one was answered after it (not before),
  or the page was never told that the change was made. `PagesWellFormed`: buttons
  wait exactly as long as the call and the load that ends it.
- `MunicipalitiesAgree`, `AnswersShown`: what the public page shows is of the
  municipality selected; the access code is not lost; a status result is that
  of the last lookup, with the exceptions named.

### Fairness

`WF(Settle(r))` per request of the workflow, weak fairness of each cleanup's
main thread, sweep and purges, `WF(Settles)` of the services and of every
request of a tab: an awaited call settles one way or the other. A query
resolves or rejects, a fetch of the API has an abort timeout, the browser gives
a request up. No arrival, click, calendar or expiry is assumed fair.

### Findings

1. `workflow_terminal`: `cases.service.spec.ts:1067` says transitions are
   blocked "from closed and rejected terminal statuses"; two overlapping
   updates of an in-progress case both pass the check and the second takes
   the case out of `closed`, clearing its closing time.
2. `retention_conflict`: `privacy.service.spec.ts:535` "rejects concurrent
   confirmed cleanup for the same tenant"; when a purge or the sweep rejects,
   `finally` releases the lock while the rest of `Promise.all` still deletes,
   and a second cleanup is admitted beside it.
3. `retention_orphan`: `docs/03_SECURITY_AND_PRIVACY.md:118` says cleanup
   "removes expired physical uploaded files before deleting document
   metadata"; a document uploaded between the read of the case's documents and
   the deletion of the case loses its row by cascade and keeps its file, which
   no later cleanup can find.

### Other observations

The models show these as well; no document says otherwise, or the properties
above name them as exceptions.

- A write whose check ran before a review moved the case lands in the other
  department (`WritersInScope` names it; compare
  `docs/03_SECURITY_AND_PRIVACY.md:37`). A review sets a closed case to triaged
  without clearing `closedAt`, so a cleanup finds and deletes an open case
  (`docs/03_SECURITY_AND_PRIVACY.md:113`).
- An export by email serves one profile, though each submission makes its own.
- The ELT job's failed mark of an import is rolled back with its transaction;
  a Kartverket search whose audit event fails is recorded both as a success and
  as a failure.
- An SSB answer with fewer regions than asked for completes its run, with the
  number of what it held; the API files it under the answer's own year.
- `casesByDepartmentJson` of a day has slugs and `unassigned` when the API wrote
  it last, names and `Unassigned` when the ELT job did; departments of one name
  are one in the job's counts.
- A change that was stored and whose audit event failed is answered 500: the case
  page and the dashboards show an error and keep what they showed, and an employee
  who repeats a note or an upload stores a second one.
- Demo reset: the audit events of visitors' work on deleted cases stay, also of
  results stored after the cases were listed; a crash between the transaction
  and the removal of files leaves files nothing finds again; documents visitors
  attach to seed cases survive resets.
- Case page: an error of a stored failed run is cleared at once by
  `syncReviewForm`; "AI provider request timed out." is classified as
  `provider_not_configured` by `classifyStoredAIFailure`; a failed reload after
  a change is an unhandled rejection and shows nothing; status and note forms
  may be sent twice; a late `loadCase` overwrites a newer case and the status
  chosen; a review whose loads end after a newer result arrived hides the
  newer one's form; `getStatusTransitionWarning` disagrees with
  `allowedStatusTransitions` (closed to rejected is refused without a warning,
  triaged to waiting for citizen is warned of and allowed); the case list never
  resets `error`, and a network failure of the audit and analytics lists is
  unhandled.

## 4. Proofs

`CaseWorkflowProofs` holds for every set of requests, jobs, cases, users,
departments and tenants that satisfies the three assumptions of
`CaseWorkflow` (jobs are well formed, the marker values are no data, seeded
rows have a closing time when closed and only closed or rejected rows have one).

The inductive invariant is
`IInv == TypeOK /\ JobMatchesStep /\ ResultsHeld /\ ReviewsHeld`. `TypeOK`
alone is not inductive: the update of a case by a review copies `held[r]`,
which is fields only because the request passed `FindResult`, which copied
the suggestion of a run that must still hold it. `JobMatchesStep` ties the
step to the kind of job, `ResultsHeld` a stored result to the run's held
suggestion, `ReviewsHeld` a review to the fields and the result it approves.
From it follow

- `TypeCorrect`, `ClosedAtSound`, `OfficialFieldsSound`, `ReviewsSound`
  (invariants),
- `StatusesFollowTable`, `WritersScoped` (action properties), by a second
  invariant `Snapshot`: the row a request has seen admitted its job,
- `WorkflowImplementsHumanReview`: the step simulation, `CreateReview` to
  `Approve`, `UpdateCase` to `Apply`, everything else to stuttering,
- `RecordsSound` (the audit log, the results and the statuses agree wherever a
  request stops) and `NoSecondReview`, by a third invariant, `Reported`. It says
  that a step which writes an event finds done what the event reports
  (`StoredFirst`) and that what follows an event in a handler is only a mail, an
  end or a stop (`EventsLast`). `WriteFollowedUp` is what accounts for a status:
  a request that wrote it leaves that step only by its event or by a failure.

So every safety property of the workflow's passing runs is proved.

`RetentionProofs` holds for every set of requests, documents, cases, tenants
and cleanups, every calendar and all retention periods of at least one day
(the schema's minimum), under the assumptions of `DocumentStore` and
`RetentionCleanup` (well-formed jobs and seeded rows, distinct marker values).

- `RetentionTypeCorrect`, `LockSound`: the invariant is `IInv == TypeOK /\
  JobMatchesStep /\ LockAgrees`. The lock is inductive with the types: a
  cleanup that ends releases a lock only it can hold, because `MayStart`
  refuses a second confirmed one. `LockKept`, `LockGiven` and `LockTaken` are
  the three things a step can do to it; every action is one of them.
- `OnlyExpiredGoSound`: the invariant adds `RowsFresh` (a document has no row
  before its `CreateRow`, so an upload overwrites none) and `RunsHoldDue`:
  every case and document a cleanup has still to delete had expired at the
  run's cutoff or had its time set since. `TimesMoveOn` is what all other steps
  do to times (keep them, clear a closing time, set today), and `DueStaysDue`
  says that under it what is due stays due; each step of a cleanup then only
  has to show that it takes nothing upon itself that is not due.

`PublicIntakeProofs` holds for every set of submissions, matters, citizens and
officers and any number of files, under the assumptions of `PublicIntake` and
`PrivacyRights` (well-formed contents and errands, distinct marker values); no
mutual exclusion or order of the submissions is assumed.

- `ConfirmedAlwaysComplete`, `StrayCasesAlwaysExplained`,
  `UploadedFilesAlwaysExplained`, `AnonymisationAlwaysAccounted`: the invariant
  adds `StoredSoFar` (what the handler has stored at each of its steps, the
  files before the one at hand included), `AnswersAgree` (what the browser can
  know at each), `MattersAnswered` (of two submissions of a matter one was
  answered with an error) and `OfficersAgree` (an officer's request works on a
  profile that is there). `ConfirmedIsComplete` alone is not inductive: the
  response confirms what up to a dozen earlier steps have stored, and
  `FiledIsComplete` collects it from `StoredSoFar`. `CompleteStays` is why nothing
  that follows, a crash included, can undo it; `OfficersKeep` and `IntakeKeeps`
  say that intake and the officers leave each other's conjuncts alone.

`DocumentProofs` extends `RetentionProofs`, with its assumptions and its type
invariant.

- `StuckFilesSound`, `ServedSound`, `DeletionTimeSound` and, with `OrphansSound`
  below, `DocumentRecordsSound`: the invariant `DocInv` carries along what each request
  and each cleanup has read. `RunsKnow` says of a cleanup that the documents it
  lists belong to what it took upon itself and that it has tried their files;
  `RequestsKnow` that what an upload, a deletion or a download holds was found
  in the table, live, in a department that admitted the request (`seen`); `AuditKnows` and `FilesKnow` that an event and a file have a
  request behind them. `DocumentRecordsAgree` alone is not inductive: that a row
  without a file is explained needs, one step earlier, which cleanup has
  unlinked it and holds its row still to be deleted. The two action properties
  follow step by step from the same invariant.
- `DocumentsImplementLifecycle`: the step simulation, from `LifeInv == DocInv /\
  Lifecycle!OrphansLostTheirCase`. `WriteFile` maps to `WriteFiles`, `CreateRow`
  and `SetDeletedAt` to `CreateRow` and `SoftDelete`, `FindCases` to `Claim`,
  `UnlinkFile` and `UnlinkExpired` to `RemoveFile`, `DeleteCase` and `DeleteRow`
  to `RemoveCase` and `RemoveRow`, a crash during several writes to `WriteFiles`
  of those that were done, everything else to stuttering (`StandsStill`). `DocInv`
  gives each removal its licence (`RunsKnow`: the case was found, the document had
  been deleted). From the other conjunct the simulation takes that a row never
  outlives its case (`RowsHaveCases`): a `DeleteCase` that finds the case deleted
  already, by another cleanup, changes nothing and is a stutter.
- `OrphansSound`: the invariant of `DocumentLifecycle`, shown stable under its
  steps (`OrphansStay`) and carried over by the simulation.
- `CleanupsWindDownSound`: every step of a cleanup lessens `Work`, which
  `FiniteTables` (finitely many cases and documents, the theorem's hypothesis)
  makes a natural number (`WorkCounts`). It is the safety half of `LockReleased`:
  a cleanup takes finitely many steps however long requests go on, and what is
  left to fairness is that it takes the next one. A case taken from the list
  pays for the files of its documents in advance (`FilesPerCase`), as how many
  there are is known only when the loop comes to it.

`ServicesProofs` holds for any number of attempts, imports, municipalities,
years, resets, visitors and seed cases. Each component has its invariant,
proved for its own specification (`ProviderInvariant`, `LookupInvariant`,
`ImportInvariant`, `ResetInvariant`). `ServicesImplement` says that a behaviour
of the composition `MCServices` is one of each component, which carries the
results over.

- `RetriesAlwaysAgree`: an attempt's number, the timer and the answer in hand
  together decide the class of the error.
- `ProvidersAlwaysAgree` adds the mock provider, for any scores and departments,
  however many. `BestUpTo` is a recursive function, and the claim that it names
  the first of the best scores (`BestUpToIsFirstBest`) an induction over the
  categories. The library's induction theorems are out of reach, so it is done
  with a smallest counterexample: of the prefixes for which the claim fails one
  is the shortest (`LeastElement`, by `WFMin`), and by `NextBest` the one before
  it fails too. `BestUpToUnfolds` comes first: a function satisfying the
  recursive equation exists. `MockAnswerFits` is then `MockFitsInput` for one
  input, and a stored answer is always one of `MockAnswer` (`AnswersStayMocks`).
- `HealthEventsAlwaysAgree`, `ImportRunsAlwaysAgree`: an import that has reached
  its mark has stored every figure its answer held, one in between exactly those
  behind it.
- `ResetExplainedBesideServices`: what a reset has stripped it still has on its
  list, unless it has failed or another one is at it; a file without a row is on
  the list of a run that removed the row.
- `ServicesTypeCorrect`: the types, which no run checks for the services; the
  runs of the documents have theirs in `DocumentRecordsAgree`.

`ReportingProofs` holds for any finite set of cases, any number of days and of
overlapping rebuilds by the API and the ELT job. `RebuildAssumption` requires
that days between two days are days, that the cases are finitely many and that
the start rows are well formed.

- `ReportsAlwaysAgree`, `FinishedRebuildsAlwaysShow`: `ReportInv` has
  `JobTrue` (what a rebuild has read is what the tables held when it read, and
  what has changed since is marked outdated), `SnapshotTrue` (the same of the
  rows it stored, as long as they are) and `DaysDone` (each day behind the
  rebuild is its own or was written by another one). A snapshot is written from
  several parallel reads, so `ReportsAgree` says nothing of a rebuild between
  them: `JobTrue` does, column by column.
- Nothing is assumed of slugs and names: counts are compared key by key, so a
  key may stand for several departments. The time to triage of the job rests on
  two reads, so `SnapshotsExact` has it only while both are current
  (`TriagedAre`).

`SessionProofs` holds for any number of tabs and users, any finite history of
an account and any number of tokens, with any set of requests and answers on
the wire.

- `PagesAlwaysFit`, `LiveSessionsStay`: `TabsInv` has `TokensTrue` (a token was
  issued for the account as it was), `RequestTrue` for each request and answer
  (its cookie is the jar's of the time it was sent, its answer what the session
  was when it was served), `ProfileTrue`, `AsksOnce` and `InOrder` (what a tab
  shows and awaits is of its own order). `PagesFitSession` compares what tabs
  show; every conjunct about the wire is about what they will show.

`WebProofs` holds for any clicks, results, statuses, departments, tenants and
filters, and any number of requests and answers in any order. `WebInv` has an
invariant for each page.

- The case page, `CasePageInv`: `Comes` says of each part that the user's last
  change to it is shown, was missed, was not reported as made (`untold`), or is
  covered by something on its way, and
  `Covers` what each request and answer will show or cause to be missed: the
  loads still to be sent after it included (`ReloadsShowTouched`: the loads after
  a change are of what it touched). `ChainContinues` and `ChainAborts` are the
  two ways a chain of loads can go. From it follow `FormsAlwaysFollow` and
  `OwnChangesAlwaysShown`.
- The public page, `IntakePageInv`: a call on its way is of the municipality
  selected unless that has changed since (`CallTrue`), and one search and one
  submission at most are on their way (`MunicipalitiesAlwaysAgree`,
  `AnswersAlwaysShown`).
- The staff pages, `StaffPagesInv`: an answer to the list last asked for is not
  older than the user's last change, unless a rebuild that has ended is still to
  be heard of (`AskTrue`, `ListComes`, `OwnComes`; `ListsAlwaysShow`).
- `PagesAlwaysWellFormed` takes its parts from all three.

The invariants were checked by TLC on the instances of the runs before they
were proved. Attempts to prove changed the models in four places, none of
which changes a run's verdict: an account reactivated before its logout arrives
is an exception of `LiveSessionsKept` that a shorter history did not show; the
address lookup had a state no action reached; what a session needs of an
account's history, a rebuild of its days and the case page of its constants
(results and the status a review gives exist) is now assumed by name; and the
mock's choice of a category is a recursive function instead of
a fold.

So every invariant, action property and refinement that a passing run checks is
stated by a theorem. Only model-checked:

- `RunsLeaveResult`, `LockReleased`, `RequestsEnd` and `SessionsLoad`: liveness
  under fairness, which the proof system does not reach.
- The findings, which are counterexamples.

## 5. Plan

Done: the workflow with triage and review and its refinement; documents and
retention and theirs; intake, exports and anonymisation; the providers and
integrations; reset, reports, sessions and pages; proofs of every safety
property, action property and refinement of the passing runs. Left, in this
order:

1. `updateRetentionPolicy` beside a cleanup: cutoffs are computed once, but
   after the lock is taken.
2. Measures like `Work` for the other handlers, so that `RunsLeaveResult` and
   `RequestsEnd` too rest on fairness alone.

## 6. Not modelled

- Operational and AI-observability events, metrics: logging whose errors are
  swallowed, and aggregate reads of it.
- Departments, users and routing rules: the services only read them; in the
  models they are constants.
- Configuration, throttling, safety checks: start-up validation without state;
  the throttler's counters are the framework's.
- Deployment, backup and CI scripts: no state of their own.
- The first seed of an empty database: sequential, nothing runs beside it. The
  ELT job's quality checks (reads) and synthetic data (a fixture).
- Updates of the retention policy while a cleanup runs; its page is in
  `StaffPages`.
- The operations page beyond its load, translations and layout.
- Request parsing and file type detection: valid or not. Migrations: generated.
