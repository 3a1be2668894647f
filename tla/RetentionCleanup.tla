-------------------------- MODULE RetentionCleanup --------------------------
(***************************************************************************)
(* The retention cleanup (privacy.service.ts) over the documents and cases *)
(* that other requests use meanwhile.  A confirmed cleanup                 *)
(*   - takes the tenant's lock, a set in the memory of the process;        *)
(*   - deletes the expired cases: per case every file, then the row, which *)
(*     takes the case's document rows with it (ON DELETE CASCADE);         *)
(*   - then starts, in one Promise.all, a sweep of the other expired       *)
(*     soft-deleted documents and the purges of audit events and analytics *)
(*     snapshots;                                                          *)
(*   - then records an audit event and a maintenance run.                  *)
(* Promise.all rejects with the first rejection: the cleanup ends and      *)
(* releases its lock while what it started goes on.                        *)
(***************************************************************************)
EXTENDS DocumentStore, FiniteSets

CONSTANTS
  Cleanups,             \* the cleanup requests that may arrive
  CleanupUser,          \* [Cleanups -> Users]: who asks for each
  ClosedCaseDays,       \* policy.closedCaseRetentionDays
  DeletedDocumentDays   \* policy.deletedDocumentRetentionDays

\* The schema of the policy asks for at least one day.
ASSUME RetentionAssumption ==
  /\ CleanupUser \in [Cleanups -> Users]
  /\ ClosedCaseDays \in Nat \ {0}
  /\ DeletedDocumentDays \in Nat \ {0}
  /\ None \notin Cases \cup Docs

VARIABLES
  lock,     \* activeRetentionTenants
  run       \* [Cleanups -> Run]

vars == <<docVars, lock, run>>

-----------------------------------------------------------------------------

Purges == {"auditEvents", "analyticsSnapshots"}

MainSteps  == {"cutoffs", "findCases", "unlinkFile", "deleteCase", "all",
               "auditRun", "maintenanceRun"}
SweepSteps == {"findExpired", "unlinkExpired", "deleteRow"}

Run ==
  [at       : {"idle"} \cup MainSteps \cup Settled,
   confirm  : BOOLEAN,
   asOf     : Days,                 \* the day the cutoffs are computed from
   found    : SUBSET Cases,         \* the expired cases
   docs     : SUBSET Docs,          \* their documents, read with them
   todo     : SUBSET Cases,         \* the cases not begun with
   case     : Cases \cup {None},    \* the one at hand
   left     : SUBSET Docs,          \* files to unlink, of the case or the sweep
   stuck    : SUBSET Docs,          \* files whose unlink failed
   sweep    : {"off", "over"} \cup SweepSteps,
   expired  : SUBSET Docs,          \* the documents the sweep found
   doc      : Docs \cup {None},     \* the one whose row goes next
   purging  : SUBSET Purges,        \* the purges that have not settled
   reported : BOOLEAN]              \* its audit event is stored

Idle == [at |-> "idle", confirm |-> FALSE, asOf |-> 0, found |-> {},
         docs |-> {}, todo |-> {}, case |-> None, left |-> {}, stuck |-> {},
         sweep |-> "off", expired |-> {}, doc |-> None, purging |-> {},
         reported |-> FALSE]

TypeOK ==
  /\ DocTypeOK
  /\ lock \subseteq Tenants
  /\ run \in [Cleanups -> Run]

Init ==
  /\ DocInit
  /\ lock = {}
  /\ run = [k \in Cleanups |-> Idle]

-----------------------------------------------------------------------------

TenantFor(k) == TenantOf[CleanupUser[k]]

CaseExpired(c, day) ==
  cases[c].closedAt # Never /\ cases[c].closedAt < day - ClosedCaseDays

DocumentExpired(d, day) ==
  rows[d].deletedAt # Never /\ rows[d].deletedAt < day - DeletedDocumentDays

\* The documents of case c that the run found with it.
DocsFound(x, c) == {d \in x.docs : rows[d].case = c}

\* Mutant of Released: a dry run releases the lock as well.
ReleasedByAny(k) == lock \ {TenantFor(k)}

\* finally: a confirmed cleanup releases the lock of its tenant.
Released(k) == IF run[k].confirm THEN lock \ {TenantFor(k)} ELSE lock

\* The loop over the cases goes on with any case left to do, or ends: then the
\* sweep and the purges are started at once.
NextCase(x) ==
  IF x.todo = {}
  THEN {[x EXCEPT !.at = "all", !.case = None, !.sweep = "findExpired",
                  !.purging = Purges]}
  ELSE {[x EXCEPT !.at = IF DocsFound(x, c) = {} THEN "deleteCase"
                                                 ELSE "unlinkFile",
                  !.case = c, !.todo = @ \ {c}, !.left = DocsFound(x, c)] :
          c \in x.todo}

\* Promise.all: the run goes on when everything it started has fulfilled.
Joined(x) == IF x.at = "all" /\ x.sweep = "over" /\ x.purging = {}
             THEN [x EXCEPT !.at = "auditRun"] ELSE x

\* Mutant of Rejected: no finally.
RejectedKeepsLock(k, x) ==
  /\ run' = [run EXCEPT ![k] = IF x.at = "all" THEN [x EXCEPT !.at = "failed"]
                                               ELSE x]
  /\ UNCHANGED lock

\* Promise.all: the run has failed with the first rejection.
Rejected(k, x) ==
  /\ run' = [run EXCEPT ![k] = IF x.at = "all" THEN [x EXCEPT !.at = "failed"]
                                               ELSE x]
  /\ lock' = IF x.at = "all" THEN Released(k) ELSE lock

-----------------------------------------------------------------------------
(* runRetentionCleanup up to the cutoffs.                                  *)

MayStart(k, confirm) ==
  /\ Has(CleanupUser[k], "privacy:anonymize")
  /\ ~(confirm /\ TenantFor(k) \in lock)

StartCleanup(k, confirm) ==
  /\ run[k].at = "idle"
  /\ MayStart(k, confirm)
  /\ run' = [run EXCEPT ![k].at = "cutoffs", ![k].confirm = confirm]
  /\ lock' = IF confirm THEN lock \cup {TenantFor(k)} ELSE lock
  /\ UNCHANGED docVars

\* 403, or 409 while a confirmed cleanup of the tenant is running.
RefuseCleanup(k, confirm) ==
  /\ run[k].at = "idle"
  /\ ~MayStart(k, confirm)
  /\ run' = [run EXCEPT ![k].at = "rejected"]
  /\ UNCHANGED <<docVars, lock>>

\* The cutoffs are computed once, then the candidates are counted; a dry run
\* only reports the counts.
ComputeCutoffs(k) ==
  /\ run[k].at = "cutoffs"
  /\ run' = [run EXCEPT ![k].asOf = now,
                        ![k].at = IF run[k].confirm THEN "findCases"
                                                    ELSE "auditRun"]
  /\ UNCHANGED <<docVars, lock>>

-----------------------------------------------------------------------------
(* cleanupClosedCases                                                      *)

\* Mutant of FindCases: every closed case, however long it has been closed.
FindCasesClosed(k) ==
  LET found == {c \in Cases : /\ Present(c) /\ TenantOf[c] = TenantFor(k)
                              /\ cases[c].status = "closed"}
      docs == {d \in Docs : Stored(d) /\ rows[d].case \in found}
      x == [run[k] EXCEPT !.found = found, !.docs = docs, !.todo = found]
  IN  /\ run[k].at = "findCases"
      /\ \E y \in NextCase(x) : run' = [run EXCEPT ![k] = y]
      /\ UNCHANGED <<docVars, lock>>

FindCases(k) ==
  LET found == {c \in Cases : /\ Present(c) /\ TenantOf[c] = TenantFor(k)
                              /\ CaseExpired(c, run[k].asOf)}
      docs == {d \in Docs : Stored(d) /\ rows[d].case \in found}
      x == [run[k] EXCEPT !.found = found, !.docs = docs, !.todo = found]
  IN  /\ run[k].at = "findCases"
      /\ \E y \in NextCase(x) : run' = [run EXCEPT ![k] = y]
      /\ UNCHANGED <<docVars, lock>>

\* Mutant of AfterFiles: the case goes although a file of it is stuck.
AfterFilesAnyway(x) == {[x EXCEPT !.at = "deleteCase"]}

\* When the last file of the case is done: the case is skipped if one of its
\* files is stuck.
AfterFiles(x) ==
  IF x.stuck \cap DocsFound(x, x.case) = {}
  THEN {[x EXCEPT !.at = "deleteCase"]}
  ELSE NextCase(x)

\* deleteDocumentFileIfPresent: a missing file is as good as a deleted one.
UnlinkFile(k) ==
  /\ run[k].at = "unlinkFile"
  /\ \E d \in run[k].left, ok \in BOOLEAN :
       LET x == [run[k] EXCEPT !.left = @ \ {d},
                               !.stuck = IF ok THEN @ ELSE @ \cup {d}]
       IN  /\ files' = IF ok THEN files \ {d} ELSE files
           /\ \E y \in IF x.left = {} THEN AfterFiles(x) ELSE {x} :
                run' = [run EXCEPT ![k] = y]
  /\ UNCHANGED <<now, cases, rows, audit, served, requestVars, lock>>

\* deleteMany WHERE id: the closing time is not looked at again.  The rows of
\* the case's documents, whoever stored them since, go with it.
DeleteCase(k) ==
  LET c == run[k].case
  IN  /\ run[k].at = "deleteCase"
      /\ cases' = [cases EXCEPT ![c].removed = TRUE]
      /\ rows' = [d \in Docs |-> IF Stored(d) /\ rows[d].case = c
                                 THEN [rows[d] EXCEPT !.removed = TRUE]
                                 ELSE rows[d]]
      /\ \E y \in NextCase(run[k]) : run' = [run EXCEPT ![k] = y]
      /\ UNCHANGED <<now, files, audit, served, requestVars, lock>>

-----------------------------------------------------------------------------
(* deleteExpiredDocumentFiles and the purges, side by side.                *)

\* The sweep goes on with the documents left, or is over.
SweepOn(x) ==
  IF x.left = {} THEN Joined([x EXCEPT !.sweep = "over", !.doc = None])
                 ELSE [x EXCEPT !.sweep = "unlinkExpired", !.doc = None]

\* The documents of the cases found before, deleted or skipped, are left alone.
FindExpired(k) ==
  LET expired == {d \in Docs : /\ Stored(d)
                               /\ TenantOf[rows[d].case] = TenantFor(k)
                               /\ rows[d].case \notin run[k].found
                               /\ DocumentExpired(d, run[k].asOf)}
  IN  /\ run[k].sweep = "findExpired"
      /\ run' = [run EXCEPT ![k] = SweepOn([@ EXCEPT !.expired = expired,
                                                     !.left = expired])]
      /\ UNCHANGED <<docVars, lock>>

\* Mutant of UnlinkExpired: the row goes whatever became of the file.
UnlinkExpiredAnyway(k) ==
  /\ run[k].sweep = "unlinkExpired"
  /\ \E d \in run[k].left :
       /\ files' \in {files, files \ {d}}
       /\ run' = [run EXCEPT ![k].sweep = "deleteRow", ![k].doc = d,
                             ![k].left = @ \ {d}]
  /\ UNCHANGED <<now, cases, rows, audit, served, requestVars, lock>>

\* Mutant of UnlinkExpired: a file that is stuck is tried again.
UnlinkExpiredAgain(k) ==
  /\ run[k].sweep = "unlinkExpired"
  /\ \E d \in run[k].left :
       \/ /\ files' = files \ {d}
          /\ run' = [run EXCEPT ![k].sweep = "deleteRow", ![k].doc = d,
                                ![k].left = @ \ {d}]
       \/ /\ run' = [run EXCEPT ![k].stuck = @ \cup {d}]
          /\ UNCHANGED files
  /\ UNCHANGED <<now, cases, rows, audit, served, requestVars, lock>>

UnlinkExpired(k) ==
  /\ run[k].sweep = "unlinkExpired"
  /\ \E d \in run[k].left :
       LET x == [run[k] EXCEPT !.left = @ \ {d}]
       IN  \/ /\ files' = files \ {d}
              /\ run' = [run EXCEPT ![k] = [x EXCEPT !.sweep = "deleteRow",
                                                     !.doc = d]]
           \/ /\ run' = [run EXCEPT ![k] = SweepOn([x EXCEPT !.stuck = @ \cup {d}])]
              /\ UNCHANGED files
  /\ UNCHANGED <<now, cases, rows, audit, served, requestVars, lock>>

\* caseDocument.delete is an error if the row is gone.
DeleteRow(k) ==
  LET d == run[k].doc
  IN  /\ run[k].sweep = "deleteRow"
      /\ IF Stored(d)
         THEN /\ rows' = [rows EXCEPT ![d].removed = TRUE]
              /\ run' = [run EXCEPT ![k] = SweepOn(@)]
              /\ UNCHANGED lock
         ELSE /\ Rejected(k, [run[k] EXCEPT !.sweep = "over", !.doc = None])
              /\ UNCHANGED rows
      /\ UNCHANGED <<now, cases, files, audit, served, requestVars>>

\* A query of the sweep rejects: the sweep ends, and the run with it.
SweepFails(k) ==
  /\ run[k].sweep \in {"findExpired", "deleteRow"}
  /\ Rejected(k, [run[k] EXCEPT !.sweep = "over", !.doc = None])
  /\ UNCHANGED docVars

Purge(k) ==
  /\ \E p \in run[k].purging :
       run' = [run EXCEPT ![k] = Joined([run[k] EXCEPT !.purging = @ \ {p}])]
  /\ UNCHANGED <<docVars, lock>>

PurgeFails(k) ==
  /\ \E p \in run[k].purging :
       Rejected(k, [run[k] EXCEPT !.purging = @ \ {p}])
  /\ UNCHANGED docVars

-----------------------------------------------------------------------------
(* The end of a run.                                                       *)

AuditRun(k) ==
  /\ run[k].at = "auditRun"
  /\ run' = [run EXCEPT ![k].at = "maintenanceRun", ![k].reported = TRUE]
  /\ UNCHANGED <<docVars, lock>>

MaintenanceRun(k) ==
  /\ run[k].at = "maintenanceRun"
  /\ run' = [run EXCEPT ![k].at = "done"]
  /\ lock' = Released(k)
  /\ UNCHANGED docVars

\* A query of the main thread rejects.
FailCleanup(k) ==
  /\ run[k].at \in {"cutoffs", "findCases", "deleteCase", "auditRun",
                    "maintenanceRun"}
  /\ run' = [run EXCEPT ![k].at = "failed"]
  /\ lock' = Released(k)
  /\ UNCHANGED docVars

MainActive(k) == run[k].at \in MainSteps
SideActive(k) == run[k].sweep \in SweepSteps \/ run[k].purging # {}
Active(k) == MainActive(k) \/ SideActive(k)

\* The process dies, and its memory, the lock included, is gone.
Crash ==
  /\ (\E r \in Requests : InFlight(r)) \/ (\E k \in Cleanups : Active(k))
  /\ RequestsDie
  /\ lock' = {}
  /\ run' = [k \in Cleanups |->
               [run[k] EXCEPT !.at = IF MainActive(k) THEN "failed" ELSE @,
                              !.sweep = IF @ = "off" THEN @ ELSE "over",
                              !.purging = {}]]

-----------------------------------------------------------------------------

CaseLoopStep(k) == FindCases(k) \/ UnlinkFile(k) \/ DeleteCase(k)

SweepStep(k) ==
  FindExpired(k) \/ UnlinkExpired(k) \/ DeleteRow(k) \/ SweepFails(k)

PurgeStep(k) == Purge(k) \/ PurgeFails(k)

MainStep(k) ==
  \/ ComputeCutoffs(k) \/ CaseLoopStep(k) \/ AuditRun(k) \/ MaintenanceRun(k)
  \/ FailCleanup(k)

CleanupStep(k) == MainStep(k) \/ SweepStep(k) \/ PurgeStep(k)

Next ==
  \/ DocNext /\ UNCHANGED <<lock, run>>
  \/ \E k \in Cleanups :
       \/ CleanupStep(k)
       \/ \E confirm \in BOOLEAN :
            StartCleanup(k, confirm) \/ RefuseCleanup(k, confirm)
  \/ Crash

Spec == Init /\ [][Next]_vars

\* Every query and file operation of a cleanup settles.
FairSpec ==
  /\ Spec
  /\ \A k \in Cleanups : /\ WF_vars(MainStep(k))
                         /\ WF_vars(SweepStep(k))
                         /\ WF_vars(PurgeStep(k))

-----------------------------------------------------------------------------
(* Properties.                                                             *)

RemovedRow(d) == rows[d] # None /\ rows[d].removed

\* A step that removes a row is that of a cleanup of its tenant, which has it
\* at hand, and the row had expired or its time was set since the cleanup began.
OnlyDueRemoved ==
  /\ \A c \in Cases : cases'[c].removed /\ ~cases[c].removed =>
       \E k \in Cleanups :
         /\ run[k].at = "deleteCase" /\ run[k].case = c
         /\ TenantFor(k) = TenantOf[c]
         /\ \/ CaseExpired(c, run[k].asOf)
            \/ cases[c].closedAt = Never
            \/ cases[c].closedAt >= run[k].asOf
  /\ \A d \in Docs : RemovedRow(d)' /\ ~RemovedRow(d) =>
       \/ cases'[rows[d].case].removed
       \/ \E k \in Cleanups :
            /\ run[k].sweep = "deleteRow" /\ run[k].doc = d
            /\ TenantFor(k) = TenantOf[rows[d].case]
            /\ \/ DocumentExpired(d, run[k].asOf)
               \/ rows[d].deletedAt >= run[k].asOf

\* Only what has expired is deleted: a case whose closing time, or a document
\* whose deletion time, is within the retention period goes only if another
\* request set that time after the cleanup had begun (deleteMany and delete
\* look at the id alone), and a document also goes with its case.
OnlyExpiredGo == [][OnlyDueRemoved]_vars

\* "if physical deletion fails, metadata is retained for retry" (docs/03): a
\* cleanup never deletes the row of a document whose file it could not unlink,
\* neither with its case nor alone.
StuckFilesKeepMetadata ==
  [][\A k \in Cleanups, d \in Docs :
       /\ RemovedRow(d)' /\ ~RemovedRow(d)
       /\ run'[k] # run[k]
       => d \notin run[k].stuck]_vars

\* A file without a row is one being uploaded, one whose upload failed, or one
\* whose row went with a case that a cleanup had found before the row was
\* stored: that file nothing will ever delete.
RowlessFilesExplained ==
  \A d \in files :
    /\ rows[d] = None => pc[d] \in {"createRow", "failed"}
    /\ RemovedRow(d) => \E k \in Cleanups : /\ rows[d].case \in run[k].found
                                            /\ d \notin run[k].docs

\* A row without its file is one that a cleanup found expired, alone or with
\* its case; a document that is not even soft-deleted loses its file only with
\* an expired case.
FilelessRowsExplained ==
  \A d \in Docs : Stored(d) /\ d \notin files =>
    \E k \in Cleanups : \/ d \in run[k].docs /\ rows[d].case \in run[k].found
                        \/ d \in run[k].expired /\ rows[d].deletedAt # Never

\* The lock is held by exactly the tenants of confirmed cleanups whose main
\* thread runs, one per tenant: no way out of a cleanup, a conflict, a failure
\* or a dry run, takes another one's lock or leaves its own.
LockAgrees ==
  /\ lock = {TenantFor(k) : k \in {x \in Cleanups : MainActive(x) /\ run[x].confirm}}
  /\ \A k, l \in Cleanups :
       /\ MainActive(k) /\ run[k].confirm
       /\ MainActive(l) /\ run[l].confirm
       /\ TenantFor(k) = TenantFor(l)
       => k = l

\* A download that was served is audited; its document is of the case and the
\* municipality it was asked in and not kept from the user as sensitive; the
\* request found it live, in a case whose documents the user could read in the
\* department the case was in when the request came, whatever document and case
\* have become since (getDownloadForCase).
ServedAsAllowed ==
  \A r \in served :
    LET j == job[r]
    IN  /\ <<r, "document.downloaded">> \in audit
        /\ rows[j.doc].case = j.case /\ TenantOf[j.case] = TenantOf[j.user]
        /\ rows[j.doc].sensitive => Has(j.user, "document:read:sensitive")
        /\ seen[r].live
        /\ MayReadDocuments(j.user, seen[r].department)

\* The deletion time of a document, which its retention counts from, is set
\* once; only a second deletion that had found it live can move it.
DeletionTimeMovesByRace ==
  [][\A d \in Docs :
       Stored(d) /\ rows[d].deletedAt # Never
         /\ rows'[d].deletedAt # rows[d].deletedAt =>
         \E r, s \in Requests :
           /\ r # s /\ job[r] # None /\ job[s] # None
           /\ job[r] \in DocumentJob /\ job[s] \in DocumentJob
           /\ job[r].doc = d /\ job[s].doc = d
           /\ pc[r] = "setDeletedAt"
           /\ pc[s] \in {"auditDelete", "done", "failed"}]_vars

\* What the audit log says of a document happened: it was stored, soft-deleted,
\* or found live and then served, unless the request ended in an error: when the
\* cleanup unlinks the file behind the event no empty answer is given.  A cleanup
\* is reported only after it has settled.
DocumentAuditReportsFacts ==
  /\ \A r \in Requests :
       /\ <<r, "document.uploaded">> \in audit => rows[r] # None
       /\ <<r, "document.soft_deleted">> \in audit =>
            rows[job[r].doc].deletedAt # Never
       /\ <<r, "document.downloaded">> \in audit =>
            seen[r].live /\ (r \in served \/ pc[r] \in {"openStream", "failed"})
  /\ \A k \in Cleanups : run[k].reported => ~SideActive(k)

\* What a run may still have to do: the loop over its cases and their files, the
\* sweep, and what is left of the purges.
FilesPerCase == Cardinality(Docs) + 1

MainWork(x) ==
  CASE x.at \in Settled -> 0
    [] x.at = "maintenanceRun" -> 1
    [] x.at = "auditRun" -> 2
    [] x.at = "all" -> 3
    [] x.at = "deleteCase" -> 6 + Cardinality(x.todo) * FilesPerCase
    [] x.at = "unlinkFile" ->
         6 + Cardinality(x.todo) * FilesPerCase + Cardinality(x.left)
    [] x.at = "findCases" -> 7 + Cardinality(Cases) * FilesPerCase
    [] x.at = "cutoffs" -> 8 + Cardinality(Cases) * FilesPerCase
    [] x.at = "idle" -> 9 + Cardinality(Cases) * FilesPerCase

SweepWork(x) ==
  CASE x.sweep = "over" -> 0
    [] x.sweep = "deleteRow" -> 2 * Cardinality(x.left) + 2
    [] x.sweep = "unlinkExpired" -> 2 * Cardinality(x.left) + 1
    [] x.sweep = "findExpired" -> 2 * Cardinality(Docs) + 2
    [] x.sweep = "off" -> 2 * Cardinality(Docs) + 3

Work(x) == MainWork(x) + SweepWork(x) + Cardinality(x.purging)

\* Every step of a cleanup, in its loop or beside it, and every way out of it,
\* leaves it less to do: it takes up no case, file or row again, whatever fails
\* and whatever requests store meanwhile.
CleanupsWindDown ==
  [][\A k \in Cleanups : run'[k] # run[k] => Work(run'[k]) < Work(run[k])]_vars

\* A confirmed cleanup ends, and then another may start.
LockReleased == \A t \in Tenants : t \in lock ~> t \notin lock

-----------------------------------------------------------------------------
(* Requests and cleanups implement the life of a document.                 *)

StateOf ==
  [d \in Docs |-> IF rows[d] = None THEN "none"
                  ELSE IF rows[d].removed THEN "gone"
                  ELSE IF rows[d].deletedAt = Never THEN "live" ELSE "deleted"]

\* A row without a file has had one.
FileOf ==
  [d \in Docs |-> IF d \in files THEN "there"
                  ELSE IF rows[d] = None THEN "none" ELSE "gone"]

HomeOf == [d \in Docs |-> IF rows[d] = None THEN None ELSE rows[d].case]

PresentCases == {c \in Cases : Present(c)}
ClaimedCases == UNION {run[k].found : k \in Cleanups}

Lifecycle == INSTANCE DocumentLifecycle
               WITH Nowhere <- None, present <- PresentCases,
                    claimed <- ClaimedCases, home <- HomeOf,
                    state <- StateOf, file <- FileOf

\* Whatever happens to a document in the table and on disk, in one request, in
\* several or in a crash, is a step of its life.
ImplementsLifecycle == Lifecycle!Spec

\* A document row is never without its case, and a file that nothing will ever
\* delete is of a case that is gone: the sweep of single documents leaves none.
OrphansLostTheirCase == Lifecycle!OrphansLostTheirCase

\* The document table, the disk and the audit log agree but for what the order of
\* the writes of DocumentsService and of the cleanup explains.
DocumentRecordsAgree ==
  /\ TypeOK /\ RowlessFilesExplained /\ FilelessRowsExplained
  /\ DocumentAuditReportsFacts /\ OrphansLostTheirCase

-----------------------------------------------------------------------------
(* What the documentation and the tests say and the code does not do.      *)

\* "rejects concurrent confirmed cleanup for the same tenant"
\* (privacy.service.spec.ts): two confirmed cleanups of a tenant never work at
\* the same time.
OneCleanupAtATime ==
  \A k, l \in Cleanups :
    /\ Active(k) /\ run[k].confirm
    /\ Active(l) /\ run[l].confirm
    /\ TenantFor(k) = TenantFor(l)
    => k = l

\* "Confirmed cleanup removes expired physical uploaded files before deleting
\* document metadata" (docs/03): no file outlives the row that a cleanup
\* deleted.
FilesGoBeforeMetadata == \A d \in files : ~RemovedRow(d)

=============================================================================
