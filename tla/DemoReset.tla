------------------------------ MODULE DemoReset ------------------------------
(***************************************************************************)
(* The command that resets the portfolio demo, apps/api/prisma/demo-reset, *)
(* while visitors use it: it lists the expired visitor cases, deletes them *)
(* and all activity on the seed cases in one transaction, removes the      *)
(* listed files one by one, restores the seed cases one by one, each in    *)
(* four steps, and deletes and rebuilds the analytics of the seed.         *)
(*                                                                         *)
(* cron may start it while the previous one still runs.  Nothing remembers *)
(* how far a run that failed had come.                                     *)
(***************************************************************************)
EXTENDS FiniteSets

CONSTANTS
  ResetRuns,
  VisitorCases,
  Uploads,       \* the documents visitors may attach
  CaseOf,        \* [Uploads -> VisitorCases]
  SeedCases,
  SeedDays       \* the days the seed cases were created on

ASSUME ResetAssumption == CaseOf \in [Uploads -> VisitorCases]

VARIABLES
  reset,       \* [ResetRuns -> where the run is]
  listed,      \* [ResetRuns -> the cases it found expired]
  listedDocs,  \* [ResetRuns -> their documents at that time]
  toRemove,    \* [ResetRuns -> the files it still has to remove]
  toRestore,   \* [ResetRuns -> the seed cases it still has to restore]
  halfDone,    \* [ResetRuns -> the one whose row it has written but not all its records]
  toRebuild,   \* [ResetRuns -> the days whose analytics it still has to write]
  visitorRows, \* the visitor cases in the database
  expired,     \* those older than the cutoff
  upload,      \* [Uploads -> where the visitor's upload is]
  docRows,     \* the uploads with a row
  disk,        \* the uploads with a file
  seedRow,     \* [SeedCases -> who wrote the row last]
  activity,    \* [SeedCases -> its own records, and whether it has a visitor's]
  snapshots    \* the days with analytics

resetVars == <<reset, listed, listedDocs, toRemove, toRestore, halfDone, toRebuild>>
demoVars == <<visitorRows, expired, upload, docRows, disk, seedRow, activity,
              snapshots>>
resetAndDemoVars == <<resetVars, demoVars>>

Authors == {"seed", "visitor"}
Records == {"triage", "mails", "audit"}
ResetSteps == {"transaction", "files", "restore", "clear", "analytics"} \cup Records

ResetTypeOK ==
  /\ reset \in [ResetRuns -> {"idle", "done", "failed"} \cup ResetSteps]
  /\ listed \in [ResetRuns -> SUBSET VisitorCases]
  /\ listedDocs \in [ResetRuns -> SUBSET Uploads]
  /\ toRemove \in [ResetRuns -> SUBSET Uploads]
  /\ toRestore \in [ResetRuns -> SUBSET SeedCases]
  /\ halfDone \in [ResetRuns -> SUBSET SeedCases]
  /\ toRebuild \in [ResetRuns -> SUBSET SeedDays]
  /\ visitorRows \subseteq VisitorCases /\ expired \subseteq VisitorCases
  /\ upload \in [Uploads -> {"none", "written", "stored", "refused"}]
  /\ docRows \subseteq Uploads /\ disk \subseteq Uploads
  /\ seedRow \in [SeedCases -> Authors]
  /\ activity \in [SeedCases -> SUBSET (Records \cup {"visitor"})]
  /\ snapshots \subseteq SeedDays

ResetInit ==
  /\ reset = [r \in ResetRuns |-> "idle"]
  /\ listed = [r \in ResetRuns |-> {}]
  /\ listedDocs = [r \in ResetRuns |-> {}]
  /\ toRemove = [r \in ResetRuns |-> {}]
  /\ toRestore = [r \in ResetRuns |-> {}]
  /\ halfDone = [r \in ResetRuns |-> {}]
  /\ toRebuild = [r \in ResetRuns |-> {}]
  /\ visitorRows = VisitorCases /\ expired = {}
  /\ upload = [d \in Uploads |-> "none"]
  /\ docRows = {} /\ disk = {}
  /\ seedRow = [s \in SeedCases |-> "seed"]
  /\ activity = [s \in SeedCases |-> Records]
  /\ snapshots = SeedDays

-----------------------------------------------------------------------------
(* The visitors.                                                           *)

GrowOld(c) ==
  /\ c \notin expired
  /\ expired' = expired \cup {c}
  /\ UNCHANGED <<resetVars, visitorRows, upload, docRows, disk, seedRow, activity,
                 snapshots>>

WriteUpload(d) ==
  /\ upload[d] = "none" /\ CaseOf[d] \in visitorRows
  /\ upload' = [upload EXCEPT ![d] = "written"]
  /\ disk' = disk \cup {d}
  /\ UNCHANGED <<resetVars, visitorRows, expired, docRows, seedRow, activity,
                 snapshots>>

\* The row refers to its case.  The file of a refused row is left behind.
StoreUpload(d) ==
  /\ upload[d] = "written"
  /\ IF CaseOf[d] \in visitorRows
     THEN /\ upload' = [upload EXCEPT ![d] = "stored"]
          /\ docRows' = docRows \cup {d}
     ELSE /\ upload' = [upload EXCEPT ![d] = "refused"]
          /\ UNCHANGED docRows
  /\ UNCHANGED <<resetVars, visitorRows, expired, disk, seedRow, activity,
                 snapshots>>

\* A status change, a triage run, a review or a note on a seed case.
WorkOnSeed(s) ==
  /\ seedRow' = [seedRow EXCEPT ![s] = "visitor"]
  /\ activity' = [activity EXCEPT ![s] = @ \cup {"visitor"}]
  /\ UNCHANGED <<resetVars, visitorRows, expired, upload, docRows, disk, snapshots>>

-----------------------------------------------------------------------------
(* runDemoReset.                                                           *)

ListExpired(r) ==
  /\ reset[r] = "idle"
  /\ reset' = [reset EXCEPT ![r] = "transaction"]
  /\ listed' = [listed EXCEPT ![r] = visitorRows \cap expired]
  /\ listedDocs' = [listedDocs EXCEPT ![r] = {d \in docRows : CaseOf[d] \in listed'[r]}]
  /\ UNCHANGED <<toRemove, toRestore, halfDone, toRebuild, demoVars>>

\* Mutant: with nothing expired the run is over.
DeleteVisitorsReturns(r) ==
  /\ reset[r] = "transaction"
  /\ reset' = [reset EXCEPT ![r] = IF listed[r] = {} THEN "done" ELSE "files"]
  /\ activity' = [s \in SeedCases |-> {}]
  /\ visitorRows' = visitorRows \ listed[r]
  /\ docRows' = {d \in docRows : CaseOf[d] \notin listed[r]}
  /\ toRemove' = [toRemove EXCEPT ![r] = listedDocs[r]]
  /\ toRestore' = [toRestore EXCEPT ![r] = SeedCases]
  /\ UNCHANGED <<listed, listedDocs, halfDone, toRebuild, expired, upload, disk,
                 seedRow, snapshots>>

\* The rows of the documents go with their case, the later ones as well.
DeleteVisitors(r) ==
  /\ reset[r] = "transaction"
  /\ reset' = [reset EXCEPT ![r] = "files"]
  /\ activity' = [s \in SeedCases |-> {}]
  /\ visitorRows' = visitorRows \ listed[r]
  /\ docRows' = {d \in docRows : CaseOf[d] \notin listed[r]}
  /\ toRemove' = [toRemove EXCEPT ![r] = listedDocs[r]]
  /\ toRestore' = [toRestore EXCEPT ![r] = SeedCases]
  /\ UNCHANGED <<listed, listedDocs, halfDone, toRebuild, expired, upload, disk,
                 seedRow, snapshots>>

RemoveFile(r, d) ==
  /\ reset[r] = "files" /\ d \in toRemove[r]
  /\ toRemove' = [toRemove EXCEPT ![r] = @ \ {d}]
  /\ disk' = disk \ {d}
  /\ UNCHANGED <<reset, listed, listedDocs, toRestore, halfDone, toRebuild, visitorRows, expired,
                 upload, docRows, seedRow, activity,
                 snapshots>>

FilesRemoved(r) ==
  /\ reset[r] = "files" /\ toRemove[r] = {}
  /\ reset' = [reset EXCEPT ![r] = "restore"]
  /\ UNCHANGED <<listed, listedDocs, toRemove, toRestore, halfDone, toRebuild, demoVars>>

\* seedCase: the row, the address and the documents, always under the same ids...
RestoreRow(r, s) ==
  /\ reset[r] = "restore" /\ s \in toRestore[r]
  /\ reset' = [reset EXCEPT ![r] = "triage"]
  /\ halfDone' = [halfDone EXCEPT ![r] = {s}]
  /\ seedRow' = [seedRow EXCEPT ![s] = "seed"]
  /\ UNCHANGED <<listed, listedDocs, toRemove, toRestore, toRebuild, visitorRows, expired,
                 upload, docRows, disk, activity, snapshots>>

RestoreRecord(r, s, record, then) ==
  /\ reset[r] = record /\ s \in halfDone[r]
  /\ reset' = [reset EXCEPT ![r] = then]
  /\ activity' = [activity EXCEPT ![s] = @ \cup {record}]
  /\ UNCHANGED <<listed, listedDocs, toRemove, toRebuild, visitorRows, expired, upload,
                 docRows, disk, seedRow, snapshots>>

\* ... seedAi, the triage result and its review...
RestoreTriage(r, s) ==
  RestoreRecord(r, s, "triage", "mails") /\ UNCHANGED <<toRestore, halfDone>>

\* ... seedEmailLogs...
RestoreMails(r, s) ==
  RestoreRecord(r, s, "mails", "audit") /\ UNCHANGED <<toRestore, halfDone>>

\* ... and seedCaseAudit.
RestoreAudit(r, s) ==
  /\ RestoreRecord(r, s, "audit", "restore")
  /\ toRestore' = [toRestore EXCEPT ![r] = @ \ {s}]
  /\ halfDone' = [halfDone EXCEPT ![r] = {}]

SeedsRestored(r) ==
  /\ reset[r] = "restore" /\ toRestore[r] = {}
  /\ reset' = [reset EXCEPT ![r] = "clear"]
  /\ UNCHANGED <<listed, listedDocs, toRemove, toRestore, halfDone, toRebuild, demoVars>>

\* rebuildDemoAnalytics computes from the seed data, not from the rows, after it
\* has deleted what there was, in a transaction.
DeleteDemoAnalytics(r) ==
  /\ reset[r] = "clear"
  /\ reset' = [reset EXCEPT ![r] = "analytics"]
  /\ toRebuild' = [toRebuild EXCEPT ![r] = SeedDays]
  /\ snapshots' = {}
  /\ UNCHANGED <<listed, listedDocs, toRemove, toRestore, halfDone, visitorRows, expired,
                 upload, docRows, disk, seedRow, activity>>

\* seedAnalytics, one day after the other.
SeedAnalytics(r, day) ==
  /\ reset[r] = "analytics" /\ day \in toRebuild[r]
  /\ toRebuild' = [toRebuild EXCEPT ![r] = @ \ {day}]
  /\ snapshots' = snapshots \cup {day}
  /\ reset' = [reset EXCEPT ![r] = IF toRebuild[r] = {day} THEN "done" ELSE "analytics"]
  /\ UNCHANGED <<listed, listedDocs, toRemove, toRestore, halfDone, visitorRows, expired,
                 upload, docRows, disk, seedRow, activity>>

\* A query or a removal fails, or the command is killed; what it did stays.
FailReset(r) ==
  /\ reset[r] \in ResetSteps
  /\ reset' = [reset EXCEPT ![r] = "failed"]
  /\ UNCHANGED <<listed, listedDocs, toRemove, toRestore, halfDone, toRebuild, demoVars>>

ResetStep(r) ==
  \/ DeleteVisitors(r) \/ FilesRemoved(r) \/ SeedsRestored(r)
  \/ DeleteDemoAnalytics(r) \/ FailReset(r)
  \/ \E d \in Uploads : RemoveFile(r, d)
  \/ \E s \in SeedCases :
       RestoreRow(r, s) \/ RestoreTriage(r, s) \/ RestoreMails(r, s) \/ RestoreAudit(r, s)
  \/ \E day \in SeedDays : SeedAnalytics(r, day)

ResetNext ==
  \/ \E r \in ResetRuns : ListExpired(r) \/ ResetStep(r)
  \/ \E c \in VisitorCases : GrowOld(c)
  \/ \E d \in Uploads : WriteUpload(d) \/ StoreUpload(d)
  \/ \E s \in SeedCases : WorkOnSeed(s)

-----------------------------------------------------------------------------
(* Properties.                                                             *)

RestoringOrFailed(r) == reset[r] \in {"files", "restore", "failed"} \cup Records

\* runDemoReset: a seed case lacks its own triage, mails or audit events, or has
\* a visitor's changes without their records, only while some run is about to
\* restore it, or after a run that failed; a run that finds no expired visitor
\* case restores the seeds as well.
SeedsLeftWhole ==
  \A s \in SeedCases :
    /\ Records \subseteq activity[s] \/
         \E r \in ResetRuns : RestoringOrFailed(r) /\ s \in toRestore[r]
    /\ seedRow[s] = "visitor" /\ "visitor" \notin activity[s] =>
         \E r \in ResetRuns :
           RestoringOrFailed(r) /\ s \in toRestore[r] \ halfDone[r]

\* A day of the demo has its analytics unless some run is about to write them,
\* or has failed; two runs that overlap do not lose a day between them.
DemoDaysExplained ==
  \A day \in SeedDays \ snapshots :
    \E r \in ResetRuns : reset[r] \in {"analytics", "failed"} /\ day \in toRebuild[r]

\* A visitor's document has its file as long as it has its row.  A file without
\* a row is being stored or was refused its row, came after every run that
\* deleted its case had listed the documents, or is on the list of a run that
\* still removes files or has failed.
ResetFilesExplained ==
  /\ docRows \subseteq disk
  /\ \A d \in disk \ docRows :
       \/ upload[d] \in {"written", "refused"}
       \/ \E r \in ResetRuns :
            /\ CaseOf[d] \in listed[r]
            /\ \/ d \notin listedDocs[r]
               \/ d \in toRemove[r] /\ reset[r] \in {"files", "failed"}

\* What a reset of the demo leaves behind, of seeds, analytics and files, is whole
\* or explained by a run that goes on or has failed.
ResetExplained == SeedsLeftWhole /\ DemoDaysExplained /\ ResetFilesExplained

=============================================================================
